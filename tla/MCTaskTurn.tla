------------------------------ MODULE MCTaskTurn ------------------------------
(* TaskTurn with two runtimes, in what happens alike. *)
EXTENDS TaskTurn, TLC

CONSTANTS r1, r2

TwoRuntimes == {r1, r2}
EitherFirst == Permutations(TwoRuntimes)
=============================================================================
