----------------------------- MODULE MCEventHub -----------------------------
(* Instances of EventHub for TLC. *)
EXTENDS EventHub, TLC

CONSTANTS s1, s2, r1, r2, t1

\* One session whose runtime is replaced.
OneSession == r1 :> s1 @@ r2 :> s1

\* A task and a terminal side by side.
TaskAndTerminal == r1 :> s1 @@ t1 :> s2

=============================================================================
