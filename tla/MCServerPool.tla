---------------------------- MODULE MCServerPool ----------------------------
(* Instances of ServerPool for TLC. *)
EXTENDS ServerPool

CONSTANTS u1, u2, u3

=============================================================================
