--------------------------- MODULE RequestService ---------------------------
(***************************************************************************)
(* What the daemon's request dispatcher promises for the commands that act *)
(* on a session's runtime (crates/shidou-core/src/server.rs): each session *)
(* is an actor, which serves one command at a time, in the order they were *)
(* accepted.  An actor that dies takes what it had accepted with it.       *)
(***************************************************************************)
EXTENDS Naturals, Sequences

CONSTANTS Sessions

VARIABLES
    accepted,       \* how many commands were numbered so far
    waiting,        \* the numbers of the accepted commands of each session
    serving         \* the one being served, or 0

vars == <<accepted, waiting, serving>>

Init ==
    /\ accepted = 0
    /\ waiting = [s \in Sessions |-> <<>>]
    /\ serving = [s \in Sessions |-> 0]

\* A command comes in, and the session's actor takes it or (no thread could be
\* started for it) it is refused.
Accept(s) ==
    /\ accepted' = accepted + 1
    /\ waiting' = [waiting EXCEPT ![s] = Append(@, accepted + 1)]
    /\ UNCHANGED serving

Refuse(s) ==
    /\ waiting[s] = <<>> /\ serving[s] = 0
    /\ accepted' = accepted + 1
    /\ UNCHANGED <<waiting, serving>>

Serve(s) ==
    /\ serving[s] = 0
    /\ waiting[s] # <<>>
    /\ serving' = [serving EXCEPT ![s] = Head(waiting[s])]
    /\ waiting' = [waiting EXCEPT ![s] = Tail(@)]
    /\ UNCHANGED accepted

Finish(s) ==
    /\ serving[s] # 0
    /\ serving' = [serving EXCEPT ![s] = 0]
    /\ UNCHANGED <<accepted, waiting>>

Die(s) ==
    /\ serving[s] # 0
    /\ serving' = [serving EXCEPT ![s] = 0]
    /\ waiting' = [waiting EXCEPT ![s] = <<>>]
    /\ UNCHANGED accepted

Next == \E s \in Sessions : Accept(s) \/ Refuse(s) \/ Serve(s) \/ Finish(s) \/ Die(s)

Spec == Init /\ [][Next]_vars

=============================================================================
