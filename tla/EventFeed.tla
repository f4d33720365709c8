----------------------------- MODULE EventFeed -----------------------------
(***************************************************************************)
(* What the daemon's event hub promises (crates/shidou-core/src/server.rs) *)
(* to the backend and to the connections.  The events of a running runtime *)
(* come one at a time: each is numbered, taken by the backend, and then    *)
(* heard by everybody who listens, before the next one is numbered.  Who   *)
(* joins has heard of all there were, and misses none from then on.        *)
(***************************************************************************)
EXTENDS Naturals

CONSTANTS Sessions, Runtimes, SessionOf, Clients

VARIABLES
    running,        \* runtimes whose events are let in, one of a session
    count,          \* how many events of each were numbered
    taken,          \* how many of them the backend has taken
    joined,         \* who listens
    heard           \* which of them each has had, or was told it cannot have

vars == <<running, count, taken, joined, heard>>

Init ==
    /\ running = {}
    /\ count = [r \in Runtimes |-> 0]
    /\ taken = [r \in Runtimes |-> 0]
    /\ joined = {}
    /\ heard = [c \in Clients |-> [r \in Runtimes |-> {}]]

Number(r) ==
    /\ r \in running
    /\ taken[r] = count[r] /\ \A c \in joined : heard[c][r] = 1..count[r]
    /\ count' = [count EXCEPT ![r] = @ + 1]
    /\ UNCHANGED <<running, taken, joined, heard>>

Take(r) ==
    /\ r \in running /\ taken[r] < count[r]
    /\ taken' = [taken EXCEPT ![r] = count[r]]
    /\ UNCHANGED <<running, count, joined, heard>>

Deliver(r) ==
    /\ r \in running /\ taken[r] = count[r]
    /\ heard' = [c \in Clients |-> IF c \in joined
                                   THEN [heard[c] EXCEPT ![r] = 1..count[r]]
                                   ELSE heard[c]]
    /\ UNCHANGED <<running, count, taken, joined>>

OfSession(s) == {r \in Runtimes : SessionOf[r] = s}

\* A session's runtime is replaced, or ends; what was said of it is forgotten.
Change(s, next) ==
    /\ running' = (running \ OfSession(s)) \cup next
    /\ count' = [r \in Runtimes |-> IF SessionOf[r] = s THEN 0 ELSE count[r]]
    /\ taken' = [r \in Runtimes |-> IF SessionOf[r] = s THEN 0 ELSE taken[r]]
    /\ heard' = [c \in Clients |-> [r \in Runtimes |-> IF SessionOf[r] = s THEN {}
                                                       ELSE heard[c][r]]]
    /\ UNCHANGED joined

Join(c) ==
    /\ c \notin joined
    /\ joined' = joined \cup {c}
    /\ heard' = [heard EXCEPT ![c] = [r \in Runtimes |-> 1..count[r]]]
    /\ UNCHANGED <<running, count, taken>>

Leave(c) ==
    /\ c \in joined
    /\ joined' = joined \ {c}
    /\ heard' = [heard EXCEPT ![c] = [r \in Runtimes |-> {}]]
    /\ UNCHANGED <<running, count, taken>>

Next ==
    \/ \E r \in Runtimes : Number(r) \/ Take(r) \/ Deliver(r)
    \/ \E s \in Sessions :
          \E next \in {{}} \cup {{r} : r \in OfSession(s) \ running} : Change(s, next)
    \/ \E c \in Clients : Join(c) \/ Leave(c)

Spec == Init /\ [][Next]_vars

=============================================================================
