----------------------------- MODULE ServerLease -----------------------------
(***************************************************************************)
(* What a server pool promises its users (crates/shidou-core/src/          *)
(* opencode_pool.rs and deepseek_pool.rs): the users of a workspace share  *)
(* one resident server, a server is never stopped under a user that holds  *)
(* it, and no second server runs beside a living one.                      *)
(***************************************************************************)
EXTENDS Naturals

CONSTANT Users          \* sessions, their workers and one-off requests

VARIABLES
    started,            \* servers started so far; server g is the g-th
    running,            \* servers whose process is running
    stopped,            \* servers the pool terminated
    lease               \* the server each user holds, or 0

lvars == <<started, running, stopped, lease>>

Init ==
    /\ started = 0
    /\ running = {}
    /\ stopped = {}
    /\ lease = [u \in Users |-> 0]

Start ==
    /\ running = {}
    /\ started' = started + 1
    /\ running' = {started'}
    /\ UNCHANGED <<stopped, lease>>

\* A server may exit by itself at any time, also right before it is handed out.
Exit ==
    /\ running # {}
    /\ running' = {}
    /\ UNCHANGED <<started, stopped, lease>>

Attach(u) ==
    /\ lease[u] = 0
    /\ started # 0 /\ started \notin stopped
    /\ lease' = [lease EXCEPT ![u] = started]
    /\ UNCHANGED <<started, running, stopped>>

\* A user hands a second handle of the server it holds to another one.
Share(u, v) ==
    /\ lease[u] # 0 /\ lease[v] = 0
    /\ lease' = [lease EXCEPT ![v] = lease[u]]
    /\ UNCHANGED <<started, running, stopped>>

Release(u) ==
    /\ lease[u] # 0
    /\ lease' = [lease EXCEPT ![u] = 0]
    /\ UNCHANGED <<started, running, stopped>>

\* Only a server nobody holds is stopped.
Stop(g) ==
    /\ g \in 1..started
    /\ \A u \in Users : lease[u] # g
    /\ stopped' = stopped \cup {g}
    /\ running' = running \ {g}
    /\ UNCHANGED <<started, lease>>

Next ==
    \/ Start
    \/ Exit
    \/ \E g \in 1..started : Stop(g)
    \/ \E u \in Users : Attach(u) \/ Release(u)
    \/ \E u, v \in Users : Share(u, v)

Spec == Init /\ [][Next]_lvars

=============================================================================
