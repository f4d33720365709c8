------------------------------ MODULE ServerPool ------------------------------
(***************************************************************************)
(* The pool of resident provider servers of crates/shidou-core/src/        *)
(* opencode_pool.rs; deepseek_pool.rs is the same algorithm.  One slot (a  *)
(* mutex, a condition variable and a state) per key is shared by the       *)
(* threads that acquire, clone and drop handles.  The map of slots never   *)
(* removes one, so the slots do not interact and one is modelled.          *)
(*                                                                         *)
(* An action is one critical section of the slot's mutex, or one step      *)
(* outside it.  The state Stopping is not seen by any other thread: the    *)
(* mutex is held from it to Vacant.                                        *)
(***************************************************************************)
EXTENDS Naturals, FiniteSets

CONSTANTS
    Users,          \* threads that acquire, share and drop handles
    Nobody,         \* no user
    MaxServers      \* bound: processes started

ASSUME PoolAssumption ==
    /\ Nobody \notin Users
    /\ MaxServers \in Nat

VARIABLES
    slot,           \* PoolState; `server` of Running, the user that is Starting
    started,        \* processes spawned so far; a server is named by its number
    running,        \* servers whose process is alive
    lease,          \* the handle (an Arc of PoolInner) a user holds, or 0
    doing,          \* where a user is in acquire or in a handle's destructor
    stopped         \* history: servers the pool terminated

vars == <<slot, started, running, lease, doing, stopped>>

Vacant          == [state |-> "vacant", server |-> 0, by |-> Nobody]
Starting(u)     == [state |-> "starting", server |-> 0, by |-> u]
RunningSlot(g)  == [state |-> "running", server |-> g, by |-> Nobody]

At(step, g) == [at |-> step, server |-> g]
Idle == At("idle", 0)

Init ==
    /\ slot = Vacant
    /\ started = 0
    /\ running = {}
    /\ lease = [u \in Users |-> 0]
    /\ doing = [u \in Users |-> Idle]
    /\ stopped = {}

-----------------------------------------------------------------------------
\* The strong references of a server: its handles and the one acquire upgrades
\* to compare a dead server's, which it drops outside the mutex.
Strong(g) == {u \in Users : lease[u] = g \/ doing[u] = At("superseded", g)}

\* mutant: the waiting threads are not notified
WakeNobody(d) == d

\* changed.notify_all
NotifyAll(d) ==
    [u \in Users |-> IF d[u].at = "waiting" THEN At("acquire", 0) ELSE d[u]]

Moved(u, step, g) == [doing EXCEPT ![u] = At(step, g)]

Acquire(u) ==
    /\ doing[u] = Idle
    /\ lease[u] = 0
    /\ doing' = Moved(u, "acquire", 0)
    /\ UNCHANGED <<slot, started, running, lease, stopped>>

\* The weak reference of the slot can be upgraded and its process is alive.
Attach(u) ==
    /\ doing[u].at = "acquire"
    /\ slot.state = "running"
    /\ Strong(slot.server) # {}
    /\ slot.server \in running
    /\ lease' = [lease EXCEPT ![u] = slot.server]
    /\ doing' = [doing EXCEPT ![u] = Idle]
    /\ UNCHANGED <<slot, started, running, stopped>>

\* mutant: a server is superseded without asking whether its process is alive
SupersedeAny(u) ==
    /\ doing[u].at = "acquire"
    /\ slot.state = "running"
    /\ Strong(slot.server) # {}
    /\ slot' = Starting(u)
    /\ doing' = Moved(u, "superseded", slot.server)
    /\ UNCHANGED <<started, running, lease, stopped>>

\* It can be upgraded, and the process has exited: replace the generation.
Supersede(u) ==
    /\ doing[u].at = "acquire"
    /\ slot.state = "running"
    /\ Strong(slot.server) # {}
    /\ slot.server \notin running
    /\ slot' = Starting(u)
    /\ doing' = Moved(u, "superseded", slot.server)
    /\ UNCHANGED <<started, running, lease, stopped>>

TakeVacancy(u) ==
    /\ doing[u].at = "acquire"
    /\ slot.state = "vacant"
    /\ slot' = Starting(u)
    /\ doing' = Moved(u, "start", 0)
    /\ UNCHANGED <<started, running, lease, stopped>>

\* The last handle is gone and its destructor has yet to take the mutex, or
\* another user is starting a server.
Wait(u) ==
    /\ doing[u].at = "acquire"
    /\ \/ slot.state = "starting"
       \/ slot.state = "running" /\ Strong(slot.server) = {}
    /\ doing' = Moved(u, "waiting", 0)
    /\ UNCHANGED <<slot, started, running, lease, stopped>>

SpuriousWakeup(u) ==
    /\ doing[u].at = "waiting"
    /\ doing' = Moved(u, "acquire", 0)
    /\ UNCHANGED <<slot, started, running, lease, stopped>>

\* drop(superseded), in acquire: runs the destructor when it was the last one.
DropSuperseded(u) ==
    LET g == doing[u].server
    IN  /\ doing[u].at = "superseded"
        /\ doing' = IF Strong(g) = {u} THEN Moved(u, "dropping", g)
                    ELSE Moved(u, "start", 0)
        /\ UNCHANGED <<slot, started, running, lease, stopped>>

\* start(): spawn the process, then probe it.
Spawn(u) ==
    /\ doing[u].at = "start"
    /\ started < MaxServers                                         \* bound
    /\ started' = started + 1
    /\ running' = running \cup {started + 1}
    /\ doing' = Moved(u, "probe", started + 1)
    /\ UNCHANGED <<slot, lease, stopped>>

Ready(u) ==
    LET g == doing[u].server
    IN  /\ doing[u].at = "probe"
        /\ slot' = RunningSlot(g)
        /\ lease' = [lease EXCEPT ![u] = g]
        /\ doing' = NotifyAll([doing EXCEPT ![u] = Idle])
        /\ UNCHANGED <<started, running, stopped>>

\* mutant: a server that never became healthy is left running
StartFailedLeaking(u) ==
    /\ doing[u].at \in {"start", "probe"}
    /\ slot' = Vacant
    /\ doing' = NotifyAll([doing EXCEPT ![u] = Idle])
    /\ UNCHANGED <<started, running, lease, stopped>>

\* The process cannot be spawned, exits, or is not healthy in time: dropping
\* the OpenCodeServer kills it before the slot is vacated.
StartFailed(u) ==
    /\ doing[u].at \in {"start", "probe"}
    /\ running' = running \ {doing[u].server}
    /\ stopped' = stopped \cup ({doing[u].server} \ {0})
    /\ slot' = Vacant
    /\ doing' = NotifyAll([doing EXCEPT ![u] = Idle])
    /\ UNCHANGED <<started, lease>>

-----------------------------------------------------------------------------
\* A handle is cloned for another thread (the driver and its worker).
Clone(u, v) ==
    /\ lease[u] # 0 /\ doing[u] = Idle
    /\ lease[v] = 0 /\ doing[v] = Idle
    /\ lease' = [lease EXCEPT ![v] = lease[u]]
    /\ UNCHANGED <<slot, started, running, doing, stopped>>

\* A handle is dropped; the last one runs the destructor of PoolInner.
Release(u) ==
    /\ lease[u] # 0 /\ doing[u] = Idle
    /\ lease' = [lease EXCEPT ![u] = 0]
    /\ doing' = IF Strong(lease[u]) = {u} THEN Moved(u, "dropping", lease[u])
                ELSE doing
    /\ UNCHANGED <<slot, started, running, stopped>>

\* mutant: the destructor does not compare its generation with the slot's
AnyIsCurrent(g) == slot.state = "running"

IsCurrent(g) == slot.state = "running" /\ slot.server = g

\* The destructor of the slot's own server: stopped with the mutex held.
DropCurrent(u) ==
    LET g == doing[u].server
    IN  /\ doing[u].at = "dropping"
        /\ IsCurrent(g)
        /\ running' = running \ {g}
        /\ stopped' = stopped \cup {g}
        /\ slot' = Vacant
        /\ doing' = NotifyAll([doing EXCEPT ![u] = Idle])
        /\ UNCHANGED <<started, lease>>

\* mutant: the destructor waits for a start to be over
DropStaleLater(u) ==
    /\ doing[u].at = "dropping"
    /\ ~IsCurrent(doing[u].server) /\ slot.state # "starting"
    /\ doing' = Moved(u, "reaping", doing[u].server)
    /\ UNCHANGED <<slot, started, running, lease, stopped>>

\* The destructor of a superseded one: stopped after the mutex is released.
DropStale(u) ==
    /\ doing[u].at = "dropping"
    /\ ~IsCurrent(doing[u].server)
    /\ doing' = Moved(u, "reaping", doing[u].server)
    /\ UNCHANGED <<slot, started, running, lease, stopped>>

\* Back to acquire when the destructor ran inside it.
Reap(u) ==
    /\ doing[u].at = "reaping"
    /\ running' = running \ {doing[u].server}
    /\ stopped' = stopped \cup {doing[u].server}
    /\ doing' = IF slot.by = u THEN Moved(u, "start", 0)
                ELSE [doing EXCEPT ![u] = Idle]
    /\ UNCHANGED <<slot, started, lease>>

\* A server exits by itself.
ProcessExits(g) ==
    /\ g \in running
    /\ running' = running \ {g}
    /\ UNCHANGED <<slot, started, lease, doing, stopped>>

-----------------------------------------------------------------------------
AcquireStep(u) ==
    Attach(u) \/ Supersede(u) \/ TakeVacancy(u) \/ Wait(u)

StartStep(u) == Spawn(u) \/ Ready(u) \/ StartFailed(u)

DestructorStep(u) ==
    DropSuperseded(u) \/ DropCurrent(u) \/ DropStale(u) \/ Reap(u)

Next ==
    \/ \E u \in Users :
         \/ Acquire(u) \/ AcquireStep(u) \/ SpuriousWakeup(u)
         \/ StartStep(u) \/ DestructorStep(u) \/ Release(u)
    \/ \E u, v \in Users : Clone(u, v)
    \/ \E g \in running : ProcessExits(g)

\* A thread inside the pool goes on: starting has a time limit, stopping ends
\* in a kill, the rest is straight-line code.  Nothing makes a user release its
\* handle, a server exit or a wait end by itself.
Fairness ==
    \A u \in Users : /\ WF_vars(AcquireStep(u))
                     /\ WF_vars(StartStep(u))
                     /\ WF_vars(DestructorStep(u))

Spec == Init /\ [][Next]_vars
FairSpec == Spec /\ Fairness

-----------------------------------------------------------------------------
(* Properties *)

Servers == 1..started

Steps == {"idle", "acquire", "waiting", "superseded", "start", "probe",
          "dropping", "reaping"}

\* The slot names a started server or the thread that starts one.
TypeOK ==
    /\ started \in Nat
    /\ running \subseteq Servers
    /\ stopped \subseteq Servers
    /\ lease \in [Users -> {0} \cup Servers]
    /\ doing \in [Users -> [at : Steps, server : {0} \cup Servers]]
    /\ \/ slot = Vacant
       \/ \E u \in Users : slot = Starting(u)
       \/ \E g \in Servers : slot = RunningSlot(g)

\* Two servers never run side by side in a workspace, whoever starts, drops or
\* outlives them: opencode serve contends with itself over the directory.
OneServer == \A g, h \in running : g = h

\* The pool never terminates a server a user still holds: a destructor of an
\* older generation leaves the replacement alone.
HeldIsNotStopped == \A u \in Users : lease[u] \notin stopped

\* The last drop leaves no process behind: a running server is held, being
\* probed by its starter, or about to be stopped by a destructor.
NoOrphan ==
    \A g \in running :
        \/ Strong(g) # {}
        \/ \E u \in Users : doing[u] \in {At("probe", g), At("dropping", g)}

\* No wakeup is lost: whoever waits is behind a thread that will notify.
WaitersAreBehindSomeone ==
    \A u \in Users : doing[u].at = "waiting" =>
        \/ slot.state = "starting"
        \/ slot.state = "running" /\ \E v \in Users : doing[v] = At("dropping", slot.server)

\* Every wait on the condition variable ends, and every start and destructor
\* finishes; the destructor inside acquire does not wait for its own slot.
WaitsEnd ==
    \A u \in Users :
        /\ doing[u].at = "waiting" ~> doing[u].at # "waiting"
        /\ doing[u].at \in {"start", "probe", "superseded", "dropping", "reaping"}
              ~> doing[u] = Idle

\* The pool implements the lease its users see.
Lease == INSTANCE ServerLease
LeaseSpec == Lease!Spec

-----------------------------------------------------------------------------
(* The inductive invariant behind the safety properties. *)

\* A thread inside the pool holds no handle yet, or none any more.
BusyHoldNothing == \A u \in Users : doing[u] # Idle => lease[u] = 0

\* The thread that starts a server is the one the slot names, and the only one.
StarterIsNamed ==
    \A u \in Users :
        /\ doing[u].at \in {"superseded", "start", "probe"} => slot = Starting(u)
        /\ doing[u].at = "start" => doing[u].server = 0
        /\ doing[u].at = "superseded" => doing[u].server # 0
        /\ slot.by = u =>
              doing[u].at \in {"superseded", "start", "probe", "dropping", "reaping"}

\* Only the slot's server, or the one its starter probes, can be running.
OnlyNewestRuns ==
    \A g \in running :
        \/ slot = RunningSlot(g)
        \/ \E u \in Users : slot = Starting(u) /\ doing[u] = At("probe", g)

\* The slot's server is the newest, and held until its destructor runs.
SlotIsHeld ==
    slot.state = "running" =>
        /\ slot.server = started
        /\ \/ Strong(slot.server) # {}
           \/ \E u \in Users : doing[u] = At("dropping", slot.server)

\* Nobody knows the server being probed but its starter.
ProbeIsNew ==
    \A u \in Users : doing[u].at = "probe" =>
        /\ doing[u].server = started
        /\ started \in Servers \ stopped
        /\ \A v \in Users : lease[v] # started
        /\ \A v \in Users : v # u => doing[v].server # started

\* A server's destructor runs once, when no reference to it is left.
DestructorIsLast ==
    \A u \in Users : doing[u].at \in {"dropping", "reaping"} =>
        /\ doing[u].server # 0
        /\ Strong(doing[u].server) = {}
        /\ \A v \in Users : doing[v].at \in {"dropping", "reaping"}
              /\ doing[v].server = doing[u].server => v = u

StoppedAreUnheld == \A g \in stopped : Strong(g) = {}

IInv ==
    /\ TypeOK
    /\ BusyHoldNothing
    /\ StarterIsNamed
    /\ OnlyNewestRuns
    /\ SlotIsHeld
    /\ ProbeIsNew
    /\ DestructorIsLast
    /\ StoppedAreUnheld
    /\ WaitersAreBehindSomeone

=============================================================================
