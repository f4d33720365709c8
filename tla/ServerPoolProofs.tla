--------------------------- MODULE ServerPoolProofs ---------------------------
(***************************************************************************)
(* Proofs about the server pool, for every set of users and any number of  *)
(* servers, and that it implements ServerLease.                            *)
(***************************************************************************)
EXTENDS ServerPool, TLAPS

LEMMA InitIInv == ASSUME PoolAssumption, Init PROVE IInv
  BY DEF PoolAssumption, Init, IInv, TypeOK, Steps, Servers, BusyHoldNothing, StarterIsNamed,
         OnlyNewestRuns, SlotIsHeld, ProbeIsNew, DestructorIsLast, StoppedAreUnheld,
         WaitersAreBehindSomeone, Vacant, Idle, At, Strong, Starting

\* What a slot can be, told by its state and its starter.
LEMMA SlotStates ==
    ASSUME PoolAssumption, TypeOK
    PROVE  /\ slot.state \in {"vacant", "starting", "running"}
           /\ slot.state = "vacant" => slot = Vacant
           /\ slot.state = "starting" => \E u \in Users : slot = Starting(u) /\ slot.by = u
           /\ slot.state = "running" => slot.server \in Servers
                                        /\ slot = RunningSlot(slot.server) /\ slot.by = Nobody
           /\ \A u \in Users : slot.by = u <=> slot = Starting(u)
  BY DEF PoolAssumption, TypeOK, Vacant, Starting, RunningSlot

-----------------------------------------------------------------------------
(* Every step preserves the types. *)

LEMMA NextTypes == ASSUME PoolAssumption, IInv, Next PROVE TypeOK'
<1> USE DEF TypeOK, Servers, Steps, At, Idle, Moved, IInv
<1>1. ASSUME NEW u \in Users, Acquire(u) \/ AcquireStep(u) \/ SpuriousWakeup(u)
      PROVE  TypeOK'
  <2>1. CASE Attach(u)
    BY <1>1, <2>1, SlotStates DEF Attach
  <2>2. CASE Supersede(u)
    BY <1>1, <2>2, SlotStates DEF Supersede, Starting
  <2>3. CASE TakeVacancy(u)
    BY <1>1, <2>3 DEF TakeVacancy, Starting
  <2>4. CASE Acquire(u)
    BY <1>1, <2>4 DEF Acquire
  <2>5. CASE Wait(u)
    BY <1>1, <2>5 DEF Wait
  <2>6. CASE SpuriousWakeup(u)
    BY <1>1, <2>6 DEF SpuriousWakeup
  <2>7. QED
    BY <1>1, <2>1, <2>2, <2>3, <2>4, <2>5, <2>6 DEF AcquireStep
<1>2. ASSUME NEW u \in Users, StartStep(u) PROVE TypeOK'
  <2>1. CASE Spawn(u)
    BY <1>2, <2>1 DEF Spawn
  <2>2. CASE Ready(u)
    BY <1>2, <2>2 DEF Ready, NotifyAll, ProbeIsNew
  <2>3. CASE StartFailed(u)
    BY <1>2, <2>3 DEF StartFailed, NotifyAll
  <2>4. QED
    BY <1>2, <2>1, <2>2, <2>3 DEF StartStep
<1>3. ASSUME NEW u \in Users, DestructorStep(u) PROVE TypeOK'
  <2>0. CASE DropSuperseded(u)
    BY <1>3, <2>0 DEF DropSuperseded
  <2>1. CASE DropStale(u)
    BY <1>3, <2>1 DEF DropStale
  <2>2. CASE DropCurrent(u)
    BY <1>3, <2>2 DEF DropCurrent, NotifyAll, DestructorIsLast
  <2>3. CASE Reap(u)
    BY <1>3, <2>3 DEF Reap, DestructorIsLast
  <2>4. QED
    BY <1>3, <2>0, <2>1, <2>2, <2>3 DEF DestructorStep
<1>4. ASSUME NEW u \in Users, Release(u) PROVE TypeOK'
  BY <1>4 DEF Release
<1>5. ASSUME NEW u \in Users, NEW v \in Users, Clone(u, v) PROVE TypeOK'
  BY <1>5 DEF Clone
<1>6. ASSUME NEW g \in running, ProcessExits(g) PROVE TypeOK'
  BY <1>6 DEF ProcessExits
<1>7. QED
  BY <1>1, <1>2, <1>3, <1>4, <1>5, <1>6 DEF Next

-----------------------------------------------------------------------------
(* Every step preserves the rest of the invariant: one lemma per action. *)

LEMMA AcquireInv ==
    ASSUME PoolAssumption, IInv, NEW u \in Users, Acquire(u), TypeOK'
    PROVE  IInv'
<1> USE DEF Acquire, Moved, At, Idle, TypeOK
<1>0. TypeOK /\ (\A c \in Users : slot.by = c <=> slot = Starting(c))
  BY SlotStates DEF IInv
<1>1. BusyHoldNothing'
  BY DEF IInv, BusyHoldNothing
<1>2. StarterIsNamed'
  BY DEF IInv, StarterIsNamed
<1>3. OnlyNewestRuns'
  BY DEF IInv, OnlyNewestRuns
<1>4. SlotIsHeld'
  BY DEF IInv, SlotIsHeld, Strong
<1>5. ProbeIsNew'
  BY DEF IInv, ProbeIsNew
<1>6. DestructorIsLast'
  BY DEF IInv, DestructorIsLast, Strong
<1>7. StoppedAreUnheld'
  BY DEF IInv, StoppedAreUnheld, Strong
<1>8. WaitersAreBehindSomeone'
  BY DEF IInv, WaitersAreBehindSomeone
<1>9. QED
  BY <1>1, <1>2, <1>3, <1>4, <1>5, <1>6, <1>7, <1>8 DEF IInv

LEMMA AttachInv ==
    ASSUME PoolAssumption, IInv, NEW u \in Users, Attach(u), TypeOK'
    PROVE  IInv'
<1> USE DEF Attach, Moved, At, Idle, Starting, TypeOK
<1>0. TypeOK /\ (\A c \in Users : slot.by = c <=> slot = Starting(c))
  BY SlotStates DEF IInv
<1>1. BusyHoldNothing'
  BY DEF IInv, BusyHoldNothing
<1>2. StarterIsNamed'
  BY DEF IInv, StarterIsNamed
<1>3. OnlyNewestRuns'
  BY DEF IInv, OnlyNewestRuns
<1>4. SlotIsHeld'
  BY DEF IInv, SlotIsHeld, Strong
<1>5. ProbeIsNew'
  BY DEF IInv, ProbeIsNew, StarterIsNamed
<1>6. DestructorIsLast'
  BY DEF IInv, DestructorIsLast, Strong
<1>7. StoppedAreUnheld'
  BY DEF IInv, StoppedAreUnheld, Strong
<1>8. WaitersAreBehindSomeone'
  BY DEF IInv, WaitersAreBehindSomeone
<1>9. QED
  BY <1>1, <1>2, <1>3, <1>4, <1>5, <1>6, <1>7, <1>8 DEF IInv

LEMMA SupersedeInv ==
    ASSUME PoolAssumption, IInv, NEW u \in Users, Supersede(u), TypeOK'
    PROVE  IInv'
<1> USE DEF Supersede, Moved, At, Idle, RunningSlot, Starting, TypeOK
<1>0. TypeOK /\ (\A c \in Users : slot.by = c <=> slot = Starting(c))
  BY SlotStates DEF IInv
<1>1. BusyHoldNothing'
  BY DEF IInv, BusyHoldNothing
<1>2. StarterIsNamed'
  <2>1. \A v \in Users : doing[v].at \notin {"superseded", "start", "probe"}
    BY <1>0 DEF IInv, StarterIsNamed
  <2>2. \A v \in Users : v # u => doing'[v] = doing[v]
    BY <1>0
  <2>3. \A v \in Users : slot'.by = v => v = u
    OBVIOUS
  <2>4. /\ slot' = Starting(u) /\ doing'[u].at \in {"superseded", "start"}
        /\ doing'[u].at = "start" => doing'[u].server = 0
        /\ doing'[u].at = "superseded" => doing'[u].server # 0
    BY <1>0, SlotStates DEF Servers
  <2>5. QED
    BY <2>1, <2>2, <2>3, <2>4 DEF StarterIsNamed
<1>3. OnlyNewestRuns'
  BY DEF IInv, OnlyNewestRuns
<1>4. SlotIsHeld'
  BY DEF IInv, SlotIsHeld
<1>5. ProbeIsNew'
  BY DEF IInv, ProbeIsNew, StarterIsNamed
<1>6. DestructorIsLast'
  BY DEF IInv, DestructorIsLast, Strong
<1>7. StoppedAreUnheld'
  BY DEF IInv, StoppedAreUnheld, Strong
<1>8. WaitersAreBehindSomeone'
  BY DEF IInv, WaitersAreBehindSomeone
<1>9. QED
  BY <1>1, <1>2, <1>3, <1>4, <1>5, <1>6, <1>7, <1>8 DEF IInv

LEMMA TakeVacancyInv ==
    ASSUME PoolAssumption, IInv, NEW u \in Users, TakeVacancy(u), TypeOK'
    PROVE  IInv'
<1> USE DEF TakeVacancy, Moved, At, Idle, RunningSlot, Starting, TypeOK
<1>0. TypeOK /\ (\A c \in Users : slot.by = c <=> slot = Starting(c))
  BY SlotStates DEF IInv
<1>1. BusyHoldNothing'
  BY DEF IInv, BusyHoldNothing
<1>2. StarterIsNamed'
  <2>1. \A v \in Users : doing[v].at \notin {"superseded", "start", "probe"}
    BY <1>0 DEF IInv, StarterIsNamed
  <2>2. \A v \in Users : v # u => doing'[v] = doing[v]
    BY <1>0
  <2>3. \A v \in Users : slot'.by = v => v = u
    OBVIOUS
  <2>4. /\ slot' = Starting(u) /\ doing'[u].at \in {"superseded", "start"}
        /\ doing'[u].at = "start" => doing'[u].server = 0
        /\ doing'[u].at = "superseded" => doing'[u].server # 0
    BY <1>0, SlotStates DEF Servers
  <2>5. QED
    BY <2>1, <2>2, <2>3, <2>4 DEF StarterIsNamed
<1>3. OnlyNewestRuns'
  BY DEF IInv, OnlyNewestRuns
<1>4. SlotIsHeld'
  BY DEF IInv, SlotIsHeld
<1>5. ProbeIsNew'
  BY DEF IInv, ProbeIsNew, StarterIsNamed
<1>6. DestructorIsLast'
  BY DEF IInv, DestructorIsLast, Strong
<1>7. StoppedAreUnheld'
  BY DEF IInv, StoppedAreUnheld, Strong
<1>8. WaitersAreBehindSomeone'
  BY DEF IInv, WaitersAreBehindSomeone
<1>9. QED
  BY <1>1, <1>2, <1>3, <1>4, <1>5, <1>6, <1>7, <1>8 DEF IInv

LEMMA WaitInv ==
    ASSUME PoolAssumption, IInv, NEW u \in Users, Wait(u), TypeOK'
    PROVE  IInv'
<1> USE DEF Wait, Moved, At, Idle, TypeOK
<1>0. TypeOK /\ (\A c \in Users : slot.by = c <=> slot = Starting(c))
  BY SlotStates DEF IInv
<1>1. BusyHoldNothing'
  BY DEF IInv, BusyHoldNothing
<1>2. StarterIsNamed'
  BY DEF IInv, StarterIsNamed
<1>3. OnlyNewestRuns'
  BY DEF IInv, OnlyNewestRuns
<1>4. SlotIsHeld'
  BY DEF IInv, SlotIsHeld
<1>5. ProbeIsNew'
  BY DEF IInv, ProbeIsNew, Servers
<1>6. DestructorIsLast'
  BY DEF IInv, DestructorIsLast, Strong
<1>7. StoppedAreUnheld'
  BY DEF IInv, StoppedAreUnheld, Strong
<1>8. WaitersAreBehindSomeone'
  <2>1. \A v \in Users : v # u => doing'[v] = doing[v]
    BY <1>0
  <2>2. ASSUME NEW g, \E v \in Users : doing[v] = At("dropping", g)
        PROVE  \E v \in Users : doing'[v] = At("dropping", g)
    BY <2>1, <2>2, <1>0
  <2>3. slot.state = "running" /\ Strong(slot.server) = {} =>
            \E v \in Users : doing[v] = At("dropping", slot.server)
    BY DEF IInv, SlotIsHeld
  <2>4. QED
    BY <2>1, <2>2, <2>3 DEF IInv, WaitersAreBehindSomeone
<1>9. QED
  BY <1>1, <1>2, <1>3, <1>4, <1>5, <1>6, <1>7, <1>8 DEF IInv

LEMMA SpuriousWakeupInv ==
    ASSUME PoolAssumption, IInv, NEW u \in Users, SpuriousWakeup(u), TypeOK'
    PROVE  IInv'
<1> USE DEF SpuriousWakeup, Moved, At, Idle, TypeOK
<1>0. TypeOK /\ (\A c \in Users : slot.by = c <=> slot = Starting(c))
  BY SlotStates DEF IInv
<1>1. BusyHoldNothing'
  BY DEF IInv, BusyHoldNothing
<1>2. StarterIsNamed'
  BY DEF IInv, StarterIsNamed
<1>3. OnlyNewestRuns'
  BY DEF IInv, OnlyNewestRuns
<1>4. SlotIsHeld'
  BY DEF IInv, SlotIsHeld, Strong
<1>5. ProbeIsNew'
  BY DEF IInv, ProbeIsNew, Servers
<1>6. DestructorIsLast'
  BY DEF IInv, DestructorIsLast, Strong
<1>7. StoppedAreUnheld'
  BY DEF IInv, StoppedAreUnheld, Strong
<1>8. WaitersAreBehindSomeone'
  BY DEF IInv, WaitersAreBehindSomeone
<1>9. QED
  BY <1>1, <1>2, <1>3, <1>4, <1>5, <1>6, <1>7, <1>8 DEF IInv

LEMMA DropSupersededInv ==
    ASSUME PoolAssumption, IInv, NEW u \in Users, DropSuperseded(u), TypeOK'
    PROVE  IInv'
<1> USE DEF DropSuperseded, Moved, At, Idle, Starting, TypeOK
<1>0. TypeOK /\ (\A c \in Users : slot.by = c <=> slot = Starting(c))
  BY SlotStates DEF IInv
<1>1. BusyHoldNothing'
  BY DEF IInv, BusyHoldNothing
<1>2. StarterIsNamed'
  BY DEF IInv, StarterIsNamed
<1>3. OnlyNewestRuns'
  BY DEF IInv, OnlyNewestRuns
<1>4. SlotIsHeld'
  BY DEF IInv, SlotIsHeld, StarterIsNamed
<1>5. ProbeIsNew'
  BY DEF IInv, ProbeIsNew, StarterIsNamed
<1>6. DestructorIsLast'
  <2>1. ASSUME NEW g, g # 0, NEW w \in Users,
               lease'[w] = g \/ doing'[w] = At("superseded", g)
        PROVE  w \in Strong(g) /\ w # u
    BY <1>0, <2>1 DEF Strong, IInv, BusyHoldNothing
  <2>2. ASSUME NEW v \in Users, doing'[v].at \in {"dropping", "reaping"}
        PROVE  \/ v # u /\ doing'[v] = doing[v]
               \/ /\ v = u /\ doing'[u].server = doing[u].server
                  /\ Strong(doing[u].server) = {u}
    BY <1>0, <2>2
  <2>3. \A v \in Users : v # u /\ doing[v].at \in {"dropping", "reaping"} =>
            Strong(doing[v].server) = {}
    BY DEF IInv, DestructorIsLast
  <2>4. doing[u].server # 0
    BY DEF IInv, StarterIsNamed
  <2>5. ASSUME NEW v \in Users, doing'[v].at \in {"dropping", "reaping"}
        PROVE  /\ doing'[v].server # 0
               /\ Strong(doing[v].server)' = {}
    <3>1. CASE v # u
      <4>1. doing[v].server # 0 /\ Strong(doing[v].server) = {} /\ doing'[v] = doing[v]
        BY <2>2, <2>5, <3>1 DEF IInv, DestructorIsLast
      <4>2. QED
        BY <2>1, <4>1 DEF Strong
    <3>2. CASE v = u
      <4>1. doing'[u].server = doing[u].server /\ doing[u].server # 0 /\ Strong(doing[u].server) = {u}
        BY <2>2, <2>4, <2>5, <3>2
      <4>2. QED
        BY <2>1, <3>2, <4>1 DEF Strong
    <3>3. QED
      BY <3>1, <3>2
  <2>6. ASSUME NEW v \in Users, doing'[v].at \in {"dropping", "reaping"},
               NEW w \in Users, doing'[w].at \in {"dropping", "reaping"},
               doing'[v].server = doing'[w].server
        PROVE  v = w
    <3>1. CASE v # u /\ w # u
      BY <2>2, <2>6, <3>1 DEF IInv, DestructorIsLast
    <3>2. \A z \in Users : z # u /\ doing'[z].at \in {"dropping", "reaping"} =>
              Strong(doing'[z].server) = {}
      BY <2>2, <2>3
    <3>3. doing'[u].at \in {"dropping", "reaping"} => Strong(doing'[u].server) # {}
      BY <2>2
    <3>4. QED
      BY <2>6, <3>1, <3>2, <3>3
  <2>7. QED
    BY <2>5, <2>6 DEF DestructorIsLast
<1>7. StoppedAreUnheld'
  BY DEF IInv, StoppedAreUnheld, Strong
<1>8. WaitersAreBehindSomeone'
  BY DEF IInv, WaitersAreBehindSomeone
<1>9. QED
  BY <1>1, <1>2, <1>3, <1>4, <1>5, <1>6, <1>7, <1>8 DEF IInv

LEMMA SpawnInv ==
    ASSUME PoolAssumption, IInv, NEW u \in Users, Spawn(u), TypeOK'
    PROVE  IInv'
<1> USE DEF Spawn, Moved, At, Idle, Starting, TypeOK
<1>0. TypeOK /\ (\A c \in Users : slot.by = c <=> slot = Starting(c))
  BY SlotStates DEF IInv
<1>1. BusyHoldNothing'
  BY DEF IInv, BusyHoldNothing
<1>2. StarterIsNamed'
  BY DEF IInv, StarterIsNamed
<1>3. OnlyNewestRuns'
  BY DEF IInv, OnlyNewestRuns, StarterIsNamed, BusyHoldNothing
<1>4. SlotIsHeld'
  BY DEF IInv, SlotIsHeld, StarterIsNamed
<1>5. ProbeIsNew'
  BY DEF IInv, ProbeIsNew, StarterIsNamed, Servers
<1>6. DestructorIsLast'
  BY DEF IInv, DestructorIsLast, Strong
<1>7. StoppedAreUnheld'
  BY DEF IInv, StoppedAreUnheld, Strong
<1>8. WaitersAreBehindSomeone'
  BY DEF IInv, WaitersAreBehindSomeone
<1>9. QED
  BY <1>1, <1>2, <1>3, <1>4, <1>5, <1>6, <1>7, <1>8 DEF IInv

LEMMA ReadyInv ==
    ASSUME PoolAssumption, IInv, NEW u \in Users, Ready(u), TypeOK'
    PROVE  IInv'
<1> USE DEF Ready, Moved, At, Idle, RunningSlot, Starting, NotifyAll, TypeOK
<1>0. TypeOK /\ (\A c \in Users : slot.by = c <=> slot = Starting(c))
  BY SlotStates DEF IInv
<1>1. BusyHoldNothing'
  BY DEF IInv, BusyHoldNothing
<1>2. StarterIsNamed'
  <2>1. \A v \in Users : v # u => doing[v].at \notin {"superseded", "start", "probe"}
    BY <1>0 DEF IInv, StarterIsNamed
  <2>2. \A v \in Users : doing'[v].at \notin {"superseded", "start", "probe"}
    BY <1>0, <2>1
  <2>3. \A v \in Users : slot'.by # v
    BY DEF PoolAssumption
  <2>4. QED
    BY <2>2, <2>3 DEF StarterIsNamed
<1>3. OnlyNewestRuns'
  BY DEF IInv, OnlyNewestRuns, StarterIsNamed
<1>4. SlotIsHeld'
  BY DEF IInv, SlotIsHeld, Strong, ProbeIsNew
<1>5. ProbeIsNew'
  BY DEF IInv, ProbeIsNew
<1>6. DestructorIsLast'
  BY DEF IInv, DestructorIsLast, Strong, ProbeIsNew
<1>7. StoppedAreUnheld'
  BY DEF IInv, StoppedAreUnheld, Strong, ProbeIsNew
<1>8. WaitersAreBehindSomeone'
  BY DEF IInv, WaitersAreBehindSomeone
<1>9. QED
  BY <1>1, <1>2, <1>3, <1>4, <1>5, <1>6, <1>7, <1>8 DEF IInv

LEMMA StartFailedInv ==
    ASSUME PoolAssumption, IInv, NEW u \in Users, StartFailed(u), TypeOK'
    PROVE  IInv'
<1> USE DEF StartFailed, Moved, At, Idle, Vacant, RunningSlot, Starting, NotifyAll, TypeOK
<1>0. TypeOK /\ (\A c \in Users : slot.by = c <=> slot = Starting(c))
  BY SlotStates DEF IInv
<1>1. BusyHoldNothing'
  BY DEF IInv, BusyHoldNothing
<1>2. StarterIsNamed'
  BY DEF IInv, StarterIsNamed
<1>3. OnlyNewestRuns'
  <2>1. slot = Starting(u)
    BY DEF IInv, StarterIsNamed
  <2>2. ASSUME NEW g \in running PROVE g = doing[u].server
    <3>1. PICK v \in Users : slot = Starting(v) /\ doing[v] = At("probe", g)
      BY <2>1, <2>2 DEF IInv, OnlyNewestRuns
    <3>2. v = u
      BY <2>1, <3>1
    <3>3. QED
      BY <3>1, <3>2
  <2>3. QED
    BY <2>2 DEF OnlyNewestRuns
<1>4. SlotIsHeld'
  BY DEF IInv, SlotIsHeld
<1>5. ProbeIsNew'
  BY DEF IInv, ProbeIsNew, StarterIsNamed
<1>6. DestructorIsLast'
  BY DEF IInv, DestructorIsLast, Strong
<1>7. StoppedAreUnheld'
  BY DEF IInv, StoppedAreUnheld, StarterIsNamed, Strong, ProbeIsNew
<1>8. WaitersAreBehindSomeone'
  BY DEF IInv, WaitersAreBehindSomeone
<1>9. QED
  BY <1>1, <1>2, <1>3, <1>4, <1>5, <1>6, <1>7, <1>8 DEF IInv

LEMMA ReleaseInv ==
    ASSUME PoolAssumption, IInv, NEW u \in Users, Release(u), TypeOK'
    PROVE  IInv'
<1> USE DEF Release, Moved, At, Idle, TypeOK
<1>0. TypeOK /\ (\A c \in Users : slot.by = c <=> slot = Starting(c))
  BY SlotStates DEF IInv
<1>1. BusyHoldNothing'
  BY DEF IInv, BusyHoldNothing
<1>2. StarterIsNamed'
  BY DEF IInv, StarterIsNamed
<1>3. OnlyNewestRuns'
  BY DEF IInv, OnlyNewestRuns
<1>4. SlotIsHeld'
  BY DEF IInv, SlotIsHeld, Strong
<1>5. ProbeIsNew'
  BY DEF IInv, ProbeIsNew
<1>6. DestructorIsLast'
  <2>1. ASSUME NEW g, g # 0, NEW w \in Users,
               lease'[w] = g \/ doing'[w] = At("superseded", g)
        PROVE  w \in Strong(g) /\ w # u
    BY <1>0, <2>1 DEF Strong
  <2>2. ASSUME NEW v \in Users, doing'[v].at \in {"dropping", "reaping"}
        PROVE  \/ v # u /\ doing'[v] = doing[v]
               \/ v = u /\ doing'[u].server = lease[u] /\ Strong(lease[u]) = {u}
    BY <1>0, <2>2
  <2>3. \A v \in Users : v # u /\ doing[v].at \in {"dropping", "reaping"} =>
            Strong(doing[v].server) = {}
    BY DEF IInv, DestructorIsLast
  <2>4. ASSUME NEW v \in Users, doing'[v].at \in {"dropping", "reaping"}
        PROVE  /\ doing'[v].server # 0
               /\ Strong(doing[v].server)' = {}
    <3>1. CASE v # u
      <4>1. doing[v].server # 0 /\ Strong(doing[v].server) = {} /\ doing'[v] = doing[v]
        BY <2>2, <2>4, <3>1 DEF IInv, DestructorIsLast
      <4>2. QED
        BY <2>1, <4>1 DEF Strong
    <3>2. CASE v = u
      <4>1. doing'[u].server = lease[u] /\ lease[u] # 0 /\ Strong(lease[u]) = {u}
        BY <2>2, <2>4, <3>2
      <4>2. QED
        BY <2>1, <3>2, <4>1 DEF Strong
    <3>3. QED
      BY <3>1, <3>2
  <2>5. ASSUME NEW v \in Users, doing'[v].at \in {"dropping", "reaping"},
               NEW w \in Users, doing'[w].at \in {"dropping", "reaping"},
               doing'[v].server = doing'[w].server
        PROVE  v = w
    <3>1. CASE v # u /\ w # u
      BY <2>2, <2>5, <3>1 DEF IInv, DestructorIsLast
    <3>2. \A z \in Users : z # u /\ doing'[z].at \in {"dropping", "reaping"} =>
              Strong(doing'[z].server) = {}
      BY <2>2, <2>3
    <3>3. doing'[u].at \in {"dropping", "reaping"} => Strong(doing'[u].server) # {}
      BY <2>2
    <3>4. CASE v = u /\ w # u
      <4>1. Strong(doing'[w].server) = {} /\ Strong(doing'[v].server) # {}
        BY <2>5, <3>2, <3>3, <3>4, Zenon
      <4>2. QED
        BY <2>5, <4>1, Zenon
    <3>5. CASE v # u /\ w = u
      <4>1. Strong(doing'[v].server) = {} /\ Strong(doing'[w].server) # {}
        BY <2>5, <3>2, <3>3, <3>5, Zenon
      <4>2. QED
        BY <2>5, <4>1, Zenon
    <3>6. QED
      BY <3>1, <3>4, <3>5
  <2>6. QED
    BY <2>4, <2>5 DEF DestructorIsLast
<1>7. StoppedAreUnheld'
  BY DEF IInv, StoppedAreUnheld, Servers, Strong
<1>8. WaitersAreBehindSomeone'
  BY DEF IInv, WaitersAreBehindSomeone
<1>9. QED
  BY <1>1, <1>2, <1>3, <1>4, <1>5, <1>6, <1>7, <1>8 DEF IInv

LEMMA DropCurrentInv ==
    ASSUME PoolAssumption, IInv, NEW u \in Users, DropCurrent(u), TypeOK'
    PROVE  IInv'
<1> USE DEF DropCurrent, Moved, At, Idle, Vacant, RunningSlot, Starting, NotifyAll, IsCurrent, TypeOK
<1>0. TypeOK /\ (\A c \in Users : slot.by = c <=> slot = Starting(c))
  BY SlotStates DEF IInv
<1>1. BusyHoldNothing'
  BY DEF IInv, BusyHoldNothing
<1>2. StarterIsNamed'
  BY DEF IInv, StarterIsNamed
<1>3. OnlyNewestRuns'
  BY DEF IInv, OnlyNewestRuns
<1>4. SlotIsHeld'
  BY DEF IInv, SlotIsHeld
<1>5. ProbeIsNew'
  BY DEF IInv, ProbeIsNew, StarterIsNamed
<1>6. DestructorIsLast'
  BY DEF IInv, DestructorIsLast, Strong
<1>7. StoppedAreUnheld'
  BY DEF IInv, StoppedAreUnheld, Strong, DestructorIsLast
<1>8. WaitersAreBehindSomeone'
  BY DEF IInv, WaitersAreBehindSomeone
<1>9. QED
  BY <1>1, <1>2, <1>3, <1>4, <1>5, <1>6, <1>7, <1>8 DEF IInv

LEMMA DropStaleInv ==
    ASSUME PoolAssumption, IInv, NEW u \in Users, DropStale(u), TypeOK'
    PROVE  IInv'
<1> USE DEF DropStale, Moved, At, Idle, IsCurrent, TypeOK
<1>0. TypeOK /\ (\A c \in Users : slot.by = c <=> slot = Starting(c))
  BY SlotStates DEF IInv
<1>1. BusyHoldNothing'
  BY DEF IInv, BusyHoldNothing
<1>2. StarterIsNamed'
  BY DEF IInv, StarterIsNamed
<1>3. OnlyNewestRuns'
  BY DEF IInv, OnlyNewestRuns
<1>4. SlotIsHeld'
  BY DEF IInv, SlotIsHeld, Strong
<1>5. ProbeIsNew'
  BY DEF IInv, ProbeIsNew, Servers
<1>6. DestructorIsLast'
  BY DEF IInv, DestructorIsLast, Strong
<1>7. StoppedAreUnheld'
  BY DEF IInv, StoppedAreUnheld, Strong
<1>8. WaitersAreBehindSomeone'
  BY DEF IInv, WaitersAreBehindSomeone
<1>9. QED
  BY <1>1, <1>2, <1>3, <1>4, <1>5, <1>6, <1>7, <1>8 DEF IInv

LEMMA ReapInv ==
    ASSUME PoolAssumption, IInv, NEW u \in Users, Reap(u), TypeOK'
    PROVE  IInv'
<1> USE DEF Reap, Moved, At, Idle, Vacant, RunningSlot, Starting, TypeOK
<1>0. TypeOK /\ (\A c \in Users : slot.by = c <=> slot = Starting(c))
  BY SlotStates DEF IInv
<1>1. BusyHoldNothing'
  BY DEF IInv, BusyHoldNothing
<1>2. StarterIsNamed'
  BY DEF IInv, StarterIsNamed
<1>3. OnlyNewestRuns'
  BY DEF IInv, OnlyNewestRuns
<1>4. SlotIsHeld'
  BY DEF IInv, SlotIsHeld, Strong
<1>5. ProbeIsNew'
  BY DEF IInv, ProbeIsNew, Servers
<1>6. DestructorIsLast'
  BY DEF IInv, DestructorIsLast, Strong
<1>7. StoppedAreUnheld'
  BY DEF IInv, StoppedAreUnheld, Strong, DestructorIsLast
<1>8. WaitersAreBehindSomeone'
  BY DEF IInv, WaitersAreBehindSomeone
<1>9. QED
  BY <1>1, <1>2, <1>3, <1>4, <1>5, <1>6, <1>7, <1>8 DEF IInv

LEMMA CloneInv ==
    ASSUME PoolAssumption, IInv, NEW u \in Users, NEW v \in Users, Clone(u, v), TypeOK'
    PROVE  IInv'
<1> USE DEF Clone, Moved, At, TypeOK
<1>0. TypeOK /\ (\A c \in Users : slot.by = c <=> slot = Starting(c))
  BY SlotStates DEF IInv
<1>1. BusyHoldNothing'
  BY DEF IInv, BusyHoldNothing
<1>2. StarterIsNamed'
  BY DEF IInv, StarterIsNamed
<1>3. OnlyNewestRuns'
  BY DEF IInv, OnlyNewestRuns
<1>4. SlotIsHeld'
  BY DEF IInv, SlotIsHeld, Servers, Strong
<1>5. ProbeIsNew'
  BY DEF IInv, ProbeIsNew
<1>6. DestructorIsLast'
  BY DEF IInv, DestructorIsLast, Strong
<1>7. StoppedAreUnheld'
  BY DEF IInv, StoppedAreUnheld, Strong
<1>8. WaitersAreBehindSomeone'
  BY DEF IInv, WaitersAreBehindSomeone
<1>9. QED
  BY <1>1, <1>2, <1>3, <1>4, <1>5, <1>6, <1>7, <1>8 DEF IInv

LEMMA ProcessExitsInv ==
    ASSUME PoolAssumption, IInv, NEW g \in running, ProcessExits(g), TypeOK'
    PROVE  IInv'
<1> USE DEF ProcessExits, Moved, At, TypeOK
<1>0. TypeOK /\ (\A c \in Users : slot.by = c <=> slot = Starting(c))
  BY SlotStates DEF IInv
<1>1. BusyHoldNothing'
  BY DEF IInv, BusyHoldNothing
<1>2. StarterIsNamed'
  BY DEF IInv, StarterIsNamed
<1>3. OnlyNewestRuns'
  BY DEF IInv, OnlyNewestRuns
<1>4. SlotIsHeld'
  BY DEF IInv, SlotIsHeld, Strong
<1>5. ProbeIsNew'
  BY DEF IInv, ProbeIsNew, Servers
<1>6. DestructorIsLast'
  BY DEF IInv, DestructorIsLast, Strong
<1>7. StoppedAreUnheld'
  BY DEF IInv, StoppedAreUnheld, Strong
<1>8. WaitersAreBehindSomeone'
  BY DEF IInv, WaitersAreBehindSomeone
<1>9. QED
  BY <1>1, <1>2, <1>3, <1>4, <1>5, <1>6, <1>7, <1>8 DEF IInv

LEMMA NextIInv == ASSUME PoolAssumption, IInv, [Next]_vars PROVE IInv'
<1>1. CASE UNCHANGED vars
  BY <1>1 DEF vars, IInv, TypeOK, Servers, BusyHoldNothing, StarterIsNamed, OnlyNewestRuns,
              SlotIsHeld, ProbeIsNew, DestructorIsLast, StoppedAreUnheld,
              WaitersAreBehindSomeone, Strong
<1>2. CASE Next
  <2>1. TypeOK'
    BY <1>2, NextTypes
  <2>2. QED
    BY <1>2, <2>1, AcquireInv, AttachInv, SupersedeInv, TakeVacancyInv, WaitInv,
       SpuriousWakeupInv, SpawnInv, ReadyInv, StartFailedInv, DropSupersededInv,
       DropCurrentInv, DropStaleInv, ReapInv, ReleaseInv, CloneInv, ProcessExitsInv
    DEF Next, AcquireStep, StartStep, DestructorStep
<1>3. QED
  BY <1>1, <1>2

-----------------------------------------------------------------------------
(* The theorems *)

\* The inductive invariant of the pool.
THEOREM PoolInvariant == ASSUME PoolAssumption PROVE Spec => []IInv
<1>1. Init => IInv
  BY InitIInv
<1>2. IInv /\ [Next]_vars => IInv'
  BY NextIInv
<1>3. QED
  BY <1>1, <1>2, PTL DEF Spec

\* acquire and PoolInner::drop keep the slot's state, the leases and the threads'
\* positions well-formed.
THEOREM PoolTypes == ASSUME PoolAssumption PROVE Spec => []TypeOK
<1>1. IInv => TypeOK
  BY DEF IInv
<1>2. QED
  BY <1>1, PoolInvariant, PTL

LEMMA OneServerInv == ASSUME IInv PROVE OneServer
<1>1. ASSUME NEW g \in running, NEW h \in running, slot.state = "running" PROVE g = h
  BY <1>1 DEF IInv, OnlyNewestRuns, RunningSlot, Starting
<1>2. ASSUME NEW g \in running, NEW h \in running, slot.state # "running" PROVE g = h
  <2>1. PICK u \in Users : slot = Starting(u) /\ doing[u] = At("probe", g)
    BY <1>2 DEF IInv, OnlyNewestRuns, RunningSlot
  <2>2. PICK v \in Users : slot = Starting(v) /\ doing[v] = At("probe", h)
    BY <1>2 DEF IInv, OnlyNewestRuns, RunningSlot
  <2>3. u = v
    BY <2>1, <2>2 DEF Starting
  <2>4. QED
    BY <2>1, <2>2, <2>3 DEF At
<1>3. QED
  BY <1>1, <1>2 DEF OneServer

\* However starts, crashes and drops interleave, the pool never runs two servers
\* in a workspace.
THEOREM AtMostOneServer == ASSUME PoolAssumption PROVE Spec => []OneServer
<1>1. IInv => OneServer
  BY OneServerInv
<1>2. QED
  BY <1>1, PoolInvariant, PTL

\* No destructor, whatever its generation, stops a server that is held.
THEOREM HeldServersSurvive == ASSUME PoolAssumption PROVE Spec => []HeldIsNotStopped
<1>1. IInv => HeldIsNotStopped
  BY DEF IInv, HeldIsNotStopped, StoppedAreUnheld, Strong
<1>2. QED
  BY <1>1, PoolInvariant, PTL

\* Every running server is held, being probed, or about to be stopped.
THEOREM NoServerIsLeaked == ASSUME PoolAssumption PROVE Spec => []NoOrphan
<1>1. IInv => NoOrphan
  BY DEF IInv, NoOrphan, OnlyNewestRuns, SlotIsHeld, RunningSlot
<1>2. QED
  BY <1>1, PoolInvariant, PTL

\* No thread waits on the condition variable without another one left to notify.
THEOREM NoLostWakeup == ASSUME PoolAssumption PROVE Spec => []WaitersAreBehindSomeone
<1>1. IInv => WaitersAreBehindSomeone
  BY DEF IInv
<1>2. QED
  BY <1>1, PoolInvariant, PTL

\* Every step of the pool is a step of the lease its users see, or none: a start
\* finds no server running, and a stop finds no holder.
LEMMA StepRefines == ASSUME PoolAssumption, IInv, IInv', [Next]_vars PROVE [Lease!Next]_(Lease!lvars)
<1> USE DEF Lease!lvars
<1>1. CASE UNCHANGED vars
  BY <1>1 DEF vars
<1>2. ASSUME NEW u \in Users, Acquire(u) \/ Wait(u) \/ SpuriousWakeup(u) \/ Supersede(u)
                              \/ TakeVacancy(u) \/ DropSuperseded(u) \/ DropStale(u)
      PROVE  UNCHANGED Lease!lvars
  BY <1>2 DEF Acquire, Wait, SpuriousWakeup, Supersede, TakeVacancy, DropSuperseded, DropStale
<1>3. ASSUME NEW u \in Users, Attach(u) PROVE Lease!Attach(u)
  <2>1. slot.server = started /\ started \in Servers
    BY <1>3, SlotStates DEF Attach, IInv, SlotIsHeld
  <2>2. lease[u] = 0
    BY <1>3 DEF Attach, IInv, BusyHoldNothing, Idle, At
  <2>3. started \notin stopped
    BY <1>3, <2>1 DEF Attach, IInv, StoppedAreUnheld
  <2>4. QED
    BY <1>3, <2>1, <2>2, <2>3 DEF Attach, Lease!Attach, Servers, IInv, TypeOK
<1>4. ASSUME NEW u \in Users, Spawn(u) PROVE Lease!Start
  <2>1. slot = Starting(u)
    BY <1>4 DEF Spawn, IInv, StarterIsNamed
  <2>2. ASSUME NEW g \in running PROVE FALSE
    <3>1. PICK v \in Users : slot = Starting(v) /\ doing[v] = At("probe", g)
      BY <2>1, <2>2 DEF IInv, OnlyNewestRuns, Starting, RunningSlot
    <3>2. v = u
      BY <2>1, <3>1 DEF Starting
    <3>3. QED
      BY <1>4, <3>1, <3>2 DEF Spawn, At
  <2>3. QED
    BY <1>4, <2>2 DEF Spawn, Lease!Start
<1>5. ASSUME NEW u \in Users, Ready(u) PROVE Lease!Attach(u)
  <2>1. lease[u] = 0
    BY <1>5 DEF Ready, IInv, BusyHoldNothing, Idle, At
  <2>2. doing[u].server = started /\ started \in Servers \ stopped
    BY <1>5 DEF Ready, IInv, ProbeIsNew
  <2>3. QED
    BY <1>5, <2>1, <2>2 DEF Ready, Lease!Attach, Servers, IInv, TypeOK
<1>6. ASSUME NEW u \in Users, StartFailed(u)
      PROVE  UNCHANGED Lease!lvars \/ \E g \in 1..started : Lease!Stop(g)
  <2>1. CASE doing[u].at = "start"
    <3>1. doing[u].server = 0
      BY <2>1 DEF IInv, StarterIsNamed
    <3>2. running' = running /\ stopped' = stopped
      BY <1>6, <3>1 DEF StartFailed, IInv, TypeOK, Servers
    <3>3. QED
      BY <1>6, <3>2 DEF StartFailed
  <2>2. CASE doing[u].at = "probe"
    <3>1. /\ doing[u].server = started /\ started \in 1..started
          /\ \A v \in Users : lease[v] # started
      BY <2>2 DEF IInv, ProbeIsNew, Servers
    <3>2. Lease!Stop(started)
      BY <1>6, <3>1 DEF StartFailed, Lease!Stop, IInv, TypeOK
    <3>3. QED
      BY <3>1, <3>2
  <2>3. QED
    BY <1>6, <2>1, <2>2 DEF StartFailed
<1>7. ASSUME NEW u \in Users, DropCurrent(u) \/ Reap(u)
      PROVE  \E g \in 1..started : Lease!Stop(g)
  <2>1. /\ doing[u].server \in 1..started
        /\ \A v \in Users : lease[v] # doing[u].server
    BY <1>7 DEF DropCurrent, Reap, IInv, DestructorIsLast, Strong, TypeOK, Servers
  <2>2. Lease!Stop(doing[u].server)
    BY <1>7, <2>1 DEF DropCurrent, Reap, Lease!Stop
  <2>3. QED
    BY <2>1, <2>2
<1>8. ASSUME NEW u \in Users, Release(u) PROVE Lease!Release(u)
  BY <1>8 DEF Release, Lease!Release
<1>9. ASSUME NEW u \in Users, NEW v \in Users, Clone(u, v) PROVE Lease!Share(u, v)
  BY <1>9 DEF Clone, Lease!Share
<1>10. ASSUME NEW g \in running, ProcessExits(g) PROVE Lease!Exit
  <2>1. OneServer
    BY OneServerInv
  <2>2. QED
    BY <1>10, <2>1 DEF ProcessExits, Lease!Exit, OneServer
<1>11. QED
  BY <1>1, <1>2, <1>3, <1>4, <1>5, <1>6, <1>7, <1>8, <1>9, <1>10
  DEF Next, AcquireStep, StartStep, DestructorStep, Lease!Next

\* acquire, PooledServer's clones and PoolInner::drop together implement the lease.
THEOREM PoolImplementsLease == ASSUME PoolAssumption PROVE Spec => LeaseSpec
<1>1. Init => Lease!Init
  BY DEF Init, Lease!Init
<1>2. IInv /\ IInv' /\ [Next]_vars => [Lease!Next]_(Lease!lvars)
  BY StepRefines
<1>3. QED
  BY <1>1, <1>2, PoolInvariant, PTL DEF Spec, LeaseSpec, Lease!Spec

=============================================================================
