------------------------ MODULE DaemonSupervisorProofs ------------------------
(***************************************************************************)
(* Proofs about the daemon's supervisor, for any policies, subscribers and *)
(* settings and any number of crashes, builds and changes.                 *)
(***************************************************************************)
EXTENDS DaemonSupervisor, FiniteSetTheorems, TLAPS

Holding == {"take", "stop", "spawn", "starting", "install", "notify", "replaced", "failed"}

\* A worker is past the restart mutex if and only if it holds it.
MutexIsHeld == \A w \in Workers : restart = w <=> at[w] \in Holding

\* What the worker that holds the mutex has done to the target so far.
TargetFollows ==
    \A w \in Workers :
        /\ at[w] \in {"stop", "spawn", "starting", "install", "failed"}
               => target.kind = "restarting"
        /\ at[w] \in {"notify", "replaced"}
               => target.kind = "local" /\ target.process = hand[w]

\* A daemon that runs is the target, or was, or is to be.
AliveIsHeld ==
    \A p \in alive :
        \/ target.kind = "local" /\ target.process = p
        \/ /\ target.kind = "restarting"
           /\ \E w \in Workers : /\ at[w] \in {"stop", "starting", "install"}
                                 /\ hand[w] = p

Custody == MutexIsHeld /\ TargetFollows /\ AliveIsHeld

\* The policy that a worker launches with.
LaunchIsMeant ==
    /\ at["monitor"] \in Holding => launch["monitor"] = exposure
    /\ at["reconfigure"] \in Holding => launch["reconfigure"] \in {requested, exposure}

\* What it launched.
ChildIsAsLaunched ==
    \A w \in Workers :
        at[w] \in {"starting", "install", "notify", "replaced"}
            => hand[w].policy = launch[w] /\ hand[w].id = spawned

Policy == LaunchIsMeant /\ ChildIsAsLaunched /\ PolicyInForce

\* Connections are numbered in the order of their daemons.
SentInOrder ==
    /\ \A s \in Subscribers \ registered : received[s] = <<>>
    /\ \A s \in registered :
          /\ received[s] # <<>>
          /\ \A i \in DOMAIN received[s] : received[s][i] <= target.process.id
          /\ \A i, j \in DOMAIN received[s] : i < j => received[s][i] <= received[s][j]
          /\ (\A w \in Workers : at[w] # "notify")
                 => received[s][Len(received[s])] = target.process.id

-----------------------------------------------------------------------------
(* Types *)

LEMMA InitTypes == ASSUME SupervisorAssumption, Init PROVE TypeOK
<1>1. First \in Values
  BY DEF SupervisorAssumption, First
<1>2. Process(1, 1, Initial) \in Processes /\ NoProcess \in Processes
  BY DEF SupervisorAssumption, Init, Process, NoProcess, Processes
<1>3. spawned = 1 /\ observed \in 1..executable /\ stamp \in 1..observed
      /\ executable \in 1..MaxBuilds
  BY DEF SupervisorAssumption, Init
<1>4. QED
  BY <1>1, <1>2, <1>3 DEF SupervisorAssumption, Init, TypeOK, Workers

LEMMA ProcessesGrow ==
    ASSUME SupervisorAssumption, spawned \in Nat, spawned' = spawned + 1
    PROVE  Processes \subseteq Processes' /\ Seq(0..spawned) \subseteq Seq(0..spawned')
<1>1. Processes \subseteq Processes'
  BY DEF Processes
<1>2. 0..spawned \subseteq 0..spawned'
  OBVIOUS
<1>3. Seq(0..spawned) \subseteq Seq(0..spawned')
  BY <1>2
<1>4. QED
  BY <1>1, <1>3

LEMMA NextTypes == ASSUME SupervisorAssumption, TypeOK, [Next]_vars PROVE TypeOK'
<1> USE DEF TypeOK, Goto
<1>1. ASSUME NEW p \in alive, Crash(p) PROVE TypeOK'
  <2>1. trouble' \in 0..MaxTrouble
    BY <1>1, SupervisorAssumption DEF Crash, SupervisorAssumption
  <2>2. Processes' = Processes
    BY <1>1 DEF Crash, Processes
  <2>3. QED
    BY <1>1, <2>1, <2>2 DEF Crash, workers, clients, writing, editing
<1>2. CASE Rebuild
  BY <1>2, SupervisorAssumption
     DEF Rebuild, MayMove, SupervisorAssumption, Processes, workers, clients, writing, editing
<1>3. CASE Monitor
  <2>1. CASE Poll
    BY <2>1 DEF Poll, Workers, Processes, machine, clients, writing, editing
  <2>2. CASE MonitorDone
    BY <2>2 DEF MonitorDone, QueueRefresh, Release, Restamp, NoProcess, Process,
                SupervisorAssumption, Workers, Processes, machine, clients, editing
  <2>3. CASE MonitorFailed
    BY <2>3 DEF MonitorFailed, Release, NoProcess, Process, SupervisorAssumption, Workers,
                Processes, machine, clients, writing, editing
  <2>4. QED
    BY <1>3, <2>1, <2>2, <2>3 DEF Monitor
<1>4. ASSUME NEW policy \in Policies, Apply(policy) PROVE TypeOK'
  BY <1>4 DEF Apply, Workers, SupervisorAssumption, Processes, machine, clients, writing, editing
<1>5. CASE Reconfigure
  <2>1. CASE ApplyDone
    BY <2>1 DEF ApplyDone, Adopted, QueueRefresh, Release, NoProcess, Process,
                SupervisorAssumption, Workers, Processes, machine, clients, editing
  <2>2. CASE Restore
    BY <2>2 DEF Restore, Workers, Processes, machine, clients, writing, editing
  <2>3. CASE ApplyFailed
    BY <2>3 DEF ApplyFailed, Release, NoProcess, Process, SupervisorAssumption, Workers,
                Processes, machine, clients, writing, editing
  <2>4. QED
    BY <1>5, <2>1, <2>2, <2>3 DEF Reconfigure
<1>6. ASSUME NEW w \in Workers, Replace(w) PROVE TypeOK'
  <2>1. CASE LockRestart(w)
    BY <2>1 DEF LockRestart, Processes, machine, clients, writing, editing
  <2>2. CASE TakeTarget(w)
    <3>1. NoProcess \in Processes /\ target.process \in Processes
      BY DEF NoProcess, Process, Processes, SupervisorAssumption
    <3>2. target' \in [kind : {"local", "restarting"}, process : Processes]
      BY <2>2 DEF TakeTarget
    <3>3. hand' \in [Workers -> Processes] /\ Processes' = Processes
      BY <2>2, <3>1 DEF TakeTarget, Processes, machine
    <3>4. QED
      BY <2>2, <3>2, <3>3 DEF TakeTarget, machine, clients, writing, editing
  <2>3. CASE StopPrevious(w)
    BY <2>3 DEF StopPrevious, Processes, clients, writing, editing
  <2>4. CASE SpawnChild(w)
    <3>1. Process(spawned + 1, executable, launch[w]) \in Processes'
      BY <2>4 DEF SpawnChild, Process, Processes
    <3>2. spawned' = spawned + 1 /\ Processes \subseteq Processes'
          /\ Seq(0..spawned) \subseteq Seq(0..spawned')
      BY <2>4, ProcessesGrow DEF SpawnChild
    <3>3. alive' \subseteq Processes' /\ hand' \in [Workers -> Processes']
          /\ target' \in [kind : {"local", "restarting"}, process : Processes']
          /\ received' \in [Subscribers -> Seq(0..spawned')] /\ asked' \in Processes'
      BY <2>4, <3>1, <3>2 DEF SpawnChild, clients, writing
    <3>4. QED
      BY <2>4, <3>2, <3>3 DEF SpawnChild, clients, writing, editing
  <2>5. CASE ChildReady(w)
    BY <2>5 DEF ChildReady, Processes, machine, clients, writing, editing
  <2>6. CASE StartFails(w)
    <3>1. trouble' \in 0..MaxTrouble
      BY <2>6, SupervisorAssumption DEF StartFails, SupervisorAssumption
    <3>2. Processes' = Processes
      BY <2>6 DEF StartFails, Processes
    <3>3. QED
      BY <2>6, <3>1, <3>2 DEF StartFails, clients, writing, editing
  <2>7. CASE Install(w)
    BY <2>7 DEF Install, Processes, machine, clients, writing, editing
  <2>8. CASE NotifyClients(w)
    <3>1. hand[w].id \in 0..spawned
      BY DEF Processes
    <3>2. received' \in [Subscribers -> Seq(0..spawned)]
      <4>1. \A s \in Subscribers : Append(received[s], hand[w].id) \in Seq(0..spawned)
        BY <3>1
      <4>2. QED
        BY <2>8, <4>1 DEF NotifyClients
    <3>3. Processes' = Processes /\ spawned' = spawned
      BY <2>8 DEF NotifyClients, Processes, machine
    <3>4. QED
      BY <2>8, <3>2, <3>3 DEF NotifyClients, machine, writing, editing
  <2>9. QED
    BY <1>6, <2>1, <2>2, <2>3, <2>4, <2>5, <2>6, <2>7, <2>8 DEF Replace
<1>7. ASSUME NEW s \in Subscribers, SubscribeClients(s) PROVE TypeOK'
  BY <1>7 DEF SubscribeClients, Processes, machine, workers, writing, editing
<1>8. ASSUME NEW v \in Values, SetSettings(v) PROVE TypeOK'
  BY <1>8 DEF SetSettings, Processes, machine, workers, clients, writing
<1>9. CASE QueueSettings
  BY <1>9 DEF QueueSettings, Processes, machine, workers, clients
<1>10. CASE Writer
  <2>1. CASE WriterReceives
    BY <2>1 DEF WriterReceives, Processes, machine, workers, clients, editing
  <2>2. CASE WriterAsks
    BY <2>2 DEF WriterAsks, Processes, machine, workers, clients, editing
  <2>3. CASE DaemonStores
    BY <2>3 DEF DaemonStores, Processes, machine, workers, clients, editing
  <2>4. CASE WriterAck
    BY <2>4 DEF WriterAck, Processes, machine, workers, clients, editing
  <2>5. CASE WriterRetries
    BY <2>5 DEF WriterRetries, Processes, machine, workers, clients, editing
  <2>6. QED
    BY <1>10, <2>1, <2>2, <2>3, <2>4, <2>5 DEF Writer
<1>11. CASE DropHandles
  BY <1>11 DEF DropHandles, Processes, machine, workers, clients, writing, editing
<1>12. CASE FreeSupervisor
  BY <1>12 DEF FreeSupervisor, Processes, workers, clients, writing, editing
<1>13. CASE UNCHANGED vars
  BY <1>13 DEF vars, Processes, machine, workers, clients, writing, editing
<1>14. QED
  BY <1>1, <1>2, <1>3, <1>4, <1>5, <1>6, <1>7, <1>8, <1>9, <1>10, <1>11, <1>12, <1>13 DEF Next

-----------------------------------------------------------------------------
(* Who holds the mutex, and what runs *)

custody == <<alive, target, restart, at, hand>>

LEMMA CustodyKept ==
    ASSUME SupervisorAssumption, TypeOK, Custody, [Next]_vars
    PROVE  Custody'
<1> USE DEF TypeOK, Custody, Goto, Workers
<1>1. ASSUME alive' \subseteq alive, UNCHANGED <<target, restart, at, hand>>
      PROVE  Custody'
  BY <1>1 DEF MutexIsHeld, TargetFollows, AliveIsHeld
<1>2. ASSUME NEW p \in alive, Crash(p) PROVE Custody'
  BY <1>1, <1>2 DEF Crash, workers
<1>3. CASE Rebuild
  BY <1>1, <1>3 DEF Rebuild, workers
<1>4. CASE Poll
  BY <1>4 DEF Poll, Holding, MutexIsHeld, TargetFollows, AliveIsHeld, machine
<1>5. ASSUME NEW policy \in Policies, Apply(policy) PROVE Custody'
  BY <1>5 DEF Apply, Holding, MutexIsHeld, TargetFollows, AliveIsHeld, machine
<1>6. ASSUME NEW w \in Workers, at[w] \in {"replaced", "failed"}, Release(w),
             UNCHANGED <<alive, target>>
      PROVE  Custody'
  <2>1. MutexIsHeld'
    BY <1>6 DEF Release, Holding, MutexIsHeld
  <2>2. TargetFollows'
    BY <1>6 DEF Release, Holding, MutexIsHeld, TargetFollows
  <2>3. AliveIsHeld'
    BY <1>6 DEF Release, Holding, MutexIsHeld, TargetFollows, AliveIsHeld
  <2>4. QED
    BY <2>1, <2>2, <2>3
<1>7. CASE MonitorDone \/ MonitorFailed \/ ApplyDone \/ ApplyFailed
  BY <1>6, <1>7 DEF MonitorDone, MonitorFailed, ApplyDone, ApplyFailed, machine
<1>8. CASE Restore
  BY <1>8 DEF Restore, Holding, MutexIsHeld, TargetFollows, AliveIsHeld, machine
<1>9. ASSUME NEW w \in Workers, Replace(w) PROVE Custody'
  <2>0. ASSUME restart = w PROVE \A v \in Workers : v # w => at[v] \notin Holding
    BY <2>0 DEF MutexIsHeld
  <2> USE DEF Holding, MutexIsHeld, TargetFollows, AliveIsHeld
  <2>1. CASE LockRestart(w)
    BY <2>1 DEF LockRestart, RestartIsFree, machine
  <2>2. CASE TakeTarget(w)
    BY <2>0, <2>2 DEF TakeTarget, machine
  <2>3. CASE StopPrevious(w)
    BY <2>0, <2>3 DEF StopPrevious
  <2>4. CASE SpawnChild(w)
    BY <2>0, <2>4 DEF SpawnChild
  <2>5. CASE ChildReady(w)
    BY <2>0, <2>5 DEF ChildReady, machine
  <2>6. CASE StartFails(w)
    BY <2>0, <2>6 DEF StartFails
  <2>7. CASE Install(w)
    BY <2>0, <2>7 DEF Install, machine
  <2>8. CASE NotifyClients(w)
    BY <2>0, <2>8 DEF NotifyClients, machine
  <2>9. QED
    BY <1>9, <2>1, <2>2, <2>3, <2>4, <2>5, <2>6, <2>7, <2>8 DEF Replace
<1>10. ASSUME NEW s \in Subscribers, SubscribeClients(s) PROVE Custody'
  BY <1>1, <1>10 DEF SubscribeClients, machine, workers
<1>11. ASSUME NEW v \in Values, SetSettings(v) PROVE Custody'
  BY <1>1, <1>11 DEF SetSettings, machine, workers
<1>12. CASE QueueSettings
  BY <1>1, <1>12 DEF QueueSettings, machine, workers
<1>13. CASE Writer
  BY <1>1, <1>13 DEF Writer, WriterReceives, WriterAsks, DaemonStores, WriterAck,
                     WriterRetries, machine, workers
<1>14. CASE DropHandles
  BY <1>1, <1>14 DEF DropHandles, machine, workers
<1>15. CASE FreeSupervisor
  BY <1>1, <1>15 DEF FreeSupervisor, workers
<1>16. CASE UNCHANGED vars
  BY <1>1, <1>16 DEF vars, machine, workers
<1>17. QED
  BY <1>2, <1>3, <1>4, <1>5, <1>7, <1>8, <1>9, <1>10, <1>11, <1>12, <1>13, <1>14, <1>15, <1>16
     DEF Next, Monitor, Reconfigure

-----------------------------------------------------------------------------
(* The policy in force *)

LEMMA PolicyKept ==
    ASSUME SupervisorAssumption, TypeOK, Custody, Policy, [Next]_vars
    PROVE  Policy'
<1> USE DEF TypeOK, Policy, Goto, Workers, Custody, MutexIsHeld
<1>1. ASSUME UNCHANGED <<target, restart, at, hand, launch, spawned, exposure, requested>>
      PROVE  Policy'
  BY <1>1 DEF LaunchIsMeant, ChildIsAsLaunched, PolicyInForce
<1>2. ASSUME NEW p \in alive, Crash(p) PROVE Policy'
  BY <1>1, <1>2 DEF Crash, workers
<1>3. CASE Rebuild
  BY <1>1, <1>3 DEF Rebuild, workers
<1>4. CASE Monitor
  <2> USE DEF Holding, LaunchIsMeant, ChildIsAsLaunched, PolicyInForce
  <2>1. CASE Poll
    BY <2>1 DEF Poll, machine
  <2>2. CASE MonitorDone
    BY <2>2 DEF MonitorDone, Release, TargetFollows, machine
  <2>3. CASE MonitorFailed
    BY <2>3 DEF MonitorFailed, Release, TargetFollows, machine
  <2>4. QED
    BY <1>4, <2>1, <2>2, <2>3 DEF Monitor
<1>5. ASSUME NEW policy \in Policies, Apply(policy) PROVE Policy'
  BY <1>5 DEF Apply, Holding, LaunchIsMeant, ChildIsAsLaunched, PolicyInForce, machine
<1>6. CASE Reconfigure
  <2> USE DEF Holding, LaunchIsMeant, ChildIsAsLaunched, PolicyInForce
  <2>1. CASE ApplyDone
    BY <2>1 DEF ApplyDone, Adopted, Restoring, Release, TargetFollows, machine
  <2>2. CASE Restore
    BY <2>2 DEF Restore, machine
  <2>3. CASE ApplyFailed
    BY <2>3 DEF ApplyFailed, Release, TargetFollows, machine
  <2>4. QED
    BY <1>6, <2>1, <2>2, <2>3 DEF Reconfigure
<1>7. ASSUME NEW w \in Workers, Replace(w) PROVE Policy'
  <2> USE DEF Holding, LaunchIsMeant, ChildIsAsLaunched, PolicyInForce
  <2>1. CASE LockRestart(w)
    BY <2>1 DEF LockRestart, RestartIsFree, machine
  <2>2. CASE TakeTarget(w)
    BY <2>2 DEF TakeTarget, machine
  <2>3. CASE StopPrevious(w)
    BY <2>3 DEF StopPrevious
  <2>4. CASE SpawnChild(w)
    <3>1. \A v \in Workers : v # w => at'[v] \notin Holding
      BY <2>4 DEF SpawnChild
    <3>2. hand'[w].policy = launch[w] /\ hand'[w].id = spawned'
      BY <2>4 DEF SpawnChild, Process
    <3>3. QED
      BY <2>4, <3>1, <3>2 DEF SpawnChild
  <2>5. CASE ChildReady(w)
    BY <2>5 DEF ChildReady, machine
  <2>6. CASE StartFails(w)
    BY <2>6 DEF StartFails
  <2>7. CASE Install(w)
    BY <2>7 DEF Install, machine
  <2>8. CASE NotifyClients(w)
    BY <2>8 DEF NotifyClients, machine
  <2>9. QED
    BY <1>7, <2>1, <2>2, <2>3, <2>4, <2>5, <2>6, <2>7, <2>8 DEF Replace
<1>8. ASSUME NEW s \in Subscribers, SubscribeClients(s) PROVE Policy'
  BY <1>1, <1>8 DEF SubscribeClients, machine, workers
<1>9. ASSUME NEW v \in Values, SetSettings(v) PROVE Policy'
  BY <1>1, <1>9 DEF SetSettings, machine, workers
<1>10. CASE QueueSettings
  BY <1>1, <1>10 DEF QueueSettings, machine, workers
<1>11. CASE Writer
  BY <1>1, <1>11 DEF Writer, WriterReceives, WriterAsks, DaemonStores, WriterAck,
                     WriterRetries, machine, workers
<1>12. CASE DropHandles
  BY <1>1, <1>12 DEF DropHandles, machine, workers
<1>13. CASE FreeSupervisor
  BY <1>1, <1>13 DEF FreeSupervisor, workers
<1>14. CASE UNCHANGED vars
  BY <1>1, <1>14 DEF vars, machine, workers
<1>15. QED
  BY <1>2, <1>3, <1>4, <1>5, <1>6, <1>7, <1>8, <1>9, <1>10, <1>11, <1>12, <1>13, <1>14 DEF Next

-----------------------------------------------------------------------------
(* What the subscribers were sent *)

LEMMA SentKept ==
    ASSUME SupervisorAssumption, TypeOK, Custody, Policy, SentInOrder, [Next]_vars
    PROVE  SentInOrder'
<1> USE DEF TypeOK, Goto, Workers
<1>1. ASSUME UNCHANGED <<registered, received>>, target'.process = target.process,
             \A w \in Workers : at'[w] = "notify" <=> at[w] = "notify"
      PROVE  SentInOrder'
  BY <1>1 DEF SentInOrder
<1>2. ASSUME NEW p \in alive, Crash(p) PROVE SentInOrder'
  BY <1>1, <1>2 DEF Crash, workers, clients
<1>3. CASE Rebuild
  BY <1>1, <1>3 DEF Rebuild, workers, clients
<1>4. CASE Monitor
  BY <1>1, <1>4 DEF Monitor, Poll, MonitorDone, MonitorFailed, Release, machine, clients
<1>5. ASSUME NEW policy \in Policies, Apply(policy) PROVE SentInOrder'
  BY <1>1, <1>5 DEF Apply, machine, clients
<1>6. CASE Reconfigure
  BY <1>1, <1>6 DEF Reconfigure, ApplyDone, Restore, ApplyFailed, Release, machine, clients
<1>7. ASSUME NEW w \in Workers, Replace(w) PROVE SentInOrder'
  <2>1. CASE LockRestart(w) \/ TakeTarget(w) \/ StopPrevious(w) \/ SpawnChild(w)
             \/ ChildReady(w) \/ StartFails(w)
    BY <1>1, <2>1 DEF LockRestart, TakeTarget, StopPrevious, SpawnChild, ChildReady, StartFails,
                      machine, clients
  <2>2. CASE Install(w)
    <3>1. target'.process.id = spawned /\ target.process.id <= spawned
          /\ target.process.id \in Nat
      BY <2>2 DEF Install, Policy, ChildIsAsLaunched, Processes
    <3>2. ~ \A v \in Workers : at'[v] # "notify"
      BY <2>2 DEF Install
    <3>3. \A s \in Subscribers : \A i \in DOMAIN received[s] : received[s][i] \in Nat
      OBVIOUS
    <3>4. QED
      BY <2>2, <3>1, <3>2, <3>3 DEF Install, SentInOrder, machine, clients
  <2>3. CASE NotifyClients(w)
    <3>1. hand[w].id = target.process.id /\ target' = target /\ target.process.id \in Nat
      BY <2>3 DEF NotifyClients, Custody, TargetFollows, Processes
    <3>2. \A s \in Subscribers \ registered : received'[s] = <<>>
      BY <2>3 DEF NotifyClients, SentInOrder
    <3>3. ASSUME NEW s \in registered
          PROVE  /\ received'[s] # <<>>
                 /\ \A i \in DOMAIN received'[s] : received'[s][i] <= target.process.id
                 /\ \A i, j \in DOMAIN received'[s] :
                       i < j => received'[s][i] <= received'[s][j]
                 /\ received'[s][Len(received'[s])] = target.process.id
      <4>1. received'[s] = Append(received[s], target.process.id) /\ received[s] \in Seq(Nat)
        BY <2>3, <3>1 DEF NotifyClients
      <4>2. \A i \in DOMAIN received[s] : received[s][i] <= target.process.id
        BY DEF SentInOrder
      <4>3. \A i, j \in DOMAIN received[s] : i < j => received[s][i] <= received[s][j]
        BY DEF SentInOrder
      <4>. DEFINE sent == received[s]
                  more == Append(sent, target.process.id)
      <4>4. /\ Len(sent) \in Nat /\ DOMAIN sent = 1..Len(sent)
            /\ Len(more) = Len(sent) + 1 /\ DOMAIN more = 1..(Len(sent) + 1)
            /\ \A i \in 1..Len(sent) : more[i] = sent[i] /\ sent[i] \in Nat
            /\ more[Len(sent) + 1] = target.process.id
        BY <3>1, <4>1
      <4>5. \A i \in 1..(Len(sent) + 1) : i \in 1..Len(sent) \/ i = Len(sent) + 1
        BY <4>4
      <4>6. \A i \in DOMAIN more : more[i] <= target.process.id
        BY <3>1, <4>2, <4>4, <4>5
      <4>7. \A i, j \in DOMAIN more : i < j => more[i] <= more[j]
        <5>1. ASSUME NEW i \in DOMAIN more, NEW j \in DOMAIN more, i < j
              PROVE  more[i] <= more[j]
          <6>1. CASE j \in 1..Len(sent)
            <7>1. i \in 1..Len(sent)
              BY <4>4, <5>1, <6>1
            <7>2. QED
              BY <4>3, <4>4, <5>1, <6>1, <7>1
          <6>2. CASE j = Len(sent) + 1
            BY <4>4, <4>6, <5>1, <6>2
          <6>3. QED
            BY <4>4, <4>5, <5>1, <6>1, <6>2
        <5>2. QED
          BY <5>1
      <4>8. received'[s] = more /\ more # <<>>
        <5>1. Len(more) # 0
          BY <4>4
        <5>2. Len(<<>>) = 0
          OBVIOUS
        <5>3. more # <<>>
          BY ONLY <5>1, <5>2
        <5>4. QED
          BY <4>1, <5>3
      <4>9. QED
        BY <4>4, <4>6, <4>7, <4>8
    <3>4. registered' = registered
      BY <2>3 DEF NotifyClients
    <3>5. QED
      BY <3>1, <3>2, <3>3, <3>4 DEF SentInOrder
  <2>4. QED
    BY <1>7, <2>1, <2>2, <2>3 DEF Replace
<1>8. ASSUME NEW s \in Subscribers, SubscribeClients(s) PROVE SentInOrder'
  <2>1. received[s] = <<>> /\ target.process.id \in Nat
    BY <1>8 DEF SubscribeClients, SentInOrder, Processes
  <2>2. received' = [received EXCEPT ![s] = <<target.process.id>>]
    BY <1>8, <2>1 DEF SubscribeClients
  <2>3. QED
    BY <1>8, <2>1, <2>2 DEF SubscribeClients, SentInOrder, workers
<1>9. ASSUME NEW v \in Values, SetSettings(v) PROVE SentInOrder'
  BY <1>1, <1>9 DEF SetSettings, machine, workers, clients
<1>10. CASE QueueSettings
  BY <1>1, <1>10 DEF QueueSettings, machine, workers, clients
<1>11. CASE Writer
  BY <1>1, <1>11 DEF Writer, WriterReceives, WriterAsks, DaemonStores, WriterAck,
                     WriterRetries, machine, workers, clients
<1>12. CASE DropHandles
  BY <1>1, <1>12 DEF DropHandles, machine, workers, clients
<1>13. CASE FreeSupervisor
  BY <1>1, <1>13 DEF FreeSupervisor, workers, clients
<1>14. CASE UNCHANGED vars
  BY <1>1, <1>14 DEF vars, machine, workers, clients
<1>15. QED
  BY <1>2, <1>3, <1>4, <1>5, <1>6, <1>7, <1>8, <1>9, <1>10, <1>11, <1>12, <1>13, <1>14 DEF Next

-----------------------------------------------------------------------------
(* The theorems *)

IInv == TypeOK /\ Custody /\ Policy /\ SentInOrder

LEMMA InitIInv == ASSUME SupervisorAssumption, Init PROVE IInv
<1>1. TypeOK
  BY InitTypes
<1>2. Custody
  BY DEF Init, Custody, MutexIsHeld, TargetFollows, AliveIsHeld, Workers, Holding
<1>3. Policy
  BY DEF Init, Policy, LaunchIsMeant, ChildIsAsLaunched, PolicyInForce, Workers, Holding, Process
<1>4. SentInOrder
  BY DEF Init, SentInOrder
<1>5. QED
  BY <1>1, <1>2, <1>3, <1>4 DEF IInv

\* The inductive invariant: the restart mutex and what the worker that holds it
\* has done, the policies of what was launched, and the connections sent.
THEOREM SupervisorInvariant == ASSUME SupervisorAssumption PROVE Spec => []IInv
<1>1. IInv /\ [Next]_vars => IInv'
  BY NextTypes, CustodyKept, PolicyKept, SentKept DEF IInv
<1>2. QED
  BY InitIInv, <1>1, PTL DEF Spec

LEMMA CustodyImpliesOwned ==
    ASSUME IInv PROVE OneOwnedDaemon
<1>1. DaemonIsOwned
  BY DEF IInv, Custody, AliveIsHeld, DaemonIsOwned
<1>2. \A p, q \in alive : p = q
  BY DEF IInv, Custody, AliveIsHeld, MutexIsHeld, Holding, Workers
<1>3. OneDaemon
  <2>1. CASE alive = {}
    BY <2>1, FS_EmptySet DEF OneDaemon
  <2>2. CASE alive # {}
    <3>1. PICK p \in alive : alive = {p}
      BY <1>2, <2>2
    <3>2. Cardinality(alive) = 1
      BY <3>1, FS_Singleton
    <3>3. QED
      BY <3>2 DEF OneDaemon
  <2>3. QED
    BY <2>1, <2>2
<1>4. QED
  BY <1>1, <1>3 DEF IInv, OneOwnedDaemon

\* Two daemons never run at once, and a daemon that runs is the supervisor's
\* target or in the hands of the one worker that replaces it.
THEOREM OneDaemonIsOwned == ASSUME SupervisorAssumption PROVE Spec => []OneOwnedDaemon
  BY SupervisorInvariant, CustodyImpliesOwned, PTL

\* The daemon that serves listens as the supervisor remembers it.
THEOREM RememberedPolicyServes == ASSUME SupervisorAssumption PROVE Spec => []PolicyInForce
<1>1. IInv => PolicyInForce
  BY DEF IInv, Policy
<1>2. QED
  BY SupervisorInvariant, <1>1, PTL

\* A subscriber's connections never go back, and the last is the current one.
THEOREM ConnectionsInOrder ==
    ASSUME SupervisorAssumption PROVE Spec => []SubscribersAreCurrent
<1>1. IInv => SubscribersAreCurrent
  BY DEF IInv, SentInOrder, SubscribersAreCurrent
<1>2. QED
  BY SupervisorInvariant, <1>1, PTL

=============================================================================
