-------------------------- MODULE DaemonSupervisor --------------------------
(***************************************************************************)
(* The desktop's supervisor of the daemon it launched                      *)
(* (crates/shidou-client/src/process.rs).                                  *)
(*                                                                         *)
(* A monitor thread looks at the daemon every half second and replaces it  *)
(* when it has exited or its executable was rebuilt; Settings replaces it  *)
(* to change how it listens.  Both go through replace_local_daemon, under  *)
(* the restart mutex, while the target mutex is only held for an instant.  *)
(* Threads of the desktop subscribe to the current connection, and a       *)
(* writer thread carries the provider settings to whichever daemon serves. *)
(***************************************************************************)
EXTENDS Naturals, Sequences, FiniteSets

CONSTANTS
    Policies,       \* listener policies (DaemonExposureSettings)
    Initial,        \* the policy the first daemon is launched with
    Watch,          \* watch_for_rebuilds
    Subscribers,    \* threads that call subscribe_clients
    Values,         \* provider settings
    MayReturn,      \* bound: may the user go back to settings left before?
    MaxChoices,     \* bound: changes of the settings
    MaxTrouble,     \* bound: crashes, failed starts and failed requests
    MaxBuilds,      \* bound: builds of the executable
    MaxApplies,     \* bound: calls of reconfigure
    MaxMoves        \* bound: all of these together

ASSUME SupervisorAssumption ==
    /\ Initial \in Policies
    /\ Watch \in BOOLEAN /\ MayReturn \in BOOLEAN
    /\ Values # {} /\ "none" \notin Values
    /\ MaxChoices \in Nat /\ MaxTrouble \in Nat /\ MaxBuilds \in Nat \ {0}
    /\ MaxApplies \in Nat /\ MaxMoves \in Nat

Workers == {"monitor", "reconfigure"}

\* A daemon process; its id is also the connection the desktop has to it.
Process(id, build, policy) == [id |-> id, build |-> build, policy |-> policy]

NoProcess == Process(0, 0, Initial)

VARIABLES
    alive,          \* daemon processes that run
    spawned,        \* processes launched so far
    executable,     \* the build on disk
    trouble,        \* crashes, failed starts and failed requests so far
    target,         \* target: "local" with its process, or "restarting" after it
    restart,        \* restart: the worker that holds the mutex, or "free"
    at,             \* where each worker is
    hand,           \* the process a worker stops or starts
    launch,         \* the policy replace_local_daemon launches with
    observed,       \* the stamp the monitor read last
    stamp,          \* active_stamp of the monitor
    exposure,       \* exposure
    requested,      \* the policy reconfigure was called with
    applies,        \* calls of reconfigure so far
    registered,     \* client_updates
    received,       \* the connections each subscriber was sent
    settings,       \* settings: what the user wants
    persisted,      \* persisted_settings: what the writer has put across last
    queue,          \* settings_updates
    writer,         \* "recv", "ask", "wait", "ack"
    carrying,       \* the settings the writer sends
    asked,          \* the process it sends them to
    editor,         \* "idle", "set": the UI thread in update_settings
    used,           \* the choices so far
    stored,         \* settings.json of the daemon
    app             \* "running", "dropped", "freed": the supervisor's handles

machine   == <<alive, spawned, executable, trouble>>
clients   == <<registered, received>>
workers   == <<restart, at, hand, launch, observed, stamp, exposure, requested, applies>>
writing   == <<queue, writer, carrying, asked, persisted>>
editing   == <<settings, editor, used>>
vars == <<machine, target, workers, clients, writing, editing, stored, app>>

First == CHOOSE v \in Values : TRUE

\* spawn_configured has launched build 1 and had its settings before it reads the
\* first stamp: the executable may have been rebuilt by then.
Init ==
    /\ alive = {Process(1, 1, Initial)}
    /\ spawned = 1
    /\ executable \in 1..MaxBuilds
    /\ trouble = 0
    /\ target = [kind |-> "local", process |-> Process(1, 1, Initial)]
    /\ restart = "free"
    /\ at = [w \in Workers |-> "idle"]
    /\ hand = [w \in Workers |-> NoProcess]
    /\ launch = [w \in Workers |-> Initial]
    /\ observed = executable
    /\ stamp = executable
    /\ exposure = Initial
    /\ requested = Initial
    /\ applies = 0
    /\ registered = {}
    /\ received = [s \in Subscribers |-> <<>>]
    /\ settings = First
    /\ persisted = "none"
    /\ queue = <<>>
    /\ writer = "recv"
    /\ carrying = First
    /\ asked = NoProcess
    /\ editor = "idle"
    /\ used = <<First>>
    /\ stored = First
    /\ app = "running"

-----------------------------------------------------------------------------
(* The world: crashes and rebuilds *)

MayMove == trouble + (executable - 1) + applies + (Len(used) - 1) < MaxMoves

Crash(p) ==
    /\ p \in alive
    /\ trouble < MaxTrouble /\ MayMove                           \* bounds
    /\ trouble' = trouble + 1
    /\ alive' = alive \ {p}
    /\ UNCHANGED <<spawned, executable, target, workers, clients, writing, editing, stored, app>>

Rebuild ==
    /\ Watch
    /\ executable < MaxBuilds /\ MayMove                        \* bounds
    /\ executable' = executable + 1
    /\ UNCHANGED <<alive, spawned, trouble, target, workers, clients, writing, editing, stored, app>>

-----------------------------------------------------------------------------
(* monitor_daemon and reconfigure: how a worker comes to replace the daemon  *)

Goto(w, place) == at' = [at EXCEPT ![w] = place]

\* mutant: a replacement that failed is not a reason
OnlyLocalExits == target.kind = "local" /\ target.process \notin alive
HasExited == target.kind = "restarting" \/ target.process \notin alive

\* The monitor wakes, looks at the target and the executable, and goes for the
\* restart mutex; it does not look again once it has it.
Poll ==
    /\ at["monitor"] = "idle"
    /\ app # "freed"
    /\ HasExited \/ (Watch /\ executable # stamp)
    /\ observed' = executable
    /\ Goto("monitor", "lock")
    /\ UNCHANGED <<machine, target, restart, hand, launch, stamp, exposure, requested,
                   applies, clients, writing, editing, stored, app>>

Apply(policy) ==
    /\ at["reconfigure"] = "idle"
    /\ app = "running"
    /\ applies < MaxApplies /\ MayMove                          \* bounds
    /\ policy # exposure         \* apply_daemon_exposure ignores an unchanged form
    /\ applies' = applies + 1
    /\ requested' = policy
    /\ Goto("reconfigure", "lock")
    /\ UNCHANGED <<machine, target, restart, hand, launch, observed, stamp, exposure,
                   clients, writing, editing, stored, app>>

\* mutant: the restart mutex is not taken
NobodyWaits == TRUE
RestartIsFree == restart = "free"

LockRestart(w) ==
    /\ at[w] = "lock"
    /\ RestartIsFree
    /\ restart' = w
    /\ launch' = [launch EXCEPT ![w] = IF w = "monitor" THEN exposure ELSE requested]
    /\ Goto(w, "take")
    /\ UNCHANGED <<machine, target, hand, observed, stamp, exposure, requested, applies,
                   clients, writing, editing, stored, app>>

-----------------------------------------------------------------------------
(* replace_local_daemon *)

\* Under the target mutex: from now on the target is the closing connection.
TakeTarget(w) ==
    /\ at[w] = "take"
    /\ target' = [target EXCEPT !.kind = "restarting"]
    /\ hand' = [hand EXCEPT ![w] =
                   IF target.kind = "local" THEN target.process ELSE NoProcess]
    /\ Goto(w, "stop")
    /\ UNCHANGED <<machine, restart, launch, observed, stamp, exposure, requested, applies,
                   clients, writing, editing, stored, app>>

\* drop(previous): shutdown, a second's patience, kill.
StopPrevious(w) ==
    /\ at[w] = "stop"
    /\ alive' = alive \ {hand[w]}
    /\ Goto(w, "spawn")
    /\ UNCHANGED <<spawned, executable, trouble, target, restart, hand, launch, observed, stamp,
                   exposure, requested, applies, clients, writing, editing, stored, app>>

SpawnChild(w) ==
    LET child == Process(spawned + 1, executable, launch[w])
    IN  /\ at[w] = "spawn"
        /\ spawned' = spawned + 1
        /\ alive' = alive \cup {child}
        /\ hand' = [hand EXCEPT ![w] = child]
        /\ Goto(w, "starting")
        /\ UNCHANGED <<executable, trouble, target, restart, launch, observed, stamp, exposure,
                       requested, applies, clients, writing, editing, stored, app>>

\* It reports its address and accepts the connection.
ChildReady(w) ==
    /\ at[w] = "starting"
    /\ hand[w] \in alive
    /\ Goto(w, "install")
    /\ UNCHANGED <<machine, target, restart, hand, launch, observed, stamp, exposure, requested,
                   applies, clients, writing, editing, stored, app>>

\* It exits, is late, or speaks another protocol: it is killed.
StartFails(w) ==
    /\ at[w] = "starting"
    /\ hand[w] \notin alive \/ (trouble < MaxTrouble /\ MayMove)  \* bounds
    /\ trouble' = IF hand[w] \in alive THEN trouble + 1 ELSE trouble
    /\ alive' = alive \ {hand[w]}
    /\ Goto(w, "failed")
    /\ UNCHANGED <<spawned, executable, target, restart, hand, launch, observed, stamp, exposure,
                   requested, applies, clients, writing, editing, stored, app>>

Install(w) ==
    /\ at[w] = "install"
    /\ target' = [kind |-> "local", process |-> hand[w]]
    /\ Goto(w, "notify")
    /\ UNCHANGED <<machine, restart, hand, launch, observed, stamp, exposure, requested, applies,
                   clients, writing, editing, stored, app>>

NotifyClients(w) ==
    /\ at[w] = "notify"
    /\ received' = [s \in Subscribers |->
                       IF s \in registered THEN Append(received[s], hand[w].id) ELSE received[s]]
    /\ Goto(w, "replaced")
    /\ UNCHANGED <<machine, target, restart, hand, launch, observed, stamp, exposure, requested,
                   applies, registered, writing, editing, stored, app>>

-----------------------------------------------------------------------------
(* What a worker does when the replacement has come to its end.  The refresh *)
(* of the settings is one step: the writer looks at `settings' again anyway. *)

Release(w) ==
    /\ restart' = "free"
    /\ Goto(w, "idle")
    /\ hand' = [hand EXCEPT ![w] = NoProcess]

QueueRefresh ==
    /\ persisted' = "none"
    /\ queue' = Append(queue, settings)
    /\ UNCHANGED <<writer, carrying, asked>>

\* mutant: the stamp is read once the daemon is up
RestampLate == executable
Restamp == observed

MonitorDone ==
    /\ at["monitor"] = "replaced"
    /\ stamp' = Restamp
    /\ QueueRefresh
    /\ Release("monitor")
    /\ UNCHANGED <<machine, target, launch, observed, exposure, requested, applies, clients,
                   editing, stored, app>>

MonitorFailed ==
    /\ at["monitor"] = "failed"
    /\ Release("monitor")
    /\ UNCHANGED <<machine, target, launch, observed, stamp, exposure, requested, applies,
                   clients, writing, editing, stored, app>>

Restoring == launch["reconfigure"] # requested

\* mutant: the new policy is not remembered
KeepExposure == exposure
Adopted == IF Restoring THEN exposure ELSE requested

ApplyDone ==
    /\ at["reconfigure"] = "replaced"
    /\ exposure' = Adopted
    /\ QueueRefresh
    /\ Release("reconfigure")
    /\ UNCHANGED <<machine, target, launch, observed, stamp, requested, applies, clients,
                   editing, stored, app>>

\* The previous policy is put back.
Restore ==
    /\ at["reconfigure"] = "failed"
    /\ ~Restoring
    /\ launch' = [launch EXCEPT !["reconfigure"] = exposure]
    /\ Goto("reconfigure", "take")
    /\ UNCHANGED <<machine, target, restart, hand, observed, stamp, exposure, requested,
                   applies, clients, writing, editing, stored, app>>

ApplyFailed ==
    /\ at["reconfigure"] = "failed"
    /\ Restoring
    /\ Release("reconfigure")
    /\ UNCHANGED <<machine, target, launch, observed, stamp, exposure, requested, applies,
                   clients, writing, editing, stored, app>>

-----------------------------------------------------------------------------
(* Threads of the desktop *)

\* mutant: only later connections are sent
RegisterOnly(s) ==
    /\ s \notin registered
    /\ app = "running"
    /\ registered' = registered \cup {s}
    /\ UNCHANGED <<machine, target, workers, received, writing, editing, stored, app>>

\* subscribe_clients, under the target mutex.
SubscribeClients(s) ==
    /\ s \notin registered
    /\ app = "running"
    /\ registered' = registered \cup {s}
    /\ received' = [received EXCEPT ![s] = Append(@, target.process.id)]
    /\ UNCHANGED <<machine, target, workers, writing, editing, stored, app>>

\* update_settings, first half: the wish (each save of the app repeats it).
SetSettings(v) ==
    /\ editor = "idle"
    /\ app = "running"
    /\ Len(used) <= MaxChoices /\ MayMove                       \* bounds
    /\ MayReturn \/ \A i \in DOMAIN used : used[i] # v
    /\ settings' = v
    /\ used' = Append(used, v)
    /\ editor' = "set"
    /\ UNCHANGED <<machine, target, workers, clients, writing, stored, app>>

\* mutant: an update is left out while one is under way
Unneeded == persisted = settings \/ writer # "recv"
AlreadyPersisted == persisted = settings

\* Second half: queued, unless it is what was put across last.
QueueSettings ==
    /\ editor = "set"
    /\ editor' = "idle"
    /\ queue' = IF AlreadyPersisted THEN queue ELSE Append(queue, settings)
    /\ UNCHANGED <<machine, target, workers, clients, writer, carrying, asked, persisted,
                   settings, used, stored, app>>

-----------------------------------------------------------------------------
(* persist_settings *)

WriterReceives ==
    /\ writer = "recv"
    /\ queue # <<>>
    /\ carrying' = queue[Len(queue)]
    /\ queue' = <<>>
    /\ writer' = "ask"
    /\ UNCHANGED <<machine, target, workers, clients, asked, persisted, editing, stored, app>>

\* What is wanted by now goes to the daemon that serves by now.
WriterAsks ==
    /\ writer = "ask"
    /\ app # "freed"
    /\ carrying' = settings
    /\ asked' = target.process
    /\ writer' = "wait"
    /\ UNCHANGED <<machine, target, workers, clients, queue, persisted, editing, stored, app>>

DaemonStores ==
    /\ writer = "wait"
    /\ asked \in alive
    /\ stored' = carrying
    /\ writer' = "ack"
    /\ UNCHANGED <<machine, target, workers, clients, queue, carrying, asked, persisted,
                   editing, app>>

WriterAck ==
    /\ writer = "ack"
    /\ persisted' = carrying
    /\ writer' = "recv"
    /\ UNCHANGED <<machine, target, workers, clients, queue, carrying, asked, editing, stored, app>>

\* An error, before the daemon stored them or before it said so: the connection
\* is gone, the answer is late, or the daemon refuses.
WriterRetries ==
    /\ writer \in {"wait", "ack"}
    /\ asked \notin alive \/ (trouble < MaxTrouble /\ MayMove)     \* bounds
    /\ trouble' = IF asked \in alive THEN trouble + 1 ELSE trouble
    /\ writer' = "ask"
    /\ UNCHANGED <<alive, spawned, executable, target, workers, clients, queue, carrying, asked,
                   persisted, editing, stored, app>>

-----------------------------------------------------------------------------
(* The end: the last handle goes, and with the last thread that holds the    *)
(* supervisor its process is stopped.  (`running' only spares the threads    *)
(* a round.)                                                                 *)

DropHandles ==
    /\ app = "running"
    /\ editor = "idle"
    /\ at["reconfigure"] = "idle"
    /\ app' = "dropped"
    /\ UNCHANGED <<machine, target, workers, clients, writing, editing, stored>>

FreeSupervisor ==
    /\ app = "dropped"
    /\ at["monitor"] = "idle"
    /\ writer \in {"recv", "ask"}
    /\ alive' = IF target.kind = "local" THEN alive \ {target.process} ELSE alive
    /\ app' = "freed"
    /\ UNCHANGED <<spawned, executable, trouble, target, workers, clients, writing, editing, stored>>

-----------------------------------------------------------------------------
Replace(w) ==
    \/ LockRestart(w)
    \/ TakeTarget(w)
    \/ StopPrevious(w)
    \/ SpawnChild(w)
    \/ ChildReady(w)
    \/ StartFails(w)
    \/ Install(w)
    \/ NotifyClients(w)

Monitor == Poll \/ MonitorDone \/ MonitorFailed

Reconfigure == ApplyDone \/ Restore \/ ApplyFailed

Writer ==
    \/ WriterReceives
    \/ WriterAsks
    \/ DaemonStores
    \/ WriterAck
    \/ WriterRetries

Next ==
    \/ \E p \in alive : Crash(p)
    \/ Rebuild
    \/ Monitor
    \/ \E policy \in Policies : Apply(policy)
    \/ Reconfigure
    \/ \E w \in Workers : Replace(w)
    \/ \E s \in Subscribers : SubscribeClients(s)
    \/ \E v \in Values : SetSettings(v)
    \/ QueueSettings
    \/ Writer
    \/ DropHandles
    \/ FreeSupervisor

Spec == Init /\ [][Next]_vars

\* The threads run, and the restart mutex is fair to a thread that waits for
\* it.  No crash, rebuild, subscription or choice of the user has to come.
Fairness ==
    /\ WF_vars(Monitor)
    /\ WF_vars(Reconfigure)
    /\ WF_vars(Writer)
    /\ WF_vars(QueueSettings)
    /\ WF_vars(FreeSupervisor)
    /\ \A w \in Workers : SF_vars(LockRestart(w)) /\ WF_vars(Replace(w))

LiveSpec == Spec /\ Fairness

-----------------------------------------------------------------------------
(* Properties *)

Processes == [id : 0..spawned, build : 0..MaxBuilds, policy : Policies]

\* The types of the variables.
TypeOK ==
    /\ spawned \in Nat
    /\ alive \subseteq Processes
    /\ executable \in 1..MaxBuilds
    /\ trouble \in 0..MaxTrouble
    /\ target \in [kind : {"local", "restarting"}, process : Processes]
    /\ restart \in Workers \cup {"free"}
    /\ at \in [Workers -> {"idle", "lock", "take", "stop", "spawn", "starting", "install",
                            "notify", "replaced", "failed"}]
    /\ hand \in [Workers -> Processes]
    /\ launch \in [Workers -> Policies]
    /\ observed \in 1..executable /\ stamp \in 1..observed
    /\ exposure \in Policies /\ requested \in Policies
    /\ applies \in 0..MaxApplies
    /\ registered \subseteq Subscribers
    /\ received \in [Subscribers -> Seq(0..spawned)]
    /\ settings \in Values /\ carrying \in Values /\ stored \in Values
    /\ persisted \in Values \cup {"none"}
    /\ queue \in Seq(Values)
    /\ writer \in {"recv", "ask", "wait", "ack"}
    /\ asked \in Processes
    /\ editor \in {"idle", "set"}
    /\ used \in Seq(Values)
    /\ app \in {"running", "dropped", "freed"}

\* Two daemons would open one database and one journal: whatever Settings and
\* the monitor do at once, a daemon is only started when none is running.
OneDaemon == Cardinality(alive) <= 1

\* providers.md:100 "The supervisor owns and stops a daemon it launched": a
\* daemon that runs is the target, or a worker is stopping or starting it.
DaemonIsOwned ==
    \A p \in alive :
        \/ target.kind = "local" /\ target.process = p
        \/ \E w \in Workers : hand[w] = p /\ at[w] # "idle"

\* Both, whatever Settings and the monitor do at once.
OneOwnedDaemon == TypeOK /\ OneDaemon /\ DaemonIsOwned

\* Whoever restarted last, the daemon listens as the supervisor remembers it,
\* also after a change that failed and was taken back.
PolicyInForce ==
    restart = "free" /\ target.kind = "local" => target.process.policy = exposure

\* The comment in subscribe_clients: a subscriber sees the old client and then
\* the new one, or the new one directly.  It never goes back to an older one,
\* and what it has last is the current one as soon as the notice is out.
SubscribersAreCurrent ==
    \A s \in registered :
        LET r == received[s]
        IN  /\ r # <<>>
            /\ \A i, j \in DOMAIN r : i < j => r[i] <= r[j]
            /\ (\A w \in Workers : at[w] # "notify") => r[Len(r)] = target.process.id

\* A rebuild that the supervisor's first stamp does not have is served in the
\* end, also one made while a replacement is under way (`active_stamp' is what was
\* read before it).
RebuildIsServed ==
    \A n \in 1..MaxBuilds :
        executable = n /\ stamp # n
            ~> (target.kind = "local" /\ target.process.build >= n) \/ app # "running"

\* process.rs:349 "swaps it after a successful rebuild": also one made while the
\* first daemon starts, whose stamp is read after that (process.rs:373).
EveryBuildIsServed ==
    \A n \in 1..MaxBuilds :
        executable = n ~> (target.kind = "local" /\ target.process.build >= n) \/ app # "running"

Serving == target.kind = "local" /\ target.process \in alive

\* A crash, a failed start and a failed change of policy are all recovered from,
\* and no daemon outlives the last handle of its supervisor.
RunsToTheEnd ==
    /\ app = "running" ~> Serving \/ app # "running"
    /\ app = "dropped" ~> alive = {}

\* "Queue a daemon settings update without blocking the desktop UI thread"
\* (update_settings): what the user chose last is what the daemon has in the
\* end, across restarts of the daemon and lost answers.
SettingsArrive == <>[](app # "running" \/ stored = settings)

\* process.rs:349 "swaps it after a successful rebuild": a healthy daemon of the
\* build on disk is not stopped by the monitor.
HealthyIsLeftAlone ==
    [][\A p \in alive : at["monitor"] = "stop" /\ hand["monitor"] = p
                        /\ p.build = executable => p \in alive']_vars

=============================================================================
