------------------------------- MODULE TaskTurn -------------------------------
(***************************************************************************)
(* The turns of one task, from the prompt to the turn's end: the worker    *)
(* that serves the task's commands (crates/shidou-core/src/server.rs), the *)
(* backend that accepts prompts and reduces events (daemon.rs), the        *)
(* reducer (crates/shidou-protocol/src/reducer.rs), the saved record       *)
(* (persistence.rs) and the provider's process with the channel of its     *)
(* events.                                                                 *)
(*                                                                         *)
(* The worker serves one command at a time, in the steps between which the *)
(* task's mutex is free and events of the provider may be reduced.         *)
(* EventHub has the hub's inside: events of the active runtime are reduced *)
(* one at a time and in order, so that an emission is one step here.       *)
(* RuntimeMailbox has the worker's: it knows the runtime the hub has       *)
(* (DriverIsSupervised), so that `active` stands for both.                 *)
(***************************************************************************)
EXTENDS Naturals, Sequences

CONSTANTS
    Runtimes,       \* runtime ids; every Start draws a fresh one
    None,           \* no runtime
    MaxTurns,       \* bound: turns begun
    MaxAsks,        \* bound: requests a provider makes to the user
    MaxBacklog,     \* bound: events a provider is ahead of the forwarder
    May             \* what happens in a run, of Disturbances

\* overlap: a client prompts while a turn runs (another client's view is stale)
\* replace: a client starts a runtime while a turn runs
\* rewind, archive, restart: a message is edited, the task put on the shelf, the
\* daemon restarted.  error, exit: a provider reports errors; its process exits
Disturbances == {"overlap", "replace", "rewind", "archive", "restart", "error", "exit"}

ASSUME TurnAssumption ==
    /\ None \notin Runtimes
    /\ MaxTurns \in Nat /\ MaxAsks \in Nat /\ MaxBacklog \in Nat
    /\ May \subseteq Disturbances

VARIABLES
    active,         \* the hub's active runtime of the session
    driver,         \* the backend's sessions: the runtime with a driver
    provider,       \* each runtime's process
    channel,        \* driver events not yet forwarded to the hub
    pending,        \* reducers: each runtime's pending interactions
    task,           \* the session in task_state
    loaded,         \* its detail_loaded: or else its turns are not fetched
    disk,           \* the session's rows
    worker,         \* the command being served and how far it is
    used, minted, asked     \* runtime ids, turn ids and request ids drawn

runtime  == <<active, driver>>
record   == <<task, loaded, disk>>
drawn    == <<used, minted, asked>>
vars == <<runtime, provider, channel, pending, record, worker, drawn>>

Interactions == {"permission", "input"}
Nothing == [i \in Interactions |-> 0]

Turn(id, count, status) == [id |-> id, count |-> count, status |-> status]
NoTurn == Turn(0, 0, "none")
Blank == [turns |-> <<>>, status |-> "idle", archived |-> FALSE]

Event(type, id, turn) == [type |-> type, id |-> id, turn |-> turn]
Plain(type)     == Event(type, 0, NoTurn)
Accepted(turn)  == Event("accepted", 0, turn)
Resolved(id)    == Event("resolved", id, NoTurn)

Resting == [at |-> "idle", run |-> None, turn |-> NoTurn, ask |-> 0, source |-> Blank]
Doing(at, r) == [Resting EXCEPT !.at = at, !.run = r]
Go(at) == [worker EXCEPT !.at = at]

Unstarted == [at |-> "none", prompts |-> 0, asks |-> {}]

Init ==
    /\ active = None
    /\ driver = None
    /\ provider = [r \in Runtimes |-> Unstarted]
    /\ channel = [r \in Runtimes |-> <<>>]
    /\ pending = [r \in Runtimes |-> Nothing]
    /\ task = Blank
    /\ loaded = TRUE
    /\ disk = Blank
    /\ worker = Resting
    /\ used = {}
    /\ minted = 0
    /\ asked = 0

-----------------------------------------------------------------------------
(* The projection: AgentSession and Reducer::apply *)

\* active_turn_id: only the last turn counts.
Running(t) == t.turns # <<>> /\ t.turns[Len(t.turns)].status = "running"
Busy(t) == t.status \in {"connecting", "working", "waiting"}

Finish(t, outcome) ==
    IF Running(t) THEN [t EXCEPT !.turns[Len(t.turns)].status = outcome] ELSE t

\* mutant: only the turn that runs is known
KnownRunning(t, turn) == Running(t) /\ t.turns[Len(t.turns)].id = turn.id

Known(t, turn) == \E i \in DOMAIN t.turns : t.turns[i].id = turn.id

\* What reducing an event makes of the session and of its runtime's pending
\* interactions, and whether it applied.
Result(t, p, applied) == [task |-> t, pending |-> p, applied |-> applied]

ReduceAccepted(t, p, turn) ==
    LET s == IF Known(t, turn) THEN t ELSE [t EXCEPT !.turns = Append(@, turn)]
    IN  Result(IF Busy(s) THEN s ELSE [s EXCEPT !.status = "connecting"], p, TRUE)

ReduceConnected(t, p) ==
    Result(IF t.status = "connecting" THEN [t EXCEPT !.status = "working"] ELSE t, p, TRUE)

ReduceStarted(t, p) ==
    IF Running(t) THEN Result([t EXCEPT !.status = "working"], p, TRUE)
                  ELSE Result(t, p, FALSE)

\* session_accepts_turn_output; output shows that the turn has started.
Accepts(t) == Running(t) /\ Busy(t)

ReduceOutput(t, p) ==
    IF Accepts(t)
    THEN Result(IF t.status = "connecting" THEN [t EXCEPT !.status = "working"] ELSE t, p, TRUE)
    ELSE Result(t, p, FALSE)

ReduceAsk(t, p, kind, id) ==
    IF Accepts(t)
    THEN Result([t EXCEPT !.status = "waiting"], [p EXCEPT ![kind] = id], TRUE)
    ELSE Result(t, p, FALSE)

ReduceResolved(t, p, id) ==
    IF \E i \in Interactions : p[i] = id
    THEN Result([t EXCEPT !.status = "working"],
                [i \in Interactions |-> IF p[i] = id THEN 0 ELSE p[i]], TRUE)
    ELSE Result(t, p, FALSE)

\* mutant: pending interactions outlive their turn
ReduceFinishedOnly(t, p, outcome) ==
    IF Running(t)
    THEN Result([Finish(t, outcome) EXCEPT
                    !.status = IF outcome = "completed" THEN "idle" ELSE "failed"], p, TRUE)
    ELSE Result(t, p, FALSE)

ReduceFinished(t, p, outcome) ==
    IF Running(t)
    THEN Result([Finish(t, outcome) EXCEPT
                    !.status = IF outcome = "completed" THEN "idle" ELSE "failed"],
                Nothing, TRUE)
    ELSE Result(t, p, FALSE)

ReduceError(t, p) ==
    IF Running(t)
    THEN Result(IF t.status = "working" THEN t ELSE [t EXCEPT !.status = "failed"], p, TRUE)
    ELSE Result(t, p, FALSE)

ReduceExited(t, p) ==
    IF Busy(t) THEN Result([Finish(t, "failed") EXCEPT !.status = "failed"], Nothing, TRUE)
               ELSE Result(t, Nothing, FALSE)

Reduce(t, p, e) ==
    CASE e.type = "accepted"   -> ReduceAccepted(t, p, e.turn)
      [] e.type = "connected"  -> ReduceConnected(t, p)
      [] e.type = "started"    -> ReduceStarted(t, p)
      [] e.type = "output"     -> ReduceOutput(t, p)
      [] e.type \in Interactions -> ReduceAsk(t, p, e.type, e.id)
      [] e.type = "resolved"   -> ReduceResolved(t, p, e.id)
      [] e.type \in {"completed", "failed"} -> ReduceFinished(t, p, e.type)
      [] e.type = "error"      -> ReduceError(t, p)
      [] e.type = "exited"     -> ReduceExited(t, p)

-----------------------------------------------------------------------------
(* StateStore, and handle_runtime_event *)

\* The session as hydrate leaves it.
Hydrated == IF loaded THEN task ELSE [task EXCEPT !.turns = disk.turns]

\* What save leaves on disk: of a session that is not loaded, only its columns.
Saved(t, whole) == IF whole THEN t ELSE [t EXCEPT !.turns = disk.turns]

\* mutant: a connection takes a task off the shelf as well
ReturnsConnected(e) == e.type \in {"accepted", "started", "connected"} \cup Interactions

\* returns_an_archived_task
Returns(e) == e.type \in {"accepted", "started"} \cup Interactions

\* The session after the reduction of an event, off the shelf if it has become
\* active or has newly failed.
Unarchived(before, reduction, e) ==
    IF before.archived /\ reduction.applied
         /\ (Returns(e) \/ (before.status # "failed" /\ reduction.task.status = "failed"))
    THEN [reduction.task EXCEPT !.archived = FALSE]
    ELSE reduction.task

\* mutant: a change of status alone is not saved
SavesTurns(e, before, after) == e.type = "accepted" \/ before.turns # after.turns

\* mutant: a turn is saved only when it begins
SavesPrompts(e, before, after) == e.type = "accepted"

\* A prompt, a turn's end, a return from the shelf and a change of the catalog
\* entry (of the status, in this model) are saved.
Saves(e, before, after) == e.type = "accepted" \/ before # after

\* The emission of an event: dropped by the hub unless the runtime is active.
Emit(r, e) ==
    IF active = r
    THEN LET reduction == Reduce(Hydrated, pending[r], e)
             after == Unarchived(Hydrated, reduction, e)
         IN  /\ task' = after
             /\ loaded' = TRUE
             /\ pending' = [pending EXCEPT ![r] =
                               IF e.type = "exited" THEN Nothing ELSE reduction.pending]
             /\ disk' = IF Saves(e, Hydrated, after) THEN after ELSE disk
    ELSE UNCHANGED <<record, pending>>

\* The forwarding thread hands the oldest event of its channel to the hub.
Forward(r) ==
    /\ channel[r] # <<>>
    /\ Emit(r, Head(channel[r]))
    /\ channel' = [channel EXCEPT ![r] = Tail(@)]
    /\ UNCHANGED <<runtime, provider, worker, drawn>>

-----------------------------------------------------------------------------
(* Start *)

\* hub.begin_runtime: events of the old runtime are no longer heard.
StartBegin(r) ==
    /\ worker.at = "idle"
    /\ r \notin used
    /\ "replace" \in May \/ ~Running(task)
    /\ used' = used \cup {r}
    /\ active' = r
    /\ worker' = Doing("replace", r)
    /\ UNCHANGED <<driver, provider, channel, pending, record, minted, asked>>

\* The session's reducers and its driver go.
StartReplace ==
    /\ worker.at = "replace"
    /\ pending' = [r \in Runtimes |-> Nothing]
    /\ driver' = None
    /\ worker' = Go("launch")
    /\ UNCHANGED <<active, provider, channel, record, drawn>>

\* start_local and the thread that forwards its events.
StartLaunch ==
    /\ worker.at = "launch"
    /\ provider' = [provider EXCEPT ![worker.run].at = "starting"]
    /\ worker' = Go("install")
    /\ UNCHANGED <<runtime, channel, pending, record, drawn>>

StartInstall ==
    /\ worker.at = "install"
    /\ driver' = worker.run
    /\ worker' = Resting
    /\ UNCHANGED <<active, provider, channel, pending, record, drawn>>

StartFails ==
    /\ worker.at \in {"launch", "install"}
    /\ active' = None               \* hub.end_runtime of the runtime begun
    /\ worker' = Resting
    /\ UNCHANGED <<driver, provider, channel, pending, record, drawn>>

-----------------------------------------------------------------------------
(* Prompt and Respond *)

\* mutant: a turn is joined only while the session is busy
JoinsBusy(t) == Running(t) /\ Busy(t)

\* accept_prompt_turn takes the turn that runs for the prompt's.
Joins(t) == Running(t)

\* mutant: turns are counted over the task's life
CountMinted(t) == minted + 1

NextCount(t) == Len(t.turns) + 1

\* accept_prompt_turn: the last turn if it runs, or else a new one.  The save
\* follows under the same lock.
PromptAccept(r) ==
    LET last == task.turns[Len(task.turns)]
        turn == Turn(minted + 1, NextCount(task), "running")
        accepted == [task EXCEPT !.turns = Append(@, turn)]
    IN  /\ worker.at = "idle"
        /\ driver = r
        /\ "overlap" \in May \/ ~Busy(task)
        /\ IF Joins(task)
           THEN /\ worker' = [Doing("emit", r) EXCEPT !.turn = last]
                /\ disk' = Saved(task, loaded)
                /\ UNCHANGED <<task, minted>>
           ELSE /\ minted < MaxTurns                            \* bound
                /\ minted' = minted + 1
                /\ task' = accepted
                /\ disk' = Saved(accepted, loaded)
                /\ worker' = [Doing("emit", r) EXCEPT !.turn = turn]
        /\ UNCHANGED <<runtime, provider, channel, pending, loaded, used, asked>>

PromptEmit ==
    /\ worker.at = "emit"
    /\ Emit(worker.run, Accepted(worker.turn))
    /\ worker' = Go("deliver")
    /\ UNCHANGED <<runtime, provider, channel, drawn>>

Alive(r) == provider[r].at \in {"starting", "ready", "busy"}

\* mutant: a prompt is delivered only to a process that is ready for it
GivenIfReady(r) ==
    IF provider[r].at = "ready" THEN [provider EXCEPT ![r].prompts = 1] ELSE provider

\* The driver's command channel; of a dead process nobody reads it.
Given(r) == IF Alive(r) THEN [provider EXCEPT ![r].prompts = 1] ELSE provider

PromptDeliver ==
    /\ worker.at = "deliver"
    /\ provider' = Given(worker.run)
    /\ worker' = Resting
    /\ UNCHANGED <<runtime, channel, pending, record, drawn>>

\* A client answers a request it was sent, perhaps too late or again.
Heard(r, id) == \A i \in DOMAIN channel[r] : channel[r][i].id # id

Respond(r, id) ==
    /\ worker.at = "idle"
    /\ driver = r
    /\ Heard(r, id)
    /\ provider' = [provider EXCEPT ![r].asks = @ \ {id}]
    /\ worker' = [Doing("resolve", r) EXCEPT !.ask = id]
    /\ UNCHANGED <<runtime, channel, pending, record, drawn>>

RespondEmit ==
    /\ worker.at = "resolve"
    /\ Emit(worker.run, Resolved(worker.ask))
    /\ worker' = Resting
    /\ UNCHANGED <<runtime, provider, channel, drawn>>

-----------------------------------------------------------------------------
(* CloseSession *)

CloseDriver(r) ==
    /\ worker.at = "idle"
    /\ r \in used
    /\ pending' = [pending EXCEPT ![r] = Nothing]
    /\ driver' = IF driver = r THEN None ELSE driver
    /\ worker' = IF active = r THEN Doing("check", r) ELSE Resting
    /\ UNCHANGED <<active, provider, channel, record, drawn>>

\* mutant: the session's status is asked for
HasBusyTurn == Busy(task)

\* session_has_active_turn
HasActiveTurn == Running(task)

\* settle_interrupted_turn asks the backend first ...
CloseCheck ==
    /\ worker.at = "check"
    /\ worker' = Go(IF HasActiveTurn THEN "settle" ELSE "end")
    /\ UNCHANGED <<runtime, provider, channel, pending, record, drawn>>

\* ... and then tells every client that the turn failed.
CloseSettle ==
    /\ worker.at = "settle"
    /\ Emit(worker.run, Plain("failed"))
    /\ worker' = Go("end")
    /\ UNCHANGED <<runtime, provider, channel, drawn>>

\* hub.end_runtime and backend.runtime_ended
CloseEnd ==
    /\ worker.at = "end"
    /\ active' = None
    /\ pending' = [pending EXCEPT ![worker.run] = Nothing]
    /\ worker' = Resting
    /\ UNCHANGED <<driver, provider, channel, record, drawn>>

-----------------------------------------------------------------------------
(* RewindSessionToMessage, ArchiveSession and the daemon's restart *)

\* The session is hydrated and cloned; validate_message_rewind.
RewindRead(keep) ==
    /\ "rewind" \in May
    /\ worker.at = "idle"
    /\ ~Busy(task)
    /\ \E i \in DOMAIN Hydrated.turns : Hydrated.turns[i].count = keep + 1
    /\ task' = Hydrated
    /\ loaded' = TRUE
    /\ worker' = [Doing("rewind", None) EXCEPT
                     !.source = [Hydrated EXCEPT !.turns = SubSeq(@, 1, keep)]]
    /\ UNCHANGED <<runtime, provider, channel, pending, disk, drawn>>

\* The checkpoint cannot be restored, or the provider rejects the rewind.
RewindFails ==
    /\ worker.at = "rewind"
    /\ worker' = Resting
    /\ UNCHANGED <<runtime, provider, channel, pending, record, drawn>>

RewindDrop ==
    /\ worker.at = "rewind"
    /\ driver' = None
    /\ worker' = Go("rewrite")
    /\ UNCHANGED <<active, provider, channel, pending, record, drawn>>

\* The session is replaced by the truncated clone.
RewindWrite ==
    /\ worker.at = "rewrite"
    /\ task' = [worker.source EXCEPT !.status = "idle"]
    /\ loaded' = TRUE
    /\ disk' = task'
    /\ worker' = Resting
    /\ UNCHANGED <<runtime, provider, channel, pending, drawn>>

\* mutant: a task that waits for its turn to start may be shelved
MayArchiveIfStarted(archived) == archived => task.status \notin {"working", "waiting"}

MayArchive(archived) == archived => ~Busy(task)

\* On a thread of its own.
Archive(archived) ==
    /\ "archive" \in May
    /\ MayArchive(archived)
    /\ task' = [task EXCEPT !.archived = archived]
    /\ disk' = Saved(task', loaded)
    /\ UNCHANGED <<runtime, provider, channel, pending, loaded, worker, drawn>>

\* settle_orphaned_turns: of the rows' columns, only a busy one is looked into.
Restart ==
    LET row == [disk EXCEPT !.turns = <<>>]
        settled == ReduceFinished(disk, Nothing, "failed").task
    IN  /\ "restart" \in May
        /\ active' = None
        /\ driver' = None
        /\ provider' = [r \in Runtimes |->
                           IF r \in used THEN [Unstarted EXCEPT !.at = "gone"] ELSE Unstarted]
        /\ channel' = [r \in Runtimes |-> <<>>]
        /\ pending' = [r \in Runtimes |-> Nothing]
        /\ worker' = Resting
        /\ loaded' = Busy(disk)
        /\ task' = IF Busy(disk) THEN settled ELSE row
        /\ disk' = IF Busy(disk) THEN settled ELSE disk
        /\ UNCHANGED drawn

-----------------------------------------------------------------------------
(* The provider's process and its driver; external *)

Says(r, e) ==
    /\ Len(channel[r]) < MaxBacklog                             \* bound
    /\ channel' = [channel EXCEPT ![r] = Append(@, e)]

Outside == UNCHANGED <<runtime, pending, record, worker, drawn>>

Connect(r) ==
    /\ provider[r].at = "starting"
    /\ provider' = [provider EXCEPT ![r].at = "ready"]
    /\ Says(r, Plain("connected"))
    /\ Outside

TakePrompt(r) ==
    /\ provider[r].at = "ready" /\ provider[r].prompts = 1
    /\ provider' = [provider EXCEPT ![r] = [Unstarted EXCEPT !.at = "busy"]]
    /\ Says(r, Plain("started"))
    /\ Outside

Output(r) ==
    /\ provider[r].at = "busy"
    /\ Says(r, Plain("output"))
    /\ UNCHANGED provider
    /\ Outside

\* Permission or UserInputRequested; one at a time.
Ask(r, kind) ==
    /\ provider[r].at = "busy" /\ provider[r].asks = {}
    /\ asked < MaxAsks                                          \* bound
    /\ asked' = asked + 1
    /\ provider' = [provider EXCEPT ![r].asks = {asked'}]
    /\ Says(r, Event(kind, asked', NoTurn))
    /\ UNCHANGED <<runtime, pending, record, worker, used, minted>>

\* A turn that is cancelled fails whatever it was waiting for.
EndTurn(r, outcome) ==
    /\ provider[r].at = "busy"
    /\ outcome = "completed" => provider[r].asks = {}
    /\ provider' = [provider EXCEPT ![r].at = "ready", ![r].asks = {}]
    /\ Says(r, Plain(outcome))
    /\ Outside

ReportError(r) ==
    /\ "error" \in May
    /\ Alive(r)
    /\ Says(r, Plain("error"))
    /\ UNCHANGED provider
    /\ Outside

Exit(r) ==
    /\ "exit" \in May
    /\ Alive(r)
    /\ provider' = [provider EXCEPT ![r] = [Unstarted EXCEPT !.at = "gone"]]
    /\ Says(r, Plain("exited"))
    /\ Outside

-----------------------------------------------------------------------------
Start == (\E r \in Runtimes : StartBegin(r)) \/ StartReplace \/ StartLaunch \/ StartInstall \/ StartFails
Prompt == (\E r \in Runtimes : PromptAccept(r)) \/ PromptEmit \/ PromptDeliver
Answer == (\E r \in Runtimes, id \in 1..asked : Respond(r, id)) \/ RespondEmit
Close == (\E r \in Runtimes : CloseDriver(r)) \/ CloseCheck \/ CloseSettle \/ CloseEnd
Rewind == (\E keep \in 0..MaxTurns : RewindRead(keep)) \/ RewindFails \/ RewindDrop \/ RewindWrite

Process(r) ==
    \/ Connect(r) \/ TakePrompt(r) \/ Output(r)
    \/ \E kind \in Interactions : Ask(r, kind)
    \/ \E outcome \in {"completed", "failed"} : EndTurn(r, outcome)
    \/ ReportError(r) \/ Exit(r)

\* The steps of a command that is being served.
Serve ==
    \/ StartReplace \/ StartLaunch \/ StartInstall \/ StartFails
    \/ PromptEmit \/ PromptDeliver \/ RespondEmit
    \/ CloseCheck \/ CloseSettle \/ CloseEnd
    \/ RewindFails \/ RewindDrop \/ RewindWrite

Next ==
    \/ Start \/ Prompt \/ Answer \/ Close \/ Rewind
    \/ \E archived \in BOOLEAN : Archive(archived)
    \/ Restart
    \/ \E r \in Runtimes : Forward(r) \/ Process(r)

Spec == Init /\ [][Next]_vars

\* The worker and the forwarding threads go on.  Of the provider it is assumed
\* that it connects, takes a prompt it was given and ends every turn, by itself
\* or because its user cancels it.
FairSpec ==
    /\ Spec
    /\ WF_vars(Serve)
    /\ \A r \in Runtimes :
         /\ WF_vars(Forward(r))
         /\ WF_vars(Connect(r))
         /\ WF_vars(TakePrompt(r))
         /\ SF_vars(\E outcome \in {"completed", "failed"} : EndTurn(r, outcome))

-----------------------------------------------------------------------------
(* Properties *)

Turns == [id : 1..MaxTurns, count : Nat \ {0},
          status : {"running", "completed", "failed"}]
Tasks == [turns : Seq(Turns),
          status : {"idle", "connecting", "working", "waiting", "failed"},
          archived : BOOLEAN]
Events == [type : Interactions \cup {"accepted", "connected", "started", "output",
                     "resolved", "completed", "failed", "error", "exited"},
           id : 0..MaxAsks, turn : Turns \cup {NoTurn}]
Steps == {"idle", "replace", "launch", "install", "emit", "deliver", "resolve",
          "check", "settle", "end", "rewind", "rewrite"}

\* The values the task's state ranges over.
TypeOK ==
    /\ active \in Runtimes \cup {None}
    /\ driver \in Runtimes \cup {None}
    /\ provider \in [Runtimes -> [at : {"none", "starting", "ready", "busy", "gone"},
                                  prompts : 0..1, asks : SUBSET (1..asked)]]
    /\ channel \in [Runtimes -> Seq(Events)]
    /\ \A r \in Runtimes : Len(channel[r]) <= MaxBacklog
    /\ pending \in [Runtimes -> [Interactions -> 0..asked]]
    /\ task \in Tasks /\ disk \in Tasks
    /\ loaded \in BOOLEAN
    /\ worker \in [at : Steps, run : Runtimes \cup {None}, turn : Turns \cup {NoTurn},
                   ask : 0..asked, source : Tasks]
    /\ used \subseteq Runtimes
    /\ minted \in 0..MaxTurns
    /\ asked \in 0..MaxAsks

\* The daemon saves at turn boundaries: what is on disk is what the projection
\* in memory has, so that a crash takes nothing of a turn's fate with it.
DiskIsCurrent == loaded => disk = task

\* A turn that ended is never running again, nor does its outcome change: not by
\* a replayed or late event, a rewind, or a restart that finds the rows as the
\* last event left them.
EndedStays ==
    [][\A i \in DOMAIN Hydrated.turns, j \in DOMAIN Hydrated'.turns :
          /\ Hydrated.turns[i].id = Hydrated'.turns[j].id
          /\ Hydrated.turns[i].status # "running"
          => Hydrated'.turns[j].status = Hydrated.turns[i].status]_vars

\* settle_interrupted_turn: whatever the provider still says meanwhile, no turn
\* runs when the runtime has been torn down, and nobody is waited for.
CloseSettles ==
    [][CloseEnd => ~Running(task) /\ pending'[worker.run] = Nothing]_vars

\* Only the last turn is looked at to find the active one: a turn that runs is
\* never buried under another.
OnlyLastRuns ==
    \A i \in DOMAIN Hydrated.turns :
        Hydrated.turns[i].status = "running" => i = Len(Hydrated.turns)

\* turn_count names the turn to rewind to and its checkpoints: a turn's count is
\* its place, whatever was rewound.
CountsAreSequential ==
    \A i \in DOMAIN Hydrated.turns : Hydrated.turns[i].count = i

\* A session that is busy has an active turn: or else it would go on "refusing
\* output it is visibly receiving" (reducer.rs, session_accepts_turn_output),
\* and no event would make it idle.
BusyHasTurn == Busy(task) => Running(task)

\* Whenever the worker is done with a command: a session that waits for its
\* user has an interaction its runtime's reducer would match the answer with, and
\* no interaction outlives the turn it interrupted.
Unanswered == active # None /\ \E i \in Interactions : pending[active][i] # 0

WaitsForAnswer ==
    worker.at = "idle" =>
        /\ task.status = "waiting" => Unanswered
        /\ Unanswered => Running(task) /\ Busy(task)

\* The status that every client shows tells the truth about the turn and about
\* who is waited for.
StatusIsTrue == BusyHasTurn /\ WaitsForAnswer

\* "The shelf can never hide something that needs attention" (daemon.rs,
\* handle_runtime_event): no archived task is working or waiting.
ShelfIsQuiet == task.archived => ~Busy(task)

\* ADR 0002: "a user prompt, a turn start, a permission request, a question, or
\* a failure clears the mark", and unarchiving does; nothing else.
ShelfMarkStays ==
    [][task.archived /\ ~task'.archived =>
          Archive(FALSE) \/ Busy(task') \/ task'.status = "failed"]_vars

\* The exit of the active runtime's process is reduced in this step.
ExitIsReduced ==
    \E r \in Runtimes :
        /\ active = r
        /\ channel[r] # <<>> /\ channel'[r] = Tail(channel[r])
        /\ Head(channel[r]).type = "exited"

\* The test process_exit_settles_the_running_turn_as_failed (reducer.rs): when
\* the exit has been reduced, between two commands, no turn is left running.
ExitSettles == [][ExitIsReduced /\ worker.at = "idle" => ~Running(task')]_vars

\* ADR 0001: "a daemon crash mid-turn loses only that turn's partial output":
\* the daemon comes back with no turn running that no provider works on.
RestartSettles ==
    driver = None /\ active = None /\ worker.at = "idle" => ~Running(Hydrated)

\* If providers end the turns they are given, every turn a prompt begins or
\* joins ends, unless its runtime is let go or the process exits: a prompt that
\* is put into the channel of a dead process is not followed by another event.
TurnEnds ==
    \A r \in Runtimes :
        worker.at \in {"emit", "deliver"} /\ worker.run = r
            ~> ~Running(task) \/ driver # r \/ ~Alive(r)

=============================================================================
