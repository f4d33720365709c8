# A TLA+ model of shidou

shidou runs coding agents. A daemon owns the tasks and their providers'
processes; a desktop app, a web app, an iOS app and a command line are clients
of it over a WebSocket. This directory models the daemon, its Rust client and the
desktop's supervisor of it: the actors that race inside them, what they promise
each other, and what of that TLC checks and TLAPS proves. Paths are relative to
the repository's root; `server.rs`, `daemon.rs`, `persistence.rs`,
`opencode_pool.rs` and `driver/` are in `crates/shidou-core/src`, `reducer.rs` and
`model.rs` in `crates/shidou-protocol/src`, `client.rs` and `process.rs` in
`crates/shidou-client/src`.

    tlc -workers 2 -config EventHub.cfg MCEventHub      # a run
    tlapm EventHubProofs.tla                            # the proofs of a module

`PROJECT.json` lists every run, the lines each definition stands for, a mutation
of the code for every property of the passing runs, and the hazards of the code.

## 1. The system

| part | state it keeps | operations |
|---|---|---|
| Event hub (`Hub`, server.rs) | active runtime of each session, event locks, sequence counters, bounded journals, subscribers, cached responses, catalog revision | `emit`, `begin_runtime`, `end_runtime`, `subscribe`, `unsubscribe`, `task_state_changed` |
| Dispatcher and mailboxes (`RequestDispatcher`, server.rs) | a registered mailbox and a worker thread per session, the worker's active runtime | `dispatch`, `handle_request`, retire, settle |
| Connections (`handle_connection`, server.rs) | a socket, an outgoing queue, a subscriber id | handshake, requests in, messages out |
| Backend (`ShidouBackend`, daemon.rs) | projects and sessions, drivers, terminals, a reducer per runtime, tombstones, credentials | every `Command`, `handle_runtime_event`, `runtime_ended`, `settle_orphaned_turns` |
| Reducer and session model (reducer.rs, model.rs) | turns, status, transcript; pending permission and question | one fold per driver event |
| State store (persistence.rs) | SQLite rows; skeletons of sessions not loaded | `hydrate`, `save`, load |
| Server pools (opencode_pool.rs, deepseek_pool.rs) | a slot per workspace: vacant, starting, running, stopping | acquire, clone, drop |
| Drivers (driver/*.rs) | a provider's process, its command channel | prompt, respond, cancel; events out |
| Rust client (`client.rs`, src/driver/mod.rs) | pending requests, subscriptions, events and interactions kept for a subscriber; a forwarding thread per attachment | connect, request, notify, subscribe, unsubscribe, disconnect |
| Task list of a desktop (src/app, shidou-client/src/persistence.rs) | its copies of sessions and projects, a sync worker, a save queue | edit, save, refetch when told |
| Supervisor (`process.rs`) | the daemon's process, how it listens, the settings to put across; a monitor and a writer thread | start, poll, replace, reconfigure, update settings |
| TypeScript client (packages/shidou-client) | a replay cursor, pending requests | connect, request, resume |
| Checkpoints, worktrees, terminals, blobs, attachments, settings, usage | git refs, PTYs, files | subprocesses and file I/O |
| Apps, CLI, demo, website | user interface | |

How they interact. A connection's thread decodes a request and hands it to the
dispatcher. Commands about a runtime go to the session's mailbox and are served
one at a time by its worker; all others get a thread each. The worker calls the
backend, which starts and drives a provider. A forwarding thread per driver
turns the driver's channel into hub emissions; the worker itself emits
`turnAccepted`, `interactionResolved` and the settling `turnFinished`. The hub
numbers an event, has the backend reduce it into the saved task under the task
mutex, and sends it to every connection. Pooled servers are shared by the
sessions of a workspace and die with their last handle.

What is hard in it: the hub's mutex is given up between numbering, reducing and
sending; a runtime may be replaced while its events are on the way; a worker
retires while commands arrive; the status of a task is set by the worker, the
provider's events, a rewind and a thread that archives; a crash may fall
between any two of the steps that accept a prompt; a pooled server may die, be
superseded and be dropped at the same time; clients save copies of any age, and
their commands overtake each other; an attachment is made of two requests while
events go on; two threads replace the daemon while it crashes and is rebuilt.

What makes each part correct:

- hub: every connection gets every event of a live runtime, in order, or is
  told that it did not; the backend reduces each exactly once, in order; a
  replaced runtime leaves nothing behind; nobody waits for ever.
- mailboxes: no command is lost or overtakes another, one worker per session,
  every request is answered, a live driver is supervised.
- turns: a running turn is the last; a session is busy only with a running
  turn; every teardown (close, exit, replacement, restart) settles the turn;
  the disk has what memory has; an archived task is at rest.
- pool: at most one server, never stopped in use, never leaked, no lost wakeup.
- catalog: a removed task, project or message does not come back from another
  client's copy; no save takes a turn away; the rows are what memory has; who
  looks on ends with the daemon's list.
- Rust client: between a hydrated session and its stream no event is missing or
  handed over twice; an old attachment never takes the stream from a new one;
  the end of the connection reaches every waiting request and attachment.
- supervisor: one daemon at a time, owned by the target or by the worker that
  replaces it; the remembered policy in force; a daemon that dies comes back, the
  newest build and the newest settings are served.

## 2. The modules

| module | what it is |
|---|---|
| `EventHub` | the hub; an action is one critical section of its mutex |
| `EventFeed` | what the hub promises: a runtime's events come one at a time, each taken by the backend and heard by all who listen |
| `EventHubProofs` | theorems about `EventHub`, among them that it implements `EventFeed` |
| `ServerPool` | one slot of a server pool |
| `ServerLease` | what the pool promises its users: a lease of one server |
| `ServerPoolProofs` | theorems about `ServerPool`, among them that it implements `ServerLease` |
| `RuntimeMailbox` | the dispatcher, the workers and the runtime bookkeeping |
| `RequestService` | what the dispatcher promises: a session's commands are served one by one, in order |
| `RuntimeMailboxProofs` | theorems about `RuntimeMailbox`, among them that it implements `RequestService` and that its drivers are supervised |
| `TaskTurn` | the turns of one task: worker, backend, reducer, store and provider together |
| `TaskTurnProofs` | theorems about `TaskTurn` |
| `TaskCatalog` | the list of tasks and projects: daemon, store, hub's catalog and desktops together |
| `TaskCatalogProofs` | theorems about `TaskCatalog` |
| `TaskWatcherProofs` | the theorem about a desktop that looks on in `TaskCatalog` |
| `DaemonClient` | the Rust client and the desktop's attachments to one runtime |
| `DaemonClientProofs` | theorems about `DaemonClient` |
| `DaemonSupervisor` | the desktop's supervisor of its daemon |
| `DaemonSupervisorProofs` | theorems about `DaemonSupervisor` |
| `MCEventHub`, `MCServerPool`, `MCRuntimeMailbox`, `MCTaskTurn`, `MCTaskCatalog` | instances for TLC |

The modules cut the system along what each may assume of the others.
`TaskTurn` takes an emission as one step, which is what `EventHub` establishes of a
runtime that had numbered an event (`FeedSpec`, `ChangesBetweenEvents`): the first
event of one that had none yet may be reduced after its replacement
(EventHubStraddle.cfg, section 4), which `TaskTurn` leaves out; it uses one variable for the
hub's runtime and the worker's, which is what `RuntimeMailbox` establishes
(`DriverIsSupervised`). `TaskCatalog` takes a turn as one step, whose inside is
`TaskTurn`. `DaemonClient` takes the hub's stream to a connection as every event
once, in order: what the hub sends twice, to a connection that subscribes while
it is on its way, the client drops by its sequence, and that this drops nothing
else is what `EventHub` establishes (`DedupLosesNothing`, `FeedSpec`).

### EventHub and EventFeed

`active`, `locks`, `nextSeq` and `journal` are the maps of `HubState` with an
absent entry as `None`, 0 or the empty sequence. An event is its sequence
number. `inbox`, `gap` and `told` are what a connection was sent. A thread is a
driver's forwarder (named by its runtime) or the session's mailbox worker.
`emit` is `EmitEnter` (first check, get the event lock), `EmitSequence` or
`EmitDrop` (second check, with the lock), `EmitReduce` (backend) and
`EmitBroadcast`. `begin_runtime` and `end_runtime` are a capture of the present
event lock and a commit that waits for it: the code gives the hub's mutex up in
between. Where no event lock exists yet, the commit waits for nothing.
`Subscribe` is one critical section. A connection that fails leaves its
subscriber behind (`ConnectionLost`) until a broadcast drops it.

`EventFeed` knows nothing of threads, locks, journals and cursors. `Feed` maps the
hub to it: an event is numbered when `EmitSequence` does it, taken at `EmitReduce`,
heard at `EmitBroadcast`; a connection has heard of what it brought as its cursor,
was sent, or was told is lost (`Accounted`). Terminals, which have no journal, are
left out. What a replaced runtime's emission still does is invisible.

### ServerPool and ServerLease

A server is the number of its generation. `slot` is `PoolState`, a lease is a
strong reference, `doing` says where a thread is in `acquire_with_start` or in a
destructor. The slot's mutex is held from Stopping to Vacant, so that no thread
sees Stopping; a destructor is the wait for that mutex (`dropping`) and, for a
stale generation, the reaping outside it. `ProcessExits` is the death of a
process at any time, observed by `is_alive`.

### RuntimeMailbox and RequestService

A command is a session, a runtime, a request id (0 for a notification) and a
kind: `start`, `close`, `remove`, `attach`, `drive` (whatever needs the driver),
`edit` (whatever needs none) and `rewind`. `Join`, `Create` and `Refuse` are
`dispatch_runtime` under the registry's mutex. A worker's loop is `Receive`,
`AnswerAgain` or `Begin`, `Execute`, `EndFailedStart`, `Respond`, `Settle` and,
without a runtime, `TakeQueued` or `Retire`. `Outcome` says for each command
whether it may succeed and what becomes of the session's driver. `Die` is a
panic inside the backend; `RemoveProject` drops a driver from a thread of its
own.

### TaskTurn

One task. `task` is the session in memory, `disk` its rows, `loaded` the
`detail_loaded` flag of a skeleton. The reducer is a function from a session,
the runtime's pending interactions and an event to a result (`ReduceX`, one per
kind of event; text, reasoning and activities are one kind, `output`). `Emit` is
`handle_runtime_event` with the save it ends in. Commands are the steps between
which the task mutex is free: a prompt is `PromptAccept` (turn and save),
`PromptEmit` (TurnAccepted) and `PromptDeliver`; a close is `CloseDriver`,
`CloseCheck`, `CloseSettle` and `CloseEnd`; a rewind reads, may fail, drops the
driver and writes back its clone; a start is `StartBegin` to `StartInstall`.
`Archive` runs on its own thread, `Restart` at any time. The provider is
external: what its process and driver can send, in the orders the drivers allow.

The constant `May` names what a run lets happen beyond the ordinary life of a
task, in which its client prompts it while it rests: `overlap` (a client prompts
while a turn runs), `replace` (a Start in mid-turn), `rewind`, `archive`,
`restart`, `error` (the driver reports errors) and `exit`. A property that some
disturbance breaks is checked without it in a passing run, and with it in a
configuration of section 4.

### TaskCatalog

A session is what is listed of it (title, project, `updated_at`, archive mark)
and its detail: how many turns, whether a provider is bound, the queue.
`detail` is `detail_loaded`. `gone` holds the three sets of tombstones, `disk`
the rows. A command is one step under the task-state mutex (`Execute`, by kind:
the merge of `SaveTaskState` with its lineage test, `RemoveSession`,
`RemoveProject` and the pruning of projectless projects, `ArchiveSession`, the
queue's commands, `HydrateSession`) and its announcement another (`Announce`:
the hub compares its copy of the catalog and tells the other clients). Commands
without a session have a thread each, so that any may overtake any. A desktop's
gesture changes its copy and sends what it sends; a notice makes its sync worker
ask, and the latest answer in its results channel replaces what it lists, except
what it has in hand. `Restart` leaves rows only: skeletons, and no tombstones;
`Init` is a daemon whose old tasks have all been opened. A title is a number: a
rename gives a session one it has not had, or (`return`) an earlier one.
`play` is a bound: who acts, what they do and how often.

### DaemonClient

The entries of the client's maps for one runtime. `log` is what the daemon has
reduced; the socket thread takes an event (`ReadEvent`), tracks the interaction
(`TrackInteraction`) and delivers it to the subscription or the buffer
(`Deliver`), each under its own lock; at the end it fails the requests and then
ends the subscription. An attachment asks for the session and its cursor
(`Hydrate`), reads the answer (`Answered`) and subscribes (`SubscribeRuntime`);
its forwarding thread is `Offer`, `Forward`, `ChannelEnds`, `Leave` and `Finish`.
A request is checked, registered, sent, answered or given up. The daemon's side
of a request, and what the desktop does with an event beyond showing a prompt,
are abstracted to one step.

### DaemonSupervisor

`target` and `restart` are the two mutexes' contents; a worker (the monitor or a
call of `reconfigure`) is at one of its steps: poll, wait for the mutex, take the
old process, stop it, start the new one or fail, remember the policy, install,
notify. A process is its number, its build and its policy. `Crash`, failed starts
and `Rebuild` come at any time. `Init` is where `spawn_configured` hands over to
the monitor: it has launched the first build, had its settings and only then read
the first stamp, which may be that of a rebuild (process.rs:371). The writer
thread of the settings receives, asks for the connection, sends and acknowledges;
`update_settings` is two steps of the UI thread. `Drop` ends the supervisor.

## 3. The passing runs

| run | instance | properties | states |
|---|---|---|---|
| `hub` (EventHub.cfg) | 2 runtimes of 1 session, 1 client, journal of 1, 2 events each | `NothingLostUnannounced`, `DedupLosesNothing`, `ChangesBetweenEvents`, `HubThreadsReturn`, `FeedSpec` | 72,084 |
| `pool` (ServerPool.cfg) | 3 threads, 3 servers | `OneServer`, `NoOrphan`, `WaitersAreBehindSomeone`, `LeaseSpec`, `WaitsEnd` | 4,067 |
| `mailbox` (RuntimeMailbox.cfg) | a task, 2 runtimes, 3 commands of every kind, one request id, workers may die | `DriverIsSupervised`, `ServiceSpec`, `Answered`, `Taken` | 486,916 |
| `turn` (TaskTurn.cfg) | 2 turns, 2 requests to the user; archive, restart, exit | `StatusIsTrue`, `ShelfIsQuiet`, `DiskIsCurrent`, `ShelfMarkStays`, `EndedStays`, `TurnEnds` | 60,820 |
| `turn_disturbed` (TaskTurnDisturbed.cfg) | 2 turns, 1 request; overlap, replace, rewind, error, exit | `OnlyLastRuns`, `CountsAreSequential`, `CloseSettles`, `EndedStays` | 398,912 |
| `client` (DaemonClient.cfg) | 2 attachments or one and a request, 2 events, buffer of 1 | `OwnerKeepsStream`, `StreamIsWhole`, `RequestsAreKept`, `DisconnectAnswers`, `EndIsTold` | 481,856 |
| `supervisor` (DaemonSupervisor.cfg) | 3 moves: crashes, failed starts and failed requests (2), a rebuild, a new policy, new settings; one subscriber | `OneOwnedDaemon`, `PolicyInForce`, `SubscribersAreCurrent`, `RunsToTheEnd`, `RebuildIsServed`, `SettingsArrive` | 381,902 |
| `catalog` (TaskCatalog.cfg) | 2 desktops, 2 tasks, 3 projects; four plays | `NothingComesBack`, `ListIsStored`, `WatchersAgree`, `MarkByCommand`, `TurnsStay` | 4,283,972 |

What they show. `hub`: however a runtime's threads, its replacement and a
connection interleave, the hub is a feed: events come one at a time, and the
connection has every one of them or was told of the gap; a runtime that had
numbered an event when its change began is left between two of its events, and
nobody stays inside the hub. `pool`: the slot is a lease of one server. `mailbox`:
the dispatcher is one actor per session, also when a worker retires as a command
arrives or dies in one; every command is taken and every request answered, a retry
from the cache. `turn`: what every client shows of a task agrees with its turns
and its open requests to the user, the shelf hides nothing, the rows are what
memory has at every step, a turn that ended stays as it ended over restarts, and a
turn whose provider lives ends. `turn_disturbed`: a replaced runtime, a rewind, an
error or a second client's prompt do not make an older turn run, and a close
leaves none running. `client`: the two requests of an attachment and the stream
leave no gap, and the end of the connection is told. `supervisor`: never two
daemons, none unowned, and whatever three of crashes, builds, policies and
settings come, the daemon is back in the end with the newest of each, but for a
build that its first stamp passes over. `catalog`: copies of any age, saved in any
order, bring nothing back while the daemon runs and take no turn away from a task
that it has whole; a desktop that looks on is told of everything, as long as no
title is given back.

TaskTurnEnds.cfg is a configuration that passes and is no run of its own: `EndedStays`
with all seven disturbances at once (269,841 states).

Why the bounds suffice. A journal of one with two events evicts, and a cursor can
be current, behind by one, or behind the front; two runtimes of one session are
one replacement. Three threads on a slot are a holder, a starter and a waiter;
three generations are a dead one, its successor and the next. Three commands are
one being served, one queued and one that arrives at retirement, and a worker's
successor. Two turns are the turn that ends and the one that begins after it; two
runtimes the replaced and the replacing. The provider may be one event ahead of
the forwarding thread (two where an error and an exit must both be waiting): more
only delays what the hub would hear. A buffer of one overflows with the second
event; two attachments are one that is let go and its successor (`MaxBegun` bounds
requests and attachments together). Three moves of the supervisor are a
replacement, one that disturbs it and one that disturbs the recovery (a request of
the writer that fails while its daemon lives is one of them); the theorems
of section 5 have no such bound. In the catalog two desktops and three gestures
are an edit, another one from a stale copy and a third that meets both; the plays
are what two users edit (`Editing`), shelve, remove and rename around a restart
(`Restarted`, where titles may return), create and remove (`Removing`), and do before
the eyes of a third party (`Watching`), because all gestures at once are out of TLC's reach.

`mailbox`, the `turn` runs, `client`, `supervisor` and `catalog` do not check
deadlock: they stop when their commands, turns, events or moves are used up.
`turn_disturbed` uses the symmetry of the two runtimes; no run with liveness does.

Fairness. `EventHub`: a thread inside the hub runs on (weak fairness), and a
thread that waits for an event lock gets it in the end (strong fairness;
parking_lot's mutex is eventually fair). `ServerPool`: threads inside acquire or
a destructor run on, a start returns (the code has a time limit for it).
`RuntimeMailbox`: a worker with something to do does it. `TaskTurn`: the worker
and the forwarding threads run on; of a provider it is assumed that it connects,
takes a prompt that it was given and ends every turn (strong fairness: other
events of the turn may come first). `DaemonClient`: the socket thread, a
requester and a forwarding thread run on; their two-minute timeout, the daemon's
answers and the desktop are not helped along, so that `DisconnectAnswers` is not
the timeout's doing. `DaemonSupervisor`: the monitor, a call of `reconfigure`, the
writer and the threads they run in go on, and whoever waits for the restart mutex
gets it in the end (strong fairness). `TaskCatalog` has no fairness:
`WatchersAgree` speaks of states in which nothing is under way. Nothing is assumed
of users, of crashes or of builds.

## 4. Where the code and its documents differ

Four runs expect a violation, each of one property that states what the quoted
line says. They are findings, with the quotations, in `PROJECT.json`.

| run | property | what TLC finds |
|---|---|---|
| `turn_exit_error` | `ExitSettles` | an Error before the exit makes the session Failed, the exit then ends no turn |
| `client_stuck` | `NeverStuckWorking` | a subscription made after the socket thread has ended the others is told nothing: the task stays Working |
| `supervisor_toggle` | `SettingsArrive` | settings that return to the previous ones while the others are in flight are not queued |
| `catalog_erase` | `NoTurnIsLost` | after a restart a client's copy, whose transcript was stripped, replaces a task that is not loaded, and the save deletes its rows |

The other configurations of this directory are counterexamples of the same kind;
each states one property, and TLC violates it within seconds.

| configuration | property | what TLC finds |
|---|---|---|
| EventHubStraddle.cfg | `NoneStraddles` | "stale events or commands from a replaced runtime are ignored" (crates/shidou-core/README.md:12): a runtime that has no event lock when its replacement begins has nothing to be waited for; its first event is numbered before the change, and reduced and sent after it (server.rs:301) |
| TaskTurnCrash.cfg | `RestartSettles` | a crash between a prompt's save and TurnAccepted leaves a running turn that the restart overlooks (daemon.rs:929) |
| TaskTurnShelf.cfg | `ShelfIsQuiet` | with errors, a failed task with a pending request is archived, then works on the shelf |
| TaskTurnRewind.cfg | `ShelfMarkStays` | a rewind writes a stale clone back and undoes an archive (daemon.rs:1464) |
| DaemonClientOffer.cfg | `InteractionIsOffered` | a permission that was reduced before HydrateSession but reaches the client after the subscription is not offered, and is skipped by the cursor (src/driver/mod.rs:134) |
| DaemonClientShown.cfg | `NewestIsShown` | the unresolved interaction is sent first; an older turnFinished among the buffered events then clears its prompt (src/driver/mod.rs:122) |
| DaemonSupervisorStale.cfg | `HealthyIsLeftAlone` | the monitor decides before it waits for the restart mutex, and replaces the healthy daemon that `reconfigure` has just started (process.rs:535) |
| DaemonSupervisorFirst.cfg | `EveryBuildIsServed` | "swaps it after a successful rebuild" (process.rs:349): the first stamp is read after the first daemon was spawned and asked for its settings (process.rs:371-373), so that a rebuild in between passes for what was launched and is never served |
| TaskCatalogRevived.cfg | `RemovedStaysRemoved` | tombstones are in memory only: after a restart another client's copy brings a removed task back (daemon.rs:423) |
| TaskCatalogStale.cfg | `RenameStands` | a desktop that has not refetched queues a message: its copy carries the old title and undoes the other's rename (daemon.rs:1249) |
| TaskCatalogStranded.cfg | `NoneStranded` | a task created in a project that was removed meanwhile is let in (daemon.rs:447) |
| TaskCatalogUntold.cfg | `WatchersAgree` | a load takes over what a save has not announced yet; the save then finds nothing changed and tells nobody (server.rs:498) |
| TaskCatalogReturn.cfg | `WatchersAgree` | "Tells every client but the one that caused the change that its Task catalog snapshot is stale" (server.rs:503): a title may be given back (`commit_session_rename`, sidebar.rs:1784; `set_title`, model.rs:1048). A is renamed to B, announced, and loaded by the watcher; B to A, announced; the announcement of that load puts B back into the hub's catalog, and the watcher's next load takes A; A to B then finds the catalog equal (server.rs:498) and nobody is told: the watcher shows A, the daemon has B |

The models have more behaviours of this kind, which no configuration claims.

- `TaskTurn`, `May = {"exit"}`, `ExitSettles` without its condition that the
  worker is idle: an exit that is reduced between a prompt's save and its
  TurnAccepted finds an idle session and ends nothing (reducer.rs:311); the
  announcement then makes the session Connecting, with no process left. For the
  same reason `TurnEnds` excuses a process that has exited.
- `TaskTurn`, `May = {"error"}`: an Error while the session is Connecting makes
  it Failed and ends no turn, so that `PromptAccept` takes the next prompt for
  the turn that still runs, and records no message of it (daemon.rs:1122).
- `TaskTurn`, `May = {"replace"}`: a Start in mid-turn settles nothing. Only a
  close does (server.rs:1068); after `StartInstall` the turn is still running.
- `TaskTurn`, `May = {"overlap"}`, `StatusIsTrue`: a second client's prompt joins
  a turn that ends before the joined TurnAccepted is reduced, which then makes
  an idle session Connecting with no turn (reducer.rs:557).
- `TaskTurn`, any `May`, "a pending interaction is marked Waiting": a permission
  and a question can be pending at once and the answer to either makes the
  session Working (reducer.rs:215).
- `TaskTurn`, `May = {"restart", ...}`, `CloseSettles`, `OnlyLastRuns` or
  `CountsAreSequential`: the skeleton that a crash in mid-acceptance leaves has
  a running turn on disk that nothing looks at until it is hydrated. The three
  are checked without restarts; `EndedStays` is checked, and proved, with them.
- `RuntimeMailbox`, `Settle`: a worker without a runtime takes over the runtime
  of any command that succeeds (server.rs:1014), also the nil id that the desktop
  sends with RemoveQueuedMessage, and then waits for a close that nobody sends.
- `DaemonClient`: the client is not told that its buffer dropped events
  (client.rs:369); `StreamIsWhole` leaves out what is not newer than `lost`. A
  request that registers after the drain and is queued before the thread returns
  waits for the whole timeout; `DisconnectAnswers` speaks of those registered.
- `TaskCatalog`: a message that a save puts into a skeleton's queue is in memory
  only, and the next hydrate drops it (persistence.rs:1366).

## 5. The theorems

All are for every value of the constants that the modules' assumptions allow.

`EventHubProofs`. The inductive invariant `IInv` is `TypeOK` and `HubInv` and
`SinkInv`. The safety properties alone are not inductive: that the journal is the
newest tail needs that only active runtimes have state
(`OnlyActiveRuntimeHasState`); that events reach clients in order needs that one
thread at a time is past numbering (`OneDelivery`), that nobody is ahead of the
event being delivered (`NobodyAhead`) and that a runtime not begun yet has left no
trace (`FreshIsBlank`, `FreshIsUnseen`); that the backend reduces in sequence
needs that it is behind the numbering by exactly the event in flight
(`ReducedKeepsUp`). `BarrierHolds` needs in addition (`BarrierInv`) that whoever
has entered `emit` has made the event lock of its runtime, that nothing is
numbered without it, and that the runtime a begin or an end has found is still the
active one when it goes through: so a runtime that had numbered an event is one
whose lock was found, and the lock is free only between two events. One lemma per
action group shows that each part is kept; `HubInvariant` collects them, and
`HubTypes`, `NothingLost`, `DedupIsSafe`, `JournalTail`, `NoStateBehind`,
`ReducedInOrder` and `BarrierHolds` are the properties. The argument for
`NothingLost`: `Subscribe` replays what it does not announce as missing, in the
critical section that registers the connection; a later event is in flight until
the broadcast that appends it. `HubImplementsFeed` is refinement. That everybody
has heard of the last event when the next is numbered follows from
`NothingLostUnannounced` while no event is in flight, and from bounds the other
way (`FeedInv`: cursors, gaps and what was sent do not exceed the numbering, and a
runtime not begun yet has none). Then a step of `emit` is `Number`, `Take` or
`Deliver` when its runtime is active, and invisible when it was replaced
meanwhile; `Subscribe` is `Join` for any cursor, because replay, cursor and gap
make up the numbered events exactly; a dropped receiver is `Leave`, whether or not
the hub knows; a begin or end that goes through is `Change`.

`ServerPoolProofs`. The invariant says whom each slot state belongs to: a
running slot to the holders of the newest generation or to the destructor about
to take the lock (`SlotIsHeld`), a starting one to exactly one thread
(`StarterIsNamed`), and that only the newest generation can be alive
(`OnlyNewestRuns`). From it: `AtMostOneServer`, `HeldServersSurvive`,
`NoServerIsLeaked`, `NoLostWakeup`. `PoolImplementsLease` is refinement: the
initial states map to the lease's, and each action is an action of the lease or
a stutter (the condition variable, the slot and the destructors' waiting are
invisible to it).

`RuntimeMailboxProofs`. `NothingStranded` is nearly inductive: it needs that a
mailbox not created yet is blank (`FreshIsBlank`), so that `Create` finds its
number free, and that a mailbox is registered for one session (`OneSessionEach`),
so that `Retire` unregisters no other. With `MailIsDelivered` (what a mailbox
holds and its worker serves belongs to the session it is registered for) two
workers of one session would be one mailbox: `OneWorkerServes`. These parts also
carry the refinement: the abstract queue of a session is the queue of the mailbox
registered for it, so `Join`, `Create` and `Refuse` accept or refuse a command,
taking one is `Serve`, settling `Finish`, a panic `Die`, and the rest, retirement
included, is invisible (`DispatcherImplementsService`). For `CommandsInOrder` a
second invariant, `Order`, is proved relative to the first: a mailbox holds its
commands in ascending order, the one being served is older than all of them, and
what was last executed for a session is older than everything still to come.

`DriversAreSupervised`, in the same module. `DriverIsSupervised` speaks of moments at
which no command is served; the invariant says what holds at each step in between
(`Supervises`). Either the worker serves a start that has already made its runtime
the active one, and the driver, once started, is that runtime; or hub, backend and
worker agree on the runtime, and a command that was executed has closed nothing
and, if it attached, has found that runtime. So what the worker holds after it has
settled (`SettledHolds`) is the driver again. A worker about to retire holds
nothing, whence its session has no driver, and a new worker is created only for a
session that had none (`CreateSupervised`); that it is the only one serving the
session (`OneServes`) keeps the others' runtimes apart. A session whose worker died
in a command is excepted, and stays so: the dead worker keeps its record.

`DaemonSupervisorProofs`. The invariant names what each worker has done at each of
its steps: a worker past the restart mutex holds it, the target is what its step
left, and what runs is the target's or in its hand (`Custody`); what it launches
is what is remembered or asked for (`Policy`); and connections were sent in the
order in which processes were spawned (`SentInOrder`). No bound is used: any
number of crashes, builds, policies, settings and subscribers. `OneDaemonIsOwned`,
`RememberedPolicyServes` and `ConnectionsInOrder` follow. They need that nobody
but the holder of the mutex starts or stops a daemon, and that the target is
restarting from its taking to its return.

`DaemonClientProofs`. `NoRequestForgotten` needs that a caller that has not
registered holds no answer. `OwnerIsKept` needs that attachments follow one
another (an attachment is only made when all earlier ones were released); then
the owner is the only one attached, and `Unsubscribed` is harmless to it.
`StreamOfEvents` is the theorem worth reading: the buffer has, in ascending order,
everything handled after `lost` (`BufferInv`); a channel has, in order, what was
handled, and its end only when the thread is gone (`ChannelInv`); what was handed
over comes before what is in the channel (`SeenInv`); what an attachment that is
being made will need is in the buffer (`BufferHas`), because while it is being
made nobody has the stream (`AwaitsAlone`); and what one in use needs is handed
over, in its channel or its offer (`StreamHas`). `SubscribeRuntime` turns the one
into the other.

`TaskCatalogProofs`. The invariant is one conjunction per place a session can be
in: the daemon's copies and their rows (`StoreOK`: a row says what its session
says, of a skeleton all but its detail), the tombstones (`GoneOK`), the commands
and answers on their way (`QueuesOK`), the desktops' copies (`ClientsOK`); from
these, `ListStaysStored` and `MarksMoveByCommand`, over any number of restarts.
Until the first restart two parts more hold: nothing a tombstone names is there
(`AtFirst`), and a copy, wherever it is, that says that the provider has bound the
session was made after a turn, so that the daemon has that turn or a tombstone
(`CopiesOK`). They give `RemovalsStand` and `SavedTurnsStay`; that both need the
condition is what TaskCatalogRevived.cfg and `catalog_erase` show.

`TaskWatcherProofs`. `WatcherAgrees` says that the list of a desktop w whose user
looks on is the daemon's when nothing is under way, while the other user creates,
renames, opens and removes, and gives no session a title it had before. That is a
hypothesis about the users: the code lets a title return, and then the conclusion
fails (TaskCatalogReturn.cfg). The invariant `WatchInv` says why: w is about to fetch
the list again (it was told, or its request is under way), or its newest list, on
its way, received or shown, is current but for sessions that are `Coming`: changed
since the hub's catalog and the snapshot under way, with the announcement still to
be made, which will differ from both and so tell w. That it differs is the point of
`TitlesOK`: a save brings a title its session has not had (which holds by the
hypothesis), so that no snapshot taken
earlier and no other announcement can make the hub's catalog equal to it unnoticed.
`Roles` and `OneLoad` say who may have what under way: w has one request out at a
time. The hypothesis `Watchable` excludes the rest because the code does not do it
there either: after an archive gesture the active desktop loads the list itself, and such a
load may take over what a save has not announced yet, so that nobody is told
(TaskCatalogUntold.cfg); a message or a turn changes when a session was last used,
which the hub does not compare. A load by a third desktop does the same, whence
there is one active and one watching desktop. Nothing bounds tasks, projects or
gestures.

`TaskTurnProofs`. Four invariants, each under the assumptions it needs on what
happens (`May`).
For any `May`, `RecordInv`: the hydrated session is what the rows say, and no
turn's count is ahead of its place, not even in the hands of the worker
(`TurnTypes`, `DiskFollows`). Relative to it, `IdentityInv`: the rows name no turn
twice, ids are drawn once, and what a rewind is about to keep are the first turns
of the rows. Whatever happens, a restart included, the hydrated session then keeps
its turns (the last may end), loses the last ones, or gets one that was not there
(`RowsMove`), and so no ended turn runs again or changes (`EndsOnce`).
Without restarts, `SteadyInv`: counts are places, ids differ and only the last
turn runs (`TurnsFit`); the turn that a prompt took is in the projection until it
is announced, what a rewind keeps are the first turns of the projection and have
ended, and a runtime being torn down is still the hub's. These relate what the
worker remembers between two locks to what events may have done since. Each step
keeps the turns, puts one behind them or cuts the last ones off
(`CountsFollow`, `LastAloneRuns`, `ClosedIsSettled`).
When neither a second client nor an error of the provider disturbs a turn
(`Orderly`: archive, restart and exit may happen), `OrderlyInv`: a runtime that
has a prompt, works on it, or has said something of it that the forwarding thread
has not handed over (`On`) has the turn, so that an event of it never meets a
session at rest; after the end of a turn a channel holds nothing but the exit
(`ShapeOf`); and the turn a prompt is about to announce runs on disk or is not
there at all (`EmitInv`), which is what a crash leaves the next prompt with.
From it `StatusHolds` and `ShelfStaysQuiet`. `ShelfMarkHolds` needs only that no
message is edited.

Only model-checked: all liveness (`HubThreadsReturn`, `WaitsEnd`, `Answered`,
`Taken`, `TurnEnds`, `DisconnectAnswers`, `EndIsTold`, `RunsToTheEnd`,
`RebuildIsServed`, `SettingsArrive`), which is out of the prover's reach here;
every safety property of a passing run is a theorem. Some theorems state
properties that the runs no longer repeat, because a property they do check
implies or needs them: the types of the proved modules, `JournalIsNewestTail`,
`OnlyActiveRuntimeHasState`, `ReducedInSequence`, `HeldIsNotStopped`,
`OneWorkerPerSession`, `NothingStranded` and `InOrder`. Nothing is assumed without
proof; the assumptions on constants are evaluated by TLC in every run.

## 6. What is not modelled

- Child tasks and their credentials. `create_child_task` (daemon.rs:1962) limits
  the children that are busy (`MAX_ACTIVE_CHILDREN`, orchestration.rs:34), a child
  is idle until it is prompted, and a prompt checks no limit: agents are told "at
  most 8 unfinished children at once", which the code does not hold them to. A
  model of it would be that one comparison.
- Forks, drafts, and reordering of the catalog; Steer and Cancel of a turn, which
  change no turn by themselves.
- The TypeScript client: its cursor over reconnects (the hub's side of a cursor is
  in `EventHub`). The iOS app is a third client of the same protocol.
- What the desktop does with an event beyond its prompt; its panels and editors.
- Terminals beyond their place in the hub and the dispatcher: a terminal opened
  again under its old id restarts its sequences, which `EventHub` (an id begins
  once) leaves out.
- Checkpoints and worktrees beyond their failure in a rewind; the blob store's
  sweep; the updater; Computer Use, whose state is the operating system's.
- Wire formats, transcript contents, usage, and the titles that providers suggest:
  data no property tells apart (that a user's title may be one the session had
  before matters to `WatchersAgree`, and is modelled). Providers' protocols are
  decoders of third parties' messages.
- Handlers of commands that only read; settings, usage and skills are file I/O.
- The command line, the demo backend and the website.

Most of the repository's lines are user interface, decoders and platform code
without state of its own that is shared: the modules stand for the part in which
actors race.

## 7. What may come next

1. A client's cursor over reconnects, composed with `EventHub` in which an id may
   be begun again (the web's terminals, `apps/web/src/components/right-panel.tsx`).
2. A `TaskCatalog` with several desktops that look on, or several that act.
3. The refs of checkpoints and the sweep of unused worktrees and blobs.
4. An abstract log of a task's turns (begin a fresh turn when none runs, end the
   last, cut to a prefix), with `TaskTurn` shown to implement it between restarts:
   `EndedStays`, `OnlyLastRuns` and `CountsAreSequential` are its parts, proved one
   by one today.
