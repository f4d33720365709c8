------------------------------ MODULE TaskCatalog ------------------------------
(***************************************************************************)
(* The list of tasks that every client shows: the daemon's task_state with *)
(* its tombstones (crates/shidou-core/src/daemon.rs), the rows it is saved *)
(* in (persistence.rs), the hub's copy of the catalog (server.rs), and the *)
(* desktops that edit their own copies, save them as snapshots and refetch *)
(* when they are told (src/app, crates/shidou-client/src/persistence.rs).  *)
(*                                                                         *)
(* A command is executed under the task-state mutex in one step and        *)
(* announced to the other clients in another; those without a session run  *)
(* on a thread each, so that any command may overtake another.  A client's *)
(* snapshot carries its copy of a session without the transcript.  Tasks   *)
(* are at rest: a turn is one step here (TaskTurn has its inside), and     *)
(* with no runtime active snapshots are ordered by updated_at alone.       *)
(***************************************************************************)
EXTENDS Naturals, FiniteSets

CONSTANTS
    Clients,        \* connected desktops
    Tasks,          \* session ids
    Old,            \* the sessions created before, in Home
    Projects,       \* project ids
    Home,           \* the project every client knows
    Scratch,        \* the projectless projects among them
    None,           \* no session, no snapshot
    Plays           \* bounds: who does what, and how much, of which one is played

\* "rename" to a title that no session has had, "return" to an earlier one
Gestures == {"create", "rename", "return", "enqueue", "unqueue", "open", "archive",
             "remove", "project", "turn"}

\* hands: the clients whose users do something; may: what they do; gestures,
\* which also number titles and messages; clock: seconds; restarts of the daemon
Play(hands, may, count, clock, crashes) ==
    [hands |-> hands, may |-> may, gestures |-> count, clock |-> clock, restarts |-> crashes]

\* SessionState, of any age and history.
AnySession ==
    [project : Projects, title : Nat, at : Nat, archived : BOOLEAN, turns : Nat,
     bound : BOOLEAN, queue : SUBSET Nat, detail : BOOLEAN]

\* SessionCatalogEntry, of which the hub compares these.
AnyEntry == [title : Nat, project : Projects, turns : Nat]

\* What a client refetches.
AnySnapshot == [listed : [Tasks -> AnySession \cup {None}], projects : SUBSET Projects]

ASSUME CatalogAssumption ==
    /\ Old \subseteq Tasks
    /\ Home \in Projects /\ Scratch \subseteq Projects \ {Home}
    /\ None \notin Tasks /\ None \notin AnySession \cup AnyEntry \cup AnySnapshot
    /\ Plays \subseteq [hands : SUBSET Clients, may : SUBSET Gestures,
                        gestures : Nat, clock : Nat, restarts : Nat]

VARIABLES
    play,           \* the play
    now,            \* unix_time
    gestures,       \* gestures so far
    restarts,       \* restarts so far
    tasks,          \* task_state.sessions
    projects,       \* task_state.projects, of which every save writes the rows
    gone,           \* removed_session_ids, removed_project_ids, removed_queued_message_ids
    disk,           \* the rows of each session
    catalog,        \* the hub's catalog_sessions and catalog_projects
    fate,           \* what the users did with a session id: "unused", "used", "removed"
    asked,          \* commands sent and not executed
    told,           \* commands executed and not announced
    local,          \* each client's sessions
    shelf,          \* each client's projects
    notice,         \* clients with a revision they have not read
    syncing,        \* clients whose sync worker waits for LoadTaskState
    result          \* the latest snapshot in each client's results channel

daemon  == <<tasks, projects, gone, disk>>
clients == <<local, shelf, notice, syncing, result>>
bounds  == <<play, now, gestures, restarts>>
vars == <<bounds, daemon, catalog, fate, asked, told, clients>>

-----------------------------------------------------------------------------
\* A session: what is listed, and its detail: how many turns, whether the
\* provider has bound it (provider_cursor), the queued messages.
Session(project, turns, detail) ==
    [project |-> project, title |-> 0, at |-> 0, archived |-> FALSE, turns |-> turns,
     bound |-> turns > 0, queue |-> {}, detail |-> detail]

HasStarted(s) == ~s.detail \/ s.turns > 0 \/ s.bound

Skeleton(s) == [s EXCEPT !.detail = FALSE, !.turns = 0, !.bound = FALSE, !.queue = {}]

ListProjection(t) == IF tasks[t] = None THEN None ELSE Skeleton(tasks[t])

\* last_reply_at moves with the turns.
Entry(s) == [title |-> s.title, project |-> s.project, turns |-> s.turns]

Known(t) == tasks[t] # None

\* mutant: a skeleton is not written at all
RowSkipsSkeletons(row, s) ==
    IF s = None THEN None
    ELSE IF ~HasStarted(s) THEN None
    ELSE IF s.detail THEN s ELSE row

\* One change of the rows by save, after the changed session was marked dirty:
\* a skeleton's list columns only, everything of a whole session, and no row
\* for one that has not started or is gone.
Row(row, s) ==
    IF s = None THEN None
    ELSE IF ~HasStarted(s) THEN None
    ELSE IF s.detail \/ row = None THEN s
    ELSE [row EXCEPT !.title = s.title, !.project = s.project, !.at = s.at,
                     !.archived = s.archived]

Store(after) == disk' = [t \in Tasks |-> IF after[t] = tasks[t] THEN disk[t]
                                         ELSE Row(disk[t], after[t])]

\* hydrate fills a skeleton from its rows.
Hydrated(t) ==
    IF tasks[t].detail THEN tasks[t]
    ELSE IF disk[t] = None THEN [tasks[t] EXCEPT !.detail = TRUE]
    ELSE [tasks[t] EXCEPT !.detail = TRUE, !.turns = disk[t].turns,
                          !.bound = disk[t].bound, !.queue = disk[t].queue]

-----------------------------------------------------------------------------
\* Executing commands, each under the task-state mutex.

\* A session as it arrives: nothing of the transcript, whole by the default of
\* deserialization, without a mark and without deleted messages.
Arriving(m) ==
    [m.copy EXCEPT !.turns = 0, !.detail = TRUE, !.archived = FALSE,
                   !.queue = {i \in @ : <<m.task, i>> \notin gone.messages}]

\* mutant: the mark is merged like the other metadata
MergeStaleWithMark(old, new) ==
    IF new.at >= old.at
    THEN [old EXCEPT !.title = new.title, !.project = new.project, !.at = new.at,
                     !.archived = new.archived, !.queue = @ \cup new.queue]
    ELSE [old EXCEPT !.queue = @ \cup new.queue]

MergeStale(old, new) ==
    IF new.at >= old.at
    THEN [old EXCEPT !.title = new.title, !.project = new.project, !.at = new.at,
                     !.queue = @ \cup new.queue]
    ELSE [old EXCEPT !.queue = @ \cup new.queue]

\* mutant: the transcript is not compared
NewerReplaces(old, new) == new.at > old.at

\* The projection that arrives replaces the daemon's when it is newer and the
\* daemon's transcript is a prefix of its own, which is empty.
Replaces(old, new) == new.at > old.at /\ old.turns = 0

Merged(old, new) ==
    IF old = None THEN new
    ELSE IF Replaces(old, new) THEN [new EXCEPT !.archived = old.archived]
    ELSE MergeStale(old, new)

InUse(after) == {after[t].project : t \in {u \in Tasks : after[u] # None}}

Pruned(all, after) == {p \in all : p \notin Scratch \/ p \in InUse(after)}

\* mutant: removed sessions are let in
AlwaysArrives(m) == TRUE

Arrives(m) == m.task \notin gone.tasks

ArrivingProjects(m) == m.projects \ gone.projects

SaveTaskState(m) ==
    LET after == IF Arrives(m)
                 THEN [tasks EXCEPT ![m.task] = Merged(@, Arriving(m))]
                 ELSE tasks
    IN /\ m.do = "save"
       /\ tasks' = after
       /\ projects' = Pruned(projects \cup ArrivingProjects(m), after)
       /\ Store(after)
       /\ told' = told \cup {[do |-> "save", by |-> m.by, projects |-> m.projects,
                              saved |-> [t \in Tasks |-> IF t = m.task /\ Arrives(m)
                                                         THEN after[t] ELSE None]]}
       /\ UNCHANGED <<gone, fate>>

\* The project of a removed session goes with its last task if it is projectless.
RemoveSession(m) ==
    LET after == [tasks EXCEPT ![m.task] = None]
    IN /\ m.do = "remove"
       /\ gone' = [gone EXCEPT !.tasks = @ \cup {m.task},
                               !.messages = {q \in @ : q[1] # m.task}]
       /\ fate' = [fate EXCEPT ![m.task] = "removed"]
       /\ tasks' = after
       /\ projects' = IF Known(m.task)
                      THEN Pruned(projects, after)
                      ELSE projects
       /\ Store(after)
       /\ told' = told \cup {[do |-> "changed", by |-> m.by, gesture |-> FALSE]}

RemoveProject(m) ==
    LET stranded == {t \in Tasks : Known(t) /\ tasks[t].project = m.project}
        after == [t \in Tasks |-> IF t \in stranded THEN None ELSE tasks[t]]
    IN /\ m.do = "project"
       /\ gone' = [gone EXCEPT !.projects = @ \cup {m.project}, !.tasks = @ \cup stranded]
       /\ fate' = [t \in Tasks |-> IF t \in stranded THEN "removed" ELSE fate[t]]
       /\ projects' = projects \ {m.project}
       /\ tasks' = after
       /\ Store(after)
       /\ told' = told \cup {[do |-> "changed", by |-> m.by, gesture |-> FALSE]}

\* No client is told: the queue is not part of the catalog.
RemoveQueuedMessage(m) ==
    LET after == [tasks EXCEPT ![m.task] =
                      [Hydrated(m.task) EXCEPT !.queue = @ \ {m.message}]]
    IN /\ m.do = "unqueue"
       /\ IF Known(m.task)
          THEN /\ gone' = [gone EXCEPT !.messages = @ \cup {<<m.task, m.message>>}]
               /\ tasks' = after
               /\ Store(after)
          ELSE UNCHANGED <<gone, tasks, disk>>
       /\ UNCHANGED <<projects, told, fate>>

ArchiveSession(m) ==
    LET after == [tasks EXCEPT ![m.task].archived = m.mark]
    IN /\ m.do = "archive"
       /\ IF Known(m.task)
          THEN /\ tasks' = after
               /\ Store(after)
               /\ told' = told \cup {[do |-> "changed", by |-> m.by, gesture |-> TRUE]}
          ELSE UNCHANGED <<tasks, disk, told>>
       /\ UNCHANGED <<gone, projects, fate>>

\* LoadTaskState; sync: asked by the sync worker, or else after a gesture.
LoadTaskState(m) ==
    /\ m.do = "load"
    /\ told' = told \cup {[do |-> "load", by |-> m.by, sync |-> m.sync, projects |-> projects,
                           listed |-> [t \in Tasks |-> ListProjection(t)],
                           entries |-> [t \in Tasks |-> IF Known(t) THEN Entry(tasks[t])
                                                        ELSE None]]}
    /\ UNCHANGED <<daemon, fate>>

\* HydrateSession; the answer is part of it: *existing = session, if it is there.
HydrateSession(m) ==
    LET after == [tasks EXCEPT ![m.task] = Hydrated(m.task)]
    IN /\ m.do = "hydrate"
       /\ IF Known(m.task)
          THEN /\ tasks' = after
               /\ told' = told \cup {[do |-> "hydrate", by |-> m.by, task |-> m.task,
                                      copy |-> Hydrated(m.task)]}
          ELSE UNCHANGED <<tasks, told>>
       /\ UNCHANGED <<gone, disk, projects, fate>>

Execute(m) ==
    /\ asked' = asked \ {m}
    /\ \/ SaveTaskState(m)
       \/ RemoveSession(m)
       \/ RemoveProject(m)
       \/ RemoveQueuedMessage(m)
       \/ ArchiveSession(m)
       \/ LoadTaskState(m)
       \/ HydrateSession(m)
    /\ UNCHANGED <<bounds, catalog, clients>>

-----------------------------------------------------------------------------
\* Announcing what was executed, under the hub's mutex, and the response.

Others(c) == Clients \ {c}

\* mutant: only additions are announced
DiffersIfNew(r) ==
    \/ \E p \in r.projects : p \notin catalog.projects
    \/ \E t \in Tasks : r.saved[t] # None /\ catalog.tasks[t] = None

\* task_state_saved: what was cached differs from what was saved.
Differs(r) ==
    \/ \E p \in r.projects : p \notin catalog.projects
    \/ \E t \in Tasks : r.saved[t] # None /\ catalog.tasks[t] # Entry(r.saved[t])

AnnounceSave(r) ==
    /\ r.do = "save"
    /\ catalog' = [tasks |-> [t \in Tasks |-> IF r.saved[t] = None THEN catalog.tasks[t]
                                              ELSE Entry(r.saved[t])],
                   projects |-> catalog.projects \cup r.projects]
    /\ notice' = IF Differs(r) THEN notice \cup Others(r.by) ELSE notice
    /\ UNCHANGED <<asked, local, shelf, syncing, result>>

\* task_state_changed; the archive gesture then loads the catalog itself.
AnnounceChange(r) ==
    /\ r.do = "changed"
    /\ notice' = notice \cup Others(r.by)
    /\ asked' = IF r.gesture THEN asked \cup {[do |-> "load", by |-> r.by, sync |-> FALSE]}
                ELSE asked
    /\ UNCHANGED <<catalog, local, shelf, syncing, result>>

\* replace_task_catalog; the snapshot goes into the client's results channel,
\* of which drain_task_state_sync_events takes the last.
AnnounceLoad(r) ==
    /\ r.do = "load"
    /\ catalog' = [tasks |-> r.entries, projects |-> r.projects]
    /\ result' = [result EXCEPT ![r.by] = [listed |-> r.listed, projects |-> r.projects]]
    /\ syncing' = IF r.sync THEN syncing \ {r.by} ELSE syncing
    /\ UNCHANGED <<asked, local, shelf, notice>>

AnswerHydrate(r) ==
    /\ r.do = "hydrate"
    /\ local' = IF local[r.by][r.task] = None THEN local
                ELSE [local EXCEPT ![r.by][r.task] = r.copy]
    /\ UNCHANGED <<catalog, asked, shelf, notice, syncing, result>>

Announce(r) ==
    /\ told' = told \ {r}
    /\ \/ AnnounceSave(r)
       \/ AnnounceChange(r)
       \/ AnnounceLoad(r)
       \/ AnswerHydrate(r)
    /\ UNCHANGED <<bounds, daemon, fate>>

-----------------------------------------------------------------------------
\* The clients.

\* The sync worker reads every revision there is, then loads.
SyncLoads(c) ==
    /\ c \in notice /\ c \notin syncing
    /\ notice' = notice \ {c}
    /\ syncing' = syncing \cup {c}
    /\ asked' = asked \cup {[do |-> "load", by |-> c, sync |-> TRUE]}
    /\ UNCHANGED <<bounds, daemon, catalog, fate, told, local, shelf, result>>

\* merge_remote_session_catalog for one session.
Refreshed(mine, remote) ==
    IF remote = None THEN IF mine # None /\ HasStarted(mine) THEN None ELSE mine
    ELSE IF mine = None THEN remote
    ELSE [mine EXCEPT !.title = remote.title, !.project = remote.project, !.at = remote.at,
                      !.archived = remote.archived]

ApplySnapshot(c) ==
    /\ result[c] # None
    /\ local' = [local EXCEPT ![c] = [t \in Tasks |-> Refreshed(@[t], result[c].listed[t])]]
    /\ shelf' = [shelf EXCEPT ![c] = result[c].projects]
    /\ result' = [result EXCEPT ![c] = None]
    /\ UNCHANGED <<bounds, daemon, catalog, fate, asked, told, notice, syncing>>

Shows(c, t) == local[c][t] # None

\* A gesture of a client's user that changes its sessions and its projects and
\* sends commands, without waiting for the answers.
Gesture(c, kind, sessions, known, commands) ==
    /\ c \in play.hands /\ kind \in play.may
    /\ gestures < play.gestures
    /\ gestures' = gestures + 1
    /\ local' = [local EXCEPT ![c] = sessions]
    /\ shelf' = [shelf EXCEPT ![c] = known]
    /\ asked' = asked \cup commands
    /\ UNCHANGED <<play, now, restarts, daemon, catalog, told, notice, syncing, result>>

\* What save sends for a session: the client's copy of it, whatever its age.
SaveOf(c, t, copy, known) ==
    [do |-> "save", by |-> c, task |-> t, copy |-> [copy EXCEPT !.turns = 0], projects |-> known]

Edit(c, t, kind, copy, more) ==
    /\ Gesture(c, kind, [local[c] EXCEPT ![t] = copy], shelf[c],
               more \cup {SaveOf(c, t, copy, shelf[c])})
    /\ UNCHANGED fate

CreateSession(c, t, p) ==
    LET copy == [Session(p, 0, TRUE) EXCEPT !.at = now]
        known == shelf[c] \cup {p}
    IN /\ fate[t] = "unused"
       /\ fate' = [fate EXCEPT ![t] = "used"]
       /\ p \in Scratch \cup shelf[c]
       /\ Gesture(c, "create", [local[c] EXCEPT ![t] = copy], known,
                  {SaveOf(c, t, copy, known)})

\* Any title but the one that the client shows.
RenameSession(c, t, title) ==
    /\ Shows(c, t) /\ title # local[c][t].title
    /\ Edit(c, t, IF title = gestures + 1 THEN "rename" ELSE "return",
            [local[c][t] EXCEPT !.title = title, !.at = now], {})

\* Only the selected session, which was loaded, has a composer and a queue.
EnqueueMessage(c, t) ==
    /\ Shows(c, t) /\ local[c][t].detail
    /\ Edit(c, t, "enqueue",
            [local[c][t] EXCEPT !.queue = @ \cup {gestures + 1}, !.at = now], {})

TakeQueuedMessage(c, t, i) ==
    /\ Shows(c, t) /\ i \in local[c][t].queue
    /\ Edit(c, t, "unqueue", [local[c][t] EXCEPT !.queue = @ \ {i}],
            {[do |-> "unqueue", by |-> c, task |-> t, message |-> i]})

OpenSession(c, t) ==
    /\ Shows(c, t) /\ ~local[c][t].detail
    /\ Gesture(c, "open", local[c], shelf[c], {[do |-> "hydrate", by |-> c, task |-> t]})
    /\ UNCHANGED fate

ArchiveGesture(c, t) ==
    /\ Shows(c, t)
    /\ Gesture(c, "archive", local[c], shelf[c],
               {[do |-> "archive", by |-> c, task |-> t, mark |-> ~local[c][t].archived]})
    /\ UNCHANGED fate

RemoveGesture(c, t) ==
    /\ Shows(c, t)
    /\ Gesture(c, "remove", [local[c] EXCEPT ![t] = None], shelf[c],
               {[do |-> "remove", by |-> c, task |-> t]})
    /\ UNCHANGED fate

ProjectGesture(c, p) ==
    LET inside == {t \in Tasks : Shows(c, t) /\ local[c][t].project = p}
    IN /\ p \in shelf[c] \ Scratch
       /\ Gesture(c, "project", [t \in Tasks |-> IF t \in inside THEN None ELSE local[c][t]],
                  shelf[c] \ {p},
                  {[do |-> "remove", by |-> c, task |-> t] : t \in inside}
                      \cup {[do |-> "project", by |-> c, project |-> p]})
       /\ UNCHANGED fate

\* A turn of a task at rest, from the prompt to its end (TaskTurn): the daemon
\* reduces and saves it, takes the task off the shelf, and tells every client.
TakeTurn(c, t) ==
    LET turned(s) == [s EXCEPT !.turns = @ + 1, !.bound = TRUE, !.at = now, !.archived = FALSE]
        after == [tasks EXCEPT ![t] = turned(@)]
    IN /\ c \in play.hands /\ "turn" \in play.may /\ gestures < play.gestures
       /\ Shows(c, t) /\ local[c][t].detail
       /\ Known(t) /\ tasks[t].detail
       /\ gestures' = gestures + 1
       /\ tasks' = after
       /\ Store(after)
       /\ local' = [local EXCEPT ![c][t] = turned(@)]
       /\ notice' = Clients
       /\ UNCHANGED <<play, now, restarts, projects, gone, catalog, fate, asked, told, shelf,
                      syncing, result>>

-----------------------------------------------------------------------------
\* The daemon restarts: what was in memory or in flight is lost, the sessions
\* are skeletons, and every sync worker loads again over its new connection.
Restart ==
    /\ restarts < play.restarts
    /\ restarts' = restarts + 1
    /\ tasks' = [t \in Tasks |-> IF disk[t] = None THEN None ELSE Skeleton(disk[t])]
    /\ gone' = [tasks |-> {}, projects |-> {}, messages |-> {}]
    /\ catalog' = [tasks |-> [t \in Tasks |-> None], projects |-> {}]
    /\ asked' = {} /\ told' = {}
    /\ notice' = Clients
    /\ syncing' = {}
    /\ UNCHANGED <<play, now, gestures, projects, disk, fate, local, shelf, result>>

Tick ==
    /\ now < play.clock
    /\ now' = now + 1
    /\ UNCHANGED <<play, gestures, restarts, daemon, catalog, fate, asked, told, clients>>

\* A daemon whose old tasks have all been opened; a Restart has skeletons.
Init ==
    /\ play \in Plays
    /\ now = 0 /\ gestures = 0 /\ restarts = 0
    /\ tasks = [t \in Tasks |-> IF t \in Old THEN Session(Home, 1, TRUE) ELSE None]
    /\ disk = tasks
    /\ projects = Projects \ Scratch
    /\ gone = [tasks |-> {}, projects |-> {}, messages |-> {}]
    /\ catalog = [tasks |-> [t \in Tasks |-> IF t \in Old THEN Entry(tasks[t]) ELSE None],
                  projects |-> projects]
    /\ fate = [t \in Tasks |-> IF t \in Old THEN "used" ELSE "unused"]
    /\ asked = {} /\ told = {}
    /\ local = [c \in Clients |-> [t \in Tasks |-> ListProjection(t)]]
    /\ shelf = [c \in Clients |-> projects]
    /\ notice = {} /\ syncing = {}
    /\ result = [c \in Clients |-> None]

ClientStep(c) ==
    \/ SyncLoads(c)
    \/ ApplySnapshot(c)
    \/ \E t \in Tasks :
          \/ \E p \in Projects : CreateSession(c, t, p)
          \/ \E title \in 0..(gestures + 1) : RenameSession(c, t, title)
          \/ EnqueueMessage(c, t)
          \/ \E i \in 1..play.gestures : TakeQueuedMessage(c, t, i)
          \/ OpenSession(c, t)
          \/ ArchiveGesture(c, t)
          \/ RemoveGesture(c, t)
          \/ TakeTurn(c, t)
    \/ \E p \in Projects : ProjectGesture(c, p)

Next ==
    \/ \E m \in asked : Execute(m)
    \/ \E r \in told : Announce(r)
    \/ \E c \in Clients : ClientStep(c)
    \/ Restart
    \/ Tick

Spec == Init /\ [][Next]_vars

-----------------------------------------------------------------------------
\* Properties.

Titles == 0..play.gestures

Sessions ==
    [project : Projects, title : Titles, at : 0..play.clock, archived : BOOLEAN,
     turns : 0..(play.gestures + 1), bound : BOOLEAN, queue : SUBSET (1..play.gestures),
     detail : BOOLEAN]

IsSkeleton(s) == s.turns = 0 /\ ~s.bound /\ s.queue = {} /\ ~s.detail

\* Types; a session without its detail has no transcript (a save may still give
\* it a queue, which hydrate will replace), and what a client refetches is
\* skeletons only (list_projection, model.rs:970): never a transcript, and never
\* an empty one that would pass for the whole.
TypeOK ==
    /\ now \in 0..play.clock /\ gestures \in 0..play.gestures /\ restarts \in 0..play.restarts
    /\ projects \subseteq Projects
    /\ fate \in [Tasks -> {"unused", "used", "removed"}]
    /\ notice \subseteq Clients /\ syncing \subseteq Clients
    /\ \A t \in Tasks : /\ tasks[t] # None => tasks[t] \in Sessions
                        /\ (tasks[t] # None /\ ~tasks[t].detail)
                               => tasks[t].turns = 0 /\ ~tasks[t].bound
                        /\ disk[t] # None => disk[t] \in Sessions
                        /\ \A c \in Clients : local[c][t] # None => local[c][t] \in Sessions
    /\ \A c \in Clients, t \in Tasks :
          (result[c] # None /\ result[c].listed[t] # None) => IsSkeleton(result[c].listed[t])

\* A session that a user removed, with its project or by itself, does not come
\* back, in memory or as a row, whatever copies of it other clients still save
\* (removed_session_ids, daemon.rs:423).
RemovedStaysRemoved ==
    \A t \in Tasks : fate[t] = "removed" => ~Known(t) /\ disk[t] = None

\* A queued message that was taken out is not restored by the queue of another
\* client's snapshot, nor by rows that had it (daemon.rs:431).
DeletedStaysDeleted ==
    \A q \in gone.messages :
        /\ Known(q[1]) => q[2] \notin tasks[q[1]].queue
        /\ disk[q[1]] # None => q[2] \notin disk[q[1]].queue

\* A removed project is not brought back by a client that still lists it
\* (merge_saved_projects, daemon.rs:2758).
ProjectStaysRemoved == projects \cap gone.projects = {}

\* A projectless project lives as long as it has a task, however saves and
\* removals of different clients interleave (daemon.rs:455, 642).
ScratchIsUsed == projects \cap Scratch \subseteq InUse(tasks)

\* All of these, as long as the daemon that was told of the removal runs; the
\* tombstones are in its memory only (RemovedStaysRemoved fails after a restart).
NothingComesBack ==
    restarts = 0 =>
        RemovedStaysRemoved /\ DeletedStaysDeleted /\ ProjectStaysRemoved /\ ScratchIsUsed

\* No task is filed under a project that is not there: RemoveProject takes what
\* "would otherwise be stranded" (daemon.rs:485).
NoneStranded == InUse(tasks) \subseteq projects

\* The rows are the sessions in memory at every moment: a restart shows each
\* task as it is, with its turns, and none that is gone (save, persistence.rs).
RowsAreCurrent ==
    \A t \in Tasks :
        IF Known(t) /\ HasStarted(tasks[t])
        THEN /\ disk[t] # None
             /\ Skeleton(disk[t]) = Skeleton(tasks[t])
             /\ tasks[t].detail => disk[t] = tasks[t]
        ELSE disk[t] = None

\* The state has its types, and is what a restart finds.
ListIsStored == TypeOK /\ RowsAreCurrent

\* The archive mark moves by ArchiveSession or a turn that takes the task off
\* the shelf, never by a snapshot ("The archive mark is daemon state, set only
\* by `ArchiveSession`", daemon.rs:426).
MarkByCommand ==
    [][\A t \in Tasks :
          (/\ Known(t) /\ tasks'[t] # None
           /\ tasks'[t].archived # tasks[t].archived)
          => \/ \E m \in asked \ asked' : m.do = "archive" /\ m.task = t
             \/ tasks'[t].turns > tasks[t].turns]_vars

\* No gesture of any client costs a task that this daemon has whole, which it
\* created or has hydrated, a turn that was saved, nor its row, as long as the
\* daemon runs; only a removal takes them.
TurnsStay ==
    [][\A t \in Tasks :
          (disk[t] # None /\ fate'[t] # "removed" /\ restarts = 0)
          => disk'[t] # None /\ disk'[t].turns >= disk[t].turns]_vars

\* The same of every task, those too that a restarted daemon has as skeletons
\* when a client saves its copy of one (persistence.rs:2755).
NoTurnIsLost ==
    [][\A t \in Tasks :
          (disk[t] # None /\ fate'[t] # "removed")
          => disk'[t] # None /\ disk'[t].turns >= disk[t].turns]_vars

\* A renamed task does not have its first title again unless somebody gives it
\* that: a snapshot that another client took before the rename does not undo it
\* (ADR 0002; for plays where no title returns).
RenameStands ==
    [][\A t \in Tasks : (Known(t) /\ tasks'[t] # None /\ tasks[t].title # 0)
                       => tasks'[t].title # 0]_vars

Settled ==
    /\ asked = {} /\ told = {} /\ notice = {} /\ syncing = {}
    /\ \A c \in Clients : result[c] = None

\* A client whose user does nothing lists, once nothing is under way, what the
\* daemon has: "Tells every client but the one that caused the change that its
\* Task catalog snapshot is stale" (server.rs:503).  It holds in the plays where
\* no title returns and nothing is archived: a change is one that makes an entry
\* differ from the hub's (server.rs:491), which may be older than what the daemon
\* has, so that a title it had before passes for no change.
WatchersAgree ==
    Settled => \A c \in Clients \ play.hands : \A t \in Tasks :
        IF Known(t) THEN Shows(c, t) /\ Skeleton(local[c][t]) = ListProjection(t)
        ELSE ~Shows(c, t)

=============================================================================
