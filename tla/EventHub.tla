------------------------------ MODULE EventHub ------------------------------
(***************************************************************************)
(* The daemon's event hub (crates/shidou-core/src/server.rs, struct Hub).  *)
(*                                                                         *)
(* Provider drivers, terminals and the runtime mailbox emit events of a    *)
(* runtime from different threads.  The hub numbers each event, keeps the  *)
(* newest ones in a bounded journal, lets the backend reduce it into the   *)
(* saved task and sends it to every subscribed connection.  A connection   *)
(* that subscribes is first replayed the journal from its cursor.          *)
(*                                                                         *)
(* One action is one critical section of the hub's state mutex.  The mutex *)
(* is released between them while a thread holds, or waits for, the event  *)
(* lock of a runtime, so that threads interleave exactly there.            *)
(***************************************************************************)
EXTENDS Naturals, Sequences, FiniteSets

CONSTANTS
    Sessions,       \* sessions the daemon knows
    Runtimes,       \* runtime ids, each begun once: Start draws a fresh one
    Terminals,      \* the runtimes that are pseudoterminals
    SessionOf,      \* the session each runtime is started for
    Clients,        \* client connections
    None,           \* no runtime
    ReplayLimit,    \* replay_limit of the journal
    MaxEvents,      \* bound: events numbered per runtime
    MaxRevision     \* bound: task-catalog revisions

ASSUME HubAssumption ==
    /\ Terminals \subseteq Runtimes
    /\ SessionOf \in [Runtimes -> Sessions]
    /\ None \notin Runtimes
    /\ Sessions \cap Runtimes = {}
    /\ ReplayLimit \in Nat \ {0}        \* Hub::new takes replay_limit.max(1)
    /\ MaxEvents \in Nat
    /\ MaxRevision \in Nat

\* A driver's event-forwarding thread is named by its runtime, the mailbox
\* worker that starts and closes runtimes by its session.
Threads == Sessions \cup Runtimes

\* Where a thread is inside the hub: delivering event `seq` of runtime `run`, or
\* about to begin or end `run`, with the event lock it found before.  (History,
\* which no step reads: seq is then what the active runtime had numbered.)
Doing(at, run, seq)             == [at |-> at, run |-> run, seq |-> seq, lock |-> None]
Changing(op, run, lock, seen)   == [at |-> op, run |-> run, seq |-> seen, lock |-> lock]
Idle == Doing("idle", None, 0)

VARIABLES
    active,         \* active_runtimes
    locks,          \* keys of event_locks
    nextSeq,        \* next_sequences; 0 where the map has no entry
    journal,        \* journal: the retained sequence numbers
    subscribers,    \* connections in the subscribers map
    receiving,      \* connections whose outgoing receiver is still alive
    revision,       \* task_state_revision
    told,           \* last TaskStateChanged revision sent to a connection
    inbox,          \* the event sequences a connection was sent, by runtime
    gap,            \* ReplayGap's first_available sent ahead of them, or 0
    task,           \* where each thread is inside the hub
    begun,          \* runtimes ever begun
    reduced,        \* last sequence the backend reduced, by runtime
    resume          \* history: the cursor a connection subscribed with

hubState == <<active, locks, nextSeq, journal>>
sinks    == <<subscribers, receiving, inbox, gap, resume>>
catalog  == <<revision, told>>
vars == <<hubState, sinks, catalog, task, begun, reduced>>

Init ==
    /\ active = [s \in Sessions |-> None]
    /\ locks = {}
    /\ nextSeq = [r \in Runtimes |-> 0]
    /\ journal = [r \in Runtimes |-> <<>>]
    /\ subscribers = {}
    /\ receiving = {}
    /\ revision = 0
    /\ told = [c \in Clients |-> 0]
    /\ inbox = [c \in Clients |-> [r \in Runtimes |-> <<>>]]
    /\ gap = [c \in Clients |-> [r \in Runtimes |-> 0]]
    /\ task = [t \in Threads |-> Idle]
    /\ begun = {}
    /\ reduced = [r \in Runtimes |-> 0]
    /\ resume = [c \in Clients |-> [r \in Runtimes |-> 0]]

-----------------------------------------------------------------------------
(* emit *)

Replayable(r) == r \notin Terminals     \* send, or send_ephemeral by a PTY

IsActive(r) == active[SessionOf[r]] = r

\* The thread that holds the event lock of r is past numbering its event.
Emitting(t, r) == task[t].run = r /\ task[t].at \in {"reduce", "broadcast"}

\* mutant: events of a runtime are not serialised
NoEventLock(r) == TRUE
EventLockFree(r) == \A t \in Threads : ~Emitting(t, r)

MayEmit(t, r) == t = r \/ t = SessionOf[r]

Entered(r) == {t \in Threads : task[t].run = r /\ task[t].at = "enter"}

\* First critical section: an event of an inactive runtime is dropped here.
EmitEnter(t, r) ==
    /\ MayEmit(t, r)
    /\ task[t] = Idle
    /\ IsActive(r)
    /\ nextSeq[r] + Cardinality(Entered(r)) < MaxEvents      \* bound
    /\ locks' = locks \cup {r}
    /\ task' = [task EXCEPT ![t] = Doing("enter", r, 0)]
    /\ UNCHANGED <<active, nextSeq, journal, sinks, catalog, begun, reduced>>

\* mutant: a full journal evicts the newest event
RetainOldest(entries) ==
    IF Len(entries) > ReplayLimit THEN SubSeq(entries, 1, ReplayLimit) ELSE entries

Retain(entries) ==
    IF Len(entries) > ReplayLimit THEN Tail(entries) ELSE entries

\* Second one, with the event lock: check again, number, journal.
EmitSequence(t) ==
    LET r == task[t].run
        n == nextSeq[r] + 1
    IN  /\ task[t].at = "enter"
        /\ EventLockFree(r)
        /\ IsActive(r)
        /\ nextSeq' = [nextSeq EXCEPT ![r] = n]
        /\ journal' = IF Replayable(r)
                      THEN [journal EXCEPT ![r] = Retain(Append(@, n))]
                      ELSE journal
        /\ task' = [task EXCEPT ![t] =
                       Doing(IF Replayable(r) THEN "reduce" ELSE "broadcast", r, n)]
        /\ UNCHANGED <<active, locks, sinks, catalog, begun, reduced>>

EmitDrop(t) ==
    /\ task[t].at = "enter"
    /\ EventLockFree(task[t].run)
    /\ ~IsActive(task[t].run)
    /\ task' = [task EXCEPT ![t] = Idle]
    /\ UNCHANGED <<hubState, sinks, catalog, begun, reduced>>

\* backend.handle_runtime_event, outside the hub's mutex.
EmitReduce(t) ==
    /\ task[t].at = "reduce"
    /\ reduced' = [reduced EXCEPT ![task[t].run] = task[t].seq]
    /\ task' = [task EXCEPT ![t] = Doing("broadcast", task[t].run, task[t].seq)]
    /\ UNCHANGED <<hubState, sinks, catalog, begun>>

\* Last one: every live subscriber gets the event, then hears of a catalog
\* change the reduction made; the event lock is released.
EmitBroadcast(t, changed) ==
    LET r == task[t].run
    IN  /\ task[t].at = "broadcast"
        /\ changed => Replayable(r) /\ revision < MaxRevision
        /\ subscribers' = subscribers \cap receiving
        /\ inbox' = [c \in Clients |->
                        IF c \in subscribers \cap receiving
                        THEN [inbox[c] EXCEPT ![r] = Append(@, task[t].seq)]
                        ELSE inbox[c]]
        /\ revision' = IF changed THEN revision + 1 ELSE revision
        /\ told' = [c \in Clients |->
                       IF changed /\ c \in subscribers \cap receiving
                       THEN revision + 1 ELSE told[c]]
        /\ task' = [task EXCEPT ![t] = Idle]
        /\ UNCHANGED <<hubState, receiving, gap, resume, begun, reduced>>

-----------------------------------------------------------------------------
(* begin_runtime and end_runtime, both on the mailbox worker's thread *)

CurrentLock(s) == IF active[s] \in locks THEN active[s] ELSE None

\* History, for ChangesBetweenEvents alone: the code does not look at it.
NumberedBefore(s) == IF active[s] = None THEN 0 ELSE nextSeq[active[s]]

\* First critical section: remember the event lock of the active runtime.
Capture(s, op, r) ==
    /\ task[s] = Idle
    /\ task' = [task EXCEPT ![s] = Changing(op, r, CurrentLock(s), NumberedBefore(s))]
    /\ UNCHANGED <<hubState, sinks, catalog, reduced>>

BeginCapture(s, r) ==
    /\ SessionOf[r] = s
    /\ r \notin begun
    /\ begun' = begun \cup {r}
    /\ Capture(s, "begin", r)

EndCapture(s, r) ==
    /\ r # None => SessionOf[r] = s /\ r \in begun
    /\ begun' = begun
    /\ Capture(s, "end", r)

OfSession(s) == {r \in Runtimes : SessionOf[r] = s}

ForgetSession(s) ==
    /\ locks' = locks \ OfSession(s)
    /\ nextSeq' = [r \in Runtimes |-> IF SessionOf[r] = s THEN 0 ELSE nextSeq[r]]
    /\ journal' = [r \in Runtimes |-> IF SessionOf[r] = s THEN <<>> ELSE journal[r]]

\* mutants: nobody is waited for; the thread waits for itself as well
NoBarrier(s) == TRUE
BarrierWithSelf(s) ==
    task[s].lock # None => \A t \in Threads : task[t].run # task[s].lock

\* Second one, once the remembered lock (if there was one) is free.
BarrierPassed(s) == task[s].lock # None => EventLockFree(task[s].lock)

BeginCommit(s) ==
    /\ task[s].at = "begin"
    /\ BarrierPassed(s)
    /\ active' = [active EXCEPT ![s] = task[s].run]
    /\ ForgetSession(s)
    /\ task' = [task EXCEPT ![s] = Idle]
    /\ UNCHANGED <<sinks, catalog, begun, reduced>>

EndCommit(s) ==
    LET matches == task[s].run \in {None, active[s]}
    IN  /\ task[s].at = "end"
        /\ BarrierPassed(s)
        /\ IF matches THEN /\ active' = [active EXCEPT ![s] = None]
                           /\ ForgetSession(s)
                      ELSE UNCHANGED hubState
        /\ task' = [task EXCEPT ![s] = Idle]
        /\ UNCHANGED <<sinks, catalog, begun, reduced>>

-----------------------------------------------------------------------------
(* subscribe, unsubscribe and task_state_changed *)

\* Sequences are journaled in increasing order, so that the events a cursor
\* has seen are a prefix of the journal.
SeenPrefix(entries, cursor) ==
    CHOOSE k \in 0..Len(entries) :
        \A i \in 1..Len(entries) : entries[i] <= cursor <=> i <= k

\* What subscribe sends for one journal, given the connection's cursor.
Replay(entries, cursor) ==
    LET seen == SeenPrefix(entries, cursor)
    IN  [i \in 1..(Len(entries) - seen) |-> entries[seen + i]]

\* mutant: a single missing event goes unannounced
MissedMany(entries, cursor) ==
    IF entries # <<>> /\ Head(entries) > cursor + 2 THEN Head(entries) ELSE 0

\* The notice for a cursor more than one behind the journal's front.
Missed(entries, cursor) ==
    IF entries # <<>> /\ Head(entries) > cursor + 1 THEN Head(entries) ELSE 0

\* Cursors name sequences of this daemon epoch, or are 0 (no cursor for the
\* runtime, or one of another epoch).
Subscribe(c, cursor) ==
    /\ c \notin subscribers \cup receiving
    /\ \A r \in Runtimes : cursor[r] <= nextSeq[r]
    /\ subscribers' = subscribers \cup {c}
    /\ receiving' = receiving \cup {c}
    /\ inbox' = [inbox EXCEPT ![c] =
                    [r \in Runtimes |-> Replay(journal[r], cursor[r])]]
    /\ gap' = [gap EXCEPT ![c] =
                    [r \in Runtimes |-> Missed(journal[r], cursor[r])]]
    /\ resume' = [resume EXCEPT ![c] = cursor]
    /\ UNCHANGED <<hubState, catalog, task, begun, reduced>>

\* The receiver goes, with whatever the socket had not been written yet.
DropReceiver(c) ==
    /\ c \in receiving
    /\ receiving' = receiving \ {c}
    /\ inbox' = [inbox EXCEPT ![c] = [r \in Runtimes |-> <<>>]]
    /\ gap' = [gap EXCEPT ![c] = [r \in Runtimes |-> 0]]
    /\ resume' = [resume EXCEPT ![c] = [r \in Runtimes |-> 0]]
    /\ told' = [told EXCEPT ![c] = 0]
    /\ UNCHANGED <<hubState, revision, task, begun, reduced>>

Unsubscribe(c) ==
    /\ DropReceiver(c)
    /\ subscribers' = subscribers \ {c}

\* handle_connection returns on a socket error before it unsubscribes: the
\* next broadcast finds the receiver gone and drops the subscriber.
ConnectionLost(c) ==
    /\ DropReceiver(c)
    /\ UNCHANGED subscribers

TaskStateChanged(source) ==
    /\ source \in subscribers
    /\ revision < MaxRevision
    /\ revision' = revision + 1
    /\ subscribers' = {c \in subscribers : c = source \/ c \in receiving}
    /\ told' = [c \in Clients |->
                   IF c # source /\ c \in subscribers \cap receiving
                   THEN revision + 1 ELSE told[c]]
    /\ UNCHANGED <<hubState, receiving, inbox, gap, resume, task, begun, reduced>>

-----------------------------------------------------------------------------
Cursors == [Runtimes -> 0..MaxEvents]

Emit(t) ==
    \/ \E r \in Runtimes : EmitEnter(t, r)
    \/ EmitSequence(t)
    \/ EmitDrop(t)
    \/ EmitReduce(t)
    \/ \E changed \in BOOLEAN : EmitBroadcast(t, changed)

Lifecycle(s) ==
    \/ \E r \in Runtimes : BeginCapture(s, r)
    \/ BeginCommit(s)
    \/ \E r \in Runtimes \cup {None} : EndCapture(s, r)
    \/ EndCommit(s)

Connection(c) ==
    \/ \E cursor \in Cursors : Subscribe(c, cursor)
    \/ Unsubscribe(c)
    \/ ConnectionLost(c)
    \/ TaskStateChanged(c)

Next ==
    \/ \E t \in Threads : Emit(t)
    \/ \E s \in Sessions : Lifecycle(s)
    \/ \E c \in Clients : Connection(c)

\* A thread inside the hub goes on: its steps are straight-line code, and
\* parking_lot's mutexes are eventually fair to a waiting thread.
Fairness ==
    /\ \A t \in Threads :
         /\ SF_vars(EmitSequence(t) \/ EmitDrop(t))
         /\ WF_vars(EmitReduce(t) \/ \E changed \in BOOLEAN : EmitBroadcast(t, changed))
    /\ \A s \in Sessions : SF_vars(BeginCommit(s) \/ EndCommit(s))

Spec == Init /\ [][Next]_vars
FairSpec == Spec /\ Fairness

-----------------------------------------------------------------------------
(* Properties *)

TaskStates ==
    [at : {"idle", "enter", "reduce", "broadcast", "begin", "end"},
     run : Runtimes \cup {None},
     seq : Nat,
     lock : Runtimes \cup {None}]

\* The values the hub's state ranges over; the journal is bounded.
TypeOK ==
    /\ active \in [Sessions -> Runtimes \cup {None}]
    /\ locks \subseteq Runtimes
    /\ nextSeq \in [Runtimes -> Nat]
    /\ journal \in [Runtimes -> Seq(Nat)]
    /\ \A r \in Runtimes : Len(journal[r]) <= ReplayLimit
    /\ subscribers \subseteq Clients
    /\ receiving \subseteq Clients
    /\ revision \in Nat
    /\ told \in [Clients -> Nat]
    /\ inbox \in [Clients -> [Runtimes -> Seq(Nat)]]
    /\ gap \in [Clients -> [Runtimes -> Nat]]
    /\ task \in [Threads -> TaskStates]
    /\ begun \subseteq Runtimes
    /\ reduced \in [Runtimes -> Nat]
    /\ resume \in [Clients -> [Runtimes -> Nat]]

InFlight(r) == {task[t].seq : t \in {u \in Threads : Emitting(u, r)}}

Sent(c, r) == {inbox[c][r][i] : i \in DOMAIN inbox[c][r]}

\* What a connection can account for: what it had when it subscribed, what it
\* was sent since, and what it was told is lost.
Accounted(c, r) ==
    1..resume[c][r] \cup Sent(c, r) \cup 1..(gap[c][r] - 1)

\* subscribe replays and registers in one critical section while emit journals
\* and broadcasts in two: no numbered event of a live runtime falls between
\* the replay and the live stream without the connection being told.
NothingLostUnannounced ==
    \A c \in receiving, r \in Runtimes \ Terminals :
        IsActive(r) => 1..nextSeq[r] \subseteq Accounted(c, r) \cup InFlight(r)

\* Clients drop an event whose sequence is not above the last one they saw
\* (crates/shidou-client/src/client.rs, run_client).  That is safe only if an
\* event which arrives out of order is one the connection was sent before.
DedupLosesNothing ==
    \A c \in receiving, r \in Runtimes :
        LET sent == inbox[c][r]
        IN  \A j \in DOMAIN sent : \A i \in 1..(j - 1) :
                sent[j] <= sent[i] => \E k \in 1..(j - 1) : sent[k] = sent[j]

\* Two threads may emit for one runtime, yet the backend reduces its events in
\* the order of their sequences, none skipped and none twice.
ReducedInSequence ==
    [][\A r \in Runtimes :
          reduced'[r] # reduced[r] => reduced'[r] = reduced[r] + 1]_vars

\* subscribe reads the oldest recoverable event off the journal's front, which
\* is right only while the journal of a live runtime is the contiguous newest
\* tail of what was numbered; a terminal's is empty.
Kept(r) ==
    IF r \in Terminals THEN 0
    ELSE IF nextSeq[r] < ReplayLimit THEN nextSeq[r] ELSE ReplayLimit

JournalIsNewestTail ==
    \A r \in Runtimes :
        journal[r] = [i \in 1..Kept(r) |-> nextSeq[r] - Kept(r) + i]

\* A late emission of a replaced or closed runtime leaves nothing behind: only
\* the active runtime of a session has a lock, a counter or a journal.
OnlyActiveRuntimeHasState ==
    \A r \in Runtimes :
        r \in locks \/ nextSeq[r] # 0 \/ journal[r] # <<>> => IsActive(r)

\* begin_runtime and end_runtime look for an event lock in one critical section
\* and change the runtime in another: a runtime that had numbered an event by the
\* first is left only between two of its events, whatever it emits until then.
ChangesBetweenEvents ==
    [][\A s \in Sessions :
          active'[s] # active[s] /\ active[s] # None /\ task[s].seq > 0
              => InFlight(active[s]) = {}]_vars

\* README.md of shidou-core: "stale events or commands from a replaced runtime
\* are ignored": no event of a runtime is reduced or sent once it was replaced.
\* The event lock does not ensure that of a runtime that had none when the
\* change began (server.rs:301): its first events may straddle the change.
NoneStraddles ==
    [][\A s \in Sessions :
          active'[s] # active[s] /\ active[s] # None => InFlight(active[s]) = {}]_vars

\* Every numbered event is delivered and every begin or end completes: no
\* cycle of waiting between the event lock and the threads that want it.
HubThreadsReturn == \A t \in Threads : task[t] # Idle ~> task[t] = Idle

-----------------------------------------------------------------------------
(* The inductive invariant behind the safety properties. *)

\* Which runtime and which number a thread inside the hub may carry.
TasksNameRuntimes ==
    \A t \in Threads :
        /\ task[t].at \in {"enter", "reduce", "broadcast", "begin"}
              => task[t].run \in Runtimes
        /\ task[t].at \in {"begin", "end"} => t \in Sessions
        /\ task[t].at = "begin" => SessionOf[task[t].run] = t /\ task[t].run \in begun
        /\ task[t].at = "reduce" => Replayable(task[t].run)

\* The event lock: one thread at a time delivers an event of a runtime, and it
\* is the newest one while the runtime is active.
OneDelivery ==
    \A r \in Runtimes : \A t \in Threads :
        Emitting(t, r) =>
            /\ \A u \in Threads : Emitting(u, r) => u = t
            /\ IsActive(r) => task[t].seq = nextSeq[r]

\* A runtime id that no begin has committed yet has left no trace.
Fresh(r) ==
    r \notin begun \/ \E s \in Sessions : task[s].at = "begin" /\ task[s].run = r

FreshIsBlank ==
    \A r \in Runtimes : Fresh(r) =>
        /\ ~IsActive(r)
        /\ reduced[r] = 0
        /\ \A t \in Threads : ~Emitting(t, r)

FreshIsUnseen ==
    \A r \in Runtimes : Fresh(r) => \A c \in Clients : inbox[c][r] = <<>>

\* The backend is behind the numbering by exactly the event being reduced.
ReducedKeepsUp ==
    \A r \in Runtimes \ Terminals :
        /\ \A t \in Threads :
              task[t].at = "reduce" /\ task[t].run = r => task[t].seq = reduced[r] + 1
        /\ IsActive(r) =>
              \/ nextSeq[r] = reduced[r]
              \/ \E t \in Threads : task[t].at = "reduce" /\ task[t].run = r

\* No connection is ahead of the event that is being delivered.
NobodyAhead ==
    \A c \in Clients, r \in Runtimes : \A n \in Sent(c, r) :
        /\ IsActive(r) => n <= nextSeq[r]
        /\ \A t \in Threads : Emitting(t, r) => n <= task[t].seq

HubInv ==
    /\ TypeOK
    /\ TasksNameRuntimes
    /\ OneDelivery
    /\ FreshIsBlank
    /\ ReducedKeepsUp
    /\ JournalIsNewestTail
    /\ OnlyActiveRuntimeHasState

SinkInv ==
    /\ receiving \subseteq subscribers
    /\ FreshIsUnseen
    /\ NobodyAhead
    /\ NothingLostUnannounced
    /\ DedupLosesNothing

IInv == HubInv /\ SinkInv

\* Behind the barrier: whoever has entered emit has made the event lock of its
\* runtime, without it nothing is numbered, and the runtime that a begin or an
\* end has found is the active one until it goes through.
BarrierInv ==
    /\ \A r \in Runtimes : nextSeq[r] > 0 => r \in locks
    /\ \A r \in Runtimes : Entered(r) # {} =>
          /\ ~Fresh(r)
          /\ IsActive(r) => r \in locks
    /\ \A s \in Sessions : task[s].at \in {"begin", "end"} /\ task[s].seq > 0
          => task[s].lock = active[s]

\* Behind the refinement: events count from one, and what a connection brought
\* and was told is lost is of the runtime that is active.
FeedInv ==
    /\ \A t \in Threads : task[t].at \in {"reduce", "broadcast"} => task[t].seq > 0
    /\ \A c \in Clients, r \in Runtimes :
          /\ \A n \in Sent(c, r) : n > 0
          /\ IsActive(r) => resume[c][r] <= nextSeq[r] /\ gap[c][r] <= nextSeq[r]
          /\ Fresh(r) => resume[c][r] = 0 /\ gap[c][r] = 0

-----------------------------------------------------------------------------
(* The hub implements EventFeed, for the runtimes that have a journal. *)

Journaled == Runtimes \ Terminals

Live == {r \in Journaled : IsActive(r)}

Numbered == [r \in Journaled |-> nextSeq[r]]

Taken == [r \in Journaled |-> IF r \in Live THEN reduced[r] ELSE 0]

Heard == [c \in Clients |-> [r \in Journaled |->
             IF r \in Live /\ c \in receiving THEN Accounted(c, r) ELSE {}]]

Feed == INSTANCE EventFeed WITH
    Runtimes <- Journaled,
    running  <- Live,
    count    <- Numbered,
    taken    <- Taken,
    joined   <- receiving,
    heard    <- Heard

\* Though the mutex is free between numbering, reducing and sending, connections
\* come and go meanwhile and runtimes are replaced, the events of a runtime come
\* one at a time, and nobody who is connected misses one without being told.
FeedSpec == Feed!Spec

=============================================================================
