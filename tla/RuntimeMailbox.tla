---------------------------- MODULE RuntimeMailbox ----------------------------
(***************************************************************************)
(* The daemon's request dispatcher and the worker thread that serves the   *)
(* commands of one session's runtime (crates/shidou-core/src/server.rs).   *)
(*                                                                         *)
(* A command goes to the mailbox registered for its session, or to a new   *)
(* one with a new worker.  A worker with no active runtime retires as soon *)
(* as its mailbox is empty, so that workers come and go while commands are *)
(* dispatched from the threads of several connections.  The hub's map of   *)
(* active runtimes and the backend's map of provider drivers (or of        *)
(* terminals) are what the commands change; EventHub has the hub in full.  *)
(***************************************************************************)
EXTENDS Naturals, Sequences

CONSTANTS
    Sessions,       \* sessions: tasks, and the terminals of the web client
    Terminals,      \* the sessions that are terminals
    Runtimes,       \* runtime ids
    None,           \* no runtime
    Nil,            \* the nil runtime id, of a command about no runtime
    Ids,            \* request ids; the nil id of a notification is 0
    MaxRequests,    \* bound: commands dispatched
    CacheLimit,     \* MAX_CACHED_RESPONSES
    Kinds,          \* the commands dispatched in a run
    WorkersMayDie   \* whether a command may kill its worker thread

AllKinds == {"start", "close", "remove", "attach", "drive", "edit", "rewind"}

ASSUME MailboxAssumption ==
    /\ Terminals \subseteq Sessions
    /\ {None, Nil} \cap Runtimes = {} /\ None # Nil
    /\ Ids \subseteq Nat \ {0}
    /\ MaxRequests \in Nat
    /\ CacheLimit \in Nat \ {0}
    /\ Kinds \subseteq AllKinds
    /\ WorkersMayDie \in BOOLEAN

VARIABLES
    dispatched,     \* commands dispatched so far; a command has its number
    boxes,          \* mailboxes created so far; a mailbox has its number
    mailbox,        \* runtime_mailboxes: the registered mailbox, or 0
    queue,          \* the channel of each mailbox
    worker,         \* the worker of each mailbox
    active,         \* the hub's active_runtimes
    driver,         \* the backend's sessions and terminals: live runtimes
    responses,      \* the hub's cache of responses, by request id
    used,           \* runtime ids a Start has used
    answered,       \* numbers of the commands whose response was sent
    executed        \* history: the last command executed for each session

calls    == <<dispatched, answered>>
registry == <<boxes, mailbox, queue>>
runtimes == <<active, driver>>
vars == <<calls, registry, worker, runtimes, responses, used, executed>>

Numbers == 1..MaxRequests

\* A command: close, remove, attach and rewind are the commands of those names
\* (a terminal is opened and closed), drive any command for the provider's
\* driver, edit one that needs no runtime (RemoveQueuedMessage, Fork...).
Command == [kind : AllKinds, session : Sessions, run : Runtimes \cup {Nil},
            id : Ids \cup {0}]

Job(n, c) == [n |-> n, cmd |-> c]
NoJob == [n |-> 0, cmd |-> None]

\* `held` is active_runtime_id; what handle_request returned is in `ran` (it was
\* executed), `ok`, and `found` (the runtime AttachSession answers with).
NoWorker == [at |-> "none", held |-> None, job |-> NoJob,
             ran |-> FALSE, ok |-> FALSE, found |-> None]

Init ==
    /\ dispatched = 0
    /\ boxes = 0
    /\ mailbox = [s \in Sessions |-> 0]
    /\ queue = [b \in Numbers |-> <<>>]
    /\ worker = [b \in Numbers |-> NoWorker]
    /\ active = [s \in Sessions |-> None]
    /\ driver = [s \in Sessions |-> None]
    /\ responses = <<>>
    /\ used = {}
    /\ answered = {}
    /\ executed = [s \in Sessions |-> 0]

-----------------------------------------------------------------------------
(* dispatch_runtime, under the registry's mutex *)

\* Its receiver exists: the worker has not ended.
Open(b) == b # 0 /\ worker[b].at \notin {"none", "gone"}

\* Start draws a fresh runtime id; a terminal of the web client is opened again
\* under the id it had.  A client names runtimes it has heard of, or none.
MaySend(c) ==
    /\ c.kind \in Kinds
    /\ c.session \in Terminals => c.kind \in {"start", "close", "drive"}
    /\ IF c.kind = "start" THEN c.run # Nil /\ (c.run \notin used \/ c.session \in Terminals)
                           ELSE c.run \in used \cup {Nil}

Dispatch(c) ==
    /\ dispatched < MaxRequests                                 \* bound
    /\ MaySend(c)
    /\ dispatched' = dispatched + 1
    /\ used' = IF c.kind = "start" THEN used \cup {c.run} ELSE used
    /\ UNCHANGED <<runtimes, executed>>

\* The command joins the session's mailbox.
Join(c) ==
    LET b == mailbox[c.session]
    IN  /\ Dispatch(c)
        /\ Open(b)
        /\ queue' = [queue EXCEPT ![b] = Append(@, Job(dispatched', c))]
        /\ UNCHANGED <<boxes, mailbox, worker, responses, answered>>

\* There is none (a dead one is removed first): a new mailbox and its worker.
Create(c) ==
    /\ Dispatch(c)
    /\ ~Open(mailbox[c.session])
    /\ boxes' = boxes + 1
    /\ mailbox' = [mailbox EXCEPT ![c.session] = boxes']
    /\ queue' = [queue EXCEPT ![boxes'] = <<Job(dispatched', c)>>]
    /\ worker' = [worker EXCEPT ![boxes'] = [NoWorker EXCEPT !.at = "receive"]]
    /\ UNCHANGED <<responses, answered>>

\* cache_response
Remember(id) ==
    IF Len(responses) = CacheLimit THEN Append(Tail(responses), id)
                                   ELSE Append(responses, id)

IsCached(id) == \E i \in DOMAIN responses : responses[i] = id

\* The thread cannot be started: send_dispatch_error caches and answers.
Refuse(c) ==
    /\ Dispatch(c)
    /\ ~Open(mailbox[c.session])
    /\ mailbox' = [mailbox EXCEPT ![c.session] = 0]
    /\ IF c.id = 0
       THEN UNCHANGED <<responses, answered>>
       ELSE responses' = Remember(c.id) /\ answered' = answered \cup {dispatched'}
    /\ UNCHANGED <<boxes, queue, worker>>

-----------------------------------------------------------------------------
(* run_runtime_mailbox and handle_request, on the worker's thread *)

Cmd(b) == worker[b].job.cmd
Session(b) == Cmd(b).session
Starts(b) == Cmd(b).kind = "start"

Go(b, step) == [worker EXCEPT ![b].at = step]

\* mutant: the command taken stays in the channel
PeekFirst(b) ==
    /\ worker' = [worker EXCEPT ![b].at = "handle", ![b].job = Head(queue[b])]
    /\ queue' = queue

TakeFirst(b) ==
    /\ worker' = [worker EXCEPT ![b].at = "handle", ![b].job = Head(queue[b])]
    /\ queue' = [queue EXCEPT ![b] = Tail(@)]

Receive(b) ==
    /\ worker[b].at = "receive"
    /\ queue[b] # <<>>
    /\ TakeFirst(b)
    /\ UNCHANGED <<calls, boxes, mailbox, runtimes, responses, used, executed>>

\* A response with this request id is in the cache: nothing is executed.
AnswerAgain(b) ==
    /\ worker[b].at = "handle"
    /\ Cmd(b).id # 0 /\ IsCached(Cmd(b).id)
    /\ worker' = [worker EXCEPT ![b].at = "respond", ![b].ran = FALSE]
    /\ UNCHANGED <<calls, registry, runtimes, responses, used, executed>>

\* hub.begin_runtime precedes the execution of Start and OpenTerminal.
Begin(b) ==
    /\ worker[b].at = "handle"
    /\ ~(Cmd(b).id # 0 /\ IsCached(Cmd(b).id))
    /\ active' = IF Starts(b) THEN [active EXCEPT ![Session(b)] = Cmd(b).run] ELSE active
    /\ worker' = Go(b, "execute")
    /\ UNCHANGED <<calls, registry, driver, responses, used, executed>>

\* backend.handle: whether command c succeeds, and the session's live runtime
\* before (d) and after it.  A Start replaces the old driver before it can fail;
\* a terminal is replaced only by one that opened.
Outcome(c, d, ok, after) ==
    \/ /\ c.kind = "start"
       /\ after = IF ok THEN c.run ELSE IF c.session \in Terminals THEN d ELSE None
    \/ c.kind = "drive" /\ after = d /\ (ok => d = c.run)
    \/ c.kind = "close" /\ d = c.run /\ ok /\ after = None
    \/ /\ c.kind = "close" /\ d # c.run /\ after = d
       /\ ok <=> (c.session \notin Terminals \/ d = None)
    \/ c.kind = "remove" /\ after = IF ok THEN None ELSE d
    \/ c.kind = "attach" /\ after = d /\ ok
    \/ c.kind = "edit" /\ after = d
    \/ c.kind = "rewind" /\ (after = None \/ (after = d /\ ~ok))

Execute(b) ==
    LET c == Cmd(b)
    IN  /\ worker[b].at = "execute"
        /\ \E ok \in BOOLEAN, after \in Runtimes \cup {None} :
              /\ Outcome(c, driver[c.session], ok, after)
              /\ driver' = [driver EXCEPT ![c.session] = after]
              /\ worker' = [worker EXCEPT ![b].ran = TRUE, ![b].ok = ok,
                               ![b].found = IF c.kind = "attach" THEN after ELSE None,
                               ![b].at = IF Starts(b) /\ ~ok THEN "end" ELSE "respond"]
        /\ responses' = IF c.id = 0 THEN responses ELSE Remember(c.id)
        /\ executed' = [executed EXCEPT ![c.session] = worker[b].job.n]
        /\ UNCHANGED <<calls, registry, active, used>>

\* hub.end_runtime: only if the runtime is the active one, or for any.
EndRuntime(s, r) ==
    active' = IF r = None \/ active[s] = r THEN [active EXCEPT ![s] = None] ELSE active

EndFailedStart(b) ==
    /\ worker[b].at = "end"
    /\ EndRuntime(Session(b), Cmd(b).run)
    /\ worker' = Go(b, "respond")
    /\ UNCHANGED <<calls, registry, driver, responses, used, executed>>

\* mutant: a response found in the cache is not sent
RespondOnce(b) ==
    /\ worker[b].at = "respond"
    /\ answered' = IF Cmd(b).id # 0 /\ worker[b].ran THEN answered \cup {worker[b].job.n}
                                                     ELSE answered
    /\ worker' = Go(b, "settle")
    /\ UNCHANGED <<dispatched, registry, runtimes, responses, used, executed>>

Respond(b) ==
    /\ worker[b].at = "respond"
    /\ answered' = IF Cmd(b).id = 0 THEN answered ELSE answered \cup {worker[b].job.n}
    /\ worker' = Go(b, "settle")
    /\ UNCHANGED <<dispatched, registry, runtimes, responses, used, executed>>

\* The worker's view of the session's runtime after an executed command.
\* Recovery: a command other than those below succeeded with none known.
Recovered(b) == IF worker[b].ok THEN Cmd(b).run ELSE None

\* mutant: a close of any runtime is taken for the session's
ClosedAny(b) == Cmd(b).kind \in {"close", "remove"} /\ worker[b].ok

Closed(b) ==
    /\ Cmd(b).kind \in {"close", "remove"}
    /\ Cmd(b).kind = "remove" \/ worker[b].held = Cmd(b).run
    /\ worker[b].ok

HeldAfter(b) ==
    LET w == worker[b]
        c == Cmd(b)
    IN  CASE ~w.ran -> w.held
          [] w.ran /\ c.kind = "start" -> IF w.ok THEN c.run ELSE None
          [] w.ran /\ c.kind = "attach" -> IF w.found # None THEN w.found ELSE w.held
          [] w.ran /\ c.kind \in {"close", "remove"} -> IF Closed(b) THEN None ELSE w.held
          [] w.ran /\ c.kind \in {"drive", "edit", "rewind"} ->
                IF w.held = None THEN Recovered(b) ELSE w.held

Settle(b) ==
    /\ worker[b].at = "settle"
    /\ IF worker[b].ran /\ Closed(b)
       THEN EndRuntime(Session(b), IF Cmd(b).kind = "remove" THEN None ELSE Cmd(b).run)
       ELSE active' = active
    /\ worker' = [worker EXCEPT ![b] =
                     [NoWorker EXCEPT !.held = HeldAfter(b),
                         !.at = IF HeldAfter(b) = None THEN "retire" ELSE "receive"]]
    /\ UNCHANGED <<calls, registry, driver, responses, used, executed>>

\* take_queued_request_or_retire, under the registry's mutex.
TakeQueued(b) ==
    /\ worker[b].at = "retire"
    /\ queue[b] # <<>>
    /\ TakeFirst(b)
    /\ UNCHANGED <<calls, boxes, mailbox, runtimes, responses, used, executed>>

Unregister(b) ==
    mailbox' = [s \in Sessions |-> IF mailbox[s] = b THEN 0 ELSE mailbox[s]]

\* mutant: what arrived since the last command is not looked for
RetireEarly(b) ==
    /\ worker[b].at = "retire"
    /\ Unregister(b)
    /\ worker' = [worker EXCEPT ![b] = [NoWorker EXCEPT !.at = "gone"]]
    /\ UNCHANGED <<calls, boxes, queue, runtimes, responses, used, executed>>

Retire(b) ==
    /\ worker[b].at = "retire"
    /\ queue[b] = <<>>
    /\ Unregister(b)
    /\ worker' = [worker EXCEPT ![b] = [NoWorker EXCEPT !.at = "gone"]]
    /\ UNCHANGED <<calls, boxes, queue, runtimes, responses, used, executed>>

\* A panic in backend.handle ends the thread and drops the receiver with what is
\* queued; the mailbox stays registered.  The command had its effect, or not.
Die(b) ==
    /\ WorkersMayDie
    /\ worker[b].at = "execute"
    /\ \E ok \in BOOLEAN, after \in Runtimes \cup {None} :
          /\ Outcome(Cmd(b), driver[Session(b)], ok, after) \/ after = driver[Session(b)]
          /\ driver' = [driver EXCEPT ![Session(b)] = after]
    /\ worker' = Go(b, "gone")
    /\ queue' = [queue EXCEPT ![b] = <<>>]
    /\ UNCHANGED <<calls, boxes, mailbox, active, responses, used, executed>>

\* RemoveProject, served on a thread of its own, drops the drivers of the
\* project's sessions.
RemoveProject(s) ==
    /\ s \notin Terminals
    /\ driver[s] # None
    /\ driver' = [driver EXCEPT ![s] = None]
    /\ UNCHANGED <<calls, registry, worker, active, responses, used, executed>>

-----------------------------------------------------------------------------
Work(b) ==
    \/ Receive(b) \/ AnswerAgain(b) \/ Begin(b) \/ Execute(b) \/ EndFailedStart(b)
    \/ Respond(b) \/ Settle(b) \/ TakeQueued(b) \/ Retire(b)

Next ==
    \/ \E c \in Command : Join(c) \/ Create(c) \/ Refuse(c)
    \/ \E b \in Numbers : Work(b) \/ Die(b)
    \/ \E s \in Sessions : RemoveProject(s)

Spec == Init /\ [][Next]_vars

\* A worker thread goes on while it has something to do; recv wakes up.
FairSpec == Spec /\ \A b \in Numbers : WF_vars(Work(b))

-----------------------------------------------------------------------------
(* Properties *)

Steps == {"none", "receive", "handle", "execute", "end", "respond", "settle",
          "retire", "gone"}

Jobs == [n : Numbers, cmd : Command]
Workers == [at : Steps, held : Runtimes \cup {None, Nil}, job : Jobs \cup {NoJob},
            ran : BOOLEAN, ok : BOOLEAN, found : Runtimes \cup {None}]

\* The values the dispatcher's state ranges over; the cache is bounded.
TypeOK ==
    /\ dispatched \in 0..MaxRequests
    /\ boxes \in 0..dispatched
    /\ mailbox \in [Sessions -> 0..boxes]
    /\ queue \in [Numbers -> Seq(Jobs)]
    /\ worker \in [Numbers -> Workers]
    /\ active \in [Sessions -> Runtimes \cup {None}]
    /\ driver \in [Sessions -> Runtimes \cup {None}]
    /\ responses \in Seq(Ids) /\ Len(responses) <= CacheLimit
    /\ used \subseteq Runtimes
    /\ answered \subseteq Numbers
    /\ executed \in [Sessions -> 0..MaxRequests]

Serving(b) == worker[b].at \in {"handle", "execute", "end", "respond", "settle"}

\* take_queued_request_or_retire unregisters under the lock dispatchers send
\* under: no command is in a mailbox whose worker has retired or is about to
\* leave without it, and no two workers serve one session.
NothingStranded ==
    \A b \in Numbers :
        /\ queue[b] # <<>> => Open(b)
        /\ Open(b) => \E s \in Sessions : mailbox[s] = b

OneWorkerPerSession ==
    \A b, e \in Numbers :
        Serving(b) /\ Serving(e) /\ Session(b) = Session(e) => b = e

\* A session's commands are executed in the order they were dispatched, across
\* the workers that succeed each other.
InOrder ==
    [][\A s \in Sessions : executed'[s] # executed[s] => executed'[s] > executed[s]]_vars

\* The worker ended in the middle of a command.
Died(b) == worker[b].at = "gone" /\ worker[b].job # NoJob

\* A driver the backend keeps is heard: once no command is being served, the
\* hub delivers its events, and the session's worker stays for it; unless a
\* worker of the session died.
DriverIsSupervised ==
    \A s \in Sessions \ Terminals : driver[s] # None =>
        \/ \E b \in Numbers : Serving(b) /\ Session(b) = s
        \/ \E b \in Numbers : Died(b) /\ Session(b) = s
        \/ /\ active[s] = driver[s]
           /\ mailbox[s] # 0 /\ worker[mailbox[s]].held = driver[s]

\* A command that a worker took and that asks for a response is answered, if the
\* worker survives it.
Answered ==
    \A n \in Numbers :
        (\E b \in Numbers : worker[b].at = "handle" /\ worker[b].job.n = n /\ Cmd(b).id # 0)
            ~> \/ n \in answered
               \/ \E b \in Numbers : Died(b) /\ worker[b].job.n = n

\* A command in a mailbox is taken by its worker in the end, if no worker died.
Taken ==
    \A n \in Numbers :
        (\E b \in Numbers : \E i \in DOMAIN queue[b] : queue[b][i].n = n)
            ~> \E b \in Numbers : worker[b].job.n = n \/ Died(b)

-----------------------------------------------------------------------------
(* The dispatcher implements an actor per session. *)

NumbersOf(jobs) == [i \in DOMAIN jobs |-> jobs[i].n]

WaitingFor(s) == IF mailbox[s] = 0 THEN <<>> ELSE NumbersOf(queue[mailbox[s]])

BeingServed(s) ==
    IF mailbox[s] # 0 /\ Serving(mailbox[s]) THEN worker[mailbox[s]].job.n ELSE 0

Service == INSTANCE RequestService WITH
    accepted <- dispatched,
    waiting  <- [s \in Sessions |-> WaitingFor(s)],
    serving  <- [s \in Sessions |-> BeingServed(s)]

\* Commands of a session are served one at a time and first come first served,
\* though the worker and the mailbox are replaced again and again.
ServiceSpec == Service!Spec

=============================================================================
