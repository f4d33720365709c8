------------------------ MODULE RuntimeMailboxProofs ------------------------
(***************************************************************************)
(* Theorems about RuntimeMailbox, for any sessions, runtimes, request ids  *)
(* and bounds: its types, that no command is stranded, that a session has  *)
(* one worker, that its commands are executed in order, that the           *)
(* dispatcher implements RequestService, and that drivers are supervised.  *)
(***************************************************************************)
EXTENDS RuntimeMailbox, SequenceTheorems, TLAPS

-----------------------------------------------------------------------------
(* The inductive invariant *)

Named(j) == j \in Jobs /\ (j.cmd.kind = "start" => j.cmd.run # Nil)

\* Queued jobs and the one being served are commands; a Start names a runtime.
JobsAreNamed ==
    \A b \in Numbers :
        /\ \A i \in DOMAIN queue[b] : Named(queue[b][i])
        /\ Serving(b) => Named(worker[b].job)

\* A mailbox that was not created yet is blank.
FreshIsBlank ==
    \A b \in Numbers : b > boxes => worker[b] = NoWorker /\ queue[b] = <<>>

\* A mailbox is registered for one session.
OneSessionEach ==
    \A s, t \in Sessions : mailbox[s] # 0 /\ mailbox[s] = mailbox[t] => s = t

\* What is in a session's mailbox, and what its worker serves, is the session's.
MailIsDelivered ==
    \A s \in Sessions : \A b \in Numbers : mailbox[s] = b =>
        /\ \A i \in DOMAIN queue[b] : queue[b][i].cmd.session = s
        /\ Serving(b) => Session(b) = s

IInv ==
    /\ TypeOK
    /\ JobsAreNamed
    /\ FreshIsBlank
    /\ OneSessionEach
    /\ MailIsDelivered
    /\ NothingStranded

LEMMA InitIInv == ASSUME MailboxAssumption, Init PROVE IInv
<1>1. TypeOK
  BY DEF MailboxAssumption, Init, TypeOK, Workers, NoWorker, NoJob, Numbers, Steps
<1>2. \A b \in Numbers : queue[b] = <<>> /\ worker[b] = NoWorker /\ ~Serving(b) /\ ~Open(b)
  BY DEF Init, Numbers, NoWorker, Serving, Open
<1>3. JobsAreNamed /\ FreshIsBlank /\ NothingStranded
  BY <1>2 DEF JobsAreNamed, FreshIsBlank, NothingStranded
<1>4. OneSessionEach /\ MailIsDelivered
  BY DEF Init, OneSessionEach, MailIsDelivered, Numbers
<1>5. QED
  BY <1>1, <1>3, <1>4 DEF IInv

-----------------------------------------------------------------------------
(* Types *)

\* The cache of responses keeps its bound.
LEMMA CacheIsBounded ==
    ASSUME MailboxAssumption, TypeOK, NEW id \in Ids
    PROVE  Remember(id) \in Seq(Ids) /\ Len(Remember(id)) <= CacheLimit
  BY DEF MailboxAssumption, TypeOK, Remember

\* The worker holds a runtime, the nil id or nothing.
LEMMA HeldIsTyped ==
    ASSUME TypeOK, NEW b \in Numbers, worker[b].job \in Jobs
    PROVE  HeldAfter(b) \in Runtimes \cup {None, Nil}
<1> DEFINE w == worker[b]
<1>1. /\ w.held \in Runtimes \cup {None, Nil}
      /\ w.found \in Runtimes \cup {None}
      /\ w.job.cmd \in Command /\ w.ran \in BOOLEAN
  BY DEF TypeOK, Workers, Jobs
<1>2. w.job.cmd.run \in Runtimes \cup {Nil} /\ w.job.cmd.kind \in AllKinds
  BY <1>1 DEF Command
<1>3. Recovered(b) \in Runtimes \cup {None, Nil}
  BY <1>2 DEF Recovered, Cmd
<1>4. CASE ~w.ran
  BY <1>1, <1>4 DEF HeldAfter
<1>5. CASE w.ran
  BY <1>1, <1>2, <1>3, <1>5 DEF HeldAfter, Cmd, AllKinds
<1>6. QED
  BY <1>4, <1>5

\* A worker's step that changes the fields of its record within their types.
LEMMA WorkerKeepsType ==
    ASSUME TypeOK, NEW b \in Numbers, NEW w \in Workers,
           worker' = [worker EXCEPT ![b] = w]
    PROVE  worker' \in [Numbers -> Workers]
  BY DEF TypeOK

LEMMA DispatchTypes ==
    ASSUME MailboxAssumption, IInv, NEW c \in Command, Join(c) \/ Create(c) \/ Refuse(c)
    PROVE  TypeOK'
<1> USE DEF TypeOK, IInv
<1>1. /\ dispatched' \in 0..MaxRequests /\ dispatched' = dispatched + 1
      /\ dispatched' \in Numbers /\ used' \subseteq Runtimes
      /\ UNCHANGED <<runtimes, executed>>
  BY DEF Join, Create, Refuse, Dispatch, MaySend, Numbers, MailboxAssumption, Command
<1>2. active' \in [Sessions -> Runtimes \cup {None}] /\ driver' \in [Sessions -> Runtimes \cup {None}]
        /\ executed' \in [Sessions -> 0..MaxRequests]
  BY <1>1 DEF runtimes
<1>3. Job(dispatched', c) \in Jobs
  BY <1>1 DEF Job, Jobs
<1>4. CASE Join(c)
  <2>1. UNCHANGED <<boxes, mailbox, worker, responses, answered>>
    BY <1>4 DEF Join
  <2> DEFINE k == mailbox[c.session]
               j == Job(dispatched', c)
  <2>4. k \in Numbers
    BY <1>4, <1>1 DEF Join, Open, Numbers, MailboxAssumption, Command
  <2>5. queue' = [queue EXCEPT ![k] = Append(queue[k], j)]
    BY <1>4 DEF Join
  <2>2. queue' \in [Numbers -> Seq(Jobs)]
    <3>1. Append(queue[k], j) \in Seq(Jobs)
      BY <1>3, <2>4
    <3> HIDE DEF k, j
    <3>2. QED
      BY <3>1, <2>5
  <2>3. boxes' \in 0..dispatched'
    BY <2>1, <1>1
  <2>6. QED
    BY <1>1, <1>2, <2>1, <2>2, <2>3
<1>5. CASE Create(c)
  <2>1. UNCHANGED <<responses, answered>> /\ boxes' = boxes + 1
    BY <1>5 DEF Create
  <2>2. boxes' \in 0..dispatched' /\ boxes' \in Numbers
    BY <2>1, <1>1 DEF Numbers
  <2>3. mailbox' \in [Sessions -> 0..boxes']
    <3>1. mailbox \in [Sessions -> 0..boxes']
      BY <2>1, <2>2
    <3>2. mailbox' = [mailbox EXCEPT ![c.session] = boxes'] /\ boxes' \in 0..boxes'
      BY <1>5, <2>2 DEF Create, Numbers
    <3>3. QED
      BY <3>1, <3>2
  <2>4. queue' \in [Numbers -> Seq(Jobs)]
    <3>1. queue' = [queue EXCEPT ![boxes'] = <<Job(dispatched', c)>>]
      BY <1>5 DEF Create
    <3>2. <<Job(dispatched', c)>> \in Seq(Jobs)
      BY <1>3
    <3>3. QED
      BY <3>1, <3>2
  <2>5. [NoWorker EXCEPT !.at = "receive"] \in Workers
    BY DEF NoWorker, Workers, Steps
  <2>6. worker' \in [Numbers -> Workers]
    BY <2>5, <1>5 DEF Create
  <2>7. QED
    BY <1>1, <1>2, <2>1, <2>2, <2>3, <2>4, <2>6
<1>6. CASE Refuse(c)
  <2>1. UNCHANGED <<boxes, queue, worker>>
    BY <1>6 DEF Refuse
  <2>2. mailbox' \in [Sessions -> 0..boxes']
    <3>1. mailbox' = [mailbox EXCEPT ![c.session] = 0] /\ boxes' = boxes /\ 0 \in 0..boxes
      BY <2>1, <1>1, <1>6 DEF Refuse
    <3>2. QED
      BY <3>1
  <2>3. CASE c.id = 0
    <3>1. UNCHANGED <<responses, answered>>
      BY <1>6, <2>3 DEF Refuse
    <3>2. boxes' \in 0..dispatched'
      BY <1>1, <2>1
    <3>3. QED
      BY <1>1, <1>2, <2>1, <2>2, <3>1, <3>2
  <2>4. CASE c.id # 0
    <3>1. c.id \in Ids /\ responses' = Remember(c.id) /\ answered' = answered \cup {dispatched'}
      BY <2>4, <1>6 DEF Refuse, Command
    <3>2. responses' \in Seq(Ids) /\ Len(responses') <= CacheLimit
      BY <3>1, CacheIsBounded
    <3>3. answered' \subseteq Numbers
      BY <3>1, <1>1
    <3>4. boxes' \in 0..dispatched'
      BY <1>1, <2>1
    <3>5. QED
      BY <1>1, <1>2, <2>1, <2>2, <3>2, <3>3, <3>4
  <2>5. QED
    BY <2>3, <2>4
<1>7. QED
  BY <1>4, <1>5, <1>6

LEMMA WorkTypes ==
    ASSUME MailboxAssumption, IInv, NEW b \in Numbers, Work(b)
    PROVE  TypeOK'
<1> USE DEF TypeOK, IInv
<1>0. /\ dispatched' = dispatched /\ boxes' = boxes /\ used' = used
      /\ worker[b] \in Workers /\ queue[b] \in Seq(Jobs)
  BY DEF Work, Receive, AnswerAgain, Begin, Execute, EndFailedStart, Respond, Settle,
         TakeQueued, Retire, calls, registry
<1>1. ASSUME Receive(b) \/ TakeQueued(b) PROVE TypeOK'
  <2>1. UNCHANGED <<calls, boxes, mailbox, runtimes, responses, used, executed>> /\ TakeFirst(b)
          /\ queue[b] # <<>>
    BY <1>1 DEF Receive, TakeQueued
  <2>2. Head(queue[b]) \in Jobs /\ Tail(queue[b]) \in Seq(Jobs)
    BY <1>0, <2>1
  <2>3. [worker[b] EXCEPT !.at = "handle", !.job = Head(queue[b])] \in Workers
    BY <1>0, <2>2 DEF Workers, Steps
  <2>4. worker' = [worker EXCEPT ![b] = [worker[b] EXCEPT !.at = "handle", !.job = Head(queue[b])]]
    BY <2>1 DEF TakeFirst
  <2>5. worker' \in [Numbers -> Workers]
    BY <2>3, <2>4
  <2>6. queue' \in [Numbers -> Seq(Jobs)]
    BY <2>1, <2>2 DEF TakeFirst
  <2>7. QED
    BY <2>1, <2>5, <2>6 DEF calls, runtimes
<1>2. ASSUME AnswerAgain(b) PROVE TypeOK'
  <2>1. [worker[b] EXCEPT !.at = "respond", !.ran = FALSE] \in Workers
    BY <1>0 DEF Workers, Steps
  <2>2. worker' \in [Numbers -> Workers]
    BY <1>2, <2>1 DEF AnswerAgain
  <2>3. QED
    BY <1>2, <2>2 DEF AnswerAgain, calls, registry, runtimes
<1>3. ASSUME Begin(b) PROVE TypeOK'
  <2>1. [worker[b] EXCEPT !.at = "execute"] \in Workers
    BY <1>0 DEF Workers, Steps
  <2>2. worker' \in [Numbers -> Workers]
    BY <1>3, <2>1 DEF Begin, Go
  <2>3. Named(worker[b].job)
    BY <1>3 DEF Begin, JobsAreNamed, Serving
  <2>4. Starts(b) => Cmd(b).run \in Runtimes
    BY <2>3 DEF Starts, Cmd, Named, Jobs, Command
  <2>5. active' \in [Sessions -> Runtimes \cup {None}]
    BY <1>3, <2>4 DEF Begin
  <2>6. QED
    BY <1>3, <2>2, <2>5 DEF Begin, calls, registry
<1>4. ASSUME Execute(b) PROVE TypeOK'
  <2>1. Named(worker[b].job) /\ Cmd(b) \in Command /\ worker[b].job.n \in Numbers
    BY <1>4 DEF Execute, JobsAreNamed, Serving, Named, Cmd, Jobs
  <2>2. PICK ok \in BOOLEAN, after \in Runtimes \cup {None} :
          /\ driver' = [driver EXCEPT ![Cmd(b).session] = after]
          /\ worker' = [worker EXCEPT ![b].ran = TRUE, ![b].ok = ok,
                               ![b].found = IF Cmd(b).kind = "attach" THEN after ELSE None,
                               ![b].at = IF Starts(b) /\ ~ok THEN "end" ELSE "respond"]
    BY <1>4, Zenon DEF Execute
  <2>3. [worker[b] EXCEPT !.ran = TRUE, !.ok = ok,
             !.found = IF Cmd(b).kind = "attach" THEN after ELSE None,
             !.at = IF Starts(b) /\ ~ok THEN "end" ELSE "respond"] \in Workers
    BY <1>0, <2>2 DEF Workers, Steps
  <2>4. worker' \in [Numbers -> Workers]
    BY <2>2, <2>3
  <2>5. driver' \in [Sessions -> Runtimes \cup {None}]
    BY <2>2
  <2>6. executed' \in [Sessions -> 0..MaxRequests]
    <3>1. executed' = [executed EXCEPT ![Cmd(b).session] = worker[b].job.n]
      BY <1>4, Zenon DEF Execute
    <3>2. worker[b].job.n \in 0..MaxRequests
      BY <2>1 DEF Numbers
    <3>3. QED
      BY <3>1, <3>2
  <2>7. responses' \in Seq(Ids) /\ Len(responses') <= CacheLimit
    <3>1. CASE Cmd(b).id = 0
      BY <1>4, <3>1 DEF Execute
    <3>2. CASE Cmd(b).id # 0
      <4>1. Cmd(b).id \in Ids
        BY <2>1, <3>2 DEF Command
      <4>2. QED
        BY <1>4, <3>2, <4>1, CacheIsBounded DEF Execute
    <3>3. QED
      BY <3>1, <3>2
  <2>8. QED
    BY <1>0, <1>4, <2>4, <2>5, <2>6, <2>7 DEF Execute, calls, registry
<1>5. ASSUME EndFailedStart(b) PROVE TypeOK'
  <2>1. [worker[b] EXCEPT !.at = "respond"] \in Workers
    BY <1>0 DEF Workers, Steps
  <2>2. worker' \in [Numbers -> Workers]
    BY <1>5, <2>1 DEF EndFailedStart, Go
  <2>3. active' \in [Sessions -> Runtimes \cup {None}]
    BY <1>5 DEF EndFailedStart, EndRuntime
  <2>4. QED
    BY <1>5, <2>2, <2>3 DEF EndFailedStart, calls, registry
<1>6. ASSUME Respond(b) PROVE TypeOK'
  <2>1. [worker[b] EXCEPT !.at = "settle"] \in Workers
    BY <1>0 DEF Workers, Steps
  <2>2. worker' \in [Numbers -> Workers]
    BY <1>6, <2>1 DEF Respond, Go
  <2>3. worker[b].job.n \in Numbers
    BY <1>6 DEF Respond, JobsAreNamed, Serving, Named, Jobs
  <2>4. answered' \subseteq Numbers
    BY <1>6, <2>3 DEF Respond
  <2>5. QED
    BY <1>6, <2>2, <2>4 DEF Respond, registry, runtimes
<1>7. ASSUME Settle(b) PROVE TypeOK'
  <2>1. worker[b].job \in Jobs
    BY <1>7 DEF Settle, JobsAreNamed, Serving, Named
  <2>2. HeldAfter(b) \in Runtimes \cup {None, Nil}
    BY <2>1, HeldIsTyped
  <2>3. [NoWorker EXCEPT !.held = HeldAfter(b),
             !.at = IF HeldAfter(b) = None THEN "retire" ELSE "receive"] \in Workers
    BY <2>2 DEF NoWorker, Workers, Steps
  <2>4. worker' \in [Numbers -> Workers]
    BY <1>7, <2>3 DEF Settle
  <2>5. active' \in [Sessions -> Runtimes \cup {None}]
    BY <1>7 DEF Settle, EndRuntime
  <2>6. QED
    BY <1>7, <2>4, <2>5 DEF Settle, calls, registry
<1>8. ASSUME Retire(b) PROVE TypeOK'
  <2>1. [NoWorker EXCEPT !.at = "gone"] \in Workers
    BY DEF NoWorker, Workers, Steps
  <2>2. worker' \in [Numbers -> Workers]
    BY <1>8, <2>1 DEF Retire
  <2>3. mailbox' \in [Sessions -> 0..boxes']
    BY <1>0, <1>8 DEF Retire, Unregister
  <2>4. QED
    BY <1>8, <2>2, <2>3 DEF Retire, calls, runtimes
<1>9. QED
  BY <1>1, <1>2, <1>3, <1>4, <1>5, <1>6, <1>7, <1>8 DEF Work

LEMMA OtherTypes ==
    ASSUME MailboxAssumption, IInv,
           (\E b \in Numbers : Die(b)) \/ (\E s \in Sessions : RemoveProject(s))
    PROVE  TypeOK'
<1> USE DEF TypeOK, IInv
<1>1. ASSUME NEW b \in Numbers, Die(b) PROVE TypeOK'
  <2>1. [worker[b] EXCEPT !.at = "gone"] \in Workers
    BY DEF Workers, Steps
  <2>2. worker' \in [Numbers -> Workers]
    BY <1>1, <2>1 DEF Die, Go
  <2>3. driver' \in [Sessions -> Runtimes \cup {None}]
    BY <1>1 DEF Die
  <2>4. queue' \in [Numbers -> Seq(Jobs)]
    BY <1>1 DEF Die
  <2>5. QED
    BY <1>1, <2>2, <2>3, <2>4 DEF Die, calls
<1>2. ASSUME NEW s \in Sessions, RemoveProject(s) PROVE TypeOK'
  BY <1>2 DEF RemoveProject, calls, registry
<1>3. QED
  BY <1>1, <1>2

-----------------------------------------------------------------------------
(* The mailboxes and their workers *)

Mail ==
    /\ JobsAreNamed
    /\ FreshIsBlank
    /\ OneSessionEach
    /\ MailIsDelivered
    /\ NothingStranded

\* A step that touches no mailbox, starts and ends no worker and gives none a
\* command.
LEMMA SameMail ==
    ASSUME IInv, UNCHANGED registry,
           \A e \in Numbers : Serving(e)' => Serving(e) /\ worker'[e].job = worker[e].job,
           \A e \in Numbers : Open(e)' <=> Open(e),
           \A e \in Numbers : e > boxes => worker'[e] = worker[e]
    PROVE  Mail'
<1> USE DEF IInv, registry
<1>1. JobsAreNamed'
  BY DEF JobsAreNamed, Named
<1>2. FreshIsBlank'
  BY DEF FreshIsBlank
<1>3. OneSessionEach'
  BY DEF OneSessionEach
<1>4. MailIsDelivered'
  <2>1. ASSUME NEW t \in Sessions, NEW e \in Numbers, mailbox'[t] = e
        PROVE  /\ \A i \in DOMAIN queue'[e] : queue'[e][i].cmd.session = t
               /\ Serving(e)' => worker'[e].job.cmd.session = t
    BY <2>1 DEF MailIsDelivered, Session, Cmd
  <2>2. QED
    BY <2>1 DEF MailIsDelivered, Session, Cmd
<1>5. NothingStranded'
  <2>1. ASSUME NEW e \in Numbers PROVE (queue'[e] # <<>> => Open(e)')
    BY DEF NothingStranded
  <2>2. ASSUME NEW e \in Numbers, Open(e)' PROVE \E t \in Sessions : mailbox'[t] = e
    BY <2>2 DEF NothingStranded
  <2>3. QED
    BY <2>1, <2>2 DEF NothingStranded
<1>6. QED
  BY <1>1, <1>2, <1>3, <1>4, <1>5 DEF Mail

\* The steps of a worker between taking a command and having settled it.
LEMMA ServingMail ==
    ASSUME IInv, NEW b \in Numbers,
           AnswerAgain(b) \/ Begin(b) \/ Execute(b) \/ EndFailedStart(b) \/ Respond(b) \/ Settle(b)
    PROVE  Mail'
<1> USE DEF IInv
<1>1. /\ worker[b].at \in {"handle", "execute", "end", "respond", "settle"}
      /\ UNCHANGED registry
  BY DEF AnswerAgain, Begin, Execute, EndFailedStart, Respond, Settle
<1>2. worker \in [Numbers -> Workers]
  BY DEF TypeOK
<1>3. /\ worker'[b].at \notin {"none", "gone"}
      /\ worker'[b].at \in {"receive", "retire"} \/ worker'[b].job = worker[b].job
      /\ \A e \in Numbers : e # b => worker'[e] = worker[e]
  <2>1. CASE AnswerAgain(b)
    BY <2>1, <1>2 DEF AnswerAgain, Workers
  <2>2. CASE Begin(b)
    BY <2>2, <1>2 DEF Begin, Go, Workers
  <2>3. CASE Execute(b)
    <3>1. PICK ok \in BOOLEAN, after \in Runtimes \cup {None} :
            worker' = [worker EXCEPT ![b].ran = TRUE, ![b].ok = ok,
                               ![b].found = IF Cmd(b).kind = "attach" THEN after ELSE None,
                               ![b].at = IF Starts(b) /\ ~ok THEN "end" ELSE "respond"]
      BY <2>3, Zenon DEF Execute
    <3>2. QED
      BY <3>1, <1>2 DEF Workers
  <2>4. CASE EndFailedStart(b)
    BY <2>4, <1>2 DEF EndFailedStart, Go, Workers
  <2>5. CASE Respond(b)
    BY <2>5, <1>2 DEF Respond, Go, Workers
  <2>6. CASE Settle(b)
    BY <2>6, <1>2 DEF Settle, NoWorker, Workers
  <2>7. QED
    BY <2>1, <2>2, <2>3, <2>4, <2>5, <2>6
<1>4. \A e \in Numbers : Serving(e)' => Serving(e) /\ worker'[e].job = worker[e].job
  BY <1>1, <1>3 DEF Serving
<1>5. \A e \in Numbers : Open(e)' <=> Open(e)
  BY <1>1, <1>3 DEF Open
<1>6. \A e \in Numbers : e > boxes => worker'[e] = worker[e]
  BY <1>1, <1>3 DEF FreshIsBlank, NoWorker
<1>7. QED
  BY <1>1, <1>4, <1>5, <1>6, SameMail

\* A command is taken from its mailbox.
LEMMA TakeMail ==
    ASSUME IInv, NEW b \in Numbers, Receive(b) \/ TakeQueued(b)
    PROVE  Mail'
<1> USE DEF IInv
<1>1. /\ worker[b].at \in {"receive", "retire"} /\ queue[b] # <<>>
      /\ worker' = [worker EXCEPT ![b].at = "handle", ![b].job = Head(queue[b])]
      /\ queue' = [queue EXCEPT ![b] = Tail(@)]
      /\ boxes' = boxes /\ mailbox' = mailbox
  BY DEF Receive, TakeQueued, TakeFirst
<1>2. queue \in [Numbers -> Seq(Jobs)] /\ worker \in [Numbers -> Workers] /\ queue[b] \in Seq(Jobs)
  BY DEF TypeOK
<1>3. /\ worker'[b].at = "handle" /\ worker'[b].job = Head(queue[b]) /\ queue'[b] = Tail(queue[b])
      /\ \A e \in Numbers : e # b => worker'[e] = worker[e] /\ queue'[e] = queue[e]
  BY <1>1, <1>2 DEF Workers
<1>4. /\ 1 \in DOMAIN queue[b] /\ Head(queue[b]) = queue[b][1]
      /\ \A i \in DOMAIN Tail(queue[b]) :
            i + 1 \in DOMAIN queue[b] /\ Tail(queue[b])[i] = queue[b][i + 1]
  BY <1>1, <1>2
<1>5. JobsAreNamed'
  <2>1. ASSUME NEW e \in Numbers
        PROVE  /\ \A i \in DOMAIN queue'[e] : Named(queue'[e][i])
               /\ Serving(e)' => Named(worker'[e].job)
    <3>1. CASE e = b
      BY <3>1, <1>3, <1>4 DEF JobsAreNamed
    <3>2. CASE e # b
      BY <3>2, <1>3 DEF JobsAreNamed, Serving
    <3>3. QED
      BY <3>1, <3>2
  <2>2. QED
    BY <2>1 DEF JobsAreNamed, Named
<1>6. FreshIsBlank'
  BY <1>1, <1>3 DEF FreshIsBlank
<1>7. OneSessionEach'
  BY <1>1 DEF OneSessionEach
<1>8. MailIsDelivered'
  <2>1. ASSUME NEW t \in Sessions, NEW e \in Numbers, mailbox'[t] = e
        PROVE  /\ \A i \in DOMAIN queue'[e] : queue'[e][i].cmd.session = t
               /\ Serving(e)' => worker'[e].job.cmd.session = t
    <3>1. /\ \A i \in DOMAIN queue[e] : queue[e][i].cmd.session = t
          /\ Serving(e) => worker[e].job.cmd.session = t
      BY <2>1, <1>1 DEF MailIsDelivered, Session, Cmd
    <3>2. CASE e = b
      <4>1. queue[b][1].cmd.session = t
        BY <3>1, <3>2, <1>4
      <4>2. \A i \in DOMAIN Tail(queue[b]) : Tail(queue[b])[i].cmd.session = t
        BY <3>1, <3>2, <1>4
      <4>3. QED
        BY <3>2, <4>1, <4>2, <1>3, <1>4
    <3>3. CASE e # b
      BY <3>1, <3>3, <1>3 DEF Serving
    <3>4. QED
      BY <3>2, <3>3
  <2>2. QED
    BY <2>1 DEF MailIsDelivered, Session, Cmd
<1>9. NothingStranded'
  <2>1. \A e \in Numbers : Open(e)' <=> Open(e)
    BY <1>1, <1>3 DEF Open
  <2>2. Open(b)
    BY <1>1 DEF Open, Numbers
  <2>3. \A e \in Numbers : queue'[e] # <<>> => queue[e] # <<>>
    BY <1>1, <1>3
  <2>4. QED
    BY <1>1, <2>1, <2>2, <2>3 DEF NothingStranded
<1>10. QED
  BY <1>5, <1>6, <1>7, <1>8, <1>9 DEF Mail

\* A worker ends: its mailbox is empty and unregistered, or lost what it held.
LEMMA EndMail ==
    ASSUME IInv, NEW b \in Numbers, Retire(b) \/ Die(b)
    PROVE  Mail'
<1> USE DEF IInv
<1>1. /\ worker[b].at \in {"retire", "execute"} /\ boxes' = boxes
      /\ \/ worker' = [worker EXCEPT ![b] = [NoWorker EXCEPT !.at = "gone"]]
         \/ worker' = [worker EXCEPT ![b].at = "gone"]
      /\ \A t \in Sessions : mailbox'[t] = mailbox[t] \/ (mailbox[t] = b /\ mailbox'[t] = 0)
  BY DEF Retire, Die, Unregister, Go
<1>2. queue \in [Numbers -> Seq(Jobs)] /\ worker \in [Numbers -> Workers]
  BY DEF TypeOK
<1>3. /\ worker'[b].at = "gone" /\ queue'[b] = <<>>
      /\ \A e \in Numbers : e # b => worker'[e] = worker[e] /\ queue'[e] = queue[e]
  BY <1>1, <1>2 DEF Retire, Die, NoWorker, Workers
<1>4. \A e \in Numbers : Serving(e)' => e # b /\ Serving(e) /\ worker'[e].job = worker[e].job
  BY <1>3 DEF Serving
<1>5. JobsAreNamed'
  BY <1>3, <1>4 DEF JobsAreNamed, Named
<1>6. FreshIsBlank'
  <2>1. ~(b > boxes)
    BY <1>1 DEF FreshIsBlank, NoWorker
  <2>2. ASSUME NEW e \in Numbers, e > boxes PROVE e # b
    BY <2>1, <2>2
  <2>3. QED
    BY <2>2, <1>1, <1>3 DEF FreshIsBlank
<1>7. OneSessionEach'
  BY <1>1 DEF OneSessionEach
<1>8. MailIsDelivered'
  <2>1. ASSUME NEW t \in Sessions, NEW e \in Numbers, mailbox'[t] = e
        PROVE  /\ \A i \in DOMAIN queue'[e] : queue'[e][i].cmd.session = t
               /\ Serving(e)' => worker'[e].job.cmd.session = t
    <3>1. mailbox[t] = e
      BY <2>1, <1>1 DEF Numbers
    <3>2. \A i \in DOMAIN queue'[e] : queue'[e][i].cmd.session = t
      BY <3>1, <1>3 DEF MailIsDelivered
    <3>3. ASSUME Serving(e)' PROVE worker'[e].job.cmd.session = t
      BY <3>1, <3>3, <1>4 DEF MailIsDelivered, Session, Cmd
    <3>4. QED
      BY <3>2, <3>3
  <2>2. QED
    BY <2>1 DEF MailIsDelivered, Session, Cmd
<1>9. NothingStranded'
  <2>1. ASSUME NEW e \in Numbers, Open(e)' PROVE \E t \in Sessions : mailbox'[t] = e
    <3>1. e # b /\ Open(e)
      BY <2>1, <1>3 DEF Open
    <3>2. PICK t \in Sessions : mailbox[t] = e
      BY <3>1 DEF NothingStranded
    <3>3. QED
      BY <3>1, <3>2, <1>1
  <2>2. ASSUME NEW e \in Numbers, queue'[e] # <<>> PROVE Open(e)'
    BY <2>2, <1>3 DEF NothingStranded, Open
  <2>3. QED
    BY <2>1, <2>2 DEF NothingStranded
<1>10. QED
  BY <1>5, <1>6, <1>7, <1>8, <1>9 DEF Mail

LEMMA RemoveMail ==
    ASSUME IInv, NEW s \in Sessions, RemoveProject(s)
    PROVE  Mail'
  BY SameMail DEF RemoveProject, Serving, Open

LEMMA JoinMail ==
    ASSUME MailboxAssumption, IInv, NEW c \in Command, Join(c)
    PROVE  Mail'
<1> USE DEF IInv
<1> DEFINE k == mailbox[c.session]
           j == Job(dispatched', c)
<1>1. /\ Open(k) /\ boxes' = boxes /\ mailbox' = mailbox /\ worker' = worker
      /\ queue' = [queue EXCEPT ![k] = Append(queue[k], j)]
      /\ MaySend(c) /\ dispatched' \in Numbers
  BY DEF Join, Dispatch, TypeOK, Numbers, MailboxAssumption
<1>2. c.session \in Sessions /\ k \in Numbers
  BY <1>1 DEF Command, TypeOK, Open, Numbers, MailboxAssumption
<1>3. Named(j) /\ j.cmd.session = c.session
  BY <1>1 DEF Named, Job, Jobs, MaySend
<1>4. queue \in [Numbers -> Seq(Jobs)] /\ queue[k] \in Seq(Jobs)
  BY <1>2 DEF TypeOK
<1> HIDE DEF k, j
<1>5. /\ queue'[k] = Append(queue[k], j)
      /\ \A e \in Numbers : e # k => queue'[e] = queue[e]
  BY <1>1, <1>2, <1>4
<1>6. \A i \in DOMAIN queue'[k] :
          (i \in DOMAIN queue[k] /\ queue'[k][i] = queue[k][i]) \/ queue'[k][i] = j
  BY <1>3, <1>4, <1>5 DEF Named
<1>7. JobsAreNamed'
  <2>1. ASSUME NEW e \in Numbers
        PROVE  /\ \A i \in DOMAIN queue'[e] : Named(queue'[e][i])
               /\ Serving(e)' => Named(worker'[e].job)
    <3>1. \A i \in DOMAIN queue[e] : Named(queue[e][i])
      BY DEF JobsAreNamed
    <3>2. Serving(e)' => Named(worker'[e].job)
      BY <1>1 DEF JobsAreNamed, Serving
    <3>3. \A i \in DOMAIN queue'[e] : Named(queue'[e][i])
      BY <3>1, <1>3, <1>5, <1>6
    <3>4. QED
      BY <3>2, <3>3
  <2>2. QED
    BY <2>1 DEF JobsAreNamed, Named
<1>8. FreshIsBlank'
  <2>1. ~(k > boxes)
    BY <1>1, <1>2 DEF FreshIsBlank, NoWorker, Open
  <2>2. ASSUME NEW e \in Numbers, e > boxes PROVE e # k
    BY <2>1, <2>2
  <2>3. QED
    BY <2>2, <1>1, <1>5 DEF FreshIsBlank
<1>9. OneSessionEach'
  BY <1>1 DEF OneSessionEach
<1>10. MailIsDelivered'
  <2>1. ASSUME NEW t \in Sessions, NEW e \in Numbers, mailbox'[t] = e
        PROVE  /\ \A i \in DOMAIN queue'[e] : queue'[e][i].cmd.session = t
               /\ Serving(e)' => worker'[e].job.cmd.session = t
    <3>1. /\ \A i \in DOMAIN queue[e] : queue[e][i].cmd.session = t
          /\ Serving(e) => worker[e].job.cmd.session = t
      BY <2>1, <1>1 DEF MailIsDelivered, Session, Cmd
    <3>2. e = k => t = c.session
      BY <2>1, <1>1, <1>2 DEF OneSessionEach, k, Numbers
    <3>3. \A i \in DOMAIN queue'[e] : queue'[e][i].cmd.session = t
      BY <3>1, <3>2, <1>3, <1>5, <1>6
    <3>4. Serving(e)' => worker'[e].job.cmd.session = t
      BY <3>1, <1>1 DEF Serving
    <3>5. QED
      BY <3>3, <3>4
  <2>2. QED
    BY <2>1 DEF MailIsDelivered, Session, Cmd
<1>11. NothingStranded'
  <2>1. ASSUME NEW e \in Numbers, queue'[e] # <<>> PROVE Open(e)'
    BY <2>1, <1>1, <1>5 DEF NothingStranded, Open
  <2>2. ASSUME NEW e \in Numbers, Open(e)' PROVE \E t \in Sessions : mailbox'[t] = e
    BY <2>2, <1>1 DEF NothingStranded, Open
  <2>3. QED
    BY <2>1, <2>2 DEF NothingStranded
<1>12. QED
  BY <1>7, <1>8, <1>9, <1>10, <1>11 DEF Mail

LEMMA CreateMail ==
    ASSUME MailboxAssumption, IInv, NEW c \in Command, Create(c)
    PROVE  Mail'
<1> USE DEF IInv
<1> DEFINE k == boxes + 1
           j == Job(dispatched', c)
<1>1. /\ ~Open(mailbox[c.session]) /\ boxes' = k
      /\ mailbox' = [mailbox EXCEPT ![c.session] = k]
      /\ worker' = [worker EXCEPT ![k] = [NoWorker EXCEPT !.at = "receive"]]
      /\ queue' = [queue EXCEPT ![k] = <<j>>]
      /\ MaySend(c) /\ dispatched' \in Numbers
  BY DEF Create, Dispatch, TypeOK, Numbers, MailboxAssumption
<1>2. c.session \in Sessions /\ k \in Numbers /\ boxes \in Nat /\ k = boxes + 1
  BY <1>1 DEF Command, TypeOK, Numbers, MailboxAssumption, Create, Dispatch
<1>3. Named(j) /\ j.cmd.session = c.session
  BY <1>1 DEF Named, Job, Jobs, MaySend
<1>4. /\ queue \in [Numbers -> Seq(Jobs)] /\ worker \in [Numbers -> Workers]
      /\ mailbox \in [Sessions -> 0..boxes]
  BY DEF TypeOK
<1> HIDE DEF k, j
<1>5. /\ queue'[k] = <<j>> /\ worker'[k] = [NoWorker EXCEPT !.at = "receive"]
      /\ \A e \in Numbers : e # k => queue'[e] = queue[e] /\ worker'[e] = worker[e]
  BY <1>1, <1>2, <1>4
<1>6. /\ mailbox'[c.session] = k
      /\ \A t \in Sessions : t # c.session => mailbox'[t] = mailbox[t]
      /\ \A t \in Sessions : mailbox[t] # k
  BY <1>1, <1>2, <1>4
<1>7. \A e \in Numbers : e = k => ~Serving(e)' /\ Open(e)'
  <2>1. worker'[k].at = "receive"
    BY <1>5 DEF NoWorker
  <2>2. ASSUME NEW e \in Numbers, e = k PROVE ~Serving(e)' /\ Open(e)'
    BY <2>1, <2>2 DEF Serving, Open, Numbers
  <2>3. QED
    BY <2>2
<1>8. JobsAreNamed'
  <2>1. ASSUME NEW e \in Numbers
        PROVE  /\ \A i \in DOMAIN queue'[e] : Named(queue'[e][i])
               /\ Serving(e)' => Named(worker'[e].job)
    <3>1. CASE e = k
      BY <3>1, <1>3, <1>5, <1>7
    <3>2. CASE e # k
      BY <3>2, <1>5 DEF JobsAreNamed, Serving
    <3>3. QED
      BY <3>1, <3>2
  <2>2. QED
    BY <2>1 DEF JobsAreNamed, Named
<1>9. FreshIsBlank'
  <2>1. ASSUME NEW e \in Numbers, e > boxes'
        PROVE  worker'[e] = NoWorker /\ queue'[e] = <<>>
    <3>1. e # k /\ e > boxes
      BY <2>1, <1>1, <1>2 DEF Numbers
    <3>2. QED
      BY <3>1, <1>5 DEF FreshIsBlank
  <2>2. QED
    BY <2>1 DEF FreshIsBlank
<1>10. OneSessionEach'
  BY <1>6 DEF OneSessionEach
<1>11. MailIsDelivered'
  <2>1. ASSUME NEW t \in Sessions, NEW e \in Numbers, mailbox'[t] = e
        PROVE  /\ \A i \in DOMAIN queue'[e] : queue'[e][i].cmd.session = t
               /\ Serving(e)' => worker'[e].job.cmd.session = t
    <3>1. CASE t = c.session
      <4>1. e = k
        BY <2>1, <3>1, <1>6
      <4>2. QED
        BY <3>1, <4>1, <1>3, <1>5, <1>7
    <3>2. CASE t # c.session
      <4>1. mailbox[t] = e /\ e # k
        BY <2>1, <3>2, <1>6
      <4>2. QED
        BY <4>1, <1>5 DEF MailIsDelivered, Session, Cmd, Serving
    <3>3. QED
      BY <3>1, <3>2
  <2>2. QED
    BY <2>1 DEF MailIsDelivered, Session, Cmd
<1>12. NothingStranded'
  <2>1. ASSUME NEW e \in Numbers, queue'[e] # <<>> PROVE Open(e)'
    <3>1. CASE e = k
      BY <3>1, <1>7
    <3>2. CASE e # k
      BY <2>1, <3>2, <1>5 DEF NothingStranded, Open
    <3>3. QED
      BY <3>1, <3>2
  <2>2. ASSUME NEW e \in Numbers, Open(e)' PROVE \E t \in Sessions : mailbox'[t] = e
    <3>1. CASE e = k
      BY <3>1, <1>2, <1>6
    <3>2. CASE e # k
      <4>1. Open(e)
        BY <2>2, <3>2, <1>5 DEF Open
      <4>2. PICK t \in Sessions : mailbox[t] = e
        BY <4>1 DEF NothingStranded
      <4>3. t # c.session
        BY <4>1, <4>2, <1>1
      <4>4. QED
        BY <4>2, <4>3, <1>6
    <3>3. QED
      BY <3>1, <3>2
  <2>3. QED
    BY <2>1, <2>2 DEF NothingStranded
<1>13. QED
  BY <1>8, <1>9, <1>10, <1>11, <1>12 DEF Mail

LEMMA RefuseMail ==
    ASSUME IInv, NEW c \in Command, Refuse(c)
    PROVE  Mail'
<1> USE DEF IInv
<1>1. /\ ~Open(mailbox[c.session]) /\ c.session \in Sessions
      /\ mailbox' = [mailbox EXCEPT ![c.session] = 0]
      /\ boxes' = boxes /\ queue' = queue /\ worker' = worker
  BY DEF Refuse, Command
<1>2. mailbox \in [Sessions -> 0..boxes]
  BY DEF TypeOK
<1>3. /\ mailbox'[c.session] = 0
      /\ \A t \in Sessions : t # c.session => mailbox'[t] = mailbox[t]
  BY <1>1, <1>2
<1>4. JobsAreNamed' /\ FreshIsBlank'
  BY <1>1 DEF JobsAreNamed, FreshIsBlank, Serving, Named
<1>5. OneSessionEach'
  BY <1>3 DEF OneSessionEach
<1>6. MailIsDelivered'
  <2>1. ASSUME NEW t \in Sessions, NEW e \in Numbers, mailbox'[t] = e
        PROVE  /\ \A i \in DOMAIN queue'[e] : queue'[e][i].cmd.session = t
               /\ Serving(e)' => worker'[e].job.cmd.session = t
    <3>1. mailbox[t] = e
      BY <2>1, <1>3 DEF Numbers
    <3>2. QED
      BY <3>1, <1>1 DEF MailIsDelivered, Session, Cmd, Serving
  <2>2. QED
    BY <2>1 DEF MailIsDelivered, Session, Cmd
<1>7. NothingStranded'
  <2>1. ASSUME NEW e \in Numbers, Open(e)' PROVE \E t \in Sessions : mailbox'[t] = e
    <3>1. Open(e)
      BY <2>1, <1>1 DEF Open
    <3>2. PICK t \in Sessions : mailbox[t] = e
      BY <3>1 DEF NothingStranded
    <3>3. QED
      BY <3>1, <3>2, <1>1, <1>3
  <2>2. ASSUME NEW e \in Numbers, queue'[e] # <<>> PROVE Open(e)'
    BY <2>2, <1>1 DEF NothingStranded, Open
  <2>3. QED
    BY <2>1, <2>2 DEF NothingStranded
<1>8. QED
  BY <1>4, <1>5, <1>6, <1>7 DEF Mail

-----------------------------------------------------------------------------
(* The theorems about mailboxes *)

LEMMA NextIInv == ASSUME MailboxAssumption, IInv, [Next]_vars PROVE IInv'
<1>1. ASSUME NEW c \in Command, Join(c) \/ Create(c) \/ Refuse(c) PROVE IInv'
  BY <1>1, DispatchTypes, JoinMail, CreateMail, RefuseMail DEF Mail, IInv
<1>2. ASSUME NEW b \in Numbers, Work(b) PROVE IInv'
  BY <1>2, WorkTypes, TakeMail, ServingMail, EndMail DEF Work, Mail, IInv
<1>3. ASSUME NEW b \in Numbers, Die(b) PROVE IInv'
  BY <1>3, OtherTypes, EndMail DEF Mail, IInv
<1>4. ASSUME NEW s \in Sessions, RemoveProject(s) PROVE IInv'
  BY <1>4, OtherTypes, RemoveMail DEF Mail, IInv
<1>5. CASE UNCHANGED vars
  BY <1>5 DEF vars, calls, registry, runtimes, IInv, TypeOK, JobsAreNamed, FreshIsBlank,
              OneSessionEach, MailIsDelivered, NothingStranded, Named, Serving, Open, Session, Cmd
<1>6. QED
  BY <1>1, <1>2, <1>3, <1>4, <1>5 DEF Next

\* The inductive invariant of the dispatcher and its workers.
THEOREM MailboxInvariant == Spec => []IInv
<1>1. Init => IInv
  BY MailboxAssumption, InitIInv
<1>2. IInv /\ [Next]_vars => IInv'
  BY MailboxAssumption, NextIInv
<1>3. QED
  BY <1>1, <1>2, PTL DEF Spec

\* The state keeps its types, and the cache of responses its bound.
THEOREM MailboxTypes == Spec => []TypeOK
<1>1. IInv => TypeOK
  BY DEF IInv
<1>2. QED
  BY <1>1, MailboxInvariant, PTL

\* take_queued_request_or_retire: no command is left in a mailbox without a
\* worker, and no worker goes on without being registered.
THEOREM NoCommandIsStranded == Spec => []NothingStranded
<1>1. IInv => NothingStranded
  BY DEF IInv
<1>2. QED
  BY <1>1, MailboxInvariant, PTL

LEMMA ServingIsOpen ==
    ASSUME NEW b \in Numbers, Serving(b)
    PROVE  Open(b)
  BY DEF Serving, Open, Numbers

\* No two workers serve commands of one session at a time.
THEOREM OneWorkerServes == Spec => []OneWorkerPerSession
<1>1. ASSUME IInv PROVE OneWorkerPerSession
  <2>1. SUFFICES ASSUME NEW b \in Numbers, NEW e \in Numbers,
                        Serving(b), Serving(e), Session(b) = Session(e)
                 PROVE  b = e
    BY DEF OneWorkerPerSession
  <2>2. PICK s \in Sessions : mailbox[s] = b
    BY <1>1, <2>1, ServingIsOpen DEF IInv, NothingStranded
  <2>3. PICK t \in Sessions : mailbox[t] = e
    BY <1>1, <2>1, ServingIsOpen DEF IInv, NothingStranded
  <2>4. Session(b) = s /\ Session(e) = t
    BY <1>1, <2>1, <2>2, <2>3 DEF IInv, MailIsDelivered
  <2>5. QED
    BY <2>1, <2>2, <2>3, <2>4
<1>2. QED
  BY <1>1, MailboxInvariant, PTL

-----------------------------------------------------------------------------
(* The dispatcher implements RequestService *)

LEMMA NumbersOfEmpty == NumbersOf(<<>>) = <<>>
  BY DEF NumbersOf

LEMMA NumbersOfOne == ASSUME NEW j PROVE NumbersOf(<<j>>) = <<j.n>>
  BY DEF NumbersOf

LEMMA NumbersAreNatural ==
    ASSUME MailboxAssumption, NEW q \in Seq(Jobs)
    PROVE  /\ NumbersOf(q) \in Seq(Nat) /\ Len(NumbersOf(q)) = Len(q) /\ Len(q) \in Nat
           /\ \A i \in 1..Len(q) : NumbersOf(q)[i] = q[i].n
<1>1. DOMAIN q = 1..Len(q) /\ Len(q) \in Nat /\ \A i \in 1..Len(q) : q[i] \in Jobs
  OBVIOUS
<1>2. \A i \in 1..Len(q) : q[i].n \in Nat
  BY <1>1 DEF Jobs, Numbers, MailboxAssumption
<1>3. NumbersOf(q) = [i \in 1..Len(q) |-> q[i].n]
  BY <1>1 DEF NumbersOf
<1>4. NumbersOf(q) \in [1..Len(q) -> Nat]
  BY <1>2, <1>3
<1>5. QED
  BY <1>1, <1>3, <1>4

LEMMA NumbersOfAppend ==
    ASSUME MailboxAssumption, NEW q \in Seq(Jobs), NEW j \in Jobs
    PROVE  NumbersOf(Append(q, j)) = Append(NumbersOf(q), j.n)
<1> DEFINE l == NumbersOf(Append(q, j))
           r == Append(NumbersOf(q), j.n)
<1>1. /\ Append(q, j) \in Seq(Jobs) /\ Len(Append(q, j)) = Len(q) + 1 /\ Len(q) \in Nat
      /\ \A i \in 1..Len(q) : Append(q, j)[i] = q[i]
      /\ Append(q, j)[Len(q) + 1] = j
  OBVIOUS
<1>2. l \in Seq(Nat) /\ Len(l) = Len(q) + 1
        /\ \A i \in 1..(Len(q) + 1) : l[i] = Append(q, j)[i].n
  BY <1>1, NumbersAreNatural
<1>3. NumbersOf(q) \in Seq(Nat) /\ Len(NumbersOf(q)) = Len(q)
        /\ \A i \in 1..Len(q) : NumbersOf(q)[i] = q[i].n
  BY NumbersAreNatural
<1>4. j.n \in Nat
  BY DEF Jobs, Numbers, MailboxAssumption
<1>5. /\ r \in Seq(Nat) /\ Len(r) = Len(q) + 1
      /\ \A i \in 1..Len(q) : r[i] = NumbersOf(q)[i]
      /\ r[Len(q) + 1] = j.n
  BY <1>3, <1>4
<1> HIDE DEF l, r
<1>6. ASSUME NEW i \in 1..(Len(q) + 1) PROVE l[i] = r[i]
  <2>1. CASE i = Len(q) + 1
    BY <2>1, <1>1, <1>2, <1>5
  <2>2. CASE i \in 1..Len(q)
    <3>1. l[i] = q[i].n
      BY <2>2, <1>1, <1>2
    <3>2. r[i] = q[i].n
      BY <2>2, <1>3, <1>5
    <3>3. QED
      BY <3>1, <3>2
  <2>3. i = Len(q) + 1 \/ i \in 1..Len(q)
    BY <1>1
  <2>4. QED
    BY <2>1, <2>2, <2>3
<1>7. l = r
  BY <1>2, <1>5, <1>6, SeqEqual
<1>8. QED
  BY <1>7 DEF l, r

LEMMA NumbersOfTail ==
    ASSUME MailboxAssumption, NEW q \in Seq(Jobs), q # <<>>
    PROVE  /\ NumbersOf(q) # <<>>
           /\ Head(NumbersOf(q)) = Head(q).n
           /\ Tail(NumbersOf(q)) = NumbersOf(Tail(q))
<1> DEFINE l == Tail(NumbersOf(q))
           r == NumbersOf(Tail(q))
<1>1. /\ Len(q) \in Nat /\ Len(q) # 0 /\ Head(q) = q[1]
      /\ Tail(q) \in Seq(Jobs) /\ Len(Tail(q)) = Len(q) - 1
      /\ \A i \in 1..(Len(q) - 1) : Tail(q)[i] = q[i + 1]
  OBVIOUS
<1>2. r \in Seq(Nat) /\ Len(r) = Len(q) - 1 /\ \A i \in 1..(Len(q) - 1) : r[i] = Tail(q)[i].n
  BY <1>1, NumbersAreNatural
<1>3. NumbersOf(q) \in Seq(Nat) /\ Len(NumbersOf(q)) = Len(q)
        /\ \A i \in 1..Len(q) : NumbersOf(q)[i] = q[i].n
  BY NumbersAreNatural
<1>4. /\ l \in Seq(Nat) /\ Len(l) = Len(q) - 1
      /\ \A i \in 1..(Len(q) - 1) : l[i] = NumbersOf(q)[i + 1]
  BY <1>1, <1>3
<1>5. NumbersOf(q) # <<>> /\ Head(NumbersOf(q)) = Head(q).n
  BY <1>1, <1>3
<1> HIDE DEF l, r
<1>6. ASSUME NEW i \in 1..(Len(q) - 1) PROVE l[i] = r[i]
  <2>1. i + 1 \in 1..Len(q)
    BY <1>1
  <2>2. l[i] = q[i + 1].n
    BY <2>1, <1>3, <1>4
  <2>3. r[i] = q[i + 1].n
    BY <1>1, <1>2
  <2>4. QED
    BY <2>2, <2>3
<1>7. l = r
  BY <1>2, <1>4, <1>6, SeqEqual
<1>8. QED
  BY <1>5, <1>7 DEF l, r

\* A mailbox that is registered was created; one that is not open is empty.
LEMMA Registered ==
    ASSUME MailboxAssumption, IInv, NEW s \in Sessions
    PROVE  /\ mailbox[s] = 0 \/ mailbox[s] \in Numbers
           /\ ~Open(mailbox[s]) => WaitingFor(s) = <<>> /\ BeingServed(s) = 0
<1>1. mailbox[s] = 0 \/ mailbox[s] \in Numbers
  BY DEF IInv, TypeOK, Numbers, MailboxAssumption
<1>2. CASE mailbox[s] = 0
  BY <1>1, <1>2 DEF WaitingFor, BeingServed, Open
<1>3. CASE mailbox[s] \in Numbers /\ ~Open(mailbox[s])
  <2>1. queue[mailbox[s]] = <<>> /\ ~Serving(mailbox[s])
    BY <1>3, ServingIsOpen DEF IInv, NothingStranded
  <2>2. mailbox[s] # 0
    BY <1>3 DEF Numbers
  <2>3. QED
    BY <1>1, <2>1, <2>2, NumbersOfEmpty DEF WaitingFor, BeingServed
<1>4. QED
  BY <1>1, <1>2, <1>3

LEMMA JoinIsAccept ==
    ASSUME MailboxAssumption, IInv, NEW c \in Command, Join(c)
    PROVE  Service!Next
<1> USE DEF IInv
<1> DEFINE s == c.session
           k == mailbox[s]
           n == dispatched + 1
<1>1. /\ Open(k) /\ mailbox' = mailbox /\ worker' = worker /\ dispatched' = n
      /\ queue' = [queue EXCEPT ![k] = Append(queue[k], Job(n, c))]
      /\ n \in Numbers
  BY DEF Join, Dispatch, TypeOK, Numbers, MailboxAssumption
<1>2. s \in Sessions /\ k \in Numbers /\ k # 0
  BY <1>1, Registered DEF Command, Open, Numbers
<1>3. queue \in [Numbers -> Seq(Jobs)] /\ queue[k] \in Seq(Jobs) /\ Job(n, c) \in Jobs /\ Job(n, c).n = n
  BY <1>1, <1>2 DEF TypeOK, Job, Jobs
<1>4. /\ queue'[k] = Append(queue[k], Job(n, c))
      /\ \A e \in Numbers : e # k => queue'[e] = queue[e]
  BY <1>1, <1>2, <1>3
<1>5. WaitingFor(s) = NumbersOf(queue[k]) /\ WaitingFor(s)' = NumbersOf(queue'[k])
  BY <1>1, <1>2 DEF WaitingFor, NumbersOf
<1>6. WaitingFor(s)' = Append(WaitingFor(s), n)
  BY <1>3, <1>4, <1>5, NumbersOfAppend
<1>7. ASSUME NEW t \in Sessions PROVE BeingServed(t)' = BeingServed(t)
  BY <1>1 DEF BeingServed, Serving
<1>8. ASSUME NEW t \in Sessions, t # s PROVE WaitingFor(t)' = WaitingFor(t)
  <2>1. mailbox[t] = 0 \/ (mailbox[t] \in Numbers /\ mailbox[t] # k)
    BY <1>2, <1>8, Registered DEF OneSessionEach
  <2>2. mailbox'[t] = mailbox[t]
    BY <1>1
  <2>3. CASE mailbox[t] = 0
    BY <2>2, <2>3 DEF WaitingFor
  <2>4. CASE mailbox[t] \in Numbers /\ mailbox[t] # k
    <3>1. queue'[mailbox[t]] = queue[mailbox[t]]
      BY <2>4, <1>4
    <3>2. QED
      BY <2>2, <3>1 DEF WaitingFor, NumbersOf
  <2>5. QED
    BY <2>1, <2>3, <2>4
<1>9. Service!Accept(s)
  <2>1. [t \in Sessions |-> WaitingFor(t)]' =
          [[t \in Sessions |-> WaitingFor(t)] EXCEPT ![s] = Append(WaitingFor(s), n)]
    BY <1>2, <1>6, <1>8
  <2>2. [t \in Sessions |-> BeingServed(t)]' = [t \in Sessions |-> BeingServed(t)]
    BY <1>7
  <2>3. QED
    BY <1>1, <1>2, <2>1, <2>2 DEF Service!Accept
<1>10. QED
  BY <1>2, <1>9 DEF Service!Next

LEMMA CreateIsAccept ==
    ASSUME MailboxAssumption, IInv, NEW c \in Command, Create(c)
    PROVE  Service!Next
<1> USE DEF IInv
<1> DEFINE s == c.session
           n == dispatched + 1
<1>a. boxes + 1 \in Numbers /\ boxes \in Nat /\ dispatched' = n /\ boxes' = boxes + 1
  BY DEF Create, Dispatch, TypeOK, Numbers, MailboxAssumption
<1>b. PICK k \in Numbers : k = boxes + 1 /\ k = boxes'
  BY <1>a
<1>1. /\ k = boxes + 1 /\ boxes \in Nat /\ dispatched' = n
      /\ ~Open(mailbox[s]) /\ mailbox' = [mailbox EXCEPT ![s] = k]
      /\ worker' = [worker EXCEPT ![k] = [NoWorker EXCEPT !.at = "receive"]]
      /\ queue' = [queue EXCEPT ![k] = <<Job(n, c)>>]
  BY <1>a, <1>b DEF Create
<1>2. s \in Sessions /\ k # 0
  BY <1>1 DEF Command, Numbers
<1>3. /\ queue \in [Numbers -> Seq(Jobs)] /\ worker \in [Numbers -> Workers]
      /\ mailbox \in [Sessions -> 0..boxes]
  BY DEF TypeOK
<1>4. /\ mailbox'[s] = k /\ queue'[k] = <<Job(n, c)>> /\ worker'[k].at = "receive"
      /\ \A e \in Numbers : e # k => queue'[e] = queue[e] /\ worker'[e] = worker[e]
      /\ \A t \in Sessions : t # s => mailbox'[t] = mailbox[t] /\ mailbox[t] # k
  BY <1>1, <1>2, <1>3 DEF NoWorker
<1>5. WaitingFor(s) = <<>> /\ BeingServed(s) = 0
  BY <1>1, <1>2, Registered
<1>6. WaitingFor(s)' = <<n>>
  <2>1. WaitingFor(s)' = NumbersOf(<<Job(n, c)>>)
    BY <1>2, <1>4 DEF WaitingFor, NumbersOf
  <2>2. Job(n, c).n = n
    BY DEF Job
  <2>3. QED
    BY <2>1, <2>2, NumbersOfOne, Zenon
<1>7. BeingServed(s)' = 0
  BY <1>4 DEF BeingServed, Serving
<1>8. ASSUME NEW t \in Sessions, t # s
      PROVE  WaitingFor(t)' = WaitingFor(t) /\ BeingServed(t)' = BeingServed(t)
  <2>1. mailbox'[t] = mailbox[t] /\ (mailbox[t] = 0 \/ (mailbox[t] \in Numbers /\ mailbox[t] # k))
    BY <1>4, <1>8, Registered
  <2>2. QED
    BY <2>1, <1>4 DEF WaitingFor, BeingServed, Serving, NumbersOf
<1>9. Service!Accept(s)
  <2>1. [t \in Sessions |-> WaitingFor(t)]' =
          [[t \in Sessions |-> WaitingFor(t)] EXCEPT ![s] = Append(WaitingFor(s), n)]
    <3>1. Append(WaitingFor(s), n) = <<n>>
      BY <1>5
    <3>2. QED
      BY <1>2, <1>6, <1>8, <3>1
  <2>2. [t \in Sessions |-> BeingServed(t)]' = [t \in Sessions |-> BeingServed(t)]
    BY <1>2, <1>5, <1>7, <1>8
  <2>3. QED
    BY <1>1, <1>2, <2>1, <2>2 DEF Service!Accept
<1>10. QED
  BY <1>2, <1>9 DEF Service!Next

LEMMA RefuseIsRefuse ==
    ASSUME MailboxAssumption, IInv, NEW c \in Command, Refuse(c)
    PROVE  Service!Next
<1> USE DEF IInv
<1> DEFINE s == c.session
<1>1. /\ ~Open(mailbox[s]) /\ s \in Sessions /\ mailbox' = [mailbox EXCEPT ![s] = 0]
      /\ queue' = queue /\ worker' = worker /\ dispatched' = dispatched + 1
  BY DEF Refuse, Dispatch, Command
<1>2. /\ mailbox'[s] = 0
      /\ \A t \in Sessions : t # s => mailbox'[t] = mailbox[t]
  BY <1>1 DEF TypeOK
<1>3. WaitingFor(s) = <<>> /\ BeingServed(s) = 0
  BY <1>1, Registered
<1>4. WaitingFor(s)' = <<>> /\ BeingServed(s)' = 0
  BY <1>2 DEF WaitingFor, BeingServed
<1>5. ASSUME NEW t \in Sessions
      PROVE  WaitingFor(t)' = WaitingFor(t) /\ BeingServed(t)' = BeingServed(t)
  <2>1. CASE t = s
    BY <2>1, <1>3, <1>4
  <2>2. CASE t # s
    BY <2>2, <1>1, <1>2 DEF WaitingFor, BeingServed, Serving, NumbersOf
  <2>3. QED
    BY <2>1, <2>2
<1>6. Service!Refuse(s)
  BY <1>1, <1>3, <1>5 DEF Service!Refuse
<1>7. QED
  BY <1>1, <1>6 DEF Service!Next

LEMMA TakeIsServe ==
    ASSUME MailboxAssumption, IInv, NEW b \in Numbers, Receive(b) \/ TakeQueued(b)
    PROVE  Service!Next
<1> USE DEF IInv
<1>1. /\ worker[b].at \in {"receive", "retire"} /\ queue[b] # <<>>
      /\ worker' = [worker EXCEPT ![b].at = "handle", ![b].job = Head(queue[b])]
      /\ queue' = [queue EXCEPT ![b] = Tail(@)]
      /\ dispatched' = dispatched /\ mailbox' = mailbox
  BY DEF Receive, TakeQueued, TakeFirst, calls
<1>2. queue \in [Numbers -> Seq(Jobs)] /\ worker \in [Numbers -> Workers] /\ queue[b] \in Seq(Jobs)
  BY DEF TypeOK
<1>3. /\ worker'[b].at = "handle" /\ worker'[b].job = Head(queue[b]) /\ queue'[b] = Tail(queue[b])
      /\ \A e \in Numbers : e # b => worker'[e] = worker[e] /\ queue'[e] = queue[e]
  BY <1>1, <1>2 DEF Workers
<1>4. PICK s \in Sessions : mailbox[s] = b
  BY <1>1 DEF NothingStranded
<1>5. b # 0
  BY DEF Numbers
<1>6. /\ WaitingFor(s) = NumbersOf(queue[b]) /\ BeingServed(s) = 0
      /\ WaitingFor(s)' = NumbersOf(queue'[b]) /\ BeingServed(s)' = Head(queue[b]).n
  BY <1>1, <1>3, <1>4, <1>5 DEF WaitingFor, BeingServed, Serving, NumbersOf
<1>7. /\ WaitingFor(s) # <<>> /\ BeingServed(s)' = Head(WaitingFor(s))
      /\ WaitingFor(s)' = Tail(WaitingFor(s))
  BY <1>1, <1>2, <1>3, <1>6, NumbersOfTail
<1>8. ASSUME NEW t \in Sessions, t # s
      PROVE  WaitingFor(t)' = WaitingFor(t) /\ BeingServed(t)' = BeingServed(t)
  <2>1. mailbox[t] = 0 \/ (mailbox[t] \in Numbers /\ mailbox[t] # b)
    BY <1>4, <1>5, <1>8, Registered DEF OneSessionEach
  <2>2. CASE mailbox[t] = 0
    BY <2>2, <1>1 DEF WaitingFor, BeingServed
  <2>3. CASE mailbox[t] \in Numbers /\ mailbox[t] # b
    <3>1. worker'[mailbox[t]] = worker[mailbox[t]] /\ queue'[mailbox[t]] = queue[mailbox[t]]
      BY <2>3, <1>3
    <3>2. mailbox'[t] = mailbox[t]
      BY <1>1
    <3>3. WaitingFor(t)' = WaitingFor(t)
      BY <3>1, <3>2 DEF WaitingFor, NumbersOf
    <3>4. BeingServed(t)' = BeingServed(t)
      BY <3>1, <3>2 DEF BeingServed, Serving
    <3>5. QED
      BY <3>3, <3>4
  <2>4. QED
    BY <2>1, <2>2, <2>3
<1>9. Service!Serve(s)
  BY <1>1, <1>4, <1>6, <1>7, <1>8 DEF Service!Serve
<1>10. QED
  BY <1>4, <1>9 DEF Service!Next

\* The steps a service does not see.
LEMMA InnerIsStutter ==
    ASSUME MailboxAssumption, IInv, NEW b \in Numbers,
           AnswerAgain(b) \/ Begin(b) \/ Execute(b) \/ EndFailedStart(b) \/ Respond(b)
    PROVE  UNCHANGED Service!vars
<1> USE DEF IInv
<1>1. /\ worker[b].at \in {"handle", "execute", "end", "respond"}
      /\ dispatched' = dispatched /\ mailbox' = mailbox /\ queue' = queue
  BY DEF AnswerAgain, Begin, Execute, EndFailedStart, Respond, calls, registry
<1>2. worker \in [Numbers -> Workers]
  BY DEF TypeOK
<1>3. /\ worker'[b].at \in {"execute", "end", "respond", "settle"}
      /\ worker'[b].job = worker[b].job
      /\ \A e \in Numbers : e # b => worker'[e] = worker[e]
  <2>1. CASE AnswerAgain(b)
    BY <2>1, <1>2 DEF AnswerAgain, Workers
  <2>2. CASE Begin(b)
    BY <2>2, <1>2 DEF Begin, Go, Workers
  <2>3. CASE Execute(b)
    <3>1. PICK ok \in BOOLEAN, after \in Runtimes \cup {None} :
            worker' = [worker EXCEPT ![b].ran = TRUE, ![b].ok = ok,
                               ![b].found = IF Cmd(b).kind = "attach" THEN after ELSE None,
                               ![b].at = IF Starts(b) /\ ~ok THEN "end" ELSE "respond"]
      BY <2>3, Zenon DEF Execute
    <3>2. QED
      BY <3>1, <1>2 DEF Workers
  <2>4. CASE EndFailedStart(b)
    BY <2>4, <1>2 DEF EndFailedStart, Go, Workers
  <2>5. CASE Respond(b)
    BY <2>5, <1>2 DEF Respond, Go, Workers
  <2>6. QED
    BY <2>1, <2>2, <2>3, <2>4, <2>5
<1>4. ASSUME NEW t \in Sessions
      PROVE  WaitingFor(t)' = WaitingFor(t) /\ BeingServed(t)' = BeingServed(t)
  <2>1. WaitingFor(t)' = WaitingFor(t)
    BY <1>1 DEF WaitingFor, NumbersOf
  <2>2. BeingServed(t)' = BeingServed(t)
    <3>1. mailbox'[t] = mailbox[t] /\ (mailbox[t] = 0 \/ mailbox[t] \in Numbers)
      BY <1>1, Registered
    <3>2. ASSUME NEW e \in Numbers
          PROVE  (Serving(e)' <=> Serving(e)) /\ worker'[e].job = worker[e].job
      BY <1>1, <1>3 DEF Serving
    <3>3. CASE mailbox[t] = 0
      BY <3>1, <3>3 DEF BeingServed
    <3>4. CASE mailbox[t] \in Numbers
      BY <3>1, <3>2, <3>4 DEF BeingServed, Serving
    <3>5. QED
      BY <3>1, <3>3, <3>4
  <2>3. QED
    BY <2>1, <2>2
<1>5. QED
  BY <1>1, <1>4 DEF Service!vars

\* A worker whose mailbox is empty leaves the service as it was.
LEMMA RetireIsStutter ==
    ASSUME MailboxAssumption, IInv, NEW b \in Numbers, Retire(b)
    PROVE  UNCHANGED Service!vars
<1> USE DEF IInv
<1>1. /\ worker[b].at = "retire" /\ queue[b] = <<>> /\ queue' = queue
      /\ \A t \in Sessions : mailbox'[t] = IF mailbox[t] = b THEN 0 ELSE mailbox[t]
      /\ dispatched' = dispatched
  BY DEF Retire, Unregister, calls
<1>2. \A e \in Numbers : e # b => worker'[e] = worker[e]
  BY DEF Retire, TypeOK
<1>3. ASSUME NEW t \in Sessions
      PROVE  WaitingFor(t)' = WaitingFor(t) /\ BeingServed(t)' = BeingServed(t)
  <2>1. CASE mailbox[t] = b
    <3>1. WaitingFor(t) = <<>> /\ BeingServed(t) = 0
      BY <2>1, <1>1, NumbersOfEmpty DEF WaitingFor, BeingServed, Serving
    <3>2. WaitingFor(t)' = <<>> /\ BeingServed(t)' = 0
      BY <2>1, <1>1 DEF WaitingFor, BeingServed
    <3>3. QED
      BY <3>1, <3>2
  <2>2. CASE mailbox[t] # b
    <3>1. mailbox'[t] = mailbox[t] /\ (mailbox[t] = 0 \/ mailbox[t] \in Numbers)
      BY <2>2, <1>1, Registered
    <3>2. WaitingFor(t)' = WaitingFor(t)
      BY <3>1, <1>1 DEF WaitingFor, NumbersOf
    <3>3. BeingServed(t)' = BeingServed(t)
      BY <3>1, <2>2, <1>2 DEF BeingServed, Serving
    <3>4. QED
      BY <3>2, <3>3
  <2>3. QED
    BY <2>1, <2>2
<1>4. QED
  BY <1>1, <1>3 DEF Service!vars

\* The session a worker that serves a command is registered for.
LEMMA ServedSession ==
    ASSUME MailboxAssumption, IInv, NEW b \in Numbers, Serving(b)
    PROVE  \E s \in Sessions : /\ mailbox[s] = b
                               /\ BeingServed(s) = worker[b].job.n
                               /\ BeingServed(s) # 0
                               /\ \A t \in Sessions : t # s => mailbox[t] # b
<1>1. PICK s \in Sessions : mailbox[s] = b
  BY ServingIsOpen DEF IInv, NothingStranded
<1>2. b # 0 /\ worker[b].job.n \in Numbers
  BY DEF IInv, JobsAreNamed, Named, Jobs, Numbers
<1>3. BeingServed(s) = worker[b].job.n
  BY <1>1, <1>2 DEF BeingServed
<1>4. BeingServed(s) # 0
  BY <1>2, <1>3 DEF Numbers
<1>5. \A t \in Sessions : t # s => mailbox[t] # b
  BY <1>1, <1>2 DEF IInv, OneSessionEach
<1>6. QED
  BY <1>1, <1>3, <1>4, <1>5

LEMMA SettleIsFinish ==
    ASSUME MailboxAssumption, IInv, NEW b \in Numbers, Settle(b)
    PROVE  Service!Next
<1> USE DEF IInv
<1>1. /\ worker[b].at = "settle" /\ Serving(b)
      /\ dispatched' = dispatched /\ mailbox' = mailbox /\ queue' = queue
  BY DEF Settle, Serving, calls, registry
<1>2. /\ worker'[b].at \in {"retire", "receive"}
      /\ \A e \in Numbers : e # b => worker'[e] = worker[e]
  BY DEF Settle, TypeOK, NoWorker
<1>3. PICK s \in Sessions : /\ mailbox[s] = b /\ BeingServed(s) # 0
                            /\ \A t \in Sessions : t # s => mailbox[t] # b
  BY <1>1, ServedSession
<1>4. BeingServed(s)' = 0
  BY <1>1, <1>2, <1>3 DEF BeingServed, Serving
<1>5. ASSUME NEW t \in Sessions PROVE WaitingFor(t)' = WaitingFor(t)
  BY <1>1 DEF WaitingFor, NumbersOf
<1>6. ASSUME NEW t \in Sessions, t # s PROVE BeingServed(t)' = BeingServed(t)
  <2>1. mailbox'[t] = mailbox[t] /\ mailbox[t] # b /\ (mailbox[t] = 0 \/ mailbox[t] \in Numbers)
    BY <1>1, <1>3, <1>6, Registered
  <2>2. QED
    BY <2>1, <1>2 DEF BeingServed, Serving
<1>7. Service!Finish(s)
  BY <1>1, <1>3, <1>4, <1>5, <1>6 DEF Service!Finish
<1>8. QED
  BY <1>7 DEF Service!Next

LEMMA DieIsDie ==
    ASSUME MailboxAssumption, IInv, NEW b \in Numbers, Die(b)
    PROVE  Service!Next
<1> USE DEF IInv
<1>1. /\ Serving(b) /\ dispatched' = dispatched /\ mailbox' = mailbox
  BY DEF Die, Serving, calls
<1>2. /\ worker'[b].at = "gone" /\ queue'[b] = <<>>
      /\ \A e \in Numbers : e # b => worker'[e] = worker[e] /\ queue'[e] = queue[e]
  BY DEF Die, TypeOK, Go, Workers
<1>3. PICK s \in Sessions : /\ mailbox[s] = b /\ BeingServed(s) # 0
                            /\ \A t \in Sessions : t # s => mailbox[t] # b
  BY <1>1, ServedSession
<1>4. BeingServed(s)' = 0
  BY <1>1, <1>2, <1>3 DEF BeingServed, Serving
<1>5. WaitingFor(s)' = <<>>
  <2>1. WaitingFor(s)' = NumbersOf(queue'[b])
    BY <1>1, <1>3 DEF WaitingFor, NumbersOf, Numbers
  <2>2. QED
    BY <2>1, <1>2, NumbersOfEmpty
<1>6. ASSUME NEW t \in Sessions, t # s
      PROVE  WaitingFor(t)' = WaitingFor(t) /\ BeingServed(t)' = BeingServed(t)
  <2>1. mailbox'[t] = mailbox[t] /\ mailbox[t] # b /\ (mailbox[t] = 0 \/ mailbox[t] \in Numbers)
    BY <1>1, <1>3, <1>6, Registered
  <2>2. WaitingFor(t)' = WaitingFor(t)
    BY <2>1, <1>2 DEF WaitingFor, NumbersOf
  <2>3. BeingServed(t)' = BeingServed(t)
    BY <2>1, <1>2 DEF BeingServed, Serving
  <2>4. QED
    BY <2>2, <2>3
<1>7. Service!Die(s)
  BY <1>1, <1>3, <1>4, <1>5, <1>6 DEF Service!Die
<1>8. QED
  BY <1>7 DEF Service!Next

LEMMA StepRefines ==
    ASSUME MailboxAssumption, IInv, [Next]_vars
    PROVE  [Service!Next]_(Service!vars)
<1>1. ASSUME NEW c \in Command, Join(c) \/ Create(c) \/ Refuse(c)
      PROVE  Service!Next
  BY <1>1, JoinIsAccept, CreateIsAccept, RefuseIsRefuse
<1>2. ASSUME NEW b \in Numbers, Work(b)
      PROVE  Service!Next \/ UNCHANGED Service!vars
  BY <1>2, TakeIsServe, InnerIsStutter, RetireIsStutter, SettleIsFinish DEF Work
<1>3. ASSUME NEW b \in Numbers, Die(b) PROVE Service!Next
  BY <1>3, DieIsDie
<1>4. ASSUME NEW s \in Sessions, RemoveProject(s) PROVE UNCHANGED Service!vars
  BY <1>4 DEF RemoveProject, calls, registry, Service!vars, WaitingFor, NumbersOf,
              BeingServed, Serving
<1>5. CASE UNCHANGED vars
  BY <1>5 DEF vars, calls, registry, Service!vars, WaitingFor, NumbersOf, BeingServed, Serving
<1>6. QED
  BY <1>1, <1>2, <1>3, <1>4, <1>5 DEF Next

\* Though workers and mailboxes are replaced again and again, the commands of a
\* session are served as by one actor.
THEOREM DispatcherImplementsService == Spec => ServiceSpec
<1>1. Init => Service!Init
  BY DEF Init, Service!Init, WaitingFor, BeingServed
<1>2. IInv /\ [Next]_vars => [Service!Next]_(Service!vars)
  BY MailboxAssumption, StepRefines
<1>3. QED
  BY <1>1, <1>2, MailboxInvariant, PTL DEF Spec, Service!Spec, ServiceSpec

-----------------------------------------------------------------------------
(* Commands are executed in the order of their numbers *)

\* Commands wait in the order of their numbers.
QueuesAscend ==
    \A b \in Numbers : \A j \in DOMAIN queue[b] :
        /\ queue[b][j].n <= dispatched
        /\ \A i \in 1..(j - 1) : queue[b][i].n < queue[b][j].n

\* The one being served came before those that wait.
ServedIsOldest ==
    \A b \in Numbers : Serving(b) =>
        /\ worker[b].job.n <= dispatched
        /\ \A j \in DOMAIN queue[b] : worker[b].job.n < queue[b][j].n

\* What was executed for a session came before all that is still to be.
ExecutedIsPast ==
    \A s \in Sessions :
        /\ executed[s] <= dispatched
        /\ \A b \in Numbers : mailbox[s] = b =>
              /\ \A j \in DOMAIN queue[b] : executed[s] < queue[b][j].n
              /\ worker[b].at \in {"handle", "execute"} => executed[s] < worker[b].job.n

Order == QueuesAscend /\ ServedIsOldest /\ ExecutedIsPast

LEMMA JobsAreNumbered ==
    ASSUME MailboxAssumption, IInv, NEW b \in Numbers
    PROVE  /\ \A j \in DOMAIN queue[b] : queue[b][j] \in Jobs /\ queue[b][j].n \in Nat
           /\ Serving(b) => worker[b].job.n \in Nat
<1>1. ASSUME NEW j, Named(j) PROVE j \in Jobs /\ j.n \in Nat
  BY <1>1 DEF Named, Jobs, Numbers, MailboxAssumption
<1>2. QED
  BY <1>1 DEF IInv, JobsAreNamed

\* Steps that bring no command in, take none and execute none.
LEMMA SameOrder ==
    ASSUME MailboxAssumption, IInv, Order, executed' = executed,
           dispatched' \in Nat, dispatched <= dispatched',
           \A e \in Numbers : queue'[e] = queue[e] \/ queue'[e] = <<>>,
           \A t \in Sessions : mailbox'[t] = mailbox[t] \/ mailbox'[t] = 0,
           \A e \in Numbers : Serving(e)' => Serving(e) /\ worker'[e].job = worker[e].job,
           \A e \in Numbers : worker'[e].at \in {"handle", "execute"}
                                  => worker[e].at \in {"handle", "execute"}
    PROVE  Order'
<1> USE DEF IInv, Order
<1>1. /\ dispatched \in Nat /\ executed \in [Sessions -> 0..MaxRequests]
      /\ queue \in [Numbers -> Seq(Jobs)]
  BY DEF TypeOK, MailboxAssumption
<1>2. QueuesAscend'
  <2>1. ASSUME NEW e \in Numbers, NEW j \in DOMAIN queue'[e]
        PROVE  /\ queue'[e][j].n <= dispatched'
               /\ \A i \in 1..(j - 1) : queue'[e][i].n < queue'[e][j].n
    <3>1. queue'[e] = queue[e]
      BY <2>1
    <3>2. queue[e][j].n \in Nat
      BY <3>1, <2>1, JobsAreNumbered
    <3>3. /\ queue[e][j].n <= dispatched
          /\ \A i \in 1..(j - 1) : queue[e][i].n < queue[e][j].n
      BY <3>1, <2>1 DEF QueuesAscend
    <3>4. queue[e][j].n <= dispatched'
      BY <1>1, <3>2, <3>3
    <3>5. QED
      BY <3>1, <3>3, <3>4
  <2>2. QED
    BY <2>1 DEF QueuesAscend
<1>3. ServedIsOldest'
  <2>1. ASSUME NEW e \in Numbers, Serving(e)'
        PROVE  /\ worker'[e].job.n <= dispatched'
               /\ \A j \in DOMAIN queue'[e] : worker'[e].job.n < queue'[e][j].n
    <3>1. Serving(e) /\ worker'[e].job = worker[e].job
      BY <2>1
    <3>2. /\ worker[e].job.n \in Nat /\ worker[e].job.n <= dispatched
          /\ \A j \in DOMAIN queue[e] : worker[e].job.n < queue[e][j].n
      BY <3>1, JobsAreNumbered DEF ServedIsOldest
    <3>3. worker[e].job.n <= dispatched'
      BY <3>2, <1>1
    <3>4. QED
      BY <3>1, <3>2, <3>3
  <2>2. QED
    BY <2>1 DEF ServedIsOldest
<1>4. ExecutedIsPast'
  <2>1. ASSUME NEW t \in Sessions PROVE executed'[t] <= dispatched'
    <3>1. executed[t] \in Nat /\ executed[t] <= dispatched
      BY <1>1 DEF ExecutedIsPast
    <3>2. QED
      BY <3>1, <1>1
  <2>2. ASSUME NEW t \in Sessions, NEW e \in Numbers, mailbox'[t] = e
        PROVE  /\ \A j \in DOMAIN queue'[e] : executed'[t] < queue'[e][j].n
               /\ worker'[e].at \in {"handle", "execute"} => executed'[t] < worker'[e].job.n
    <3>1. mailbox[t] = e
      BY <2>2 DEF Numbers
    <3>2. \A j \in DOMAIN queue'[e] : executed[t] < queue'[e][j].n
      BY <3>1 DEF ExecutedIsPast
    <3>3. ASSUME worker'[e].at \in {"handle", "execute"} PROVE executed[t] < worker'[e].job.n
      <4>1. Serving(e)'
        BY <3>3 DEF Serving
      <4>2. worker'[e].job = worker[e].job /\ worker[e].at \in {"handle", "execute"}
        BY <3>3, <4>1
      <4>3. QED
        BY <3>1, <4>2 DEF ExecutedIsPast
    <3>4. QED
      BY <3>2, <3>3
  <2>3. QED
    BY <2>1, <2>2 DEF ExecutedIsPast
<1>5. QED
  BY <1>2, <1>3, <1>4

LEMMA JoinOrder ==
    ASSUME MailboxAssumption, IInv, Order, NEW c \in Command, Join(c)
    PROVE  Order'
<1> USE DEF IInv, Order
<1>1. PICK k \in Numbers, n \in Nat :
        /\ k = mailbox[c.session] /\ n = dispatched + 1
        /\ queue' = [queue EXCEPT ![k] = Append(queue[k], Job(n, c))] /\ Job(n, c) \in Jobs
        /\ dispatched' = n
  <2>1. mailbox[c.session] \in Numbers
    BY Registered DEF Join, Open, Command
  <2>2. dispatched + 1 \in Nat /\ dispatched + 1 \in Numbers /\ dispatched' = dispatched + 1
    BY DEF Join, Dispatch, TypeOK, MailboxAssumption, Numbers
  <2>3. Job(dispatched + 1, c) \in Jobs
    BY <2>2 DEF Job, Jobs
  <2>4. queue' = [queue EXCEPT ![mailbox[c.session]] =
                     Append(queue[mailbox[c.session]], Job(dispatched + 1, c))]
    BY <2>2 DEF Join
  <2>5. QED
    BY <2>1, <2>2, <2>3, <2>4
<1>2. /\ mailbox' = mailbox /\ worker' = worker /\ executed' = executed
      /\ dispatched \in Nat /\ executed \in [Sessions -> 0..MaxRequests]
      /\ queue \in [Numbers -> Seq(Jobs)] /\ queue[k] \in Seq(Jobs)
  BY DEF Join, Dispatch, TypeOK, MailboxAssumption
<1>3. /\ queue'[k] = Append(queue[k], Job(n, c))
      /\ \A e \in Numbers : e # k => queue'[e] = queue[e]
  BY <1>1, <1>2
<1>4. Job(n, c).n = n
  BY DEF Job
<1>5. /\ Len(queue[k]) \in Nat /\ DOMAIN queue[k] = 1..Len(queue[k])
      /\ DOMAIN queue'[k] = 1..(Len(queue[k]) + 1)
      /\ \A i \in 1..Len(queue[k]) : queue'[k][i] = queue[k][i]
      /\ queue'[k][Len(queue[k]) + 1].n = n
  BY <1>1, <1>2, <1>3, <1>4
<1>6. \A e \in Numbers : \A j \in DOMAIN queue[e] : queue[e][j].n \in Nat /\ queue[e][j].n < n
  <2>1. ASSUME NEW e \in Numbers, NEW j \in DOMAIN queue[e]
        PROVE  queue[e][j].n \in Nat /\ queue[e][j].n < n
    <3>1. queue[e][j].n \in Nat /\ queue[e][j].n <= dispatched
      BY JobsAreNumbered DEF QueuesAscend
    <3>2. QED
      BY <3>1, <1>1, <1>2
  <2>2. QED
    BY <2>1
<1>7. QueuesAscend'
  <2>1. ASSUME NEW e \in Numbers, NEW j \in DOMAIN queue'[e]
        PROVE  /\ queue'[e][j].n <= dispatched'
               /\ \A i \in 1..(j - 1) : queue'[e][i].n < queue'[e][j].n
    <3>1. CASE e # k
      <4>1. queue'[e] = queue[e]
        BY <3>1, <1>3
      <4>2. queue[e][j].n \in Nat /\ queue[e][j].n < n
        BY <1>6, <2>1, <4>1
      <4>3. \A i \in 1..(j - 1) : queue[e][i].n < queue[e][j].n
        BY <2>1, <4>1 DEF QueuesAscend
      <4>4. queue[e][j].n <= dispatched'
        BY <1>1, <4>2
      <4>5. QED
        BY <4>1, <4>3, <4>4
    <3>2. CASE e = k /\ j = Len(queue[k]) + 1
      <4>1. \A i \in 1..(j - 1) : queue'[k][i].n < n
        BY <3>2, <1>5, <1>6
      <4>2. queue'[k][j].n = n /\ n <= dispatched'
        BY <3>2, <1>1, <1>5
      <4>3. QED
        BY <3>2, <4>1, <4>2
    <3>3. CASE e = k /\ j \in 1..Len(queue[k])
      <4>1. /\ queue'[k][j] = queue[k][j] /\ queue[k][j].n < n /\ queue[k][j].n \in Nat
            /\ \A i \in 1..(j - 1) : queue[k][i].n < queue[k][j].n
        BY <3>3, <1>5, <1>6 DEF QueuesAscend
      <4>2. \A i \in 1..(j - 1) : i \in 1..Len(queue[k]) /\ queue'[k][i] = queue[k][i]
        <5>1. \A i \in 1..(j - 1) : i \in 1..Len(queue[k])
          BY <3>3, <1>5
        <5>2. QED
          BY <5>1, <1>5
      <4>3. queue'[k][j].n <= dispatched'
        BY <4>1, <1>1
      <4>4. QED
        BY <3>3, <4>1, <4>2, <4>3
    <3>4. QED
      BY <2>1, <3>1, <3>2, <3>3, <1>5
  <2>2. QED
    BY <2>1 DEF QueuesAscend
<1>8. \A e \in Numbers : \A j \in DOMAIN queue'[e] :
          (j \in DOMAIN queue[e] /\ queue'[e][j] = queue[e][j]) \/ queue'[e][j].n = n
  <2>1. ASSUME NEW e \in Numbers, NEW j \in DOMAIN queue'[e]
        PROVE  (j \in DOMAIN queue[e] /\ queue'[e][j] = queue[e][j]) \/ queue'[e][j].n = n
    <3>1. CASE e # k
      BY <3>1, <2>1, <1>3
    <3>2. CASE e = k
      BY <3>2, <2>1, <1>5
    <3>3. QED
      BY <3>1, <3>2
  <2>2. QED
    BY <2>1
<1>9. ServedIsOldest'
  <2>1. ASSUME NEW e \in Numbers, Serving(e)'
        PROVE  /\ worker'[e].job.n <= dispatched'
               /\ \A j \in DOMAIN queue'[e] : worker'[e].job.n < queue'[e][j].n
    <3>1. Serving(e) /\ worker'[e] = worker[e]
      BY <2>1, <1>2 DEF Serving
    <3>2. /\ worker[e].job.n \in Nat /\ worker[e].job.n <= dispatched
          /\ \A j \in DOMAIN queue[e] : worker[e].job.n < queue[e][j].n
      BY <3>1, JobsAreNumbered DEF ServedIsOldest
    <3>3. worker[e].job.n < n
      BY <3>2, <1>1, <1>2
    <3>4. QED
      BY <3>1, <3>2, <3>3, <1>1, <1>8
  <2>2. QED
    BY <2>1 DEF ServedIsOldest
<1>10. ExecutedIsPast'
  <2>1. ASSUME NEW t \in Sessions PROVE executed'[t] <= dispatched' /\ executed[t] < n
    <3>1. executed[t] \in Nat /\ executed[t] <= dispatched
      BY <1>2 DEF ExecutedIsPast, MailboxAssumption
    <3>2. QED
      BY <3>1, <1>1, <1>2
  <2>2. ASSUME NEW t \in Sessions, NEW e \in Numbers, mailbox'[t] = e
        PROVE  /\ \A j \in DOMAIN queue'[e] : executed'[t] < queue'[e][j].n
               /\ worker'[e].at \in {"handle", "execute"} => executed'[t] < worker'[e].job.n
    <3>1. /\ mailbox[t] = e /\ executed'[t] = executed[t] /\ worker'[e] = worker[e]
          /\ executed[t] < n
      BY <2>1, <2>2, <1>2
    <3>2. /\ \A j \in DOMAIN queue[e] : executed[t] < queue[e][j].n
          /\ worker[e].at \in {"handle", "execute"} => executed[t] < worker[e].job.n
      BY <3>1 DEF ExecutedIsPast
    <3>3. QED
      BY <3>1, <3>2, <1>8
  <2>3. QED
    BY <2>1, <2>2 DEF ExecutedIsPast
<1>11. QED
  BY <1>7, <1>9, <1>10

LEMMA CreateOrder ==
    ASSUME MailboxAssumption, IInv, Order, NEW c \in Command, Create(c)
    PROVE  Order'
<1> USE DEF IInv, Order
<1>1. PICK k \in Numbers, n \in Nat : k = boxes + 1 /\ n = dispatched + 1
  BY DEF Create, Dispatch, TypeOK, Numbers, MailboxAssumption
<1>2. /\ dispatched' = n /\ executed' = executed
      /\ mailbox' = [mailbox EXCEPT ![c.session] = k]
      /\ worker' = [worker EXCEPT ![k] = [NoWorker EXCEPT !.at = "receive"]]
      /\ queue' = [queue EXCEPT ![k] = <<Job(n, c)>>]
  BY <1>1 DEF Create, Dispatch
<1>3. /\ dispatched \in Nat /\ executed \in [Sessions -> 0..MaxRequests]
      /\ boxes \in Nat /\ mailbox \in [Sessions -> 0..boxes]
      /\ queue \in [Numbers -> Seq(Jobs)] /\ worker \in [Numbers -> Workers]
  BY DEF TypeOK, MailboxAssumption
<1>4. /\ queue'[k] = <<Job(n, c)>> /\ worker'[k].at = "receive"
      /\ \A e \in Numbers : e # k => queue'[e] = queue[e] /\ worker'[e] = worker[e]
  BY <1>2, <1>3 DEF NoWorker
<1>5. DOMAIN queue'[k] = {1} /\ queue'[k][1].n = n
  BY <1>4 DEF Job
<1>6. ASSUME NEW t \in Sessions
      PROVE  /\ executed[t] \in Nat /\ executed[t] <= dispatched'/\ executed[t] < n
             /\ mailbox'[t] = k \/ (mailbox'[t] = mailbox[t] /\ mailbox[t] # k)
  <2>1. executed[t] \in Nat /\ executed[t] <= dispatched
    BY <1>3 DEF ExecutedIsPast, MailboxAssumption
  <2>2. mailbox[t] # k
    BY <1>1, <1>3
  <2>3. QED
    BY <2>1, <2>2, <1>1, <1>2, <1>3
<1>7. QueuesAscend'
  <2>1. ASSUME NEW e \in Numbers, NEW j \in DOMAIN queue'[e]
        PROVE  /\ queue'[e][j].n <= dispatched'
               /\ \A i \in 1..(j - 1) : queue'[e][i].n < queue'[e][j].n
    <3>1. CASE e # k
      <4>1. queue'[e] = queue[e]
        BY <3>1, <1>4
      <4>2. queue[e][j].n \in Nat /\ queue[e][j].n <= dispatched
        BY <2>1, <4>1, JobsAreNumbered DEF QueuesAscend
      <4>3. queue[e][j].n <= dispatched'
        BY <4>2, <1>1, <1>2, <1>3
      <4>4. QED
        BY <2>1, <4>1, <4>3 DEF QueuesAscend
    <3>2. CASE e = k
      <4>1. j = 1 /\ queue'[e][j].n = n
        BY <3>2, <2>1, <1>5
      <4>2. QED
        BY <4>1, <1>2
    <3>3. QED
      BY <3>1, <3>2
  <2>2. QED
    BY <2>1 DEF QueuesAscend
<1>8. ServedIsOldest'
  <2>1. ASSUME NEW e \in Numbers, Serving(e)'
        PROVE  /\ worker'[e].job.n <= dispatched'
               /\ \A j \in DOMAIN queue'[e] : worker'[e].job.n < queue'[e][j].n
    <3>1. queue'[e] = queue[e] /\ worker'[e] = worker[e] /\ Serving(e)
      BY <2>1, <1>4 DEF Serving
    <3>2. worker[e].job.n \in Nat /\ worker[e].job.n <= dispatched
      BY <3>1, JobsAreNumbered DEF ServedIsOldest
    <3>3. worker[e].job.n <= dispatched'
      BY <3>2, <1>1, <1>2, <1>3
    <3>4. QED
      BY <3>1, <3>3 DEF ServedIsOldest
  <2>2. QED
    BY <2>1 DEF ServedIsOldest
<1>9. ExecutedIsPast'
  <2>1. ASSUME NEW t \in Sessions, NEW e \in Numbers, mailbox'[t] = e
        PROVE  /\ \A j \in DOMAIN queue'[e] : executed[t] < queue'[e][j].n
               /\ worker'[e].at \in {"handle", "execute"} => executed[t] < worker'[e].job.n
    <3>1. CASE e = k
      BY <3>1, <1>4, <1>5, <1>6
    <3>2. CASE e # k
      <4>1. mailbox[t] = e /\ queue'[e] = queue[e] /\ worker'[e] = worker[e]
        BY <3>2, <2>1, <1>4, <1>6
      <4>2. QED
        BY <4>1 DEF ExecutedIsPast
    <3>3. QED
      BY <3>1, <3>2
  <2>2. QED
    BY <2>1, <1>2, <1>6 DEF ExecutedIsPast
<1>10. QED
  BY <1>7, <1>8, <1>9

LEMMA TakeOrder ==
    ASSUME MailboxAssumption, IInv, Order, NEW b \in Numbers, Receive(b) \/ TakeQueued(b)
    PROVE  Order'
<1> USE DEF IInv, Order
<1>1. /\ queue[b] # <<>>
      /\ worker' = [worker EXCEPT ![b].at = "handle", ![b].job = Head(queue[b])]
      /\ queue' = [queue EXCEPT ![b] = Tail(@)]
      /\ dispatched' = dispatched /\ mailbox' = mailbox /\ executed' = executed
  BY DEF Receive, TakeQueued, TakeFirst, calls
<1>2. /\ queue \in [Numbers -> Seq(Jobs)] /\ worker \in [Numbers -> Workers]
      /\ queue[b] \in Seq(Jobs)
  BY DEF TypeOK
<1>3. /\ worker'[b].job = Head(queue[b]) /\ queue'[b] = Tail(queue[b])
      /\ \A e \in Numbers : e # b => worker'[e] = worker[e] /\ queue'[e] = queue[e]
  BY <1>1, <1>2 DEF Workers
<1>4. /\ 1 \in DOMAIN queue[b] /\ worker'[b].job = queue[b][1]
      /\ \A j \in DOMAIN queue'[b] :
            /\ j \in Nat \ {0} /\ j + 1 \in DOMAIN queue[b] /\ queue'[b][j] = queue[b][j + 1]
            /\ \A i \in 1..(j - 1) : i \in DOMAIN queue'[b] /\ queue'[b][i] = queue[b][i + 1]
  <2>1. /\ Len(queue[b]) \in Nat \ {0} /\ DOMAIN queue[b] = 1..Len(queue[b])
        /\ DOMAIN Tail(queue[b]) = 1..(Len(queue[b]) - 1) /\ Head(queue[b]) = queue[b][1]
    BY <1>1, <1>2
  <2>2. \A i \in 1..(Len(queue[b]) - 1) : Tail(queue[b])[i] = queue[b][i + 1]
    BY <1>1, <1>2
  <2>3. QED
    BY <2>1, <2>2, <1>3
<1>5. QueuesAscend'
  <2>1. ASSUME NEW j \in DOMAIN queue'[b]
        PROVE  /\ queue'[b][j].n <= dispatched
               /\ \A i \in 1..(j - 1) : queue'[b][i].n < queue'[b][j].n
    <3>1. /\ queue[b][j + 1].n <= dispatched
          /\ \A i \in 1..((j + 1) - 1) : queue[b][i].n < queue[b][j + 1].n
      BY <1>4 DEF QueuesAscend
    <3>2. \A i \in 1..(j - 1) : i + 1 \in 1..((j + 1) - 1) /\ queue'[b][i] = queue[b][i + 1]
      BY <1>4
    <3>3. QED
      BY <1>4, <3>1, <3>2
  <2>2. ASSUME NEW e \in Numbers, e # b, NEW j \in DOMAIN queue'[e]
        PROVE  /\ queue'[e][j].n <= dispatched
               /\ \A i \in 1..(j - 1) : queue'[e][i].n < queue'[e][j].n
    BY <2>2, <1>3 DEF QueuesAscend
  <2>3. QED
    BY <2>1, <2>2, <1>1 DEF QueuesAscend
<1>6. ServedIsOldest'
  <2>1. ASSUME NEW j \in DOMAIN queue'[b] PROVE worker'[b].job.n < queue'[b][j].n
    <3>1. \A i \in 1..((j + 1) - 1) : queue[b][i].n < queue[b][j + 1].n
      BY <1>4 DEF QueuesAscend
    <3>2. 1 \in 1..((j + 1) - 1)
      BY <1>4
    <3>3. QED
      BY <1>4, <3>1, <3>2
  <2>2. worker'[b].job.n <= dispatched
    BY <1>4 DEF QueuesAscend
  <2>3. ASSUME NEW e \in Numbers, e # b, Serving(e)'
        PROVE  /\ worker'[e].job.n <= dispatched
               /\ \A j \in DOMAIN queue'[e] : worker'[e].job.n < queue'[e][j].n
    BY <2>3, <1>3 DEF ServedIsOldest, Serving
  <2>4. QED
    BY <2>1, <2>2, <2>3, <1>1 DEF ServedIsOldest
<1>7. ExecutedIsPast'
  <2>1. ASSUME NEW t \in Sessions, NEW e \in Numbers, mailbox[t] = e
        PROVE  /\ \A j \in DOMAIN queue'[e] : executed[t] < queue'[e][j].n
               /\ worker'[e].at \in {"handle", "execute"} => executed[t] < worker'[e].job.n
    <3>1. CASE e = b
      <4>1. \A j \in DOMAIN queue[b] : executed[t] < queue[b][j].n
        BY <3>1, <2>1 DEF ExecutedIsPast
      <4>2. executed[t] < worker'[b].job.n
        BY <4>1, <1>4
      <4>3. \A j \in DOMAIN queue'[b] : executed[t] < queue'[b][j].n
        BY <4>1, <1>4
      <4>4. QED
        BY <3>1, <4>2, <4>3
    <3>2. CASE e # b
      BY <3>2, <2>1, <1>3 DEF ExecutedIsPast
    <3>3. QED
      BY <3>1, <3>2
  <2>2. QED
    BY <2>1, <1>1 DEF ExecutedIsPast
<1>8. QED
  BY <1>5, <1>6, <1>7

\* What an execution changes: it is for the session the worker is registered for.
LEMMA ExecutedFor ==
    ASSUME MailboxAssumption, IInv, Order, NEW b \in Numbers, Execute(b)
    PROVE  \E s \in Sessions :
              /\ mailbox[s] = b /\ \A t \in Sessions : t # s => mailbox[t] # b
              /\ executed' = [executed EXCEPT ![s] = worker[b].job.n]
              /\ executed[s] < worker[b].job.n
<1> USE DEF IInv, Order
<1>1. Serving(b) /\ worker[b].at = "execute"
  BY DEF Execute, Serving
<1>2. PICK s \in Sessions : mailbox[s] = b /\ \A t \in Sessions : t # s => mailbox[t] # b
  BY <1>1, ServedSession
<1>3. Session(b) = s
  BY <1>1, <1>2 DEF MailIsDelivered
<1>4. executed' = [executed EXCEPT ![s] = worker[b].job.n]
  BY <1>3 DEF Execute, Session
<1>5. executed[s] < worker[b].job.n
  BY <1>1, <1>2 DEF ExecutedIsPast
<1>6. QED
  BY <1>2, <1>4, <1>5

LEMMA ExecuteOrder ==
    ASSUME MailboxAssumption, IInv, Order, NEW b \in Numbers, Execute(b)
    PROVE  Order'
<1> USE DEF IInv, Order
<1>1. /\ Serving(b) /\ queue' = queue /\ dispatched' = dispatched /\ mailbox' = mailbox
      /\ executed \in [Sessions -> 0..MaxRequests]
  BY DEF Execute, Serving, calls, registry, TypeOK
<1>2. PICK s \in Sessions :
        /\ mailbox[s] = b /\ \A t \in Sessions : t # s => mailbox[t] # b
        /\ executed' = [executed EXCEPT ![s] = worker[b].job.n]
  BY ExecutedFor
<1>3. /\ worker'[b].at \in {"end", "respond"} /\ worker'[b].job = worker[b].job
      /\ \A e \in Numbers : e # b => worker'[e] = worker[e]
  <2>1. PICK ok \in BOOLEAN, after \in Runtimes \cup {None} :
          worker' = [worker EXCEPT ![b].ran = TRUE, ![b].ok = ok,
                             ![b].found = IF Cmd(b).kind = "attach" THEN after ELSE None,
                             ![b].at = IF Starts(b) /\ ~ok THEN "end" ELSE "respond"]
    BY Zenon DEF Execute
  <2>2. worker \in [Numbers -> Workers]
    BY DEF TypeOK
  <2>3. QED
    BY <2>1, <2>2 DEF Workers
<1>4. QueuesAscend'
  BY <1>1 DEF QueuesAscend
<1>5. ServedIsOldest'
  <2>1. \A e \in Numbers : Serving(e)' => Serving(e) /\ worker'[e].job = worker[e].job
    BY <1>1, <1>3 DEF Serving
  <2>2. QED
    BY <2>1, <1>1 DEF ServedIsOldest
<1>6. ExecutedIsPast'
  <2>1. executed'[s] = worker[b].job.n /\ \A t \in Sessions : t # s => executed'[t] = executed[t]
    BY <1>1, <1>2
  <2>2. ASSUME NEW t \in Sessions PROVE executed'[t] <= dispatched
    <3>1. worker[b].job.n <= dispatched
      BY <1>1 DEF ServedIsOldest
    <3>2. QED
      BY <2>1, <3>1 DEF ExecutedIsPast
  <2>3. ASSUME NEW t \in Sessions, NEW e \in Numbers, mailbox[t] = e
        PROVE  /\ \A j \in DOMAIN queue[e] : executed'[t] < queue[e][j].n
               /\ worker'[e].at \in {"handle", "execute"} => executed'[t] < worker'[e].job.n
    <3>1. CASE t = s
      BY <3>1, <2>1, <2>3, <1>1, <1>2, <1>3 DEF ServedIsOldest
    <3>2. CASE t # s
      <4>1. e # b /\ executed'[t] = executed[t] /\ worker'[e] = worker[e]
        BY <3>2, <2>1, <2>3, <1>2, <1>3
      <4>2. QED
        BY <4>1, <2>3 DEF ExecutedIsPast
    <3>3. QED
      BY <3>1, <3>2
  <2>4. QED
    BY <2>2, <2>3, <1>1 DEF ExecutedIsPast
<1>7. QED
  BY <1>4, <1>5, <1>6

\* The other steps of a worker.
LEMMA QuietOrder ==
    ASSUME MailboxAssumption, IInv, Order, NEW b \in Numbers,
           AnswerAgain(b) \/ Begin(b) \/ EndFailedStart(b) \/ Respond(b) \/ Settle(b)
             \/ Retire(b) \/ Die(b)
    PROVE  Order'
<1> USE DEF IInv
<1>1. /\ executed' = executed /\ dispatched' = dispatched /\ dispatched \in Nat
      /\ worker \in [Numbers -> Workers] /\ queue \in [Numbers -> Seq(Jobs)]
  BY DEF AnswerAgain, Begin, EndFailedStart, Respond, Settle, Retire, Die, calls, registry,
         TypeOK, MailboxAssumption
<1>2. \A e \in Numbers : queue'[e] = queue[e] \/ queue'[e] = <<>>
  BY <1>1 DEF AnswerAgain, Begin, EndFailedStart, Respond, Settle, Retire, Die, registry
<1>3. \A t \in Sessions : mailbox'[t] = mailbox[t] \/ mailbox'[t] = 0
  BY DEF AnswerAgain, Begin, EndFailedStart, Respond, Settle, Retire, Unregister, Die, registry
<1>4. /\ \A e \in Numbers : e # b => worker'[e] = worker[e]
      /\ worker'[b].at \in {"execute", "respond", "settle"}
              => worker'[b].job = worker[b].job /\ Serving(b)
      /\ worker'[b].at \notin {"handle", "end"}
      /\ worker'[b].at = "execute" => worker[b].at = "handle"
  <2>1. CASE AnswerAgain(b)
    BY <2>1, <1>1 DEF AnswerAgain, Workers, Serving
  <2>2. CASE Begin(b)
    BY <2>2, <1>1 DEF Begin, Go, Workers, Serving
  <2>3. CASE EndFailedStart(b)
    BY <2>3, <1>1 DEF EndFailedStart, Go, Workers, Serving
  <2>4. CASE Respond(b)
    BY <2>4, <1>1 DEF Respond, Go, Workers, Serving
  <2>5. CASE Settle(b)
    BY <2>5, <1>1 DEF Settle, NoWorker
  <2>6. CASE Retire(b) \/ Die(b)
    BY <2>6, <1>1 DEF Retire, Die, NoWorker, Go, Workers
  <2>7. QED
    BY <2>1, <2>2, <2>3, <2>4, <2>5, <2>6
<1>5. \A e \in Numbers : Serving(e)' => Serving(e) /\ worker'[e].job = worker[e].job
  BY <1>4 DEF Serving
<1>6. \A e \in Numbers : worker'[e].at \in {"handle", "execute"}
                              => worker[e].at \in {"handle", "execute"}
  BY <1>4
<1>7. QED
  BY <1>1, <1>2, <1>3, <1>5, <1>6, SameOrder

LEMMA StillOrder ==
    ASSUME MailboxAssumption, IInv, Order, dispatched' \in Nat, dispatched <= dispatched',
           UNCHANGED <<queue, worker, executed>>,
           \A t \in Sessions : mailbox'[t] = mailbox[t] \/ mailbox'[t] = 0
    PROVE  Order'
  BY SameOrder DEF Serving

LEMMA NextOrder == ASSUME MailboxAssumption, IInv, Order, [Next]_vars PROVE Order'
<1>1. dispatched \in Nat /\ mailbox \in [Sessions -> 0..boxes]
  BY DEF IInv, TypeOK, MailboxAssumption
<1>2. ASSUME NEW c \in Command, Refuse(c) PROVE Order'
  <2>1. UNCHANGED <<queue, worker, executed>> /\ dispatched' = dispatched + 1
    BY <1>2 DEF Refuse, Dispatch
  <2>2. \A t \in Sessions : mailbox'[t] = mailbox[t] \/ mailbox'[t] = 0
    BY <1>1, <1>2 DEF Refuse
  <2>3. QED
    BY <2>1, <2>2, <1>1, StillOrder
<1>3. ASSUME NEW c \in Command, Join(c) \/ Create(c) PROVE Order'
  BY <1>3, JoinOrder, CreateOrder
<1>4. ASSUME NEW b \in Numbers, Work(b) \/ Die(b) PROVE Order'
  BY <1>4, TakeOrder, ExecuteOrder, QuietOrder DEF Work
<1>5. ASSUME NEW s \in Sessions, RemoveProject(s) PROVE Order'
  BY <1>5, <1>1, StillOrder DEF RemoveProject, calls, registry
<1>6. CASE UNCHANGED vars
  BY <1>6, <1>1, StillOrder DEF vars, calls, registry
<1>7. QED
  BY <1>2, <1>3, <1>4, <1>5, <1>6 DEF Next

\* A session's commands are executed in the order in which they were dispatched,
\* whichever workers came and went between them.
THEOREM CommandsInOrder == Spec => InOrder
<1>1. Init => Order
  <2>1. ASSUME Init
        PROVE  /\ \A b \in Numbers : queue[b] = <<>> /\ ~Serving(b)
               /\ worker = [b \in Numbers |-> NoWorker]
               /\ executed = [s \in Sessions |-> 0] /\ dispatched = 0
    BY <2>1 DEF Init, Serving, NoWorker
  <2>2. QED
    BY <2>1 DEF Order, QueuesAscend, ServedIsOldest, ExecutedIsPast, NoWorker
<1>2. IInv /\ Order /\ [Next]_vars => Order'
  BY MailboxAssumption, NextOrder
<1>3. ASSUME IInv, Order, [Next]_vars, NEW s \in Sessions, executed'[s] # executed[s]
      PROVE  executed'[s] > executed[s]
  <2>1. PICK b \in Numbers : Execute(b)
    BY <1>3 DEF Next, vars, Join, Create, Refuse, Dispatch, Work, Receive, AnswerAgain, Begin,
       EndFailedStart, Respond, Settle, TakeQueued, Retire, Die, RemoveProject
  <2>2. PICK t \in Sessions : /\ executed' = [executed EXCEPT ![t] = worker[b].job.n]
                              /\ executed[t] < worker[b].job.n
    BY <2>1, <1>3, MailboxAssumption, ExecutedFor
  <2>3. executed \in [Sessions -> 0..MaxRequests]
    BY <1>3 DEF IInv, TypeOK
  <2>4. s = t /\ executed'[s] = worker[b].job.n
    BY <1>3, <2>2, <2>3
  <2>5. QED
    BY <2>2, <2>4
<1>4. IInv /\ Order /\ [Next]_vars
        => [\A s \in Sessions : executed'[s] # executed[s] => executed'[s] > executed[s]]_vars
  BY <1>3
<1>5. QED
  BY <1>1, <1>2, <1>4, MailboxInvariant, PTL DEF Spec, InOrder

-----------------------------------------------------------------------------
(* The drivers are supervised: a driver the backend keeps is heard *)

\* The start the worker serves has made its runtime the session's.
Starting(b) ==
    /\ Starts(b)
    /\ \/ worker[b].at \in {"execute", "end"}
       \/ worker[b].at \in {"respond", "settle"} /\ worker[b].ran

\* What holds of the worker of a session that has a driver, at each of its steps:
\* the hub delivers the driver's events, and the worker holds the runtime, or
\* will, or is about to learn it.
Supervises(b, s) ==
    IF Serving(b) /\ Starting(b)
    THEN /\ worker[b].at # "end" /\ active[s] = Cmd(b).run
         /\ worker[b].at # "execute" => worker[b].ok /\ driver[s] = Cmd(b).run
    ELSE /\ active[s] = driver[s] /\ worker[b].held = driver[s]
         /\ worker[b].at \in {"respond", "settle"} /\ worker[b].ran =>
                ~Closed(b) /\ (Cmd(b).kind = "attach" => worker[b].found = driver[s])

\* A worker of the session died in the middle of a command.
Lost(s) == \E b \in Numbers : Died(b) /\ Session(b) = s

Kept(s) ==
    /\ mailbox[s] # 0 => Open(mailbox[s])
    /\ driver[s] # None => mailbox[s] # 0 /\ Supervises(mailbox[s], s)

Heard(s) == Lost(s) \/ Kept(s)

\* A worker about to retire holds no runtime; only a start is undone; and what a
\* start executes was made the active runtime first.
WorkersAreReady ==
    \A b \in Numbers :
        /\ worker[b].at = "retire" => worker[b].held = None
        /\ worker[b].at = "end" => Starts(b)
        /\ worker[b].at = "execute" /\ Starts(b) => active[Session(b)] = Cmd(b).run

SupervisedInv ==
    /\ WorkersAreReady
    /\ \A s \in Sessions \ Terminals : Heard(s)

LEMMA InitSupervised == ASSUME MailboxAssumption, Init PROVE SupervisedInv
<1>1. \A b \in Numbers : worker[b].at = "none"
  BY DEF Init, NoWorker
<1>2. \A s \in Sessions : mailbox[s] = 0 /\ driver[s] = None
  BY DEF Init
<1>3. QED
  BY <1>1, <1>2 DEF SupervisedInv, WorkersAreReady, Heard, Kept

-----------------------------------------------------------------------------
(* One worker at a time, and what it leaves of the others *)

LEMMA OneServes ==
    ASSUME MailboxAssumption, IInv, NEW b \in Numbers, NEW e \in Numbers,
           Serving(b), Serving(e), Session(b) = Session(e)
    PROVE  b = e
<1>1. PICK s \in Sessions : mailbox[s] = b
  BY ServedSession
<1>2. PICK t \in Sessions : mailbox[t] = e
  BY ServedSession
<1>3. Session(b) = s /\ Session(e) = t
  BY <1>1, <1>2 DEF IInv, MailIsDelivered
<1>4. QED
  BY <1>1, <1>2, <1>3

\* A worker that was created and has not ended is registered for one session.
LEMMA ServedFor ==
    ASSUME MailboxAssumption, IInv, NEW b \in Numbers, Open(b)
    PROVE  \E s \in Sessions : /\ mailbox[s] = b
                               /\ Serving(b) => Session(b) = s
                               /\ \A t \in Sessions : t # s => mailbox[t] # b
<1>1. PICK s \in Sessions : mailbox[s] = b
  BY DEF IInv, NothingStranded
<1>2. b # 0
  BY DEF Open
<1>3. \A t \in Sessions : t # s => mailbox[t] # b
  BY <1>1, <1>2 DEF IInv, OneSessionEach
<1>4. Serving(b) => Session(b) = s
  BY <1>1 DEF IInv, MailIsDelivered
<1>5. QED
  BY <1>1, <1>3, <1>4

\* A worker that died stays as it is.
LEMMA LostForever ==
    ASSUME NEW s,
           \A b \in Numbers : worker[b].at = "gone" => worker'[b] = worker[b]
    PROVE  Lost(s) => Lost(s)'
  BY DEF Lost, Died, Session, Cmd

\* A session whose mailbox, runtimes and worker are left alone.
LEMMA SameSession ==
    ASSUME NEW s \in Sessions, Heard(s),
           \A b \in Numbers : worker[b].at = "gone" => worker'[b] = worker[b],
           mailbox'[s] = mailbox[s], active'[s] = active[s], driver'[s] = driver[s],
           mailbox[s] # 0 => worker'[mailbox[s]] = worker[mailbox[s]]
    PROVE  Heard(s)'
<1>1. Lost(s) => Lost(s)'
  BY LostForever
<1>2. ASSUME Kept(s), mailbox[s] # 0 PROVE Kept(s)'
  <2> DEFINE b == mailbox[s]
  <2>1. b' = b /\ worker'[b] = worker[b] /\ b # 0
    BY <1>2
  <2> HIDE DEF b
  <2>2. Open(b) /\ (driver[s] # None => Supervises(b, s))
    BY <1>2 DEF Kept, b
  <2>3. Open(b)'
    BY <2>1, <2>2 DEF Open
  <2>4. Supervises(b, s) => Supervises(b, s)'
    BY <2>1 DEF Supervises, Serving, Starting, Starts, Closed, Cmd
  <2>5. QED
    BY <2>1, <2>2, <2>3, <2>4 DEF Kept, b
<1>3. ASSUME Kept(s), mailbox[s] = 0 PROVE Kept(s)'
  BY <1>3 DEF Kept
<1>4. QED
  BY <1>1, <1>2, <1>3 DEF Heard

\* A step of one worker, for the sessions it is not registered for.
LEMMA OtherSessions ==
    ASSUME MailboxAssumption, IInv, SupervisedInv, NEW b \in Numbers, NEW s \in Sessions,
           mailbox[s] = b, \A t \in Sessions : t # s => mailbox[t] # b,
           worker[b].at # "gone", mailbox' = mailbox,
           \A e \in Numbers : e # b => worker'[e] = worker[e],
           \A t \in Sessions : t # s => active'[t] = active[t] /\ driver'[t] = driver[t],
           s \notin Terminals /\ Kept(s) => Heard(s)'
    PROVE  \A t \in Sessions \ Terminals : Heard(t)'
<1>1. \A e \in Numbers : worker[e].at = "gone" => worker'[e] = worker[e]
  OBVIOUS
<1>2. ASSUME NEW t \in Sessions \ Terminals, t # s PROVE Heard(t)'
  <2>1. mailbox[t] \in Numbers \cup {0} /\ mailbox[t] # b
    BY <1>2 DEF IInv, TypeOK, Numbers, MailboxAssumption
  <2>2. mailbox[t] # 0 => worker'[mailbox[t]] = worker[mailbox[t]]
    BY <2>1
  <2>3. Heard(t) /\ mailbox'[t] = mailbox[t] /\ active'[t] = active[t] /\ driver'[t] = driver[t]
    BY <1>2 DEF SupervisedInv
  <2>4. QED
    BY <1>1, <2>2, <2>3, SameSession
<1>3. ASSUME s \notin Terminals PROVE Heard(s)'
  <2>1. CASE Kept(s)
    BY <1>3, <2>1
  <2>2. CASE Lost(s)
    BY <1>1, <2>2, LostForever DEF Heard
  <2>3. QED
    BY <1>3, <2>1, <2>2 DEF SupervisedInv, Heard
<1>4. QED
  BY <1>2, <1>3

\* A step of one worker leaves the others ready.
LEMMA OtherWorkersReady ==
    ASSUME MailboxAssumption, IInv, WorkersAreReady, NEW b \in Numbers,
           \A e \in Numbers : e # b => worker'[e] = worker[e],
           \/ active' = active
           \/ Serving(b) /\ \A t \in Sessions : t # Session(b) => active'[t] = active[t],
           worker'[b].at = "retire" => worker'[b].held = None,
           worker'[b].at = "end" => Starts(b)',
           worker'[b].at = "execute" /\ Starts(b)' => active'[Session(b)'] = Cmd(b)'.run
    PROVE  WorkersAreReady'
<1>1. ASSUME NEW e \in Numbers, e # b
      PROVE  /\ worker'[e].at = "retire" => worker'[e].held = None
             /\ worker'[e].at = "end" => Starts(e)'
    BY <1>1 DEF WorkersAreReady, Starts, Cmd
<1>2. ASSUME NEW e \in Numbers, e # b, worker'[e].at = "execute", Starts(e)'
      PROVE  active'[Session(e)'] = Cmd(e)'.run
  <2>1. /\ worker[e].at = "execute" /\ Starts(e) /\ Session(e)' = Session(e) /\ Cmd(e)' = Cmd(e)
        /\ Serving(e)
    BY <1>2 DEF Starts, Session, Cmd, Serving
  <2>2. active[Session(e)] = Cmd(e).run
    BY <2>1 DEF WorkersAreReady
  <2>3. Session(e) \in Sessions
    BY <2>1 DEF IInv, JobsAreNamed, Named, Jobs, Command, Session, Cmd
  <2>4. Serving(b) => Session(e) # Session(b)
    BY <1>2, <2>1, OneServes
  <2>5. active'[Session(e)] = active[Session(e)]
    BY <2>3, <2>4
  <2>6. QED
    BY <2>1, <2>2, <2>5
<1>3. QED
  BY <1>1, <1>2 DEF WorkersAreReady

-----------------------------------------------------------------------------
(* The steps of a worker *)

LEMMA TakeSupervised ==
    ASSUME MailboxAssumption, IInv, SupervisedInv, NEW b \in Numbers, Receive(b) \/ TakeQueued(b)
    PROVE  SupervisedInv'
<1>1. /\ worker[b].at \in {"receive", "retire"}
      /\ worker' = [worker EXCEPT ![b].at = "handle", ![b].job = Head(queue[b])]
      /\ UNCHANGED <<mailbox, active, driver>>
  BY DEF Receive, TakeQueued, TakeFirst, runtimes
<1>2. /\ worker'[b].at = "handle" /\ worker'[b].held = worker[b].held
      /\ \A e \in Numbers : e # b => worker'[e] = worker[e]
  BY <1>1 DEF IInv, TypeOK, Workers
<1>3. PICK s \in Sessions : mailbox[s] = b /\ \A t \in Sessions : t # s => mailbox[t] # b
  BY <1>1, ServedFor DEF Open, Numbers
<1>4. ASSUME Kept(s) PROVE Heard(s)'
  <2>1. driver[s] # None => active[s] = driver[s] /\ worker[b].held = driver[s]
    BY <1>1, <1>3, <1>4 DEF Kept, Supervises, Serving
  <2>2. Open(b)' /\ ~Starting(b)' /\ b # 0
    BY <1>2 DEF Open, Starting, Numbers
  <2>3. driver[s] # None => Supervises(b, s)'
    BY <1>1, <1>2, <2>1, <2>2 DEF Supervises
  <2>4. Kept(s)'
    BY <1>1, <1>3, <2>2, <2>3 DEF Kept
  <2>5. QED
    BY <2>4 DEF Heard
<1>5. WorkersAreReady'
  BY <1>1, <1>2, OtherWorkersReady DEF SupervisedInv
<1>6. QED
  BY <1>1, <1>2, <1>3, <1>4, <1>5, OtherSessions DEF SupervisedInv

\* The steps of a worker that changes neither the runtimes nor what it serves.
LEMMA AnswerSupervised ==
    ASSUME MailboxAssumption, IInv, SupervisedInv, NEW b \in Numbers, AnswerAgain(b) \/ Respond(b)
    PROVE  SupervisedInv'
<1>1. /\ Serving(b) /\ worker[b].at \in {"handle", "respond"}
      /\ UNCHANGED <<mailbox, active, driver>>
  BY DEF AnswerAgain, Respond, Serving, runtimes, registry
<1>2. /\ \A e \in Numbers : e # b => worker'[e] = worker[e]
      /\ worker'[b].at \in {"respond", "settle"} /\ worker'[b].job = worker[b].job
      /\ worker'[b].held = worker[b].held /\ worker'[b].found = worker[b].found
      /\ worker'[b].ok = worker[b].ok
      /\ worker'[b].ran => worker[b].ran /\ worker[b].at = "respond"
      /\ worker[b].at = "respond" => worker'[b].ran = worker[b].ran
  <2>1. worker \in [Numbers -> Workers]
    BY DEF IInv, TypeOK
  <2>2. CASE AnswerAgain(b)
    BY <2>1, <2>2 DEF AnswerAgain, Workers
  <2>3. CASE Respond(b)
    BY <2>1, <2>3 DEF Respond, Go, Workers
  <2>4. QED
    BY <2>2, <2>3
<1>3. PICK s \in Sessions : mailbox[s] = b /\ \A t \in Sessions : t # s => mailbox[t] # b
  BY <1>1, ServedSession
<1>4. ASSUME Kept(s) PROVE Heard(s)'
  <2>1. Open(b)' /\ b # 0 /\ Serving(b)'
    BY <1>2 DEF Open, Numbers, Serving
  <2>2. ASSUME driver[s] # None PROVE Supervises(b, s)'
    <3>1. Supervises(b, s)
      BY <1>3, <1>4, <2>2 DEF Kept
    <3>2. Starting(b)' <=> Starting(b)
      BY <1>1, <1>2 DEF Starting, Starts, Cmd
    <3>3. CASE Starting(b)
      BY <1>1, <1>2, <2>1, <3>1, <3>2, <3>3 DEF Supervises, Cmd
    <3>4. CASE ~Starting(b)
      BY <1>1, <1>2, <2>1, <3>1, <3>2, <3>4 DEF Supervises, Cmd, Closed
    <3>5. QED
      BY <3>3, <3>4
  <2>3. Kept(s)'
    BY <1>1, <1>3, <2>1, <2>2 DEF Kept
  <2>4. QED
    BY <2>3 DEF Heard
<1>5. WorkersAreReady'
  BY <1>1, <1>2, OtherWorkersReady DEF SupervisedInv
<1>6. QED
  BY <1>1, <1>2, <1>3, <1>4, <1>5, OtherSessions, ServingIsOpen DEF SupervisedInv, Open

LEMMA BeginSupervised ==
    ASSUME MailboxAssumption, IInv, SupervisedInv, NEW b \in Numbers, Begin(b)
    PROVE  SupervisedInv'
<1>1. /\ Serving(b) /\ worker[b].at = "handle"
      /\ UNCHANGED <<mailbox, driver>>
      /\ active' = IF Starts(b) THEN [active EXCEPT ![Session(b)] = Cmd(b).run] ELSE active
  BY DEF Begin, Serving, registry
<1>2. /\ worker'[b] = [worker[b] EXCEPT !.at = "execute"]
      /\ worker'[b].at = "execute" /\ worker'[b].job = worker[b].job
      /\ worker'[b].held = worker[b].held
      /\ \A e \in Numbers : e # b => worker'[e] = worker[e]
  BY DEF Begin, Go, IInv, TypeOK, Workers
<1>3. PICK s \in Sessions : mailbox[s] = b /\ \A t \in Sessions : t # s => mailbox[t] # b
  BY <1>1, ServedSession
<1>4. Session(b) = s
  BY <1>1, <1>3 DEF IInv, MailIsDelivered
<1>5. /\ Starts(b) => active'[s] = Cmd(b).run
      /\ ~Starts(b) => active' = active
      /\ \A t \in Sessions : t # s => active'[t] = active[t]
  BY <1>1, <1>4 DEF IInv, TypeOK
<1>6. Starts(b)' = Starts(b) /\ Cmd(b)' = Cmd(b) /\ Session(b)' = s
  BY <1>2, <1>4 DEF Starts, Cmd, Session
<1>7. ASSUME Kept(s) PROVE Heard(s)'
  <2>1. Open(b)' /\ b # 0 /\ Serving(b)' /\ (Starting(b)' <=> Starts(b)) /\ ~Starting(b)
    BY <1>1, <1>2, <1>6 DEF Open, Numbers, Serving, Starting
  <2>2. ASSUME driver[s] # None PROVE Supervises(b, s)'
    <3>1. active[s] = driver[s] /\ worker[b].held = driver[s]
      BY <1>1, <1>3, <1>7, <2>1, <2>2 DEF Kept, Supervises
    <3>2. CASE Starts(b)
      BY <1>2, <1>5, <1>6, <2>1, <3>2 DEF Supervises
    <3>3. CASE ~Starts(b)
      BY <1>1, <1>2, <1>5, <2>1, <3>1, <3>3 DEF Supervises
    <3>4. QED
      BY <3>2, <3>3
  <2>3. Kept(s)'
    BY <1>1, <1>3, <2>1, <2>2 DEF Kept
  <2>4. QED
    BY <2>3 DEF Heard
<1>8. WorkersAreReady'
  BY <1>1, <1>2, <1>4, <1>5, <1>6, OtherWorkersReady DEF SupervisedInv
<1>9. QED
  BY <1>1, <1>2, <1>3, <1>5, <1>7, <1>8, OtherSessions DEF SupervisedInv

\* A command other than a start leaves a driver only if it is the one there was;
\* and then it closed nothing, and an attach has found it.
LEMMA DriverRemains ==
    ASSUME IInv, NEW b \in Numbers, NEW s \in Sessions \ Terminals, Serving(b),
           Session(b) = s, ~Starts(b), worker[b].held = driver[s],
           NEW ok \in BOOLEAN, NEW after \in Runtimes \cup {None}, after # None,
           Outcome(Cmd(b), driver[s], ok, after)
    PROVE  /\ after = driver[s]
           /\ Cmd(b).kind = "remove" => ~ok
           /\ Cmd(b).kind = "close" => worker[b].held # Cmd(b).run
<1>1. Cmd(b).kind \in AllKinds \ {"start"} /\ Cmd(b).session = s
  BY DEF IInv, JobsAreNamed, Named, Jobs, Command, Cmd, Starts, Session
<1>2. QED
  BY <1>1 DEF Outcome, AllKinds

LEMMA ExecuteSupervised ==
    ASSUME MailboxAssumption, IInv, SupervisedInv, NEW b \in Numbers, Execute(b)
    PROVE  SupervisedInv'
<1>1. /\ Serving(b) /\ worker[b].at = "execute"
      /\ UNCHANGED <<mailbox, active>>
  BY DEF Execute, Serving, registry
<1>2. PICK ok \in BOOLEAN, after \in Runtimes \cup {None} :
        /\ Outcome(Cmd(b), driver[Session(b)], ok, after)
        /\ driver' = [driver EXCEPT ![Session(b)] = after]
        /\ worker' = [worker EXCEPT ![b].ran = TRUE, ![b].ok = ok,
                         ![b].found = IF Cmd(b).kind = "attach" THEN after ELSE None,
                         ![b].at = IF Starts(b) /\ ~ok THEN "end" ELSE "respond"]
  BY Zenon DEF Execute, Session
<1>3. /\ worker'[b].job = worker[b].job /\ worker'[b].held = worker[b].held
      /\ worker'[b].ran /\ worker'[b].ok = ok
      /\ worker'[b].found = IF Cmd(b).kind = "attach" THEN after ELSE None
      /\ worker'[b].at = IF Starts(b) /\ ~ok THEN "end" ELSE "respond"
      /\ \A e \in Numbers : e # b => worker'[e] = worker[e]
  <2>1. worker \in [Numbers -> Workers]
    BY DEF IInv, TypeOK
  <2>2. QED
    BY <1>2, <2>1 DEF Workers
<1>4. PICK s \in Sessions : mailbox[s] = b /\ \A t \in Sessions : t # s => mailbox[t] # b
  BY <1>1, ServedSession
<1>5. Session(b) = s
  BY <1>1, <1>4 DEF IInv, MailIsDelivered
<1>6. driver'[s] = after /\ \A t \in Sessions : t # s => driver'[t] = driver[t]
  BY <1>2, <1>5 DEF IInv, TypeOK
<1>7. Starts(b)' = Starts(b) /\ Cmd(b)' = Cmd(b) /\ Session(b)' = s
  BY <1>3, <1>5 DEF Starts, Cmd, Session
<1>8. ASSUME s \notin Terminals, Kept(s) PROVE Heard(s)'
  <2>1. Open(b)' /\ b # 0 /\ Serving(b)' /\ (Starting(b)' <=> Starts(b)) /\ (Starting(b) <=> Starts(b))
    BY <1>1, <1>3, <1>7 DEF Open, Numbers, Serving, Starting
  <2>2. ASSUME after # None PROVE Supervises(b, s)'
    <3>1. CASE Starts(b)
      <4>1. ok /\ after = Cmd(b).run
        BY <1>2, <1>5, <1>8, <2>2, <3>1 DEF Outcome, Starts, Session
      <4>2. active[s] = Cmd(b).run
        BY <1>1, <1>5, <3>1 DEF SupervisedInv, WorkersAreReady
      <4>3. QED
        BY <1>1, <1>3, <1>6, <1>7, <2>1, <3>1, <4>1, <4>2 DEF Supervises
    <3>2. CASE ~Starts(b)
      <4>1. Cmd(b).kind \in AllKinds \ {"start"} /\ Cmd(b).session = s
        BY <1>1, <1>5, <3>2 DEF IInv, JobsAreNamed, Named, Jobs, Command, Cmd, Starts, Session
      <4>2. driver[s] # None
        BY <1>2, <1>5, <2>2, <4>1 DEF Outcome
      <4>3. active[s] = driver[s] /\ worker[b].held = driver[s]
        BY <1>1, <1>4, <1>8, <2>1, <3>2, <4>2 DEF Kept, Supervises
      <4>4. /\ after = driver[s]
            /\ Cmd(b).kind = "remove" => ~ok
            /\ Cmd(b).kind = "close" => worker[b].held # Cmd(b).run
        BY <1>1, <1>2, <1>5, <1>8, <2>2, <3>2, <4>3, DriverRemains
      <4>5. ~Closed(b)'
        BY <1>3, <1>7, <4>4 DEF Closed
      <4>6. Cmd(b)'.kind = "attach" => worker'[b].found = driver'[s]
        BY <1>3, <1>6, <1>7
      <4>7. QED
        BY <1>1, <1>3, <1>6, <2>1, <3>2, <4>3, <4>4, <4>5, <4>6 DEF Supervises
    <3>3. QED
      BY <3>1, <3>2
  <2>3. Kept(s)'
    BY <1>1, <1>4, <1>6, <2>1, <2>2 DEF Kept
  <2>4. QED
    BY <2>3 DEF Heard
<1>9. WorkersAreReady'
  BY <1>1, <1>3, <1>7, OtherWorkersReady DEF SupervisedInv
<1>10. QED
  BY <1>1, <1>3, <1>4, <1>6, <1>8, <1>9, OtherSessions DEF SupervisedInv

LEMMA EndSupervised ==
    ASSUME MailboxAssumption, IInv, SupervisedInv, NEW b \in Numbers, EndFailedStart(b)
    PROVE  SupervisedInv'
<1>1. /\ Serving(b) /\ worker[b].at = "end" /\ Starts(b)
      /\ UNCHANGED <<mailbox, driver>>
      /\ EndRuntime(Session(b), Cmd(b).run)
  BY DEF EndFailedStart, Serving, registry, SupervisedInv, WorkersAreReady
<1>2. worker'[b].at = "respond" /\ \A e \in Numbers : e # b => worker'[e] = worker[e]
  BY DEF EndFailedStart, Go, IInv, TypeOK, Workers
<1>3. PICK s \in Sessions : mailbox[s] = b /\ \A t \in Sessions : t # s => mailbox[t] # b
  BY <1>1, ServedSession
<1>4. Session(b) = s
  BY <1>1, <1>3 DEF IInv, MailIsDelivered
<1>5. \A t \in Sessions : t # s => active'[t] = active[t]
  BY <1>1, <1>4 DEF EndRuntime, IInv, TypeOK
<1>6. ASSUME Kept(s) PROVE Heard(s)'
  <2>1. driver[s] = None
    BY <1>1, <1>3, <1>6 DEF Kept, Supervises, Starting
  <2>2. Kept(s)'
    BY <1>1, <1>2, <1>3, <2>1 DEF Kept, Open
  <2>3. QED
    BY <2>2 DEF Heard
<1>7. WorkersAreReady'
  BY <1>1, <1>2, <1>4, <1>5, OtherWorkersReady DEF SupervisedInv
<1>8. QED
  BY <1>1, <1>2, <1>3, <1>5, <1>6, <1>7, OtherSessions DEF SupervisedInv

\* What a worker that supervises a driver holds when it has settled a command.
LEMMA SettledHolds ==
    ASSUME IInv, NEW b \in Numbers, NEW s \in Sessions, worker[b].at = "settle",
           driver[s] # None, Supervises(b, s)
    PROVE  /\ HeldAfter(b) = driver[s] /\ active[s] = driver[s]
           /\ ~(worker[b].ran /\ Closed(b))
<1> DEFINE w == worker[b]
<1>1. Serving(b)
  BY DEF Serving
<1>2. Cmd(b).kind \in AllKinds
  BY <1>1 DEF IInv, JobsAreNamed, Named, Jobs, Command, Cmd
<1>3. CASE Starting(b)
  <2>1. w.ran /\ Cmd(b).kind = "start" /\ w.ok /\ active[s] = Cmd(b).run /\ driver[s] = Cmd(b).run
    BY <1>1, <1>3 DEF Supervises, Starting, Starts
  <2>2. QED
    BY <2>1 DEF HeldAfter, Closed
<1>4. CASE ~Starting(b)
  <2>1. /\ active[s] = driver[s] /\ w.held = driver[s]
        /\ w.ran => ~Closed(b) /\ (Cmd(b).kind = "attach" => w.found = driver[s])
    BY <1>1, <1>4 DEF Supervises
  <2>2. CASE ~w.ran
    BY <2>1, <2>2 DEF HeldAfter
  <2>3. CASE w.ran
    <3>1. Cmd(b).kind \in AllKinds \ {"start"}
      BY <1>2, <1>4, <2>3 DEF Starting, Starts
    <3>2. QED
      BY <2>1, <2>3, <3>1 DEF HeldAfter, AllKinds
  <2>4. QED
    BY <2>2, <2>3
<1>5. QED
  BY <1>3, <1>4

LEMMA SettleSupervised ==
    ASSUME MailboxAssumption, IInv, SupervisedInv, NEW b \in Numbers, Settle(b)
    PROVE  SupervisedInv'
<1>1. /\ Serving(b) /\ worker[b].at = "settle"
      /\ UNCHANGED <<mailbox, driver>>
  BY DEF Settle, Serving, registry
<1>2. /\ worker'[b].held = HeldAfter(b)
      /\ worker'[b].at = IF HeldAfter(b) = None THEN "retire" ELSE "receive"
      /\ \A e \in Numbers : e # b => worker'[e] = worker[e]
  BY DEF Settle, NoWorker, IInv, TypeOK
<1>3. PICK s \in Sessions : mailbox[s] = b /\ \A t \in Sessions : t # s => mailbox[t] # b
  BY <1>1, ServedSession
<1>4. Session(b) = s
  BY <1>1, <1>3 DEF IInv, MailIsDelivered
<1>5. /\ \A t \in Sessions : t # s => active'[t] = active[t]
      /\ ~(worker[b].ran /\ Closed(b)) => active' = active
  BY <1>4 DEF Settle, EndRuntime, IInv, TypeOK
<1>6. ASSUME Kept(s) PROVE Heard(s)'
  <2>1. Open(b)' /\ b # 0 /\ ~Serving(b)'
    BY <1>2 DEF Open, Numbers, Serving
  <2>2. ASSUME driver[s] # None PROVE Supervises(b, s)'
    <3>1. Supervises(b, s)
      BY <1>3, <1>6, <2>2 DEF Kept
    <3>2. HeldAfter(b) = driver[s] /\ active[s] = driver[s] /\ active' = active
      BY <1>1, <1>5, <2>2, <3>1, SettledHolds
    <3>3. QED
      BY <1>1, <1>2, <2>1, <3>2 DEF Supervises
  <2>3. Kept(s)'
    BY <1>1, <1>3, <2>1, <2>2 DEF Kept
  <2>4. QED
    BY <2>3 DEF Heard
<1>7. WorkersAreReady'
  BY <1>1, <1>2, <1>4, <1>5, OtherWorkersReady DEF SupervisedInv
<1>8. QED
  BY <1>1, <1>2, <1>3, <1>5, <1>6, <1>7, OtherSessions DEF SupervisedInv

LEMMA DieSupervised ==
    ASSUME MailboxAssumption, IInv, SupervisedInv, NEW b \in Numbers, Die(b)
    PROVE  SupervisedInv'
<1>1. /\ Serving(b) /\ worker[b].at = "execute" /\ UNCHANGED <<mailbox, active>>
      /\ \E after : driver' = [driver EXCEPT ![Session(b)] = after]
  BY DEF Die, Serving
<1>2. /\ worker'[b].at = "gone" /\ worker'[b].job = worker[b].job
      /\ \A e \in Numbers : e # b => worker'[e] = worker[e]
  BY DEF Die, Go, IInv, TypeOK, Workers
<1>3. PICK s \in Sessions : mailbox[s] = b /\ \A t \in Sessions : t # s => mailbox[t] # b
  BY <1>1, ServedSession
<1>4. Session(b) = s /\ worker[b].job \in Jobs
  BY <1>1, <1>3 DEF IInv, MailIsDelivered, JobsAreNamed, Named
<1>5. \A t \in Sessions : t # s => driver'[t] = driver[t]
  BY <1>1, <1>4 DEF IInv, TypeOK
<1>6. Heard(s)'
  <2>1. worker[b].job # NoJob
    BY <1>4 DEF Jobs, NoJob, Numbers
  <2>2. Died(b)' /\ Session(b)' = s
    BY <1>2, <1>4, <2>1 DEF Died, Session, Cmd
  <2>3. QED
    BY <2>2 DEF Heard, Lost
<1>7. WorkersAreReady'
  BY <1>1, <1>2, OtherWorkersReady DEF SupervisedInv
<1>8. QED
  BY <1>1, <1>2, <1>3, <1>5, <1>6, <1>7, OtherSessions DEF SupervisedInv

\* A worker that retires holds no runtime: its session has no driver.
LEMMA RetireSupervised ==
    ASSUME MailboxAssumption, IInv, SupervisedInv, NEW b \in Numbers, Retire(b)
    PROVE  SupervisedInv'
<1>1. /\ worker[b].at = "retire" /\ worker[b].held = None /\ ~Serving(b)
      /\ UNCHANGED <<active, driver>>
      /\ mailbox' = [s \in Sessions |-> IF mailbox[s] = b THEN 0 ELSE mailbox[s]]
  BY DEF Retire, Unregister, runtimes, SupervisedInv, WorkersAreReady, Serving
<1>2. /\ worker'[b].at = "gone"
      /\ \A e \in Numbers : e # b => worker'[e] = worker[e]
  BY DEF Retire, NoWorker, IInv, TypeOK
<1>3. \A e \in Numbers : worker[e].at = "gone" => worker'[e] = worker[e]
  BY <1>1, <1>2
<1>4. ASSUME NEW t \in Sessions \ Terminals, mailbox[t] # b PROVE Heard(t)'
  <2>1. mailbox[t] \in Numbers \cup {0}
    BY <1>4 DEF IInv, TypeOK, Numbers, MailboxAssumption
  <2>2. mailbox[t] # 0 => worker'[mailbox[t]] = worker[mailbox[t]]
    BY <1>2, <1>4, <2>1
  <2>3. Heard(t) /\ mailbox'[t] = mailbox[t]
    BY <1>1, <1>4 DEF SupervisedInv
  <2>4. QED
    BY <1>1, <1>3, <2>2, <2>3, SameSession
<1>5. ASSUME NEW t \in Sessions \ Terminals, mailbox[t] = b PROVE Heard(t)'
  <2>1. CASE Kept(t)
    <3>1. driver[t] = None
      BY <1>1, <1>5, <2>1 DEF Kept, Supervises
    <3>2. QED
      BY <1>1, <1>5, <3>1 DEF Heard, Kept
  <2>2. CASE Lost(t)
    BY <1>3, <2>2, LostForever DEF Heard
  <2>3. QED
    BY <2>1, <2>2 DEF SupervisedInv, Heard
<1>6. WorkersAreReady'
  BY <1>1, <1>2, OtherWorkersReady DEF SupervisedInv
<1>7. QED
  BY <1>4, <1>5, <1>6 DEF SupervisedInv

LEMMA WorkSupervised ==
    ASSUME MailboxAssumption, IInv, SupervisedInv, NEW b \in Numbers, Work(b) \/ Die(b)
    PROVE  SupervisedInv'
  BY TakeSupervised, AnswerSupervised, BeginSupervised, ExecuteSupervised, EndSupervised,
     SettleSupervised, RetireSupervised, DieSupervised DEF Work

-----------------------------------------------------------------------------
(* The steps of the dispatcher, and the removal of a project *)

\* A step that leaves the workers alone and registers none.
LEMMA DispatcherStep ==
    ASSUME MailboxAssumption, IInv, SupervisedInv, worker' = worker, active' = active,
           \A t \in Sessions : mailbox'[t] = mailbox[t] \/ (mailbox'[t] = 0 /\ ~Open(mailbox[t])),
           \A t \in Sessions : driver'[t] = driver[t] \/ driver'[t] = None
    PROVE  SupervisedInv'
<1>1. WorkersAreReady'
  BY DEF SupervisedInv, WorkersAreReady, Starts, Session, Cmd
<1>2. ASSUME NEW t \in Sessions \ Terminals PROVE Heard(t)'
  <2>1. CASE Lost(t)
    BY <2>1, LostForever DEF Heard
  <2>2. CASE Kept(t)
    <3>1. mailbox'[t] = mailbox[t]
      BY <2>2 DEF Kept
    <3>2. CASE driver'[t] = driver[t]
      BY <1>2, <3>1, <3>2, SameSession DEF SupervisedInv
    <3>3. CASE driver'[t] = None
      BY <2>2, <3>1, <3>3 DEF Heard, Kept, Open
    <3>4. QED
      BY <3>2, <3>3
  <2>3. QED
    BY <2>1, <2>2 DEF SupervisedInv, Heard
<1>3. QED
  BY <1>1, <1>2 DEF SupervisedInv

\* A new worker serves a session that had no worker, and so no driver.
LEMMA CreateSupervised ==
    ASSUME MailboxAssumption, IInv, SupervisedInv, NEW c \in Command, Create(c)
    PROVE  SupervisedInv'
<1>1. /\ ~Open(mailbox[c.session]) /\ c.session \in Sessions
      /\ mailbox' = [mailbox EXCEPT ![c.session] = boxes + 1]
      /\ worker' = [worker EXCEPT ![boxes + 1] = [NoWorker EXCEPT !.at = "receive"]]
      /\ UNCHANGED <<active, driver>>
  BY DEF Create, Dispatch, runtimes, Command
<1>2. boxes + 1 \in Numbers /\ boxes \in Nat
  BY DEF Create, Dispatch, IInv, TypeOK, Numbers, MailboxAssumption
<1>3. /\ worker[boxes + 1] = NoWorker /\ worker'[boxes + 1] = [NoWorker EXCEPT !.at = "receive"]
      /\ \A e \in Numbers : e # boxes + 1 => worker'[e] = worker[e]
  BY <1>1, <1>2 DEF IInv, TypeOK, FreshIsBlank
<1>4. \A e \in Numbers : worker[e].at = "gone" => worker'[e] = worker[e]
  BY <1>3 DEF NoWorker
<1>5. ASSUME NEW t \in Sessions \ Terminals, t # c.session PROVE Heard(t)'
  <2>1. mailbox[t] \in 0..boxes /\ mailbox'[t] = mailbox[t]
    BY <1>1, <1>5 DEF IInv, TypeOK
  <2>2. mailbox[t] # 0 => mailbox[t] \in Numbers /\ mailbox[t] # boxes + 1
    BY <1>2, <2>1 DEF Numbers
  <2>3. QED
    BY <1>1, <1>3, <1>4, <1>5, <2>1, <2>2, SameSession DEF SupervisedInv
<1>6. ASSUME c.session \notin Terminals PROVE Heard(c.session)'
  <2> DEFINE s == c.session
  <2>1. CASE Lost(s)
    BY <1>4, <2>1, LostForever DEF Heard
  <2>2. CASE Kept(s)
    <3>0. PICK k \in Numbers : k = boxes + 1
      BY <1>2
    <3>1. driver[s] = None /\ mailbox'[s] = k
      BY <1>1, <2>2, <3>0 DEF Kept, IInv, TypeOK
    <3>2. Open(k)'
      BY <1>3, <3>0 DEF Open, NoWorker, Numbers
    <3>3. QED
      BY <1>1, <3>1, <3>2 DEF Heard, Kept
  <2>3. QED
    BY <1>1, <1>6, <2>1, <2>2 DEF SupervisedInv, Heard
<1>7. WorkersAreReady'
  BY <1>1, <1>2, <1>3, OtherWorkersReady DEF SupervisedInv, NoWorker
<1>8. QED
  BY <1>5, <1>6, <1>7 DEF SupervisedInv

LEMMA NextSupervised ==
    ASSUME MailboxAssumption, IInv, SupervisedInv, [Next]_vars
    PROVE  SupervisedInv'
<1>1. mailbox \in [Sessions -> 0..boxes] /\ driver \in [Sessions -> Runtimes \cup {None}]
  BY DEF IInv, TypeOK
<1>2. ASSUME NEW c \in Command, Join(c) \/ Refuse(c) PROVE SupervisedInv'
  <2>1. UNCHANGED <<worker, active, driver>>
    BY <1>2 DEF Join, Refuse, Dispatch, runtimes
  <2>2. \A t \in Sessions : mailbox'[t] = mailbox[t] \/ (mailbox'[t] = 0 /\ ~Open(mailbox[t]))
    BY <1>1, <1>2 DEF Join, Refuse
  <2>3. QED
    BY <2>1, <2>2, DispatcherStep
<1>3. ASSUME NEW c \in Command, Create(c) PROVE SupervisedInv'
  BY <1>3, CreateSupervised
<1>4. ASSUME NEW b \in Numbers, Work(b) \/ Die(b) PROVE SupervisedInv'
  BY <1>4, WorkSupervised
<1>5. ASSUME NEW s \in Sessions, RemoveProject(s) PROVE SupervisedInv'
  BY <1>1, <1>5, DispatcherStep DEF RemoveProject, registry
<1>6. CASE UNCHANGED vars
  BY <1>6, DispatcherStep DEF vars, registry, runtimes
<1>7. QED
  BY <1>2, <1>3, <1>4, <1>5, <1>6 DEF Next

\* Once no command of a session is being served, a driver the backend keeps for
\* it is the hub's active runtime and held by the session's worker, or a worker
\* of the session has died.
THEOREM DriversAreSupervised == Spec => []DriverIsSupervised
<1>1. Init => SupervisedInv
  BY MailboxAssumption, InitSupervised
<1>2. IInv /\ SupervisedInv /\ [Next]_vars => SupervisedInv'
  BY MailboxAssumption, NextSupervised
<1>3. ASSUME IInv, SupervisedInv PROVE DriverIsSupervised
  <2>1. SUFFICES ASSUME NEW s \in Sessions \ Terminals, driver[s] # None, ~Lost(s)
                 PROVE  \/ \E b \in Numbers : Serving(b) /\ Session(b) = s
                        \/ /\ active[s] = driver[s]
                           /\ mailbox[s] # 0 /\ worker[mailbox[s]].held = driver[s]
    BY DEF DriverIsSupervised, Lost
  <2>2. mailbox[s] # 0 /\ Supervises(mailbox[s], s)
    BY <1>3, <2>1 DEF SupervisedInv, Heard, Kept
  <2>3. mailbox[s] \in Numbers
    <3>1. /\ mailbox[s] \in 0..boxes /\ boxes \in 0..dispatched /\ dispatched \in 0..MaxRequests
          /\ MaxRequests \in Nat
      BY <1>3, MailboxAssumption DEF IInv, TypeOK, MailboxAssumption
    <3>2. QED
      BY <2>2, <3>1 DEF Numbers
  <2>4. Serving(mailbox[s]) => Session(mailbox[s]) = s
    BY <1>3, <2>3 DEF IInv, MailIsDelivered
  <2>5. QED
    BY <2>2, <2>3, <2>4 DEF Supervises
<1>4. QED
  BY <1>1, <1>2, <1>3, MailboxInvariant, PTL DEF Spec
=============================================================================
