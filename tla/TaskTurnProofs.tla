----------------------------- MODULE TaskTurnProofs -----------------------------
(***************************************************************************)
(* Proofs about the turns of one task, for any runtimes, turns, requests   *)
(* and backlogs.                                                           *)
(***************************************************************************)
EXTENDS TaskTurn, TLAPS, SequenceTheorems

-----------------------------------------------------------------------------
(* What the reducer does to a session *)

Outcomes == {"completed", "failed"}

\* The turn that runs has ended; the other turns are as they were.
Ends(t, u) ==
    /\ Running(t)
    /\ Len(u.turns) = Len(t.turns)
    /\ \A i \in DOMAIN t.turns :
          /\ u.turns[i].id = t.turns[i].id /\ u.turns[i].count = t.turns[i].count
          /\ i # Len(t.turns) => u.turns[i].status = t.turns[i].status
    /\ u.turns[Len(t.turns)].status \in Outcomes

LEMMA FinishEnds ==
    ASSUME NEW t \in Tasks, NEW o \in Outcomes, Running(t)
    PROVE  /\ Finish(t, o) \in Tasks /\ Ends(t, Finish(t, o))
           /\ Finish(t, o).status = t.status /\ Finish(t, o).archived = t.archived
<1> DEFINE n == Len(t.turns)
           s == t.turns
           last == [s[n] EXCEPT !.status = o]
           new == [s EXCEPT ![n] = last]
<1>1. s \in Seq(Turns) /\ n \in Nat /\ n # 0 /\ DOMAIN s = 1..n
  <2>1. s \in Seq(Turns) /\ s # <<>>
    BY DEF Tasks, Running
  <2>2. QED
    BY <2>1, LenProperties, EmptySeq
<1>2. n \in 1..n /\ s[n] \in Turns
  BY <1>1, ElementOfSeq
<1>3. last \in Turns /\ last.id = s[n].id /\ last.count = s[n].count /\ last.status = o
  BY <1>2 DEF Turns, Outcomes
<1>4. Finish(t, o) = [t EXCEPT !.turns = new]
  BY DEF Finish, Tasks
<1> HIDE DEF last
<1>5. new \in Seq(Turns) /\ Len(new) = n /\ new[n] = last
      /\ \A i \in 1..n : i # n => new[i] = s[i]
  BY <1>1, <1>2, <1>3, ExceptSeq
<1> HIDE DEF new
<1> DEFINE u == [t EXCEPT !.turns = new]
<1>6. u \in Tasks /\ u.turns = new /\ u.status = t.status /\ u.archived = t.archived
  BY <1>5 DEF Tasks
<1> HIDE DEF u
<1>7. Ends(t, u)
  BY <1>1, <1>2, <1>3, <1>5, <1>6 DEF Ends
<1>8. QED
  BY <1>4, <1>6, <1>7 DEF u

Statuses == {"idle", "connecting", "working", "waiting", "failed"}

\* What holds of what any event is reduced to.
Reduced(t, p, n, e, x) ==
    /\ x.task \in Tasks
    /\ x.pending \in [Interactions -> 0..n]
    /\ x.task.archived = t.archived
    /\ e.type = "accepted" =>
          x.task.turns = IF Known(t, e.turn) THEN t.turns ELSE Append(t.turns, e.turn)
    /\ e.type # "accepted" => x.task.turns = t.turns \/ Ends(t, x.task)

\* A change of the status alone.
LEMMA StatusSet ==
    ASSUME NEW t \in Tasks, NEW s \in Statuses
    PROVE  /\ [t EXCEPT !.status = s] \in Tasks
           /\ [t EXCEPT !.status = s].turns = t.turns
           /\ [t EXCEPT !.status = s].archived = t.archived
           /\ [t EXCEPT !.status = s].status = s
BY DEF Tasks, Statuses

LEMMA ReduceAcceptedIs ==
    ASSUME NEW t \in Tasks, NEW n \in Nat, NEW p \in [Interactions -> 0..n],
           NEW e \in Events, e.type = "accepted", e.turn \in Turns
    PROVE  Reduced(t, p, n, e, ReduceAccepted(t, p, e.turn))
<1> DEFINE s == IF Known(t, e.turn) THEN t ELSE [t EXCEPT !.turns = Append(@, e.turn)]
           u == IF Busy(s) THEN s ELSE [s EXCEPT !.status = "connecting"]
<1>1. /\ s \in Tasks /\ s.archived = t.archived
      /\ s.turns = IF Known(t, e.turn) THEN t.turns ELSE Append(t.turns, e.turn)
  <2>1. t.turns \in Seq(Turns)
    BY DEF Tasks
  <2>2. Append(t.turns, e.turn) \in Seq(Turns)
    BY <2>1, AppendProperties
  <2>3. QED
    BY <2>2 DEF Tasks
<1>2. ReduceAccepted(t, p, e.turn) = Result(u, p, TRUE)
  BY DEF ReduceAccepted
<1> HIDE DEF s
<1>3. u \in Tasks /\ u.archived = s.archived /\ u.turns = s.turns
  BY <1>1, StatusSet DEF Statuses
<1> HIDE DEF u
<1>4. QED
  BY <1>1, <1>2, <1>3 DEF Reduced, Result

\* Of a reduction that leaves the turns alone.
LEMMA StatusReduced ==
    ASSUME NEW t \in Tasks, NEW n \in Nat, NEW q \in [Interactions -> 0..n],
           NEW p, NEW e \in Events, NEW applied \in BOOLEAN, NEW u \in Tasks, e.type # "accepted",
           u.archived = t.archived, u.turns = t.turns \/ Ends(t, u)
    PROVE  Reduced(t, p, n, e, Result(u, q, applied))
BY DEF Reduced, Result

LEMMA ReduceIs ==
    ASSUME NEW t \in Tasks, NEW n \in Nat, NEW p \in [Interactions -> 0..n],
           NEW e \in Events, e.id \in 0..n, e.type = "accepted" => e.turn \in Turns
    PROVE  Reduced(t, p, n, e, Reduce(t, p, e))
<1> DEFINE X(s) == [t EXCEPT !.status = s]
<1> DEFINE Y(o, s) == [Finish(t, o) EXCEPT !.status = s]
<1>1. \A s \in Statuses : /\ X(s) \in Tasks /\ X(s).turns = t.turns
                           /\ X(s).archived = t.archived
  BY StatusSet
<1>2. ASSUME NEW s \in Statuses, NEW o \in Outcomes
      PROVE  /\ Y(o, s) \in Tasks /\ Y(o, s).archived = t.archived
             /\ Y(o, s).turns = t.turns \/ Ends(t, Y(o, s))
  <2> DEFINE f == Finish(t, o)
  <2>1. f \in Tasks /\ f.archived = t.archived /\ (f.turns = t.turns \/ Ends(t, f))
    BY FinishEnds DEF Finish
  <2> HIDE DEF f
  <2>2. /\ [f EXCEPT !.status = s] \in Tasks /\ [f EXCEPT !.status = s].turns = f.turns
        /\ [f EXCEPT !.status = s].archived = f.archived
    BY <2>1, StatusSet
  <2>3. Ends(t, f) => Ends(t, [f EXCEPT !.status = s])
    BY <2>2 DEF Ends
  <2>4. QED
    BY <2>1, <2>2, <2>3 DEF f
<1>3. \A o \in Outcomes : /\ Y(o, IF o = "completed" THEN "idle" ELSE "failed") \in Tasks
  BY <1>2 DEF Statuses
<1>4. Nothing \in [Interactions -> 0..n]
  BY DEF Nothing
<1> HIDE DEF X, Y
<1>5. CASE e.type = "accepted"
  BY <1>5, ReduceAcceptedIs DEF Reduce, Interactions
<1>6. CASE e.type = "connected"
  <2>1. Reduce(t, p, e) = Result(IF t.status = "connecting" THEN X("working") ELSE t, p, TRUE)
    BY <1>6 DEF Reduce, ReduceConnected, X, Interactions
  <2>2. QED
    BY <1>1, <1>6, <2>1, StatusReduced DEF Statuses
<1>7. CASE e.type = "started"
  <2>1. Reduce(t, p, e) = IF Running(t) THEN Result(X("working"), p, TRUE) ELSE Result(t, p, FALSE)
    BY <1>7 DEF Reduce, ReduceStarted, X, Interactions
  <2>2. QED
    BY <1>1, <1>7, <2>1, StatusReduced DEF Statuses
<1>8. CASE e.type = "output"
  <2>1. \/ Reduce(t, p, e) = Result(X("working"), p, TRUE)
        \/ Reduce(t, p, e) = Result(t, p, TRUE)
        \/ Reduce(t, p, e) = Result(t, p, FALSE)
    BY <1>8 DEF Reduce, ReduceOutput, X, Interactions
  <2>2. QED
    BY <1>1, <1>8, <2>1, StatusReduced DEF Statuses
<1>9. CASE e.type \in Interactions
  <2> DEFINE q == [p EXCEPT ![e.type] = e.id]
  <2>1. q \in [Interactions -> 0..n]
    OBVIOUS
  <2>2. \/ Reduce(t, p, e) = Result(X("waiting"), q, TRUE)
        \/ Reduce(t, p, e) = Result(t, p, FALSE)
    BY <1>9 DEF Reduce, ReduceAsk, X, Interactions
  <2>3. e.type # "accepted"
    BY <1>9 DEF Interactions
  <2> HIDE DEF q
  <2>4. QED
    BY <1>1, <2>1, <2>2, <2>3, StatusReduced DEF Statuses
<1>10. CASE e.type = "resolved"
  <2> DEFINE q == [i \in Interactions |-> IF p[i] = e.id THEN 0 ELSE p[i]]
  <2>1. q \in [Interactions -> 0..n]
    OBVIOUS
  <2>2. \/ Reduce(t, p, e) = Result(X("working"), q, TRUE)
        \/ Reduce(t, p, e) = Result(t, p, FALSE)
    BY <1>10 DEF Reduce, ReduceResolved, X, Interactions
  <2> HIDE DEF q
  <2>3. QED
    BY <1>1, <1>10, <2>1, <2>2, StatusReduced DEF Statuses
<1>11. CASE e.type \in {"completed", "failed"}
  <2>1. \/ Reduce(t, p, e) =
              Result(Y(e.type, IF e.type = "completed" THEN "idle" ELSE "failed"), Nothing, TRUE)
        \/ Reduce(t, p, e) = Result(t, p, FALSE)
    BY <1>11 DEF Reduce, ReduceFinished, Y, Interactions
  <2>2. (IF e.type = "completed" THEN "idle" ELSE "failed") \in Statuses
    BY DEF Statuses
  <2>3. e.type # "accepted" /\ e.type \in Outcomes
    BY <1>11 DEF Outcomes
  <2>4. QED
    BY <1>2, <1>4, <2>1, <2>2, <2>3, StatusReduced
<1>12. CASE e.type = "error"
  <2>1. \/ Reduce(t, p, e) = Result(X("failed"), p, TRUE)
        \/ Reduce(t, p, e) = Result(t, p, TRUE)
        \/ Reduce(t, p, e) = Result(t, p, FALSE)
    BY <1>12 DEF Reduce, ReduceError, X, Interactions
  <2>2. QED
    BY <1>1, <1>12, <2>1, StatusReduced DEF Statuses
<1>13. CASE e.type = "exited"
  <2>1. \/ Reduce(t, p, e) = Result(Y("failed", "failed"), Nothing, TRUE)
        \/ Reduce(t, p, e) = Result(t, Nothing, FALSE)
    BY <1>13 DEF Reduce, ReduceExited, Y, Interactions
  <2>2. QED
    BY <1>2, <1>4, <1>13, <2>1, StatusReduced DEF Statuses, Outcomes
<1>14. QED
  BY <1>5, <1>6, <1>7, <1>8, <1>9, <1>10, <1>11, <1>12, <1>13 DEF Events, Interactions

-----------------------------------------------------------------------------
(* Type correctness *)

\* What the drivers say: they accept no prompt and name no request that was not
\* made.
ChannelsOK ==
    \A r \in Runtimes : \A i \in DOMAIN channel[r] :
        channel[r][i].type # "accepted" /\ channel[r][i].id \in 0..asked

\* A command that is past its first step is of a runtime, a prompt's of a turn.
WorkerOK ==
    /\ worker.at \notin {"idle", "rewind", "rewrite"} => worker.run \in Runtimes
    /\ worker.at = "emit" => worker.turn \in Turns

TypeInv == TypeOK /\ ChannelsOK /\ WorkerOK

\* A turn's count is never ahead of its place: there is a turn to rewind to.
CountsOK(turns) == \A i \in DOMAIN turns : turns[i].count <= i

\* The rows are what a client that fetches the session would get, and a session
\* whose detail is not loaded has at most the turn that was just begun.
RecordInv ==
    /\ Hydrated = disk
    /\ ~loaded /\ Len(task.turns) # 0 => Len(task.turns) = 1 /\ Running(task)
    /\ CountsOK(task.turns) /\ CountsOK(disk.turns) /\ CountsOK(worker.source.turns)
    /\ worker.at = "emit" => worker.turn.count <= Len(disk.turns) + 1

\* An event is put behind the others.
LEMMA SaidLast ==
    ASSUME TypeOK, NEW r \in Runtimes, NEW e \in Events, Says(r, e)
    PROVE  /\ channel' \in [Runtimes -> Seq(Events)]
           /\ Len(channel'[r]) = Len(channel[r]) + 1 /\ Len(channel'[r]) <= MaxBacklog
           /\ DOMAIN channel[r] = 1..Len(channel[r]) /\ DOMAIN channel'[r] = 1..Len(channel'[r])
           /\ Len(channel[r]) \in Nat
           /\ \A i \in 1..Len(channel[r]) : channel'[r][i] = channel[r][i]
           /\ channel'[r][Len(channel[r]) + 1] = e
           /\ \A q \in Runtimes : q # r => channel'[q] = channel[q]
<1>1. channel[r] \in Seq(Events) /\ channel' = [channel EXCEPT ![r] = Append(channel[r], e)]
      /\ channel \in [Runtimes -> Seq(Events)] /\ Len(channel[r]) < MaxBacklog /\ MaxBacklog \in Nat
  BY TurnAssumption DEF TypeOK, Says
<1>2. Append(channel[r], e) \in Seq(Events) /\ Len(Append(channel[r], e)) = Len(channel[r]) + 1
      /\ (\A i \in 1..Len(channel[r]) : Append(channel[r], e)[i] = channel[r][i])
      /\ Append(channel[r], e)[Len(channel[r]) + 1] = e
  BY <1>1, AppendProperties
<1>3. channel' \in [Runtimes -> Seq(Events)] /\ channel'[r] = Append(channel[r], e)
      /\ \A q \in Runtimes : q # r => channel'[q] = channel[q]
  BY <1>1, <1>2
<1>4. Len(channel[r]) \in Nat /\ DOMAIN channel[r] = 1..Len(channel[r])
      /\ DOMAIN channel'[r] = 1..Len(channel'[r])
  BY <1>1, <1>3, LenProperties
<1>5. QED
  BY <1>1, <1>2, <1>3, <1>4

\* The oldest event is taken.
LEMMA TookFirst ==
    ASSUME TypeOK, NEW r \in Runtimes, channel[r] # <<>>,
           channel' = [channel EXCEPT ![r] = Tail(@)]
    PROVE  /\ channel' \in [Runtimes -> Seq(Events)]
           /\ Len(channel'[r]) = Len(channel[r]) - 1
           /\ DOMAIN channel[r] = 1..Len(channel[r]) /\ DOMAIN channel'[r] = 1..Len(channel'[r])
           /\ Len(channel[r]) \in Nat /\ Len(channel[r]) # 0
           /\ Head(channel[r]) = channel[r][1] /\ Head(channel[r]) \in Events
           /\ \A i \in 1..(Len(channel[r]) - 1) : channel'[r][i] = channel[r][i + 1]
           /\ \A q \in Runtimes : q # r => channel'[q] = channel[q]
<1>1. channel[r] \in Seq(Events) /\ channel' = [channel EXCEPT ![r] = Tail(channel[r])]
      /\ channel \in [Runtimes -> Seq(Events)]
  BY DEF TypeOK
<1>2. Tail(channel[r]) \in Seq(Events) /\ Len(Tail(channel[r])) = Len(channel[r]) - 1
      /\ (\A i \in 1..(Len(channel[r]) - 1) : Tail(channel[r])[i] = channel[r][i + 1])
      /\ Head(channel[r]) = channel[r][1] /\ Head(channel[r]) \in Events
  BY <1>1, HeadTailProperties
<1>3. channel' \in [Runtimes -> Seq(Events)] /\ channel'[r] = Tail(channel[r])
      /\ \A q \in Runtimes : q # r => channel'[q] = channel[q]
  BY <1>1, <1>2
<1>4. Len(channel[r]) \in Nat /\ DOMAIN channel[r] = 1..Len(channel[r])
      /\ DOMAIN channel'[r] = 1..Len(channel'[r]) /\ Len(channel[r]) # 0
  BY <1>1, <1>3, LenProperties, EmptySeq
<1>5. QED
  BY <1>2, <1>3, <1>4

LEMMA HydratedIs ==
    ASSUME TypeOK
    PROVE  /\ Hydrated \in Tasks
           /\ Hydrated.status = task.status /\ Hydrated.archived = task.archived
           /\ Hydrated.turns = IF loaded THEN task.turns ELSE disk.turns
BY DEF Hydrated, TypeOK, Tasks

LEMMA UnarchivedIs ==
    ASSUME NEW t \in Tasks, NEW x, NEW e, x.task \in Tasks
    PROVE  /\ Unarchived(t, x, e) \in Tasks
           /\ Unarchived(t, x, e).turns = x.task.turns
           /\ Unarchived(t, x, e).status = x.task.status
BY DEF Unarchived, Tasks

\* What an emission does to the record.
LEMMA EmitIs ==
    ASSUME TypeOK, NEW r \in Runtimes, NEW e \in Events, e.id \in 0..asked,
           e.type = "accepted" => e.turn \in Turns, Emit(r, e)
    PROVE  /\ task' \in Tasks /\ disk' \in Tasks /\ loaded' \in BOOLEAN
           /\ pending' \in [Runtimes -> [Interactions -> 0..asked]]
           /\ active # r => UNCHANGED <<record, pending>>
           /\ active = r =>
                /\ loaded' = TRUE
                /\ task'.turns = Reduce(Hydrated, pending[r], e).task.turns
                /\ task'.status = Reduce(Hydrated, pending[r], e).task.status
                /\ Reduced(Hydrated, pending[r], asked, e, Reduce(Hydrated, pending[r], e))
                /\ disk' = task' \/ (task' = Hydrated /\ disk' = disk)
<1>1. CASE active # r
  BY <1>1 DEF Emit, record, TypeOK
<1>2. CASE active = r
  <2> DEFINE x == Reduce(Hydrated, pending[r], e)
             after == Unarchived(Hydrated, x, e)
  <2>1. /\ task' = after /\ loaded' = TRUE
        /\ pending' = [pending EXCEPT ![r] = IF e.type = "exited" THEN Nothing ELSE x.pending]
        /\ disk' = IF Saves(e, Hydrated, after) THEN after ELSE disk
    BY <1>2 DEF Emit
  <2>2. asked \in Nat /\ pending[r] \in [Interactions -> 0..asked] /\ disk \in Tasks
        /\ pending \in [Runtimes -> [Interactions -> 0..asked]]
    BY DEF TypeOK
  <2>3. Reduced(Hydrated, pending[r], asked, e, x)
    BY <2>2, HydratedIs, ReduceIs
  <2> HIDE DEF x
  <2>4. x.task \in Tasks /\ x.pending \in [Interactions -> 0..asked]
    BY <2>3 DEF Reduced
  <2>5. after \in Tasks /\ after.turns = x.task.turns /\ after.status = x.task.status
    BY <2>4, HydratedIs, UnarchivedIs
  <2>6. disk' = after \/ (after = Hydrated /\ disk' = disk)
    BY <2>1 DEF Saves
  <2> HIDE DEF after
  <2>7. pending' \in [Runtimes -> [Interactions -> 0..asked]]
    BY <2>1, <2>2, <2>4 DEF Nothing
  <2>8. task' \in Tasks /\ disk' \in Tasks /\ loaded' \in BOOLEAN
    BY <2>1, <2>2, <2>5
  <2>9. QED
    BY <1>2, <2>1, <2>3, <2>5, <2>6, <2>7, <2>8 DEF x
<1>3. QED
  BY <1>1, <1>2

LEMMA PlainIs ==
    ASSUME NEW type \in {"connected", "started", "output", "completed", "failed", "error", "exited"}
    PROVE  Plain(type) \in Events /\ Plain(type).type = type /\ Plain(type).id = 0
BY TurnAssumption DEF Plain, Event, Events, Interactions

\* What a turn that is cut short leaves.
Settled(t) == ReduceFinished(t, Nothing, "failed").task

LEMMA SettledIs ==
    ASSUME NEW t \in Tasks
    PROVE  /\ Settled(t) \in Tasks /\ Settled(t).archived = t.archived
           /\ Settled(t).turns = t.turns \/ Ends(t, Settled(t))
<1> DEFINE e == Plain("failed")
<1>1. e \in Events /\ e.type = "failed" /\ e.id \in 0..0 /\ Nothing \in [Interactions -> 0..0]
  BY PlainIs DEF Nothing
<1>2. Reduced(t, Nothing, 0, e, Reduce(t, Nothing, e))
  BY <1>1, ReduceIs
<1>3. Reduce(t, Nothing, e).task = Settled(t)
  BY <1>1 DEF Reduce, Settled, Interactions
<1> HIDE DEF e
<1>4. QED
  BY <1>1, <1>2, <1>3 DEF Reduced

LEMMA SavedIs ==
    ASSUME NEW t \in Tasks, NEW whole \in BOOLEAN, disk \in Tasks
    PROVE  Saved(t, whole) \in Tasks
BY DEF Saved, Tasks

\* A turn is put behind the others.
LEMMA AppendedIs ==
    ASSUME NEW t \in Tasks, NEW u \in Turns
    PROVE  /\ [t EXCEPT !.turns = Append(@, u)] \in Tasks
           /\ [t EXCEPT !.turns = Append(@, u)].turns = Append(t.turns, u)
           /\ [t EXCEPT !.turns = Append(@, u)].status = t.status
           /\ [t EXCEPT !.turns = Append(@, u)].archived = t.archived
<1>1. t.turns \in Seq(Turns)
  BY DEF Tasks
<1>2. Append(t.turns, u) \in Seq(Turns)
  BY <1>1, AppendProperties
<1>3. QED
  BY <1>2 DEF Tasks

LEMMA TurnsIs ==
    ASSUME NEW t \in Tasks
    PROVE  /\ t.turns \in Seq(Turns) /\ Len(t.turns) \in Nat /\ DOMAIN t.turns = 1..Len(t.turns)
           /\ \A i \in 1..Len(t.turns) : t.turns[i] \in Turns
           /\ t.turns # <<>> <=> Len(t.turns) # 0
<1>1. t.turns \in Seq(Turns)
  BY DEF Tasks
<1>2. QED
  BY <1>1, LenProperties, ElementOfSeq, EmptySeq

LEMMA BlankIs == Blank \in Tasks
<1>1. <<>> \in Seq(Turns)
  BY EmptySeq
<1>2. QED
  BY <1>1 DEF Blank, Tasks

LEMMA TypeInit == Init => TypeInv
<1> SUFFICES ASSUME Init PROVE TypeInv
  OBVIOUS
<1>1. \A r \in Runtimes : channel[r] = <<>>
  BY DEF Init
<1>2. <<>> \in Seq(Events) /\ Len(<<>>) = 0 /\ DOMAIN <<>> = {}
  BY EmptySeq, LenProperties
<1>3. channel \in [Runtimes -> Seq(Events)] /\ \A r \in Runtimes : Len(channel[r]) <= MaxBacklog
  BY <1>1, <1>2, TurnAssumption DEF Init
<1>4. ChannelsOK
  BY <1>1, <1>2 DEF ChannelsOK
<1>5. /\ worker \in [at : Steps, run : Runtimes \cup {None}, turn : Turns \cup {NoTurn},
                      ask : 0..asked, source : Tasks]
      /\ WorkerOK
  BY BlankIs DEF Init, Resting, Steps, WorkerOK
<1>6. /\ provider \in [Runtimes -> [at : {"none", "starting", "ready", "busy", "gone"},
                                    prompts : 0..1, asks : SUBSET (1..asked)]]
      /\ pending \in [Runtimes -> [Interactions -> 0..asked]]
  BY DEF Init, Unstarted, Nothing
<1>7. QED
  BY <1>3, <1>4, <1>5, <1>6, BlankIs, TurnAssumption DEF TypeInv, TypeOK, Init

\* The types of what the parts of a step leave alone.
Workers(n) == [at : Steps, run : Runtimes \cup {None}, turn : Turns \cup {NoTurn},
               ask : 0..n, source : Tasks]
Providers(n) == [at : {"none", "starting", "ready", "busy", "gone"},
                 prompts : 0..1, asks : SUBSET (1..n)]

WorkerTypes == worker \in Workers(asked) /\ WorkerOK
RuntimeTypes == active \in Runtimes \cup {None} /\ driver \in Runtimes \cup {None}
ProviderTypes == provider \in [Runtimes -> Providers(asked)]
ChannelTypes ==
    /\ channel \in [Runtimes -> Seq(Events)]
    /\ \A r \in Runtimes : Len(channel[r]) <= MaxBacklog
    /\ ChannelsOK
PendingTypes == pending \in [Runtimes -> [Interactions -> 0..asked]]
RecordTypes == task \in Tasks /\ disk \in Tasks /\ loaded \in BOOLEAN
DrawnTypes == used \subseteq Runtimes /\ minted \in 0..MaxTurns /\ asked \in 0..MaxAsks

LEMMA TypeParts ==
    TypeInv <=> /\ WorkerTypes /\ RuntimeTypes /\ ProviderTypes /\ ChannelTypes
                /\ PendingTypes /\ RecordTypes /\ DrawnTypes
BY DEF TypeInv, TypeOK, WorkerTypes, RuntimeTypes, ProviderTypes, ChannelTypes,
       PendingTypes, RecordTypes, DrawnTypes, Workers, Providers

LEMMA TypePartsNext ==
    TypeInv' <=> /\ WorkerTypes' /\ RuntimeTypes' /\ ProviderTypes' /\ ChannelTypes'
                 /\ PendingTypes' /\ RecordTypes' /\ DrawnTypes'
BY DEF TypeInv, TypeOK, WorkerTypes, RuntimeTypes, ProviderTypes, ChannelTypes,
       PendingTypes, RecordTypes, DrawnTypes, Workers, Providers, ChannelsOK, WorkerOK

LEMMA TypesStay ==
    /\ WorkerTypes /\ UNCHANGED <<worker, asked>> => WorkerTypes'
    /\ RuntimeTypes /\ UNCHANGED runtime => RuntimeTypes'
    /\ ProviderTypes /\ UNCHANGED <<provider, asked>> => ProviderTypes'
    /\ ChannelTypes /\ UNCHANGED <<channel, asked>> => ChannelTypes'
    /\ PendingTypes /\ UNCHANGED <<pending, asked>> => PendingTypes'
    /\ RecordTypes /\ UNCHANGED record => RecordTypes'
    /\ DrawnTypes /\ UNCHANGED drawn => DrawnTypes'
BY DEF WorkerTypes, RuntimeTypes, ProviderTypes, ChannelTypes, PendingTypes, RecordTypes,
       DrawnTypes, ChannelsOK, WorkerOK, runtime, record, drawn

LEMMA WorkerGoes ==
    ASSUME WorkerTypes, NEW at \in Steps, NEW r \in Runtimes \cup {None}
    PROVE  /\ Go(at) \in Workers(asked) /\ Go(at).at = at /\ Go(at).run = worker.run
           /\ Go(at).turn = worker.turn /\ Go(at).source = worker.source
           /\ Go(at).ask = worker.ask
BY DEF WorkerTypes, Workers, Go

LEMMA WorkerDoes ==
    ASSUME NEW n \in Nat, NEW at \in Steps, NEW r \in Runtimes \cup {None}
    PROVE  /\ Doing(at, r) \in Workers(n) /\ Doing(at, r).at = at /\ Doing(at, r).run = r
           /\ Resting \in Workers(n) /\ Resting.at = "idle"
           /\ Doing(at, r).turn = NoTurn /\ Doing(at, r).source = Blank
<1>1. Resting \in Workers(n) /\ Resting.at = "idle" /\ Resting.turn = NoTurn
      /\ Resting.source = Blank
  BY BlankIs DEF Workers, Resting, Steps
<1> DEFINE w == [Resting EXCEPT !.at = at]
<1>2. w \in Workers(n) /\ w.at = at /\ w.turn = NoTurn /\ w.source = Blank
  BY <1>1 DEF Workers
<1> HIDE DEF w
<1> DEFINE v == [w EXCEPT !.run = r]
<1>3. v \in Workers(n) /\ v.at = at /\ v.run = r /\ v.turn = NoTurn /\ v.source = Blank
  BY <1>2 DEF Workers
<1>4. Doing(at, r) = v
  BY DEF Doing, Resting, w
<1>5. QED
  BY <1>1, <1>3, <1>4

LEMMA ForwardTypes ==
    ASSUME TypeInv, NEW r \in Runtimes, Forward(r)
    PROVE  TypeInv'
<1> DEFINE e == Head(channel[r])
<1>1. TypeOK /\ ChannelsOK /\ asked' = asked
  BY DEF TypeInv, Forward, drawn
<1>2. channel[r] # <<>> /\ channel' = [channel EXCEPT ![r] = Tail(@)] /\ Emit(r, e)
  BY DEF Forward
<1>3. ChannelTypes' /\ e \in Events /\ e.type # "accepted" /\ e.id \in 0..asked
  <2>1. /\ channel' \in [Runtimes -> Seq(Events)]
        /\ Len(channel'[r]) = Len(channel[r]) - 1
        /\ DOMAIN channel[r] = 1..Len(channel[r]) /\ DOMAIN channel'[r] = 1..Len(channel'[r])
        /\ Len(channel[r]) \in Nat /\ Len(channel[r]) # 0
        /\ e = channel[r][1] /\ e \in Events
        /\ \A i \in 1..(Len(channel[r]) - 1) : channel'[r][i] = channel[r][i + 1]
        /\ \A q \in Runtimes : q # r => channel'[q] = channel[q]
    BY <1>1, <1>2, TookFirst
  <2> HIDE DEF e
  <2>2. \A q \in Runtimes : Len(channel[q]) <= MaxBacklog
    BY <1>1 DEF TypeOK
  <2>3. ASSUME NEW q \in Runtimes
        PROVE  Len(channel'[q]) <= MaxBacklog
    BY <2>1, <2>2, TurnAssumption
  <2>4. ASSUME NEW q \in Runtimes, NEW i \in DOMAIN channel'[q]
        PROVE  channel'[q][i].type # "accepted" /\ channel'[q][i].id \in 0..asked
    <3>1. CASE q # r
      BY <1>1, <2>1, <3>1 DEF ChannelsOK
    <3>2. CASE q = r
      <4>1. i \in 1..(Len(channel[r]) - 1) /\ i + 1 \in 1..Len(channel[r])
        BY <2>1, <3>2
      <4>2. channel'[r][i] = channel[r][i + 1] /\ i + 1 \in DOMAIN channel[r]
        BY <2>1, <4>1
      <4>3. QED
        BY <1>1, <3>2, <4>2 DEF ChannelsOK
    <3>3. QED
      BY <3>1, <3>2
  <2>5. 1 \in DOMAIN channel[r]
    BY <2>1
  <2>6. e.type # "accepted" /\ e.id \in 0..asked
    BY <1>1, <2>1, <2>5 DEF ChannelsOK
  <2>7. QED
    BY <1>1, <2>1, <2>3, <2>4, <2>6 DEF ChannelTypes, ChannelsOK
<1> HIDE DEF e
<1>4. RecordTypes' /\ PendingTypes'
  BY <1>1, <1>2, <1>3, EmitIs DEF RecordTypes, PendingTypes
<1>5. WorkerTypes' /\ RuntimeTypes' /\ ProviderTypes' /\ DrawnTypes'
  BY TypeParts, TypesStay DEF Forward, drawn
<1>6. QED
  BY <1>3, <1>4, <1>5, TypePartsNext

\* An emission of the worker itself.
LEMMA ServeEmitTypes ==
    ASSUME TypeInv, NEW e \in Events, e.id \in 0..asked, worker.run \in Runtimes,
           e.type = "accepted" => e.turn \in Turns, Emit(worker.run, e),
           UNCHANGED <<runtime, provider, channel, drawn>>, WorkerTypes'
    PROVE  TypeInv'
<1>1. TypeOK /\ asked' = asked
  BY DEF TypeInv, drawn
<1>2. RecordTypes' /\ PendingTypes'
  BY <1>1, EmitIs DEF RecordTypes, PendingTypes
<1>3. RuntimeTypes' /\ ProviderTypes' /\ ChannelTypes' /\ DrawnTypes'
  BY TypeParts, TypesStay DEF drawn
<1>4. QED
  BY <1>2, <1>3, TypePartsNext

LEMMA StartTypes ==
    ASSUME TypeInv, Start
    PROVE  TypeInv'
<1> USE TypeParts, TypePartsNext, TypesStay
<1>0. asked \in Nat
  BY TurnAssumption DEF DrawnTypes
<1>1. ASSUME NEW r \in Runtimes, StartBegin(r) PROVE TypeInv'
  <2>1. WorkerTypes'
    BY <1>0, <1>1, WorkerDoes DEF StartBegin, WorkerTypes, WorkerOK, Steps
  <2>2. RuntimeTypes' /\ DrawnTypes'
    BY <1>1 DEF StartBegin, RuntimeTypes, DrawnTypes
  <2>3. QED
    BY <1>1, <2>1, <2>2 DEF StartBegin
<1>2. ASSUME StartReplace PROVE TypeInv'
  <2>1. WorkerTypes'
    BY <1>2, WorkerGoes DEF StartReplace, WorkerTypes, WorkerOK, Steps, drawn
  <2>2. RuntimeTypes' /\ PendingTypes'
    BY <1>0, <1>2 DEF StartReplace, RuntimeTypes, PendingTypes, Nothing, drawn
  <2>3. QED
    BY <1>2, <2>1, <2>2 DEF StartReplace, drawn
<1>3. ASSUME StartLaunch PROVE TypeInv'
  <2>1. WorkerTypes'
    BY <1>3, WorkerGoes DEF StartLaunch, WorkerTypes, WorkerOK, Steps, drawn
  <2>2. ProviderTypes'
    <3>1. \A p \in Providers(asked) : [p EXCEPT !.at = "starting"] \in Providers(asked)
      BY DEF Providers
    <3>2. provider' = [provider EXCEPT ![worker.run] = [provider[worker.run] EXCEPT !.at = "starting"]]
      BY <1>3 DEF StartLaunch
    <3>3. QED
      BY <1>3, <3>1, <3>2 DEF ProviderTypes, StartLaunch, drawn
  <2>3. QED
    BY <1>3, <2>1, <2>2 DEF StartLaunch, drawn
<1>4. ASSUME StartInstall PROVE TypeInv'
  <2>1. WorkerTypes'
    BY <1>0, <1>4, WorkerDoes DEF StartInstall, WorkerTypes, WorkerOK, Steps, drawn
  <2>2. RuntimeTypes'
    BY <1>4 DEF StartInstall, RuntimeTypes, WorkerTypes, Workers
  <2>3. QED
    BY <1>4, <2>1, <2>2 DEF StartInstall, drawn
<1>5. ASSUME StartFails PROVE TypeInv'
  <2>1. WorkerTypes'
    BY <1>0, <1>5, WorkerDoes DEF StartFails, WorkerTypes, WorkerOK, Steps, drawn
  <2>2. RuntimeTypes'
    BY <1>5 DEF StartFails, RuntimeTypes
  <2>3. QED
    BY <1>5, <2>1, <2>2 DEF StartFails, drawn
<1>6. QED
  BY <1>1, <1>2, <1>3, <1>4, <1>5 DEF Start

LEMMA PromptTypes ==
    ASSUME TypeInv, Prompt
    PROVE  TypeInv'
<1> USE TypeParts, TypePartsNext, TypesStay
<1>0. asked \in Nat /\ task \in Tasks /\ disk \in Tasks
  BY TurnAssumption DEF DrawnTypes, RecordTypes
<1>1. ASSUME NEW r \in Runtimes, PromptAccept(r) PROVE TypeInv'
  <2> DEFINE last == task.turns[Len(task.turns)]
             turn == Turn(minted + 1, NextCount(task), "running")
             accepted == [task EXCEPT !.turns = Append(@, turn)]
             W(t) == [Doing("emit", r) EXCEPT !.turn = t]
  <2>1. ASSUME NEW t \in Turns, worker' = W(t), asked' = asked
        PROVE  WorkerTypes'
    <3>1. Doing("emit", r) \in Workers(asked) /\ Doing("emit", r).at = "emit"
          /\ Doing("emit", r).run = r
      BY <1>0, WorkerDoes DEF Steps
    <3>2. W(t) \in Workers(asked) /\ W(t).at = "emit" /\ W(t).run = r /\ W(t).turn = t
      BY <3>1 DEF Workers
    <3>3. QED
      BY <2>1, <3>2 DEF WorkerTypes, WorkerOK
  <2>2. CASE Joins(task)
    <3>1. last \in Turns
      BY <1>0, <2>2, TurnsIs DEF Joins, Running
    <3>2. /\ worker' = W(last) /\ disk' = Saved(task, loaded) /\ task' = task
          /\ UNCHANGED <<runtime, provider, channel, pending, loaded, used, minted, asked>>
      BY <1>1, <2>2 DEF PromptAccept
    <3> HIDE DEF last, W
    <3>3. WorkerTypes'
      BY <2>1, <3>1, <3>2
    <3>4. RecordTypes'
      BY <1>0, <3>2, SavedIs DEF RecordTypes
    <3>5. QED
      BY <3>2, <3>3, <3>4 DEF drawn
  <2>3. CASE ~Joins(task)
    <3>1. /\ worker' = W(turn) /\ disk' = Saved(accepted, loaded) /\ task' = accepted
          /\ minted < MaxTurns /\ minted' = minted + 1
          /\ UNCHANGED <<runtime, provider, channel, pending, loaded, used, asked>>
      BY <1>1, <2>3 DEF PromptAccept
    <3>2. turn \in Turns
      BY <1>0, <3>1, TurnsIs, TurnAssumption DEF Turn, Turns, NextCount, DrawnTypes
    <3> HIDE DEF turn, W
    <3>3. accepted \in Tasks
      BY <1>0, <3>2, AppendedIs
    <3> HIDE DEF accepted
    <3>4. WorkerTypes'
      BY <2>1, <3>1, <3>2
    <3>5. RecordTypes'
      BY <1>0, <3>1, <3>3, SavedIs DEF RecordTypes
    <3>6. DrawnTypes'
      BY <3>1, TurnAssumption DEF DrawnTypes
    <3>7. QED
      BY <3>1, <3>4, <3>5, <3>6
  <2>4. QED
    BY <2>2, <2>3
<1>2. ASSUME PromptEmit PROVE TypeInv'
  <2> DEFINE e == Accepted(worker.turn)
  <2>1. worker.run \in Runtimes /\ worker.turn \in Turns
    BY <1>2 DEF PromptEmit, WorkerTypes, WorkerOK
  <2>2. e \in Events /\ e.id \in 0..asked /\ e.type = "accepted" /\ e.turn \in Turns
    BY <1>0, <2>1, TurnAssumption DEF Accepted, Event, Events
  <2>3. Emit(worker.run, e) /\ UNCHANGED <<runtime, provider, channel, drawn>>
    BY <1>2 DEF PromptEmit
  <2>4. WorkerTypes'
    BY <1>2, <2>1, WorkerGoes DEF PromptEmit, WorkerTypes, WorkerOK, Steps, drawn
  <2> HIDE DEF e
  <2>5. QED
    BY <2>1, <2>2, <2>3, <2>4, ServeEmitTypes
<1>3. ASSUME PromptDeliver PROVE TypeInv'
  <2>1. WorkerTypes'
    BY <1>0, <1>3, WorkerDoes DEF PromptDeliver, WorkerTypes, WorkerOK, Steps, drawn
  <2>2. ProviderTypes'
    <3>1. \A p \in Providers(asked) : [p EXCEPT !.prompts = 1] \in Providers(asked)
      BY DEF Providers
    <3>2. \/ provider' = provider
          \/ provider' = [provider EXCEPT ![worker.run] = [provider[worker.run] EXCEPT !.prompts = 1]]
      BY <1>3 DEF PromptDeliver, Given
    <3>3. worker.run \in Runtimes /\ asked' = asked
      BY <1>3 DEF PromptDeliver, WorkerTypes, WorkerOK, drawn
    <3>4. provider \in [Runtimes -> Providers(asked)]
      BY DEF ProviderTypes
    <3>5. provider' \in [Runtimes -> Providers(asked)]
      BY ONLY <3>1, <3>2, <3>3, <3>4
    <3>6. QED
      BY <3>3, <3>5 DEF ProviderTypes
  <2>3. QED
    BY <1>3, <2>1, <2>2 DEF PromptDeliver, drawn
<1>4. QED
  BY <1>1, <1>2, <1>3 DEF Prompt

LEMMA AnswerTypes ==
    ASSUME TypeInv, Answer
    PROVE  TypeInv'
<1> USE TypeParts, TypePartsNext, TypesStay
<1>0. asked \in Nat
  BY TurnAssumption DEF DrawnTypes
<1>1. ASSUME NEW r \in Runtimes, NEW id \in 1..asked, Respond(r, id) PROVE TypeInv'
  <2>1. WorkerTypes'
    <3>1. Doing("resolve", r) \in Workers(asked) /\ Doing("resolve", r).at = "resolve"
          /\ Doing("resolve", r).run = r
      BY <1>0, WorkerDoes DEF Steps
    <3>2. /\ worker' = [Doing("resolve", r) EXCEPT !.ask = id]
          /\ asked' = asked
      BY <1>1 DEF Respond, drawn
    <3> DEFINE w == [Doing("resolve", r) EXCEPT !.ask = id]
    <3>3. w \in Workers(asked) /\ w.at = "resolve" /\ w.run = r
      BY <1>0, <3>1 DEF Workers
    <3>4. QED
      BY <3>2, <3>3 DEF WorkerTypes, WorkerOK
  <2>2. ProviderTypes'
    <3>1. \A p \in Providers(asked) : [p EXCEPT !.asks = @ \ {id}] \in Providers(asked)
      BY DEF Providers
    <3>2. provider' = [provider EXCEPT ![r] = [provider[r] EXCEPT !.asks = @ \ {id}]]
      BY <1>1 DEF Respond
    <3>3. QED
      BY <1>1, <3>1, <3>2 DEF ProviderTypes, Respond, drawn
  <2>3. QED
    BY <1>1, <2>1, <2>2 DEF Respond, drawn
<1>2. ASSUME RespondEmit PROVE TypeInv'
  <2> DEFINE e == Resolved(worker.ask)
  <2>1. worker.run \in Runtimes /\ worker.ask \in 0..asked
    BY <1>2 DEF RespondEmit, WorkerTypes, WorkerOK, Workers
  <2>2. e \in Events /\ e.id \in 0..asked /\ e.type # "accepted"
    BY <1>0, <2>1, TurnAssumption DEF Resolved, Event, Events, DrawnTypes
  <2>3. Emit(worker.run, e) /\ UNCHANGED <<runtime, provider, channel, drawn>>
    BY <1>2 DEF RespondEmit
  <2>4. WorkerTypes'
    BY <1>0, <1>2, WorkerDoes DEF RespondEmit, WorkerTypes, WorkerOK, Steps, drawn
  <2> HIDE DEF e
  <2>5. QED
    BY <2>1, <2>2, <2>3, <2>4, ServeEmitTypes
<1>3. QED
  BY <1>1, <1>2 DEF Answer

LEMMA CloseTypes ==
    ASSUME TypeInv, Close
    PROVE  TypeInv'
<1> USE TypeParts, TypePartsNext, TypesStay
<1>0. asked \in Nat
  BY TurnAssumption DEF DrawnTypes
<1>1. ASSUME NEW r \in Runtimes, CloseDriver(r) PROVE TypeInv'
  <2>1. WorkerTypes'
    BY <1>0, <1>1, WorkerDoes DEF CloseDriver, WorkerTypes, WorkerOK, Steps, drawn
  <2>2. RuntimeTypes'
    BY <1>1 DEF CloseDriver, RuntimeTypes
  <2>3. PendingTypes'
    BY <1>0, <1>1 DEF CloseDriver, PendingTypes, Nothing, drawn
  <2>4. QED
    BY <1>1, <2>1, <2>2, <2>3 DEF CloseDriver, drawn
<1>2. ASSUME CloseCheck PROVE TypeInv'
  <2>1. WorkerTypes'
    BY <1>2, WorkerGoes DEF CloseCheck, WorkerTypes, WorkerOK, Steps, drawn
  <2>2. QED
    BY <1>2, <2>1 DEF CloseCheck, drawn
<1>3. ASSUME CloseSettle PROVE TypeInv'
  <2> DEFINE e == Plain("failed")
  <2>1. worker.run \in Runtimes
    BY <1>3 DEF CloseSettle, WorkerTypes, WorkerOK
  <2>2. e \in Events /\ e.type # "accepted" /\ e.id \in 0..asked
    BY <1>0, PlainIs
  <2>3. Emit(worker.run, e) /\ UNCHANGED <<runtime, provider, channel, drawn>>
    BY <1>3 DEF CloseSettle
  <2>4. WorkerTypes'
    BY <1>3, <2>1, WorkerGoes DEF CloseSettle, WorkerTypes, WorkerOK, Steps, drawn
  <2> HIDE DEF e
  <2>5. QED
    BY <2>1, <2>2, <2>3, <2>4, ServeEmitTypes
<1>4. ASSUME CloseEnd PROVE TypeInv'
  <2>1. WorkerTypes'
    BY <1>0, <1>4, WorkerDoes DEF CloseEnd, WorkerTypes, WorkerOK, Steps, drawn
  <2>2. RuntimeTypes' /\ PendingTypes'
    BY <1>0, <1>4 DEF CloseEnd, RuntimeTypes, PendingTypes, Nothing, drawn
  <2>3. QED
    BY <1>4, <2>1, <2>2 DEF CloseEnd, drawn
<1>5. QED
  BY <1>1, <1>2, <1>3, <1>4 DEF Close

\* The turns up to one of them.
LEMMA KeptIs ==
    ASSUME NEW t \in Tasks, NEW keep \in Nat, keep <= Len(t.turns)
    PROVE  /\ [t EXCEPT !.turns = SubSeq(@, 1, keep)] \in Tasks
           /\ Len([t EXCEPT !.turns = SubSeq(@, 1, keep)].turns) = keep
           /\ \A k \in 1..keep :
                [t EXCEPT !.turns = SubSeq(@, 1, keep)].turns[k] = t.turns[k]
<1>1. t.turns \in Seq(Turns) /\ Len(t.turns) \in Nat /\ DOMAIN t.turns = 1..Len(t.turns)
      /\ \A k \in 1..Len(t.turns) : t.turns[k] \in Turns
  BY TurnsIs
<1> DEFINE s == SubSeq(t.turns, 1, keep)
<1>2. s \in Seq(Turns) /\ Len(s) = keep /\ \A k \in 1..keep : s[k] = t.turns[k]
  BY <1>1, SubSeqProperties
<1> HIDE DEF s
<1>3. [t EXCEPT !.turns = s] \in Tasks /\ [t EXCEPT !.turns = s].turns = s
  BY <1>2 DEF Tasks
<1>4. QED
  BY <1>2, <1>3 DEF s

LEMMA RewindTypes ==
    ASSUME TypeInv, RecordInv, Rewind
    PROVE  TypeInv'
<1> USE TypeParts, TypePartsNext, TypesStay
<1>0. asked \in Nat /\ TypeOK
  BY TurnAssumption DEF DrawnTypes, TypeInv
<1>1. ASSUME NEW keep \in 0..MaxTurns, RewindRead(keep) PROVE TypeInv'
  <2> DEFINE source == [Hydrated EXCEPT !.turns = SubSeq(@, 1, keep)]
             w == [Doing("rewind", None) EXCEPT !.source = source]
  <2>1. /\ worker' = w /\ task' = Hydrated /\ loaded' = TRUE
        /\ UNCHANGED <<runtime, provider, channel, pending, disk, drawn>>
    BY <1>1 DEF RewindRead
  <2>2. Hydrated \in Tasks
    BY <1>0, HydratedIs
  <2>3. source \in Tasks
    <3>1. PICK i \in DOMAIN Hydrated.turns : Hydrated.turns[i].count = keep + 1
      BY <1>1 DEF RewindRead
    <3>2. DOMAIN Hydrated.turns = 1..Len(Hydrated.turns) /\ Len(Hydrated.turns) \in Nat
      BY <2>2, TurnsIs
    <3>3. Hydrated.turns[i].count <= i
      BY DEF RecordInv, CountsOK
    <3>4. keep \in Nat /\ keep <= Len(Hydrated.turns)
      BY <3>1, <3>2, <3>3, TurnAssumption
    <3>5. QED
      BY <2>2, <3>4, KeptIs
  <2> HIDE DEF source
  <2>4. w \in Workers(asked) /\ w.at = "rewind"
    <3>1. Doing("rewind", None) \in Workers(asked) /\ Doing("rewind", None).at = "rewind"
      BY <1>0, WorkerDoes DEF Steps
    <3>2. QED
      BY <2>3, <3>1 DEF Workers
  <2> HIDE DEF w
  <2>5. WorkerTypes'
    BY <2>1, <2>4 DEF WorkerTypes, WorkerOK, drawn
  <2>6. RecordTypes'
    BY <2>1, <2>2 DEF RecordTypes
  <2>7. QED
    BY <2>1, <2>5, <2>6 DEF drawn
<1>2. ASSUME RewindFails PROVE TypeInv'
  <2>1. WorkerTypes'
    BY <1>0, <1>2, WorkerDoes DEF RewindFails, WorkerTypes, WorkerOK, Steps, drawn
  <2>2. QED
    BY <1>2, <2>1 DEF RewindFails, drawn
<1>3. ASSUME RewindDrop PROVE TypeInv'
  <2>1. WorkerTypes'
    BY <1>3, WorkerGoes DEF RewindDrop, WorkerTypes, WorkerOK, Steps, drawn
  <2>2. RuntimeTypes'
    BY <1>3 DEF RewindDrop, RuntimeTypes
  <2>3. QED
    BY <1>3, <2>1, <2>2 DEF RewindDrop, drawn
<1>4. ASSUME RewindWrite PROVE TypeInv'
  <2>1. WorkerTypes'
    BY <1>0, <1>4, WorkerDoes DEF RewindWrite, WorkerTypes, WorkerOK, Steps, drawn
  <2>2. RecordTypes'
    BY <1>4, StatusSet DEF RewindWrite, RecordTypes, WorkerTypes, Workers, Statuses
  <2>3. QED
    BY <1>4, <2>1, <2>2 DEF RewindWrite, drawn
<1>5. QED
  BY <1>1, <1>2, <1>3, <1>4 DEF Rewind

LEMMA ArchiveTypes ==
    ASSUME TypeInv, NEW archived \in BOOLEAN, Archive(archived)
    PROVE  TypeInv'
<1> USE TypeParts, TypePartsNext, TypesStay
<1> DEFINE t == [task EXCEPT !.archived = archived]
<1>1. t \in Tasks
  BY DEF RecordTypes, Tasks
<1>2. task' = t /\ disk' = Saved(t, loaded) /\ loaded' = loaded
      /\ UNCHANGED <<runtime, provider, channel, pending, worker, drawn>>
  BY DEF Archive
<1> HIDE DEF t
<1>3. RecordTypes'
  BY <1>1, <1>2, SavedIs DEF RecordTypes
<1>4. QED
  BY <1>2, <1>3 DEF drawn

LEMMA RestartIs ==
    ASSUME Restart, disk \in Tasks
    PROVE  /\ loaded' = Busy(disk)
           /\ task' = IF Busy(disk) THEN Settled(disk) ELSE [disk EXCEPT !.turns = <<>>]
           /\ disk' = IF Busy(disk) THEN Settled(disk) ELSE disk
           /\ Settled(disk) \in Tasks /\ [disk EXCEPT !.turns = <<>>] \in Tasks
<1>1. <<>> \in Seq(Turns)
  BY EmptySeq
<1>2. [disk EXCEPT !.turns = <<>>] \in Tasks
  BY <1>1 DEF Tasks
<1>3. QED
  BY <1>2, SettledIs DEF Restart, Settled

LEMMA RestartTypes ==
    ASSUME TypeInv, Restart
    PROVE  TypeInv'
<1> USE TypeParts, TypePartsNext, TypesStay
<1>0. asked \in Nat /\ UNCHANGED drawn /\ asked' = asked
  BY TurnAssumption DEF DrawnTypes, Restart, drawn
<1>1. RecordTypes'
  BY RestartIs DEF RecordTypes, Busy
<1>2. ChannelTypes'
  <2>1. <<>> \in Seq(Events) /\ Len(<<>>) = 0 /\ DOMAIN <<>> = {}
    BY EmptySeq, LenProperties
  <2>2. channel' = [r \in Runtimes |-> <<>>]
    BY DEF Restart
  <2>3. QED
    BY <2>1, <2>2, TurnAssumption DEF ChannelTypes, ChannelsOK
<1>3. RuntimeTypes'
  BY DEF Restart, RuntimeTypes
<1>4. PendingTypes'
  BY <1>0 DEF Restart, PendingTypes, Nothing
<1>5. WorkerTypes'
  BY <1>0, WorkerDoes DEF Restart, WorkerTypes, WorkerOK, Steps
<1>6. ProviderTypes'
  <2>1. Unstarted \in Providers(asked) /\ [Unstarted EXCEPT !.at = "gone"] \in Providers(asked)
    BY DEF Unstarted, Providers
  <2>2. provider' = [r \in Runtimes |-> IF r \in used THEN [Unstarted EXCEPT !.at = "gone"]
                                                      ELSE Unstarted]
    BY DEF Restart
  <2>3. QED
    BY <1>0, <2>1, <2>2 DEF ProviderTypes
<1>7. QED
  BY <1>0, <1>1, <1>2, <1>3, <1>4, <1>5, <1>6

LEMMA ProcessTypes ==
    ASSUME TypeInv, NEW r \in Runtimes, Process(r)
    PROVE  TypeInv'
<1> USE TypeParts, TypePartsNext, TypesStay
<1>0. asked \in Nat /\ asked <= MaxAsks /\ MaxAsks \in Nat /\ TypeOK /\ ChannelsOK
      /\ provider \in [Runtimes -> Providers(asked)]
  BY TurnAssumption DEF DrawnTypes, TypeInv, ProviderTypes
<1>1. ASSUME NEW e \in Events, Says(r, e), e.type # "accepted", e.id \in 0..asked',
             asked' \in Nat, asked <= asked'
      PROVE  ChannelTypes'
  <2>1. /\ channel' \in [Runtimes -> Seq(Events)]
        /\ Len(channel'[r]) = Len(channel[r]) + 1 /\ Len(channel'[r]) <= MaxBacklog
        /\ DOMAIN channel[r] = 1..Len(channel[r]) /\ DOMAIN channel'[r] = 1..Len(channel'[r])
        /\ Len(channel[r]) \in Nat
        /\ \A i \in 1..Len(channel[r]) : channel'[r][i] = channel[r][i]
        /\ channel'[r][Len(channel[r]) + 1] = e
        /\ \A q \in Runtimes : q # r => channel'[q] = channel[q]
    BY <1>0, <1>1, SaidLast
  <2>2. \A q \in Runtimes : Len(channel[q]) <= MaxBacklog
    BY <1>0 DEF TypeOK
  <2>3. ASSUME NEW q \in Runtimes
        PROVE  Len(channel'[q]) <= MaxBacklog
    BY <2>1, <2>2
  <2>4. ASSUME NEW q \in Runtimes, NEW i \in DOMAIN channel'[q]
        PROVE  channel'[q][i].type # "accepted" /\ channel'[q][i].id \in 0..asked'
    <3>1. \A p \in Runtimes : \A j \in DOMAIN channel[p] :
              channel[p][j].type # "accepted" /\ channel[p][j].id \in 0..asked'
      BY <1>0, <1>1 DEF ChannelsOK
    <3>2. CASE q # r
      BY <2>1, <3>1, <3>2
    <3>3. CASE q = r /\ i \in 1..Len(channel[r])
      BY <2>1, <3>1, <3>3
    <3>4. CASE q = r /\ i = Len(channel[r]) + 1
      BY <1>1, <2>1, <3>4
    <3>5. QED
      BY <2>1, <3>2, <3>3, <3>4
  <2>5. QED
    BY <2>1, <2>3, <2>4 DEF ChannelTypes, ChannelsOK
<1>2. ASSUME NEW type \in {"connected", "started", "output", "completed", "failed", "error", "exited"},
             Says(r, Plain(type)), Outside, NEW p \in Providers(asked),
             provider' = provider \/ provider' = [provider EXCEPT ![r] = p]
      PROVE  TypeInv'
  <2>1. asked' = asked
    BY <1>2 DEF Outside, drawn
  <2>2. Plain(type) \in Events /\ Plain(type).type # "accepted" /\ Plain(type).id \in 0..asked'
    BY <1>0, <2>1, PlainIs
  <2>3. ChannelTypes'
    BY <1>0, <1>1, <1>2, <2>1, <2>2
  <2>4. ProviderTypes'
    BY <1>0, <1>2, <2>1 DEF ProviderTypes
  <2>5. QED
    BY <1>2, <2>3, <2>4 DEF Outside, drawn
<1>3. provider[r] \in Providers(asked)
  BY <1>0
<1>4. CASE Connect(r)
  <2>1. [provider[r] EXCEPT !.at = "ready"] \in Providers(asked)
    BY <1>3 DEF Providers
  <2>2. QED
    BY <1>2, <1>4, <2>1 DEF Connect
<1>5. CASE TakePrompt(r)
  <2>1. [Unstarted EXCEPT !.at = "busy"] \in Providers(asked)
    BY DEF Unstarted, Providers
  <2>2. QED
    BY <1>2, <1>5, <2>1 DEF TakePrompt
<1>6. CASE Output(r)
  BY <1>2, <1>3, <1>6 DEF Output
<1>7. ASSUME NEW kind \in Interactions, Ask(r, kind)
      PROVE  TypeInv'
  <2> DEFINE e == Event(kind, asked', NoTurn)
             p == [provider[r] EXCEPT !.asks = {asked'}]
  <2>1. /\ asked' = asked + 1 /\ asked < MaxAsks /\ Says(r, e)
        /\ provider' = [provider EXCEPT ![r] = p]
        /\ UNCHANGED <<runtime, pending, record, worker, used, minted>>
    BY <1>7 DEF Ask
  <2>2. e \in Events /\ e.type # "accepted" /\ e.id = asked'
    BY <1>0, <2>1 DEF Event, Events, Interactions
  <2>3. p \in Providers(asked') /\ \A q \in Runtimes : provider[q] \in Providers(asked')
    BY <1>0, <1>3, <2>1 DEF Providers
  <2> HIDE DEF e, p
  <2>4. ChannelTypes'
    BY <1>0, <1>1, <2>1, <2>2
  <2>5. ProviderTypes'
    BY <1>0, <2>1, <2>3 DEF ProviderTypes
  <2>6. PendingTypes'
    <3>1. \A q \in Runtimes : pending[q] \in [Interactions -> 0..asked']
      BY <1>0, <2>1 DEF PendingTypes
    <3>2. pending' = pending /\ pending \in [Runtimes -> [Interactions -> 0..asked]]
      BY <2>1 DEF PendingTypes
    <3>3. QED
      BY <3>1, <3>2 DEF PendingTypes
  <2>7. WorkerTypes'
    BY <1>0, <2>1 DEF WorkerTypes, WorkerOK, Workers
  <2>8. DrawnTypes'
    BY <1>0, <2>1 DEF DrawnTypes
  <2>9. QED
    BY <2>1, <2>4, <2>5, <2>6, <2>7, <2>8
<1>8. ASSUME NEW outcome \in {"completed", "failed"}, EndTurn(r, outcome)
      PROVE  TypeInv'
  <2>1. [[provider[r] EXCEPT !.at = "ready"] EXCEPT !.asks = {}] \in Providers(asked)
    BY <1>3 DEF Providers
  <2>2. provider' = [provider EXCEPT ![r] = [[provider[r] EXCEPT !.at = "ready"] EXCEPT !.asks = {}]]
    BY <1>0, <1>8 DEF EndTurn
  <2>3. Says(r, Plain(outcome)) /\ Outside
    BY <1>8 DEF EndTurn
  <2>4. QED
    BY <1>2, <2>1, <2>2, <2>3
<1>9. CASE ReportError(r)
  BY <1>2, <1>3, <1>9 DEF ReportError
<1>10. CASE Exit(r)
  <2>1. [Unstarted EXCEPT !.at = "gone"] \in Providers(asked)
    BY DEF Unstarted, Providers
  <2>2. QED
    BY <1>2, <1>10, <2>1 DEF Exit
<1>11. QED
  BY <1>4, <1>5, <1>6, <1>7, <1>8, <1>9, <1>10 DEF Process

LEMMA TypeNext ==
    ASSUME TypeInv, RecordInv, [Next]_vars
    PROVE  TypeInv'
<1>1. CASE UNCHANGED vars
  BY <1>1, TypeParts, TypePartsNext, TypesStay DEF vars, drawn
<1>2. CASE Next
  BY <1>2, StartTypes, PromptTypes, AnswerTypes, CloseTypes, RewindTypes, ArchiveTypes,
     RestartTypes, ForwardTypes, ProcessTypes DEF Next
<1>3. QED
  BY <1>1, <1>2

-----------------------------------------------------------------------------
(* What is on disk *)

LEMMA CountsReduced ==
    ASSUME NEW t \in Tasks, NEW n, NEW p, NEW e, NEW x, Reduced(t, p, n, e, x),
           e.type = "accepted" => e.turn \in Turns /\ e.turn.count <= Len(t.turns) + 1,
           CountsOK(t.turns)
    PROVE  CountsOK(x.task.turns) /\ Len(t.turns) <= Len(x.task.turns)
<1> DEFINE s == t.turns
           u == x.task.turns
           new == Append(s, e.turn)
<1>1. s \in Seq(Turns) /\ Len(s) \in Nat /\ DOMAIN s = 1..Len(s) /\ CountsOK(s)
  BY TurnsIs
<1>2. DOMAIN u = 1..Len(u) /\ Len(u) \in Nat
  BY TurnsIs DEF Reduced
<1>3. CASE u = s
  BY <1>1, <1>3
<1>4. CASE e.type = "accepted" /\ u = new
  <2>1. /\ Len(new) = Len(s) + 1 /\ new[Len(s) + 1] = e.turn
        /\ \A i \in 1..Len(s) : new[i] = s[i]
    BY <1>1, <1>4, AppendProperties
  <2> HIDE DEF new, u, s
  <2>2. ASSUME NEW i \in DOMAIN u PROVE u[i].count <= i
    <3>1. CASE i \in 1..Len(s)
      BY <1>1, <1>4, <2>1, <3>1 DEF CountsOK
    <3>2. CASE i = Len(s) + 1
      BY <1>4, <2>1, <3>2 DEF s
    <3>3. QED
      BY <1>1, <1>2, <1>4, <2>1, <3>1, <3>2
  <2>3. QED
    BY <1>1, <1>4, <2>1, <2>2 DEF CountsOK, u, s
<1>5. CASE e.type # "accepted" /\ Ends(t, x.task)
  <2>1. Len(u) = Len(s) /\ \A i \in DOMAIN s : u[i].count = s[i].count
    BY <1>5 DEF Ends
  <2> HIDE DEF u, s
  <2>2. CountsOK(u)
    BY <1>1, <1>2, <2>1 DEF CountsOK
  <2>3. QED
    BY <1>1, <2>1, <2>2 DEF u, s
<1>6. QED
  BY <1>3, <1>4, <1>5 DEF Reduced

\* What an emission leaves.
LEMMA EmitRecord ==
    ASSUME TypeInv, RecordInv, NEW r \in Runtimes, NEW e \in Events, e.id \in 0..asked,
           e.type = "accepted" => e.turn \in Turns /\ e.turn.count <= Len(disk.turns) + 1,
           Emit(r, e)
    PROVE  /\ Hydrated' = disk'
           /\ ~loaded' /\ Len(task'.turns) # 0 => Len(task'.turns) = 1 /\ Running(task)'
           /\ CountsOK(task'.turns) /\ CountsOK(disk'.turns)
           /\ Len(disk.turns) \in Nat /\ Len(disk'.turns) \in Nat
           /\ Len(disk.turns) <= Len(disk'.turns)
<1>0. TypeOK /\ task \in Tasks /\ disk \in Tasks
  BY DEF TypeInv, TypeOK
<1>1. /\ task' \in Tasks /\ disk' \in Tasks
      /\ active # r => UNCHANGED <<record, pending>>
      /\ active = r =>
            /\ loaded' = TRUE
            /\ task'.turns = Reduce(Hydrated, pending[r], e).task.turns
            /\ Reduced(Hydrated, pending[r], asked, e, Reduce(Hydrated, pending[r], e))
            /\ disk' = task' \/ (task' = Hydrated /\ disk' = disk)
  BY <1>0, EmitIs
<1>2. Len(disk.turns) \in Nat /\ Len(disk'.turns) \in Nat
  BY <1>0, <1>1, TurnsIs
<1>3. CASE active # r
  BY <1>1, <1>2, <1>3 DEF record, RecordInv, Hydrated, Running
<1>4. CASE active = r
  <2> DEFINE x == Reduce(Hydrated, pending[r], e)
  <2>1. Reduced(disk, pending[r], asked, e, x) /\ task'.turns = x.task.turns /\ loaded' = TRUE
    BY <1>1, <1>4 DEF RecordInv
  <2> HIDE DEF x
  <2>2. CountsOK(x.task.turns) /\ Len(disk.turns) <= Len(x.task.turns)
    BY <1>0, <2>1, CountsReduced DEF RecordInv
  <2>3. Hydrated' = task'
    BY <2>1 DEF Hydrated
  <2>4. disk' = task'
    BY <1>1, <1>4 DEF RecordInv
  <2>5. QED
    BY <1>2, <2>1, <2>2, <2>3, <2>4
<1>5. QED
  BY <1>3, <1>4

LEMMA RecordStays ==
    ASSUME RecordInv, UNCHANGED record, worker'.source = worker.source \/ worker'.source = Blank,
           worker'.at # "emit"
    PROVE  RecordInv'
<1>1. Hydrated' = Hydrated /\ disk' = disk /\ task' = task /\ loaded' = loaded
  BY DEF record, Hydrated
<1>2. CountsOK(Blank.turns)
  BY EmptySeq, LenProperties DEF CountsOK, Blank
<1>3. QED
  BY <1>1, <1>2 DEF RecordInv, CountsOK, Running

LEMMA RecordInit == Init => RecordInv
<1>1. DOMAIN <<>> = {} /\ Len(<<>>) = 0
  BY EmptySeq, LenProperties
<1>2. QED
  BY <1>1 DEF Init, RecordInv, Hydrated, CountsOK, Blank, Resting

LEMMA DoesSource ==
    ASSUME NEW at, NEW r
    PROVE  /\ Doing(at, r).source = Blank /\ Doing(at, r).at = at /\ Resting.source = Blank
           /\ Resting.at = "idle"
BY DEF Doing, Resting

LEMMA GoSource ==
    ASSUME WorkerTypes, NEW at
    PROVE  Go(at).source = worker.source /\ Go(at).at = at
BY DEF Go, WorkerTypes, Workers

LEMMA HydratedSaved ==
    ASSUME TypeInv, TypeInv', Hydrated = disk, NEW t \in Tasks, task' = t,
           disk' = Saved(t, loaded), loaded' = loaded
    PROVE  Hydrated' = disk'
BY DEF Hydrated, Saved

LEMMA RecordPrompt ==
    ASSUME TypeInv, TypeInv', RecordInv, NEW r \in Runtimes, PromptAccept(r)
    PROVE  RecordInv'
<1> DEFINE last == task.turns[Len(task.turns)]
           turn == Turn(minted + 1, NextCount(task), "running")
           accepted == [task EXCEPT !.turns = Append(@, turn)]
           W(t) == [Doing("emit", r) EXCEPT !.turn = t]
<1>0. task \in Tasks /\ disk \in Tasks /\ task' \in Tasks /\ disk' \in Tasks /\ loaded \in BOOLEAN
      /\ minted \in 0..MaxTurns
  BY DEF TypeInv, TypeOK
<1>1. \A t : W(t).turn = t /\ W(t).source = Blank /\ W(t).at = "emit"
  BY DEF Doing, Resting
<1>2. CountsOK(Blank.turns)
  BY EmptySeq, LenProperties DEF CountsOK, Blank
<1>3. /\ Len(task.turns) \in Nat /\ DOMAIN task.turns = 1..Len(task.turns)
      /\ Len(disk.turns) \in Nat /\ DOMAIN disk.turns = 1..Len(disk.turns)
      /\ Hydrated = disk
      /\ \A i \in 1..Len(task.turns) : task.turns[i] \in Turns
  BY <1>0, TurnsIs DEF RecordInv
<1>4. loaded => disk = task
  BY <1>3 DEF Hydrated
<1>5. CASE Joins(task)
  <2>1. /\ worker' = W(last) /\ disk' = Saved(task, loaded) /\ task' = task /\ loaded' = loaded
    BY <1>5 DEF PromptAccept
  <2>2. Hydrated' = disk'
    BY <1>0, <1>3, <2>1, HydratedSaved
  <2>3. disk'.turns = disk.turns
    BY <1>0, <1>4, <2>1 DEF Saved, Tasks
  <2>4. last.count <= Len(disk.turns) + 1
    <3>1. Len(task.turns) \in DOMAIN task.turns
      BY <1>0, <1>3, <1>5, TurnsIs DEF Joins, Running
    <3>2. last.count <= Len(task.turns)
      BY <3>1 DEF RecordInv, CountsOK
    <3>3. Len(task.turns) <= Len(disk.turns) + 1
      BY <1>3, <1>4 DEF RecordInv
    <3>4. last.count \in Nat
      BY <1>3, <3>1 DEF Turns
    <3>5. QED
      BY <1>3, <3>2, <3>3, <3>4
  <2> HIDE DEF last, W
  <2>5. QED
    BY <1>1, <1>2, <2>1, <2>2, <2>3, <2>4 DEF RecordInv, Running
<1>6. CASE ~Joins(task)
  <2>1. /\ worker' = W(turn) /\ disk' = Saved(accepted, loaded) /\ task' = accepted
        /\ loaded' = loaded /\ minted < MaxTurns
    BY <1>6 DEF PromptAccept
  <2>2. turn \in Turns /\ turn.count = Len(task.turns) + 1 /\ turn.status = "running"
    BY <1>0, <1>3, <2>1, TurnAssumption DEF Turn, Turns, NextCount
  <2> HIDE DEF turn, W
  <2>3. accepted \in Tasks /\ accepted.turns = Append(task.turns, turn)
    BY <1>0, <2>2, AppendedIs
  <2> HIDE DEF accepted
  <2>4. Hydrated' = disk'
    BY <1>3, <2>1, <2>3, HydratedSaved
  <2>5. /\ Len(accepted.turns) = Len(task.turns) + 1
        /\ \A i \in 1..Len(task.turns) : accepted.turns[i] = task.turns[i]
        /\ accepted.turns[Len(task.turns) + 1] = turn
        /\ DOMAIN accepted.turns = 1..(Len(task.turns) + 1)
    BY <1>0, <2>2, <2>3, AppendProperties, TurnsIs
  <2>6. CountsOK(task'.turns)
    <3>1. ASSUME NEW i \in DOMAIN accepted.turns PROVE accepted.turns[i].count <= i
      <4>1. CASE i \in 1..Len(task.turns)
        BY <1>3, <2>5, <4>1 DEF RecordInv, CountsOK
      <4>2. CASE i = Len(task.turns) + 1
        BY <2>2, <2>5, <4>2, <1>3
      <4>3. QED
        BY <1>3, <2>5, <4>1, <4>2
    <3>2. QED
      BY <2>1, <3>1 DEF CountsOK
  <2>7. disk'.turns = (IF loaded THEN accepted.turns ELSE disk.turns)
    BY <1>0, <2>1, <2>3 DEF Saved, Tasks
  <2>8. CountsOK(disk'.turns)
    BY <2>1, <2>6, <2>7 DEF RecordInv
  <2>9. turn.count <= Len(disk'.turns) + 1
    <3>1. CASE loaded
      BY <1>3, <2>2, <2>5, <2>7, <3>1
    <3>2. CASE ~loaded
      <4>1. Len(task.turns) = 0
        BY <1>3, <1>6, <3>2, <1>0, TurnsIs DEF RecordInv, Joins
      <4>2. QED
        BY <1>3, <2>2, <2>7, <3>2, <4>1
    <3>3. QED
      BY <3>1, <3>2
  <2>10. ~loaded' => Len(task'.turns) = 1 /\ Running(task)'
    <3>1. CASE ~loaded
      <4>1. Len(task.turns) = 0
        BY <1>3, <1>6, <3>1, <1>0, TurnsIs DEF RecordInv, Joins
      <4>2. Len(accepted.turns) = 1 /\ accepted.turns[1].status = "running" /\ accepted.turns # <<>>
        BY <2>2, <2>3, <2>5, <4>1, TurnsIs
      <4>3. QED
        BY <2>1, <4>2 DEF Running
    <3>2. QED
      BY <2>1, <3>1
  <2>11. QED
    BY <1>1, <1>2, <2>1, <2>4, <2>6, <2>8, <2>9, <2>10 DEF RecordInv
<1>7. QED
  BY <1>5, <1>6

LEMMA RecordForward ==
    ASSUME TypeInv, RecordInv, NEW r \in Runtimes, Forward(r)
    PROVE  RecordInv'
<1> DEFINE e == Head(channel[r])
<1>1. channel[r] # <<>> /\ Emit(r, e) /\ worker' = worker
  BY DEF Forward
<1>2. channel[r] \in Seq(Events) /\ 1 \in DOMAIN channel[r] /\ e = channel[r][1] /\ e \in Events
  <2>1. channel[r] \in Seq(Events)
    BY DEF TypeInv, TypeOK
  <2>2. QED
    BY <1>1, <2>1, HeadTailProperties, EmptySeq, LenProperties
<1>3. e.type # "accepted" /\ e.id \in 0..asked
  BY <1>2 DEF TypeInv, ChannelsOK
<1> HIDE DEF e
<1>4. /\ Hydrated' = disk'
      /\ ~loaded' /\ Len(task'.turns) # 0 => Len(task'.turns) = 1 /\ Running(task)'
      /\ CountsOK(task'.turns) /\ CountsOK(disk'.turns)
      /\ Len(disk.turns) \in Nat /\ Len(disk'.turns) \in Nat
      /\ Len(disk.turns) <= Len(disk'.turns)
  BY <1>1, <1>2, <1>3, EmitRecord
<1>5. worker.at = "emit" => worker.turn.count \in Nat
  BY DEF TypeInv, WorkerOK, Turns
<1>6. QED
  BY <1>1, <1>4, <1>5 DEF RecordInv

LEMMA RecordServeEmit ==
    ASSUME TypeInv, RecordInv, NEW e \in Events, e.id \in 0..asked, worker.run \in Runtimes,
           e.type = "accepted" => e.turn \in Turns /\ e.turn.count <= Len(disk.turns) + 1,
           Emit(worker.run, e),
           worker'.source = worker.source \/ worker'.source = Blank, worker'.at # "emit"
    PROVE  RecordInv'
<1>1. CountsOK(Blank.turns)
  BY EmptySeq, LenProperties DEF CountsOK, Blank
<1>2. /\ Hydrated' = disk'
      /\ ~loaded' /\ Len(task'.turns) # 0 => Len(task'.turns) = 1 /\ Running(task)'
      /\ CountsOK(task'.turns) /\ CountsOK(disk'.turns)
  BY EmitRecord
<1>3. QED
  BY <1>1, <1>2 DEF RecordInv

LEMMA RecordNext ==
    ASSUME TypeInv, TypeInv', RecordInv, [Next]_vars
    PROVE  RecordInv'
<1>0. WorkerTypes /\ TypeOK /\ asked \in Nat
  BY TypeParts, TurnAssumption DEF TypeInv, DrawnTypes
<1>1. CASE UNCHANGED vars
  BY <1>1 DEF vars, record, RecordInv, Hydrated, Running, CountsOK
<1>2. CASE Start
  BY <1>0, <1>2, RecordStays, DoesSource, GoSource
     DEF Start, StartBegin, StartReplace, StartLaunch, StartInstall, StartFails
<1>3. CASE Prompt
  <2>1. ASSUME NEW r \in Runtimes, PromptAccept(r) PROVE RecordInv'
    BY <2>1, RecordPrompt
  <2>2. ASSUME PromptEmit PROVE RecordInv'
    <3> DEFINE e == Accepted(worker.turn)
    <3>1. worker.run \in Runtimes /\ worker.turn \in Turns
          /\ worker.turn.count <= Len(disk.turns) + 1
      BY <2>2 DEF PromptEmit, TypeInv, WorkerOK, RecordInv
    <3>2. e \in Events /\ e.id \in 0..asked /\ e.turn = worker.turn
      BY <1>0, <3>1, TurnAssumption DEF Accepted, Event, Events
    <3>3. Emit(worker.run, e) /\ worker' = Go("deliver")
      BY <2>2 DEF PromptEmit
    <3> HIDE DEF e
    <3>4. QED
      BY <1>0, <3>1, <3>2, <3>3, RecordServeEmit, GoSource
  <2>3. ASSUME PromptDeliver PROVE RecordInv'
    BY <2>3, RecordStays, DoesSource DEF PromptDeliver
  <2>4. QED
    BY <1>3, <2>1, <2>2, <2>3 DEF Prompt
<1>4. CASE Answer
  <2>1. ASSUME NEW r \in Runtimes, NEW id \in 1..asked, Respond(r, id) PROVE RecordInv'
    <3>1. worker'.source = Blank /\ worker'.at = "resolve"
      BY <2>1 DEF Respond, Doing, Resting
    <3>2. QED
      BY <2>1, <3>1, RecordStays DEF Respond
  <2>2. ASSUME RespondEmit PROVE RecordInv'
    <3> DEFINE e == Resolved(worker.ask)
    <3>1. worker.run \in Runtimes /\ worker.ask \in 0..asked
      BY <1>0, <2>2 DEF RespondEmit, TypeInv, WorkerOK, WorkerTypes, Workers
    <3>2. e \in Events /\ e.id \in 0..asked /\ e.type # "accepted"
      BY <1>0, <3>1, TurnAssumption DEF Resolved, Event, Events, TypeOK
    <3>3. Emit(worker.run, e) /\ worker' = Resting
      BY <2>2 DEF RespondEmit
    <3> HIDE DEF e
    <3>4. QED
      BY <3>1, <3>2, <3>3, RecordServeEmit, DoesSource
  <2>3. QED
    BY <1>4, <2>1, <2>2 DEF Answer
<1>5. CASE Close
  <2>1. ASSUME CloseSettle PROVE RecordInv'
    <3> DEFINE e == Plain("failed")
    <3>1. worker.run \in Runtimes
      BY <2>1 DEF CloseSettle, TypeInv, WorkerOK
    <3>2. e \in Events /\ e.id \in 0..asked /\ e.type # "accepted"
      BY <1>0, PlainIs
    <3>3. Emit(worker.run, e) /\ worker' = Go("end")
      BY <2>1 DEF CloseSettle
    <3> HIDE DEF e
    <3>4. QED
      BY <1>0, <3>1, <3>2, <3>3, RecordServeEmit, GoSource
  <2>2. ASSUME NEW r \in Runtimes, CloseDriver(r) PROVE RecordInv'
    BY <2>2, RecordStays, DoesSource DEF CloseDriver
  <2>3. ASSUME CloseCheck PROVE RecordInv'
    BY <1>0, <2>3, RecordStays, GoSource DEF CloseCheck
  <2>4. ASSUME CloseEnd PROVE RecordInv'
    BY <2>4, RecordStays, DoesSource DEF CloseEnd
  <2>5. QED
    BY <1>5, <2>1, <2>2, <2>3, <2>4 DEF Close
<1>6. CASE Rewind
  <2>1. ASSUME NEW keep \in 0..MaxTurns, RewindRead(keep) PROVE RecordInv'
    <3> DEFINE source == [Hydrated EXCEPT !.turns = SubSeq(@, 1, keep)]
    <3>1. /\ worker' = [Doing("rewind", None) EXCEPT !.source = source]
          /\ task' = disk /\ loaded' = TRUE /\ disk' = disk
          /\ source = [disk EXCEPT !.turns = SubSeq(@, 1, keep)]
      BY <2>1 DEF RewindRead, RecordInv
    <3> HIDE DEF source
    <3>2. PICK i \in DOMAIN disk.turns : disk.turns[i].count = keep + 1
      BY <2>1 DEF RewindRead, RecordInv
    <3>3. disk \in Tasks /\ DOMAIN disk.turns = 1..Len(disk.turns) /\ Len(disk.turns) \in Nat
      BY <1>0, TurnsIs DEF TypeOK
    <3>4. disk.turns[i].count <= i
      BY DEF RecordInv, CountsOK
    <3>5. keep \in Nat /\ keep <= Len(disk.turns)
      BY <3>2, <3>3, <3>4, TurnAssumption
    <3>6. /\ source \in Tasks /\ Len(source.turns) = keep
          /\ \A k \in 1..keep : source.turns[k] = disk.turns[k]
      BY <3>1, <3>3, <3>5, KeptIs
    <3>7. DOMAIN source.turns = 1..keep
      BY <3>6, TurnsIs
    <3>8. CountsOK(source.turns)
      BY <3>3, <3>5, <3>6, <3>7 DEF RecordInv, CountsOK
    <3>9. worker'.source = source /\ worker'.at = "rewind"
      BY <3>1 DEF Doing, Resting
    <3>10. Hydrated' = disk'
      BY <3>1 DEF Hydrated
    <3>11. QED
      BY <3>1, <3>8, <3>9, <3>10 DEF RecordInv
  <2>2. ASSUME RewindFails PROVE RecordInv'
    BY <2>2, RecordStays, DoesSource DEF RewindFails
  <2>3. ASSUME RewindDrop PROVE RecordInv'
    BY <1>0, <2>3, RecordStays, GoSource DEF RewindDrop
  <2>4. ASSUME RewindWrite PROVE RecordInv'
    <3>1. worker.source \in Tasks
      BY <1>0 DEF WorkerTypes, Workers
    <3>2. /\ task' = [worker.source EXCEPT !.status = "idle"] /\ disk' = task' /\ loaded' = TRUE
          /\ worker' = Resting
      BY <2>4 DEF RewindWrite
    <3>3. task'.turns = worker.source.turns
      BY <3>1, <3>2, StatusSet DEF Statuses
    <3>4. CountsOK(Blank.turns)
      BY EmptySeq, LenProperties DEF CountsOK, Blank
    <3>5. Hydrated' = disk'
      BY <3>2 DEF Hydrated
    <3>6. QED
      BY <3>2, <3>3, <3>4, <3>5, DoesSource DEF RecordInv
  <2>5. QED
    BY <1>6, <2>1, <2>2, <2>3, <2>4 DEF Rewind
<1>7. ASSUME NEW archived \in BOOLEAN, Archive(archived) PROVE RecordInv'
  <2> DEFINE t == [task EXCEPT !.archived = archived]
  <2>0. task \in Tasks /\ disk \in Tasks /\ Hydrated = disk
    BY <1>0 DEF TypeOK, RecordInv
  <2>1. t.turns = task.turns /\ t \in Tasks
    BY <2>0 DEF Tasks
  <2>2. task' = t /\ disk' = Saved(t, loaded) /\ loaded' = loaded /\ worker' = worker
    BY <1>7 DEF Archive
  <2> HIDE DEF t
  <2>3. Hydrated' = disk'
    BY <2>0, <2>1, <2>2, HydratedSaved
  <2>4. disk'.turns = disk.turns
    BY <2>0, <2>1, <2>2 DEF Saved, Hydrated, Tasks
  <2>5. QED
    BY <2>1, <2>2, <2>3, <2>4 DEF RecordInv, Running
<1>8. CASE Restart
  <2>0. disk \in Tasks /\ Len(disk.turns) \in Nat /\ Hydrated = disk
    BY <1>0, TurnsIs DEF TypeOK, RecordInv
  <2>1. /\ loaded' = Busy(disk) /\ worker' = Resting
        /\ task' = IF Busy(disk) THEN Settled(disk) ELSE [disk EXCEPT !.turns = <<>>]
        /\ disk' = IF Busy(disk) THEN Settled(disk) ELSE disk
        /\ Settled(disk) \in Tasks /\ [disk EXCEPT !.turns = <<>>] \in Tasks
    BY <1>8, <2>0, RestartIs DEF Restart
  <2>2. CountsOK(Blank.turns) /\ CountsOK(<<>>) /\ Len(<<>>) = 0
    BY EmptySeq, LenProperties DEF CountsOK, Blank
  <2>3. CountsOK(Settled(disk).turns)
    <3>1. Settled(disk).turns = disk.turns \/ Ends(disk, Settled(disk))
      BY <2>0, SettledIs
    <3>2. DOMAIN disk.turns = 1..Len(disk.turns)
          /\ DOMAIN Settled(disk).turns = 1..Len(Settled(disk).turns)
      BY <2>0, <2>1, TurnsIs
    <3>3. CountsOK(disk.turns)
      BY DEF RecordInv
    <3>4. QED
      BY <3>1, <3>2, <3>3 DEF CountsOK, Ends
  <2>4. CASE Busy(disk)
    <3>1. Hydrated' = disk'
      BY <2>1, <2>4 DEF Hydrated
    <3>2. QED
      BY <2>1, <2>2, <2>3, <2>4, <3>1, DoesSource DEF RecordInv
  <2>5. CASE ~Busy(disk)
    <3>0. [disk EXCEPT !.turns = <<>>].turns = <<>>
      BY <2>0 DEF Tasks
    <3>1. task'.turns = <<>> /\ disk' = disk /\ ~loaded'
      BY <2>1, <2>5, <3>0
    <3>2. [task' EXCEPT !.turns = disk.turns] = disk
      BY <2>0, <2>1, <2>5 DEF Tasks
    <3>3. Hydrated' = disk'
      BY <3>1, <3>2 DEF Hydrated
    <3>4. CountsOK(disk.turns)
      BY DEF RecordInv
    <3>5. QED
      BY <2>1, <2>2, <3>1, <3>3, <3>4, DoesSource DEF RecordInv
  <2>6. QED
    BY <2>4, <2>5
<1>9. ASSUME NEW r \in Runtimes, Forward(r) PROVE RecordInv'
  BY <1>9, RecordForward
<1>10. ASSUME NEW r \in Runtimes, Process(r) PROVE RecordInv'
  <2>1. UNCHANGED <<record, worker>>
    BY <1>10 DEF Process, Connect, TakePrompt, Output, Ask, EndTurn, ReportError, Exit, Outside
  <2>2. QED
    BY <2>1 DEF record, RecordInv, Hydrated, Running, CountsOK
<1>11. QED
  BY <1>1, <1>2, <1>3, <1>4, <1>5, <1>6, <1>7, <1>8, <1>9, <1>10 DEF Next

\* Whatever clients, providers and restarts do, the values of the task's state
\* are what the code takes them for, and a turn's count is never ahead of its
\* place.
THEOREM TurnInvariant == Spec => [](TypeInv /\ RecordInv)
<1>1. Init => TypeInv /\ RecordInv
  BY TypeInit, RecordInit
<1>2. TypeInv /\ RecordInv /\ [Next]_vars => (TypeInv /\ RecordInv)'
  BY TypeNext, RecordNext
<1>3. QED
  BY <1>1, <1>2, PTL DEF Spec

\* TypeOK (the values the projection, the worker and the drivers keep).
THEOREM TurnTypes == Spec => []TypeOK
<1>1. TypeInv /\ RecordInv => TypeOK
  BY DEF TypeInv
<1>2. QED
  BY <1>1, TurnInvariant, PTL

\* DiskIsCurrent (SaveTaskState and handle_runtime_event: what is loaded is what
\* is stored), for any number of runtimes, turns and restarts.
THEOREM DiskFollows == Spec => []DiskIsCurrent
<1>1. TypeInv /\ RecordInv => DiskIsCurrent
  BY DEF RecordInv, DiskIsCurrent, Hydrated
<1>2. QED
  BY <1>1, TurnInvariant, PTL

-----------------------------------------------------------------------------
(* Which turn is which, whatever happens *)

\* Every turn has an id of its own, which a prompt drew.
IdsDiffer(turns, n) ==
    /\ \A i \in DOMAIN turns : turns[i].id <= n
    /\ \A i, j \in DOMAIN turns : turns[i].id = turns[j].id => i = j

\* No turn begins or goes; the last one may end.
Kept(t, u) == u.turns = t.turns \/ Ends(t, u)

\* The last turns are gone.
Cut(t, u) ==
    \A i \in DOMAIN u.turns : i \in DOMAIN t.turns /\ u.turns[i] = t.turns[i]

\* A turn that was not there is put behind the others.
Grown(t, u) ==
    \A j \in DOMAIN u.turns :
        \/ j \in DOMAIN t.turns /\ u.turns[j] = t.turns[j]
        \/ j = Len(t.turns) + 1 /\ \A i \in DOMAIN t.turns : t.turns[i].id # u.turns[j].id

\* The rows name no turn twice, what the worker carries was drawn, and the turns
\* that a rewind is about to keep are the first ones of the rows.
IdentityInv ==
    /\ IdsDiffer(disk.turns, minted)
    /\ \A i \in DOMAIN task.turns : task.turns[i].id <= minted
    /\ worker.at = "emit" => worker.turn.id <= minted
    /\ worker.at \in {"rewind", "rewrite"} =>
          \A i \in DOMAIN worker.source.turns :
              i < Len(disk.turns) /\ worker.source.turns[i] = disk.turns[i]

LEMMA KeptSame ==
    ASSUME NEW t \in Tasks, NEW u \in Tasks, Kept(t, u)
    PROVE  /\ Len(u.turns) = Len(t.turns) /\ DOMAIN u.turns = DOMAIN t.turns
           /\ \A i \in DOMAIN t.turns : u.turns[i].id = t.turns[i].id
           /\ \A i \in DOMAIN t.turns : i < Len(t.turns) => u.turns[i] = t.turns[i]
           /\ \A i \in DOMAIN t.turns :
                t.turns[i].status # "running" => u.turns[i].status = t.turns[i].status
<1>1. /\ Len(t.turns) \in Nat /\ DOMAIN t.turns = 1..Len(t.turns)
      /\ Len(u.turns) \in Nat /\ DOMAIN u.turns = 1..Len(u.turns)
      /\ \A i \in 1..Len(t.turns) : t.turns[i] \in Turns
      /\ \A i \in 1..Len(u.turns) : u.turns[i] \in Turns
  BY TurnsIs
<1>2. CASE u.turns = t.turns
  BY <1>1, <1>2
<1>3. CASE Ends(t, u)
  <2>1. /\ Running(t) /\ Len(u.turns) = Len(t.turns)
        /\ \A i \in DOMAIN t.turns :
              /\ u.turns[i].id = t.turns[i].id /\ u.turns[i].count = t.turns[i].count
              /\ i # Len(t.turns) => u.turns[i].status = t.turns[i].status
    BY <1>3 DEF Ends
  <2>2. ASSUME NEW i \in DOMAIN t.turns, i < Len(t.turns)
        PROVE  u.turns[i] = t.turns[i]
    <3>1. t.turns[i] \in Turns /\ u.turns[i] \in Turns
      BY <1>1, <2>1, <2>2
    <3>2. u.turns[i].id = t.turns[i].id /\ u.turns[i].count = t.turns[i].count
          /\ u.turns[i].status = t.turns[i].status
      BY <1>1, <2>1, <2>2
    <3>3. QED
      BY <3>1, <3>2 DEF Turns
  <2>3. ASSUME NEW i \in DOMAIN t.turns, t.turns[i].status # "running"
        PROVE  u.turns[i].status = t.turns[i].status
    <3>1. i # Len(t.turns)
      BY <2>1, <2>3 DEF Running
    <3>2. QED
      BY <2>1, <3>1
  <2>4. QED
    BY <1>1, <2>1, <2>2, <2>3
<1>4. QED
  BY <1>2, <1>3 DEF Kept

\* The turns of a session with one more.
LEMMA GrownIs ==
    ASSUME NEW t \in Tasks, NEW u \in Tasks, NEW n \in Nat, NEW turn \in Turns,
           u.turns = Append(t.turns, turn), turn.id <= n, IdsDiffer(t.turns, n),
           \A i \in DOMAIN t.turns : t.turns[i].id # turn.id
    PROVE  Grown(t, u) /\ IdsDiffer(u.turns, n) /\ Len(t.turns) < Len(u.turns)
           /\ \A i \in DOMAIN t.turns : i \in DOMAIN u.turns /\ u.turns[i] = t.turns[i]
<1> DEFINE s == t.turns
           v == u.turns
           m == Len(s)
<1>1. /\ s \in Seq(Turns) /\ m \in Nat /\ DOMAIN s = 1..m
      /\ DOMAIN v = 1..Len(v) /\ Len(v) \in Nat
  BY TurnsIs
<1>2. Len(v) = m + 1 /\ v[m + 1] = turn /\ \A i \in 1..m : v[i] = s[i]
  BY <1>1, AppendProperties
<1>3. /\ \A i \in 1..m : s[i].id <= n /\ s[i].id # turn.id
      /\ \A i, j \in 1..m : s[i].id = s[j].id => i = j
  BY <1>1 DEF IdsDiffer
<1> HIDE DEF s, v, m
<1>4. \A j \in DOMAIN v : j \in 1..m \/ j = m + 1
  BY <1>1, <1>2
<1>5. IdsDiffer(v, n)
  <2>1. \A i \in DOMAIN v : v[i].id <= n
    BY <1>2, <1>3, <1>4
  <2>2. ASSUME NEW i \in DOMAIN v, NEW j \in DOMAIN v, v[i].id = v[j].id PROVE i = j
    BY <1>2, <1>3, <1>4, <2>2
  <2>3. QED
    BY <2>1, <2>2 DEF IdsDiffer
<1>6. \A j \in DOMAIN v :
          \/ j \in DOMAIN s /\ v[j] = s[j]
          \/ j = m + 1 /\ \A i \in DOMAIN s : s[i].id # v[j].id
  BY <1>1, <1>2, <1>3, <1>4
<1>7. m < Len(v) /\ \A i \in DOMAIN s : i \in DOMAIN v /\ v[i] = s[i]
  BY <1>1, <1>2
<1>8. QED
  BY <1>5, <1>6, <1>7 DEF Grown, s, v, m

\* An emission: an event that names a turn which is not there begins it.
LEMMA EmitIdentity ==
    ASSUME TypeInv, RecordInv, IdentityInv, NEW r \in Runtimes, NEW e \in Events, e.id \in 0..asked,
           e.type = "accepted" => e.turn \in Turns /\ e.turn.id <= minted, Emit(r, e)
    PROVE  /\ Kept(disk, disk') \/ (e.type = "accepted" /\ Grown(disk, disk'))
           /\ IdsDiffer(disk'.turns, minted)
           /\ \A i \in DOMAIN task'.turns : task'.turns[i].id <= minted
<1>1. TypeOK /\ disk \in Tasks /\ task \in Tasks /\ minted \in Nat /\ Hydrated = disk
      /\ IdsDiffer(disk.turns, minted)
  BY TurnAssumption DEF TypeInv, TypeOK, RecordInv, IdentityInv
<1>2. CASE active # r
  <2>1. UNCHANGED record
    BY <1>1, <1>2, EmitIs
  <2>2. QED
    BY <1>1, <2>1 DEF record, Kept, IdentityInv
<1>3. CASE active = r
  <2> DEFINE x == Reduce(disk, pending[r], e)
  <2>1. /\ task' \in Tasks /\ disk' \in Tasks /\ task'.turns = x.task.turns
        /\ Reduced(disk, pending[r], asked, e, x)
        /\ disk' = task' \/ (task' = disk /\ disk' = disk)
    BY <1>1, <1>3, EmitIs
  <2> HIDE DEF x
  <2>2. disk'.turns = x.task.turns /\ task'.turns = disk'.turns
    BY <2>1
  <2>3. CASE e.type = "accepted" /\ ~Known(disk, e.turn)
    <3>1. disk'.turns = Append(disk.turns, e.turn)
      BY <2>1, <2>2, <2>3 DEF Reduced
    <3>2. \A i \in DOMAIN disk.turns : disk.turns[i].id # e.turn.id
      BY <2>3 DEF Known
    <3>3. Grown(disk, disk') /\ IdsDiffer(disk'.turns, minted)
      BY <1>1, <2>1, <2>3, <3>1, <3>2, GrownIs
    <3>4. QED
      BY <2>2, <2>3, <3>3 DEF IdsDiffer
  <2>4. CASE ~(e.type = "accepted" /\ ~Known(disk, e.turn))
    <3>1. Kept(disk, disk')
      BY <2>1, <2>2, <2>4 DEF Reduced, Kept, Ends
    <3>2. DOMAIN disk'.turns = DOMAIN disk.turns
          /\ \A i \in DOMAIN disk.turns : disk'.turns[i].id = disk.turns[i].id
      BY <1>1, <2>1, <3>1, KeptSame
    <3>3. IdsDiffer(disk'.turns, minted)
      BY <1>1, <3>2 DEF IdsDiffer
    <3>4. QED
      BY <2>2, <3>1, <3>3 DEF IdsDiffer
  <2>5. QED
    BY <2>3, <2>4
<1>4. QED
  BY <1>2, <1>3

\* The rest of the invariant after a step that begins no turn.
LEMMA IdentityKept ==
    ASSUME TypeInv, TypeInv', IdentityInv, Kept(disk, disk'), minted' = minted,
           \A i \in DOMAIN task'.turns : task'.turns[i].id <= minted,
           worker' = worker \/ worker'.at \notin {"emit", "rewind", "rewrite"}
    PROVE  IdentityInv'
<1>1. disk \in Tasks /\ disk' \in Tasks /\ IdsDiffer(disk.turns, minted)
  BY DEF TypeInv, TypeOK, IdentityInv
<1>2. /\ Len(disk'.turns) = Len(disk.turns) /\ DOMAIN disk'.turns = DOMAIN disk.turns
      /\ \A i \in DOMAIN disk.turns : disk'.turns[i].id = disk.turns[i].id
      /\ \A i \in DOMAIN disk.turns : i < Len(disk.turns) => disk'.turns[i] = disk.turns[i]
  BY <1>1, KeptSame
<1>3. IdsDiffer(disk'.turns, minted')
  BY <1>1, <1>2 DEF IdsDiffer
<1>4. CASE worker' = worker
  <2>1. ASSUME worker.at \in {"rewind", "rewrite"}, NEW i \in DOMAIN worker.source.turns
        PROVE  i < Len(disk'.turns) /\ worker.source.turns[i] = disk'.turns[i]
    <3>1. i < Len(disk.turns) /\ worker.source.turns[i] = disk.turns[i]
      BY <2>1 DEF IdentityInv
    <3>2. worker.source \in Tasks
      BY DEF TypeInv, TypeOK
    <3>3. i \in DOMAIN disk.turns
      <4>1. Len(disk.turns) \in Nat /\ DOMAIN disk.turns = 1..Len(disk.turns)
        BY <1>1, TurnsIs
      <4>2. i \in Nat \ {0}
        BY <2>1, <3>2, TurnsIs
      <4>3. QED
        BY <3>1, <4>1, <4>2
    <3>4. QED
      BY <1>2, <3>1, <3>3
  <2>2. QED
    BY <1>3, <1>4, <2>1 DEF IdentityInv
<1>5. CASE worker'.at \notin {"emit", "rewind", "rewrite"}
  BY <1>3, <1>5 DEF IdentityInv
<1>6. QED
  BY <1>4, <1>5

LEMMA IdentityInit == Init => IdentityInv
<1>1. DOMAIN <<>> = {}
  BY EmptySeq, LenProperties
<1>2. QED
  BY <1>1 DEF Init, IdentityInv, Blank, Resting, IdsDiffer

\* What a step does to the turns of the rows.
RowsMove == Kept(disk, disk') \/ Grown(disk, disk') \/ Cut(disk, disk')

LEMMA IdentityPrompt ==
    ASSUME TypeInv, TypeInv', RecordInv, IdentityInv, Prompt
    PROVE  IdentityInv' /\ RowsMove
<1>0. /\ task \in Tasks /\ task' \in Tasks /\ disk \in Tasks /\ disk' \in Tasks
      /\ minted \in Nat /\ asked \in Nat /\ WorkerTypes /\ loaded \in BOOLEAN
      /\ loaded => disk = task
      /\ IdsDiffer(disk.turns, minted)
      /\ \A i \in DOMAIN task.turns : task.turns[i].id <= minted
  BY TypeParts, TurnAssumption DEF TypeInv, TypeOK, RecordInv, Hydrated, IdentityInv
<1>1. ASSUME NEW r \in Runtimes, PromptAccept(r)
      PROVE  IdentityInv' /\ RowsMove
  <2> DEFINE last == task.turns[Len(task.turns)]
             turn == Turn(minted + 1, NextCount(task), "running")
             accepted == [task EXCEPT !.turns = Append(@, turn)]
             W(t) == [Doing("emit", r) EXCEPT !.turn = t]
  <2>1. \A t : W(t).turn = t /\ W(t).at = "emit"
    BY DEF Doing, Resting
  <2>2. CASE Joins(task)
    <3>1. worker' = W(last) /\ task' = task /\ minted' = minted /\ disk' = Saved(task, loaded)
      BY <1>1, <2>2 DEF PromptAccept
    <3>2. last.id <= minted
      BY <1>0, <2>2, TurnsIs DEF Joins, Running
    <3>3. disk'.turns = disk.turns
      BY <1>0, <3>1 DEF Saved, Tasks
    <3> HIDE DEF last, W
    <3>4. QED
      BY <1>0, <2>1, <3>1, <3>2, <3>3 DEF IdentityInv, RowsMove, Kept
  <2>3. CASE ~Joins(task)
    <3>1. worker' = W(turn) /\ task' = accepted /\ minted' = minted + 1 /\ minted < MaxTurns
          /\ disk' = Saved(accepted, loaded)
      BY <1>1, <2>3 DEF PromptAccept
    <3>2. turn \in Turns /\ turn.id = minted + 1
      BY <1>0, <3>1, TurnsIs, TurnAssumption DEF Turn, Turns, NextCount
    <3> HIDE DEF turn, W
    <3>3. accepted \in Tasks /\ accepted.turns = Append(task.turns, turn)
      BY <1>0, <3>2, AppendedIs
    <3> HIDE DEF accepted
    <3>4. \A u \in Tasks : (\A i \in DOMAIN u.turns : u.turns[i].id <= minted) =>
              \A i \in DOMAIN u.turns : u.turns[i].id <= minted + 1 /\ u.turns[i].id # minted + 1
      <4>1. \A u \in Tasks : \A i \in DOMAIN u.turns : u.turns[i].id \in Nat
        <5>1. \A v \in Turns : v.id \in Nat
          BY TurnAssumption DEF Turns
        <5>2. QED
          BY <5>1, TurnsIs
      <4>2. QED
        BY <1>0, <4>1
    <3>5. \A i \in DOMAIN disk.turns : disk.turns[i].id <= minted
      BY <1>0 DEF IdsDiffer
    <3>6. IdsDiffer(disk.turns, minted + 1)
      BY <1>0, <3>4, <3>5 DEF IdsDiffer
    <3>7. \A i \in DOMAIN task'.turns : task'.turns[i].id <= minted + 1
      <4>1. /\ Len(task'.turns) = Len(task.turns) + 1
            /\ task'.turns[Len(task.turns) + 1] = turn
            /\ \A i \in 1..Len(task.turns) : task'.turns[i] = task.turns[i]
            /\ Len(task.turns) \in Nat /\ DOMAIN task.turns = 1..Len(task.turns)
            /\ DOMAIN task'.turns = 1..(Len(task.turns) + 1)
        BY <1>0, <3>1, <3>2, <3>3, AppendProperties, TurnsIs
      <4>2. ASSUME NEW i \in DOMAIN task'.turns PROVE task'.turns[i].id <= minted + 1
        <5>1. CASE i \in DOMAIN task.turns
          BY <1>0, <3>4, <4>1, <5>1
        <5>2. CASE i = Len(task.turns) + 1
          BY <1>0, <3>2, <4>1, <5>2
        <5>3. QED
          BY <4>1, <4>2, <5>1, <5>2
      <4>3. QED
        BY <4>2
    <3>8. CASE loaded
      <4>1. disk'.turns = Append(disk.turns, turn)
        BY <1>0, <3>1, <3>3, <3>8 DEF Saved
      <4>2. Grown(disk, disk') /\ IdsDiffer(disk'.turns, minted + 1)
        <5>1. \A i \in DOMAIN disk.turns : disk.turns[i].id # turn.id
          BY <1>0, <3>2, <3>4, <3>5
        <5>2. turn.id <= minted + 1 /\ minted + 1 \in Nat
          BY <1>0, <3>2
        <5>3. QED
          BY <1>0, <3>2, <3>6, <4>1, <5>1, <5>2, GrownIs
      <4>3. QED
        BY <1>0, <2>1, <3>1, <3>2, <3>7, <4>2 DEF IdentityInv, RowsMove
    <3>9. CASE ~loaded
      <4>1. disk'.turns = disk.turns
        BY <1>0, <3>1, <3>3, <3>9 DEF Saved, Tasks
      <4>2. QED
        BY <1>0, <2>1, <3>1, <3>2, <3>6, <3>7, <4>1 DEF IdentityInv, RowsMove, Kept
    <3>10. QED
      BY <1>0, <3>8, <3>9
  <2>4. QED
    BY <2>2, <2>3
<1>2. ASSUME PromptEmit PROVE IdentityInv' /\ RowsMove
  <2> DEFINE e == Accepted(worker.turn)
  <2>1. worker.run \in Runtimes /\ worker.turn \in Turns /\ worker.turn.id <= minted
    BY <1>2 DEF PromptEmit, TypeInv, WorkerOK, IdentityInv
  <2>2. e \in Events /\ e.id \in 0..asked /\ e.turn = worker.turn
    BY <1>0, <2>1, TurnAssumption DEF Accepted, Event, Events
  <2>3. Emit(worker.run, e) /\ worker' = Go("deliver") /\ minted' = minted
    BY <1>2 DEF PromptEmit, drawn
  <2> HIDE DEF e
  <2>4. /\ Kept(disk, disk') \/ Grown(disk, disk')
        /\ IdsDiffer(disk'.turns, minted)
        /\ \A i \in DOMAIN task'.turns : task'.turns[i].id <= minted
    BY <2>1, <2>2, <2>3, EmitIdentity
  <2>5. worker'.at = "deliver"
    BY <1>0, <2>3, GoSource
  <2>6. QED
    BY <2>3, <2>4, <2>5 DEF IdentityInv, RowsMove
<1>3. ASSUME PromptDeliver PROVE IdentityInv' /\ RowsMove
  <2>1. UNCHANGED <<record, drawn>> /\ worker'.at = "idle"
    BY <1>3, DoesSource DEF PromptDeliver
  <2>2. QED
    BY <1>0, <2>1, IdentityKept DEF record, drawn, Kept, RowsMove
<1>4. QED
  BY <1>1, <1>2, <1>3 DEF Prompt

LEMMA IdentityRewind ==
    ASSUME TypeInv, TypeInv', RecordInv, IdentityInv, Rewind
    PROVE  IdentityInv' /\ RowsMove
<1>0. /\ task' \in Tasks /\ task \in Tasks /\ disk \in Tasks /\ disk' \in Tasks
      /\ WorkerTypes /\ Hydrated = disk /\ IdsDiffer(disk.turns, minted)
      /\ \A i \in DOMAIN task.turns : task.turns[i].id <= minted
  BY TypeParts DEF TypeInv, TypeOK, RecordInv, IdentityInv
<1>1. ASSUME NEW keep \in 0..MaxTurns, RewindRead(keep) PROVE IdentityInv' /\ RowsMove
  <2> DEFINE source == [disk EXCEPT !.turns = SubSeq(@, 1, keep)]
  <2>1. /\ worker' = [Doing("rewind", None) EXCEPT !.source = source]
        /\ task' = disk /\ disk' = disk /\ minted' = minted
    BY <1>0, <1>1 DEF RewindRead, drawn
  <2>2. PICK i \in DOMAIN disk.turns : disk.turns[i].count = keep + 1
    BY <1>0, <1>1 DEF RewindRead
  <2>3. Len(disk.turns) \in Nat /\ DOMAIN disk.turns = 1..Len(disk.turns)
    BY <1>0, TurnsIs
  <2>4. keep \in Nat /\ keep < Len(disk.turns) /\ keep <= Len(disk.turns)
    <3>1. disk.turns[i].count <= i
      BY DEF RecordInv, CountsOK
    <3>2. QED
      BY <2>2, <2>3, <3>1, TurnAssumption
  <2>5. /\ source \in Tasks /\ Len(source.turns) = keep
        /\ \A k \in 1..keep : source.turns[k] = disk.turns[k]
    BY <1>0, <2>4, KeptIs
  <2> HIDE DEF source
  <2>6. worker'.at = "rewind" /\ worker'.source = source
    BY <2>1 DEF Doing, Resting
  <2>7. DOMAIN source.turns = 1..keep
    BY <2>5, TurnsIs
  <2>8. \A k \in DOMAIN source.turns : k < Len(disk.turns) /\ source.turns[k] = disk.turns[k]
    BY <2>3, <2>4, <2>5, <2>7
  <2>9. QED
    BY <1>0, <2>1, <2>6, <2>8 DEF IdentityInv, IdsDiffer, RowsMove, Kept
<1>2. ASSUME RewindFails PROVE IdentityInv' /\ RowsMove
  <2>1. UNCHANGED <<record, drawn>> /\ worker'.at = "idle"
    BY <1>2, DoesSource DEF RewindFails
  <2>2. QED
    BY <1>0, <2>1, IdentityKept DEF record, drawn, Kept, RowsMove
<1>3. ASSUME RewindDrop PROVE IdentityInv' /\ RowsMove
  <2>1. /\ UNCHANGED <<record, drawn>> /\ worker.at = "rewind"
        /\ worker'.at = "rewrite" /\ worker'.source = worker.source
    BY <1>0, <1>3, GoSource DEF RewindDrop
  <2>2. QED
    BY <2>1 DEF record, drawn, Kept, RowsMove, IdentityInv
<1>4. ASSUME RewindWrite PROVE IdentityInv' /\ RowsMove
  <2>1. /\ task' = [worker.source EXCEPT !.status = "idle"] /\ disk' = task'
        /\ worker.at = "rewrite" /\ worker'.at = "idle" /\ minted' = minted
    BY <1>4, DoesSource DEF RewindWrite, drawn
  <2>2. worker.source \in Tasks /\ disk'.turns = worker.source.turns
    <3>1. worker.source \in Tasks
      BY <1>0 DEF WorkerTypes, Workers
    <3>2. QED
      BY <2>1, <3>1, StatusSet DEF Statuses
  <2>3. \A i \in DOMAIN disk'.turns : i < Len(disk.turns) /\ disk'.turns[i] = disk.turns[i]
    BY <2>1, <2>2 DEF IdentityInv
  <2>4. \A i \in DOMAIN disk'.turns : i \in DOMAIN disk.turns /\ disk'.turns[i] = disk.turns[i]
    <3>1. Len(disk.turns) \in Nat /\ DOMAIN disk.turns = 1..Len(disk.turns)
          /\ Len(disk'.turns) \in Nat /\ DOMAIN disk'.turns = 1..Len(disk'.turns)
      BY <1>0, TurnsIs
    <3>2. QED
      BY <2>3, <3>1
  <2>5. IdsDiffer(disk'.turns, minted)
    BY <1>0, <2>4 DEF IdsDiffer
  <2>6. QED
    BY <2>1, <2>4, <2>5 DEF IdentityInv, IdsDiffer, RowsMove, Cut
<1>5. QED
  BY <1>1, <1>2, <1>3, <1>4 DEF Rewind

\* The worker's other emissions.
LEMMA IdentityServe ==
    ASSUME TypeInv, TypeInv', RecordInv, IdentityInv, RespondEmit \/ CloseSettle
    PROVE  IdentityInv' /\ RowsMove
<1>0. WorkerTypes /\ TypeOK /\ asked \in Nat
  BY TypeParts, TurnAssumption DEF TypeInv, TypeOK
<1>1. PICK e \in Events : /\ e.id \in 0..asked /\ e.type # "accepted"
                          /\ Emit(worker.run, e)
  <2>1. CASE RespondEmit
    <3>1. worker.ask \in 0..asked
      BY <1>0 DEF WorkerTypes, Workers
    <3>2. Resolved(worker.ask) \in Events /\ Resolved(worker.ask).id = worker.ask
          /\ Resolved(worker.ask).type = "resolved"
      BY <1>0, <3>1, TurnAssumption DEF Resolved, Event, Events, TypeOK
    <3>3. QED
      BY <2>1, <3>1, <3>2 DEF RespondEmit
  <2>2. CASE CloseSettle
    BY <1>0, <2>2, PlainIs DEF CloseSettle
  <2>3. QED
    BY <2>1, <2>2
<1>2. worker.run \in Runtimes /\ minted' = minted /\ worker'.at \notin {"emit", "rewind", "rewrite"}
  BY <1>0, DoesSource, GoSource DEF RespondEmit, CloseSettle, TypeInv, WorkerOK, drawn
<1>3. Kept(disk, disk') /\ \A i \in DOMAIN task'.turns : task'.turns[i].id <= minted
  BY <1>1, <1>2, EmitIdentity
<1>4. QED
  BY <1>2, <1>3, IdentityKept DEF RowsMove

LEMMA IdentityForward ==
    ASSUME TypeInv, TypeInv', RecordInv, IdentityInv, NEW r \in Runtimes, Forward(r)
    PROVE  IdentityInv' /\ RowsMove
<1> DEFINE e == Head(channel[r])
<1>1. channel[r] # <<>> /\ Emit(r, e) /\ worker' = worker /\ minted' = minted
  BY DEF Forward, drawn
<1>2. channel[r] \in Seq(Events) /\ 1 \in DOMAIN channel[r] /\ e = channel[r][1] /\ e \in Events
  <2>1. channel[r] \in Seq(Events)
    BY DEF TypeInv, TypeOK
  <2>2. QED
    BY <1>1, <2>1, HeadTailProperties, EmptySeq, LenProperties
<1>3. e.type # "accepted" /\ e.id \in 0..asked
  BY <1>2 DEF TypeInv, ChannelsOK
<1> HIDE DEF e
<1>4. Kept(disk, disk') /\ \A i \in DOMAIN task'.turns : task'.turns[i].id <= minted
  BY <1>1, <1>2, <1>3, EmitIdentity
<1>5. QED
  BY <1>1, <1>4, IdentityKept DEF RowsMove

\* A restart settles the turn that runs, and finds the others as they were.
LEMMA IdentityRestart ==
    ASSUME TypeInv, TypeInv', IdentityInv, Restart
    PROVE  IdentityInv' /\ RowsMove
<1>1. disk \in Tasks /\ disk' \in Tasks /\ task' \in Tasks /\ IdsDiffer(disk.turns, minted)
  BY DEF TypeInv, TypeOK, IdentityInv
<1>2. /\ worker'.at = "idle" /\ minted' = minted
      /\ task' = IF Busy(disk) THEN Settled(disk) ELSE [disk EXCEPT !.turns = <<>>]
      /\ disk' = IF Busy(disk) THEN Settled(disk) ELSE disk
  BY <1>1, RestartIs, DoesSource DEF Restart, drawn
<1>3. Kept(disk, disk')
  BY <1>1, <1>2, SettledIs DEF Kept
<1>4. \A i \in DOMAIN disk'.turns : disk'.turns[i].id <= minted
  <2>1. DOMAIN disk'.turns = DOMAIN disk.turns
        /\ \A i \in DOMAIN disk.turns : disk'.turns[i].id = disk.turns[i].id
    BY <1>1, <1>3, KeptSame
  <2>2. QED
    BY <1>1, <2>1 DEF IdsDiffer
<1>5. \A i \in DOMAIN task'.turns : task'.turns[i].id <= minted
  <2>1. CASE Busy(disk)
    BY <1>2, <1>4, <2>1
  <2>2. CASE ~Busy(disk)
    <3>1. task'.turns = <<>>
      BY <1>1, <1>2, <2>2 DEF Tasks
    <3>2. DOMAIN <<>> = {}
      BY EmptySeq, LenProperties
    <3>3. QED
      BY <3>1, <3>2
  <2>3. QED
    BY <2>1, <2>2
<1>6. QED
  BY <1>2, <1>3, <1>5, IdentityKept DEF RowsMove

LEMMA IdentityArchive ==
    ASSUME TypeInv, TypeInv', RecordInv, IdentityInv, NEW archived \in BOOLEAN, Archive(archived)
    PROVE  IdentityInv' /\ RowsMove
<1>1. /\ task \in Tasks /\ disk \in Tasks /\ loaded \in BOOLEAN
      /\ loaded => disk = task
      /\ \A i \in DOMAIN task.turns : task.turns[i].id <= minted
  BY DEF TypeInv, TypeOK, RecordInv, Hydrated, IdentityInv
<1>2. /\ task' = [task EXCEPT !.archived = archived] /\ disk' = Saved(task', loaded)
      /\ worker' = worker /\ minted' = minted
  BY DEF Archive, drawn
<1>3. task'.turns = task.turns
  BY <1>1, <1>2 DEF Tasks
<1>4. disk'.turns = disk.turns
  <2>1. task' \in Tasks
    BY DEF TypeInv, TypeOK
  <2>2. CASE loaded
    BY <1>1, <1>2, <1>3, <2>2 DEF Saved
  <2>3. CASE ~loaded
    BY <1>2, <2>1, <2>3 DEF Saved, Tasks
  <2>4. QED
    BY <2>2, <2>3
<1>5. QED
  BY <1>1, <1>2, <1>3, <1>4, IdentityKept DEF RowsMove, Kept

LEMMA IdentityNext ==
    ASSUME TypeInv, TypeInv', RecordInv, IdentityInv, [Next]_vars
    PROVE  IdentityInv' /\ RowsMove
<1>0. WorkerTypes
  BY TypeParts DEF TypeInv
<1>1. ASSUME UNCHANGED record, minted' = minted,
             worker' = worker \/ worker'.at \notin {"emit", "rewind", "rewrite"}
      PROVE  IdentityInv' /\ RowsMove
  BY <1>1, IdentityKept DEF record, Kept, RowsMove, IdentityInv
<1>2. CASE Start
  BY <1>0, <1>1, <1>2, DoesSource, GoSource
     DEF Start, StartBegin, StartReplace, StartLaunch, StartInstall, StartFails, drawn
<1>3. CASE \E r \in Runtimes, id \in 1..asked : Respond(r, id)
  <2>1. UNCHANGED record /\ minted' = minted /\ worker'.at = "resolve"
    BY <1>3 DEF Respond, Doing, Resting, drawn
  <2>2. QED
    BY <1>1, <2>1
<1>4. CASE (\E r \in Runtimes : CloseDriver(r)) \/ CloseCheck \/ CloseEnd
  BY <1>0, <1>1, <1>4, DoesSource, GoSource DEF CloseDriver, CloseCheck, CloseEnd, drawn
<1>5. CASE \E r \in Runtimes : Process(r)
  BY <1>1, <1>5 DEF Process, Connect, TakePrompt, Output, Ask, EndTurn, ReportError, Exit,
                    Outside, drawn
<1>6. CASE UNCHANGED vars
  BY <1>1, <1>6 DEF vars, drawn
<1>7. QED
  BY <1>2, <1>3, <1>4, <1>5, <1>6, IdentityPrompt, IdentityRewind, IdentityServe, IdentityForward,
     IdentityRestart, IdentityArchive DEF Next, Answer, Close

\* Whatever happens, a restart included, the rows name each turn once, and the
\* turns that a rewind is about to keep are the first ones of the rows.
THEOREM TurnIdentity == Spec => []IdentityInv
<1>1. Init => IdentityInv
  BY IdentityInit
<1>2. TypeInv /\ TypeInv' /\ RecordInv /\ IdentityInv /\ [Next]_vars => IdentityInv'
  BY IdentityNext
<1>3. QED
  BY <1>1, <1>2, TurnInvariant, PTL DEF Spec

\* EndedStays (finish_active_turn only touches the turn that runs, a rewind
\* restores none, and load finds the rows as the last event left them), whatever
\* happens, restarts included.
THEOREM EndsOnce == Spec => EndedStays
<1> DEFINE A == \A i \in DOMAIN Hydrated.turns, j \in DOMAIN Hydrated'.turns :
                   /\ Hydrated.turns[i].id = Hydrated'.turns[j].id
                   /\ Hydrated.turns[i].status # "running"
                   => Hydrated'.turns[j].status = Hydrated.turns[i].status
<1>1. ASSUME TypeInv, TypeInv', RecordInv, RecordInv', IdentityInv, [Next]_vars
      PROVE  A
  <2>1. /\ RowsMove /\ disk \in Tasks /\ disk' \in Tasks /\ IdsDiffer(disk.turns, minted)
        /\ Hydrated = disk /\ Hydrated' = disk'
    BY <1>1, IdentityNext DEF TypeInv, TypeOK, IdentityInv, RecordInv
  <2>2. SUFFICES ASSUME NEW i \in DOMAIN disk.turns, NEW j \in DOMAIN disk'.turns,
                        disk.turns[i].id = disk'.turns[j].id, disk.turns[i].status # "running"
                 PROVE  disk'.turns[j].status = disk.turns[i].status
    BY <2>1
  <2>3. \A k \in DOMAIN disk.turns : disk.turns[k].id = disk.turns[i].id => k = i
    BY <2>1 DEF IdsDiffer
  <2>4. CASE Kept(disk, disk')
    BY <2>1, <2>2, <2>3, <2>4, KeptSame
  <2>5. CASE Grown(disk, disk')
    BY <2>2, <2>3, <2>5 DEF Grown
  <2>6. CASE Cut(disk, disk')
    BY <2>2, <2>3, <2>6 DEF Cut
  <2>7. QED
    BY <2>1, <2>4, <2>5, <2>6 DEF RowsMove
<1>2. TypeInv /\ TypeInv' /\ RecordInv /\ RecordInv' /\ IdentityInv /\ [Next]_vars => [A]_vars
  BY <1>1
<1> HIDE DEF A
<1>3. Spec => [][A]_vars
  BY <1>2, TurnInvariant, TurnIdentity, PTL DEF Spec
<1>4. QED
  BY <1>3 DEF EndedStays, A

-----------------------------------------------------------------------------
(* The turns of a daemon that does not restart *)

Sequential(turns) == \A i \in DOMAIN turns : turns[i].count = i

OnlyLast(turns) == \A i \in DOMAIN turns : turns[i].status = "running" => i = Len(turns)

TurnsFit(turns, n) == Sequential(turns) /\ OnlyLast(turns) /\ IdsDiffer(turns, n)

\* What a command that is past its first step has found stays true: the turn of
\* a prompt is in the projection, the turns a rewind keeps are the first ones and
\* have ended, a runtime that is torn down is the hub's until then.
SteadyInv ==
    /\ loaded
    /\ TurnsFit(task.turns, minted)
    /\ worker.at = "emit" => Known(task, worker.turn)
    /\ worker.at \in {"rewind", "rewrite"} =>
          \A i \in DOMAIN worker.source.turns :
              i < Len(task.turns) /\ worker.source.turns[i] = task.turns[i]
    /\ worker.at \in {"check", "settle", "end"} => active = worker.run
    /\ worker.at = "end" => ~Running(task)

LEMMA KeptFits ==
    ASSUME NEW t \in Tasks, NEW u \in Tasks, NEW n \in Nat, TurnsFit(t.turns, n), Kept(t, u)
    PROVE  /\ TurnsFit(u.turns, n) /\ Len(u.turns) = Len(t.turns)
           /\ \A i \in DOMAIN t.turns : u.turns[i].id = t.turns[i].id
           /\ \A i \in DOMAIN t.turns : i < Len(t.turns) => u.turns[i] = t.turns[i]
           /\ ~Running(t) => ~Running(u)
<1>1. /\ Len(t.turns) \in Nat /\ DOMAIN t.turns = 1..Len(t.turns)
      /\ Len(u.turns) = Len(t.turns) /\ DOMAIN u.turns = DOMAIN t.turns
      /\ \A i \in DOMAIN t.turns : u.turns[i].id = t.turns[i].id
  BY TurnsIs, KeptSame
<1>2. IdsDiffer(u.turns, n)
  BY <1>1 DEF TurnsFit, IdsDiffer
<1>3. CASE u.turns = t.turns
  BY <1>3 DEF Running
<1>4. CASE Ends(t, u)
  <2>1. /\ Running(t)
        /\ \A i \in DOMAIN t.turns :
              /\ u.turns[i].count = t.turns[i].count
              /\ i # Len(t.turns) => u.turns[i].status = t.turns[i].status
        /\ u.turns[Len(t.turns)].status \in Outcomes
    BY <1>4 DEF Ends
  <2>2. Sequential(u.turns)
    BY <1>1, <2>1 DEF TurnsFit, Sequential
  <2>3. OnlyLast(u.turns)
    BY <1>1, <2>1 DEF TurnsFit, OnlyLast
  <2>4. QED
    BY <1>1, <1>2, <2>1, <2>2, <2>3, KeptSame DEF TurnsFit
<1>5. QED
  BY <1>3, <1>4 DEF Kept

\* An emission begins no turn: that of a prompt is in the projection already.
LEMMA EmitKeeps ==
    ASSUME TypeInv, SteadyInv, NEW r \in Runtimes, NEW e \in Events, e.id \in 0..asked,
           e.type = "accepted" => e.turn \in Turns /\ Known(task, e.turn), Emit(r, e)
    PROVE  loaded' /\ Kept(task, task') /\ task' \in Tasks /\ task \in Tasks
<1>1. TypeOK /\ Hydrated = task /\ loaded
  BY DEF TypeInv, SteadyInv, Hydrated
<1>2. CASE active # r
  BY <1>1, <1>2, EmitIs DEF record, Kept, TypeOK
<1>3. CASE active = r
  <2> DEFINE x == Reduce(task, pending[r], e)
  <2>1. loaded' = TRUE /\ task'.turns = x.task.turns /\ Reduced(task, pending[r], asked, e, x)
        /\ task' \in Tasks /\ task \in Tasks
    BY <1>1, <1>3, EmitIs DEF TypeOK
  <2> HIDE DEF x
  <2>2. Kept(task, x.task)
    BY <2>1 DEF Reduced, Kept
  <2>3. QED
    BY <2>1, <2>2 DEF Kept, Ends
<1>4. QED
  BY <1>2, <1>3

\* The record of a step that begins no turn.
LEMMA SteadyKept ==
    ASSUME TypeInv, SteadyInv, loaded', task' \in Tasks, Kept(task, task'), minted' = minted,
           \/ worker' = worker /\ active' = active
           \/ worker'.at \notin {"emit", "rewind", "rewrite", "check", "settle", "end"}
    PROVE  SteadyInv'
<1>1. task \in Tasks /\ minted \in Nat /\ TurnsFit(task.turns, minted)
  BY TurnAssumption DEF TypeInv, TypeOK, SteadyInv
<1>2. /\ TurnsFit(task'.turns, minted) /\ Len(task'.turns) = Len(task.turns)
      /\ \A i \in DOMAIN task.turns : task'.turns[i].id = task.turns[i].id
      /\ \A i \in DOMAIN task.turns : i < Len(task.turns) => task'.turns[i] = task.turns[i]
      /\ ~Running(task) => ~Running(task')
  BY <1>1, KeptFits
<1>3. /\ Len(task.turns) \in Nat /\ DOMAIN task.turns = 1..Len(task.turns)
      /\ DOMAIN task'.turns = 1..Len(task'.turns)
  BY <1>1, TurnsIs
<1>4. CASE worker' = worker /\ active' = active
  <2>1. worker.at = "emit" => Known(task', worker.turn)
    BY <1>2, <1>3 DEF SteadyInv, Known
  <2>2. worker.at \in {"rewind", "rewrite"} =>
            \A i \in DOMAIN worker.source.turns :
                i < Len(task'.turns) /\ worker.source.turns[i] = task'.turns[i]
    <3>1. SUFFICES ASSUME worker.at \in {"rewind", "rewrite"}, NEW i \in DOMAIN worker.source.turns
                   PROVE  i < Len(task'.turns) /\ worker.source.turns[i] = task'.turns[i]
      OBVIOUS
    <3>2. i < Len(task.turns) /\ worker.source.turns[i] = task.turns[i]
      BY <3>1 DEF SteadyInv
    <3>3. worker.source \in Tasks
      BY DEF TypeInv, TypeOK
    <3>4. i \in DOMAIN task.turns
      BY <1>3, <3>1, <3>2, <3>3, TurnsIs
    <3>5. QED
      BY <1>2, <3>2, <3>4
  <2>3. QED
    BY <1>1, <1>2, <1>4, <2>1, <2>2 DEF SteadyInv
<1>5. CASE worker'.at \notin {"emit", "rewind", "rewrite", "check", "settle", "end"}
  BY <1>2, <1>5 DEF SteadyInv
<1>6. QED
  BY <1>4, <1>5

LEMMA SteadyInit == Init => SteadyInv
<1>1. DOMAIN <<>> = {}
  BY EmptySeq, LenProperties
<1>2. QED
  BY <1>1 DEF Init, SteadyInv, Blank, Resting, TurnsFit, Sequential, OnlyLast, IdsDiffer

\* A new turn is put behind the others.
LEMMA BegunFits ==
    ASSUME NEW t \in Tasks, NEW n \in Nat, TurnsFit(t.turns, n), ~Running(t),
           NEW turn \in Turns, turn.id = n + 1, turn.count = Len(t.turns) + 1,
           NEW u \in Tasks, u.turns = Append(t.turns, turn)
    PROVE  /\ TurnsFit(u.turns, n + 1) /\ Known(u, turn) /\ Len(u.turns) = Len(t.turns) + 1
           /\ \A i \in DOMAIN t.turns : i \in DOMAIN u.turns /\ u.turns[i] = t.turns[i]
<1> DEFINE s == t.turns
           v == u.turns
           n0 == Len(s)
<1>1. /\ s \in Seq(Turns) /\ n0 \in Nat /\ DOMAIN s = 1..n0 /\ DOMAIN v = 1..Len(v)
      /\ \A i \in 1..n0 : s[i] \in Turns
  BY TurnsIs
<1>2. Len(v) = n0 + 1 /\ v[n0 + 1] = turn /\ \A i \in 1..n0 : v[i] = s[i]
  BY <1>1, AppendProperties
<1>3. \A i \in 1..n0 : s[i].id \in Nat /\ s[i].id <= n /\ s[i].count = i
  <2>1. \A v0 \in Turns : v0.id \in Nat
    BY TurnAssumption DEF Turns
  <2>2. \A i \in 1..n0 : s[i].id \in Nat
    BY <1>1, <2>1
  <2>3. \A i \in DOMAIN s : s[i].id <= n /\ s[i].count = i
    BY DEF TurnsFit, IdsDiffer, Sequential
  <2>4. QED
    BY <1>1, <2>2, <2>3
<1>4. \A i, j \in 1..n0 : s[i].id = s[j].id => i = j
  BY <1>1 DEF TurnsFit, IdsDiffer
<1>5. \A i \in 1..n0 : s[i].status # "running"
  <2>1. n0 # 0 => s[n0].status # "running"
    BY TurnsIs DEF Running
  <2>2. \A i \in 1..n0 : s[i].status = "running" => i = n0
    BY <1>1 DEF TurnsFit, OnlyLast
  <2>3. QED
    BY <1>1, <2>1, <2>2
<1> HIDE DEF s, v, n0
<1>6. \A i \in DOMAIN v : i \in 1..n0 \/ i = n0 + 1
  BY <1>1, <1>2
<1>7. Sequential(v)
  BY <1>2, <1>3, <1>6 DEF Sequential, s, n0
<1>8. OnlyLast(v)
  BY <1>1, <1>2, <1>5, <1>6 DEF OnlyLast
<1>9. IdsDiffer(v, n + 1)
  <2>1. \A i \in DOMAIN v : v[i].id <= n + 1
    BY <1>2, <1>3, <1>6
  <2>2. ASSUME NEW i \in DOMAIN v, NEW j \in DOMAIN v, v[i].id = v[j].id PROVE i = j
    BY <1>2, <1>3, <1>4, <1>6, <2>2
  <2>3. QED
    BY <2>1, <2>2 DEF IdsDiffer
<1>10. n0 + 1 \in DOMAIN v
  BY <1>1, <1>2
<1>11. QED
  BY <1>1, <1>2, <1>7, <1>8, <1>9, <1>10 DEF TurnsFit, Known, s, v, n0

LEMMA SettledRests ==
    ASSUME NEW t \in Tasks
    PROVE  ~Running(Settled(t)) /\ Kept(t, Settled(t))
<1>1. CASE Running(t)
  <2> DEFINE f == Finish(t, "failed")
  <2>1. f \in Tasks /\ Ends(t, f)
    BY <1>1, FinishEnds DEF Outcomes
  <2>2. Settled(t) = [f EXCEPT !.status = "failed"]
    BY <1>1 DEF Settled, ReduceFinished, Result
  <2> HIDE DEF f
  <2>3. Settled(t).turns = f.turns
    BY <2>1, <2>2, StatusSet DEF Statuses
  <2>4. Ends(t, Settled(t))
    BY <2>1, <2>3 DEF Ends
  <2>5. QED
    BY <1>1, <2>4 DEF Ends, Running, Kept, Outcomes
<1>2. CASE ~Running(t)
  BY <1>2 DEF Settled, ReduceFinished, Result, Kept
<1>3. QED
  BY <1>1, <1>2

\* The settling failure leaves no turn running.
LEMMA SettleEnds ==
    ASSUME TypeInv, SteadyInv, CloseSettle
    PROVE  ~Running(task')
<1> DEFINE r == worker.run
           e == Plain("failed")
<1>1. active = r /\ Hydrated = task /\ task \in Tasks /\ Emit(r, e) /\ r \in Runtimes
  BY DEF SteadyInv, Hydrated, CloseSettle, TypeInv, TypeOK, WorkerOK
<1>2. Reduce(task, pending[r], e).task = Settled(task)
  BY DEF Reduce, Settled, Interactions, Plain, Event, ReduceFinished, Result
<1>3. task' = Unarchived(task, Reduce(task, pending[r], e), e)
  BY <1>1 DEF Emit
<1> HIDE DEF e, r
<1>4. Settled(task) \in Tasks /\ ~Running(Settled(task))
  BY <1>1, SettledIs, SettledRests
<1>5. task'.turns = Settled(task).turns
  BY <1>1, <1>2, <1>3, <1>4, UnarchivedIs
<1>6. QED
  BY <1>4, <1>5 DEF Running

LEMMA SteadyPrompt ==
    ASSUME TypeInv, TypeInv', SteadyInv, Prompt
    PROVE  SteadyInv'
<1>0. /\ task \in Tasks /\ task' \in Tasks /\ minted \in Nat /\ asked \in Nat /\ WorkerTypes
      /\ TurnsFit(task.turns, minted)
  BY TypeParts, TurnAssumption DEF TypeInv, TypeOK, SteadyInv
<1>1. ASSUME NEW r \in Runtimes, PromptAccept(r)
      PROVE  SteadyInv'
  <2> DEFINE last == task.turns[Len(task.turns)]
             turn == Turn(minted + 1, NextCount(task), "running")
             accepted == [task EXCEPT !.turns = Append(@, turn)]
             W(t) == [Doing("emit", r) EXCEPT !.turn = t]
  <2>1. \A t : W(t).turn = t /\ W(t).at = "emit"
    BY DEF Doing, Resting
  <2>2. CASE Joins(task)
    <3>1. worker' = W(last) /\ task' = task /\ loaded' = loaded /\ minted' = minted
      BY <1>1, <2>2 DEF PromptAccept
    <3>2. Known(task, last)
      BY <1>0, <2>2, TurnsIs DEF Known, Joins, Running
    <3> HIDE DEF last, W
    <3>3. QED
      BY <2>1, <3>1, <3>2 DEF SteadyInv, Kept
  <2>3. CASE ~Joins(task)
    <3>1. worker' = W(turn) /\ task' = accepted /\ loaded' = loaded /\ minted' = minted + 1
          /\ minted < MaxTurns
      BY <1>1, <2>3 DEF PromptAccept
    <3>2. turn \in Turns /\ turn.id = minted + 1 /\ turn.count = Len(task.turns) + 1
      BY <1>0, <3>1, TurnsIs, TurnAssumption DEF Turn, Turns, NextCount
    <3> HIDE DEF turn, W
    <3>3. accepted \in Tasks /\ accepted.turns = Append(task.turns, turn)
      BY <1>0, <3>2, AppendedIs
    <3> HIDE DEF accepted
    <3>4. /\ TurnsFit(task'.turns, minted + 1) /\ Known(task', turn)
          /\ Len(task'.turns) = Len(task.turns) + 1
          /\ \A i \in DOMAIN task.turns : task'.turns[i] = task.turns[i]
      BY <1>0, <2>3, <3>1, <3>2, <3>3, BegunFits DEF Joins
    <3>5. QED
      BY <2>1, <3>1, <3>4 DEF SteadyInv
  <2>4. QED
    BY <2>2, <2>3
<1>2. ASSUME PromptEmit PROVE SteadyInv'
  <2> DEFINE e == Accepted(worker.turn)
  <2>1. worker.run \in Runtimes /\ worker.turn \in Turns /\ Known(task, worker.turn)
    BY <1>2 DEF PromptEmit, TypeInv, WorkerOK, SteadyInv
  <2>2. e \in Events /\ e.id \in 0..asked /\ e.turn = worker.turn
    BY <1>0, <2>1, TurnAssumption DEF Accepted, Event, Events
  <2>3. Emit(worker.run, e) /\ worker' = Go("deliver") /\ minted' = minted
    BY <1>2 DEF PromptEmit, drawn
  <2> HIDE DEF e
  <2>4. loaded' /\ Kept(task, task')
    BY <2>1, <2>2, <2>3, EmitKeeps
  <2>5. worker'.at = "deliver"
    BY <1>0, <2>3, GoSource
  <2>6. QED
    BY <1>0, <2>3, <2>4, <2>5, SteadyKept
<1>3. ASSUME PromptDeliver PROVE SteadyInv'
  <2>1. UNCHANGED <<record, drawn>> /\ worker'.at = "idle"
    BY <1>3, DoesSource DEF PromptDeliver
  <2>2. loaded' /\ Kept(task, task') /\ minted' = minted
    BY <2>1 DEF record, drawn, Kept, SteadyInv
  <2>3. QED
    BY <1>0, <2>1, <2>2, SteadyKept
<1>4. QED
  BY <1>1, <1>2, <1>3 DEF Prompt

LEMMA SteadyForward ==
    ASSUME TypeInv, TypeInv', SteadyInv, NEW r \in Runtimes, Forward(r)
    PROVE  SteadyInv'
<1> DEFINE e == Head(channel[r])
<1>1. channel[r] # <<>> /\ Emit(r, e) /\ worker' = worker /\ active' = active /\ minted' = minted
  BY DEF Forward, runtime, drawn
<1>2. channel[r] \in Seq(Events) /\ 1 \in DOMAIN channel[r] /\ e = channel[r][1] /\ e \in Events
  <2>1. channel[r] \in Seq(Events)
    BY DEF TypeInv, TypeOK
  <2>2. QED
    BY <1>1, <2>1, HeadTailProperties, EmptySeq, LenProperties
<1>3. e.type # "accepted" /\ e.id \in 0..asked
  BY <1>2 DEF TypeInv, ChannelsOK
<1> HIDE DEF e
<1>4. loaded' /\ Kept(task, task') /\ task' \in Tasks
  BY <1>1, <1>2, <1>3, EmitKeeps
<1>5. QED
  BY <1>1, <1>4, SteadyKept

LEMMA SteadyAnswer ==
    ASSUME TypeInv, TypeInv', SteadyInv, Answer
    PROVE  SteadyInv'
<1>0. task' \in Tasks /\ WorkerTypes /\ TypeOK /\ asked \in Nat
  BY TypeParts, TurnAssumption DEF TypeInv, TypeOK
<1>1. ASSUME NEW r \in Runtimes, NEW id \in 1..asked, Respond(r, id)
      PROVE  SteadyInv'
  <2>1. UNCHANGED <<record, drawn>> /\ worker'.at = "resolve"
    BY <1>1 DEF Respond, Doing, Resting
  <2>2. loaded' /\ Kept(task, task') /\ minted' = minted
    BY <2>1 DEF record, drawn, Kept, SteadyInv
  <2>3. QED
    BY <1>0, <2>1, <2>2, SteadyKept
<1>2. ASSUME RespondEmit PROVE SteadyInv'
  <2> DEFINE e == Resolved(worker.ask)
  <2>1. worker.run \in Runtimes /\ worker.ask \in 0..asked
    BY <1>0, <1>2 DEF RespondEmit, TypeInv, WorkerOK, WorkerTypes, Workers
  <2>2. e \in Events /\ e.id \in 0..asked /\ e.type # "accepted"
    BY <1>0, <2>1, TurnAssumption DEF Resolved, Event, Events, TypeOK
  <2>3. Emit(worker.run, e) /\ worker'.at = "idle" /\ minted' = minted
    BY <1>2, DoesSource DEF RespondEmit, drawn
  <2> HIDE DEF e
  <2>4. loaded' /\ Kept(task, task')
    BY <2>1, <2>2, <2>3, EmitKeeps
  <2>5. QED
    BY <1>0, <2>3, <2>4, SteadyKept
<1>3. QED
  BY <1>1, <1>2 DEF Answer

LEMMA SteadyStart ==
    ASSUME TypeInv, TypeInv', SteadyInv, Start
    PROVE  SteadyInv'
<1>1. WorkerTypes /\ task' \in Tasks
  BY TypeParts DEF TypeInv, TypeOK
<1>2. UNCHANGED record /\ minted' = minted
  BY DEF Start, StartBegin, StartReplace, StartLaunch, StartInstall, StartFails, drawn
<1>3. worker'.at \in {"idle", "replace", "launch", "install"}
  <2>1. (\A r : Doing("replace", r).at = "replace") /\ Resting.at = "idle"
    BY DoesSource
  <2>2. Go("launch").at = "launch" /\ Go("install").at = "install"
    BY <1>1, GoSource
  <2>3. \/ worker' \in {Resting, Go("launch"), Go("install")}
        \/ \E r : worker' = Doing("replace", r)
    BY DEF Start, StartBegin, StartReplace, StartLaunch, StartInstall, StartFails
  <2>4. QED
    BY <2>1, <2>2, <2>3
<1>4. loaded' /\ Kept(task, task')
  BY <1>2 DEF record, Kept, SteadyInv
<1>5. QED
  BY <1>1, <1>2, <1>3, <1>4, SteadyKept

LEMMA SteadyClose ==
    ASSUME TypeInv, TypeInv', SteadyInv, Close
    PROVE  SteadyInv'
<1>0. task' \in Tasks /\ task \in Tasks /\ WorkerTypes /\ TypeOK /\ asked \in Nat /\ minted \in Nat
      /\ TurnsFit(task.turns, minted)
  <2>1. WorkerTypes /\ RecordTypes /\ DrawnTypes /\ RecordTypes' /\ TypeOK
    BY TypeParts, TypePartsNext DEF TypeInv
  <2>2. TurnsFit(task.turns, minted)
    BY DEF SteadyInv
  <2>3. asked \in Nat /\ minted \in Nat
    BY <2>1, TurnAssumption DEF DrawnTypes
  <2>4. task' \in Tasks /\ task \in Tasks
    BY <2>1 DEF RecordTypes
  <2>5. QED
    BY <2>1, <2>2, <2>3, <2>4
<1>1. ASSUME NEW r \in Runtimes, CloseDriver(r) PROVE SteadyInv'
  <2>1. /\ UNCHANGED <<record, drawn>> /\ active' = active
        /\ worker' = IF active = r THEN Doing("check", r) ELSE Resting
    BY <1>1 DEF CloseDriver
  <2>2. Doing("check", r).at = "check" /\ Doing("check", r).run = r /\ Resting.at = "idle"
    BY DEF Doing, Resting
  <2>3. QED
    BY <2>1, <2>2 DEF record, drawn, Kept, SteadyInv
<1>2. ASSUME CloseCheck PROVE SteadyInv'
  <2>1. /\ UNCHANGED <<record, drawn>> /\ active' = active /\ worker.at = "check"
        /\ worker' = Go(IF Running(task) THEN "settle" ELSE "end")
    BY <1>2 DEF CloseCheck, runtime, HasActiveTurn
  <2>2. worker'.at = (IF Running(task) THEN "settle" ELSE "end") /\ worker'.run = worker.run
    BY <1>0, <2>1 DEF Go, WorkerTypes, Workers
  <2>3. Running(task)' = Running(task)
    BY <2>1 DEF Running, record
  <2>4. QED
    BY <2>1, <2>2, <2>3 DEF record, drawn, Kept, SteadyInv
<1>3. ASSUME CloseSettle PROVE SteadyInv'
  <2> DEFINE e == Plain("failed")
  <2>1. worker.run \in Runtimes /\ active = worker.run
    BY <1>3 DEF CloseSettle, TypeInv, WorkerOK, SteadyInv
  <2>2. e \in Events /\ e.id \in 0..asked /\ e.type # "accepted"
    BY <1>0, PlainIs
  <2>3. Emit(worker.run, e) /\ worker' = Go("end") /\ minted' = minted /\ active' = active
    BY <1>3 DEF CloseSettle, drawn, runtime
  <2> HIDE DEF e
  <2>4. loaded' /\ Kept(task, task')
    BY <2>1, <2>2, <2>3, EmitKeeps
  <2>5. worker'.at = "end" /\ worker'.run = worker.run
    BY <1>0, <2>3 DEF Go, WorkerTypes, Workers
  <2>6. ~Running(task)'
    BY <1>3, SettleEnds DEF Running
  <2>7. TurnsFit(task'.turns, minted)
    BY <1>0, <2>4, KeptFits
  <2>8. QED
    BY <2>1, <2>3, <2>4, <2>5, <2>6, <2>7 DEF SteadyInv
<1>4. ASSUME CloseEnd PROVE SteadyInv'
  <2>1. UNCHANGED <<record, drawn>> /\ worker'.at = "idle"
    BY <1>4, DoesSource DEF CloseEnd
  <2>2. loaded' /\ Kept(task, task') /\ minted' = minted
    BY <2>1 DEF record, drawn, Kept, SteadyInv
  <2>3. QED
    BY <1>0, <2>1, <2>2, SteadyKept
<1>5. QED
  BY <1>1, <1>2, <1>3, <1>4 DEF Close

\* The first turns of a session.
LEMMA CutFits ==
    ASSUME NEW t \in Tasks, NEW u \in Tasks, NEW n \in Nat, TurnsFit(t.turns, n), Cut(t, u),
           \A i \in DOMAIN u.turns : i < Len(t.turns)
    PROVE  TurnsFit(u.turns, n)
<1>1. /\ Len(t.turns) \in Nat /\ DOMAIN t.turns = 1..Len(t.turns)
      /\ Len(u.turns) \in Nat /\ DOMAIN u.turns = 1..Len(u.turns)
  BY TurnsIs
<1>2. Sequential(u.turns)
  BY <1>1 DEF TurnsFit, Sequential, Cut
<1>3. OnlyLast(u.turns)
  BY <1>1 DEF TurnsFit, OnlyLast, Cut
<1>4. IdsDiffer(u.turns, n)
  BY <1>1 DEF TurnsFit, IdsDiffer, Cut
<1>5. QED
  BY <1>2, <1>3, <1>4 DEF TurnsFit

LEMMA SteadyRewind ==
    ASSUME TypeInv, TypeInv', SteadyInv, Rewind
    PROVE  SteadyInv'
<1>0. /\ task' \in Tasks /\ task \in Tasks /\ WorkerTypes /\ TypeOK /\ minted \in Nat
      /\ TurnsFit(task.turns, minted) /\ Hydrated = task
  <2>1. WorkerTypes /\ TypeOK /\ Hydrated = task /\ TurnsFit(task.turns, minted)
    BY TypeParts DEF TypeInv, SteadyInv, Hydrated
  <2>2. task' \in Tasks
    BY DEF TypeInv, TypeOK
  <2>3. task \in Tasks /\ minted \in Nat
    BY <2>1, TurnAssumption DEF TypeOK
  <2>4. QED
    BY <2>1, <2>2, <2>3
<1>1. ASSUME NEW keep \in 0..MaxTurns, RewindRead(keep)
      PROVE  SteadyInv'
  <2> DEFINE source == [task EXCEPT !.turns = SubSeq(@, 1, keep)]
  <2>1. /\ worker' = [Doing("rewind", None) EXCEPT !.source = source]
        /\ task' = task /\ loaded' = TRUE /\ minted' = minted
        /\ source = [task EXCEPT !.turns = SubSeq(@, 1, keep)]
    BY <1>0, <1>1 DEF RewindRead, drawn
  <2> HIDE DEF source
  <2>2. worker'.at = "rewind" /\ worker'.source = source
    BY <2>1 DEF Doing, Resting
  <2>3. PICK i \in DOMAIN task.turns : task.turns[i].count = keep + 1
    BY <1>0, <1>1 DEF RewindRead
  <2>4. Len(task.turns) \in Nat /\ DOMAIN task.turns = 1..Len(task.turns)
    BY <1>0, TurnsIs
  <2>5. i = keep + 1 /\ keep \in Nat /\ keep < Len(task.turns) /\ keep <= Len(task.turns)
    <3>1. task.turns[i].count = i
      BY <1>0 DEF TurnsFit, Sequential
    <3>2. QED
      BY <2>3, <2>4, <3>1, TurnAssumption
  <2>6. /\ source \in Tasks /\ Len(source.turns) = keep
        /\ \A k \in 1..keep : source.turns[k] = task.turns[k]
    BY <1>0, <2>1, <2>4, <2>5, KeptIs
  <2>7. DOMAIN source.turns = 1..keep
    BY <2>6, TurnsIs
  <2>8. \A k \in DOMAIN source.turns : k < Len(task.turns) /\ source.turns[k] = task.turns[k]
    BY <2>4, <2>5, <2>6, <2>7
  <2>9. QED
    BY <1>0, <2>1, <2>2, <2>8 DEF SteadyInv, Kept
<1>2. ASSUME RewindFails PROVE SteadyInv'
  <2>1. UNCHANGED <<record, drawn>> /\ worker'.at = "idle"
    BY <1>2, DoesSource DEF RewindFails
  <2>2. loaded' /\ Kept(task, task') /\ minted' = minted
    BY <2>1 DEF record, drawn, Kept, SteadyInv
  <2>3. QED
    BY <1>0, <2>1, <2>2, SteadyKept
<1>3. ASSUME RewindDrop PROVE SteadyInv'
  <2>1. /\ UNCHANGED <<record, drawn>> /\ worker.at = "rewind"
        /\ worker'.at = "rewrite" /\ worker'.source = worker.source
    BY <1>0, <1>3, GoSource DEF RewindDrop
  <2>2. QED
    BY <2>1 DEF record, drawn, Kept, SteadyInv
<1>4. ASSUME RewindWrite PROVE SteadyInv'
  <2>1. /\ task' = [worker.source EXCEPT !.status = "idle"] /\ loaded' = TRUE
        /\ worker.at = "rewrite" /\ worker'.at = "idle" /\ minted' = minted
    BY <1>4, DoesSource DEF RewindWrite, drawn
  <2>2. worker.source \in Tasks /\ task'.turns = worker.source.turns
    <3>1. worker.source \in Tasks
      BY <1>0 DEF WorkerTypes, Workers
    <3>2. QED
      BY <2>1, <3>1, StatusSet DEF Statuses
  <2>3. \A i \in DOMAIN task'.turns : i < Len(task.turns) /\ task'.turns[i] = task.turns[i]
    BY <2>1, <2>2 DEF SteadyInv
  <2>4. Cut(task, task')
    <3>1. Len(task.turns) \in Nat /\ DOMAIN task.turns = 1..Len(task.turns)
          /\ Len(task'.turns) \in Nat /\ DOMAIN task'.turns = 1..Len(task'.turns)
      BY <1>0, TurnsIs
    <3>2. QED
      BY <2>3, <3>1 DEF Cut
  <2>5. TurnsFit(task'.turns, minted)
    BY <1>0, <2>3, <2>4, CutFits
  <2>6. QED
    BY <2>1, <2>4, <2>5 DEF SteadyInv
<1>5. QED
  BY <1>1, <1>2, <1>3, <1>4 DEF Rewind

LEMMA SteadyNext ==
    ASSUME "restart" \notin May, TypeInv, TypeInv', SteadyInv, [Next]_vars
    PROVE  SteadyInv'
<1>0. task' \in Tasks /\ task \in Tasks
  BY DEF TypeInv, TypeOK
<1>1. CASE UNCHANGED vars
  <2>1. UNCHANGED record /\ worker' = worker /\ active' = active /\ minted' = minted
    BY <1>1 DEF vars, runtime, drawn
  <2>2. loaded' /\ Kept(task, task')
    BY <2>1 DEF record, Kept, SteadyInv
  <2>3. QED
    BY <1>0, <2>1, <2>2, SteadyKept
<1>2. ASSUME NEW archived \in BOOLEAN, Archive(archived) PROVE SteadyInv'
  <2>1. task' = [task EXCEPT !.archived = archived] /\ loaded' = loaded /\ worker' = worker
        /\ active' = active /\ minted' = minted
    BY <1>2 DEF Archive, runtime, drawn
  <2>2. task'.turns = task.turns
    BY <1>0, <2>1 DEF Tasks
  <2>3. loaded' /\ Kept(task, task')
    BY <2>1, <2>2 DEF Kept, SteadyInv
  <2>4. QED
    BY <1>0, <2>1, <2>3, SteadyKept
<1>3. ASSUME NEW r \in Runtimes, Process(r) PROVE SteadyInv'
  <2>1. UNCHANGED record /\ worker' = worker /\ active' = active /\ minted' = minted
    BY <1>3 DEF Process, Connect, TakePrompt, Output, Ask, EndTurn, ReportError, Exit, Outside,
                runtime, drawn
  <2>2. loaded' /\ Kept(task, task')
    BY <2>1 DEF record, Kept, SteadyInv
  <2>3. QED
    BY <1>0, <2>1, <2>2, SteadyKept
<1>4. ~Restart
  BY DEF Restart
<1>5. QED
  BY <1>1, <1>2, <1>3, <1>4, SteadyStart, SteadyPrompt, SteadyAnswer, SteadyClose, SteadyRewind,
     SteadyForward DEF Next

\* As long as the daemon runs, the turns are counted from one without a gap, only
\* the last one runs, each has an id of its own, and what the worker found before
\* it let go of the mutex still holds.
THEOREM SteadyTurns ==
    ASSUME "restart" \notin May
    PROVE  Spec => []SteadyInv
<1>1. Init => SteadyInv
  BY SteadyInit
<1>2. TypeInv /\ TypeInv' /\ SteadyInv /\ [Next]_vars => SteadyInv'
  BY SteadyNext
<1>3. Spec => [](TypeInv /\ RecordInv)
  BY TurnInvariant
<1>4. QED
  BY <1>1, <1>2, <1>3, PTL DEF Spec

\* CountsAreSequential (a turn's count is its place, accept_prompt_turn), as
\* long as the daemon runs.
THEOREM CountsFollow ==
    ASSUME "restart" \notin May
    PROVE  Spec => []CountsAreSequential
<1>1. SteadyInv => CountsAreSequential
  BY DEF SteadyInv, TurnsFit, Sequential, CountsAreSequential, Hydrated
<1>2. QED
  BY <1>1, SteadyTurns, PTL

\* OnlyLastRuns (active_turn_id looks at the last turn only), as long as the
\* daemon runs.
THEOREM LastAloneRuns ==
    ASSUME "restart" \notin May
    PROVE  Spec => []OnlyLastRuns
<1>1. SteadyInv => OnlyLastRuns
  BY DEF SteadyInv, TurnsFit, OnlyLast, OnlyLastRuns, Hydrated
<1>2. QED
  BY <1>1, SteadyTurns, PTL

\* CloseSettles (settle_interrupted_turn), as long as the daemon runs.
THEOREM ClosedIsSettled ==
    ASSUME "restart" \notin May
    PROVE  Spec => CloseSettles
<1> DEFINE A == CloseEnd => ~Running(task) /\ pending'[worker.run] = Nothing
<1>1. ASSUME TypeInv, SteadyInv, [Next]_vars
      PROVE  A
  <2>1. SUFFICES ASSUME CloseEnd PROVE ~Running(task) /\ pending'[worker.run] = Nothing
    OBVIOUS
  <2>2. worker.at = "end" /\ pending' = [pending EXCEPT ![worker.run] = Nothing]
    BY <2>1 DEF CloseEnd
  <2>3. worker.run \in Runtimes /\ pending \in [Runtimes -> [Interactions -> 0..asked]]
    BY <1>1, <2>2 DEF TypeInv, WorkerOK, TypeOK
  <2>4. QED
    BY <1>1, <2>2, <2>3 DEF SteadyInv
<1>2. Spec => [](TypeInv /\ RecordInv)
  BY TurnInvariant
<1>3. Spec => []SteadyInv
  BY SteadyTurns
<1>4. TypeInv /\ SteadyInv /\ [Next]_vars => [A]_vars
  BY <1>1
<1> HIDE DEF A
<1>5. Spec => [][A]_vars
  BY <1>2, <1>3, <1>4, PTL DEF Spec
<1>6. QED
  BY <1>5 DEF CloseSettles, A

-----------------------------------------------------------------------------
(* The status that clients show *)

\* No client disturbs a turn and no provider reports an error; a daemon may
\* restart, a process exit and the task be put on the shelf at any time.
Orderly == May \subseteq {"archive", "restart", "exit"}

OnTypes == {"started", "output", "permission", "input", "completed", "failed"}

\* The runtime has a prompt, or has said something of its turn that the hub has
\* not heard.
On(r) ==
    \/ provider[r].at = "busy" \/ provider[r].prompts = 1
    \/ \E i \in DOMAIN channel[r] : channel[r][i].type \in OnTypes

\* After the end of its turn a runtime says nothing but its exit, after that
\* nothing at all.
ShapeOf(r) ==
    /\ \A i \in DOMAIN channel[r] : channel[r][i].type \in OnTypes \cup {"connected", "exited"}
    /\ \A i, j \in DOMAIN channel[r] :
          channel[r][i].type \in Outcomes /\ i < j => channel[r][j].type = "exited"
    /\ \A i \in DOMAIN channel[r] :
          channel[r][i].type = "exited" => i = Len(channel[r]) /\ provider[r].at = "gone"
    /\ \A i \in DOMAIN channel[r] :
          channel[r][i].type \in Outcomes =>
              provider[r].at \in {"ready", "gone"} /\ provider[r].prompts = 0
    /\ \A i \in DOMAIN channel[r] : channel[r][i].type \in Interactions => channel[r][i].id # 0
    /\ provider[r].at \in {"none", "busy", "gone"} => provider[r].prompts = 0

\* A runtime id that was not drawn stands for nothing.
FreshOf(r) ==
    r \notin used => channel[r] = <<>> /\ provider[r] = Unstarted /\ pending[r] = Nothing

ChannelInv == \A r \in Runtimes : ShapeOf(r) /\ FreshOf(r)

\* The runtime a command serves is the hub's and the backend's.
RunInv ==
    /\ worker.at \notin {"rewind", "rewrite"}
    /\ worker.at # "idle" => active = worker.run
    /\ driver # None /\ worker.at # "replace" => driver = active
    /\ worker.at \in {"launch", "install", "check", "settle", "end"} => driver = None
    /\ active # None => active \in used
    /\ driver # None => driver \in used
    /\ worker.at \in {"replace", "launch"} =>
          channel[worker.run] = <<>> /\ provider[worker.run] = Unstarted
    /\ worker.at = "resolve" => worker.ask # 0

Last(s) == s[Len(s)]

\* The turn of a prompt that is accepted and not yet told of runs, or is not in
\* the projection at all.
EmitInv ==
    /\ \A i \in DOMAIN disk.turns : disk.turns[i].id <= minted
    /\ worker.at = "emit" =>
          /\ worker.turn.status = "running" /\ worker.turn.id <= minted
          /\ \/ Running(disk) /\ Last(disk.turns).id = worker.turn.id
             \/ ~Known(disk, worker.turn)
    /\ ~loaded /\ worker.at # "emit" => task.turns = <<>>

Turning == Running(task) /\ Busy(task)

\* A runtime that has a prompt has the turn, whatever the worker does.
SessionInv ==
    /\ Busy(task) => loaded /\ Running(task)
    /\ active # None /\ On(active) => worker.at = "end" \/ Turning
    /\ worker.at \in {"replace", "launch", "install", "emit", "end"} => ~Busy(task)
    /\ worker.at = "deliver" => ~On(worker.run) /\ (Turning \/ ~Alive(worker.run))
    /\ worker.at = "end" => (loaded /\ ~Running(task)) \/ ~On(worker.run)
    /\ Unanswered => Turning
    /\ task.status = "waiting" /\ worker.at \notin {"check", "settle"} => Unanswered
    /\ task.archived => ~Busy(task)

OrderlyInv == ChannelInv /\ RunInv /\ EmitInv /\ SessionInv

LEMMA OrderlyInit == Init => OrderlyInv
<1> SUFFICES ASSUME Init PROVE OrderlyInv
  OBVIOUS
<1>1. DOMAIN <<>> = {}
  BY EmptySeq, LenProperties
<1>2. \A r \in Runtimes : channel[r] = <<>> /\ provider[r] = Unstarted /\ pending[r] = Nothing
  BY DEF Init
<1>3. ASSUME NEW r \in Runtimes PROVE ~On(r) /\ ShapeOf(r) /\ FreshOf(r)
  <2>1. DOMAIN channel[r] = {} /\ provider[r].at = "none" /\ provider[r].prompts = 0
    BY <1>1, <1>2 DEF Unstarted
  <2>2. QED
    BY <1>2, <2>1 DEF On, ShapeOf, FreshOf
<1>4. RunInv
  BY DEF Init, RunInv, Resting
<1>5. EmitInv
  BY <1>1 DEF Init, EmitInv, Resting, Blank
<1>6. SessionInv
  BY DEF Init, SessionInv, Resting, Blank, Busy, Unanswered, Turning
<1>7. QED
  BY <1>3, <1>4, <1>5, <1>6 DEF OrderlyInv, ChannelInv

\* The oldest event of a channel is taken.
LEMMA ForwardShape ==
    ASSUME TypeInv, ChannelInv, NEW r \in Runtimes, channel[r] # <<>>,
           channel' = [channel EXCEPT ![r] = Tail(@)], provider' = provider
    PROVE  /\ \A q \in Runtimes : ShapeOf(q)'
           /\ \A q \in Runtimes : On(q)' => On(q)
           /\ Head(channel[r]).type \in OnTypes => On(r)
           /\ Head(channel[r]).type \in OnTypes \cup {"connected", "exited"}
           /\ Head(channel[r]).type \in Interactions => Head(channel[r]).id # 0
           /\ Head(channel[r]).type \in Outcomes \cup {"exited"} => ~On(r)'
           /\ Head(channel[r]).type = "exited" => provider[r].at = "gone"
           /\ r \in used
<1>1. /\ Len(channel'[r]) = Len(channel[r]) - 1
      /\ DOMAIN channel[r] = 1..Len(channel[r]) /\ DOMAIN channel'[r] = 1..Len(channel'[r])
      /\ Len(channel[r]) \in Nat /\ Len(channel[r]) # 0
      /\ Head(channel[r]) = channel[r][1]
      /\ \A i \in 1..(Len(channel[r]) - 1) : channel'[r][i] = channel[r][i + 1]
      /\ \A q \in Runtimes : q # r => channel'[q] = channel[q]
  BY TookFirst DEF TypeInv
<1>2. ShapeOf(r) /\ FreshOf(r) /\ \A q \in Runtimes : ShapeOf(q)
  BY DEF ChannelInv
<1>3. 1 \in DOMAIN channel[r]
  BY <1>1
<1>4. \A i \in DOMAIN channel'[r] : i + 1 \in DOMAIN channel[r] /\ channel'[r][i] = channel[r][i + 1]
                                     /\ i \in Nat /\ 1 < i + 1
  BY <1>1
<1>5. ShapeOf(r)'
  <2>1. \A i \in DOMAIN channel'[r] : channel'[r][i].type \in OnTypes \cup {"connected", "exited"}
    BY <1>2, <1>4 DEF ShapeOf
  <2>2. \A i, j \in DOMAIN channel'[r] :
          channel'[r][i].type \in Outcomes /\ i < j => channel'[r][j].type = "exited"
    BY <1>2, <1>4 DEF ShapeOf
  <2>3. \A i \in DOMAIN channel'[r] :
          channel'[r][i].type = "exited" => i = Len(channel'[r]) /\ provider'[r].at = "gone"
    BY <1>1, <1>2, <1>4 DEF ShapeOf
  <2>4. \A i \in DOMAIN channel'[r] :
          channel'[r][i].type \in Outcomes =>
              provider'[r].at \in {"ready", "gone"} /\ provider'[r].prompts = 0
    BY <1>2, <1>4 DEF ShapeOf
  <2>5. \A i \in DOMAIN channel'[r] : channel'[r][i].type \in Interactions => channel'[r][i].id # 0
    BY <1>2, <1>4 DEF ShapeOf
  <2>6. QED
    BY <1>2, <2>1, <2>2, <2>3, <2>4, <2>5 DEF ShapeOf
<1>6. \A q \in Runtimes : ShapeOf(q)'
  BY <1>1, <1>2, <1>5 DEF ShapeOf
<1>7. \A q \in Runtimes : On(q)' => On(q)
  BY <1>1, <1>4 DEF On
<1>8. Head(channel[r]).type \in OnTypes \cup {"connected", "exited"}
      /\ (Head(channel[r]).type \in Interactions => Head(channel[r]).id # 0)
  BY <1>1, <1>2, <1>3 DEF ShapeOf
<1>9. Head(channel[r]).type \in OnTypes => On(r)
  BY <1>1, <1>3 DEF On
<1>10. ASSUME Head(channel[r]).type \in Outcomes
       PROVE  ~On(r)'
  <2>1. provider[r].at \in {"ready", "gone"} /\ provider[r].prompts = 0
    BY <1>1, <1>2, <1>3, <1>10 DEF ShapeOf
  <2>2. \A i \in DOMAIN channel'[r] : channel'[r][i].type = "exited"
    BY <1>1, <1>2, <1>3, <1>4, <1>10 DEF ShapeOf
  <2>3. QED
    BY <2>1, <2>2 DEF On, OnTypes
<1>11. ASSUME Head(channel[r]).type = "exited"
       PROVE  ~On(r)' /\ provider[r].at = "gone"
  <2>1. Len(channel[r]) = 1 /\ provider[r].at = "gone" /\ provider[r].prompts = 0
    BY <1>1, <1>2, <1>3, <1>11 DEF ShapeOf
  <2>2. Len(channel'[r]) = 0 /\ 1..0 = {} /\ DOMAIN channel'[r] = 1..Len(channel'[r])
    BY <1>1, <2>1
  <2>3. DOMAIN channel'[r] = {}
    BY <2>2
  <2>4. QED
    BY <2>1, <2>3 DEF On
<1>12. r \in used
  BY <1>2 DEF FreshOf
<1>13. QED
  BY <1>6, <1>7, <1>8, <1>9, <1>10, <1>11, <1>12

\* An event that a provider may add to what it has said, when p is what becomes
\* of its process.
Fits(r, p, e) ==
    /\ e.type \in OnTypes \cup {"connected", "exited"}
    /\ e.type \in OnTypes => provider[r].at = "busy" \/ provider[r].prompts = 1
    /\ e.type = "exited" => p.at = "gone"
    /\ e.type \in Outcomes => p.at \in {"ready", "gone"} /\ p.prompts = 0
    /\ e.type \in Interactions => e.id # 0
    /\ p.at \in {"none", "busy", "gone"} => p.prompts = 0
    /\ p.at = "busy" \/ p.prompts = 1 => provider[r].at = "busy" \/ provider[r].prompts = 1
    /\ provider[r].at = "ready" /\ provider[r].prompts = 0 =>
          p.at \in {"ready", "gone"} /\ p.prompts = 0 /\ e.type = "exited"

\* A provider's step.
LEMMA ProcessShape ==
    ASSUME Orderly, TypeInv, ChannelInv, NEW r \in Runtimes, Process(r)
    PROVE  /\ ChannelInv'
           /\ \A q \in Runtimes : On(q)' => On(q)
           /\ \A q \in Runtimes : Alive(q)' => Alive(q)
           /\ Alive(r)
           /\ \A q \in Runtimes : q # r => channel'[q] = channel[q] /\ provider'[q] = provider[q]
<1>0. /\ provider \in [Runtimes -> Providers(asked)] /\ provider[r] \in Providers(asked)
      /\ asked \in Nat
  BY TypeParts, TurnAssumption DEF ProviderTypes, DrawnTypes
<1>1. ShapeOf(r) /\ FreshOf(r) /\ \A q \in Runtimes : ShapeOf(q) /\ FreshOf(q)
  BY DEF ChannelInv
<1>2. ASSUME NEW e \in Events, Says(r, e), NEW p, provider' = [provider EXCEPT ![r] = p],
             Alive(r), used' = used, pending' = pending,
             Fits(r, p, e)
      PROVE  /\ ChannelInv'
             /\ \A q \in Runtimes : On(q)' => On(q)
             /\ \A q \in Runtimes : Alive(q)' => Alive(q)
             /\ \A q \in Runtimes : q # r => channel'[q] = channel[q] /\ provider'[q] = provider[q]
  <2>1. /\ Len(channel'[r]) = Len(channel[r]) + 1
        /\ DOMAIN channel[r] = 1..Len(channel[r]) /\ DOMAIN channel'[r] = 1..Len(channel'[r])
        /\ Len(channel[r]) \in Nat
        /\ \A i \in 1..Len(channel[r]) : channel'[r][i] = channel[r][i]
        /\ channel'[r][Len(channel[r]) + 1] = e
        /\ \A q \in Runtimes : q # r => channel'[q] = channel[q]
    BY <1>2, SaidLast DEF TypeInv
  <2>2. provider'[r] = p /\ \A q \in Runtimes : q # r => provider'[q] = provider[q]
    BY <1>0, <1>2 DEF Fits
  <2>3. provider[r].at # "gone" /\ provider[r].at # "none"
    BY <1>2 DEF Alive, Fits
  <2>4. \A i \in DOMAIN channel[r] : channel[r][i].type # "exited"
    BY <1>1, <2>3 DEF ShapeOf
  <2>5. ASSUME NEW i \in DOMAIN channel[r], channel[r][i].type \in Outcomes
        PROVE  p.at \in {"ready", "gone"} /\ p.prompts = 0 /\ e.type = "exited"
    <3>1. provider[r].at = "ready" /\ provider[r].prompts = 0
      BY <1>1, <2>3, <2>5 DEF ShapeOf
    <3>2. QED
      BY <1>2, <3>1 DEF Fits
  <2>6. \A i \in DOMAIN channel'[r] : (i \in DOMAIN channel[r] /\ channel'[r][i] = channel[r][i])
                                       \/ (i = Len(channel[r]) + 1 /\ channel'[r][i] = e)
    BY <2>1
  <2>7. ShapeOf(r)'
    <3>1. \A i \in DOMAIN channel'[r] : channel'[r][i].type \in OnTypes \cup {"connected", "exited"}
      BY <1>1, <1>2, <2>6 DEF ShapeOf, Fits
    <3>2. \A i, j \in DOMAIN channel'[r] :
            channel'[r][i].type \in Outcomes /\ i < j => channel'[r][j].type = "exited"
      <4>1. SUFFICES ASSUME NEW i \in DOMAIN channel'[r], NEW j \in DOMAIN channel'[r],
                            channel'[r][i].type \in Outcomes, i < j
                     PROVE  channel'[r][j].type = "exited"
        OBVIOUS
      <4>2. i \in DOMAIN channel[r] /\ channel'[r][i] = channel[r][i]
        BY <2>1, <2>6, <4>1
      <4>3. CASE j \in DOMAIN channel[r]
        BY <1>1, <2>6, <4>1, <4>2, <4>3, <2>1 DEF ShapeOf
      <4>4. CASE channel'[r][j] = e
        BY <2>5, <4>1, <4>2, <4>4
      <4>5. QED
        BY <2>6, <4>3, <4>4
    <3>3. \A i \in DOMAIN channel'[r] :
            channel'[r][i].type = "exited" => i = Len(channel'[r]) /\ p.at = "gone"
      BY <1>2, <2>1, <2>4, <2>6 DEF Fits
    <3>4. \A i \in DOMAIN channel'[r] :
            channel'[r][i].type \in Outcomes => p.at \in {"ready", "gone"} /\ p.prompts = 0
      BY <1>2, <2>5, <2>6 DEF Fits
    <3>5. \A i \in DOMAIN channel'[r] : channel'[r][i].type \in Interactions => channel'[r][i].id # 0
      BY <1>1, <1>2, <2>6 DEF ShapeOf, Fits
    <3>6. QED
      BY <1>2, <2>2, <3>1, <3>2, <3>3, <3>4, <3>5 DEF ShapeOf, Fits
  <2>8. ASSUME NEW q \in Runtimes PROVE ShapeOf(q)'
    <3>1. CASE q = r
      BY <2>7, <3>1
    <3>2. CASE q # r
      <4>1. channel'[q] = channel[q] /\ provider'[q] = provider[q] /\ ShapeOf(q)
        BY <1>1, <2>1, <2>2, <3>2
      <4>2. QED
        BY <4>1 DEF ShapeOf
    <3>3. QED
      BY <3>1, <3>2
  <2>9. r \in used
    BY <1>1, <2>3 DEF FreshOf, Unstarted
  <2>10. \A q \in Runtimes : FreshOf(q)'
    BY <1>1, <1>2, <2>1, <2>2, <2>9 DEF FreshOf, Fits
  <2>11. On(r)' => On(r)
    BY <1>2, <2>2, <2>6 DEF On, Fits
  <2>12. \A q \in Runtimes : On(q)' => On(q)
    BY <2>1, <2>2, <2>11 DEF On
  <2>13. \A q \in Runtimes : Alive(q)' => Alive(q)
    BY <1>2, <2>2 DEF Alive, Fits
  <2>14. QED
    BY <2>1, <2>2, <2>8, <2>10, <2>12, <2>13 DEF ChannelInv
<1>3. CASE Connect(r)
  <2> DEFINE p == [provider[r] EXCEPT !.at = "ready"]
             e == Plain("connected")
  <2>1. p.at = "ready" /\ p.prompts = provider[r].prompts /\ provider[r].at = "starting"
    BY <1>0, <1>3 DEF Connect, Providers
  <2>2. Says(r, e) /\ provider' = [provider EXCEPT ![r] = p] /\ UNCHANGED <<used, pending>>
    BY <1>3 DEF Connect, Outside, drawn
  <2>3. e \in Events /\ e.type = "connected"
    BY PlainIs
  <2>4. Alive(r)
    BY <2>1 DEF Alive
  <2> HIDE DEF p, e
  <2>5. Fits(r, p, e)
    BY <1>1, <2>1, <2>2, <2>3, <2>4 DEF Fits, OnTypes, Outcomes, Interactions, ShapeOf
  <2>6. QED
    BY <1>2, <2>1, <2>2, <2>3, <2>4, <2>5
<1>4. CASE TakePrompt(r)
  <2> DEFINE p == [Unstarted EXCEPT !.at = "busy"]
             e == Plain("started")
  <2>1. p.at = "busy" /\ p.prompts = 0 /\ provider[r].at = "ready" /\ provider[r].prompts = 1
    BY <1>0, <1>4 DEF TakePrompt, Unstarted
  <2>2. Says(r, e) /\ provider' = [provider EXCEPT ![r] = p] /\ UNCHANGED <<used, pending>>
    BY <1>4 DEF TakePrompt, Outside, drawn
  <2>3. e \in Events /\ e.type = "started"
    BY PlainIs
  <2>4. Alive(r)
    BY <2>1 DEF Alive
  <2> HIDE DEF p, e
  <2>5. Fits(r, p, e)
    BY <1>1, <2>1, <2>2, <2>3, <2>4 DEF Fits, OnTypes, Outcomes, Interactions, ShapeOf
  <2>6. QED
    BY <1>2, <2>1, <2>2, <2>3, <2>4, <2>5
<1>5. CASE Output(r)
  <2> DEFINE p == provider[r]
             e == Plain("output")
  <2>1. p.at = "busy"
    BY <1>5 DEF Output
  <2>2. Says(r, e) /\ provider' = [provider EXCEPT ![r] = p] /\ UNCHANGED <<used, pending>>
    BY <1>0, <1>5 DEF Output, Outside, drawn
  <2>3. e \in Events /\ e.type = "output"
    BY PlainIs
  <2>4. Alive(r)
    BY <2>1 DEF Alive
  <2> HIDE DEF e
  <2>5. Fits(r, p, e)
    BY <1>1, <2>1, <2>2, <2>3, <2>4 DEF Fits, OnTypes, Outcomes, Interactions, ShapeOf
  <2>6. QED
    BY <1>2, <2>1, <2>2, <2>3, <2>4, <2>5
<1>6. ASSUME NEW kind \in Interactions, Ask(r, kind)
      PROVE  /\ ChannelInv'
             /\ \A q \in Runtimes : On(q)' => On(q)
             /\ \A q \in Runtimes : Alive(q)' => Alive(q)
             /\ Alive(r)
             /\ \A q \in Runtimes : q # r => channel'[q] = channel[q] /\ provider'[q] = provider[q]
  <2> DEFINE e == Event(kind, asked', NoTurn)
             p == [provider[r] EXCEPT !.asks = {asked'}]
  <2>1. /\ asked' = asked + 1 /\ asked < MaxAsks /\ Says(r, e)
        /\ provider' = [provider EXCEPT ![r] = p]
        /\ UNCHANGED <<used, pending>>
    BY <1>6 DEF Ask
  <2>2. e \in Events /\ e.type = kind /\ e.id # 0
    BY <1>0, <2>1, TurnAssumption DEF Event, Events, Interactions
  <2>3. p.at = "busy" /\ p.prompts = provider[r].prompts /\ provider[r].at = "busy"
    BY <1>0, <1>6 DEF Ask, Providers
  <2>4. Alive(r)
    BY <2>3 DEF Alive
  <2> HIDE DEF p, e
  <2>5. Fits(r, p, e)
    BY <1>1, <2>1, <2>2, <2>3, <2>4 DEF Fits, OnTypes, Outcomes, Interactions, ShapeOf
  <2>6. QED
    BY <1>2, <2>1, <2>2, <2>3, <2>4, <2>5
<1>7. ASSUME NEW outcome \in {"completed", "failed"}, EndTurn(r, outcome)
      PROVE  /\ ChannelInv'
             /\ \A q \in Runtimes : On(q)' => On(q)
             /\ \A q \in Runtimes : Alive(q)' => Alive(q)
             /\ Alive(r)
             /\ \A q \in Runtimes : q # r => channel'[q] = channel[q] /\ provider'[q] = provider[q]
  <2> DEFINE p == [[provider[r] EXCEPT !.at = "ready"] EXCEPT !.asks = {}]
             e == Plain(outcome)
  <2>1. Says(r, e) /\ provider' = [provider EXCEPT ![r] = p] /\ UNCHANGED <<used, pending>>
        /\ provider[r].at = "busy"
    BY <1>0, <1>7 DEF EndTurn, Outside, drawn
  <2>2. p.at = "ready" /\ p.prompts = provider[r].prompts
    BY <1>0 DEF Providers
  <2>3. e \in Events /\ e.type = outcome
    BY PlainIs
  <2>4. Alive(r)
    BY <2>1 DEF Alive
  <2> HIDE DEF p, e
  <2>5. Fits(r, p, e)
    BY <1>1, <2>1, <2>2, <2>3, <2>4 DEF Fits, OnTypes, Outcomes, Interactions, ShapeOf
  <2>6. QED
    BY <1>2, <2>1, <2>2, <2>3, <2>4, <2>5
<1>8. CASE Exit(r)
  <2> DEFINE p == [Unstarted EXCEPT !.at = "gone"]
             e == Plain("exited")
  <2>1. p.at = "gone" /\ p.prompts = 0
    BY DEF Unstarted
  <2>2. Says(r, e) /\ provider' = [provider EXCEPT ![r] = p] /\ UNCHANGED <<used, pending>>
        /\ Alive(r)
    BY <1>8 DEF Exit, Outside, drawn
  <2>3. e \in Events /\ e.type = "exited"
    BY PlainIs
  <2> HIDE DEF p, e
  <2>4. Fits(r, p, e)
    BY <1>1, <2>1, <2>2, <2>3 DEF Fits, OnTypes, Outcomes, Interactions, ShapeOf
  <2>5. QED
    BY <1>2, <2>1, <2>2, <2>3, <2>4
<1>9. ~ReportError(r)
  BY DEF Orderly, ReportError
<1>10. QED
  BY <1>3, <1>4, <1>5, <1>6, <1>7, <1>8, <1>9 DEF Process

LEMMA ProcessOrderly ==
    ASSUME Orderly, TypeInv, OrderlyInv, NEW r \in Runtimes, Process(r)
    PROVE  OrderlyInv'
<1>1. /\ ChannelInv'
      /\ \A q \in Runtimes : On(q)' => On(q)
      /\ \A q \in Runtimes : Alive(q)' => Alive(q)
      /\ Alive(r)
      /\ \A q \in Runtimes : q # r => channel'[q] = channel[q] /\ provider'[q] = provider[q]
  BY ProcessShape DEF OrderlyInv
<1>2. /\ task' = task /\ disk' = disk /\ loaded' = loaded /\ worker' = worker /\ pending' = pending
      /\ active' = active /\ driver' = driver /\ used' = used /\ minted' = minted
  BY DEF Process, Connect, TakePrompt, Output, Ask, EndTurn, ReportError, Exit, Outside,
         runtime, record, drawn
<1>3. worker.at \notin {"idle", "rewind", "rewrite"} => worker.run \in Runtimes
  BY DEF TypeInv, WorkerOK
<1>4. active # None => active \in Runtimes
  BY DEF TypeInv, TypeOK
<1>5. RunInv'
  <2>1. worker.at \in {"replace", "launch"} => worker.run # r
    BY <1>1 DEF OrderlyInv, RunInv, Alive, Unstarted
  <2>2. worker.at \in {"replace", "launch"} =>
            channel'[worker.run] = <<>> /\ provider'[worker.run] = Unstarted
    BY <1>1, <1>3, <2>1 DEF OrderlyInv, RunInv
  <2>3. QED
    BY <1>2, <2>2 DEF OrderlyInv, RunInv
<1>6. EmitInv'
  BY <1>2 DEF OrderlyInv, EmitInv, Running, Last, Known
<1>7. SessionInv'
  <2>1. Turning' = Turning /\ Unanswered' = Unanswered /\ Busy(task)' = Busy(task)
        /\ Running(task)' = Running(task)
    BY <1>2 DEF Turning, Unanswered, Busy, Running
  <2>2. active' # None /\ On(active)' => worker'.at = "end" \/ Turning'
    BY <1>1, <1>2, <1>4, <2>1 DEF OrderlyInv, SessionInv, On
  <2>3. worker'.at = "deliver" => ~On(worker.run)' /\ (Turning' \/ ~Alive(worker.run)')
    BY <1>1, <1>2, <1>3, <2>1 DEF OrderlyInv, SessionInv, On, Alive
  <2>4. worker'.at = "end" => (loaded' /\ ~Running(task)') \/ ~On(worker.run)'
    BY <1>1, <1>2, <1>3, <2>1 DEF OrderlyInv, SessionInv
  <2>5. QED
    BY <1>2, <2>1, <2>2, <2>3, <2>4 DEF OrderlyInv, SessionInv
<1>8. QED
  BY <1>1, <1>5, <1>6, <1>7 DEF OrderlyInv

\* What an emission of the active runtime does.
LEMMA EmitDoes ==
    ASSUME TypeInv, RecordInv, NEW r \in Runtimes, NEW e \in Events, e.id \in 0..asked,
           e.type = "accepted" => e.turn \in Turns, Emit(r, e), active = r
    PROVE  /\ Reduce(disk, pending[r], e).task \in Tasks
           /\ task' \in Tasks /\ loaded' = TRUE /\ disk' = task'
           /\ task'.turns = Reduce(disk, pending[r], e).task.turns
           /\ task'.status = Reduce(disk, pending[r], e).task.status
           /\ task'.archived =>
                disk.archived /\ ~(Reduce(disk, pending[r], e).applied /\ Returns(e))
           /\ pending'[r] = IF e.type = "exited" THEN Nothing
                                               ELSE Reduce(disk, pending[r], e).pending
           /\ \A q \in Runtimes : q # r => pending'[q] = pending[q]
<1> DEFINE x == Reduce(disk, pending[r], e)
<1>1. Hydrated = disk /\ disk \in Tasks /\ pending \in [Runtimes -> [Interactions -> 0..asked]]
      /\ asked \in Nat /\ pending[r] \in [Interactions -> 0..asked]
  BY TurnAssumption DEF RecordInv, TypeInv, TypeOK
<1>2. Reduced(disk, pending[r], asked, e, x)
  BY <1>1, ReduceIs
<1>3. /\ task' = Unarchived(disk, x, e) /\ loaded' = TRUE
      /\ pending' = [pending EXCEPT ![r] = IF e.type = "exited" THEN Nothing ELSE x.pending]
      /\ disk' = IF Saves(e, disk, Unarchived(disk, x, e)) THEN Unarchived(disk, x, e) ELSE disk
  BY <1>1 DEF Emit
<1> HIDE DEF x
<1>4. x.task \in Tasks /\ x.task.archived = disk.archived /\ x.pending \in [Interactions -> 0..asked]
  BY <1>2 DEF Reduced
<1>5. /\ Unarchived(disk, x, e) \in Tasks
      /\ Unarchived(disk, x, e).turns = x.task.turns
      /\ Unarchived(disk, x, e).status = x.task.status
  BY <1>1, <1>4, UnarchivedIs
<1>6. Unarchived(disk, x, e).archived => disk.archived /\ ~(x.applied /\ Returns(e))
  BY <1>4 DEF Unarchived, Tasks
<1>7. disk' = Unarchived(disk, x, e)
  BY <1>3 DEF Saves
<1>8. /\ pending'[r] = IF e.type = "exited" THEN Nothing ELSE x.pending
      /\ \A q \in Runtimes : q # r => pending'[q] = pending[q]
  BY <1>1, <1>3
<1>9. QED
  BY <1>3, <1>4, <1>5, <1>6, <1>7, <1>8 DEF x

\* The session goes on as it was.
AsBefore(t, p, x) ==
    /\ x.task.turns = t.turns /\ (Busy(x.task) <=> Busy(t))
    /\ x.task.status = "waiting" <=> t.status = "waiting"
    /\ x.pending = p

\* The turn goes on.
Onward(t, p, x) ==
    /\ Running(t) /\ Busy(t) /\ x.task.turns = t.turns /\ Busy(x.task)
    /\ x.task.status = "waiting" =>
          (t.status = "waiting" /\ x.pending = p) \/ \E i \in Interactions : x.pending[i] # 0

\* The turn is over.
Over(t, x) == Running(t) /\ Busy(t) /\ ~Running(x.task) /\ ~Busy(x.task)

LEMMA OverIs ==
    ASSUME NEW t \in Tasks, NEW o \in Outcomes, NEW s \in {"idle", "failed"}, Running(t),
           Busy(t), NEW x, x.task = [Finish(t, o) EXCEPT !.status = s]
    PROVE  Over(t, x)
<1> DEFINE f == Finish(t, o)
<1>1. f \in Tasks /\ Ends(t, f)
  BY FinishEnds
<1> HIDE DEF f
<1>2. x.task = [f EXCEPT !.status = s]
  BY DEF f
<1>3. x.task.turns = f.turns /\ x.task.status = s
  <2>1. s \in Statuses
    BY DEF Statuses
  <2>2. [f EXCEPT !.status = s].turns = f.turns /\ [f EXCEPT !.status = s].status = s
    BY ONLY <1>1, <2>1, StatusSet
  <2>3. QED
    BY ONLY <1>2, <2>2
<1>4. QED
  BY <1>1, <1>3 DEF Over, Ends, Running, Busy, Outcomes

\* What a driver's event does to a session that is busy only while a turn runs.
LEMMA DriverEvent ==
    ASSUME NEW t \in Tasks, NEW p \in [Interactions -> Nat], NEW e,
           e.type \in OnTypes \cup {"connected", "exited"},
           e.type \in Interactions => e.id # 0,
           e.type \in OnTypes /\ Running(t) => Busy(t),
           Busy(t) => Running(t), NEW x, x = Reduce(t, p, e)
    PROVE  \/ AsBefore(t, p, x) /\ e.type # "exited"
           \/ e.type = "exited" /\ ~Busy(t) /\ x.task = t
           \/ Onward(t, p, x) /\ e.type \in OnTypes
           \/ /\ Over(t, x) /\ e.type \in Outcomes \cup {"exited"}
              /\ e.type # "exited" => x.pending = Nothing
<1>1. ASSUME NEW s \in Statuses
      PROVE  [t EXCEPT !.status = s].turns = t.turns /\ [t EXCEPT !.status = s].status = s
  BY StatusSet
<1>2. CASE e.type = "connected"
  <2> DEFINE u == [t EXCEPT !.status = "working"]
  <2>1. u.turns = t.turns /\ u.status = "working"
    BY <1>1 DEF Statuses
  <2>2. x = Result(IF t.status = "connecting" THEN u ELSE t, p, TRUE)
    BY <1>2 DEF Reduce, ReduceConnected, Interactions
  <2> HIDE DEF u
  <2>3. QED
    BY <1>2, <2>1, <2>2 DEF AsBefore, Result, Busy
<1>3. CASE e.type = "started"
  <2> DEFINE u == [t EXCEPT !.status = "working"]
  <2>1. u.turns = t.turns /\ u.status = "working"
    BY <1>1 DEF Statuses
  <2>2. x = IF Running(t) THEN Result(u, p, TRUE) ELSE Result(t, p, FALSE)
    BY <1>3 DEF Reduce, ReduceStarted, Interactions
  <2> HIDE DEF u
  <2>3. QED
    BY <1>3, <2>1, <2>2 DEF AsBefore, Onward, Result, Busy, OnTypes
<1>4. CASE e.type = "output"
  <2> DEFINE u == [t EXCEPT !.status = "working"]
  <2>1. u.turns = t.turns /\ u.status = "working"
    BY <1>1 DEF Statuses
  <2>2. x = IF Running(t) /\ Busy(t)
            THEN Result(IF t.status = "connecting" THEN u ELSE t, p, TRUE) ELSE Result(t, p, FALSE)
    BY <1>4 DEF Reduce, ReduceOutput, Accepts, Interactions
  <2> HIDE DEF u
  <2>3. QED
    BY <1>4, <2>1, <2>2 DEF AsBefore, Onward, Result, Busy, OnTypes
<1>5. CASE e.type \in Interactions
  <2> DEFINE u == [t EXCEPT !.status = "waiting"]
             q == [p EXCEPT ![e.type] = e.id]
  <2>1. u.turns = t.turns /\ u.status = "waiting" /\ q[e.type] = e.id
    BY <1>1, <1>5 DEF Statuses
  <2>2. x = IF Running(t) /\ Busy(t) THEN Result(u, q, TRUE) ELSE Result(t, p, FALSE)
    BY <1>5 DEF Reduce, ReduceAsk, Accepts, Interactions
  <2>3. e.type \in OnTypes /\ e.type # "exited"
    BY <1>5 DEF OnTypes, Interactions
  <2> HIDE DEF u, q
  <2>4. CASE Running(t) /\ Busy(t)
    BY <1>5, <2>1, <2>2, <2>3, <2>4 DEF Onward, Result, Busy
  <2>5. CASE ~(Running(t) /\ Busy(t))
    BY <2>2, <2>3, <2>5 DEF AsBefore, Result
  <2>6. QED
    BY <2>4, <2>5
<1>6. CASE e.type \in Outcomes
  <2> DEFINE s == IF e.type = "completed" THEN "idle" ELSE "failed"
  <2>1. x = IF Running(t) THEN Result([Finish(t, e.type) EXCEPT !.status = s], Nothing, TRUE)
                          ELSE Result(t, p, FALSE)
    BY <1>6 DEF Reduce, ReduceFinished, Outcomes, Interactions
  <2>2. s \in {"idle", "failed"} /\ e.type # "exited"
    BY <1>6 DEF Outcomes
  <2> HIDE DEF s
  <2>3. Running(t) => Busy(t)
    BY <1>6 DEF Outcomes, OnTypes
  <2>4. CASE Running(t)
    <3>1. x.task = [Finish(t, e.type) EXCEPT !.status = s] /\ x.pending = Nothing
      BY <2>1, <2>4 DEF Result
    <3>2. Over(t, x)
      <4>1. e.type \in Outcomes /\ s \in {"idle", "failed"} /\ t \in Tasks
        BY <1>6, <2>2
      <4>2. QED
        BY ONLY <4>1, <2>3, <2>4, <3>1, OverIs
    <3>3. QED
      BY <1>6, <3>1, <3>2
  <2>5. CASE ~Running(t)
    BY <2>1, <2>2, <2>5 DEF AsBefore, Result
  <2>6. QED
    BY <2>4, <2>5
<1>7. CASE e.type = "exited"
  <2>1. x = IF Busy(t) THEN Result([Finish(t, "failed") EXCEPT !.status = "failed"], Nothing, TRUE)
                       ELSE Result(t, Nothing, FALSE)
    BY <1>7 DEF Reduce, ReduceExited, Interactions
  <2>2. CASE Busy(t)
    <3>1. x.task = [Finish(t, "failed") EXCEPT !.status = "failed"] /\ "failed" \in Outcomes
          /\ Running(t)
      BY <2>1, <2>2 DEF Result, Outcomes
    <3>2. Over(t, x)
      BY <2>2, <3>1, OverIs
    <3>3. QED
      BY <1>7, <3>2
  <2>3. CASE ~Busy(t)
    BY <1>7, <2>1, <2>3 DEF Result
  <2>4. QED
    BY <2>2, <2>3
<1>8. QED
  BY <1>2, <1>3, <1>4, <1>5, <1>6, <1>7 DEF OnTypes, Interactions, Outcomes

\* The session in memory and the rows agree, in what SessionInv and EmitInv say.
LEMMA DiskSame ==
    ASSUME TypeInv, RecordInv
    PROVE  /\ disk \in Tasks /\ task \in Tasks /\ (Busy(disk) <=> Busy(task))
           /\ disk.status = task.status /\ disk.archived = task.archived
           /\ loaded => disk = task
BY HydratedIs DEF TypeInv, RecordInv, Hydrated, Busy, TypeOK

LEMMA KeptIds ==
    ASSUME NEW t \in Tasks, NEW u \in Tasks, Kept(t, u), NEW n,
           \A i \in DOMAIN t.turns : t.turns[i].id <= n
    PROVE  \A i \in DOMAIN u.turns : u.turns[i].id <= n
BY TurnsIs DEF Kept, Ends

\* The invariant when the runtimes, the worker and what was drawn are as they were.
LEMMA RunStays ==
    ASSUME RunInv, UNCHANGED <<worker, active, driver, used>>,
           worker.at \in {"replace", "launch"} =>
               channel'[worker.run] = <<>> /\ provider'[worker.run] = Unstarted
    PROVE  RunInv'
BY DEF RunInv

LEMMA ForwardOrderly ==
    ASSUME TypeInv, RecordInv, OrderlyInv, NEW r \in Runtimes, Forward(r)
    PROVE  OrderlyInv'
<1> DEFINE e == Head(channel[r])
           x == Reduce(disk, pending[r], e)
<1>1. /\ channel[r] # <<>> /\ Emit(r, e)
      /\ UNCHANGED <<provider, worker, active, driver, used, minted>>
      /\ channel' = [channel EXCEPT ![r] = Tail(@)]
  BY DEF Forward, runtime, drawn
<1>2. ChannelInv /\ RunInv /\ EmitInv /\ SessionInv
  BY DEF OrderlyInv
<1>3. /\ \A q \in Runtimes : ShapeOf(q)'
      /\ \A q \in Runtimes : On(q)' => On(q)
      /\ e.type \in OnTypes => On(r)
      /\ e.type \in OnTypes \cup {"connected", "exited"}
      /\ e.type \in Interactions => e.id # 0
      /\ e.type \in Outcomes \cup {"exited"} => ~On(r)'
      /\ e.type = "exited" => provider[r].at = "gone"
      /\ r \in used
  BY <1>1, <1>2, ForwardShape
<1>4. e \in Events /\ (\A q \in Runtimes : q # r => channel'[q] = channel[q])
  BY <1>1, TookFirst DEF TypeInv
<1>5. e.id \in 0..asked /\ e.type # "accepted"
  <2>1. channel[r] \in Seq(Events)
    BY DEF TypeInv, TypeOK
  <2>2. e = channel[r][1] /\ 1 \in DOMAIN channel[r]
    BY <1>1, <2>1, HeadTailProperties, EmptySeq, LenProperties
  <2>3. QED
    BY <2>2 DEF TypeInv, ChannelsOK
<1> HIDE DEF e
<1>6. /\ worker.at # "idle" => active = worker.run
      /\ worker.at \in {"replace", "launch"} => worker.run # r /\ worker.run \in Runtimes
  BY <1>1, <1>2 DEF RunInv, TypeInv, WorkerOK
<1>7. RunInv'
  BY <1>1, <1>2, <1>4, <1>6, RunStays DEF RunInv
<1>8. CASE active # r
  <2>1. UNCHANGED <<task, loaded, disk, pending>>
    BY <1>1, <1>8 DEF Emit, record
  <2>2. ChannelInv'
    BY <1>1, <1>2, <1>3, <1>4, <2>1 DEF ChannelInv, FreshOf
  <2>3. EmitInv'
    BY <1>1, <1>2, <2>1 DEF EmitInv, Running, Last, Known
  <2>4. Turning' = Turning /\ Unanswered' = Unanswered /\ Busy(task)' = Busy(task)
        /\ Running(task)' = Running(task) /\ \A q : Alive(q)' = Alive(q)
    BY <1>1, <2>1 DEF Turning, Unanswered, Busy, Running, Alive
  <2>5. SessionInv'
    <3>1. active \in Runtimes \cup {None} /\ (worker.at \in {"deliver", "end"} => worker.run \in Runtimes)
      BY DEF TypeInv, TypeOK, WorkerOK
    <3>2. (active # None /\ On(active)' => On(active))
          /\ (worker.at \in {"deliver", "end"} /\ On(worker.run)' => On(worker.run))
      BY <1>1, <1>3, <3>1 DEF On
    <3>3. active' # None /\ On(active)' => worker'.at = "end" \/ Turning'
      BY <1>1, <1>2, <2>4, <3>2 DEF SessionInv
    <3>4. worker'.at = "deliver" => ~On(worker.run)' /\ (Turning' \/ ~Alive(worker.run)')
      BY <1>1, <1>2, <2>4, <3>2 DEF SessionInv
    <3>5. worker'.at = "end" => (loaded' /\ ~Running(task)') \/ ~On(worker.run)'
      BY <1>1, <1>2, <2>1, <2>4, <3>2 DEF SessionInv
    <3>6. QED
      BY <1>1, <1>2, <2>1, <2>4, <3>3, <3>4, <3>5 DEF SessionInv, On
  <2>6. QED
    BY <1>7, <2>2, <2>3, <2>5 DEF OrderlyInv
<1>9. CASE active = r
  <2>0. x = Reduce(disk, pending[r], e) /\ r # None /\ r \in Runtimes /\ TypeInv /\ RecordInv
    BY TurnAssumption
  <2> HIDE DEF x
  <2>1. /\ task' \in Tasks /\ loaded' = TRUE /\ disk' = task' /\ x.task \in Tasks
        /\ task'.turns = x.task.turns /\ task'.status = x.task.status
        /\ task'.archived => disk.archived
        /\ pending'[r] = IF e.type = "exited" THEN Nothing ELSE x.pending
        /\ \A q \in Runtimes : q # r => pending'[q] = pending[q]
    <3>1. /\ Reduce(disk, pending[r], e).task \in Tasks
          /\ task' \in Tasks /\ loaded' = TRUE /\ disk' = task'
          /\ task'.turns = Reduce(disk, pending[r], e).task.turns
          /\ task'.status = Reduce(disk, pending[r], e).task.status
          /\ task'.archived => disk.archived
          /\ pending'[r] = IF e.type = "exited" THEN Nothing
                                              ELSE Reduce(disk, pending[r], e).pending
          /\ \A q \in Runtimes : q # r => pending'[q] = pending[q]
      BY <1>1, <1>4, <1>5, <1>9, EmitDoes
    <3>2. QED
      BY ONLY <2>0, <3>1
  <2>2. /\ disk \in Tasks /\ task \in Tasks /\ (Busy(disk) <=> Busy(task))
        /\ disk.status = task.status /\ disk.archived = task.archived
        /\ loaded => disk = task
    BY DiskSame
  <2>3. pending[r] \in [Interactions -> 0..asked] /\ asked \in Nat
        /\ pending[r] \in [Interactions -> Nat]
    <3>1. pending[r] \in [Interactions -> 0..asked] /\ asked \in 0..MaxAsks
      BY DEF TypeInv, TypeOK
    <3>2. asked \in Nat /\ 0..asked \subseteq Nat
      BY <3>1, TurnAssumption
    <3>3. QED
      BY <3>1, <3>2
  <2>4. Kept(disk, x.task)
    BY <1>4, <1>5, <2>0, <2>2, <2>3, ReduceIs DEF Reduced, Kept
  <2>5. Busy(disk) => Running(disk) /\ loaded /\ disk = task
    BY <1>2, <2>2 DEF SessionInv
  <2>6. worker.at # "idle" => worker.run = r
    BY <1>6, <1>9
  <2>7. e.type \in OnTypes /\ Running(disk) => Busy(disk)
    BY <1>2, <1>3, <1>9, <2>0, <2>2, <2>6 DEF SessionInv, Turning
  <2>8. \/ AsBefore(disk, pending[r], x) /\ e.type # "exited"
        \/ e.type = "exited" /\ ~Busy(disk) /\ x.task = disk
        \/ Onward(disk, pending[r], x) /\ e.type \in OnTypes
        \/ /\ Over(disk, x) /\ e.type \in Outcomes \cup {"exited"}
           /\ e.type # "exited" => x.pending = Nothing
    BY <1>3, <2>0, <2>2, <2>3, <2>5, <2>7, DriverEvent
  <2>9. ChannelInv'
    <3>1. ASSUME NEW q \in Runtimes PROVE FreshOf(q)'
      <4>1. CASE q = r
        BY <1>1, <1>3, <4>1 DEF FreshOf
      <4>2. CASE q # r
        BY <1>1, <1>2, <1>4, <2>1, <4>2 DEF ChannelInv, FreshOf
      <4>3. QED
        BY <4>1, <4>2
    <3>2. QED
      BY <1>3, <3>1 DEF ChannelInv
  <2>10. Running(task)' = Running(x.task) /\ Busy(task)' = Busy(x.task)
         /\ Running(disk)' = Running(x.task)
    BY <2>1 DEF Running, Busy
  <2>11. Unanswered' = (\E i \in Interactions : pending'[r][i] # 0)
    BY <1>1, <1>9, <2>0 DEF Unanswered
  <2>12. /\ Unanswered = (\E i \in Interactions : pending[r][i] # 0)
         /\ active # None /\ active' # None
    BY <1>1, <1>9, <2>0 DEF Unanswered
  <2>13. EmitInv'
    <3>1. \A i \in DOMAIN disk'.turns : disk'.turns[i].id <= minted'
      <4>1. \A i \in DOMAIN disk.turns : disk.turns[i].id <= minted
        BY <1>2 DEF EmitInv
      <4>2. \A i \in DOMAIN x.task.turns : x.task.turns[i].id <= minted
        BY <2>1, <2>2, <2>4, <4>1, KeptIds
      <4>3. QED
        BY <1>1, <2>1, <4>2
    <3>2. worker.at = "emit" => disk'.turns = disk.turns
      BY <1>2, <2>1, <2>2, <2>8 DEF SessionInv, AsBefore, Onward, Over
    <3>3. QED
      BY <1>1, <1>2, <2>1, <3>1, <3>2 DEF EmitInv, Running, Last, Known
  <2>14. CASE AsBefore(disk, pending[r], x) /\ e.type # "exited"
    <3>1. /\ Busy(task)' = Busy(task) /\ Running(task)' = Running(disk)
          /\ task'.status = "waiting" <=> task.status = "waiting"
          /\ Unanswered' = Unanswered
      BY <2>1, <2>2, <2>10, <2>11, <2>12, <2>14 DEF AsBefore, Running, Busy
    <3>2. Turning => Turning'
      BY <1>2, <2>2, <3>1 DEF Turning, SessionInv
    <3>3. worker.at = "deliver" => ~On(r)' /\ (Turning' \/ ~Alive(r)')
      BY <1>1, <1>2, <1>3, <2>6, <3>2 DEF SessionInv, Alive
    <3>4. worker.at = "end" => (loaded' /\ ~Running(task)') \/ ~On(r)'
      BY <1>1, <1>2, <1>3, <2>1, <2>2, <2>6, <3>1 DEF SessionInv
    <3>5. On(r)' => worker.at = "end" \/ Turning'
      BY <1>1, <1>2, <1>3, <1>9, <2>12, <3>2 DEF SessionInv
    <3>6. /\ Busy(task)' => loaded' /\ Running(task)'
          /\ worker.at \in {"replace", "launch", "install", "emit", "end"} => ~Busy(task)'
          /\ Unanswered' => Turning'
          /\ task'.status = "waiting" /\ worker.at \notin {"check", "settle"} => Unanswered'
          /\ task'.archived => ~Busy(task)'
      BY <1>2, <2>1, <2>2, <2>5, <3>1, <3>2 DEF SessionInv
    <3>7. SessionInv'
      BY <1>1, <1>9, <2>6, <3>3, <3>4, <3>5, <3>6 DEF SessionInv
    <3>8. QED
      BY <1>7, <2>9, <2>13, <3>7 DEF OrderlyInv
  <2>15. CASE e.type = "exited" /\ ~Busy(disk) /\ x.task = disk
    <3>1. ~Busy(task)' /\ ~Unanswered' /\ ~On(r)' /\ ~Alive(r)' /\ task'.status # "waiting"
      BY <1>1, <1>3, <2>1, <2>10, <2>11, <2>15 DEF Nothing, Alive, Busy
    <3>2. SessionInv'
      BY <1>1, <1>9, <2>6, <3>1 DEF SessionInv
    <3>3. QED
      BY <1>7, <2>9, <2>13, <3>2 DEF OrderlyInv
  <2>16. CASE Onward(disk, pending[r], x) /\ e.type \in OnTypes
    <3>1. /\ Busy(task) /\ Busy(task)' /\ Running(task)' /\ Turning' /\ On(r)
          /\ e.type # "exited"
      BY <1>3, <2>2, <2>10, <2>16 DEF Onward, Turning, OnTypes, Running
    <3>2. task'.status = "waiting" =>
              (task.status = "waiting" /\ Unanswered' = Unanswered) \/ Unanswered'
      BY <2>1, <2>2, <2>11, <2>12, <2>16, <3>1 DEF Onward
    <3>3. worker.at \notin {"replace", "launch", "install", "emit", "end", "deliver"}
      BY <1>2, <2>6, <3>1 DEF SessionInv
    <3>4. ~task.archived
      BY <1>2, <3>1 DEF SessionInv
    <3>5. SessionInv'
      BY <1>1, <1>2, <2>1, <2>2, <3>1, <3>2, <3>3, <3>4 DEF SessionInv
    <3>6. QED
      BY <1>7, <2>9, <2>13, <3>5 DEF OrderlyInv
  <2>17. CASE /\ Over(disk, x) /\ e.type \in Outcomes \cup {"exited"}
              /\ e.type # "exited" => x.pending = Nothing
    <3>1. ~Busy(task)' /\ ~Unanswered' /\ ~On(r)' /\ task'.status # "waiting"
      BY <1>3, <2>1, <2>10, <2>11, <2>17 DEF Nothing, Busy, Over
    <3>2. worker.at = "deliver" => ~Alive(r)'
      <4>1. e.type \in Outcomes => On(r)
        BY <1>3 DEF Outcomes, OnTypes
      <4>2. worker.at = "deliver" => e.type = "exited"
        BY <1>2, <2>6, <2>17, <4>1 DEF SessionInv
      <4>3. QED
        BY <1>1, <1>3, <4>2 DEF Alive
    <3>3. SessionInv'
      BY <1>1, <1>9, <2>6, <3>1, <3>2 DEF SessionInv
    <3>4. QED
      BY <1>7, <2>9, <2>13, <3>3 DEF OrderlyInv
  <2>18. QED
    BY <2>8, <2>14, <2>15, <2>16, <2>17
<1>10. QED
  BY <1>8, <1>9

\* The steps that leave the channels and the processes alone.
LEMMA ShapesStay ==
    ASSUME ChannelInv, UNCHANGED <<channel, provider>>, used \subseteq used',
           \A q \in Runtimes : q \notin used => pending'[q] = Nothing
    PROVE  ChannelInv' /\ \A q : (On(q)' <=> On(q)) /\ (Alive(q)' <=> Alive(q))
BY DEF ChannelInv, ShapeOf, FreshOf, On, Alive

LEMMA StartOrderly ==
    ASSUME Orderly, TypeInv, RecordInv, OrderlyInv, Start
    PROVE  OrderlyInv'
<1>0. /\ ChannelInv /\ RunInv /\ EmitInv /\ SessionInv /\ WorkerTypes
      /\ None \notin Runtimes
      /\ \A q \in Runtimes : q \notin used => pending[q] = Nothing
      /\ worker.at \notin {"idle", "rewind", "rewrite"} => worker.run \in Runtimes
  BY TypeParts, TurnAssumption DEF OrderlyInv, ChannelInv, FreshOf, TypeInv, WorkerOK
<1>1. ASSUME NEW r \in Runtimes, StartBegin(r) PROVE OrderlyInv'
  <2>1. /\ worker.at = "idle" /\ r \notin used /\ ~Running(task) /\ used' = used \cup {r}
        /\ active' = r /\ worker' = Doing("replace", r)
        /\ UNCHANGED <<driver, provider, channel, pending, task, loaded, disk, minted>>
    BY <1>1 DEF StartBegin, Orderly, record
  <2>2. worker'.at = "replace" /\ worker'.run = r
    BY <2>1 DEF Doing, Resting
  <2>3. channel[r] = <<>> /\ provider[r] = Unstarted /\ pending[r] = Nothing
    BY <1>0, <2>1 DEF ChannelInv, FreshOf
  <2>4. ~Busy(task) /\ ~Busy(task)' /\ ~On(r)
    <3>1. DOMAIN channel[r] = {}
      BY <2>3, EmptySeq, LenProperties
    <3>2. ~On(r)
      BY <2>3, <3>1 DEF On, Unstarted
    <3>3. QED
      BY <1>0, <2>1, <3>2 DEF SessionInv, Busy
  <2>5. ~Unanswered'
    BY <2>1, <2>3 DEF Unanswered, Nothing
  <2>6. ChannelInv' /\ ~On(r)'
    BY <1>0, <2>1, <2>4, ShapesStay
  <2>7. RunInv'
    BY <1>0, <2>1, <2>2, <2>3 DEF RunInv
  <2>8. EmitInv'
    BY <1>0, <2>1, <2>2 DEF EmitInv
  <2>9. SessionInv'
    BY <2>1, <2>2, <2>4, <2>5, <2>6 DEF SessionInv, Busy
  <2>10. QED
    BY <2>6, <2>7, <2>8, <2>9 DEF OrderlyInv
\* Behind the first step no turn runs and the runtime is silent.
<1>2. worker.at \in {"replace", "launch", "install"} =>
         ~Busy(task) /\ ~On(worker.run) /\ active = worker.run /\ worker.run \in used
  BY <1>0 DEF RunInv, SessionInv, Turning
<1>3. ASSUME StartReplace PROVE OrderlyInv'
  <2>1. /\ worker.at = "replace" /\ pending' = [r \in Runtimes |-> Nothing] /\ driver' = None
        /\ worker' = Go("launch")
        /\ UNCHANGED <<active, provider, channel, task, loaded, disk, used, minted>>
    BY <1>3 DEF StartReplace, record, drawn
  <2>2. worker'.at = "launch" /\ worker'.run = worker.run
    BY <1>0, <2>1 DEF Go, WorkerTypes, Workers
  <2>3. ChannelInv' /\ ~On(worker.run)'
    <3>1. ChannelInv' /\ \A q : On(q)' <=> On(q)
      BY <1>0, <2>1, ShapesStay
    <3>2. QED
      BY <1>2, <2>1, <2>2, <3>1 DEF On
  <2>4. ~Busy(task)' /\ ~Unanswered'
    BY <1>0, <1>2, <2>1 DEF Busy, Unanswered, Nothing
  <2>5. RunInv'
    BY <1>0, <2>1, <2>2 DEF RunInv
  <2>6. EmitInv'
    BY <1>0, <2>1, <2>2 DEF EmitInv
  <2>7. SessionInv'
    BY <1>2, <2>1, <2>2, <2>3, <2>4 DEF SessionInv, Busy, On
  <2>8. QED
    BY <2>3, <2>5, <2>6, <2>7 DEF OrderlyInv
<1>4. ASSUME StartLaunch PROVE OrderlyInv'
  <2>0. PICK r \in Runtimes : r = worker.run
    BY <1>0, <1>4 DEF StartLaunch
  <2>1. /\ worker.at = "launch" /\ worker' = Go("install")
        /\ provider' = [provider EXCEPT ![r] = [provider[r] EXCEPT !.at = "starting"]]
        /\ UNCHANGED <<active, driver, pending, channel, task, loaded, disk, used, minted>>
    BY <1>4, <2>0 DEF StartLaunch, record, drawn, runtime
  <2>2. worker'.at = "install" /\ worker'.run = r /\ r \in Runtimes
    BY <1>0, <2>0, <2>1 DEF Go, WorkerTypes, Workers
  <2>3. channel[r] = <<>> /\ provider[r] = Unstarted
    BY <1>0, <2>0, <2>1 DEF RunInv
  <2>4. /\ provider'[r].at = "starting" /\ provider'[r].prompts = 0
        /\ \A q \in Runtimes : q # r => provider'[q] = provider[q]
    BY <2>1, <2>2, <2>3 DEF TypeInv, TypeOK, Unstarted
  <2>5. DOMAIN channel'[r] = {}
    BY <2>1, <2>3, EmptySeq, LenProperties
  <2>6. ShapeOf(r)' /\ ~On(r)'
    BY <2>4, <2>5 DEF ShapeOf, On
  <2>7. ASSUME NEW q \in Runtimes PROVE ShapeOf(q)' /\ FreshOf(q)'
    <3>1. CASE q = r
      BY <1>2, <2>0, <2>1, <2>6, <3>1 DEF FreshOf
    <3>2. CASE q # r
      BY <1>0, <2>1, <2>4, <3>2 DEF ChannelInv, FreshOf, ShapeOf
    <3>3. QED
      BY <3>1, <3>2
  <2>8. RunInv'
    BY <1>0, <2>0, <2>1, <2>2 DEF RunInv
  <2>9. EmitInv'
    BY <1>0, <2>1, <2>2 DEF EmitInv
  <2>10. ~Busy(task)' /\ ~Unanswered'
    BY <1>0, <1>2, <2>1 DEF Busy, Unanswered, SessionInv, Turning
  <2>11. SessionInv'
    BY <1>2, <2>0, <2>1, <2>2, <2>6, <2>10 DEF SessionInv, Busy, On
  <2>12. QED
    BY <2>7, <2>8, <2>9, <2>11 DEF OrderlyInv, ChannelInv
<1>5. ASSUME StartInstall \/ StartFails PROVE OrderlyInv'
  <2>1. /\ worker.at \in {"launch", "install"} /\ worker' = Resting
        /\ (active' = active /\ driver' = worker.run) \/ (active' = None /\ driver' = driver)
        /\ UNCHANGED <<pending, channel, provider, task, loaded, disk, used, minted>>
    BY <1>5 DEF StartInstall, StartFails, record, drawn
  <2>2. worker'.at = "idle"
    BY <2>1 DEF Resting
  <2>3. ChannelInv' /\ (\A q : On(q)' <=> On(q))
    BY <1>0, <2>1, ShapesStay
  <2>4. ~Busy(task)' /\ ~Unanswered'
    BY <1>0, <1>2, <2>1 DEF Busy, Unanswered, SessionInv, Turning
  <2>5. RunInv'
    BY <1>0, <1>2, <2>1, <2>2 DEF RunInv
  <2>6. EmitInv'
    BY <1>0, <2>1, <2>2 DEF EmitInv
  <2>7. active' # None => ~On(active)'
    BY <1>2, <2>1, <2>3 DEF On
  <2>8. SessionInv'
    BY <2>2, <2>4, <2>7 DEF SessionInv, Busy
  <2>9. QED
    BY <2>3, <2>5, <2>6, <2>8 DEF OrderlyInv
<1>6. QED
  BY <1>1, <1>3, <1>4, <1>5 DEF Start

LEMMA AcceptOrderly ==
    ASSUME Orderly, TypeInv, RecordInv, OrderlyInv, NEW r \in Runtimes, PromptAccept(r)
    PROVE  OrderlyInv'
<1> DEFINE last == task.turns[Len(task.turns)]
           turn == Turn(minted + 1, NextCount(task), "running")
           accepted == [task EXCEPT !.turns = Append(@, turn)]
           W(t) == [Doing("emit", r) EXCEPT !.turn = t]
<1>0. /\ ChannelInv /\ RunInv /\ EmitInv /\ SessionInv
      /\ task \in Tasks /\ disk \in Tasks /\ loaded \in BOOLEAN /\ minted \in Nat
      /\ loaded => disk = task
      /\ r # None
  BY DiskSame, TurnAssumption DEF OrderlyInv, TypeInv, TypeOK
<1>1. /\ worker.at = "idle" /\ driver = r /\ ~Busy(task)
      /\ UNCHANGED <<active, driver, provider, channel, pending, loaded, used>>
  BY DEF PromptAccept, Orderly, runtime
<1>2. active = r /\ ~On(r) /\ ~Unanswered /\ (~loaded => task.turns = <<>>)
  BY <1>0, <1>1 DEF RunInv, SessionInv, Turning, EmitInv
<1>3. \A t : W(t).turn = t /\ W(t).run = r /\ W(t).at = "emit"
  BY DEF Doing, Resting
<1>4. ChannelInv' /\ ~On(r)'
  <2>1. \A q \in Runtimes : q \notin used => pending'[q] = Nothing
    BY <1>0, <1>1 DEF ChannelInv, FreshOf
  <2>2. QED
    BY <1>0, <1>1, <1>2, <2>1, ShapesStay
<1>5. /\ DOMAIN disk.turns = 1..Len(disk.turns) /\ Len(disk.turns) \in Nat
      /\ \A i \in DOMAIN disk.turns :
            disk.turns[i].id \in Nat /\ disk.turns[i].id <= minted
  <2>1. \A v \in Turns : v.id \in Nat
    BY TurnAssumption DEF Turns
  <2>2. \A i \in DOMAIN disk.turns : disk.turns[i].id <= minted
    BY <1>0 DEF EmitInv
  <2>3. QED
    BY <1>0, <2>1, <2>2, TurnsIs
<1>6. ASSUME NEW t, worker' = W(t), task'.status = task.status,
             \A i \in DOMAIN disk'.turns : disk'.turns[i].id <= minted',
             t.status = "running", t.id <= minted',
             (Running(disk') /\ Last(disk'.turns).id = t.id) \/ ~Known(disk', t)
      PROVE  OrderlyInv'
  <2> HIDE DEF W
  <2>1. worker'.at = "emit" /\ worker'.run = r /\ worker'.turn = t
    BY <1>3, <1>6
  <2>2. RunInv'
    BY <1>0, <1>1, <1>2, <2>1 DEF RunInv
  <2>3. EmitInv'
    BY <1>6, <2>1 DEF EmitInv, Running, Known
  <2>4. ~Busy(task)' /\ ~Unanswered' /\ task'.status # "waiting"
    BY <1>1, <1>2, <1>6 DEF Busy, Unanswered
  <2>5. active' = r
    BY <1>1, <1>2
  <2>6. ~On(active)'
    BY <1>4, <2>5 DEF On
  <2>7. SessionInv'
    BY <2>1, <2>4, <2>6 DEF SessionInv, Busy
  <2>8. QED
    BY <1>4, <2>2, <2>3, <2>7 DEF OrderlyInv
<1>7. CASE Joins(task)
  <2>1. worker' = W(last) /\ disk' = Saved(task, loaded) /\ task' = task /\ minted' = minted
    BY <1>7 DEF PromptAccept
  <2>2. task.turns # <<>> /\ last.status = "running"
    BY <1>7 DEF Joins, Running
  <2>3. loaded /\ disk = task /\ disk' = task
    BY <1>0, <1>2, <2>1, <2>2 DEF Saved
  <2>4. Len(task.turns) \in DOMAIN disk.turns
    BY <1>0, <1>5, <2>2, <2>3, TurnsIs
  <2>5. last.id <= minted
    BY <1>5, <2>3, <2>4
  <2>6. Running(disk') /\ Last(disk'.turns).id = last.id
    BY <1>7, <2>3 DEF Joins, Last, Running
  <2>7. \A i \in DOMAIN disk'.turns : disk'.turns[i].id <= minted'
    BY <1>5, <2>1, <2>3
  <2> HIDE DEF last, W
  <2>8. QED
    BY <1>6, <2>1, <2>2, <2>5, <2>6, <2>7
<1>8. CASE ~Joins(task)
  <2>1. /\ worker' = W(turn) /\ disk' = Saved(accepted, loaded) /\ task' = accepted
        /\ minted' = minted + 1 /\ minted < MaxTurns
    BY <1>8 DEF PromptAccept
  <2>2. turn \in Turns /\ turn.id = minted + 1 /\ turn.status = "running"
    BY <1>0, <2>1, TurnsIs, TurnAssumption DEF Turn, Turns, NextCount
  <2> HIDE DEF turn, W
  <2>3. accepted \in Tasks /\ accepted.turns = Append(task.turns, turn)
        /\ accepted.status = task.status
    BY <1>0, <2>2, AppendedIs
  <2> HIDE DEF accepted
  <2>4. CASE loaded
    <3>1. disk' = accepted /\ disk'.turns = Append(disk.turns, turn)
      BY <1>0, <2>1, <2>3, <2>4 DEF Saved
    <3>2. disk.turns \in Seq(Turns)
      BY <1>0, TurnsIs
    <3>3. /\ Len(disk'.turns) = Len(disk.turns) + 1
          /\ DOMAIN disk'.turns = 1..(Len(disk.turns) + 1)
          /\ disk'.turns[Len(disk.turns) + 1] = turn
          /\ \A i \in 1..Len(disk.turns) : disk'.turns[i] = disk.turns[i]
      BY <2>2, <3>1, <3>2, AppendProperties, LenProperties
    <3>4. \A i \in DOMAIN disk'.turns : disk'.turns[i].id <= minted'
      <4>1. ASSUME NEW i \in DOMAIN disk'.turns PROVE disk'.turns[i].id <= minted + 1
        <5>1. CASE i \in 1..Len(disk.turns)
          BY <1>0, <1>5, <3>3, <5>1
        <5>2. CASE i = Len(disk.turns) + 1
          BY <1>0, <2>2, <3>3, <5>2
        <5>3. QED
          BY <1>5, <3>3, <5>1, <5>2
      <4>2. QED
        BY <2>1, <4>1
    <3>5. disk'.turns # <<>>
      BY <1>5, <3>3, EmptySeq
    <3>6. Running(disk') /\ Last(disk'.turns).id = turn.id
      BY <2>2, <3>3, <3>5 DEF Running, Last
    <3>7. turn.id <= minted' /\ task'.status = task.status
      BY <1>0, <2>1, <2>2, <2>3
    <3>8. QED
      BY <1>6, <2>1, <2>2, <3>4, <3>6, <3>7
  <2>5. CASE ~loaded
    <3>1. disk'.turns = disk.turns
      BY <2>1, <2>3, <2>5 DEF Saved, Tasks
    <3>2. \A i \in DOMAIN disk'.turns : disk'.turns[i].id <= minted'
      BY <1>0, <1>5, <2>1, <3>1
    <3>3. ~Known(disk', turn)
      BY <1>0, <1>5, <2>2, <3>1 DEF Known
    <3>4. turn.id <= minted' /\ task'.status = task.status
      BY <1>0, <2>1, <2>2, <2>3
    <3>5. QED
      BY <1>6, <2>1, <2>2, <3>2, <3>3, <3>4
  <2>6. QED
    BY <1>0, <2>4, <2>5
<1>9. QED
  BY <1>7, <1>8

\* What a prompt that is told of makes of a session at rest.
LEMMA AcceptedDoes ==
    ASSUME NEW t \in Tasks, NEW p, NEW e, e.type = "accepted", e.turn \in Turns,
           e.turn.status = "running", ~Busy(t),
           (Running(t) /\ Last(t.turns).id = e.turn.id) \/ ~Known(t, e.turn), NEW n \in Nat,
           \A i \in DOMAIN t.turns : t.turns[i].id <= n, e.turn.id <= n,
           NEW x, x = Reduce(t, p, e)
    PROVE  /\ Running(x.task) /\ x.task.status = "connecting" /\ x.applied /\ x.pending = p
           /\ \A i \in DOMAIN x.task.turns : x.task.turns[i].id <= n
<1> DEFINE s == IF Known(t, e.turn) THEN t ELSE [t EXCEPT !.turns = Append(@, e.turn)]
           u == [s EXCEPT !.status = "connecting"]
<1>1. x = Result(IF Busy(s) THEN s ELSE u, p, TRUE)
  <2>1. x = ReduceAccepted(t, p, e.turn)
    BY DEF Reduce, Interactions
  <2>2. QED
    BY ONLY <2>1 DEF ReduceAccepted
<1>2. /\ s \in Tasks /\ s.status = t.status
      /\ s.turns = IF Known(t, e.turn) THEN t.turns ELSE Append(t.turns, e.turn)
  BY AppendedIs
<1>3. ~Busy(s)
  BY <1>2 DEF Busy
<1> HIDE DEF s
<1>4. u.turns = s.turns /\ u.status = "connecting"
  BY <1>2, StatusSet DEF Statuses
<1> HIDE DEF u
<1>5. x.task = u /\ x.pending = p /\ x.applied
  BY <1>1, <1>3 DEF Result
<1>6. CASE Known(t, e.turn)
  <2>1. s.turns = t.turns /\ Running(t)
    BY <1>2, <1>6
  <2>2. QED
    BY <1>4, <1>5, <2>1 DEF Running
<1>7. CASE ~Known(t, e.turn)
  <2>1. s.turns = Append(t.turns, e.turn)
    BY <1>2, <1>7
  <2>2. t.turns \in Seq(Turns) /\ Len(t.turns) \in Nat /\ DOMAIN t.turns = 1..Len(t.turns)
    BY TurnsIs
  <2>3. /\ Len(s.turns) = Len(t.turns) + 1 /\ s.turns[Len(t.turns) + 1] = e.turn
        /\ DOMAIN s.turns = 1..(Len(t.turns) + 1) /\ s.turns # <<>>
        /\ \A i \in 1..Len(t.turns) : s.turns[i] = t.turns[i]
    BY <2>1, <2>2, AppendProperties, LenProperties, EmptySeq
  <2>4. Running(u)
    BY <1>4, <2>3 DEF Running
  <2>5. ASSUME NEW i \in DOMAIN u.turns PROVE u.turns[i].id <= n
    <3>1. i \in 1..Len(t.turns) \/ i = Len(t.turns) + 1
      BY <1>4, <2>2, <2>3
    <3>2. QED
      BY <1>4, <2>2, <2>3, <3>1
  <2>6. QED
    BY <1>4, <1>5, <2>4, <2>5
<1>8. QED
  BY <1>6, <1>7

LEMMA EmitOrderly ==
    ASSUME TypeInv, RecordInv, OrderlyInv, PromptEmit
    PROVE  OrderlyInv'
<1>0. PICK r \in Runtimes : r = worker.run
  BY DEF PromptEmit, TypeInv, WorkerOK
<1> DEFINE e == Accepted(worker.turn)
           x == Reduce(disk, pending[r], e)
<1>1. /\ worker.at = "emit" /\ Emit(r, e) /\ worker' = Go("deliver")
      /\ UNCHANGED <<active, driver, provider, channel, used, minted, asked>>
  BY <1>0 DEF PromptEmit, runtime, drawn
<1>2. /\ ChannelInv /\ RunInv /\ EmitInv /\ SessionInv /\ WorkerTypes
      /\ active = r /\ r # None /\ worker.turn \in Turns /\ minted \in Nat
  BY <1>0, <1>1, TypeParts, TurnAssumption DEF OrderlyInv, RunInv, TypeInv, WorkerOK, TypeOK
<1>3. worker'.at = "deliver" /\ worker'.run = r
  BY <1>0, <1>1, <1>2 DEF Go, WorkerTypes, Workers
<1>4. /\ e \in Events /\ e.id \in 0..asked /\ e.type = "accepted" /\ e.turn = worker.turn
      /\ e.turn \in Turns
  <2>1. 0 \in 0..MaxAsks /\ 0 \in 0..asked
    BY TurnAssumption DEF TypeInv, TypeOK
  <2>2. QED
    BY <1>2, <2>1 DEF Accepted, Event, Events
<1>5. /\ disk \in Tasks /\ task \in Tasks /\ (Busy(disk) <=> Busy(task))
  BY DiskSame
<1> HIDE DEF e
<1>6. /\ loaded' = TRUE /\ disk' = task' /\ task' \in Tasks
      /\ task'.turns = x.task.turns /\ task'.status = x.task.status
      /\ task'.archived => disk.archived /\ ~(x.applied /\ Returns(e))
      /\ pending'[r] = x.pending
      /\ \A q \in Runtimes : q # r => pending'[q] = pending[q]
  BY <1>1, <1>2, <1>4, EmitDoes
<1>7. ~Busy(task) /\ e.turn.status = "running" /\ e.turn.id <= minted
      /\ ((Running(disk) /\ Last(disk.turns).id = e.turn.id) \/ ~Known(disk, e.turn))
      /\ (\A i \in DOMAIN disk.turns : disk.turns[i].id <= minted)
  BY <1>1, <1>2, <1>4 DEF EmitInv, SessionInv
<1>8. /\ Running(x.task) /\ x.task.status = "connecting" /\ x.applied /\ x.pending = pending[r]
      /\ \A i \in DOMAIN x.task.turns : x.task.turns[i].id <= minted
  BY <1>2, <1>4, <1>5, <1>7, AcceptedDoes
<1> HIDE DEF x
<1>9. Turning' /\ ~task'.archived /\ loaded' /\ task'.status = "connecting"
  BY <1>4, <1>6, <1>8 DEF Turning, Running, Busy, Returns, Tasks
<1>10. ~On(r) /\ ~On(r)' /\ ~On(active)'
  <2>1. ~On(r)
    BY <1>1, <1>2, <1>7 DEF SessionInv, Turning
  <2>2. QED
    BY <1>1, <1>2, <2>1 DEF On
<1>11. ChannelInv'
  <2>1. \A q \in Runtimes : q \notin used => pending'[q] = Nothing
    BY <1>2, <1>6, <1>8 DEF ChannelInv, FreshOf
  <2>2. QED
    BY <1>1, <1>2, <2>1, ShapesStay
<1>12. RunInv'
  BY <1>1, <1>2, <1>3 DEF RunInv
<1>13. EmitInv'
  BY <1>1, <1>3, <1>6, <1>8 DEF EmitInv
<1>14. SessionInv'
  BY <1>3, <1>9, <1>10 DEF SessionInv, Turning, On
<1>15. QED
  BY <1>11, <1>12, <1>13, <1>14 DEF OrderlyInv

LEMMA DeliverOrderly ==
    ASSUME TypeInv, RecordInv, OrderlyInv, PromptDeliver
    PROVE  OrderlyInv'
<1>0. PICK r \in Runtimes : r = worker.run
  BY DEF PromptDeliver, TypeInv, WorkerOK
<1>1. /\ worker.at = "deliver" /\ provider' = Given(r) /\ worker' = Resting
      /\ UNCHANGED <<active, driver, channel, pending, task, loaded, disk, used, minted>>
  BY <1>0 DEF PromptDeliver, runtime, record, drawn
<1>2. /\ ChannelInv /\ RunInv /\ EmitInv /\ SessionInv
      /\ active = r /\ r # None /\ r \in used /\ worker'.at = "idle"
      /\ provider \in [Runtimes -> Providers(asked)]
  BY <1>0, <1>1, TypeParts, TurnAssumption DEF OrderlyInv, RunInv, Resting, ProviderTypes
<1>3. ~On(r) /\ (Turning \/ ~Alive(r))
  BY <1>0, <1>1, <1>2 DEF SessionInv
<1>4. Turning' = Turning /\ Unanswered' = Unanswered /\ Busy(task)' = Busy(task)
      /\ Running(task)' = Running(task)
  BY <1>1 DEF Turning, Unanswered, Busy, Running
<1>5. RunInv'
  BY <1>1, <1>2 DEF RunInv
<1>6. EmitInv'
  BY <1>1, <1>2 DEF EmitInv
<1>7. CASE ~Alive(r)
  <2>1. provider' = provider
    BY <1>1, <1>7 DEF Given
  <2>2. ChannelInv' /\ ~On(r)'
    <3>1. \A q \in Runtimes : q \notin used => pending'[q] = Nothing
      BY <1>1, <1>2 DEF ChannelInv, FreshOf
    <3>2. QED
      BY <1>1, <1>2, <1>3, <2>1, <3>1, ShapesStay
  <2>3. ~On(active)'
    BY <1>1, <1>2, <2>2 DEF On
  <2>4. SessionInv'
    BY <1>1, <1>2, <1>4, <2>3 DEF SessionInv
  <2>5. QED
    BY <1>5, <1>6, <2>2, <2>4 DEF OrderlyInv
<1>8. CASE Alive(r)
  <2>1. /\ provider' = [provider EXCEPT ![r] = [provider[r] EXCEPT !.prompts = 1]]
        /\ provider[r] \in Providers(asked)
    BY <1>1, <1>2, <1>8 DEF Given
  <2>2. /\ provider'[r].prompts = 1 /\ provider'[r].at = provider[r].at
        /\ \A q \in Runtimes : q # r => provider'[q] = provider[q]
    BY <1>2, <2>1 DEF Providers
  <2>3. /\ \A i \in DOMAIN channel[r] : channel[r][i].type \notin OnTypes
        /\ provider[r].at \in {"starting", "ready"}
    BY <1>3, <1>8 DEF On, Alive
  <2>4. ShapeOf(r)'
    <3>1. ShapeOf(r)
      BY <1>2 DEF ChannelInv
    <3>2. \A i \in DOMAIN channel[r] : channel[r][i].type = "connected"
      BY <2>3, <3>1 DEF ShapeOf
    <3>3. QED
      BY <1>1, <2>2, <2>3, <3>2 DEF ShapeOf, Outcomes, Interactions
  <2>5. ASSUME NEW q \in Runtimes PROVE ShapeOf(q)' /\ FreshOf(q)'
    <3>1. CASE q = r
      BY <1>1, <1>2, <2>4, <3>1 DEF FreshOf
    <3>2. CASE q # r
      BY <1>1, <1>2, <2>2, <3>2 DEF ChannelInv, FreshOf, ShapeOf
    <3>3. QED
      BY <3>1, <3>2
  <2>6. SessionInv'
    BY <1>1, <1>2, <1>3, <1>4, <1>8 DEF SessionInv
  <2>7. QED
    BY <1>5, <1>6, <2>5, <2>6 DEF OrderlyInv, ChannelInv
<1>9. QED
  BY <1>7, <1>8

LEMMA PromptOrderly ==
    ASSUME Orderly, TypeInv, RecordInv, OrderlyInv, Prompt
    PROVE  OrderlyInv'
BY AcceptOrderly, EmitOrderly, DeliverOrderly DEF Prompt

LEMMA RespondOrderly ==
    ASSUME TypeInv, RecordInv, OrderlyInv, NEW r \in Runtimes, NEW id \in 1..asked,
           Respond(r, id)
    PROVE  OrderlyInv'
<1>1. /\ worker.at = "idle" /\ driver = r
      /\ provider' = [provider EXCEPT ![r] = [provider[r] EXCEPT !.asks = @ \ {id}]]
      /\ worker' = [Doing("resolve", r) EXCEPT !.ask = id]
      /\ UNCHANGED <<active, driver, channel, pending, task, loaded, disk, used, minted>>
  BY DEF Respond, runtime, record, drawn
<1>2. /\ ChannelInv /\ RunInv /\ EmitInv /\ SessionInv /\ provider[r] \in Providers(asked)
      /\ active = r /\ r # None /\ r \in used
      /\ provider \in [Runtimes -> Providers(asked)]
  BY <1>1, TypeParts, TurnAssumption DEF OrderlyInv, RunInv, ProviderTypes
<1>3. worker'.at = "resolve" /\ worker'.run = r /\ worker'.ask # 0
  <2>1. id # 0 /\ worker'.ask = id
    BY <1>1, TurnAssumption DEF Doing, Resting, TypeInv, TypeOK
  <2>2. QED
    BY <1>1, <2>1 DEF Doing, Resting
<1>4. /\ provider'[r].at = provider[r].at /\ provider'[r].prompts = provider[r].prompts
      /\ \A q \in Runtimes : q # r => provider'[q] = provider[q]
  BY <1>1, <1>2 DEF Providers
<1>5. ASSUME NEW q \in Runtimes
      PROVE  ShapeOf(q)' /\ FreshOf(q)' /\ (On(q)' <=> On(q)) /\ (Alive(q)' <=> Alive(q))
  <2>1. CASE q = r
    BY <1>1, <1>2, <1>4, <2>1 DEF ChannelInv, ShapeOf, FreshOf, On, Alive
  <2>2. CASE q # r
    BY <1>1, <1>2, <1>4, <2>2 DEF ChannelInv, ShapeOf, FreshOf, On, Alive
  <2>3. QED
    BY <2>1, <2>2
<1>6. RunInv'
  BY <1>1, <1>2, <1>3 DEF RunInv
<1>7. EmitInv'
  BY <1>1, <1>2, <1>3 DEF EmitInv
<1>8. Turning' = Turning /\ Unanswered' = Unanswered /\ Busy(task)' = Busy(task)
      /\ Running(task)' = Running(task)
  BY <1>1 DEF Turning, Unanswered, Busy, Running
<1>9. On(active)' <=> On(active)
  BY <1>1, <1>2, <1>5 DEF On
<1>10. SessionInv'
  BY <1>1, <1>2, <1>3, <1>8, <1>9 DEF SessionInv
<1>11. QED
  BY <1>5, <1>6, <1>7, <1>10 DEF OrderlyInv, ChannelInv

LEMMA ResolvedOrderly ==
    ASSUME TypeInv, RecordInv, OrderlyInv, RespondEmit
    PROVE  OrderlyInv'
<1>0. PICK r \in Runtimes : r = worker.run
  BY DEF RespondEmit, TypeInv, WorkerOK
<1> DEFINE e == Resolved(worker.ask)
           x == Reduce(disk, pending[r], e)
           p == pending[r]
           u == [disk EXCEPT !.status = "working"]
<1>1. /\ worker.at = "resolve" /\ Emit(r, e) /\ worker' = Resting
      /\ UNCHANGED <<active, driver, provider, channel, used, minted, asked>>
  BY <1>0 DEF RespondEmit, runtime, drawn
<1>2. /\ ChannelInv /\ RunInv /\ EmitInv /\ SessionInv
      /\ active = r /\ r # None /\ worker.ask # 0 /\ worker.ask \in 0..asked
      /\ asked \in 0..MaxAsks /\ worker'.at = "idle"
  BY <1>0, <1>1, TurnAssumption DEF OrderlyInv, RunInv, TypeInv, TypeOK, Resting
<1>3. /\ e \in Events /\ e.id \in 0..asked /\ e.type = "resolved" /\ e.id = worker.ask
      /\ e.type # "accepted" /\ e.type # "exited"
  <2>1. worker.ask \in 0..MaxAsks
    BY <1>2, TurnAssumption
  <2>2. QED
    BY <1>2, <2>1 DEF Resolved, Event, Events
<1>4. /\ disk \in Tasks /\ task \in Tasks /\ (Busy(disk) <=> Busy(task))
      /\ disk.status = task.status /\ disk.archived = task.archived
      /\ loaded => disk = task
  BY DiskSame
<1>5. x = IF \E i \in Interactions : p[i] = e.id
          THEN Result(u, [i \in Interactions |-> IF p[i] = e.id THEN 0 ELSE p[i]], TRUE)
          ELSE Result(disk, p, FALSE)
  <2>1. x = ReduceResolved(disk, p, e.id)
    BY <1>3 DEF Reduce, Interactions
  <2>2. QED
    BY ONLY <2>1 DEF ReduceResolved
<1>6. u.turns = disk.turns /\ u.status = "working"
  BY <1>4, StatusSet DEF Statuses
<1> HIDE DEF e, u
<1>7. /\ loaded' = TRUE /\ disk' = task' /\ task' \in Tasks
      /\ task'.turns = x.task.turns /\ task'.status = x.task.status
      /\ task'.archived => disk.archived
      /\ pending'[r] = x.pending
      /\ \A q \in Runtimes : q # r => pending'[q] = pending[q]
  BY <1>1, <1>2, <1>3, EmitDoes
<1> HIDE DEF x
<1>8. Unanswered = (\E i \in Interactions : p[i] # 0)
  BY <1>2 DEF Unanswered
<1>9. Unanswered' = (\E i \in Interactions : x.pending[i] # 0)
  BY <1>1, <1>2, <1>7 DEF Unanswered
<1> HIDE DEF p
<1>10. task'.turns = disk.turns
  BY <1>5, <1>6, <1>7 DEF Result
<1>11. ChannelInv' /\ (On(active)' <=> On(active))
  <2>1. \A q \in Runtimes : q \notin used => pending'[q] = Nothing
    BY <1>2, <1>7 DEF ChannelInv, FreshOf, RunInv
  <2>2. ChannelInv' /\ \A q : (On(q)' <=> On(q))
    BY <1>1, <1>2, <2>1, ShapesStay
  <2>3. QED
    BY <1>1, <2>2 DEF On
<1>12. RunInv'
  BY <1>1, <1>2 DEF RunInv
<1>13. EmitInv'
  BY <1>1, <1>2, <1>7, <1>10 DEF EmitInv
<1>14. CASE \E i \in Interactions : p[i] = e.id
  <2>1. Unanswered /\ Turning /\ loaded /\ disk = task /\ ~task.archived
    BY <1>2, <1>3, <1>4, <1>8, <1>14 DEF SessionInv, Turning
  <2>2. task'.status = "working"
    BY <1>5, <1>6, <1>7, <1>14 DEF Result
  <2>3. Turning' /\ ~task'.archived /\ Busy(task)'
    BY <1>7, <1>10, <2>1, <2>2 DEF Turning, Running, Busy, Tasks
  <2>4. SessionInv'
    BY <1>2, <1>7, <2>2, <2>3 DEF SessionInv, Turning
  <2>5. QED
    BY <1>11, <1>12, <1>13, <2>4 DEF OrderlyInv
<1>15. CASE ~\E i \in Interactions : p[i] = e.id
  <2>1. x.task = disk /\ x.pending = p
    BY <1>5, <1>15 DEF Result
  <2>2. Unanswered' = Unanswered /\ task'.status = task.status /\ (Busy(task)' <=> Busy(task))
    BY <1>4, <1>7, <1>8, <1>9, <2>1 DEF Busy
  <2>3. Busy(task) => loaded /\ Running(task)
    BY <1>2 DEF SessionInv
  <2>4. Busy(task)' => Running(task)'
    BY <1>4, <1>10, <2>2, <2>3 DEF Running
  <2>5. Turning => Turning'
    BY <2>2, <2>4 DEF Turning
  <2>6. task'.archived => task.archived
    BY <1>4, <1>7
  <2>7. SessionInv'
    BY <1>1, <1>2, <1>7, <1>11, <2>2, <2>4, <2>5, <2>6 DEF SessionInv
  <2>8. QED
    BY <1>11, <1>12, <1>13, <2>7 DEF OrderlyInv
<1>16. QED
  BY <1>14, <1>15

LEMMA AnswerOrderly ==
    ASSUME TypeInv, RecordInv, OrderlyInv, Answer
    PROVE  OrderlyInv'
BY RespondOrderly, ResolvedOrderly DEF Answer

LEMMA LetGoOrderly ==
    ASSUME TypeInv, OrderlyInv, NEW r \in Runtimes, CloseDriver(r)
    PROVE  OrderlyInv'
<1>1. /\ worker.at = "idle" /\ r \in used
      /\ pending' = [pending EXCEPT ![r] = Nothing]
      /\ driver' = IF driver = r THEN None ELSE driver
      /\ worker' = IF active = r THEN Doing("check", r) ELSE Resting
      /\ UNCHANGED <<active, provider, channel, task, loaded, disk, used, minted>>
  BY DEF CloseDriver, record, drawn
<1>2. /\ ChannelInv /\ RunInv /\ EmitInv /\ SessionInv /\ r # None
      /\ pending \in [Runtimes -> [Interactions -> 0..asked]]
      /\ active \in Runtimes \cup {None}
  BY TurnAssumption DEF OrderlyInv, TypeInv, TypeOK
<1>3. /\ active = r => worker'.at = "check" /\ worker'.run = r
      /\ active # r => worker'.at = "idle"
  BY <1>1 DEF Doing, Resting
<1>4. pending'[r] = Nothing /\ \A q \in Runtimes : q # r => pending'[q] = pending[q]
  BY <1>1, <1>2
<1>5. ChannelInv' /\ (On(active)' <=> On(active))
  <2>1. \A q \in Runtimes : q \notin used => pending'[q] = Nothing
    BY <1>2, <1>4 DEF ChannelInv, FreshOf
  <2>2. ChannelInv' /\ \A q : (On(q)' <=> On(q))
    BY <1>1, <1>2, <2>1, ShapesStay
  <2>3. QED
    BY <1>1, <2>2 DEF On
<1>6. RunInv'
  BY <1>1, <1>2, <1>3 DEF RunInv
<1>7. EmitInv'
  BY <1>1, <1>2, <1>3 DEF EmitInv
<1>8. Turning' = Turning /\ Busy(task)' = Busy(task) /\ Running(task)' = Running(task)
  BY <1>1 DEF Turning, Busy, Running
<1>9. /\ active = r => ~Unanswered'
      /\ active # r => Unanswered' = Unanswered
  BY <1>1, <1>2, <1>4 DEF Unanswered, Nothing
<1>10. SessionInv'
  BY <1>1, <1>2, <1>3, <1>5, <1>8, <1>9 DEF SessionInv
<1>11. QED
  BY <1>5, <1>6, <1>7, <1>10 DEF OrderlyInv

LEMMA CheckOrderly ==
    ASSUME TypeInv, OrderlyInv, CloseCheck
    PROVE  OrderlyInv'
<1>1. /\ worker.at = "check"
      /\ worker' = Go(IF Running(task) THEN "settle" ELSE "end")
      /\ UNCHANGED <<active, driver, provider, channel, pending, task, loaded, disk, used, minted>>
  BY DEF CloseCheck, HasActiveTurn, runtime, record, drawn
<1>2. /\ ChannelInv /\ RunInv /\ EmitInv /\ SessionInv /\ WorkerTypes
      /\ active = worker.run /\ worker.run \in Runtimes /\ active # None
  BY <1>1, TypeParts, TurnAssumption DEF OrderlyInv, RunInv, TypeInv, WorkerOK
<1>3. worker'.run = worker.run /\ worker'.at = IF Running(task) THEN "settle" ELSE "end"
  BY <1>1, <1>2 DEF Go, WorkerTypes, Workers
<1>4. ChannelInv' /\ (On(active)' <=> On(active))
  <2>1. \A q \in Runtimes : q \notin used => pending'[q] = Nothing
    BY <1>1, <1>2 DEF ChannelInv, FreshOf
  <2>2. ChannelInv' /\ \A q : (On(q)' <=> On(q))
    BY <1>1, <1>2, <2>1, ShapesStay
  <2>3. QED
    BY <1>1, <2>2 DEF On
<1>5. RunInv'
  BY <1>1, <1>2, <1>3 DEF RunInv
<1>6. EmitInv'
  BY <1>1, <1>2, <1>3 DEF EmitInv
<1>7. Turning' = Turning /\ Unanswered' = Unanswered /\ Busy(task)' = Busy(task)
      /\ Running(task)' = Running(task)
  BY <1>1 DEF Turning, Unanswered, Busy, Running
<1>8. worker'.at = "end" => ~On(active)' /\ ~Busy(task)' /\ ~Unanswered' /\ task'.status # "waiting"
  BY <1>1, <1>2, <1>3, <1>4, <1>7 DEF SessionInv, Turning, Busy
<1>9. active' = worker'.run
  BY <1>1, <1>2, <1>3
<1>10. On(active)' <=> On(worker.run)'
  BY <1>9, <1>3 DEF On
<1>11. SessionInv'
  BY <1>1, <1>2, <1>3, <1>4, <1>7, <1>8, <1>9 DEF SessionInv, On
<1>12. QED
  BY <1>4, <1>5, <1>6, <1>11 DEF OrderlyInv

LEMMA SettleOrderly ==
    ASSUME TypeInv, RecordInv, OrderlyInv, CloseSettle
    PROVE  OrderlyInv'
<1>0. PICK r \in Runtimes : r = worker.run
  BY DEF CloseSettle, TypeInv, WorkerOK
<1> DEFINE e == Plain("failed")
           x == Reduce(disk, pending[r], e)
<1>1. /\ worker.at = "settle" /\ Emit(r, e) /\ worker' = Go("end")
      /\ UNCHANGED <<active, driver, provider, channel, used, minted, asked>>
  BY <1>0 DEF CloseSettle, runtime, drawn
<1>2. /\ ChannelInv /\ RunInv /\ EmitInv /\ SessionInv /\ WorkerTypes
      /\ active = r /\ r # None /\ asked \in Nat
  BY <1>0, <1>1, TypeParts, TurnAssumption DEF OrderlyInv, RunInv, DrawnTypes
<1>3. worker'.at = "end" /\ worker'.run = r
  BY <1>0, <1>1, <1>2 DEF Go, WorkerTypes, Workers
<1>4. e \in Events /\ e.type = "failed" /\ e.id \in 0..asked
  BY <1>2, PlainIs
<1>5. /\ disk \in Tasks /\ task \in Tasks /\ (Busy(disk) <=> Busy(task))
      /\ disk.status = task.status /\ (loaded => disk = task)
  BY DiskSame
<1>6. x = ReduceFinished(disk, pending[r], "failed")
  BY <1>4 DEF Reduce, Interactions
<1> HIDE DEF e
<1>7. /\ loaded' = TRUE /\ disk' = task' /\ task' \in Tasks
      /\ task'.turns = x.task.turns /\ task'.status = x.task.status
      /\ pending'[r] = x.pending
      /\ \A q \in Runtimes : q # r => pending'[q] = pending[q]
  BY <1>1, <1>2, <1>4, EmitDoes
<1> HIDE DEF x
<1>8. x.task = Settled(disk)
  BY <1>6 DEF Settled, ReduceFinished, Result
<1>9. Busy(disk) => Running(disk)
  <2>1. Busy(disk) => loaded /\ Running(task) /\ disk = task
    BY <1>2, <1>5 DEF SessionInv
  <2>2. QED
    BY <2>1 DEF Running
<1>10. /\ Running(disk) => x.task.status = "failed" /\ x.pending = Nothing
       /\ ~Running(disk) => x.task = disk /\ x.pending = pending[r]
  <2>1. CASE Running(disk)
    <3>1. Finish(disk, "failed") \in Tasks
      BY <1>5, <2>1, FinishEnds DEF Outcomes
    <3>2. [Finish(disk, "failed") EXCEPT !.status = "failed"].status = "failed"
      BY <3>1, StatusSet DEF Statuses
    <3>3. QED
      BY <1>6, <2>1, <3>2 DEF ReduceFinished, Result
  <2>2. CASE ~Running(disk)
    BY <1>6, <2>2 DEF ReduceFinished, Result
  <2>3. QED
    BY <2>1, <2>2
<1>11. ~Running(task)' /\ ~Busy(task)' /\ task'.status # "waiting"
  BY <1>5, <1>7, <1>8, <1>9, <1>10, SettledRests DEF Running, Busy
<1>12. ~Unanswered'
  <2>1. Unanswered' = (\E i \in Interactions : x.pending[i] # 0)
    BY <1>1, <1>2, <1>7 DEF Unanswered
  <2>2. Unanswered = (\E i \in Interactions : pending[r][i] # 0)
    BY <1>2 DEF Unanswered
  <2>3. ~Running(disk) => ~Unanswered
    <3>1. Unanswered => loaded /\ Running(task) /\ disk = task
      BY <1>2, <1>5 DEF SessionInv, Turning
    <3>2. QED
      BY <3>1 DEF Running
  <2>4. QED
    BY <1>10, <2>1, <2>2, <2>3 DEF Nothing
<1>13. ChannelInv'
  <2>1. \A q \in Runtimes : q \notin used => pending'[q] = Nothing
    BY <1>2, <1>7 DEF ChannelInv, FreshOf, RunInv
  <2>2. QED
    BY <1>1, <1>2, <2>1, ShapesStay
<1>14. RunInv'
  BY <1>0, <1>1, <1>2, <1>3 DEF RunInv
<1>15. EmitInv'
  <2>1. Settled(disk) \in Tasks /\ Kept(disk, Settled(disk))
    BY <1>5, SettledIs, SettledRests
  <2>2. \A i \in DOMAIN disk.turns : disk.turns[i].id <= minted
    BY <1>2 DEF EmitInv
  <2>3. \A i \in DOMAIN Settled(disk).turns : Settled(disk).turns[i].id <= minted
    BY <1>5, <2>1, <2>2, KeptIds
  <2>4. QED
    BY <1>1, <1>3, <1>7, <1>8, <2>3 DEF EmitInv
<1>16. SessionInv'
  BY <1>3, <1>7, <1>11, <1>12 DEF SessionInv
<1>17. QED
  BY <1>13, <1>14, <1>15, <1>16 DEF OrderlyInv

LEMMA EndOrderly ==
    ASSUME TypeInv, OrderlyInv, CloseEnd
    PROVE  OrderlyInv'
<1>1. /\ worker.at = "end" /\ active' = None /\ worker' = Resting
      /\ pending' = [pending EXCEPT ![worker.run] = Nothing]
      /\ UNCHANGED <<driver, provider, channel, task, loaded, disk, used, minted>>
  BY DEF CloseEnd, record, drawn
<1>2. /\ ChannelInv /\ RunInv /\ EmitInv /\ SessionInv /\ driver = None
      /\ pending \in [Runtimes -> [Interactions -> 0..asked]]
  BY <1>1 DEF OrderlyInv, RunInv, TypeInv, TypeOK
<1>3. worker'.at = "idle"
  BY <1>1 DEF Resting
<1>4. ~Busy(task)' /\ ~Unanswered' /\ task'.status # "waiting"
  BY <1>1, <1>2 DEF SessionInv, Busy, Unanswered
<1>5. ChannelInv'
  <2>1. \A q \in Runtimes : q \notin used => pending'[q] = Nothing
    BY <1>1, <1>2 DEF ChannelInv, FreshOf
  <2>2. QED
    BY <1>1, <1>2, <2>1, ShapesStay
<1>6. RunInv'
  BY <1>1, <1>2, <1>3 DEF RunInv
<1>7. EmitInv'
  BY <1>1, <1>2, <1>3 DEF EmitInv
<1>8. SessionInv'
  BY <1>1, <1>3, <1>4 DEF SessionInv
<1>9. QED
  BY <1>5, <1>6, <1>7, <1>8 DEF OrderlyInv

LEMMA CloseOrderly ==
    ASSUME TypeInv, RecordInv, OrderlyInv, Close
    PROVE  OrderlyInv'
BY LetGoOrderly, CheckOrderly, SettleOrderly, EndOrderly DEF Close

LEMMA ArchiveOrderly ==
    ASSUME TypeInv, RecordInv, OrderlyInv, NEW archived \in BOOLEAN, Archive(archived)
    PROVE  OrderlyInv'
<1> DEFINE t == [task EXCEPT !.archived = archived]
<1>1. /\ archived => ~Busy(task)
      /\ task' = t /\ disk' = Saved(t, loaded)
      /\ UNCHANGED <<active, driver, provider, channel, pending, loaded, worker, used, minted>>
  BY DEF Archive, MayArchive, runtime, drawn
<1>2. /\ ChannelInv /\ RunInv /\ EmitInv /\ SessionInv /\ loaded \in BOOLEAN
      /\ disk \in Tasks /\ task \in Tasks /\ (loaded => disk = task)
  BY DiskSame DEF OrderlyInv, TypeInv, TypeOK
<1>3. t \in Tasks /\ t.turns = task.turns /\ t.status = task.status /\ t.archived = archived
  BY <1>2 DEF Tasks
<1> HIDE DEF t
<1>4. disk'.turns = disk.turns
  BY <1>1, <1>2, <1>3 DEF Saved, Tasks
<1>5. task'.turns = task.turns /\ task'.status = task.status /\ task'.archived = archived
  BY <1>1, <1>3
<1>6. /\ Running(task)' = Running(task) /\ Busy(task)' = Busy(task) /\ Turning' = Turning
      /\ Unanswered' = Unanswered /\ Running(disk)' = Running(disk)
  BY <1>1, <1>4, <1>5 DEF Running, Busy, Turning, Unanswered
<1>7. ChannelInv' /\ (\A q : (On(q)' <=> On(q)) /\ (Alive(q)' <=> Alive(q)))
  <2>1. \A q \in Runtimes : q \notin used => pending'[q] = Nothing
    BY <1>1, <1>2 DEF ChannelInv, FreshOf
  <2>2. QED
    BY <1>1, <1>2, <2>1, ShapesStay
<1>8. (On(active)' <=> On(active)) /\ (On(worker.run)' <=> On(worker.run))
      /\ (Alive(worker.run)' <=> Alive(worker.run))
  BY <1>1 DEF On, Alive
<1>9. RunInv'
  BY <1>1, <1>2 DEF RunInv
<1>10. EmitInv'
  BY <1>1, <1>2, <1>4, <1>5, <1>6 DEF EmitInv, Last, Known
<1>11. SessionInv'
  BY <1>1, <1>2, <1>5, <1>6, <1>8 DEF SessionInv
<1>12. QED
  BY <1>7, <1>9, <1>10, <1>11 DEF OrderlyInv

\* What a restart makes of the record.
LEMMA RestartRests ==
    ASSUME TypeInv, RecordInv, OrderlyInv, Restart
    PROVE  /\ ~Busy(task)' /\ task'.status # "waiting" /\ (~loaded' => task'.turns = <<>>)
           /\ \A i \in DOMAIN disk'.turns : disk'.turns[i].id <= minted
<1>1. /\ loaded' = Busy(disk)
      /\ task' = IF Busy(disk) THEN Settled(disk) ELSE [disk EXCEPT !.turns = <<>>]
      /\ disk' = IF Busy(disk) THEN Settled(disk) ELSE disk
      /\ disk \in Tasks /\ task \in Tasks
      /\ (Busy(disk) <=> Busy(task)) /\ (loaded => disk = task)
  BY RestartIs, DiskSame
<1>2. Busy(disk) => Running(disk)
  <2>1. Busy(disk) => loaded /\ Running(task) /\ disk = task
    BY <1>1 DEF OrderlyInv, SessionInv
  <2>2. QED
    BY <2>1 DEF Running
<1>3. \A i \in DOMAIN disk.turns : disk.turns[i].id <= minted
  BY DEF OrderlyInv, EmitInv
<1>4. CASE Busy(disk)
  <2>1. Finish(disk, "failed") \in Tasks
    BY <1>1, <1>2, <1>4, FinishEnds DEF Outcomes
  <2>2. [Finish(disk, "failed") EXCEPT !.status = "failed"].status = "failed"
    BY <2>1, StatusSet DEF Statuses
  <2>3. Settled(disk).status = "failed"
    BY <1>2, <1>4, <2>2 DEF Settled, ReduceFinished, Result
  <2>4. Settled(disk) \in Tasks /\ Kept(disk, Settled(disk))
    BY <1>1, SettledIs, SettledRests
  <2>5. \A i \in DOMAIN Settled(disk).turns : Settled(disk).turns[i].id <= minted
    BY <1>1, <1>3, <2>4, KeptIds
  <2>6. QED
    BY <1>1, <1>4, <2>3, <2>5 DEF Busy
<1>5. CASE ~Busy(disk)
  <2>1. task'.status = disk.status /\ task'.turns = <<>>
    BY <1>1, <1>5 DEF Tasks
  <2>2. QED
    BY <1>1, <1>3, <1>5, <2>1 DEF Busy
<1>6. QED
  BY <1>4, <1>5

LEMMA RestartOrderly ==
    ASSUME TypeInv, RecordInv, OrderlyInv, Restart
    PROVE  OrderlyInv'
<1>1. /\ active' = None /\ driver' = None /\ worker' = Resting
      /\ provider' = [r \in Runtimes |->
                         IF r \in used THEN [Unstarted EXCEPT !.at = "gone"] ELSE Unstarted]
      /\ channel' = [r \in Runtimes |-> <<>>] /\ pending' = [r \in Runtimes |-> Nothing]
      /\ used' = used /\ minted' = minted
  BY DEF Restart, drawn
<1>2. /\ ~Busy(task)' /\ task'.status # "waiting" /\ (~loaded' => task'.turns = <<>>)
      /\ \A i \in DOMAIN disk'.turns : disk'.turns[i].id <= minted
  BY RestartRests
<1>3. worker'.at = "idle"
  BY <1>1 DEF Resting
<1>4. ASSUME NEW r \in Runtimes PROVE ShapeOf(r)' /\ FreshOf(r)'
  <2>1. channel'[r] = <<>> /\ pending'[r] = Nothing /\ (r \notin used => provider'[r] = Unstarted)
        /\ provider'[r].prompts = 0
    BY <1>1 DEF Unstarted
  <2>2. DOMAIN channel'[r] = {}
    BY <2>1, EmptySeq, LenProperties
  <2>3. QED
    BY <1>1, <2>1, <2>2 DEF ShapeOf, FreshOf
<1>5. RunInv'
  BY <1>1, <1>3 DEF RunInv
<1>6. EmitInv'
  BY <1>1, <1>2, <1>3 DEF EmitInv
<1>7. SessionInv'
  BY <1>1, <1>2, <1>3 DEF SessionInv, Unanswered, Busy
<1>8. QED
  BY <1>4, <1>5, <1>6, <1>7 DEF OrderlyInv, ChannelInv

LEMMA OrderlyNext ==
    ASSUME Orderly, TypeInv, RecordInv, OrderlyInv, [Next]_vars
    PROVE  OrderlyInv'
<1>1. ~Rewind
  BY DEF Orderly, OrderlyInv, RunInv, Rewind, RewindRead, RewindFails, RewindDrop, RewindWrite
<1>2. CASE UNCHANGED vars
  <2>1. UNCHANGED <<active, driver, provider, channel, pending, task, loaded, disk, worker, used,
                    minted>>
    BY <1>2 DEF vars, runtime, record, drawn
  <2>2. ChannelInv' /\ RunInv'
    BY <2>1 DEF OrderlyInv, ChannelInv, RunInv, ShapeOf, FreshOf
  <2>3. EmitInv'
    BY <2>1 DEF OrderlyInv, EmitInv, Running, Last, Known
  <2>4. Turning' = Turning /\ Unanswered' = Unanswered /\ Busy(task)' = Busy(task)
        /\ Running(task)' = Running(task) /\ (On(active)' <=> On(active))
        /\ (On(worker.run)' <=> On(worker.run)) /\ (Alive(worker.run)' <=> Alive(worker.run))
    BY <2>1 DEF Turning, Unanswered, Busy, Running, On, Alive
  <2>5. SessionInv'
    BY <2>1, <2>4 DEF OrderlyInv, SessionInv
  <2>6. QED
    BY <2>2, <2>3, <2>5 DEF OrderlyInv
<1>3. CASE Next
  BY <1>1, <1>3, StartOrderly, PromptOrderly, AnswerOrderly, CloseOrderly, ArchiveOrderly,
     RestartOrderly, ForwardOrderly, ProcessOrderly DEF Next
<1>4. QED
  BY <1>2, <1>3

\* What clients are shown, for any number of runtimes, turns, requests and
\* restarts: a runtime that has a prompt has the turn, and one whose turn has
\* ended says nothing more of it.
THEOREM OrderlyTask ==
    ASSUME Orderly
    PROVE  Spec => []OrderlyInv
<1>1. Init => OrderlyInv
  BY OrderlyInit
<1>2. TypeInv /\ RecordInv /\ OrderlyInv /\ [Next]_vars => OrderlyInv'
  BY OrderlyNext
<1>3. QED
  BY <1>1, <1>2, TurnInvariant, PTL DEF Spec

\* StatusIsTrue (Reducer::apply and session_accepts_turn_output: a busy session
\* has a turn that runs, a waiting one a request that can be answered).
THEOREM StatusHolds ==
    ASSUME Orderly
    PROVE  Spec => []StatusIsTrue
<1>1. OrderlyInv => StatusIsTrue
  BY DEF OrderlyInv, SessionInv, StatusIsTrue, BusyHasTurn, WaitsForAnswer, Turning
<1>2. QED
  BY <1>1, OrderlyTask, PTL

\* ShelfIsQuiet (MayArchive and returns_an_archived_task: no task on the shelf is
\* at work or waits for its user).
THEOREM ShelfStaysQuiet ==
    ASSUME Orderly
    PROVE  Spec => []ShelfIsQuiet
<1>1. OrderlyInv => ShelfIsQuiet
  BY DEF OrderlyInv, SessionInv, ShelfIsQuiet
<1>2. QED
  BY <1>1, OrderlyTask, PTL

-----------------------------------------------------------------------------
(* The mark of the shelf *)

\* An event that brings a session back from the shelf makes it busy.
LEMMA ReturnsBusy ==
    ASSUME NEW t \in Tasks, NEW p, NEW e, Returns(e), e.type = "accepted" => e.turn \in Turns,
           NEW x, x = Reduce(t, p, e), x.applied
    PROVE  Busy(x.task)
<1>1. CASE e.type = "accepted"
  <2> DEFINE s == IF Known(t, e.turn) THEN t ELSE [t EXCEPT !.turns = Append(@, e.turn)]
             u == [s EXCEPT !.status = "connecting"]
  <2>1. x = ReduceAccepted(t, p, e.turn)
    BY <1>1 DEF Reduce, Interactions
  <2>2. x = Result(IF Busy(s) THEN s ELSE u, p, TRUE)
    BY ONLY <2>1 DEF ReduceAccepted
  <2>3. s \in Tasks
    BY <1>1, AppendedIs
  <2> HIDE DEF s
  <2>4. u.status = "connecting"
    BY <2>3, StatusSet DEF Statuses
  <2> HIDE DEF u
  <2>5. QED
    BY <2>2, <2>4 DEF Result, Busy
<1>2. CASE e.type = "started"
  <2>1. x = ReduceStarted(t, p)
    BY <1>2 DEF Reduce, Interactions
  <2>2. x.task = [t EXCEPT !.status = "working"]
    BY <2>1 DEF ReduceStarted, Result
  <2>3. x.task.status = "working"
    BY <2>2, StatusSet DEF Statuses
  <2>4. QED
    BY <2>3 DEF Busy
<1>3. CASE e.type \in Interactions
  <2>1. x = ReduceAsk(t, p, e.type, e.id)
    BY <1>3 DEF Reduce, Interactions
  <2>2. x.task = [t EXCEPT !.status = "waiting"]
    BY <2>1 DEF ReduceAsk, Result
  <2>3. x.task.status = "waiting"
    BY <2>2, StatusSet DEF Statuses
  <2>4. QED
    BY <2>3 DEF Busy
<1>4. QED
  BY <1>1, <1>2, <1>3 DEF Returns

LEMMA EmitShelf ==
    ASSUME TypeInv, NEW r \in Runtimes, NEW e \in Events, e.id \in 0..asked,
           e.type = "accepted" => e.turn \in Turns, Emit(r, e), task.archived, ~task'.archived
    PROVE  Busy(task') \/ task'.status = "failed"
<1> DEFINE h == Hydrated
           x == Reduce(h, pending[r], e)
<1>1. TypeOK /\ h \in Tasks /\ h.archived = task.archived
  BY HydratedIs DEF TypeInv
<1>2. active = r
  BY DEF Emit, record
<1>3. task'.status = x.task.status /\ Reduced(h, pending[r], asked, e, x)
  BY <1>1, <1>2, EmitIs
<1>4. task' = Unarchived(h, x, e)
  BY <1>2 DEF Emit
<1>5. x = Reduce(h, pending[r], e)
  OBVIOUS
<1> HIDE DEF x, h
<1>6. x.task.archived
  BY <1>1, <1>3 DEF Reduced
<1>7. x.applied /\ (Returns(e) \/ x.task.status = "failed")
  BY <1>4, <1>6 DEF Unarchived
<1>8. Returns(e) => Busy(x.task)
  BY <1>1, <1>5, <1>7, ReturnsBusy
<1>9. QED
  BY <1>3, <1>7, <1>8 DEF Busy

\* No message is edited.
Unedited == worker.at \notin {"rewind", "rewrite"}

LEMMA UneditedNext ==
    ASSUME "rewind" \notin May, TypeInv, Unedited, [Next]_vars
    PROVE  Unedited'
<1>1. WorkerTypes /\ \A at : Go(at).at = at
  BY TypeParts DEF Go, WorkerTypes, Workers
<1>2. \A at, r : Doing(at, r).at = at /\ Resting.at = "idle"
  BY DEF Doing, Resting
<1>3. ASSUME Start PROVE Unedited'
  BY <1>1, <1>2, <1>3 DEF Start, StartBegin, StartReplace, StartLaunch, StartInstall, StartFails,
     Unedited
<1>4. ASSUME Prompt PROVE Unedited'
  <2>1. ASSUME NEW r \in Runtimes, PromptAccept(r) PROVE Unedited'
    <3>1. \A t : [Doing("emit", r) EXCEPT !.turn = t].at = "emit"
      BY DEF Doing, Resting
    <3>2. \E t : worker' = [Doing("emit", r) EXCEPT !.turn = t]
      BY <2>1 DEF PromptAccept
    <3>3. QED
      BY <3>1, <3>2 DEF Unedited
  <2>2. QED
    BY <1>1, <1>2, <1>4, <2>1 DEF Prompt, PromptEmit, PromptDeliver, Unedited
<1>5. ASSUME Answer PROVE Unedited'
  <2>1. \A r, id : [Doing("resolve", r) EXCEPT !.ask = id].at = "resolve"
    BY DEF Doing, Resting
  <2>2. \/ worker' = Resting
        \/ \E r, id : worker' = [Doing("resolve", r) EXCEPT !.ask = id]
    BY <1>5 DEF Answer, Respond, RespondEmit
  <2>3. QED
    BY <1>2, <2>1, <2>2 DEF Unedited
<1>6. ASSUME Close PROVE Unedited'
  BY <1>1, <1>2, <1>6 DEF Close, CloseDriver, CloseCheck, CloseSettle, CloseEnd, Unedited
<1>7. ~Rewind
  BY DEF Rewind, RewindRead, RewindFails, RewindDrop, RewindWrite, Unedited
<1>8. ASSUME NEW archived \in BOOLEAN, Archive(archived) PROVE Unedited'
  BY <1>8 DEF Archive, Unedited
<1>9. ASSUME Restart PROVE Unedited'
  BY <1>2, <1>9 DEF Restart, Unedited
<1>10. ASSUME NEW r \in Runtimes, Forward(r) \/ Process(r) PROVE Unedited'
  BY <1>10 DEF Forward, Process, Connect, TakePrompt, Output, Ask, EndTurn, ReportError, Exit,
     Outside, Unedited
<1>11. CASE UNCHANGED vars
  BY <1>11 DEF vars, Unedited
<1>12. QED
  BY <1>3, <1>4, <1>5, <1>6, <1>7, <1>8, <1>9, <1>10, <1>11 DEF Next

LEMMA ShelfStep ==
    ASSUME "rewind" \notin May, TypeInv, RecordInv, Unedited, [Next]_vars,
           task.archived, ~task'.archived
    PROVE  Archive(FALSE) \/ Busy(task') \/ task'.status = "failed"
<1>0. asked \in Nat /\ 0 \in 0..asked /\ disk \in Tasks /\ task \in Tasks
  BY TurnAssumption DEF TypeInv, TypeOK
<1>1. task' # task
  OBVIOUS
<1>2. ASSUME NEW r \in Runtimes, Forward(r)
      PROVE  Busy(task') \/ task'.status = "failed"
  <2> DEFINE e == Head(channel[r])
  <2>1. channel[r] # <<>> /\ Emit(r, e)
    BY <1>2 DEF Forward
  <2>2. channel[r] \in Seq(Events) /\ 1 \in DOMAIN channel[r] /\ e = channel[r][1] /\ e \in Events
    <3>1. channel[r] \in Seq(Events)
      BY DEF TypeInv, TypeOK
    <3>2. QED
      BY <2>1, <3>1, HeadTailProperties, EmptySeq, LenProperties
  <2>3. e.type # "accepted" /\ e.id \in 0..asked
    BY <2>2 DEF TypeInv, ChannelsOK
  <2> HIDE DEF e
  <2>4. QED
    BY <2>1, <2>2, <2>3, EmitShelf
<1>3. ASSUME PromptEmit PROVE Busy(task') \/ task'.status = "failed"
  <2> DEFINE e == Accepted(worker.turn)
  <2>1. worker.run \in Runtimes /\ worker.turn \in Turns /\ Emit(worker.run, e)
    BY <1>3 DEF PromptEmit, TypeInv, WorkerOK
  <2>2. e \in Events /\ e.id \in 0..asked /\ e.turn \in Turns
    BY <1>0, <2>1, TurnAssumption DEF Accepted, Event, Events
  <2> HIDE DEF e
  <2>3. QED
    BY <2>1, <2>2, EmitShelf
<1>4. ASSUME RespondEmit PROVE Busy(task') \/ task'.status = "failed"
  <2> DEFINE e == Resolved(worker.ask)
  <2>1. worker.run \in Runtimes /\ worker.ask \in 0..asked /\ Emit(worker.run, e)
    BY <1>4 DEF RespondEmit, TypeInv, TypeOK, WorkerOK
  <2>2. worker.ask \in 0..MaxAsks
    BY <2>1, TurnAssumption DEF TypeInv, TypeOK
  <2>3. e \in Events /\ e.id \in 0..asked /\ e.type # "accepted"
    BY <2>1, <2>2 DEF Resolved, Event, Events
  <2> HIDE DEF e
  <2>4. QED
    BY <2>1, <2>3, EmitShelf
<1>5. ASSUME CloseSettle PROVE Busy(task') \/ task'.status = "failed"
  <2> DEFINE e == Plain("failed")
  <2>1. worker.run \in Runtimes /\ Emit(worker.run, e)
    BY <1>5 DEF CloseSettle, TypeInv, WorkerOK
  <2>2. e \in Events /\ e.id \in 0..asked /\ e.type # "accepted"
    BY <1>0, PlainIs
  <2> HIDE DEF e
  <2>3. QED
    BY <2>1, <2>2, EmitShelf
<1>6. ~Restart
  <2>1. ASSUME Restart PROVE task'.archived = task.archived
    <3>1. /\ task' = IF Busy(disk) THEN Settled(disk) ELSE [disk EXCEPT !.turns = <<>>]
          /\ disk.archived = task.archived
      BY <2>1, RestartIs, DiskSame
    <3>2. Settled(disk).archived = disk.archived
      BY <1>0, SettledIs
    <3>3. [disk EXCEPT !.turns = <<>>].archived = disk.archived
      BY <1>0 DEF Tasks
    <3>4. QED
      BY <3>1, <3>2, <3>3
  <2>2. QED
    BY <2>1
<1>7. ASSUME NEW archived \in BOOLEAN, Archive(archived) PROVE archived = FALSE
  <2>1. task'.archived = archived
    BY <1>0, <1>7 DEF Archive, Tasks
  <2>2. QED
    BY <2>1
<1>8. ASSUME NEW r \in Runtimes PROVE ~PromptAccept(r)
  <2>1. ASSUME PromptAccept(r) PROVE task'.archived = task.archived
    <3>1. task' = task \/ \E t : task' = [task EXCEPT !.turns = t]
      BY <2>1 DEF PromptAccept
    <3>2. QED
      BY <1>0, <3>1 DEF Tasks
  <2>2. QED
    BY <2>1
<1>9. ~Start
  BY <1>1 DEF Start, StartBegin, StartReplace, StartLaunch, StartInstall, StartFails, record
<1>10. ~PromptDeliver /\ \A r \in Runtimes, id \in 1..asked : ~Respond(r, id)
  BY <1>1 DEF PromptDeliver, Respond, record
<1>11. ~CloseCheck /\ ~CloseEnd /\ \A r \in Runtimes : ~CloseDriver(r)
  BY <1>1 DEF CloseCheck, CloseEnd, CloseDriver, record
<1>12. ~Rewind
  BY DEF Rewind, RewindRead, RewindFails, RewindDrop, RewindWrite, Unedited
<1>13. \A r \in Runtimes : ~Process(r)
  BY <1>1 DEF Process, Connect, TakePrompt, Output, Ask, EndTurn, ReportError, Exit, Outside, record
<1>14. ~UNCHANGED vars
  BY <1>1 DEF vars, record
<1>15. QED
  BY <1>2, <1>3, <1>4, <1>5, <1>6, <1>7, <1>8, <1>9, <1>10, <1>11, <1>12, <1>13, <1>14
     DEF Next, Prompt, Answer, Close

\* ShelfMarkStays (returns_an_archived_task and settle_orphaned_turns), whatever
\* else clients and providers do, as long as no message is edited.
THEOREM ShelfMarkHolds ==
    ASSUME "rewind" \notin May
    PROVE  Spec => ShelfMarkStays
<1> DEFINE A == task.archived /\ ~task'.archived =>
                    Archive(FALSE) \/ Busy(task') \/ task'.status = "failed"
<1>1. Init => Unedited
  BY DEF Init, Resting, Unedited
<1>2. TypeInv /\ RecordInv /\ Unedited /\ [Next]_vars => Unedited'
  BY UneditedNext
<1>3. TypeInv /\ RecordInv /\ Unedited /\ [Next]_vars => [A]_vars
  BY ShelfStep
<1> HIDE DEF A
<1>4. Spec => [][A]_vars
  BY <1>1, <1>2, <1>3, TurnInvariant, PTL DEF Spec
<1>5. QED
  BY <1>4 DEF ShelfMarkStays, A

=============================================================================
