--------------------------- MODULE EventHubProofs ---------------------------
(***************************************************************************)
(* Proofs about the event hub, for every set of sessions, runtimes and     *)
(* connections and every replay limit.                                     *)
(***************************************************************************)
EXTENDS EventHub, TLAPS, SequenceTheorems

-----------------------------------------------------------------------------
(* The journal and its replay *)

\* What a subscriber is replayed from the contiguous newest tail of n events:
\* numbers up to n, in increasing order, with every one after its cursor either
\* there or below the announced gap.
LEMMA ReplayOfTail ==
    ASSUME NEW n \in Nat, NEW k \in 0..n, NEW cursor \in Nat, NEW entries,
           entries = [i \in 1..k |-> n - k + i]
    PROVE  /\ Replay(entries, cursor) \in Seq(Nat)
           /\ Missed(entries, cursor) \in Nat
           /\ k = 0 => Replay(entries, cursor) = <<>>
           /\ Missed(entries, cursor) <= n
           /\ \A i \in DOMAIN Replay(entries, cursor) :
                 Replay(entries, cursor)[i] \in 1..n
           /\ k # 0 => \A m \in 1..n :
                 \/ m <= cursor
                 \/ \E i \in DOMAIN Replay(entries, cursor) :
                       Replay(entries, cursor)[i] = m
                 \/ m <= Missed(entries, cursor) - 1
           /\ \A j \in DOMAIN Replay(entries, cursor) : \A i \in 1..(j - 1) :
                 Replay(entries, cursor)[i] < Replay(entries, cursor)[j]
<1>1. /\ entries \in Seq(Nat)
      /\ Len(entries) = k
      /\ \A i \in 1..k : entries[i] = n - k + i
  <2>1. \A i \in 1..k : n - k + i \in Nat
    OBVIOUS
  <2>2. QED
    BY <2>1, IsASeq
<1>2. /\ entries # <<>> <=> k # 0
      /\ k # 0 => Head(entries) = n - k + 1
  BY <1>1, HeadTailProperties, EmptySeq
<1>3. PICK seen \in 0..k :
          /\ seen = SeenPrefix(entries, cursor)
          /\ \A i \in 1..k : entries[i] <= cursor <=> i <= seen
  <2> DEFINE w == IF cursor <= n - k THEN 0
                  ELSE IF cursor >= n THEN k ELSE cursor - (n - k)
  <2>1. w \in 0..k /\ \A i \in 1..k : entries[i] <= cursor <=> i <= w
    BY <1>1
  <2>2. QED
    BY <2>1, <1>1 DEF SeenPrefix
<1>4. PICK left \in Nat : left = k - seen
  OBVIOUS
<1> DEFINE sent == [i \in 1..left |-> n - k + seen + i]
<1>5. Replay(entries, cursor) = sent
  <2>1. \A i \in 1..left : seen + i \in 1..k
    BY <1>4
  <2>2. \A i \in 1..left : entries[seen + i] = n - k + seen + i
    BY <1>1, <1>4, <2>1
  <2>3. [i \in 1..left |-> entries[seen + i]] = sent
    BY <2>2
  <2>4. Replay(entries, cursor) = [i \in 1..left |-> entries[seen + i]]
    BY <1>1, <1>3, <1>4 DEF Replay
  <2>5. QED
    BY <2>3, <2>4
<1>6. /\ DOMAIN sent = 1..left
      /\ \A i \in 1..left : sent[i] = n - k + seen + i
      /\ sent \in Seq(Nat)
      /\ k = 0 => sent = <<>>
  <2>1. \A i \in 1..left : n - k + seen + i \in Nat
    OBVIOUS
  <2>2. sent \in Seq(Nat)
    BY <2>1, IsASeq
  <2>3. Len(sent) = left
    BY <2>2, LenProperties
  <2>4. k = 0 => sent = <<>>
    BY <1>4, <2>2, <2>3, EmptySeq
  <2>5. QED
    BY <2>2, <2>4
<1> HIDE DEF sent
<1>7. Missed(entries, cursor)
          = IF k # 0 /\ n - k + 1 > cursor + 1 THEN n - k + 1 ELSE 0
  BY <1>2 DEF Missed
<1>8. ASSUME k # 0, NEW m \in 1..n, m > cursor
      PROVE  (\E i \in DOMAIN sent : sent[i] = m) \/ m <= Missed(entries, cursor) - 1
  <2>1. CASE m > n - k
    <3>1. m - (n - k) \in 1..k /\ entries[m - (n - k)] = m
      BY <1>1, <2>1
    <3>2. m - (n - k) > seen
      BY <1>3, <1>8, <3>1
    <3>3. PICK i \in 1..left : i = m - (n - k) - seen
      BY <1>4, <3>1, <3>2
    <3>4. sent[i] = m
      BY <1>6, <3>3
    <3>5. QED
      BY <1>6, <3>3, <3>4
  <2>2. CASE m <= n - k
    BY <1>7, <1>8, <2>2
  <2>3. QED
    BY <2>1, <2>2
<1>9. /\ \A i \in DOMAIN sent : sent[i] \in 1..n
      /\ \A j \in DOMAIN sent : \A i \in 1..(j - 1) : sent[i] < sent[j]
  BY <1>4, <1>6
<1>10. Missed(entries, cursor) \in Nat /\ Missed(entries, cursor) <= n
  BY <1>7
<1>11. k # 0 => \A m \in 1..n :
           \/ m <= cursor
           \/ \E i \in DOMAIN sent : sent[i] = m
           \/ m <= Missed(entries, cursor) - 1
  <2>1. \A m \in 1..n : m <= cursor \/ m > cursor
    OBVIOUS
  <2>2. QED
    BY <1>8, <2>1
<1>12. QED
  BY <1>5, <1>6, <1>9, <1>10, <1>11, Zenon
-----------------------------------------------------------------------------
(* The hub's own state *)

LEMMA InitHub == ASSUME HubAssumption, Init PROVE HubInv
<1> USE DEF Init
<1>1. TypeOK
  BY EmptySeq DEF HubAssumption, TypeOK, TaskStates, Idle, Doing, Threads
<1>2. TasksNameRuntimes /\ OneDelivery /\ ReducedKeepsUp
  BY DEF HubAssumption, TasksNameRuntimes, OneDelivery, ReducedKeepsUp, Emitting,
         Idle, Doing, Threads, IsActive
<1>3. FreshIsBlank /\ OnlyActiveRuntimeHasState
  BY DEF HubAssumption, FreshIsBlank, OnlyActiveRuntimeHasState, Emitting, Idle,
         Doing, Threads, IsActive
<1>4. JournalIsNewestTail
  <2>1. \A r \in Runtimes : Kept(r) = 0
    BY DEF Kept, HubAssumption
  <2>2. QED
    BY <2>1 DEF JournalIsNewestTail
<1>5. QED
  BY <1>1, <1>2, <1>3, <1>4 DEF HubInv

\* An emission's first step only makes the lock exist.
LEMMA EmitEnterHub ==
    ASSUME HubAssumption, HubInv, NEW t \in Threads, NEW r \in Runtimes, EmitEnter(t, r)
    PROVE  HubInv'
<1> USE DEF HubInv, EmitEnter
<1>1. TypeOK'
  BY DEF TypeOK, TaskStates, Doing, sinks, catalog
<1>2. /\ task[t].at = "idle"
      /\ \A u \in Threads : u # t => task'[u] = task[u]
      /\ task'[t] = Doing("enter", r, 0)
  BY DEF TypeOK, Idle, Doing
<1>3. \A u \in Threads, q \in Runtimes : Emitting(u, q)' <=> Emitting(u, q)
  BY <1>2 DEF Emitting, Doing
<1>4. \A q \in Runtimes : IsActive(q)' <=> IsActive(q)
  BY DEF IsActive
<1>5. TasksNameRuntimes'
  BY <1>2 DEF TasksNameRuntimes, Doing, Replayable
<1>6. OneDelivery'
  BY <1>2, <1>3, <1>4 DEF OneDelivery, Emitting, Doing
<1>7. FreshIsBlank'
  <2>1. \A q \in Runtimes : Fresh(q)' => Fresh(q)
    BY <1>2 DEF Fresh, Doing, Threads
  <2>2. QED
    BY <1>3, <1>4, <2>1 DEF FreshIsBlank
<1>8. ReducedKeepsUp'
  BY <1>2, <1>4 DEF ReducedKeepsUp, Doing
<1>9. JournalIsNewestTail' /\ OnlyActiveRuntimeHasState'
  BY <1>4 DEF JournalIsNewestTail, Kept, OnlyActiveRuntimeHasState
<1>10. QED
  BY <1>1, <1>5, <1>6, <1>7, <1>8, <1>9

\* Numbering and journaling, under the event lock.
LEMMA EmitSequenceHub ==
    ASSUME HubAssumption, HubInv, NEW t \in Threads, EmitSequence(t)
    PROVE  HubInv'
<1> USE DEF HubInv
<1>1. PICK r \in Runtimes :
          /\ r = task[t].run /\ task[t].at = "enter"
          /\ EventLockFree(r) /\ IsActive(r)
          /\ nextSeq' = [nextSeq EXCEPT ![r] = nextSeq[r] + 1]
          /\ journal' = IF Replayable(r)
                        THEN [journal EXCEPT ![r] = Retain(Append(journal[r], nextSeq[r] + 1))]
                        ELSE journal
  BY DEF EmitSequence, TasksNameRuntimes
<1>2. /\ UNCHANGED <<active, locks, sinks, catalog, begun, reduced>>
      /\ \A u \in Threads : u # t => task'[u] = task[u]
      /\ task'[t].run = r /\ task'[t].seq = nextSeq[r] + 1 /\ task'[t].lock = None
      /\ task'[t].at = IF Replayable(r) THEN "reduce" ELSE "broadcast"
  BY <1>1 DEF EmitSequence, TypeOK, Doing
<1>3. nextSeq[r] \in Nat /\ journal[r] \in Seq(Nat) /\ Len(journal[r]) <= ReplayLimit
  BY DEF TypeOK
<1>4. \A q \in Runtimes : IsActive(q)' <=> IsActive(q)
  BY <1>2 DEF IsActive
<1>5. \A u \in Threads, q \in Runtimes :
          Emitting(u, q)' <=> Emitting(u, q) \/ (u = t /\ q = r)
  BY <1>1, <1>2 DEF Emitting
<1>6. journal'[r] = [i \in 1..Kept(r)' |-> nextSeq'[r] - Kept(r)' + i]
      /\ journal'[r] \in Seq(Nat) /\ Len(journal'[r]) <= ReplayLimit
  <2> DEFINE n == nextSeq[r]
             k == Kept(r)
             more == Append(journal[r], n + 1)
  <2>1. nextSeq'[r] = n + 1 /\ r \in DOMAIN journal
    BY <1>1 DEF TypeOK
  <2>2. CASE r \in Terminals
    <3>1. journal'[r] = journal[r] /\ Kept(r)' = 0 /\ Kept(r) = 0
      BY <1>1, <2>2 DEF Kept, Replayable
    <3>2. \A m1, m2 : [i \in 1..0 |-> m1 - 0 + i] = [i \in 1..0 |-> m2 - 0 + i]
      OBVIOUS
    <3>3. journal[r] = [i \in 1..0 |-> nextSeq[r] - 0 + i]
      BY <3>1 DEF JournalIsNewestTail
    <3>4. QED
      BY <1>3, <3>1, <3>2, <3>3
  <2>3. CASE r \notin Terminals
    <3>1. k \in Nat /\ k <= n /\ k <= ReplayLimit /\ n \in Nat /\ ReplayLimit \in Nat \ {0}
      BY <1>3, <2>3 DEF Kept, HubAssumption
    <3> HIDE DEF n, k
    <3>2. /\ Len(journal[r]) = k
          /\ \A i \in 1..k : journal[r][i] = n - k + i
      <4>1. journal[r] = [i \in 1..k |-> n - k + i]
        BY DEF JournalIsNewestTail, n, k
      <4>2. QED
        BY <1>3, <3>1, <4>1, LenProperties
    <3>3. /\ more \in Seq(Nat) /\ Len(more) = k + 1
          /\ \A i \in 1..(k + 1) : more[i] = n - k + i
      <4>1. /\ n + 1 \in Nat /\ more \in Seq(Nat) /\ Len(more) = k + 1
            /\ \A i \in 1..k : more[i] = journal[r][i]
            /\ more[k + 1] = n + 1
        BY <1>3, <3>1, <3>2, AppendProperties
      <4>2. \A i \in 1..(k + 1) : i \in 1..k \/ i = k + 1
        BY <3>1
      <4>3. ASSUME NEW i \in 1..k PROVE more[i] = n - k + i
        BY <3>2, <4>1
      <4>4. more[k + 1] = n - k + (k + 1)
        BY <3>1, <4>1
      <4>5. QED
        BY <4>1, <4>2, <4>3, <4>4
    <3> HIDE DEF more
    <3>4. CASE k < ReplayLimit
      <4>1. Kept(r)' = k + 1
        BY <1>3, <2>1, <2>3, <3>1, <3>4 DEF Kept, n, k
      <4>2. journal'[r] = more
        <5>1. ~(Len(more) > ReplayLimit)
          BY <3>1, <3>3, <3>4
        <5>2. journal'[r] = Retain(more)
          BY <1>1, <2>1, <2>3 DEF Replayable, more, n
        <5>3. QED
          BY <5>1, <5>2 DEF Retain
      <4>3. \A i \in 1..(k + 1) : more[i] = (n + 1) - (k + 1) + i
        BY <3>1, <3>3
      <4>4. more = [i \in 1..(k + 1) |-> (n + 1) - (k + 1) + i]
        BY <3>1, <3>3, <4>3, LenProperties
      <4>5. QED
        BY <2>1, <3>1, <3>3, <3>4, <4>1, <4>2, <4>4
    <3>5. CASE k = ReplayLimit
      <4>1. Kept(r)' = k
        BY <1>3, <2>1, <2>3, <3>1, <3>5 DEF Kept, n, k
      <4>2. journal'[r] = Tail(more)
        <5>1. Len(more) > ReplayLimit
          BY <3>1, <3>3, <3>5
        <5>2. journal'[r] = Retain(more)
          BY <1>1, <2>1, <2>3 DEF Replayable, more, n
        <5>3. QED
          BY <5>1, <5>2 DEF Retain
      <4>3. more # <<>>
        <5>1. Len(more) # 0
          BY <3>1, <3>3
        <5>2. QED
          BY <5>1, EmptySeq
      <4>4. /\ Tail(more) \in Seq(Nat) /\ Len(Tail(more)) = k
            /\ \A i \in 1..k : Tail(more)[i] = more[i + 1]
        BY <3>1, <3>3, <4>3, HeadTailProperties
      <4>5. \A i \in 1..k : Tail(more)[i] = (n + 1) - k + i
        BY <3>1, <3>3, <4>4
      <4>6. Tail(more) = [i \in 1..k |-> (n + 1) - k + i]
        BY <3>1, <4>4, <4>5, LenProperties
      <4>7. QED
        BY <2>1, <3>1, <3>5, <4>1, <4>2, <4>4, <4>6
    <3>6. QED
      BY <3>1, <3>4, <3>5
  <2>4. QED
    BY <2>2, <2>3
<1>7. \A q \in Runtimes : q # r => journal'[q] = journal[q] /\ nextSeq'[q] = nextSeq[q]
  BY <1>1 DEF TypeOK
<1>8. TypeOK'
  <2>1. nextSeq' \in [Runtimes -> Nat]
    BY <1>1, <1>3 DEF TypeOK
  <2>2. journal' \in [Runtimes -> Seq(Nat)] /\ \A q \in Runtimes : Len(journal'[q]) <= ReplayLimit
    BY <1>1, <1>6, <1>7 DEF TypeOK
  <2>3. task' \in [Threads -> TaskStates]
    BY <1>1, <1>3 DEF EmitSequence, TypeOK, TaskStates, Doing
  <2>4. QED
    BY <1>2, <2>1, <2>2, <2>3 DEF TypeOK, sinks, catalog
<1>9. TasksNameRuntimes'
  BY <1>1, <1>2 DEF TasksNameRuntimes
<1>10. OneDelivery'
  <2>1. \A u \in Threads : ~Emitting(u, r)
    BY <1>1 DEF EventLockFree
  <2>2. nextSeq'[r] = nextSeq[r] + 1
    BY <1>1 DEF TypeOK
  <2>3. QED
    BY <1>2, <1>4, <1>5, <1>7, <2>1, <2>2 DEF OneDelivery, Emitting
<1>11. FreshIsBlank'
  <2>1. \A q \in Runtimes : Fresh(q)' => Fresh(q)
    BY <1>1, <1>2 DEF Fresh, Threads
  <2>2. ~Fresh(r)
    BY <1>1 DEF FreshIsBlank
  <2>3. QED
    BY <1>2, <1>4, <1>5, <2>1, <2>2 DEF FreshIsBlank
<1>12. ReducedKeepsUp'
  <2>1. \A u \in Threads : ~(task[u].at = "reduce" /\ task[u].run = r)
    BY <1>1 DEF EventLockFree, Emitting
  <2>2. Replayable(r) => nextSeq[r] = reduced[r]
    BY <1>1, <2>1 DEF ReducedKeepsUp, Replayable
  <2>3. QED
    BY <1>1, <1>2, <1>4, <1>7, <2>1, <2>2 DEF ReducedKeepsUp, Replayable
<1>13. JournalIsNewestTail'
  <2>1. \A q \in Runtimes : q # r => Kept(q)' = Kept(q)
    BY <1>7 DEF Kept
  <2>2. QED
    BY <1>6, <1>7, <2>1 DEF JournalIsNewestTail
<1>14. OnlyActiveRuntimeHasState'
  BY <1>1, <1>2, <1>4, <1>7 DEF OnlyActiveRuntimeHasState
<1>15. QED
  BY <1>8, <1>9, <1>10, <1>11, <1>12, <1>13, <1>14

\* A thread that leaves the hub without having numbered an event: its runtime
\* went away while it waited, or it was to end another runtime than the active.
LEMMA LeaveHub ==
    ASSUME HubAssumption, HubInv, NEW t \in Threads, task[t].at \in {"enter", "end"},
           task' = [task EXCEPT ![t] = Idle],
           UNCHANGED <<hubState, sinks, catalog, begun, reduced>>
    PROVE  HubInv'
<1> USE DEF HubInv
<1>1. /\ UNCHANGED <<active, locks, nextSeq, journal, sinks, catalog, begun, reduced>>
      /\ \A u \in Threads : u # t => task'[u] = task[u]
      /\ task'[t] = Doing("idle", None, 0)
  BY DEF hubState, TypeOK, Idle
<1>2. \A u \in Threads, q \in Runtimes : Emitting(u, q)' <=> Emitting(u, q)
  BY <1>1 DEF Emitting, Doing
<1>3. \A q \in Runtimes : IsActive(q)' <=> IsActive(q)
  BY <1>1 DEF IsActive
<1>4. TypeOK'
  BY <1>1 DEF TypeOK, TaskStates, Idle, Doing, sinks, catalog
<1>5. TasksNameRuntimes'
  BY <1>1 DEF TasksNameRuntimes, Doing, Replayable
<1>6. OneDelivery'
  BY <1>1, <1>2, <1>3 DEF OneDelivery, Emitting, Doing
<1>7. FreshIsBlank'
  <2>1. \A q \in Runtimes : Fresh(q)' => Fresh(q)
    BY <1>1 DEF Fresh, Doing, Threads
  <2>2. QED
    BY <1>1, <1>2, <1>3, <2>1 DEF FreshIsBlank
<1>8. ReducedKeepsUp'
  BY <1>1, <1>3 DEF ReducedKeepsUp, Doing
<1>9. JournalIsNewestTail' /\ OnlyActiveRuntimeHasState'
  BY <1>1, <1>3 DEF JournalIsNewestTail, Kept, OnlyActiveRuntimeHasState
<1>10. QED
  BY <1>4, <1>5, <1>6, <1>7, <1>8, <1>9

\* The reduction catches up with the numbering.
LEMMA EmitReduceHub ==
    ASSUME HubAssumption, HubInv, NEW t \in Threads, EmitReduce(t)
    PROVE  HubInv'
<1> USE DEF HubInv
<1>0. task[t].at = "reduce" /\ task[t].run \in Runtimes /\ Replayable(task[t].run)
      /\ task[t].seq \in Nat
  BY DEF EmitReduce, TypeOK, TaskStates, TasksNameRuntimes
<1>1. PICK r \in Runtimes :
          /\ r = task[t].run /\ task[t].at = "reduce" /\ Replayable(r)
          /\ task[t].seq \in Nat
          /\ UNCHANGED <<active, locks, nextSeq, journal, sinks, catalog, begun>>
          /\ reduced' = [reduced EXCEPT ![r] = task[t].seq]
          /\ \A u \in Threads : u # t => task'[u] = task[u]
          /\ task'[t] = Doing("broadcast", r, task[t].seq)
  BY <1>0 DEF EmitReduce, hubState, TypeOK
<1>2. \A u \in Threads, q \in Runtimes : Emitting(u, q)' <=> Emitting(u, q)
  BY <1>1 DEF Emitting, Doing
<1>3. \A q \in Runtimes : IsActive(q)' <=> IsActive(q)
  BY <1>1 DEF IsActive
<1>4. Emitting(t, r) /\ \A u \in Threads : Emitting(u, r) => u = t
  BY <1>1 DEF Emitting, OneDelivery
<1>5. TypeOK'
  BY <1>1 DEF EmitReduce, TypeOK, TaskStates, Doing, sinks, catalog
<1>6. TasksNameRuntimes'
  BY <1>1 DEF TasksNameRuntimes, Doing, Replayable
<1>7. OneDelivery'
  BY <1>1, <1>2, <1>3 DEF OneDelivery, Emitting, Doing
<1>8. FreshIsBlank'
  <2>1. \A q \in Runtimes : Fresh(q)' => Fresh(q)
    BY <1>1 DEF Fresh, Doing, Threads
  <2>2. ~Fresh(r)
    BY <1>4 DEF FreshIsBlank
  <2>3. QED
    BY <1>1, <1>2, <1>3, <2>1, <2>2 DEF FreshIsBlank, TypeOK
<1>9. ReducedKeepsUp'
  <2>1. \A u \in Threads : ~(task'[u].at = "reduce" /\ task'[u].run = r)
    BY <1>1, <1>4 DEF Emitting, Doing
  <2>2. IsActive(r) => nextSeq[r] = task[t].seq
    BY <1>1, <1>4 DEF OneDelivery
  <2>3. reduced'[r] = task[t].seq
    BY <1>1 DEF TypeOK
  <2>4. ASSUME NEW q \in Runtimes \ Terminals, q # r
        PROVE  /\ reduced'[q] = reduced[q] /\ nextSeq'[q] = nextSeq[q]
               /\ \A u \in Threads :
                     /\ task'[u].at = "reduce" /\ task'[u].run = q
                           <=> task[u].at = "reduce" /\ task[u].run = q
                     /\ task'[u].seq = task[u].seq
    <3>1. reduced'[q] = reduced[q] /\ nextSeq'[q] = nextSeq[q]
      BY <1>1, <2>4 DEF TypeOK
    <3>2. /\ task'[t].at = "broadcast" /\ task[t].run = r
          /\ task'[t].seq = task[t].seq
      BY <1>1 DEF Doing
    <3>3. QED
      BY <1>1, <2>4, <3>1, <3>2
  <2>5. QED
    BY <1>1, <1>3, <2>1, <2>2, <2>3, <2>4 DEF ReducedKeepsUp
<1>10. JournalIsNewestTail' /\ OnlyActiveRuntimeHasState'
  BY <1>1, <1>3 DEF JournalIsNewestTail, Kept, OnlyActiveRuntimeHasState
<1>11. QED
  BY <1>5, <1>6, <1>7, <1>8, <1>9, <1>10

\* The broadcast ends the delivery.
LEMMA EmitBroadcastHub ==
    ASSUME HubAssumption, HubInv, NEW t \in Threads, NEW changed \in BOOLEAN,
           EmitBroadcast(t, changed)
    PROVE  HubInv'
<1> USE DEF HubInv
<1>1. PICK r \in Runtimes :
          /\ r = task[t].run /\ task[t].at = "broadcast" /\ task[t].seq \in Nat
          /\ UNCHANGED <<active, locks, nextSeq, journal, begun, reduced>>
          /\ \A u \in Threads : u # t => task'[u] = task[u]
          /\ task'[t] = Doing("idle", None, 0)
  BY DEF EmitBroadcast, hubState, TypeOK, TaskStates, TasksNameRuntimes, Idle
<1>2. \A u \in Threads, q \in Runtimes : Emitting(u, q)' => Emitting(u, q) /\ u # t
  BY <1>1 DEF Emitting, Doing
<1>3. \A q \in Runtimes : IsActive(q)' <=> IsActive(q)
  BY <1>1 DEF IsActive
<1>4. TypeOK'
  <2>1. inbox' \in [Clients -> [Runtimes -> Seq(Nat)]]
    BY <1>1, AppendProperties DEF EmitBroadcast, TypeOK
  <2>2. task' \in [Threads -> TaskStates]
    BY DEF EmitBroadcast, TypeOK, TaskStates, Idle, Doing
  <2>3. /\ subscribers' \subseteq Clients /\ revision' \in Nat /\ told' \in [Clients -> Nat]
        /\ UNCHANGED <<receiving, gap, resume>>
    BY DEF EmitBroadcast, TypeOK
  <2>4. QED
    BY <1>1, <2>1, <2>2, <2>3 DEF TypeOK
<1>5. TasksNameRuntimes'
  BY <1>1 DEF TasksNameRuntimes, Doing, Replayable
<1>6. OneDelivery'
  BY <1>1, <1>2, <1>3 DEF OneDelivery
<1>7. FreshIsBlank'
  <2>1. \A q \in Runtimes : Fresh(q)' => Fresh(q)
    BY <1>1 DEF Fresh, Doing, Threads
  <2>2. QED
    BY <1>1, <1>2, <1>3, <2>1 DEF FreshIsBlank
<1>8. ReducedKeepsUp'
  BY <1>1, <1>3 DEF ReducedKeepsUp, Doing
<1>9. JournalIsNewestTail' /\ OnlyActiveRuntimeHasState'
  BY <1>1, <1>3 DEF JournalIsNewestTail, Kept, OnlyActiveRuntimeHasState
<1>10. QED
  BY <1>4, <1>5, <1>6, <1>7, <1>8, <1>9

\* Starting to begin or end a runtime changes nothing but the worker's place.
LEMMA CaptureHub ==
    ASSUME HubAssumption, HubInv, NEW s \in Sessions, NEW r \in Runtimes \cup {None},
           NEW op \in {"begin", "end"}, Capture(s, op, r),
           op = "begin" => /\ r \in Runtimes /\ SessionOf[r] = s
                           /\ r \notin begun /\ begun' = begun \cup {r},
           op = "end" => begun' = begun
    PROVE  HubInv'
<1> USE DEF HubInv
<1>1. /\ s \in Threads /\ task[s].at = "idle"
      /\ CurrentLock(s) \in Runtimes \cup {None}
      /\ UNCHANGED <<active, locks, nextSeq, journal, sinks, catalog, reduced>>
      /\ \A u \in Threads : u # s => task'[u] = task[u]
      /\ task'[s] = Changing(op, r, CurrentLock(s), NumberedBefore(s))
  BY DEF Capture, hubState, TypeOK, Threads, Idle, Doing, CurrentLock
<1>2. \A u \in Threads, q \in Runtimes : Emitting(u, q)' <=> Emitting(u, q)
  BY <1>1 DEF Emitting, Changing
<1>3. \A q \in Runtimes : IsActive(q)' <=> IsActive(q)
  BY <1>1 DEF IsActive
<1>4. TypeOK'
  <2>1. NumberedBefore(s) \in Nat
    BY DEF NumberedBefore, TypeOK
  <2>2. Changing(op, r, CurrentLock(s), NumberedBefore(s)) \in TaskStates
    BY <1>1, <2>1 DEF TaskStates, Changing
  <2>3. task' \in [Threads -> TaskStates]
    BY <1>1, <2>2 DEF Capture, TypeOK
  <2>4. QED
    BY <1>1, <2>3 DEF TypeOK, sinks, catalog
<1>5. TasksNameRuntimes'
  BY <1>1 DEF TasksNameRuntimes, Changing, Replayable
<1>6. OneDelivery'
  <2>1. \A u \in Threads, q \in Runtimes : Emitting(u, q)' => task'[u] = task[u]
    BY <1>1, <1>2 DEF Emitting, Changing
  <2>2. QED
    BY <1>1, <1>2, <1>3, <2>1 DEF OneDelivery
<1>7. FreshIsBlank'
  <2>1. \A q \in Runtimes : Fresh(q)' => Fresh(q)
    BY <1>1 DEF Fresh, Changing, Threads
  <2>2. QED
    BY <1>1, <1>2, <1>3, <2>1 DEF FreshIsBlank
<1>8. ReducedKeepsUp'
  BY <1>1, <1>3 DEF ReducedKeepsUp, Changing
<1>9. JournalIsNewestTail' /\ OnlyActiveRuntimeHasState'
  BY <1>1, <1>3 DEF JournalIsNewestTail, Kept, OnlyActiveRuntimeHasState
<1>10. QED
  BY <1>4, <1>5, <1>6, <1>7, <1>8, <1>9

\* Forgetting a session: its runtimes are back to no lock, counter or journal.
LEMMA ForgetHub ==
    ASSUME HubAssumption, HubInv, NEW s \in Sessions, NEW next \in Runtimes \cup {None},
           active' = [active EXCEPT ![s] = next], ForgetSession(s),
           next # None => /\ SessionOf[next] = s /\ reduced[next] = 0
                          /\ ~Fresh(next)' /\ \A t \in Threads : ~Emitting(t, next),
           task' = [task EXCEPT ![s] = Idle], task[s].at \in {"begin", "end"},
           UNCHANGED <<sinks, catalog, begun, reduced>>
    PROVE  HubInv'
<1> USE DEF HubInv
<1>1. /\ s \in Threads
      /\ \A u \in Threads : u # s => task'[u] = task[u]
      /\ task'[s] = Doing("idle", None, 0)
  BY DEF Threads, TypeOK, Idle
<1>2. /\ \A r \in Runtimes : SessionOf[r] = s => nextSeq'[r] = 0 /\ journal'[r] = <<>>
                                               /\ r \notin locks'
      /\ \A r \in Runtimes : SessionOf[r] # s => nextSeq'[r] = nextSeq[r]
                                               /\ journal'[r] = journal[r]
                                               /\ (r \in locks' <=> r \in locks)
  BY DEF ForgetSession, OfSession
<1>3. \A u \in Threads, q \in Runtimes : Emitting(u, q)' <=> Emitting(u, q)
  BY <1>1 DEF Emitting, Doing
<1>4. \A q \in Runtimes : IsActive(q)' <=> IF SessionOf[q] = s THEN q = next ELSE IsActive(q)
  BY DEF IsActive, TypeOK, HubAssumption
<1>5. TypeOK'
  <2>1. task' \in [Threads -> TaskStates]
    BY DEF TypeOK, TaskStates, Idle, Doing
  <2>2. nextSeq' \in [Runtimes -> Nat] /\ journal' \in [Runtimes -> Seq(Nat)]
    BY EmptySeq DEF ForgetSession, TypeOK
  <2>3. \A r \in Runtimes : Len(journal'[r]) <= ReplayLimit
    BY <1>2, EmptySeq DEF TypeOK, HubAssumption
  <2>4. locks' \subseteq Runtimes /\ active' \in [Sessions -> Runtimes \cup {None}]
    BY DEF ForgetSession, TypeOK
  <2>5. QED
    BY <2>1, <2>2, <2>3, <2>4 DEF TypeOK, sinks, catalog
<1>6. TasksNameRuntimes'
  BY <1>1 DEF TasksNameRuntimes, Doing, Replayable
<1>7. OneDelivery'
  <2>1. \A u \in Threads, q \in Runtimes : Emitting(u, q) => task'[u] = task[u]
    BY <1>1 DEF Emitting
  <2>2. ASSUME NEW q \in Runtimes, NEW u \in Threads, Emitting(u, q)', IsActive(q)'
        PROVE  task'[u].seq = nextSeq'[q]
    <3>1. SessionOf[q] # s
      BY <1>3, <1>4, <2>2 DEF HubAssumption
    <3>2. QED
      BY <1>2, <1>3, <1>4, <2>1, <2>2, <3>1 DEF OneDelivery
  <2>3. QED
    BY <1>3, <2>2 DEF OneDelivery
<1>8. FreshIsBlank'
  <2>1. \A q \in Runtimes : Fresh(q)' => Fresh(q)
    BY <1>1 DEF Fresh, Doing, Threads
  <2>2. QED
    BY <1>3, <1>4, <2>1 DEF FreshIsBlank, HubAssumption
<1>9. ReducedKeepsUp'
  <2>1. \A u \in Threads : task'[u].at = "reduce" <=> task[u].at = "reduce"
    BY <1>1 DEF Doing
  <2>2. \A u \in Threads : task[u].at = "reduce" => task'[u] = task[u]
    BY <1>1
  <2>3. QED
    BY <1>2, <1>4, <2>1, <2>2 DEF ReducedKeepsUp, HubAssumption
<1>10. JournalIsNewestTail'
  <2>1. ASSUME NEW q \in Runtimes, SessionOf[q] = s
        PROVE  journal'[q] = [i \in 1..Kept(q)' |-> nextSeq'[q] - Kept(q)' + i]
    <3>1. Kept(q)' = 0
      BY <1>2, <2>1 DEF Kept, HubAssumption
    <3>2. QED
      BY <1>2, <2>1, <3>1
  <2>2. ASSUME NEW q \in Runtimes, SessionOf[q] # s
        PROVE  journal'[q] = [i \in 1..Kept(q)' |-> nextSeq'[q] - Kept(q)' + i]
    <3>1. Kept(q)' = Kept(q)
      BY <1>2, <2>2 DEF Kept
    <3>2. QED
      BY <1>2, <2>2, <3>1 DEF JournalIsNewestTail
  <2>3. QED
    BY <2>1, <2>2 DEF JournalIsNewestTail
<1>11. OnlyActiveRuntimeHasState'
  BY <1>2, <1>4 DEF OnlyActiveRuntimeHasState
<1>12. QED
  BY <1>5, <1>6, <1>7, <1>8, <1>9, <1>10, <1>11

\* begin_runtime's second step installs a runtime that left no trace before.
LEMMA BeginCommitHub ==
    ASSUME HubAssumption, HubInv, NEW s \in Sessions, BeginCommit(s)
    PROVE  HubInv'
<1>1. PICK r \in Runtimes : r = task[s].run /\ task[s].at = "begin"
  BY DEF BeginCommit, HubInv, TasksNameRuntimes, Threads
<1>2. SessionOf[r] = s /\ Fresh(r) /\ r \in begun
  BY <1>1 DEF HubInv, TasksNameRuntimes, Threads, Fresh
<1>3. reduced[r] = 0 /\ \A t \in Threads : ~Emitting(t, r)
  BY <1>2 DEF HubInv, FreshIsBlank
<1>4. ~Fresh(r)'
  <2>1. begun' = begun /\ task' = [task EXCEPT ![s] = Idle]
    BY DEF BeginCommit
  <2>2. ASSUME NEW u \in Sessions, task'[u].at = "begin", task'[u].run = r
        PROVE  FALSE
    <3>1. u # s
      BY <2>1, <2>2 DEF HubInv, TypeOK, Idle, Doing, Threads
    <3>2. task'[u] = task[u]
      BY <2>1, <3>1 DEF HubInv, TypeOK, Threads
    <3>3. QED
      BY <1>2, <2>2, <3>1, <3>2 DEF HubInv, TasksNameRuntimes, Threads
  <2>3. QED
    BY <1>2, <2>1, <2>2 DEF Fresh
<1>5. QED
  BY <1>1, <1>2, <1>3, <1>4, ForgetHub DEF BeginCommit

\* end_runtime's second step leaves no runtime, or another one, active.
LEMMA EndCommitHub ==
    ASSUME HubAssumption, HubInv, NEW s \in Sessions, EndCommit(s)
    PROVE  HubInv'
<1>1. CASE task[s].run \in {None, active[s]}
  BY <1>1, ForgetHub DEF EndCommit
<1>2. CASE task[s].run \notin {None, active[s]}
  BY <1>2, LeaveHub DEF EndCommit, Threads
<1>3. QED
  BY <1>1, <1>2

\* ReplayOfTail, for the journal of a runtime.
LEMMA ReplayOfJournal ==
    ASSUME HubAssumption, HubInv, NEW r \in Runtimes, NEW cursor \in Nat
    PROVE  LET sent == Replay(journal[r], cursor)
               from == Missed(journal[r], cursor)
           IN  /\ sent \in Seq(Nat) /\ from \in Nat
               /\ Kept(r) = 0 => sent = <<>>
               /\ from <= nextSeq[r]
               /\ \A i \in DOMAIN sent : sent[i] \in 1..nextSeq[r]
               /\ Kept(r) # 0 => \A m \in 1..nextSeq[r] :
                     m <= cursor \/ (\E i \in DOMAIN sent : sent[i] = m) \/ m <= from - 1
               /\ \A j \in DOMAIN sent : \A i \in 1..(j - 1) : sent[i] < sent[j]
<1>1. PICK n \in Nat, k \in Nat, entries \in Seq(Nat) :
          n = nextSeq[r] /\ k = Kept(r) /\ k <= n /\ entries = journal[r]
  BY DEF HubInv, TypeOK, Kept, HubAssumption
<1>2. entries = [i \in 1..k |-> n - k + i]
  BY <1>1 DEF HubInv, JournalIsNewestTail
<1>3. k \in 0..n
  BY <1>1
<1> DEFINE s == Replay(entries, cursor)
           f == Missed(entries, cursor)
<1>4. /\ s \in Seq(Nat) /\ f \in Nat
      /\ k = 0 => s = <<>>
      /\ f <= n
      /\ \A i \in DOMAIN s : s[i] \in 1..n
      /\ k # 0 => \A m \in 1..n :
            m <= cursor \/ (\E i \in DOMAIN s : s[i] = m) \/ m <= f - 1
      /\ \A j \in DOMAIN s : \A i \in 1..(j - 1) : s[i] < s[j]
  BY <1>2, <1>3, ReplayOfTail, Zenon
<1>5. QED
  BY <1>1, <1>4, Zenon

\* Connections come, go and hear of the catalog beside the hub's state.
LEMMA ConnectionHub ==
    ASSUME HubAssumption, HubInv, NEW c \in Clients, Connection(c)
    PROVE  HubInv'
<1> USE DEF HubInv
<1>1. UNCHANGED <<active, locks, nextSeq, journal, task, begun, reduced>>
  BY DEF Connection, Subscribe, Unsubscribe, ConnectionLost, DropReceiver,
         TaskStateChanged, hubState
<1>2. TypeOK'
  <2>1. /\ subscribers' \subseteq Clients /\ receiving' \subseteq Clients
        /\ revision' \in Nat /\ told' \in [Clients -> Nat]
        /\ resume' \in [Clients -> [Runtimes -> Nat]]
    <3>1. ASSUME NEW cursor \in Cursors, Subscribe(c, cursor)
          PROVE  /\ subscribers' \subseteq Clients /\ receiving' \subseteq Clients
                 /\ revision' \in Nat /\ told' \in [Clients -> Nat]
                 /\ resume' \in [Clients -> [Runtimes -> Nat]]
      BY <3>1 DEF Subscribe, Cursors, TypeOK, HubAssumption, catalog
    <3>2. CASE DropReceiver(c) /\ (Unsubscribe(c) \/ ConnectionLost(c))
      BY <3>2 DEF Unsubscribe, ConnectionLost, DropReceiver, TypeOK
    <3>3. CASE TaskStateChanged(c)
      BY <3>3 DEF TaskStateChanged, TypeOK
    <3>4. QED
      BY <3>1, <3>2, <3>3 DEF Connection, Unsubscribe, ConnectionLost
  <2>2. /\ inbox' \in [Clients -> [Runtimes -> Seq(Nat)]]
        /\ gap' \in [Clients -> [Runtimes -> Nat]]
    <3>1. ASSUME NEW cursor \in Cursors, Subscribe(c, cursor)
          PROVE  /\ inbox' \in [Clients -> [Runtimes -> Seq(Nat)]]
                 /\ gap' \in [Clients -> [Runtimes -> Nat]]
      <4>1. ASSUME NEW r \in Runtimes
            PROVE  /\ Replay(journal[r], cursor[r]) \in Seq(Nat)
                   /\ Missed(journal[r], cursor[r]) \in Nat
        BY ReplayOfJournal DEF Cursors
      <4>2. QED
        BY <3>1, <4>1 DEF Subscribe, TypeOK
    <3>2. CASE DropReceiver(c)
      BY <3>2, EmptySeq DEF DropReceiver, TypeOK
    <3>3. CASE TaskStateChanged(c)
      BY <3>3 DEF TaskStateChanged, TypeOK
    <3>4. QED
      BY <3>1, <3>2, <3>3 DEF Connection, Unsubscribe, ConnectionLost
  <2>3. QED
    BY <1>1, <2>1, <2>2 DEF TypeOK
<1>3. TasksNameRuntimes' /\ OneDelivery' /\ FreshIsBlank' /\ ReducedKeepsUp'
  BY <1>1 DEF TasksNameRuntimes, Replayable, OneDelivery, Emitting, IsActive,
              FreshIsBlank, Fresh, ReducedKeepsUp
<1>4. JournalIsNewestTail' /\ OnlyActiveRuntimeHasState'
  BY <1>1 DEF JournalIsNewestTail, Kept, OnlyActiveRuntimeHasState, IsActive
<1>5. QED
  BY <1>2, <1>3, <1>4

LEMMA NextHub == ASSUME HubAssumption, HubInv, [Next]_vars PROVE HubInv'
<1>1. CASE UNCHANGED vars
  BY <1>1 DEF vars, hubState, sinks, catalog, HubInv, TypeOK, TasksNameRuntimes,
              Replayable, OneDelivery, Emitting, IsActive, FreshIsBlank, Fresh,
              ReducedKeepsUp, JournalIsNewestTail, Kept, OnlyActiveRuntimeHasState
<1>2. ASSUME NEW t \in Threads, Emit(t) PROVE HubInv'
  <2>1. CASE EmitDrop(t)
    BY <2>1, LeaveHub DEF EmitDrop
  <2>2. QED
    BY <1>2, <2>1, EmitEnterHub, EmitSequenceHub, EmitReduceHub, EmitBroadcastHub
    DEF Emit
<1>3. ASSUME NEW s \in Sessions, Lifecycle(s) PROVE HubInv'
  <2>1. ASSUME NEW r \in Runtimes, BeginCapture(s, r) PROVE HubInv'
    BY <2>1, CaptureHub DEF BeginCapture
  <2>2. ASSUME NEW r \in Runtimes \cup {None}, EndCapture(s, r) PROVE HubInv'
    BY <2>2, CaptureHub DEF EndCapture
  <2>3. QED
    BY <1>3, <2>1, <2>2, BeginCommitHub, EndCommitHub DEF Lifecycle
<1>4. QED
  BY <1>1, <1>2, <1>3, ConnectionHub DEF Next

\* The hub's own invariant holds in every reachable state.
THEOREM HubInvariant == ASSUME HubAssumption PROVE Spec => []HubInv
<1>1. Init => HubInv
  BY InitHub
<1>2. HubInv /\ [Next]_vars => HubInv'
  BY NextHub
<1>3. QED
  BY <1>1, <1>2, PTL DEF Spec

-----------------------------------------------------------------------------
(* What connections are sent *)

\* The numbers a channel has carried, after one more.
LEMMA RangeOfAppend ==
    ASSUME NEW s \in Seq(Nat), NEW n \in Nat
    PROVE  {Append(s, n)[i] : i \in DOMAIN Append(s, n)} = {s[i] : i \in DOMAIN s} \cup {n}
<1> DEFINE a == Append(s, n)
<1>1. /\ DOMAIN a = 1..(Len(s) + 1) /\ DOMAIN s = 1..Len(s) /\ Len(s) \in Nat
      /\ a[Len(s) + 1] = n
      /\ \A i \in 1..Len(s) : a[i] = s[i]
  BY AppendProperties, LenProperties
<1> HIDE DEF a
<1>2. \A i \in 1..(Len(s) + 1) : i \in 1..Len(s) \/ i = Len(s) + 1
  BY <1>1
<1>3. Len(s) + 1 \in 1..(Len(s) + 1) /\ \A i \in 1..Len(s) : i \in 1..(Len(s) + 1)
  BY <1>1
<1>4. {a[i] : i \in DOMAIN a} = {s[i] : i \in DOMAIN s} \cup {n}
  BY <1>1, <1>2, <1>3
<1>5. QED
  BY <1>4 DEF a

LEMMA InitSinks == ASSUME HubAssumption, Init PROVE SinkInv
BY DEF Init, SinkInv, FreshIsUnseen, NobodyAhead, Sent, NothingLostUnannounced,
       DedupLosesNothing

\* Steps that change neither a channel nor what an active runtime has numbered
\* and delivered keep what connections can account for.
LEMMA QuietSinks ==
    ASSUME HubAssumption, HubInv, SinkInv,
           UNCHANGED sinks,
           \A r \in Runtimes : IsActive(r)' =>
               \/ nextSeq'[r] = 0 /\ Fresh(r)
               \/ IsActive(r) /\ nextSeq'[r] = nextSeq[r],
           \A r \in Runtimes : InFlight(r)' = InFlight(r),
           \A r \in Runtimes, t \in Threads : Emitting(t, r)' =>
               Emitting(t, r) /\ task'[t].seq = task[t].seq,
           \A r \in Runtimes : Fresh(r)' => Fresh(r)
    PROVE  SinkInv'
<1> USE DEF SinkInv
<1>1. UNCHANGED <<subscribers, receiving, inbox, gap, resume>>
  BY DEF sinks
<1>2. FreshIsUnseen'
  BY <1>1 DEF FreshIsUnseen
<1>3. \A c \in Clients, r \in Runtimes : Fresh(r) => Sent(c, r) = {}
  BY DEF FreshIsUnseen, Sent
<1>4. NobodyAhead'
  <2>1. \A c \in Clients, r \in Runtimes : Sent(c, r)' = Sent(c, r)
    BY <1>1 DEF Sent
  <2>2. QED
    BY <1>1, <1>3, <2>1 DEF NobodyAhead
<1>5. NothingLostUnannounced'
  <2>1. \A c \in Clients, r \in Runtimes : Accounted(c, r)' = Accounted(c, r)
    BY <1>1 DEF Accounted, Sent
  <2>2. ASSUME NEW c \in receiving, NEW r \in Runtimes \ Terminals, IsActive(r)'
        PROVE  1..nextSeq'[r] \subseteq Accounted(c, r) \cup InFlight(r)
    <3>1. CASE nextSeq'[r] = 0
      BY <3>1
    <3>2. CASE IsActive(r) /\ nextSeq'[r] = nextSeq[r]
      BY <3>2 DEF NothingLostUnannounced
    <3>3. QED
      BY <2>2, <3>1, <3>2
  <2>3. QED
    BY <1>1, <2>1, <2>2 DEF NothingLostUnannounced, HubInv, TypeOK
<1>6. DedupLosesNothing'
  BY <1>1 DEF DedupLosesNothing
<1>7. QED
  BY <1>1, <1>2, <1>4, <1>5, <1>6

\* A freshly numbered event is in its thread's hand, above all that was sent.
LEMMA EmitSequenceSinks ==
    ASSUME HubAssumption, HubInv, SinkInv, NEW t \in Threads, EmitSequence(t)
    PROVE  SinkInv'
<1> USE DEF SinkInv
<1>1. PICK r \in Runtimes :
          /\ r = task[t].run /\ task[t].at = "enter"
          /\ EventLockFree(r) /\ IsActive(r) /\ nextSeq[r] \in Nat
          /\ nextSeq'[r] = nextSeq[r] + 1
          /\ \A q \in Runtimes : q # r => nextSeq'[q] = nextSeq[q]
  BY DEF EmitSequence, HubInv, TypeOK, TasksNameRuntimes
<1>2. /\ UNCHANGED <<active, subscribers, receiving, inbox, gap, resume, begun>>
      /\ \A u \in Threads : u # t => task'[u] = task[u]
      /\ task'[t].run = r /\ task'[t].seq = nextSeq[r] + 1
      /\ task'[t].at \in {"reduce", "broadcast"}
  BY <1>1 DEF EmitSequence, sinks, HubInv, TypeOK, Doing
<1>3. \A q \in Runtimes : IsActive(q)' <=> IsActive(q)
  BY <1>2 DEF IsActive
<1>4. \A u \in Threads, q \in Runtimes :
          Emitting(u, q)' <=> Emitting(u, q) \/ (u = t /\ q = r)
  BY <1>1, <1>2 DEF Emitting
<1>5. FreshIsUnseen'
  <2>1. \A q \in Runtimes : Fresh(q)' => Fresh(q)
    BY <1>1, <1>2 DEF Fresh, Threads
  <2>2. QED
    BY <1>2, <2>1 DEF FreshIsUnseen
<1>6. \A c \in Clients, q \in Runtimes : Sent(c, q)' = Sent(c, q)
                                         /\ Accounted(c, q)' = Accounted(c, q)
  BY <1>2 DEF Sent, Accounted
<1>7. \A c \in Clients, q \in Runtimes : Sent(c, q) \subseteq Nat
  <2>1. ASSUME NEW c \in Clients, NEW q \in Runtimes PROVE inbox[c][q] \in Seq(Nat)
    BY DEF HubInv, TypeOK
  <2>2. QED
    BY <2>1 DEF Sent
<1>8. NobodyAhead'
  <2>1. ASSUME NEW c \in Clients, NEW n \in Sent(c, r)
        PROVE  n <= nextSeq[r] + 1
    BY <1>1, <1>7 DEF NobodyAhead
  <2>2. \A u \in Threads : Emitting(u, r)' => u = t
    BY <1>1, <1>4 DEF EventLockFree
  <2>3. \A u \in Threads, q \in Runtimes : q # r /\ Emitting(u, q)' => task'[u] = task[u]
    BY <1>2, <1>4, <1>1 DEF Emitting
  <2>4. QED
    BY <1>1, <1>2, <1>3, <1>4, <1>6, <2>1, <2>2, <2>3 DEF NobodyAhead
<1>9. NothingLostUnannounced'
  <2>1. InFlight(r) = {} /\ InFlight(r)' = {nextSeq[r] + 1}
    BY <1>1, <1>2, <1>4 DEF EventLockFree, InFlight
  <2>2. ASSUME NEW q \in Runtimes, q # r PROVE InFlight(q)' = InFlight(q)
    <3>1. \A u \in Threads : Emitting(u, q) => u # t
      BY <1>1, <2>2 DEF Emitting
    <3>2. QED
      BY <1>2, <1>4, <2>2, <3>1 DEF InFlight
  <2>3. \A m \in 1..(nextSeq[r] + 1) : m \in 1..nextSeq[r] \/ m = nextSeq[r] + 1
    BY <1>1
  <2>4. ASSUME NEW c \in receiving, c \in Clients, NEW q \in Runtimes \ Terminals,
               IsActive(q)
        PROVE  1..nextSeq'[q] \subseteq Accounted(c, q) \cup InFlight(q)'
    <3>1. 1..nextSeq[q] \subseteq Accounted(c, q) \cup InFlight(q)
      BY <2>4 DEF NothingLostUnannounced
    <3>2. CASE q = r
      BY <1>1, <2>1, <2>3, <3>1, <3>2
    <3>3. CASE q # r
      BY <1>1, <2>2, <3>1, <3>3
    <3>4. QED
      BY <3>2, <3>3
  <2>5. receiving \subseteq Clients
    BY DEF HubInv, TypeOK
  <2>6. QED
    BY <1>2, <1>3, <1>6, <2>4, <2>5 DEF NothingLostUnannounced
<1>10. DedupLosesNothing'
  BY <1>2 DEF DedupLosesNothing
<1>11. QED
  BY <1>2, <1>5, <1>8, <1>9, <1>10

\* The broadcast puts the delivered event into every open channel.
LEMMA EmitBroadcastSinks ==
    ASSUME HubAssumption, HubInv, SinkInv, NEW t \in Threads, NEW changed \in BOOLEAN,
           EmitBroadcast(t, changed)
    PROVE  SinkInv'
<1> USE DEF SinkInv
<1>1. PICK r \in Runtimes, n \in Nat :
          /\ r = task[t].run /\ n = task[t].seq /\ task[t].at = "broadcast"
  BY DEF EmitBroadcast, HubInv, TypeOK, TaskStates, TasksNameRuntimes
<1>2. /\ UNCHANGED <<active, nextSeq, receiving, gap, resume, begun>>
      /\ \A u \in Threads : u # t => task'[u] = task[u]
      /\ task'[t] = Doing("idle", None, 0)
      /\ subscribers' = subscribers \cap receiving
  BY DEF EmitBroadcast, hubState, HubInv, TypeOK, Idle
<1>3. \A c \in Clients, q \in Runtimes :
          inbox'[c][q] = IF q = r /\ c \in receiving THEN Append(inbox[c][q], n)
                                                    ELSE inbox[c][q]
  BY <1>1 DEF EmitBroadcast, HubInv, TypeOK
<1>4. \A q \in Runtimes : IsActive(q)' <=> IsActive(q)
  BY <1>2 DEF IsActive
<1>5. /\ Emitting(t, r)
      /\ \A u \in Threads : Emitting(u, r) => u = t
      /\ \A u \in Threads : ~Emitting(u, r)'
      /\ \A u \in Threads, q \in Runtimes : Emitting(u, q)' => Emitting(u, q) /\ u # t
      /\ \A u \in Threads, q \in Runtimes : q # r => (Emitting(u, q)' <=> Emitting(u, q))
  BY <1>1, <1>2 DEF Emitting, Doing, HubInv, OneDelivery
<1>6. ~Fresh(r) /\ \A q \in Runtimes : Fresh(q)' => Fresh(q)
  BY <1>1, <1>2, <1>5 DEF Fresh, Doing, Threads, HubInv, FreshIsBlank
<1>7. receiving \subseteq Clients
      /\ \A c \in Clients, q \in Runtimes : inbox[c][q] \in Seq(Nat)
  BY DEF HubInv, TypeOK
<1>8. FreshIsUnseen'
  BY <1>3, <1>6 DEF FreshIsUnseen
<1>9. ASSUME NEW c \in Clients, NEW q \in Runtimes
      PROVE  Sent(c, q)' = Sent(c, q) \cup (IF q = r /\ c \in receiving THEN {n} ELSE {})
  <2>1. CASE q = r /\ c \in receiving
    <3>1. PICK s \in Seq(Nat) : s = inbox[c][q] /\ inbox'[c][q] = Append(s, n)
      BY <1>3, <1>7, <2>1
    <3>2. {Append(s, n)[i] : i \in DOMAIN Append(s, n)} = {s[i] : i \in DOMAIN s} \cup {n}
      BY RangeOfAppend
    <3>3. Sent(c, q)' = {Append(s, n)[i] : i \in DOMAIN Append(s, n)}
      BY <3>1, Zenon DEF Sent
    <3>4. Sent(c, q) = {s[i] : i \in DOMAIN s}
      BY <3>1, Zenon DEF Sent
    <3>5. QED
      BY <2>1, <3>2, <3>3, <3>4
  <2>2. CASE ~(q = r /\ c \in receiving)
    BY <1>3, <2>2 DEF Sent
  <2>3. QED
    BY <2>1, <2>2
<1>10. NobodyAhead'
  <2>1. IsActive(r) => n <= nextSeq[r]
    BY <1>1, <1>5 DEF HubInv, OneDelivery, TypeOK
  <2>2. \A u \in Threads, q \in Runtimes : Emitting(u, q)' => q # r /\ task'[u] = task[u]
    BY <1>2, <1>5
  <2>3. QED
    BY <1>2, <1>4, <1>5, <1>9, <2>1, <2>2 DEF NobodyAhead
<1>11. NothingLostUnannounced'
  <2>1. ASSUME NEW c \in receiving, NEW q \in Runtimes \ Terminals, IsActive(q)
        PROVE  1..nextSeq[q] \subseteq Accounted(c, q)' \cup InFlight(q)'
    <3>1. 1..nextSeq[q] \subseteq Accounted(c, q) \cup InFlight(q)
      BY <2>1 DEF NothingLostUnannounced
    <3>2. Accounted(c, q)' = Accounted(c, q) \cup (IF q = r THEN {n} ELSE {})
      BY <1>2, <1>7, <1>9 DEF Accounted
    <3>3. InFlight(q) \subseteq InFlight(q)' \cup (IF q = r THEN {n} ELSE {})
      BY <1>1, <1>2, <1>5 DEF InFlight
    <3>4. QED
      BY <3>1, <3>2, <3>3
  <2>2. QED
    BY <1>2, <1>4, <2>1 DEF NothingLostUnannounced
<1>12. DedupLosesNothing'
  <2>1. ASSUME NEW c \in receiving, NEW j \in DOMAIN inbox'[c][r], NEW i \in 1..(j - 1),
               inbox'[c][r][j] <= inbox'[c][r][i]
        PROVE  \E k \in 1..(j - 1) : inbox'[c][r][k] = inbox'[c][r][j]
    <3>1. PICK sent \in Seq(Nat) : sent = inbox[c][r] /\ inbox'[c][r] = Append(sent, n)
      BY <1>3, <1>7
    <3>2. /\ Len(sent) \in Nat /\ DOMAIN sent = 1..Len(sent)
          /\ DOMAIN Append(sent, n) = 1..(Len(sent) + 1)
          /\ Append(sent, n)[Len(sent) + 1] = n
          /\ \A k \in 1..Len(sent) : Append(sent, n)[k] = sent[k]
      BY AppendProperties, LenProperties
    <3>a. j \in 1..(Len(sent) + 1) /\ Len(sent) \in Nat
      BY <3>1, <3>2
    <3>3. i \in 1..Len(sent) /\ i < j
      BY <3>a
    <3>4. CASE j \in 1..Len(sent)
      <4>1. sent[j] <= sent[i]
        BY <2>1, <3>1, <3>2, <3>3, <3>4
      <4>2. PICK k \in 1..(j - 1) : sent[k] = sent[j]
        BY <3>1, <3>2, <3>4, <4>1 DEF DedupLosesNothing
      <4>3. k \in 1..Len(sent)
        BY <3>2, <3>4
      <4>4. QED
        BY <3>1, <3>2, <3>4, <4>2, <4>3
    <3>5. CASE j = Len(sent) + 1
      <4>1. n <= sent[i]
        BY <2>1, <3>1, <3>2, <3>3, <3>5
      <4>2. sent[i] \in Sent(c, r)
        BY <3>1, <3>2, <3>3 DEF Sent
      <4>3. sent[i] <= n
        BY <1>1, <1>5, <1>7, <4>2 DEF NobodyAhead
      <4>4. sent[i] = n
        BY <3>2, <3>3, <4>1, <4>3
      <4>5. inbox'[c][r][i] = inbox'[c][r][j]
        BY <3>1, <3>2, <3>3, <3>5, <4>4
      <4>6. QED
        BY <4>5
    <3>6. j \in 1..Len(sent) \/ j = Len(sent) + 1
      BY <3>a
    <3>7. QED
      BY <3>4, <3>5, <3>6
  <2>2. ASSUME NEW c \in receiving, NEW q \in Runtimes, q # r
        PROVE  inbox'[c][q] = inbox[c][q]
    BY <1>3, <1>7, <2>2
  <2>3. QED
    BY <1>2, <2>1, <2>2 DEF DedupLosesNothing
<1>13. QED
  BY <1>2, <1>8, <1>10, <1>11, <1>12

\* A new connection accounts for everything numbered so far: its cursor, the
\* replay and the gap notice cover the journal, and an event still being
\* delivered is in the journal already.
LEMMA SubscribeSinks ==
    ASSUME HubAssumption, HubInv, SinkInv, NEW c \in Clients, NEW cursor \in Cursors,
           Subscribe(c, cursor)
    PROVE  SinkInv'
<1> USE DEF SinkInv
<1>1. /\ UNCHANGED <<active, locks, nextSeq, journal, task, begun, reduced>>
      /\ c \notin receiving
      /\ receiving' = receiving \cup {c} /\ subscribers' = subscribers \cup {c}
      /\ \A d \in Clients : d # c => /\ inbox'[d] = inbox[d] /\ gap'[d] = gap[d]
                                    /\ resume'[d] = resume[d]
      /\ \A r \in Runtimes : /\ inbox'[c][r] = Replay(journal[r], cursor[r])
                             /\ gap'[c][r] = Missed(journal[r], cursor[r])
                             /\ resume'[c][r] = cursor[r] /\ cursor[r] \in Nat
  BY DEF Subscribe, hubState, HubInv, TypeOK, Cursors
<1>0. \A q \in Runtimes : Fresh(q)' => Fresh(q)
  BY <1>1 DEF Fresh
<1>2. \A q \in Runtimes : /\ IsActive(q)' => IsActive(q)
                         /\ InFlight(q)' = InFlight(q)
  BY <1>1 DEF IsActive, InFlight, Emitting
<1>a. \A q \in Runtimes : \A t \in Threads : Emitting(t, q)' => Emitting(t, q)
  BY <1>1 DEF Emitting
<1>3. \A d \in Clients : d # c => \A r \in Runtimes :
          Sent(d, r)' = Sent(d, r) /\ Accounted(d, r)' = Accounted(d, r)
  BY <1>1 DEF Sent, Accounted
<1>4. \A r \in Runtimes : ~IsActive(r) => inbox'[c][r] = <<>>
  <2>1. ASSUME NEW r \in Runtimes, ~IsActive(r) PROVE inbox'[c][r] = <<>>
    <3>1. nextSeq[r] = 0
      BY <2>1 DEF HubInv, OnlyActiveRuntimeHasState
    <3>2. Kept(r) = 0
      BY <3>1 DEF Kept, HubAssumption
    <3>3. QED
      BY <1>1, <3>2, ReplayOfJournal
  <2>2. QED
    BY <2>1
<1>5. FreshIsUnseen'
  <2>1. \A r \in Runtimes : Fresh(r) => inbox'[c][r] = <<>>
    BY <1>4 DEF HubInv, FreshIsBlank
  <2>2. ASSUME NEW d \in Clients, NEW r \in Runtimes, Fresh(r)
        PROVE  inbox'[d][r] = <<>>
    BY <1>1, <2>1, <2>2 DEF FreshIsUnseen
  <2>3. QED
    BY <1>0, <2>2 DEF FreshIsUnseen
<1>6. NobodyAhead'
  <2>1. ASSUME NEW r \in Runtimes, NEW n \in Sent(c, r)'
        PROVE  IsActive(r) /\ n <= nextSeq[r]
    <3>1. PICK i \in DOMAIN inbox'[c][r] : n = inbox'[c][r][i]
      BY DEF Sent
    <3>2. IsActive(r)
      BY <1>4, <3>1
    <3>3. \A k \in DOMAIN Replay(journal[r], cursor[r]) :
              Replay(journal[r], cursor[r])[k] \in 1..nextSeq[r]
      BY <1>1, ReplayOfJournal
    <3>4. QED
      BY <1>1, <3>1, <3>2, <3>3 DEF HubInv, TypeOK
  <2>2. \A r \in Runtimes, t \in Threads :
            IsActive(r) /\ Emitting(t, r) => task[t].seq = nextSeq[r]
    BY DEF HubInv, OneDelivery
  <2>3. ASSUME NEW d \in Clients, NEW r \in Runtimes, NEW n \in Sent(d, r)'
        PROVE  /\ IsActive(r) => n <= nextSeq[r]
               /\ \A t \in Threads : Emitting(t, r) => n <= task[t].seq
    <3>1. CASE d = c
      BY <2>1, <2>2, <2>3, <3>1
    <3>2. CASE d # c
      BY <1>3, <2>3, <3>2 DEF NobodyAhead
    <3>3. QED
      BY <3>1, <3>2
  <2>4. QED
    BY <1>1, <1>2, <1>a, <2>3 DEF NobodyAhead
<1>7. NothingLostUnannounced'
  <2>1. ASSUME NEW r \in Runtimes \ Terminals, IsActive(r), NEW m \in 1..nextSeq[r]
        PROVE  m \in Accounted(c, r)'
    <3>1. nextSeq[r] \in Nat /\ Kept(r) # 0
      BY <2>1 DEF Kept, HubAssumption, HubInv, TypeOK
    <3>2. \/ m <= cursor[r]
          \/ \E i \in DOMAIN Replay(journal[r], cursor[r]) :
                Replay(journal[r], cursor[r])[i] = m
          \/ m <= Missed(journal[r], cursor[r]) - 1
      BY <1>1, <3>1, ReplayOfJournal
    <3>3. Missed(journal[r], cursor[r]) \in Nat
      BY <1>1, ReplayOfJournal
    <3>4. m \in 1..resume'[c][r] \/ m \in Sent(c, r)' \/ m \in 1..(gap'[c][r] - 1)
      BY <1>1, <3>1, <3>2, <3>3 DEF Sent
    <3>5. QED
      BY <3>4 DEF Accounted
  <2>2. ASSUME NEW d \in receiving', NEW r \in Runtimes \ Terminals, IsActive(r)
        PROVE  1..nextSeq[r] \subseteq Accounted(d, r)' \cup InFlight(r)
    <3>1. CASE d = c
      BY <2>1, <2>2, <3>1
    <3>2. CASE d # c
      <4>1. d \in receiving /\ d \in Clients
        BY <1>1, <2>2, <3>2 DEF HubInv, TypeOK
      <4>2. Accounted(d, r)' = Accounted(d, r)
        BY <1>3, <3>2, <4>1
      <4>3. QED
        BY <2>2, <4>1, <4>2 DEF NothingLostUnannounced
    <3>3. QED
      BY <3>1, <3>2
  <2>3. nextSeq' = nextSeq
    BY <1>1
  <2>4. QED
    BY <1>2, <2>2, <2>3 DEF NothingLostUnannounced
<1>8. DedupLosesNothing'
  <2>1. ASSUME NEW r \in Runtimes, NEW j \in DOMAIN inbox'[c][r], NEW i \in 1..(j - 1)
        PROVE  ~(inbox'[c][r][j] <= inbox'[c][r][i])
    <3>1. PICK s \in Seq(Nat) : s = Replay(journal[r], cursor[r]) /\ s = inbox'[c][r]
      BY <1>1, ReplayOfJournal
    <3>2. \A b \in DOMAIN s : \A a \in 1..(b - 1) : s[a] < s[b]
      BY <1>1, <3>1, ReplayOfJournal
    <3>3. DOMAIN s = 1..Len(s) /\ Len(s) \in Nat /\ \A k \in 1..Len(s) : s[k] \in Nat
      BY LenProperties, ElementOfSeq
    <3>4. i \in 1..Len(s) /\ j \in 1..Len(s) /\ s[i] < s[j]
      <4>1. j \in DOMAIN s /\ i \in 1..(j - 1)
        BY <3>1
      <4>2. QED
        BY <4>1, <3>2, <3>3
    <3>5. /\ s[i] \in Nat /\ s[j] \in Nat
          /\ inbox'[c][r][i] = s[i] /\ inbox'[c][r][j] = s[j]
      BY <3>1, <3>3, <3>4
    <3>6. QED
      BY <3>4, <3>5
  <2>2. ASSUME NEW d \in receiving', d # c
        PROVE  d \in receiving /\ inbox'[d] = inbox[d]
    BY <1>1, <2>2 DEF HubInv, TypeOK
  <2>3. QED
    BY <2>1, <2>2 DEF DedupLosesNothing
<1>9. QED
  BY <1>1, <1>5, <1>6, <1>7, <1>8

\* A connection that goes takes its channel along.
LEMMA DropReceiverSinks ==
    ASSUME HubAssumption, HubInv, SinkInv, NEW c \in Clients, DropReceiver(c),
           subscribers' \in {subscribers, subscribers \ {c}}
    PROVE  SinkInv'
<1> USE DEF SinkInv
<1>1. /\ UNCHANGED <<active, locks, nextSeq, journal, task, begun, reduced>>
      /\ receiving' = receiving \ {c}
      /\ \A d \in Clients : d # c => /\ inbox'[d] = inbox[d] /\ gap'[d] = gap[d]
                                    /\ resume'[d] = resume[d]
      /\ \A r \in Runtimes : inbox'[c][r] = <<>>
  BY DEF DropReceiver, hubState, HubInv, TypeOK
<1>0. \A q \in Runtimes : Fresh(q)' => Fresh(q)
  BY <1>1 DEF Fresh
<1>2. \A q \in Runtimes : /\ IsActive(q)' => IsActive(q)
                         /\ InFlight(q)' = InFlight(q)
  BY <1>1 DEF IsActive, InFlight, Emitting
<1>a. \A q \in Runtimes : \A t \in Threads : Emitting(t, q)' => Emitting(t, q)
  BY <1>1 DEF Emitting
<1>3. \A d \in Clients : d # c => \A r \in Runtimes :
          Sent(d, r)' = Sent(d, r) /\ Accounted(d, r)' = Accounted(d, r)
  BY <1>1 DEF Sent, Accounted
<1>4. \A r \in Runtimes : Sent(c, r)' = {}
  BY <1>1 DEF Sent
<1>5. FreshIsUnseen'
  <2>1. ASSUME NEW d \in Clients, NEW r \in Runtimes, Fresh(r)
        PROVE  inbox'[d][r] = <<>>
    BY <1>1, <2>1 DEF FreshIsUnseen
  <2>2. QED
    BY <1>0, <2>1 DEF FreshIsUnseen
<1>6. NobodyAhead'
  <2>1. ASSUME NEW d \in Clients, NEW r \in Runtimes, NEW n \in Sent(d, r)'
        PROVE  /\ IsActive(r) => n <= nextSeq[r]
               /\ \A t \in Threads : Emitting(t, r) => n <= task[t].seq
    BY <1>3, <1>4, <2>1 DEF NobodyAhead
  <2>2. QED
    BY <1>1, <1>2, <1>a, <2>1 DEF NobodyAhead
<1>7. NothingLostUnannounced' /\ DedupLosesNothing'
  <2>1. ASSUME NEW d \in receiving'
        PROVE  /\ d \in receiving /\ inbox'[d] = inbox[d]
               /\ \A r \in Runtimes : Accounted(d, r)' = Accounted(d, r)
    BY <1>1, <1>3, <2>1 DEF HubInv, TypeOK
  <2>2. nextSeq' = nextSeq
    BY <1>1
  <2>3. QED
    BY <1>2, <2>1, <2>2 DEF NothingLostUnannounced, DedupLosesNothing
<1>8. QED
  BY <1>1, <1>5, <1>6, <1>7 DEF HubInv, TypeOK

\* A runtime that begins or ends leaves what was sent alone; one that becomes
\* active was never seen before.
LEMMA LifecycleBeside ==
    ASSUME HubAssumption, HubInv, NEW s \in Sessions, Lifecycle(s)
    PROVE  /\ UNCHANGED sinks
           /\ \A u \in Threads : u # s => task'[u] = task[u]
           /\ task'[s].at \in {"idle", "begin", "end"}
           /\ \A q \in Runtimes, u \in Threads : Emitting(u, q)' <=> Emitting(u, q)
           /\ \A q \in Runtimes, u \in Threads : Emitting(u, q) => task'[u] = task[u]
           /\ \A q \in Runtimes : Fresh(q)' => Fresh(q)
           /\ \A q \in Runtimes : IsActive(q)' =>
                 \/ nextSeq'[q] = 0 /\ Fresh(q)
                 \/ IsActive(q) /\ nextSeq'[q] = nextSeq[q]
<1>1. /\ s \in Threads /\ UNCHANGED sinks
      /\ \A u \in Threads : u # s => task'[u] = task[u]
      /\ task[s].at \in {"idle", "begin", "end"}
      /\ task'[s].at \in {"idle", "begin", "end"}
  BY DEF Lifecycle, BeginCapture, EndCapture, Capture, BeginCommit, EndCommit,
         Threads, HubInv, TypeOK, Idle, Doing, Changing
<1>2. \A q \in Runtimes, u \in Threads : Emitting(u, q)' <=> Emitting(u, q)
  BY <1>1 DEF Emitting
<1>3. \A q \in Runtimes, u \in Threads : Emitting(u, q) => task'[u] = task[u]
  BY <1>1 DEF Emitting
<1>4. \A q \in Runtimes : Fresh(q)' => Fresh(q)
  <2>1. ASSUME NEW r \in Runtimes, BeginCapture(s, r), NEW q \in Runtimes, Fresh(q)'
        PROVE  Fresh(q)
    <3>1. \A u \in Sessions : u # s => task'[u] = task[u]
      BY <1>1 DEF Threads
    <3>2. task'[s].run = r /\ begun' = begun \cup {r} /\ r \notin begun
      BY <2>1 DEF BeginCapture, Capture, HubInv, TypeOK, Threads, Changing
    <3>3. QED
      BY <2>1, <3>1, <3>2 DEF Fresh
  <2>2. ASSUME begun' = begun, task'[s].at # "begin", NEW q \in Runtimes, Fresh(q)'
        PROVE  Fresh(q)
    BY <1>1, <2>2 DEF Fresh, Threads
  <2>3. ~(\E r \in Runtimes : BeginCapture(s, r)) => begun' = begun /\ task'[s].at # "begin"
    BY DEF Lifecycle, EndCapture, Capture, BeginCommit, EndCommit,
           Threads, HubInv, TypeOK, Idle, Doing, Changing
  <2>4. QED
    BY <2>1, <2>2, <2>3
<1>5. ASSUME NEW q \in Runtimes, IsActive(q)'
      PROVE  \/ nextSeq'[q] = 0 /\ Fresh(q)
             \/ IsActive(q) /\ nextSeq'[q] = nextSeq[q]
  <2>1. CASE UNCHANGED <<active, nextSeq>>
    BY <1>5, <2>1 DEF IsActive
  <2>2. CASE ForgetSession(s) /\ active' = [active EXCEPT ![s] = None]
    BY <1>5, <2>2 DEF IsActive, ForgetSession, HubInv, TypeOK, HubAssumption
  <2>3. CASE BeginCommit(s)
    <3>1. task[s].run \in Runtimes /\ Fresh(task[s].run) /\ SessionOf[task[s].run] = s
      BY <2>3 DEF BeginCommit, HubInv, TasksNameRuntimes, Threads, Fresh
    <3>2. QED
      BY <1>5, <2>3, <3>1 DEF BeginCommit, ForgetSession, IsActive, HubInv, TypeOK,
                             HubAssumption
  <2>4. QED
    BY <2>1, <2>2, <2>3 DEF Lifecycle, BeginCapture, EndCapture, Capture, EndCommit,
                            hubState
<1>6. QED
  BY <1>1, <1>2, <1>3, <1>4, <1>5

LEMMA NextSinks == ASSUME HubAssumption, HubInv, SinkInv, [Next]_vars PROVE SinkInv'
<1>1. CASE UNCHANGED vars
  <2>1. UNCHANGED <<sinks, nextSeq, active, task, begun>>
    BY <1>1 DEF vars, hubState
  <2>2. QED
    BY <2>1, QuietSinks DEF IsActive, InFlight, Emitting, Fresh
<1>2. ASSUME NEW t \in Threads, Emit(t) PROVE SinkInv'
  <2>1. ASSUME UNCHANGED <<sinks, nextSeq, active, begun>>,
               \A u \in Threads : u # t => task'[u] = task[u],
               task'[t].at # "begin",
               \A q \in Runtimes : Emitting(t, q)' <=> Emitting(t, q),
               task[t].at = "reduce" => task'[t].seq = task[t].seq,
               task[t].at \in {"idle", "enter", "reduce"}
        PROVE  SinkInv'
    <3>1. \A q \in Runtimes, u \in Threads : Emitting(u, q)' <=> Emitting(u, q)
      BY <2>1 DEF Emitting
    <3>2. \A q \in Runtimes, u \in Threads : Emitting(u, q) => task'[u].seq = task[u].seq
      BY <2>1 DEF Emitting
    <3>3. \A q \in Runtimes : InFlight(q)' = InFlight(q)
      BY <3>1, <3>2 DEF InFlight
    <3>4. \A q \in Runtimes : Fresh(q)' => Fresh(q)
      BY <2>1 DEF Fresh, Threads
    <3>5. QED
      BY <2>1, <3>1, <3>2, <3>3, <3>4, QuietSinks DEF IsActive
  <2>2. ASSUME NEW r \in Runtimes, EmitEnter(t, r) PROVE SinkInv'
    BY <2>1, <2>2 DEF EmitEnter, HubInv, TypeOK, Emitting, Idle, Doing
  <2>3. CASE EmitDrop(t)
    BY <2>1, <2>3 DEF EmitDrop, hubState, HubInv, TypeOK, Emitting, Idle, Doing
  <2>4. CASE EmitReduce(t)
    BY <2>1, <2>4 DEF EmitReduce, hubState, HubInv, TypeOK, Emitting, Doing
  <2>5. QED
    BY <1>2, <2>2, <2>3, <2>4, EmitSequenceSinks, EmitBroadcastSinks DEF Emit
<1>3. ASSUME NEW s \in Sessions, Lifecycle(s) PROVE SinkInv'
  <2>1. \A q \in Runtimes : InFlight(q)' = InFlight(q)
    BY <1>3, LifecycleBeside DEF InFlight
  <2>2. QED
    BY <1>3, <2>1, LifecycleBeside, QuietSinks
<1>4. ASSUME NEW c \in Clients, Connection(c) PROVE SinkInv'
  <2>1. CASE TaskStateChanged(c)
    <3>1. /\ UNCHANGED <<hubState, receiving, inbox, gap, resume, task, begun, reduced>>
          /\ receiving \cap subscribers \subseteq subscribers'
      BY <2>1 DEF TaskStateChanged
    <3>2. QED
      BY <3>1 DEF hubState, SinkInv, FreshIsUnseen, Fresh, NobodyAhead, IsActive, Emitting,
                  Sent, NothingLostUnannounced, Accounted, InFlight, DedupLosesNothing
  <2>2. QED
    BY <1>4, <2>1, SubscribeSinks, DropReceiverSinks
    DEF Connection, Unsubscribe, ConnectionLost
<1>5. QED
  BY <1>1, <1>2, <1>3, <1>4 DEF Next

-----------------------------------------------------------------------------
(* The theorems *)

\* The inductive invariant of the hub and of what its connections were sent.
THEOREM Inductive == ASSUME HubAssumption PROVE Spec => []IInv
<1>1. Init => IInv
  BY InitHub, InitSinks DEF IInv
<1>2. IInv /\ [Next]_vars => IInv'
  BY NextHub, NextSinks DEF IInv
<1>3. QED
  BY <1>1, <1>2, PTL DEF Spec

\* Hub's maps keep their types, and no journal outgrows the replay limit.
THEOREM HubTypes == ASSUME HubAssumption PROVE Spec => []TypeOK
<1>1. IInv => TypeOK
  BY DEF IInv, HubInv
<1>2. QED
  BY <1>1, Inductive, PTL

\* subscribe's journal replay and emit's broadcast together lose no event of an
\* active runtime without a ReplayGap notice.
THEOREM NothingLost == ASSUME HubAssumption PROVE Spec => []NothingLostUnannounced
<1>1. IInv => NothingLostUnannounced
  BY DEF IInv, SinkInv
<1>2. QED
  BY <1>1, Inductive, PTL

\* A client that drops events at or below its cursor drops only events which
\* subscribe or emit had sent it before.
THEOREM DedupIsSafe == ASSUME HubAssumption PROVE Spec => []DedupLosesNothing
<1>1. IInv => DedupLosesNothing
  BY DEF IInv, SinkInv
<1>2. QED
  BY <1>1, Inductive, PTL

\* emit's eviction keeps the journal the contiguous newest tail, so that its
\* front is the oldest recoverable event, as subscribe takes it.
THEOREM JournalTail == ASSUME HubAssumption PROVE Spec => []JournalIsNewestTail
<1>1. IInv => JournalIsNewestTail
  BY DEF IInv, HubInv
<1>2. QED
  BY <1>1, Inductive, PTL

\* begin_runtime and end_runtime leave no lock, counter or journal of a runtime
\* that is not the session's active one, and no late emit brings one back.
THEOREM NoStateBehind == ASSUME HubAssumption PROVE Spec => []OnlyActiveRuntimeHasState
<1>1. IInv => OnlyActiveRuntimeHasState
  BY DEF IInv, HubInv
<1>2. QED
  BY <1>1, Inductive, PTL

\* The backend's handle_runtime_event runs in the order of the sequences emit
\* assigned, even across the end of the runtime.
THEOREM ReducedInOrder == ASSUME HubAssumption PROVE Spec => ReducedInSequence
<1>1. ASSUME HubInv, [Next]_vars, NEW r \in Runtimes, reduced'[r] # reduced[r]
      PROVE  reduced'[r] = reduced[r] + 1
  <2>1. PICK t \in Threads : EmitReduce(t)
    BY <1>1 DEF Next, vars, Emit, EmitEnter, EmitSequence, EmitDrop, EmitBroadcast,
                Lifecycle, BeginCapture, EndCapture, Capture, BeginCommit, EndCommit,
                Connection, Subscribe, Unsubscribe, ConnectionLost, DropReceiver,
                TaskStateChanged
  <2>2. task[t].run = r /\ reduced'[r] = task[t].seq
    BY <1>1, <2>1 DEF EmitReduce, HubInv, TypeOK
  <2>3. r \in Runtimes \ Terminals
    BY <1>1, <2>1, <2>2 DEF EmitReduce, Replayable, HubInv, TasksNameRuntimes
  <2>4. QED
    BY <1>1, <2>1, <2>2, <2>3 DEF EmitReduce, HubInv, ReducedKeepsUp
<1>2. HubInv /\ [Next]_vars => [\A r \in Runtimes :
          reduced'[r] # reduced[r] => reduced'[r] = reduced[r] + 1]_vars
  BY <1>1
<1>3. QED
  BY <1>2, HubInvariant, PTL DEF Spec, ReducedInSequence

-----------------------------------------------------------------------------
(* The barrier of begin_runtime and end_runtime *)

LEMMA BarrierInit == ASSUME HubAssumption, Init PROVE BarrierInv
BY DEF Init, BarrierInv, Entered, Idle, Doing, Threads

\* Emission makes the lock before it numbers, and takes none away.
LEMMA EmitBarrier ==
    ASSUME HubAssumption, HubInv, BarrierInv, NEW t \in Threads, Emit(t)
    PROVE  BarrierInv'
<1> USE DEF HubInv, TypeOK
<1>1. /\ active' = active /\ begun' = begun /\ locks \subseteq locks'
      /\ \A u \in Threads : u # t => task'[u] = task[u]
      /\ task[t].at \notin {"begin", "end"} /\ task'[t].at \notin {"begin", "end"}
  BY DEF Emit, EmitEnter, EmitSequence, EmitDrop, EmitReduce, EmitBroadcast, hubState,
         Idle, Doing
<1>2. \A r \in Runtimes : (IsActive(r)' <=> IsActive(r)) /\ (Fresh(r)' => Fresh(r))
  BY <1>1 DEF IsActive, Fresh, Threads
<1>3. \A r \in Runtimes : nextSeq'[r] > 0 => r \in locks'
  <2>1. CASE EmitSequence(t)
    <3>1. /\ task[t].run \in Runtimes /\ IsActive(task[t].run)
          /\ t \in Entered(task[t].run)
      BY <2>1 DEF EmitSequence, TasksNameRuntimes, Entered
    <3>2. task[t].run \in locks
      BY <3>1 DEF BarrierInv
    <3>3. QED
      BY <1>1, <2>1, <3>1, <3>2 DEF EmitSequence, BarrierInv
  <2>2. CASE ~EmitSequence(t)
    <3>1. nextSeq' = nextSeq
      BY <2>2 DEF Emit, EmitEnter, EmitDrop, EmitReduce, EmitBroadcast, hubState
    <3>2. QED
      BY <1>1, <3>1 DEF BarrierInv
  <2>3. QED
    BY <2>1, <2>2
<1>4. ASSUME NEW q \in Runtimes, Entered(q)' # {}
      PROVE  ~Fresh(q)' /\ (IsActive(q)' => q \in locks')
  <2>1. CASE t \in Entered(q)'
    <3>1. PICK r \in Runtimes : EmitEnter(t, r)
      BY <2>1 DEF Emit, EmitSequence, EmitDrop, EmitReduce, EmitBroadcast, Idle, Doing, Entered
    <3>2. q = r /\ r \in locks' /\ IsActive(r)
      BY <2>1, <3>1 DEF EmitEnter, Doing, Entered
    <3>3. QED
      BY <1>2, <3>2 DEF FreshIsBlank
  <2>2. CASE t \notin Entered(q)'
    <3>1. Entered(q) # {}
      BY <1>1, <1>4, <2>2 DEF Entered
    <3>2. QED
      BY <1>1, <1>2, <3>1 DEF BarrierInv
  <2>3. QED
    BY <2>1, <2>2
<1>5. \A s \in Sessions : task'[s].at \in {"begin", "end"} /\ task'[s].seq > 0
          => task'[s].lock = active'[s]
  BY <1>1 DEF BarrierInv, Threads
<1>6. QED
  BY <1>3, <1>4, <1>5 DEF BarrierInv

\* A step of the worker enters nobody.
LEMMA LifecycleEnters ==
    ASSUME NEW s \in Threads, \A u \in Threads : u # s => task'[u] = task[u],
           task'[s].at # "enter", NEW q \in Runtimes
    PROVE  Entered(q)' # {} => Entered(q) # {}
BY DEF Entered

\* What a begin or an end has found: a runtime that has numbered has its lock.
LEMMA CaptureBarrier ==
    ASSUME HubAssumption, HubInv, BarrierInv, NEW s \in Sessions,
           NEW r \in Runtimes \cup {None}, NEW op \in {"begin", "end"}, Capture(s, op, r),
           \A q \in Runtimes : Fresh(q)' => Fresh(q)
    PROVE  BarrierInv'
<1> USE DEF HubInv, TypeOK
<1>1. /\ s \in Threads /\ UNCHANGED <<active, locks, nextSeq>>
      /\ \A u \in Threads : u # s => task'[u] = task[u]
      /\ task'[s].at = op
      /\ task'[s].lock = CurrentLock(s) /\ task'[s].seq = NumberedBefore(s)
  BY DEF Capture, Changing, Threads, hubState
<1>2. NumberedBefore(s) > 0 => CurrentLock(s) = active[s]
  BY DEF NumberedBefore, CurrentLock, BarrierInv
<1>3. \A q \in Runtimes : IsActive(q)' <=> IsActive(q)
  BY <1>1 DEF IsActive
<1>4. \A q \in Runtimes : Entered(q)' # {} => ~Fresh(q)' /\ (IsActive(q)' => q \in locks')
  BY <1>1, <1>3, LifecycleEnters DEF BarrierInv
<1>5. \A u \in Sessions : task'[u].at \in {"begin", "end"} /\ task'[u].seq > 0
          => task'[u].lock = active'[u]
  BY <1>1, <1>2 DEF BarrierInv, Threads
<1>6. QED
  BY <1>1, <1>4, <1>5 DEF BarrierInv

\* The runtime that a commit makes active is one that nobody has entered for.
LEMMA CommitBarrier ==
    ASSUME HubAssumption, HubInv, BarrierInv, NEW s \in Sessions, NEW r \in Runtimes \cup {None},
           active' = [active EXCEPT ![s] = r], ForgetSession(s),
           task' = [task EXCEPT ![s] = Idle],
           r # None => Fresh(r) /\ SessionOf[r] = s,
           \A q \in Runtimes : Fresh(q)' => Fresh(q)
    PROVE  BarrierInv'
<1> USE DEF HubInv, TypeOK
<1>1. /\ s \in Threads /\ task'[s].at = "idle"
      /\ \A u \in Threads : u # s => task'[u] = task[u]
      /\ \A u \in Sessions : u # s => active'[u] = active[u]
  BY DEF Threads, Idle, Doing
<1>2. ASSUME NEW q \in Runtimes, SessionOf[q] # s
      PROVE  /\ IsActive(q)' <=> IsActive(q)
             /\ q \in locks => q \in locks'
             /\ nextSeq'[q] = nextSeq[q]
  BY <1>2 DEF IsActive, ForgetSession, OfSession, HubAssumption
<1>3. ASSUME NEW q \in Runtimes, SessionOf[q] = s
      PROVE  (IsActive(q)' => q = r) /\ nextSeq'[q] = 0
  <2>1. r \in Runtimes \/ r = None
    OBVIOUS
  <2>2. QED
    BY <1>3, <2>1 DEF IsActive, ForgetSession, HubAssumption
<1>4. ASSUME NEW q \in Runtimes, nextSeq'[q] > 0 PROVE q \in locks'
  <2>1. SessionOf[q] # s
    BY <1>3, <1>4
  <2>2. QED
    BY <1>2, <1>4, <2>1 DEF BarrierInv
<1>5. ASSUME NEW q \in Runtimes, Entered(q)' # {}
      PROVE  ~Fresh(q)' /\ (IsActive(q)' => q \in locks')
  <2>1. Entered(q) # {}
    BY <1>1, <1>5, LifecycleEnters
  <2>2. ~Fresh(q) /\ (IsActive(q) => q \in locks)
    BY <2>1 DEF BarrierInv
  <2>3. IsActive(q)' => q \in locks'
    <3>1. CASE SessionOf[q] = s
      BY <1>3, <2>2, <3>1 DEF HubAssumption
    <3>2. CASE SessionOf[q] # s
      BY <1>2, <2>2, <3>2
    <3>3. QED
      BY <3>1, <3>2
  <2>4. QED
    BY <2>2, <2>3
<1>6. \A u \in Sessions : task'[u].at \in {"begin", "end"} /\ task'[u].seq > 0
          => task'[u].lock = active'[u]
  BY <1>1 DEF BarrierInv, Threads
<1>7. QED
  BY <1>4, <1>5, <1>6 DEF BarrierInv

LEMMA BarrierNext == ASSUME HubAssumption, HubInv, BarrierInv, [Next]_vars PROVE BarrierInv'
<1>1. ASSUME UNCHANGED <<active, locks, nextSeq, task, begun>> PROVE BarrierInv'
  BY <1>1 DEF BarrierInv, Entered, Fresh, IsActive
<1>2. CASE \E t \in Threads : Emit(t)
  BY <1>2, EmitBarrier
<1>3. ASSUME NEW s \in Sessions, Lifecycle(s) PROVE BarrierInv'
  <2>1. \A q \in Runtimes : Fresh(q)' => Fresh(q)
    BY <1>3, LifecycleBeside
  <2>2. CASE \E r \in Runtimes : BeginCapture(s, r)
    BY <2>1, <2>2, CaptureBarrier DEF BeginCapture
  <2>3. CASE \E r \in Runtimes \cup {None} : EndCapture(s, r)
    BY <2>1, <2>3, CaptureBarrier DEF EndCapture
  <2>4. CASE BeginCommit(s)
    <3>1. task[s].run \in Runtimes /\ Fresh(task[s].run) /\ SessionOf[task[s].run] = s
      BY <2>4 DEF BeginCommit, HubInv, TasksNameRuntimes, Threads, Fresh
    <3>2. QED
      BY <2>1, <2>4, <3>1, CommitBarrier DEF BeginCommit
  <2>5. CASE EndCommit(s)
    <3>1. CASE task[s].run \in {None, active[s]}
      BY <2>1, <2>5, <3>1, CommitBarrier DEF EndCommit
    <3>2. CASE task[s].run \notin {None, active[s]}
      <4>1. /\ UNCHANGED <<active, locks, nextSeq>> /\ s \in Threads
            /\ \A u \in Threads : u # s => task'[u] = task[u]
            /\ task'[s].at = "idle"
        BY <2>5, <3>2 DEF EndCommit, hubState, HubInv, TypeOK, Threads, Idle, Doing
      <4>2. \A q \in Runtimes : IsActive(q)' <=> IsActive(q)
        BY <4>1 DEF IsActive
      <4>3. \A q \in Runtimes :
                Entered(q)' # {} => ~Fresh(q)' /\ (IsActive(q)' => q \in locks')
        BY <2>1, <4>1, <4>2, LifecycleEnters DEF BarrierInv
      <4>4. QED
        BY <4>1, <4>3 DEF BarrierInv, Threads
    <3>3. QED
      BY <3>1, <3>2
  <2>6. QED
    BY <1>3, <2>2, <2>3, <2>4, <2>5 DEF Lifecycle
<1>4. CASE \E c \in Clients : Connection(c)
  BY <1>1, <1>4 DEF Connection, Subscribe, Unsubscribe, ConnectionLost, DropReceiver,
                    TaskStateChanged, hubState
<1>5. CASE UNCHANGED vars
  BY <1>1, <1>5 DEF vars, hubState
<1>6. QED
  BY <1>2, <1>3, <1>4, <1>5 DEF Next

\* The event lock exists before the first event is numbered and as long as the
\* runtime is active, and what a begin or an end has found stays active.
THEOREM BarrierInvariant == ASSUME HubAssumption PROVE Spec => []BarrierInv
<1>1. Init => BarrierInv
  BY BarrierInit
<1>2. HubInv /\ BarrierInv /\ [Next]_vars => BarrierInv'
  BY BarrierNext
<1>3. QED
  BY <1>1, <1>2, HubInvariant, PTL DEF Spec

\* A runtime that had numbered an event when its replacement or its end began is
\* left only while none of its events is between numbering and broadcast.
THEOREM BarrierHolds == ASSUME HubAssumption PROVE Spec => ChangesBetweenEvents
<1>1. ASSUME HubInv, BarrierInv, [Next]_vars, NEW s \in Sessions, active'[s] # active[s],
             active[s] # None, task[s].seq > 0
      PROVE  InFlight(active[s]) = {}
  <2>1. PICK u \in Sessions : BeginCommit(u) \/ EndCommit(u)
    BY <1>1 DEF Next, vars, hubState, Emit, EmitEnter, EmitSequence, EmitDrop, EmitReduce,
                EmitBroadcast, Lifecycle, BeginCapture, EndCapture, Capture, Connection,
                Subscribe, Unsubscribe, ConnectionLost, DropReceiver, TaskStateChanged
  <2>2. u = s /\ BarrierPassed(s) /\ task[s].at \in {"begin", "end"}
    BY <1>1, <2>1 DEF BeginCommit, EndCommit, hubState, HubInv, TypeOK
  <2>3. task[s].lock = active[s]
    BY <1>1, <2>2 DEF BarrierInv
  <2>4. EventLockFree(active[s])
    BY <1>1, <2>2, <2>3 DEF BarrierPassed
  <2>5. QED
    BY <2>4 DEF InFlight, EventLockFree
<1>2. HubInv /\ BarrierInv /\ [Next]_vars => [\A s \in Sessions :
          active'[s] # active[s] /\ active[s] # None /\ task[s].seq > 0
              => InFlight(active[s]) = {}]_vars
  BY <1>1
<1>3. QED
  BY <1>2, HubInvariant, BarrierInvariant, PTL DEF Spec, ChangesBetweenEvents

-----------------------------------------------------------------------------
(* What the refinement needs besides *)

LEMMA InitFeed == ASSUME HubAssumption, Init PROVE FeedInv
<1>1. \A t \in Threads : task[t].at = "idle"
  BY DEF Init, Idle, Doing
<1>2. \A c \in Clients, r \in Runtimes :
          Sent(c, r) = {} /\ resume[c][r] = 0 /\ gap[c][r] = 0 /\ nextSeq[r] = 0
  BY DEF Init, Sent
<1>3. QED
  BY <1>1, <1>2 DEF FeedInv

\* Whatever sends nothing and numbers on leaves the bounds in place.
LEMMA QuietFeed ==
    ASSUME HubAssumption, HubInv, FeedInv, HubInv',
           UNCHANGED <<inbox, gap, resume>>,
           \A t \in Threads : task'[t].at \in {"reduce", "broadcast"} => task'[t].seq > 0,
           \A r \in Runtimes : IsActive(r)' =>
               \/ Fresh(r)
               \/ IsActive(r) /\ nextSeq[r] <= nextSeq'[r],
           \A r \in Runtimes : Fresh(r)' => Fresh(r)
    PROVE  FeedInv'
<1>1. ASSUME NEW c \in Clients, NEW r \in Runtimes
      PROVE  /\ \A n \in Sent(c, r)' : n > 0
             /\ IsActive(r)' => resume'[c][r] <= nextSeq'[r] /\ gap'[c][r] <= nextSeq'[r]
             /\ Fresh(r)' => resume'[c][r] = 0 /\ gap'[c][r] = 0
  <2>1. Sent(c, r)' = Sent(c, r) /\ resume' = resume /\ gap' = gap
    BY DEF Sent
  <2>2. /\ resume[c][r] \in Nat /\ gap[c][r] \in Nat
        /\ nextSeq[r] \in Nat /\ nextSeq'[r] \in Nat
    BY DEF HubInv, TypeOK
  <2>3. CASE Fresh(r)
    BY <2>1, <2>2, <2>3 DEF FeedInv
  <2>4. CASE ~Fresh(r)
    BY <2>1, <2>2, <2>4 DEF FeedInv
  <2>5. QED
    BY <2>3, <2>4
<1>2. QED
  BY <1>1 DEF FeedInv

\* The steps of a connection.
LEMMA ConnectionFeed ==
    ASSUME HubAssumption, HubInv, FeedInv, NEW c \in Clients, Connection(c)
    PROVE  FeedInv'
<1>1. UNCHANGED <<active, nextSeq, task, begun>>
  BY DEF Connection, Subscribe, Unsubscribe, ConnectionLost, DropReceiver,
         TaskStateChanged, hubState
<1>2. ASSUME NEW d \in Clients, NEW r \in Runtimes
      PROVE  /\ \A n \in Sent(d, r)' : n > 0
             /\ IsActive(r) => resume'[d][r] <= nextSeq[r] /\ gap'[d][r] <= nextSeq[r]
             /\ Fresh(r) => resume'[d][r] = 0 /\ gap'[d][r] = 0
  <2>1. CASE inbox'[d] = inbox[d] /\ gap'[d] = gap[d] /\ resume'[d] = resume[d]
    BY <2>1 DEF FeedInv, Sent
  <2>2. CASE inbox'[d][r] = <<>> /\ gap'[d][r] = 0 /\ resume'[d][r] = 0
    BY <2>2 DEF Sent, HubInv, TypeOK
  <2>3. ASSUME NEW cursor \in Cursors, Subscribe(c, cursor), d = c
        PROVE  /\ \A n \in Sent(d, r)' : n > 0
               /\ IsActive(r) => resume'[d][r] <= nextSeq[r] /\ gap'[d][r] <= nextSeq[r]
               /\ Fresh(r) => resume'[d][r] = 0 /\ gap'[d][r] = 0
    <3>1. /\ inbox'[c][r] = Replay(journal[r], cursor[r])
          /\ gap'[c][r] = Missed(journal[r], cursor[r])
          /\ resume'[c][r] = cursor[r]
          /\ cursor[r] \in Nat /\ cursor[r] <= nextSeq[r] /\ nextSeq[r] \in Nat
      BY <2>3 DEF Subscribe, HubInv, TypeOK, Cursors
    <3>2. /\ gap'[c][r] \in Nat /\ gap'[c][r] <= nextSeq[r]
          /\ \A i \in DOMAIN inbox'[c][r] : inbox'[c][r][i] \in 1..nextSeq[r]
      BY <3>1, ReplayOfJournal
    <3>3. \A n \in Sent(c, r)' : n > 0
      BY <3>1, <3>2 DEF Sent
    <3>4. Fresh(r) => nextSeq[r] = 0
      BY DEF HubInv, FreshIsBlank, OnlyActiveRuntimeHasState
    <3>5. QED
      BY <2>3, <3>1, <3>2, <3>3, <3>4
  <2>4. \/ inbox'[d] = inbox[d] /\ gap'[d] = gap[d] /\ resume'[d] = resume[d]
        \/ inbox'[d][r] = <<>> /\ gap'[d][r] = 0 /\ resume'[d][r] = 0
        \/ d = c /\ \E cursor \in Cursors : Subscribe(c, cursor)
    <3>1. ASSUME NEW cursor \in Cursors, Subscribe(c, cursor), d # c
          PROVE  inbox'[d] = inbox[d] /\ gap'[d] = gap[d] /\ resume'[d] = resume[d]
      BY <3>1 DEF Subscribe, HubInv, TypeOK
    <3>2. CASE DropReceiver(c)
      BY <3>2 DEF DropReceiver, HubInv, TypeOK
    <3>3. CASE TaskStateChanged(c)
      BY <3>3 DEF TaskStateChanged
    <3>4. QED
      BY <3>1, <3>2, <3>3 DEF Connection, Unsubscribe, ConnectionLost
  <2>5. QED
    BY <2>1, <2>2, <2>3, <2>4
<1>3. \A r \in Runtimes : (IsActive(r)' <=> IsActive(r)) /\ (Fresh(r)' <=> Fresh(r))
  BY <1>1 DEF IsActive, Fresh
<1>4. QED
  BY <1>1, <1>2, <1>3 DEF FeedInv

\* An event that is sent was numbered, so it counts from one.
LEMMA EmitFeed ==
    ASSUME HubAssumption, HubInv, FeedInv, HubInv', NEW t \in Threads, Emit(t)
    PROVE  FeedInv'
<1>1. /\ UNCHANGED <<active, gap, resume, begun>>
      /\ \A u \in Threads : u # t => task'[u] = task[u]
      /\ task'[t].at # "begin"
      /\ \A r \in Runtimes : nextSeq[r] <= nextSeq'[r]
      /\ task'[t].at \in {"reduce", "broadcast"} => task'[t].seq > 0
  <2>1. ASSUME NEW r \in Runtimes, EmitEnter(t, r)
        PROVE  /\ UNCHANGED <<active, gap, resume, begun>>
               /\ \A u \in Threads : u # t => task'[u] = task[u]
               /\ task'[t].at # "begin"
               /\ \A q \in Runtimes : nextSeq[q] <= nextSeq'[q]
               /\ task'[t].at \in {"reduce", "broadcast"} => task'[t].seq > 0
    BY <2>1 DEF EmitEnter, sinks, HubInv, TypeOK, Doing
  <2>2. CASE EmitSequence(t)
    <3>1. PICK r \in Runtimes : r = task[t].run
      BY <2>2 DEF EmitSequence, HubInv, TasksNameRuntimes
    <3>2. QED
      BY <2>2, <3>1 DEF EmitSequence, sinks, HubInv, TypeOK, Doing
  <2>3. CASE EmitDrop(t)
    BY <2>3 DEF EmitDrop, hubState, sinks, HubInv, TypeOK, Doing, Idle
  <2>4. CASE EmitReduce(t)
    BY <2>4 DEF EmitReduce, hubState, sinks, HubInv, TypeOK, Doing, FeedInv
  <2>5. ASSUME NEW changed \in BOOLEAN, EmitBroadcast(t, changed)
        PROVE  /\ UNCHANGED <<active, gap, resume, begun>>
               /\ \A u \in Threads : u # t => task'[u] = task[u]
               /\ task'[t].at # "begin"
               /\ \A q \in Runtimes : nextSeq[q] <= nextSeq'[q]
               /\ task'[t].at \in {"reduce", "broadcast"} => task'[t].seq > 0
    BY <2>5 DEF EmitBroadcast, hubState, HubInv, TypeOK, Doing, Idle
  <2>6. QED
    BY <2>1, <2>2, <2>3, <2>4, <2>5 DEF Emit
<1>2. \A r \in Runtimes : (IsActive(r)' <=> IsActive(r)) /\ (Fresh(r)' => Fresh(r))
  BY <1>1 DEF IsActive, Fresh, Threads
<1>3. \A u \in Threads : task'[u].at \in {"reduce", "broadcast"} => task'[u].seq > 0
  BY <1>1 DEF FeedInv
<1>4. CASE inbox' = inbox
  BY <1>1, <1>2, <1>3, <1>4, QuietFeed
<1>5. ASSUME NEW changed \in BOOLEAN, EmitBroadcast(t, changed) PROVE FeedInv'
  <2>1. PICK r \in Runtimes, n \in Nat :
            r = task[t].run /\ n = task[t].seq /\ task[t].at = "broadcast" /\ n > 0
    BY <1>5 DEF EmitBroadcast, HubInv, TypeOK, TaskStates, TasksNameRuntimes, FeedInv
  <2>2. ASSUME NEW c \in Clients, NEW q \in Runtimes
        PROVE  inbox'[c][q] \in {inbox[c][q], Append(inbox[c][q], n)}
    BY <1>5, <2>1 DEF EmitBroadcast, HubInv, TypeOK
  <2>3. ASSUME NEW c \in Clients, NEW q \in Runtimes
        PROVE  \A m \in Sent(c, q)' : m > 0
    <3>0. inbox[c][q] \in Seq(Nat)
      BY DEF HubInv, TypeOK
    <3>1. PICK s \in Seq(Nat) : s = inbox[c][q]
      BY <3>0
    <3>2. \A m \in {s[i] : i \in DOMAIN s} : m > 0
      BY <3>1 DEF FeedInv, Sent
    <3>3. {Append(s, n)[i] : i \in DOMAIN Append(s, n)} = {s[i] : i \in DOMAIN s} \cup {n}
      BY RangeOfAppend
    <3>4. CASE inbox'[c][q] = s
      BY <3>1, <3>2, <3>4 DEF Sent
    <3>5. CASE inbox'[c][q] = Append(s, n)
      <4>1. Sent(c, q)' = {Append(s, n)[i] : i \in DOMAIN Append(s, n)}
        BY <3>5, Zenon DEF Sent
      <4>2. QED
        BY <2>1, <3>2, <3>3, <4>1
    <3>6. QED
      BY <2>2, <3>1, <3>4, <3>5
  <2>4. nextSeq' = nextSeq
    BY <1>5 DEF EmitBroadcast, hubState
  <2>5. QED
    BY <1>1, <1>2, <1>3, <2>3, <2>4 DEF FeedInv
<1>6. QED
  BY <1>4, <1>5 DEF Emit, EmitEnter, EmitSequence, EmitDrop, EmitReduce, sinks

LEMMA NextFeed ==
    ASSUME HubAssumption, HubInv, FeedInv, [Next]_vars
    PROVE  FeedInv'
<1>1. HubInv'
  BY NextHub
<1>2. CASE UNCHANGED vars
  BY <1>2 DEF vars, hubState, sinks, FeedInv, Sent, IsActive, Fresh
<1>3. ASSUME NEW s \in Sessions, Lifecycle(s) PROVE FeedInv'
  <2>1. \A t \in Threads : task'[t].at \in {"reduce", "broadcast"} => task'[t].seq > 0
    BY <1>3, LifecycleBeside DEF FeedInv
  <2>2. \A r \in Runtimes : IsActive(r)' => \/ Fresh(r)
                                            \/ IsActive(r) /\ nextSeq[r] <= nextSeq'[r]
    BY <1>3, LifecycleBeside DEF HubInv, TypeOK
  <2>3. QED
    BY <1>1, <1>3, <2>1, <2>2, LifecycleBeside, QuietFeed DEF sinks
<1>4. QED
  BY <1>1, <1>2, <1>3, EmitFeed, ConnectionFeed DEF Next

THEOREM FeedInvariant == ASSUME HubAssumption PROVE Spec => []FeedInv
<1>1. Init => FeedInv
  BY InitFeed
<1>2. HubInv /\ FeedInv /\ [Next]_vars => FeedInv'
  BY NextFeed
<1>3. QED
  BY <1>1, <1>2, HubInvariant, PTL DEF Spec


-----------------------------------------------------------------------------
(* The hub implements EventFeed *)

\* What a connection accounts for is exactly what was numbered, but for the
\* event that is being delivered.
LEMMA HeardWhole ==
    ASSUME HubAssumption, HubInv, SinkInv, FeedInv,
           NEW c \in receiving, NEW r \in Live, EventLockFree(r)
    PROVE  Accounted(c, r) = 1..nextSeq[r]
<1>1. c \in Clients /\ r \in Runtimes /\ r \notin Terminals /\ IsActive(r)
  BY DEF Live, Journaled, HubInv, TypeOK
<1>2. /\ nextSeq[r] \in Nat /\ resume[c][r] \in Nat /\ gap[c][r] \in Nat
      /\ resume[c][r] <= nextSeq[r] /\ gap[c][r] <= nextSeq[r]
  BY <1>1 DEF HubInv, TypeOK, FeedInv
<1>3. InFlight(r) = {}
  BY DEF InFlight, EventLockFree
<1>4. \A n \in Sent(c, r) : n \in 1..nextSeq[r]
  <2>1. \A n \in Sent(c, r) : n \in Nat
    <3>1. inbox[c][r] \in Seq(Nat)
      BY <1>1 DEF HubInv, TypeOK
    <3>2. QED
      BY <3>1 DEF Sent
  <2>2. QED
    BY <1>1, <1>2, <2>1 DEF SinkInv, NobodyAhead, FeedInv
<1>5. 1..nextSeq[r] \subseteq Accounted(c, r)
  BY <1>1, <1>3 DEF SinkInv, NothingLostUnannounced
<1>6. QED
  BY <1>2, <1>4, <1>5 DEF Accounted

\* A step that changes nothing the abstract feed speaks of.
LEMMA SameFeed ==
    ASSUME Live' = Live, receiving' = receiving,
           \A r \in Journaled : nextSeq'[r] = nextSeq[r],
           \A r \in Live : reduced'[r] = reduced[r],
           \A r \in Live, c \in receiving : Accounted(c, r)' = Accounted(c, r)
    PROVE  UNCHANGED Feed!vars
<1>1. Numbered' = Numbered
  BY DEF Numbered
<1>2. Taken' = Taken
  BY DEF Taken
<1>3. Heard' = Heard
  BY DEF Heard
<1>4. QED
  BY <1>1, <1>2, <1>3 DEF Feed!vars

\* emit numbers an event once the one before it was reduced and sent.
LEMMA NumberStep ==
    ASSUME HubAssumption, HubInv, SinkInv, FeedInv, NEW t \in Threads, EmitSequence(t)
    PROVE  [Feed!Next]_(Feed!vars)
<1>1. PICK r \in Runtimes :
          /\ r = task[t].run /\ EventLockFree(r) /\ IsActive(r)
          /\ nextSeq' = [nextSeq EXCEPT ![r] = nextSeq[r] + 1]
  BY DEF EmitSequence, HubInv, TasksNameRuntimes
<1>2. UNCHANGED <<active, receiving, inbox, gap, resume, reduced>>
  BY DEF EmitSequence, sinks
<1>3. Live' = Live
  BY <1>2 DEF Live, IsActive
<1>4. \A q \in Runtimes, c \in Clients : Accounted(c, q)' = Accounted(c, q)
  BY <1>2 DEF Accounted, Sent
<1>5. receiving \subseteq Clients
  BY DEF HubInv, TypeOK
<1>6. CASE r \in Terminals
  <2>1. \A q \in Journaled : nextSeq'[q] = nextSeq[q]
    BY <1>1, <1>6 DEF Journaled, HubInv, TypeOK
  <2>2. UNCHANGED Feed!vars
    BY <1>2, <1>3, <1>4, <1>5, <2>1, SameFeed DEF Live, Journaled
  <2>3. QED
    BY <2>2
<1>7. CASE r \notin Terminals
  <2>1. r \in Journaled /\ r \in Live
    BY <1>1, <1>7 DEF Journaled, Live
  <2>2. reduced[r] = nextSeq[r]
    BY <1>1, <1>7 DEF HubInv, ReducedKeepsUp, EventLockFree, Emitting
  <2>3. Taken[r] = Numbered[r]
    BY <2>1, <2>2 DEF Taken, Numbered
  <2>4. \A c \in receiving : Heard[c][r] = 1..Numbered[r]
    BY <1>1, <1>5, <2>1, HeardWhole DEF Heard, Numbered
  <2>5. Numbered' = [Numbered EXCEPT ![r] = Numbered[r] + 1]
    BY <1>1, <2>1 DEF Numbered, Journaled, HubInv, TypeOK
  <2>6. Taken' = Taken /\ Heard' = Heard
    BY <1>2, <1>3, <1>4 DEF Taken, Heard, Journaled
  <2>7. Feed!Number(r)
    BY <1>2, <1>3, <2>1, <2>3, <2>4, <2>5, <2>6 DEF Feed!Number
  <2>8. QED
    BY <2>1, <2>7 DEF Feed!Next
<1>8. QED
  BY <1>6, <1>7

\* The backend takes the event that was numbered last.
LEMMA TakeStep ==
    ASSUME HubAssumption, HubInv, NEW t \in Threads, EmitReduce(t)
    PROVE  [Feed!Next]_(Feed!vars)
<1>1. PICK r \in Runtimes :
          /\ r = task[t].run /\ task[t].at = "reduce" /\ r \notin Terminals
          /\ reduced' = [reduced EXCEPT ![r] = task[t].seq]
          /\ task[t].seq = reduced[r] + 1
          /\ IsActive(r) => task[t].seq = nextSeq[r]
  <2>1. /\ task[t].at = "reduce" /\ task[t].run \in Runtimes \ Terminals
        /\ Emitting(t, task[t].run)
    BY DEF EmitReduce, HubInv, TasksNameRuntimes, Replayable, Emitting
  <2>2. /\ task[t].seq = reduced[task[t].run] + 1
        /\ IsActive(task[t].run) => task[t].seq = nextSeq[task[t].run]
    BY <2>1 DEF HubInv, OneDelivery, ReducedKeepsUp
  <2>3. QED
    BY <2>1, <2>2 DEF EmitReduce
<1>2. UNCHANGED <<active, nextSeq, receiving, inbox, gap, resume>>
  BY DEF EmitReduce, hubState, sinks
<1>3. Live' = Live
  BY <1>2 DEF Live, IsActive
<1>4. \A q \in Runtimes, c \in Clients : Accounted(c, q)' = Accounted(c, q)
  BY <1>2 DEF Accounted, Sent
<1>5. Numbered' = Numbered /\ Heard' = Heard
  BY <1>2, <1>3, <1>4 DEF Numbered, Heard, Journaled
<1>6. CASE r \in Live
  <2>1. r \in Journaled /\ IsActive(r)
    BY <1>6 DEF Live
  <2>2. reduced \in [Runtimes -> Nat]
    BY DEF HubInv, TypeOK
  <2>3. Taken[r] < Numbered[r] /\ Numbered[r] = task[t].seq
    BY <1>1, <1>6, <2>1, <2>2 DEF Taken, Numbered
  <2>4. Taken' = [Taken EXCEPT ![r] = Numbered[r]]
    BY <1>1, <1>3, <1>6, <2>1, <2>2, <2>3 DEF Taken, Journaled
  <2>5. Feed!Take(r)
    BY <1>2, <1>3, <1>5, <1>6, <2>3, <2>4 DEF Feed!Take
  <2>6. QED
    BY <2>1, <2>5 DEF Feed!Next
<1>7. CASE r \notin Live
  <2>1. Taken' = Taken
    BY <1>1, <1>3, <1>7 DEF Taken, HubInv, TypeOK, Journaled
  <2>2. QED
    BY <1>2, <1>3, <1>5, <2>1 DEF Feed!vars
<1>8. QED
  BY <1>6, <1>7

\* A broadcast is heard by everybody, also by who was replayed the event.
LEMMA DeliverStep ==
    ASSUME HubAssumption, HubInv, SinkInv, FeedInv, HubInv', SinkInv', FeedInv',
           NEW t \in Threads, NEW changed \in BOOLEAN, EmitBroadcast(t, changed)
    PROVE  [Feed!Next]_(Feed!vars)
<1>1. PICK r \in Runtimes : r = task[t].run /\ task[t].at = "broadcast"
  BY DEF EmitBroadcast, HubInv, TasksNameRuntimes
<1>2. /\ UNCHANGED <<active, nextSeq, receiving, gap, resume, reduced>>
      /\ \A u \in Threads : u # t => task'[u] = task[u]
      /\ task'[t] = Doing("idle", None, 0)
      /\ \A c \in Clients, q \in Runtimes : q # r => inbox'[c][q] = inbox[c][q]
  BY <1>1 DEF EmitBroadcast, hubState, HubInv, TypeOK, Idle
<1>3. Live' = Live
  BY <1>2 DEF Live, IsActive
<1>4. \A c \in Clients, q \in Runtimes : q # r => Accounted(c, q)' = Accounted(c, q)
  BY <1>2 DEF Accounted, Sent
<1>5. receiving \subseteq Clients
  BY DEF HubInv, TypeOK
<1>6. CASE r \notin Live
  <2>1. UNCHANGED Feed!vars
    BY <1>2, <1>3, <1>4, <1>5, <1>6, SameFeed DEF Live, Journaled
  <2>2. QED
    BY <2>1
<1>7. CASE r \in Live
  <2>1. r \in Journaled /\ r \notin Terminals /\ IsActive(r) /\ IsActive(r)'
    BY <1>2, <1>7 DEF Live, Journaled, IsActive
  <2>2. /\ \A u \in Threads : Emitting(u, r) => u = t
        /\ \A u \in Threads : ~Emitting(u, r)'
    BY <1>1, <1>2 DEF HubInv, OneDelivery, Emitting, Doing
  <2>3. reduced[r] = nextSeq[r]
    BY <1>1, <2>1, <2>2 DEF HubInv, ReducedKeepsUp, Emitting
  <2>4. ASSUME NEW c \in receiving PROVE Accounted(c, r)' = 1..nextSeq[r]
    <3>1. c \in Clients /\ c \in receiving'
      BY <1>2, <1>5
    <3>2. InFlight(r)' = {}
      BY <2>2 DEF InFlight
    <3>3. /\ nextSeq[r] \in Nat /\ resume'[c][r] \in Nat /\ gap'[c][r] \in Nat
          /\ resume'[c][r] <= nextSeq[r] /\ gap'[c][r] <= nextSeq[r]
      BY <1>2, <2>1, <3>1 DEF HubInv, TypeOK, FeedInv
    <3>4. \A n \in Sent(c, r)' : n \in 1..nextSeq[r]
      <4>1. inbox'[c][r] \in Seq(Nat)
        BY <3>1 DEF HubInv, TypeOK
      <4>2. \A n \in Sent(c, r)' : n \in Nat
        BY <4>1 DEF Sent
      <4>3. \A n \in Sent(c, r)' : n > 0
        BY <3>1 DEF FeedInv
      <4>4. \A n \in Sent(c, r)' : n <= nextSeq[r]
        BY <1>2, <2>1, <3>1 DEF SinkInv, NobodyAhead
      <4>5. QED
        BY <3>3, <4>2, <4>3, <4>4
    <3>5. 1..nextSeq[r] \subseteq Accounted(c, r)'
      BY <1>2, <2>1, <3>1, <3>2 DEF SinkInv, NothingLostUnannounced
    <3>6. QED
      BY <3>3, <3>4, <3>5 DEF Accounted
  <2>5. Taken[r] = Numbered[r]
    BY <1>7, <2>1, <2>3 DEF Taken, Numbered
  <2>6. Numbered' = Numbered /\ Taken' = Taken
    BY <1>2, <1>3 DEF Numbered, Taken
  <2>7. Heard' = [c \in Clients |-> IF c \in receiving
                                    THEN [Heard[c] EXCEPT ![r] = 1..Numbered[r]]
                                    ELSE Heard[c]]
    <3>1. ASSUME NEW c \in Clients, NEW q \in Journaled
          PROVE  Heard'[c][q] = IF c \in receiving /\ q = r THEN 1..Numbered[r]
                                                            ELSE Heard[c][q]
      BY <1>2, <1>3, <1>4, <1>7, <2>1, <2>4 DEF Heard, Numbered, Journaled
    <3>2. /\ Heard = [c \in Clients |-> [q \in Journaled |-> Heard[c][q]]]
          /\ Heard' = [c \in Clients |-> [q \in Journaled |-> Heard'[c][q]]]
      BY DEF Heard
    <3>3. QED
      BY <2>1, <3>1, <3>2
  <2>8. Feed!Deliver(r)
    BY <1>2, <1>3, <1>7, <2>5, <2>6, <2>7 DEF Feed!Deliver
  <2>9. QED
    BY <2>1, <2>8 DEF Feed!Next
<1>8. QED
  BY <1>6, <1>7

\* A begin or an end that goes through: the session's runtime is replaced, by
\* one of which nothing was said yet, and the rest is as it was.
LEMMA ChangeStep ==
    ASSUME HubAssumption, HubInv, SinkInv, FeedInv, NEW s \in Sessions,
           UNCHANGED sinks, UNCHANGED reduced, ForgetSession(s),
           NEW next \in Runtimes \cup {None},
           active' = [active EXCEPT ![s] = next],
           next # None => SessionOf[next] = s /\ Fresh(next)
    PROVE  Feed!Next
<1>1. UNCHANGED <<receiving, inbox, gap, resume>>
  BY DEF sinks
<1>2. \A r \in Runtimes : /\ SessionOf[r] \in Sessions
                          /\ SessionOf[r] # s => (IsActive(r)' <=> IsActive(r))
                          /\ SessionOf[r] = s => (IsActive(r)' <=> r = next)
  BY DEF IsActive, HubAssumption, HubInv, TypeOK
<1>3. next # None => /\ ~IsActive(next) /\ reduced[next] = 0
                     /\ \A c \in Clients : /\ Sent(c, next) = {}
                                           /\ resume[c][next] = 0 /\ gap[c][next] = 0
  BY DEF HubInv, FreshIsBlank, SinkInv, FreshIsUnseen, Sent, FeedInv
<1> DEFINE new == {next} \cap Journaled
<1>4. Live' = (Live \ Feed!OfSession(s)) \cup new
  BY <1>2 DEF Live, Feed!OfSession, Journaled, HubAssumption
<1>5. new \in {{}} \cup {{r} : r \in Feed!OfSession(s) \ Live}
  BY <1>3 DEF Live, Feed!OfSession, Journaled, HubAssumption
<1>6. Numbered' = [r \in Journaled |-> IF SessionOf[r] = s THEN 0 ELSE Numbered[r]]
  BY DEF Numbered, ForgetSession, Journaled
<1>7. Taken' = [r \in Journaled |-> IF SessionOf[r] = s THEN 0 ELSE Taken[r]]
  <2>1. ASSUME NEW r \in Journaled
        PROVE  (IF r \in Live' THEN reduced'[r] ELSE 0)
                   = IF SessionOf[r] = s THEN 0 ELSE IF r \in Live THEN reduced[r] ELSE 0
    BY <1>2, <1>3 DEF Live, Journaled, HubAssumption
  <2>2. QED
    BY <2>1 DEF Taken
<1>8. \A c \in Clients, r \in Runtimes : Accounted(c, r)' = Accounted(c, r)
  BY <1>1 DEF Accounted, Sent
<1>9. next # None => \A c \in Clients : Accounted(c, next) = {}
  BY <1>3 DEF Accounted
<1>10. Heard' = [c \in Clients |-> [r \in Journaled |->
                     IF SessionOf[r] = s THEN {} ELSE Heard[c][r]]]
  <2>1. ASSUME NEW c \in Clients, NEW r \in Journaled
        PROVE  (IF r \in Live' /\ c \in receiving' THEN Accounted(c, r)' ELSE {})
                   = IF SessionOf[r] = s THEN {}
                     ELSE IF r \in Live /\ c \in receiving THEN Accounted(c, r) ELSE {}
    BY <1>1, <1>2, <1>8, <1>9 DEF Live, Journaled, HubAssumption
  <2>2. QED
    BY <2>1 DEF Heard
<1> HIDE DEF new
<1>11. Feed!Change(s, new)
  BY <1>1, <1>4, <1>6, <1>7, <1>10 DEF Feed!Change
<1>12. QED
  BY <1>5, <1>11 DEF Feed!Next

LEMMA LifecycleStep ==
    ASSUME HubAssumption, HubInv, SinkInv, FeedInv, NEW s \in Sessions, Lifecycle(s)
    PROVE  [Feed!Next]_(Feed!vars)
<1>1. CASE BeginCommit(s)
  <2>1. /\ task[s].run \in Runtimes /\ SessionOf[task[s].run] = s /\ Fresh(task[s].run)
    BY <1>1 DEF BeginCommit, HubInv, TasksNameRuntimes, Threads, Fresh
  <2>2. Feed!Next
    BY <1>1, <2>1, ChangeStep DEF BeginCommit
  <2>3. QED
    BY <2>2
<1>2. CASE ForgetSession(s) /\ active' = [active EXCEPT ![s] = None] /\ EndCommit(s)
  <2>1. Feed!Next
    BY <1>2, ChangeStep DEF EndCommit
  <2>2. QED
    BY <2>1
<1>3. CASE UNCHANGED <<hubState, sinks, reduced>>
  <2>1. UNCHANGED <<active, nextSeq, receiving, inbox, gap, resume, reduced>>
    BY <1>3 DEF hubState, sinks
  <2>2. UNCHANGED Feed!vars
    BY <2>1, SameFeed DEF Live, IsActive, Accounted, Sent
  <2>3. QED
    BY <2>2
<1>4. QED
  BY <1>1, <1>2, <1>3
  DEF Lifecycle, BeginCapture, EndCapture, Capture, EndCommit

\* subscribe: the journal and the gap notice together are all there was.
LEMMA JoinStep ==
    ASSUME HubAssumption, HubInv, SinkInv, FeedInv, HubInv', FeedInv', SinkInv',
           NEW c \in Clients, NEW cursor \in Cursors, Subscribe(c, cursor)
    PROVE  Feed!Join(c)
<1>1. /\ UNCHANGED <<active, nextSeq, reduced>>
      /\ c \notin receiving /\ receiving' = receiving \cup {c}
      /\ \A d \in Clients : d # c => /\ inbox'[d] = inbox[d] /\ gap'[d] = gap[d]
                                    /\ resume'[d] = resume[d]
      /\ \A r \in Runtimes : /\ inbox'[c][r] = Replay(journal[r], cursor[r])
                             /\ gap'[c][r] = Missed(journal[r], cursor[r])
                             /\ resume'[c][r] = cursor[r] /\ cursor[r] \in Nat
  BY DEF Subscribe, hubState, HubInv, TypeOK, Cursors
<1>2. Live' = Live
  BY <1>1 DEF Live, IsActive
<1>3. Numbered' = Numbered /\ Taken' = Taken
  BY <1>1, <1>2 DEF Numbered, Taken
<1>4. ASSUME NEW r \in Journaled, r \in Live PROVE Accounted(c, r)' = 1..nextSeq[r]
  <2>1. r \in Runtimes \ Terminals /\ IsActive(r) /\ nextSeq[r] \in Nat
    BY <1>4 DEF Live, Journaled, HubInv, TypeOK
  <2>2. /\ nextSeq[r] # 0 => Kept(r) # 0
        /\ Missed(journal[r], cursor[r]) \in Nat
        /\ Missed(journal[r], cursor[r]) <= nextSeq[r]
        /\ \A i \in DOMAIN Replay(journal[r], cursor[r]) :
              Replay(journal[r], cursor[r])[i] \in 1..nextSeq[r]
        /\ Kept(r) # 0 => \A m \in 1..nextSeq[r] :
              \/ m <= cursor[r]
              \/ \E i \in DOMAIN Replay(journal[r], cursor[r]) :
                    Replay(journal[r], cursor[r])[i] = m
              \/ m <= Missed(journal[r], cursor[r]) - 1
    BY <1>1, <2>1, ReplayOfJournal DEF Kept, HubAssumption
  <2>3. \A n \in Sent(c, r)' : n \in 1..nextSeq[r]
    <3>1. \A i \in DOMAIN inbox'[c][r] : inbox'[c][r][i] \in 1..nextSeq[r]
      BY <1>1, <2>1, <2>2
    <3>2. QED
      BY <3>1 DEF Sent
  <2>4. cursor[r] \in Nat /\ cursor[r] <= nextSeq[r]
    BY <1>1, <2>1 DEF Subscribe
  <2>5. \A m \in 1..nextSeq[r] :
            m <= cursor[r] \/ m \in Sent(c, r)' \/ m <= gap'[c][r] - 1
    BY <1>1, <2>1, <2>2 DEF Sent
  <2>6. Accounted(c, r)' = 1..cursor[r] \cup Sent(c, r)' \cup 1..(gap'[c][r] - 1)
    BY <1>1, <2>1 DEF Accounted
  <2>7. gap'[c][r] \in Nat /\ gap'[c][r] <= nextSeq[r]
    BY <1>1, <2>1, <2>2
  <2>8. QED
    BY <2>1, <2>3, <2>4, <2>5, <2>6, <2>7
<1>5. ASSUME NEW r \in Journaled, r \notin Live PROVE nextSeq[r] = 0
  BY <1>5 DEF Live, Journaled, HubInv, OnlyActiveRuntimeHasState
<1>6. \A d \in Clients, r \in Runtimes : d # c => Accounted(d, r)' = Accounted(d, r)
  BY <1>1 DEF Accounted, Sent
<1>7. Heard' = [Heard EXCEPT ![c] = [r \in Journaled |-> 1..Numbered[r]]]
  <2>1. ASSUME NEW r \in Journaled
        PROVE  (IF r \in Live' /\ c \in receiving' THEN Accounted(c, r)' ELSE {})
                   = 1..nextSeq[r]
    BY <1>1, <1>2, <1>4, <1>5
  <2>2. ASSUME NEW d \in Clients, d # c, NEW r \in Journaled
        PROVE  (IF r \in Live' /\ d \in receiving' THEN Accounted(d, r)' ELSE {})
                   = IF r \in Live /\ d \in receiving THEN Accounted(d, r) ELSE {}
    BY <1>1, <1>2, <1>6, <2>2 DEF Journaled
  <2>3. /\ \A r \in Journaled : Heard'[c][r] = 1..Numbered[r]
        /\ \A d \in Clients : d # c => \A r \in Journaled : Heard'[d][r] = Heard[d][r]
    BY <2>1, <2>2 DEF Heard, Numbered
  <2>4. /\ Heard' = [d \in Clients |-> [r \in Journaled |-> Heard'[d][r]]]
        /\ Heard = [d \in Clients |-> [r \in Journaled |-> Heard[d][r]]]
    BY DEF Heard
  <2>5. QED
    BY <2>3, <2>4
<1>8. QED
  BY <1>1, <1>2, <1>3, <1>7 DEF Feed!Join

\* A receiver that goes leaves, whether or not the hub has noticed.
LEMMA LeaveStep ==
    ASSUME HubInv, NEW c \in Clients, DropReceiver(c)
    PROVE  Feed!Leave(c)
<1>1. /\ UNCHANGED <<active, nextSeq, reduced>>
      /\ c \in receiving /\ receiving' = receiving \ {c}
      /\ \A d \in Clients : d # c => /\ inbox'[d] = inbox[d] /\ gap'[d] = gap[d]
                                    /\ resume'[d] = resume[d]
  BY DEF DropReceiver, hubState, HubInv, TypeOK
<1>2. Live' = Live
  BY <1>1 DEF Live, IsActive
<1>3. Numbered' = Numbered /\ Taken' = Taken
  BY <1>1, <1>2 DEF Numbered, Taken
<1>4. \A d \in Clients, r \in Runtimes : d # c => Accounted(d, r)' = Accounted(d, r)
  BY <1>1 DEF Accounted, Sent
<1>5. Heard' = [Heard EXCEPT ![c] = [r \in Journaled |-> {}]]
  <2>1. ASSUME NEW r \in Journaled, NEW d \in Clients
        PROVE  (IF r \in Live' /\ d \in receiving' THEN Accounted(d, r)' ELSE {})
                   = IF d = c THEN {}
                     ELSE IF r \in Live /\ d \in receiving THEN Accounted(d, r) ELSE {}
    BY <1>1, <1>2, <1>4 DEF Journaled
  <2>2. QED
    BY <2>1 DEF Heard
<1>6. QED
  BY <1>1, <1>2, <1>3, <1>5 DEF Feed!Leave

LEMMA StepRefines ==
    ASSUME HubAssumption, HubInv, SinkInv, FeedInv, HubInv', SinkInv', FeedInv',
           [Next]_vars
    PROVE  [Feed!Next]_(Feed!vars)
<1>1. ASSUME UNCHANGED <<active, nextSeq, receiving, inbox, gap, resume, reduced>>
      PROVE  UNCHANGED Feed!vars
  BY <1>1, SameFeed DEF Live, IsActive, Accounted, Sent
<1>2. CASE UNCHANGED vars
  BY <1>1, <1>2 DEF vars, hubState, sinks
<1>3. ASSUME NEW t \in Threads, Emit(t) PROVE [Feed!Next]_(Feed!vars)
  <2>1. ASSUME NEW r \in Runtimes, EmitEnter(t, r) PROVE UNCHANGED Feed!vars
    BY <1>1, <2>1 DEF EmitEnter, sinks
  <2>2. CASE EmitDrop(t)
    BY <1>1, <2>2 DEF EmitDrop, hubState, sinks
  <2>3. QED
    BY <1>3, <2>1, <2>2, NumberStep, TakeStep, DeliverStep DEF Emit
<1>4. ASSUME NEW c \in Clients, Connection(c) PROVE [Feed!Next]_(Feed!vars)
  <2>1. CASE TaskStateChanged(c)
    BY <1>1, <2>1 DEF TaskStateChanged, hubState
  <2>2. CASE DropReceiver(c)
    BY <2>2, LeaveStep DEF Feed!Next
  <2>3. ASSUME NEW cursor \in Cursors, Subscribe(c, cursor) PROVE Feed!Next
    BY <2>3, JoinStep DEF Feed!Next
  <2>4. QED
    BY <1>4, <2>1, <2>2, <2>3 DEF Connection, Unsubscribe, ConnectionLost
<1>5. QED
  BY <1>2, <1>3, <1>4, LifecycleStep DEF Next

\* Hub implements EventFeed: emit's critical sections, subscribe's replay and
\* the lifecycle of runtimes are its steps, one by one, in every interleaving.
THEOREM HubImplementsFeed == ASSUME HubAssumption PROVE Spec => FeedSpec
<1>1. Init => Feed!Init
  <2>1. ASSUME Init PROVE Live = {}
    BY <2>1 DEF Init, Live, Journaled, IsActive, HubAssumption
  <2>2. QED
    BY <2>1 DEF Init, Feed!Init, Numbered, Taken, Heard, Journaled
<1>2. HubInv /\ SinkInv /\ FeedInv /\ HubInv' /\ SinkInv' /\ FeedInv' /\ [Next]_vars
          => [Feed!Next]_(Feed!vars)
  BY StepRefines
<1>3. IInv => HubInv /\ SinkInv
  BY DEF IInv
<1>4. QED
  BY <1>1, <1>2, <1>3, Inductive, FeedInvariant, PTL DEF Spec, FeedSpec, Feed!Spec

=============================================================================
