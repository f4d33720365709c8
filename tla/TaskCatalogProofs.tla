--------------------------- MODULE TaskCatalogProofs ---------------------------
(***************************************************************************)
(* Proofs about the list of tasks, for any desktops, tasks, projects and   *)
(* plays of any length.                                                    *)
(***************************************************************************)
EXTENDS TaskCatalog, TLAPS

\* The sessions there can be after g gestures and at time n.
Sess(g, n) ==
    [project : Projects, title : 0..g, at : 0..n, archived : BOOLEAN, turns : 0..(g + 1),
     bound : BOOLEAN, queue : SUBSET (1..g), detail : BOOLEAN]

Maybe(S) == S \cup {None}

Skels(g, n) == {s \in Sess(g, n) : IsSkeleton(s)}

-----------------------------------------------------------------------------
(* Operations on one session *)

LEMMA SessAreSessions ==
    ASSUME NEW g \in Nat, NEW n \in Nat PROVE Sess(g, n) \subseteq AnySession
<1>1. 0..g \subseteq Nat /\ 0..n \subseteq Nat /\ 0..(g + 1) \subseteq Nat /\ 1..g \subseteq Nat
  OBVIOUS
<1>2. QED
  BY <1>1 DEF Sess, AnySession

LEMMA SessGrow ==
    ASSUME NEW g \in Nat, NEW n \in Nat, NEW h \in Nat, NEW o \in Nat, g <= h, n <= o
    PROVE  Sess(g, n) \subseteq Sess(h, o) /\ Skels(g, n) \subseteq Skels(h, o)
<1>1. 0..g \subseteq 0..h /\ 0..n \subseteq 0..o /\ 0..(g + 1) \subseteq 0..(h + 1) /\ 1..g \subseteq 1..h
  OBVIOUS
<1>2. Sess(g, n) \subseteq Sess(h, o)
  BY <1>1 DEF Sess
<1>3. QED
  BY <1>2 DEF Skels

LEMMA NoneIsNoSession ==
    ASSUME CatalogAssumption, NEW g \in Nat, NEW n \in Nat, NEW s \in Sess(g, n)
    PROVE  s # None
  BY SessAreSessions DEF CatalogAssumption

\* What a list shows of two sessions is the same.
Alike(r, s) ==
    r.title = s.title /\ r.project = s.project /\ r.at = s.at /\ r.archived = s.archived

LEMMA SkeletonOf ==
    ASSUME NEW g \in Nat, NEW n \in Nat, NEW s \in Sess(g, n)
    PROVE  /\ Skeleton(s) \in Sess(g, n) /\ Skeleton(s) \in Skels(g, n)
           /\ Alike(Skeleton(s), s) /\ IsSkeleton(Skeleton(s))
<1> DEFINE a == [s EXCEPT !.detail = FALSE]
           b == [a EXCEPT !.turns = 0]
           c == [b EXCEPT !.bound = FALSE]
           d == [c EXCEPT !.queue = {}]
<1>1. a \in Sess(g, n) /\ Alike(a, s) /\ ~a.detail
  BY DEF Sess, Alike
<1> HIDE DEF a
<1>2. b \in Sess(g, n) /\ Alike(b, s) /\ ~b.detail /\ b.turns = 0
  BY <1>1 DEF Sess, Alike
<1> HIDE DEF b
<1>3. c \in Sess(g, n) /\ Alike(c, s) /\ ~c.detail /\ c.turns = 0 /\ ~c.bound
  BY <1>2 DEF Sess, Alike
<1> HIDE DEF c
<1>4. d \in Sess(g, n) /\ Alike(d, s) /\ IsSkeleton(d)
  BY <1>3 DEF Sess, Alike, IsSkeleton
<1>5. Skeleton(s) = d
  BY DEF Skeleton, a, b, c
<1> HIDE DEF d
<1>6. QED
  BY <1>4, <1>5 DEF Skels

LEMMA AlikeSkeletons ==
    ASSUME NEW g \in Nat, NEW n \in Nat, NEW r \in Sess(g, n), NEW s \in Sess(g, n), Alike(r, s)
    PROVE  Skeleton(r) = Skeleton(s)
  BY DEF Sess, Skeleton, Alike

\* A session and its row.
Stored(s, row) ==
    /\ s = None => row = None
    /\ (s # None /\ ~HasStarted(s)) => row = None
    /\ (s # None /\ HasStarted(s)) => row # None /\ Alike(row, s)
    /\ (s # None /\ HasStarted(s) /\ s.detail) => row = s
    /\ (s # None /\ ~s.detail) => s.turns = 0 /\ ~s.bound
    /\ row # None => row.detail /\ (row.turns > 0 \/ row.bound)

LEMMA RowIsStored ==
    ASSUME CatalogAssumption, NEW g \in Nat, NEW n \in Nat,
           NEW s \in Maybe(Sess(g, n)), NEW row \in Maybe(Sess(g, n)), NEW new \in Maybe(Sess(g, n)),
           Stored(s, row),
           (new # None /\ ~new.detail) => s # None /\ ~s.detail /\ new.turns = 0 /\ ~new.bound
    PROVE  Row(row, new) \in Maybe(Sess(g, n)) /\ Stored(new, Row(row, new))
<1>1. CASE new = None
  BY <1>1 DEF Row, Stored, Maybe
<1>2. CASE new # None /\ ~HasStarted(new)
  BY <1>2 DEF Row, Stored, Maybe, HasStarted
<1>3. CASE new # None /\ HasStarted(new) /\ new.detail
  BY <1>3 DEF Row, Stored, Maybe, HasStarted, Alike
<1>4. CASE new # None /\ HasStarted(new) /\ ~new.detail
  <2>1. s # None /\ ~s.detail /\ row # None /\ row \in Sess(g, n) /\ new \in Sess(g, n)
    BY <1>4 DEF Stored, HasStarted, Maybe
  <2> DEFINE kept == [row EXCEPT !.title = new.title, !.project = new.project, !.at = new.at,
                                 !.archived = new.archived]
  <2>2. Row(row, new) = kept
    BY <1>4, <2>1 DEF Row
  <2>3. /\ kept \in Sess(g, n) /\ Alike(kept, new) /\ kept.detail = row.detail
        /\ kept.turns = row.turns /\ kept.bound = row.bound
    BY <2>1 DEF Sess, Alike
  <2> HIDE DEF kept
  <2>4. kept # None
    BY <2>3, NoneIsNoSession
  <2>5. QED
    BY <1>4, <2>1, <2>2, <2>3, <2>4 DEF Stored, Maybe
<1>5. QED
  BY <1>1, <1>2, <1>3, <1>4

\* hydrate reads the row.
HydratedFrom(s, row) ==
    IF s.detail THEN s
    ELSE IF row = None THEN [s EXCEPT !.detail = TRUE]
    ELSE [s EXCEPT !.detail = TRUE, !.turns = row.turns, !.bound = row.bound, !.queue = row.queue]

LEMMA HydratedIsStored ==
    ASSUME CatalogAssumption, NEW g \in Nat, NEW n \in Nat,
           NEW s \in Sess(g, n), NEW row \in Maybe(Sess(g, n)), Stored(s, row)
    PROVE  /\ HydratedFrom(s, row) \in Sess(g, n) /\ Stored(HydratedFrom(s, row), row)
           /\ HydratedFrom(s, row).detail /\ Alike(HydratedFrom(s, row), s)
           /\ (s.detail => HydratedFrom(s, row) = s)
<1>0. s # None
  BY NoneIsNoSession
<1>1. CASE s.detail
  BY <1>1 DEF HydratedFrom, Alike
<1>2. CASE ~s.detail
  <2>1. row # None /\ row \in Sess(g, n) /\ Alike(row, s) /\ row.detail /\ (row.turns > 0 \/ row.bound)
    BY <1>0, <1>2 DEF Stored, HasStarted, Maybe
  <2> DEFINE whole == [s EXCEPT !.detail = TRUE, !.turns = row.turns, !.bound = row.bound,
                                !.queue = row.queue]
  <2>2. HydratedFrom(s, row) = whole
    BY <1>2, <2>1 DEF HydratedFrom
  <2>3. whole = row
    BY <2>1 DEF Sess, Alike
  <2> HIDE DEF whole
  <2>4. Stored(row, row) /\ Alike(row, row)
    BY <2>1 DEF Stored, HasStarted, Alike
  <2>5. QED
    BY <1>2, <2>1, <2>2, <2>3, <2>4
<1>3. QED
  BY <1>1, <1>2

\* A restart keeps of a session what its row has of the list.
LEMMA RestartedIsStored ==
    ASSUME CatalogAssumption, NEW g \in Nat, NEW n \in Nat,
           NEW s \in Maybe(Sess(g, n)), NEW row \in Sess(g, n), Stored(s, row)
    PROVE  Stored(Skeleton(row), row)
<1>1. Skeleton(row) \in Sess(g, n) /\ Skeleton(row) # None /\ row # None
  BY SkeletonOf, NoneIsNoSession
<1>2. Alike(row, Skeleton(row)) /\ ~Skeleton(row).detail /\ Skeleton(row).turns = 0
      /\ ~Skeleton(row).bound
  BY SkeletonOf DEF Alike, IsSkeleton
<1>3. QED
  BY <1>1, <1>2 DEF Stored, HasStarted

\* What a save makes of the daemon's session.
LEMMA MergedSession ==
    ASSUME CatalogAssumption, NEW g \in Nat, NEW n \in Nat,
           NEW old \in Maybe(Sess(g, n)), NEW new \in Sess(g, n)
    PROVE  /\ Merged(old, new) \in Sess(g, n)
           /\ old # None => Merged(old, new).archived = old.archived
           /\ old = None => Merged(old, new) = new
           /\ (old # None /\ Replaces(old, new)) =>
                 /\ Merged(old, new).turns = new.turns /\ Merged(old, new).bound = new.bound
                 /\ Merged(old, new).detail = new.detail /\ Merged(old, new).queue = new.queue
           /\ (old # None /\ ~Replaces(old, new)) =>
                 /\ Merged(old, new).turns = old.turns /\ Merged(old, new).bound = old.bound
                 /\ Merged(old, new).detail = old.detail
                 /\ Merged(old, new).queue = old.queue \cup new.queue
<1>1. CASE old = None
  BY <1>1 DEF Merged
<1>2. CASE old # None /\ Replaces(old, new)
  <2>1. old \in Sess(g, n) /\ Merged(old, new) = [new EXCEPT !.archived = old.archived]
    BY <1>2 DEF Maybe, Merged
  <2>2. QED
    BY <1>2, <2>1 DEF Sess
<1>3. CASE old # None /\ ~Replaces(old, new)
  <2>1. old \in Sess(g, n) /\ Merged(old, new) = MergeStale(old, new)
    BY <1>3 DEF Maybe, Merged
  <2>2. CASE new.at >= old.at
    <3>1. MergeStale(old, new) = [old EXCEPT !.title = new.title, !.project = new.project,
                                             !.at = new.at, !.queue = @ \cup new.queue]
      BY <2>2 DEF MergeStale
    <3> DEFINE a == [old EXCEPT !.title = new.title]
               b == [a EXCEPT !.project = new.project]
               c == [b EXCEPT !.at = new.at]
               d == [c EXCEPT !.queue = old.queue \cup new.queue]
    <3>2. old.queue \cup new.queue \subseteq 1..g
      BY <2>1 DEF Sess
    <3>3. /\ a \in Sess(g, n) /\ a.archived = old.archived /\ a.turns = old.turns
          /\ a.bound = old.bound /\ a.detail = old.detail /\ a.queue = old.queue
      BY <2>1 DEF Sess
    <3>4. MergeStale(old, new) = d
      BY <3>1
    <3> HIDE DEF a
    <3>5. /\ b \in Sess(g, n) /\ b.archived = old.archived /\ b.turns = old.turns
          /\ b.bound = old.bound /\ b.detail = old.detail /\ b.queue = old.queue
      BY <3>3 DEF Sess
    <3> HIDE DEF b
    <3>6. /\ c \in Sess(g, n) /\ c.archived = old.archived /\ c.turns = old.turns
          /\ c.bound = old.bound /\ c.detail = old.detail
      BY <3>5 DEF Sess
    <3> HIDE DEF c
    <3>7. /\ d \in Sess(g, n) /\ d.archived = old.archived /\ d.turns = old.turns
          /\ d.bound = old.bound /\ d.detail = old.detail
          /\ d.queue = old.queue \cup new.queue
      BY <3>2, <3>6 DEF Sess
    <3> HIDE DEF d
    <3>8. QED
      BY <1>3, <2>1, <3>4, <3>7
  <2>3. CASE ~(new.at >= old.at)
    <3>1. MergeStale(old, new) = [old EXCEPT !.queue = @ \cup new.queue]
      BY <2>3 DEF MergeStale
    <3>2. QED
      BY <1>3, <2>1, <3>1 DEF Sess
  <2>4. QED
    BY <2>2, <2>3
<1>4. QED
  BY <1>1, <1>2, <1>3

\* What a save brings.
LEMMA ArrivingSession ==
    ASSUME NEW g \in Nat, NEW n \in Nat, NEW m, m.copy \in Sess(g, n)
    PROVE  /\ Arriving(m) \in Sess(g, n)
           /\ Arriving(m).detail /\ Arriving(m).turns = 0 /\ Arriving(m).bound = m.copy.bound
           /\ \A i \in Arriving(m).queue : <<m.task, i>> \notin gone.messages
<1> DEFINE left == {i \in m.copy.queue : <<m.task, i>> \notin gone.messages}
           p == [m.copy EXCEPT !.turns = 0]
           q == [p EXCEPT !.detail = TRUE]
           r == [q EXCEPT !.archived = FALSE]
           s == [r EXCEPT !.queue = left]
<1>1. p \in Sess(g, n) /\ p.turns = 0 /\ p.bound = m.copy.bound /\ p.queue = m.copy.queue
  BY DEF Sess
<1> HIDE DEF p
<1>2. q \in Sess(g, n) /\ q.turns = 0 /\ q.bound = m.copy.bound /\ q.queue = m.copy.queue /\ q.detail
  BY <1>1 DEF Sess
<1> HIDE DEF q
<1>3. r \in Sess(g, n) /\ r.turns = 0 /\ r.bound = m.copy.bound /\ r.queue = m.copy.queue /\ r.detail
  BY <1>2 DEF Sess
<1> HIDE DEF r
<1>4. Arriving(m) = s
  <2>1. [r EXCEPT !.queue = {i \in @ : <<m.task, i>> \notin gone.messages}] = s
    BY <1>3 DEF Sess
  <2>2. QED
    BY <2>1 DEF Arriving, p, q, r
<1>5. left \subseteq 1..g /\ \A i \in left : <<m.task, i>> \notin gone.messages
  BY DEF Sess
<1> HIDE DEF left
<1>6. /\ s \in Sess(g, n) /\ s.turns = 0 /\ s.bound = m.copy.bound /\ s.detail
      /\ s.queue = left
  BY <1>3, <1>5 DEF Sess
<1>7. QED
  BY <1>4, <1>5, <1>6

-----------------------------------------------------------------------------
(* The inductive invariant *)

SessNow == Sess(gestures, now)

BoundsOK ==
    /\ play \in Plays
    /\ now \in 0..play.clock /\ gestures \in 0..play.gestures /\ restarts \in 0..play.restarts

StoreOK ==
    /\ tasks \in [Tasks -> Maybe(SessNow)] /\ disk \in [Tasks -> Maybe(SessNow)]
    /\ \A t \in Tasks : Stored(tasks[t], disk[t])

GoneOK ==
    /\ projects \subseteq Projects
    /\ gone \in [tasks : SUBSET Tasks, projects : SUBSET Projects, messages : SUBSET (Tasks \X Nat)]
    /\ fate \in [Tasks -> {"unused", "used", "removed"}]

CommandOK(m, g, n) ==
    /\ m.by \in Clients
    /\ m.do \in {"save", "remove", "unqueue", "archive", "hydrate"} => m.task \in Tasks
    /\ m.do = "save" => m.copy \in Sess(g, n) /\ m.projects \subseteq Projects
    /\ m.do = "project" => m.project \in Projects
    /\ m.do = "unqueue" => m.message \in Nat
    /\ m.do = "archive" => m.mark \in BOOLEAN

ReplyOK(r, g, n) ==
    /\ r.by \in Clients
    /\ r.do = "load" => /\ r.listed \in [Tasks -> Maybe(Skels(g, n))]
                        /\ r.projects \subseteq Projects
    /\ r.do = "hydrate" => r.task \in Tasks /\ r.copy \in Sess(g, n)

QueuesOK ==
    /\ \A m \in asked : CommandOK(m, gestures, now)
    /\ \A r \in told : ReplyOK(r, gestures, now)

Snapshots(g, n) == [listed : [Tasks -> Maybe(Skels(g, n))], projects : SUBSET Projects]

ClientsOK ==
    /\ local \in [Clients -> [Tasks -> Maybe(SessNow)]]
    /\ shelf \in [Clients -> SUBSET Projects]
    /\ notice \subseteq Clients /\ syncing \subseteq Clients
    /\ result \in [Clients -> Maybe(Snapshots(gestures, now))]

\* Until the daemon restarts every session is whole, its tombstones are those of
\* all that was removed, and nothing they name is there.
AtFirst ==
    /\ \A t \in Tasks : Known(t) => /\ tasks[t].detail
                                    /\ tasks[t].bound => tasks[t].turns > 0
    /\ \A t \in gone.tasks : ~Known(t)
    /\ \A t \in Tasks : fate[t] = "removed" => t \in gone.tasks
    /\ \A q \in gone.messages : Known(q[1]) => q[2] \notin tasks[q[1]].queue
    /\ ProjectStaysRemoved /\ ScratchIsUsed

\* A copy that says that the provider has bound the session was made after a
\* turn: the daemon has that turn, or a tombstone.
Lasting(t) == t \in gone.tasks \/ (Known(t) /\ tasks[t].turns > 0)

CopiesOK ==
    /\ \A c \in Clients, t \in Tasks :
          (local[c][t] # None /\ local[c][t].bound) => Lasting(t)
    /\ \A m \in asked : (m.do = "save" /\ m.copy.bound) => Lasting(m.task)
    /\ \A r \in told : (r.do = "hydrate" /\ r.copy.bound) => Lasting(r.task)

CatalogInv ==
    /\ BoundsOK /\ StoreOK /\ GoneOK /\ QueuesOK /\ ClientsOK
    /\ restarts = 0 => AtFirst /\ CopiesOK

\* What a step keeps of the sessions that have had a turn ...
KeepsTurns ==
    /\ gone.tasks \subseteq gone'.tasks
    /\ \A t \in Tasks : (tasks[t] # None /\ tasks[t].turns > 0) =>
          \/ tasks'[t] # None /\ tasks'[t].turns >= tasks[t].turns
          \/ fate'[t] = "removed" /\ t \in gone'.tasks

\* ... and of the marks.
KeepsMarks ==
    \A t \in Tasks : (Known(t) /\ tasks'[t] # None) => tasks'[t].archived = tasks[t].archived

DaemonOK == StoreOK' /\ GoneOK' /\ (restarts = 0 => AtFirst' /\ KeepsTurns)

LEMMA TheBounds ==
    ASSUME CatalogAssumption, BoundsOK
    PROVE  /\ play.clock \in Nat /\ play.gestures \in Nat /\ play.restarts \in Nat
           /\ now \in Nat /\ gestures \in Nat /\ restarts \in Nat
<1>1. play \in [hands : SUBSET Clients, may : SUBSET Gestures,
                gestures : Nat, clock : Nat, restarts : Nat]
  BY DEF CatalogAssumption, BoundsOK
<1>2. play.clock \in Nat /\ play.gestures \in Nat /\ play.restarts \in Nat
  BY <1>1
<1>3. QED
  BY <1>2 DEF BoundsOK

-----------------------------------------------------------------------------
(* The commands *)

\* What every save of the rows keeps.
LEMMA StoreKeeps ==
    ASSUME CatalogAssumption, NEW g \in Nat, NEW n \in Nat,
           tasks \in [Tasks -> Maybe(Sess(g, n))], disk \in [Tasks -> Maybe(Sess(g, n))],
           \A t \in Tasks : Stored(tasks[t], disk[t]),
           NEW after \in [Tasks -> Maybe(Sess(g, n))],
           \A t \in Tasks : (after[t] # None /\ ~after[t].detail) =>
               tasks[t] # None /\ ~tasks[t].detail /\ after[t].turns = 0 /\ ~after[t].bound,
           Store(after)
    PROVE  disk' \in [Tasks -> Maybe(Sess(g, n))] /\ \A t \in Tasks : Stored(after[t], disk'[t])
<1>1. disk' = [t \in Tasks |-> IF after[t] = tasks[t] THEN disk[t] ELSE Row(disk[t], after[t])]
  BY DEF Store
<1>2. ASSUME NEW t \in Tasks
      PROVE  disk'[t] \in Maybe(Sess(g, n)) /\ Stored(after[t], disk'[t])
  <2>1. CASE after[t] = tasks[t]
    BY <1>1, <2>1
  <2>2. CASE after[t] # tasks[t]
    <3>1. disk'[t] = Row(disk[t], after[t])
      BY <1>1, <2>2
    <3>2. /\ tasks[t] \in Maybe(Sess(g, n)) /\ disk[t] \in Maybe(Sess(g, n))
          /\ after[t] \in Maybe(Sess(g, n)) /\ Stored(tasks[t], disk[t])
      OBVIOUS
    <3>3. QED
      BY <3>1, <3>2, RowIsStored
  <2>3. QED
    BY <2>1, <2>2
<1>3. QED
  BY <1>1, <1>2

\* What becomes of a session when a save arrives.
LEMMA SavedSession ==
    ASSUME CatalogAssumption, BoundsOK, StoreOK, NEW m, CommandOK(m, gestures, now),
           m.do = "save", Arrives(m),
           NEW s, s = Merged(tasks[m.task], Arriving(m))
    PROVE  /\ s \in SessNow /\ s # None
           /\ tasks[m.task] # None => s.archived = tasks[m.task].archived
           /\ ~s.detail => /\ tasks[m.task] # None /\ ~tasks[m.task].detail
                           /\ s.turns = 0 /\ ~s.bound
           /\ (tasks[m.task] # None /\ tasks[m.task].turns > 0) => s.turns = tasks[m.task].turns
           /\ \/ s.turns = 0 /\ s.bound = m.copy.bound
              \/ /\ tasks[m.task] # None
                 /\ s.turns = tasks[m.task].turns /\ s.bound = tasks[m.task].bound
           /\ \A i \in s.queue : \/ <<m.task, i>> \notin gone.messages
                                 \/ tasks[m.task] # None /\ i \in tasks[m.task].queue
           /\ (tasks[m.task] # None /\ tasks[m.task].detail) => s.detail
<1> DEFINE old == tasks[m.task]
           new == Arriving(m)
<1>1. gestures \in Nat /\ now \in Nat
  BY TheBounds
<1>2. m.task \in Tasks /\ m.copy \in SessNow
  BY DEF CommandOK, SessNow
<1>3. old \in Maybe(SessNow) /\ (old # None /\ ~old.detail => old.turns = 0 /\ ~old.bound)
  BY <1>2 DEF StoreOK, Stored
<1>4. /\ new \in SessNow /\ new.detail /\ new.turns = 0 /\ new.bound = m.copy.bound
      /\ \A i \in new.queue : <<m.task, i>> \notin gone.messages
  BY <1>1, <1>2, ArrivingSession DEF SessNow
<1> HIDE DEF new
<1>5. /\ s \in SessNow
      /\ old # None => s.archived = old.archived
      /\ old = None => s = new
      /\ (old # None /\ Replaces(old, new)) =>
            s.turns = new.turns /\ s.bound = new.bound /\ s.detail = new.detail /\ s.queue = new.queue
      /\ (old # None /\ ~Replaces(old, new)) =>
            /\ s.turns = old.turns /\ s.bound = old.bound /\ s.detail = old.detail
            /\ s.queue = old.queue \cup new.queue
  <2>1. s = Merged(old, new)
    BY DEF new
  <2> HIDE DEF old
  <2>2. old \in Maybe(Sess(gestures, now)) /\ new \in Sess(gestures, now)
    BY <1>3, <1>4 DEF SessNow
  <2>3. /\ Merged(old, new) \in Sess(gestures, now)
        /\ old # None => Merged(old, new).archived = old.archived
        /\ old = None => Merged(old, new) = new
        /\ (old # None /\ Replaces(old, new)) =>
              /\ Merged(old, new).turns = new.turns /\ Merged(old, new).bound = new.bound
              /\ Merged(old, new).detail = new.detail /\ Merged(old, new).queue = new.queue
        /\ (old # None /\ ~Replaces(old, new)) =>
              /\ Merged(old, new).turns = old.turns /\ Merged(old, new).bound = old.bound
              /\ Merged(old, new).detail = old.detail
              /\ Merged(old, new).queue = old.queue \cup new.queue
    BY ONLY CatalogAssumption, <1>1, <2>2, MergedSession
  <2>4. QED
    BY ONLY <2>1, <2>3 DEF SessNow
<1>6. s # None
  BY <1>1, <1>5, NoneIsNoSession DEF SessNow
<1>7. Replaces(old, new) => old.turns = 0
  BY DEF Replaces
<1>8. old # None => old.turns \in Nat
  BY <1>1, <1>3 DEF Maybe, SessNow, Sess
<1> HIDE DEF old
<1>9. CASE old = None
  BY <1>4, <1>5, <1>6, <1>9 DEF old
<1>10. CASE old # None /\ Replaces(old, new)
  BY <1>4, <1>5, <1>6, <1>7, <1>8, <1>10 DEF old
<1>11. CASE old # None /\ ~Replaces(old, new)
  BY <1>3, <1>4, <1>5, <1>6, <1>11 DEF old
<1>12. QED
  BY <1>9, <1>10, <1>11

LEMMA SaveKeeps ==
    ASSUME CatalogAssumption, BoundsOK, StoreOK, GoneOK, restarts = 0 => AtFirst,
           NEW m, CommandOK(m, gestures, now),
           (restarts = 0 /\ m.do = "save" /\ m.copy.bound) => Lasting(m.task),
           SaveTaskState(m), UNCHANGED <<gestures, now, restarts>>
    PROVE  DaemonOK /\ KeepsMarks
<1> DEFINE s == Merged(tasks[m.task], Arriving(m))
           after == IF Arrives(m) THEN [tasks EXCEPT ![m.task] = s] ELSE tasks
<1>1. /\ m.do = "save" /\ tasks' = after /\ Store(after) /\ gone' = gone /\ fate' = fate
      /\ projects' = Pruned(projects \cup ArrivingProjects(m), after)
  BY DEF SaveTaskState, Merged, StoreOK
<1>2. gestures \in Nat /\ now \in Nat /\ SessNow' = SessNow
  BY TheBounds DEF SessNow
<1>3. m.task \in Tasks /\ m.projects \subseteq Projects
  BY <1>1 DEF CommandOK
<1>4. Arrives(m) =>
           /\ s \in SessNow /\ s # None
           /\ tasks[m.task] # None => s.archived = tasks[m.task].archived
           /\ ~s.detail => /\ tasks[m.task] # None /\ ~tasks[m.task].detail
                           /\ s.turns = 0 /\ ~s.bound
           /\ (tasks[m.task] # None /\ tasks[m.task].turns > 0) => s.turns = tasks[m.task].turns
           /\ \/ s.turns = 0 /\ s.bound = m.copy.bound
              \/ /\ tasks[m.task] # None
                 /\ s.turns = tasks[m.task].turns /\ s.bound = tasks[m.task].bound
           /\ \A i \in s.queue : \/ <<m.task, i>> \notin gone.messages
                                 \/ tasks[m.task] # None /\ i \in tasks[m.task].queue
           /\ (tasks[m.task] # None /\ tasks[m.task].detail) => s.detail
  BY <1>1, SavedSession
<1> HIDE DEF s
<1>5. /\ after \in [Tasks -> Maybe(SessNow)]
      /\ \A t \in Tasks : after[t] = tasks[t] \/ (t = m.task /\ Arrives(m) /\ after[t] = s)
      /\ Arrives(m) => after[m.task] = s
  BY <1>3, <1>4 DEF StoreOK, Maybe
<1> HIDE DEF after
<1>6. StoreOK'
  <2>1. ASSUME NEW t \in Tasks, after[t] # None, ~after[t].detail
        PROVE  tasks[t] # None /\ ~tasks[t].detail /\ after[t].turns = 0 /\ ~after[t].bound
    BY <1>4, <1>5, <2>1 DEF StoreOK, Stored
  <2>2. disk' \in [Tasks -> Maybe(SessNow)] /\ \A t \in Tasks : Stored(after[t], disk'[t])
    BY <1>1, <1>2, <1>5, <2>1, StoreKeeps DEF StoreOK, SessNow
  <2>3. QED
    BY <1>1, <1>2, <1>5, <2>2 DEF StoreOK
<1>7. GoneOK'
  BY <1>1, <1>3 DEF GoneOK, Pruned, ArrivingProjects
<1>8. ASSUME restarts = 0 PROVE AtFirst' /\ KeepsTurns
  <2>0. AtFirst /\ (m.copy.bound => Lasting(m.task))
    BY <1>1, <1>8
  <2>1. ASSUME NEW t \in Tasks, after[t] # None
        PROVE  after[t].detail /\ (after[t].bound => after[t].turns > 0)
    <3>1. CASE after[t] = tasks[t]
      BY <2>0, <2>1, <3>1 DEF AtFirst, Known
    <3>2. CASE t = m.task /\ Arrives(m) /\ after[t] = s
      <4>1. tasks[t] # None => tasks[t].detail /\ (tasks[t].bound => tasks[t].turns > 0)
        BY <2>0 DEF AtFirst, Known
      <4>2. s.detail
        BY <1>4, <3>2, <4>1
      <4>3. ASSUME s.bound PROVE s.turns > 0
        <5>1. CASE tasks[t] # None /\ s.turns = tasks[t].turns /\ s.bound = tasks[t].bound
          BY <4>1, <4>3, <5>1
        <5>2. CASE s.turns = 0 /\ s.bound = m.copy.bound
          <6>1. tasks[t] # None /\ tasks[t].turns > 0
            BY <2>0, <3>2, <4>3, <5>2 DEF Lasting, Arrives, Known
          <6>2. QED
            BY <1>4, <3>2, <6>1
        <5>3. QED
          BY <1>4, <3>2, <5>1, <5>2
      <4>4. QED
        BY <3>2, <4>2, <4>3
    <3>3. QED
      BY <1>5, <3>1, <3>2
  <2>2. \A t \in gone.tasks : after[t] = None
    BY <1>5, <2>0 DEF AtFirst, Known, GoneOK, Arrives
  <2>3. ASSUME NEW q \in gone.messages, after[q[1]] # None
        PROVE  q[2] \notin after[q[1]].queue
    <3>1. q[1] \in Tasks /\ q = <<q[1], q[2]>>
      BY DEF GoneOK
    <3>2. tasks[q[1]] # None => q[2] \notin tasks[q[1]].queue
      BY <2>0 DEF AtFirst, Known
    <3>3. CASE after[q[1]] = tasks[q[1]]
      BY <2>3, <3>2, <3>3
    <3>4. CASE q[1] = m.task /\ Arrives(m) /\ after[q[1]] = s
      BY <1>4, <3>1, <3>2, <3>4
    <3>5. QED
      BY <1>5, <3>1, <3>3, <3>4
  <2>4. projects' \cap gone.projects = {}
    BY <1>1, <2>0 DEF AtFirst, ProjectStaysRemoved, Pruned, ArrivingProjects
  <2>5. projects' \cap Scratch \subseteq InUse(after)
    BY <1>1 DEF Pruned
  <2>6. AtFirst'
    <3>1. \A t \in Tasks : fate'[t] = "removed" => t \in gone'.tasks
      BY <1>1, <2>0 DEF AtFirst
    <3>2. ProjectStaysRemoved' /\ ScratchIsUsed'
      BY <1>1, <2>4, <2>5 DEF ProjectStaysRemoved, ScratchIsUsed, InUse
    <3>3. QED
      BY <1>1, <2>1, <2>2, <2>3, <3>1, <3>2 DEF AtFirst, Known
  <2>7. ASSUME NEW t \in Tasks, tasks[t] # None, tasks[t].turns > 0
        PROVE  after[t] # None /\ after[t].turns >= tasks[t].turns
    <3>1. tasks[t].turns \in Nat
      BY <1>2, <2>7 DEF StoreOK, Maybe, SessNow, Sess
    <3>2. QED
      BY <1>4, <1>5, <2>7, <3>1
  <2>8. KeepsTurns
    BY <1>1, <2>7 DEF KeepsTurns
  <2>9. QED
    BY <2>6, <2>8
<1>9. KeepsMarks
  BY <1>1, <1>4, <1>5 DEF KeepsMarks, Known
<1>10. QED
  BY <1>6, <1>7, <1>8, <1>9 DEF DaemonOK

\* A removal of some sessions, which leaves the others as they are.
LEMMA RemovalKeeps ==
    ASSUME CatalogAssumption, BoundsOK, StoreOK, GoneOK, restarts = 0 => AtFirst,
           UNCHANGED <<gestures, now, restarts>>,
           NEW R \in SUBSET Tasks, NEW X \in SUBSET Projects,
           NEW after, after = [t \in Tasks |-> IF t \in R THEN None ELSE tasks[t]],
           tasks' = after, Store(after),
           gone' \in [tasks : SUBSET Tasks, projects : SUBSET Projects,
                      messages : SUBSET (Tasks \X Nat)],
           gone'.tasks = gone.tasks \cup R, gone'.projects = gone.projects \cup X,
           gone'.messages \subseteq gone.messages,
           fate' = [t \in Tasks |-> IF t \in R THEN "removed" ELSE fate[t]],
           projects' \subseteq projects \ X,
           restarts = 0 => projects' \cap Scratch \subseteq InUse(after)
    PROVE  DaemonOK /\ KeepsMarks
<1>1. gestures \in Nat /\ now \in Nat /\ SessNow' = SessNow
  BY TheBounds DEF SessNow
<1>2. /\ after \in [Tasks -> Maybe(SessNow)]
      /\ \A t \in Tasks : after[t] # None => after[t] = tasks[t] /\ t \notin R
      /\ \A t \in Tasks : t \notin R => after[t] = tasks[t]
      /\ \A t \in R : after[t] = None
  BY DEF StoreOK, Maybe
<1>3. StoreOK'
  <2>1. ASSUME NEW t \in Tasks, after[t] # None, ~after[t].detail
        PROVE  tasks[t] # None /\ ~tasks[t].detail /\ after[t].turns = 0 /\ ~after[t].bound
    BY <1>2, <2>1 DEF StoreOK, Stored
  <2>2. disk' \in [Tasks -> Maybe(SessNow)] /\ \A t \in Tasks : Stored(after[t], disk'[t])
    BY <1>1, <1>2, <2>1, StoreKeeps DEF StoreOK, SessNow
  <2>3. QED
    BY <1>1, <1>2, <2>2 DEF StoreOK
<1>4. GoneOK'
  <2>1. fate' \in [Tasks -> {"unused", "used", "removed"}]
    BY DEF GoneOK
  <2>2. QED
    BY <2>1 DEF GoneOK
<1>5. ASSUME restarts = 0 PROVE AtFirst' /\ KeepsTurns
  <2>0. AtFirst
    BY <1>5
  <2>1. \A t \in Tasks : after[t] # None => after[t].detail /\ (after[t].bound => after[t].turns > 0)
    BY <1>2, <2>0 DEF AtFirst, Known
  <2>2. \A t \in gone'.tasks : after[t] = None
    BY <1>2, <2>0 DEF AtFirst, Known, GoneOK
  <2>3. \A t \in Tasks : fate'[t] = "removed" => t \in gone'.tasks
    BY <2>0 DEF AtFirst
  <2>4. ASSUME NEW q \in gone'.messages, after[q[1]] # None
        PROVE  q[2] \notin after[q[1]].queue
    <3>1. q \in gone.messages /\ q[1] \in Tasks
      BY DEF GoneOK
    <3>2. QED
      BY <1>2, <2>0, <2>4, <3>1 DEF AtFirst, Known
  <2>5. ProjectStaysRemoved' /\ ScratchIsUsed'
    <3>1. ProjectStaysRemoved'
      BY <2>0 DEF AtFirst, ProjectStaysRemoved
    <3>2. InUse(tasks)' = InUse(after)
      BY DEF InUse
    <3>3. projects' \cap Scratch \subseteq InUse(after)
      BY <1>5
    <3>4. ScratchIsUsed'
      BY <3>2, <3>3 DEF ScratchIsUsed
    <3>5. QED
      BY <3>1, <3>4
  <2>6. AtFirst'
    BY <2>1, <2>2, <2>3, <2>4, <2>5 DEF AtFirst, Known
  <2>7. ASSUME NEW t \in Tasks, tasks[t] # None, tasks[t].turns > 0
        PROVE  \/ tasks'[t] # None /\ tasks'[t].turns >= tasks[t].turns
               \/ fate'[t] = "removed" /\ t \in gone'.tasks
    <3>1. tasks[t].turns \in Nat
      BY <1>1, <2>7 DEF StoreOK, Maybe, SessNow, Sess
    <3>2. QED
      BY <1>2, <2>7, <3>1
  <2>8. KeepsTurns
    BY <2>7 DEF KeepsTurns
  <2>9. QED
    BY <2>6, <2>8
<1>6. KeepsMarks
  BY <1>2 DEF KeepsMarks, Known
<1>7. QED
  BY <1>3, <1>4, <1>5, <1>6 DEF DaemonOK

LEMMA RemoveSessionKeeps ==
    ASSUME CatalogAssumption, BoundsOK, StoreOK, GoneOK, restarts = 0 => AtFirst,
           NEW m, CommandOK(m, gestures, now),
           RemoveSession(m), UNCHANGED <<gestures, now, restarts>>
    PROVE  DaemonOK /\ KeepsMarks
<1> DEFINE after == [tasks EXCEPT ![m.task] = None]
           R == {m.task}
           X == {}
<1>1. /\ m.do = "remove" /\ tasks' = after /\ Store(after)
      /\ gone' = [gone EXCEPT !.tasks = @ \cup {m.task}, !.messages = {q \in @ : q[1] # m.task}]
      /\ fate' = [fate EXCEPT ![m.task] = "removed"]
      /\ projects' = IF Known(m.task) THEN Pruned(projects, after) ELSE projects
  BY DEF RemoveSession
<1>2. m.task \in Tasks
  BY <1>1 DEF CommandOK
<1>3. after = [t \in Tasks |-> IF t \in R THEN None ELSE tasks[t]]
  BY <1>2 DEF StoreOK
<1>4. fate' = [t \in Tasks |-> IF t \in R THEN "removed" ELSE fate[t]]
  BY <1>1, <1>2 DEF GoneOK
<1>5. /\ gone' \in [tasks : SUBSET Tasks, projects : SUBSET Projects,
                    messages : SUBSET (Tasks \X Nat)]
      /\ gone'.tasks = gone.tasks \cup R /\ gone'.projects = gone.projects \cup X
      /\ gone'.messages \subseteq gone.messages
  BY <1>1, <1>2 DEF GoneOK
<1>6. projects' \subseteq projects \ X
  BY <1>1 DEF Pruned
<1>7. ASSUME restarts = 0 PROVE projects' \cap Scratch \subseteq InUse(after)
  <2>1. CASE Known(m.task)
    BY <1>1, <2>1 DEF Pruned
  <2>2. CASE ~Known(m.task)
    <3>1. after = tasks
      BY <1>2, <2>2 DEF StoreOK, Known
    <3>2. QED
      BY <1>1, <1>7, <2>2, <3>1 DEF AtFirst, ScratchIsUsed
  <2>3. QED
    BY <2>1, <2>2
<1>8. R \in SUBSET Tasks /\ X \in SUBSET Projects
  BY <1>2
<1> HIDE DEF after, R, X
<1>9. QED
  BY <1>1, <1>8, <1>3, <1>4, <1>5, <1>6, <1>7, RemovalKeeps

LEMMA RemoveProjectKeeps ==
    ASSUME CatalogAssumption, BoundsOK, StoreOK, GoneOK, restarts = 0 => AtFirst,
           NEW m, CommandOK(m, gestures, now),
           RemoveProject(m), UNCHANGED <<gestures, now, restarts>>
    PROVE  DaemonOK /\ KeepsMarks
<1> DEFINE R == {t \in Tasks : Known(t) /\ tasks[t].project = m.project}
           after == [t \in Tasks |-> IF t \in R THEN None ELSE tasks[t]]
<1>1. /\ m.do = "project" /\ tasks' = after /\ Store(after)
      /\ gone' = [gone EXCEPT !.projects = @ \cup {m.project}, !.tasks = @ \cup R]
      /\ fate' = [t \in Tasks |-> IF t \in R THEN "removed" ELSE fate[t]]
      /\ projects' = projects \ {m.project}
  BY DEF RemoveProject
<1>2. m.project \in Projects
  BY <1>1 DEF CommandOK
<1>3. R \subseteq Tasks
  OBVIOUS
<1>4. ASSUME restarts = 0 PROVE projects' \cap Scratch \subseteq InUse(after)
  <2>1. ASSUME NEW p \in projects, p # m.project, p \in Scratch PROVE p \in InUse(after)
    <3>1. PICK t \in Tasks : tasks[t] # None /\ tasks[t].project = p
      BY <1>4, <2>1 DEF AtFirst, ScratchIsUsed, InUse
    <3>2. t \notin R
      BY <2>1, <3>1
    <3>3. after[t] # None /\ after[t].project = p
      BY <3>1, <3>2
    <3>4. QED
      BY <3>3 DEF InUse
  <2>2. QED
    BY <1>1, <2>1
<1> HIDE DEF R
<1>5. /\ gone' \in [tasks : SUBSET Tasks, projects : SUBSET Projects,
                    messages : SUBSET (Tasks \X Nat)]
      /\ gone'.tasks = gone.tasks \cup R /\ gone'.projects = gone.projects \cup {m.project}
      /\ gone'.messages \subseteq gone.messages
  BY <1>1, <1>2, <1>3 DEF GoneOK
<1> DEFINE X == {m.project}
<1>6. /\ X \in SUBSET Projects /\ projects' \subseteq projects \ X
      /\ gone'.projects = gone.projects \cup X
  BY <1>1, <1>2, <1>5
<1> HIDE DEF after, X
<1>7. after = [t \in Tasks |-> IF t \in R THEN None ELSE tasks[t]]
  BY DEF after
<1>8. QED
  BY <1>1, <1>3, <1>4, <1>5, <1>6, <1>7, RemovalKeeps

\* A change of one session.
LEMMA EditKeeps ==
    ASSUME CatalogAssumption, NEW g \in Nat, NEW n \in Nat,
           tasks \in [Tasks -> Maybe(Sess(g, n))], GoneOK, AtFirst,
           NEW u \in Tasks, NEW s, s # None, Known(u), tasks' = [tasks EXCEPT ![u] = s],
           projects' = projects, fate' = fate,
           gone'.tasks = gone.tasks, gone'.projects = gone.projects,
           \A q \in gone'.messages : \/ q \in gone.messages
                                     \/ q \in Tasks \X Nat /\ q[1] = u /\ q[2] \notin s.queue,
           s.project = tasks[u].project, s.detail, s.bound => s.turns > 0,
           s.turns >= tasks[u].turns, s.queue \subseteq tasks[u].queue
    PROVE  AtFirst' /\ KeepsTurns
<1>1. /\ \A t \in Tasks : t # u => tasks'[t] = tasks[t]
      /\ tasks'[u] = s /\ tasks[u] # None
  BY DEF Known
<1>2. \A t \in Tasks : tasks'[t] # None =>
          tasks'[t].detail /\ (tasks'[t].bound => tasks'[t].turns > 0)
  BY <1>1 DEF AtFirst, Known
<1>3. \A t \in gone'.tasks : tasks'[t] = None
  BY <1>1 DEF AtFirst, Known, GoneOK
<1>4. \A t \in Tasks : fate'[t] = "removed" => t \in gone'.tasks
  BY DEF AtFirst
<1>5. ASSUME NEW q \in gone'.messages, tasks'[q[1]] # None
      PROVE  q[2] \notin tasks'[q[1]].queue
  <2>1. CASE q \in gone.messages
    <3>1. q[1] \in Tasks
      BY <2>1 DEF GoneOK
    <3>2. tasks[q[1]] # None => q[2] \notin tasks[q[1]].queue
      BY <2>1 DEF AtFirst, Known
    <3>3. QED
      BY <1>1, <1>5, <3>1, <3>2
  <2>2. CASE q \in Tasks \X Nat /\ q[1] = u /\ q[2] \notin s.queue
    BY <1>1, <2>2
  <2>3. QED
    BY <2>1, <2>2
<1>6. ProjectStaysRemoved'
  BY DEF AtFirst, ProjectStaysRemoved
<1>7. ScratchIsUsed'
  <2>1. ASSUME NEW p \in InUse(tasks) PROVE p \in InUse(tasks)'
    <3>1. PICK t \in Tasks : tasks[t] # None /\ tasks[t].project = p
      BY <2>1 DEF InUse
    <3>2. tasks'[t] # None /\ tasks'[t].project = p
      BY <1>1, <3>1
    <3>3. QED
      BY <3>2 DEF InUse
  <2>2. projects \cap Scratch \subseteq InUse(tasks)
    BY DEF AtFirst, ScratchIsUsed
  <2>3. projects' \cap Scratch \subseteq InUse(tasks)'
    BY <2>1, <2>2
  <2>4. QED
    BY <2>3 DEF ScratchIsUsed
<1>8. AtFirst'
  BY <1>2, <1>3, <1>4, <1>5, <1>6, <1>7 DEF AtFirst, Known
<1>9. ASSUME NEW t \in Tasks, tasks[t] # None, tasks[t].turns > 0
      PROVE  tasks'[t] # None /\ tasks'[t].turns >= tasks[t].turns
  <2>1. tasks[t].turns \in Nat
    BY <1>9 DEF Maybe, Sess
  <2>2. QED
    BY <1>1, <1>9, <2>1
<1>10. KeepsTurns
  BY <1>9 DEF KeepsTurns
<1>11. QED
  BY <1>8, <1>10

\* What hydrate makes of a session.
LEMMA HydratedSession ==
    ASSUME CatalogAssumption, BoundsOK, StoreOK, NEW t \in Tasks, Known(t)
    PROVE  /\ Hydrated(t) \in SessNow /\ Hydrated(t) # None
           /\ Stored(Hydrated(t), disk[t])
           /\ Hydrated(t).detail /\ Alike(Hydrated(t), tasks[t])
           /\ tasks[t].detail => Hydrated(t) = tasks[t]
<1>1. gestures \in Nat /\ now \in Nat
  BY TheBounds
<1>2. tasks[t] \in SessNow /\ disk[t] \in Maybe(SessNow) /\ Stored(tasks[t], disk[t])
  BY DEF StoreOK, Known, Maybe
<1>3. Hydrated(t) = HydratedFrom(tasks[t], disk[t])
  BY DEF Hydrated, HydratedFrom
<1>4. /\ HydratedFrom(tasks[t], disk[t]) \in Sess(gestures, now)
      /\ Stored(HydratedFrom(tasks[t], disk[t]), disk[t])
      /\ HydratedFrom(tasks[t], disk[t]).detail /\ Alike(HydratedFrom(tasks[t], disk[t]), tasks[t])
      /\ tasks[t].detail => HydratedFrom(tasks[t], disk[t]) = tasks[t]
  BY <1>1, <1>2, HydratedIsStored DEF SessNow
<1>5. QED
  BY <1>1, <1>3, <1>4, NoneIsNoSession DEF SessNow

\* A step that leaves the daemon's state as it is.
LEMMA NothingKeeps ==
    ASSUME CatalogAssumption, BoundsOK, StoreOK, GoneOK, restarts = 0 => AtFirst,
           UNCHANGED <<tasks, disk, projects, gone, fate, gestures, now>>
    PROVE  DaemonOK /\ KeepsMarks
<1>1. gestures \in Nat /\ SessNow' = SessNow
  BY TheBounds DEF SessNow
<1>2. StoreOK'
  BY <1>1 DEF StoreOK
<1>3. GoneOK'
  BY DEF GoneOK
<1>4. AtFirst => AtFirst'
  BY DEF AtFirst, Known, ProjectStaysRemoved, ScratchIsUsed, InUse
<1>5. KeepsTurns
  <2>1. ASSUME NEW t \in Tasks, tasks[t] # None PROVE tasks[t].turns \in Nat
    BY <1>1, <2>1 DEF StoreOK, Maybe, SessNow, Sess
  <2>2. QED
    BY <2>1 DEF KeepsTurns
<1>6. KeepsMarks
  BY DEF KeepsMarks
<1>7. QED
  BY <1>2, <1>3, <1>4, <1>5, <1>6 DEF DaemonOK

LEMMA RemoveQueuedMessageKeeps ==
    ASSUME CatalogAssumption, BoundsOK, StoreOK, GoneOK, restarts = 0 => AtFirst,
           NEW m, CommandOK(m, gestures, now),
           RemoveQueuedMessage(m), UNCHANGED <<gestures, now, restarts>>
    PROVE  DaemonOK /\ KeepsMarks
<1> DEFINE h == Hydrated(m.task)
           s == [h EXCEPT !.queue = @ \ {m.message}]
           after == [tasks EXCEPT ![m.task] = s]
           u == m.task
<1>1. m.do = "unqueue" /\ projects' = projects /\ fate' = fate
  BY DEF RemoveQueuedMessage
<1>2. u \in Tasks /\ m.message \in Nat
  BY <1>1 DEF CommandOK
<1>3. gestures \in Nat /\ now \in Nat /\ SessNow' = SessNow
  BY TheBounds DEF SessNow
<1>4. CASE ~Known(u)
  <2>1. UNCHANGED <<gone, tasks, disk>>
    BY <1>4 DEF RemoveQueuedMessage
  <2>2. QED
    BY <1>1, <2>1, NothingKeeps
<1>5. CASE Known(u)
  <2>1. /\ gone' = [gone EXCEPT !.messages = @ \cup {<<u, m.message>>}]
        /\ tasks' = after /\ Store(after)
    BY <1>5 DEF RemoveQueuedMessage
  <2>2. h \in SessNow /\ h.detail /\ Alike(h, tasks[u]) /\ (tasks[u].detail => h = tasks[u])
    BY <1>2, <1>5, HydratedSession
  <2> HIDE DEF h
  <2>3. /\ s \in SessNow /\ s.detail /\ Alike(s, h) /\ s.queue = h.queue \ {m.message}
        /\ s.turns = h.turns /\ s.bound = h.bound
    BY <2>2 DEF SessNow, Sess, Alike
  <2> HIDE DEF s
  <2>4. s # None
    BY <1>3, <2>3, NoneIsNoSession DEF SessNow
  <2>5. /\ after \in [Tasks -> Maybe(SessNow)] /\ after[u] = s
        /\ \A t \in Tasks : t # u => after[t] = tasks[t]
    BY <1>2, <2>3 DEF StoreOK, Maybe
  <2>6. after = [tasks EXCEPT ![u] = s]
    OBVIOUS
  <2> HIDE DEF after
  <2>7. StoreOK'
    <3>1. ASSUME NEW t \in Tasks, after[t] # None, ~after[t].detail
          PROVE  tasks[t] # None /\ ~tasks[t].detail /\ after[t].turns = 0 /\ ~after[t].bound
      BY <2>3, <2>5, <3>1 DEF StoreOK, Stored
    <3>2. disk' \in [Tasks -> Maybe(SessNow)] /\ \A t \in Tasks : Stored(after[t], disk'[t])
      BY <1>3, <2>1, <2>5, <3>1, StoreKeeps DEF StoreOK, SessNow
    <3>3. QED
      BY <1>3, <2>1, <2>5, <3>2 DEF StoreOK
  <2>8. /\ gone' \in [tasks : SUBSET Tasks, projects : SUBSET Projects,
                      messages : SUBSET (Tasks \X Nat)]
        /\ gone'.tasks = gone.tasks /\ gone'.projects = gone.projects
        /\ gone'.messages = gone.messages \cup {<<u, m.message>>}
    BY <1>2, <2>1 DEF GoneOK
  <2>9. GoneOK'
    BY <1>1, <2>8 DEF GoneOK
  <2>10. ASSUME restarts = 0 PROVE AtFirst' /\ KeepsTurns
    <3>1. tasks[u].detail /\ (tasks[u].bound => tasks[u].turns > 0)
      BY <1>2, <1>5, <2>10 DEF AtFirst, Known
    <3>2. h = tasks[u] /\ tasks[u].turns \in Nat
      BY <1>3, <2>2, <3>1 DEF SessNow, Sess
    <3>3. \A q \in gone'.messages : \/ q \in gone.messages
                                    \/ q \in Tasks \X Nat /\ q[1] = u /\ q[2] \notin s.queue
      BY <1>2, <2>3, <2>8
    <3>4. /\ s.project = tasks[u].project /\ s.detail /\ (s.bound => s.turns > 0)
          /\ s.turns >= tasks[u].turns /\ s.queue \subseteq tasks[u].queue
      BY <2>3, <3>1, <3>2 DEF Alike
    <3>5. AtFirst /\ tasks \in [Tasks -> Maybe(Sess(gestures, now))]
          /\ tasks' = [tasks EXCEPT ![u] = s]
      BY <2>1, <2>6, <2>10 DEF StoreOK, SessNow
    <3> HIDE DEF u
    <3>6. QED
      BY <1>1, <1>2, <1>3, <1>5, <2>4, <2>8, <3>3, <3>4, <3>5, EditKeeps
  <2>11. KeepsMarks
    BY <2>1, <2>2, <2>3, <2>5 DEF KeepsMarks, Alike
  <2>12. QED
    BY <2>7, <2>9, <2>10, <2>11 DEF DaemonOK
<1>6. QED
  BY <1>4, <1>5

LEMMA ArchiveSessionKeeps ==
    ASSUME CatalogAssumption, BoundsOK, StoreOK, GoneOK, restarts = 0 => AtFirst,
           NEW m, CommandOK(m, gestures, now),
           ArchiveSession(m), UNCHANGED <<gestures, now, restarts>>
    PROVE  /\ DaemonOK
           /\ \A t \in Tasks : (Known(t) /\ tasks'[t] # None /\ t # m.task) =>
                 tasks'[t].archived = tasks[t].archived
<1> DEFINE u == m.task
           s == [tasks[u] EXCEPT !.archived = m.mark]
           after == [tasks EXCEPT ![u] = s]
<1>1. m.do = "archive" /\ projects' = projects /\ fate' = fate /\ gone' = gone
  BY DEF ArchiveSession
<1>2. u \in Tasks /\ m.mark \in BOOLEAN
  BY <1>1 DEF CommandOK
<1>3. gestures \in Nat /\ now \in Nat /\ SessNow' = SessNow
  BY TheBounds DEF SessNow
<1>4. CASE ~Known(u)
  <2>1. UNCHANGED <<tasks, disk>>
    BY <1>4 DEF ArchiveSession
  <2>2. QED
    BY <1>1, <2>1, NothingKeeps DEF KeepsMarks
<1>5. CASE Known(u)
  <2>1. tasks[u] \in SessNow /\ tasks[u] # None
    BY <1>2, <1>5 DEF StoreOK, Known, Maybe
  <2>2. tasks' = after /\ Store(after)
    <3>1. [tasks EXCEPT ![m.task].archived = m.mark] = after
      BY <1>2 DEF StoreOK
    <3>2. QED
      BY <1>5, <3>1 DEF ArchiveSession
  <2>3. /\ s \in SessNow /\ s.detail = tasks[u].detail /\ s.project = tasks[u].project
        /\ s.queue = tasks[u].queue /\ s.turns = tasks[u].turns /\ s.bound = tasks[u].bound
        /\ tasks[u].turns \in Nat
    BY <1>2, <1>3, <2>1 DEF SessNow, Sess
  <2> HIDE DEF s
  <2>4. s # None
    BY <1>3, <2>3, NoneIsNoSession DEF SessNow
  <2>5. /\ after \in [Tasks -> Maybe(SessNow)] /\ after[u] = s
        /\ \A t \in Tasks : t # u => after[t] = tasks[t]
        /\ after = [tasks EXCEPT ![u] = s]
    BY <1>2, <2>3 DEF StoreOK, Maybe
  <2> HIDE DEF after
  <2>6. StoreOK'
    <3>1. ASSUME NEW t \in Tasks, after[t] # None, ~after[t].detail
          PROVE  tasks[t] # None /\ ~tasks[t].detail /\ after[t].turns = 0 /\ ~after[t].bound
      BY <2>1, <2>3, <2>5, <3>1 DEF StoreOK, Stored
    <3>2. disk' \in [Tasks -> Maybe(SessNow)] /\ \A t \in Tasks : Stored(after[t], disk'[t])
      BY <1>3, <2>2, <2>5, <3>1, StoreKeeps DEF StoreOK, SessNow
    <3>3. QED
      BY <1>3, <2>2, <2>5, <3>2 DEF StoreOK
  <2>7. GoneOK'
    BY <1>1 DEF GoneOK
  <2>8. ASSUME restarts = 0 PROVE AtFirst' /\ KeepsTurns
    <3>1. tasks[u].detail /\ (tasks[u].bound => tasks[u].turns > 0)
      BY <1>2, <1>5, <2>8 DEF AtFirst, Known
    <3>2. /\ s.detail /\ (s.bound => s.turns > 0) /\ s.turns >= tasks[u].turns
          /\ s.queue \subseteq tasks[u].queue
      BY <2>3, <3>1
    <3>3. AtFirst /\ tasks \in [Tasks -> Maybe(Sess(gestures, now))]
          /\ tasks' = [tasks EXCEPT ![u] = s]
      BY <2>2, <2>5, <2>8 DEF StoreOK, SessNow
    <3> HIDE DEF u
    <3>4. QED
      BY <1>1, <1>2, <1>3, <1>5, <2>3, <2>4, <3>2, <3>3, EditKeeps
  <2>9. QED
    BY <2>2, <2>5, <2>6, <2>7, <2>8 DEF DaemonOK
<1>6. QED
  BY <1>4, <1>5

LEMMA HydrateSessionKeeps ==
    ASSUME CatalogAssumption, BoundsOK, StoreOK, GoneOK, restarts = 0 => AtFirst,
           NEW m, CommandOK(m, gestures, now),
           HydrateSession(m), UNCHANGED <<gestures, now, restarts>>
    PROVE  DaemonOK /\ KeepsMarks
<1> DEFINE u == m.task
           s == Hydrated(u)
           after == [tasks EXCEPT ![u] = s]
<1>1. m.do = "hydrate" /\ projects' = projects /\ fate' = fate /\ gone' = gone /\ disk' = disk
  BY DEF HydrateSession
<1>2. u \in Tasks
  BY <1>1 DEF CommandOK
<1>3. gestures \in Nat /\ now \in Nat /\ SessNow' = SessNow
  BY TheBounds DEF SessNow
<1>4. CASE ~Known(u)
  <2>1. UNCHANGED tasks
    BY <1>4 DEF HydrateSession
  <2>2. QED
    BY <1>1, <2>1, NothingKeeps
<1>5. CASE Known(u)
  <2>1. tasks' = after
    BY <1>5 DEF HydrateSession
  <2>2. /\ s \in SessNow /\ s # None /\ Stored(s, disk[u]) /\ Alike(s, tasks[u])
        /\ tasks[u].detail => s = tasks[u]
    BY <1>2, <1>5, HydratedSession
  <2> HIDE DEF s
  <2>3. StoreOK'
    BY <1>1, <1>2, <1>3, <2>1, <2>2 DEF StoreOK, Maybe
  <2>4. GoneOK'
    BY <1>1 DEF GoneOK
  <2>5. ASSUME restarts = 0 PROVE AtFirst' /\ KeepsTurns
    <3>1. tasks[u].detail
      BY <1>2, <1>5, <2>5 DEF AtFirst
    <3>2. tasks' = tasks
      BY <1>2, <2>1, <2>2, <3>1 DEF StoreOK
    <3>3. DaemonOK
      BY <1>1, <3>2, NothingKeeps
    <3>4. QED
      BY <2>5, <3>3 DEF DaemonOK
  <2>6. KeepsMarks
    BY <1>2, <2>1, <2>2 DEF KeepsMarks, Alike, StoreOK
  <2>7. QED
    BY <2>3, <2>4, <2>5, <2>6 DEF DaemonOK
<1>6. QED
  BY <1>4, <1>5

LEMMA LastingKeeps ==
    ASSUME CatalogAssumption, BoundsOK, StoreOK, StoreOK', gestures' \in Nat,
           KeepsTurns, NEW t \in Tasks, Lasting(t)
    PROVE  Lasting(t)'
<1>1. gestures \in Nat
  BY TheBounds
<1>2. CASE t \in gone.tasks
  BY <1>2 DEF KeepsTurns, Lasting
<1>3. CASE Known(t) /\ tasks[t].turns > 0
  <2>1. tasks[t].turns \in Nat
    BY <1>1, <1>3 DEF StoreOK, Known, Maybe, SessNow, Sess
  <2>2. \/ tasks'[t] # None /\ tasks'[t].turns >= tasks[t].turns
        \/ t \in gone'.tasks
    BY <1>3 DEF KeepsTurns, Known
  <2>3. CASE t \in gone'.tasks
    BY <2>3 DEF Lasting
  <2>4. CASE tasks'[t] # None /\ tasks'[t].turns >= tasks[t].turns
    <3>1. CASE t \in gone'.tasks
      BY <3>1 DEF Lasting
    <3>2. CASE t \notin gone'.tasks
      <4>1. tasks'[t].turns \in Nat
        BY <2>4 DEF StoreOK, Maybe, SessNow, Sess
      <4>2. QED
        BY <1>3, <2>1, <2>4, <4>1 DEF Lasting, Known
    <3>3. QED
      BY <3>1, <3>2
  <2>5. QED
    BY <2>2, <2>3, <2>4
<1>4. QED
  BY <1>2, <1>3 DEF Lasting

\* What a command answers.
LEMMA ExecutedReplies ==
    ASSUME CatalogAssumption, BoundsOK, StoreOK, GoneOK, QueuesOK, restarts = 0 => AtFirst,
           NEW m \in asked, Execute(m), NEW r \in told', r \notin told
    PROVE  /\ ReplyOK(r, gestures, now)
           /\ (restarts = 0 /\ r.do = "hydrate" /\ r.copy.bound) => Lasting(r.task)
<1>1. CommandOK(m, gestures, now) /\ m.by \in Clients
  BY DEF QueuesOK, CommandOK
<1>2. gestures \in Nat /\ now \in Nat
  BY TheBounds
<1>3. CASE SaveTaskState(m)
  <2>1. r.do = "save" /\ r.by = m.by
    BY <1>3 DEF SaveTaskState
  <2>2. QED
    BY <1>1, <2>1 DEF ReplyOK
<1>4. CASE RemoveSession(m) \/ RemoveProject(m) \/ ArchiveSession(m)
  <2>1. r.do = "changed" /\ r.by = m.by
    BY <1>4 DEF RemoveSession, RemoveProject, ArchiveSession
  <2>2. QED
    BY <1>1, <2>1 DEF ReplyOK
<1>5. CASE RemoveQueuedMessage(m)
  BY <1>5 DEF RemoveQueuedMessage
<1>6. CASE LoadTaskState(m)
  <2>1. /\ r.do = "load" /\ r.by = m.by /\ r.projects = projects
        /\ r.listed = [t \in Tasks |-> ListProjection(t)]
    BY <1>6 DEF LoadTaskState
  <2>2. ASSUME NEW t \in Tasks PROVE ListProjection(t) \in Maybe(Skels(gestures, now))
    BY <1>2, SkeletonOf DEF ListProjection, StoreOK, SessNow, Maybe
  <2>3. QED
    BY <1>1, <2>1, <2>2 DEF ReplyOK, GoneOK
<1>7. CASE HydrateSession(m)
  <2>1. /\ m.do = "hydrate" /\ Known(m.task) /\ r.do = "hydrate" /\ r.by = m.by
        /\ r.task = m.task /\ r.copy = Hydrated(m.task)
    BY <1>7 DEF HydrateSession
  <2>2. m.task \in Tasks
    BY <1>1, <2>1 DEF CommandOK
  <2>3. /\ Hydrated(m.task) \in SessNow
        /\ tasks[m.task].detail => Hydrated(m.task) = tasks[m.task]
    BY <2>1, <2>2, HydratedSession
  <2>4. ReplyOK(r, gestures, now)
    BY <1>1, <2>1, <2>2, <2>3 DEF ReplyOK, SessNow
  <2>5. (restarts = 0 /\ r.copy.bound) => Lasting(r.task)
    BY <2>1, <2>2, <2>3 DEF AtFirst, Lasting
  <2>6. QED
    BY <2>4, <2>5
<1>8. QED
  BY <1>3, <1>4, <1>5, <1>6, <1>7 DEF Execute

LEMMA ExecuteKeeps ==
    ASSUME CatalogAssumption, CatalogInv, NEW m \in asked, Execute(m)
    PROVE  /\ CatalogInv' /\ (restarts = 0 => KeepsTurns)
           /\ \A t \in Tasks : (Known(t) /\ tasks'[t] # None) =>
                 \/ tasks'[t].archived = tasks[t].archived
                 \/ m.do = "archive" /\ m.task = t
<1>0. /\ BoundsOK /\ StoreOK /\ GoneOK /\ QueuesOK /\ ClientsOK
      /\ restarts = 0 => AtFirst /\ CopiesOK
      /\ CommandOK(m, gestures, now)
  BY DEF CatalogInv, QueuesOK
<1>1. UNCHANGED <<play, now, gestures, restarts>> /\ UNCHANGED clients /\ asked' = asked \ {m}
  BY DEF Execute, bounds
<1>2. /\ DaemonOK
      /\ \A t \in Tasks : (Known(t) /\ tasks'[t] # None) =>
            tasks'[t].archived = tasks[t].archived \/ (m.do = "archive" /\ m.task = t)
  <2>1. CASE SaveTaskState(m)
    <3>1. (restarts = 0 /\ m.do = "save" /\ m.copy.bound) => Lasting(m.task)
      BY <1>0 DEF CopiesOK
    <3>2. DaemonOK /\ KeepsMarks
      BY <1>0, <1>1, <2>1, <3>1, SaveKeeps
    <3>3. QED
      BY <3>2 DEF KeepsMarks
  <2>2. CASE RemoveSession(m)
    BY <1>0, <1>1, <2>2, RemoveSessionKeeps DEF KeepsMarks
  <2>3. CASE RemoveProject(m)
    BY <1>0, <1>1, <2>3, RemoveProjectKeeps DEF KeepsMarks
  <2>4. CASE RemoveQueuedMessage(m)
    BY <1>0, <1>1, <2>4, RemoveQueuedMessageKeeps DEF KeepsMarks
  <2>5. CASE ArchiveSession(m)
    <3>1. m.do = "archive"
      BY <2>5 DEF ArchiveSession
    <3>2. QED
      BY <1>0, <1>1, <2>5, <3>1, ArchiveSessionKeeps
  <2>6. CASE LoadTaskState(m)
    <3>1. UNCHANGED <<tasks, disk, projects, gone, fate>>
      BY <2>6 DEF LoadTaskState, daemon
    <3>2. QED
      BY <1>0, <1>1, <3>1, NothingKeeps DEF KeepsMarks
  <2>7. CASE HydrateSession(m)
    BY <1>0, <1>1, <2>7, HydrateSessionKeeps DEF KeepsMarks
  <2>8. QED
    BY <2>1, <2>2, <2>3, <2>4, <2>5, <2>6, <2>7 DEF Execute
<1>3. BoundsOK'
  BY <1>0, <1>1 DEF BoundsOK
<1>4. ClientsOK'
  BY <1>0, <1>1 DEF ClientsOK, clients, SessNow
<1>5. QueuesOK'
  <2>1. ASSUME NEW r \in told' PROVE ReplyOK(r, gestures, now)
    BY <1>0, ExecutedReplies DEF QueuesOK
  <2>2. QED
    BY <1>0, <1>1, <2>1 DEF QueuesOK
<1>6. ASSUME restarts = 0 PROVE CopiesOK'
  <2>1. CopiesOK /\ AtFirst /\ KeepsTurns
    BY <1>0, <1>2, <1>6 DEF DaemonOK
  <2>2. \A t \in Tasks : Lasting(t) => Lasting(t)'
    <3>1. StoreOK' /\ gestures' \in Nat
      BY <1>0, <1>1, <1>2, TheBounds DEF DaemonOK
    <3>2. QED
      BY <1>0, <2>1, <3>1, LastingKeeps
  <2>3. ASSUME NEW r \in told', r.do = "hydrate", r.copy.bound PROVE Lasting(r.task)'
    <3>1. Lasting(r.task)
      BY <1>0, <1>6, <2>1, <2>3, ExecutedReplies DEF CopiesOK
    <3>2. r.task \in Tasks
      BY <1>5, <2>3 DEF QueuesOK, ReplyOK
    <3>3. QED
      BY <2>2, <3>1, <3>2
  <2>4. ASSUME NEW o \in asked', o.do = "save", o.copy.bound PROVE Lasting(o.task)'
    <3>1. o \in asked /\ o.task \in Tasks
      BY <1>0, <1>1, <2>4 DEF QueuesOK, CommandOK
    <3>2. QED
      BY <2>1, <2>2, <2>4, <3>1 DEF CopiesOK
  <2>5. \A c \in Clients, t \in Tasks : (local'[c][t] # None /\ local'[c][t].bound) => Lasting(t)'
    BY <1>1, <2>1, <2>2 DEF CopiesOK, clients
  <2>6. QED
    BY <2>3, <2>4, <2>5 DEF CopiesOK
<1>7. QED
  BY <1>1, <1>2, <1>3, <1>4, <1>5, <1>6 DEF CatalogInv, DaemonOK

-----------------------------------------------------------------------------
(* The answers *)

\* A step of a client's, or the time's, that leaves the daemon's state as it is.
LEMMA DaemonStays ==
    ASSUME CatalogAssumption, BoundsOK, StoreOK, UNCHANGED <<daemon, now>>,
           gestures' \in {gestures, gestures + 1}
    PROVE  /\ StoreOK' /\ KeepsTurns /\ KeepsMarks
           /\ \A t \in Tasks : Lasting(t)' <=> Lasting(t)
<1>1. gestures \in Nat /\ now \in Nat
  BY TheBounds
<1>2. Sess(gestures, now) \subseteq Sess(gestures', now')
  BY <1>1, SessGrow
<1>3. tasks' = tasks /\ disk' = disk /\ gone' = gone /\ projects' = projects
  BY DEF daemon
<1>4. StoreOK'
  BY <1>2, <1>3 DEF StoreOK, SessNow, Maybe
<1>5. KeepsTurns
  <2>1. ASSUME NEW t \in Tasks, tasks[t] # None PROVE tasks[t].turns \in Nat
    BY <1>1, <2>1 DEF StoreOK, Maybe, SessNow, Sess
  <2>2. QED
    BY <1>3, <2>1 DEF KeepsTurns
<1>6. KeepsMarks
  BY <1>3 DEF KeepsMarks
<1>7. \A t \in Tasks : Lasting(t)' <=> Lasting(t)
  BY <1>3 DEF Lasting, Known
<1>8. QED
  BY <1>4, <1>5, <1>6, <1>7

LEMMA AnnounceKeeps ==
    ASSUME CatalogAssumption, CatalogInv, NEW r \in told, Announce(r)
    PROVE  CatalogInv' /\ (restarts = 0 => KeepsTurns) /\ KeepsMarks
<1>0. /\ BoundsOK /\ StoreOK /\ GoneOK /\ QueuesOK /\ ClientsOK
      /\ restarts = 0 => AtFirst /\ CopiesOK
      /\ ReplyOK(r, gestures, now)
  BY DEF CatalogInv, QueuesOK
<1>1. UNCHANGED <<play, now, gestures, restarts, tasks, projects, gone, disk, fate>> /\ told' = told \ {r}
  BY DEF Announce, bounds, daemon
<1>2. DaemonOK /\ KeepsMarks
  BY <1>0, <1>1, NothingKeeps
<1>3. \A t \in Tasks : Lasting(t)' <=> Lasting(t)
  BY <1>1 DEF Lasting, Known
<1>4. BoundsOK'
  BY <1>0, <1>1 DEF BoundsOK
<1>5. r.by \in Clients
  BY <1>0 DEF ReplyOK
<1>6. SessNow' = SessNow /\ Snapshots(gestures, now)' = Snapshots(gestures, now)
  BY <1>1 DEF SessNow
<1>7. \A o \in asked' : o \in asked \/ (o.do = "load" /\ o.by = r.by)
  BY DEF Announce, AnnounceSave, AnnounceChange, AnnounceLoad, AnswerHydrate
<1>8. QueuesOK'
  <2>1. ASSUME NEW o \in asked' PROVE CommandOK(o, gestures, now)
    BY <1>0, <1>5, <1>7 DEF QueuesOK, CommandOK
  <2>2. QED
    BY <1>0, <1>1, <2>1 DEF QueuesOK
<1>9. ClientsOK' /\ \A c \in Clients, t \in Tasks :
           \/ local'[c][t] = local[c][t]
           \/ r.do = "hydrate" /\ r.task = t /\ local'[c][t] = r.copy
  <2>1. CASE AnnounceSave(r) \/ AnnounceChange(r)
    <3>1. UNCHANGED <<local, shelf, syncing, result>> /\ notice' \subseteq notice \cup Clients
      BY <2>1 DEF AnnounceSave, AnnounceChange, Others
    <3>2. QED
      BY <1>0, <1>6, <3>1 DEF ClientsOK
  <2>2. CASE AnnounceLoad(r)
    <3>1. /\ r.do = "load" /\ UNCHANGED <<local, shelf, notice>> /\ syncing' \subseteq syncing
          /\ result' = [result EXCEPT ![r.by] = [listed |-> r.listed, projects |-> r.projects]]
      BY <2>2 DEF AnnounceLoad
    <3>2. [listed |-> r.listed, projects |-> r.projects] \in Snapshots(gestures, now)
      BY <1>0, <3>1 DEF ReplyOK, Snapshots
    <3>3. result' \in [Clients -> Maybe(Snapshots(gestures, now))]
      BY <1>0, <3>1, <3>2 DEF ClientsOK, Maybe
    <3>4. QED
      BY <1>0, <1>1, <1>6, <3>1, <3>3 DEF ClientsOK
  <2>3. CASE AnswerHydrate(r)
    <3>1. /\ r.do = "hydrate" /\ UNCHANGED <<shelf, notice, syncing, result>>
          /\ local' = IF local[r.by][r.task] = None THEN local
                      ELSE [local EXCEPT ![r.by][r.task] = r.copy]
      BY <2>3 DEF AnswerHydrate
    <3>2. r.task \in Tasks /\ r.copy \in SessNow
      BY <1>0, <3>1 DEF ReplyOK, SessNow
    <3>3. /\ local' \in [Clients -> [Tasks -> Maybe(SessNow)]]
          /\ \A c \in Clients, t \in Tasks :
                local'[c][t] = local[c][t] \/ (r.task = t /\ local'[c][t] = r.copy)
      BY <1>0, <1>5, <3>1, <3>2 DEF ClientsOK, Maybe
    <3>4. QED
      BY <1>0, <1>1, <1>6, <3>1, <3>3 DEF ClientsOK
  <2>4. QED
    BY <2>1, <2>2, <2>3 DEF Announce
<1>10. ASSUME restarts = 0 PROVE CopiesOK'
  <2>1. CopiesOK
    BY <1>0, <1>10
  <2>2. \A c \in Clients, t \in Tasks : (local'[c][t] # None /\ local'[c][t].bound) => Lasting(t)'
    BY <1>3, <1>9, <2>1 DEF CopiesOK
  <2>3. ASSUME NEW o \in asked', o.do = "save", o.copy.bound PROVE Lasting(o.task)'
    <3>1. o \in asked /\ o.task \in Tasks
      BY <1>7, <1>8, <2>3 DEF QueuesOK, CommandOK
    <3>2. QED
      BY <1>3, <2>1, <2>3, <3>1 DEF CopiesOK
  <2>4. ASSUME NEW o \in told', o.do = "hydrate", o.copy.bound PROVE Lasting(o.task)'
    <3>1. o \in told /\ o.task \in Tasks
      BY <1>1, <1>8, <2>4 DEF QueuesOK, ReplyOK
    <3>2. QED
      BY <1>3, <2>1, <2>4, <3>1 DEF CopiesOK
  <2>5. QED
    BY <2>2, <2>3, <2>4 DEF CopiesOK
<1>11. QED
  BY <1>1, <1>2, <1>4, <1>8, <1>9, <1>10 DEF CatalogInv, DaemonOK

-----------------------------------------------------------------------------
(* The clients *)

LEMMA SyncLoadsKeeps ==
    ASSUME CatalogAssumption, CatalogInv, NEW c \in Clients, SyncLoads(c)
    PROVE  CatalogInv' /\ (restarts = 0 => KeepsTurns) /\ KeepsMarks
<1>0. /\ BoundsOK /\ StoreOK /\ GoneOK /\ QueuesOK /\ ClientsOK
      /\ restarts = 0 => AtFirst /\ CopiesOK
  BY DEF CatalogInv
<1>1. /\ UNCHANGED <<play, now, gestures, restarts, tasks, projects, gone, disk, fate,
                     told, local, shelf, result>>
      /\ notice' = notice \ {c} /\ syncing' = syncing \cup {c}
      /\ asked' = asked \cup {[do |-> "load", by |-> c, sync |-> TRUE]}
  BY DEF SyncLoads, bounds, daemon
<1>2. DaemonOK /\ KeepsMarks
  BY <1>0, <1>1, NothingKeeps
<1>3. BoundsOK' /\ ClientsOK'
  BY <1>0, <1>1 DEF BoundsOK, ClientsOK, SessNow
<1>4. \A o \in asked' : o \in asked \/ (o.do = "load" /\ o.by = c)
  BY <1>1
<1>5. QueuesOK'
  <2>1. ASSUME NEW o \in asked' PROVE CommandOK(o, gestures, now)
    BY <1>0, <1>4 DEF QueuesOK, CommandOK
  <2>2. QED
    BY <1>0, <1>1, <2>1 DEF QueuesOK
<1>6. CopiesOK => CopiesOK'
  BY <1>1, <1>4 DEF CopiesOK, Lasting, Known
<1>7. QED
  BY <1>0, <1>1, <1>2, <1>3, <1>5, <1>6 DEF CatalogInv, DaemonOK

LEMMA RefreshedSession ==
    ASSUME NEW g \in Nat, NEW n \in Nat, NEW mine \in Maybe(Sess(g, n)),
           NEW remote \in Maybe(Skels(g, n))
    PROVE  /\ Refreshed(mine, remote) \in Maybe(Sess(g, n))
           /\ (Refreshed(mine, remote) # None /\ Refreshed(mine, remote).bound) =>
                 mine # None /\ mine.bound
<1>1. CASE remote = None
  BY <1>1 DEF Refreshed, Maybe
<1>2. CASE remote # None /\ mine = None
  BY <1>2 DEF Refreshed, Maybe, Skels, IsSkeleton
<1>3. CASE remote # None /\ mine # None
  <2>1. mine \in Sess(g, n) /\ remote \in Sess(g, n)
    BY <1>3 DEF Maybe, Skels
  <2>2. Refreshed(mine, remote) =
          [mine EXCEPT !.title = remote.title, !.project = remote.project, !.at = remote.at,
                       !.archived = remote.archived]
    BY <1>3 DEF Refreshed
  <2>3. Refreshed(mine, remote) \in Sess(g, n) /\ Refreshed(mine, remote).bound = mine.bound
    BY <2>1, <2>2 DEF Sess
  <2>4. QED
    BY <1>3, <2>3 DEF Maybe
<1>4. QED
  BY <1>1, <1>2, <1>3

LEMMA ApplySnapshotKeeps ==
    ASSUME CatalogAssumption, CatalogInv, NEW c \in Clients, ApplySnapshot(c)
    PROVE  CatalogInv' /\ (restarts = 0 => KeepsTurns) /\ KeepsMarks
<1>0. /\ BoundsOK /\ StoreOK /\ GoneOK /\ QueuesOK /\ ClientsOK
      /\ restarts = 0 => AtFirst /\ CopiesOK
  BY DEF CatalogInv
<1>1. /\ UNCHANGED <<play, now, gestures, restarts, tasks, projects, gone, disk, fate,
                     asked, told, notice, syncing>>
      /\ result[c] # None
      /\ local' = [local EXCEPT ![c] = [t \in Tasks |-> Refreshed(local[c][t], result[c].listed[t])]]
      /\ shelf' = [shelf EXCEPT ![c] = result[c].projects]
      /\ result' = [result EXCEPT ![c] = None]
  BY DEF ApplySnapshot, bounds, daemon, ClientsOK, CatalogInv
<1>2. DaemonOK /\ KeepsMarks
  BY <1>0, <1>1, NothingKeeps
<1>3. BoundsOK' /\ QueuesOK' /\ SessNow' = SessNow
  BY <1>0, <1>1 DEF BoundsOK, QueuesOK, SessNow
<1>4. gestures \in Nat /\ now \in Nat
  BY <1>0, TheBounds
<1>5. result[c].listed \in [Tasks -> Maybe(Skels(gestures, now))] /\ result[c].projects \subseteq Projects
  <2>1. result[c] \in Snapshots(gestures, now)
    BY <1>0, <1>1 DEF ClientsOK, Maybe
  <2>2. QED
    BY <2>1 DEF Snapshots
<1>6. ASSUME NEW t \in Tasks
      PROVE  /\ Refreshed(local[c][t], result[c].listed[t]) \in Maybe(SessNow)
             /\ (/\ Refreshed(local[c][t], result[c].listed[t]) # None
                 /\ Refreshed(local[c][t], result[c].listed[t]).bound) =>
                   local[c][t] # None /\ local[c][t].bound
  <2>1. local[c][t] \in Maybe(Sess(gestures, now)) /\ result[c].listed[t] \in Maybe(Skels(gestures, now))
    BY <1>0, <1>5 DEF ClientsOK, SessNow
  <2>2. QED
    BY <1>4, <2>1, RefreshedSession DEF SessNow
<1>7. ClientsOK'
  <2>1. local' \in [Clients -> [Tasks -> Maybe(SessNow)]]
    BY <1>0, <1>1, <1>6 DEF ClientsOK
  <2>2. shelf' \in [Clients -> SUBSET Projects]
    BY <1>0, <1>1, <1>5 DEF ClientsOK
  <2>3. result' \in [Clients -> Maybe(Snapshots(gestures, now))]
    BY <1>0, <1>1 DEF ClientsOK, Maybe
  <2>4. QED
    BY <1>0, <1>1, <1>3, <2>1, <2>2, <2>3 DEF ClientsOK
<1>8. ASSUME restarts = 0 PROVE CopiesOK'
  <2>1. CopiesOK
    BY <1>0, <1>8
  <2>2. ASSUME NEW d \in Clients, NEW t \in Tasks, local'[d][t] # None, local'[d][t].bound
        PROVE  Lasting(t)
    <3>1. CASE d = c
      <4>1. local'[c][t] = Refreshed(local[c][t], result[c].listed[t])
        BY <1>0, <1>1 DEF ClientsOK
      <4>2. local[c][t] # None /\ local[c][t].bound
        BY <1>6, <2>2, <3>1, <4>1
      <4>3. QED
        BY <2>1, <4>2 DEF CopiesOK
    <3>2. CASE d # c
      <4>1. local'[d] = local[d]
        BY <1>0, <1>1, <3>2 DEF ClientsOK
      <4>2. QED
        BY <2>1, <2>2, <4>1 DEF CopiesOK
    <3>3. QED
      BY <3>1, <3>2
  <2>3. QED
    BY <1>1, <2>1, <2>2 DEF CopiesOK, Lasting, Known
<1>9. QED
  BY <1>0, <1>1, <1>2, <1>3, <1>7, <1>8 DEF CatalogInv, DaemonOK

\* What was sent fits as well later.
LEMMA SentStaysFit ==
    ASSUME NEW g \in Nat, NEW n \in Nat, NEW h \in Nat, NEW o \in Nat, g <= h, n <= o
    PROVE  /\ \A m : CommandOK(m, g, n) => CommandOK(m, h, o)
           /\ \A r : ReplyOK(r, g, n) => ReplyOK(r, h, o)
           /\ Maybe(Sess(g, n)) \subseteq Maybe(Sess(h, o))
           /\ Maybe(Skels(g, n)) \subseteq Maybe(Skels(h, o))
           /\ Maybe(Snapshots(g, n)) \subseteq Maybe(Snapshots(h, o))
<1>1. Sess(g, n) \subseteq Sess(h, o) /\ Skels(g, n) \subseteq Skels(h, o)
  BY SessGrow
<1>2. \A m : CommandOK(m, g, n) => CommandOK(m, h, o)
  BY <1>1 DEF CommandOK
<1>3. /\ Maybe(Sess(g, n)) \subseteq Maybe(Sess(h, o))
      /\ Maybe(Skels(g, n)) \subseteq Maybe(Skels(h, o))
  BY <1>1 DEF Maybe
<1>4. ASSUME NEW f \in [Tasks -> Maybe(Skels(g, n))] PROVE f \in [Tasks -> Maybe(Skels(h, o))]
  BY <1>3
<1>5. \A r : ReplyOK(r, g, n) => ReplyOK(r, h, o)
  BY <1>1, <1>4 DEF ReplyOK
<1>6. Maybe(Snapshots(g, n)) \subseteq Maybe(Snapshots(h, o))
  BY <1>4 DEF Maybe, Snapshots
<1>7. QED
  BY <1>2, <1>3, <1>5, <1>6

LEMMA GestureKeeps ==
    ASSUME CatalogAssumption, CatalogInv, NEW c \in Clients, NEW kind,
           NEW sessions \in [Tasks -> Maybe(Sess(gestures + 1, now))],
           NEW known \in SUBSET Projects, NEW commands,
           Gesture(c, kind, sessions, known, commands),
           \A m \in commands : CommandOK(m, gestures + 1, now),
           fate' \in [Tasks -> {"unused", "used", "removed"}],
           \A t \in Tasks : fate'[t] = "removed" => fate[t] = "removed",
           restarts = 0 =>
               /\ \A t \in Tasks : (sessions[t] # None /\ sessions[t].bound) => Lasting(t)
               /\ \A m \in commands : (m.do = "save" /\ m.copy.bound) => Lasting(m.task)
    PROVE  CatalogInv' /\ (restarts = 0 => KeepsTurns) /\ KeepsMarks
<1>0. /\ BoundsOK /\ StoreOK /\ GoneOK /\ QueuesOK /\ ClientsOK
      /\ restarts = 0 => AtFirst /\ CopiesOK
  BY DEF CatalogInv
<1>1. /\ UNCHANGED <<play, now, restarts, tasks, projects, gone, disk, told, notice, syncing, result>>
      /\ UNCHANGED daemon /\ gestures < play.gestures /\ gestures' = gestures + 1
      /\ local' = [local EXCEPT ![c] = sessions]
      /\ shelf' = [shelf EXCEPT ![c] = known]
      /\ asked' = asked \cup commands
  BY DEF Gesture, daemon
<1>2. gestures \in Nat /\ now \in Nat /\ play.gestures \in Nat
  BY <1>0, TheBounds
<1>3. StoreOK' /\ KeepsTurns /\ KeepsMarks /\ \A t \in Tasks : Lasting(t)' <=> Lasting(t)
  BY <1>0, <1>1, DaemonStays
<1>4. BoundsOK'
  <2>1. gestures' \in 0..play.gestures
    BY <1>1, <1>2
  <2>2. QED
    BY <1>0, <1>1, <2>1 DEF BoundsOK
<1>5. GoneOK'
  BY <1>0, <1>1 DEF GoneOK
<1>6. /\ \A m : CommandOK(m, gestures, now) => CommandOK(m, gestures + 1, now)
      /\ \A r : ReplyOK(r, gestures, now) => ReplyOK(r, gestures + 1, now)
      /\ Maybe(Sess(gestures, now)) \subseteq Maybe(Sess(gestures + 1, now))
      /\ Maybe(Snapshots(gestures, now)) \subseteq Maybe(Snapshots(gestures + 1, now))
  <2>1. gestures + 1 \in Nat /\ gestures <= gestures + 1 /\ now <= now
    BY <1>2
  <2>2. QED
    BY <1>2, <2>1, SentStaysFit
<1>7. QueuesOK'
  <2>1. /\ \A m \in asked : CommandOK(m, gestures + 1, now)
        /\ \A r \in told : ReplyOK(r, gestures + 1, now)
    BY <1>0, <1>6 DEF QueuesOK
  <2>2. QED
    BY <1>1, <2>1 DEF QueuesOK
<1>8. ClientsOK'
  <2>1. local' \in [Clients -> [Tasks -> Maybe(Sess(gestures + 1, now))]]
    <3>1. local \in [Clients -> [Tasks -> Maybe(Sess(gestures + 1, now))]]
      BY <1>0, <1>6 DEF ClientsOK, SessNow
    <3>2. QED
      BY <1>1, <3>1
  <2>2. shelf' \in [Clients -> SUBSET Projects]
    BY <1>0, <1>1 DEF ClientsOK
  <2>3. result' \in [Clients -> Maybe(Snapshots(gestures + 1, now))]
    BY <1>0, <1>1, <1>6 DEF ClientsOK
  <2>4. QED
    BY <1>0, <1>1, <2>1, <2>2, <2>3 DEF ClientsOK, SessNow
<1>9. ASSUME restarts = 0 PROVE AtFirst' /\ CopiesOK'
  <2>1. AtFirst /\ CopiesOK
    BY <1>0, <1>9
  <2>2. AtFirst'
    BY <1>1, <2>1 DEF AtFirst, Known, ProjectStaysRemoved, ScratchIsUsed, InUse
  <2>3. ASSUME NEW d \in Clients, NEW t \in Tasks, local'[d][t] # None, local'[d][t].bound
        PROVE  Lasting(t)
    <3>1. CASE d = c
      BY <1>0, <1>1, <1>9, <2>3, <3>1 DEF ClientsOK
    <3>2. CASE d # c
      <4>1. local'[d] = local[d]
        BY <1>0, <1>1, <3>2 DEF ClientsOK
      <4>2. QED
        BY <2>1, <2>3, <4>1 DEF CopiesOK
    <3>3. QED
      BY <3>1, <3>2
  <2>4. ASSUME NEW m \in asked', m.do = "save", m.copy.bound PROVE Lasting(m.task)'
    <3>1. m.task \in Tasks
      BY <1>7, <2>4 DEF QueuesOK, CommandOK
    <3>2. Lasting(m.task)
      BY <1>1, <1>9, <2>1, <2>4 DEF CopiesOK
    <3>3. QED
      BY <1>3, <3>1, <3>2
  <2>5. ASSUME NEW r \in told', r.do = "hydrate", r.copy.bound PROVE Lasting(r.task)'
    <3>1. r \in told /\ r.task \in Tasks
      BY <1>1, <1>7, <2>5 DEF QueuesOK, ReplyOK
    <3>2. QED
      BY <1>3, <2>1, <2>5, <3>1 DEF CopiesOK
  <2>6. QED
    BY <1>3, <2>2, <2>3, <2>4, <2>5 DEF CopiesOK
<1>10. QED
  BY <1>1, <1>3, <1>4, <1>5, <1>7, <1>8, <1>9 DEF CatalogInv

\* A client's own sessions and projects, as a gesture finds them.
LEMMA OwnCopies ==
    ASSUME CatalogAssumption, CatalogInv, NEW c \in Clients
    PROVE  /\ gestures \in Nat /\ now \in Nat /\ gestures + 1 \in Nat
           /\ local[c] \in [Tasks -> Maybe(Sess(gestures + 1, now))]
           /\ shelf[c] \in SUBSET Projects
           /\ fate \in [Tasks -> {"unused", "used", "removed"}]
           /\ restarts = 0 => \A t \in Tasks : (local[c][t] # None /\ local[c][t].bound) => Lasting(t)
<1>1. gestures \in Nat /\ now \in Nat
  BY TheBounds DEF CatalogInv
<1>2. gestures + 1 \in Nat /\ gestures <= gestures + 1 /\ now <= now
  BY <1>1
<1>3. Maybe(Sess(gestures, now)) \subseteq Maybe(Sess(gestures + 1, now))
  BY <1>1, <1>2, SentStaysFit
<1>4. local[c] \in [Tasks -> Maybe(Sess(gestures, now))] /\ shelf[c] \in SUBSET Projects
  BY DEF CatalogInv, ClientsOK, SessNow
<1>5. local[c] \in [Tasks -> Maybe(Sess(gestures + 1, now))]
  BY <1>3, <1>4
<1>6. QED
  BY <1>1, <1>2, <1>4, <1>5 DEF CatalogInv, GoneOK, CopiesOK

LEMMA SaveIsFit ==
    ASSUME NEW g \in Nat, NEW n \in Nat, NEW c \in Clients, NEW t \in Tasks,
           NEW copy \in Sess(g, n), NEW known \in SUBSET Projects
    PROVE  /\ CommandOK(SaveOf(c, t, copy, known), g, n)
           /\ SaveOf(c, t, copy, known).do = "save" /\ SaveOf(c, t, copy, known).task = t
           /\ SaveOf(c, t, copy, known).copy.bound = copy.bound
<1> DEFINE sent == [copy EXCEPT !.turns = 0]
<1>1. 0 \in 0..(g + 1)
  OBVIOUS
<1>2. sent \in Sess(g, n) /\ sent.bound = copy.bound
  BY <1>1 DEF Sess
<1>3. SaveOf(c, t, copy, known) =
          [do |-> "save", by |-> c, task |-> t, copy |-> sent, projects |-> known]
  BY DEF SaveOf
<1> HIDE DEF sent
<1>4. QED
  BY <1>2, <1>3 DEF CommandOK

LEMMA EditGestureKeeps ==
    ASSUME CatalogAssumption, CatalogInv, NEW c \in Clients, NEW t \in Tasks, NEW kind,
           Shows(c, t), NEW copy \in Sess(gestures + 1, now), copy.bound = local[c][t].bound,
           NEW more, \A m \in more : CommandOK(m, gestures + 1, now) /\ m.do # "save",
           Edit(c, t, kind, copy, more)
    PROVE  CatalogInv' /\ (restarts = 0 => KeepsTurns) /\ KeepsMarks
<1>1. /\ gestures \in Nat /\ now \in Nat /\ gestures + 1 \in Nat
      /\ local[c] \in [Tasks -> Maybe(Sess(gestures + 1, now))]
      /\ shelf[c] \in SUBSET Projects
      /\ fate \in [Tasks -> {"unused", "used", "removed"}]
      /\ restarts = 0 => \A u \in Tasks : (local[c][u] # None /\ local[c][u].bound) => Lasting(u)
  BY OwnCopies
<1> DEFINE sessions == [local[c] EXCEPT ![t] = copy]
           save == SaveOf(c, t, copy, shelf[c])
           commands == more \cup {save}
<1>2. Gesture(c, kind, sessions, shelf[c], commands) /\ fate' = fate
  BY DEF Edit
<1>3. CommandOK(save, gestures + 1, now) /\ save.do = "save" /\ save.task = t /\ save.copy.bound = copy.bound
  BY <1>1, SaveIsFit
<1> HIDE DEF save
<1>4. sessions \in [Tasks -> Maybe(Sess(gestures + 1, now))]
  BY <1>1 DEF Maybe
<1>5. /\ \A m \in commands : CommandOK(m, gestures + 1, now)
      /\ \A m \in commands : m.do = "save" => m = save
  BY <1>3
<1>6. ASSUME restarts = 0
      PROVE  /\ \A u \in Tasks : (sessions[u] # None /\ sessions[u].bound) => Lasting(u)
             /\ \A m \in commands : (m.do = "save" /\ m.copy.bound) => Lasting(m.task)
  <2>1. copy.bound => Lasting(t)
    BY <1>1, <1>6 DEF Shows
  <2>2. QED
    BY <1>1, <1>3, <1>5, <1>6, <2>1
<1> HIDE DEF sessions, commands
<1>7. QED
  BY <1>1, <1>2, <1>4, <1>5, <1>6, GestureKeeps

\* The copy of a client, as an edit finds it.
LEMMA OwnCopy ==
    ASSUME CatalogAssumption, CatalogInv, NEW c \in Clients, NEW t \in Tasks, Shows(c, t)
    PROVE  local[c][t] \in Sess(gestures + 1, now)
<1>1. local[c] \in [Tasks -> Maybe(Sess(gestures + 1, now))]
  BY OwnCopies
<1>2. QED
  BY <1>1 DEF Shows, Maybe

LEMMA CreateSessionKeeps ==
    ASSUME CatalogAssumption, CatalogInv, NEW c \in Clients, NEW t \in Tasks, NEW p \in Projects,
           CreateSession(c, t, p)
    PROVE  CatalogInv' /\ (restarts = 0 => KeepsTurns) /\ KeepsMarks
<1> DEFINE copy == [Session(p, 0, TRUE) EXCEPT !.at = now]
           known == shelf[c] \cup {p}
           sessions == [local[c] EXCEPT ![t] = copy]
           save == SaveOf(c, t, copy, known)
           commands == {save}
<1>1. /\ gestures \in Nat /\ now \in Nat /\ gestures + 1 \in Nat
      /\ local[c] \in [Tasks -> Maybe(Sess(gestures + 1, now))]
      /\ shelf[c] \in SUBSET Projects
      /\ fate \in [Tasks -> {"unused", "used", "removed"}]
      /\ restarts = 0 => \A u \in Tasks : (local[c][u] # None /\ local[c][u].bound) => Lasting(u)
  BY OwnCopies
<1>2. Gesture(c, "create", sessions, known, commands) /\ fate' = [fate EXCEPT ![t] = "used"]
  BY DEF CreateSession
<1>3. copy \in Sess(gestures + 1, now) /\ ~copy.bound
  <2>1. /\ 0 \in 0..(gestures + 1) /\ now \in 0..now /\ 0 \in 0..(gestures + 1 + 1)
        /\ {} \in SUBSET (1..(gestures + 1))
    BY <1>1
  <2> DEFINE base == Session(p, 0, TRUE)
  <2>2. base \in Sess(gestures + 1, now) /\ ~base.bound
    <3>1. 0 \in 0..now /\ ~(0 > 0) /\ (0 > 0) \in BOOLEAN
      BY <1>1
    <3>2. QED
      BY <2>1, <3>1 DEF Session, Sess
  <2>3. copy = [base EXCEPT !.at = now]
    OBVIOUS
  <2> HIDE DEF base
  <2>4. [base EXCEPT !.at = now] \in Sess(gestures + 1, now) /\ ~[base EXCEPT !.at = now].bound
    BY <2>1, <2>2 DEF Sess
  <2>5. QED
    BY <2>3, <2>4
<1> HIDE DEF copy
<1>4. known \in SUBSET Projects
  BY <1>1
<1> HIDE DEF known
<1>5. CommandOK(save, gestures + 1, now) /\ save.do = "save" /\ save.task = t /\ save.copy.bound = copy.bound
  BY <1>1, <1>3, <1>4, SaveIsFit
<1> HIDE DEF save
<1>6. sessions \in [Tasks -> Maybe(Sess(gestures + 1, now))]
  BY <1>1, <1>3 DEF Maybe
<1>7. /\ \A m \in commands : CommandOK(m, gestures + 1, now) /\ ~m.copy.bound
      /\ restarts = 0 => \A u \in Tasks : (sessions[u] # None /\ sessions[u].bound) => Lasting(u)
  BY <1>1, <1>3, <1>5
<1>8. /\ fate' \in [Tasks -> {"unused", "used", "removed"}]
      /\ \A u \in Tasks : fate'[u] = "removed" => fate[u] = "removed"
  BY <1>1, <1>2
<1> HIDE DEF sessions, commands
<1>9. QED
  BY <1>2, <1>4, <1>6, <1>7, <1>8, GestureKeeps

LEMMA RenameSessionKeeps ==
    ASSUME CatalogAssumption, CatalogInv, NEW c \in Clients, NEW t \in Tasks,
           NEW title \in 0..(gestures + 1), RenameSession(c, t, title)
    PROVE  CatalogInv' /\ (restarts = 0 => KeepsTurns) /\ KeepsMarks
<1> DEFINE copy == [local[c][t] EXCEPT !.title = title, !.at = now]
           more == {}
           kind == IF title = gestures + 1 THEN "rename" ELSE "return"
<1>1. Shows(c, t) /\ Edit(c, t, kind, copy, more)
  BY DEF RenameSession
<1>2. now \in 0..now
  BY OwnCopies
<1>3. copy \in Sess(gestures + 1, now) /\ copy.bound = local[c][t].bound
  BY <1>1, <1>2, OwnCopy DEF Sess
<1>4. \A m \in more : CommandOK(m, gestures + 1, now) /\ m.do # "save"
  OBVIOUS
<1> HIDE DEF copy, more, kind
<1>5. QED
  BY <1>1, <1>3, <1>4, EditGestureKeeps

LEMMA EnqueueMessageKeeps ==
    ASSUME CatalogAssumption, CatalogInv, NEW c \in Clients, NEW t \in Tasks, EnqueueMessage(c, t)
    PROVE  CatalogInv' /\ (restarts = 0 => KeepsTurns) /\ KeepsMarks
<1> DEFINE copy == [local[c][t] EXCEPT !.queue = @ \cup {gestures + 1}, !.at = now]
           more == {}
<1>1. Shows(c, t) /\ Edit(c, t, "enqueue", copy, more)
  BY DEF EnqueueMessage
<1>2. gestures + 1 \in 1..(gestures + 1) /\ now \in 0..now
  BY OwnCopies
<1>3. copy \in Sess(gestures + 1, now) /\ copy.bound = local[c][t].bound
  BY <1>1, <1>2, OwnCopy DEF Sess
<1>4. \A m \in more : CommandOK(m, gestures + 1, now) /\ m.do # "save"
  OBVIOUS
<1> HIDE DEF copy, more
<1>5. QED
  BY <1>1, <1>3, <1>4, EditGestureKeeps

LEMMA TakeQueuedMessageKeeps ==
    ASSUME CatalogAssumption, CatalogInv, NEW c \in Clients, NEW t \in Tasks,
           NEW i \in 1..play.gestures, TakeQueuedMessage(c, t, i)
    PROVE  CatalogInv' /\ (restarts = 0 => KeepsTurns) /\ KeepsMarks
<1> DEFINE copy == [local[c][t] EXCEPT !.queue = @ \ {i}]
           more == {[do |-> "unqueue", by |-> c, task |-> t, message |-> i]}
<1>1. Shows(c, t) /\ Edit(c, t, "unqueue", copy, more)
  BY DEF TakeQueuedMessage
<1>2. i \in Nat
  BY TheBounds DEF CatalogInv
<1>3. copy \in Sess(gestures + 1, now) /\ copy.bound = local[c][t].bound
  BY <1>1, OwnCopy DEF Sess
<1>4. \A m \in more : CommandOK(m, gestures + 1, now) /\ m.do # "save"
  BY <1>2 DEF CommandOK
<1> HIDE DEF copy, more
<1>5. QED
  BY <1>1, <1>3, <1>4, EditGestureKeeps

\* A gesture that keeps the client's copies, or drops some, and saves none.
LEMMA QuietGestureKeeps ==
    ASSUME CatalogAssumption, CatalogInv, NEW c \in Clients, NEW kind,
           NEW sessions \in [Tasks -> Maybe(AnySession)],
           \A t \in Tasks : sessions[t] \in {local[c][t], None},
           NEW known \in SUBSET Projects, NEW commands,
           Gesture(c, kind, sessions, known, commands),
           \A m \in commands : CommandOK(m, gestures + 1, now) /\ m.do # "save",
           fate' = fate
    PROVE  CatalogInv' /\ (restarts = 0 => KeepsTurns) /\ KeepsMarks
<1>1. /\ local[c] \in [Tasks -> Maybe(Sess(gestures + 1, now))]
      /\ fate \in [Tasks -> {"unused", "used", "removed"}]
      /\ restarts = 0 => \A u \in Tasks : (local[c][u] # None /\ local[c][u].bound) => Lasting(u)
  BY OwnCopies
<1>2. sessions \in [Tasks -> Maybe(Sess(gestures + 1, now))]
  BY <1>1 DEF Maybe
<1>3. restarts = 0 => \A u \in Tasks : (sessions[u] # None /\ sessions[u].bound) => Lasting(u)
  BY <1>1
<1>4. QED
  BY <1>1, <1>2, <1>3, GestureKeeps

LEMMA OtherGesturesKeep ==
    ASSUME CatalogAssumption, CatalogInv, NEW c \in Clients,
           \/ \E t \in Tasks : OpenSession(c, t) \/ ArchiveGesture(c, t) \/ RemoveGesture(c, t)
           \/ \E p \in Projects : ProjectGesture(c, p)
    PROVE  CatalogInv' /\ (restarts = 0 => KeepsTurns) /\ KeepsMarks
<1>1. /\ gestures \in Nat /\ now \in Nat /\ gestures + 1 \in Nat
      /\ local[c] \in [Tasks -> Maybe(Sess(gestures + 1, now))] /\ shelf[c] \in SUBSET Projects
  BY OwnCopies
<1>2. local[c] \in [Tasks -> Maybe(AnySession)]
  BY <1>1, SessAreSessions DEF Maybe
<1>3. ASSUME NEW t \in Tasks, OpenSession(c, t)
      PROVE  CatalogInv' /\ (restarts = 0 => KeepsTurns) /\ KeepsMarks
  <2> DEFINE commands == {[do |-> "hydrate", by |-> c, task |-> t]}
  <2>1. Gesture(c, "open", local[c], shelf[c], commands) /\ fate' = fate
    BY <1>3 DEF OpenSession
  <2>2. \A m \in commands : CommandOK(m, gestures + 1, now) /\ m.do # "save"
    BY DEF CommandOK
  <2> HIDE DEF commands
  <2>3. QED
    BY <1>1, <1>2, <2>1, <2>2, QuietGestureKeeps
<1>4. ASSUME NEW t \in Tasks, ArchiveGesture(c, t)
      PROVE  CatalogInv' /\ (restarts = 0 => KeepsTurns) /\ KeepsMarks
  <2> DEFINE mark == ~local[c][t].archived
             commands == {[do |-> "archive", by |-> c, task |-> t, mark |-> mark]}
  <2>1. Gesture(c, "archive", local[c], shelf[c], commands) /\ fate' = fate
    BY <1>4 DEF ArchiveGesture
  <2>2. mark \in BOOLEAN
    OBVIOUS
  <2> HIDE DEF mark
  <2>3. \A m \in commands : CommandOK(m, gestures + 1, now) /\ m.do # "save"
    BY <2>2 DEF CommandOK
  <2> HIDE DEF commands
  <2>4. QED
    BY <1>1, <1>2, <2>1, <2>3, QuietGestureKeeps
<1>5. ASSUME NEW t \in Tasks, RemoveGesture(c, t)
      PROVE  CatalogInv' /\ (restarts = 0 => KeepsTurns) /\ KeepsMarks
  <2> DEFINE sessions == [local[c] EXCEPT ![t] = None]
             commands == {[do |-> "remove", by |-> c, task |-> t]}
  <2>1. Gesture(c, "remove", sessions, shelf[c], commands) /\ fate' = fate
    BY <1>5 DEF RemoveGesture
  <2>2. \A m \in commands : CommandOK(m, gestures + 1, now) /\ m.do # "save"
    BY DEF CommandOK
  <2>3. /\ sessions \in [Tasks -> Maybe(AnySession)]
        /\ \A u \in Tasks : sessions[u] \in {local[c][u], None}
    BY <1>2 DEF Maybe
  <2> HIDE DEF sessions, commands
  <2>4. QED
    BY <1>1, <2>1, <2>2, <2>3, QuietGestureKeeps
<1>6. ASSUME NEW p \in Projects, ProjectGesture(c, p)
      PROVE  CatalogInv' /\ (restarts = 0 => KeepsTurns) /\ KeepsMarks
  <2> DEFINE inside == {t \in Tasks : Shows(c, t) /\ local[c][t].project = p}
             sessions == [t \in Tasks |-> IF t \in inside THEN None ELSE local[c][t]]
             commands == {[do |-> "remove", by |-> c, task |-> t] : t \in inside}
                             \cup {[do |-> "project", by |-> c, project |-> p]}
             known == shelf[c] \ {p}
  <2>1. Gesture(c, "project", sessions, known, commands) /\ fate' = fate
    BY <1>6 DEF ProjectGesture
  <2>2. inside \subseteq Tasks
    OBVIOUS
  <2> HIDE DEF inside
  <2>3. ASSUME NEW m \in commands PROVE CommandOK(m, gestures + 1, now) /\ m.do # "save"
    <3>1. CASE m = [do |-> "project", by |-> c, project |-> p]
      BY <3>1 DEF CommandOK
    <3>2. CASE m # [do |-> "project", by |-> c, project |-> p]
      <4>1. PICK t \in inside : m = [do |-> "remove", by |-> c, task |-> t]
        BY <3>2
      <4>2. QED
        BY <2>2, <4>1 DEF CommandOK
    <3>3. QED
      BY <3>1, <3>2
  <2>4. /\ sessions \in [Tasks -> Maybe(AnySession)]
        /\ \A u \in Tasks : sessions[u] \in {local[c][u], None}
    BY <1>2 DEF Maybe
  <2>5. known \in SUBSET Projects
    BY <1>1
  <2> HIDE DEF sessions, commands, known
  <2>6. QED
    BY <2>1, <2>3, <2>4, <2>5, QuietGestureKeeps
<1>7. QED
  BY <1>3, <1>4, <1>5, <1>6

\* What a turn makes of a session.
Turned(s, n) == [s EXCEPT !.turns = @ + 1, !.bound = TRUE, !.at = n, !.archived = FALSE]

LEMMA TurnedSession ==
    ASSUME NEW g \in Nat, NEW n \in Nat, NEW s \in Sess(g, n)
    PROVE  /\ Turned(s, n) \in Sess(g + 1, n) /\ Turned(s, n).turns = s.turns + 1
           /\ Turned(s, n).bound /\ s.turns \in Nat /\ Turned(s, n).detail = s.detail
           /\ Turned(s, n).project = s.project /\ Turned(s, n).queue = s.queue
<1>1. g + 1 \in Nat /\ g <= g + 1 /\ n <= n /\ n \in 0..n
  OBVIOUS
<1>2. s \in Sess(g + 1, n) /\ s.turns \in 0..(g + 1)
  BY <1>1, SessGrow DEF Sess
<1>3. s.turns + 1 \in 0..(g + 1 + 1) /\ s.turns \in Nat
  BY <1>2
<1> DEFINE a == [s EXCEPT !.turns = s.turns + 1]
           b == [a EXCEPT !.bound = TRUE]
           c == [b EXCEPT !.at = n]
           d == [c EXCEPT !.archived = FALSE]
<1>4. /\ a \in Sess(g + 1, n) /\ a.turns = s.turns + 1 /\ a.detail = s.detail
      /\ a.project = s.project /\ a.queue = s.queue
  BY <1>2, <1>3 DEF Sess
<1>5. Turned(s, n) = d
  BY <1>2 DEF Sess, Turned
<1> HIDE DEF a
<1>6. /\ b \in Sess(g + 1, n) /\ b.turns = s.turns + 1 /\ b.detail = s.detail
      /\ b.project = s.project /\ b.queue = s.queue /\ b.bound
  BY <1>4 DEF Sess
<1> HIDE DEF b
<1>7. /\ c \in Sess(g + 1, n) /\ c.turns = s.turns + 1 /\ c.detail = s.detail
      /\ c.project = s.project /\ c.queue = s.queue /\ c.bound
  BY <1>1, <1>6 DEF Sess
<1> HIDE DEF c
<1>8. /\ d \in Sess(g + 1, n) /\ d.turns = s.turns + 1 /\ d.detail = s.detail
      /\ d.project = s.project /\ d.queue = s.queue /\ d.bound
  BY <1>7 DEF Sess
<1>9. QED
  BY <1>3, <1>5, <1>8

LEMMA TakeTurnKeeps ==
    ASSUME CatalogAssumption, CatalogInv, NEW c \in Clients, NEW t \in Tasks, TakeTurn(c, t)
    PROVE  /\ CatalogInv' /\ (restarts = 0 => KeepsTurns)
           /\ \A u \in Tasks : (Known(u) /\ tasks'[u] # None) =>
                 tasks'[u].archived = tasks[u].archived \/ tasks'[u].turns > tasks[u].turns
<1>0. /\ BoundsOK /\ StoreOK /\ GoneOK /\ QueuesOK /\ ClientsOK
      /\ restarts = 0 => AtFirst /\ CopiesOK
  BY DEF CatalogInv
<1> DEFINE s == Turned(tasks[t], now)
           copy == Turned(local[c][t], now)
           after == [tasks EXCEPT ![t] = s]
           mine == [local[c] EXCEPT ![t] = copy]
<1>1. gestures \in Nat /\ now \in Nat /\ play.gestures \in Nat /\ gestures + 1 \in Nat
      /\ gestures <= gestures + 1 /\ now <= now
  BY <1>0, TheBounds
<1>2. /\ Shows(c, t) /\ Known(t) /\ tasks[t].detail
      /\ gestures < play.gestures /\ gestures' = gestures + 1 /\ Store(after)
      /\ notice' = Clients
      /\ UNCHANGED <<play, now, restarts, projects, gone, catalog, fate, asked, told, shelf,
                     syncing, result>>
  BY DEF TakeTurn, Turned
<1>3. tasks' = after
  BY DEF TakeTurn, Turned
<1>4. local' = [local EXCEPT ![c] = mine]
  BY <1>0 DEF TakeTurn, ClientsOK, Turned
<1>5. tasks[t] \in SessNow /\ local[c][t] \in SessNow
  BY <1>0, <1>2 DEF StoreOK, ClientsOK, Known, Shows, Maybe
<1>6. /\ s \in Sess(gestures + 1, now) /\ s.turns = tasks[t].turns + 1 /\ s.bound
      /\ tasks[t].turns \in Nat /\ s.detail /\ s.project = tasks[t].project
      /\ s.queue = tasks[t].queue
  <2>1. tasks[t] \in Sess(gestures, now)
    BY <1>5 DEF SessNow
  <2>2. /\ s \in Sess(gestures + 1, now) /\ s.turns = tasks[t].turns + 1 /\ s.bound
        /\ tasks[t].turns \in Nat /\ s.detail = tasks[t].detail
        /\ s.project = tasks[t].project /\ s.queue = tasks[t].queue
    BY ONLY <1>1, <2>1, TurnedSession
  <2>3. QED
    BY <1>2, <2>2
<1>7. copy \in Sess(gestures + 1, now)
  BY <1>1, <1>5, TurnedSession DEF SessNow
<1> HIDE DEF s, copy
<1>8. s # None
  BY <1>1, <1>6, NoneIsNoSession
<1>9. /\ \A m : CommandOK(m, gestures, now) => CommandOK(m, gestures + 1, now)
      /\ \A r : ReplyOK(r, gestures, now) => ReplyOK(r, gestures + 1, now)
      /\ Maybe(Sess(gestures, now)) \subseteq Maybe(Sess(gestures + 1, now))
      /\ Maybe(Snapshots(gestures, now)) \subseteq Maybe(Snapshots(gestures + 1, now))
  BY <1>1, SentStaysFit
<1>10. /\ tasks \in [Tasks -> Maybe(Sess(gestures + 1, now))]
       /\ disk \in [Tasks -> Maybe(Sess(gestures + 1, now))]
       /\ local \in [Clients -> [Tasks -> Maybe(Sess(gestures + 1, now))]]
  BY <1>0, <1>9 DEF StoreOK, ClientsOK, SessNow
<1>11. /\ after \in [Tasks -> Maybe(Sess(gestures + 1, now))] /\ after[t] = s
       /\ \A u \in Tasks : u # t => after[u] = tasks[u]
       /\ after = [tasks EXCEPT ![t] = s]
  BY <1>6, <1>10 DEF Maybe
<1> HIDE DEF after
<1>12. StoreOK'
  <2>1. ASSUME NEW u \in Tasks, after[u] # None, ~after[u].detail
        PROVE  tasks[u] # None /\ ~tasks[u].detail /\ after[u].turns = 0 /\ ~after[u].bound
    BY <1>0, <1>6, <1>11, <2>1 DEF StoreOK, Stored
  <2>2. \A u \in Tasks : Stored(tasks[u], disk[u])
    BY <1>0 DEF StoreOK
  <2>3. /\ disk' \in [Tasks -> Maybe(Sess(gestures + 1, now))]
        /\ \A u \in Tasks : Stored(after[u], disk'[u])
    BY <1>1, <1>2, <1>10, <1>11, <2>1, <2>2, StoreKeeps
  <2>4. QED
    BY <1>2, <1>3, <1>11, <2>3 DEF StoreOK, SessNow
<1>13. BoundsOK' /\ GoneOK'
  <2>1. gestures' \in 0..play.gestures
    BY <1>1, <1>2
  <2>2. QED
    BY <1>0, <1>2, <2>1 DEF BoundsOK, GoneOK
<1>14. QueuesOK'
  <2>1. /\ \A m \in asked : CommandOK(m, gestures + 1, now)
        /\ \A r \in told : ReplyOK(r, gestures + 1, now)
    BY <1>0, <1>9 DEF QueuesOK
  <2>2. QED
    BY <1>2, <2>1 DEF QueuesOK
<1>15. mine \in [Tasks -> Maybe(Sess(gestures + 1, now))] /\ \A u \in Tasks : u # t => mine[u] = local[c][u]
  BY <1>7, <1>10 DEF Maybe
<1> HIDE DEF mine
<1>16. ClientsOK'
  <2>1. local' \in [Clients -> [Tasks -> Maybe(Sess(gestures + 1, now))]]
    BY <1>4, <1>10, <1>15
  <2>2. result \in [Clients -> Maybe(Snapshots(gestures + 1, now))]
    BY <1>0, <1>9 DEF ClientsOK
  <2>3. QED
    BY <1>0, <1>2, <2>1, <2>2 DEF ClientsOK, SessNow
<1>17. ASSUME restarts = 0 PROVE AtFirst' /\ KeepsTurns /\ CopiesOK'
  <2>1. AtFirst /\ CopiesOK
    BY <1>0, <1>17
  <2>2. AtFirst' /\ KeepsTurns
    <3>1. /\ tasks' = [tasks EXCEPT ![t] = s] /\ (s.bound => s.turns > 0)
          /\ s.turns >= tasks[t].turns /\ s.queue \subseteq tasks[t].queue
      BY <1>3, <1>6, <1>11
    <3>2. /\ projects' = projects /\ fate' = fate /\ gone' = gone
          /\ \A q \in gone'.messages : \/ q \in gone.messages
                                       \/ q \in Tasks \X Nat /\ q[1] = t /\ q[2] \notin s.queue
      BY <1>2
    <3>3. QED
      BY <1>0, <1>1, <1>2, <1>6, <1>8, <1>10, <2>1, <3>1, <3>2, EditKeeps
  <2>3. \A u \in Tasks : Lasting(u) => Lasting(u)'
    BY <1>0, <1>1, <1>2, <1>12, <2>2, LastingKeeps
  <2>4. Lasting(t)'
    BY <1>3, <1>6, <1>8, <1>11 DEF Lasting, Known
  <2>5. ASSUME NEW d \in Clients, NEW u \in Tasks, local'[d][u] # None, local'[d][u].bound
        PROVE  Lasting(u)'
    <3>1. CASE u = t
      BY <2>4, <3>1
    <3>2. CASE u # t
      <4>1. local'[d][u] = local[d][u]
        BY <1>4, <1>10, <1>15, <3>2
      <4>2. QED
        BY <2>1, <2>3, <2>5, <4>1 DEF CopiesOK
    <3>3. QED
      BY <3>1, <3>2
  <2>6. ASSUME NEW m \in asked', m.do = "save", m.copy.bound PROVE Lasting(m.task)'
    <3>1. m \in asked /\ m.task \in Tasks
      BY <1>2, <1>14, <2>6 DEF QueuesOK, CommandOK
    <3>2. QED
      BY <2>1, <2>3, <2>6, <3>1 DEF CopiesOK
  <2>7. ASSUME NEW r \in told', r.do = "hydrate", r.copy.bound PROVE Lasting(r.task)'
    <3>1. r \in told /\ r.task \in Tasks
      BY <1>2, <1>14, <2>7 DEF QueuesOK, ReplyOK
    <3>2. QED
      BY <2>1, <2>3, <2>7, <3>1 DEF CopiesOK
  <2>8. QED
    BY <2>2, <2>5, <2>6, <2>7 DEF CopiesOK
<1>18. \A u \in Tasks : (Known(u) /\ tasks'[u] # None) =>
           tasks'[u].archived = tasks[u].archived \/ tasks'[u].turns > tasks[u].turns
  BY <1>3, <1>6, <1>11
<1>19. QED
  BY <1>2, <1>12, <1>13, <1>14, <1>16, <1>17, <1>18 DEF CatalogInv

-----------------------------------------------------------------------------
(* Restarts and time *)

LEMMA RestartKeeps ==
    ASSUME CatalogAssumption, CatalogInv, Restart PROVE CatalogInv' /\ KeepsMarks
<1>0. /\ BoundsOK /\ StoreOK /\ GoneOK /\ QueuesOK /\ ClientsOK
  BY DEF CatalogInv
<1>1. gestures \in Nat /\ now \in Nat /\ restarts \in Nat /\ play.restarts \in Nat
  BY <1>0, TheBounds
<1>2. /\ restarts < play.restarts /\ restarts' = restarts + 1
      /\ tasks' = [t \in Tasks |-> IF disk[t] = None THEN None ELSE Skeleton(disk[t])]
      /\ gone' = [tasks |-> {}, projects |-> {}, messages |-> {}]
      /\ asked' = {} /\ told' = {} /\ notice' = Clients /\ syncing' = {}
      /\ UNCHANGED <<play, now, gestures, projects, disk, fate, local, shelf, result>>
  BY DEF Restart
<1>3. BoundsOK' /\ restarts' # 0
  BY <1>0, <1>1, <1>2 DEF BoundsOK
<1>4. ASSUME NEW t \in Tasks
      PROVE  tasks'[t] \in Maybe(SessNow) /\ Stored(tasks'[t], disk[t])
             /\ ((tasks[t] # None /\ tasks'[t] # None) => tasks'[t].archived = tasks[t].archived)
  <2>1. /\ tasks[t] \in Maybe(SessNow) /\ disk[t] \in Maybe(SessNow) /\ Stored(tasks[t], disk[t])
    BY <1>0 DEF StoreOK
  <2>2. CASE disk[t] = None
    BY <1>2, <2>2 DEF Stored, Maybe
  <2>3. CASE disk[t] # None
    <3>1. disk[t] \in Sess(gestures, now) /\ tasks[t] \in Maybe(Sess(gestures, now))
      BY <2>1, <2>3 DEF Maybe, SessNow
    <3>2. tasks'[t] = Skeleton(disk[t])
      BY <1>2, <2>3
    <3>3. Skeleton(disk[t]) \in Sess(gestures, now) /\ Alike(Skeleton(disk[t]), disk[t])
      BY <1>1, <3>1, SkeletonOf
    <3>4. Stored(Skeleton(disk[t]), disk[t])
      BY <1>1, <2>1, <3>1, RestartedIsStored
    <3>5. tasks[t] # None => Alike(disk[t], tasks[t])
      BY <2>1, <2>3 DEF Stored
    <3>6. QED
      BY <3>2, <3>3, <3>4, <3>5 DEF Maybe, SessNow, Alike
  <2>4. QED
    BY <2>2, <2>3
<1>5. StoreOK'
  BY <1>0, <1>2, <1>4 DEF StoreOK, SessNow
<1>6. GoneOK'
  <2>1. gone' \in [tasks : SUBSET Tasks, projects : SUBSET Projects, messages : SUBSET (Tasks \X Nat)]
    BY <1>2
  <2>2. QED
    BY <1>0, <1>2, <2>1 DEF GoneOK
<1>7. QueuesOK' /\ ClientsOK'
  BY <1>0, <1>2 DEF QueuesOK, ClientsOK, SessNow
<1>8. KeepsMarks
  BY <1>4 DEF KeepsMarks, Known
<1>9. QED
  BY <1>3, <1>5, <1>6, <1>7, <1>8 DEF CatalogInv

LEMMA TickKeeps ==
    ASSUME CatalogAssumption, CatalogInv, Tick
    PROVE  CatalogInv' /\ (restarts = 0 => KeepsTurns) /\ KeepsMarks
<1>0. /\ BoundsOK /\ StoreOK /\ GoneOK /\ QueuesOK /\ ClientsOK
      /\ restarts = 0 => AtFirst /\ CopiesOK
  BY DEF CatalogInv
<1>1. gestures \in Nat /\ now \in Nat /\ play.clock \in Nat
  BY <1>0, TheBounds
<1>2. /\ now < play.clock /\ now' = now + 1
      /\ UNCHANGED <<play, gestures, restarts, tasks, projects, gone, disk, fate, asked, told,
                     local, shelf, notice, syncing, result>>
  BY DEF Tick, daemon, clients
<1>3. /\ \A m : CommandOK(m, gestures, now) => CommandOK(m, gestures, now + 1)
      /\ \A r : ReplyOK(r, gestures, now) => ReplyOK(r, gestures, now + 1)
      /\ Maybe(Sess(gestures, now)) \subseteq Maybe(Sess(gestures, now + 1))
      /\ Maybe(Snapshots(gestures, now)) \subseteq Maybe(Snapshots(gestures, now + 1))
  <2>1. now + 1 \in Nat /\ now <= now + 1 /\ gestures <= gestures
    BY <1>1
  <2>2. QED
    BY <1>1, <2>1, SentStaysFit
<1>4. BoundsOK' /\ GoneOK'
  <2>1. now' \in 0..play.clock
    BY <1>1, <1>2
  <2>2. QED
    BY <1>0, <1>2, <2>1 DEF BoundsOK, GoneOK
<1>5. StoreOK'
  BY <1>0, <1>2, <1>3 DEF StoreOK, SessNow
<1>6. QueuesOK'
  <2>1. /\ \A m \in asked : CommandOK(m, gestures, now + 1)
        /\ \A r \in told : ReplyOK(r, gestures, now + 1)
    BY <1>0, <1>3 DEF QueuesOK
  <2>2. QED
    BY <1>2, <2>1 DEF QueuesOK
<1>7. ClientsOK'
  <2>1. /\ local \in [Clients -> [Tasks -> Maybe(Sess(gestures, now + 1))]]
        /\ result \in [Clients -> Maybe(Snapshots(gestures, now + 1))]
    BY <1>0, <1>3 DEF ClientsOK, SessNow
  <2>2. QED
    BY <1>0, <1>2, <2>1 DEF ClientsOK, SessNow
<1>8. AtFirst /\ CopiesOK => AtFirst' /\ CopiesOK'
  <2>1. AtFirst => AtFirst'
    BY <1>2 DEF AtFirst, Known, ProjectStaysRemoved, ScratchIsUsed, InUse
  <2>2. CopiesOK => CopiesOK'
    BY <1>2 DEF CopiesOK, Lasting, Known
  <2>3. QED
    BY <2>1, <2>2
<1>9. KeepsTurns
  <2>1. ASSUME NEW t \in Tasks, tasks[t] # None PROVE tasks[t].turns \in Nat
    BY <1>0, <1>1, <2>1 DEF StoreOK, Maybe, SessNow, Sess
  <2>2. QED
    BY <1>2, <2>1 DEF KeepsTurns
<1>10. KeepsMarks
  BY <1>2 DEF KeepsMarks
<1>11. QED
  BY <1>0, <1>2, <1>4, <1>5, <1>6, <1>7, <1>8, <1>9, <1>10 DEF CatalogInv

-----------------------------------------------------------------------------
(* The initial state and the steps *)

LEMMA InitIsCatalog == ASSUME CatalogAssumption, Init PROVE CatalogInv
<1> DEFINE one == Session(Home, 1, TRUE)
<1>1. /\ play \in Plays /\ now = 0 /\ gestures = 0 /\ restarts = 0
      /\ tasks = [t \in Tasks |-> IF t \in Old THEN one ELSE None] /\ disk = tasks
      /\ projects = Projects \ Scratch
      /\ gone = [tasks |-> {}, projects |-> {}, messages |-> {}]
      /\ fate = [t \in Tasks |-> IF t \in Old THEN "used" ELSE "unused"]
      /\ asked = {} /\ told = {}
      /\ local = [c \in Clients |-> [t \in Tasks |-> ListProjection(t)]]
      /\ shelf = [c \in Clients |-> projects]
      /\ notice = {} /\ syncing = {}
      /\ result = [c \in Clients |-> None]
  BY DEF Init
<1>2. BoundsOK
  <2>1. play \in [hands : SUBSET Clients, may : SUBSET Gestures,
                  gestures : Nat, clock : Nat, restarts : Nat]
    BY <1>1 DEF CatalogAssumption
  <2>2. 0 \in 0..play.clock /\ 0 \in 0..play.gestures /\ 0 \in 0..play.restarts
    BY <2>1
  <2>3. QED
    BY <1>1, <2>2 DEF BoundsOK
<1>3. /\ one \in Sess(0, 0) /\ one.detail /\ one.bound /\ one.turns = 1 /\ one.queue = {}
  <2>1. /\ 0 \in 0..0 /\ 1 \in 0..(0 + 1) /\ (1 > 0) \in BOOLEAN /\ 1 > 0 /\ {} \in SUBSET (1..0)
    OBVIOUS
  <2>2. Home \in Projects
    BY DEF CatalogAssumption
  <2>3. QED
    BY <2>1, <2>2 DEF Session, Sess
<1> HIDE DEF one
<1>4. one # None
  BY <1>3, NoneIsNoSession
<1>5. SessNow = Sess(0, 0)
  BY <1>1 DEF SessNow
<1>6. StoreOK
  <2>1. Stored(one, one) /\ Stored(None, None)
    BY <1>3, <1>4 DEF Stored, HasStarted, Alike
  <2>2. tasks \in [Tasks -> Maybe(Sess(0, 0))]
    BY <1>1, <1>3 DEF Maybe
  <2>3. QED
    BY <1>1, <1>5, <2>1, <2>2 DEF StoreOK
<1>7. GoneOK
  <2>1. gone \in [tasks : SUBSET Tasks, projects : SUBSET Projects, messages : SUBSET (Tasks \X Nat)]
    BY <1>1
  <2>2. fate \in [Tasks -> {"unused", "used", "removed"}]
    BY <1>1
  <2>3. QED
    BY <1>1, <2>1, <2>2 DEF GoneOK
<1>8. QueuesOK
  BY <1>1 DEF QueuesOK
<1>9. \A t \in Tasks : /\ ListProjection(t) \in Maybe(Sess(0, 0))
                       /\ ListProjection(t) # None => ~ListProjection(t).bound
  BY <1>1, <1>3, SkeletonOf DEF ListProjection, Maybe, IsSkeleton
<1>10. ClientsOK
  <2>1. local \in [Clients -> [Tasks -> Maybe(Sess(0, 0))]]
    BY <1>1, <1>9
  <2>2. shelf \in [Clients -> SUBSET Projects]
    BY <1>1
  <2>3. result \in [Clients -> Maybe(Snapshots(gestures, now))]
    BY <1>1 DEF Maybe
  <2>4. QED
    BY <1>1, <1>5, <2>1, <2>2, <2>3 DEF ClientsOK
<1>11. AtFirst
  <2>1. \A t \in Tasks : Known(t) => tasks[t].detail /\ (tasks[t].bound => tasks[t].turns > 0)
    BY <1>1, <1>3 DEF Known
  <2>2. gone.tasks = {} /\ gone.messages = {} /\ gone.projects = {}
    BY <1>1
  <2>3. \A t \in Tasks : fate[t] # "removed"
    BY <1>1
  <2>4. projects \cap Scratch = {}
    BY <1>1
  <2>5. QED
    BY <2>1, <2>2, <2>3, <2>4 DEF AtFirst, ProjectStaysRemoved, ScratchIsUsed
<1>12. CopiesOK
  BY <1>1, <1>9 DEF CopiesOK
<1>13. QED
  BY <1>2, <1>6, <1>7, <1>8, <1>10, <1>11, <1>12 DEF CatalogInv

\* The archive marks move only ...
MarksMove ==
    \A t \in Tasks : (/\ Known(t) /\ tasks'[t] # None
                      /\ tasks'[t].archived # tasks[t].archived) =>
        \/ \E m \in asked \ asked' : m.do = "archive" /\ m.task = t
        \/ tasks'[t].turns > tasks[t].turns

\* ... and the turns of a row stay.
RowsKeepTurns ==
    \A t \in Tasks : (disk[t] # None /\ fate'[t] # "removed" /\ restarts = 0) =>
        disk'[t] # None /\ disk'[t].turns >= disk[t].turns

LEMMA ClientStepKeeps ==
    ASSUME CatalogAssumption, CatalogInv, NEW c \in Clients, ClientStep(c)
    PROVE  /\ CatalogInv' /\ (restarts = 0 => KeepsTurns)
           /\ \A t \in Tasks : (Known(t) /\ tasks'[t] # None) =>
                 tasks'[t].archived = tasks[t].archived \/ tasks'[t].turns > tasks[t].turns
<1>1. CASE \E t \in Tasks : TakeTurn(c, t)
  BY <1>1, TakeTurnKeeps
<1>2. CASE ~\E t \in Tasks : TakeTurn(c, t)
  <2>1. CASE SyncLoads(c)
    BY <2>1, SyncLoadsKeeps DEF KeepsMarks
  <2>2. CASE ApplySnapshot(c)
    BY <2>2, ApplySnapshotKeeps DEF KeepsMarks
  <2>3. CASE \E t \in Tasks, p \in Projects : CreateSession(c, t, p)
    BY <2>3, CreateSessionKeeps DEF KeepsMarks
  <2>4. CASE \E t \in Tasks, title \in 0..(gestures + 1) : RenameSession(c, t, title)
    BY <2>4, RenameSessionKeeps DEF KeepsMarks
  <2>5. CASE \E t \in Tasks : EnqueueMessage(c, t)
    BY <2>5, EnqueueMessageKeeps DEF KeepsMarks
  <2>6. CASE \E t \in Tasks, i \in 1..play.gestures : TakeQueuedMessage(c, t, i)
    BY <2>6, TakeQueuedMessageKeeps DEF KeepsMarks
  <2>7. CASE \/ \E t \in Tasks : OpenSession(c, t) \/ ArchiveGesture(c, t) \/ RemoveGesture(c, t)
             \/ \E p \in Projects : ProjectGesture(c, p)
    BY <2>7, OtherGesturesKeep DEF KeepsMarks
  <2>8. QED
    BY <1>2, <2>1, <2>2, <2>3, <2>4, <2>5, <2>6, <2>7 DEF ClientStep
<1>3. QED
  BY <1>1, <1>2

\* Rows, from what the step keeps of the sessions.
LEMMA TurnsOfRows ==
    ASSUME CatalogAssumption, CatalogInv, CatalogInv', restarts = 0, restarts' = 0, KeepsTurns,
           NEW t \in Tasks, disk[t] # None, fate'[t] # "removed"
    PROVE  disk'[t] # None /\ disk'[t].turns >= disk[t].turns
<1>1. StoreOK /\ StoreOK' /\ AtFirst /\ AtFirst'
  BY DEF CatalogInv
<1>2. Stored(tasks[t], disk[t]) /\ Stored(tasks'[t], disk'[t])
  BY <1>1 DEF StoreOK
<1>3. tasks[t] # None /\ tasks[t].detail /\ HasStarted(tasks[t]) /\ disk[t] = tasks[t]
  BY <1>1, <1>2 DEF Stored, AtFirst, Known
<1>4. gestures \in Nat
  BY TheBounds DEF CatalogInv
<1>5. tasks[t].turns > 0 /\ tasks[t].turns \in Nat
  BY <1>1, <1>3, <1>4 DEF AtFirst, Known, HasStarted, StoreOK, Maybe, SessNow, Sess
<1>6. tasks'[t] # None /\ tasks'[t].turns >= tasks[t].turns
  BY <1>3, <1>5 DEF KeepsTurns
<1>7. tasks'[t].detail
  BY <1>1, <1>6 DEF AtFirst, Known
<1>8. tasks'[t].turns > 0
  <2>1. tasks'[t].turns \in Nat
    <3>1. tasks'[t] \in Sess(gestures', now')
      BY <1>1, <1>6 DEF StoreOK, Maybe, SessNow
    <3>2. gestures' \in Nat
      BY DEF CatalogInv, BoundsOK
    <3>3. QED
      BY <3>1, <3>2 DEF Sess
  <2>2. QED
    BY <1>5, <1>6, <2>1
<1>9. disk'[t] = tasks'[t]
  BY <1>2, <1>6, <1>7, <1>8 DEF Stored, HasStarted
<1>10. QED
  BY <1>3, <1>6, <1>9

LEMMA NextKeeps ==
    ASSUME CatalogAssumption, CatalogInv, [Next]_vars
    PROVE  CatalogInv' /\ MarksMove /\ RowsKeepTurns
<1>1. ASSUME NEW m \in asked, Execute(m) PROVE CatalogInv' /\ MarksMove /\ RowsKeepTurns
  <2>1. /\ CatalogInv' /\ (restarts = 0 => KeepsTurns)
        /\ \A t \in Tasks : (Known(t) /\ tasks'[t] # None) =>
              tasks'[t].archived = tasks[t].archived \/ (m.do = "archive" /\ m.task = t)
    BY <1>1, ExecuteKeeps
  <2>2. restarts' = restarts /\ m \in asked \ asked'
    BY <1>1 DEF Execute, bounds
  <2>3. RowsKeepTurns
    BY <2>1, <2>2, TurnsOfRows DEF RowsKeepTurns
  <2>4. MarksMove
    BY <2>1, <2>2 DEF MarksMove
  <2>5. QED
    BY <2>1, <2>3, <2>4
<1>2. ASSUME NEW r \in told, Announce(r) PROVE CatalogInv' /\ MarksMove /\ RowsKeepTurns
  <2>1. CatalogInv' /\ (restarts = 0 => KeepsTurns) /\ KeepsMarks
    BY <1>2, AnnounceKeeps
  <2>2. restarts' = restarts
    BY <1>2 DEF Announce, bounds
  <2>3. RowsKeepTurns
    BY <2>1, <2>2, TurnsOfRows DEF RowsKeepTurns
  <2>4. QED
    BY <2>1, <2>3 DEF MarksMove, KeepsMarks
<1>3. ASSUME NEW c \in Clients, ClientStep(c) PROVE CatalogInv' /\ MarksMove /\ RowsKeepTurns
  <2>1. /\ CatalogInv' /\ (restarts = 0 => KeepsTurns)
        /\ \A t \in Tasks : (Known(t) /\ tasks'[t] # None) =>
              tasks'[t].archived = tasks[t].archived \/ tasks'[t].turns > tasks[t].turns
    BY <1>3, ClientStepKeeps
  <2>2. restarts' = restarts
    BY <1>3 DEF ClientStep, SyncLoads, ApplySnapshot, CreateSession, RenameSession, EnqueueMessage,
                TakeQueuedMessage, Edit, OpenSession, ArchiveGesture, RemoveGesture, ProjectGesture,
                Gesture, TakeTurn, bounds
  <2>3. RowsKeepTurns
    BY <2>1, <2>2, TurnsOfRows DEF RowsKeepTurns
  <2>4. MarksMove
    BY <2>1 DEF MarksMove
  <2>5. QED
    BY <2>1, <2>3, <2>4
<1>4. CASE Restart
  <2>1. CatalogInv' /\ KeepsMarks
    BY <1>4, RestartKeeps
  <2>2. RowsKeepTurns
    <3>1. disk' = disk
      BY <1>4 DEF Restart
    <3>2. gestures \in Nat
      BY TheBounds DEF CatalogInv
    <3>3. \A t \in Tasks : disk[t] # None => disk[t].turns \in Nat
      BY <3>2 DEF CatalogInv, StoreOK, Maybe, SessNow, Sess
    <3>4. QED
      BY <3>1, <3>3 DEF RowsKeepTurns
  <2>3. QED
    BY <2>1, <2>2 DEF MarksMove, KeepsMarks
<1>5. CASE Tick
  <2>1. CatalogInv' /\ (restarts = 0 => KeepsTurns) /\ KeepsMarks
    BY <1>5, TickKeeps
  <2>2. restarts' = restarts
    BY <1>5 DEF Tick
  <2>3. RowsKeepTurns
    BY <2>1, <2>2, TurnsOfRows DEF RowsKeepTurns
  <2>4. QED
    BY <2>1, <2>3 DEF MarksMove, KeepsMarks
<1>6. CASE UNCHANGED vars
  <2>1. /\ UNCHANGED <<play, now, gestures, restarts, tasks, projects, gone, disk, fate, asked,
                       told, local, shelf, notice, syncing, result>>
    BY <1>6 DEF vars, bounds, daemon, clients
  <2>2. CatalogInv'
    BY <2>1 DEF CatalogInv, BoundsOK, StoreOK, GoneOK, QueuesOK, ClientsOK, AtFirst, CopiesOK,
                SessNow, Known, Lasting, ProjectStaysRemoved, ScratchIsUsed, InUse
  <2>3. gestures \in Nat
    BY TheBounds DEF CatalogInv
  <2>4. \A t \in Tasks : disk[t] # None => disk[t].turns \in Nat
    BY <2>3 DEF CatalogInv, StoreOK, Maybe, SessNow, Sess
  <2>5. MarksMove /\ RowsKeepTurns
    BY <2>1, <2>4 DEF MarksMove, RowsKeepTurns
  <2>6. QED
    BY <2>2, <2>5
<1>7. QED
  BY <1>1, <1>2, <1>3, <1>4, <1>5, <1>6 DEF Next

THEOREM CatalogInvariant == Spec => []CatalogInv
<1>1. Init => CatalogInv
  BY InitIsCatalog, CatalogAssumption
<1>2. CatalogInv /\ [Next]_vars => CatalogInv'
  BY NextKeeps, CatalogAssumption
<1>3. QED
  BY <1>1, <1>2, PTL DEF Spec

\* The types hold at all times, what is refetched is skeletons, and the rows are
\* the sessions in memory: a restart, whenever it comes, shows each task as it
\* is, and none that is gone.
THEOREM ListStaysStored == Spec => []ListIsStored
<1>1. CatalogInv => ListIsStored
  <2> SUFFICES ASSUME CatalogInv PROVE ListIsStored
    OBVIOUS
  <2>0. BoundsOK /\ StoreOK /\ GoneOK /\ ClientsOK
    BY DEF CatalogInv
  <2>1. /\ play.clock \in Nat /\ play.gestures \in Nat /\ gestures \in Nat /\ now \in Nat
        /\ gestures <= play.gestures /\ now <= play.clock
    BY <2>0, TheBounds, CatalogAssumption DEF BoundsOK
  <2>2. SessNow \subseteq Sessions
    <3>1. Sess(gestures, now) \subseteq Sess(play.gestures, play.clock)
      BY <2>1, SessGrow
    <3>2. Sess(play.gestures, play.clock) = Sessions
      BY DEF Sessions, Sess, Titles
    <3>3. QED
      BY <3>1, <3>2 DEF SessNow
  <2>3. ASSUME NEW t \in Tasks
        PROVE  /\ tasks[t] # None => tasks[t] \in SessNow
               /\ disk[t] # None => disk[t] \in SessNow
               /\ Stored(tasks[t], disk[t])
    BY <2>0 DEF StoreOK, Maybe
  <2>4. ASSUME NEW t \in Tasks
        PROVE  /\ tasks[t] # None => tasks[t] \in Sessions
               /\ (tasks[t] # None /\ ~tasks[t].detail) => tasks[t].turns = 0 /\ ~tasks[t].bound
               /\ disk[t] # None => disk[t] \in Sessions
               /\ \A c \in Clients : local[c][t] # None => local[c][t] \in Sessions
    BY <2>0, <2>2, <2>3 DEF Stored, ClientsOK, Maybe
  <2>5. ASSUME NEW c \in Clients, NEW t \in Tasks, result[c] # None, result[c].listed[t] # None
        PROVE  IsSkeleton(result[c].listed[t])
    <3>1. result[c] \in Snapshots(gestures, now)
      BY <2>0, <2>5 DEF ClientsOK, Maybe
    <3>2. result[c].listed[t] \in Skels(gestures, now)
      BY <2>5, <3>1 DEF Snapshots, Maybe
    <3>3. QED
      BY <3>2 DEF Skels
  <2>6. TypeOK
    BY <2>0, <2>4, <2>5 DEF TypeOK, BoundsOK, GoneOK, ClientsOK
  <2>7. RowsAreCurrent
    <3>1. ASSUME NEW t \in Tasks, Known(t), HasStarted(tasks[t])
          PROVE  /\ disk[t] # None
                 /\ Skeleton(disk[t]) = Skeleton(tasks[t])
                 /\ tasks[t].detail => disk[t] = tasks[t]
      <4>1. /\ disk[t] # None /\ Alike(disk[t], tasks[t])
            /\ tasks[t].detail => disk[t] = tasks[t]
        BY <2>3, <3>1 DEF Stored, Known
      <4>2. tasks[t] \in Sess(gestures, now) /\ disk[t] \in Sess(gestures, now)
        BY <2>3, <3>1, <4>1 DEF Known, SessNow
      <4>3. Skeleton(disk[t]) = Skeleton(tasks[t])
        BY <2>1, <4>1, <4>2, AlikeSkeletons
      <4>4. QED
        BY <4>1, <4>3
    <3>2. ASSUME NEW t \in Tasks, ~(Known(t) /\ HasStarted(tasks[t])) PROVE disk[t] = None
      BY <2>3, <3>2 DEF Stored, Known
    <3>3. QED
      BY <3>1, <3>2 DEF RowsAreCurrent
  <2>8. QED
    BY <2>6, <2>7 DEF ListIsStored
<1>2. QED
  BY CatalogInvariant, <1>1, PTL

\* Until the daemon restarts, nothing that was removed comes back, whichever
\* copies are still saved: no session, queued message or project; and no
\* projectless project is left without a task.
THEOREM RemovalsStand == Spec => []NothingComesBack
<1>1. CatalogInv => NothingComesBack
  <2> SUFFICES ASSUME CatalogInv, restarts = 0
               PROVE  /\ RemovedStaysRemoved /\ DeletedStaysDeleted
                      /\ ProjectStaysRemoved /\ ScratchIsUsed
    BY DEF NothingComesBack
  <2>1. AtFirst /\ StoreOK /\ GoneOK
    BY DEF CatalogInv
  <2>2. \A t \in Tasks : Stored(tasks[t], disk[t])
    BY <2>1 DEF StoreOK
  <2>3. RemovedStaysRemoved
    BY <2>1, <2>2 DEF RemovedStaysRemoved, AtFirst, Known, Stored
  <2>4. DeletedStaysDeleted
    <3>1. ASSUME NEW q \in gone.messages
          PROVE  /\ Known(q[1]) => q[2] \notin tasks[q[1]].queue
                 /\ disk[q[1]] # None => q[2] \notin disk[q[1]].queue
      <4>1. q[1] \in Tasks
        BY <2>1 DEF GoneOK
      <4>2. Known(q[1]) => q[2] \notin tasks[q[1]].queue /\ tasks[q[1]].detail
        BY <2>1, <4>1 DEF AtFirst
      <4>3. disk[q[1]] # None => Known(q[1]) /\ HasStarted(tasks[q[1]])
        BY <2>2, <4>1 DEF Stored, Known
      <4>4. (disk[q[1]] # None /\ tasks[q[1]].detail) => disk[q[1]] = tasks[q[1]]
        BY <2>2, <4>1, <4>3 DEF Stored, Known
      <4>5. QED
        BY <4>2, <4>3, <4>4
    <3>2. QED
      BY <3>1 DEF DeletedStaysDeleted
  <2>5. QED
    BY <2>1, <2>3, <2>4 DEF AtFirst
<1>2. QED
  BY CatalogInvariant, <1>1, PTL

\* No snapshot of a client moves the mark of a shelved task: only the command
\* for it, or a turn.
THEOREM MarksMoveByCommand == Spec => MarkByCommand
<1>1. CatalogInv /\ [Next]_vars => MarksMove
  BY NextKeeps, CatalogAssumption
<1>2. MarksMove => \A t \in Tasks :
          (/\ Known(t) /\ tasks'[t] # None
           /\ tasks'[t].archived # tasks[t].archived)
          => \/ \E m \in asked \ asked' : m.do = "archive" /\ m.task = t
             \/ tasks'[t].turns > tasks[t].turns
  BY DEF MarksMove
<1>3. QED
  BY CatalogInvariant, <1>1, <1>2, PTL DEF Spec, MarkByCommand

\* As long as the daemon runs, no save, edit or turn of any client costs a task
\* a turn that was saved, nor its row.
THEOREM SavedTurnsStay == Spec => TurnsStay
<1>1. CatalogInv /\ [Next]_vars => RowsKeepTurns
  BY NextKeeps, CatalogAssumption
<1>2. RowsKeepTurns => \A t \in Tasks :
          (disk[t] # None /\ fate'[t] # "removed" /\ restarts = 0)
          => disk'[t] # None /\ disk'[t].turns >= disk[t].turns
  BY DEF RowsKeepTurns
<1>3. QED
  BY CatalogInvariant, <1>1, <1>2, PTL DEF Spec, TurnsStay

=============================================================================
