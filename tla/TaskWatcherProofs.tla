--------------------------- MODULE TaskWatcherProofs ---------------------------
(***************************************************************************)
(* Proofs about a desktop whose user looks on: what it lists, once nothing *)
(* is under way, is what the daemon has, whatever the other user creates,  *)
(* renames, opens and removes, and in whatever order that is executed and  *)
(* announced - as long as no task is given a title it had before: then the *)
(* hub may find in its older catalog the title that the daemon has now,    *)
(* take the change for none and tell nobody (TaskCatalogReturn.cfg).       *)
(***************************************************************************)
EXTENDS TaskCatalogProofs

\* Everything whose effects are in an entry of the hub's catalog, but for giving
\* back an earlier title ("return").
Busy == {"create", "rename", "open", "remove", "project"}

\* One desktop, h, does some of this; the other, w, looks on.
LooksOn(h, w) ==
    /\ h # w /\ Clients = {h, w}
    /\ play.hands = {h} /\ play.may \subseteq Busy /\ play.restarts = 0

Syncs(w) == [do |-> "load", by |-> w, sync |-> TRUE]

\* Who has sent what, and who is told.
Roles(h, w) ==
    /\ h \notin notice /\ h \notin syncing /\ result[h] = None
    /\ \A m \in asked : \/ m = Syncs(w)
                        \/ m.by = h /\ m.do \in {"save", "remove", "project", "hydrate"}
    /\ \A r \in told : \/ r.do = "load" /\ r.by = w /\ r.sync
                       \/ r.by = h /\ r.do \in {"save", "hydrate"}
                       \/ r.by = h /\ r.do = "changed" /\ ~r.gesture

\* A sync worker waits for one snapshot at a time.
OneLoad(w) ==
    /\ Syncs(w) \in asked => w \in syncing /\ \A r \in told : r.do # "load"
    /\ \A r \in told : r.do = "load" =>
          w \in syncing /\ \A q \in told : q.do = "load" => q = r

\* The title x of t is known to the daemon, to the hub, or to an announcement.
Uses(t, x) ==
    \/ Known(t) /\ tasks[t].title = x
    \/ catalog.tasks[t] # None /\ catalog.tasks[t].title = x
    \/ \E r \in told : \/ r.do = "save" /\ r.saved[t] # None /\ r.saved[t].title = x
                       \/ r.do = "load" /\ r.entries[t] # None /\ r.entries[t].title = x

IsSave(m) == m.do = "save"

\* While no title returns, a save brings one that its session has not had: it
\* changes the catalog, or finds a later one there and leaves it alone.
TitlesOK(h) ==
    /\ \A m \in asked : IsSave(m) =>
          /\ ~Uses(m.task, m.copy.title)
          /\ \A n \in asked : (IsSave(n) /\ n.task = m.task /\ n.copy.title = m.copy.title) => n = m
    /\ \A t \in Tasks : \A x : Uses(t, x) => x \in 0..gestures
    /\ \A t \in Tasks : fate[t] = "unused" =>
          /\ \A x : ~Uses(t, x)
          /\ \A m \in asked : IsSave(m) => m.task # t
          /\ local[h][t] = None

IsList(v) == \A t \in Tasks : v[t] # None => IsSkeleton(v[t])

\* The session has changed since the hub's catalog and the snapshot under way,
\* and will be announced.
Coming(t) ==
    /\ Known(t) /\ catalog.tasks[t] # Entry(tasks[t])
    /\ \E r \in told : r.do = "save" /\ r.saved[t] # None /\ Entry(r.saved[t]) = Entry(tasks[t])
    /\ \A r \in told : r.do = "load" => r.entries[t] # Entry(tasks[t])

Current(v) == \A t \in Tasks : v[t] = ListProjection(t) \/ Coming(t)

NoLoad == \A r \in told : r.do # "load"

WillLoad(w) == w \in notice \/ Syncs(w) \in asked \/ \E r \in told : r.do = "changed"

\* The newest list of w, which is under way, has come, or is shown, is current.
ListIsCurrent(w) ==
    /\ \A r \in told : r.do = "load" => Current(r.listed)
    /\ (NoLoad /\ result[w] # None) => Current(result[w].listed)
    /\ (NoLoad /\ result[w] = None) => Current(local[w])

Watched(h, w) ==
    /\ Roles(h, w) /\ OneLoad(w) /\ TitlesOK(h) /\ IsList(local[w])
    /\ WillLoad(w) \/ ListIsCurrent(w)

WatchInv == \A h, w \in Clients : LooksOn(h, w) => Watched(h, w)

-----------------------------------------------------------------------------
(* Sessions, their entries and lists *)

LEMMA EntryIsSome ==
    ASSUME CatalogAssumption, NEW g \in Nat, NEW n \in Nat, NEW s \in Sess(g, n)
    PROVE  /\ Entry(s) # None /\ Entry(s).title = s.title
           /\ \A r \in Sess(g, n) : Alike(r, s) /\ r.turns = s.turns => Entry(r) = Entry(s)
<1>1. s \in AnySession
  BY SessAreSessions
<1>2. Entry(s) \in AnyEntry /\ Entry(s).title = s.title
  BY <1>1 DEF Entry, AnyEntry, AnySession
<1>3. QED
  BY <1>2 DEF CatalogAssumption, Alike, Entry

\* A snapshot overwrites what is not loaded.
LEMMA RefreshedList ==
    ASSUME CatalogAssumption, NEW g \in Nat, NEW n \in Nat,
           NEW mine \in Maybe(Skels(g, n)), NEW remote \in Maybe(Skels(g, n))
    PROVE  Refreshed(mine, remote) = remote
<1>1. CASE remote = None
  BY <1>1 DEF Refreshed, HasStarted, Maybe, Skels, IsSkeleton
<1>2. CASE mine = None /\ remote # None
  BY <1>2 DEF Refreshed
<1>3. CASE mine # None /\ remote # None
  <2>1. /\ mine \in Sess(g, n) /\ IsSkeleton(mine) /\ remote \in Sess(g, n) /\ IsSkeleton(remote)
    BY <1>3 DEF Maybe, Skels
  <2>2. Refreshed(mine, remote) = [mine EXCEPT !.title = remote.title, !.project = remote.project,
                                               !.at = remote.at, !.archived = remote.archived]
    BY <1>3 DEF Refreshed
  <2>3. /\ mine.turns = remote.turns /\ mine.bound = remote.bound /\ mine.queue = remote.queue
        /\ mine.detail = remote.detail
    BY <2>1 DEF Sess, IsSkeleton
  <2>4. [mine EXCEPT !.title = remote.title, !.project = remote.project, !.at = remote.at,
                     !.archived = remote.archived] = remote
    BY <2>1, <2>3 DEF Sess
  <2>5. QED
    BY <2>2, <2>4
<1>4. QED
  BY <1>1, <1>2, <1>3

\* What a save does to the entry of its session: nothing, or it gives it the
\* title it brings.
LEMMA SavedEntry ==
    ASSUME CatalogAssumption, NEW g \in Nat, NEW n \in Nat,
           NEW old \in Maybe(Sess(g, n)), NEW new \in Sess(g, n), new.detail
    PROVE  \/ Merged(old, new).title = new.title
           \/ /\ old # None
              /\ Skeleton(Merged(old, new)) = Skeleton(old) /\ Entry(Merged(old, new)) = Entry(old)
<1>1. Merged(old, new) \in Sess(g, n)
  BY MergedSession
<1>2. CASE old = None
  BY <1>2 DEF Merged
<1>3. CASE old # None /\ Replaces(old, new)
  <2>1. Merged(old, new) = [new EXCEPT !.archived = old.archived]
    BY <1>3 DEF Merged
  <2>2. QED
    BY <2>1 DEF Sess
<1>4. CASE old # None /\ ~Replaces(old, new) /\ new.at >= old.at
  <2>1. old \in Sess(g, n)
    BY <1>4 DEF Maybe
  <2>2. Merged(old, new) = [old EXCEPT !.title = new.title, !.project = new.project,
                                       !.at = new.at, !.queue = @ \cup new.queue]
    BY <1>4 DEF Merged, MergeStale
  <2>3. QED
    BY <2>1, <2>2 DEF Sess
<1>5. CASE old # None /\ ~Replaces(old, new) /\ ~(new.at >= old.at)
  <2>1. old \in Sess(g, n)
    BY <1>5 DEF Maybe
  <2>2. Merged(old, new) = [old EXCEPT !.queue = @ \cup new.queue]
    BY <1>5 DEF Merged, MergeStale
  <2>3. Alike(Merged(old, new), old) /\ Merged(old, new).turns = old.turns
    BY <2>1, <2>2 DEF Sess, Alike
  <2>4. QED
    BY <1>1, <1>5, <2>1, <2>3, AlikeSkeletons, EntryIsSome
<1>6. QED
  BY <1>2, <1>3, <1>4, <1>5

-----------------------------------------------------------------------------
(* What steps have in common *)

LEMMA Setting ==
    ASSUME CatalogAssumption, CatalogInv, NEW h \in Clients, NEW w \in Clients, LooksOn(h, w)
    PROVE  /\ gestures \in Nat /\ now \in Nat /\ restarts = 0 /\ ~(restarts < play.restarts)
           /\ StoreOK /\ GoneOK /\ QueuesOK /\ ClientsOK /\ AtFirst
           /\ \A m \in asked : IsSave(m) => m.task \in Tasks /\ m.copy \in Sess(gestures, now)
<1>1. gestures \in Nat /\ now \in Nat /\ BoundsOK
  BY TheBounds DEF CatalogInv
<1>2. restarts = 0 /\ play.restarts = 0
  BY <1>1 DEF BoundsOK, LooksOn
<1>3. QED
  BY <1>1, <1>2 DEF CatalogInv, QueuesOK, CommandOK, IsSave

LEMMA TitlesKept ==
    ASSUME NEW h \in Clients, TitlesOK(h), gestures \in Nat, gestures' \in Nat, gestures <= gestures',
           \A t \in Tasks : \A x : Uses(t, x)' => Uses(t, x),
           \A m \in asked : IsSave(m) => m.task \in Tasks,
           \A m \in asked' : IsSave(m) => m \in asked,
           \A t \in Tasks : fate'[t] = "unused" =>
              fate[t] = "unused" /\ (local[h][t] = None => local'[h][t] = None)
    PROVE  TitlesOK(h)'
<1>1. ASSUME NEW m \in asked', IsSave(m)
      PROVE  /\ ~Uses(m.task, m.copy.title)'
             /\ \A n \in asked' :
                   (IsSave(n) /\ n.task = m.task /\ n.copy.title = m.copy.title) => n = m
  BY <1>1 DEF TitlesOK
<1>2. \A t \in Tasks : \A x : Uses(t, x)' => x \in 0..gestures'
  BY DEF TitlesOK
<1>3. ASSUME NEW t \in Tasks, fate'[t] = "unused"
      PROVE  /\ \A x : ~Uses(t, x)'
             /\ \A m \in asked' : IsSave(m) => m.task # t
             /\ local'[h][t] = None
  BY <1>3 DEF TitlesOK
<1>4. QED
  BY <1>1, <1>2, <1>3 DEF TitlesOK, IsSave

\* What the announcements and the lists of w depend on.
LEMMA ComingStays ==
    ASSUME NEW t \in Tasks, tasks'[t] = tasks[t], catalog'.tasks[t] = catalog.tasks[t],
           \A r \in told : (r.do = "save" /\ r.saved[t] # None /\ Entry(r.saved[t]) = Entry(tasks[t]))
                           => (r \in told' \/ catalog.tasks[t] = Entry(tasks[t])),
           \A r \in told' : r.do = "load" => r \in told
    PROVE  (ListProjection(t)' = ListProjection(t)) /\ (Coming(t) => Coming(t)')
  BY DEF ListProjection, Coming, Known

LEMMA ListsKept ==
    ASSUME NEW w \in Clients, ListIsCurrent(w),
           \A t \in Tasks : \/ /\ ListProjection(t)' = ListProjection(t)
                               /\ Coming(t) => Coming(t)'
                            \/ Coming(t)',
           \A r \in told' : r.do = "load" => r \in told,
           NoLoad' => NoLoad, result' = result, local'[w] = local[w]
    PROVE  ListIsCurrent(w)'
<1>1. \A v : Current(v) => (\A t \in Tasks : v[t] = ListProjection(t)' \/ Coming(t)')
  BY DEF Current
<1>2. \A r \in told' : r.do = "load" => Current(r.listed)'
  BY <1>1 DEF ListIsCurrent, Current
<1>3. (NoLoad /\ result[w] # None)' => Current(result[w].listed)'
  BY <1>1 DEF ListIsCurrent, Current
<1>4. (NoLoad /\ result[w] = None)' => Current(local[w])'
  BY <1>1 DEF ListIsCurrent, Current
<1>5. QED
  BY <1>2, <1>3, <1>4 DEF ListIsCurrent

\* Nothing that matters to w happens.
LEMMA ApartFromLists ==
    ASSUME NEW h \in Clients, NEW w \in Clients, h # w, Roles(h, w), OneLoad(w), IsList(local[w]),
           WillLoad(w) \/ ListIsCurrent(w),
           UNCHANGED <<tasks, catalog, notice, syncing, result>>, local'[w] = local[w],
           \A m \in asked' : m \in asked \/ (m.by = h /\ m.do \in {"save", "remove", "project", "hydrate"}),
           Syncs(w) \in asked => Syncs(w) \in asked',
           \A r \in told' : r \in told \/ (r.by = h /\ r.do = "hydrate"),
           \A r \in told : r.do # "hydrate" => r \in told'
    PROVE  /\ Roles(h, w)' /\ OneLoad(w)' /\ IsList(local[w])'
           /\ (WillLoad(w) \/ ListIsCurrent(w))'
           /\ \A t \in Tasks : \A x : Uses(t, x)' => Uses(t, x)
<1>1. Roles(h, w)'
  BY DEF Roles
<1>2. Syncs(w) \in asked' => Syncs(w) \in asked
  BY DEF Syncs
<1>3. \A r \in told' : r.do = "load" => r \in told
  OBVIOUS
<1>4. OneLoad(w)'
  BY <1>2, <1>3 DEF OneLoad, Syncs
<1>5. IsList(local[w])'
  BY DEF IsList
<1>6. ASSUME NEW t \in Tasks
      PROVE  (ListProjection(t)' = ListProjection(t) /\ (Coming(t) => Coming(t)')) \/ Coming(t)'
  BY <1>3, ComingStays
<1>7. WillLoad(w) => WillLoad(w)'
  BY DEF WillLoad, Syncs
<1>8. NoLoad' => NoLoad
  BY DEF NoLoad
<1>9. ListIsCurrent(w) => ListIsCurrent(w)'
  BY <1>3, <1>6, <1>8, ListsKept
<1>10. \A t \in Tasks : \A x : Uses(t, x)' => Uses(t, x)
  BY <1>3 DEF Uses, Known
<1>11. QED
  BY <1>1, <1>4, <1>5, <1>7, <1>9, <1>10

-----------------------------------------------------------------------------
(* Commands *)

LEMMA ArrivingTitle ==
    ASSUME NEW g \in Nat, NEW n \in Nat, NEW m, m.copy \in Sess(g, n)
    PROVE  Arriving(m).title = m.copy.title
  BY DEF Arriving, Sess

\* A save either leaves what is listed of its session alone, or gives it the
\* title it brings, which its announcement will tell.
LEMMA SaveIsComing ==
    ASSUME CatalogAssumption, CatalogInv, NEW h \in Clients, NEW w \in Clients, LooksOn(h, w),
           Roles(h, w), TitlesOK(h),
           NEW m \in asked, SaveTaskState(m), catalog' = catalog
    PROVE  /\ m.by = h
           /\ told \subseteq told' /\ \A r \in told' : r \in told \/ (r.do = "save" /\ r.by = h)
           /\ \A t \in Tasks : \A y : Uses(t, y)' => Uses(t, y) \/ (t = m.task /\ y = m.copy.title)
           /\ \A t \in Tasks : \/ /\ ListProjection(t)' = ListProjection(t)
                                  /\ Coming(t) => Coming(t)'
                               \/ Coming(t)'
<1> DEFINE after == IF Arrives(m) THEN [tasks EXCEPT ![m.task] = Merged(@, Arriving(m))] ELSE tasks
           saved == [t \in Tasks |-> IF t = m.task /\ Arrives(m) THEN after[t] ELSE None]
           r == [do |-> "save", by |-> m.by, projects |-> m.projects, saved |-> saved]
<1>1. /\ gestures \in Nat /\ now \in Nat /\ StoreOK
      /\ \A t \in Tasks : tasks[t] \in Maybe(Sess(gestures, now))
  BY Setting DEF StoreOK, SessNow
<1>2. IsSave(m) /\ tasks' = after /\ told' = told \cup {r}
  BY DEF SaveTaskState, IsSave
<1>3. m.task \in Tasks /\ m.copy \in Sess(gestures, now)
  BY <1>2, Setting
<1>4. m.by = h
  BY <1>2 DEF IsSave, Roles, Syncs
<1>5. r.do = "save" /\ r.by = h /\ r.saved = saved
  BY <1>4
<1>6. \A t \in Tasks : saved[t] = IF t = m.task /\ Arrives(m) THEN tasks'[t] ELSE None
  BY <1>2
<1>7. /\ \A t \in Tasks : t # m.task \/ ~Arrives(m) => tasks'[t] = tasks[t]
      /\ Arrives(m) => tasks'[m.task] = Merged(tasks[m.task], Arriving(m))
  BY <1>1, <1>2, <1>3 DEF StoreOK
<1> HIDE DEF after, saved, r
<1>8. /\ Arriving(m) \in Sess(gestures, now) /\ Arriving(m).detail
      /\ Arriving(m).title = m.copy.title
  BY <1>1, <1>3, ArrivingSession, ArrivingTitle
<1>9. ASSUME Arrives(m)
      PROVE  /\ tasks'[m.task] \in Sess(gestures, now) /\ tasks'[m.task] # None
             /\ Entry(tasks'[m.task]) # None /\ Entry(tasks'[m.task]).title = tasks'[m.task].title
             /\ \/ tasks'[m.task].title = m.copy.title
                \/ /\ tasks[m.task] # None /\ tasks[m.task].title = tasks'[m.task].title
                   /\ Skeleton(tasks'[m.task]) = Skeleton(tasks[m.task])
                   /\ Entry(tasks'[m.task]) = Entry(tasks[m.task])
  <2>1. tasks[m.task] \in Maybe(Sess(gestures, now)) /\ tasks'[m.task] = Merged(tasks[m.task], Arriving(m))
    BY <1>1, <1>3, <1>7, <1>9
  <2>2. tasks'[m.task] \in Sess(gestures, now)
    BY <1>1, <1>8, <2>1, MergedSession
  <2>3. \/ tasks'[m.task].title = m.copy.title
        \/ /\ tasks[m.task] # None
           /\ Skeleton(tasks'[m.task]) = Skeleton(tasks[m.task])
           /\ Entry(tasks'[m.task]) = Entry(tasks[m.task])
    BY <1>1, <1>8, <2>1, SavedEntry
  <2>4. tasks'[m.task] # None /\ Entry(tasks'[m.task]) # None
        /\ Entry(tasks'[m.task]).title = tasks'[m.task].title
    BY <1>1, <2>2, NoneIsNoSession, EntryIsSome
  <2>5. tasks[m.task] # None => Entry(tasks[m.task]).title = tasks[m.task].title
    BY <1>1, <2>1, EntryIsSome DEF Maybe
  <2>6. QED
    BY <2>2, <2>3, <2>4, <2>5
<1>10. \A y : ~Uses(m.task, y) \/ y # m.copy.title
  BY <1>2 DEF TitlesOK
<1>11. ASSUME NEW t \in Tasks, NEW y, Uses(t, y)' PROVE Uses(t, y) \/ (t = m.task /\ y = m.copy.title)
  <2>1. CASE \E q \in told' : \/ q.do = "save" /\ q.saved[t] # None /\ q.saved[t].title = y
                              \/ q.do = "load" /\ q.entries[t] # None /\ q.entries[t].title = y
    <3>1. PICK q \in told' : \/ q.do = "save" /\ q.saved[t] # None /\ q.saved[t].title = y
                             \/ q.do = "load" /\ q.entries[t] # None /\ q.entries[t].title = y
      BY <2>1
    <3>2. CASE q \in told
      BY <3>1, <3>2 DEF Uses
    <3>3. CASE q = r
      <4>1. t = m.task /\ Arrives(m) /\ tasks'[t].title = y
        BY <1>5, <1>6, <3>1, <3>3
      <4>2. QED
        BY <1>9, <4>1 DEF Uses, Known
    <3>4. QED
      BY <1>2, <3>2, <3>3
  <2>2. CASE Known(t)' /\ tasks'[t].title = y
    <3>1. CASE t # m.task \/ ~Arrives(m)
      BY <1>7, <2>2, <3>1 DEF Uses, Known
    <3>2. CASE t = m.task /\ Arrives(m)
      BY <1>9, <2>2, <3>2 DEF Uses, Known
    <3>3. QED
      BY <3>1, <3>2
  <2>3. CASE catalog.tasks[t] # None /\ catalog.tasks[t].title = y
    BY <2>3 DEF Uses
  <2>4. QED
    BY <1>11, <2>1, <2>2, <2>3 DEF Uses
<1>12. ASSUME NEW t \in Tasks
       PROVE  \/ /\ ListProjection(t)' = ListProjection(t)
                 /\ Coming(t) => Coming(t)'
              \/ Coming(t)'
  <2>1. CASE t # m.task \/ ~Arrives(m)
    <3>1. tasks'[t] = tasks[t]
      BY <1>7, <2>1
    <3>2. \A q \in told' : q.do = "load" => q \in told
      BY <1>2, <1>5
    <3>3. QED
      BY <1>2, <3>1, <3>2, ComingStays
  <2>2. CASE t = m.task /\ Arrives(m) /\ tasks'[t].title = m.copy.title
    <3>1. Known(t)'
      BY <1>9, <2>2 DEF Known
    <3>2. catalog'.tasks[t] # Entry(tasks'[t])
      BY <1>9, <1>10, <2>2 DEF Uses
    <3>3. r \in told' /\ r.do = "save" /\ r.saved[t] # None /\ Entry(r.saved[t]) = Entry(tasks'[t])
      BY <1>2, <1>5, <1>6, <1>9, <2>2
    <3>4. \A q \in told' : q.do = "load" => q.entries[t] # Entry(tasks'[t])
      BY <1>2, <1>5, <1>9, <1>10, <2>2 DEF Uses
    <3>5. QED
      BY <3>1, <3>2, <3>3, <3>4 DEF Coming
  <2>3. CASE /\ t = m.task /\ Arrives(m) /\ tasks[m.task] # None
             /\ Skeleton(tasks'[m.task]) = Skeleton(tasks[m.task])
             /\ Entry(tasks'[m.task]) = Entry(tasks[m.task])
    <3>1. tasks'[t] # None
      BY <1>9, <2>3
    <3>2. \A q \in told' : q.do = "load" => q \in told
      BY <1>2, <1>5
    <3>3. QED
      BY <1>2, <2>3, <3>1, <3>2 DEF ListProjection, Coming, Known
  <2>4. QED
    BY <1>9, <2>1, <2>2, <2>3
<1>13. told \subseteq told' /\ \A q \in told' : q \in told \/ (q.do = "save" /\ q.by = h)
  BY <1>2, <1>5
<1>14. QED
  BY <1>4, <1>11, <1>12, <1>13

LEMMA SaveWatched ==
    ASSUME CatalogAssumption, CatalogInv, NEW h \in Clients, NEW w \in Clients, LooksOn(h, w),
           Watched(h, w), NEW m \in asked, SaveTaskState(m), asked' = asked \ {m},
           UNCHANGED <<play, now, gestures, restarts, catalog, local, shelf, notice, syncing, result>>
    PROVE  Watched(h, w)'
<1>0. /\ Roles(h, w) /\ OneLoad(w) /\ TitlesOK(h) /\ IsList(local[w])
      /\ WillLoad(w) \/ ListIsCurrent(w)
  BY DEF Watched
<1>1. /\ told \subseteq told' /\ \A r \in told' : r \in told \/ (r.do = "save" /\ r.by = h)
      /\ \A t \in Tasks : \A y : Uses(t, y)' => Uses(t, y) \/ (t = m.task /\ y = m.copy.title)
      /\ \A t \in Tasks : \/ /\ ListProjection(t)' = ListProjection(t)
                             /\ Coming(t) => Coming(t)'
                          \/ Coming(t)'
  BY <1>0, SaveIsComing
<1>2. IsSave(m) /\ fate' = fate
  BY DEF SaveTaskState, IsSave
<1>3. Roles(h, w)'
  BY <1>0, <1>1 DEF Roles
<1>4. /\ \A r \in told' : r.do = "load" => r \in told
      /\ Syncs(w)' = Syncs(w) /\ (Syncs(w) \in asked <=> Syncs(w) \in asked')
  BY <1>1, <1>2 DEF Syncs, IsSave
<1>5. OneLoad(w)'
  BY <1>0, <1>4 DEF OneLoad
<1>6. IsList(local[w])'
  BY <1>0 DEF IsList
<1>7. WillLoad(w) => WillLoad(w)'
  BY <1>1, <1>4 DEF WillLoad
<1>8. NoLoad' => NoLoad
  BY <1>1 DEF NoLoad
<1>9. ListIsCurrent(w) => ListIsCurrent(w)'
  BY <1>1, <1>4, <1>8, ListsKept
<1>10. TitlesOK(h)'
  <2>1. ASSUME NEW n \in asked', IsSave(n)
        PROVE  /\ ~Uses(n.task, n.copy.title)'
               /\ \A o \in asked' :
                     (IsSave(o) /\ o.task = n.task /\ o.copy.title = n.copy.title) => o = n
    <3>1. n \in asked /\ n # m /\ n.task \in Tasks
      BY <2>1, Setting
    <3>2. /\ ~Uses(n.task, n.copy.title)
          /\ \A o \in asked :
                (IsSave(o) /\ o.task = n.task /\ o.copy.title = n.copy.title) => o = n
      BY <1>0, <2>1, <3>1 DEF TitlesOK
    <3>3. ~(m.task = n.task /\ m.copy.title = n.copy.title)
      BY <1>2, <3>1, <3>2
    <3>4. QED
      BY <1>1, <3>1, <3>2, <3>3
  <2>2. m.copy.title \in 0..gestures
    BY <1>2, Setting DEF Sess
  <2>3. \A t \in Tasks : \A x : Uses(t, x)' => x \in 0..gestures'
    BY <1>0, <1>1, <2>2 DEF TitlesOK
  <2>4. ASSUME NEW t \in Tasks, fate'[t] = "unused"
        PROVE  /\ \A x : ~Uses(t, x)'
               /\ \A n \in asked' : IsSave(n) => n.task # t
               /\ local'[h][t] = None
    <3>1. /\ \A x : ~Uses(t, x)
          /\ \A n \in asked : IsSave(n) => n.task # t
          /\ local[h][t] = None
      BY <1>0, <1>2, <2>4 DEF TitlesOK
    <3>2. QED
      BY <1>1, <1>2, <3>1
  <2>5. QED
    BY <2>1, <2>3, <2>4 DEF TitlesOK, IsSave
<1>11. QED
  BY <1>0, <1>3, <1>5, <1>6, <1>7, <1>9, <1>10 DEF Watched

\* A removal is announced to w, whatever it finds.
LEMMA RemovalWatched ==
    ASSUME CatalogAssumption, CatalogInv, NEW h \in Clients, NEW w \in Clients, LooksOn(h, w),
           Watched(h, w), NEW m \in asked, RemoveSession(m) \/ RemoveProject(m), asked' = asked \ {m},
           UNCHANGED <<play, now, gestures, restarts, catalog, local, shelf, notice, syncing, result>>
    PROVE  Watched(h, w)'
<1>0. /\ Roles(h, w) /\ OneLoad(w) /\ TitlesOK(h) /\ IsList(local[w])
      /\ gestures \in Nat /\ StoreOK /\ GoneOK
      /\ \A n \in asked : IsSave(n) => n.task \in Tasks
  BY Setting DEF Watched
<1> DEFINE r == [do |-> "changed", by |-> m.by, gesture |-> FALSE]
<1>1. /\ m.do \in {"remove", "project"} /\ told' = told \cup {r}
      /\ \A t \in Tasks : tasks'[t] # None => tasks'[t] = tasks[t]
      /\ \A t \in Tasks : fate'[t] = "unused" => fate[t] = "unused"
  <2>1. CASE RemoveSession(m)
    <3>1. /\ m.do = "remove" /\ told' = told \cup {r} /\ tasks' = [tasks EXCEPT ![m.task] = None]
          /\ fate' = [fate EXCEPT ![m.task] = "removed"]
      BY <2>1 DEF RemoveSession
    <3>2. QED
      BY <1>0, <3>1 DEF StoreOK, GoneOK
  <2>2. CASE RemoveProject(m)
    <3> DEFINE stranded == {t \in Tasks : Known(t) /\ tasks[t].project = m.project}
    <3>1. /\ m.do = "project" /\ told' = told \cup {r}
          /\ tasks' = [t \in Tasks |-> IF t \in stranded THEN None ELSE tasks[t]]
          /\ fate' = [t \in Tasks |-> IF t \in stranded THEN "removed" ELSE fate[t]]
      BY <2>2 DEF RemoveProject
    <3> HIDE DEF stranded
    <3>2. QED
      BY <3>1
  <2>3. QED
    BY <2>1, <2>2
<1>2. m.by = h
  BY <1>0, <1>1 DEF Roles, Syncs
<1>3. r \in told' /\ r.do = "changed" /\ r.by = h /\ ~r.gesture
  BY <1>1, <1>2
<1> HIDE DEF r
<1>4. Roles(h, w)'
  BY <1>0, <1>1, <1>3 DEF Roles
<1>5. /\ \A q \in told' : q.do \in {"save", "load"} => q \in told
      /\ Syncs(w)' = Syncs(w) /\ (Syncs(w) \in asked' => Syncs(w) \in asked)
  BY <1>1, <1>3 DEF Syncs
<1>6. OneLoad(w)'
  BY <1>0, <1>5 DEF OneLoad
<1>7. WillLoad(w)'
  BY <1>3 DEF WillLoad
<1>8. \A t \in Tasks : \A x : Uses(t, x)' => Uses(t, x)
  BY <1>1, <1>5 DEF Uses, Known
<1>9. TitlesOK(h)'
  BY <1>0, <1>1, <1>8, TitlesKept
<1>10. QED
  BY <1>0, <1>4, <1>6, <1>7, <1>9 DEF Watched, IsList

LEMMA LoadWatched ==
    ASSUME CatalogAssumption, CatalogInv, NEW h \in Clients, NEW w \in Clients, LooksOn(h, w),
           Watched(h, w), NEW m \in asked, LoadTaskState(m), asked' = asked \ {m},
           UNCHANGED <<play, now, gestures, restarts, catalog, local, shelf, notice, syncing, result>>
    PROVE  Watched(h, w)'
<1>0. /\ Roles(h, w) /\ OneLoad(w) /\ TitlesOK(h) /\ IsList(local[w])
      /\ gestures \in Nat /\ StoreOK /\ now \in Nat
      /\ \A n \in asked : IsSave(n) => n.task \in Tasks
  BY Setting DEF Watched
<1> DEFINE listed == [t \in Tasks |-> ListProjection(t)]
           entries == [t \in Tasks |-> IF Known(t) THEN Entry(tasks[t]) ELSE None]
<1>a. PICK r : /\ r = [do |-> "load", by |-> m.by, sync |-> m.sync, projects |-> projects,
                       listed |-> listed, entries |-> entries]
              /\ told' = told \cup {r}
  BY DEF LoadTaskState
<1>1. m.do = "load" /\ told' = told \cup {r} /\ UNCHANGED <<tasks, disk, projects, gone, fate>>
  BY <1>a DEF LoadTaskState, daemon
<1>2. m = Syncs(w) /\ m.by = w /\ m.sync
  BY <1>0, <1>1 DEF Roles, Syncs
<1>3. r \in told' /\ r.do = "load" /\ r.by = w /\ r.sync /\ r.listed = listed /\ r.entries = entries
  BY <1>a, <1>2
<1>4. /\ \A t \in Tasks : listed[t] = ListProjection(t)
      /\ \A t \in Tasks : entries[t] # None => Known(t) /\ entries[t].title = tasks[t].title
  <2>1. ASSUME NEW t \in Tasks, Known(t) PROVE Entry(tasks[t]).title = tasks[t].title
    BY DEF Entry
  <2>2. QED
    BY <2>1
<1> HIDE DEF listed, entries
<1>5. w \in syncing /\ \A q \in told : q.do # "load"
  BY <1>0, <1>2 DEF OneLoad
<1>6. \A q \in told' : q.do = "load" => q = r
  BY <1>1, <1>5
<1>7. Roles(h, w)'
  BY <1>0, <1>1, <1>3 DEF Roles
<1>8. Syncs(w) \notin asked'
  BY <1>2
<1>9. OneLoad(w)'
  BY <1>5, <1>6, <1>8 DEF OneLoad, Syncs
<1>10. Current(r.listed)'
  BY <1>1, <1>3, <1>4 DEF Current, ListProjection
<1>11. ListIsCurrent(w)'
  BY <1>3, <1>6, <1>10 DEF ListIsCurrent, NoLoad
<1>12. \A t \in Tasks : \A x : Uses(t, x)' => Uses(t, x)
  BY <1>1, <1>3, <1>4 DEF Uses, Known
<1>13. TitlesOK(h)'
  BY <1>0, <1>1, <1>12, TitlesKept
<1>14. QED
  BY <1>0, <1>7, <1>9, <1>11, <1>13 DEF Watched, IsList

\* Before a restart every session is whole, and hydrating it changes nothing.
LEMMA HydrateWatched ==
    ASSUME CatalogAssumption, CatalogInv, NEW h \in Clients, NEW w \in Clients, LooksOn(h, w),
           Watched(h, w), NEW m \in asked, HydrateSession(m), asked' = asked \ {m},
           UNCHANGED <<play, now, gestures, restarts, catalog, local, shelf, notice, syncing, result>>
    PROVE  Watched(h, w)'
<1>0. /\ Roles(h, w) /\ OneLoad(w) /\ TitlesOK(h) /\ IsList(local[w])
      /\ WillLoad(w) \/ ListIsCurrent(w)
      /\ gestures \in Nat /\ StoreOK /\ AtFirst
      /\ \A n \in asked : IsSave(n) => n.task \in Tasks
  BY Setting DEF Watched
<1>1. m.do = "hydrate" /\ fate' = fate
  BY DEF HydrateSession
<1>2. m.by = h
  BY <1>0, <1>1 DEF Roles, Syncs
<1>3. m.task \in Tasks
  BY <1>1, Setting DEF QueuesOK, CommandOK
<1>4. tasks' = tasks
  <2>1. CASE Known(m.task)
    <3>1. tasks' = [tasks EXCEPT ![m.task] = Hydrated(m.task)] /\ Hydrated(m.task) = tasks[m.task]
      BY <1>0, <1>3, <2>1 DEF HydrateSession, Hydrated, AtFirst
    <3>2. QED
      BY <1>0, <1>3, <3>1 DEF StoreOK
  <2>2. CASE ~Known(m.task)
    BY <2>2 DEF HydrateSession
  <2>3. QED
    BY <2>1, <2>2
<1>5. told \subseteq told' /\ \A r \in told' : r \in told \/ (r.by = h /\ r.do = "hydrate")
  <2>1. CASE Known(m.task)
    <3>1. told' = told \cup {[do |-> "hydrate", by |-> m.by, task |-> m.task,
                              copy |-> Hydrated(m.task)]}
      BY <2>1 DEF HydrateSession
    <3>2. QED
      BY <1>2, <3>1
  <2>2. CASE ~Known(m.task)
    BY <2>2 DEF HydrateSession
  <2>3. QED
    BY <2>1, <2>2
<1>6. Syncs(w) \in asked => Syncs(w) \in asked'
  BY <1>1 DEF Syncs
<1>7. h # w
  BY DEF LooksOn
<1>8. /\ Roles(h, w)' /\ OneLoad(w)' /\ IsList(local[w])'
      /\ (WillLoad(w) \/ ListIsCurrent(w))'
      /\ \A t \in Tasks : \A x : Uses(t, x)' => Uses(t, x)
  BY <1>0, <1>4, <1>5, <1>6, <1>7, ApartFromLists
<1>9. TitlesOK(h)'
  BY <1>0, <1>1, <1>8, TitlesKept
<1>10. QED
  BY <1>8, <1>9 DEF Watched

LEMMA ExecuteWatched ==
    ASSUME CatalogAssumption, CatalogInv, NEW h \in Clients, NEW w \in Clients, LooksOn(h, w),
           Watched(h, w), NEW m \in asked, Execute(m)
    PROVE  Watched(h, w)'
<1>1. /\ asked' = asked \ {m}
      /\ UNCHANGED <<play, now, gestures, restarts, catalog, local, shelf, notice, syncing, result>>
  BY DEF Execute, bounds, clients
<1>2. m.do \in {"load", "save", "remove", "project", "hydrate"}
  BY DEF Watched, Roles, Syncs
<1>3. ~RemoveQueuedMessage(m) /\ ~ArchiveSession(m)
  BY <1>2 DEF RemoveQueuedMessage, ArchiveSession
<1>4. QED
  BY <1>1, <1>3, SaveWatched, RemovalWatched, LoadWatched, HydrateWatched DEF Execute

-----------------------------------------------------------------------------
(* Announcements *)

\* The announcement of a save tells w, or finds the catalog as it would leave it.
LEMMA AnnounceSaveWatched ==
    ASSUME CatalogAssumption, CatalogInv, NEW h \in Clients, NEW w \in Clients, LooksOn(h, w),
           Watched(h, w), NEW r \in told, AnnounceSave(r), told' = told \ {r},
           UNCHANGED <<play, now, gestures, restarts, tasks, disk, projects, gone, fate>>
    PROVE  Watched(h, w)'
<1>0. /\ Roles(h, w) /\ OneLoad(w) /\ TitlesOK(h) /\ IsList(local[w])
      /\ WillLoad(w) \/ ListIsCurrent(w)
      /\ gestures \in Nat /\ h # w /\ Clients = {h, w}
      /\ \A n \in asked : IsSave(n) => n.task \in Tasks
  BY Setting DEF Watched, LooksOn
<1>1. /\ r.do = "save" /\ UNCHANGED <<asked, local, shelf, syncing, result>>
      /\ notice' = IF Differs(r) THEN notice \cup Others(r.by) ELSE notice
      /\ \A t \in Tasks : catalog'.tasks[t] = IF r.saved[t] = None THEN catalog.tasks[t]
                                              ELSE Entry(r.saved[t])
  BY DEF AnnounceSave
<1>2. r.by = h /\ Others(r.by) = {w}
  BY <1>0, <1>1 DEF Roles, Others
<1>3. Roles(h, w)'
  BY <1>0, <1>1, <1>2 DEF Roles
<1>4. OneLoad(w)'
  BY <1>0, <1>1 DEF OneLoad, Syncs
<1>5. \A t \in Tasks : r.saved[t] # None => Entry(r.saved[t]).title = r.saved[t].title
  BY DEF Entry
<1>6. \A t \in Tasks : \A x : Uses(t, x)' => Uses(t, x)
  BY <1>1, <1>5 DEF Uses, Known
<1>7. TitlesOK(h)'
  BY <1>0, <1>1, <1>6, TitlesKept
<1>8. WillLoad(w) => WillLoad(w)'
  BY <1>1 DEF WillLoad, Syncs
<1>9. CASE Differs(r)
  <2>1. WillLoad(w)'
    BY <1>1, <1>2, <1>9 DEF WillLoad
  <2>2. QED
    BY <1>0, <1>1, <1>3, <1>4, <1>7, <2>1 DEF Watched, IsList
<1>10. CASE ~Differs(r)
  <2>1. \A t \in Tasks : /\ catalog'.tasks[t] = catalog.tasks[t]
                         /\ r.saved[t] # None => catalog.tasks[t] = Entry(r.saved[t])
    BY <1>1, <1>10 DEF Differs
  <2>2. ASSUME NEW t \in Tasks
        PROVE  (ListProjection(t)' = ListProjection(t) /\ (Coming(t) => Coming(t)')) \/ Coming(t)'
    <3>1. \A q \in told : (q.do = "save" /\ q.saved[t] # None /\ Entry(q.saved[t]) = Entry(tasks[t]))
                          => (q \in told' \/ catalog.tasks[t] = Entry(tasks[t]))
      BY <2>1
    <3>2. QED
      BY <2>1, <3>1, ComingStays
  <2>3. NoLoad' => NoLoad
    BY <1>1 DEF NoLoad
  <2>4. ListIsCurrent(w) => ListIsCurrent(w)'
    BY <1>1, <2>2, <2>3, ListsKept
  <2>5. QED
    BY <1>0, <1>1, <1>3, <1>4, <1>7, <1>8, <2>4 DEF Watched, IsList
<1>11. QED
  BY <1>9, <1>10

LEMMA AnnounceChangeWatched ==
    ASSUME CatalogAssumption, CatalogInv, NEW h \in Clients, NEW w \in Clients, LooksOn(h, w),
           Watched(h, w), NEW r \in told, AnnounceChange(r), told' = told \ {r},
           UNCHANGED <<play, now, gestures, restarts, tasks, disk, projects, gone, fate>>
    PROVE  Watched(h, w)'
<1>0. /\ Roles(h, w) /\ OneLoad(w) /\ TitlesOK(h) /\ IsList(local[w])
      /\ gestures \in Nat /\ h # w /\ Clients = {h, w}
      /\ \A n \in asked : IsSave(n) => n.task \in Tasks
  BY Setting DEF Watched, LooksOn
<1>1. r.do = "changed" /\ UNCHANGED <<catalog, local, shelf, syncing, result>>
      /\ notice' = notice \cup Others(r.by)
  BY DEF AnnounceChange
<1>2. r.by = h /\ Others(r.by) = {w} /\ asked' = asked
  BY <1>0, <1>1 DEF Roles, Others, AnnounceChange
<1>3. Roles(h, w)' /\ OneLoad(w)' /\ WillLoad(w)'
  BY <1>0, <1>1, <1>2 DEF Roles, OneLoad, WillLoad, Syncs
<1>4. \A t \in Tasks : \A x : Uses(t, x)' => Uses(t, x)
  BY <1>1 DEF Uses, Known
<1>5. TitlesOK(h)'
  BY <1>0, <1>1, <1>2, <1>4, TitlesKept
<1>6. QED
  BY <1>0, <1>1, <1>3, <1>5 DEF Watched, IsList

\* A snapshot takes over the catalog, and what it does not have is still coming.
LEMMA AnnounceLoadWatched ==
    ASSUME CatalogAssumption, CatalogInv, NEW h \in Clients, NEW w \in Clients, LooksOn(h, w),
           Watched(h, w), NEW r \in told, AnnounceLoad(r), told' = told \ {r},
           UNCHANGED <<play, now, gestures, restarts, tasks, disk, projects, gone, fate>>
    PROVE  Watched(h, w)'
<1>0. /\ Roles(h, w) /\ OneLoad(w) /\ TitlesOK(h) /\ IsList(local[w])
      /\ WillLoad(w) \/ ListIsCurrent(w)
      /\ gestures \in Nat /\ h # w /\ ClientsOK
      /\ \A n \in asked : IsSave(n) => n.task \in Tasks
  BY Setting DEF Watched, LooksOn
<1>1. /\ r.do = "load" /\ UNCHANGED <<asked, local, shelf, notice>>
      /\ catalog'.tasks = r.entries
      /\ result' = [result EXCEPT ![r.by] = [listed |-> r.listed, projects |-> r.projects]]
      /\ syncing' = IF r.sync THEN syncing \ {r.by} ELSE syncing
  BY DEF AnnounceLoad
<1>2. r.by = w
  BY <1>0, <1>1 DEF Roles
<1>3. \A q \in told' : q.do # "load"
  BY <1>0, <1>1 DEF OneLoad
<1>4. Syncs(w) \notin asked'
  BY <1>0, <1>1 DEF OneLoad
<1>5. result'[h] = result[h] /\ result'[w] = [listed |-> r.listed, projects |-> r.projects]
  BY <1>0, <1>1, <1>2 DEF ClientsOK
<1>6. result'[w] # None /\ result'[w].listed = r.listed
  <2>1. ReplyOK(r, gestures, now) /\ gestures \in Nat /\ now \in Nat
    BY Setting DEF QueuesOK
  <2>2. r.listed \in [Tasks -> Maybe(Skels(gestures, now))] /\ r.projects \subseteq Projects
    BY <1>1, <2>1 DEF ReplyOK
  <2>3. Maybe(Skels(gestures, now)) \subseteq AnySession \cup {None}
    BY <2>1, SessAreSessions DEF Maybe, Skels
  <2>4. result'[w] \in AnySnapshot
    BY <1>5, <2>2, <2>3 DEF AnySnapshot
  <2>5. QED
    BY <1>5, <2>4 DEF CatalogAssumption
<1>7. Roles(h, w)'
  BY <1>0, <1>1, <1>5 DEF Roles
<1>8. OneLoad(w)'
  BY <1>3, <1>4 DEF OneLoad, Syncs
<1>9. \A t \in Tasks : \A x : Uses(t, x)' => Uses(t, x)
  BY <1>1 DEF Uses, Known
<1>10. TitlesOK(h)'
  BY <1>0, <1>1, <1>9, TitlesKept
<1>11. WillLoad(w) => WillLoad(w)'
  BY <1>0, <1>1, <1>4 DEF WillLoad, Syncs
<1>12. ASSUME ListIsCurrent(w) PROVE ListIsCurrent(w)'
  <2>1. \A t \in Tasks : r.listed[t] = ListProjection(t) \/ Coming(t)
    BY <1>1, <1>12 DEF ListIsCurrent, Current
  <2>2. ASSUME NEW t \in Tasks, Coming(t) PROVE Coming(t)'
    <3>1. Known(t)' /\ catalog'.tasks[t] # Entry(tasks'[t])
      BY <1>1, <2>2 DEF Coming, Known
    <3>2. \E q \in told' : q.do = "save" /\ q.saved[t] # None /\ Entry(q.saved[t]) = Entry(tasks'[t])
      BY <1>1, <2>2 DEF Coming
    <3>3. QED
      BY <1>3, <3>1, <3>2 DEF Coming
  <2>3. \A t \in Tasks : ListProjection(t)' = ListProjection(t)
    BY DEF ListProjection
  <2>4. Current(result[w].listed)'
    BY <1>6, <2>1, <2>2, <2>3 DEF Current
  <2>5. QED
    BY <1>3, <1>6, <2>4 DEF ListIsCurrent
<1>13. QED
  BY <1>0, <1>1, <1>7, <1>8, <1>10, <1>11, <1>12 DEF Watched, IsList

LEMMA AnswerHydrateWatched ==
    ASSUME CatalogAssumption, CatalogInv, NEW h \in Clients, NEW w \in Clients, LooksOn(h, w),
           Watched(h, w), NEW r \in told, AnswerHydrate(r), told' = told \ {r},
           UNCHANGED <<play, now, gestures, restarts, tasks, disk, projects, gone, fate>>
    PROVE  Watched(h, w)'
<1>0. /\ Roles(h, w) /\ OneLoad(w) /\ TitlesOK(h) /\ IsList(local[w])
      /\ WillLoad(w) \/ ListIsCurrent(w)
      /\ gestures \in Nat /\ ClientsOK /\ h # w
      /\ \A n \in asked : IsSave(n) => n.task \in Tasks
  BY Setting DEF Watched, LooksOn
<1>1. r.do = "hydrate" /\ UNCHANGED <<catalog, asked, shelf, notice, syncing, result>>
      /\ local' = IF local[r.by][r.task] = None THEN local ELSE [local EXCEPT ![r.by][r.task] = r.copy]
  BY DEF AnswerHydrate
<1>2. r.by = h
  BY <1>0, <1>1 DEF Roles
<1>3. local'[w] = local[w]
  BY <1>0, <1>1, <1>2
<1>4. \A t \in Tasks : local[h][t] = None => local'[h][t] = None
  BY <1>0, <1>1, <1>2 DEF ClientsOK
<1>5. /\ Roles(h, w)' /\ OneLoad(w)' /\ IsList(local[w])'
      /\ (WillLoad(w) \/ ListIsCurrent(w))'
      /\ \A t \in Tasks : \A x : Uses(t, x)' => Uses(t, x)
  BY <1>0, <1>1, <1>3, ApartFromLists
<1>6. TitlesOK(h)'
  BY <1>0, <1>1, <1>4, <1>5, TitlesKept
<1>7. QED
  BY <1>5, <1>6 DEF Watched

LEMMA AnnounceWatched ==
    ASSUME CatalogAssumption, CatalogInv, NEW h \in Clients, NEW w \in Clients, LooksOn(h, w),
           Watched(h, w), NEW r \in told, Announce(r)
    PROVE  Watched(h, w)'
<1>1. told' = told \ {r}
      /\ UNCHANGED <<play, now, gestures, restarts, tasks, disk, projects, gone, fate>>
  BY DEF Announce, bounds, daemon
<1>2. QED
  BY <1>1, AnnounceSaveWatched, AnnounceChangeWatched, AnnounceLoadWatched, AnswerHydrateWatched
     DEF Announce

-----------------------------------------------------------------------------
(* The desktops *)

LEMMA SyncLoadsWatched ==
    ASSUME CatalogAssumption, CatalogInv, NEW h \in Clients, NEW w \in Clients, LooksOn(h, w),
           Watched(h, w), NEW c \in Clients, SyncLoads(c)
    PROVE  Watched(h, w)'
<1>0. /\ Roles(h, w) /\ OneLoad(w) /\ TitlesOK(h) /\ IsList(local[w])
      /\ gestures \in Nat /\ h # w /\ Clients = {h, w}
      /\ \A n \in asked : IsSave(n) => n.task \in Tasks
  BY Setting DEF Watched, LooksOn
<1>1. c = w
  BY <1>0 DEF SyncLoads, Roles
<1>2. /\ w \notin syncing /\ notice' = notice \ {w} /\ syncing' = syncing \cup {w}
      /\ asked' = asked \cup {Syncs(w)}
      /\ UNCHANGED <<play, now, gestures, restarts, tasks, disk, projects, gone, catalog, fate,
                     told, local, shelf, result>>
  BY <1>1 DEF SyncLoads, Syncs, bounds, daemon
<1>3. Roles(h, w)'
  BY <1>0, <1>2 DEF Roles, Syncs
<1>4. OneLoad(w)'
  BY <1>0, <1>2 DEF OneLoad, Syncs
<1>5. WillLoad(w)'
  BY <1>2 DEF WillLoad, Syncs
<1>6. \A t \in Tasks : \A x : Uses(t, x)' => Uses(t, x)
  BY <1>2 DEF Uses, Known
<1>7. ~IsSave(Syncs(w))
  BY DEF IsSave, Syncs
<1>8. TitlesOK(h)'
  BY <1>0, <1>2, <1>6, <1>7, TitlesKept
<1>9. QED
  BY <1>0, <1>2, <1>3, <1>4, <1>5, <1>8 DEF Watched, IsList

\* w lists what it has refetched.
LEMMA ApplySnapshotWatched ==
    ASSUME CatalogAssumption, CatalogInv, NEW h \in Clients, NEW w \in Clients, LooksOn(h, w),
           Watched(h, w), NEW c \in Clients, ApplySnapshot(c)
    PROVE  Watched(h, w)'
<1>0. /\ Roles(h, w) /\ OneLoad(w) /\ TitlesOK(h) /\ IsList(local[w])
      /\ WillLoad(w) \/ ListIsCurrent(w)
      /\ gestures \in Nat /\ now \in Nat /\ h # w /\ Clients = {h, w} /\ ClientsOK
      /\ \A n \in asked : IsSave(n) => n.task \in Tasks
  BY Setting DEF Watched, LooksOn
<1>1. c = w
  BY <1>0 DEF ApplySnapshot, Roles
<1>2. /\ result[w] # None /\ result' = [result EXCEPT ![w] = None]
      /\ local' = [local EXCEPT ![w] = [t \in Tasks |-> Refreshed(@[t], result[w].listed[t])]]
      /\ UNCHANGED <<play, now, gestures, restarts, tasks, disk, projects, gone, catalog, fate,
                     asked, told, notice, syncing>>
  BY <1>1 DEF ApplySnapshot, bounds, daemon
<1>3. result[w].listed \in [Tasks -> Maybe(Skels(gestures, now))]
  BY <1>0, <1>2 DEF ClientsOK, Maybe, Snapshots
<1>4. ASSUME NEW t \in Tasks PROVE local'[w][t] = result[w].listed[t]
  <2>1. local[w][t] \in Maybe(Skels(gestures, now))
    BY <1>0 DEF ClientsOK, IsList, Maybe, Skels, SessNow
  <2>2. result[w].listed[t] \in Maybe(Skels(gestures, now))
    BY <1>3
  <2>3. local'[w][t] = Refreshed(local[w][t], result[w].listed[t])
    BY <1>0, <1>2 DEF ClientsOK
  <2>4. QED
    BY <1>0, <2>1, <2>2, <2>3, RefreshedList
<1>5. local'[h] = local[h] /\ result'[h] = result[h] /\ result'[w] = None
  BY <1>0, <1>2 DEF ClientsOK
<1>6. IsList(local[w])'
  BY <1>3, <1>4 DEF IsList, Maybe, Skels
<1>7. Roles(h, w)' /\ OneLoad(w)'
  BY <1>0, <1>2, <1>5 DEF Roles, OneLoad, Syncs
<1>8. WillLoad(w) => WillLoad(w)'
  BY <1>2 DEF WillLoad, Syncs
<1>9. ASSUME ListIsCurrent(w) PROVE ListIsCurrent(w)'
  <2>1. \A t \in Tasks : ListProjection(t)' = ListProjection(t) /\ (Coming(t) => Coming(t)')
    BY <1>2 DEF ListProjection, Coming, Known
  <2>2. \A v : Current(v) => (\A t \in Tasks : v[t] = ListProjection(t)' \/ Coming(t)')
    BY <2>1 DEF Current
  <2>3. \A r \in told' : r.do = "load" => Current(r.listed)'
    BY <1>2, <1>9, <2>2 DEF ListIsCurrent, Current
  <2>4. NoLoad' => Current(result[w].listed)
    BY <1>2, <1>9 DEF ListIsCurrent, NoLoad
  <2>5. NoLoad' => Current(local[w])'
    BY <1>4, <2>2, <2>4 DEF Current
  <2>6. QED
    BY <1>5, <2>3, <2>5 DEF ListIsCurrent
<1>10. \A t \in Tasks : \A x : Uses(t, x)' => Uses(t, x)
  BY <1>2 DEF Uses, Known
<1>11. TitlesOK(h)'
  BY <1>0, <1>2, <1>5, <1>10, TitlesKept
<1>12. QED
  BY <1>0, <1>6, <1>7, <1>8, <1>9, <1>11 DEF Watched

\* A gesture is one of h, and w hears of it only later.
LEMMA GestureApart ==
    ASSUME CatalogAssumption, CatalogInv, NEW h \in Clients, NEW w \in Clients, LooksOn(h, w),
           Watched(h, w), NEW c \in Clients, NEW kind, NEW sessions, NEW known, NEW commands,
           Gesture(c, kind, sessions, known, commands),
           \A m \in commands : m.by = c /\ m.do \in {"save", "remove", "project", "hydrate"}
    PROVE  /\ c = h /\ local'[h] = sessions
           /\ Roles(h, w)' /\ OneLoad(w)' /\ IsList(local[w])'
           /\ (WillLoad(w) \/ ListIsCurrent(w))'
           /\ \A t \in Tasks : \A x : Uses(t, x)' => Uses(t, x)
<1>0. /\ Roles(h, w) /\ OneLoad(w) /\ TitlesOK(h) /\ IsList(local[w])
      /\ WillLoad(w) \/ ListIsCurrent(w)
      /\ h # w /\ play.hands = {h} /\ ClientsOK
  BY Setting DEF Watched, LooksOn
<1>1. /\ c \in play.hands /\ local' = [local EXCEPT ![c] = sessions] /\ asked' = asked \cup commands
      /\ UNCHANGED <<play, now, restarts, tasks, disk, projects, gone, catalog, told, notice, syncing,
                     result>>
  BY DEF Gesture, daemon
<1>2. c = h
  BY <1>0, <1>1
<1>3. local'[h] = sessions /\ local'[w] = local[w]
  BY <1>0, <1>1, <1>2 DEF ClientsOK
<1>4. /\ Roles(h, w)' /\ OneLoad(w)' /\ IsList(local[w])'
      /\ (WillLoad(w) \/ ListIsCurrent(w))'
      /\ \A t \in Tasks : \A x : Uses(t, x)' => Uses(t, x)
  BY <1>0, <1>1, <1>2, <1>3, ApartFromLists
<1>5. QED
  BY <1>2, <1>3, <1>4

\* A gesture that saves nothing.
LEMMA QuietGestureWatched ==
    ASSUME CatalogAssumption, CatalogInv, NEW h \in Clients, NEW w \in Clients, LooksOn(h, w),
           Watched(h, w), NEW c \in Clients, NEW kind, NEW sessions, NEW known, NEW commands,
           Gesture(c, kind, sessions, known, commands), fate' = fate,
           \A t \in Tasks : sessions[t] \in {local[c][t], None},
           \A m \in commands : m.by = c /\ m.do \in {"remove", "project", "hydrate"}
    PROVE  Watched(h, w)'
<1>1. /\ c = h /\ local'[h] = sessions
      /\ Roles(h, w)' /\ OneLoad(w)' /\ IsList(local[w])'
      /\ (WillLoad(w) \/ ListIsCurrent(w))'
      /\ \A t \in Tasks : \A x : Uses(t, x)' => Uses(t, x)
  BY GestureApart
<1>2. TitlesOK(h) /\ gestures \in Nat /\ \A n \in asked : IsSave(n) => n.task \in Tasks
  BY Setting DEF Watched
<1>3. gestures' = gestures + 1 /\ asked' = asked \cup commands
  BY DEF Gesture
<1>4. /\ \A t \in Tasks : local[h][t] = None => local'[h][t] = None
      /\ \A m \in asked' : IsSave(m) => m \in asked
      /\ gestures' \in Nat /\ gestures <= gestures'
  BY <1>1, <1>2, <1>3 DEF IsSave
<1>5. TitlesOK(h)'
  BY <1>1, <1>2, <1>4, TitlesKept
<1>6. QED
  BY <1>1, <1>5 DEF Watched

\* A gesture that saves a session with a title that it has not had.
LEMMA SavingGestureWatched ==
    ASSUME CatalogAssumption, CatalogInv, NEW h \in Clients, NEW w \in Clients, LooksOn(h, w),
           Watched(h, w), NEW c \in Clients, NEW kind, NEW sessions, NEW known, NEW save,
           Gesture(c, kind, sessions, known, {save}),
           IsSave(save), save.by = c, save.task \in Tasks, ~Uses(save.task, save.copy.title),
           \A m \in asked : IsSave(m) => ~(m.task = save.task /\ m.copy.title = save.copy.title),
           fate'[save.task] # "unused", \A t \in Tasks : fate'[t] = "unused" => fate[t] = "unused",
           \A t \in Tasks : t # save.task => sessions[t] = local[c][t]
    PROVE  Watched(h, w)'
<1>1. /\ c = h /\ local'[h] = sessions
      /\ Roles(h, w)' /\ OneLoad(w)' /\ IsList(local[w])'
      /\ (WillLoad(w) \/ ListIsCurrent(w))'
      /\ \A t \in Tasks : \A x : Uses(t, x)' => Uses(t, x)
  <2>1. \A m \in {save} : m.by = c /\ m.do \in {"save", "remove", "project", "hydrate"}
    BY DEF IsSave
  <2>2. QED
    BY <2>1, GestureApart
<1>2. TitlesOK(h) /\ gestures \in Nat /\ \A n \in asked : IsSave(n) => n.task \in Tasks
  BY Setting DEF Watched
<1>3. gestures' = gestures + 1 /\ asked' = asked \cup {save}
  BY DEF Gesture
<1>4. ASSUME NEW m \in asked', IsSave(m)
      PROVE  /\ ~Uses(m.task, m.copy.title)'
             /\ \A n \in asked' :
                   (IsSave(n) /\ n.task = m.task /\ n.copy.title = m.copy.title) => n = m
  <2>1. CASE m = save
    BY <1>1, <1>3, <2>1
  <2>2. CASE m \in asked
    BY <1>1, <1>2, <1>3, <1>4, <2>2 DEF TitlesOK
  <2>3. QED
    BY <1>3, <2>1, <2>2
<1>5. \A t \in Tasks : \A x : Uses(t, x)' => x \in 0..gestures'
  <2>1. 0..gestures \subseteq 0..(gestures + 1)
    BY <1>2
  <2>2. QED
    BY <1>1, <1>2, <1>3, <2>1 DEF TitlesOK
<1>6. ASSUME NEW t \in Tasks, fate'[t] = "unused"
      PROVE  /\ \A x : ~Uses(t, x)'
             /\ \A m \in asked' : IsSave(m) => m.task # t
             /\ local'[h][t] = None
  BY <1>1, <1>2, <1>3, <1>6 DEF TitlesOK
<1>7. TitlesOK(h)'
  BY <1>4, <1>5, <1>6 DEF TitlesOK, IsSave
<1>8. QED
  BY <1>1, <1>7 DEF Watched

LEMMA SaveOfSession ==
    ASSUME NEW g \in Nat, NEW n \in Nat, NEW c, NEW t, NEW copy \in Sess(g, n), NEW known
    PROVE  LET save == SaveOf(c, t, copy, known)
           IN /\ IsSave(save) /\ save.by = c /\ save.task = t /\ save.copy.title = copy.title
  BY DEF SaveOf, IsSave, Sess

\* A new task has its first title, which nobody has seen.
LEMMA CreateSessionWatched ==
    ASSUME CatalogAssumption, CatalogInv, NEW h \in Clients, NEW w \in Clients, LooksOn(h, w),
           Watched(h, w), NEW c \in Clients, NEW t \in Tasks, NEW p \in Projects, CreateSession(c, t, p)
    PROVE  Watched(h, w)'
<1> DEFINE copy == [Session(p, 0, TRUE) EXCEPT !.at = now]
           known == shelf[c] \cup {p}
           sessions == [local[c] EXCEPT ![t] = copy]
           save == SaveOf(c, t, copy, known)
<1>0. TitlesOK(h) /\ gestures \in Nat /\ now \in Nat /\ GoneOK
  BY Setting DEF Watched
<1>1. /\ Gesture(c, "create", sessions, known, {save})
      /\ fate[t] = "unused" /\ fate' = [fate EXCEPT ![t] = "used"]
  BY DEF CreateSession
<1>2. IsSave(save) /\ save.by = c /\ save.task = t /\ save.copy.title = 0
  BY DEF SaveOf, IsSave, Session
<1>3. \A u \in Tasks : u # t => sessions[u] = local[c][u]
  BY Setting DEF ClientsOK
<1> HIDE DEF copy, known, sessions, save
<1>4. ~Uses(t, 0) /\ \A m \in asked : IsSave(m) => m.task # t
  BY <1>0, <1>1 DEF TitlesOK
<1>5. fate'[t] # "unused" /\ \A u \in Tasks : fate'[u] = "unused" => fate[u] = "unused"
  BY <1>0, <1>1 DEF GoneOK
<1>6. QED
  BY <1>1, <1>2, <1>3, <1>4, <1>5, SavingGestureWatched

\* A task is given a title that no task had, none being given back.
LEMMA RenameSessionWatched ==
    ASSUME CatalogAssumption, CatalogInv, NEW h \in Clients, NEW w \in Clients, LooksOn(h, w),
           Watched(h, w), NEW c \in Clients, NEW t \in Tasks, NEW title \in 0..(gestures + 1),
           RenameSession(c, t, title)
    PROVE  Watched(h, w)'
<1> DEFINE kind == IF title = gestures + 1 THEN "rename" ELSE "return"
           copy == [local[c][t] EXCEPT !.title = title, !.at = now]
           sessions == [local[c] EXCEPT ![t] = copy]
           save == SaveOf(c, t, copy, shelf[c])
<1>0. /\ TitlesOK(h) /\ gestures \in Nat /\ now \in Nat /\ ClientsOK
      /\ \A m \in asked : IsSave(m) => m.task \in Tasks /\ m.copy \in Sess(gestures, now)
  BY Setting DEF Watched
<1>1. Gesture(c, kind, sessions, shelf[c], {save}) /\ fate' = fate /\ Shows(c, t)
  BY DEF RenameSession, Edit
<1>2. c = h /\ title = gestures + 1
  <2>1. c = h /\ kind \in Busy
    BY <1>1 DEF Gesture, LooksOn
  <2>2. kind # "return"
    BY <2>1 DEF Busy
  <2>3. QED
    BY <2>1, <2>2
<1> HIDE DEF kind
<1>3. copy \in Sess(gestures + 1, now) /\ copy.title = gestures + 1
  <2>1. now \in 0..now
    BY <1>0
  <2>2. QED
    BY <1>1, <1>2, <2>1, OwnCopy DEF Sess
<1>5. \A u \in Tasks : u # t => sessions[u] = local[c][u]
  BY <1>0 DEF ClientsOK
<1> HIDE DEF copy
<1>4. IsSave(save) /\ save.by = c /\ save.task = t /\ save.copy.title = gestures + 1
  <2>1. gestures + 1 \in Nat
    BY <1>0
  <2>2. QED
    BY <1>0, <1>3, <2>1, SaveOfSession
<1> HIDE DEF sessions, save
<1>6. ~Uses(t, gestures + 1)
  BY <1>0 DEF TitlesOK
<1>7. \A m \in asked : IsSave(m) => m.copy.title # gestures + 1
  BY <1>0 DEF Sess
<1>8. fate[t] # "unused"
  BY <1>0, <1>1, <1>2 DEF TitlesOK, Shows
<1>9. QED
  BY <1>1, <1>4, <1>5, <1>6, <1>7, <1>8, SavingGestureWatched

LEMMA OtherGesturesWatched ==
    ASSUME CatalogAssumption, CatalogInv, NEW h \in Clients, NEW w \in Clients, LooksOn(h, w),
           Watched(h, w), NEW c \in Clients,
           \/ \E t \in Tasks : OpenSession(c, t) \/ RemoveGesture(c, t)
           \/ \E p \in Projects : ProjectGesture(c, p)
    PROVE  Watched(h, w)'
<1>0. ClientsOK
  BY Setting
<1>1. ASSUME NEW t \in Tasks, OpenSession(c, t) PROVE Watched(h, w)'
  <2> DEFINE commands == {[do |-> "hydrate", by |-> c, task |-> t]}
  <2>1. Gesture(c, "open", local[c], shelf[c], commands) /\ fate' = fate
    BY <1>1 DEF OpenSession
  <2>2. \A m \in commands : m.by = c /\ m.do \in {"remove", "project", "hydrate"}
    OBVIOUS
  <2> HIDE DEF commands
  <2>3. QED
    BY <2>1, <2>2, QuietGestureWatched
<1>2. ASSUME NEW t \in Tasks, RemoveGesture(c, t) PROVE Watched(h, w)'
  <2> DEFINE sessions == [local[c] EXCEPT ![t] = None]
             commands == {[do |-> "remove", by |-> c, task |-> t]}
  <2>1. Gesture(c, "remove", sessions, shelf[c], commands) /\ fate' = fate
    BY <1>2 DEF RemoveGesture
  <2>2. \A m \in commands : m.by = c /\ m.do \in {"remove", "project", "hydrate"}
    OBVIOUS
  <2>3. \A u \in Tasks : sessions[u] \in {local[c][u], None}
    BY <1>0 DEF ClientsOK
  <2> HIDE DEF sessions, commands
  <2>4. QED
    BY <2>1, <2>2, <2>3, QuietGestureWatched
<1>3. ASSUME NEW p \in Projects, ProjectGesture(c, p) PROVE Watched(h, w)'
  <2> DEFINE inside == {t \in Tasks : Shows(c, t) /\ local[c][t].project = p}
             sessions == [t \in Tasks |-> IF t \in inside THEN None ELSE local[c][t]]
             removals == {[do |-> "remove", by |-> c, task |-> t] : t \in inside}
             commands == removals \cup {[do |-> "project", by |-> c, project |-> p]}
             known == shelf[c] \ {p}
  <2>1. Gesture(c, "project", sessions, known, commands) /\ fate' = fate
    BY <1>3 DEF ProjectGesture
  <2> HIDE DEF inside
  <2>2. \A m \in removals : m.by = c /\ m.do = "remove"
    OBVIOUS
  <2> HIDE DEF removals
  <2>3. \A m \in commands : m.by = c /\ m.do \in {"remove", "project", "hydrate"}
    BY <2>2
  <2>4. \A u \in Tasks : sessions[u] \in {local[c][u], None}
    OBVIOUS
  <2> HIDE DEF sessions, commands, known
  <2>5. QED
    BY <2>1, <2>3, <2>4, QuietGestureWatched
<1>4. QED
  BY <1>1, <1>2, <1>3

LEMMA ClientStepWatched ==
    ASSUME CatalogAssumption, CatalogInv, NEW h \in Clients, NEW w \in Clients, LooksOn(h, w),
           Watched(h, w), NEW c \in Clients, ClientStep(c)
    PROVE  Watched(h, w)'
<1>1. play.may \subseteq Busy
  BY DEF LooksOn
<1>2. ASSUME NEW t \in Tasks
      PROVE  /\ ~EnqueueMessage(c, t) /\ ~ArchiveGesture(c, t) /\ ~TakeTurn(c, t)
             /\ \A i : ~TakeQueuedMessage(c, t, i)
  BY <1>1 DEF EnqueueMessage, TakeQueuedMessage, Edit, ArchiveGesture, TakeTurn, Gesture, Busy
<1>3. CASE SyncLoads(c)
  BY <1>3, SyncLoadsWatched
<1>4. CASE ApplySnapshot(c)
  BY <1>4, ApplySnapshotWatched
<1>5. CASE \E t \in Tasks, p \in Projects : CreateSession(c, t, p)
  BY <1>5, CreateSessionWatched
<1>6. CASE \E t \in Tasks, title \in 0..(gestures + 1) : RenameSession(c, t, title)
  BY <1>6, RenameSessionWatched
<1>7. CASE \/ \E t \in Tasks : OpenSession(c, t) \/ RemoveGesture(c, t)
           \/ \E p \in Projects : ProjectGesture(c, p)
  BY <1>7, OtherGesturesWatched
<1>8. QED
  BY <1>2, <1>3, <1>4, <1>5, <1>6, <1>7 DEF ClientStep

-----------------------------------------------------------------------------
(* The theorem *)

LEMMA InitIsWatched ==
    ASSUME CatalogAssumption, Init, CatalogInv, NEW h \in Clients, NEW w \in Clients, LooksOn(h, w)
    PROVE  Watched(h, w)
<1>0. gestures \in Nat /\ now \in Nat /\ StoreOK
  BY Setting
<1>1. /\ gestures = 0 /\ asked = {} /\ told = {} /\ notice = {} /\ syncing = {}
      /\ local = [c \in Clients |-> [t \in Tasks |-> ListProjection(t)]]
      /\ result = [c \in Clients |-> None]
      /\ fate = [t \in Tasks |-> IF t \in Old THEN "used" ELSE "unused"]
      /\ tasks = [t \in Tasks |-> IF t \in Old THEN Session(Home, 1, TRUE) ELSE None]
      /\ catalog.tasks = [t \in Tasks |-> IF t \in Old THEN Entry(tasks[t]) ELSE None]
  BY DEF Init
<1>2. Session(Home, 1, TRUE).title = 0
  BY DEF Session
<1>3. \A t \in Tasks : \A x : Uses(t, x) => t \in Old /\ x = 0
  <2>1. \A s : Entry(s).title = s.title
    BY DEF Entry
  <2>2. ASSUME NEW t \in Tasks
        PROVE  /\ tasks[t] # None => t \in Old /\ tasks[t].title = 0
               /\ catalog.tasks[t] # None => t \in Old /\ catalog.tasks[t].title = 0
    BY <1>1, <1>2, <2>1
  <2>3. QED
    BY <1>1, <2>2 DEF Uses, Known
<1>4. \A t \in Tasks : t \notin Old => ListProjection(t) = None
  BY <1>1 DEF ListProjection
<1>5. TitlesOK(h)
  BY <1>1, <1>3, <1>4 DEF TitlesOK
<1>6. IsList(local[w])
  <2>1. ASSUME NEW t \in Tasks, ListProjection(t) # None PROVE IsSkeleton(ListProjection(t))
    <3>1. tasks[t] \in Sess(gestures, now) /\ ListProjection(t) = Skeleton(tasks[t])
      BY <1>0, <2>1 DEF ListProjection, StoreOK, SessNow, Maybe
    <3>2. QED
      BY <1>0, <3>1, SkeletonOf
  <2>2. QED
    BY <1>1, <2>1 DEF IsList
<1>7. Current(local[w])
  BY <1>1 DEF Current
<1>8. Roles(h, w) /\ OneLoad(w) /\ ListIsCurrent(w)
  BY <1>1, <1>7 DEF Roles, OneLoad, ListIsCurrent
<1>9. QED
  BY <1>5, <1>6, <1>8 DEF Watched

LEMMA NextWatched ==
    ASSUME CatalogAssumption, CatalogInv, WatchInv, [Next]_vars
    PROVE  WatchInv'
<1>1. play' = play
  <2>1. ASSUME NEW c \in Clients, ClientStep(c) PROVE play' = play
    <3>1. \A kind, sessions, known, commands :
             Gesture(c, kind, sessions, known, commands) => play' = play
      BY DEF Gesture
    <3>2. \A t \in Tasks : \A kind, copy, more : Edit(c, t, kind, copy, more) => play' = play
      BY <3>1 DEF Edit
    <3>3. SyncLoads(c) \/ ApplySnapshot(c) \/ (\E t \in Tasks : TakeTurn(c, t)) => play' = play
      BY DEF SyncLoads, ApplySnapshot, TakeTurn, bounds
    <3>4. ASSUME NEW t \in Tasks
          PROVE  /\ (\E p \in Projects : CreateSession(c, t, p)) => play' = play
                 /\ EnqueueMessage(c, t) => play' = play
                 /\ (\E title \in 0..(gestures + 1) : RenameSession(c, t, title)) => play' = play
                 /\ (\E i \in 1..play.gestures : TakeQueuedMessage(c, t, i)) => play' = play
      BY <3>1, <3>2 DEF CreateSession, RenameSession, EnqueueMessage, TakeQueuedMessage
    <3>5. ASSUME NEW t \in Tasks
          PROVE  OpenSession(c, t) \/ ArchiveGesture(c, t) \/ RemoveGesture(c, t) => play' = play
      BY <3>1 DEF OpenSession, ArchiveGesture, RemoveGesture
    <3>6. (\E p \in Projects : ProjectGesture(c, p)) => play' = play
      BY <3>1 DEF ProjectGesture
    <3>7. QED
      BY <2>1, <3>3, <3>4, <3>5, <3>6 DEF ClientStep
  <2>2. (\E m \in asked : Execute(m)) \/ (\E r \in told : Announce(r)) => play' = play
    BY DEF Execute, Announce, bounds
  <2>3. Restart \/ Tick \/ UNCHANGED vars => play' = play
    BY DEF Restart, Tick, vars, bounds
  <2>4. QED
    BY <2>1, <2>2, <2>3 DEF Next
<1> SUFFICES ASSUME NEW h \in Clients, NEW w \in Clients, LooksOn(h, w) PROVE Watched(h, w)'
  BY <1>1 DEF WatchInv, LooksOn
<1>2. Watched(h, w)
  BY DEF WatchInv
<1>3. ASSUME NEW m \in asked, Execute(m) PROVE Watched(h, w)'
  BY <1>2, <1>3, ExecuteWatched
<1>4. ASSUME NEW r \in told, Announce(r) PROVE Watched(h, w)'
  BY <1>2, <1>4, AnnounceWatched
<1>5. ASSUME NEW c \in Clients, ClientStep(c) PROVE Watched(h, w)'
  BY <1>2, <1>5, ClientStepWatched
<1>6. ~Restart
  BY Setting DEF Restart
<1>7. CASE Tick \/ UNCHANGED vars
  <2>1. UNCHANGED <<gestures, tasks, catalog, fate, asked, told, local, notice, syncing, result>>
    BY <1>7 DEF Tick, vars, bounds, daemon, clients
  <2>2. /\ Roles(h, w) /\ OneLoad(w) /\ TitlesOK(h) /\ IsList(local[w])
        /\ WillLoad(w) \/ ListIsCurrent(w)
        /\ gestures \in Nat /\ h # w /\ \A n \in asked : IsSave(n) => n.task \in Tasks
    BY <1>2, Setting DEF Watched, LooksOn
  <2>3. /\ Roles(h, w)' /\ OneLoad(w)' /\ IsList(local[w])'
        /\ (WillLoad(w) \/ ListIsCurrent(w))'
        /\ \A t \in Tasks : \A x : Uses(t, x)' => Uses(t, x)
    BY <2>1, <2>2, ApartFromLists
  <2>4. TitlesOK(h)'
    BY <2>1, <2>2, <2>3, TitlesKept
  <2>5. QED
    BY <2>3, <2>4 DEF Watched
<1>8. QED
  BY <1>3, <1>4, <1>5, <1>6, <1>7 DEF Next

THEOREM WatchInvariant == Spec => []WatchInv
<1>1. Init => WatchInv
  BY InitIsCatalog, InitIsWatched, CatalogAssumption DEF WatchInv
<1>2. CatalogInv /\ WatchInv /\ [Next]_vars => WatchInv'
  BY NextWatched, CatalogAssumption
<1>3. QED
  BY CatalogInvariant, <1>1, <1>2, PTL DEF Spec

\* Nobody looks on, or one desktop does, while another creates, opens and removes
\* tasks and projects and renames tasks, never back to an earlier title.
Watchable(p) ==
    \/ p.hands = Clients
    \/ \E h, w \in Clients :
          /\ h # w /\ Clients = {h, w}
          /\ p.hands = {h} /\ p.may \subseteq Busy /\ p.restarts = 0

\* However the commands of one desktop overtake each other and their
\* announcements, a desktop that looks on lists in the end what the daemon has.
\* The hypothesis is about what is played, and needed: with a title that returns
\* it fails (TaskCatalogReturn: three renames, A to B to A to B), and with an
\* archive gesture (TaskCatalogUntold), which makes the active desktop load the
\* list: what its load takes over before it is announced nobody is told.  A
\* message or a turn changes when a session was last used, which the hub does
\* not compare.
THEOREM WatcherAgrees ==
    ASSUME \A p \in Plays : Watchable(p)
    PROVE  Spec => []WatchersAgree
<1>1. CatalogInv /\ WatchInv => WatchersAgree
  <2> SUFFICES ASSUME CatalogInv, WatchInv, Settled, NEW c \in Clients \ play.hands, NEW t \in Tasks
               PROVE  IF Known(t) THEN Shows(c, t) /\ Skeleton(local[c][t]) = ListProjection(t)
                      ELSE ~Shows(c, t)
    BY DEF WatchersAgree
  <2>1. Watchable(play)
    BY DEF CatalogInv, BoundsOK
  <2>2. PICK h \in Clients : LooksOn(h, c)
    BY <2>1 DEF Watchable, LooksOn
  <2>3. Watched(h, c)
    BY <2>2 DEF WatchInv
  <2>4. ~WillLoad(c) /\ NoLoad /\ result[c] = None
    BY DEF Settled, WillLoad, NoLoad
  <2>5. Current(local[c])
    BY <2>3, <2>4 DEF Watched, ListIsCurrent
  <2>6. ~Coming(t)
    BY DEF Settled, Coming
  <2>7. local[c][t] = ListProjection(t)
    BY <2>5, <2>6 DEF Current
  <2>8. CASE Known(t)
    <3>1. gestures \in Nat /\ now \in Nat /\ StoreOK
      BY <2>2, Setting, CatalogAssumption
    <3>2. tasks[t] \in Sess(gestures, now) /\ ListProjection(t) = Skeleton(tasks[t])
      BY <2>8, <3>1 DEF StoreOK, SessNow, Maybe, Known, ListProjection
    <3>3. Skeleton(tasks[t]) \in Sess(gestures, now) /\ Alike(Skeleton(tasks[t]), tasks[t])
      BY <3>1, <3>2, SkeletonOf
    <3>4. Skeleton(tasks[t]) # None /\ Skeleton(Skeleton(tasks[t])) = Skeleton(tasks[t])
      BY <3>1, <3>2, <3>3, AlikeSkeletons, NoneIsNoSession, CatalogAssumption
    <3>5. QED
      BY <2>7, <2>8, <3>2, <3>4 DEF Shows
  <2>9. CASE ~Known(t)
    BY <2>7, <2>9 DEF Known, ListProjection, Shows
  <2>10. QED
    BY <2>8, <2>9
<1>2. QED
  BY CatalogInvariant, WatchInvariant, <1>1, PTL

=============================================================================
