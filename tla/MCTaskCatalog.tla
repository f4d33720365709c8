---------------------------- MODULE MCTaskCatalog ----------------------------
(* Instances of TaskCatalog for TLC: what is played. *)
EXTENDS TaskCatalog

CONSTANTS c1, c2, t1, t2, home, work, chat

Both == {c1, c2}

\* Two desktops with the same task, of which each edits its own copy.
Editing == Play(Both, {"rename", "enqueue", "unqueue", "open", "turn"}, 3, 1, 0)

\* Two desktops that shelve, remove and rename it, and the daemon's restart.
Restarted == Play(Both, Gestures \ {"create", "project"}, 2, 1, 1)

\* Two desktops create and remove tasks and projects.
Removing == Play(Both, {"create", "remove", "project"}, 3, 0, 0)

\* A desktop that looks on, while no title returns.
Watching == Play({c1}, {"create", "rename", "open", "remove", "project"}, 3, 1, 0)

AllPlays == {Editing, Restarted, Removing, Watching}

\* Where the code does not do what its comments, documents or tests say.
ErasePlay == {Play(Both, {"rename"}, 1, 1, 1)}
RevivePlay == {Play(Both, {"rename", "remove"}, 2, 1, 1)}
StalePlay == {Play(Both, {"rename", "open", "enqueue"}, 3, 1, 0)}
UntoldPlay == {Play({c1}, {"create", "archive"}, 2, 0, 0)}
ReturnPlay == {Play({c1}, {"rename", "return"}, 3, 0, 0)}
StrandPlay == {Play(Both, {"create", "project"}, 2, 0, 0)}
=============================================================================
