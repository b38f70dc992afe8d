---------------------------- MODULE WorkspaceUse ----------------------------
(***************************************************************************)
(* Who works in a directory of a server, and how it is removed: the        *)
(* commands of several windows open files, browsers, terminals and         *)
(* sessions there, close them, and remove the workspace or the server.     *)
(*                                                                         *)
(*   rows     the rows of the server and of the workspace;                 *)
(*   panes    how far the closing of each window has come (state.rs);      *)
(*   use      a command, and afterwards what it opened: its kind, window   *)
(*            and step, and the lock file it holds (workspace_lock.rs). A  *)
(*            task is about the handle that it works on, and a handle      *)
(*            that is closing about the task or window that closes it.     *)
(*                                                                         *)
(* There is one workspace: files, sessions and their terminals hold the    *)
(* locks of it and of its server, the others that of the server only.      *)
(***************************************************************************)
EXTENDS Naturals

CONSTANTS
  Openers,       \* bound: commands that open things or work on files, and what they opened
  Removers,      \* bound: removals
  Panes          \* windows

ASSUME UseAssumption == Openers \cap Removers = {} /\ (Openers \cup Removers) \cap Panes = {}

VARIABLES rows, panes, use

useVars == <<rows, panes, use>>

Files == {"context", "workspace"}                   \* handles that operations run on
Inside == Files \cup {"fileshell", "edit", "session"}
Outside == {"browser", "shell"}
Removals == {"drop workspace", "drop server"}
Commands == Openers \cup Removers
Nothing == "nothing"
Free == [kind |-> Nothing, pane |-> Nothing, at |-> "free", about |-> Nothing, lock |-> "none"]

UseInit ==
  /\ rows = [server |-> TRUE, workspace |-> FALSE]
  /\ panes = [w \in Panes |-> "open"]
  /\ use = [t \in Commands |-> Free]

Step(t, at) == use[t].at = at
IsA(t, kinds) == use[t].kind \in kinds
GoesOn(t, at) == use' = [use EXCEPT ![t].at = at]
Gone(t) == use' = [use EXCEPT ![t] = Free]
Same == UNCHANGED <<rows, panes>>
IsOpen(t) == Step(t, "open")
OfWindow(w, kinds) == {h \in Commands : IsA(h, kinds) /\ IsOpen(h) /\ use[h].pane = w}

\* Locks never wait: a conflict is WORKSPACE_BUSY.
Excludes(t, kind) == use[t].lock = "exclusive" /\ (IsA(t, {"drop server"}) \/ kind \in Inside)
Shared(t) == \A u \in Commands : ~Excludes(u, use[t].kind)

-----------------------------------------------------------------------------
(* Opening: catalog.rs, file_contexts.rs, directories.rs, terminals.rs *)

First(kind) == IF kind \in Outside THEN "lock" ELSE IF kind \in {"fileshell", "edit"} THEN "guard"
               ELSE IF kind \in Removals THEN "close files" ELSE "connect"
Subject(kind, w) == IF kind \in {"fileshell", "edit"} THEN OfWindow(w, Files) ELSE {Nothing}

\* operation(): a window that closes begins nothing. Work on files looks its handle up first.
BeginUse(t) ==
  /\ Step(t, "free") /\ \A u \in Commands : use[u].about # t
  /\ \E w \in Panes, k \in IF t \in Openers THEN Inside \cup Outside ELSE Removals :
       /\ panes[w] = "open" /\ rows.server
       /\ \E h \in Subject(k, w) :
            use' = [use EXCEPT ![t] = [Free EXCEPT !.kind = k, !.pane = w, !.at = First(k), !.about = h]]
  /\ Same

\* Files are locked under their canonical path, which the server tells; the others before they connect.
Reach(t) ==
  /\ Step(t, "connect") /\ rows.server
  /\ GoesOn(t, IF IsA(t, Outside) THEN "insert" ELSE "lock") /\ Same
LockShared(t) ==
  /\ Step(t, "lock") /\ ~IsA(t, Removals) /\ Shared(t)
  /\ use' = [use EXCEPT ![t].lock = "shared",
                          ![t].at = IF IsA(t, Outside) THEN "connect"
                                    ELSE IF IsA(t, {"workspace"}) THEN "remember" ELSE "insert"]
  /\ Same

\* The row of the workspace refers to that of its server.
Remember(t) == /\ Step(t, "remember") /\ rows.server /\ rows' = [rows EXCEPT !.workspace = TRUE]
               /\ GoesOn(t, "insert") /\ UNCHANGED panes

\* Under the lock of the table that the closing of the window drains after it set its flag.
\* Mutant: the flag is not looked at again.
InsertAlways(t) == Step(t, "insert") /\ GoesOn(t, "open") /\ Same
Closing(t) == IF IsA(t, {"session"}) THEN panes[use[t].pane] = "closed" ELSE panes[use[t].pane] # "open"
Insert(t) ==
  /\ Step(t, "insert")
  /\ IF Closing(t) THEN Gone(t) ELSE GoesOn(t, "open")
  /\ Same

-----------------------------------------------------------------------------
(* files.rs: what runs on a handle *)

Guarded(t, lock) ==
  /\ Step(t, "guard") /\ IsOpen(use[t].about)
  /\ use' = [use EXCEPT ![t].lock = lock, ![t].at = "work"] /\ Same
\* An operation has a lock of its own, so the handle may be closed while it runs.
\* Mutant: it relies on the lock of the handle.
GuardNothing(t) == Guarded(t, "none")
Guard(t) == Shared(t) /\ Guarded(t, "shared")

Finish(t) ==
  /\ Step(t, "work")
  /\ IF IsA(t, {"fileshell"}) THEN use' = [use EXCEPT ![t].at = "insert", ![t].about = Nothing]
                              ELSE Gone(t)
  /\ Same

Working(h) == \E u \in Commands : use[u].about = h /\ Step(u, "work")
\* The handle leaves its table and its lock; whoever closes it waits for the operations that run.
Closes(hs, by) ==
  use' = [h \in Commands |-> IF h \in hs THEN [use[h] EXCEPT !.at = "draining", !.lock = "none", !.about = by]
                            ELSE use[h]]
IsDrained(by) == \A h \in Commands : ~(Step(h, "draining") /\ use[h].about = by)
CloseFile(t) == IsA(t, Files) /\ IsOpen(t) /\ Closes({t}, Nothing) /\ Same
Drained(t) == Step(t, "draining") /\ ~Working(t) /\ Gone(t) /\ Same

-----------------------------------------------------------------------------
(* The ends of the others: shell.rs, directory.rs, local/mod.rs *)

\* The shell is killed and waited for before its lock is released.
\* Mutant: the lock is released first.
CloseShellUnlocked(t) ==
  /\ IsA(t, {"shell", "fileshell"}) /\ IsOpen(t)
  /\ use' = [use EXCEPT ![t].at = "killing", ![t].lock = "none"] /\ Same
CloseShell(t) == IsA(t, {"shell", "fileshell"}) /\ IsOpen(t) /\ GoesOn(t, "killing") /\ Same
Killed(t) == Step(t, "killing") /\ Gone(t) /\ Same
CloseOther(t) == IsA(t, {"browser", "session"}) /\ IsOpen(t) /\ Gone(t) /\ Same

\* An error, or the user cancels; a removal waits for nothing that could be cancelled.
Underway(t) == use[t].at \in {"connect", "lock", "remember", "guard", "work", "close files"}
Abandons(t) == Underway(t) /\ Gone(t) /\ Same

-----------------------------------------------------------------------------
(* Removing: catalog.rs workspace_remove, server_remove *)

\* The files of this window are closed, and its browsers if the server goes.
CloseOwn(t) ==
  /\ Step(t, "close files")
  /\ LET own == OfWindow(use[t].pane, Files)
         browsers == IF IsA(t, {"drop server"}) THEN OfWindow(use[t].pane, {"browser"}) ELSE {} IN
     use' = [h \in Commands |->
       IF h = t THEN [use[t] EXCEPT !.at = "lock"]
       ELSE IF h \in own THEN [use[h] EXCEPT !.at = "draining", !.lock = "none", !.about = t]
       ELSE IF h \in browsers THEN Free ELSE use[h]]
  /\ Same
LockAlone(t) ==
  /\ Step(t, "lock") /\ IsA(t, Removals) /\ IsDrained(t)
  /\ \A u \in Commands : use[u].lock # "none" =>
       /\ IsA(t, {"drop workspace"}) /\ ~IsA(u, Inside \cup {"drop workspace"})
       /\ ~IsA(u, {"drop server"})
  /\ use' = [use EXCEPT ![t].lock = "exclusive", ![t].at = "delete"] /\ Same
Delete(t) ==
  /\ Step(t, "delete")
  /\ rows' = [server |-> rows.server /\ ~IsA(t, {"drop server"}), workspace |-> FALSE]
  /\ Gone(t) /\ UNCHANGED panes

-----------------------------------------------------------------------------
(* state.rs WindowState::close *)

Advances(w, from, to) == panes[w] = from /\ panes' = [panes EXCEPT ![w] = to] /\ UNCHANGED rows
\* Commands that are registered are aborted; one that looked at the flag before registers afterwards.
Abortable(w) == {t \in Commands : use[t].pane = w /\ ~IsA(t, {"edit"} \cup Removals) /\ Underway(t)}
ClosePane(w) ==
  /\ Advances(w, "open", "closing")
  /\ \E registered \in SUBSET Abortable(w) :
       use' = [t \in Commands |-> IF t \in registered THEN Free ELSE use[t]]
CloseShells(w) ==
  /\ Advances(w, "closing", "shells closed")
  /\ use' = [t \in Commands |-> IF t \in OfWindow(w, {"shell", "fileshell", "browser"}) THEN Free ELSE use[t]]
CloseFiles(w) ==
  /\ Advances(w, "shells closed", "files closed")
  /\ Closes(OfWindow(w, Files), w)
CloseSessions(w) ==
  /\ Advances(w, "files closed", "closed")
  /\ IsDrained(w)
  /\ use' = [t \in Commands |-> IF t \in OfWindow(w, {"session"}) THEN Free ELSE use[t]]
\* Another window takes its place.
Reopen(w) ==
  /\ Advances(w, "closed", "open") /\ UNCHANGED use /\ \A t \in Commands : use[t].pane # w

UseNext ==
  \/ \E t \in Commands :
       \/ BeginUse(t) \/ Reach(t) \/ LockShared(t) \/ Remember(t) \/ Insert(t) \/ Guard(t)
       \/ Finish(t) \/ CloseFile(t) \/ Drained(t) \/ CloseShell(t) \/ Killed(t) \/ CloseOther(t) \/ Abandons(t)
       \/ CloseOwn(t) \/ LockAlone(t) \/ Delete(t)
  \/ \E w \in Panes : ClosePane(w) \/ CloseShells(w) \/ CloseFiles(w) \/ CloseSessions(w) \/ Reopen(w)

UseSpec == UseInit /\ [][UseNext]_useVars

-----------------------------------------------------------------------------
(* Properties *)

UseTypeOK ==
  /\ rows \in [server : BOOLEAN, workspace : BOOLEAN]
  /\ \A t \in Commands : /\ use[t].kind \in Inside \cup Outside \cup Removals \cup {Nothing}
                         /\ use[t].pane \in Panes \cup {Nothing}
                         /\ use[t].about \in Commands \cup Panes \cup {Nothing}
                         /\ use[t].lock \in {"none", "shared", "exclusive"}

\* workspace_lock.rs: "OS locks cover all frontends": while the rows of a workspace or a server are
\* deleted, no window has its files open, works on them, or has a terminal or session there.
InUse(t) == use[t].at \in {"remember", "insert", "open", "work", "killing"}
RemovalIsExclusive ==
  \A t, u \in Commands : Step(t, "delete") /\ InUse(u) => IsA(t, {"drop workspace"}) /\ ~IsA(u, Inside)

\* workspace.rs open: a workspace that some window shows is in the catalog.
ShownIsSaved == \A t \in Commands : IsA(t, {"workspace"}) /\ IsOpen(t) => rows.workspace

\* state.rs close: a window that is closed has left nothing open, and no lock but those of the commands
\* that still run; those leave theirs behind when they find the window closed.
ClosedIsClosed ==
  \A t \in Commands : use[t].pane \in Panes /\ panes[use[t].pane] = "closed"
                      => ~IsOpen(t)

UseIsExclusive == RemovalIsExclusive /\ ShownIsSaved /\ ClosedIsClosed
=============================================================================
