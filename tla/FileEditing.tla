----------------------------- MODULE FileEditing -----------------------------
(***************************************************************************)
(* Editing the files of a server in a window of the desktop application.   *)
(*                                                                         *)
(*   disk      the files of the server, which others change, too           *)
(*             (server/src/files); a text stands for its digest, and 0     *)
(*             for no file;                                                *)
(*   tabs      FileTabs of files/tabs.ts, by the path that is their key;   *)
(*   reads     the reads under way: a load of a tab (owned by its token),  *)
(*             or a refresh after an upload (files/useFiles.ts);           *)
(*   saves     write and save of files/useFiles.ts, each at its step on    *)
(*             the server: begin, stage, check, replace;                   *)
(*   moving    the file that this window is moving;                         *)
(*   told      relocations that the window has yet to be told of;          *)
(*   upload    the upload that is active, which locks its path.            *)
(*                                                                         *)
(* Directories, previews and the contexts of the files are left out; one   *)
(* window is modelled, and moves by the others. What is typed is a new     *)
(* text each time.                                                         *)
(***************************************************************************)
EXTENDS Naturals, SequencesExt

CONSTANTS
  MaxTexts,     \* bound: texts written or typed
  MaxSaves,     \* bound: saves
  MaxReads,     \* bound: files opened and refreshed
  MaxMoves,     \* bound: files moved
  MaxUploads    \* bound: uploads

ASSUME EditingAssumption == {MaxTexts, MaxSaves, MaxReads, MaxMoves, MaxUploads} \subseteq Nat

VARIABLES disk, tabs, reads, saves, commits, moving, told, upload,
          texts, moves, uploads,
          \* history, read by no guard:
          drafts,       \* what was typed and not given up by the user
          stored,       \* what has been in a file
          seen,         \* what the user has been shown
          overwritten   \* what a save replaced without the user having seen it

others == <<moving, told, upload, moves, uploads>>
editingVars == <<disk, tabs, reads, saves, commits, others, texts, drafts, stored, seen, overwritten>>

Paths == {"a", "b"}
Other(p) == CHOOSE q \in Paths : q # p

NoTab == [status |-> "none", text |-> 0, original |-> 0, revision |-> 0, saving |-> FALSE, conflict |-> 0, token |-> 0, moved |-> "no"]
Loading(token) == [NoTab EXCEPT !.status = "loading", !.token = token]
Ready(text) == [NoTab EXCEPT !.status = "ready", !.text = text, !.original = text, !.revision = text]
IsText(tab) == tab.status = "ready"
Dirty(tab) == IsText(tab) /\ tab.text # tab.original
Location(p) == IF tabs[p].moved = "no" THEN p ELSE tabs[p].moved
Protected(tab) == tab.moved # "no" \/ (IsText(tab) /\ tab.saving) \/ Dirty(tab)

EditingInit ==
  /\ disk \in {[a |-> 1, b |-> 0], [a |-> 1, b |-> 2]}
  /\ tabs = [p \in Paths |-> IF p = "a" THEN Ready(1) ELSE NoTab]
  /\ reads = <<>> /\ saves = <<>> /\ commits = [p \in Paths |-> 0]
  /\ moving = "no" /\ told = <<>> /\ upload = "no"
  /\ texts = 2 /\ moves = 0 /\ uploads = 0
  /\ drafts = {} /\ stored = {1, 2} /\ seen = {1} /\ overwritten = {}

\* update applies to the text tab that has this key now, if there is one.
Updated(key, Change(_)) == IF IsText(tabs[key]) THEN [tabs EXCEPT ![key] = Change(@)] ELSE tabs

-----------------------------------------------------------------------------
(* The user.                                                               *)

Type(p, text) ==
  /\ IsText(tabs[p])
  /\ text \in {texts + 1, tabs[p].original}
  /\ text <= MaxTexts
  /\ text # tabs[p].text
  /\ texts' = IF text > texts THEN text ELSE texts
  /\ tabs' = [tabs EXCEPT ![p].text = text]
  /\ drafts' = (drafts \ {tabs[p].text}) \cup (IF text > texts THEN {text} ELSE {})
  /\ seen' = seen \cup {text}
  /\ UNCHANGED <<disk, reads, saves, commits, others, stored, overwritten>>

Read(kind, key) == [kind |-> kind, key |-> key, got |-> 0, at |-> "asked"]

\* What was failed or moved away while it was loading is loaded again.
Load(ts, p) ==
  /\ Len(reads) < MaxReads
  /\ reads' = Append(reads, Read("load", p))
  /\ tabs' = [ts EXCEPT ![p] = Loading(Len(reads) + 1)]

Open(p) ==
  /\ tabs[p].status = "none"
  /\ Load(tabs, p)
  /\ UNCHANGED <<disk, saves, commits, others, texts, drafts, stored, seen, overwritten>>

\* Without changes, or when they are discarded.
Close(p) ==
  /\ tabs[p].status # "none"
  /\ tabs' = [tabs EXCEPT ![p] = NoTab]
  /\ drafts' = IF Dirty(tabs[p]) THEN drafts \ {tabs[p].text} ELSE drafts
  /\ UNCHANGED <<disk, reads, saves, commits, others, texts, stored, seen, overwritten>>

Discard(p) ==
  /\ IsText(tabs[p]) /\ tabs[p].conflict # 0
  /\ tabs' = [tabs EXCEPT ![p] = [Ready(tabs[p].conflict) EXCEPT !.saving = tabs[p].saving, !.moved = tabs[p].moved]]
  /\ drafts' = drafts \ {tabs[p].text}
  /\ UNCHANGED <<disk, reads, saves, commits, others, texts, stored, seen, overwritten>>

\* A save waits for the one before it, and fails with it.
Save(p, resolve) ==
  /\ IsText(tabs[p])
  /\ Len(saves) < MaxSaves
  /\ resolve => tabs[p].conflict # 0
  /\ saves' = Append(saves, [key |-> p, resolve |-> resolve, after |-> commits[p], at |-> "queued",
                             text |-> 0, expected |-> 0, checked |-> 0])
  /\ commits' = [commits EXCEPT ![p] = Len(saves) + 1]
  /\ UNCHANGED <<disk, tabs, reads, others, texts, drafts, stored, seen, overwritten>>

-----------------------------------------------------------------------------
(* write of useFiles.ts, with FileHandle::write and the stages of the server. *)

Settled(s) == saves[s].at \in {"done", "failed"}

Settles(s, at) ==
  /\ saves' = [saves EXCEPT ![s].at = at]
  /\ commits' = IF commits[saves[s].key] = s THEN [commits EXCEPT ![saves[s].key] = 0] ELSE commits

SaveStarts(s) ==
  /\ saves[s].at = "queued"
  /\ saves[s].after # 0 => Settled(saves[s].after)
  /\ LET save == saves[s]
         tab == tabs[save.key]
         refused == (save.after # 0 /\ saves[save.after].at = "failed") \/ tab.moved # "no"
         nothing == ~IsText(tab) \/ (tab.text = tab.original /\ ~save.resolve)
     IN  IF refused THEN Settles(s, "failed") /\ UNCHANGED tabs
         ELSE IF nothing THEN Settles(s, "done") /\ UNCHANGED tabs
         ELSE IF moving # "no" \/ upload = save.key THEN Settles(s, "failed") /\ UNCHANGED tabs
         ELSE /\ saves' = [saves EXCEPT ![s].at = "begin", ![s].text = tab.text,
                                        ![s].expected = IF save.resolve THEN tab.conflict ELSE tab.revision]
              /\ tabs' = [tabs EXCEPT ![save.key].saving = TRUE]
              /\ UNCHANGED commits
  /\ UNCHANGED <<disk, reads, others, texts, drafts, stored, seen, overwritten>>

At(s, at) == saves[s].at = at

\* The revision is compared when the upload begins.
BeginWrite(s) ==
  /\ At(s, "begin")
  /\ saves' = [saves EXCEPT ![s].at = IF disk[saves[s].key] = saves[s].expected THEN "staged" ELSE "refused"]
  /\ UNCHANGED <<disk, tabs, reads, commits, others, texts, drafts, stored, seen, overwritten>>

\* Mutant: the revision that was compared when the upload began is enough.
CommitTrusts(s) ==
  /\ At(s, "staged")
  /\ saves' = [saves EXCEPT ![s].at = "checked", ![s].checked = disk[saves[s].key]]
  /\ UNCHANGED <<disk, tabs, reads, commits, others, texts, drafts, stored, seen, overwritten>>

\* All is written; the revision is compared again.
CommitChecks(s) ==
  /\ At(s, "staged")
  /\ saves' = [saves EXCEPT ![s].at = IF disk[saves[s].key] = saves[s].expected THEN "checked" ELSE "refused",
                            ![s].checked = disk[saves[s].key]]
  /\ UNCHANGED <<disk, tabs, reads, commits, others, texts, drafts, stored, seen, overwritten>>

\* A new file is linked and replaces nothing.
CommitReplaces(s) ==
  /\ At(s, "checked")
  /\ LET save == saves[s]
         now == disk[save.key]
     IN  IF save.expected = 0 /\ now # 0
         THEN /\ saves' = [saves EXCEPT ![s].at = "refused"]
              /\ UNCHANGED <<disk, stored, overwritten>>
         ELSE /\ saves' = [saves EXCEPT ![s].at = "replaced"]
              /\ disk' = [disk EXCEPT ![save.key] = save.text]
              /\ stored' = stored \cup {save.text}
              /\ overwritten' = IF now = save.checked THEN overwritten \cup ({now} \ (seen \cup {0})) ELSE overwritten
  /\ UNCHANGED <<tabs, reads, commits, others, texts, drafts, seen>>

SaveDone(s) ==
  /\ At(s, "replaced")
  /\ LET Change(tab) == [tab EXCEPT !.revision = saves[s].text, !.original = saves[s].text, !.conflict = 0, !.saving = FALSE]
     IN  tabs' = Updated(saves[s].key, Change)
  /\ Settles(s, "done")
  /\ UNCHANGED <<disk, reads, others, texts, drafts, stored, seen, overwritten>>

NotSaving(tab) == [tab EXCEPT !.saving = FALSE]

\* Any other error: lost connection, an expired upload, an outcome that is unknown.
SaveFails(s) ==
  /\ saves[s].at \in {"begin", "staged", "replaced"}
  /\ tabs' = Updated(saves[s].key, NotSaving)
  /\ Settles(s, "failed")
  /\ UNCHANGED <<disk, reads, others, texts, drafts, stored, seen, overwritten>>

\* FILE_CONFLICT: the file is read to be compared.
ConflictReads(s) ==
  /\ At(s, "refused")
  /\ saves' = [saves EXCEPT ![s].at = "compared", ![s].checked = disk[saves[s].key]]
  /\ UNCHANGED <<disk, tabs, reads, commits, others, texts, drafts, stored, seen, overwritten>>

\* A file that is gone cannot be read.
ConflictShown(s) ==
  /\ At(s, "compared")
  /\ LET remote == saves[s].checked
         Change(tab) == [tab EXCEPT !.conflict = IF remote # 0 THEN remote ELSE @, !.saving = FALSE]
     IN  /\ tabs' = Updated(saves[s].key, Change)
         /\ seen' = IF IsText(tabs[saves[s].key]) THEN seen \cup {remote} ELSE seen
  /\ Settles(s, "failed")
  /\ UNCHANGED <<disk, reads, others, texts, drafts, stored, overwritten>>

-----------------------------------------------------------------------------
(* Reads.                                                                  *)

ServerReads(r) ==
  /\ reads[r].at = "asked"
  /\ reads' = [reads EXCEPT ![r].at = "read", ![r].got = disk[reads[r].key]]
  /\ UNCHANGED <<disk, tabs, saves, commits, others, texts, drafts, stored, seen, overwritten>>

\* The token of the tab is another one when it was closed or moved meanwhile.
LoadDone(r) ==
  /\ reads[r].at = "read" /\ reads[r].kind = "load"
  /\ LET read == reads[r]
         live == tabs[read.key].token = r
     IN  /\ tabs' = IF ~live THEN tabs
                    ELSE [tabs EXCEPT ![read.key] = IF read.got = 0 THEN [NoTab EXCEPT !.status = "failed"] ELSE Ready(read.got)]
         /\ seen' = IF live THEN seen \cup {read.got} ELSE seen
  /\ reads' = [reads EXCEPT ![r].at = "done"]
  /\ UNCHANGED <<disk, saves, commits, others, texts, drafts, stored, overwritten>>

\* Only a tab without changes is refreshed.
RefreshDone(r) ==
  /\ reads[r].at = "read" /\ reads[r].kind = "refresh"
  /\ LET tab == tabs[reads[r].key]
         got == reads[r].got
     IN  IF got # 0 /\ IsText(tab) /\ ~Dirty(tab) /\ tab.moved = "no"
         THEN /\ tabs' = [tabs EXCEPT ![reads[r].key] = [tab EXCEPT !.text = got, !.original = got, !.revision = got]]
              /\ seen' = seen \cup {got}
         ELSE UNCHANGED <<tabs, seen>>
  /\ reads' = [reads EXCEPT ![r].at = "done"]
  /\ UNCHANGED <<disk, saves, commits, others, texts, drafts, stored, overwritten>>

-----------------------------------------------------------------------------
(* Others, uploads and moves.                                              *)

OthersWrite(p) ==
  /\ texts < MaxTexts
  /\ texts' = texts + 1
  /\ \/ disk' = [disk EXCEPT ![p] = texts'] /\ stored' = stored \cup {texts'}
     \/ disk[p] # 0 /\ disk' = [disk EXCEPT ![p] = 0] /\ stored' = stored
  /\ UNCHANGED <<tabs, reads, saves, commits, others, drafts, seen, overwritten>>

UploadStarts(p) ==
  /\ upload = "no" /\ uploads < MaxUploads
  /\ upload' = p /\ uploads' = uploads + 1
  /\ UNCHANGED <<disk, tabs, reads, saves, commits, moving, told, moves, texts, drafts, stored, seen, overwritten>>

\* The end of an upload refreshes a tab without changes.
UploadEnds ==
  /\ upload # "no"
  /\ upload' = "no"
  /\ LET tab == tabs[upload]
     IN  reads' = IF IsText(tab) /\ ~Dirty(tab) /\ tab.moved = "no" /\ Len(reads) < MaxReads
                  THEN Append(reads, Read("refresh", upload)) ELSE reads
  /\ UNCHANGED <<disk, tabs, saves, commits, moving, told, moves, uploads, texts, drafts, stored, seen, overwritten>>

\* Not while saves, uploads or changes in the tab of the destination are in the way.
Move(p) ==
  /\ moving = "no" /\ moves < MaxMoves
  /\ \A q \in Paths : Location(q) = Other(p) => ~Protected(tabs[q])
  /\ upload = "no"
  /\ \A q \in Paths : ~(IsText(tabs[q]) /\ tabs[q].saving)
  /\ moving' = p /\ moves' = moves + 1
  /\ UNCHANGED <<disk, tabs, reads, saves, commits, told, upload, uploads, texts, drafts, stored, seen, overwritten>>

Renames(p) ==
  /\ disk[p] # 0 /\ disk[Other(p)] = 0
  /\ disk' = [disk EXCEPT ![p] = 0, ![Other(p)] = disk[p]]
  /\ told' = Append(told, p)

\* The server has renamed the file and all windows are told, or it refuses.
MoveEnds ==
  /\ moving # "no"
  /\ moving' = "no"
  /\ \/ Renames(moving)
     \/ UNCHANGED <<disk, told>>
  /\ UNCHANGED <<tabs, reads, saves, commits, upload, moves, uploads, texts, drafts, stored, seen, overwritten>>

\* Another window knows nothing of the tabs and saves of this one.
MovedElsewhere(p) ==
  /\ moves < MaxMoves
  /\ moves' = moves + 1
  /\ Renames(p)
  /\ UNCHANGED <<tabs, reads, saves, commits, moving, upload, uploads, texts, drafts, stored, seen, overwritten>>

\* Mutant: the tab of the destination gives way, whatever it holds.
ReboundAnyway(ts, key, path) ==
  LET tab == IF IsText(ts[key]) THEN NotSaving(ts[key]) ELSE [NoTab EXCEPT !.status = "failed"]
  IN  [ts EXCEPT ![key] = NoTab, ![path] = [tab EXCEPT !.moved = "no"]]

\* The tab takes the key of its new path, unless the tab there has changes to lose.
Rebound(ts, key, path) ==
  LET tab == IF IsText(ts[key]) THEN NotSaving(ts[key]) ELSE [NoTab EXCEPT !.status = "failed"]
  IN  IF key # path /\ Protected(ts[path])
      THEN [ts EXCEPT ![key] = [tab EXCEPT !.moved = path]]
      ELSE [ts EXCEPT ![key] = NoTab, ![path] = [tab EXCEPT !.moved = "no"]]

\* First the tabs that are bound to the moved file, then those that wait to be.
Relocated(p, q) ==
  LET bound == IF p # q /\ tabs[p].status # "none" /\ tabs[p].moved = "no" THEN Rebound(tabs, p, q) ELSE tabs
      waits == {k \in Paths : tabs[k].moved = p}
  IN  IF waits = {} THEN bound ELSE Rebound(bound, CHOOSE k \in waits : TRUE, q)

\* What was not loaded yet is loaded from its new path, if its context can be opened.
Follow(ts, p) == \/ ts[p].status = "failed" /\ ts[p].moved = "no" /\ Load(ts, p)
                 \/ tabs' = ts /\ reads' = reads

WindowIsTold ==
  /\ told # <<>>
  /\ told' = Tail(told)
  /\ LET p == Head(told)
         moved == Relocated(p, Other(p))
     IN  IF moved = tabs THEN UNCHANGED <<tabs, reads>> ELSE Follow(moved, Other(p))
  /\ UNCHANGED <<disk, saves, commits, moving, upload, moves, uploads, texts, drafts, stored, seen, overwritten>>

\* The user tries a tab again that failed, or whose destination was in use.
Retry(p) ==
  /\ tabs[p].status = "failed" \/ tabs[p].moved # "no"
  /\ Follow(IF tabs[p].moved = "no" THEN tabs ELSE Relocated(Location(p), Location(p)), Location(p))
  /\ UNCHANGED <<disk, saves, commits, others, texts, drafts, stored, seen, overwritten>>

-----------------------------------------------------------------------------
SaveStep(s) ==
  \/ SaveStarts(s) \/ BeginWrite(s) \/ CommitChecks(s) \/ CommitReplaces(s)
  \/ SaveDone(s) \/ ConflictReads(s) \/ ConflictShown(s)

EditingNext ==
  \/ \E p \in Paths : \/ \E text \in 1 .. MaxTexts : Type(p, text)
                      \/ \E resolve \in BOOLEAN : Save(p, resolve)
                      \/ Open(p) \/ Close(p) \/ Discard(p) \/ Retry(p)
                      \/ OthersWrite(p) \/ UploadStarts(p) \/ Move(p) \/ MovedElsewhere(p)
  \/ \E s \in DOMAIN saves : SaveStep(s) \/ SaveFails(s)
  \/ \E r \in DOMAIN reads : ServerReads(r) \/ LoadDone(r) \/ RefreshDone(r)
  \/ UploadEnds \/ MoveEnds \/ WindowIsTold

EditingSpec == EditingInit /\ [][EditingNext]_editingVars

-----------------------------------------------------------------------------
(* Properties *)

\* What the user typed is in a tab or was in the file, until he types over it, discards it or closes
\* the tab with it: no save, conflict, refresh or relocation that ends late takes it away
\* (files/tabs.ts relocate, files/useFiles.ts write).
EditsAreKept == \A d \in drafts : d \in stored \/ \E p \in Paths : tabs[p].text = d

\* "This file changed remotely. Compare it with your edits before saving" (server/src/files/staging.rs
\* conflict): a save replaces only what the user has been shown, up to a change between the last
\* comparison and the rename.
OnlySeenIsReplaced == overwritten = {}

\* No save loses what was typed, nor what others wrote.
EditsAreSafe == EditsAreKept /\ OnlySeenIsReplaced
=============================================================================
