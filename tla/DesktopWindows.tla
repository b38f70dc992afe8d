--------------------------- MODULE DesktopWindows ---------------------------
(***************************************************************************)
(* The windows of the desktop application, and a document that moves from  *)
(* the first of them into a window of its own.                             *)
(*                                                                         *)
(*   win      the window and its entry in AppState.windows (state.rs):     *)
(*            it is built, attaches, closes (WindowState.closing) and goes;*)
(*   target   AppState.startup_targets, the document for a new window;     *)
(*   handoff  AppState.file_transfers: new windows whose documents the     *)
(*            first window still holds (commands/editor_windows.rs);       *)
(*   creation the call of new_window that waits for the new window         *)
(*            (files/useFileWindows.ts);                                   *)
(*   doc      the tab of the document in each window, locked in the first  *)
(*            one while it moves (files/tabs.ts, transferring);            *)
(*   phase    of a content window (app/ContentWindow.tsx);                 *)
(*   asked    CloseRequested on its way to a window;                       *)
(*   leaving  the closing of a window by its interface                     *)
(*            (app/useResourceActions.ts closeWindow, ContentWindow.tsx);  *)
(*   restarting, app   the application.                                    *)
(*                                                                         *)
(* Reloading a window, and the chats and terminals in it, are left out. A  *)
(* save succeeds or does not; FileEditing is about how.                    *)
(***************************************************************************)
EXTENDS Naturals, FiniteSets

CONSTANTS
  Children,    \* labels of windows that may be opened
  MaxInputs,    \* bound: texts typed
  MaxRestarts  \* bound: requests to restart or to quit

ASSUME WindowsAssumption == Children \cap {"main", "no"} = {} /\ {MaxInputs, MaxRestarts} \subseteq Nat

VARIABLES win, target, handoff, creation, doc, phase, asked, leaving, restarting, app, inputs, restarts,
          \* history, read by no guard:
          unsaved    \* what was typed, and neither saved nor given up

windowVars == <<win, target, handoff, creation, doc, phase, asked, leaving, restarting, app, inputs, restarts, unsaved>>

Windows == {"main"} \cup Children
NoDoc == [text |-> 0, dirty |-> FALSE, lock |-> "no"]

WindowsInit ==
  /\ win = [w \in Windows |-> IF w = "main" THEN "attached" ELSE "none"]
  /\ \E dirty \in BOOLEAN :
       /\ doc = [w \in Windows |-> IF w = "main" THEN [NoDoc EXCEPT !.text = 1, !.dirty = dirty] ELSE NoDoc]
       /\ unsaved = IF dirty THEN {1} ELSE {}
  /\ target = [w \in Windows |-> NoDoc] /\ handoff = {} /\ creation = [c \in Children |-> "none"]
  /\ phase = [w \in Windows |-> "ready"]
  /\ asked = {} /\ leaving = [w \in Windows |-> "no"]
  /\ restarting = FALSE /\ app = "running" /\ inputs = 1 /\ restarts = 0

\* The entries of AppState.windows.
Listed(w) == win[w] \in {"attached", "closing"}
Shown(w) == win[w] \in {"built", "attached", "closing"}

-----------------------------------------------------------------------------
(* The user.                                                               *)

\* What is typed while the window leaves, or before the document has moved, may be lost.
TypeIn(w) ==
  /\ Listed(w) /\ phase[w] # "opening"
  /\ doc[w].text # 0 /\ doc[w].lock = "no"
  /\ inputs < MaxInputs
  /\ inputs' = inputs + 1
  /\ doc' = [doc EXCEPT ![w].text = inputs', ![w].dirty = TRUE]
  /\ unsaved' = (unsaved \ {doc[w].text}) \cup (IF win[w] = "attached" /\ leaving[w] # "decided" /\ phase[w] = "ready" THEN {inputs'} ELSE {})
  /\ UNCHANGED <<win, target, handoff, creation, phase, asked, leaving, restarting, app, restarts>>

\* The tab is locked, and new_window is called with the document.
MoveToWindow(c) ==
  /\ win["main"] = "attached" /\ win[c] = "none" /\ creation[c] = "none"
  /\ doc["main"].text # 0 /\ doc["main"].lock = "no"
  /\ creation' = [creation EXCEPT ![c] = "sent"]
  /\ doc' = [doc EXCEPT !["main"].lock = c]
  /\ UNCHANGED <<win, target, handoff, phase, asked, leaving, restarting, app, inputs, restarts, unsaved>>

\* A window that is not attached yet is destroyed, and so is one that closes already.
Destroyed(w) ==
  /\ win' = [win EXCEPT ![w] = "gone"]
  /\ target' = [target EXCEPT ![w] = NoDoc]
  /\ app' = IF \A v \in Windows \ {w} : ~Shown(v) THEN "exited" ELSE app

Cancelled(cs) == [c \in Children |-> IF c \in cs THEN "failed" ELSE creation[c]]

UserCloses(w) ==
  /\ Shown(w)
  /\ IF win[w] = "attached"
     THEN asked' = asked \cup {w} /\ UNCHANGED <<win, target, handoff, creation, app>>
     ELSE /\ Destroyed(w)
          /\ creation' = Cancelled(IF w = "main" THEN handoff ELSE handoff \cap {w})
          /\ handoff' = IF w = "main" THEN {} ELSE handoff \ {w}
          /\ UNCHANGED asked
  /\ UNCHANGED <<doc, phase, leaving, restarting, inputs, restarts, unsaved>>

\* A restart, or the end of the application, is the end of each of its windows.
RestartApp ==
  /\ restarts < MaxRestarts /\ ~restarting
  /\ \E w \in Windows : win[w] = "attached"
  /\ restarts' = restarts + 1
  /\ asked' = asked \cup {w \in Windows : win[w] = "attached"}
  /\ \/ restarting' = TRUE
     \/ UNCHANGED restarting
  /\ UNCHANGED <<win, target, handoff, creation, doc, phase, leaving, app, inputs, unsaved>>

-----------------------------------------------------------------------------
(* new_window and attach, serialized by AppState.initialization.           *)

\* The document is offered and the window built; it fails in a restart or when the builder does.
NewWindow(c) ==
  /\ creation[c] = "sent"
  /\ \/ /\ ~restarting /\ Listed("main")
        /\ win' = [win EXCEPT ![c] = "built"]
        /\ target' = [target EXCEPT ![c] = [doc["main"] EXCEPT !.lock = "no"]]
        /\ handoff' = handoff \cup {c}
        /\ creation' = [creation EXCEPT ![c] = "waits"]
        /\ phase' = [phase EXCEPT ![c] = "opening"]
     \/ creation' = [creation EXCEPT ![c] = "unlocks"] /\ UNCHANGED <<win, target, handoff, phase>>
  /\ UNCHANGED <<doc, asked, leaving, restarting, app, inputs, restarts, unsaved>>

EmptyWindow(c) ==
  /\ win["main"] = "attached" /\ ~restarting
  /\ win[c] = "none" /\ creation[c] = "none"
  /\ win' = [win EXCEPT ![c] = "built"]
  /\ UNCHANGED <<target, handoff, creation, doc, phase, asked, leaving, restarting, app, inputs, restarts, unsaved>>

Attach(w) ==
  /\ win[w] = "built"
  /\ win' = [win EXCEPT ![w] = "attached"]
  /\ doc' = [doc EXCEPT ![w] = target[w]]
  /\ UNCHANGED <<target, handoff, creation, phase, asked, leaving, restarting, app, inputs, restarts, unsaved>>

-----------------------------------------------------------------------------
(* The content window.                                                     *)

\* Its context is opened, and the document adopted.
Adopt(c) ==
  /\ Listed(c) /\ phase[c] = "opening"
  /\ \/ phase' = [phase EXCEPT ![c] = "adopted"] /\ UNCHANGED doc
     \/ phase' = [phase EXCEPT ![c] = "failing"] /\ doc' = [doc EXCEPT ![c] = NoDoc]
  /\ UNCHANGED <<win, target, handoff, creation, asked, leaving, restarting, app, inputs, restarts, unsaved>>

\* editor_window_ready: the first answer or cancellation is the one that counts.
EditorReady(c) ==
  /\ Listed(c) /\ phase[c] \in {"adopted", "failing"}
  /\ IF c \in handoff /\ phase[c] = "adopted"
     THEN /\ phase' = [phase EXCEPT ![c] = "ready"]
          /\ creation' = [creation EXCEPT ![c] = "ready"]
          /\ target' = [target EXCEPT ![c] = NoDoc]
     ELSE /\ phase' = [phase EXCEPT ![c] = "orphan"]
          /\ creation' = Cancelled(handoff \cap {c})
          /\ UNCHANGED target
  /\ handoff' = handoff \ {c}
  /\ UNCHANGED <<win, doc, asked, leaving, restarting, app, inputs, restarts, unsaved>>

-----------------------------------------------------------------------------
(* The call returns to the first window.                                   *)

\* Mutant: the tab is only unlocked.
MovedAndKept(c) ==
  /\ creation[c] = "ready"
  /\ creation' = [creation EXCEPT ![c] = "done"]
  /\ doc' = IF doc["main"].lock = c THEN [doc EXCEPT !["main"].lock = "no"] ELSE doc
  /\ UNCHANGED <<win, target, handoff, phase, asked, leaving, restarting, app, inputs, restarts, unsaved>>

\* The document has moved: the tab is closed.
Moved(c) ==
  /\ creation[c] = "ready"
  /\ creation' = [creation EXCEPT ![c] = "done"]
  /\ doc' = IF doc["main"].lock = c THEN [doc EXCEPT !["main"] = NoDoc] ELSE doc
  /\ UNCHANGED <<win, target, handoff, phase, asked, leaving, restarting, app, inputs, restarts, unsaved>>

\* discard: the new window is closed, unless it closes itself.
Discards(c) ==
  /\ creation[c] = "failed"
  /\ target' = [target EXCEPT ![c] = NoDoc]
  /\ win' = [win EXCEPT ![c] = IF @ = "attached" THEN "closing" ELSE IF @ = "built" THEN "gone" ELSE @]
  /\ creation' = [creation EXCEPT ![c] = IF win[c] = "attached" THEN "discards" ELSE "unlocks"]
  /\ UNCHANGED <<handoff, doc, phase, asked, leaving, restarting, app, inputs, restarts, unsaved>>

Discarded(c) ==
  /\ creation[c] = "discards"
  /\ win' = [win EXCEPT ![c] = "gone"]
  /\ creation' = [creation EXCEPT ![c] = "unlocks"]
  /\ app' = IF \A v \in Windows \ {c} : ~Shown(v) THEN "exited" ELSE app
  /\ UNCHANGED <<target, handoff, doc, phase, asked, leaving, restarting, inputs, restarts, unsaved>>

\* The tab is kept.
Unlocks(c) ==
  /\ creation[c] = "unlocks"
  /\ creation' = [creation EXCEPT ![c] = "done"]
  /\ doc' = IF doc["main"].lock = c THEN [doc EXCEPT !["main"].lock = "no"] ELSE doc
  /\ UNCHANGED <<win, target, handoff, phase, asked, leaving, restarting, app, inputs, restarts, unsaved>>

-----------------------------------------------------------------------------
(* Closing.                                                                *)

\* One close at a time; a window that is not rendered yet does not hear it.
CloseAsked(w) ==
  /\ w \in asked /\ Listed(w)
  /\ asked' = asked \ {w}
  /\ leaving' = IF leaving[w] # "no" THEN leaving
                ELSE [leaving EXCEPT ![w] = IF w = "main" THEN "cancels" ELSE IF phase[w] = "opening" THEN "no" ELSE "asks"]
  /\ UNCHANGED <<win, target, handoff, creation, doc, phase, restarting, app, inputs, restarts, unsaved>>

\* Mutant: the document is left to its move.
CancelsNothing ==
  /\ Listed("main") /\ leaving["main"] = "cancels"
  /\ leaving' = [leaving EXCEPT !["main"] = "decided"]
  /\ UNCHANGED <<win, target, handoff, creation, doc, phase, asked, restarting, app, inputs, restarts, unsaved>>

\* editor_window_cancel, for what is moving; then its end is awaited.
CancelsMove ==
  /\ Listed("main") /\ leaving["main"] = "cancels"
  /\ leaving' = [leaving EXCEPT !["main"] = "asks"]
  /\ LET moving == handoff \cap {doc["main"].lock}
     IN  creation' = Cancelled(moving) /\ handoff' = handoff \ moving
  /\ UNCHANGED <<win, target, doc, phase, asked, restarting, app, inputs, restarts, unsaved>>

Kept(w) ==
  /\ leaving' = [leaving EXCEPT ![w] = "no"]
  /\ restarting' = FALSE
  /\ UNCHANGED <<doc, unsaved>>

\* Unsaved changes are saved or discarded, or the window stays.
CloseAnswered(w) ==
  /\ Listed(w) /\ leaving[w] = "asks" /\ doc[w].lock = "no"
  /\ \/ /\ leaving' = [leaving EXCEPT ![w] = "decided"]
        /\ unsaved' = unsaved \ {doc[w].text}
        /\ doc' = [doc EXCEPT ![w] = IF w = "main" THEN [@ EXCEPT !.dirty = FALSE] ELSE NoDoc]
        /\ UNCHANGED restarting
     \/ doc[w].dirty /\ Kept(w)
  /\ UNCHANGED <<win, target, handoff, creation, phase, asked, app, inputs, restarts>>

\* close_window: what the window was to receive or to hand over is cancelled.
CloseWindow(w) ==
  /\ Listed(w) /\ leaving[w] = "decided"
  /\ \/ /\ leaving' = [leaving EXCEPT ![w] = "closes"]
        /\ LET cancelled == IF w = "main" THEN handoff ELSE handoff \cap {w}
           IN  creation' = Cancelled(cancelled) /\ handoff' = handoff \ cancelled
        /\ target' = [target EXCEPT ![w] = NoDoc]
        /\ win' = [win EXCEPT ![w] = "closing"]
        /\ UNCHANGED <<doc, restarting, unsaved>>
     \/ Kept(w) /\ UNCHANGED <<win, target, handoff, creation>>
  /\ UNCHANGED <<phase, asked, app, inputs, restarts>>

\* The window that removes the last entry ends the application.
WindowCloses(w) ==
  /\ win[w] = "closing" /\ leaving[w] = "closes"
  /\ win' = [win EXCEPT ![w] = "gone"]
  /\ LET last == \A v \in Windows \ {w} : ~Listed(v)
     IN  /\ app' = IF last THEN (IF restarting THEN "restarted" ELSE "exited") ELSE app
         /\ restarting' = (restarting /\ ~last)
  /\ UNCHANGED <<target, handoff, creation, doc, phase, asked, leaving, inputs, restarts, unsaved>>

-----------------------------------------------------------------------------
WindowsNext ==
  /\ app = "running"
  /\ \/ \E w \in Windows : \/ TypeIn(w) \/ UserCloses(w) \/ Attach(w)
                           \/ CloseAsked(w) \/ CloseAnswered(w) \/ CloseWindow(w) \/ WindowCloses(w)
     \/ \E c \in Children : \/ MoveToWindow(c) \/ NewWindow(c) \/ EmptyWindow(c) \/ Adopt(c) \/ EditorReady(c)
                            \/ Moved(c) \/ Discards(c) \/ Discarded(c) \/ Unlocks(c)
     \/ CancelsMove \/ RestartApp

WindowsSpec == WindowsInit /\ [][WindowsNext]_windowVars

-----------------------------------------------------------------------------
(* Properties *)

\* "Your original tab is kept" (commands/editor_windows.rs cancelled): what the user typed and did not
\* give up is in a tab of some window, or in the document that a new window is about to adopt, however
\* moving, closing, restarting and failing windows interleave.
DocumentKept ==
  \A d \in unsaved : app = "running" /\ \E w \in Windows : Shown(w) /\ d \in {doc[w].text, target[w].text}

\* A document that moves can be edited in one window at a time (files/tabs.ts setTransfer, update).
OneEditor ==
  LET Editable(w) == win[w] = "attached" /\ phase[w] # "opening" /\ doc[w].text # 0 /\ doc[w].lock = "no"
  IN  Cardinality({w \in Windows : Editable(w)}) <= 1

\* The document is somewhere, and editable in at most one place.
DocumentIsSafe == DocumentKept /\ OneEditor
=============================================================================
