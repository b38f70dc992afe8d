----------------------------- MODULE MCDesktop -----------------------------
(***************************************************************************)
(* The parts of a window of the desktop application that share no state,   *)
(* side by side: a behaviour exercises one of them, and the others rest.   *)
(***************************************************************************)
EXTENDS FileEditing, ConversationView, DesktopNavigation

VARIABLE part    \* which of them moves

vars == <<editingVars, viewVars, navigationVars, part>>

Init == /\ EditingInit /\ ViewInit /\ NavigationInit
        /\ part \in {"files", "chat", "choices"}
        /\ part = "files" \/ disk["b"] = 0

Moving(name, rest) == part = name /\ UNCHANGED <<rest, part>>

Next ==
  \/ Moving("files", <<viewVars, navigationVars>>) /\ EditingNext
  \/ Moving("chat", <<editingVars, navigationVars>>) /\ ViewNext
  \/ Moving("choices", <<editingVars, viewVars>>) /\ NavigationNext

Spec == Init /\ [][Next]_vars
=============================================================================
