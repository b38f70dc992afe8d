------------------------------ MODULE MCClient ------------------------------
(***************************************************************************)
(* What the windows of the desktop application and the processes of a      *)
(* computer share: documents that move between windows, directories that   *)
(* are worked in, secrets, and the installations here and on a server. The *)
(* five share no state; a behaviour exercises one of them, and the others  *)
(* rest.                                                                   *)
(***************************************************************************)
EXTENDS DesktopWindows, Credentials, SelfUpdate, RemoteInstall, WorkspaceUse, TLC

VARIABLE part    \* which of them moves

vars == <<windowVars, credentialVars, updateVars, installVars, useVars, part>>

Init == /\ WindowsInit /\ CredentialsInit /\ UpdateInit /\ InstallInit /\ UseInit
        /\ part \in {"windows", "secrets", "update", "runtime", "uses"}
        /\ part = "windows" \/ unsaved = {}
        /\ part = "runtime" \/ kind = "runtime"

Moving(name, rest) == part = name /\ UNCHANGED <<rest, part>>

Next ==
  \/ Moving("windows", <<credentialVars, updateVars, installVars, useVars>>) /\ WindowsNext
  \/ Moving("secrets", <<windowVars, updateVars, installVars, useVars>>) /\ CredentialsNext
  \/ Moving("update", <<windowVars, credentialVars, installVars, useVars>>) /\ UpdateNext
  \/ Moving("runtime", <<windowVars, credentialVars, updateVars, useVars>>) /\ InstallNext
  \/ Moving("uses", <<windowVars, credentialVars, updateVars, installVars>>) /\ UseNext

Spec == Init /\ [][Next]_vars

\* Windows, secrets and programs are interchangeable; they have two names in common, which are exchanged.
Alike == Permutations(Programs)
=============================================================================
