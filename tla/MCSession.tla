----------------------------- MODULE MCSession -----------------------------
(***************************************************************************)
(* The parts of a session, and of the connection to its server, that share *)
(* no state, side by side: a behaviour exercises one of them, and the      *)
(* others rest.                                                            *)
(***************************************************************************)
EXTENDS SessionAuthority, SessionGoals, NativeFrontend, SessionOwnership,
        ServerConnection, TLC

VARIABLE part    \* which of them moves

vars == <<authorityVars, goalVars, frontendVars, ownershipVars, connectionVars, part>>

Init == /\ AuthorityInit /\ GoalsInit /\ FrontendInit /\ OwnershipInit /\ ConnectionInit
        /\ part \in {"changes", "approvals", "goal", "prompts", "owners", "connection"}

Moving(name, rest) == part = name /\ UNCHANGED <<rest, part>>

Next ==
  \/ Moving("changes", <<items, goalVars, frontendVars, ownershipVars, connectionVars>>) /\ AuthorityNext
  \/ Moving("approvals", <<calls, goalVars, frontendVars, ownershipVars, connectionVars>>) /\ AuthorityNext
  \/ Moving("goal", <<authorityVars, frontendVars, ownershipVars, connectionVars>>) /\ GoalsNext
  \/ Moving("prompts", <<authorityVars, goalVars, ownershipVars, connectionVars>>) /\ FrontendNext
  \/ Moving("owners", <<authorityVars, goalVars, frontendVars, connectionVars>>) /\ OwnershipNext
  \/ Moving("connection", <<authorityVars, goalVars, frontendVars, ownershipVars>>) /\ ConnectionNext

Spec == Init /\ [][Next]_vars

\* Windows are interchangeable, the two of one part like those of another.
Alike == Permutations(AppWindows)
=============================================================================
