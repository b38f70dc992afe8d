------------------------- MODULE MCSessionRecovery -------------------------
EXTENDS SessionRecovery

\* Bound: outages and messages together, so that either may come twice around one of the other.
MaxEvents == 3
FewEvents == outages + messages <= MaxEvents
=============================================================================
