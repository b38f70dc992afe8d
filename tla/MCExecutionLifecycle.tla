------------------------ MODULE MCExecutionLifecycle ------------------------
EXTENDS ExecutionLifecycle

\* Every start uses its own process identity.
OwnProcess == [o \in Starts |-> o]
=============================================================================
