------------------------- MODULE MCExecutionChannel -------------------------
EXTENDS ExecutionChannel
=============================================================================
