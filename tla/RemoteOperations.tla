-------------------------- MODULE RemoteOperations --------------------------
(***************************************************************************)
(* What an execution channel promises to the native Codex frontend that    *)
(* uses it, whatever the connection between the two machines does.         *)
(*                                                                         *)
(* An operation is requested once.  It runs on the remote host at most     *)
(* once, and only while the channel is open.  An answer that reaches the   *)
(* frontend is the answer of an operation that did run, or of one that the *)
(* remote policy refused without running it.  When the channel is over     *)
(* nothing runs any more, and what was not answered stays unanswered: it   *)
(* is never run again to find out.                                         *)
(***************************************************************************)
EXTENDS Naturals

CONSTANTS
  Ops,       \* the operations the frontend may ask for
  Refused    \* those the remote policy refuses

VARIABLES
  requested,  \* operations the frontend asked for
  runs,       \* how many times each operation ran on the remote host
  answered,   \* operations whose answer reached the frontend
  over        \* the channel has ended

vars == <<requested, runs, answered, over>>

Init ==
  /\ requested = {}
  /\ runs = [o \in Ops |-> 0]
  /\ answered = {}
  /\ over = FALSE

Request(o) ==
  /\ o \in Ops \ requested
  /\ requested' = requested \union {o}
  /\ UNCHANGED <<runs, answered, over>>

Run(o) ==
  /\ ~over
  /\ o \in requested \ Refused
  /\ runs[o] = 0
  /\ runs' = [runs EXCEPT ![o] = 1]
  /\ UNCHANGED <<requested, answered, over>>

Answer(o) ==
  /\ o \in requested
  /\ o \in Refused \/ runs[o] = 1
  /\ answered' = answered \union {o}
  /\ UNCHANGED <<requested, runs, over>>

End ==
  /\ over' = TRUE
  /\ UNCHANGED <<requested, runs, answered>>

Next ==
  \/ \E o \in Ops : Request(o) \/ Run(o) \/ Answer(o)
  \/ End

Spec == Init /\ [][Next]_vars

=============================================================================
