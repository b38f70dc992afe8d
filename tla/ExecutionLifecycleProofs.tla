---------------------- MODULE ExecutionLifecycleProofs ----------------------
(***************************************************************************)
(* Theorems about ExecutionLifecycle, for every set of operations, every   *)
(* assignment of process identities, every length of the queue and every   *)
(* grace period.                                                           *)
(***************************************************************************)
EXTENDS ExecutionLifecycle, FiniteSetTheorems, SequenceTheorems, TLAPS

AllVars == <<session, link, submitted, arriving, epoch, open, life, inbox, attached,
             detached, age, applied, pending, ended, cut, greeted, configured, changes,
             channel, jobs, rowid, backend, doomed, out>>

LEMMA VarsUnfold == (UNCHANGED vars) <=> (UNCHANGED AllVars)
BY DEF vars, AllVars, sessionVars, connectionVars, actorVars, storeVars, backendVars

(***************************************************************************)
(* Type correctness.                                                       *)
(***************************************************************************)

LEMMA InputsBuilt ==
  /\ {Touch, Detached, RetireIdle, Disconnected, Stop} \subseteq Inputs
  /\ \A o \in Ops : Execute(o) \in Inputs
BY DEF Inputs

LEMMA InputFacts ==
  ASSUME NEW i \in Inputs
  PROVE  /\ i.type = "execute" => i.op \in Ops /\ i = Execute(i.op)
         /\ i.type = "detached" => i = Detached
BY DEF Inputs, Touch, Detached, RetireIdle, Disconnected, Stop, Execute

LEMMA MessagesBuilt ==
  ASSUME NEW o \in Ops, NEW k \in {"started", "refused", "exited", "crashed"}
  PROVE  Message(k, o) \in Messages
BY DEF Message, Messages

LEMMA InboxSent ==
  ASSUME inbox \in Seq(Inputs), NEW i \in Inputs
  PROVE  /\ Enqueue(i) => inbox' \in Seq(Inputs)
         /\ Offer(i) => inbox' \in Seq(Inputs)
BY DEF Enqueue, Offer

LEMMA InboxTaken ==
  ASSUME inbox \in Seq(Inputs), NEW t, Taken(t)
  PROVE  inbox' \in Seq(Inputs) /\ Head(inbox) \in Inputs
BY HeadTailProperties DEF Taken

LEMMA TypeInit == Init => TypeOK
<1> SUFFICES ASSUME Init PROVE TypeOK
  OBVIOUS
<1>1. inbox \in Seq(Inputs) /\ age \in 0..MaxAge /\ epoch \in 0..MaxEpoch /\ changes \in 0..MaxChanges
  BY BoundsAssumption DEF Init, BoundsAssumption
<1>2. /\ jobs \in [Starts -> {"none"} \union Active \union Terminal]
      /\ rowid \in [Starts -> Nat]
      /\ backend \in [Ops -> {"none", "asked", "live", "gone"}]
  BY DEF Init
<1>3. arriving \in BOOLEAN /\ ~arriving /\ open = {} /\ out = {}
  BY DEF Init
<1> QED  BY <1>1, <1>2, <1>3 DEF Init, TypeOK

LEMMA TypeSession == TypeOK /\ SessionNext => TypeOK'
<1> SUFFICES ASSUME TypeOK, SessionNext PROVE TypeOK'
  OBVIOUS
<1> USE DEF sessionVars, connectionVars, storeVars, backendVars
<1>0. inbox \in Seq(Inputs) /\ epoch \in 0..MaxEpoch /\ MaxEpoch \in Nat
  BY BoundsAssumption DEF TypeOK, BoundsAssumption
<1>1. CASE AttachTouch
  <2>1. inbox' \in Seq(Inputs)
    BY <1>0, <1>1, InputsBuilt, InboxSent DEF AttachTouch
  <2> QED  BY <1>1, <2>1 DEF AttachTouch, TypeOK
<1>2. CASE AttachCount
  <2>1. epoch + 1 \in 1..MaxEpoch /\ epoch' \in 0..MaxEpoch
    BY <1>0, <1>2 DEF AttachCount, TypeOK
  <2>2. open' \subseteq 1..MaxEpoch /\ arriving' = FALSE /\ link' \in {"up", "down"}
    BY <1>2, <2>1 DEF AttachCount, TypeOK
  <2>3. greeted' \in BOOLEAN
    BY <1>2 DEF AttachCount
  <2> QED  BY ZenonT(60), <1>2, <2>1, <2>2, <2>3 DEF AttachCount, TypeOK
<1>3. CASE Heartbeat
  <2>1. inbox' \in Seq(Inputs)
    BY <1>0, <1>3, InputsBuilt, InboxSent DEF Heartbeat
  <2> QED  BY <1>3, <2>1 DEF Heartbeat, TypeOK
<1>4. CASE LoseLink
  BY ZenonT(60), <1>4 DEF LoseLink, TypeOK
<1>5. ASSUME NEW o \in Ops, Submit(o) PROVE TypeOK'
  <2>1. inbox' \in Seq(Inputs)
    BY <1>0, <1>5, InputsBuilt, InboxSent DEF Submit
  <2> QED  BY <1>5, <2>1 DEF Submit, TypeOK
<1>6. ASSUME NEW k \in open, ConnectionEnds(k) PROVE TypeOK'
  <2>1. inbox' \in Seq(Inputs)
    <3>1. CASE k = epoch
      BY <1>0, <1>6, <3>1, InputsBuilt, InboxSent DEF ConnectionEnds
    <3>2. CASE k # epoch
      BY <1>0, <1>6, <3>2 DEF ConnectionEnds
    <3> QED  BY <3>1, <3>2
  <2>2. link' \in {"up", "down"} /\ greeted' \in BOOLEAN
    BY <1>6 DEF ConnectionEnds, TypeOK
  <2> QED  BY <1>6, <2>1, <2>2 DEF ConnectionEnds, TypeOK
<1>7. ASSUME NEW k \in open, LateHeartbeat(k) PROVE TypeOK'
  <2>1. inbox' \in Seq(Inputs)
    BY <1>0, <1>7, InputsBuilt, InboxSent DEF LateHeartbeat
  <2> QED  BY <1>7, <2>1 DEF LateHeartbeat, TypeOK
<1>8. CASE Leave
  BY <1>8 DEF Leave, TypeOK, actorVars
<1>9. CASE DetachFrame
  <2>1. inbox' \in Seq(Inputs)
    BY <1>0, <1>9, InputsBuilt DEF DetachFrame
  <2> QED  BY ZenonT(60), <1>9, <2>1 DEF DetachFrame, TypeOK
<1>10. CASE DetachCall
  <2>1. inbox' \in Seq(Inputs)
    BY <1>0, <1>10, InputsBuilt, InboxSent DEF DetachCall
  <2> QED  BY <1>10, <2>1 DEF DetachCall, TypeOK
<1> QED  BY <1>1, <1>2, <1>3, <1>4, <1>5, <1>6, <1>7, <1>8, <1>9, <1>10 DEF SessionNext

LEMMA TypeService == TypeOK /\ ServiceNext => TypeOK'
<1> SUFFICES ASSUME TypeOK, ServiceNext PROVE TypeOK'
  OBVIOUS
<1> USE DEF sessionVars, connectionVars, storeVars, backendVars, actorVars
<1>0. inbox \in Seq(Inputs)
  BY DEF TypeOK
<1>1. CASE PrepareUpdate
  <2>1. inbox' \in Seq(Inputs)
    BY <1>0, <1>1, InputsBuilt, InboxSent DEF PrepareUpdate
  <2> QED  BY <1>1, <2>1 DEF PrepareUpdate, TypeOK
<1>2. CASE Shutdown
  <2>1. inbox' \in Seq(Inputs)
    BY <1>0, <1>2, InputsBuilt, InboxSent DEF Shutdown
  <2> QED  BY <1>2, <2>1 DEF Shutdown, TypeOK
<1>3. CASE Configure
  BY <1>3, BoundsAssumption DEF Configure, TypeOK, BoundsAssumption
<1> QED  BY <1>1, <1>2, <1>3 DEF ServiceNext

\* What the actor's helpers keep.
LEMMA TypeHelpers ==
  ASSUME TypeOK
  PROVE  /\ \A why \in {"idle", "retired", "told", "failed"} : Stops(why) =>
              /\ life' = "draining" /\ ended' = why
              /\ cut' \subseteq Ops /\ doomed' \subseteq Starts
         /\ \A S \in SUBSET Starts : ActiveJobs(S) \subseteq S
         /\ \A o \in Ops : RecordJob(o) =>
              /\ jobs' \in [Starts -> {"none"} \union Active \union Terminal]
              /\ rowid' \in [Starts -> Nat]
         /\ \A o \in Starts, s \in Active \union Terminal : SetJobState(o, s) =>
              jobs' \in [Starts -> {"none"} \union Active \union Terminal]
<1>1. NextRow \in Nat
  <2>1. IsFiniteSet({o \in Starts : rowid[o] # 0})
    BY KindsAssumption, FS_Subset DEF KindsAssumption, Ops
  <2> QED  BY <2>1, FS_CardinalityType DEF NextRow
<1>2. \A S \in SUBSET Starts : ActiveJobs(S) \subseteq S
  BY DEF ActiveJobs
<1>3. ASSUME NEW why \in {"idle", "retired", "told", "failed"}, Stops(why)
      PROVE  /\ life' = "draining" /\ ended' = why
             /\ cut' \subseteq Ops /\ doomed' \subseteq Starts
  BY <1>2, <1>3 DEF Stops, TypeOK, AtWork
<1>4. ASSUME NEW o \in Ops, RecordJob(o)
      PROVE  /\ jobs' \in [Starts -> {"none"} \union Active \union Terminal]
             /\ rowid' \in [Starts -> Nat]
  BY <1>1, <1>4 DEF RecordJob, TypeOK, Active
<1>5. ASSUME NEW o \in Starts, NEW s \in Active \union Terminal, SetJobState(o, s)
      PROVE  jobs' \in [Starts -> {"none"} \union Active \union Terminal]
  BY <1>5 DEF SetJobState, TypeOK
<1> QED  BY <1>2, <1>3, <1>4, <1>5

LEMMA TypeActor == TypeOK /\ ActorNext => TypeOK'
<1> SUFFICES ASSUME TypeOK, ActorNext PROVE TypeOK'
  OBVIOUS
<1> USE DEF sessionVars, connectionVars, storeVars, backendVars
<1>0. inbox \in Seq(Inputs) /\ MaxAge \in Nat
  BY BoundsAssumption DEF TypeOK, BoundsAssumption
<1>1. CASE TakeTouch
  <2>1. inbox' \in Seq(Inputs)
    BY <1>0, <1>1, InboxTaken DEF TakeTouch
  <2>2. age' \in 0..MaxAge /\ greeted' \in BOOLEAN
    BY <1>0, <1>1 DEF TakeTouch
  <2> QED  BY ZenonT(60), <1>1, <2>1, <2>2 DEF TakeTouch, TypeOK
<1>2. CASE TakeDetached
  <2>1. inbox' \in Seq(Inputs)
    BY <1>0, <1>2, InboxTaken DEF TakeDetached
  <2>2. doomed \union ActiveJobs(Mcps) \subseteq Starts
    BY TypeHelpers DEF TypeOK, Starts
  <2>3. /\ life' \in {"serving", "draining", "stopped"}
        /\ ended' \in {"no", "idle", "retired", "told", "failed"}
        /\ cut' \subseteq Ops /\ doomed' \subseteq Starts
    <3>1. \/ Stops("failed")
          \/ /\ UNCHANGED <<life, ended, cut>>
             /\ doomed' = doomed \union ActiveJobs(Mcps)
      BY <1>2 DEF TakeDetached
    <3> QED  BY <2>2, <3>1, TypeHelpers DEF TypeOK
  <2>4. age' \in 0..MaxAge
    BY <1>0, <1>2 DEF TakeDetached
  <2> QED  BY <1>2, <2>1, <2>3, <2>4 DEF TakeDetached, TypeOK
<1>3. CASE TakeRetireIdle
  <2>1. inbox' \in Seq(Inputs)
    BY <1>0, <1>3, InboxTaken DEF TakeRetireIdle
  <2> QED  BY <1>3, <2>1, TypeHelpers DEF TakeRetireIdle, TypeOK
<1>4. CASE TakeDisconnected
  <2>1. inbox' \in Seq(Inputs)
    BY <1>0, <1>4, InboxTaken DEF TakeDisconnected
  <2>2. age' = 0 /\ attached' = FALSE /\ detached' = detached
    BY <1>4 DEF TakeDisconnected
  <2>3. age' \in 0..MaxAge
    BY <1>0, <2>2
  <2>4. attached' \in BOOLEAN /\ detached' \in BOOLEAN
    BY <2>2, Zenon DEF TypeOK
  <2> QED  BY <1>4, <2>1, <2>3, <2>4 DEF TakeDisconnected, TypeOK
<1>5. CASE TakeStop
  <2>1. inbox' \in Seq(Inputs)
    BY <1>0, <1>5, InboxTaken DEF TakeStop
  <2> QED  BY <1>5, <2>1, TypeHelpers DEF TakeStop, TypeOK
<1>6. CASE TakeExecute
  <2>1. inbox' \in Seq(Inputs) /\ Head(inbox).op \in Ops
    BY <1>0, <1>6, InboxTaken, InputFacts DEF TakeExecute, Taken
  <2> DEFINE o == Head(inbox).op
  <2>2. /\ backend' \in [Ops -> {"none", "asked", "live", "gone"}]
        /\ pending' \subseteq Ops
    BY <1>6, <2>1 DEF TakeExecute, TypeOK
  <2>3. /\ jobs' \in [Starts -> {"none"} \union Active \union Terminal]
        /\ rowid' \in [Starts -> Nat]
    <3>1. RecordJob(o) \/ UNCHANGED <<jobs, rowid>>
      BY <1>6 DEF TakeExecute
    <3> QED  BY <2>1, <3>1, TypeHelpers DEF TypeOK
  <2>4. /\ life' \in {"serving", "draining", "stopped"}
        /\ ended' \in {"no", "idle", "retired", "told", "failed"}
        /\ cut' \subseteq Ops /\ doomed' \subseteq Starts
    <3>1. Stops("failed") \/ UNCHANGED <<life, ended, cut, doomed>>
      BY <1>6 DEF TakeExecute
    <3> QED  BY <3>1, TypeHelpers DEF TypeOK
  <2> QED  BY <1>0, <1>6, <2>1, <2>2, <2>3, <2>4 DEF TakeExecute, TypeOK
<1>7. ASSUME NEW o \in Ops, CollectAnswer(o) PROVE TypeOK'
  <2>1. jobs' \in [Starts -> {"none"} \union Active \union Terminal]
    <3>1. \/ UNCHANGED jobs
          \/ o \in Starts /\ (SetJobState(o, "failed") \/ SetJobState(o, "running"))
      BY <1>7 DEF CollectAnswer
    <3> QED  BY <3>1, TypeHelpers DEF TypeOK, Active, Terminal
  <2> QED  BY <1>7, <2>1 DEF CollectAnswer, TypeOK
<1>8. ASSUME NEW o \in Starts, CollectExit(o) PROVE TypeOK'
  <2>1. jobs' \in [Starts -> {"none"} \union Active \union Terminal]
    <3>1. \E q \in Starts : SetJobState(q, "completed") \/ SetJobState(q, "failed")
      BY <1>8 DEF CollectExit, Latest
    <3> QED  BY <3>1, TypeHelpers DEF TypeOK, Active, Terminal
  <2> QED  BY <1>8, <2>1 DEF CollectExit, TypeOK
<1>9. CASE ApplySettings
  BY <1>9 DEF ApplySettings, TypeOK
<1>10. ASSUME NEW answers \in BOOLEAN, Timer(answers) PROVE TypeOK'
  <2>1. doomed \union ActiveJobs(Mcps) \subseteq Starts
    BY TypeHelpers DEF TypeOK, Starts
  <2>2. /\ life' \in {"serving", "draining", "stopped"}
        /\ ended' \in {"no", "idle", "retired", "told", "failed"}
        /\ cut' \subseteq Ops /\ doomed' \subseteq Starts
    <3>1. \/ Stops("idle")
          \/ /\ UNCHANGED <<life, ended, cut>>
             /\ doomed' \in {doomed, doomed \union ActiveJobs(Mcps)}
      BY <1>10 DEF Timer
    <3> QED  BY <2>1, <3>1, TypeHelpers DEF TypeOK
  <2>3. age' \in {0, age} /\ attached' \in BOOLEAN
    BY <1>10 DEF Timer, TypeOK
  <2> QED  BY <1>0, <1>10, <2>2, <2>3 DEF Timer, TypeOK
<1>11. CASE Fails
  BY <1>11, TypeHelpers DEF Fails, TypeOK
<1>12. CASE Finish
  BY <1>12 DEF Finish, TypeOK, Terminal
<1>13. CASE Age
  BY <1>0, <1>13 DEF Age, TypeOK
<1> QED
  BY <1>1, <1>2, <1>3, <1>4, <1>5, <1>6, <1>7, <1>8, <1>9, <1>10, <1>11, <1>12, <1>13
     DEF ActorNext, Take, Collect

LEMMA TypeBackend == TypeOK /\ BackendNext => TypeOK'
<1> SUFFICES ASSUME TypeOK, BackendNext PROVE TypeOK'
  OBVIOUS
<1> USE DEF sessionVars, connectionVars, actorVars, storeVars
<1>1. ASSUME NEW o \in Ops, BackendAnswers(o) PROVE TypeOK'
  <2>1. backend' \in [Ops -> {"none", "asked", "live", "gone"}]
    BY <1>1 DEF BackendAnswers, TypeOK
  <2>2. out' \subseteq Messages
    BY <1>1, MessagesBuilt DEF BackendAnswers, TypeOK
  <2> QED  BY <1>1, <2>1, <2>2 DEF BackendAnswers, TypeOK
<1>2. ASSUME NEW o \in Starts, ProcessExits(o) PROVE TypeOK'
  <2>1. backend' \in [Ops -> {"none", "asked", "live", "gone"}]
    BY <1>2 DEF ProcessExits, TypeOK
  <2>2. out' \subseteq Messages
    BY <1>2, MessagesBuilt DEF ProcessExits, TypeOK, Ops
  <2> QED  BY <1>2, <2>1, <2>2 DEF ProcessExits, TypeOK
<1> QED  BY <1>1, <1>2 DEF BackendNext

\* Type correctness of every behaviour.
THEOREM LifeTypeCorrect == Spec => []TypeOK
<1>1. TypeOK /\ [Next]_vars => TypeOK'
  <2>1. TypeOK /\ UNCHANGED vars => TypeOK'
    <3> SUFFICES ASSUME TypeOK, UNCHANGED AllVars PROVE TypeOK'
      BY VarsUnfold
    <3> QED  BY DEF AllVars, TypeOK
  <2> QED  BY <2>1, TypeSession, TypeService, TypeActor, TypeBackend DEF Next
<1> QED  BY <1>1, TypeInit, PTL DEF Spec

(***************************************************************************)
(* The inductive invariant, in four parts.                                 *)
(***************************************************************************)

\* The queue: an operation waits at most once, and before the actor takes it
\* nothing is known of it; a session that is open has sent no Detached.
Fresh(o) == /\ o \in submitted /\ o \notin pending /\ backend[o] = "none"
            /\ o \in Starts => jobs[o] = "none"
QueueInv ==
  /\ \A n \in DOMAIN inbox, o \in Ops : inbox[n] = Execute(o) => Fresh(o)
  /\ \A n, m \in DOMAIN inbox, o \in Ops :
       inbox[n] = Execute(o) /\ inbox[m] = Execute(o) => n = m
  /\ \A n \in DOMAIN inbox : inbox[n] = Detached => session # "open"
  /\ detached => session # "open"

\* The backend: who is asked is pending, and a message says where its operation
\* is; each operation ends with one message.
EndKinds == {"refused", "exited", "crashed"}
BackendInv ==
  /\ \A o \in Ops : o \in pending \/ backend[o] # "none" => o \in submitted
  /\ \A o \in Ops : backend[o] = "asked" => o \in pending
  /\ \A o \in Queries : backend[o] # "live"
  /\ \A m \in out : /\ backend[m.op] \in {"live", "gone"}
                    /\ m.kind \in EndKinds => backend[m.op] = "gone"
                    /\ m.kind = "refused" => m.op \in pending
                    /\ m.kind \in EndKinds /\ m.op \in Starts => jobs[m.op] \in Active
  /\ \A m, n \in out :
       /\ m.kind \in EndKinds /\ n.kind \in EndKinds /\ m.op = n.op => m = n
       /\ m.kind = "refused" /\ m.op = n.op => m = n

\* The store: a job has a row; of two jobs with the same process identity the
\* older one is over, so that an exit is always about the newest.
Rows == {o \in Starts : rowid[o] # 0}
SharesProcess(o, q) == o # q /\ ProcessOf[o] = ProcessOf[q]
StoreInv ==
  /\ \A o \in Starts : /\ rowid[o] = 0 <=> jobs[o] = "none"
                       /\ jobs[o] # "none" => o \in submitted
                       /\ backend[o] # "none" => jobs[o] # "none"
                       /\ backend[o] \in {"asked", "live"} => jobs[o] \in Active
                       /\ rowid[o] <= Cardinality(Rows)
  /\ \A o, q \in Starts \intersect submitted :
       SharesProcess(o, q) => jobs[o] \in Terminal \/ jobs[q] \in Terminal
  /\ \A o, q \in Starts :
       SharesProcess(o, q) /\ rowid[o] # 0 /\ rowid[o] <= rowid[q] => jobs[o] \in Terminal

\* The end: what was cut off is what the store knew about.
EndInv ==
  /\ life = "serving" => ended = "no"
  /\ ActiveIsExplained /\ BackgroundSurvives /\ RetiredWasIdle

LifeInv == TypeOK /\ QueueInv /\ BackendInv /\ StoreInv /\ EndInv

\* The time since the actor was touched, while it serves a session that it has
\* heard from since its newest connection is alive.
HeardInv ==
  life = "serving" =>
    /\ greeted => link = "up" /\ age = 0
    /\ arriving => age = 0 \/ \E n \in DOMAIN inbox : inbox[n] = Touch

(***************************************************************************)
(* The queue.                                                              *)
(***************************************************************************)

\* What is sent arrives behind what waits.
LEMMA SentLast ==
  ASSUME inbox \in Seq(Inputs), NEW i \in Inputs, inbox' = Append(inbox, i)
  PROVE  /\ \A n \in DOMAIN inbox : n \in DOMAIN inbox' /\ inbox'[n] = inbox[n]
         /\ \A n \in DOMAIN inbox' : n \in DOMAIN inbox \/ inbox'[n] = i
         /\ \A n, m \in DOMAIN inbox' \ DOMAIN inbox : n = m
<1>1. /\ Len(inbox) \in Nat /\ DOMAIN inbox = 1..Len(inbox)
      /\ DOMAIN inbox' = 1..(Len(inbox) + 1)
      /\ \A n \in 1..Len(inbox) : inbox'[n] = inbox[n]
      /\ inbox'[Len(inbox) + 1] = i
  BY AppendProperties, LenProperties
<1> QED  BY <1>1

\* The actor takes what waits longest.
LEMMA TakenFirst ==
  ASSUME inbox \in Seq(Inputs), NEW t, Taken(t)
  PROVE  /\ 1 \in DOMAIN inbox /\ inbox[1] = Head(inbox)
         /\ \A n \in DOMAIN inbox' : /\ n + 1 \in DOMAIN inbox /\ n + 1 # 1
                                     /\ inbox'[n] = inbox[n + 1]
         /\ \A n \in DOMAIN inbox : n = 1 \/ (n - 1 \in DOMAIN inbox' /\ inbox'[n - 1] = inbox[n])
<1>1. /\ inbox # <<>> /\ inbox' = Tail(inbox)
  BY DEF Taken
<1>2. /\ Len(inbox) \in Nat \ {0} /\ DOMAIN inbox = 1..Len(inbox)
      /\ DOMAIN inbox' = 1..(Len(inbox) - 1)
      /\ \A n \in 1..(Len(inbox) - 1) : inbox'[n] = inbox[n + 1]
      /\ inbox[1] = Head(inbox)
  BY <1>1, HeadTailProperties, LenProperties, EmptySeq
<1>3. \A n \in 1..(Len(inbox) - 1) : n + 1 \in 1..Len(inbox) /\ n + 1 # 1
  BY <1>2
<1>4. ASSUME NEW n \in 1..Len(inbox), n # 1
      PROVE  n - 1 \in 1..(Len(inbox) - 1) /\ inbox'[n - 1] = inbox[n]
  <2>1. n - 1 \in 1..(Len(inbox) - 1) /\ (n - 1) + 1 = n
    BY <1>2, <1>4
  <2> QED  BY <1>2, <2>1
<1>5. \A n \in 1..Len(inbox) : n = 1 \/ (n - 1 \in 1..(Len(inbox) - 1) /\ inbox'[n - 1] = inbox[n])
  BY <1>4, Zenon
<1>6. 1 \in 1..Len(inbox)
  BY <1>2
<1>7. \A n \in 1..(Len(inbox) - 1) : n + 1 \in 1..Len(inbox) /\ n + 1 # 1 /\ inbox'[n] = inbox[n + 1]
  BY <1>2, <1>3
<1> QED
  <2>1. DOMAIN inbox = 1..Len(inbox) /\ DOMAIN inbox' = 1..(Len(inbox) - 1) /\ inbox[1] = Head(inbox)
    BY <1>2
  <2> QED  BY <2>1, <1>5, <1>6, <1>7, Zenon

\* A step that sends nothing, or an input that is not an operation.
LEMMA QueueGrows ==
  ASSUME TypeOK, QueueInv, NEW i \in Inputs,
         inbox' = inbox \/ inbox' = Append(inbox, i),
         \A o \in Ops : i # Execute(o),
         i = Detached => session' # "open",
         session # "open" => session' # "open",
         detached' => session' # "open",
         \A o \in Ops : Fresh(o) => Fresh(o)'
  PROVE  QueueInv'
<1>1. inbox \in Seq(Inputs)
  BY DEF TypeOK
<1>2. CASE inbox' = inbox
  BY <1>2 DEF QueueInv
<1>3. CASE inbox' = Append(inbox, i)
  <2>1. /\ \A n \in DOMAIN inbox' : n \in DOMAIN inbox \/ inbox'[n] = i
        /\ \A n \in DOMAIN inbox : inbox'[n] = inbox[n]
    BY <1>1, <1>3, SentLast
  <2> QED  BY <2>1 DEF QueueInv
<1> QED  BY <1>2, <1>3

\* A step that takes an input and leaves the operations behind it alone.
LEMMA QueueShrinks ==
  ASSUME TypeOK, QueueInv, NEW t, Taken(t),
         UNCHANGED session,
         detached' => detached \/ Head(inbox) = Detached,
         \A o \in Ops : Fresh(o) /\ Head(inbox) # Execute(o) => Fresh(o)'
  PROVE  QueueInv'
<1>1. inbox \in Seq(Inputs)
  BY DEF TypeOK
<1>2. /\ 1 \in DOMAIN inbox /\ inbox[1] = Head(inbox)
      /\ \A n \in DOMAIN inbox' : /\ n + 1 \in DOMAIN inbox /\ n + 1 # 1
                                  /\ inbox'[n] = inbox[n + 1]
  BY <1>1, TakenFirst
<1>3. \A n, m \in DOMAIN inbox' : n + 1 = m + 1 => n = m
  <2>1. DOMAIN inbox' = 1..Len(inbox')
    BY <1>1, InboxTaken, LenProperties
  <2> QED  BY <2>1
<1>4. ASSUME NEW n \in DOMAIN inbox', NEW o \in Ops, inbox'[n] = Execute(o)
      PROVE  Fresh(o)'
  BY <1>2, <1>4 DEF QueueInv
<1>5. \A n, m \in DOMAIN inbox', o \in Ops :
        inbox'[n] = Execute(o) /\ inbox'[m] = Execute(o) => n = m
  BY <1>2, <1>3 DEF QueueInv
<1>6. \A n \in DOMAIN inbox' : inbox'[n] = Detached => session' # "open"
  BY <1>2 DEF QueueInv
<1>7. detached' => session' # "open"
  BY <1>2 DEF QueueInv
<1> QED  BY <1>4, <1>5, <1>6, <1>7 DEF QueueInv

\* Which inputs are operations.
LEMMA InputsApart ==
  /\ \A o \in Ops : /\ Touch # Execute(o) /\ Detached # Execute(o) /\ RetireIdle # Execute(o)
                    /\ Disconnected # Execute(o) /\ Stop # Execute(o)
  /\ \A o, q \in Ops : Execute(o) = Execute(q) => o = q
  /\ \A o \in Ops : Execute(o) # Detached
  /\ Touch # Detached /\ RetireIdle # Detached /\ Disconnected # Detached /\ Stop # Detached
<1>1. /\ Touch.type = "touch" /\ Detached.type = "detached" /\ RetireIdle.type = "retire"
      /\ Disconnected.type = "disconnected" /\ Stop.type = "stop"
      /\ \A o \in Ops : Execute(o).type = "execute" /\ Execute(o).op = o
  BY DEF Touch, Detached, RetireIdle, Disconnected, Stop, Execute
<1> QED  BY <1>1

LEMMA SentOrNot ==
  ASSUME NEW i, Enqueue(i) \/ Offer(i)
  PROVE  inbox' = inbox \/ inbox' = Append(inbox, i)
BY DEF Enqueue, Offer

LEMMA QueueSession == LifeInv /\ SessionNext => QueueInv'
<1> SUFFICES ASSUME TypeOK, QueueInv, BackendInv, StoreInv, SessionNext PROVE QueueInv'
  BY DEF LifeInv
<1> USE DEF sessionVars, connectionVars, storeVars, backendVars
<1>0. detached => session # "open"
  BY DEF QueueInv
<1>1. CASE AttachTouch
  <2>1. inbox' = Append(inbox, Touch)
    BY <1>1 DEF AttachTouch, Enqueue
  <2>2. detached' = detached /\ session' = session /\ \A o \in Ops : Fresh(o) => Fresh(o)'
    BY <1>1 DEF AttachTouch, Fresh
  <2> QED  BY <1>0, <2>1, <2>2, InputsBuilt, InputsApart, QueueGrows
<1>2. CASE AttachCount
  <2>1. UNCHANGED <<inbox, detached, session>> /\ \A o \in Ops : Fresh(o) => Fresh(o)'
    BY <1>2 DEF AttachCount, Fresh
  <2> QED  BY <1>0, <2>1, InputsBuilt, InputsApart, QueueGrows
<1>3. CASE Heartbeat
  <2>1. inbox' = Append(inbox, Touch)
    BY <1>3 DEF Heartbeat, Enqueue
  <2>2. detached' = detached /\ session' = session /\ \A o \in Ops : Fresh(o) => Fresh(o)'
    BY <1>3 DEF Heartbeat, Fresh
  <2> QED  BY <1>0, <2>1, <2>2, InputsBuilt, InputsApart, QueueGrows
<1>4. CASE LoseLink
  <2>1. UNCHANGED <<inbox, detached, session>> /\ \A o \in Ops : Fresh(o) => Fresh(o)'
    BY <1>4 DEF LoseLink, Fresh
  <2> QED  BY <1>0, <2>1, InputsBuilt, InputsApart, QueueGrows
<1>5. ASSUME NEW o \in Ops, Submit(o) PROVE QueueInv'
  <2>1. /\ inbox \in Seq(Inputs) /\ Execute(o) \in Inputs
        /\ inbox' = Append(inbox, Execute(o))
    BY <1>5, InputsBuilt DEF Submit, Enqueue, TypeOK
  <2>2. /\ \A n \in DOMAIN inbox : n \in DOMAIN inbox' /\ inbox'[n] = inbox[n]
        /\ \A n \in DOMAIN inbox' : n \in DOMAIN inbox \/ inbox'[n] = Execute(o)
        /\ \A n, m \in DOMAIN inbox' \ DOMAIN inbox : n = m
    BY <2>1, SentLast
  <2>3. /\ UNCHANGED <<session, detached, pending, backend, jobs>>
        /\ submitted' = submitted \union {o} /\ o \notin submitted
        /\ \A q \in Ops : Fresh(q) => Fresh(q)'
    BY <1>5 DEF Submit, Fresh
  <2>4. Fresh(o)'
    BY <1>5, <2>3 DEF Fresh, BackendInv, StoreInv
  <2>5. \A n \in DOMAIN inbox, q \in Ops : inbox[n] = Execute(q) => q # o
    BY <2>3 DEF QueueInv, Fresh
  <2>6. \A n \in DOMAIN inbox', q \in Ops : inbox'[n] = Execute(q) => Fresh(q)'
    BY <2>2, <2>3, <2>4, InputsApart DEF QueueInv
  <2>7. \A n, m \in DOMAIN inbox', q \in Ops :
          inbox'[n] = Execute(q) /\ inbox'[m] = Execute(q) => n = m
    BY <2>2, <2>5, InputsApart DEF QueueInv
  <2>8. \A n \in DOMAIN inbox' : inbox'[n] = Detached => session' # "open"
    BY <2>2, <2>3, InputsApart DEF QueueInv
  <2> QED  BY <1>0, <2>3, <2>6, <2>7, <2>8 DEF QueueInv
<1>6. ASSUME NEW k \in open, ConnectionEnds(k) PROVE QueueInv'
  <2>1. inbox' = inbox \/ inbox' = Append(inbox, Disconnected)
    BY <1>6, SentOrNot DEF ConnectionEnds
  <2>2. detached' = detached /\ session' = session /\ \A o \in Ops : Fresh(o) => Fresh(o)'
    BY <1>6 DEF ConnectionEnds, Fresh
  <2> QED  BY <1>0, <2>1, <2>2, InputsBuilt, InputsApart, QueueGrows
<1>7. ASSUME NEW k \in open, LateHeartbeat(k) PROVE QueueInv'
  <2>1. inbox' = Append(inbox, Touch)
    BY <1>7 DEF LateHeartbeat, Enqueue
  <2>2. detached' = detached /\ session' = session /\ \A o \in Ops : Fresh(o) => Fresh(o)'
    BY <1>7 DEF LateHeartbeat, Fresh
  <2> QED  BY <1>0, <2>1, <2>2, InputsBuilt, InputsApart, QueueGrows
<1>8. CASE Leave
  <2>1. UNCHANGED <<inbox, detached>> /\ session' # "open" /\ \A o \in Ops : Fresh(o) => Fresh(o)'
    BY <1>8 DEF Leave, Fresh, actorVars
  <2> QED  BY <1>0, <2>1, InputsBuilt, InputsApart, QueueGrows
<1>9. CASE DetachFrame
  <2>1. /\ inbox \in Seq(Inputs) /\ Detached \in Inputs /\ Disconnected \in Inputs
        /\ \/ inbox' = Append(inbox, Detached)
           \/ inbox' = inbox \o <<Detached, Disconnected>>
    BY <1>9, InputsBuilt DEF DetachFrame, TypeOK
  <2>2. detached' = detached /\ session' = session /\ session # "open"
        /\ \A o \in Ops : Fresh(o) => Fresh(o)'
    BY <1>9 DEF DetachFrame, Fresh
  <2>3. CASE inbox' = Append(inbox, Detached)
    BY <1>0, <2>1, <2>2, <2>3, InputsApart, QueueGrows
  <2>4. CASE inbox' = inbox \o <<Detached, Disconnected>>
    <3>1. \A n \in DOMAIN inbox' : \/ n \in DOMAIN inbox /\ inbox'[n] = inbox[n]
                                   \/ inbox'[n] \in {Detached, Disconnected}
      BY <2>1, <2>4, ConcatProperties, LenProperties
    <3> QED  BY <1>0, <2>2, <3>1, InputsApart DEF QueueInv
  <2> QED  BY <2>1, <2>3, <2>4
<1>10. CASE DetachCall
  <2>1. inbox' = inbox \/ inbox' = Append(inbox, Detached)
    BY <1>10, SentOrNot DEF DetachCall
  <2>2. detached' = detached /\ session' # "open" /\ \A o \in Ops : Fresh(o) => Fresh(o)'
    BY <1>10 DEF DetachCall, Fresh
  <2> QED  BY <1>0, <2>1, <2>2, InputsBuilt, InputsApart, QueueGrows
<1> QED  BY <1>1, <1>2, <1>3, <1>4, <1>5, <1>6, <1>7, <1>8, <1>9, <1>10 DEF SessionNext

(***************************************************************************)
(* What the steps of the actor that touch the store do to it.              *)
(***************************************************************************)

LEMMA StatesApart == Active \intersect Terminal = {} /\ "none" \notin Active \union Terminal
BY DEF Active, Terminal

\* The job that an exit is about is the job of the process that exited.
LEMMA ExitIsLatest ==
  ASSUME LifeInv, NEW o \in Starts, NEW kind \in {"exited", "crashed"},
         Message(kind, o) \in out, NEW q \in Latest(ProcessOf[o])
  PROVE  q = o /\ jobs[o] \in Active
<1>1. Message(kind, o).op = o /\ Message(kind, o).kind = kind
  BY DEF Message
<1>2. jobs[o] \in Active
  BY <1>1 DEF LifeInv, BackendInv, EndKinds
<1>3. rowid[o] # 0 /\ jobs[o] \notin Terminal
  BY <1>2, StatesApart DEF LifeInv, StoreInv
<1>4. q \in Starts /\ ProcessOf[q] = ProcessOf[o] /\ rowid[o] <= rowid[q]
  BY DEF Latest
<1>5. q = o
  BY <1>3, <1>4 DEF LifeInv, StoreInv, SharesProcess
<1> QED  BY <1>2, <1>5

\* An exit ends the job of its process, if that has a newest job.
LEMMA CollectExitMeans ==
  ASSUME LifeInv, NEW o \in Starts, CollectExit(o)
  PROVE  \E kind \in {"exited", "crashed"}, s \in {"completed", "failed"} :
           /\ Message(kind, o) \in out /\ out' = out \ {Message(kind, o)}
           /\ jobs[o] \in Active /\ jobs' = [jobs EXCEPT ![o] = s]
<1>1. PICK kind \in {"exited", "crashed"} :
        /\ Message(kind, o) \in out
        /\ out' = out \ {Message(kind, o)}
        /\ \E q \in Latest(ProcessOf[o]) :
             SetJobState(q, IF kind = "exited" THEN "completed" ELSE "failed")
  BY DEF CollectExit
<1>2. PICK q \in Latest(ProcessOf[o]) :
        SetJobState(q, IF kind = "exited" THEN "completed" ELSE "failed")
  BY <1>1
<1>3. q = o /\ jobs[o] \in Active
  BY <1>1, ExitIsLatest
<1>4. jobs' = [jobs EXCEPT ![o] = IF kind = "exited" THEN "completed" ELSE "failed"]
  BY <1>2, <1>3 DEF SetJobState
<1> QED  BY <1>1, <1>3, <1>4

\* An answer removes the request from the pending ones; a refusal ends its job,
\* another answer changes at most "starting" into "running".
LEMMA CollectAnswerMeans ==
  ASSUME LifeInv, NEW o \in Ops, CollectAnswer(o)
  PROVE  \E kind \in {"started", "refused"} :
           /\ Message(kind, o) \in out /\ out' = out \ {Message(kind, o)}
           /\ pending' = pending \ {o}
           /\ \/ jobs' = jobs /\ (kind = "refused" => o \notin Starts)
              \/ /\ o \in Starts /\ jobs[o] \in Active
                 /\ jobs' = [jobs EXCEPT ![o] = IF kind = "refused" THEN "failed" ELSE "running"]
<1>1. PICK kind \in {"started", "refused"} :
        /\ Message(kind, o) \in out /\ out' = out \ {Message(kind, o)}
        /\ pending' = pending \ {o}
        /\ IF o \in Starts \intersect pending
             THEN SetJobState(o, IF kind = "refused" THEN "failed" ELSE "running")
             ELSE UNCHANGED jobs
  BY DEF CollectAnswer
<1>2. kind = "refused" => o \in pending /\ (o \in Starts => jobs[o] \in Active)
  <2>1. Message(kind, o).op = o /\ Message(kind, o).kind = kind
    BY DEF Message
  <2> QED  BY <1>1, <2>1 DEF LifeInv, BackendInv, EndKinds
<1>3. CASE kind = "refused"
  BY <1>1, <1>2, <1>3 DEF SetJobState
<1>4. CASE kind = "started"
  BY <1>1, <1>4 DEF SetJobState
<1> QED  BY <1>1, <1>3, <1>4

\* An operation is taken once: it is recorded and handed over, or neither, or
\* the actor fails on the way.
LEMMA TakeExecuteMeans ==
  ASSUME LifeInv, TakeExecute
  PROVE  \E o \in Ops :
           /\ Head(inbox) = Execute(o) /\ Taken("execute") /\ Fresh(o)
           /\ \/ UNCHANGED <<jobs, rowid, pending, backend>>
              \/ /\ RecordJob(o) /\ pending' = pending \union {o}
                 /\ backend' \in {backend, [backend EXCEPT ![o] = "asked"]}
           /\ \/ UNCHANGED <<life, ended, cut, doomed>>
              \/ Stops("failed")
           /\ life' = "serving" => \/ UNCHANGED <<jobs, rowid, pending, backend>>
                                   \/ backend' = [backend EXCEPT ![o] = "asked"]
<1>1. Taken("execute") /\ inbox \in Seq(Inputs)
  BY DEF TakeExecute, LifeInv, TypeOK
<1>2. Head(inbox) \in Inputs /\ 1 \in DOMAIN inbox /\ inbox[1] = Head(inbox)
  BY <1>1, InboxTaken, TakenFirst
<1> DEFINE o == Head(inbox).op
<1>3. o \in Ops /\ Head(inbox) = Execute(o)
  BY <1>1, <1>2, InputFacts DEF Taken
<1>4. Fresh(o)
  BY <1>2, <1>3 DEF LifeInv, QueueInv
<1>5. \/ /\ RecordJob(o) /\ pending' = pending \union {o}
         /\ backend' = [backend EXCEPT ![o] = "asked"]
         /\ UNCHANGED <<life, ended, cut, doomed>>
      \/ UNCHANGED <<jobs, rowid, pending, backend, life, ended, cut, doomed>>
      \/ /\ Stops("failed")
         /\ \/ UNCHANGED <<jobs, rowid, pending, backend>>
            \/ /\ RecordJob(o) /\ pending' = pending \union {o}
               /\ backend' \in {backend, [backend EXCEPT ![o] = "asked"]}
  BY DEF TakeExecute
<1>6. Stops("failed") => life' # "serving"
  BY DEF Stops
<1> QED  BY <1>1, <1>3, <1>4, <1>5, <1>6

LEMMA QueueActor == LifeInv /\ ActorNext => QueueInv'
<1> SUFFICES ASSUME LifeInv, TypeOK, QueueInv, ActorNext PROVE QueueInv'
  BY DEF LifeInv
<1> USE DEF sessionVars, connectionVars, storeVars, backendVars
<1>0. detached => session # "open"
  BY DEF QueueInv
<1>1. CASE TakeTouch
  <2>1. /\ Taken("touch") /\ session' = session /\ detached' = FALSE
        /\ \A o \in Ops : Fresh(o) => Fresh(o)'
    BY <1>1 DEF TakeTouch, Fresh
  <2> QED  BY <2>1, QueueShrinks
<1>2. CASE TakeDetached
  <2>1. /\ Taken("detached") /\ session' = session
        /\ \A o \in Ops : Fresh(o) => Fresh(o)'
    BY <1>2 DEF TakeDetached, Fresh
  <2>2. Head(inbox) = Detached
    BY <2>1, InboxTaken, InputFacts DEF TypeOK, Taken
  <2> QED  BY <2>1, <2>2, QueueShrinks
<1>3. CASE TakeRetireIdle
  <2>1. /\ Taken("retire") /\ session' = session /\ detached' = detached
        /\ \A o \in Ops : Fresh(o) => Fresh(o)'
    BY <1>3 DEF TakeRetireIdle, Fresh
  <2> QED  BY <2>1, QueueShrinks
<1>4. CASE TakeDisconnected
  <2>1. /\ Taken("disconnected") /\ session' = session /\ detached' = detached
        /\ \A o \in Ops : Fresh(o) => Fresh(o)'
    BY <1>4 DEF TakeDisconnected, Fresh
  <2> QED  BY <2>1, QueueShrinks
<1>5. CASE TakeStop
  <2>1. /\ Taken("stop") /\ session' = session /\ detached' = detached
        /\ \A o \in Ops : Fresh(o) => Fresh(o)'
    BY <1>5 DEF TakeStop, Fresh
  <2> QED  BY <2>1, QueueShrinks
<1>6. CASE TakeExecute
  <2>1. PICK o \in Ops :
          /\ Head(inbox) = Execute(o) /\ Taken("execute")
          /\ \/ UNCHANGED <<jobs, rowid, pending, backend>>
             \/ /\ RecordJob(o) /\ pending' = pending \union {o}
                /\ backend' \in {backend, [backend EXCEPT ![o] = "asked"]}
    BY <1>6, TakeExecuteMeans
  <2>2. UNCHANGED <<session, submitted, detached>>
    BY <1>6 DEF TakeExecute
  <2>3. \A q \in Ops : q # o => /\ backend'[q] = backend[q]
                                /\ q \in Starts => jobs'[q] = jobs[q]
    BY <2>1 DEF RecordJob, TypeOK
  <2>4. \A q \in Ops : Fresh(q) /\ Head(inbox) # Execute(q) => Fresh(q)'
    BY <2>1, <2>2, <2>3 DEF Fresh
  <2> QED  BY <2>1, <2>2, <2>4, QueueShrinks
<1>7. ASSUME NEW o \in Ops, CollectAnswer(o) PROVE QueueInv'
  <2>1. \/ jobs' = jobs
        \/ /\ o \in Starts /\ jobs[o] \in Active
           /\ \A q \in Starts : q # o => jobs'[q] = jobs[q]
    BY <1>7, CollectAnswerMeans DEF TypeOK
  <2>2. UNCHANGED <<inbox, session, submitted, detached, backend>> /\ pending' \subseteq pending
    BY <1>7 DEF CollectAnswer
  <2>3. \A q \in Ops : Fresh(q) => Fresh(q)'
    BY <2>1, <2>2, StatesApart DEF Fresh
  <2> QED  BY <1>0, <2>2, <2>3, InputsBuilt, InputsApart, QueueGrows
<1>8. ASSUME NEW o \in Starts, CollectExit(o) PROVE QueueInv'
  <2>1. jobs[o] \in Active /\ \A q \in Starts : q # o => jobs'[q] = jobs[q]
    BY <1>8, CollectExitMeans DEF TypeOK
  <2>2. UNCHANGED <<inbox, session, submitted, detached, backend, pending>>
    BY <1>8 DEF CollectExit
  <2>3. \A q \in Ops : Fresh(q) => Fresh(q)'
    BY <2>1, <2>2, StatesApart DEF Fresh
  <2> QED  BY <1>0, <2>2, <2>3, InputsBuilt, InputsApart, QueueGrows
<1>9. CASE ApplySettings
  <2>1. UNCHANGED <<inbox, session, detached>> /\ \A q \in Ops : Fresh(q) => Fresh(q)'
    BY <1>9 DEF ApplySettings, Fresh
  <2> QED  BY <1>0, <2>1, InputsBuilt, InputsApart, QueueGrows
<1>10. ASSUME NEW answers \in BOOLEAN, Timer(answers) PROVE QueueInv'
  <2>1. UNCHANGED <<inbox, session, detached>> /\ \A q \in Ops : Fresh(q) => Fresh(q)'
    BY <1>10 DEF Timer, Fresh
  <2> QED  BY <1>0, <2>1, InputsBuilt, InputsApart, QueueGrows
<1>11. CASE Fails
  <2>1. UNCHANGED <<inbox, session, detached>> /\ \A q \in Ops : Fresh(q) => Fresh(q)'
    BY <1>11 DEF Fails, Fresh
  <2> QED  BY <1>0, <2>1, InputsBuilt, InputsApart, QueueGrows
<1>12. CASE Finish
  <2>1. inbox' = <<>> /\ UNCHANGED <<session, detached>>
    BY <1>12 DEF Finish
  <2>2. DOMAIN inbox' = {}
    BY <2>1
  <2> QED  BY <1>0, <2>1, <2>2 DEF QueueInv
<1>13. CASE Age
  <2>1. UNCHANGED <<inbox, session, detached>> /\ \A q \in Ops : Fresh(q) => Fresh(q)'
    BY <1>13 DEF Age, Fresh
  <2> QED  BY <1>0, <2>1, InputsBuilt, InputsApart, QueueGrows
<1> QED
  BY <1>1, <1>2, <1>3, <1>4, <1>5, <1>6, <1>7, <1>8, <1>9, <1>10, <1>11, <1>12, <1>13
     DEF ActorNext, Take, Collect

LEMMA QueueRest == LifeInv /\ (ServiceNext \/ BackendNext) => QueueInv'
<1> SUFFICES ASSUME TypeOK, QueueInv, ServiceNext \/ BackendNext PROVE QueueInv'
  BY DEF LifeInv
<1> USE DEF sessionVars, connectionVars, storeVars, backendVars, actorVars
<1>0. detached => session # "open"
  BY DEF QueueInv
<1>1. CASE PrepareUpdate
  <2>1. inbox' = Append(inbox, RetireIdle)
    BY <1>1 DEF PrepareUpdate, Enqueue
  <2>2. UNCHANGED <<session, detached>> /\ \A o \in Ops : Fresh(o) => Fresh(o)'
    BY <1>1 DEF PrepareUpdate, Fresh
  <2> QED  BY <1>0, <2>1, <2>2, InputsBuilt, InputsApart, QueueGrows
<1>2. CASE Shutdown
  <2>1. inbox' = Append(inbox, Stop)
    BY <1>2 DEF Shutdown, Enqueue
  <2>2. UNCHANGED <<session, detached>> /\ \A o \in Ops : Fresh(o) => Fresh(o)'
    BY <1>2 DEF Shutdown, Fresh
  <2> QED  BY <1>0, <2>1, <2>2, InputsBuilt, InputsApart, QueueGrows
<1>3. CASE Configure
  <2>1. UNCHANGED <<inbox, session, detached>> /\ \A o \in Ops : Fresh(o) => Fresh(o)'
    BY <1>3 DEF Configure, Fresh
  <2> QED  BY <1>0, <2>1, InputsBuilt, InputsApart, QueueGrows
<1>4. ASSUME NEW o \in Ops, BackendAnswers(o) \/ (o \in Starts /\ ProcessExits(o)) PROVE QueueInv'
  <2>1. UNCHANGED <<inbox, session, submitted, detached, pending, jobs>>
    BY <1>4 DEF BackendAnswers, ProcessExits
  <2>2. backend[o] # "none" /\ \A q \in Ops : q # o => backend'[q] = backend[q]
    BY <1>4 DEF BackendAnswers, ProcessExits, TypeOK
  <2>3. \A q \in Ops : Fresh(q) => Fresh(q)'
    BY <2>1, <2>2 DEF Fresh
  <2> QED  BY <1>0, <2>1, <2>3, InputsBuilt, InputsApart, QueueGrows
<1> QED  BY <1>1, <1>2, <1>3, <1>4 DEF ServiceNext, BackendNext, Ops

(***************************************************************************)
(* Which steps leave the store and the backend alone.                      *)
(***************************************************************************)

QuietNext ==
  \/ SessionNext \/ ServiceNext
  \/ TakeTouch \/ TakeDetached \/ TakeRetireIdle \/ TakeDisconnected \/ TakeStop
  \/ ApplySettings \/ Fails \/ Age \/ \E answers \in BOOLEAN : Timer(answers)

LEMMA NextCases ==
  Next => \/ QuietNext \/ TakeExecute \/ Finish
          \/ \E o \in Ops : CollectAnswer(o) \/ BackendAnswers(o)
          \/ \E o \in Starts : CollectExit(o) \/ ProcessExits(o)
BY DEF Next, QuietNext, ActorNext, Take, Collect, BackendNext

LEMMA QuietKeeps ==
  ASSUME QuietNext
  PROVE  /\ UNCHANGED <<jobs, rowid, backend, out, pending>>
         /\ \/ submitted' = submitted
            \/ \E o \in Ops : Submit(o)
<1> USE DEF sessionVars, connectionVars, storeVars, backendVars, actorVars
<1>1. CASE SessionNext
  BY <1>1 DEF SessionNext, AttachTouch, AttachCount, Heartbeat, LoseLink, Submit,
              ConnectionEnds, LateHeartbeat, Leave, DetachFrame, DetachCall
<1>2. CASE ServiceNext
  BY <1>2 DEF ServiceNext, PrepareUpdate, Shutdown, Configure
<1>3. CASE ~SessionNext /\ ~ServiceNext
  BY <1>3 DEF QuietNext, TakeTouch, TakeDetached, TakeRetireIdle, TakeDisconnected, TakeStop,
              ApplySettings, Fails, Age, Timer
<1> QED  BY <1>1, <1>2, <1>3

(***************************************************************************)
(* The backend.                                                            *)
(***************************************************************************)

LEMMA BackendQuiet ==
  ASSUME BackendInv, UNCHANGED <<out, backend, jobs, pending>>, submitted \subseteq submitted'
  PROVE  BackendInv'
BY DEF BackendInv

LEMMA MessageParts ==
  ASSUME NEW k, NEW o
  PROVE  Message(k, o).kind = k /\ Message(k, o).op = o
BY DEF Message

LEMMA OutTyped == TypeOK => \A m \in out : m.op \in Ops /\ m = Message(m.kind, m.op)
BY DEF TypeOK, Messages, Message

LEMMA BackendExecute == LifeInv /\ TakeExecute => BackendInv'
<1> SUFFICES ASSUME LifeInv, TakeExecute PROVE BackendInv'
  OBVIOUS
<1>0. TypeOK /\ BackendInv
  BY DEF LifeInv
<1>1. UNCHANGED <<out, submitted>>
  BY DEF TakeExecute, sessionVars
<1>2. PICK o \in Ops :
        /\ Fresh(o)
        /\ \/ UNCHANGED <<jobs, rowid, pending, backend>>
           \/ /\ RecordJob(o) /\ pending' = pending \union {o}
              /\ backend' \in {backend, [backend EXCEPT ![o] = "asked"]}
  BY TakeExecuteMeans
<1>3. CASE UNCHANGED <<jobs, rowid, pending, backend>>
  BY <1>0, <1>1, <1>3, BackendQuiet
<1>4. CASE /\ RecordJob(o) /\ pending' = pending \union {o}
           /\ backend' \in {backend, [backend EXCEPT ![o] = "asked"]}
  <2>1. /\ \A q \in Ops : q # o => /\ backend'[q] = backend[q]
                                   /\ q \in Starts => jobs'[q] = jobs[q]
        /\ backend'[o] \in {"none", "asked"}
    BY <1>0, <1>2, <1>4 DEF TypeOK, RecordJob, Fresh
  <2>2. \A m \in out : m.op \in Ops /\ m.op # o
    BY <1>0, <1>2, OutTyped DEF BackendInv, Fresh
  <2>3. o \in submitted
    BY <1>2 DEF Fresh
  <2>4. \A q \in Queries : q \in Ops /\ backend'[q] # "live"
    BY <1>0, <2>1 DEF Ops, BackendInv
  <2>5. \A q \in Ops : /\ backend'[q] = "asked" => q \in pending'
                       /\ q \in pending' \/ backend'[q] # "none" => q \in submitted'
    BY <1>0, <1>1, <1>4, <2>1, <2>3 DEF BackendInv
  <2>6. \A m \in out' :
          /\ backend'[m.op] \in {"live", "gone"}
          /\ m.kind \in EndKinds => backend'[m.op] = "gone"
          /\ m.kind = "refused" => m.op \in pending'
          /\ m.kind \in EndKinds /\ m.op \in Starts => jobs'[m.op] \in Active
    BY <1>0, <1>1, <1>4, <2>1, <2>2 DEF BackendInv
  <2> QED  BY <1>0, <1>1, <2>4, <2>5, <2>6 DEF BackendInv
<1> QED  BY <1>2, <1>3, <1>4

LEMMA BackendAnswer ==
  ASSUME LifeInv, NEW o \in Ops, CollectAnswer(o)
  PROVE  BackendInv'
<1>0. TypeOK /\ BackendInv /\ UNCHANGED <<backend, submitted>>
  BY DEF LifeInv, CollectAnswer, sessionVars
<1>1. PICK kind \in {"started", "refused"} :
        /\ Message(kind, o) \in out /\ out' = out \ {Message(kind, o)}
        /\ pending' = pending \ {o}
        /\ \/ jobs' = jobs /\ (kind = "refused" => o \notin Starts)
           \/ /\ o \in Starts /\ jobs[o] \in Active
              /\ jobs' = [jobs EXCEPT ![o] = IF kind = "refused" THEN "failed" ELSE "running"]
  BY CollectAnswerMeans
<1>2. Message(kind, o).op = o /\ Message(kind, o).kind = kind
  BY MessageParts
<1>3. \A m \in out' : /\ m \in out /\ m.op \in Ops
                      /\ m.op = o => m.kind # "refused"
                      /\ m.op = o /\ m.kind \in EndKinds => kind = "started"
  BY <1>0, <1>1, <1>2, OutTyped DEF BackendInv, EndKinds
<1>4. \A q \in Starts : \/ jobs'[q] = jobs[q]
                        \/ q = o /\ (kind = "started" => jobs'[q] \in Active)
  BY <1>0, <1>1 DEF TypeOK, Active
<1>5. backend[o] # "asked"
  BY <1>0, <1>1, <1>2 DEF BackendInv
<1>6. \A m \in out' :
        /\ backend'[m.op] \in {"live", "gone"}
        /\ m.kind \in EndKinds => backend'[m.op] = "gone"
        /\ m.kind = "refused" => m.op \in pending'
        /\ m.kind \in EndKinds /\ m.op \in Starts => jobs'[m.op] \in Active
  BY <1>0, <1>1, <1>3, <1>4 DEF BackendInv
<1>7. \A q \in Ops : /\ backend'[q] = "asked" => q \in pending'
                     /\ q \in pending' \/ backend'[q] # "none" => q \in submitted'
  BY <1>0, <1>1, <1>5 DEF BackendInv
<1> QED  BY <1>0, <1>3, <1>6, <1>7 DEF BackendInv

LEMMA BackendExit ==
  ASSUME LifeInv, NEW o \in Starts, CollectExit(o)
  PROVE  BackendInv'
<1>0. TypeOK /\ BackendInv /\ UNCHANGED <<backend, submitted, pending>>
  BY DEF LifeInv, CollectExit, sessionVars
<1>1. PICK kind \in {"exited", "crashed"}, s \in {"completed", "failed"} :
        /\ Message(kind, o) \in out /\ out' = out \ {Message(kind, o)}
        /\ jobs[o] \in Active /\ jobs' = [jobs EXCEPT ![o] = s]
  BY CollectExitMeans
<1>2. Message(kind, o).op = o /\ Message(kind, o).kind = kind
  BY MessageParts
<1>3. \A m \in out' : /\ m \in out
                      /\ m.op = o => m.kind \notin EndKinds
  BY <1>0, <1>1, <1>2 DEF BackendInv, EndKinds
<1>4. \A q \in Starts : jobs'[q] = jobs[q] \/ q = o
  BY <1>0, <1>1 DEF TypeOK
<1>5. \A m \in out' :
        /\ backend'[m.op] \in {"live", "gone"}
        /\ m.kind \in EndKinds => backend'[m.op] = "gone"
        /\ m.kind = "refused" => m.op \in pending'
        /\ m.kind \in EndKinds /\ m.op \in Starts => jobs'[m.op] \in Active
  BY <1>0, <1>3, <1>4 DEF BackendInv
<1> QED  BY <1>0, <1>3, <1>5 DEF BackendInv

LEMMA BackendFinish == LifeInv /\ Finish => BackendInv'
<1> SUFFICES ASSUME TypeOK, BackendInv, Finish PROVE BackendInv'
  BY DEF LifeInv
<1>1. /\ pending' = {} /\ out' = {} /\ submitted' = submitted
      /\ backend' = [o \in Ops |-> IF o \in AtWork THEN "gone" ELSE backend[o]]
  BY DEF Finish, sessionVars
<1>2. \A o \in Ops : /\ backend'[o] \notin {"asked", "live"}
                     /\ backend'[o] # "none" => backend[o] # "none"
  BY <1>1 DEF AtWork, TypeOK
<1>3. \A o \in Queries : o \in Ops
  BY DEF Ops
<1> QED  BY <1>1, <1>2, <1>3 DEF BackendInv

LEMMA BackendReplies ==
  ASSUME LifeInv, NEW o \in Ops, BackendAnswers(o) \/ (o \in Starts /\ ProcessExits(o))
  PROVE  BackendInv'
<1>0. TypeOK /\ BackendInv /\ StoreInv /\ UNCHANGED <<submitted, pending, jobs>>
  BY DEF LifeInv, BackendAnswers, ProcessExits, sessionVars, actorVars, storeVars
<1>1. PICK kind \in {"started", "refused", "exited", "crashed"} :
        /\ out' = out \union {Message(kind, o)}
        /\ kind = "refused" => backend[o] = "asked"
        /\ kind \in {"exited", "crashed"} => backend[o] = "live"
        /\ kind = "started" => backend[o] = "asked"
        /\ kind \in EndKinds => backend' = [backend EXCEPT ![o] = "gone"]
        /\ kind = "started" =>
             backend' = [backend EXCEPT ![o] = IF o \in Starts THEN "live" ELSE "gone"]
  BY DEF BackendAnswers, ProcessExits, EndKinds
<1>2. Message(kind, o).op = o /\ Message(kind, o).kind = kind
  BY MessageParts
<1>3. /\ \A q \in Ops : q # o => backend'[q] = backend[q]
      /\ backend'[o] \in {"live", "gone"} /\ backend[o] \in {"asked", "live"}
      /\ kind \in EndKinds => backend'[o] = "gone"
      /\ o \notin Starts => backend'[o] = "gone"
  BY <1>0, <1>1 DEF TypeOK, EndKinds, BackendInv, Ops
<1>4. \A m \in out : m.op \in Ops /\ (m.op = o => m.kind \notin EndKinds)
  BY <1>0, <1>3, OutTyped DEF BackendInv
<1>5. /\ kind = "refused" => o \in pending
      /\ o \in Starts => jobs[o] \in Active
  BY <1>0, <1>1, <1>3 DEF BackendInv, StoreInv
<1>6. \A m \in out : m.op = o => backend[o] = "live"
  BY <1>0, <1>3 DEF BackendInv
<1>7. \A m \in out' :
        /\ backend'[m.op] \in {"live", "gone"}
        /\ m.kind \in EndKinds => backend'[m.op] = "gone"
        /\ m.kind = "refused" => m.op \in pending'
        /\ m.kind \in EndKinds /\ m.op \in Starts => jobs'[m.op] \in Active
  BY <1>0, <1>1, <1>2, <1>3, <1>4, <1>5 DEF BackendInv
<1>8. \A m, n \in out' :
        /\ m.kind \in EndKinds /\ n.kind \in EndKinds /\ m.op = n.op => m = n
        /\ m.kind = "refused" /\ m.op = n.op => m = n
  <2> SUFFICES ASSUME NEW m \in out', NEW n \in out', m.op = n.op
               PROVE  /\ m.kind \in EndKinds /\ n.kind \in EndKinds => m = n
                      /\ m.kind = "refused" => m = n
    OBVIOUS
  <2>1. CASE m \in out /\ n \in out
    BY <1>0, <2>1 DEF BackendInv
  <2>2. CASE m \notin out /\ n \in out
    BY <1>1, <1>2, <1>4, <1>6, <2>2 DEF EndKinds
  <2>3. CASE m \in out /\ n \notin out
    BY <1>1, <1>2, <1>4, <1>6, <2>3 DEF EndKinds
  <2>4. CASE m \notin out /\ n \notin out
    BY <1>1, <2>4
  <2> QED  BY <2>1, <2>2, <2>3, <2>4
<1>9. /\ \A q \in Ops : /\ backend'[q] = "asked" => q \in pending'
                        /\ q \in pending' \/ backend'[q] # "none" => q \in submitted'
      /\ \A q \in Queries : backend'[q] # "live"
  <2>1. \A q \in Queries : q \in Ops /\ q \notin Starts
    BY KindsAssumption DEF KindsAssumption, Ops
  <2> QED  BY <1>0, <1>3, <2>1 DEF BackendInv
<1> QED  BY <1>7, <1>8, <1>9 DEF BackendInv

(***************************************************************************)
(* The store.                                                              *)
(***************************************************************************)

\* A step that ends jobs and never begins one.
LEMMA StoreEnds ==
  ASSUME StoreInv, UNCHANGED <<rowid, submitted>>,
         \A o \in Starts : /\ jobs[o] \in Terminal => jobs'[o] \in Terminal
                           /\ jobs[o] = "none" <=> jobs'[o] = "none"
                           /\ backend'[o] # "none" => backend[o] # "none"
                           /\ backend'[o] \in {"asked", "live"} => jobs'[o] \in Active
  PROVE  StoreInv'
<1>1. Rows' = Rows
  BY DEF Rows
<1> QED  BY <1>1 DEF StoreInv, SharesProcess

LEMMA StoreQuiet ==
  ASSUME StoreInv, UNCHANGED <<jobs, rowid, backend, submitted>>
  PROVE  StoreInv'
<1>1. Rows' = Rows
  BY DEF Rows
<1> QED  BY <1>1 DEF StoreInv, SharesProcess

LEMMA StoreSubmit ==
  ASSUME LifeInv, NEW o \in Ops, Submit(o), UNCHANGED <<jobs, rowid, backend>>
  PROVE  StoreInv'
<1>1. /\ submitted' = submitted \union {o} /\ o \notin submitted
      /\ o \in Starts => \A q \in submitted \intersect Starts :
                           ProcessOf[q] = ProcessOf[o] => jobs[q] \in Terminal
  BY DEF Submit
<1>2. Rows' = Rows
  BY DEF Rows
<1>3. \A p, q \in Starts \intersect submitted' :
        SharesProcess(p, q) => jobs'[p] \in Terminal \/ jobs'[q] \in Terminal
  BY <1>1 DEF SharesProcess, LifeInv, StoreInv
<1> QED  BY <1>1, <1>2, <1>3 DEF LifeInv, StoreInv, SharesProcess

LEMMA RowsFinite == IsFiniteSet(Rows) /\ Cardinality(Rows) \in Nat
BY KindsAssumption, FS_Subset, FS_CardinalityType DEF KindsAssumption, Ops, Rows

\* A new row has the greatest rowid.
LEMMA RowAdded ==
  ASSUME TypeOK, NEW o \in Starts, rowid[o] = 0, RecordJob(o)
  PROVE  /\ jobs'[o] = "starting" /\ rowid'[o] = Cardinality(Rows) + 1
         /\ Cardinality(Rows') = Cardinality(Rows) + 1
         /\ \A q \in Starts : q # o => jobs'[q] = jobs[q] /\ rowid'[q] = rowid[q]
<1>1. /\ jobs'[o] = "starting" /\ rowid'[o] = Cardinality(Rows) + 1
      /\ \A q \in Starts : q # o => jobs'[q] = jobs[q] /\ rowid'[q] = rowid[q]
  BY DEF TypeOK, RecordJob, NextRow, Rows
<1>2. o \notin Rows /\ Rows' = Rows \union {o}
  BY <1>1, RowsFinite DEF Rows
<1>3. Cardinality(Rows \union {o}) = Cardinality(Rows) + 1
  BY <1>2, RowsFinite, FS_AddElement
<1> QED  BY <1>1, <1>2, <1>3

LEMMA StoreExecute == LifeInv /\ TakeExecute => StoreInv'
<1> SUFFICES ASSUME LifeInv, TypeOK, StoreInv, TakeExecute PROVE StoreInv'
  BY DEF LifeInv
<1>1. UNCHANGED submitted
  BY DEF TakeExecute, sessionVars
<1>2. PICK o \in Ops :
        /\ Fresh(o)
        /\ \/ UNCHANGED <<jobs, rowid, pending, backend>>
           \/ /\ RecordJob(o) /\ pending' = pending \union {o}
              /\ backend' \in {backend, [backend EXCEPT ![o] = "asked"]}
  BY TakeExecuteMeans
<1>3. CASE UNCHANGED <<jobs, rowid, pending, backend>>
  BY <1>1, <1>3, StatesApart, StoreEnds DEF StoreInv
<1>4. CASE RecordJob(o) /\ o \notin Starts /\ backend' \in {backend, [backend EXCEPT ![o] = "asked"]}
  <2>1. UNCHANGED <<jobs, rowid>> /\ \A q \in Starts : q \in Ops /\ backend'[q] = backend[q]
    BY <1>4 DEF RecordJob, TypeOK, Ops
  <2> QED  BY <1>1, <2>1, StatesApart, StoreEnds DEF StoreInv
<1>5. CASE RecordJob(o) /\ o \in Starts /\ backend' \in {backend, [backend EXCEPT ![o] = "asked"]}
  <2>1. jobs[o] = "none" /\ rowid[o] = 0 /\ o \in submitted /\ rowid \in [Starts -> Nat]
    BY <1>2, <1>5 DEF Fresh, StoreInv, TypeOK
  <2>2. /\ jobs'[o] = "starting" /\ rowid'[o] = Cardinality(Rows) + 1
        /\ Cardinality(Rows') = Cardinality(Rows) + 1
        /\ \A q \in Starts : q # o => jobs'[q] = jobs[q] /\ rowid'[q] = rowid[q]
        /\ Cardinality(Rows) \in Nat
    BY <1>5, <2>1, RowAdded, RowsFinite
  <2>3. \A q \in Starts : q \in Ops /\ (q # o => backend'[q] = backend[q])
    BY <1>5 DEF TypeOK, Ops
  <2>4. ASSUME NEW q \in Starts
        PROVE  /\ rowid'[q] = 0 <=> jobs'[q] = "none"
               /\ jobs'[q] # "none" => q \in submitted'
               /\ backend'[q] # "none" => jobs'[q] # "none"
               /\ backend'[q] \in {"asked", "live"} => jobs'[q] \in Active
               /\ rowid'[q] <= Cardinality(Rows')
    <3>1. CASE q = o
      BY <1>1, <2>1, <2>2, <3>1 DEF Active
    <3>2. CASE q # o
      BY <1>1, <2>1, <2>2, <2>3, <3>2 DEF StoreInv
    <3> QED  BY <3>1, <3>2
  <2>5. \A q \in Starts \intersect submitted : SharesProcess(o, q) => jobs[q] \in Terminal
    BY <2>1, <1>5, StatesApart DEF StoreInv
  <2>6. \A p, q \in Starts \intersect submitted' :
          SharesProcess(p, q) => jobs'[p] \in Terminal \/ jobs'[q] \in Terminal
    BY <1>1, <2>2, <2>5 DEF StoreInv, SharesProcess
  <2>7. ASSUME NEW p \in Starts, NEW q \in Starts,
               SharesProcess(p, q), rowid'[p] # 0, rowid'[p] <= rowid'[q]
        PROVE  jobs'[p] \in Terminal
    <3>1. CASE p = o
      BY <2>1, <2>2, <2>7, <3>1 DEF StoreInv, SharesProcess
    <3>2. CASE q = o /\ p # o
      BY <2>2, <2>5, <2>7, <3>2 DEF StoreInv, SharesProcess
    <3>3. CASE q # o /\ p # o
      BY <2>2, <2>7, <3>3 DEF StoreInv
    <3> QED  BY <3>1, <3>2, <3>3
  <2> QED  BY <2>4, <2>6, <2>7 DEF StoreInv
<1> QED  BY <1>2, <1>3, <1>4, <1>5

LEMMA StoreCollect ==
  ASSUME LifeInv, NEW o \in Ops, CollectAnswer(o) \/ (o \in Starts /\ CollectExit(o))
  PROVE  StoreInv'
<1>0. TypeOK /\ BackendInv /\ StoreInv /\ UNCHANGED <<submitted, rowid, backend>>
  BY DEF LifeInv, CollectAnswer, CollectExit, sessionVars
<1>1. \/ jobs' = jobs
      \/ /\ o \in Starts /\ jobs[o] \in Active
         /\ \/ jobs' = [jobs EXCEPT ![o] = "running"]
            \/ /\ jobs' \in {[jobs EXCEPT ![o] = "completed"], [jobs EXCEPT ![o] = "failed"]}
               /\ backend[o] = "gone"
  <2>1. CASE CollectAnswer(o)
    BY <1>0, <2>1, CollectAnswerMeans, MessageParts DEF BackendInv, EndKinds
  <2>2. CASE o \in Starts /\ CollectExit(o)
    BY <1>0, <2>2, CollectExitMeans, MessageParts DEF BackendInv, EndKinds
  <2> QED  BY <2>1, <2>2
<1>2. \A q \in Starts : \/ jobs'[q] = jobs[q]
                        \/ q = o /\ jobs[q] \in Active /\ jobs'[q] = "running"
                        \/ /\ q = o /\ jobs[q] \in Active /\ jobs'[q] \in {"completed", "failed"}
                           /\ backend[q] = "gone"
  BY <1>0, <1>1 DEF TypeOK
<1>3. \A q \in Starts : /\ jobs[q] \in Terminal => jobs'[q] \in Terminal
                        /\ jobs[q] = "none" <=> jobs'[q] = "none"
                        /\ backend'[q] \in {"asked", "live"} => jobs'[q] \in Active
  BY <1>0, <1>2 DEF StoreInv, Active, Terminal
<1> QED  BY <1>0, <1>3, StoreEnds

LEMMA StoreFinish == LifeInv /\ Finish => StoreInv'
<1> SUFFICES ASSUME LifeInv, TypeOK, StoreInv, Finish PROVE StoreInv'
  BY DEF LifeInv
<1>1. /\ UNCHANGED <<rowid, submitted>>
      /\ backend' = [o \in Ops |-> IF o \in AtWork THEN "gone" ELSE backend[o]]
      /\ jobs' \in {jobs, [o \in Starts |-> IF jobs[o] \in Active THEN "unknown" ELSE jobs[o]]}
  BY DEF Finish, sessionVars
<1>2. \A o \in Starts : /\ jobs[o] \in Terminal => jobs'[o] \in Terminal
                        /\ jobs[o] = "none" <=> jobs'[o] = "none"
  BY <1>1, StatesApart DEF Active, Terminal
<1>3. \A o \in Starts : /\ backend'[o] \notin {"asked", "live"}
                        /\ backend'[o] # "none" => backend[o] # "none"
  BY <1>1 DEF AtWork, TypeOK, Ops
<1> QED  BY <1>1, <1>2, <1>3, StoreEnds

LEMMA StoreBackend ==
  ASSUME LifeInv, NEW o \in Ops, BackendAnswers(o) \/ (o \in Starts /\ ProcessExits(o))
  PROVE  StoreInv'
<1>0. TypeOK /\ StoreInv /\ UNCHANGED <<submitted, rowid, jobs>>
  BY DEF LifeInv, BackendAnswers, ProcessExits, sessionVars, storeVars
<1>1. /\ backend[o] \in {"asked", "live"}
      /\ \A q \in Ops : q # o => backend'[q] = backend[q]
  BY <1>0 DEF BackendAnswers, ProcessExits, TypeOK
<1>2. \A q \in Starts : /\ q \in Ops
                        /\ backend'[q] # "none" => backend[q] # "none"
                        /\ backend'[q] \in {"asked", "live"} => backend[q] \in {"asked", "live"}
  BY <1>1 DEF Ops
<1> QED  BY <1>0, <1>2, StoreEnds DEF StoreInv

(***************************************************************************)
(* The end of the execution.                                               *)
(***************************************************************************)

\* The store knows what the backend works on.
LEMMA WorkIsKnown ==
  ASSUME LifeInv
  PROVE  /\ AtWork \intersect Starts \subseteq ActiveJobs(Starts)
         /\ AtWork \intersect Commands \subseteq ActiveJobs(Commands)
         /\ pending = {} /\ ActiveJobs(Starts) = {} => AtWork = {}
<1>1. AtWork \intersect Starts \subseteq ActiveJobs(Starts)
  BY DEF LifeInv, StoreInv, AtWork, ActiveJobs
<1>2. AtWork \intersect Commands \subseteq ActiveJobs(Commands)
  BY DEF LifeInv, StoreInv, AtWork, ActiveJobs, Starts
<1>3. ASSUME pending = {}, ActiveJobs(Starts) = {} PROVE AtWork = {}
  BY <1>1, <1>3 DEF LifeInv, BackendInv, AtWork, Ops
<1> QED  BY <1>1, <1>2, <1>3

\* A step that ends nothing: no job is left without an explanation.
LEMMA EndKept ==
  ASSUME LifeInv, UNCHANGED <<life, ended, cut>>,
         life = "serving" \/ applied' = applied,
         session # "open" => session' # "open",
         life = "serving" =>
           \A o \in Starts : jobs'[o] \in Active =>
             \/ backend'[o] \in {"asked", "live"}
             \/ Ends(o) \intersect out' # {}
  PROVE  EndInv'
<1>1. ActiveIsExplained'
  BY DEF ActiveIsExplained, ActiveJobs, AtWork, Ops
<1>2. BackgroundSurvives' /\ RetiredWasIdle'
  BY DEF LifeInv, EndInv, BackgroundSurvives, RetiredWasIdle
<1> QED  BY <1>1, <1>2 DEF LifeInv, EndInv

\* A step with which the actor stops serving.
LEMMA EndStops ==
  ASSUME LifeInv, NEW why, Stops(why),
         why = "idle" /\ applied' => AtWork \intersect Commands = {},
         why = "retired" => AtWork = {} /\ session' # "open"
  PROVE  EndInv'
BY DEF Stops, EndInv, ActiveIsExplained, BackgroundSurvives, RetiredWasIdle

LEMMA ExplainedNow ==
  ASSUME LifeInv, life = "serving", NEW o \in Starts, jobs[o] \in Active
  PROVE  backend[o] \in {"asked", "live"} \/ Ends(o) \intersect out # {}
BY DEF LifeInv, EndInv, ActiveIsExplained, ActiveJobs, AtWork

LEMMA EndQuiet == LifeInv /\ QuietNext => EndInv'
<1> SUFFICES ASSUME LifeInv, QuietNext PROVE EndInv'
  OBVIOUS
<1> USE DEF sessionVars, connectionVars, storeVars, backendVars
<1>0. UNCHANGED <<jobs, backend, out>>
  BY QuietKeeps
<1>1. life = "serving" =>
        \A o \in Starts : jobs'[o] \in Active =>
          \/ backend'[o] \in {"asked", "live"}
          \/ Ends(o) \intersect out' # {}
  BY <1>0, ExplainedNow
<1>2. ASSUME UNCHANGED <<life, ended, cut>>, life = "serving" \/ applied' = applied,
             session # "open" => session' # "open"
      PROVE  EndInv'
  BY <1>1, <1>2, EndKept
<1>3. CASE SessionNext
  <2>1. UNCHANGED <<life, ended, cut, applied>> /\ (session # "open" => session' # "open")
    BY <1>3 DEF SessionNext, AttachTouch, AttachCount, Heartbeat, LoseLink, Submit,
                ConnectionEnds, LateHeartbeat, Leave, DetachFrame, DetachCall, actorVars
  <2> QED  BY <1>2, <2>1
<1>4. CASE ServiceNext
  <2>1. UNCHANGED <<life, ended, cut, applied, session>>
    BY <1>4 DEF ServiceNext, PrepareUpdate, Shutdown, Configure, actorVars
  <2> QED  BY <1>2, <2>1
<1>5. CASE TakeTouch \/ TakeDisconnected \/ ApplySettings \/ Age
  <2>1. UNCHANGED <<life, ended, cut, session>> /\ life = "serving"
    BY <1>5 DEF TakeTouch, TakeDisconnected, ApplySettings, Age, Taken
  <2> QED  BY <1>2, <2>1
<1>6. CASE TakeDetached \/ TakeStop \/ Fails
  <2>1. \/ UNCHANGED <<life, ended, cut>> /\ life = "serving"
        \/ Stops("failed") \/ Stops("told")
    BY <1>6 DEF TakeDetached, TakeStop, Fails, Taken
  <2>2. UNCHANGED session
    BY <1>6 DEF TakeDetached, TakeStop, Fails
  <2>3. Stops("failed") \/ Stops("told") => EndInv'
    BY EndStops
  <2> QED  BY <1>2, <2>1, <2>2, <2>3
<1>7. CASE TakeRetireIdle
  <2>1. \/ UNCHANGED <<life, ended, cut>> /\ life = "serving"
        \/ detached /\ pending = {} /\ ActiveJobs(Starts) = {} /\ Stops("retired")
    BY <1>7 DEF TakeRetireIdle, Taken
  <2>2. UNCHANGED session
    BY <1>7 DEF TakeRetireIdle
  <2>3. CASE detached /\ pending = {} /\ ActiveJobs(Starts) = {} /\ Stops("retired")
    <3>1. AtWork = {} /\ session' # "open"
      BY <2>2, <2>3, WorkIsKnown DEF LifeInv, QueueInv
    <3> QED  BY <2>3, <3>1, EndStops
  <2> QED  BY <1>2, <2>1, <2>2, <2>3
<1>8. ASSUME NEW answers \in BOOLEAN, Timer(answers) PROVE EndInv'
  <2>1. \/ UNCHANGED <<life, ended, cut>> /\ life = "serving"
        \/ Stops("idle") /\ (~applied \/ ActiveJobs(Commands) = {})
    BY <1>8 DEF Timer
  <2>2. UNCHANGED <<session, applied>>
    BY <1>8 DEF Timer
  <2>3. CASE Stops("idle") /\ (~applied \/ ActiveJobs(Commands) = {})
    <3>1. applied' => AtWork \intersect Commands = {}
      BY <2>2, <2>3, WorkIsKnown
    <3> QED  BY <2>3, <3>1, EndStops
  <2> QED  BY <1>2, <2>1, <2>2, <2>3
<1> QED  BY <1>3, <1>4, <1>5, <1>6, <1>7, <1>8 DEF QuietNext

LEMMA EndExecute == LifeInv /\ TakeExecute => EndInv'
<1> SUFFICES ASSUME LifeInv, TypeOK, TakeExecute PROVE EndInv'
  BY DEF LifeInv
<1>1. UNCHANGED <<session, applied, out>>
  BY DEF TakeExecute, sessionVars
<1>2. PICK o \in Ops :
        /\ Taken("execute")
        /\ \/ UNCHANGED <<jobs, rowid, pending, backend>>
           \/ RecordJob(o)
        /\ UNCHANGED <<life, ended, cut, doomed>> \/ Stops("failed")
        /\ life' = "serving" => \/ UNCHANGED <<jobs, rowid, pending, backend>>
                                \/ backend' = [backend EXCEPT ![o] = "asked"]
  BY TakeExecuteMeans
<1>3. CASE Stops("failed")
  BY <1>3, EndStops
<1>4. CASE UNCHANGED <<life, ended, cut, doomed>>
  <2>1. life = "serving" /\ life' = "serving"
    BY <1>2, <1>4 DEF Taken
  <2>2. ASSUME NEW q \in Starts, jobs'[q] \in Active
        PROVE  backend'[q] \in {"asked", "live"} \/ Ends(q) \intersect out' # {}
    <3>1. CASE UNCHANGED <<jobs, rowid, pending, backend>>
      BY <1>1, <2>1, <2>2, <3>1, ExplainedNow
    <3>2. CASE RecordJob(o) /\ backend' = [backend EXCEPT ![o] = "asked"]
      <4>1. q \in Ops /\ (q = o => backend'[q] = "asked")
            /\ (q # o => backend'[q] = backend[q] /\ jobs'[q] = jobs[q])
        BY <3>2 DEF TypeOK, RecordJob, Ops
      <4> QED  BY <1>1, <2>1, <2>2, <4>1, ExplainedNow
    <3> QED  BY <1>2, <2>1, <3>1, <3>2
  <2> QED  BY <1>1, <1>4, <2>1, <2>2, EndKept
<1> QED  BY <1>2, <1>3, <1>4

LEMMA EndCollect ==
  ASSUME LifeInv, NEW o \in Ops, CollectAnswer(o) \/ (o \in Starts /\ CollectExit(o))
  PROVE  EndInv'
<1>0. TypeOK /\ BackendInv /\ UNCHANGED <<session, applied, life, ended, cut, backend>>
  BY DEF LifeInv, CollectAnswer, CollectExit, sessionVars
<1>1. PICK kind \in {"started", "refused", "exited", "crashed"} :
        /\ out' = out \ {Message(kind, o)}
        /\ \/ jobs' = jobs /\ (kind \in EndKinds => o \notin Starts)
           \/ /\ o \in Starts /\ jobs[o] \in Active
              /\ \/ kind = "started" /\ jobs' = [jobs EXCEPT ![o] = "running"]
                 \/ jobs' \in {[jobs EXCEPT ![o] = "completed"], [jobs EXCEPT ![o] = "failed"]}
  <2>1. CASE CollectAnswer(o)
    BY <2>1, CollectAnswerMeans DEF EndKinds
  <2>2. CASE o \in Starts /\ CollectExit(o)
    BY <2>2, CollectExitMeans DEF EndKinds
  <2> QED  BY <2>1, <2>2
<1>2. ASSUME NEW q \in Starts, jobs'[q] \in Active, life = "serving"
      PROVE  backend'[q] \in {"asked", "live"} \/ Ends(q) \intersect out' # {}
  <2>1. jobs[q] \in Active /\ (q = o => kind \notin EndKinds)
    BY <1>0, <1>1, <1>2, StatesApart DEF TypeOK, Terminal, EndKinds
  <2>2. Message(kind, o) \notin Ends(q)
    BY <2>1, MessageParts DEF Ends, EndKinds
  <2> QED  BY <1>0, <1>1, <1>2, <2>1, <2>2, ExplainedNow
<1> QED  BY <1>0, <1>2, EndKept

LEMMA EndFinish == LifeInv /\ Finish => EndInv'
BY DEF Finish, LifeInv, EndInv, ActiveIsExplained, BackgroundSurvives, RetiredWasIdle, sessionVars

LEMMA EndBackend ==
  ASSUME LifeInv, NEW o \in Ops, BackendAnswers(o) \/ (o \in Starts /\ ProcessExits(o))
  PROVE  EndInv'
<1>0. TypeOK /\ UNCHANGED <<session, applied, life, ended, cut, jobs>>
  BY DEF LifeInv, BackendAnswers, ProcessExits, sessionVars, actorVars, storeVars
<1>1. /\ out \subseteq out'
      /\ \A q \in Ops : q # o => backend'[q] = backend[q]
      /\ o \in Starts => backend'[o] = "live" \/ Ends(o) \intersect out' # {}
  BY <1>0 DEF BackendAnswers, ProcessExits, TypeOK, Ends
<1>2. ASSUME NEW q \in Starts, jobs'[q] \in Active, life = "serving"
      PROVE  backend'[q] \in {"asked", "live"} \/ Ends(q) \intersect out' # {}
  <2>1. backend[q] \in {"asked", "live"} \/ Ends(q) \intersect out # {}
    BY <1>0, <1>2, ExplainedNow
  <2>2. q \in Ops
    BY DEF Ops
  <2> QED  BY <1>1, <2>1, <2>2
<1> QED  BY <1>0, <1>2, EndKept

(***************************************************************************)
(* The invariant and what follows from it.                                 *)
(***************************************************************************)

LEMMA LifeInit == Init => LifeInv
<1> SUFFICES ASSUME Init PROVE LifeInv
  OBVIOUS
<1>1. TypeOK
  BY TypeInit
<1>2. QueueInv
  BY DEF Init, QueueInv
<1>3. BackendInv
  BY DEF Init, BackendInv, Ops
<1>4. StoreInv
  <2>1. Cardinality(Rows) \in Nat
    BY RowsFinite
  <2> QED  BY <2>1 DEF Init, StoreInv, Ops
<1>5. EndInv
  BY DEF Init, EndInv, ActiveIsExplained, ActiveJobs, Active, BackgroundSurvives, RetiredWasIdle
<1> QED  BY <1>1, <1>2, <1>3, <1>4, <1>5 DEF LifeInv

LEMMA LifeStep == LifeInv /\ [Next]_vars => LifeInv'
<1> SUFFICES ASSUME LifeInv, [Next]_vars PROVE LifeInv'
  OBVIOUS
<1>1. CASE UNCHANGED vars
  <2>1. UNCHANGED AllVars
    BY <1>1, VarsUnfold
  <2>2. TypeOK'
    BY <2>1 DEF AllVars, LifeInv, TypeOK
  <2>3. QueueInv' /\ BackendInv'
    BY <2>1 DEF AllVars, LifeInv, QueueInv, Fresh, BackendInv
  <2>4. StoreInv'
    BY <2>1 DEF AllVars, LifeInv, StoreInv, Rows, SharesProcess
  <2>5. EndInv'
    BY <2>1 DEF AllVars, LifeInv, EndInv, ActiveIsExplained, ActiveJobs, AtWork,
                BackgroundSurvives, RetiredWasIdle
  <2> QED  BY <2>2, <2>3, <2>4, <2>5 DEF LifeInv
<1>2. CASE Next
  <2>1. TypeOK'
    BY <1>2, TypeSession, TypeService, TypeActor, TypeBackend DEF Next, LifeInv
  <2>2. QueueInv'
    BY <1>2, QueueSession, QueueActor, QueueRest DEF Next
  <2>3. CASE QuietNext
    <3>1. UNCHANGED <<jobs, rowid, backend, out, pending>>
      BY <2>3, QuietKeeps
    <3>2. CASE submitted' = submitted
      BY <2>1, <2>2, <2>3, <3>1, <3>2, BackendQuiet, StoreQuiet, EndQuiet DEF LifeInv
    <3>3. ASSUME NEW o \in Ops, Submit(o) PROVE LifeInv'
      <4>1. submitted \subseteq submitted'
        BY <3>3 DEF Submit
      <4> QED  BY <2>1, <2>2, <2>3, <3>1, <3>3, <4>1, BackendQuiet, StoreSubmit, EndQuiet DEF LifeInv
    <3> QED  BY <2>3, <3>2, <3>3, QuietKeeps
  <2>4. CASE TakeExecute
    BY <2>1, <2>2, <2>4, BackendExecute, StoreExecute, EndExecute DEF LifeInv
  <2>5. CASE Finish
    BY <2>1, <2>2, <2>5, BackendFinish, StoreFinish, EndFinish DEF LifeInv
  <2>6. ASSUME NEW o \in Ops, CollectAnswer(o) PROVE LifeInv'
    BY <2>1, <2>2, <2>6, BackendAnswer, StoreCollect, EndCollect DEF LifeInv
  <2>7. ASSUME NEW o \in Starts, CollectExit(o) PROVE LifeInv'
    <3>1. o \in Ops
      BY DEF Ops
    <3> QED  BY <2>1, <2>2, <2>7, <3>1, BackendExit, StoreCollect, EndCollect DEF LifeInv
  <2>8. ASSUME NEW o \in Ops, BackendAnswers(o) \/ (o \in Starts /\ ProcessExits(o)) PROVE LifeInv'
    BY <2>1, <2>2, <2>8, BackendReplies, StoreBackend, EndBackend DEF LifeInv
  <2> QED  BY <1>2, <2>3, <2>4, <2>5, <2>6, <2>7, <2>8, NextCases DEF Ops
<1> QED  BY <1>1, <1>2

\* The inductive invariant holds of every behaviour.
THEOREM LifeCorrect == Spec => []LifeInv
<1> QED  BY LifeInit, LifeStep, PTL DEF Spec

\* The timer and the retirement see every process: what the backend starts or
\* runs has an active job.
THEOREM LiveIsActiveAlways == Spec => []LiveIsActive
<1>1. LifeInv => LiveIsActive
  BY DEF LifeInv, StoreInv, LiveIsActive, AtWork
<1> QED  BY <1>1, LifeCorrect, PTL

\* No late answer and no second use of a process identity leaves an active job
\* behind while the actor serves.
THEOREM ActiveIsExplainedAlways == Spec => []ActiveIsExplained
<1>1. LifeInv => ActiveIsExplained
  BY DEF LifeInv, EndInv
<1> QED  BY <1>1, LifeCorrect, PTL

\* The jobs agree with the processes of the backend, both ways.
THEOREM JobsAgreeAlways == Spec => []JobsAgree
<1> QED  BY LiveIsActiveAlways, ActiveIsExplainedAlways, PTL DEF JobsAgree

\* Under the background setting the timer never ends an execution with a command
\* at work.
THEOREM BackgroundSurvivesAlways == Spec => []BackgroundSurvives
<1>1. LifeInv => BackgroundSurvives
  BY DEF LifeInv, EndInv
<1> QED  BY <1>1, LifeCorrect, PTL

\* Maintenance retires only executions whose session left, and that are idle.
THEOREM RetiredWasIdleAlways == Spec => []RetiredWasIdle
<1>1. LifeInv => RetiredWasIdle
  BY DEF LifeInv, EndInv
<1> QED  BY <1>1, LifeCorrect, PTL

\* How a process ended is never changed.
THEOREM NeverResurrectedAlways == Spec => NeverResurrected
<1>1. LifeInv /\ [Next]_vars =>
        [\A o \in Starts : jobs[o] \in Terminal => jobs'[o] = jobs[o]]_vars
  <2> SUFFICES ASSUME LifeInv, Next, NEW o \in Starts, jobs[o] \in Terminal
               PROVE  jobs'[o] = jobs[o]
    OBVIOUS
  <2>0. TypeOK /\ jobs[o] \notin Active /\ jobs[o] # "none"
    BY StatesApart DEF LifeInv
  <2>1. CASE QuietNext
    BY <2>1, QuietKeeps
  <2>2. CASE TakeExecute
    <3>1. PICK q \in Ops : /\ Fresh(q)
                           /\ UNCHANGED <<jobs, rowid, pending, backend>> \/ RecordJob(q)
      BY <2>2, TakeExecuteMeans
    <3> QED  BY <2>0, <3>1 DEF Fresh, RecordJob, TypeOK
  <2>3. CASE Finish
    BY <2>0, <2>3 DEF Finish
  <2>4. ASSUME NEW q \in Ops, CollectAnswer(q) PROVE jobs'[o] = jobs[o]
    BY <2>0, <2>4, CollectAnswerMeans DEF TypeOK
  <2>5. ASSUME NEW q \in Starts, CollectExit(q) PROVE jobs'[o] = jobs[o]
    BY <2>0, <2>5, CollectExitMeans DEF TypeOK
  <2>6. ASSUME NEW q \in Ops, BackendAnswers(q) \/ (q \in Starts /\ ProcessExits(q))
        PROVE  jobs'[o] = jobs[o]
    BY <2>6 DEF BackendAnswers, ProcessExits, storeVars
  <2> QED  BY <2>1, <2>2, <2>3, <2>4, <2>5, <2>6, NextCases DEF Ops
<1> QED  BY <1>1, LifeCorrect, PTL DEF Spec, NeverResurrected

(***************************************************************************)
(* The session that is attached.                                           *)
(***************************************************************************)

\* A Touch waits for the actor.
TouchWaits == \E n \in DOMAIN inbox : inbox[n] = Touch

LEMMA TouchStays ==
  ASSUME TypeOK, TouchWaits, NEW i \in Inputs, inbox' = inbox \/ inbox' = Append(inbox, i)
  PROVE  TouchWaits'
<1>1. CASE inbox' = inbox
  BY <1>1 DEF TouchWaits
<1>2. CASE inbox' = Append(inbox, i)
  BY <1>2, SentLast DEF TouchWaits, TypeOK
<1> QED  BY <1>1, <1>2

\* Only by taking it does the actor remove it from the queue.
LEMMA TouchTaken ==
  ASSUME TypeOK, TouchWaits, NEW t, t # "touch", Taken(t)
  PROVE  TouchWaits'
<1>1. PICK n \in DOMAIN inbox : inbox[n] = Touch
  BY DEF TouchWaits
<1>2. Head(inbox) # Touch
  BY DEF Taken, Touch
<1>3. n - 1 \in DOMAIN inbox' /\ inbox'[n - 1] = Touch
  BY <1>1, <1>2, TakenFirst DEF TypeOK
<1> QED  BY <1>3 DEF TouchWaits

LEMMA HeardKept ==
  ASSUME HeardInv, life' = "serving" => life = "serving",
         age' = age, TouchWaits => TouchWaits',
         arriving' => arriving,
         greeted' => greeted /\ link' = link
  PROVE  HeardInv'
BY DEF HeardInv, TouchWaits

LEMMA HeardSession == TypeOK /\ HeardInv /\ SessionNext => HeardInv'
<1> SUFFICES ASSUME TypeOK, HeardInv, SessionNext PROVE HeardInv'
  OBVIOUS
<1> USE DEF sessionVars, connectionVars, storeVars, backendVars
<1>1. CASE AttachTouch
  <2>1. inbox' = Append(inbox, Touch) /\ inbox \in Seq(Inputs) /\ Touch \in Inputs
    BY <1>1, InputsBuilt DEF AttachTouch, Enqueue, TypeOK
  <2>2. TouchWaits'
    BY <2>1, AppendProperties, LenProperties DEF TouchWaits
  <2> QED  BY <1>1, <2>2 DEF AttachTouch, HeardInv, TouchWaits
<1>2. CASE AttachCount
  BY <1>2 DEF AttachCount, HeardInv
<1>3. CASE Heartbeat \/ \E k \in open : LateHeartbeat(k)
  <2>1. inbox' = Append(inbox, Touch) /\ Touch \in Inputs
    BY <1>3, InputsBuilt DEF Heartbeat, LateHeartbeat, Enqueue
  <2>2. UNCHANGED <<life, age, arriving, greeted, link>>
    BY <1>3 DEF Heartbeat, LateHeartbeat
  <2> QED  BY <2>1, <2>2, TouchStays, HeardKept
<1>4. CASE LoseLink
  BY <1>4 DEF LoseLink, HeardInv
<1>5. ASSUME NEW o \in Ops, Submit(o) PROVE HeardInv'
  <2>1. inbox' = Append(inbox, Execute(o)) /\ Execute(o) \in Inputs
    BY <1>5, InputsBuilt DEF Submit, Enqueue
  <2>2. UNCHANGED <<life, age, arriving, greeted, link>>
    BY <1>5 DEF Submit
  <2> QED  BY <2>1, <2>2, TouchStays, HeardKept
<1>6. ASSUME NEW k \in open, ConnectionEnds(k) PROVE HeardInv'
  <2>1. inbox' = inbox \/ inbox' = Append(inbox, Disconnected)
    BY <1>6, SentOrNot DEF ConnectionEnds
  <2>2. /\ UNCHANGED <<life, age, arriving>>
        /\ greeted' => greeted /\ link' = link
    BY <1>6 DEF ConnectionEnds
  <2> QED  BY <2>1, <2>2, InputsBuilt, TouchStays, HeardKept
<1>7. CASE Leave
  BY <1>7, HeardKept DEF Leave, actorVars, TouchWaits
<1>8. CASE DetachFrame
  <2>1. UNCHANGED <<life, age, arriving>> /\ greeted' = FALSE
    BY <1>8 DEF DetachFrame
  <2>2. TouchWaits => TouchWaits'
    <3>1. /\ inbox \in Seq(Inputs) /\ Detached \in Inputs /\ Disconnected \in Inputs
          /\ inbox' = Append(inbox, Detached) \/ inbox' = inbox \o <<Detached, Disconnected>>
      BY <1>8, InputsBuilt DEF DetachFrame, TypeOK
    <3>2. CASE inbox' = Append(inbox, Detached)
      BY <3>1, <3>2, TouchStays
    <3>3. CASE inbox' = inbox \o <<Detached, Disconnected>>
      <4>1. \A n \in DOMAIN inbox : n \in DOMAIN inbox' /\ inbox'[n] = inbox[n]
        BY <3>1, <3>3, ConcatProperties, LenProperties
      <4> QED  BY <4>1 DEF TouchWaits
    <3> QED  BY <3>1, <3>2, <3>3
  <2> QED  BY <2>1, <2>2, HeardKept
<1>9. CASE DetachCall
  <2>1. inbox' = inbox \/ inbox' = Append(inbox, Detached)
    BY <1>9, SentOrNot DEF DetachCall
  <2>2. UNCHANGED <<life, age, arriving, greeted, link>>
    BY <1>9 DEF DetachCall
  <2> QED  BY <2>1, <2>2, InputsBuilt, TouchStays, HeardKept
<1> QED  BY <1>1, <1>2, <1>3, <1>4, <1>5, <1>6, <1>7, <1>8, <1>9 DEF SessionNext

LEMMA HeardActor == LifeInv /\ HeardInv /\ ActorNext => HeardInv'
<1> SUFFICES ASSUME LifeInv, TypeOK, HeardInv, ActorNext PROVE HeardInv'
  BY DEF LifeInv
<1> USE DEF sessionVars, connectionVars, storeVars, backendVars
<1>1. CASE TakeTouch
  BY <1>1 DEF TakeTouch, HeardInv
<1>2. CASE TakeDetached \/ TakeDisconnected \/ TakeExecute
  <2>1. /\ Taken("detached") \/ Taken("disconnected") \/ Taken("execute")
        /\ age' = 0 /\ UNCHANGED <<greeted, link>> /\ life = "serving"
    BY <1>2 DEF TakeDetached, TakeDisconnected, TakeExecute, Taken
  <2> QED  BY <2>1 DEF HeardInv
<1>3. CASE TakeRetireIdle \/ TakeStop
  <2>1. /\ Taken("retire") \/ Taken("stop")
        /\ UNCHANGED <<age, arriving, greeted, link>> /\ life = "serving"
    BY <1>3 DEF TakeRetireIdle, TakeStop, Taken
  <2> QED  BY <2>1, TouchTaken, HeardKept
<1>4. CASE \/ \E o \in Ops : CollectAnswer(o)
           \/ \E o \in Starts : CollectExit(o)
           \/ ApplySettings
  <2>1. UNCHANGED <<life, inbox, age, arriving, greeted, link>>
    BY <1>4 DEF CollectAnswer, CollectExit, ApplySettings
  <2> QED  BY <2>1, HeardKept DEF TouchWaits
<1>5. CASE Fails \/ Finish
  <2>1. life' # "serving"
    BY <1>5 DEF Fails, Finish, Stops
  <2> QED  BY <2>1 DEF HeardInv
<1>6. CASE Age
  BY <1>6 DEF Age, HeardInv
<1>7. ASSUME NEW answers \in BOOLEAN, Timer(answers) PROVE HeardInv'
  <2>1. /\ age' \in {0, age} /\ UNCHANGED <<inbox, arriving, greeted, link>>
        /\ life = "serving"
    BY <1>7 DEF Timer
  <2> QED  BY <2>1 DEF HeardInv
<1> QED  BY <1>1, <1>2, <1>3, <1>4, <1>5, <1>6, <1>7 DEF ActorNext, Take, Collect

LEMMA HeardRest == TypeOK /\ HeardInv /\ (ServiceNext \/ BackendNext) => HeardInv'
<1> SUFFICES ASSUME TypeOK, HeardInv, ServiceNext \/ BackendNext PROVE HeardInv'
  OBVIOUS
<1>1. \/ inbox' = inbox \/ inbox' = Append(inbox, RetireIdle) \/ inbox' = Append(inbox, Stop)
  BY DEF ServiceNext, BackendNext, PrepareUpdate, Shutdown, Configure, BackendAnswers,
         ProcessExits, Enqueue, actorVars
<1>2. UNCHANGED <<life, age, arriving, greeted, link>>
  BY DEF ServiceNext, BackendNext, PrepareUpdate, Shutdown, Configure, BackendAnswers,
         ProcessExits, actorVars, sessionVars, connectionVars
<1> QED  BY <1>1, <1>2, InputsBuilt, TouchStays, HeardKept

LEMMA HeardStep == LifeInv /\ HeardInv /\ [Next]_vars => HeardInv'
<1> SUFFICES ASSUME LifeInv, TypeOK, HeardInv, [Next]_vars PROVE HeardInv'
  BY DEF LifeInv
<1>1. CASE UNCHANGED vars
  <2>1. UNCHANGED AllVars
    BY <1>1, VarsUnfold
  <2> QED  BY <2>1 DEF AllVars, HeardInv
<1>2. CASE Next
  BY <1>2, HeardSession, HeardActor, HeardRest DEF Next
<1> QED  BY <1>1, <1>2

\* With a grace period of at least a second, the timer never ends the execution
\* of a session that is attached and has been heard since.
THEOREM SessionKeptAlways ==
  ASSUME Grace # 0
  PROVE  Spec => SessionKept
<1>1. Init => HeardInv
  BY DEF Init, HeardInv
<1>2. LifeInv /\ HeardInv /\ [Next]_vars => [ended = "no" /\ ended' = "idle" => ~greeted]_vars
  <2> SUFFICES ASSUME LifeInv, HeardInv, Next, ended = "no", ended' = "idle", greeted
               PROVE  FALSE
    OBVIOUS
  <2>1. \E answers \in BOOLEAN : Timer(answers)
    <3>1. CASE QuietNext
      BY <3>1 DEF QuietNext, SessionNext, AttachTouch, AttachCount, Heartbeat, LoseLink, Submit,
                  ConnectionEnds, LateHeartbeat, Leave, DetachFrame, DetachCall, ServiceNext,
                  PrepareUpdate, Shutdown, Configure, actorVars, TakeTouch, TakeDetached,
                  TakeRetireIdle, TakeDisconnected, TakeStop, ApplySettings, Fails, Age, Stops
    <3>2. CASE TakeExecute
      BY <3>2, TakeExecuteMeans DEF Stops
    <3>3. CASE ~QuietNext /\ ~TakeExecute
      BY <3>3, NextCases DEF CollectAnswer, CollectExit, Finish, BackendAnswers, ProcessExits, actorVars
    <3> QED  BY <3>1, <3>2, <3>3
  <2>2. PICK answers \in BOOLEAN : Timer(answers)
    BY <2>1
  <2>3. age = 0 /\ life = "serving"
    BY <2>2 DEF Timer, HeardInv
  <2> QED  BY <2>2, <2>3, BoundsAssumption DEF Timer, Expired, BoundsAssumption
<1> QED  BY <1>1, <1>2, HeardStep, LifeCorrect, PTL DEF Spec, SessionKept

=============================================================================
