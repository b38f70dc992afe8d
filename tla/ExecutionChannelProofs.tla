----------------------- MODULE ExecutionChannelProofs -----------------------
(***************************************************************************)
(* Theorems about ExecutionChannel, for every set of operations, every     *)
(* limit and every bound.                                                  *)
(***************************************************************************)
EXTENDS ExecutionChannel, FiniteSetTheorems, SequenceTheorems, TLAPS


(***************************************************************************)
(* Type correctness.                                                       *)
(***************************************************************************)

\* The frames and records an action builds have their types.
LEMMA Building ==
  /\ \A o \in Ops : Execute(o) \in Frame
  /\ \A n \in Nat : Ack(n) \in Frame
  /\ Detach \in Frame /\ NoFrame \in Frame
  /\ \A o \in Ops : Receipt(o) \in Record /\ Response(o) \in Record
  /\ Note \in Record
BY DEF Execute, Ack, Detach, NoFrame, Frame, Receipt, Response, Note, Record

\* A group of variables that a step leaves alone keeps its types.
LEMMA UnchangedTypes ==
  /\ RelayTypes /\ UNCHANGED relayVars => RelayTypes'
  /\ LinkTypes /\ UNCHANGED linkVars => LinkTypes'
  /\ ActorTypes /\ UNCHANGED actorVars => ActorTypes'
  /\ StoreTypes /\ UNCHANGED storeVars => StoreTypes'
  /\ BackendTypes /\ UNCHANGED backendVars => BackendTypes'
BY DEF RelayTypes, LinkTypes, ActorTypes, StoreTypes, BackendTypes,
       relayVars, linkVars, actorVars, storeVars, backendVars

\* Appending a record keeps the store's numbers natural.
LEMMA AppendRecordType ==
  ASSUME NEW r \in Record, events \in Seq(Record), floor \in Nat, trimmed \in Nat,
         AppendRecord(r)
  PROVE  events' \in Seq(Record) /\ floor' \in Nat /\ trimmed' \in Nat
BY LimitsAssumption DEF AppendRecord, LimitsAssumption

\* So does acknowledging, which leaves the events alone.
LEMMA AcknowledgeType ==
  ASSUME StoreTypes, NEW n \in Nat, Acknowledge(n)
  PROVE  StoreTypes'
<1>1. operations' \in [Ops -> {"none", "open", "stored", "null"}]
  BY DEF Acknowledge, StoreTypes
<1>2. floor' \in Nat
  BY DEF Acknowledge, StoreTypes, Larger, Smaller
<1> QED  BY <1>1, <1>2 DEF Acknowledge, StoreTypes

\* The link variables a new attachment sets, but for up.
LEMMA SupersedeType ==
  ASSUME RelayTypes, LinkTypes, Supersede, up' \in Seq(Frame)
  PROVE  LinkTypes'
<1>1. up # <<>> => Head(up) \in Frame
  <2>1. up \in Seq(Frame)
    BY DEF LinkTypes
  <2> QED  BY <2>1, HeadTailProperties
<1>2. late' \in [1..MaxEpoch -> Frame]
  BY <1>1 DEF Supersede, LinkTypes
<1>3. epoch' \in 0..MaxEpoch
  BY LimitsAssumption DEF Supersede, LinkTypes, LimitsAssumption
<1>4. down' \in Seq(Nat)
  BY DEF Supersede
<1>5. srv' = "floor" /\ sent' \in Nat
  BY DEF Supersede, RelayTypes
<1> QED  BY <1>2, <1>3, <1>4, <1>5 DEF LinkTypes

\* Whatever the connection streams, the relay sees cursors.
LEMMA StreamType ==
  ASSUME down \in Seq(Nat), NEW s \in Seq(Nat)
  PROVE  Stream(s) \in Seq(Nat)
BY ConcatProperties DEF Stream

\* A range of cursors is a sequence, also when it is empty.
LEMMA CursorsFrom ==
  ASSUME NEW b \in Nat, NEW c \in Int
  PROVE  [i \in 1..c |-> b + i] \in Seq(Nat)
<1>1. CASE c \in Nat
  BY <1>1
<1>2. CASE c \notin Nat
  <2>1. 1..c = 1..0
    BY <1>2
  <2>2. [i \in 1..0 |-> b + i] \in [1..0 -> Nat]
    OBVIOUS
  <2>3. [i \in 1..0 |-> b + i] \in Seq(Nat)
    BY <2>2, SeqDef
  <2> QED  BY <2>1, <2>3
<1> QED  BY <1>1, <1>2

LEMMA RelayType == TypeOK /\ RelayNext => TypeOK'
<1> SUFFICES ASSUME RelayTypes, LinkTypes, ActorTypes, StoreTypes, BackendTypes, RelayNext
             PROVE  TypeOK'
  BY DEF TypeOK
<1>0. UNCHANGED <<actorVars, storeVars, backendVars>>
  BY DEF RelayNext, Submit, OutboxFull, Receive, ReceiveFault, LoseConnection, Inspect,
         AttachFails, AttachStopped, Reattach, AttachLost, Close, RelayFails
<1>1. ActorTypes' /\ StoreTypes' /\ BackendTypes'
  BY <1>0, UnchangedTypes
<1> SUFFICES RelayTypes' /\ LinkTypes'
  BY <1>1 DEF TypeOK
<1>2. ASSUME NEW o \in Ops, Submit(o) PROVE RelayTypes' /\ LinkTypes'
  <2>1. up' \in Seq(Frame)
    BY SMTT(60), <1>2, Building, AppendProperties DEF Submit, LinkTypes
  <2>2. IsFiniteSet(outbox')
    BY <1>2, FS_AddElement DEF Submit, RelayTypes
  <2> QED  BY <1>2, <2>1, <2>2 DEF Submit, RelayTypes, LinkTypes
<1>3. ASSUME NEW o \in Ops, OutboxFull(o) PROVE RelayTypes' /\ LinkTypes'
  BY <1>3, UnchangedTypes DEF OutboxFull, RelayTypes
<1>4. CASE Receive
  <2>1. Head(down) \in Nat /\ Tail(down) \in Seq(Nat)
    BY <1>4, HeadTailProperties DEF Receive, LinkTypes
  <2>2. cursor' \in Nat /\ outbox' \subseteq Ops /\ IsFiniteSet(outbox')
    BY <1>4, <2>1, FS_RemoveElement DEF Receive, RelayTypes
  <2>3. delivered' \in Seq(Nat)
    BY <1>4, <2>1, AppendProperties DEF Receive, RelayTypes
  <2>4. Ack(cursor') \in Frame
    BY <2>2, Building
  <2>5. up' \in Seq(Frame)
    <3>1. up' = Append(up, Ack(cursor')) \/ up' = up
      BY <1>4 DEF Receive
    <3> QED  BY SMTT(60), <2>4, <3>1, AppendProperties DEF LinkTypes
  <2>6. phase' \in {"attached", "reconnecting"}
    BY <1>4 DEF Receive
  <2>7. RelayTypes'
    BY <1>4, <2>2, <2>3, <2>6 DEF Receive, RelayTypes
  <2>8. down' \in Seq(Nat)
    BY <1>4, <2>1 DEF Receive
  <2> QED  BY <1>4, <2>5, <2>7, <2>8 DEF Receive, LinkTypes
<1>5. CASE ReceiveFault
  BY <1>5, UnchangedTypes DEF ReceiveFault, RelayTypes
<1>6. CASE LoseConnection
  <2>1. down' \in Seq(Nat)
    BY <1>6 DEF LoseConnection
  <2> QED  BY <1>6, <2>1 DEF LoseConnection, RelayTypes, LinkTypes
<1>7. CASE Inspect
  BY <1>7, UnchangedTypes DEF Inspect, RelayTypes
<1>8. CASE AttachFails
  BY <1>8, UnchangedTypes DEF AttachFails, RelayTypes
<1>9. CASE AttachStopped
  BY <1>9, UnchangedTypes DEF AttachStopped, RelayTypes
<1>10. CASE Reattach
  <2>1. PICK s \in Listings(outbox), k \in 0..Cardinality(outbox) :
               up' = [i \in 1..k |-> Execute(s[i])]
    BY <1>10 DEF Reattach
  <2>2. k \in Nat /\ \A i \in 1..k : i \in 1..Cardinality(outbox)
    BY <2>1, FS_CardinalityType DEF Listings, RelayTypes
  <2>3. \A i \in 1..k : Execute(s[i]) \in Frame
    BY <2>1, <2>2, Building DEF Listings, RelayTypes
  <2>4. up' \in Seq(Frame)
    BY <2>1, <2>2, <2>3
  <2>5. LinkTypes'
    BY <1>10, <2>4, SupersedeType DEF Reattach
  <2>6. phase' \in {"attached", "reconnecting"}
    BY <1>10 DEF Reattach
  <2> QED  BY <1>10, <2>5, <2>6 DEF Reattach, RelayTypes
<1>11. CASE AttachLost
  <2>1. up' \in Seq(Frame)
    BY <1>11 DEF AttachLost
  <2>2. LinkTypes'
    BY <1>11, <2>1, SupersedeType DEF AttachLost
  <2> QED  BY <1>11, <2>2 DEF AttachLost, RelayTypes
<1>12. CASE Close
  <2>1. up' \in Seq(Frame)
    BY <1>12, Building, AppendProperties DEF Close, LinkTypes
  <2> QED  BY <1>12, <2>1 DEF Close, RelayTypes, LinkTypes
<1>13. CASE RelayFails
  BY <1>13, UnchangedTypes DEF RelayFails, RelayTypes
<1> QED
  BY <1>2, <1>3, <1>4, <1>5, <1>6, <1>7, <1>8, <1>9, <1>10, <1>11, <1>12, <1>13
     DEF RelayNext

\* A statement that appends a record keeps the types of the store.
LEMMA AppendStoreType ==
  ASSUME StoreTypes, NEW r \in Record, AppendRecord(r), UNCHANGED <<operations, linked, channel>>
  PROVE  StoreTypes'
BY AppendRecordType DEF StoreTypes

LEMMA ConnectionType == TypeOK /\ ConnectionNext => TypeOK'
<1> SUFFICES ASSUME RelayTypes, LinkTypes, ActorTypes, StoreTypes, BackendTypes, ConnectionNext
             PROVE  TypeOK'
  BY DEF TypeOK
<1>0. UNCHANGED <<relayVars, backendVars>>
  BY DEF ConnectionNext, ReadFloor, ReadRows, Wake, HandleExecute, HandleAck, HandleDetach,
         ConnectionEnds, LateExecute, LateAck
<1>1. RelayTypes' /\ BackendTypes'
  BY <1>0, UnchangedTypes
<1> SUFFICES LinkTypes' /\ ActorTypes' /\ StoreTypes'
  BY <1>1 DEF TypeOK
<1>2. down \in Seq(Nat) /\ <<Fault>> \in Seq(Nat) /\ up \in Seq(Frame)
  BY DEF Fault, LinkTypes
<1>3. Stream(<<Fault>>) \in Seq(Nat)
  BY <1>2, StreamType
<1>4. up # <<>> => /\ Head(up) \in Frame /\ Tail(up) \in Seq(Frame)
  BY <1>2, HeadTailProperties
<1>5. \A f \in Frame : /\ f.type = "execute" => f.op \in Ops
                       /\ f.type = "ack" => f.cursor \in Nat
  BY DEF Frame, Detach, NoFrame
<1>6. CASE ReadFloor
  <2>1. ActorTypes' /\ StoreTypes'
    BY <1>6, UnchangedTypes DEF ReadFloor
  <2>2. down' \in Seq(Nat)
    BY <1>2, <1>3, <1>6 DEF ReadFloor
  <2> QED  BY <1>6, <2>1, <2>2 DEF ReadFloor, LinkTypes
<1>7. CASE ReadRows
  <2>1. ActorTypes' /\ StoreTypes'
    BY <1>7, UnchangedTypes DEF ReadRows
  <2> DEFINE base == Larger(sent, floor)
             count == Smaller(Batch, Len(events) - base)
             rows == [i \in 1..count |-> base + i]
  <2>2. Len(events) \in Nat
    BY LenProperties DEF StoreTypes
  <2>3. base \in Nat /\ count \in Int /\ base + count \in Nat
    <3>1. base \in Nat
      BY DEF LinkTypes, StoreTypes, Larger
    <3>2. Batch \in Nat
      BY LimitsAssumption DEF LimitsAssumption
    <3> HIDE DEF base
    <3> QED  BY <2>2, <3>1, <3>2 DEF Smaller
  <2>4. rows \in Seq(Nat) /\ rows \o <<Fault>> \in Seq(Nat)
    <3> HIDE DEF base, count
    <3>1. rows \in Seq(Nat)
      BY <2>3, CursorsFrom
    <3> QED  BY <3>1, <1>2, ConcatProperties
  <2>5. Stream(rows) \in Seq(Nat) /\ Stream(rows \o <<Fault>>) \in Seq(Nat)
    BY <1>2, <2>4, StreamType
  <2>6. down' \in Seq(Nat) /\ srv' \in {"wait", "closed"}
    BY <1>7, <2>5 DEF ReadRows
  <2>7. sent' \in Nat
    BY <1>7, <2>3 DEF ReadRows, LinkTypes
  <2> QED  BY <1>7, <2>1, <2>6, <2>7 DEF ReadRows, LinkTypes
<1>8. CASE Wake
  BY <1>8, UnchangedTypes DEF Wake, LinkTypes
<1>9. CASE HandleExecute
  <2>1. StoreTypes'
    BY <1>9, UnchangedTypes DEF HandleExecute
  <2>2. Head(up).op \in Ops /\ up' \in Seq(Frame)
    BY <1>4, <1>5, <1>9 DEF HandleExecute
  <2>3. inbox' \in Seq(Ops)
    BY SMTT(60), <1>9, <2>2, AppendProperties DEF HandleExecute, ActorTypes
  <2>4. down' \in Seq(Nat) /\ srv' \in {"floor", "closed"}
    BY <1>2, <1>3, <1>9 DEF HandleExecute
  <2> QED  BY <1>9, <2>1, <2>2, <2>3, <2>4 DEF HandleExecute, LinkTypes, ActorTypes
<1>10. CASE HandleAck
  <2>1. ActorTypes'
    BY <1>10, UnchangedTypes DEF HandleAck
  <2>2. Head(up).cursor \in Nat /\ up' \in Seq(Frame)
    BY <1>4, <1>5, <1>10 DEF HandleAck
  <2>3. StoreTypes'
    BY <1>10, <2>2, AcknowledgeType DEF HandleAck
  <2> QED  BY <1>10, <2>1, <2>2, <2>3 DEF HandleAck, LinkTypes
<1>11. CASE HandleDetach
  <2>1. up' \in Seq(Frame)
    BY <1>4, <1>11 DEF HandleDetach
  <2> QED  BY <1>11, <2>1, UnchangedTypes DEF HandleDetach, LinkTypes
<1>12. CASE ConnectionEnds
  BY <1>12, UnchangedTypes DEF ConnectionEnds, LinkTypes
<1>13. ASSUME NEW e \in 1..MaxEpoch, LateExecute(e)
       PROVE  LinkTypes' /\ ActorTypes' /\ StoreTypes'
  <2>1. StoreTypes'
    BY <1>13, UnchangedTypes DEF LateExecute
  <2>2. late[e].op \in Ops
    BY <1>5, <1>13 DEF LateExecute, LinkTypes
  <2>3. inbox' \in Seq(Ops)
    BY <1>13, <2>2, AppendProperties DEF LateExecute, ActorTypes
  <2>4. late' \in [1..MaxEpoch -> Frame]
    BY <1>13, Building DEF LateExecute, LinkTypes
  <2> QED  BY <1>13, <2>1, <2>3, <2>4 DEF LateExecute, LinkTypes, ActorTypes
<1>14. ASSUME NEW e \in 1..MaxEpoch, LateAck(e)
       PROVE  LinkTypes' /\ ActorTypes' /\ StoreTypes'
  <2>1. late[e].cursor \in Nat
    BY <1>5, <1>14 DEF LateAck, LinkTypes
  <2>2. StoreTypes'
    BY <1>14, <2>1, AcknowledgeType DEF LateAck
  <2>3. late' \in [1..MaxEpoch -> Frame]
    BY <1>14, Building DEF LateAck, LinkTypes
  <2> QED  BY <1>14, <2>2, <2>3, UnchangedTypes DEF LateAck, LinkTypes
<1> QED
  BY <1>6, <1>7, <1>8, <1>9, <1>10, <1>11, <1>12, <1>13, <1>14 DEF ConnectionNext

LEMMA ActorType == TypeOK /\ ActorNext => TypeOK'
<1> SUFFICES ASSUME RelayTypes, LinkTypes, ActorTypes, StoreTypes, BackendTypes, ActorNext
             PROVE  TypeOK'
  BY DEF TypeOK
<1>0. UNCHANGED relayVars
  BY DEF ActorNext, Take, Begin, Refuse, Respond, Send, Settle, Accept, Collect, Complete,
         Publish, Link, CollectNote, ActorFails, ActorStops, ServiceRestart
<1> SUFFICES LinkTypes' /\ ActorTypes' /\ StoreTypes' /\ BackendTypes'
  BY <1>0, UnchangedTypes DEF TypeOK
<1>1. CASE Take
  <2>1. Head(inbox) \in Ops /\ Tail(inbox) \in Seq(Ops)
    BY <1>1, HeadTailProperties DEF Take, ActorTypes
  <2>2. alive' \in {alive, "draining"} /\ step' \in {step, "begin", "respond", "receipt"}
    BY <1>1 DEF Take
  <2>3. ActorTypes'
    BY <1>1, <2>1, <2>2 DEF Take, ActorTypes
  <2> QED  BY <1>1, <2>3, UnchangedTypes DEF Take
<1>2. CASE Begin
  BY <1>2, UnchangedTypes DEF Begin, ActorTypes, StoreTypes
<1>3. CASE Refuse
  BY <1>3, UnchangedTypes DEF Refuse, ActorTypes, StoreTypes
<1>4. CASE Respond
  <2>1. StoreTypes'
    BY <1>4, Building, AppendStoreType DEF Respond, ActorTypes
  <2> QED  BY <1>4, <2>1, UnchangedTypes DEF Respond, ActorTypes
<1>5. CASE Send
  <2>1. runs' \in [Ops -> Nat] /\ running' \subseteq Ops /\ pending' \subseteq Ops
    BY <1>5 DEF Send, ActorTypes, BackendTypes
  <2>2. step' \in {"receipt", "settle"}
    BY <1>5 DEF Send
  <2>3. ActorTypes' /\ BackendTypes'
    BY <1>5, <2>1, <2>2 DEF Send, ActorTypes, BackendTypes
  <2> QED  BY <1>5, <2>3, UnchangedTypes DEF Send
<1>6. CASE Settle
  BY <1>6, UnchangedTypes DEF Settle, ActorTypes, StoreTypes
<1>7. CASE Accept
  <2>1. StoreTypes'
    BY <1>7, Building, AppendStoreType DEF Accept, ActorTypes
  <2> QED  BY <1>7, <2>1, UnchangedTypes DEF Accept, ActorTypes
<1>8. ASSUME NEW o \in Ops, Collect(o)
      PROVE  LinkTypes' /\ ActorTypes' /\ StoreTypes' /\ BackendTypes'
  BY <1>8, UnchangedTypes DEF Collect, ActorTypes, BackendTypes
<1>9. CASE Complete
  BY <1>9, UnchangedTypes DEF Complete, ActorTypes, StoreTypes
<1>10. CASE Publish
  <2>1. StoreTypes'
    BY <1>10, Building, AppendStoreType DEF Publish, ActorTypes
  <2> QED  BY <1>10, <2>1, UnchangedTypes DEF Publish, ActorTypes
<1>11. CASE Link
  <2>1. Len(events) \in Nat
    BY LenProperties DEF StoreTypes
  <2>2. linked' \in [Ops -> Nat]
    BY <1>11, <2>1 DEF Link, StoreTypes
  <2> QED  BY <1>11, <2>2, UnchangedTypes DEF Link, ActorTypes, StoreTypes
<1>12. CASE CollectNote
  <2>1. StoreTypes'
    BY <1>12, Building, AppendStoreType DEF CollectNote
  <2> QED  BY <1>12, <2>1, UnchangedTypes DEF CollectNote, BackendTypes
<1>13. CASE ActorFails
  BY <1>13, UnchangedTypes DEF ActorFails, ActorTypes
<1>14. CASE ActorStops
  BY <1>14, UnchangedTypes DEF ActorStops, ActorTypes, StoreTypes, BackendTypes
<1>15. CASE ServiceRestart
  <2>1. late' \in [1..MaxEpoch -> Frame]
    BY <1>15, Building DEF ServiceRestart
  <2> QED  BY <1>15, <2>1 DEF ServiceRestart, LinkTypes, ActorTypes, StoreTypes, BackendTypes
<1> QED
  BY <1>1, <1>2, <1>3, <1>4, <1>5, <1>6, <1>7, <1>8, <1>9, <1>10, <1>11, <1>12, <1>13,
     <1>14, <1>15 DEF ActorNext

LEMMA InitType == Init => TypeOK
<1> SUFFICES ASSUME Init PROVE TypeOK
  OBVIOUS
<1>1. RelayTypes
  BY FS_EmptySet DEF Init, RelayTypes
<1>2. LinkTypes
  BY Building, LimitsAssumption DEF Init, LinkTypes, LimitsAssumption
<1>3. ActorTypes /\ StoreTypes /\ BackendTypes
  BY DEF Init, ActorTypes, StoreTypes, BackendTypes
<1> QED  BY <1>1, <1>2, <1>3 DEF TypeOK

LEMMA StepType == TypeOK /\ [Next]_vars => TypeOK'
<1> SUFFICES ASSUME TypeOK, [Next]_vars PROVE TypeOK'
  OBVIOUS
<1>1. CASE UNCHANGED vars
  BY <1>1, UnchangedTypes DEF vars, TypeOK
<1> QED  BY <1>1, RelayType, ConnectionType, ActorType DEF Next

\* Every variable keeps its type, whatever is lost, retransmitted or killed.
THEOREM TypeCorrect == Spec => []TypeOK
BY InitType, StepType, PTL DEF Spec

-----------------------------------------------------------------------------
(***************************************************************************)
(* The inductive invariant.  The sets that type the wire and the events    *)
(* only grow, so what a step leaves in place stays sound; each action then *)
(* answers for what it adds.                                               *)
(***************************************************************************)

LEMMA SeqMonotone == ASSUME NEW S, NEW T, S \subseteq T PROVE Seq(S) \subseteq Seq(T)
<1> SUFFICES ASSUME NEW s \in Seq(S) PROVE s \in Seq(T)
  OBVIOUS
<1>1. PICK n \in Nat : s \in [1..n -> S]
  BY SeqDef
<1>2. s \in [1..n -> T]
  BY <1>1
<1> QED  BY <1>2, SeqDef

\* What a step may do to the counters that sound frames and records refer to.
Grows ==
  /\ submitted \subseteq submitted' /\ submitted' \subseteq Ops
  /\ cursor <= cursor' /\ cursor' \in Nat
  /\ Len(events) <= Len(events') /\ Len(events') \in Nat
  /\ Acted \subseteq Acted'

LEMMA SoundGrows ==
  ASSUME TypeOK, Grows
  PROVE  /\ SoundFrame \subseteq SoundFrame' /\ SoundRecord \subseteq SoundRecord'
         /\ Seq(SoundFrame) \subseteq Seq(SoundFrame')
         /\ Seq(SoundRecord) \subseteq Seq(SoundRecord')
         /\ Seq(submitted) \subseteq Seq(submitted')
         /\ Seq(0..Len(events)) \subseteq Seq(0..Len(events'))
         /\ Seq(1..cursor) \subseteq Seq(1..cursor')
<1>1. cursor \in Nat /\ Len(events) \in Nat
  BY LenProperties DEF TypeOK, RelayTypes, StoreTypes
<1>2. 0..cursor \subseteq 0..cursor' /\ 1..cursor \subseteq 1..cursor'
      /\ 0..Len(events) \subseteq 0..Len(events')
  BY <1>1 DEF Grows
<1>3. SoundFrame \subseteq SoundFrame'
  BY <1>2 DEF Grows, SoundFrame, Detach, NoFrame
<1>4. SoundRecord \subseteq SoundRecord'
  BY DEF Grows, SoundRecord, Note
<1>5. submitted \subseteq submitted'
  BY DEF Grows
<1> QED  BY <1>2, <1>3, <1>4, <1>5, SeqMonotone

LEMMA SoundBuilding ==
  /\ \A o \in submitted : Execute(o) \in SoundFrame
  /\ \A n \in 0..cursor : Ack(n) \in SoundFrame
  /\ Detach \in SoundFrame /\ NoFrame \in SoundFrame
  /\ \A o \in Acted : Receipt(o) \in SoundRecord /\ Response(o) \in SoundRecord
  /\ Note \in SoundRecord
BY DEF Execute, Ack, SoundFrame, Receipt, Response, SoundRecord

LEMMA SoundReading ==
  /\ \A f \in SoundFrame : /\ f.type = "execute" => f.op \in submitted
                           /\ f.type = "ack" => f.cursor \in 0..cursor
  /\ \A r \in SoundRecord : r.kind = "receipt" => r.op \in Acted
BY DEF SoundFrame, SoundRecord, Detach, NoFrame, Note

\* The relay touches neither the actor nor the store: what they hold stays
\* sound while the relay only submits more and moves its cursor forward.
LEMMA RelayKeeps ==
  ASSUME TypeOK, StepInv, StoreInv, UNCHANGED <<actorVars, storeVars, backendVars>>,
         submitted \subseteq submitted', submitted' \subseteq Ops,
         cursor <= cursor', cursor' \in Nat
  PROVE  Grows /\ StepInv' /\ StoreInv'
<1>1. Acted \subseteq Acted'
  BY DEF Acted, backendVars
<1>2. events' = events /\ Len(events) \in Nat
  BY LenProperties DEF TypeOK, StoreTypes, storeVars
<1>3. Grows
  BY <1>1, <1>2 DEF Grows
<1>4. StepInv'
  BY <1>1 DEF StepInv, actorVars, storeVars, backendVars
<1>5. events' \in Seq(SoundRecord')
  BY <1>2, <1>3, SoundGrows DEF StoreInv
<1>6. floor' <= Larger(cursor', trimmed')
  BY DEF StoreInv, Larger, storeVars, TypeOK, RelayTypes, StoreTypes
<1>7. \A o \in Requests : operations'[o] = "null" => linked'[o] \in 1..cursor'
  BY DEF StoreInv, storeVars, TypeOK, RelayTypes, StoreTypes, Ops
<1>8. StoreInv'
  BY <1>1, <1>2, <1>5, <1>6, <1>7 DEF StoreInv, actorVars, storeVars, backendVars
<1> QED  BY <1>3, <1>4, <1>8

LEMMA SupersedeKeeps ==
  ASSUME TypeOK, WireInv, Supersede, UNCHANGED <<submitted, outbox, cursor, delivered>>,
         UNCHANGED <<actorVars, storeVars, backendVars>>, up' \in Seq(SoundFrame)
  PROVE  WireInv'
<1>1. up # <<>> => Head(up) \in SoundFrame
  <2>1. up \in Seq(SoundFrame)
    BY DEF WireInv
  <2> QED  BY <2>1, HeadTailProperties
<1>2. late' \in [1..MaxEpoch -> SoundFrame]
  BY <1>1 DEF Supersede, WireInv
<1>3. SoundFrame' = SoundFrame /\ Acted' = Acted
  BY DEF SoundFrame, Acted, backendVars
<1>4. events' = events /\ inbox' = inbox
  BY DEF storeVars, actorVars
<1>5. down' \in Seq(0..Len(events)) /\ sent' = cursor
  BY DEF Supersede
<1>6. DeliveredInOrder'
  BY DEF WireInv, DeliveredInOrder
<1> QED  BY <1>2, <1>3, <1>4, <1>5, <1>6 DEF WireInv

LEMMA RelayInvariant == TypeOK /\ ChannelInv /\ RelayNext => ChannelInv'
<1> SUFFICES ASSUME TypeOK, WireInv, StepInv, StoreInv, RelayNext PROVE ChannelInv'
  BY DEF ChannelInv
<1>0. UNCHANGED <<actorVars, storeVars, backendVars>>
  BY DEF RelayNext, Submit, OutboxFull, Receive, ReceiveFault, LoseConnection, Inspect,
         AttachFails, AttachStopped, Reattach, AttachLost, Close, RelayFails
<1>1. events' = events /\ inbox' = inbox /\ runs' = runs
  BY <1>0 DEF actorVars, storeVars, backendVars
<1>a. cursor \in Nat /\ submitted \subseteq Ops
  BY DEF TypeOK, RelayTypes
<1>2. ASSUME UNCHANGED <<submitted, outbox, cursor, delivered>>, WireInv'
      PROVE  ChannelInv'
  BY <1>0, <1>2, <1>a, RelayKeeps DEF ChannelInv
<1>3. ASSUME UNCHANGED <<submitted, outbox, cursor, delivered>>
      PROVE  /\ SoundFrame' = SoundFrame /\ Acted' = Acted
             /\ DeliveredInOrder' = DeliveredInOrder
  BY <1>1, <1>3 DEF SoundFrame, Acted, DeliveredInOrder
<1>4. ASSUME UNCHANGED <<submitted, outbox, cursor, delivered, linkVars>>
      PROVE  ChannelInv'
  BY <1>1, <1>2, <1>3, <1>4 DEF WireInv, linkVars
<1>5. ASSUME NEW o \in Ops, Submit(o) PROVE ChannelInv'
  <2>1. Grows /\ StepInv' /\ StoreInv'
    BY <1>0, <1>5, <1>a, RelayKeeps DEF Submit
  <2>2. up \in Seq(SoundFrame') /\ late' \in [1..MaxEpoch -> SoundFrame']
    BY <1>5, <2>1, SoundGrows DEF WireInv, Submit
  <2>3. Execute(o) \in SoundFrame'
    BY <1>5 DEF Submit, Execute, SoundFrame
  <2>4. up' \in Seq(SoundFrame')
    <3>1. up' = Append(up, Execute(o)) \/ up' = up
      BY <1>5 DEF Submit
    <3> QED  BY <2>2, <2>3, <3>1, AppendProperties
  <2>5. inbox' \in Seq(submitted')
    BY <1>1, <2>1, SoundGrows DEF WireInv
  <2>6. outbox' \subseteq submitted' /\ submitted' \ outbox' \subseteq Acted'
    BY <1>5, <2>1 DEF Submit, WireInv, Grows
  <2>7. DeliveredInOrder'
    BY <1>5 DEF Submit, WireInv, DeliveredInOrder
  <2>8. WireInv'
    BY <1>1, <1>5, <2>2, <2>4, <2>5, <2>6, <2>7 DEF Submit, WireInv
  <2> QED  BY <2>1, <2>8 DEF ChannelInv
<1>6. ASSUME NEW o \in Ops, OutboxFull(o) PROVE ChannelInv'
  BY <1>4, <1>6 DEF OutboxFull
<1>7. CASE Receive
  <2> DEFINE n == Head(down)
             new == n > cursor
             receipt == events[n].kind = "receipt"
  <2>1. n \in 0..Len(events) /\ Tail(down) \in Seq(0..Len(events)) /\ Len(events) \in Nat
    <3>1. down \in Seq(0..Len(events)) /\ down # <<>>
      BY <1>7 DEF Receive, WireInv
    <3> QED  BY <3>1, HeadTailProperties, LenProperties DEF TypeOK, StoreTypes
  <2>2. /\ outbox' = IF new /\ receipt THEN outbox \ {events[n].op} ELSE outbox
        /\ delivered' = IF new /\ ~receipt THEN Append(delivered, n) ELSE delivered
        /\ cursor' = IF new THEN n ELSE cursor
        /\ down' = Tail(down)
    BY <1>7 DEF Receive
  <2>3. submitted' = submitted /\ sent' = sent /\ late' = late
    BY <1>7 DEF Receive
  <2>4. UNCHANGED runs /\ Acted' = Acted
    BY <1>1, <2>3 DEF Acted
  <2>5. new /\ receipt => events[n].op \in Acted
    <3> SUFFICES ASSUME new, receipt PROVE events[n].op \in Acted
      OBVIOUS
    <3>1. events \in Seq(SoundRecord) /\ n \in 1..Len(events)
      BY <2>1, <1>a DEF StoreInv
    <3>2. events[n] \in SoundRecord
      BY <3>1, ElementOfSeq
    <3> QED  BY <3>2, SoundReading
  <2> HIDE DEF n, receipt
  <2>6. cursor' \in Nat /\ cursor <= cursor' /\ cursor' <= Len(events)
    BY <1>a, <2>1, <2>2 DEF WireInv
  <2>7. Grows /\ StepInv' /\ StoreInv'
    BY <1>0, <1>a, <2>3, <2>6, RelayKeeps
  <2>8. outbox' \subseteq submitted' /\ submitted' \ outbox' \subseteq Acted'
    BY <2>2, <2>3, <2>4, <2>5 DEF WireInv
  <2>9. /\ up \in Seq(SoundFrame') /\ late' \in [1..MaxEpoch -> SoundFrame']
        /\ delivered \in Seq(1..cursor') /\ inbox' \in Seq(submitted')
    BY <1>1, <2>3, <2>7, SoundGrows DEF WireInv
  <2>10. up' \in Seq(SoundFrame')
    <3>1. up' = Append(up, Ack(cursor')) \/ up' = up
      BY <1>7 DEF Receive
    <3>2. Ack(cursor') \in SoundFrame'
      BY <2>6 DEF Ack, SoundFrame
    <3> QED  BY SMTT(60), <2>9, <3>1, <3>2, AppendProperties
  <2>11. delivered' \in Seq(1..cursor')
    <3>1. new => n \in 1..cursor'
      BY <1>a, <2>1, <2>2
    <3> QED  BY <2>2, <2>9, <3>1, AppendProperties
  <2>12. DeliveredInOrder'
    <3>1. CASE new /\ ~receipt
      <4>1. delivered' = Append(delivered, n) /\ delivered \in Seq(1..cursor)
        BY <2>2, <3>1 DEF WireInv
      <4>2. /\ DOMAIN delivered = 1..Len(delivered) /\ Len(delivered) \in Nat
            /\ \A i \in 1..Len(delivered) : delivered[i] \in 1..cursor
        BY <4>1, LenProperties, ElementOfSeq
      <4>3. /\ DOMAIN delivered' = 1..(Len(delivered) + 1)
            /\ delivered'[Len(delivered) + 1] = n
            /\ \A i \in 1..Len(delivered) : delivered'[i] = delivered[i]
        BY <4>1, <4>2, AppendProperties
      <4>4. DeliveredInOrder
        BY DEF WireInv
      <4>5. \A i, j \in 1..(Len(delivered) + 1) : i < j => delivered'[i] < delivered'[j]
        <5> SUFFICES ASSUME NEW i \in 1..(Len(delivered) + 1),
                            NEW j \in 1..(Len(delivered) + 1), i < j
                     PROVE  delivered'[i] < delivered'[j]
          OBVIOUS
        <5>1. i \in 1..Len(delivered)
          BY <4>2
        <5>2. CASE j \in 1..Len(delivered)
          BY <4>2, <4>3, <4>4, <5>1, <5>2 DEF DeliveredInOrder
        <5>3. CASE j = Len(delivered) + 1
          BY <1>a, <2>1, <3>1, <4>2, <4>3, <5>1, <5>3
        <5> QED  BY <4>2, <5>2, <5>3
      <4> QED  BY <4>3, <4>5 DEF DeliveredInOrder
    <3>2. CASE ~(new /\ ~receipt)
      <4>1. delivered' = delivered
        BY <2>2, <3>2
      <4> QED  BY <4>1 DEF WireInv, DeliveredInOrder
    <3> QED  BY <3>1, <3>2
  <2>13. WireInv'
    BY <1>1, <2>1, <2>2, <2>3, <2>6, <2>8, <2>9, <2>10, <2>11, <2>12 DEF WireInv
  <2> QED  BY <2>7, <2>13 DEF ChannelInv
<1>8. CASE ReceiveFault
  BY <1>4, <1>8 DEF ReceiveFault
<1>9. CASE LoseConnection
  <2>1. down' \in Seq(0..Len(events'))
    BY <1>9 DEF LoseConnection
  <2>2. WireInv'
    BY <1>1, <1>3, <1>9, <2>1 DEF LoseConnection, WireInv
  <2> QED  BY <1>2, <1>9, <2>2 DEF LoseConnection
<1>10. CASE Inspect
  BY <1>4, <1>10 DEF Inspect
<1>11. CASE AttachFails
  BY <1>4, <1>11 DEF AttachFails
<1>12. CASE AttachStopped
  BY <1>4, <1>12 DEF AttachStopped
<1>13. CASE Reattach
  <2>1. PICK s \in Listings(outbox), k \in 0..Cardinality(outbox) :
               up' = [i \in 1..k |-> Execute(s[i])]
    BY <1>13 DEF Reattach
  <2>2. k \in Nat /\ \A i \in 1..k : s[i] \in outbox
    BY <2>1, FS_CardinalityType DEF Listings, TypeOK, RelayTypes
  <2>3. \A i \in 1..k : Execute(s[i]) \in SoundFrame
    BY <2>2, SoundBuilding DEF WireInv
  <2>4. up' \in Seq(SoundFrame)
    BY <2>1, <2>2, <2>3
  <2>5. WireInv'
    BY <1>0, <1>13, <2>4, SupersedeKeeps DEF Reattach
  <2> QED  BY <1>2, <1>13, <2>5 DEF Reattach
<1>14. CASE AttachLost
  <2>1. up' \in Seq(SoundFrame)
    BY <1>14 DEF AttachLost
  <2>2. WireInv'
    BY <1>0, <1>14, <2>1, SupersedeKeeps DEF AttachLost
  <2> QED  BY <1>2, <1>14, <2>2 DEF AttachLost
<1>15. CASE Close
  <2>1. up' \in Seq(SoundFrame)
    <3>1. up' = Append(up, Detach) \/ up' = up
      BY <1>15 DEF Close
    <3>2. up \in Seq(SoundFrame) /\ Detach \in SoundFrame
      BY SoundBuilding DEF WireInv
    <3> QED  BY <3>1, <3>2, AppendProperties
  <2>2. WireInv'
    BY <1>1, <1>3, <1>15, <2>1 DEF Close, WireInv
  <2> QED  BY <1>2, <1>15, <2>2 DEF Close
<1>16. CASE RelayFails
  BY <1>4, <1>16 DEF RelayFails
<1> QED
  BY <1>5, <1>6, <1>7, <1>8, <1>9, <1>10, <1>11, <1>12, <1>13, <1>14, <1>15, <1>16
     DEF RelayNext

\* Acknowledging what the relay has processed keeps the store sound.
LEMMA AcknowledgeKeeps ==
  ASSUME TypeOK, StepInv, StoreInv, NEW n \in 0..cursor, Acknowledge(n),
         UNCHANGED <<relayVars, alive, step, op, backendVars>>
  PROVE  StepInv' /\ StoreInv' /\ events' = events
<1>1. /\ events' = events /\ linked' = linked /\ trimmed' = trimmed /\ channel' = channel
      /\ \A o \in Ops : operations'[o] = IF linked[o] \in 1..n THEN "null" ELSE operations[o]
  BY DEF Acknowledge
<1>2. submitted' = submitted /\ cursor' = cursor /\ runs' = runs /\ running' = running
  BY DEF relayVars, backendVars
<1>3. Acted' = Acted /\ SoundRecord' = SoundRecord
  BY <1>2 DEF Acted, SoundRecord
<1>4. \A o \in Ops : linked[o] \in 1..n =>
        /\ runs[o] = 1 /\ o \in Acted /\ operations[o] # "none" /\ linked[o] \in 1..cursor
  BY DEF StoreInv, TypeOK, RelayTypes, StoreTypes, BackendTypes, Acted
<1>5. op \in Ops /\ Requests \subseteq Ops
  BY DEF TypeOK, ActorTypes, Ops
<1>6. StepInv'
  BY <1>1, <1>2, <1>3, <1>4, <1>5 DEF StepInv
<1>7. floor' <= Larger(cursor, trimmed) /\ floor' <= Len(events)
  <2>1. floor' \in {floor, n, Len(events) - Window} /\ Len(events) \in Nat /\ Window \in Nat
    BY LenProperties, LimitsAssumption
       DEF Acknowledge, Larger, Smaller, TypeOK, StoreTypes, LimitsAssumption
  <2>2. floor' <= Larger(floor, n) /\ floor' <= Larger(floor, Len(events) - Window)
    <3>1. floor \in Nat /\ n \in Nat
      BY DEF TypeOK, StoreTypes
    <3>2. floor' = IF Len(events) > Window
                     THEN Larger(floor, Smaller(n, Len(events) - Window)) ELSE floor
      BY DEF Acknowledge
    <3> QED  BY <2>1, <3>1, <3>2 DEF Larger, Smaller
  <2> QED  BY <2>1, <2>2 DEF Larger, StoreInv, TypeOK, RelayTypes, StoreTypes
<1>8. StoreInv'
  BY <1>1, <1>2, <1>3, <1>4, <1>5, <1>7 DEF StoreInv
<1> QED  BY <1>1, <1>6, <1>8

LEMMA ConnectionInvariant == TypeOK /\ ChannelInv /\ ConnectionNext => ChannelInv'
<1> SUFFICES ASSUME TypeOK, WireInv, StepInv, StoreInv, ConnectionNext PROVE ChannelInv'
  BY DEF ChannelInv
<1>1. /\ UNCHANGED <<relayVars, backendVars, alive, step, op, trimmed, channel, linked, events>>
  BY DEF ConnectionNext, ReadFloor, ReadRows, Wake, HandleExecute, HandleAck, HandleDetach,
         ConnectionEnds, LateExecute, LateAck, Acknowledge, actorVars, storeVars
<1>2. /\ submitted' = submitted /\ outbox' = outbox /\ cursor' = cursor
      /\ delivered' = delivered /\ runs' = runs /\ running' = running /\ events' = events
  BY <1>1 DEF relayVars, backendVars
<1>3. /\ Acted' = Acted /\ SoundFrame' = SoundFrame /\ SoundRecord' = SoundRecord
      /\ DeliveredInOrder' = DeliveredInOrder
  BY <1>2 DEF Acted, SoundFrame, SoundRecord, DeliveredInOrder
<1>4. ASSUME UNCHANGED storeVars PROVE StepInv' /\ StoreInv'
  <2>1. StepInv'
    BY <1>1, <1>2, <1>3, <1>4 DEF StepInv, storeVars
  <2> QED  BY <1>1, <1>2, <1>3, <1>4, <2>1 DEF StoreInv, storeVars
<1>5. ASSUME up' \in Seq(SoundFrame), late' \in [1..MaxEpoch -> SoundFrame],
             inbox' \in Seq(submitted), down' \in Seq(0..Len(events)), sent' <= Len(events)
      PROVE  WireInv'
  BY <1>2, <1>3, <1>5 DEF WireInv
<1>6. /\ up \in Seq(SoundFrame) /\ late \in [1..MaxEpoch -> SoundFrame]
      /\ inbox \in Seq(submitted) /\ down \in Seq(0..Len(events)) /\ sent <= Len(events)
      /\ Len(events) \in Nat /\ sent \in Nat /\ cursor \in Nat
  BY LenProperties DEF WireInv, TypeOK, StoreTypes, LinkTypes, RelayTypes
<1>7. up # <<>> => Head(up) \in SoundFrame /\ Tail(up) \in Seq(SoundFrame)
  BY <1>6, HeadTailProperties
<1>8. \A s \in Seq(0..Len(events)) : Stream(s) \in Seq(0..Len(events))
  <2>1. down \in Seq(0..Len(events)) /\ <<>> \in Seq(0..Len(events))
    BY <1>6
  <2> QED  BY <2>1, ConcatProperties DEF Stream
<1>9. <<Fault>> \in Seq(0..Len(events)) /\ Stream(<<Fault>>) \in Seq(0..Len(events))
  <2>1. <<Fault>> \in Seq(0..Len(events))
    BY <1>6 DEF Fault
  <2> QED  BY <1>8, <2>1
<1>10. CASE ReadFloor
  <2>1. down' \in Seq(0..Len(events))
    BY <1>6, <1>9, <1>10 DEF ReadFloor
  <2> QED  BY <1>4, <1>5, <1>6, <1>10, <2>1 DEF ReadFloor, ChannelInv, actorVars
<1>11. CASE ReadRows
  <2> DEFINE base == Larger(sent, floor)
             count == Smaller(Batch, Len(events) - base)
             rows == [i \in 1..count |-> base + i]
  <2>1. base \in Nat /\ base <= Len(events) /\ Batch \in Nat
    BY <1>6, LimitsAssumption
       DEF Larger, LimitsAssumption, StoreInv, TypeOK, StoreTypes
  <2>2. count \in Nat /\ base + count <= Len(events)
    <3> HIDE DEF base
    <3> QED  BY <1>6, <2>1 DEF Smaller
  <2>3. rows \in Seq(0..Len(events))
    <3> HIDE DEF base, count
    <3>1. \A i \in 1..count : base + i \in 0..Len(events)
      BY <1>6, <2>1, <2>2
    <3> QED  BY <2>2, <3>1
  <2>4. rows \o <<Fault>> \in Seq(0..Len(events))
    BY <1>9, <2>3, ConcatProperties
  <2>5. down' \in Seq(0..Len(events))
    BY <1>8, <1>11, <2>3, <2>4 DEF ReadRows
  <2>6. sent' <= Len(events)
    BY <1>6, <1>11, <2>2 DEF ReadRows
  <2> QED  BY <1>4, <1>5, <1>6, <1>11, <2>5, <2>6 DEF ReadRows, ChannelInv, actorVars
<1>12. CASE Wake
  BY <1>4, <1>5, <1>6, <1>12 DEF Wake, ChannelInv, actorVars
<1>13. CASE HandleExecute
  <2>1. Head(up).op \in submitted /\ up' \in Seq(SoundFrame)
    BY <1>7, <1>13, SoundReading DEF HandleExecute
  <2>2. inbox' \in Seq(submitted)
    <3>1. inbox' = inbox \/ inbox' = Append(inbox, Head(up).op)
      BY <1>13 DEF HandleExecute
    <3>2. Append(inbox, Head(up).op) \in Seq(submitted)
      BY <1>6, <2>1, AppendProperties
    <3> QED  BY <1>6, <3>1, <3>2
  <2>3. down' \in Seq(0..Len(events))
    BY <1>6, <1>9, <1>13 DEF HandleExecute
  <2> QED  BY <1>4, <1>5, <1>6, <1>13, <2>1, <2>2, <2>3 DEF HandleExecute, ChannelInv
<1>14. CASE HandleAck
  <2>1. Head(up).cursor \in 0..cursor /\ up' \in Seq(SoundFrame)
    BY <1>7, <1>14, SoundReading DEF HandleAck
  <2>2. StepInv' /\ StoreInv'
    BY <1>1, <1>14, <2>1, AcknowledgeKeeps DEF HandleAck
  <2> QED  BY <1>5, <1>6, <1>14, <2>1, <2>2 DEF HandleAck, ChannelInv, actorVars
<1>15. CASE HandleDetach
  <2>1. up' \in Seq(SoundFrame)
    BY <1>7, <1>15 DEF HandleDetach
  <2> QED  BY <1>4, <1>5, <1>6, <1>15, <2>1 DEF HandleDetach, ChannelInv, actorVars
<1>16. CASE ConnectionEnds
  BY <1>4, <1>5, <1>6, <1>16 DEF ConnectionEnds, ChannelInv, actorVars
<1>17. ASSUME NEW e \in 1..MaxEpoch, LateExecute(e) PROVE ChannelInv'
  <2>1. late[e].op \in submitted
    BY <1>6, <1>17, SoundReading DEF LateExecute
  <2>2. inbox' \in Seq(submitted)
    <3>1. inbox' = Append(inbox, late[e].op) \/ inbox' = inbox
      BY <1>17 DEF LateExecute
    <3>2. inbox \in Seq(submitted)
      BY <1>6
    <3> QED  BY <2>1, <3>1, <3>2, AppendProperties
  <2>3. late' \in [1..MaxEpoch -> SoundFrame]
    BY <1>6, <1>17, SoundBuilding DEF LateExecute
  <2> QED  BY <1>4, <1>5, <1>6, <1>17, <2>2, <2>3 DEF LateExecute, ChannelInv
<1>18. ASSUME NEW e \in 1..MaxEpoch, LateAck(e) PROVE ChannelInv'
  <2>1. late[e].cursor \in 0..cursor
    BY <1>6, <1>18, SoundReading DEF LateAck
  <2>2. StepInv' /\ StoreInv'
    BY <1>1, <1>18, <2>1, AcknowledgeKeeps DEF LateAck
  <2>3. late' \in [1..MaxEpoch -> SoundFrame]
    BY <1>6, <1>18, SoundBuilding DEF LateAck
  <2> QED  BY <1>5, <1>6, <1>18, <2>2, <2>3 DEF LateAck, ChannelInv, actorVars
<1> QED
  BY <1>10, <1>11, <1>12, <1>13, <1>14, <1>15, <1>16, <1>17, <1>18 DEF ConnectionNext

-----------------------------------------------------------------------------
\* The actor touches neither the relay nor, but for a restart, the wire: what
\* is on it stays sound while events are appended and operations act.
LEMMA ActorKeepsWire ==
  ASSUME TypeOK, WireInv, UNCHANGED relayVars,
         UNCHANGED up, UNCHANGED down, UNCHANGED sent, late' \in [1..MaxEpoch -> SoundFrame],
         inbox' \in Seq(submitted), Len(events) <= Len(events'), Len(events') \in Nat,
         Acted \subseteq Acted'
  PROVE  Grows /\ WireInv'
<1>1. submitted' = submitted /\ outbox' = outbox /\ cursor' = cursor /\ delivered' = delivered
  BY DEF relayVars
<1>2. submitted \subseteq Ops /\ cursor \in Nat /\ sent \in Nat /\ Len(events) \in Nat
  BY LenProperties DEF TypeOK, RelayTypes, LinkTypes, StoreTypes
<1>3. Grows
  BY <1>1, <1>2 DEF Grows
<1>4. SoundFrame' = SoundFrame /\ DeliveredInOrder' = DeliveredInOrder
  BY <1>1 DEF SoundFrame, DeliveredInOrder
<1>5. down' \in Seq(0..Len(events'))
  BY <1>3, SoundGrows DEF WireInv
<1>6. sent' <= Len(events') /\ cursor' <= Len(events')
  BY <1>1, <1>2 DEF WireInv
<1>7. WireInv'
  BY <1>1, <1>4, <1>5, <1>6 DEF WireInv
<1> QED  BY <1>3, <1>7

\* Appending a sound record: only the capacity moves the replay floor.
LEMMA AppendRecordKeeps ==
  ASSUME TypeOK, StoreInv, NEW r \in SoundRecord, AppendRecord(r)
  PROVE  /\ events' \in Seq(SoundRecord) /\ Len(events') = Len(events) + 1
         /\ floor' <= Larger(cursor, trimmed') /\ floor' <= Len(events')
<1>1. events \in Seq(SoundRecord) /\ Len(events) \in Nat
  BY LenProperties DEF StoreInv, TypeOK, StoreTypes
<1>2. events' = Append(events, r)
  BY DEF AppendRecord
<1>3. events' \in Seq(SoundRecord) /\ Len(events') = Len(events) + 1
  BY <1>1, <1>2, AppendProperties
<1>4. /\ floor \in Nat /\ trimmed \in Nat /\ cursor \in Nat /\ Capacity \in Nat \ {0}
      /\ floor <= Larger(cursor, trimmed) /\ floor <= Len(events)
  BY LimitsAssumption DEF StoreInv, TypeOK, StoreTypes, RelayTypes, LimitsAssumption
<1>5. \/ floor' = (Len(events) + 1) - Capacity /\ trimmed' = (Len(events) + 1) - Capacity
      \/ floor' = floor /\ trimmed' = trimmed
  BY DEF AppendRecord
<1>6. floor' <= Larger(cursor, trimmed') /\ floor' <= Len(events) + 1
  BY <1>1, <1>4, <1>5 DEF Larger
<1> QED  BY <1>3, <1>6

\* A statement that appends a record about an operation that acted.
LEMMA AppendingKeeps ==
  ASSUME TypeOK, ChannelInv, NEW r \in SoundRecord, AppendRecord(r),
         UNCHANGED <<alive, inbox, op, relayVars, linkVars, operations, linked, channel>>,
         UNCHANGED <<runs, running>>, step # "send", StepInv'
  PROVE  ChannelInv'
<1>1. /\ submitted' = submitted /\ cursor' = cursor /\ outbox' = outbox
      /\ delivered' = delivered /\ up' = up /\ down' = down /\ sent' = sent /\ late' = late
  BY DEF relayVars, linkVars
<1>2. Acted' = Acted /\ SoundRecord' = SoundRecord
  BY <1>1 DEF Acted, SoundRecord
<1>3. /\ events' \in Seq(SoundRecord) /\ Len(events') = Len(events) + 1
      /\ floor' <= Larger(cursor, trimmed') /\ floor' <= Len(events')
  BY AppendRecordKeeps DEF ChannelInv
<1>4. Len(events) \in Nat /\ \A o \in Ops : linked[o] \in Nat
  BY LenProperties DEF TypeOK, StoreTypes
<1>5. WireInv'
  <2>1. late \in [1..MaxEpoch -> SoundFrame] /\ inbox \in Seq(submitted)
    BY DEF ChannelInv, WireInv
  <2>2. Len(events) <= Len(events') /\ Len(events') \in Nat
    BY <1>3, <1>4
  <2> QED  BY <1>1, <1>2, <2>1, <2>2, ActorKeepsWire DEF ChannelInv
<1>6. StoreInv'
  <2>1. \A o \in Ops : linked[o] <= Len(events')
    BY <1>3, <1>4 DEF ChannelInv, StoreInv
  <2>2. \A o \in Ops : alive = "serving" /\ operations[o] = "open" => o \in Acted
    BY DEF ChannelInv, StoreInv
  <2> QED  BY <1>1, <1>2, <1>3, <2>1, <2>2 DEF ChannelInv, StoreInv
<1> QED  BY <1>5, <1>6 DEF ChannelInv

LEMMA ActorInvariant == TypeOK /\ ChannelInv /\ ActorNext => ChannelInv'
<1> SUFFICES ASSUME TypeOK, WireInv, StepInv, StoreInv, ActorNext PROVE ChannelInv'
  BY DEF ChannelInv
<1>0. UNCHANGED relayVars /\ UNCHANGED up /\ UNCHANGED down /\ UNCHANGED sent
  BY DEF ActorNext, Take, Begin, Refuse, Respond, Send, Settle, Accept, Collect, Complete,
         Publish, Link, CollectNote, ActorFails, ActorStops, ServiceRestart, linkVars
<1>1. submitted' = submitted /\ cursor' = cursor
  BY <1>0 DEF relayVars
<1>2. /\ late \in [1..MaxEpoch -> SoundFrame] /\ inbox \in Seq(submitted)
      /\ events \in Seq(SoundRecord) /\ Len(events) \in Nat
  BY LenProperties DEF WireInv, StoreInv, TypeOK, StoreTypes
<1>3. /\ op \in Ops /\ Requests \subseteq Ops /\ OneWay \subseteq Ops /\ Refused \subseteq Ops
      /\ cursor \in Nat /\ submitted \subseteq Ops /\ running \subseteq Ops
      /\ operations \in [Ops -> {"none", "open", "stored", "null"}]
      /\ linked \in [Ops -> Nat] /\ runs \in [Ops -> Nat]
  BY DEF TypeOK, RelayTypes, ActorTypes, StoreTypes, BackendTypes, Ops
\* The actions that append nothing and run nothing.
<1>4. ASSUME UNCHANGED <<late, runs, events>>, inbox' \in Seq(submitted)
      PROVE  WireInv' /\ Acted' = Acted /\ SoundRecord' = SoundRecord
  <2>1. Acted' = Acted /\ SoundRecord' = SoundRecord
    BY <1>1, <1>4 DEF Acted, SoundRecord
  <2> QED  BY <1>0, <1>2, <1>4, <2>1, ActorKeepsWire
<1>5. CASE Take
  <2>1. Head(inbox) \in submitted /\ Tail(inbox) \in Seq(submitted)
    BY <1>2, <1>5, HeadTailProperties DEF Take
  <2>2. inbox' \in Seq(submitted) /\ UNCHANGED <<late, storeVars, backendVars>>
    BY <1>5, <2>1 DEF Take, linkVars
  <2>3. UNCHANGED <<operations, linked, events, floor, trimmed, channel, running, runs>>
    BY <2>2 DEF storeVars, backendVars
  <2>4. WireInv' /\ Acted' = Acted /\ SoundRecord' = SoundRecord
    BY <1>4, <2>2, <2>3
  <2>5. /\ op' \in submitted /\ step = "idle" /\ alive = "serving"
        /\ \/ operations[op'] = "none" /\ step' = "begin" /\ alive' = "serving"
           \/ step' = "idle" /\ alive' = "draining"
           \/ operations[op'] = "stored" /\ step' = "respond" /\ alive' = "serving"
           \/ operations[op'] \in {"open", "null"} /\ step' = "receipt" /\ alive' = "serving"
    BY <1>5, <2>1 DEF Take, Serving
  <2>6. \A o \in submitted : operations[o] \in {"open", "stored", "null"} => o \in Acted
    BY <1>3, <2>5 DEF StoreInv
  <2>7. StepInv'
    BY <1>1, <2>3, <2>4, <2>5, <2>6 DEF StepInv
  <2>8. StoreInv'
    BY <1>1, <2>3, <2>4, <2>5 DEF StoreInv
  <2> QED  BY <2>4, <2>7, <2>8 DEF ChannelInv
<1>6. CASE Begin
  <2>1. /\ step = "begin" /\ alive = "serving" /\ op \in submitted /\ runs[op] = 0
        /\ linked[op] = 0
    BY <1>3, <1>6 DEF Begin, Serving, StepInv, StoreInv
  <2>2. /\ UNCHANGED <<late, runs, running, events, inbox, alive, op, linked, floor,
                       trimmed, channel>>
        /\ operations' = [operations EXCEPT ![op] = "open"]
        /\ step' = IF op \in Refused THEN "refuse" ELSE "send"
    BY <1>6 DEF Begin, linkVars, backendVars
  <2>3. WireInv' /\ Acted' = Acted /\ SoundRecord' = SoundRecord
    BY <1>2, <1>4, <2>2
  <2>4. StepInv'
    BY <1>1, <1>3, <2>1, <2>2, <2>3 DEF StepInv
  <2>5. StoreInv'
    BY <1>1, <1>3, <2>1, <2>2, <2>3 DEF StoreInv, Acted
  <2> QED  BY <2>3, <2>4, <2>5 DEF ChannelInv
\* An operation that acted gets its outcome, by Refuse, Settle or Complete.
<1>7. ASSUME NEW r \in {"stored", "null"}, operations' = [operations EXCEPT ![op] = r],
             op \in Acted, step # "send", StepInv', r = "null" => op \in OneWay,
             UNCHANGED <<late, runs, running, events, inbox, alive, op, linked, floor,
                         trimmed, channel>>
      PROVE  ChannelInv'
  <2>1. WireInv' /\ Acted' = Acted /\ SoundRecord' = SoundRecord
    BY <1>2, <1>4, <1>7
  <2>2. StoreInv'
    BY <1>1, <1>3, <1>7, <2>1, OpsAssumption DEF StoreInv, OpsAssumption
  <2> QED  BY <1>7, <2>1, <2>2 DEF ChannelInv
<1>8. CASE Refuse
  <2>1. /\ UNCHANGED <<late, runs, running, events, inbox, alive, op, linked, floor,
                       trimmed, channel>>
        /\ operations' = [operations EXCEPT ![op] = "stored"]
        /\ step = "refuse" /\ step' = "respond"
    BY <1>8 DEF Refuse, linkVars, backendVars
  <2>2. op \in Acted /\ alive = "serving" /\ Acted' = Acted
    BY <1>1, <2>1 DEF StepInv, Acted
  <2>3. StepInv'
    BY <1>1, <1>3, <2>1, <2>2 DEF StepInv
  <2> QED  BY <1>7, <2>1, <2>2, <2>3
<1>9. CASE Settle
  <2>1. /\ UNCHANGED <<late, runs, running, events, inbox, alive, op, linked, floor,
                       trimmed, channel>>
        /\ operations' = [operations EXCEPT ![op] = "null"]
        /\ step = "settle" /\ step' = "receipt"
    BY <1>9 DEF Settle, linkVars, backendVars
  <2>2. op \in Acted /\ op \in OneWay /\ alive = "serving" /\ Acted' = Acted
    BY <1>1, <2>1 DEF StepInv, Acted
  <2>3. StepInv'
    BY <1>1, <1>3, <2>1, <2>2 DEF StepInv
  <2> QED  BY <1>7, <2>1, <2>2, <2>3
<1>10. CASE Complete
  <2>1. /\ UNCHANGED <<late, runs, running, events, inbox, alive, op, linked, floor,
                       trimmed, channel>>
        /\ operations' = [operations EXCEPT ![op] = "stored"]
        /\ step = "complete" /\ step' = "publish"
    BY <1>10 DEF Complete, linkVars, backendVars
  <2>2. op \in Acted /\ Acted' = Acted
    BY <1>1, <2>1 DEF StepInv, Acted
  <2>3. StepInv'
    BY <1>1, <1>3, <2>1, <2>2 DEF StepInv
  <2> QED  BY <1>7, <2>1, <2>2, <2>3
<1>11. CASE Respond
  <2>1. /\ UNCHANGED <<alive, inbox, op, relayVars, linkVars, operations, linked, channel>>
        /\ UNCHANGED <<runs, running>>
        /\ AppendRecord(Response(op)) /\ step = "respond" /\ step' = "receipt"
    BY <1>11 DEF Respond, backendVars
  <2>2. op \in Acted /\ alive = "serving" /\ Acted' = Acted
    BY <1>1, <2>1 DEF StepInv, Acted
  <2>3. StepInv'
    BY <1>1, <2>1, <2>2 DEF StepInv
  <2> QED  BY <2>1, <2>2, <2>3, SoundBuilding, AppendingKeeps DEF ChannelInv
<1>12. CASE Accept
  <2>1. /\ UNCHANGED <<alive, inbox, op, relayVars, linkVars, operations, linked, channel>>
        /\ UNCHANGED <<runs, running>>
        /\ AppendRecord(Receipt(op)) /\ step = "receipt" /\ step' = "idle"
    BY <1>12 DEF Accept, backendVars
  <2>2. op \in Acted
    BY <2>1 DEF StepInv
  <2>3. StepInv'
    BY <2>1 DEF StepInv
  <2> QED  BY <2>1, <2>2, <2>3, SoundBuilding, AppendingKeeps DEF ChannelInv
<1>13. CASE Publish
  <2>1. /\ UNCHANGED <<alive, inbox, op, relayVars, linkVars, operations, linked, channel>>
        /\ UNCHANGED <<runs, running>>
        /\ AppendRecord(Response(op)) /\ step = "publish" /\ step' = "link"
    BY <1>13 DEF Publish, backendVars
  <2>2. op \in Acted /\ Acted' = Acted
    BY <1>1, <2>1 DEF StepInv, Acted
  <2>3. StepInv'
    BY <1>1, <2>1, <2>2 DEF StepInv
  <2> QED  BY <2>1, <2>2, <2>3, SoundBuilding, AppendingKeeps DEF ChannelInv
<1>14. CASE CollectNote
  <2>1. /\ UNCHANGED <<alive, inbox, op, relayVars, linkVars, operations, linked, channel>>
        /\ UNCHANGED <<runs, running, step>>
        /\ AppendRecord(Note) /\ step = "idle"
    BY <1>14 DEF CollectNote, actorVars
  <2>2. StepInv'
    BY <2>1 DEF StepInv
  <2> QED  BY <2>1, <2>2, SoundBuilding, AppendingKeeps DEF ChannelInv
<1>15. CASE Send
  <2>1. /\ step = "send" /\ alive = "serving" /\ op \in submitted \ Refused /\ runs[op] = 0
        /\ operations[op] = "open" /\ linked[op] = 0
    BY <1>3, <1>15 DEF Send, Serving, StepInv, StoreInv
  <2>2. /\ UNCHANGED <<late, events, inbox, alive, op, operations, linked, floor,
                       trimmed, channel>>
        /\ runs' = [runs EXCEPT ![op] = 1]
        /\ \/ op \in Requests /\ running' = running \union {op} /\ step' = "receipt"
           \/ op \notin Requests /\ running' = running /\ step' = "settle"
    BY <1>3, <1>15, <2>1 DEF Send, linkVars, storeVars
  <2>3. Acted' = Acted \union {op}
    BY <1>1, <1>3, <2>1, <2>2 DEF Acted
  <2>4. WireInv' /\ Grows
    BY <1>0, <1>2, <2>2, <2>3, ActorKeepsWire
  <2>5. StepInv'
    BY <1>1, <1>3, <2>1, <2>2, <2>3 DEF StepInv, Ops
  <2>6. events' \in Seq(SoundRecord')
    BY <1>2, <2>2, <2>4, SoundGrows
  <2>7. StoreInv'
    BY <1>1, <1>3, <2>1, <2>2, <2>3, <2>6 DEF StoreInv
  <2> QED  BY <2>4, <2>5, <2>7 DEF ChannelInv
<1>16. ASSUME NEW o \in Ops, Collect(o) PROVE ChannelInv'
  <2>1. /\ UNCHANGED <<late, runs, events, inbox, alive, operations, linked, floor,
                       trimmed, channel>>
        /\ running' = running \ {o} /\ op' = o /\ o \in running /\ step = "idle"
        /\ step' \in {"complete", "idle"} /\ alive # "stopped"
    BY <1>16 DEF Collect, Collecting, linkVars, storeVars
  <2>2. o \in Requests /\ o \in Acted /\ operations[o] # "none" /\ linked[o] = 0
    BY <2>1 DEF StoreInv, Acted
  <2>3. WireInv' /\ Acted' = Acted /\ SoundRecord' = SoundRecord
    BY <1>2, <1>4, <2>1
  <2>4. StepInv'
    BY <1>1, <2>1, <2>2, <2>3 DEF StepInv, Acted
  <2>5. StoreInv'
    BY <1>1, <2>1, <2>3 DEF StoreInv
  <2> QED  BY <2>3, <2>4, <2>5 DEF ChannelInv
<1>17. CASE Link
  <2>1. /\ UNCHANGED <<late, runs, running, events, inbox, alive, operations, op, floor,
                       trimmed, channel>>
        /\ linked' = [linked EXCEPT ![op] = Len(events)]
        /\ step = "link" /\ step' = "idle"
    BY <1>17 DEF Link, linkVars, backendVars
  <2>2. op \in Requests \ running /\ runs[op] = 1 /\ linked[op] = 0
    BY <2>1, OpsAssumption DEF StepInv, Acted, OpsAssumption
  <2>3. operations[op] # "null"
    BY <2>2, <1>3 DEF StoreInv
  <2>4. WireInv' /\ Acted' = Acted /\ SoundRecord' = SoundRecord
    BY <1>2, <1>4, <2>1
  <2>5. StepInv'
    BY <2>1 DEF StepInv
  <2>6. StoreInv'
    BY <1>1, <1>2, <1>3, <2>1, <2>2, <2>3, <2>4 DEF StoreInv
  <2> QED  BY <2>4, <2>5, <2>6 DEF ChannelInv
<1>18. CASE ActorFails
  <2>1. /\ UNCHANGED <<late, runs, running, events, inbox, operations, op, linked, floor,
                       trimmed, channel>>
        /\ step' = "idle" /\ alive # "stopped" /\ alive' = "draining"
    BY <1>18 DEF ActorFails, Collecting, linkVars, backendVars, storeVars
  <2>2. WireInv' /\ Acted' = Acted /\ SoundRecord' = SoundRecord
    BY <1>2, <1>4, <2>1
  <2>3. StepInv'
    BY <2>1 DEF StepInv
  <2>4. StoreInv'
    BY <1>1, <2>1, <2>2 DEF StoreInv
  <2> QED  BY <2>2, <2>3, <2>4 DEF ChannelInv
\* The end of the actor, and of the process.
<1>19. ASSUME UNCHANGED <<runs, events, operations, op, linked, floor, trimmed>>,
              late' \in [1..MaxEpoch -> SoundFrame], inbox' = <<>>, running' = {},
              step' = "idle", alive' = "stopped"
       PROVE  ChannelInv'
  <2>1. Acted' = Acted /\ SoundRecord' = SoundRecord
    BY <1>1, <1>19 DEF Acted, SoundRecord
  <2>2. inbox' \in Seq(submitted)
    BY <1>19
  <2>3. WireInv'
    BY <1>0, <1>2, <1>19, <2>1, <2>2, ActorKeepsWire
  <2>4. StepInv'
    BY <1>19 DEF StepInv
  <2>5. StoreInv'
    BY <1>1, <1>19, <2>1 DEF StoreInv
  <2> QED  BY <2>3, <2>4, <2>5 DEF ChannelInv
<1>20. CASE ActorStops
  BY <1>2, <1>19, <1>20 DEF ActorStops, linkVars
<1>21. CASE ServiceRestart
  <2>1. late' \in [1..MaxEpoch -> SoundFrame]
    BY <1>21, SoundBuilding DEF ServiceRestart
  <2> QED  BY <1>19, <1>21, <2>1 DEF ServiceRestart
<1> QED
  BY <1>5, <1>6, <1>8, <1>9, <1>10, <1>11, <1>12, <1>13, <1>14, <1>15, <1>16, <1>17, <1>18,
     <1>20, <1>21 DEF ActorNext

LEMMA InitInvariant == Init => ChannelInv
<1> SUFFICES ASSUME Init PROVE ChannelInv
  OBVIOUS
<1>1. late \in [1..MaxEpoch -> SoundFrame]
  BY SoundBuilding DEF Init
<1>2. /\ up \in Seq(SoundFrame) /\ inbox \in Seq(submitted) /\ down \in Seq(0..Len(events))
      /\ delivered \in Seq(1..cursor) /\ events \in Seq(SoundRecord) /\ Len(events) = 0
  BY DEF Init
<1>3. DeliveredInOrder
  BY DEF Init, DeliveredInOrder
<1>4. WireInv
  BY <1>1, <1>2, <1>3 DEF Init, WireInv
<1>5. StepInv
  BY DEF Init, StepInv
<1>6. StoreInv
  BY <1>2 DEF Init, StoreInv, Larger, Ops
<1> QED  BY <1>4, <1>5, <1>6 DEF ChannelInv

LEMMA StepInvariant == TypeOK /\ ChannelInv /\ [Next]_vars => ChannelInv'
<1> SUFFICES ASSUME TypeOK, ChannelInv, [Next]_vars PROVE ChannelInv'
  OBVIOUS
<1>1. CASE UNCHANGED vars
  <2>1. /\ UNCHANGED <<submitted, outbox, cursor, delivered, up, down, sent, late>>
        /\ UNCHANGED <<alive, inbox, step, op, operations, linked, events, floor, trimmed>>
        /\ UNCHANGED <<channel, running, runs>>
    BY <1>1 DEF vars, relayVars, linkVars, actorVars, storeVars, backendVars
  <2>2. Acted' = Acted /\ SoundFrame' = SoundFrame /\ SoundRecord' = SoundRecord
    BY <2>1 DEF Acted, SoundFrame, SoundRecord
  <2>3. WireInv'
    BY <2>1, <2>2 DEF ChannelInv, WireInv, DeliveredInOrder
  <2>4. StepInv'
    BY <2>1, <2>2 DEF ChannelInv, StepInv
  <2>5. StoreInv'
    BY <2>1, <2>2 DEF ChannelInv, StoreInv
  <2> QED  BY <2>3, <2>4, <2>5 DEF ChannelInv
<1> QED  BY <1>1, RelayInvariant, ConnectionInvariant, ActorInvariant DEF Next

\* What holds between the relay, the wire, the actor and the store at every
\* moment, for every interleaving, loss, retransmission and death of the service.
THEOREM ChannelInvariant == Spec => []ChannelInv
<1>1. Init => TypeOK /\ ChannelInv
  BY InitType, InitInvariant
<1>2. TypeOK /\ ChannelInv /\ [Next]_vars => (TypeOK /\ ChannelInv)'
  BY StepType, StepInvariant
<1> QED  BY <1>1, <1>2, PTL DEF Spec

\* No operation reaches the backend twice or unrecorded.
THEOREM AtMostOnce == Spec => []EvidenceBeforeEffect
<1>1. ChannelInv => EvidenceBeforeEffect
  BY DEF ChannelInv, StoreInv, EvidenceBeforeEffect
<1> QED  BY <1>1, ChannelInvariant, PTL

\* What left the outbox has acted: a receipt is never given for less.
THEOREM ReceiptMeansActed == Spec => []ReceiptedHasRun
<1>1. ChannelInv => ReceiptedHasRun
  BY DEF ChannelInv, WireInv, Acted, ReceiptedHasRun
<1> QED  BY <1>1, ChannelInvariant, PTL

\* No outcome is stored for an operation that did not act.
THEOREM NoInventedOutcome == Spec => []OutcomeIsReal
<1>1. ChannelInv => OutcomeIsReal
  BY DEF ChannelInv, StoreInv, Acted, OutcomeIsReal
<1> QED  BY <1>1, ChannelInvariant, PTL

\* Acknowledgements, stale ones too, compact and prune only what was received.
THEOREM NothingDroppedUnseen == Spec => [](CompactedWasReceived /\ PrunedWasReceived)
<1>1. ChannelInv => CompactedWasReceived /\ PrunedWasReceived
  BY DEF ChannelInv, StoreInv, CompactedWasReceived, PrunedWasReceived
<1> QED  BY <1>1, ChannelInvariant, PTL

\* The frontend sees the events in the order of the store, none twice.
THEOREM InOrderOnce == Spec => []DeliveredInOrder
<1>1. ChannelInv => DeliveredInOrder
  BY DEF ChannelInv, WireInv
<1> QED  BY <1>1, ChannelInvariant, PTL

\* What the relay has not processed stays, and what it hands on is in order.
THEOREM ReplayIsSoundAlways == Spec => []ReplayIsSound
<1>1. CompactedWasReceived /\ PrunedWasReceived /\ DeliveredInOrder => ReplayIsSound
  BY DEF ReplayIsSound
<1> QED  BY <1>1, NothingDroppedUnseen, InOrderOnce, PTL

-----------------------------------------------------------------------------
(***************************************************************************)
(* Refinement: every step of the channel is a step of RemoteOperations or  *)
(* leaves its variables alone.                                             *)
(***************************************************************************)

\* What the frontend was answered does not change while nothing is delivered,
\* because an event under the cursor is never written again.
LEMMA AnsweredStays ==
  ASSUME TypeOK, WireInv, UNCHANGED delivered,
         events' = events \/ \E r \in Record : events' = Append(events, r)
  PROVE  Answered' = Answered
<1>1. events \in Seq(Record) /\ Len(events) \in Nat /\ cursor \in Nat
      /\ delivered \in Seq(1..cursor) /\ cursor <= Len(events)
  BY LenProperties DEF TypeOK, RelayTypes, StoreTypes, WireInv
<1>2. \A i \in DOMAIN delivered : delivered[i] \in 1..Len(events)
  <2>1. \A i \in DOMAIN delivered : delivered[i] \in 1..cursor
    BY <1>1, LenProperties, ElementOfSeq
  <2> QED  BY <1>1, <2>1
<1>3. \A n \in 1..Len(events) : events'[n] = events[n]
  BY SMTT(60), <1>1, AppendProperties
<1> QED  BY <1>2, <1>3 DEF Answered, Response

LEMMA SamePromise ==
  ASSUME UNCHANGED <<submitted, runs>>, Answered' = Answered,
         (alive' = "stopped") = (alive = "stopped")
  PROVE  UNCHANGED Promise!vars
BY DEF Promise!vars

LEMMA StepRefines ==
  ASSUME TypeOK, ChannelInv, [Next]_vars
  PROVE  [Promise!Next]_(Promise!vars)
<1> USE DEF ChannelInv
<1>0. /\ runs \in [Ops -> Nat] /\ submitted \subseteq Ops /\ op \in Ops
  BY DEF TypeOK, RelayTypes, ActorTypes, BackendTypes
\* Steps that neither submit, deliver, run nor end.
<1>1. ASSUME UNCHANGED <<submitted, delivered, runs>>,
             (alive' = "stopped") = (alive = "stopped"),
             events' = events \/ \E r \in Record : events' = Append(events, r)
      PROVE  UNCHANGED Promise!vars
  BY <1>1, AnsweredStays, SamePromise
<1>2. CASE UNCHANGED vars
  BY <1>1, <1>2 DEF vars, relayVars, storeVars, actorVars, backendVars
<1>3. CASE RelayNext
  <2>1. UNCHANGED <<runs, alive, events>>
    BY <1>3 DEF RelayNext, Submit, OutboxFull, Receive, ReceiveFault, LoseConnection, Inspect,
           AttachFails, AttachStopped, Reattach, AttachLost, Close, RelayFails,
           storeVars, actorVars, backendVars
  <2>2. ASSUME NEW o \in Ops, Submit(o) PROVE Promise!Request(o)
    <3>1. UNCHANGED delivered /\ o \in Ops \ submitted /\ submitted' = submitted \union {o}
      BY <2>2 DEF Submit
    <3>2. Answered' = Answered
      BY <2>1, <3>1, AnsweredStays
    <3> QED  BY <2>1, <3>1, <3>2 DEF Promise!Request
  <2>3. CASE Receive
    <3> DEFINE n == Head(down)
    <3>1. UNCHANGED submitted
      BY <2>3 DEF Receive
    <3>2. CASE UNCHANGED delivered
      BY <1>1, <2>1, <3>1, <3>2
    <3>3. CASE ~UNCHANGED delivered
      <4>1. delivered' = Append(delivered, n) /\ n > cursor
        BY <2>3, <3>3 DEF Receive
      <4>2. n \in 1..Len(events)
        <5>1. down \in Seq(0..Len(events)) /\ down # <<>>
          BY <2>3 DEF Receive, WireInv
        <5>2. n \in 0..Len(events)
          BY <5>1, HeadTailProperties
        <5> QED  BY <4>1, <5>2, LenProperties DEF TypeOK, RelayTypes, StoreTypes
      <4>3. events[n] \in SoundRecord
        BY <4>2, ElementOfSeq DEF StoreInv
      <4>4. Answered' = Answered \union {o \in Ops : events[n] = Response(o)}
        <5>1. delivered \in Seq(Nat)
          BY DEF TypeOK, RelayTypes
        <5>2. n \in Nat
          BY <4>2
        <5>3. /\ DOMAIN delivered = 1..Len(delivered) /\ Len(delivered) \in Nat
              /\ DOMAIN delivered' = 1..(Len(delivered) + 1)
              /\ delivered'[Len(delivered) + 1] = n
              /\ \A i \in 1..Len(delivered) : delivered'[i] = delivered[i]
          BY <4>1, <5>1, <5>2, AppendProperties, LenProperties
        <5>4. /\ \A i \in DOMAIN delivered' : i \in DOMAIN delivered \/ i = Len(delivered) + 1
              /\ DOMAIN delivered \subseteq DOMAIN delivered'
              /\ Len(delivered) + 1 \in DOMAIN delivered'
          BY <5>3
        <5> QED  BY <2>1, <5>3, <5>4 DEF Answered, Response
      <4>5. CASE \E o \in Ops : events[n] = Response(o)
        <5>1. PICK o \in Ops : events[n] = Response(o)
          BY <4>5
        <5>2. Answered' = Answered \union {o}
          BY <4>4, <5>1 DEF Response
        <5>3. o \in Acted
          BY <4>3, <5>1 DEF SoundRecord, Response, Note
        <5> QED  BY <2>1, <3>1, <5>2, <5>3 DEF Promise!Next, Promise!Answer, Acted
      <4>6. CASE ~\E o \in Ops : events[n] = Response(o)
        <5>1. Answered' = Answered
          BY <4>4, <4>6
        <5> QED  BY <2>1, <3>1, <5>1, SamePromise
      <4> QED  BY <4>5, <4>6
    <3> QED  BY <3>2, <3>3
  <2>4. CASE ~Receive /\ ~\E o \in Ops : Submit(o)
    <3>1. UNCHANGED <<submitted, delivered>>
      BY <1>3, <2>4 DEF RelayNext, OutboxFull, ReceiveFault, LoseConnection, Inspect,
             AttachFails, AttachStopped, Reattach, AttachLost, Close, RelayFails
    <3> QED  BY <1>1, <2>1, <3>1
  <2> QED  BY <2>2, <2>3, <2>4 DEF Promise!Next
<1>4. CASE ConnectionNext
  <2>1. UNCHANGED <<submitted, delivered, runs, alive, events>>
    BY <1>4 DEF ConnectionNext, ReadFloor, ReadRows, Wake, HandleExecute, HandleAck,
           HandleDetach, ConnectionEnds, LateExecute, LateAck, Acknowledge,
           relayVars, storeVars, actorVars, backendVars
  <2> QED  BY <1>1, <2>1
<1>5. CASE ActorNext
  <2>1. UNCHANGED <<submitted, delivered>>
    BY <1>5 DEF ActorNext, Take, Begin, Refuse, Respond, Send, Settle, Accept, Collect,
           Complete, Publish, Link, CollectNote, ActorFails, ActorStops, ServiceRestart,
           relayVars
  <2>2. CASE Send
    <3>1. UNCHANGED <<alive, events>> /\ runs[op] = 0 /\ op \in submitted \ Refused
          /\ alive = "serving"
      BY <2>2 DEF Send, Serving, StepInv, StoreInv, storeVars
    <3>2. runs' = [runs EXCEPT ![op] = 1]
      BY <1>0, <2>2, <3>1 DEF Send
    <3>3. Answered' = Answered
      BY <2>1, <3>1, AnsweredStays
    <3> QED  BY <1>0, <2>1, <3>1, <3>2, <3>3 DEF Promise!Next, Promise!Run
  <2>3. CASE ActorStops \/ ServiceRestart
    <3>1. UNCHANGED <<runs, events>> /\ alive' = "stopped"
      BY <2>3 DEF ActorStops, ServiceRestart
    <3>2. Answered' = Answered
      BY <2>1, <3>1, AnsweredStays
    <3> QED  BY <2>1, <3>1, <3>2 DEF Promise!Next, Promise!End
  <2>4. CASE Respond \/ Accept \/ Publish \/ CollectNote
    <3>1. UNCHANGED <<runs, alive>>
      BY <2>4 DEF Respond, Accept, Publish, CollectNote, actorVars, backendVars
    <3>2. \E r \in Record : events' = Append(events, r)
      BY <1>0, <2>4, Building DEF Respond, Accept, Publish, CollectNote, AppendRecord
    <3> QED  BY <1>1, <2>1, <3>1, <3>2
  <2>5. CASE Take \/ Begin \/ Refuse \/ Settle \/ Complete \/ Link \/ ActorFails
               \/ \E o \in Ops : Collect(o)
    <3>1. UNCHANGED <<runs, events>> /\ alive # "stopped" /\ alive' # "stopped"
      BY <2>5 DEF Take, Begin, Refuse, Settle, Complete, Link, ActorFails, Collect,
             Serving, Collecting, storeVars, backendVars
    <3> QED  BY <1>1, <2>1, <3>1
  <2> QED  BY <1>5, <2>2, <2>3, <2>4, <2>5 DEF ActorNext
<1> QED  BY <1>2, <1>3, <1>4, <1>5 DEF Next

\* The channel implements what it promises to the frontend: an operation runs
\* at most once, only while the channel lives, and only what acted is answered.
THEOREM PromiseKept == Spec => KeepsPromise
<1>1. Init => Promise!Init
  <2>1. ASSUME Init PROVE Answered = {}
    <3>1. delivered = <<>>
      BY <2>1 DEF Init
    <3> QED  BY <3>1 DEF Answered
  <2> QED  BY <2>1 DEF Init, Promise!Init
<1>2. TypeOK /\ ChannelInv /\ [Next]_vars => [Promise!Next]_(Promise!vars)
  BY StepRefines
<1> QED  BY <1>1, <1>2, TypeCorrect, ChannelInvariant, PTL DEF Spec, KeepsPromise, Promise!Spec


(***************************************************************************)
(* What the cursor passed without effect was removed for lack of capacity. *)
(***************************************************************************)

\* What the relay has been sent it has processed, or it is under way to it, or
\* trimmed: an event is passed over neither behind the connection task's cursor
\* nor in front of an event under way.
Passed(n, j) == n <= cursor \/ n <= trimmed \/ \E i \in 1..j : down[i] = n
StreamInv ==
  phase = "attached" =>
    /\ \A n \in 1..sent : Passed(n, Len(down))
    /\ \A j \in 1..Len(down) : \A n \in 1..(down[j] - 1) : Passed(n, j - 1)

SkipInv == SkippedWasTrimmed /\ trimmed <= floor /\ StreamInv

\* The numbers that the invariant compares.
LEMMA Numbers ==
  ASSUME TypeOK, ChannelInv
  PROVE  /\ cursor \in Nat /\ trimmed \in Nat /\ floor \in Nat /\ sent \in Nat
         /\ Len(events) \in Nat /\ Len(down) \in Nat
         /\ cursor <= Len(events) /\ sent <= Len(events) /\ floor <= Len(events)
         /\ floor <= Larger(cursor, trimmed)
         /\ down \in Seq(Nat) /\ \A i \in 1..Len(down) : down[i] \in Nat
<1>1. down \in Seq(Nat) /\ events \in Seq(Record)
  BY DEF TypeOK, LinkTypes, StoreTypes
<1>2. Len(events) \in Nat /\ Len(down) \in Nat /\ \A i \in 1..Len(down) : down[i] \in Nat
  BY <1>1, LenProperties, ElementOfSeq
<1> QED  BY <1>1, <1>2 DEF TypeOK, RelayTypes, LinkTypes, StoreTypes, ChannelInv, WireInv, StoreInv

\* An event that was processed stays so: events and deliveries are only added,
\* and only operations that were never submitted enter the outbox.
LEMMA ProcessedStays ==
  ASSUME TypeOK, ChannelInv, NEW n \in 1..cursor, Processed(n),
         \A m \in 1..Len(events) : events'[m] = events[m],
         outbox' \cap submitted \subseteq outbox,
         \A i \in DOMAIN delivered : i \in DOMAIN delivered' /\ delivered'[i] = delivered[i]
  PROVE  Processed(n)'
<1>1. n \in 1..Len(events) /\ events'[n] = events[n]
  BY Numbers
<1>2. events[n] \in SoundRecord
  BY <1>1, ElementOfSeq DEF ChannelInv, StoreInv
<1>3. CASE events[n].kind = "receipt"
  <2>1. events[n].op \in submitted /\ events[n].op \notin outbox
    BY <1>2, <1>3, SoundReading DEF Processed, Acted
  <2> QED  BY <1>1, <1>3, <2>1 DEF Processed
<1>4. CASE events[n].kind # "receipt"
  BY <1>1, <1>4 DEF Processed
<1> QED  BY <1>3, <1>4

\* So a step that leaves the cursor where it is skips nothing.
LEMMA SkippedStays ==
  ASSUME TypeOK, ChannelInv, SkippedWasTrimmed, cursor' = cursor, delivered' = delivered,
         trimmed' \in Nat, trimmed <= trimmed',
         \A m \in 1..Len(events) : events'[m] = events[m],
         outbox' \cap submitted \subseteq outbox
  PROVE  SkippedWasTrimmed'
<1> SUFFICES ASSUME NEW n \in 1..cursor PROVE Processed(n)' \/ n <= trimmed'
  BY DEF SkippedWasTrimmed
<1>1. CASE Processed(n)
  BY <1>1, ProcessedStays
<1>2. CASE n <= trimmed
  BY <1>2, Numbers
<1> QED  BY <1>1, <1>2 DEF SkippedWasTrimmed

\* A stream that a step leaves alone keeps what it means.
LEMMA StreamStays ==
  ASSUME TypeOK, ChannelInv, StreamInv, phase' = "attached" => phase = "attached",
         sent' = sent, down' = down, cursor' = cursor, trimmed' \in Nat, trimmed <= trimmed'
  PROVE  StreamInv'
<1> SUFFICES ASSUME phase = "attached"
             PROVE  /\ \A n \in 1..sent : Passed(n, Len(down))'
                    /\ \A j \in 1..Len(down) : \A n \in 1..(down[j] - 1) : Passed(n, j - 1)'
  BY DEF StreamInv
<1>1. ASSUME NEW n \in Nat, NEW j \in Int, Passed(n, j) PROVE Passed(n, j)'
  BY <1>1, Numbers DEF Passed
<1>2. \A n \in 1..sent : Passed(n, Len(down))'
  BY <1>1, Numbers DEF StreamInv
<1>3. ASSUME NEW j \in 1..Len(down), NEW n \in 1..(down[j] - 1) PROVE Passed(n, j - 1)'
  BY <1>1, <1>3, Numbers DEF StreamInv
<1> QED  BY <1>2, <1>3

\* A fault at the end of the stream is no event.
LEMMA FaultSkips ==
  ASSUME TypeOK, ChannelInv, StreamInv, down' = Stream(<<Fault>>),
         phase' = phase, sent' = sent, cursor' = cursor, trimmed' = trimmed
  PROVE  StreamInv'
<1> SUFFICES ASSUME phase = "attached"
             PROVE  /\ \A n \in 1..sent : Passed(n, Len(down))'
                    /\ \A j \in 1..Len(down)' : \A n \in 1..(down'[j] - 1) : Passed(n, j - 1)'
  BY DEF StreamInv
<1>1. down' = Append(down, Fault)
  <2>1. down' = down \o <<Fault>>
    BY DEF Stream
  <2> QED  BY <2>1, Numbers DEF Fault
<1>2. Len(down') = Len(down) + 1 /\ down'[Len(down) + 1] = 0
      /\ \A i \in 1..Len(down) : down'[i] = down[i]
  BY <1>1, Numbers, AppendProperties DEF Fault
<1>3. ASSUME NEW n \in Nat, NEW j \in Nat, NEW k \in Nat, j <= Len(down), j <= k, Passed(n, j)
      PROVE  n <= cursor' \/ n <= trimmed' \/ \E i \in 1..k : down'[i] = n
  <2>1. CASE n <= cursor \/ n <= trimmed
    BY <2>1
  <2>2. CASE \E i \in 1..j : down[i] = n
    <3>1. PICK i \in 1..j : down[i] = n
      BY <2>2
    <3>2. i \in 1..k /\ i \in 1..Len(down)
      BY <1>3, Numbers
    <3> QED  BY <1>2, <3>1, <3>2
  <2> QED  BY <1>3, <2>1, <2>2 DEF Passed
<1>4. ASSUME NEW n \in 1..sent PROVE Passed(n, Len(down))'
  <2>1. Passed(n, Len(down))
    BY DEF StreamInv
  <2>2. n \in Nat /\ Len(down) \in Nat /\ Len(down') \in Nat /\ Len(down) <= Len(down')
    BY <1>2, Numbers
  <2>3. n <= cursor' \/ n <= trimmed' \/ \E i \in 1..Len(down') : down'[i] = n
    BY <1>3, <2>1, <2>2
  <2> QED  BY <2>3 DEF Passed
<1>5. ASSUME NEW j \in 1..Len(down)', NEW n \in 1..(down'[j] - 1) PROVE Passed(n, j - 1)'
  <2>1. j \in 1..Len(down) /\ down'[j] = down[j]
    <3>1. Len(down) \in Nat /\ j \in 1..(Len(down) + 1)
      BY <1>2, Numbers
    <3>2. j # Len(down) + 1
      BY <1>2
    <3> QED  BY <1>2, <3>1, <3>2
  <2>2. Passed(n, j - 1)
    BY <2>1 DEF StreamInv
  <2> DEFINE k == j - 1
  <2>3. n \in Nat /\ k \in Nat /\ k <= Len(down) /\ k <= k /\ Passed(n, k)
    BY <2>1, <2>2, Numbers
  <2> HIDE DEF k
  <2>4. n <= cursor' \/ n <= trimmed' \/ \E i \in 1..k : down'[i] = n
    BY <1>3, <2>3
  <2> QED  BY <2>4 DEF Passed, k
<1> QED  BY <1>4, <1>5

\* Only Stream(rows) and a fault behind it reach the relay: the rows follow the
\* ones sent before, up to a gap that the floor, and so the capacity, has made.
LEMMA RowsSkip ==
  ASSUME TypeOK, ChannelInv, StreamInv, ReadRows
  PROVE  StreamInv'
<1> DEFINE base == Larger(sent, floor)
           count == Smaller(Batch, Len(events) - base)
           rows == [i \in 1..count |-> base + i]
<1>1. base \in Nat /\ count \in Nat /\ sent <= base
  BY Numbers, LimitsAssumption DEF Larger, Smaller, LimitsAssumption
<1>2. sent' = base + count \/ (count = 0 /\ sent' = sent)
  BY DEF ReadRows
<1>3. rows \in Seq(Nat) /\ Len(rows) = count /\ \A i \in 1..count : rows[i] = base + i
  BY <1>1, CursorsFrom
<1>4. phase' = phase /\ cursor' = cursor /\ trimmed' = trimmed /\ floor' = floor
  BY DEF ReadRows, relayVars, storeVars
<1>5. ASSUME NEW n \in Nat, n <= base, n > sent PROVE n <= cursor \/ n <= trimmed
  BY <1>5, Numbers DEF Larger
<1> SUFFICES ASSUME phase = "attached"
             PROVE  /\ \A n \in 1..sent' : Passed(n, Len(down))'
                    /\ \A j \in 1..Len(down)' : \A n \in 1..(down'[j] - 1) : Passed(n, j - 1)'
  BY <1>4 DEF StreamInv
<1>6. down' = down \o rows \/ down' = down \o (rows \o <<Fault>>)
  BY DEF ReadRows, Stream
<1> HIDE DEF base, count, rows
<1>7. /\ Len(down') \in {Len(down) + count, Len(down) + count + 1}
      /\ \A i \in 1..Len(down) : down'[i] = down[i]
      /\ \A i \in 1..count : down'[Len(down) + i] = base + i
      /\ \A i \in 1..Len(down') : i > Len(down) + count => down'[i] = 0
  <2>1. CASE down' = down \o rows
    <3>1. /\ Len(down') = Len(down) + count
          /\ \A i \in 1..Len(down) + count : down'[i] = IF i <= Len(down) THEN down[i]
                                                       ELSE rows[i - Len(down)]
      <4>1. down \in Seq(Nat)
        BY Numbers
      <4> QED  BY <1>3, <2>1, <4>1, ConcatProperties
    <3>2. Len(down) \in Nat /\ count \in Nat
      BY <1>1, Numbers
    <3>3. \A i \in 1..Len(down) : down'[i] = down[i]
      BY <3>1, <3>2
    <3>4. ASSUME NEW i \in 1..count PROVE down'[Len(down) + i] = base + i
      <4>1. Len(down) + i \in 1..Len(down) + count /\ ~(Len(down) + i <= Len(down))
            /\ (Len(down) + i) - Len(down) = i
        BY <3>2
      <4> QED  BY <1>3, <3>1, <4>1
    <3> QED  BY <3>1, <3>2, <3>3, <3>4
  <2>2. CASE down' = down \o (rows \o <<Fault>>)
    <3>1. <<Fault>> \in Seq(Nat) /\ Len(<<Fault>>) = 1 /\ <<Fault>>[1] = 0
      BY DEF Fault
    <3>2. /\ rows \o <<Fault>> \in Seq(Nat) /\ Len(rows \o <<Fault>>) = count + 1
          /\ \A i \in 1..count : (rows \o <<Fault>>)[i] = base + i
          /\ (rows \o <<Fault>>)[count + 1] = 0
      BY <1>1, <1>3, <3>1, ConcatProperties
    <3> DEFINE more == rows \o <<Fault>>
    <3> HIDE DEF more
    <3>3. /\ Len(down') = Len(down) + (count + 1)
          /\ \A i \in 1..Len(down) + (count + 1) : down'[i] = IF i <= Len(down) THEN down[i]
                                                             ELSE more[i - Len(down)]
      <4>1. down \in Seq(Nat)
        BY Numbers
      <4>2. more \in Seq(Nat) /\ Len(more) = count + 1 /\ down' = down \o more
        BY <2>2, <3>2 DEF more
      <4>3. /\ Len(down \o more) = Len(down) + Len(more)
            /\ \A i \in 1..Len(down) + Len(more) :
                 (down \o more)[i] = IF i <= Len(down) THEN down[i] ELSE more[i - Len(down)]
        BY <4>1, <4>2, ConcatProperties
      <4> QED  BY <4>2, <4>3
    <3>4. Len(down) \in Nat /\ count \in Nat
      BY <1>1, Numbers
    <3>5. \A i \in 1..Len(down) : down'[i] = down[i]
      BY <3>3, <3>4
    <3>6. ASSUME NEW i \in 1..count PROVE down'[Len(down) + i] = base + i
      <4>1. Len(down) + i \in 1..Len(down) + (count + 1) /\ ~(Len(down) + i <= Len(down))
            /\ (Len(down) + i) - Len(down) = i
        BY <3>4
      <4>2. more[i] = base + i
        BY <3>2 DEF more
      <4> QED  BY <3>3, <4>1, <4>2
    <3>7. ASSUME NEW i \in 1..Len(down'), i > Len(down) + count PROVE down'[i] = 0
      <4>1. i = Len(down) + (count + 1) /\ ~(i <= Len(down)) /\ i - Len(down) = count + 1
        BY <3>3, <3>4, <3>7
      <4>2. i \in 1..Len(down) + (count + 1)
        BY <3>4, <4>1
      <4>3. more[count + 1] = 0
        BY <3>2 DEF more
      <4> QED  BY <3>3, <4>1, <4>2, <4>3
    <3>8. Len(down') = Len(down) + count + 1
      BY <3>3, <3>4
    <3> QED  BY <3>5, <3>6, <3>7, <3>8
  <2> QED  BY <1>6, <2>1, <2>2
<1>8. ASSUME NEW n \in Nat, n # 0, n <= base + count
      PROVE  n <= cursor \/ n <= trimmed \/ \E i \in 1..Len(down) + count : down'[i] = n
  <2>1. CASE n <= sent
    <3>1. Passed(n, Len(down))
      BY <1>8, <2>1, Numbers DEF StreamInv
    <3>2. \A i \in 1..Len(down) : i \in 1..Len(down) + count /\ down'[i] = down[i]
      BY <1>1, <1>7, Numbers
    <3> QED  BY <3>1, <3>2 DEF Passed
  <2>2. CASE n > sent /\ n <= base
    BY <1>5, <2>2
  <2>3. CASE n > base
    <3>1. n - base \in 1..count /\ n = base + (n - base)
      BY <1>1, <1>8, <2>3
    <3>2. Len(down) + (n - base) \in 1..Len(down) + count
      BY <1>1, <3>1, Numbers
    <3> QED  BY <1>7, <3>1, <3>2
  <2> QED  BY <1>1, <2>1, <2>2, <2>3, Numbers
<1>9. ASSUME NEW n \in 1..sent' PROVE Passed(n, Len(down))'
  <2>1. n \in Nat /\ n # 0 /\ n <= base + count
    BY <1>1, <1>2, Numbers
  <2>2. n <= cursor \/ n <= trimmed \/ \E i \in 1..Len(down) + count : down'[i] = n
    BY <1>8, <2>1
  <2> QED  BY <1>1, <1>4, <1>7, <2>2, Numbers DEF Passed
<1>10. ASSUME NEW j \in 1..Len(down)', NEW n \in 1..(down'[j] - 1) PROVE Passed(n, j - 1)'
  <2>1. CASE j <= Len(down)
    <3>1. down'[j] = down[j] /\ j \in 1..Len(down)
      BY <1>7, <2>1, Numbers
    <3>2. Passed(n, j - 1)
      BY <3>1 DEF StreamInv
    <3>3. \A i \in 1..(j - 1) : down'[i] = down[i]
      BY <1>7, <3>1, Numbers
    <3> QED  BY <1>4, <3>2, <3>3 DEF Passed
  <2>2. CASE j > Len(down) + count
    <3>1. down'[j] = 0
      BY <1>7, <2>2
    <3> QED  BY <3>1
  <2>3. CASE j > Len(down) /\ j <= Len(down) + count
    <3> DEFINE k == j - Len(down)
    <3>1. k \in 1..count /\ j = Len(down) + k
      BY <1>1, <2>3, Numbers
    <3>2. down'[j] = base + k
      BY <1>7, <3>1
    <3>3. n \in Nat /\ n # 0 /\ n < base + k
      BY <1>1, <3>1, <3>2
    <3>4. CASE n > base
      <4>1. n - base \in 1..count /\ n = base + (n - base) /\ Len(down) + (n - base) \in 1..(j - 1)
        BY <1>1, <3>1, <3>3, <3>4, Numbers
      <4> QED  BY <1>7, <4>1 DEF Passed
    <3>5. CASE n <= base /\ n > sent
      BY <1>4, <1>5, <3>3, <3>5 DEF Passed
    <3>6. CASE n <= sent
      <4>1. Passed(n, Len(down))
        BY <3>3, <3>6, Numbers DEF StreamInv
      <4>2. \A i \in 1..Len(down) : down'[i] = down[i] /\ i \in 1..(j - 1)
        BY <1>7, <3>1, Numbers
      <4> QED  BY <1>4, <4>1, <4>2 DEF Passed
    <3> QED  BY <1>1, <3>3, <3>4, <3>5, <3>6, Numbers
  <2> QED  BY <1>1, <1>7, <2>1, <2>2, <2>3, Numbers
<1> QED  BY <1>9, <1>10

\* The relay takes the first event under way: what lies between its cursor and
\* that event was trimmed, and what it takes it processes.
LEMMA ReceiveSkips ==
  ASSUME TypeOK, ChannelInv, SkipInv, Receive
  PROVE  SkipInv'
<1> DEFINE n == Head(down)
<1>1. /\ Len(down) \in Nat \ {0} /\ n = down[1] /\ n \in Nat /\ n # 0
      /\ Len(Tail(down)) = Len(down) - 1
      /\ \A i \in 1..(Len(down) - 1) : Tail(down)[i] = down[i + 1]
  BY Numbers, HeadTailProperties DEF Receive, Fault
<1>2. down' = Tail(down) /\ phase = "attached" /\ sent' = sent
  BY DEF Receive
<1>3. events' = events /\ trimmed' = trimmed /\ floor' = floor
  BY DEF Receive, storeVars
<1>4. cursor' = IF n > cursor THEN n ELSE cursor
  BY DEF Receive
<1>5. delivered \in Seq(Nat)
  BY DEF TypeOK, RelayTypes
<1>6. \A i \in DOMAIN delivered : i \in DOMAIN delivered' /\ delivered'[i] = delivered[i]
  <2>1. CASE delivered' = delivered
    BY <2>1
  <2>2. CASE delivered' = Append(delivered, n)
    <3>1. /\ Len(delivered') = Len(delivered) + 1
          /\ \A i \in 1..Len(delivered) : delivered'[i] = delivered[i]
          /\ delivered' \in Seq(Nat)
      BY <1>1, <1>5, <2>2, AppendProperties
    <3> QED  BY SMTT(60), <1>5, <3>1, LenProperties
  <2> QED  BY <2>1, <2>2 DEF Receive
<1>7. outbox' \cap submitted \subseteq outbox
  BY DEF Receive
<1>8. ASSUME NEW k \in Nat, k = n, k > cursor PROVE Processed(k)'
  <2>1. CASE events[k].kind = "receipt"
    <3>1. outbox' = outbox \ {events[k].op}
      BY <1>8, <2>1 DEF Receive
    <3> QED  BY <1>3, <2>1, <3>1 DEF Processed
  <2>2. CASE events[k].kind # "receipt"
    <3>1. delivered' = Append(delivered, k)
      BY <1>8, <2>2 DEF Receive
    <3>2. /\ delivered' \in Seq(Nat) /\ Len(delivered') = Len(delivered) + 1
          /\ delivered'[Len(delivered) + 1] = k /\ Len(delivered) \in Nat
      BY <1>1, <1>5, <3>1, AppendProperties, LenProperties
    <3>3. Len(delivered) + 1 \in DOMAIN delivered'
      BY <3>2, LenProperties
    <3> QED  BY <1>3, <2>2, <3>2, <3>3 DEF Processed
  <2> QED  BY <2>1, <2>2
<1>9. ASSUME NEW m \in 1..cursor' PROVE Processed(m)' \/ m <= trimmed'
  <2>1. CASE m <= cursor
    <3>1. m \in 1..cursor
      BY <1>4, <2>1, Numbers
    <3>2. CASE Processed(m)
      BY <1>3, <1>6, <1>7, <3>1, <3>2, ProcessedStays
    <3>3. CASE m <= trimmed
      BY <1>3, <3>3
    <3> QED  BY <3>1, <3>2, <3>3 DEF SkipInv, SkippedWasTrimmed
  <2>2. CASE m > cursor /\ m < n
    <3>1. 1 \in 1..Len(down) /\ m \in 1..(down[1] - 1)
      BY <1>1, <2>2, Numbers
    <3>2. Passed(m, 1 - 1)
      BY <1>2, <3>1 DEF SkipInv, StreamInv
    <3>3. ~ \E i \in 1..(1 - 1) : down[i] = m
      OBVIOUS
    <3> QED  BY <1>3, <2>2, <3>2, <3>3, Numbers DEF Passed
  <2>3. CASE m > cursor /\ m = n
    BY <1>8, <2>3, Numbers
  <2> QED  BY <1>1, <1>4, <2>1, <2>2, <2>3, Numbers
<1>10. ASSUME NEW m \in Nat, NEW j \in Nat, j # 0, j <= Len(down), Passed(m, j)
       PROVE  m <= cursor' \/ m <= trimmed' \/ \E i \in 1..(j - 1) : down'[i] = m
  <2>1. CASE m <= cursor \/ m <= trimmed
    BY <1>1, <1>3, <1>4, <2>1, Numbers
  <2>2. CASE \E i \in 1..j : down[i] = m
    <3>1. PICK i \in 1..j : down[i] = m
      BY <2>2
    <3>2. CASE i = 1
      BY <1>1, <1>4, <3>1, <3>2, Numbers
    <3>3. CASE i # 1
      <4>1. i - 1 \in 1..(j - 1) /\ i - 1 \in 1..(Len(down) - 1) /\ (i - 1) + 1 = i
        BY <1>1, <1>10, <3>3
      <4> QED  BY <1>1, <1>2, <3>1, <4>1
    <3> QED  BY <3>2, <3>3
  <2> QED  BY <1>10, <2>1, <2>2 DEF Passed
<1>11. Len(down') = Len(down) - 1
  BY <1>1, <1>2
<1>12. ASSUME NEW m \in 1..sent' PROVE Passed(m, Len(down))'
  <2>1. Passed(m, Len(down)) /\ m \in Nat
    BY <1>2, Numbers DEF SkipInv, StreamInv
  <2>2. Len(down) \in Nat /\ Len(down) # 0 /\ Len(down) <= Len(down)
    BY <1>1
  <2>3. m <= cursor' \/ m <= trimmed' \/ \E i \in 1..(Len(down) - 1) : down'[i] = m
    BY <1>10, <2>1, <2>2
  <2> QED  BY <1>11, <2>3 DEF Passed
<1>13. ASSUME NEW j \in 1..Len(down)', NEW m \in 1..(down'[j] - 1) PROVE Passed(m, j - 1)'
  <2>1. j + 1 \in 1..Len(down) /\ down'[j] = down[j + 1] /\ j \in 1..(Len(down) - 1)
    BY <1>1, <1>2, <1>11
  <2>2. Passed(m, (j + 1) - 1)
    BY <1>2, <2>1 DEF SkipInv, StreamInv
  <2>3. (j + 1) - 1 = j /\ j \in Nat /\ j # 0 /\ j <= Len(down) /\ m \in Nat
    BY SMTT(60), <1>1, <2>1, Numbers
  <2>4. m <= cursor' \/ m <= trimmed' \/ \E i \in 1..(j - 1) : down'[i] = m
    BY <1>10, <2>2, <2>3
  <2> QED  BY <2>4 DEF Passed
<1> QED  BY <1>3, <1>9, <1>12, <1>13 DEF SkipInv, SkippedWasTrimmed, StreamInv

\* Appending a record trims no more than the floor says, and nothing else moves.
LEMMA AppendingSkips ==
  ASSUME TypeOK, ChannelInv, SkipInv, NEW r \in Record, AppendRecord(r),
         UNCHANGED <<relayVars, linkVars>>
  PROVE  SkipInv'
<1>1. /\ events \in Seq(Record) /\ Len(events) \in Nat
      /\ \A m \in 1..Len(events) : events'[m] = events[m]
  BY Numbers, AppendProperties DEF AppendRecord, TypeOK, StoreTypes
<1>2. trimmed' \in Nat /\ trimmed <= trimmed' /\ trimmed' <= floor'
  BY <1>1, Numbers, LimitsAssumption DEF AppendRecord, SkipInv, LimitsAssumption
<1>3. SkippedWasTrimmed'
  BY <1>1, <1>2, SkippedStays DEF SkipInv, relayVars
<1>4. StreamInv'
  BY <1>2, StreamStays DEF SkipInv, relayVars, linkVars
<1> QED  BY <1>2, <1>3, <1>4 DEF SkipInv

\* Acknowledging only moves the floor up.
LEMMA AcknowledgingSkips ==
  ASSUME TypeOK, ChannelInv, SkipInv, NEW n \in Nat, Acknowledge(n),
         UNCHANGED <<relayVars, down, sent>>
  PROVE  SkipInv'
<1>1. floor <= floor' /\ floor' \in Nat
  BY Numbers, LimitsAssumption DEF Acknowledge, Larger, Smaller, LimitsAssumption
<1>2. events' = events /\ trimmed' = trimmed
  BY DEF Acknowledge
<1>3. trimmed' \in Nat /\ trimmed <= trimmed' /\ trimmed' <= floor'
  BY <1>1, <1>2, Numbers DEF SkipInv
<1>4. SkippedWasTrimmed'
  BY <1>2, <1>3, SkippedStays DEF SkipInv, relayVars
<1>5. StreamInv'
  BY <1>3, StreamStays DEF SkipInv, relayVars
<1> QED  BY <1>3, <1>4, <1>5 DEF SkipInv

\* A step that moves neither the cursor nor the floor, and leaves the stream
\* alone unless it lets go of it.
LEMMA QuietSkips ==
  ASSUME TypeOK, ChannelInv, SkipInv,
         UNCHANGED <<cursor, delivered, events, floor, trimmed>>,
         outbox' \cap submitted \subseteq outbox,
         phase' = "attached" => phase = "attached" /\ UNCHANGED <<sent, down>>
  PROVE  SkipInv'
<1>1. trimmed' \in Nat /\ trimmed <= trimmed' /\ trimmed' <= floor'
  BY Numbers DEF SkipInv
<1>2. SkippedWasTrimmed'
  BY <1>1, SkippedStays DEF SkipInv
<1>3. StreamInv'
  <2>1. CASE phase' = "attached"
    BY <1>1, <2>1, StreamStays DEF SkipInv
  <2>2. CASE phase' # "attached"
    BY <2>2 DEF StreamInv
  <2> QED  BY <2>1, <2>2
<1> QED  BY <1>1, <1>2, <1>3 DEF SkipInv

\* A new attachment streams from the cursor on.
LEMMA SupersedeSkips ==
  ASSUME TypeOK, ChannelInv, SkipInv, Supersede,
         UNCHANGED <<submitted, outbox, cursor, delivered, storeVars>>
  PROVE  SkipInv'
<1>1. sent' = cursor /\ down' = <<>>
  BY DEF Supersede
<1>2. UNCHANGED <<events, floor, trimmed>>
  BY DEF storeVars
<1>3. trimmed' \in Nat /\ trimmed <= trimmed' /\ trimmed' <= floor'
  BY <1>2, Numbers DEF SkipInv
<1>4. SkippedWasTrimmed'
  BY <1>2, <1>3, SkippedStays DEF SkipInv
<1>5. StreamInv'
  <2>1. Len(down') = 0
    BY <1>1
  <2>2. \A n \in 1..sent' : Passed(n, Len(down))'
    BY <1>1, Numbers DEF Passed
  <2>3. 1..Len(down') = {}
    BY <2>1
  <2> QED  BY <2>2, <2>3 DEF StreamInv
<1> QED  BY <1>3, <1>4, <1>5 DEF SkipInv

\* A fault is streamed by a step that moves nothing else of this.
LEMMA FaultStepSkips ==
  ASSUME TypeOK, ChannelInv, SkipInv, UNCHANGED <<relayVars, storeVars, sent>>,
         down' = Stream(<<Fault>>)
  PROVE  SkipInv'
<1>1. UNCHANGED <<phase, outbox, cursor, delivered, events, floor, trimmed>>
  BY DEF relayVars, storeVars
<1>2. StreamInv'
  BY <1>1, FaultSkips DEF SkipInv
<1>3. trimmed' \in Nat /\ trimmed <= trimmed' /\ trimmed' <= floor'
  BY <1>1, Numbers DEF SkipInv
<1>4. SkippedWasTrimmed'
  BY <1>1, <1>3, SkippedStays DEF SkipInv
<1> QED  BY <1>2, <1>3, <1>4 DEF SkipInv

LEMMA RelaySkips == TypeOK /\ ChannelInv /\ SkipInv /\ RelayNext => SkipInv'
<1> SUFFICES ASSUME TypeOK, ChannelInv, SkipInv, RelayNext PROVE SkipInv'
  OBVIOUS
<1>0. UNCHANGED <<actorVars, storeVars, backendVars>>
  BY DEF RelayNext, Submit, OutboxFull, Receive, ReceiveFault, LoseConnection, Inspect,
         AttachFails, AttachStopped, Reattach, AttachLost, Close, RelayFails
<1>1. UNCHANGED <<events, floor, trimmed>>
  BY <1>0 DEF storeVars
<1>2. ASSUME NEW o \in Ops, Submit(o) PROVE SkipInv'
  <2>1. outbox' \cap submitted \subseteq outbox
    BY <1>2 DEF Submit
  <2> QED  BY <1>1, <1>2, <2>1, QuietSkips DEF Submit
<1>3. ASSUME NEW o \in Ops, OutboxFull(o) PROVE SkipInv'
  BY <1>1, <1>3, QuietSkips DEF OutboxFull
<1>4. CASE Receive
  BY <1>4, ReceiveSkips
<1>5. CASE ReceiveFault
  BY <1>1, <1>5, QuietSkips DEF ReceiveFault
<1>6. CASE LoseConnection
  BY <1>1, <1>6, QuietSkips DEF LoseConnection
<1>7. CASE Inspect
  <2>1. phase' # "attached" /\ UNCHANGED <<outbox, cursor, delivered>>
    BY <1>7 DEF Inspect
  <2> QED  BY <1>1, <2>1, QuietSkips
<1>8. CASE AttachFails
  <2>1. phase' # "attached" /\ UNCHANGED <<outbox, cursor, delivered>>
    BY <1>8 DEF AttachFails
  <2> QED  BY <1>1, <2>1, QuietSkips
<1>9. CASE AttachStopped
  BY <1>1, <1>9, QuietSkips DEF AttachStopped
<1>10. CASE Reattach
  BY <1>0, <1>10, SupersedeSkips DEF Reattach
<1>11. CASE AttachLost
  BY <1>0, <1>11, SupersedeSkips DEF AttachLost
<1>12. CASE Close
  BY <1>1, <1>12, QuietSkips DEF Close
<1>13. CASE RelayFails
  BY <1>1, <1>13, QuietSkips DEF RelayFails
<1> QED  BY <1>2, <1>3, <1>4, <1>5, <1>6, <1>7, <1>8, <1>9, <1>10, <1>11, <1>12, <1>13
         DEF RelayNext

LEMMA ConnectionSkips == TypeOK /\ ChannelInv /\ SkipInv /\ ConnectionNext => SkipInv'
<1> SUFFICES ASSUME TypeOK, ChannelInv, SkipInv, ConnectionNext PROVE SkipInv'
  OBVIOUS
<1>1. ASSUME UNCHANGED <<relayVars, storeVars, down, sent>> PROVE SkipInv'
  BY <1>1, QuietSkips DEF relayVars, storeVars
<1>2. CASE ReadFloor
  <2>1. CASE sent < floor
    BY <1>2, <2>1, FaultStepSkips DEF ReadFloor
  <2>2. CASE ~(sent < floor)
    BY <1>1, <1>2, <2>2 DEF ReadFloor
  <2> QED  BY <2>1, <2>2
<1>3. CASE ReadRows
  <2>1. UNCHANGED <<outbox, cursor, delivered, events, floor, trimmed>>
    BY <1>3 DEF ReadRows, relayVars, storeVars
  <2>2. trimmed' \in Nat /\ trimmed <= trimmed' /\ trimmed' <= floor'
    BY <2>1, Numbers DEF SkipInv
  <2>3. SkippedWasTrimmed'
    BY <2>1, <2>2, SkippedStays DEF SkipInv
  <2>4. StreamInv'
    BY <1>3, RowsSkip DEF SkipInv
  <2> QED  BY <2>2, <2>3, <2>4 DEF SkipInv
<1>4. CASE Wake
  BY <1>1, <1>4 DEF Wake
<1>5. CASE HandleExecute
  <2>1. UNCHANGED <<relayVars, storeVars, sent>> /\ (down' = down \/ down' = Stream(<<Fault>>))
    BY <1>5 DEF HandleExecute
  <2> QED  BY <1>1, <2>1, FaultStepSkips
<1>6. CASE HandleAck
  <2>1. UNCHANGED <<relayVars, down, sent>> /\ Acknowledge(Head(up).cursor)
        /\ up # <<>> /\ Head(up).type = "ack"
    BY <1>6 DEF HandleAck
  <2>2. Head(up) \in SoundFrame
    BY <2>1, HeadTailProperties DEF ChannelInv, WireInv
  <2>3. Head(up).cursor \in Nat
    BY <2>1, <2>2, SoundReading, Numbers
  <2> QED  BY <2>1, <2>3, AcknowledgingSkips
<1>7. CASE HandleDetach
  BY <1>1, <1>7 DEF HandleDetach
<1>8. CASE ConnectionEnds
  BY <1>1, <1>8 DEF ConnectionEnds
<1>9. ASSUME NEW e \in 1..MaxEpoch, LateExecute(e) PROVE SkipInv'
  BY <1>1, <1>9 DEF LateExecute
<1>10. ASSUME NEW e \in 1..MaxEpoch, LateAck(e) PROVE SkipInv'
  <2>1. UNCHANGED <<relayVars, down, sent>> /\ Acknowledge(late[e].cursor) /\ late[e].type = "ack"
    BY <1>10 DEF LateAck
  <2>2. late[e] \in SoundFrame
    BY DEF ChannelInv, WireInv
  <2>3. late[e].cursor \in Nat
    BY <2>1, <2>2, SoundReading, Numbers
  <2> QED  BY <2>1, <2>3, AcknowledgingSkips
<1> QED  BY <1>2, <1>3, <1>4, <1>5, <1>6, <1>7, <1>8, <1>9, <1>10 DEF ConnectionNext

LEMMA ActorSkips == TypeOK /\ ChannelInv /\ SkipInv /\ ActorNext => SkipInv'
<1> SUFFICES ASSUME TypeOK, ChannelInv, SkipInv, ActorNext PROVE SkipInv'
  OBVIOUS
<1>1. ASSUME UNCHANGED <<relayVars, down, sent, events, floor, trimmed>> PROVE SkipInv'
  BY <1>1, QuietSkips DEF relayVars
<1>2. CASE Take \/ Begin \/ Refuse \/ Send \/ Settle
  BY <1>1, <1>2 DEF Take, Begin, Refuse, Send, Settle, linkVars, storeVars
<1>3. ASSUME NEW o \in Ops, Collect(o) PROVE SkipInv'
  BY <1>1, <1>3 DEF Collect, linkVars, storeVars
<1>4. CASE Complete \/ Link \/ ActorFails \/ ActorStops \/ ServiceRestart
  BY <1>1, <1>4 DEF Complete, Link, ActorFails, ActorStops, ServiceRestart, linkVars, storeVars
<1>5. Response(op) \in Record /\ Receipt(op) \in Record /\ Note \in Record
  BY Building DEF TypeOK, ActorTypes
<1>6. CASE Respond
  BY <1>5, <1>6, AppendingSkips DEF Respond
<1>7. CASE Accept
  BY <1>5, <1>7, AppendingSkips DEF Accept
<1>8. CASE Publish
  BY <1>5, <1>8, AppendingSkips DEF Publish
<1>9. CASE CollectNote
  BY <1>5, <1>9, AppendingSkips DEF CollectNote
<1> QED  BY <1>2, <1>3, <1>4, <1>6, <1>7, <1>8, <1>9 DEF ActorNext

LEMMA InitSkips == Init => SkipInv
<1> SUFFICES ASSUME Init PROVE SkipInv
  OBVIOUS
<1>1. cursor = 0 /\ trimmed = 0 /\ floor = 0 /\ phase = "attaching"
  BY DEF Init
<1> QED  BY <1>1 DEF SkipInv, SkippedWasTrimmed, StreamInv

LEMMA StepSkips == TypeOK /\ ChannelInv /\ SkipInv /\ [Next]_vars => SkipInv'
<1> SUFFICES ASSUME TypeOK, ChannelInv, SkipInv, [Next]_vars PROVE SkipInv'
  OBVIOUS
<1>1. CASE Next
  BY <1>1, RelaySkips, ConnectionSkips, ActorSkips DEF Next
<1>2. CASE UNCHANGED vars
  BY <1>2, QuietSkips DEF vars, relayVars, linkVars, storeVars
<1> QED  BY <1>1, <1>2

\* An event that the relay's cursor passed without effect on the frontend or
\* the outbox was removed for lack of capacity, never by an acknowledgement and
\* never on the wire (relay.rs Frame::Event, execution_events, retention.rs).
THEOREM SkippedWasAlwaysTrimmed == Spec => []SkippedWasTrimmed
<1>1. Spec => []TypeOK
  BY TypeCorrect
<1>2. Spec => []ChannelInv
  BY ChannelInvariant
<1>3. SkipInv => SkippedWasTrimmed
  BY DEF SkipInv
<1> QED  BY InitSkips, StepSkips, <1>1, <1>2, <1>3, PTL DEF Spec
=============================================================================
