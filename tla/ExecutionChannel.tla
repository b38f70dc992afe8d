-------------------------- MODULE ExecutionChannel --------------------------
(***************************************************************************)
(* One execution channel, from the native Codex frontend on the local      *)
(* machine to the exec-server process on the remote one:                   *)
(*                                                                         *)
(*   relay       client/src/remote/bridge/relay.rs: the outbox of frames   *)
(*               whose receipt has not been seen, the replay cursor, and   *)
(*               reconnection with retransmission of the whole outbox;     *)
(*   connection  server/src/frontend.rs: one task per attachment, numbered *)
(*               by Execution::epoch, that streams stored events and hands *)
(*               frames to the actor;                                      *)
(*   actor       server/src/execution/{actor,operations}.rs: the only      *)
(*               writer of the channel, one store statement per step;      *)
(*   store       server/src/storage: the operations, exec_events and       *)
(*               execution_channels tables, which outlive the process;     *)
(*   backend     the exec-server, as the actor uses it.                    *)
(*                                                                         *)
(* A connection may die at any time with frames in either direction still  *)
(* under way; the service may be killed between any two statements.        *)
(*                                                                         *)
(* Abstracted: the payload of a message (an operation is its identity and  *)
(* the class of its method), the byte size of a record (every record has   *)
(* size one), the numbering of exec_events across channels (cursors count  *)
(* this channel's events from one), heartbeats, jobs and idle timers (they *)
(* can only end the actor: ActorFails).                                    *)
(***************************************************************************)
EXTENDS Naturals, Sequences, FiniteSets

CONSTANTS
  Requests,      \* operations with a method and an id: the backend answers
  OneWay,        \* notifications and replies to the backend: no answer
  Refused,       \* operations that policy::validate or a grant check refuses
  OutboxLimit,   \* unreceipted frames the relay holds          (relay.rs: 64)
  QueueSize,     \* inputs waiting for the actor        (execution/mod.rs: 64)
  PendingLimit,  \* requests the backend has not answered (operations.rs: 64)
  Batch,         \* events read from the store at a time  (execution.rs: 64)
  Window,        \* acknowledged events kept             (retention.rs: 128)
  Capacity,      \* events kept at all                  (retention.rs: 8 MiB)
  MaxEpoch,      \* bound: attachments of the relay to the channel
  MaxNotes       \* bound: notifications the backend emits

Ops == Requests \union OneWay \union Refused

ASSUME OpsAssumption ==
  /\ Ops \subseteq Nat     \* an operation id is a uuid; the outbox sorts them
  /\ Requests \intersect OneWay = {}
  /\ Refused \intersect (Requests \union OneWay) = {}

ASSUME LimitsAssumption ==
  /\ OutboxLimit \in Nat \ {0} /\ QueueSize \in Nat \ {0} /\ PendingLimit \in Nat \ {0}
  /\ Batch \in Nat \ {0} /\ Capacity \in Nat \ {0}
  /\ Window \in Nat /\ MaxEpoch \in Nat /\ MaxNotes \in Nat

VARIABLES
  \* relay
  phase,       \* what the relay is doing with its connection
  submitted,   \* operations taken from the frontend (history)
  outbox,      \* operations whose receipt the relay has not seen
  cursor,      \* last event the relay processed
  delivered,   \* cursors of the events given to the frontend, in order (history)
  \* the connection of the newest attachment, and what older ones still hold
  epoch,       \* Execution::epoch, the number of attachments so far
  up,          \* frames under way from the relay to the server
  down,        \* cursors of the events under way to the relay; Fault ends them
  sent,        \* cursor of the connection task
  srv,         \* where the connection task is in its loop
  late,        \* frame that the task of a superseded attachment may still read
  \* actor
  alive,       \* the actor's life: serving, draining, stopped
  inbox,       \* Input::Execute waiting for the actor
  step,        \* next statement of the dispatch or collect under way
  op,          \* the operation it is about
  pending,     \* requests handed to the backend and not answered
  \* store
  operations,  \* result column: none (no row), open (NULL), stored, or null
  linked,      \* event_cursor column, 0 for NULL
  events,      \* every record ever appended to exec_events
  floor,       \* replay_floor; the rows kept are those above it
  trimmed,     \* highest row removed for lack of capacity (history)
  channel,     \* state column of execution_channels
  \* backend
  running,     \* requests the backend is working on
  runs,        \* times the backend was given each operation (history)
  notes        \* notifications it has emitted

relayVars == <<phase, submitted, outbox, cursor, delivered>>
linkVars == <<epoch, up, down, sent, srv, late>>
actorVars == <<alive, inbox, step, op, pending>>
storeVars == <<operations, linked, events, floor, trimmed, channel>>
backendVars == <<running, runs, notes>>
vars == <<relayVars, linkVars, actorVars, storeVars, backendVars>>

-----------------------------------------------------------------------------
(***************************************************************************)
(* Frames and records.                                                     *)
(***************************************************************************)
Execute(o) == [type |-> "execute", op |-> o]
Ack(n) == [type |-> "ack", cursor |-> n]
Detach == [type |-> "detach"]
NoFrame == [type |-> "none"]
Frame == [type : {"execute"}, op : Ops] \union [type : {"ack"}, cursor : Nat]
           \union {Detach, NoFrame}

Fault == 0      \* Frame::Error among the cursors under way to the relay

Receipt(o) == [kind |-> "receipt", op |-> o]
Response(o) == [kind |-> "response", op |-> o]
Note == [kind |-> "note"]
Record == [kind : {"receipt", "response"}, op : Ops] \union {Note}

Larger(m, n) == IF m >= n THEN m ELSE n
Smaller(m, n) == IF m <= n THEN m ELSE n

\* The frames of a BTreeMap keyed by operation: its keys in increasing order.
Listings(S) == {s \in [1..Cardinality(S) -> S] :
                  \A i, j \in 1..Cardinality(S) : i < j => s[i] < s[j]}

\* Store::append_record: insert, then drop the oldest rows above the capacity.
AppendRecord(r) ==
  LET overflow == (Len(events) + 1) - Capacity IN
  /\ events' = Append(events, r)
  /\ floor' = IF Len(events) + 1 > floor + Capacity THEN overflow ELSE floor
  /\ trimmed' = IF Len(events) + 1 > floor + Capacity THEN overflow ELSE trimmed

\* Store::acknowledge_events: drop acknowledged rows except the newest Window
\* ones, and reduce the stored results of acknowledged responses to null.  It
\* is two transactions; no statement of the actor reads what both write.
Acknowledge(n) ==
  /\ floor' = IF Len(events) > Window
                THEN Larger(floor, Smaller(n, Len(events) - Window))
                ELSE floor
  /\ operations' = [o \in Ops |-> IF linked[o] \in 1..n THEN "null" ELSE operations[o]]
  /\ UNCHANGED <<linked, events, trimmed, channel>>

-----------------------------------------------------------------------------
Init ==
  /\ phase = "attaching"
  /\ submitted = {} /\ outbox = {}
  /\ cursor = 0 /\ delivered = <<>>
  /\ epoch = 0 /\ up = <<>> /\ down = <<>> /\ sent = 0 /\ srv = "closed"
  /\ late = [e \in 1..MaxEpoch |-> NoFrame]
  /\ alive = "serving" /\ inbox = <<>> /\ step = "idle" /\ op \in Ops /\ pending = {}
  /\ operations = [o \in Ops |-> "none"]
  /\ linked = [o \in Ops |-> 0]
  /\ events = <<>> /\ floor = 0 /\ trimmed = 0 /\ channel = "running"
  /\ running = {} /\ runs = [o \in Ops |-> 0] /\ notes = 0

-----------------------------------------------------------------------------
(***************************************************************************)
(* The relay.                                                              *)
(***************************************************************************)

\* Bound: a connection is lost only while another attachment is allowed.
MayBreak == epoch < MaxEpoch

\* Mutant: the frame is kept for retransmission only if it was written.
SubmitUnqueued(o) ==
  /\ phase = "attached"
  /\ o \notin submitted
  /\ Cardinality(outbox) < OutboxLimit
  /\ submitted' = submitted \union {o}
  /\ \/ /\ up' = Append(up, Execute(o))
        /\ outbox' = outbox \union {o}
        /\ UNCHANGED phase
     \/ /\ MayBreak
        /\ phase' = "reconnecting"
        /\ UNCHANGED <<up, outbox>>
  /\ UNCHANGED <<cursor, delivered, epoch, down, sent, srv, late>>
  /\ UNCHANGED <<actorVars, storeVars, backendVars>>

\* A frame from the frontend enters the outbox, then the connection.
Submit(o) ==
  /\ phase = "attached"
  /\ o \notin submitted
  /\ Cardinality(outbox) < OutboxLimit
  /\ submitted' = submitted \union {o}
  /\ outbox' = outbox \union {o}
  /\ \/ /\ up' = Append(up, Execute(o))
        /\ UNCHANGED phase
     \/ /\ MayBreak
        /\ phase' = "reconnecting"
        /\ UNCHANGED up
  /\ UNCHANGED <<cursor, delivered, epoch, down, sent, srv, late>>
  /\ UNCHANGED <<actorVars, storeVars, backendVars>>

\* "execution queue is full": the relay gives the channel up.
OutboxFull(o) ==
  /\ phase = "attached"
  /\ o \notin submitted
  /\ Cardinality(outbox) >= OutboxLimit
  /\ phase' = "failed"
  /\ UNCHANGED <<submitted, outbox, cursor, delivered>>
  /\ UNCHANGED <<linkVars, actorVars, storeVars, backendVars>>

\* Mutant: only receipts advance the replay cursor.
ReceiveUncounted ==
  /\ phase = "attached"
  /\ down # <<>> /\ Head(down) # Fault
  /\ LET n == Head(down)
         new == n > cursor
         receipt == events[n].kind = "receipt"
     IN /\ outbox' = IF new /\ receipt THEN outbox \ {events[n].op} ELSE outbox
        /\ delivered' = IF new /\ ~receipt THEN Append(delivered, n) ELSE delivered
        /\ cursor' = IF new /\ receipt THEN n ELSE cursor
  /\ down' = Tail(down)
  /\ \/ /\ up' = Append(up, Ack(cursor'))
        /\ UNCHANGED phase
     \/ /\ MayBreak
        /\ phase' = "reconnecting"
        /\ UNCHANGED up
  /\ UNCHANGED <<submitted, epoch, sent, srv, late, actorVars, storeVars, backendVars>>

\* Frame::Event: a receipt clears the outbox, anything else goes to the
\* frontend; then the cursor advances and is acknowledged.
Receive ==
  /\ phase = "attached"
  /\ down # <<>> /\ Head(down) # Fault
  /\ LET n == Head(down)
         new == n > cursor
         receipt == events[n].kind = "receipt"
     IN /\ outbox' = IF new /\ receipt THEN outbox \ {events[n].op} ELSE outbox
        /\ delivered' = IF new /\ ~receipt THEN Append(delivered, n) ELSE delivered
        /\ cursor' = IF new THEN n ELSE cursor
  /\ down' = Tail(down)
  /\ \/ /\ up' = Append(up, Ack(cursor'))
        /\ UNCHANGED phase
     \/ /\ MayBreak
        /\ phase' = "reconnecting"
        /\ UNCHANGED up
  /\ UNCHANGED <<submitted, epoch, sent, srv, late, actorVars, storeVars, backendVars>>

\* Frame::Error ends the relay.
ReceiveFault ==
  /\ phase = "attached"
  /\ down # <<>> /\ Head(down) = Fault
  /\ phase' = "failed"
  /\ UNCHANGED <<submitted, outbox, cursor, delivered>>
  /\ UNCHANGED <<linkVars, actorVars, storeVars, backendVars>>

\* The stream ends, is silent for too long or ssh is unhealthy.
LoseConnection ==
  /\ phase = "attached"
  /\ MayBreak \/ (srv = "closed" /\ down = <<>>)
  /\ phase' = "reconnecting"
  /\ down' = <<>>
  /\ UNCHANGED <<submitted, outbox, cursor, delivered, epoch, up, sent, srv, late>>
  /\ UNCHANGED <<actorVars, storeVars, backendVars>>

\* reconnect_channel: Inspect the stored channel before attaching again.
Inspect ==
  /\ phase = "reconnecting"
  /\ phase' = IF channel = "running" /\ cursor >= floor THEN "attaching" ELSE "failed"
  /\ UNCHANGED <<submitted, outbox, cursor, delivered>>
  /\ UNCHANGED <<linkVars, actorVars, storeVars, backendVars>>

\* The server could not be reached; the first attachment is not retried.
AttachFails ==
  /\ phase = "attaching"
  /\ phase' = IF epoch = 0 THEN "failed" ELSE "reconnecting"
  /\ UNCHANGED <<submitted, outbox, cursor, delivered>>
  /\ UNCHANGED <<linkVars, actorVars, storeVars, backendVars>>

\* Service::execution and Execution::send refuse a stopped actor with an
\* unknown outcome.
AttachStopped ==
  /\ phase = "attaching"
  /\ alive = "stopped"
  /\ phase' = "failed"
  /\ UNCHANGED <<submitted, outbox, cursor, delivered>>
  /\ UNCHANGED <<linkVars, actorVars, storeVars, backendVars>>

\* Mutant: the stream starts at the newest event instead of the relay's cursor.
SupersedeAtEnd ==
  /\ phase = "attaching"
  /\ alive # "stopped"
  /\ epoch < MaxEpoch
  /\ epoch' = epoch + 1
  /\ late' = IF srv = "closed" \/ up = <<>> THEN late
             ELSE [late EXCEPT ![epoch] = Head(up)]
  /\ srv' = "floor"
  /\ sent' = Len(events)
  /\ down' = <<>>

\* The server side of an attachment: a new epoch supersedes the older task,
\* which may be past its check and read one more frame.
Supersede ==
  /\ phase = "attaching"
  /\ alive # "stopped"
  /\ epoch < MaxEpoch
  /\ epoch' = epoch + 1
  /\ late' = IF srv = "closed" \/ up = <<>> THEN late
             ELSE [late EXCEPT ![epoch] = Head(up)]
  /\ srv' = "floor"
  /\ sent' = cursor
  /\ down' = <<>>

\* Mutant: the outbox is not sent again.
ReattachOnly ==
  /\ Supersede
  /\ up' = <<>>
  /\ phase' = "attached"
  /\ UNCHANGED <<submitted, outbox, cursor, delivered, actorVars, storeVars, backendVars>>

\* The relay attaches and writes the outbox, in the order of the map, until
\* it is written or a write fails.
Reattach ==
  /\ Supersede
  /\ \E s \in Listings(outbox) : \E k \in 0..Cardinality(outbox) :
       /\ up' = [i \in 1..k |-> Execute(s[i])]
       /\ IF k = Cardinality(outbox) THEN phase' = "attached"
          ELSE epoch' < MaxEpoch /\ phase' = "reconnecting"
  /\ UNCHANGED <<submitted, outbox, cursor, delivered, actorVars, storeVars, backendVars>>

\* The server attached but its result did not reach the relay.
AttachLost ==
  /\ Supersede
  /\ epoch' < MaxEpoch
  /\ up' = <<>>
  /\ phase' = IF epoch = 0 THEN "failed" ELSE "reconnecting"
  /\ UNCHANGED <<submitted, outbox, cursor, delivered, actorVars, storeVars, backendVars>>

\* The frontend went away or the bridge stopped: Detach if attached.  The
\* first attachment is not interrupted.
Close ==
  /\ epoch > 0
  /\ phase \in {"attached", "reconnecting", "attaching"}
  /\ phase' = "closed"
  /\ up' = IF phase = "attached" THEN Append(up, Detach) ELSE up
  /\ UNCHANGED <<submitted, outbox, cursor, delivered, epoch, down, sent, srv, late>>
  /\ UNCHANGED <<actorVars, storeVars, backendVars>>

\* The frontend transport fails, or the recovery budget is spent.
RelayFails ==
  /\ phase \in {"attached", "reconnecting"}
  /\ phase' = "failed"
  /\ UNCHANGED <<submitted, outbox, cursor, delivered>>
  /\ UNCHANGED <<linkVars, actorVars, storeVars, backendVars>>

RelayNext ==
  \/ \E o \in Ops : Submit(o) \/ OutboxFull(o)
  \/ Receive \/ ReceiveFault \/ LoseConnection
  \/ Inspect \/ AttachFails \/ AttachStopped \/ Reattach \/ AttachLost
  \/ Close \/ RelayFails

-----------------------------------------------------------------------------
(***************************************************************************)
(* The connection task of the newest attachment.                           *)
(***************************************************************************)

\* What the relay will see of the stream: nothing once it has let go of it.
Stream(frames) == IF phase = "attached" THEN down \o frames ELSE <<>>

\* Store::execution_events reads replay_floor ...
ReadFloor ==
  /\ srv = "floor"
  /\ IF sent < floor
       THEN srv' = "closed" /\ down' = Stream(<<Fault>>)
       ELSE srv' = "rows" /\ UNCHANGED down
  /\ UNCHANGED <<epoch, up, sent, late, relayVars, actorVars, storeVars, backendVars>>

\* ... and then, in a statement of its own, the rows after the cursor.  They
\* are streamed; a dead actor is reported after them.
ReadRows ==
  /\ srv = "rows"
  /\ LET base == Larger(sent, floor)
         count == Smaller(Batch, Len(events) - base)
         rows == [i \in 1..count |-> base + i]
     IN /\ sent' = IF count = 0 THEN sent ELSE base + count
        /\ IF alive = "stopped"
             THEN srv' = "closed" /\ down' = Stream(rows \o <<Fault>>)
             ELSE srv' = "wait" /\ down' = Stream(rows)
  /\ UNCHANGED <<epoch, up, late, relayVars, actorVars, storeVars, backendVars>>

\* Execution::changed or the 250 ms timer.
Wake ==
  /\ srv = "wait"
  /\ srv' = "floor"
  /\ UNCHANGED <<epoch, up, down, sent, late>>
  /\ UNCHANGED <<relayVars, actorVars, storeVars, backendVars>>

\* Frame::Execute: Execution::send accepts it, or fails because the actor has
\* stopped or its queue, which touches fill too, has no room left; a failure
\* ends the connection.
HandleExecute ==
  /\ srv = "wait"
  /\ up # <<>> /\ Head(up).type = "execute"
  /\ up' = Tail(up)
  /\ \/ /\ alive # "stopped" /\ Len(inbox) < QueueSize
        /\ inbox' = Append(inbox, Head(up).op)
        /\ srv' = "floor"
        /\ UNCHANGED down
     \/ /\ srv' = "closed"
        /\ down' = Stream(<<Fault>>)
        /\ UNCHANGED inbox
  /\ UNCHANGED <<epoch, sent, late, alive, step, op, pending>>
  /\ UNCHANGED <<relayVars, storeVars, backendVars>>

\* Mutant: what was sent is taken for what was acknowledged.
HandleAckOfSent ==
  /\ srv = "wait"
  /\ up # <<>> /\ Head(up).type = "ack" /\ Head(up).cursor <= sent
  /\ up' = Tail(up)
  /\ Acknowledge(sent)
  /\ srv' = "floor"
  /\ UNCHANGED <<epoch, down, sent, late, relayVars, actorVars, backendVars>>

\* Frame::Ack up to what the task has sent.
HandleAck ==
  /\ srv = "wait"
  /\ up # <<>> /\ Head(up).type = "ack" /\ Head(up).cursor <= sent
  /\ up' = Tail(up)
  /\ Acknowledge(Head(up).cursor)
  /\ srv' = "floor"
  /\ UNCHANGED <<epoch, down, sent, late, relayVars, actorVars, backendVars>>

HandleDetach ==
  /\ srv = "wait"
  /\ up # <<>> /\ Head(up).type = "detach"
  /\ up' = Tail(up)
  /\ srv' = "closed"
  /\ UNCHANGED <<epoch, down, sent, late, relayVars, actorVars, storeVars, backendVars>>

\* The connection breaks, or the relay has let go of it.
ConnectionEnds ==
  /\ srv # "closed"
  /\ phase # "attached" \/ MayBreak
  /\ srv' = "closed"
  /\ UNCHANGED <<epoch, up, down, sent, late>>
  /\ UNCHANGED <<relayVars, actorVars, storeVars, backendVars>>

\* The task of a superseded attachment hands over the frame it was reading.
LateExecute(e) ==
  /\ late[e].type = "execute"
  /\ late' = [late EXCEPT ![e] = NoFrame]
  /\ \/ /\ alive # "stopped" /\ Len(inbox) < QueueSize
        /\ inbox' = Append(inbox, late[e].op)
     \/ UNCHANGED inbox
  /\ UNCHANGED <<epoch, up, down, sent, srv, alive, step, op, pending>>
  /\ UNCHANGED <<relayVars, storeVars, backendVars>>

LateAck(e) ==
  /\ late[e].type = "ack"
  /\ late' = [late EXCEPT ![e] = NoFrame]
  /\ Acknowledge(late[e].cursor)
  /\ UNCHANGED <<epoch, up, down, sent, srv, relayVars, actorVars, backendVars>>

ConnectionNext ==
  \/ ReadFloor \/ ReadRows \/ Wake
  \/ HandleExecute \/ HandleAck \/ HandleDetach \/ ConnectionEnds
  \/ \E e \in 1..MaxEpoch : LateExecute(e) \/ LateAck(e)

-----------------------------------------------------------------------------
(***************************************************************************)
(* The actor.  dispatch and collect are sequences of statements; other     *)
(* tasks, and the death of the process, come between any two of them.      *)
(***************************************************************************)
Serving == alive = "serving"
Collecting == alive \in {"serving", "draining"}

\* Mutant: a retransmitted operation is not looked up.
TakeAnew ==
  /\ Serving /\ step = "idle"
  /\ inbox # <<>>
  /\ inbox' = Tail(inbox)
  /\ op' = Head(inbox)
  /\ step' = "begin"
  /\ UNCHANGED <<alive, pending, relayVars, linkVars, storeVars, backendVars>>

\* Mutant: the operation is sent before its intent is recorded.
TakeAndSend ==
  /\ Serving /\ step = "idle"
  /\ inbox # <<>>
  /\ inbox' = Tail(inbox)
  /\ op' = Head(inbox)
  /\ step' = IF operations[op'] = "none" THEN "send" ELSE "receipt"
  /\ UNCHANGED <<alive, pending, relayVars, linkVars, storeVars, backendVars>>

\* dispatch: operation_state decides whether the operation is new.
Take ==
  /\ Serving /\ step = "idle"
  /\ inbox # <<>>
  /\ inbox' = Tail(inbox)
  /\ op' = Head(inbox)
  /\ \/ /\ operations[op'] = "none"
        /\ Cardinality(pending) < PendingLimit
        /\ step' = "begin" /\ UNCHANGED alive
     \/ /\ operations[op'] = "none"      \* EXECUTION_BUSY ends the actor
        /\ Cardinality(pending) >= PendingLimit
        /\ alive' = "draining" /\ UNCHANGED step
     \/ /\ operations[op'] = "stored"
        /\ step' = "respond" /\ UNCHANGED alive
     \/ /\ operations[op'] \in {"open", "null"}
        /\ step' = "receipt" /\ UNCHANGED alive
  /\ UNCHANGED <<pending, relayVars, linkVars, storeVars, backendVars>>

\* begin_operation: the intent is durable before anything else happens.
Begin ==
  /\ Serving /\ step = "begin"
  /\ operations' = [operations EXCEPT ![op] = "open"]
  /\ step' = IF op \in Refused THEN "refuse" ELSE "send"
  /\ UNCHANGED <<linked, events, floor, trimmed, channel>>
  /\ UNCHANGED <<alive, inbox, op, pending, relayVars, linkVars, backendVars>>

\* complete_operation of a policy or grant failure: nothing is sent.
Refuse ==
  /\ Serving /\ step = "refuse"
  /\ operations' = [operations EXCEPT ![op] = "stored"]
  /\ step' = "respond"
  /\ UNCHANGED <<linked, events, floor, trimmed, channel>>
  /\ UNCHANGED <<alive, inbox, op, pending, relayVars, linkVars, backendVars>>

\* The response of a refusal, or of an operation already answered.
Respond ==
  /\ Serving /\ step = "respond"
  /\ AppendRecord(Response(op))
  /\ step' = "receipt"
  /\ UNCHANGED <<operations, linked, channel>>
  /\ UNCHANGED <<alive, inbox, op, pending, relayVars, linkVars, backendVars>>

\* Hand the message to the backend; a request waits for its answer.
Send ==
  /\ Serving /\ step = "send"
  /\ runs' = [runs EXCEPT ![op] = @ + 1]
  /\ IF op \in Requests
       THEN /\ pending' = pending \union {op}
            /\ running' = running \union {op}
            /\ step' = "receipt"
       ELSE /\ step' = "settle"
            /\ UNCHANGED <<pending, running>>
  /\ UNCHANGED <<alive, inbox, op, notes, relayVars, linkVars, storeVars>>

\* complete_operation(null) of a message that has no answer.
Settle ==
  /\ Serving /\ step = "settle"
  /\ operations' = [operations EXCEPT ![op] = "null"]
  /\ step' = "receipt"
  /\ UNCHANGED <<linked, events, floor, trimmed, channel>>
  /\ UNCHANGED <<alive, inbox, op, pending, relayVars, linkVars, backendVars>>

Accept ==
  /\ Serving /\ step = "receipt"
  /\ AppendRecord(Receipt(op))
  /\ step' = "idle"
  /\ UNCHANGED <<operations, linked, channel>>
  /\ UNCHANGED <<alive, inbox, op, pending, relayVars, linkVars, backendVars>>

\* collect: the backend answers a pending request.
Collect(o) ==
  /\ Collecting /\ step = "idle"
  /\ o \in running
  /\ running' = running \ {o}
  /\ pending' = pending \ {o}
  /\ op' = o
  /\ step' = IF o \in pending THEN "complete" ELSE "idle"
  /\ UNCHANGED <<alive, inbox, runs, notes, relayVars, linkVars, storeVars>>

Complete ==
  /\ Collecting /\ step = "complete"
  /\ operations' = [operations EXCEPT ![op] = "stored"]
  /\ step' = "publish"
  /\ UNCHANGED <<linked, events, floor, trimmed, channel>>
  /\ UNCHANGED <<alive, inbox, op, pending, relayVars, linkVars, backendVars>>

Publish ==
  /\ Collecting /\ step = "publish"
  /\ AppendRecord(Response(op))
  /\ step' = "link"
  /\ UNCHANGED <<operations, linked, channel>>
  /\ UNCHANGED <<alive, inbox, op, pending, relayVars, linkVars, backendVars>>

\* link_operation: the actor appended the newest event itself.
Link ==
  /\ Collecting /\ step = "link"
  /\ linked' = [linked EXCEPT ![op] = Len(events)]
  /\ step' = "idle"
  /\ UNCHANGED <<operations, events, floor, trimmed, channel>>
  /\ UNCHANGED <<alive, inbox, op, pending, relayVars, linkVars, backendVars>>

\* process/output and process/exited of what the backend runs.
CollectNote ==
  /\ Collecting /\ step = "idle"
  /\ notes < MaxNotes
  /\ notes' = notes + 1
  /\ AppendRecord(Note)
  /\ UNCHANGED <<operations, linked, channel, running, runs>>
  /\ UNCHANGED <<actorVars, relayVars, linkVars>>

\* An error of any statement, Stop, an idle timer, or the end of the backend
\* leaves the loop; an error while draining is ignored.
ActorFails ==
  /\ Collecting
  /\ alive' = "draining"
  /\ step' = "idle"
  /\ UNCHANGED <<inbox, op, pending, relayVars, linkVars, storeVars, backendVars>>

\* The end of draining: the backend is shut down and the channel marked lost,
\* unless the store fails once more, which nobody hears of.
ActorStops ==
  /\ alive = "draining" /\ step = "idle"
  /\ alive' = "stopped"
  /\ channel' \in {"lost", channel}
  /\ inbox' = <<>> /\ pending' = {} /\ running' = {}
  /\ UNCHANGED <<step, op, operations, linked, events, floor, trimmed>>
  /\ UNCHANGED <<runs, notes, relayVars, linkVars>>

\* The service dies and another instance opens the store (Store::open).
ServiceRestart ==
  /\ channel' = "lost"
  /\ alive' = "stopped" /\ step' = "idle"
  /\ inbox' = <<>> /\ pending' = {} /\ running' = {}
  /\ srv' = "closed" /\ late' = [e \in 1..MaxEpoch |-> NoFrame]
  /\ UNCHANGED <<op, operations, linked, events, floor, trimmed>>
  /\ UNCHANGED <<epoch, up, down, sent, runs, notes, relayVars>>

ActorNext ==
  \/ Take \/ Begin \/ Refuse \/ Respond \/ Send \/ Settle \/ Accept
  \/ \E o \in Ops : Collect(o)
  \/ Complete \/ Publish \/ Link \/ CollectNote
  \/ ActorFails \/ ActorStops \/ ServiceRestart

Next == RelayNext \/ ConnectionNext \/ ActorNext

Spec == Init /\ [][Next]_vars

-----------------------------------------------------------------------------
(***************************************************************************)
(* Fairness.  Tokio runs every ready task, and select! chooses among ready *)
(* branches at random, so a frame that keeps being ready is read: strong   *)
(* fairness for it.  The backend answers what it accepted.  The recovery   *)
(* loop retries until an attachment succeeds or its budget is spent, which *)
(* is RelayFails.  Nothing forces a connection to break.                   *)
(***************************************************************************)
Fairness ==
  /\ WF_vars(Receive) /\ WF_vars(ReceiveFault)
  /\ WF_vars(srv = "closed" /\ LoseConnection)
  /\ WF_vars(Inspect) /\ SF_vars(Reattach) /\ SF_vars(AttachStopped)
  /\ WF_vars(ReadFloor) /\ WF_vars(ReadRows) /\ WF_vars(Wake)
  /\ SF_vars(HandleExecute) /\ SF_vars(HandleAck) /\ SF_vars(HandleDetach)
  /\ WF_vars(Take) /\ WF_vars(Begin) /\ WF_vars(Refuse) /\ WF_vars(Respond)
  /\ WF_vars(Send) /\ WF_vars(Settle) /\ WF_vars(Accept)
  /\ \A o \in Ops : WF_vars(Collect(o))
  /\ WF_vars(Complete) /\ WF_vars(Publish) /\ WF_vars(Link)
  /\ WF_vars(ActorStops)

FairSpec == Spec /\ Fairness

-----------------------------------------------------------------------------
(***************************************************************************)
(* Properties.                                                             *)
(***************************************************************************)

RelayTypes ==
  /\ phase \in {"attaching", "attached", "reconnecting", "failed", "closed"}
  /\ submitted \subseteq Ops /\ outbox \subseteq Ops /\ IsFiniteSet(outbox)
  /\ cursor \in Nat /\ delivered \in Seq(Nat)

LinkTypes ==
  /\ epoch \in 0..MaxEpoch
  /\ up \in Seq(Frame) /\ down \in Seq(Nat) /\ sent \in Nat
  /\ srv \in {"floor", "rows", "wait", "closed"}
  /\ late \in [1..MaxEpoch -> Frame]

ActorTypes ==
  /\ alive \in {"serving", "draining", "stopped"}
  /\ inbox \in Seq(Ops)
  /\ step \in {"idle", "begin", "refuse", "respond", "send", "settle",
               "receipt", "complete", "publish", "link"}
  /\ op \in Ops /\ pending \subseteq Ops

StoreTypes ==
  /\ operations \in [Ops -> {"none", "open", "stored", "null"}]
  /\ linked \in [Ops -> Nat]
  /\ events \in Seq(Record) /\ floor \in Nat /\ trimmed \in Nat
  /\ channel \in {"running", "lost"}

BackendTypes == running \subseteq Ops /\ runs \in [Ops -> Nat] /\ notes \in Nat

TypeOK == RelayTypes /\ LinkTypes /\ ActorTypes /\ StoreTypes /\ BackendTypes

\* An operation that reached the backend was recorded before it did, and
\* reached it once: no retransmission, superseded connection or death of the
\* service between two statements makes the backend see it again.
EvidenceBeforeEffect ==
  \A o \in Ops : runs[o] # 0 => runs[o] = 1 /\ operations[o] # "none"

\* The relay drops a frame from its outbox only when the server has acted on
\* it.  So an operation it sends after another one was receipted runs after
\* that one, although a retransmission does not keep the order of the outbox.
ReceiptedHasRun ==
  \A o \in submitted \ outbox : o \in Refused \/ runs[o] = 1

\* An outcome in the store is the outcome of something: of an operation that
\* ran, or of a refusal.  What ran and has none stays NULL, which
\* inspect_execution counts as unknown.
OutcomeIsReal ==
  \A o \in Ops : operations[o] \in {"stored", "null"} => o \in Refused \/ runs[o] = 1

\* Acknowledgement reduces the stored answer of a request to null only when
\* the relay has processed the event that carries it.
CompactedWasReceived ==
  \A o \in Requests : operations[o] = "null" => linked[o] \in 1..cursor

\* Acknowledgement, of a stale connection too, prunes only what the relay has
\* processed: only the capacity can take an event from it.
PrunedWasReceived == floor <= Larger(cursor, trimmed)

\* The frontend sees the events in the order of the store, none twice.
DeliveredInOrder ==
  \A i, j \in DOMAIN delivered : i < j => delivered[i] < delivered[j]

\* What the relay has not processed is not pruned, and what it hands on is in order and not repeated,
\* however many attachments, old connections and retransmissions there were.
ReplayIsSound == PrunedWasReceived /\ DeliveredInOrder

\* The cursor passes an event without effect on the frontend or the outbox
\* only if that event was removed for lack of capacity.
Processed(n) ==
  IF events[n].kind = "receipt" THEN events[n].op \notin outbox
  ELSE \E i \in DOMAIN delivered : delivered[i] = n

SkippedWasTrimmed == \A n \in 1..cursor : Processed(n) \/ n <= trimmed

\* "Crossing the replay floor makes a stale attachment fail explicitly; it
\* never silently skips" (retention.rs:40).
NeverSilentlySkips == \A n \in 1..cursor : Processed(n)

\* The channel keeps the promise of RemoteOperations.
Answered == {o \in Ops : \E i \in DOMAIN delivered : events[delivered[i]] = Response(o)}

Promise == INSTANCE RemoteOperations
             WITH requested <- submitted, answered <- Answered, over <- alive = "stopped"
KeepsPromise == Promise!Spec

\* What holds between the variables at every moment, of which the invariants
\* above are consequences: every frame under way is of a submitted operation
\* and acknowledges what the relay has processed; an operation under way is
\* where its row, its runs and its link say it is; only outcomes that exist are
\* in the store, in the events and under way to the relay.
Acted == {o \in submitted : o \in Refused \/ runs[o] = 1}

SoundFrame == [type : {"execute"}, op : submitted]
              \union [type : {"ack"}, cursor : 0..cursor] \union {Detach, NoFrame}
SoundRecord == [kind : {"receipt", "response"}, op : Acted] \union {Note}

WireInv ==
  /\ up \in Seq(SoundFrame) /\ late \in [1..MaxEpoch -> SoundFrame]
  /\ inbox \in Seq(submitted)
  /\ down \in Seq(0..Len(events)) /\ sent <= Len(events) /\ cursor <= Len(events)
  /\ outbox \subseteq submitted /\ submitted \ outbox \subseteq Acted
  /\ delivered \in Seq(1..cursor) /\ DeliveredInOrder

StepInv ==
  /\ step # "idle" => op \in submitted /\ alive # "stopped"
  /\ step = "begin" => operations[op] = "none"
  /\ step = "refuse" => op \in Refused
  /\ step = "send" => operations[op] = "open" /\ runs[op] = 0 /\ op \notin Refused
  /\ step = "settle" => op \in OneWay
  /\ step \in {"settle", "respond", "receipt", "complete", "publish", "link"} => op \in Acted
  /\ step \in {"complete", "publish", "link"} => op \in Requests \ running /\ linked[op] = 0
  /\ step \in {"refuse", "settle", "complete", "publish", "link"} => operations[op] # "none"
  /\ step \notin {"idle", "complete", "publish", "link"} => alive = "serving"

StoreInv ==
  /\ \A o \in Ops : runs[o] # 0 => /\ runs[o] = 1 /\ operations[o] # "none"
                                   /\ o \in submitted \ Refused
  /\ \A o \in Ops : operations[o] \in {"stored", "null"} => o \in Acted
  /\ \A o \in Ops : alive = "serving" /\ operations[o] = "open" =>
                      o \in Acted \/ (step = "send" /\ op = o)
  /\ \A o \in Requests : operations[o] = "null" => linked[o] \in 1..cursor
  /\ \A o \in Ops : linked[o] <= Len(events) /\ (runs[o] = 0 => linked[o] = 0)
  /\ \A o \in running : o \in Requests /\ runs[o] = 1 /\ linked[o] = 0
  /\ events \in Seq(SoundRecord)
  /\ floor <= Larger(cursor, trimmed) /\ floor <= Len(events)
  /\ alive # "stopped" => channel = "running"

ChannelInv == WireInv /\ StepInv /\ StoreInv

\* Every operation is settled although connections break: it is receipted and,
\* if it has an answer, answered; or the relay reports the end of the channel.
Settled(o) ==
  /\ o \notin outbox
  /\ o \notin OneWay => o \in Answered
EverySubmissionSettles ==
  \A o \in Ops : o \in submitted ~> Settled(o) \/ phase \in {"failed", "closed"}

=============================================================================
