-------------------------- MODULE SessionAuthority --------------------------
(***************************************************************************)
(* What a session lets its commands do on the server: the choice of Full   *)
(* Access, and the approvals of single commands.                           *)
(*                                                                         *)
(*   permissions  client/src/local/permissions.rs: the grant that goes     *)
(*                with the frames, and the change under way;               *)
(*   approvals    client/src/local/approvals.rs, and the prompts of        *)
(*                client/src/local/generation.rs;                          *)
(*   calls        client/src/local/route.rs: changes of the settings and   *)
(*                turns with a policy of their own, each a task that waits *)
(*                for the answer of the engine;                            *)
(*   stream       the notifications of the engine, read in order by the    *)
(*                pump of client/src/local/events.rs;                      *)
(*   engine       the local Codex process: it acknowledges an update, then *)
(*                applies it, and tells only of what has changed.          *)
(*                                                                         *)
(* Child threads share the grant of their root and are left out, as is     *)
(* the limit of 64 approvals.                                              *)
(***************************************************************************)
EXTENDS Naturals, Sequences

CONSTANTS
  MaxCalls,       \* bound: changes of the settings and turns
  MaxReplaced,    \* bound: how often the generation is replaced
  Items,          \* the commands that Codex wants approved
  AnswersFirst    \* a caller handles its answer before the pump reads what the engine told after it

ASSUME AuthorityAssumption == /\ MaxCalls \in Nat
                              /\ MaxReplaced \in Nat
                              /\ AnswersFirst \in BOOLEAN

VARIABLES
  engine,         \* the policy in force, the requests on their way and those accepted
  stream,
  permissions,
  snapshot,       \* the last settings that the pump has read
  calls,          \* sequence of the calls so far
  items,          \* where each command is: with Codex, the prompts and the approvals
  replaced,
  wish            \* history, read by no guard: the change begun last

authorityVars == <<engine, stream, permissions, snapshot, calls, items, replaced, wish>>

NoChange == [call |-> 0]
CallIds == 1 .. Len(calls)

-----------------------------------------------------------------------------
(* permissions.rs *)

\* State::commit
Committed(p) ==
  IF p.change # NoChange /\ p.change.acknowledged /\ p.change.observed
  THEN [grant |-> p.change.full, change |-> NoChange] ELSE p

\* A reduction holds at once; what is already so counts as observed.
Begun(p, call, full) ==
  [grant |-> p.grant /\ full,
   change |-> [call |-> call, full |-> full, observed |-> p.grant = full, acknowledged |-> FALSE]]

Acknowledged(p, call, success) ==
  IF p.change.call # call THEN Committed(p)
  ELSE IF success THEN Committed([p EXCEPT !.change.acknowledged = TRUE])
       ELSE [p EXCEPT !.change = NoChange]

Observed(p, full) ==
  LET seen == p.change # NoChange /\ p.change.full = full
  IN  Committed([grant |-> p.grant /\ full,
                 change |-> IF seen THEN [p.change EXCEPT !.observed = TRUE] ELSE p.change])

-----------------------------------------------------------------------------
AuthorityInit ==
  /\ engine = [up |-> TRUE, full |-> FALSE, requests |-> <<>>, accepted |-> <<>>]
  /\ stream = <<>>
  /\ permissions = [grant |-> FALSE, change |-> NoChange]
  /\ snapshot = FALSE
  /\ calls = <<>>
  /\ items = [i \in Items |-> [at |-> "idle", prompt |-> FALSE, held |-> "none", answer |-> "none"]]
  /\ replaced = 0
  /\ wish = FALSE

-----------------------------------------------------------------------------
(* A call: begin, execute, acknowledge, confirmed.                         *)

NewCall(kind, full, at) == Append(calls, [kind |-> kind, full |-> full, at |-> at])

\* SETTINGS_BUSY while a change is under way.
BeginChange(full) ==
  /\ engine.up
  /\ Len(calls) < MaxCalls
  /\ permissions.change = NoChange
  /\ permissions' = Begun(permissions, Len(calls) + 1, full)
  /\ calls' = NewCall("settings", full, "ready")
  /\ wish' = full
  /\ UNCHANGED <<engine, stream, snapshot, items, replaced>>

\* A turn may bring a policy of its own, Full Access only with the grant.
BeginTurn(full) ==
  /\ engine.up
  /\ Len(calls) < MaxCalls
  /\ full => permissions.grant
  /\ calls' = NewCall("turn", full, "ready")
  /\ UNCHANGED <<engine, stream, permissions, snapshot, items, replaced, wish>>

\* Bindings and messages are stored between the checks and the request.
SendCall(c) ==
  /\ calls[c].at = "ready"
  /\ calls' = [calls EXCEPT ![c].at = IF engine.up THEN "sent" ELSE "lost"]
  /\ engine' = IF engine.up THEN [engine EXCEPT !.requests = Append(@, c)] ELSE engine
  /\ UNCHANGED <<stream, permissions, snapshot, items, replaced, wish>>

EngineAnswers(accepts) ==
  /\ engine.up
  /\ engine.requests # <<>>
  /\ LET c == Head(engine.requests)
     IN  /\ engine' = [engine EXCEPT !.requests = Tail(@),
                                     !.accepted = IF accepts THEN Append(@, c) ELSE @]
         /\ calls' = IF calls[c].at # "sent" THEN calls    \* the caller has given up
                     ELSE [calls EXCEPT ![c].at = IF accepts THEN "accepted" ELSE "lost"]
  /\ UNCHANGED <<stream, permissions, snapshot, items, replaced, wish>>

Note(kind, value) == [kind |-> kind, value |-> value]

\* An update that changes nothing is not told.
EngineApplies ==
  /\ engine.up
  /\ engine.accepted # <<>>
  /\ LET full == calls[Head(engine.accepted)].full
     IN  /\ engine' = [engine EXCEPT !.accepted = Tail(@), !.full = full]
         /\ stream' = IF full = engine.full THEN stream ELSE Append(stream, Note("settings", full))
  /\ UNCHANGED <<permissions, snapshot, calls, items, replaced, wish>>

\* No answer for 30 s; the engine may still handle the request.
CallTimesOut(c) ==
  /\ calls[c].at = "sent"
  /\ calls' = [calls EXCEPT ![c].at = "lost"]
  /\ UNCHANGED <<engine, stream, permissions, snapshot, items, replaced, wish>>

\* The change is still under way after its answer: wait for its notification.
CallReturns(c) ==
  /\ calls[c].at \in {"accepted", "lost"}
  /\ LET success == calls[c].at = "accepted"
         after == IF calls[c].kind = "settings" THEN Acknowledged(permissions, c, success) ELSE permissions
     IN  /\ permissions' = after
         /\ calls' = [calls EXCEPT ![c].at = IF after.change.call = c /\ success THEN "confirming" ELSE "over"]
  /\ UNCHANGED <<engine, stream, snapshot, items, replaced, wish>>

CallConfirmed(c) ==
  /\ calls[c].at = "confirming"
  /\ permissions.change.call # c
  /\ calls' = [calls EXCEPT ![c].at = "over"]
  /\ UNCHANGED <<engine, stream, permissions, snapshot, items, replaced, wish>>

\* No notification for 3 s.
ConfirmTimesOut(c) ==
  /\ calls[c].at = "confirming"
  /\ permissions.change.call = c
  /\ permissions' = [permissions EXCEPT !.change = NoChange]
  /\ calls' = [calls EXCEPT ![c].at = "over"]
  /\ UNCHANGED <<engine, stream, snapshot, items, replaced, wish>>

-----------------------------------------------------------------------------
(* The approval of a command.                                              *)

EngineAsks(i) ==
  /\ engine.up
  /\ items[i].at = "idle"
  /\ items' = [items EXCEPT ![i].at = "asked"]
  /\ stream' = Append(stream, Note("ask", i))
  /\ UNCHANGED <<engine, permissions, snapshot, calls, replaced, wish>>

\* Item or turn are over: the prompt is resolved, then the end is told.
EngineEnds(i) ==
  /\ engine.up
  /\ items[i].at \in {"asked", "accepted", "started"}
  /\ items' = [items EXCEPT ![i].at = "over"]
  /\ stream' = stream \o (IF items[i].at = "asked" THEN <<Note("resolved", i)>> ELSE <<>>)
                      \o <<Note("end", i)>>
  /\ UNCHANGED <<engine, permissions, snapshot, calls, replaced, wish>>

\* respond: a prompt that is no longer pending is STALE_APPROVAL.
UserAnswers(i, answer) ==
  /\ engine.up
  /\ items[i].prompt
  /\ items' = [items EXCEPT ![i].prompt = FALSE, ![i].answer = answer]
  /\ UNCHANGED <<engine, stream, permissions, snapshot, calls, replaced, wish>>

\* Mutant: the answer holds whether the approval is still pending or not.
RespondBlindly(i) ==
  /\ items[i].answer # "none"
  /\ items' = [items EXCEPT ![i].answer = "none",
                            ![i].held = IF items[i].answer = "accept" THEN "accepted" ELSE "none",
                            ![i].at = IF @ = "asked" /\ items[i].answer = "accept" THEN "accepted" ELSE @]
  /\ UNCHANGED <<engine, stream, permissions, snapshot, calls, replaced, wish>>

\* Between the removal of the prompt and this the pump may read the end.
Respond(i) ==
  /\ items[i].answer # "none"
  /\ LET kept == items[i].held = "pending" /\ items[i].answer = "accept"
     IN  items' = [items EXCEPT ![i].answer = "none",
                                ![i].held = IF kept THEN "accepted" ELSE IF @ = "pending" THEN "none" ELSE @,
                                ![i].at = IF @ # "asked" \/ ~engine.up THEN @
                                          ELSE IF items[i].answer = "accept" THEN "accepted" ELSE "over"]
  /\ stream' = IF items[i].at = "asked" /\ engine.up
               THEN stream \o <<Note("resolved", i)>>
                           \o (IF items[i].answer = "accept" THEN <<>> ELSE <<Note("end", i)>>)
               ELSE stream
  /\ UNCHANGED <<engine, permissions, snapshot, calls, replaced, wish>>

\* The command is sent, with the approval if it is younger than 60 s.
RelayTakes(i) ==
  /\ engine.up
  /\ items[i].at = "accepted"
  /\ items' = [items EXCEPT ![i].at = "started", ![i].held = IF @ = "accepted" THEN "none" ELSE @]
  /\ UNCHANGED <<engine, stream, permissions, snapshot, calls, replaced, wish>>

-----------------------------------------------------------------------------
(* The pump, process of events.rs.                                         *)

\* A caller is woken before the events that the driver reads after its answer.
InTurn == AnswersFirst => \A c \in CallIds : calls[c].at # "accepted"

PumpReadsSettings ==
  /\ engine.up
  /\ stream # <<>>
  /\ Head(stream).kind = "settings"
  /\ InTurn
  /\ permissions' = Observed(permissions, Head(stream).value)
  /\ snapshot' = Head(stream).value
  /\ stream' = Tail(stream)
  /\ UNCHANGED <<engine, calls, items, replaced, wish>>

AfterNote(item, kind) ==
  CASE kind = "ask" -> [item EXCEPT !.held = "pending", !.prompt = TRUE]
    [] kind = "end" -> [item EXCEPT !.held = "none"]
    [] OTHER -> [item EXCEPT !.prompt = FALSE]

PumpReadsItem ==
  /\ engine.up
  /\ stream # <<>>
  /\ Head(stream).kind # "settings"
  /\ LET i == Head(stream).value IN items' = [items EXCEPT ![i] = AfterNote(@, Head(stream).kind)]
  /\ stream' = Tail(stream)
  /\ UNCHANGED <<engine, permissions, snapshot, calls, replaced, wish>>

-----------------------------------------------------------------------------
(* The generation is replaced: supervisor.rs and restoration.rs.           *)

\* The old engine is stopped; its callers hear that they lost their answer.
CloseGeneration ==
  /\ engine.up
  /\ replaced < MaxReplaced
  /\ replaced' = replaced + 1
  /\ engine' = [engine EXCEPT !.up = FALSE, !.requests = <<>>, !.accepted = <<>>]
  /\ stream' = <<>>
  /\ items' = [i \in Items |-> [items[i] EXCEPT !.prompt = FALSE, !.held = "none",
                                                 !.at = IF @ = "idle" THEN @ ELSE "over"]]
  /\ calls' = [c \in CallIds |-> IF calls[c].at = "sent" THEN [calls[c] EXCEPT !.at = "lost"] ELSE calls[c]]
  /\ UNCHANGED <<permissions, snapshot, wish>>

\* Mutant: the settings of the snapshot are enough.
RestoredBySnapshot(grant) == TRUE

\* SETTINGS_UNCONFIRMED: a snapshot with Full Access that the grant does not bear out.
Restorable(grant) == snapshot => grant

\* The new engine confirms the settings of the snapshot before they are granted.
OpenGeneration ==
  /\ ~engine.up
  /\ Restorable(permissions.grant)
  /\ engine' = [engine EXCEPT !.up = TRUE, !.full = snapshot]
  /\ permissions' = [grant |-> snapshot, change |-> NoChange]
  /\ UNCHANGED <<stream, snapshot, calls, items, replaced, wish>>

-----------------------------------------------------------------------------
CallStep(c) == SendCall(c) \/ CallReturns(c) \/ CallConfirmed(c) \/ ConfirmTimesOut(c)
EngineStep == EngineAnswers(TRUE) \/ EngineAnswers(FALSE) \/ EngineApplies
PumpStep == PumpReadsSettings \/ PumpReadsItem

AuthorityNext ==
  \/ \E full \in BOOLEAN : BeginChange(full) \/ BeginTurn(full)
  \/ \E c \in CallIds : CallStep(c) \/ CallTimesOut(c)
  \/ EngineStep
  \/ \E i \in Items : EngineAsks(i) \/ EngineEnds(i) \/ Respond(i) \/ RelayTakes(i)
  \/ \E i \in Items, answer \in {"accept", "decline"} : UserAnswers(i, answer)
  \/ PumpStep
  \/ CloseGeneration
  \/ OpenGeneration

AuthoritySpec == AuthorityInit /\ [][AuthorityNext]_authorityVars

-----------------------------------------------------------------------------
(* Properties *)

LoweringUnread(notes) == \E n \in DOMAIN notes : notes[n].kind = "settings" /\ ~notes[n].value

UpdateComing ==
  LET coming == engine.requests \o engine.accepted IN \E n \in DOMAIN coming : calls[coming[n]].full

\* "A reduction stops issuing full-access frames immediately" (begin), and an expansion needs the
\* consent of the engine: frames go with Full Access only if the last change begun asked for it, also
\* after a replacement, and the engine has not lowered its policy, unless the pump has yet to read
\* that it did or a change to Full Access is still with the engine.
GrantIsCurrent ==
  permissions.grant /\ engine.up => wish /\ (engine.full \/ LoweringUnread(stream) \/ UpdateComing)

\* Nothing that the user accepted outlives its command (approvals.rs observe, respond): once the pump
\* has read that an item is over, no approval of it is held that another command could take.
NoApprovalLeft ==
  \A i \in Items :
    (/\ items[i].at = "over"
     /\ \A n \in DOMAIN stream : stream[n].kind = "settings" \/ stream[n].value # i)
      => items[i].held = "none"
=============================================================================
