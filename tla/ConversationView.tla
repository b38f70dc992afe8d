-------------------------- MODULE ConversationView --------------------------
(***************************************************************************)
(* A conversation as a window shows it, and as its session has it.         *)
(*                                                                         *)
(*   now      the session: its turn, the turn its usage is of, and the     *)
(*            turn it was last in (local/intent.rs);                       *)
(*   feed     events sent and not received by the task of the window, at   *)
(*            most Capacity (commands/session.rs register); when there are *)
(*            more the task has lagged;                                    *)
(*   opening  the opening of the session by the window, with its snapshot; *)
(*   sent     what the task has delivered to the interface, and the        *)
(*            interface has not acknowledged (streams.rs deliver);         *)
(*   view     the chat (chat/state.ts), once it is registered; what was    *)
(*            delivered before waits (chat/useChats.ts pending);           *)
(*   read     snapshots that the interface has asked for: after an action, *)
(*            after a lag, and around the edit of a message (useChats.ts). *)
(*                                                                         *)
(* A turn stands for the other fields that only events and snapshots set   *)
(* (goal, plan, settings, questions). Messages and history are left out.   *)
(***************************************************************************)
EXTENDS Naturals, Sequences

CONSTANTS
  Capacity,    \* events that the channel of the session keeps
  Slots,       \* actions whose snapshot may be read at a time
  MaxTurns,    \* bound: turns
  MaxActions,  \* bound: actions of the user
  MaxEdits     \* bound: edits of a message

ASSUME ViewAssumption ==
  /\ Capacity \in Nat \ {0} /\ {MaxTurns, MaxActions, MaxEdits} \subseteq Nat
  /\ Slots \cap {"resync", "revert", "reload"} = {}

VARIABLES now, turns, feed, lagged, opening, sent, view, waiting, read, removed, actions, edits,
          \* history:
          stale,    \* fields that a snapshot has set which something newer had overtaken
          erased,   \* the last turn at the last removal of turns by the session
          missed    \* the window lagged before the chat was registered

viewVars == <<now, turns, feed, lagged, opening, sent, view, waiting, read, removed, actions, edits, stale, erased, missed>>

Turns == 1 .. MaxTurns
Blank == [turn |-> 0, usage |-> 0, last |-> 0]
NoView == [turn |-> 0, usage |-> 0, discarded |-> {0}]
\* late: an event has come since the snapshot was taken; crossed: another snapshot was applied since it
\* was asked for; gone: the history shows that the edited turns were removed.
Idle == [at |-> "idle", usage |-> 0, snap |-> Blank, late |-> FALSE, crossed |-> FALSE, gone |-> FALSE]
Event(kind, t) == [kind |-> kind, turn |-> t]
Nothing == Event("none", 0)
Reads == Slots \cup {"resync", "revert", "reload"}

ViewInit ==
  /\ now = Blank /\ turns = 0
  /\ feed = <<>> /\ lagged = FALSE
  /\ opening = [at |-> "none", snap |-> Blank] /\ sent = Nothing
  /\ view = NoView /\ waiting = <<>>
  /\ read = [r \in Reads |-> Idle] /\ removed = {}
  /\ actions = 0 /\ edits = 0 /\ stale = {} /\ erased = 0 /\ missed = FALSE

Registered == view # NoView

-----------------------------------------------------------------------------
(* The session.                                                            *)

\* A broadcast: the slow receiver loses the oldest.
Emit(e) ==
  IF opening.at = "none" THEN UNCHANGED <<feed, lagged>>
  ELSE /\ feed' = Append(IF Len(feed) = Capacity THEN Tail(feed) ELSE feed, e)
       /\ lagged' = (lagged \/ Len(feed) = Capacity)

\* Intent::observe, and the event is sent.
Observe ==
  /\ \/ /\ now.turn = 0 /\ turns < MaxTurns
        /\ turns' = turns + 1
        /\ now' = [now EXCEPT !.turn = turns', !.last = turns']
        /\ Emit(Event("started", turns'))
     \/ /\ now.turn # 0 /\ now.usage # now.turn
        /\ now' = [now EXCEPT !.usage = now.turn]
        /\ Emit(Event("usage", now.turn)) /\ UNCHANGED turns
     \/ /\ now.turn # 0
        /\ now' = [now EXCEPT !.turn = 0]
        /\ Emit(Event("completed", now.turn)) /\ UNCHANGED turns
  /\ UNCHANGED <<opening, sent, view, waiting, read, removed, actions, edits, stale, erased, missed>>

-----------------------------------------------------------------------------
(* The chat.                                                               *)

\* turn_started and turn_completed
TurnAfter(turn, e) == IF e.kind = "started" THEN e.turn ELSE IF e.kind = "completed" /\ turn = e.turn THEN 0 ELSE turn

\* reduceEvent: events of turns that an edit has removed are late.
Reduce(chat, e) ==
  IF e.turn \in chat.discarded /\ e.kind # "usage" THEN chat
  ELSE [chat EXCEPT !.turn = TurnAfter(@, e), !.usage = IF e.kind = "usage" THEN e.turn ELSE @]

\* The chat once the events have been heard one after the other.
Heard(chat, events) ==
  LET after[n \in 0 .. Len(events)] == IF n = 0 THEN chat ELSE Reduce(after[n - 1], events[n])
  IN  after[Len(events)]

\* applySnapshot: usage that came since the snapshot was asked for is newer.
Apply(chat, snap, usageAtRequest) ==
  [chat EXCEPT !.turn = IF snap.turn \in chat.discarded THEN 0 ELSE snap.turn,
               !.usage = IF snap.last \in chat.discarded THEN 0
                         ELSE IF @ # usageAtRequest \/ snap.usage = 0 THEN @ ELSE snap.usage]

\* replaceHistory: the edited turns are gone, and what was known of them.
Edited(chat, gone) == [turn |-> 0, usage |-> 0, discarded |-> chat.discarded \cup gone]

\* What the view has changed by makes the snapshots that were taken before it late.
Shows(chat, fresh, old) ==
  /\ view' = chat
  /\ stale' = (stale \ fresh) \cup old

\* Mutant: the snapshot is taken before the channel is joined.
JoinLate ==
  \/ /\ opening.at = "none"
     /\ opening' = [at |-> "joined", snap |-> now]
     /\ UNCHANGED <<feed, lagged>>
  \/ /\ opening.at = "joined"
     /\ opening' = [opening EXCEPT !.at = "streams"]
     /\ feed' = <<>> /\ lagged' = FALSE

\* register() of the window: it joins the channel of the session, then takes the snapshot.
Join ==
  \/ /\ opening.at = "none"
     /\ opening' = [opening EXCEPT !.at = "joined"]
     /\ UNCHANGED <<feed, lagged>>
  \/ /\ opening.at = "joined"
     /\ opening' = [at |-> "streams", snap |-> now]
     /\ UNCHANGED <<feed, lagged>>

OpenSession ==
  /\ Join
  /\ UNCHANGED <<now, turns, sent, view, waiting, read, removed, actions, edits, stale, erased, missed>>

\* session_open returns to the interface, and what it received meanwhile is applied.
RegisterChat ==
  /\ opening.at = "streams" /\ ~Registered
  /\ Shows(Heard(Apply([NoView EXCEPT !.discarded = {}], opening.snap, 0), waiting), {}, {})
  /\ waiting' = <<>>
  /\ UNCHANGED <<now, turns, feed, lagged, opening, sent, read, removed, actions, edits, erased, missed>>

-----------------------------------------------------------------------------
(* The task of the window: one event at a time.                            *)

\* A task that has lagged joins the channel again, and has the interface read everything anew.
Deliver ==
  /\ opening.at = "streams" /\ sent = Nothing
  /\ \/ /\ ~lagged /\ feed # <<>>
        /\ sent' = Head(feed) /\ feed' = Tail(feed) /\ UNCHANGED lagged
     \/ /\ lagged
        /\ sent' = Event("resync", 0) /\ feed' = <<>> /\ lagged' = FALSE
  /\ UNCHANGED <<now, turns, opening, view, waiting, read, removed, actions, edits, stale, erased, missed>>

Late == [r \in Reads |-> [read[r] EXCEPT !.late = read[r].at = "taken"]]
Crossed(r) == [q \in Reads |-> IF q = r THEN Idle ELSE [read[q] EXCEPT !.late = read[q].at = "taken", !.crossed = read[q].at # "idle"]]

\* The interface hears an event, and acknowledges it.
HearEvent ==
  /\ sent # Nothing /\ sent.kind # "resync"
  /\ sent' = Nothing
  /\ IF Registered
     THEN /\ Shows(Reduce(view, sent), IF sent.kind = "usage" THEN {"usage"} ELSE IF Reduce(view, sent) # view THEN {"turn"} ELSE {},
                   IF sent.kind = "usage" /\ sent.turn <= erased THEN {"usage"} ELSE {})
          /\ read' = Late /\ UNCHANGED waiting
     ELSE waiting' = Append(waiting, sent) /\ UNCHANGED <<view, read, stale>>
  /\ UNCHANGED <<now, turns, feed, lagged, opening, removed, actions, edits, erased, missed>>

\* The acknowledgement of a resynchronization is sent when its snapshot has been applied.
HearResync ==
  /\ sent.kind = "resync" /\ read["resync"].at = "idle"
  /\ read' = [read EXCEPT !["resync"] = [Idle EXCEPT !.at = "asked", !.usage = view.usage]]
  /\ missed' = (missed \/ ~Registered)
  /\ UNCHANGED <<now, turns, feed, lagged, opening, sent, view, waiting, removed, actions, edits, stale, erased>>

-----------------------------------------------------------------------------
(* What the interface reads by itself.                                     *)

\* Settings and goals are read again once they have been changed.
Act(r) ==
  /\ Registered /\ read[r].at = "idle" /\ actions < MaxActions
  /\ actions' = actions + 1
  /\ read' = [read EXCEPT ![r] = [Idle EXCEPT !.at = "asked", !.usage = view.usage]]
  /\ UNCHANGED <<now, turns, feed, lagged, opening, sent, view, waiting, removed, edits, stale, erased, missed>>

\* session_snapshot is answered.
TakeSnapshot(r) ==
  /\ read[r].at = "asked" /\ r # "revert"
  /\ read' = [read EXCEPT ![r].at = "taken", ![r].snap = now]
  /\ UNCHANGED <<now, turns, feed, lagged, opening, sent, view, waiting, removed, actions, edits, stale, erased, missed>>

\* The answer of an action's snapshot, or of a resynchronization, arrives.
ApplySnapshot(r) ==
  /\ r \in Slots \cup {"resync"} /\ read[r].at = "taken"
  /\ IF Registered
     THEN Shows(Apply(view, read[r].snap, read[r].usage), {"turn"},
                (IF r \in Slots /\ read[r].late THEN {"turn"} ELSE {}) \cup (IF read[r].crossed THEN {"usage"} ELSE {}))
     ELSE UNCHANGED <<view, stale>>
  /\ read' = Crossed(r)
  /\ sent' = IF r = "resync" THEN Nothing ELSE sent
  /\ UNCHANGED <<now, turns, feed, lagged, opening, waiting, removed, actions, edits, erased, missed>>

-----------------------------------------------------------------------------
(* The edit of a message removes the turns from it on.                     *)

Edit ==
  /\ Registered /\ view.turn = 0 /\ edits < MaxEdits /\ removed = {}
  /\ \E first \in 1 .. turns :
       /\ \A t \in first .. turns : t \notin view.discarded
       /\ removed' = first .. turns
  /\ edits' = edits + 1
  /\ read' = [read EXCEPT !["revert"] = [Idle EXCEPT !.at = "asked"]]
  /\ UNCHANGED <<now, turns, feed, lagged, opening, sent, view, waiting, actions, stale, erased, missed>>

\* revert_locked, while no turn runs; what it answers may be lost, and is read again by the user.
Revert ==
  /\ read["revert"].at = "asked"
  /\ \/ /\ now.turn = 0
        /\ now' = Blank /\ erased' = turns
        /\ \/ read' = [read EXCEPT !["revert"] = [@ EXCEPT !.at = "taken", !.snap = now']]
           \/ read' = [read EXCEPT !["revert"] = Idle, !["reload"] = [Idle EXCEPT !.at = "history"]]
     \/ /\ read' = [read EXCEPT !["revert"] = Idle, !["reload"] = [Idle EXCEPT !.at = "history"]]
        /\ UNCHANGED <<now, erased>>
  /\ UNCHANGED <<turns, feed, lagged, opening, sent, view, waiting, removed, actions, edits, stale, missed>>

\* reloadEdit: history tells whether the turns were removed.
ReadHistory ==
  /\ read["reload"].at = "history"
  /\ read' = [read EXCEPT !["reload"].at = "asked", !["reload"].gone = now.last \notin removed]
  /\ UNCHANGED <<now, turns, feed, lagged, opening, sent, view, waiting, removed, actions, edits, stale, erased, missed>>

\* The conversation is replaced by what is left of it.
ApplyEdit(r) ==
  /\ r \in {"revert", "reload"} /\ read[r].at = "taken"
  /\ Shows(Apply(Edited(view, IF r = "revert" \/ read[r].gone THEN removed ELSE {}), read[r].snap, 0),
           {"turn", "usage"}, IF read[r].late THEN {"turn", "usage"} ELSE {})
  /\ read' = Crossed(r)
  /\ removed' = {}
  /\ UNCHANGED <<now, turns, feed, lagged, opening, sent, waiting, actions, edits, erased, missed>>

-----------------------------------------------------------------------------
ViewNext ==
  \/ Observe \/ OpenSession \/ RegisterChat \/ Deliver \/ HearEvent \/ HearResync
  \/ \E r \in Slots : Act(r)
  \/ \E r \in Reads : TakeSnapshot(r) \/ ApplySnapshot(r) \/ ApplyEdit(r)
  \/ Edit \/ Revert \/ ReadHistory

-----------------------------------------------------------------------------
(* Properties *)

\* A conversation shows what its session is in once everything has been delivered and read, however
\* events, lags, resynchronizations, actions and edits were interleaved, except where a snapshot has
\* undone something newer, which only usage is protected from (chat/useChats.ts, chat/state.ts).
ChatConverges ==
  LET Quiet == /\ opening.at = "streams" /\ Registered /\ ~missed
               /\ feed = <<>> /\ ~lagged /\ sent = Nothing
               /\ \A r \in Reads : read[r].at = "idle"
  IN  Quiet => /\ view.turn = now.turn \/ "turn" \in stale
               /\ view.usage = now.usage \/ "usage" \in stale
=============================================================================
