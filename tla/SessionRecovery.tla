-------------------------- MODULE SessionRecovery --------------------------
(***************************************************************************)
(* How a session survives its execution environment: the budget of         *)
(* attempts, the replacement of a generation, and what becomes of the turn *)
(* that was interrupted.                                                   *)
(*                                                                         *)
(*   recovery  client/src/remote/recovery.rs: the state shown to the user, *)
(*             a watch channel, and the attempts that two kinds of waiters *)
(*             share;                                                      *)
(*   relay     client/src/remote/bridge/relay.rs: the transport of the     *)
(*             current generation, which attaches again by itself;         *)
(*   pump      client/src/local/{events,supervisor}.rs: the owner of the   *)
(*             session; it reads the events of Codex and replaces the      *)
(*             generation when its transport or its engine ends;           *)
(*   status    client/src/local/events.rs: the task that follows the watch *)
(*             channel, which keeps only the latest state;                 *)
(*   intent    client/src/local/intent.rs: the turn at work, and the one   *)
(*             to continue after the interruption;                         *)
(*   native    the local Codex process, as this code uses it;              *)
(*   user      a message on its way, an interruption, Retry, closing.      *)
(*                                                                         *)
(* Errors are known by what recovery makes of them:                        *)
(*   "ssh"       a broken connection or a timeout, as this process saw it; *)
(*   "ssh_fault" the same after it crossed the Fault boundary of a bridge; *)
(*   "late"      codes recovered only by a rebuild (response timeouts, ...);*)
(*   "lost"      the execution is gone or its outcome unknown;             *)
(*   "exhausted" the attempts are used up;                                 *)
(*   "refused"   everything a retry cannot mend (authentication, ...).     *)
(* Goals, permissions, settings and local storage failures are left out.   *)
(***************************************************************************)
EXTENDS Naturals, Integers, Sequences

CONSTANTS
  Limit,         \* reconnect.max_attempts
  MaxOutages,    \* bound: how often a connection or an engine fails
  MaxMessages,   \* bound: messages the user sends and Retry he presses
  Prompt         \* a task that can run does so before a timer of 5 s fires or the user acts

ASSUME LimitsAssumption == /\ Limit \in Nat \ {0}
                           /\ MaxOutages \in Nat
                           /\ MaxMessages \in Nat
                           /\ Prompt \in BOOLEAN

VARIABLES
  rec,        \* environment state, attempts, rebuilding, who has news of it
  relay,      \* where the transport of the current generation is, and its error
  pump,       \* where the owner is, and the error it recovers from
  status,     \* where the status task is, and whether it last saw Ready
  intent,
  native,     \* the engine, its running turn, its turns so far, its events
  sub,        \* the continuation that the pump or the status task submits
  user,       \* the message under way
  gate,       \* who holds the turn gate
  gen,        \* number of the generation
  closed,     \* the session is closed
  outages, messages,
  hist        \* history, read by no guard

vars == <<rec, relay, pump, status, intent, native, sub, user, gate, gen, closed,
          outages, messages, hist>>

Unset == -1                 \* no attempts are being counted
None == 0                   \* no turn
Submitters == {"pump", "status"}
ActionRequired == {"exhausted", "refused", "unconfirmed"}
Waiting == {"asleep", "parked", "woken"}

-----------------------------------------------------------------------------
(* recovery.rs *)

\* Nothing changes a closed session; Ready ends the count of attempts.
Published(r, env) ==
  IF r.env \in {"closed", env} THEN r
  ELSE IF env = "ready"
       THEN [env |-> env, attempts |-> Unset, rebuilding |-> FALSE, news |-> TRUE, told |-> TRUE]
       ELSE [r EXCEPT !.env = env, !.news = TRUE, !.told = TRUE]

Used == IF rec.attempts = Unset THEN 0 ELSE rec.attempts

Recoverable(error) == \/ error = "ssh"
                      \/ rec.rebuilding /\ error \in {"late", "exhausted"}

\* Mutant: one attempt more than the limit.
ManualLate(error) == ~Recoverable(error) \/ Used > Limit

\* The wait is over only when somebody asks for it.
Manual(error) == ~Recoverable(error) \/ Used >= Limit

\* What a waiter that cannot go on reports.
Reported(error) == IF Recoverable(error) THEN "exhausted" ELSE error

Counting == [rec EXCEPT !.attempts = Used]

\* Mutant: the state is replaced without a notification.
ParkedSilently(error) ==
  [Counting EXCEPT !.env = IF Reported(error) = "exhausted" THEN "exhausted" ELSE "refused"]

Parked(error) ==
  Published(Counting, IF Reported(error) = "exhausted" THEN "exhausted" ELSE "refused")

Asleep == Published(Counting, "reconnecting")

\* One more attempt, after the delay or on request (which begins a new count).
Attempted(woken) ==
  Published([rec EXCEPT !.attempts = IF woken THEN 1 ELSE @ + 1], "reconnecting")

\* Both tasks of the session have done what does not wait for anybody else.
Settled == Prompt => /\ ~(status.at = "idle" /\ rec.news)
                     /\ ~(status.at = "continuing" /\ sub["status"].at \in {"none", "take"})
                     /\ ~(pump.at = "select" /\ native.events # <<>>)

\* notify_waiters reaches those that wait now.
Woken(at) == IF at \in {"asleep", "parked"} THEN "woken" ELSE at
Notify == /\ relay' = [relay EXCEPT !.at = Woken(@)]
          /\ pump' = [pump EXCEPT !.at = Woken(@)]

-----------------------------------------------------------------------------
(* intent.rs *)

Started(i, turn) == [i EXCEPT !.active = turn, !.current = turn]

\* Mutant: a completed turn is still the interrupted one.
EndedAlike(i, turn, outcome) ==
  [i EXCEPT !.completed = turn,
            !.active = IF @ = turn THEN None ELSE @,
            !.current = IF @ = turn THEN None ELSE @]

Ended(i, turn, outcome) ==
  [i EXCEPT !.completed = turn,
            !.active = IF @ = turn THEN None ELSE @,
            !.interrupted = IF outcome = "completed" THEN None ELSE @,
            !.current = IF @ = turn THEN None ELSE @]

\* An episode has a name of its own; "drawn" counts those that were given.
Disconnected(i) ==
  IF i.episode # None THEN i
  ELSE [i EXCEPT !.episode = i.drawn + 1, !.drawn = @ + 1,
                 !.interrupted = IF i.active = i.cancelled THEN None ELSE i.active]

\* Mutant: a stop forgets the interrupted turn, but is not remembered.
CancelledOnce(i, turn) ==
  [i EXCEPT !.pending = IF @ = "waiting" THEN "cancelled" ELSE @,
            !.interrupted = IF @ = turn THEN None ELSE @]

Cancelled(i, turn) ==
  [i EXCEPT !.pending = IF @ = "waiting" THEN "cancelled" ELSE @,
            !.cancelled = turn,
            !.interrupted = IF @ = turn THEN None ELSE @]

\* finish_disconnected_turn: the turn on the screen ends with the backend.
Finished(i) == IF i.current = None THEN i ELSE Ended(i, i.current, "failed")

\* continuation() gives nothing now and keeps the episode for later.
Postponed(i, rebuilt) == i.pending # "none" \/ (~rebuilt /\ i.active # None)

\* Mutant: the continuation is looked at, not taken.
ConsumedNever(i, rebuilt) == [i EXCEPT !.active = IF rebuilt THEN None ELSE @]

Consumed(i, rebuilt) ==
  [i EXCEPT !.episode = None, !.interrupted = None,
            !.active = IF rebuilt THEN None ELSE @]

\* A new instruction of the user takes the place of the continuation.
Forgotten(i) == [i EXCEPT !.interrupted = None, !.episode = None]

-----------------------------------------------------------------------------
NoSubmission == [at |-> "none", turn |-> None, episode |-> None, gen |-> 0, got |-> None, rebuilt |-> FALSE]
NoMessage == [at |-> "none", gen |-> 0]

Init ==
  /\ rec = [env |-> "ready", attempts |-> Unset, rebuilding |-> FALSE, news |-> FALSE, told |-> FALSE]
  /\ relay = [at |-> "up", err |-> "none"]
  /\ pump = [at |-> "select", err |-> "none"]
  /\ status = [at |-> "idle", ready |-> TRUE]
  /\ intent = [active |-> None, current |-> None, completed |-> None, interrupted |-> None,
               cancelled |-> None, episode |-> None, drawn |-> 0, pending |-> "none", resend |-> FALSE]
  /\ native = [alive |-> TRUE, running |-> None, made |-> 0, events |-> <<>>]
  /\ sub = [a \in Submitters |-> NoSubmission]
  /\ user = NoMessage
  /\ gate = "free"
  /\ gen = 0
  /\ closed = FALSE
  /\ outages = 0
  /\ messages = 0
  /\ hist = [continued |-> {}, cancelled |-> {}, replaced |-> {}, completed |-> {}]

-----------------------------------------------------------------------------
(* The relay *)

RelayBreaks ==
  /\ relay.at = "up" /\ outages < MaxOutages
  /\ outages' = outages + 1
  /\ relay' = [at |-> "lost", err |-> "ssh"]
  /\ UNCHANGED <<rec, pump, status, intent, native, sub, user, gate, gen, closed, messages, hist>>

\* An error frame, or Codex closed its side of the websocket.
RelayEnds ==
  /\ relay.at = "up"
  /\ \/ ~native.alive /\ outages' = outages
     \/ native.alive /\ outages < MaxOutages /\ outages' = outages + 1
  /\ relay' = [at |-> "failed", err |-> "lost"]
  /\ UNCHANGED <<rec, pump, status, intent, native, sub, user, gate, gen, closed, messages, hist>>

AsFault(error) == IF error = "ssh" THEN "ssh_fault" ELSE error

\* Mutant: the transport parks by itself.
RelayParks ==
  /\ relay.at = "lost"
  /\ IF rec.rebuilding
     THEN relay' = [at |-> "failed", err |-> AsFault(relay.err)] /\ UNCHANGED rec
     ELSE IF Manual(relay.err)
     THEN relay' = [relay EXCEPT !.at = "parked"] /\ rec' = Parked(relay.err)
     ELSE relay' = [relay EXCEPT !.at = "asleep"] /\ rec' = Asleep
  /\ UNCHANGED <<pump, status, intent, native, sub, user, gate, gen, closed, outages, messages, hist>>

\* Mutant: the transport does not ask whether its owner is rebuilding.
RelayWaitsAlways ==
  /\ relay.at = "lost"
  /\ IF Manual(relay.err)
     THEN relay' = [at |-> "failed", err |-> AsFault(Reported(relay.err))] /\ rec' = Counting
     ELSE relay' = [relay EXCEPT !.at = "asleep"] /\ rec' = Asleep
  /\ UNCHANGED <<pump, status, intent, native, sub, user, gate, gen, closed, outages, messages, hist>>

\* reconnect_channel: fail back to the owner, or wait for an attempt.
RelayWaits ==
  /\ relay.at = "lost"
  /\ IF rec.rebuilding
     THEN relay' = [at |-> "failed", err |-> AsFault(relay.err)] /\ UNCHANGED rec
     ELSE IF Manual(relay.err)
     THEN relay' = [at |-> "failed", err |-> AsFault(Reported(relay.err))] /\ rec' = Counting
     ELSE relay' = [relay EXCEPT !.at = "asleep"] /\ rec' = Asleep
  /\ UNCHANGED <<pump, status, intent, native, sub, user, gate, gen, closed, outages, messages, hist>>

\* The count may have been dropped meanwhile: then the wait fails.
RelayWakes ==
  /\ relay.at \in {"asleep", "woken"} /\ Settled
  /\ IF relay.at = "asleep" /\ rec.attempts = Unset
     THEN relay' = [at |-> "failed", err |-> "late"] /\ UNCHANGED rec
     ELSE relay' = [relay EXCEPT !.at = "trying"] /\ rec' = Attempted(relay.at = "woken")
  /\ UNCHANGED <<pump, status, intent, native, sub, user, gate, gen, closed, outages, messages, hist>>

RelayTries ==
  /\ relay.at = "trying"
  /\ \/ relay' = [relay EXCEPT !.at = "restored"]
     \/ relay' = [at |-> "failed", err |-> "lost"]
     \/ \E error \in {"ssh", "refused"} : relay' = [at |-> "lost", err |-> error]
  /\ UNCHANGED <<rec, pump, status, intent, native, sub, user, gate, gen, closed, outages, messages, hist>>

\* The outbox is sent again; then the flag is read, and Ready published after it.
RelayResends ==
  /\ relay.at = "restored"
  /\ \/ relay' = [at |-> "lost", err |-> "ssh"]
     \/ relay' = [at |-> IF rec.rebuilding THEN "up" ELSE "announcing", err |-> "none"]
  /\ UNCHANGED <<rec, pump, status, intent, native, sub, user, gate, gen, closed, outages, messages, hist>>

RelayAnnounces ==
  /\ relay.at = "announcing"
  /\ rec' = Published(rec, "ready")
  /\ relay' = [relay EXCEPT !.at = "up"]
  /\ UNCHANGED <<pump, status, intent, native, sub, user, gate, gen, closed, outages, messages, hist>>

-----------------------------------------------------------------------------
(* The pump *)

\* finish_shutdown: also the end of the pump with an error.
ShutDown ==
  /\ closed' = TRUE
  /\ rec' = Published(rec, "closed")
  /\ relay' = [relay EXCEPT !.at = "stopped"]
  /\ native' = [native EXCEPT !.alive = FALSE, !.running = None, !.events = <<>>]

Dies(error) ==
  /\ ShutDown
  /\ pump' = [at |-> "dead", err |-> error]

Event == Head(native.events)

\* A turn starts or ends; the owner looks for work to continue when one ended.
PumpTakes ==
  /\ pump.at = "select" /\ ~closed
  /\ native.events # <<>> /\ Event.kind \in {"started", "ended"}
  /\ native' = [native EXCEPT !.events = Tail(@)]
  /\ IF Event.kind = "started"
     THEN intent' = Started(intent, Event.turn) /\ UNCHANGED <<pump, hist>>
     ELSE /\ intent' = Ended(intent, Event.turn, Event.outcome)
          /\ pump' = [pump EXCEPT !.at = "ended"]
          /\ hist' = [hist EXCEPT !.completed = @ \cup {t \in {Event.turn} : Event.outcome = "completed"}]
  /\ UNCHANGED <<rec, relay, status, sub, user, gate, gen, closed, outages, messages>>

\* The engine ended: the session ends with it, unless it is being recovered.
PumpTakesEnd ==
  /\ pump.at = "select" /\ ~closed
  /\ native.events # <<>> /\ Event.kind = "closed"
  /\ IF rec.env = "ready"
     THEN Dies("engine")
     ELSE /\ pump' = [at |-> "rebuild", err |-> IF relay.at = "failed" THEN relay.err ELSE "lost"]
          /\ native' = [native EXCEPT !.events = Tail(@)]
          /\ UNCHANGED <<rec, relay, closed>>
  /\ UNCHANGED <<status, intent, sub, user, gate, gen, outages, messages, hist>>

PumpNotices ==
  /\ pump.at = "select" /\ ~closed
  /\ relay.at = "failed"
  /\ pump' = [at |-> "rebuild", err |-> relay.err]
  /\ UNCHANGED <<rec, relay, status, intent, native, sub, user, gate, gen, closed, outages, messages, hist>>

\* process, after refresh_summary: continue_interrupted(false).
PumpLooks ==
  /\ pump.at = "ended" /\ ~closed
  /\ IF rec.env = "ready"
     THEN /\ pump' = [pump EXCEPT !.at = "resuming"]
          /\ sub' = [sub EXCEPT !["pump"] = [NoSubmission EXCEPT !.at = "take"]]
     ELSE pump' = [pump EXCEPT !.at = "select"] /\ UNCHANGED sub
  /\ UNCHANGED <<rec, relay, status, intent, native, user, gate, gen, closed, outages, messages, hist>>

PumpResumes ==
  /\ pump.at = "resuming" /\ sub["pump"].at = "none"
  /\ pump' = [pump EXCEPT !.at = "select"]
  /\ UNCHANGED <<rec, relay, status, intent, native, sub, user, gate, gen, closed, outages, messages, hist>>

\* rebuild, up to the closing of the old generation.
PumpRebuilds ==
  /\ pump.at = "rebuild" /\ ~closed
  /\ rec' = Published([rec EXCEPT !.rebuilding = TRUE], "recovering")
  /\ intent' = Disconnected(intent)
  /\ pump' = [pump EXCEPT !.at = "closing"]
  /\ UNCHANGED <<relay, status, native, sub, user, gate, gen, closed, outages, messages, hist>>

\* suspend_goal first: the status task notes a disconnection when it releases the goal gate.
PumpCloses ==
  /\ pump.at = "closing" /\ ~closed
  /\ status.at # "disconnect"
  /\ relay' = [relay EXCEPT !.at = "stopped"]
  /\ native' = [native EXCEPT !.alive = FALSE, !.running = None, !.events = <<>>]
  /\ intent' = IF pump.err = "exhausted" THEN intent ELSE Finished(intent)
  /\ pump' = [at |-> "wait", err |-> IF pump.err = "lost" THEN "ssh" ELSE pump.err]
  /\ UNCHANGED <<rec, status, sub, user, gate, gen, closed, outages, messages, hist>>

PumpWaits ==
  /\ pump.at = "wait" /\ ~closed
  /\ IF ~Manual(pump.err)
     THEN rec' = Asleep /\ pump' = [pump EXCEPT !.at = "asleep"] /\ UNCHANGED <<relay, native, closed>>
     ELSE IF rec.rebuilding
     THEN rec' = Parked(pump.err) /\ pump' = [pump EXCEPT !.at = "parked"] /\ UNCHANGED <<relay, native, closed>>
     ELSE Dies(pump.err)
  /\ UNCHANGED <<status, intent, sub, user, gate, gen, outages, messages, hist>>

PumpWakes ==
  /\ pump.at \in {"asleep", "woken"} /\ ~closed /\ Settled
  /\ IF pump.at = "asleep" /\ rec.attempts = Unset
     THEN Dies("late")
     ELSE /\ rec' = Attempted(pump.at = "woken")
          /\ pump' = [pump EXCEPT !.at = "replacing"]
          /\ UNCHANGED <<relay, native, closed>>
  /\ UNCHANGED <<status, intent, sub, user, gate, gen, outages, messages, hist>>

\* replace: a new bridge and a new engine for the same thread.
PumpReplaces ==
  /\ pump.at = "replacing" /\ ~closed
  /\ \/ /\ \E error \in {"ssh", "late", "refused"} : pump' = [at |-> "wait", err |-> error]
        /\ UNCHANGED <<relay, native>>
     \/ /\ relay' = [at |-> "up", err |-> "none"]
        /\ native' = [native EXCEPT !.alive = TRUE]
        /\ pump' = [at |-> "verifying", err |-> "none"]
  /\ UNCHANGED <<rec, status, intent, sub, user, gate, gen, closed, outages, messages, hist>>

\* Settings, permissions and goal are restored before the generation takes its place.
PumpVerifies ==
  /\ pump.at = "verifying" /\ ~closed
  /\ \/ /\ \E error \in {"ssh", "late", "refused"} : pump' = [at |-> "wait", err |-> error]
        /\ relay' = [relay EXCEPT !.at = "stopped"]
        /\ native' = [native EXCEPT !.alive = FALSE, !.events = <<>>]
        /\ UNCHANGED <<rec, sub, gen>>
     \/ /\ native.alive
        /\ gen' = gen + 1
        /\ rec' = Published(rec, "recovering")
        /\ pump' = [at |-> "continuing", err |-> "none"]
        /\ sub' = [sub EXCEPT !["pump"] = [NoSubmission EXCEPT !.at = "take", !.rebuilt = TRUE]]
        /\ UNCHANGED <<relay, native>>
  /\ UNCHANGED <<status, intent, user, gate, closed, outages, messages, hist>>

\* Mutant: ready is left to the transport.
PumpAnnouncesNothing ==
  /\ pump.at = "continuing" /\ ~closed
  /\ sub["pump"].at = "none"
  /\ pump' = [pump EXCEPT !.at = "select"]
  /\ UNCHANGED <<rec, relay, status, intent, native, sub, user, gate, gen, closed, outages, messages, hist>>

PumpAnnounces ==
  /\ pump.at = "continuing" /\ ~closed
  /\ sub["pump"].at = "none"
  /\ rec' = IF rec.env \in ActionRequired THEN rec ELSE Published(rec, "ready")
  /\ pump' = [pump EXCEPT !.at = "select"]
  /\ UNCHANGED <<relay, status, intent, native, sub, user, gate, gen, closed, outages, messages, hist>>

PumpStops ==
  /\ closed /\ pump.at # "dead"
  /\ pump' = [at |-> "dead", err |-> "user"]
  /\ sub' = [sub EXCEPT !["pump"] = NoSubmission]
  /\ gate' = IF gate = "pump" THEN "free" ELSE gate
  /\ UNCHANGED <<rec, relay, status, intent, native, user, gen, closed, outages, messages, hist>>

-----------------------------------------------------------------------------
(* The status task *)

StatusReads ==
  /\ status.at = "idle" /\ rec.news
  /\ rec' = [rec EXCEPT !.news = FALSE]
  /\ LET again == rec.env = "ready" /\ ~status.ready
         next == IF rec.env = "reconnecting" /\ status.ready THEN "disconnect"
                 ELSE IF again THEN "continuing"
                 ELSE IF rec.env = "closed" THEN "done" ELSE "idle"
     IN /\ status' = [at |-> next, ready |-> rec.env = "ready"]
        /\ sub' = IF again THEN [sub EXCEPT !["status"] = [NoSubmission EXCEPT !.at = "take"]] ELSE sub
        /\ intent' = IF rec.env = "exhausted" THEN Finished(intent)
                     ELSE [intent EXCEPT !.resend = IF again THEN FALSE ELSE @]
  /\ UNCHANGED <<relay, pump, native, user, gate, gen, closed, outages, messages, hist>>

\* After the goal was suspended.
StatusDisconnects ==
  /\ status.at = "disconnect"
  /\ intent' = Disconnected(intent)
  /\ status' = [status EXCEPT !.at = "idle"]
  /\ UNCHANGED <<rec, relay, pump, native, sub, user, gate, gen, closed, outages, messages, hist>>

StatusResumes ==
  /\ status.at = "continuing" /\ sub["status"].at = "none"
  /\ status' = [status EXCEPT !.at = "idle"]
  /\ UNCHANGED <<rec, relay, pump, intent, native, sub, user, gate, gen, closed, outages, messages, hist>>

-----------------------------------------------------------------------------
(* continue_interrupted, by either task *)

Take(a) ==
  /\ sub[a].at = "take"
  /\ LET rebuilt == sub[a].rebuilt
         found == ~Postponed(intent, rebuilt) /\ intent.episode # None /\ intent.interrupted # None /\ ~closed
     IN /\ intent' = IF Postponed(intent, rebuilt) THEN intent ELSE Consumed(intent, rebuilt)
        /\ sub' = [sub EXCEPT ![a] = IF found
                     THEN [@ EXCEPT !.at = "check", !.turn = intent.interrupted,
                               !.episode = intent.episode, !.gen = gen]
                     ELSE NoSubmission]
  /\ UNCHANGED <<rec, relay, pump, status, native, user, gate, gen, closed, outages, messages, hist>>

\* The current generation: the one that replaces it is not known before it is verified.
Attached == relay.at \notin {"failed", "stopped"} /\ pump.at # "verifying"
Alive(number) == native.alive /\ number = gen /\ pump.at # "verifying"

\* Mutant: what the user stopped is not looked up again behind the gate.
CheckUnstopped(a) ==
  /\ sub[a].at = "check" /\ gate = "free"
  /\ LET fit == ~closed /\ sub[a].gen = gen /\ rec.env \in {"ready", "recovering"} /\ Attached
     IN /\ gate' = IF fit THEN a ELSE gate
        /\ sub' = [sub EXCEPT ![a].at = IF fit THEN "send" ELSE "confirm"]
  /\ UNCHANGED <<rec, relay, pump, status, intent, native, user, gen, closed, outages, messages, hist>>

\* dispatch: the turn gate, and what is checked behind it.
Check(a) ==
  /\ sub[a].at = "check" /\ gate = "free"
  /\ LET current == ~closed /\ sub[a].gen = gen
         cancelled == sub[a].turn = intent.cancelled
         ready == rec.env \in {"ready", "recovering"} /\ Attached
     IN /\ gate' = IF current /\ ~cancelled /\ ready THEN a ELSE gate
        /\ sub' = [sub EXCEPT ![a] = IF current /\ cancelled THEN NoSubmission
                     ELSE [@ EXCEPT !.at = IF current /\ ready THEN "send" ELSE "confirm"]]
  /\ UNCHANGED <<rec, relay, pump, status, intent, native, user, gen, closed, outages, messages, hist>>

\* turn/start: a new turn, or another input of the one that runs.
Begins ==
  IF native.running # None THEN native
  ELSE [native EXCEPT !.running = native.made + 1, !.made = @ + 1,
                      !.events = Append(@, [kind |-> "started", turn |-> native.made + 1, outcome |-> "none"])]

Send(a) ==
  /\ sub[a].at = "send"
  /\ IF Alive(sub[a].gen)
     THEN /\ native' = Begins
          /\ sub' = [sub EXCEPT ![a].at = "answer", ![a].got = native'.running]
          /\ hist' = [hist EXCEPT !.continued = @ \cup {<<sub[a].episode, native'.running>>}]
          /\ UNCHANGED gate
     ELSE /\ sub' = [sub EXCEPT ![a].at = "confirm"]
          /\ gate' = "free"
          /\ UNCHANGED <<native, hist>>
  /\ UNCHANGED <<rec, relay, pump, status, intent, user, gen, closed, outages, messages>>

\* The answer, unless it is late or the engine ended before it.
Answer(a) ==
  /\ sub[a].at = "answer"
  /\ gate' = "free"
  /\ \/ /\ Alive(sub[a].gen)
        /\ intent' = IF intent.completed = sub[a].got THEN intent ELSE [intent EXCEPT !.active = sub[a].got]
        /\ sub' = [sub EXCEPT ![a] = NoSubmission]
     \/ /\ UNCHANGED intent
        /\ sub' = [sub EXCEPT ![a].at = "confirm"]
  /\ UNCHANGED <<rec, relay, pump, status, native, user, gen, closed, outages, messages, hist>>

\* recovery_recorded looks for the marker in the history of the thread, if it can read it.
Confirm(a) ==
  /\ sub[a].at = "confirm"
  /\ sub' = [sub EXCEPT ![a] = NoSubmission]
  /\ \/ Alive(gen) /\ sub[a].got # None /\ UNCHANGED rec
     \/ rec' = Published(rec, "unconfirmed")
  /\ UNCHANGED <<relay, pump, status, intent, native, user, gate, gen, closed, outages, messages, hist>>

-----------------------------------------------------------------------------
(* The user *)

\* recover_for_message / the first checks of a message in a ready session.
Message ==
  /\ user.at = "none" /\ ~closed /\ messages < MaxMessages /\ Settled
  /\ messages' = messages + 1
  /\ \/ /\ rec.env = "exhausted"
        /\ intent' = [Forgotten(intent) EXCEPT !.pending = "waiting"]
        /\ hist' = [hist EXCEPT !.replaced = @ \cup 1 .. native.made]
        /\ rec' = [rec EXCEPT !.told = FALSE]
        /\ user' = [user EXCEPT !.at = "waiting"]
        /\ Notify
     \/ /\ rec.env = "ready"
        /\ user' = [at |-> "captured", gen |-> gen]
        /\ UNCHANGED <<rec, intent, hist, relay, pump>>
  /\ UNCHANGED <<status, native, sub, gate, gen, closed, outages>>

\* retry_for_message: the input of the native interface is to be sent again.
MessageRetries ==
  /\ user.at = "none" /\ ~closed /\ messages < MaxMessages /\ Settled
  /\ messages' = messages + 1
  /\ rec.env = "exhausted"
  /\ intent' = [Forgotten(intent) EXCEPT !.resend = TRUE]
  /\ hist' = [hist EXCEPT !.replaced = @ \cup 1 .. native.made]
  /\ Notify
  /\ UNCHANGED <<rec, status, native, sub, user, gate, gen, closed, outages>>

\* The message fails or is done; its slot is released.
MessageDone == /\ user' = NoMessage
               /\ intent' = [intent EXCEPT !.pending = "none"]

MessageHears ==
  /\ user.at = "waiting"
  /\ \/ /\ closed \/ intent.pending = "cancelled"
        /\ MessageDone
        /\ UNCHANGED rec
     \/ /\ rec.told
        /\ rec' = [rec EXCEPT !.told = FALSE]
        /\ IF rec.env = "ready"
           THEN user' = [at |-> "captured", gen |-> gen] /\ UNCHANGED intent
           ELSE IF rec.env \in ActionRequired \cup {"closed"} THEN MessageDone
           ELSE UNCHANGED <<user, intent>>
  /\ UNCHANGED <<relay, pump, status, native, sub, gate, gen, closed, outages, messages, hist>>

MessageChecks ==
  /\ user.at = "captured" /\ gate = "free"
  /\ IF ~closed /\ user.gen = gen /\ rec.env = "ready" /\ Attached
     THEN gate' = "user" /\ user' = [user EXCEPT !.at = "checked"] /\ UNCHANGED intent
     ELSE MessageDone /\ UNCHANGED gate
  /\ UNCHANGED <<rec, relay, pump, status, native, sub, gen, closed, outages, messages, hist>>

\* After the binding and the time of the message were stored.
MessageSends ==
  /\ user.at = "checked"
  /\ IF intent.pending # "cancelled" /\ Alive(user.gen)
     THEN native' = Begins /\ user' = [user EXCEPT !.at = "sent"] /\ UNCHANGED <<intent, gate>>
     ELSE MessageDone /\ gate' = "free" /\ UNCHANGED native
  /\ UNCHANGED <<rec, relay, pump, status, sub, gen, closed, outages, messages, hist>>

MessageAnswered ==
  /\ user.at = "sent"
  /\ MessageDone
  /\ gate' = "free"
  /\ UNCHANGED <<rec, relay, pump, status, native, sub, gen, closed, outages, messages, hist>>

TurnEnded(turn, outcome) ==
  [native EXCEPT !.running = None,
                 !.events = Append(@, [kind |-> "ended", turn |-> turn, outcome |-> outcome])]

\* Stop, pressed for the turn that the session shows; the engine may not hear of it.
Interrupt ==
  /\ ~closed /\ Settled
  /\ LET turn == intent.current
     IN /\ turn \notin {None, intent.cancelled}
        /\ intent' = Cancelled(intent, turn)
        /\ hist' = [hist EXCEPT !.cancelled = @ \cup {turn}]
        /\ \/ native' = native
           \/ native.running = turn /\ native' = TurnEnded(turn, "interrupted")
  /\ UNCHANGED <<rec, relay, pump, status, sub, user, gate, gen, closed, outages, messages>>

Retry ==
  /\ ~closed /\ rec.env \in ActionRequired /\ messages < MaxMessages /\ Settled
  /\ messages' = messages + 1
  /\ Notify
  /\ UNCHANGED <<rec, status, intent, native, sub, user, gate, gen, closed, outages, hist>>

Close ==
  /\ ~closed
  /\ ShutDown
  /\ UNCHANGED <<pump, status, intent, sub, user, gate, gen, outages, messages, hist>>

-----------------------------------------------------------------------------
(* Codex *)

TurnEnds ==
  /\ native.alive /\ native.running # None
  /\ \E outcome \in {"completed", "failed"} :
       /\ native' = TurnEnded(native.running, outcome)
  /\ UNCHANGED <<rec, relay, pump, status, intent, sub, user, gate, gen, closed, outages, messages, hist>>

EngineEnds ==
  /\ native.alive /\ outages < MaxOutages
  /\ outages' = outages + 1
  /\ native' = [native EXCEPT !.alive = FALSE, !.running = None,
                              !.events = Append(@, [kind |-> "closed", turn |-> None, outcome |-> "none"])]
  /\ UNCHANGED <<rec, relay, pump, status, intent, sub, user, gate, gen, closed, messages, hist>>

-----------------------------------------------------------------------------
RelaySteps == \/ RelayEnds \/ RelayWaits \/ RelayWakes \/ RelayTries \/ RelayResends \/ RelayAnnounces
PumpSteps == \/ PumpTakes \/ PumpTakesEnd \/ PumpNotices \/ PumpLooks \/ PumpResumes
             \/ PumpRebuilds \/ PumpCloses \/ PumpWaits \/ PumpWakes \/ PumpReplaces \/ PumpVerifies
             \/ PumpAnnounces \/ PumpStops
StatusSteps == StatusReads \/ StatusDisconnects \/ StatusResumes
Submits(a) == Take(a) \/ Check(a) \/ Send(a) \/ Answer(a) \/ Confirm(a)
MessageSteps == MessageHears \/ MessageChecks \/ MessageSends \/ MessageAnswered

Next == \/ RelayBreaks \/ RelaySteps
        \/ PumpSteps \/ StatusSteps
        \/ \E a \in Submitters : Submits(a)
        \/ Message \/ MessageRetries \/ MessageSteps
        \/ Interrupt \/ Retry \/ Close
        \/ TurnEnds \/ EngineEnds

Spec == Init /\ [][Next]_vars

\* What the transport does by itself: a living engine need not fail.
RelayGoesOn == \/ RelayEnds /\ ~native.alive
               \/ RelayWaits \/ RelayWakes \/ RelayTries \/ RelayResends \/ RelayAnnounces

\* Tasks and timers go on; the user, the connection and the turns of Codex need not.
FairSpec == /\ Spec
            /\ WF_vars(RelayGoesOn) /\ WF_vars(PumpSteps) /\ WF_vars(StatusSteps)
            /\ \A a \in Submitters : WF_vars(Submits(a))
            /\ WF_vars(MessageSteps)

-----------------------------------------------------------------------------
RelayPlaces == {"up", "lost", "asleep", "woken", "trying", "restored", "announcing", "failed", "stopped"}
PumpPlaces == {"select", "ended", "resuming", "rebuild", "closing", "wait", "asleep", "parked", "woken",
               "replacing", "verifying", "continuing", "dead"}
Errors == {"none", "ssh", "ssh_fault", "late", "lost", "exhausted", "refused", "engine", "user"}
Events == [kind : {"started", "ended", "closed"}, turn : Nat,
           outcome : {"none", "completed", "failed", "interrupted"}]

TypeOK ==
  /\ rec \in [env : {"ready", "reconnecting", "recovering", "closed"} \cup ActionRequired,
              attempts : Nat \cup {Unset}, rebuilding : BOOLEAN, news : BOOLEAN, told : BOOLEAN]
  /\ relay \in [at : RelayPlaces, err : Errors]
  /\ pump \in [at : PumpPlaces, err : Errors]
  /\ status \in [at : {"idle", "disconnect", "continuing", "done"}, ready : BOOLEAN]
  /\ intent \in [active : Nat, current : Nat, completed : Nat, interrupted : Nat, cancelled : Nat,
                 episode : Nat, drawn : Nat, pending : {"none", "waiting", "cancelled"}, resend : BOOLEAN]
  /\ native \in [alive : BOOLEAN, running : Nat, made : Nat, events : Seq(Events)]
  /\ native.running <= native.made
  /\ sub \in [Submitters -> [at : {"none", "take", "check", "send", "answer", "confirm"},
                             turn : Nat, episode : Nat, gen : Nat, got : Nat, rebuilt : BOOLEAN]]
  /\ user \in [at : {"none", "waiting", "captured", "checked", "sent"}, gen : Nat]
  /\ gate \in Submitters \cup {"free", "user"}
  /\ gen \in Nat /\ closed \in BOOLEAN /\ outages \in Nat /\ messages \in Nat
  /\ hist \in [continued : SUBSET (Nat \X Nat), cancelled : SUBSET Nat, replaced : SUBSET Nat,
               completed : SUBSET Nat]

\* continue_interrupted: the marker of an episode is submitted at most once, whatever was
\* confirmed or lost on the way, and whichever of the two tasks came first.
ContinuedOnce == \A p, q \in hist.continued : p[1] = q[1] => p = q

TakenFor(a, turns) == sub[a].at = "take" /\ sub'[a].at = "check" /\ sub'[a].turn \in turns
SentFor(a, turns) == sub[a].at = "check" /\ sub'[a].at = "send" /\ sub[a].turn \in turns

LastStopped == {t \in hist.cancelled : \A u \in hist.cancelled : u <= t}

ContinuesUnended == \A a \in Submitters : /\ ~TakenFor(a, hist.cancelled \cup hist.completed)
                                          /\ ~SentFor(a, LastStopped)

\* cancel, disconnect and observe: no continuation is taken for a turn that the user stopped or that the
\* session saw completed.  is_cancelled, behind the turn gate: the turn that he stopped last is not
\* continued either if he stopped it after its continuation was taken.
EndedStays == [][ContinuesUnended]_vars

\* recover_for_message, retry_for_message: a new instruction of the user replaces the
\* continuation of every turn before it, also when this time reconnecting fails.
ReplacedStays == [][\A a \in Submitters : ~SentFor(a, hist.replaced)]_vars

\* wait: the owner is registered before the states that it publishes itself are seen.
OwnerHearsRetry ==
  rec.env \in {"exhausted", "refused"} => pump.at \in {"parked", "woken"} \/ closed

\* wait: the relay and the owner together never use more attempts than the limit.
BudgetHeld == rec.attempts <= Limit

\* rebuilding: while the owner replaces a generation, the transport of the replacement fails
\* back to it instead of waiting and trying in parallel.
OneWaiter ==
  rec.rebuilding /\ pump.at \in Waiting \cup {"wait", "replacing", "verifying", "continuing"}
    => relay.at \notin {"asleep", "woken", "trying"}

\* The transport and the replacement of a generation share one budget, and use it in turn.
OneBudget == BudgetHeld /\ OneWaiter

\* recover_for_message: a message that waits for the connection is sent or refused at last.
MessageIsAnswered == user.at = "waiting" ~> user.at # "waiting"

\* pump, status and relay: a recovery that began ends with a state that the user can act on.
RecoverySettles ==
  rec.env \in {"reconnecting", "recovering"} ~> rec.env \in {"ready", "closed"} \cup ActionRequired

\* Nothing that waits for a connection waits for ever: neither a message nor the recovery.
RecoveryEnds == MessageIsAnswered /\ RecoverySettles
=============================================================================
