---------------------------- MODULE SessionGoals ----------------------------
(***************************************************************************)
(* The goal of a session: who may change it, what the session shows of it, *)
(* and how an outage suspends and restores it.                             *)
(*                                                                         *)
(*   native   the goal as the local Codex process has it; every change is  *)
(*            told in `news', which the pump reads in order;             *)
(*   shown    Intent.goal; a loader that reads the goal stores it only if  *)
(*            goal_revision is still what it was when the read began       *)
(*            (`fresh'), client/src/local/goals.rs load_goal;              *)
(*   resume   Intent.resume_goal, the goal to activate after the outage;   *)
(*   gate     goal_gate, which one task holds for its whole operation;     *)
(*   task     "user"    pause, resume, set, clear (goal), and turn/interrupt*)
(*                      (client/src/local/route.rs request);               *)
(*            "status"  suspend and restore when the state changes;        *)
(*            "pump"    restore when a turn completes, while it reads no   *)
(*                      notification (client/src/local/events.rs).         *)
(*                                                                         *)
(* Plan mode, budgets and the prompts' texts are left out.                 *)
(***************************************************************************)
EXTENDS Naturals, Sequences

CONSTANTS
  MaxOrders,    \* bound: what the user asks of the goal
  MaxOutages,   \* bound: losses of the connection
  MaxLost       \* bound: answers of the engine that do not arrive

ASSUME GoalsAssumption == MaxOrders \in Nat /\ MaxOutages \in Nat /\ MaxLost \in Nat

VARIABLES native, news, shown, resume, gate, task,
          ready,      \* Recovery::ready
          status,     \* whether the status task last saw Ready
          turn,       \* a turn is at work, and an interruption waits for it
          orders, outages, lost,
          paused      \* history, read by no guard: the user's last word was a pause, and it was heard

goalVars == <<native, news, shown, resume, gate, task, ready, status, turn, orders, outages, lost, paused>>

Tasks == {"user", "status", "pump"}
Orders == {"pause", "resume", "set", "clear", "interrupt"}
Goal(objective, state) == [objective |-> objective, state |-> state]
NoGoal == Goal(0, "none")
Idle == [op |-> "none", at |-> "idle", objective |-> 0, value |-> NoGoal, fresh |-> FALSE]

GoalsInit ==
  /\ native = Goal(1, "active") /\ shown = native
  /\ news = <<>>
  /\ resume = 0 /\ gate = "free"
  /\ task = [t \in Tasks |-> Idle]
  /\ ready = TRUE /\ status = TRUE
  /\ turn = [active |-> TRUE, episode |-> FALSE]
  /\ orders = 0 /\ outages = 0 /\ lost = 0
  /\ paused = FALSE

-----------------------------------------------------------------------------
(* Who wants what.                                                         *)

Begins(t, op) == task' = [task EXCEPT ![t] = [Idle EXCEPT !.op = op, !.at = "gate"]]

UserOrders(op) ==
  /\ task["user"].at = "idle"
  /\ orders < MaxOrders
  /\ op = "set" => ~turn.active       \* TURN_ACTIVE
  /\ orders' = orders + 1
  /\ paused' = (paused /\ op = "pause")
  /\ Begins("user", op)
  /\ UNCHANGED <<native, news, shown, resume, gate, ready, status, turn, outages, lost>>

\* turn/interrupt: the intention to resume is gone at once; without a connection that is all.
UserInterrupts ==
  /\ task["user"].at = "idle"
  /\ orders < MaxOrders
  /\ turn.active
  /\ orders' = orders + 1
  /\ resume' = 0
  /\ IF ready THEN Begins("user", "interrupt") ELSE UNCHANGED task
  /\ UNCHANGED <<native, news, shown, gate, ready, status, turn, outages, lost, paused>>

ConnectionBreaks ==
  /\ ready /\ outages < MaxOutages
  /\ ready' = FALSE
  /\ outages' = outages + 1
  /\ UNCHANGED <<native, news, shown, resume, gate, task, status, turn, orders, lost, paused>>

ConnectionReturns ==
  /\ ~ready
  /\ ready' = TRUE
  /\ UNCHANGED <<native, news, shown, resume, gate, task, status, turn, orders, outages, lost, paused>>

\* The status task sees only the latest state.
StatusSuspends ==
  /\ status /\ ~ready
  /\ task["status"].at = "idle"
  /\ status' = FALSE
  /\ Begins("status", "suspend")
  /\ UNCHANGED <<native, news, shown, resume, gate, ready, turn, orders, outages, lost, paused>>

\* The interruption is continued first, unless its turn is still at work.
StatusRestores ==
  /\ ~status /\ ready
  /\ task["status"].at = "idle"
  /\ status' = TRUE
  /\ turn' = [turn EXCEPT !.episode = @ /\ turn.active]
  /\ Begins("status", "restore")
  /\ UNCHANGED <<native, news, shown, resume, gate, ready, orders, outages, lost, paused>>

\* The completion of a turn ends the interruption, and the pump restores the goal.
TurnCompletes ==
  /\ turn.active
  /\ task["pump"].at = "idle"
  /\ turn' = [active |-> FALSE, episode |-> turn.episode /\ ~ready]
  /\ IF ready THEN Begins("pump", "restore") ELSE UNCHANGED task
  /\ UNCHANGED <<native, news, shown, resume, gate, ready, status, orders, outages, lost, paused>>

-----------------------------------------------------------------------------
(* One operation under the gate.                                           *)

Moves(t, at) == [task EXCEPT ![t].at = at]

\* After a suspension the status task notes the disconnection.
Ends(t) ==
  /\ gate' = "free"
  /\ task' = [task EXCEPT ![t] = Idle]
  /\ turn' = IF task[t].op = "suspend" THEN [turn EXCEPT !.episode = TRUE] ELSE turn

Enters(t, ops) == task[t].at = "gate" /\ gate = "free" /\ task[t].op \in ops

\* Mutant: a pause leaves the intention to resume.
EnterOrderKeeping(t) ==
  /\ Enters(t, {"pause", "resume", "set", "clear"})
  /\ gate' = t
  /\ task' = Moves(t, "asking")
  /\ UNCHANGED <<native, news, shown, resume, ready, status, turn, orders, outages, lost, paused>>

EnterOrder(t) ==
  /\ Enters(t, {"pause", "resume", "set", "clear"})
  /\ gate' = t
  /\ resume' = IF task[t].op \in {"pause", "clear"} THEN 0 ELSE resume
  /\ task' = Moves(t, "asking")
  /\ UNCHANGED <<native, news, shown, ready, status, turn, orders, outages, lost, paused>>

\* pause_goal and suspend_goal ask only for a goal that is shown as active.
EnterPause(t) ==
  /\ Enters(t, {"interrupt", "suspend"})
  /\ IF shown.state = "active"
     THEN /\ gate' = t
          /\ resume' = IF task[t].op = "suspend" THEN shown.objective ELSE 0
          /\ task' = Moves(t, "asking")
          /\ turn' = turn
     ELSE /\ Ends(t)
          /\ resume' = IF task[t].op = "suspend" THEN resume ELSE 0
  /\ UNCHANGED <<native, news, shown, ready, status, orders, outages, lost, paused>>

\* restore_goal, until its first read.
EnterRestore(t) ==
  /\ Enters(t, {"restore"})
  /\ IF ready /\ resume # 0 /\ ~turn.episode
     THEN /\ gate' = t
          /\ task' = [task EXCEPT ![t].at = "loading", ![t].objective = resume]
          /\ turn' = turn
     ELSE Ends(t)
  /\ UNCHANGED <<native, news, shown, resume, ready, status, orders, outages, lost, paused>>

\* What thread/goal/set and clear make of the goal.
Asked(op) ==
  CASE op \in {"pause", "interrupt", "suspend"} ->
         IF native.state = "active" THEN [native EXCEPT !.state = "paused"] ELSE native
    [] op \in {"resume", "restore"} -> IF native.state = "paused" THEN [native EXCEPT !.state = "active"] ELSE native
    [] op = "set" -> Goal(native.objective + 1, IF shown.state = "paused" THEN "paused" ELSE "active")
    [] op = "clear" -> [native EXCEPT !.state = "none"]

Told(goal) == IF goal = native THEN news ELSE Append(news, goal)

\* What starts work needs the connection; a new goal is defined without it.
Refused(t) ==
  /\ task[t].at = "asking"
  /\ task[t].op \in {"resume", "restore"} /\ ~ready
  /\ Ends(t)
  /\ UNCHANGED <<native, news, shown, resume, ready, status, orders, outages, lost, paused>>

AskEngine(t) ==
  /\ task[t].at = "asking"
  /\ task[t].op \in {"resume", "restore"} => ready
  /\ native' = Asked(task[t].op)
  /\ news' = Told(native')
  /\ task' = Moves(t, "asked")
  /\ UNCHANGED <<shown, resume, gate, ready, status, turn, orders, outages, lost, paused>>

Answer(t) ==
  /\ task[t].at = "asked"
  /\ task' = Moves(t, IF task[t].op = "restore" THEN "finishing" ELSE "loading")
  /\ UNCHANGED <<native, news, shown, resume, gate, ready, status, turn, orders, outages, lost, paused>>

\* The outcome is unknown: an order fails, a restoration looks what became of it.
AnswerIsLost(t) ==
  /\ task[t].at = "asked"
  /\ lost < MaxLost
  /\ lost' = lost + 1
  /\ IF task[t].op = "restore" /\ ready THEN task' = Moves(t, "confirming") /\ UNCHANGED <<gate, turn>>
     ELSE Ends(t)
  /\ UNCHANGED <<native, news, shown, resume, ready, status, orders, outages, paused>>

-----------------------------------------------------------------------------
(* load_goal                                                               *)

Loading == {"loading", "finishing", "confirming"}

LoadBegins(t) ==
  /\ task[t].at \in Loading /\ ~task[t].fresh /\ task[t].value = NoGoal
  /\ task' = [task EXCEPT ![t].fresh = TRUE, ![t].value = Goal(0, "unread")]
  /\ UNCHANGED <<native, news, shown, resume, gate, ready, status, turn, orders, outages, lost, paused>>

EngineReads(t) ==
  /\ task[t].at \in Loading /\ task[t].value = Goal(0, "unread")
  /\ task' = [task EXCEPT ![t].value = native]
  /\ UNCHANGED <<native, news, shown, resume, gate, ready, status, turn, orders, outages, lost, paused>>

\* Mutant: what was read is stored, whatever was told meanwhile.
StoredAlways(t) == task[t].value

\* A notification received during the read is newer than what was read.
Stored(t) == IF task[t].fresh THEN task[t].value ELSE shown

\* The revision grows: nobody else who is reading may store.
Stale(tasks) == [t \in Tasks |-> [tasks[t] EXCEPT !.fresh = FALSE]]

HasRead(t, at) == task[t].at = at /\ task[t].value \notin {NoGoal, Goal(0, "unread")}

\* An order is done; what it replaces is not resumed.
OrderDone(t) ==
  /\ HasRead(t, "loading") /\ task[t].op # "restore"
  /\ shown' = Stored(t)
  /\ resume' = IF task[t].op \in {"resume", "set"} THEN 0 ELSE resume
  /\ gate' = "free"
  /\ task' = [Stale(task) EXCEPT ![t] = Idle]
  /\ turn' = IF task[t].op = "suspend" THEN [turn EXCEPT !.episode = TRUE] ELSE turn
  /\ paused' = IF task[t].op \in {"pause", "interrupt"}
               THEN native.state # "active" /\ news = <<>> ELSE paused
  /\ UNCHANGED <<native, news, ready, status, orders, outages, lost>>

Paused(goal, objective) == goal = Goal(objective, "paused")

StillWanted(t) == resume = task[t].objective /\ ~turn.episode

\* The first read of restore_goal: is the goal still to be resumed, and still paused?
RestoreLooks(t) ==
  /\ HasRead(t, "loading") /\ task[t].op = "restore"
  /\ shown' = Stored(t)
  /\ IF StillWanted(t) /\ Paused(shown', task[t].objective)
     THEN /\ task' = [Stale(task) EXCEPT ![t] = [@ EXCEPT !.at = "asking", !.value = NoGoal, !.fresh = FALSE]]
          /\ UNCHANGED <<resume, gate>>
     ELSE /\ task' = [Stale(task) EXCEPT ![t] = Idle]
          /\ gate' = "free"
          /\ resume' = IF StillWanted(t) THEN 0 ELSE resume
  /\ UNCHANGED <<native, news, ready, status, turn, orders, outages, lost, paused>>

\* The last read: an activation without an answer that left the goal paused keeps the intention.
RestoreDone(t) ==
  /\ HasRead(t, "finishing") \/ HasRead(t, "confirming")
  /\ shown' = Stored(t)
  /\ LET done == task[t].at = "finishing" \/ ~Paused(shown', task[t].objective)
     IN  resume' = IF done /\ resume = task[t].objective THEN 0 ELSE resume
  /\ gate' = "free"
  /\ task' = [Stale(task) EXCEPT ![t] = Idle]
  /\ UNCHANGED <<native, news, ready, status, turn, orders, outages, lost, paused>>

PumpReads ==
  /\ news # <<>>
  /\ task["pump"].at = "idle"
  /\ shown' = Head(news)
  /\ news' = Tail(news)
  /\ task' = Stale(task)
  /\ UNCHANGED <<native, resume, gate, ready, status, turn, orders, outages, lost, paused>>

\* Codex reaches the goal.
EngineCompletes ==
  /\ native.state = "active"
  /\ native' = [native EXCEPT !.state = "complete"]
  /\ news' = Append(news, native')
  /\ UNCHANGED <<shown, resume, gate, task, ready, status, turn, orders, outages, lost, paused>>

-----------------------------------------------------------------------------
TaskStep(t) ==
  \/ EnterOrder(t) \/ EnterPause(t) \/ EnterRestore(t)
  \/ Refused(t) \/ AskEngine(t) \/ Answer(t)
  \/ LoadBegins(t) \/ EngineReads(t)
  \/ OrderDone(t) \/ RestoreLooks(t) \/ RestoreDone(t)

GoalsNext ==
  \/ \E op \in Orders \ {"interrupt"} : UserOrders(op)
  \/ UserInterrupts
  \/ ConnectionBreaks \/ ConnectionReturns
  \/ StatusSuspends \/ StatusRestores
  \/ TurnCompletes \/ EngineCompletes
  \/ \E t \in Tasks : TaskStep(t) \/ AnswerIsLost(t)
  \/ PumpReads

GoalsSpec == GoalsInit /\ [][GoalsNext]_goalVars

-----------------------------------------------------------------------------
(* Properties *)

\* What the session shows is the goal that Codex has, once the pump has caught up and nobody reads or
\* changes it, however reads, notifications and changes overlapped (goals.rs load_goal).
GoalIsCurrent ==
  news = <<>> /\ (\A t \in Tasks : task[t].at \in {"idle", "gate"}) => shown = native

\* A goal that the user paused stays paused until he resumes or sets it: route.rs request means to
\* "serialize explicit goal controls with automatic suspension and recovery". Once the pause is done
\* and the pump has read what Codex told before it, no outage and no completed turn activates it.
PausedStays == paused => native.state # "active"

\* The goal on the screen is the goal that is followed, and only the user ends a pause.
GoalIsKept == GoalIsCurrent /\ PausedStays
=============================================================================
