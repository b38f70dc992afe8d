------------------------- MODULE ExecutionLifecycle -------------------------
(***************************************************************************)
(* The life of one execution: when its actor serves, when it gives up, and *)
(* what the store says of the processes it started.                        *)
(*                                                                         *)
(*   session     client/src/remote/bridge.rs: one relay that attaches,     *)
(*               heartbeats, attaches again, and finally detaches;         *)
(*   connection  server/src/frontend.rs: the tasks of its attachments and  *)
(*               Attachment::drop, which tells the actor of a disconnection*)
(*               only if no newer attachment has been counted;             *)
(*   actor       server/src/execution/actor.rs: the flags attached and     *)
(*               detached, the time since it was touched, and the timer    *)
(*               that ends it when nobody needs it;                        *)
(*   jobs        server/src/storage/jobs.rs: a row for each process/start; *)
(*   backend     the exec-server: it starts processes and reports exits,   *)
(*               in an order of its own.                                   *)
(*                                                                         *)
(* Time is ordinal.  The actor compares the time since it was touched with *)
(* 15 seconds (level 1), with its grace period and with 60 seconds; "age"  *)
(* says how many of these levels have passed.  Receipts, answers and their *)
(* replay are the subject of ExecutionChannel; an operation is submitted   *)
(* once here.                                                              *)
(***************************************************************************)
EXTENDS Naturals, Sequences, FiniteSets

CONSTANTS
  Commands,      \* process/start of a command: a background job
  Mcps,          \* process/start of an authorized MCP server
  Queries,       \* requests that start no process
  ProcessIds,    \* identities the frontend gives to its processes
  ProcessOf,     \* the process identity of each start
  Grace,         \* level of disconnect_grace_seconds; 0: no grace at all
  Linger,        \* level of the 60 seconds a background actor lingers
  QueueSize,     \* inputs waiting for the actor       (execution/mod.rs: 64)
  Maintenance,   \* bound: which of PrepareUpdate and the shutdown happen
  MaxEpoch,      \* bound: attachments
  MaxAge,        \* bound: levels of age that are told apart
  MaxChanges     \* bound: changes of the background setting

Starts == Commands \union Mcps
Ops == Starts \union Queries

ASSUME KindsAssumption ==
  /\ Commands \intersect Mcps = {} /\ Queries \intersect Starts = {}
  /\ ProcessOf \in [Starts -> ProcessIds]
  /\ IsFiniteSet(Ops)

ASSUME BoundsAssumption ==
  /\ Grace \in Nat /\ Linger \in Nat \ {0}
  /\ QueueSize \in Nat \ {0} /\ MaxEpoch \in Nat /\ MaxChanges \in Nat
  /\ MaxAge \in Nat /\ MaxAge >= Grace /\ MaxAge >= Linger

VARIABLES
  \* session
  session,     \* open, leaving (the frontend closed), left (DetachExecution sent)
  link,        \* is the newest connection alive on the client's side?
  submitted,   \* operations sent
  \* connections
  arriving,    \* an attachment has sent Touch and not counted itself yet
  epoch,       \* Execution::epoch
  open,        \* attachments whose task is running
  \* actor
  life,        \* serving, draining, stopped
  inbox,       \* Execution::sender
  attached, detached, age, applied,  \* applied: runtime.background
  pending,     \* requests without an answer
  ended,       \* why it stopped serving (history)
  cut,         \* what the backend was working on at that moment (history)
  greeted,     \* a Touch was taken since the newest connection is alive (history)
  \* settings and store
  configured,  \* LiveSettings.background, as last published
  changes,     \* its changes so far
  channel,     \* state column of execution_channels
  jobs,        \* state column of jobs
  rowid,       \* its rowid, 0 for no row
  \* backend
  backend,     \* none, asked, live, gone
  doomed,      \* processes it was asked to terminate
  out          \* messages it has written and the actor has not read

sessionVars == <<session, link, submitted>>
connectionVars == <<arriving, epoch, open>>
actorVars == <<life, inbox, attached, detached, age, applied, pending, ended, cut, greeted>>
storeVars == <<configured, changes, channel, jobs, rowid>>
backendVars == <<backend, doomed, out>>
vars == <<sessionVars, connectionVars, actorVars, storeVars, backendVars>>

-----------------------------------------------------------------------------
Active == {"starting", "running"}
Terminal == {"completed", "failed", "unknown"}

Message(kind, o) == [kind |-> kind, op |-> o]
Messages == [kind : {"started", "refused", "exited", "crashed"}, op : Ops]

Touch == [type |-> "touch"]
Detached == [type |-> "detached"]
RetireIdle == [type |-> "retire"]
Disconnected == [type |-> "disconnected"]
Stop == [type |-> "stop"]
Execute(o) == [type |-> "execute", op |-> o]
Inputs == {Touch, Detached, RetireIdle, Disconnected, Stop} \union {Execute(o) : o \in Ops}

\* Mutant: a job counts only when its start has been answered.
ActiveJobsAnswered(S) == {o \in S : jobs[o] = "running"}

ActiveJobs(S) == {o \in S : jobs[o] \in Active}     \* running_processes, active_jobs
AtWork == {o \in Ops : backend[o] \in {"asked", "live"}}
Latest(p) == {o \in Starts : /\ ProcessOf[o] = p /\ rowid[o] # 0
                             /\ \A q \in Starts : ProcessOf[q] = p => rowid[q] <= rowid[o]}

\* Execution::send
Accepts == life # "stopped" /\ Len(inbox) < QueueSize
Enqueue(i) == Accepts /\ inbox' = Append(inbox, i)
\* A sender that ignores the refusal.
Offer(i) == inbox' = IF Accepts THEN Append(inbox, i) ELSE inbox

-----------------------------------------------------------------------------
Init ==
  /\ session = "open" /\ link = "down" /\ submitted = {}
  /\ arriving = FALSE /\ epoch = 0 /\ open = {}
  /\ life = "serving" /\ inbox = <<>>
  /\ attached = TRUE /\ detached = FALSE /\ age = 0
  /\ configured \in BOOLEAN /\ applied = configured /\ changes = 0
  /\ pending = {} /\ ended = "no" /\ cut = {} /\ greeted = FALSE
  /\ channel = "running"
  /\ jobs = [o \in Starts |-> "none"] /\ rowid = [o \in Starts |-> 0]
  /\ backend = [o \in Ops |-> "none"] /\ doomed = {} /\ out = {}

-----------------------------------------------------------------------------
(***************************************************************************)
(* Session and connections.                                                *)
(***************************************************************************)

\* frontend.rs: the attachment touches the actor ...
AttachTouch ==
  /\ session = "open" /\ link = "down" /\ ~arriving
  /\ epoch < MaxEpoch
  /\ Enqueue(Touch)
  /\ arriving' = TRUE
  /\ UNCHANGED <<life, attached, detached, age, applied, pending, ended, cut, greeted>>
  /\ UNCHANGED <<epoch, open, sessionVars, storeVars, backendVars>>

\* ... and then counts itself.  The client may have given up waiting for it.
AttachCount ==
  /\ arriving
  /\ arriving' = FALSE
  /\ epoch' = epoch + 1
  /\ open' = open \union {epoch + 1}
  /\ link' \in IF session = "open" THEN {"up", "down"} ELSE {"down"}
  /\ greeted' = (link' = "up" /\ \A i \in DOMAIN inbox : inbox[i] # Touch)
  /\ UNCHANGED <<life, inbox, attached, detached, age, applied, pending, ended, cut>>
  /\ UNCHANGED <<session, submitted, storeVars, backendVars>>

Heartbeat ==
  /\ session = "open" /\ link = "up"
  /\ Enqueue(Touch)
  /\ UNCHANGED <<life, attached, detached, age, applied, pending, ended, cut, greeted>>
  /\ UNCHANGED <<sessionVars, connectionVars, storeVars, backendVars>>

\* An operation of the frontend.  It uses a process identity again only when it
\* knows how the earlier process ended.
Submit(o) ==
  /\ session = "open" /\ link = "up" /\ o \notin submitted
  /\ o \in Starts => \A q \in submitted \intersect Starts :
                       ProcessOf[q] = ProcessOf[o] => jobs[q] \in Terminal
  /\ Enqueue(Execute(o))
  /\ submitted' = submitted \union {o}
  /\ UNCHANGED <<life, attached, detached, age, applied, pending, ended, cut, greeted>>
  /\ UNCHANGED <<session, link, connectionVars, storeVars, backendVars>>

\* The client's side breaks; the server's side need not notice.
LoseLink ==
  /\ link = "up"
  /\ link' = "down" /\ greeted' = FALSE
  /\ UNCHANGED <<life, inbox, attached, detached, age, applied, pending, ended, cut>>
  /\ UNCHANGED <<session, submitted, connectionVars, storeVars, backendVars>>

\* The task of an attachment ends (Attachment::drop).
ConnectionEnds(k) ==
  /\ k \in open
  /\ open' = open \ {k}
  /\ IF k = epoch THEN Offer(Disconnected) /\ link' = "down" /\ greeted' = FALSE
                  ELSE UNCHANGED <<inbox, link, greeted>>
  /\ UNCHANGED <<life, attached, detached, age, applied, pending, ended, cut>>
  /\ UNCHANGED <<session, submitted, arriving, epoch, storeVars, backendVars>>

\* The task of a superseded attachment reads one more heartbeat.
LateHeartbeat(k) ==
  /\ k \in open /\ k # epoch
  /\ Enqueue(Touch)
  /\ open' = open \ {k}
  /\ UNCHANGED <<life, attached, detached, age, applied, pending, ended, cut, greeted>>
  /\ UNCHANGED <<arriving, epoch, sessionVars, storeVars, backendVars>>

\* The frontend closed: the relay writes Detach on the connection it has, which
\* ends the connection's task ...
Leave ==
  /\ session = "open"
  /\ session' = "leaving"
  /\ UNCHANGED <<link, submitted, connectionVars, actorVars, storeVars, backendVars>>

DetachFrame ==
  /\ session # "open" /\ link = "up" /\ epoch \in open
  /\ Accepts
  /\ inbox' = IF Len(inbox) + 1 < QueueSize THEN inbox \o <<Detached, Disconnected>>
                                            ELSE Append(inbox, Detached)
  /\ open' = open \ {epoch} /\ link' = "down" /\ greeted' = FALSE
  /\ UNCHANGED <<life, attached, detached, age, applied, pending, ended, cut>>
  /\ UNCHANGED <<session, submitted, arriving, epoch, storeVars, backendVars>>

\* ... and the bridge calls DetachExecution, or its time for it runs out.
DetachCall ==
  /\ session = "leaving"
  /\ session' = "left"
  /\ Enqueue(Detached) \/ UNCHANGED inbox
  /\ UNCHANGED <<life, attached, detached, age, applied, pending, ended, cut, greeted>>
  /\ UNCHANGED <<link, submitted, connectionVars, storeVars, backendVars>>

\* PrepareUpdate; shutdown of the service.
PrepareUpdate ==
  /\ "update" \in Maintenance
  /\ Enqueue(RetireIdle)
  /\ UNCHANGED <<life, attached, detached, age, applied, pending, ended, cut, greeted>>
  /\ UNCHANGED <<sessionVars, connectionVars, storeVars, backendVars>>

Shutdown ==
  /\ "shutdown" \in Maintenance
  /\ Enqueue(Stop)
  /\ UNCHANGED <<life, attached, detached, age, applied, pending, ended, cut, greeted>>
  /\ UNCHANGED <<sessionVars, connectionVars, storeVars, backendVars>>

\* Profiles::configure publishes other settings.
Configure ==
  /\ changes < MaxChanges
  /\ changes' = changes + 1
  /\ configured' = ~configured
  /\ UNCHANGED <<channel, jobs, rowid, sessionVars, connectionVars, actorVars, backendVars>>

-----------------------------------------------------------------------------
(***************************************************************************)
(* The actor.                                                              *)
(***************************************************************************)

\* The actor leaves its loop and asks the backend to end every process.  An error
\* of that is ignored: the backend is killed after the draining in any case.
Stops(why) ==
  /\ life' = "draining" /\ ended' = why /\ cut' = AtWork
  /\ doomed' = doomed \union ActiveJobs(Starts)

Taken(type) ==
  /\ life = "serving"
  /\ inbox # <<>> /\ Head(inbox).type = type
  /\ inbox' = Tail(inbox)

\* Mutant: only a detached actor is touched.
TakeTouchDetached ==
  /\ Taken("touch")
  /\ attached' = (attached \/ detached) /\ detached' = FALSE
  /\ age' = IF detached THEN 0 ELSE age
  /\ greeted' = (link = "up")
  /\ UNCHANGED <<life, applied, pending, ended, cut>>
  /\ UNCHANGED <<sessionVars, connectionVars, storeVars, backendVars>>

TakeTouch ==
  /\ Taken("touch")
  /\ attached' = TRUE /\ detached' = FALSE /\ age' = 0
  /\ greeted' = (link = "up")
  /\ UNCHANGED <<life, applied, pending, ended, cut>>
  /\ UNCHANGED <<sessionVars, connectionVars, storeVars, backendVars>>

TakeDetached ==
  /\ Taken("detached")
  /\ attached' = FALSE /\ detached' = TRUE /\ age' = 0
  /\ \/ /\ doomed' = doomed \union ActiveJobs(Mcps)
        /\ UNCHANGED <<life, ended, cut>>
     \/ Stops("failed")
  /\ UNCHANGED <<applied, pending, greeted, backend, out>>
  /\ UNCHANGED <<sessionVars, connectionVars, storeVars>>

\* Mutant: unanswered requests do not count.
TakeRetirePending ==
  /\ Taken("retire")
  /\ \/ /\ detached /\ ActiveJobs(Starts) = {}
        /\ Stops("retired")
     \/ UNCHANGED <<life, ended, cut, doomed>>   \* not idle, or the store fails
  /\ UNCHANGED <<attached, detached, age, applied, pending, greeted, backend, out>>
  /\ UNCHANGED <<sessionVars, connectionVars, storeVars>>

TakeRetireIdle ==
  /\ Taken("retire")
  /\ \/ /\ detached /\ pending = {} /\ ActiveJobs(Starts) = {}
        /\ Stops("retired")
     \/ UNCHANGED <<life, ended, cut, doomed>>   \* not idle, or the store fails
  /\ UNCHANGED <<attached, detached, age, applied, pending, greeted, backend, out>>
  /\ UNCHANGED <<sessionVars, connectionVars, storeVars>>

TakeDisconnected ==
  /\ Taken("disconnected")
  /\ attached' = FALSE /\ age' = 0
  /\ UNCHANGED <<life, detached, applied, pending, ended, cut, greeted>>
  /\ UNCHANGED <<sessionVars, connectionVars, storeVars, backendVars>>

TakeStop ==
  /\ Taken("stop")
  /\ Stops("told")
  /\ UNCHANGED <<attached, detached, age, applied, pending, greeted, backend, out>>
  /\ UNCHANGED <<sessionVars, connectionVars, storeVars>>

NextRow == Cardinality({o \in Starts : rowid[o] # 0}) + 1

\* record_job, when the operation starts a process.
RecordJob(o) ==
  IF o \in Starts THEN /\ jobs' = [jobs EXCEPT ![o] = "starting"]
                       /\ rowid' = [rowid EXCEPT ![o] = NextRow]
                  ELSE UNCHANGED <<jobs, rowid>>

\* dispatch: recorded, then handed to the backend; or refused by the policy; or
\* broken off by an error between any two of its statements.
TakeExecute ==
  /\ Taken("execute")
  /\ age' = 0
  /\ LET o == Head(inbox).op IN
     \/ /\ RecordJob(o)
        /\ pending' = pending \union {o}
        /\ backend' = [backend EXCEPT ![o] = "asked"]
        /\ UNCHANGED <<life, ended, cut, doomed>>
     \/ UNCHANGED <<jobs, rowid, pending, backend, life, ended, cut, doomed>>
     \/ /\ Stops("failed")
        /\ \/ UNCHANGED <<jobs, rowid, pending, backend>>
           \/ /\ RecordJob(o)
              /\ pending' = pending \union {o}
              /\ backend' \in {backend, [backend EXCEPT ![o] = "asked"]}
  /\ UNCHANGED <<attached, detached, applied, greeted, configured, changes, channel, out>>
  /\ UNCHANGED <<sessionVars, connectionVars>>

\* Mutant: whatever is reported last is kept.
SetJobStateAlways(o, state) == jobs' = [jobs EXCEPT ![o] = state]

\* set_job_state: a terminal state stays, and only "starting" becomes "running".
SetJobState(o, state) ==
  jobs' = IF /\ jobs[o] \in Active
             /\ state = "running" => jobs[o] = "starting"
            THEN [jobs EXCEPT ![o] = state] ELSE jobs

\* Mutant: the answer to process/start is taken for its completion.
CollectCompletion(o) ==
  /\ life # "stopped"
  /\ \E kind \in {"started", "refused"} :
       /\ Message(kind, o) \in out
       /\ out' = out \ {Message(kind, o)}
       /\ pending' = pending \ {o}
       /\ IF o \in Starts \intersect pending
            THEN SetJobState(o, IF kind = "refused" THEN "failed" ELSE "completed")
            ELSE UNCHANGED jobs
  /\ UNCHANGED <<life, inbox, attached, detached, age, applied, ended, cut, greeted>>
  /\ UNCHANGED <<configured, changes, channel, rowid, backend, doomed>>
  /\ UNCHANGED <<sessionVars, connectionVars>>

\* collect: the answer to a request, while serving or draining.
CollectAnswer(o) ==
  /\ life # "stopped"
  /\ \E kind \in {"started", "refused"} :
       /\ Message(kind, o) \in out
       /\ out' = out \ {Message(kind, o)}
       /\ pending' = pending \ {o}
       /\ IF o \in Starts \intersect pending
            THEN SetJobState(o, IF kind = "refused" THEN "failed" ELSE "running")
            ELSE UNCHANGED jobs
  /\ UNCHANGED <<life, inbox, attached, detached, age, applied, ended, cut, greeted>>
  /\ UNCHANGED <<configured, changes, channel, rowid, backend, doomed>>
  /\ UNCHANGED <<sessionVars, connectionVars>>

\* collect: process/exited is about the newest job of the process identity.
CollectExit(o) ==
  /\ life # "stopped"
  /\ \E kind \in {"exited", "crashed"} :
       /\ Message(kind, o) \in out
       /\ out' = out \ {Message(kind, o)}
       /\ \E q \in Latest(ProcessOf[o]) :
            SetJobState(q, IF kind = "exited" THEN "completed" ELSE "failed")
  /\ UNCHANGED <<life, inbox, attached, detached, age, applied, pending, ended, cut, greeted>>
  /\ UNCHANGED <<configured, changes, channel, rowid, backend, doomed>>
  /\ UNCHANGED <<sessionVars, connectionVars>>

\* updates.changed(): the newest settings, however many were published.
ApplySettings ==
  /\ life = "serving" /\ applied # configured
  /\ applied' = configured
  /\ UNCHANGED <<life, inbox, attached, detached, age, pending, ended, cut, greeted>>
  /\ UNCHANGED <<sessionVars, connectionVars, storeVars, backendVars>>

\* elapsed() > grace holds at once for a grace of zero seconds.
Expired(n) == Grace = 0 \/ n >= Grace

\* Mutant: an attachment that went silent still counts.
TimerTrusting(answers) ==
  /\ life = "serving"
  /\ LET stale == FALSE
         alone == stale \/ ~attached
         idle == IF stale THEN 0 ELSE age
         foreground == alone /\ ~applied /\ Expired(idle)
         background == /\ alone /\ applied /\ idle >= Linger
                       /\ answers /\ ActiveJobs(Commands) = {}
         asked == IF answers /\ (stale \/ (alone /\ idle >= 1))
                     THEN doomed \union ActiveJobs(Mcps) ELSE doomed
     IN /\ attached' = ~alone
        /\ age' = idle
        /\ \/ /\ foreground \/ background
              /\ Stops("idle")
           \/ /\ ~(foreground \/ background)
              /\ doomed' = asked
              /\ UNCHANGED <<life, ended, cut>>
  /\ UNCHANGED <<inbox, detached, applied, pending, greeted, backend, out>>
  /\ UNCHANGED <<sessionVars, connectionVars, storeVars>>

\* Mutant: MCP servers are ended only when the attachment goes silent.
TimerOnce(answers) ==
  /\ life = "serving"
  /\ LET stale == attached /\ age >= 1
         alone == stale \/ ~attached
         idle == IF stale THEN 0 ELSE age
         foreground == alone /\ ~applied /\ Expired(idle)
         background == /\ alone /\ applied /\ idle >= Linger
                       /\ answers /\ ActiveJobs(Commands) = {}
         asked == IF answers /\ stale
                     THEN doomed \union ActiveJobs(Mcps) ELSE doomed
     IN /\ attached' = ~alone
        /\ age' = idle
        /\ \/ /\ foreground \/ background
              /\ Stops("idle")
           \/ /\ ~(foreground \/ background)
              /\ doomed' = asked
              /\ UNCHANGED <<life, ended, cut>>
  /\ UNCHANGED <<inbox, detached, applied, pending, greeted, backend, out>>
  /\ UNCHANGED <<sessionVars, connectionVars, storeVars>>

\* timer.tick(); "answers" says whether the store can be read.
Timer(answers) ==
  /\ life = "serving"
  /\ LET stale == attached /\ age >= 1
         alone == stale \/ ~attached
         idle == IF stale THEN 0 ELSE age
         foreground == alone /\ ~applied /\ Expired(idle)
         background == /\ alone /\ applied /\ idle >= Linger
                       /\ answers /\ ActiveJobs(Commands) = {}
         asked == IF answers /\ (stale \/ (alone /\ idle >= 1))
                     THEN doomed \union ActiveJobs(Mcps) ELSE doomed
     IN /\ attached' = ~alone
        /\ age' = idle
        /\ \/ /\ foreground \/ background
              /\ Stops("idle")
           \/ /\ ~(foreground \/ background)
              /\ doomed' = asked
              /\ UNCHANGED <<life, ended, cut>>
  /\ UNCHANGED <<inbox, detached, applied, pending, greeted, backend, out>>
  /\ UNCHANGED <<sessionVars, connectionVars, storeVars>>

\* An error of a statement, or the end of the backend's output.
Fails ==
  /\ life = "serving"
  /\ Stops("failed")
  /\ UNCHANGED <<inbox, attached, detached, age, applied, pending, greeted, backend, out>>
  /\ UNCHANGED <<sessionVars, connectionVars, storeVars>>

\* Mutant: every job of the channel is reconciled, ended or not.
FinishAll ==
  /\ life = "draining"
  /\ life' = "stopped" /\ inbox' = <<>> /\ pending' = {}
  /\ backend' = [o \in Ops |-> IF o \in AtWork THEN "gone" ELSE backend[o]]
  /\ out' = {}
  /\ \/ /\ channel' = "lost"
        /\ jobs' = [o \in Starts |-> IF rowid[o] # 0 THEN "unknown" ELSE jobs[o]]
     \/ channel' = "lost" /\ UNCHANGED jobs
     \/ UNCHANGED <<channel, jobs>>
  /\ UNCHANGED <<attached, detached, age, applied, ended, cut, greeted>>
  /\ UNCHANGED <<configured, changes, rowid, doomed, sessionVars, connectionVars>>

\* After at most two seconds of draining the backend is killed; then
\* mark_channel_lost, whose two statements may fail.
Finish ==
  /\ life = "draining"
  /\ life' = "stopped" /\ inbox' = <<>> /\ pending' = {}
  /\ backend' = [o \in Ops |-> IF o \in AtWork THEN "gone" ELSE backend[o]]
  /\ out' = {}
  /\ \/ /\ channel' = "lost"
        /\ jobs' = [o \in Starts |-> IF jobs[o] \in Active THEN "unknown" ELSE jobs[o]]
     \/ channel' = "lost" /\ UNCHANGED jobs
     \/ UNCHANGED <<channel, jobs>>
  /\ UNCHANGED <<attached, detached, age, applied, ended, cut, greeted>>
  /\ UNCHANGED <<configured, changes, rowid, doomed, sessionVars, connectionVars>>

\* Time passes.  A connection that is alive on both sides brings a heartbeat
\* every five seconds, and the actor takes it before fifteen are over.
Age ==
  /\ life = "serving" /\ age < MaxAge
  /\ link = "down" /\ ~arriving
  /\ age' = age + 1
  /\ UNCHANGED <<life, inbox, attached, detached, applied, pending, ended, cut, greeted>>
  /\ UNCHANGED <<sessionVars, connectionVars, storeVars, backendVars>>

-----------------------------------------------------------------------------
(***************************************************************************)
(* The backend.  The notification of an exit may overtake the answer to    *)
(* process/start.                                                          *)
(***************************************************************************)
BackendAnswers(o) ==
  /\ backend[o] = "asked"
  /\ \/ /\ backend' = [backend EXCEPT ![o] = IF o \in Starts THEN "live" ELSE "gone"]
        /\ out' = out \union {Message("started", o)}
     \/ /\ backend' = [backend EXCEPT ![o] = "gone"]
        /\ out' = out \union {Message("refused", o)}
  /\ UNCHANGED <<doomed, sessionVars, connectionVars, actorVars, storeVars>>

ProcessExits(o) ==
  /\ backend[o] = "live"
  /\ backend' = [backend EXCEPT ![o] = "gone"]
  /\ \E kind \in {"exited", "crashed"} : out' = out \union {Message(kind, o)}
  /\ UNCHANGED <<doomed, sessionVars, connectionVars, actorVars, storeVars>>

-----------------------------------------------------------------------------
SessionNext ==
  \/ AttachTouch \/ AttachCount \/ Heartbeat \/ LoseLink
  \/ \E o \in Ops : Submit(o)
  \/ \E k \in open : ConnectionEnds(k) \/ LateHeartbeat(k)
  \/ Leave \/ DetachFrame \/ DetachCall

ServiceNext == PrepareUpdate \/ Shutdown \/ Configure

Take ==
  \/ TakeTouch \/ TakeDetached \/ TakeRetireIdle \/ TakeDisconnected \/ TakeStop
  \/ TakeExecute

Collect ==
  \/ \E o \in Ops : CollectAnswer(o)
  \/ \E o \in Starts : CollectExit(o)

ActorNext ==
  \/ Take \/ Collect
  \/ ApplySettings \/ Fails \/ Finish \/ Age
  \/ \E answers \in BOOLEAN : Timer(answers)

BackendNext ==
  \/ \E o \in Ops : BackendAnswers(o)
  \/ \E o \in Starts : ProcessExits(o)

Next == SessionNext \/ ServiceNext \/ ActorNext \/ BackendNext

Spec == Init /\ [][Next]_vars

\* Tokio runs every ready task and branch; the timer ticks each second and the
\* store is not broken for ever; the backend answers and ends what it was asked
\* to end.  Commands run as long as they like, and nobody has to detach.
Fairness ==
  /\ WF_vars(AttachCount) /\ WF_vars(Take) /\ WF_vars(Collect)
  /\ WF_vars(\E o \in Ops : BackendAnswers(o))
  /\ WF_vars(\E o \in doomed : ProcessExits(o))
  /\ WF_vars(ApplySettings) /\ WF_vars(Finish) /\ WF_vars(Age) /\ SF_vars(Timer(TRUE))

FairSpec == Spec /\ Fairness

-----------------------------------------------------------------------------
(***************************************************************************)
(* Properties.                                                             *)
(***************************************************************************)

TypeOK ==
  /\ session \in {"open", "leaving", "left"} /\ link \in {"up", "down"}
  /\ submitted \subseteq Ops
  /\ arriving \in BOOLEAN /\ epoch \in 0..MaxEpoch /\ open \subseteq 1..MaxEpoch
  /\ arriving => epoch < MaxEpoch
  /\ life \in {"serving", "draining", "stopped"} /\ inbox \in Seq(Inputs)
  /\ attached \in BOOLEAN /\ detached \in BOOLEAN /\ age \in 0..MaxAge /\ applied \in BOOLEAN
  /\ pending \subseteq Ops /\ cut \subseteq Ops /\ greeted \in BOOLEAN
  /\ ended \in {"no", "idle", "retired", "told", "failed"}
  /\ configured \in BOOLEAN /\ changes \in 0..MaxChanges
  /\ channel \in {"running", "lost"}
  /\ jobs \in [Starts -> {"none"} \union Active \union Terminal]
  /\ rowid \in [Starts -> Nat]
  /\ backend \in [Ops -> {"none", "asked", "live", "gone"}]
  /\ doomed \subseteq Starts /\ out \subseteq Messages

\* What the backend starts or runs has an active job.  The timer and the
\* retirement of idle executions look only at the jobs.
LiveIsActive ==
  life # "stopped" => \A o \in Starts \intersect AtWork : jobs[o] \in Active

\* While the actor serves, a job is active only for a process that is starting
\* or running, or whose end the actor is about to read: a late answer to
\* process/start or a process identity that is used again leave no job behind
\* that would keep the execution alive for ever.
Ends(o) == {Message(kind, o) : kind \in {"refused", "exited", "crashed"}}
ActiveIsExplained ==
  life = "serving" =>
    \A o \in ActiveJobs(Starts) : o \in AtWork \/ Ends(o) \intersect out # {}

\* The jobs and the processes of the backend tell the same story, both ways.
JobsAgree == LiveIsActive /\ ActiveIsExplained

\* "Keep submitted commands running after disconnect" (ServerDialog.tsx): under
\* the background setting the timer never ends an execution that has a command
\* at work.
BackgroundSurvives == ended = "idle" /\ applied => cut \intersect Commands = {}

\* Maintenance "only retires explicitly detached idle executors"
\* (tests/idle_retirement.rs): the session detached, and nothing was at work.
RetiredWasIdle == ended = "retired" => cut = {} /\ session # "open"

\* The timer never ends the execution of a session that is attached and has been
\* heard since, even if the task of its previous attachment ends late.
SessionKept == [][ended = "no" /\ ended' = "idle" => ~greeted]_vars

\* "Terminal states must not be resurrected" (jobs.rs): whatever is reported
\* late, or is reconciled later, does not change how a process ended.
NeverResurrected ==
  [][\A o \in Starts : jobs[o] \in Terminal => jobs'[o] = jobs[o]]_vars

\* An execution whose session left, and to which no connection remains, ends;
\* only a command that keeps running under the background setting prevents it.
AbandonedEnds ==
  <>[](session = "left" /\ open = {}) =>
    \/ <>(life = "stopped")
    \/ <>[](configured /\ \E o \in Commands : backend[o] = "live")

\* MCP servers do not survive their session, even when commands do.
McpsEnd ==
  <>[](session = "left" /\ open = {}) => <>[](\A o \in Mcps : backend[o] # "live")

\* Nothing of an abandoned session stays for ever: neither its execution nor its MCP servers.
NothingLingers == AbandonedEnds /\ McpsEnd

=============================================================================
