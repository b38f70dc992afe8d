# Remote Codex: a verification development

Remote Codex runs the native Codex program on the local machine and its commands
and file operations on a Linux server. Everything the two machines say to each
other goes over ssh, which may break at any time; the service on the server may be
killed at any time; and what an operation did to the server must never be guessed
or done twice. This directory holds TLA+ modules that model that machinery, the
TLC configurations that check them on small instances, and proofs, checked by the
TLA+ proof system, of the properties that matter most, for instances of any size.

Paths below are relative to `src/crates/` unless they start with `apps/`.

## The system and its parts

    native Codex ── app-server gateway ── local session runtime (supervisor, intent, goals)
         │                                        │
         │ exec websocket                         │ recovery budget, generations
         ▼                                        ▼
      bridge ── relay ═══ ssh ═══ service ── connection task ── actor ── exec-server
                                    │                             │
                                  profiles                      SQLite store

| Component | Source | State it keeps | Operations | Hard behaviour | Correct when |
|---|---|---|---|---|---|
| Execution relay | `client/src/remote/bridge/relay.rs` | outbox of unreceipted frames, replay cursor | submit, receive, acknowledge, reconnect, resend, detach | loss of the connection with frames both ways; retransmission in another order | nothing runs twice, nothing leaves the outbox without having run, every operation is settled |
| Execution connection | `server/src/frontend.rs`, `server/src/execution/mod.rs` | epoch, stream cursor | attach, stream, execute, ack, detach | a superseded task still reads one frame; a dead actor still accepts frames | no gap and no repetition in the stream |
| Execution actor | `server/src/execution/{actor,operations,policy}.rs` | pending requests, attached/detached, timers | dispatch, collect, terminate, drain | failure or death between any two statements; timers against queued inputs | intent before effect; idle executions end, used ones do not |
| Jobs | `server/src/storage/jobs.rs` | state of each started process | record, set state, output | answer, exit and shutdown in any order | a finished job is never running again |
| Execution store | `server/src/storage.rs`, `server/src/storage/*` | operations, events, channels, jobs | append and trim, acknowledge, retire, open | trim against read; restart | replay is complete or fails |
| Service | `server/src/service.rs`, `installation.rs`, `main.rs` | table of executions, locks | open, inspect, detach, prepare update, replace, shutdown | replacement of a service while executions are being opened | a running execution is never cut by an update |
| Profiles | `server/src/profiles.rs` | configuration revision, live settings | configure, snapshot | concurrent clients with different revisions | what is used is what is stored |
| Server files | `server/src/files/*` | staged writes | read, write, rename | another writer between comparison and rename | nothing unseen is replaced |
| Transfers | `transfer/src/*`, `server/src/transfers.rs`, `client/src/transfers/*` | staging directory and journal; task and item | prepare, write, commit, cancel; run, resolve, restart | any of three parties stops between any two steps | the destination is the old or the new content; nothing is left behind |
| Recovery budget | `client/src/remote/recovery.rs`, `remote.rs` | attempts, state shown to the user | wait, attempt, ready, retry | several waiters share one budget | attempts are bounded; success resets them |
| Session supervisor | `client/src/local/{supervisor,intent,generation,recovery}.rs` | generation, unfinished turn | rebuild, replace, continue | a turn interrupted by a loss, cancelled meanwhile | an interrupted turn is continued at most once |
| Permissions, approvals | `client/src/local/{permissions,approvals}.rs` | change under way, grant, accepted approvals | begin, acknowledge, observe; offer, accept, take | the answer of Codex races its notification; expiry against use | Full Access is used only as chosen last; an approval ends with its command |
| Goals | `client/src/local/goals.rs` | shown goal, goal to resume | set, pause, resume, clear, suspend, restore | orders against outages and late notifications | the goal shown is the goal followed; a pause stays |
| Native frontend | `codex-adapter/src/gateway*`, `client/src/application/terminal.rs` | pending prompts, connection of the terminal | broadcast, resume, respond | lost events, replaced terminals and engines | each open prompt is shown, no answered one |
| Lease, opening | `client/src/local/lease.rs`, desktop `opening.rs`, `state.rs` | lock file, marker, gate, table of handles | open, take over, close | two windows, other processes, crashes | one owner, who loses the thread only when asked |
| Server connection | `client/src/{remote,ssh}.rs`, `application/mod.rs`, `store/access.rs` | slot, connection, row of the server | connect, recover, synchronize, configure | a server that is replaced or restarted while it is configured | row, connection and server agree |
| Workspace lock | `client/src/workspace_lock.rs`, `application/{files,shell,directory}.rs`, desktop commands | lock files, tables of handles | open, call, close, remove | removal or the closing of a window crosses an opening | nothing is removed that is in use |
| Credentials | `client/src/credentials*`, `store/{credentials,ssh_credentials}.rs` | records, vault | reserve, put, activate, retire, collect | a process dies between two stores | a used secret exists, an unused one can be found |
| Runtime installation | `client/src/{runtime,servers}/*`, `install.sh` | staging and installed directories | stage, check, move | two scripts, power failure | an installed directory is whole |
| Self update | `client/src/updates/*` | state file, installation | check, install, configure | another updater or installer | never something older; the mode is kept |
| Desktop windows | `apps/desktop/src-tauri/src/commands/{window,editor_windows,restart}.rs`, `app/ContentWindow.tsx` | windows, documents handed over | open, move, close, destroy, restart | a window goes while a document is on its way | a document has one editor and is not lost |
| Editing | `apps/desktop/src/files/*` | tabs, saves, moves | type, save, move, refresh | late answers for an old path | no edit is lost |
| Chat view | `apps/desktop/src/chat/*`, `streams.rs` | view, undelivered events | open, act, revert, resync | events and snapshots in any order | the view converges |
| Navigation, drafts | `apps/desktop/src/app/*`, `chat/drafts/*` | choice, draft, submission | choose, open, submit | an earlier choice arrives last | the last choice is shown; a draft runs once or is kept |
| Codex adapter | `codex-adapter/src` | app-server connection, thread state | gateway, engine, thread requests | requests and notifications interleave | as in the parts above |
| Core, protocol, extensions, CLI | `core/src`, `protocol/src`, `client/src/extensions`, `cli/src` | values | resolve, encode, print | none | pure functions |

## Modules

**`RemoteOperations`** is the promise: an operation is requested, runs at most once
while the channel is open, and an answer is given only of what ran or was refused.

**`ExecutionChannel`** is the detailed specification of one channel: the relay, the
wire in both directions, the connection task, the actor, the store and the
exec-server as the actor uses it.

* *Relay*: `phase`, `outbox`, `cursor`. `Submit` puts a frame in the outbox and on
  the wire (or finds the connection broken); `Receive` handles one event: a receipt
  clears the outbox, anything else goes to the frontend, then the cursor moves and is
  acknowledged. `LoseConnection`, `Inspect`, `AttachFails`, `Reattach`, `AttachLost`
  are the reconnection loop; `Reattach` writes the outbox in the order of its keys,
  up to any point where a write may fail.
* *Connection*: `ReadFloor` and `ReadRows` are the two statements of
  `execution_events`; `HandleExecute`, `HandleAck`, `HandleDetach` the frames.
  `Supersede` is the attachment of a newer connection: the frame the old task was
  about to read stays in `late` and may be handed over at any later time
  (`LateExecute`, `LateAck`).
* *Actor*: `step` is the next statement of the `dispatch` or `collect` under way, so
  that other tasks, an error (`ActorFails`) and the death of the process
  (`ServiceRestart`) come between any two statements.
* *Store*: `operations`, `linked`, `events`, `floor` are the rows; `AppendRecord` and
  `Acknowledge` are the two transactions that move the replay floor.
* *Histories*, which no guard reads: `submitted`, `delivered`, `runs`, `trimmed`
  (`Submit` reads `submitted` to take a new operation).

Abstracted: payloads (an operation is its identity and its class: a request, a
one-way message, or one the policy refuses), byte sizes (a record has size one),
event numbers across channels, heartbeats. Idle timers, `Stop` and statement
errors all end the actor and are one action, `ActorFails`.

**`ExecutionLifecycle`** is the other half of the actor: how long an execution lives
and what becomes of the processes in it. `ExecutionChannel` treats every end of the
actor alike; here the reasons are told apart, and the statements of one operation are
one step.

* *Session and connection*: `session` (open, leaving, left), `link`, `arriving`,
  `epoch`, `open` (the attachments whose connection task still runs). `AttachTouch`
  touches the actor and only then `AttachCount` counts the attachment, as
  `server/src/frontend.rs` does; `ConnectionEnds` offers `Disconnected` to the queue,
  where it is lost when the queue is full; `LateHeartbeat` is one more frame of a
  superseded connection. `Leave`, `DetachFrame` and `DetachCall` are the end of the
  session: a frame on the connection it has, and a call of its own.
* *Actor*: `life`, `inbox`, `attached`, `detached`, `age`, `applied`, `pending`. One
  action per input (`TakeTouch`, `TakeDetached`, `TakeRetireIdle`, `TakeDisconnected`,
  `TakeStop`, `TakeExecute`); `Timer` is the tick of one second with its rules for a
  silent attachment, for MCP servers, and for the idle end in the foreground and the
  background; `ApplySettings` is the watch channel of the profile; `Fails` is an error
  of any statement; `Finish` drains, kills the backend and marks the channel lost.
* *Jobs*: `jobs`, `rowid`. `RecordJob`, `CollectAnswer`, `CollectExit` and
  `SetJobState` are the statements of `jobs.rs` with their WHERE clauses:
  an exit names a process identity and ends the latest active job of it.
* *Backend*: `backend`, `doomed`, `out`: what exec-server was asked for, runs or has
  ended, and what it wrote and nobody has read yet, in any order.
* *Histories*: `ended` (why the actor stopped), `cut` (what ran then), `greeted`.

Abstracted: durations become levels of `age` (`Grace`, `Linger`), the output of a
process is left out, and so is the start of the backend, which happens before the
first state.

**`SessionRecovery`** is what the client does when a connection or an engine ends.

* *Budget* (`rec`, `recovery.rs`): the published state is a watch channel that keeps
  the latest value; `Published`, `Parked`, `Asleep`, `Attempted` are the assignments
  of `wait`. Two waiters share it: the relay (`RelayWaits`, `RelayWakes`) and the
  owner of the session (`PumpWaits`, `PumpWakes`). `Notify` is the Retry button: it
  reaches only who waits at that moment.
* *Relay* (`relay`): loses the connection, waits for an attempt, tries, sends its
  outbox again, announces Ready. `RelayResends` reads the flag
  `rebuilding` and `RelayAnnounces` publishes, as two steps.
* *Owner* (`pump`, `supervisor.rs`, `events.rs`): `PumpTakes` reads an event of Codex,
  `PumpTakesEnd` and `PumpNotices` see the end of the engine or the transport, and
  then come the closing of the generation, the wait, `PumpReplaces`, `PumpVerifies`,
  the continuation and `PumpAnnounces`.
* *Status task* (`status`): `StatusReads` takes the latest state, `StatusDisconnects`
  notes the interrupted turn, `StatusResumes` asks for its continuation.
* *Intent* (`intent.rs`): `Started`, `Ended`, `Disconnected`, `Cancelled`, `Consumed`
  are its methods on the turn at work and the one to continue.
* *Submission* (`sub`, `gate`): a continuation is taken, checked behind the turn gate,
  sent, answered and confirmed (`Take`, `Check`, `Send`, `Answer`, `Confirm`); the
  owner and the status task may each be in the middle of one.
* *User and Codex*: `Message` and its steps, `Interrupt`, `Retry`, `Close`; `TurnEnds`
  and `EngineEnds` are Codex as this code uses it.

An error is one of six classes, by what recovery makes of it; the module comment
lists them. Goals, settings and prompts, which the same files pass on, have modules of
their own. The suspension of a goal before `disconnect` is kept as the delay that it is.

**`ServiceUpdate`** is one installation of the remote service: processes of `serve`
and `ensure` (`sv`, `en`), what they share through the file system (`lock`, `sock`,
`db`, `shared`), the channels that clients open meanwhile (`ch`), and the
configuration of a profile (`config`). A new build counts the work under the write
lock of the database, tells the old service to end and takes its place; each waits for
the other's locks with a limit, and any process may be killed.

**`FileTransfer`** is the upload of one file. `Run` to `End` are the engine
(`transfers/engine.rs`, `copy.rs`, `conflict.rs`); the `Prepare`, `Write`, `Commit`
and `Cancel` actions are the statements of the worker at the destination
(`transfer/src/staging.rs`, `journal.rs`), which goes on when its connection breaks
and stops anywhere when the server does; `Resolve`, `RestartFile`, `CancelTransfer`
are the user. Others change source and destination. Left out: trees, downloads (the same
engine with its two ends exchanged), several transfers at once.

**`SessionAuthority`** is what a session may do. The engine acknowledges an update of
its settings and applies it later; the answer wakes the caller (`CallReturns`), the
notification is read by the pump (`PumpReadsSettings`), and `Committed` needs both.
Items go from Codex to the prompts, to the accepted approvals and to the relay, which
takes one once (`RelayTakes`). A generation is closed and opened with what is
restorable. Child threads share the grant of their root and are left out.

**`SessionGoals`** has the goal as Codex has it (`native`), as the session shows it
(`shown`) and as it is to be resumed (`resume`), the gate, and three tasks that work
behind it: orders of the user, the status task (suspend, restore) and the pump
(restore when a turn completes). Left out: the mode of a plan and budgets.

**`NativeFrontend`** is the way of a prompt: engine, pump, pending requests, broadcast,
gateway, the output queue of a connection, the screen, and an answer back. The
receivers may lag, connections are replaced, an engine is rebuilt.

**`SessionOwnership`** is who controls a thread: calls that pass the gate of the
application (`opening.rs`) in the order of their numbers, as the fair mutex lets them, become the runtime of a window, hold the lease
(`lease.rs`) and lose it to a marker; windows that close meanwhile; other processes
that ask, give up and crash. The release of a lease is one step.

**`ServerConnection`** is how the users of one computer reach a server: the slot with
its weak reference, dialling, `Hello`, recovery of a broken connection, and the
configuration that is resolved from the store, stored by the server and acknowledged in
the row, while a command line changes it and the service stops or the account behind
the address is replaced.

**`RemoteInstall`** is `install.sh` and `deploy.sh` line by line for two computers: the
lock, the staging directory, extraction, probe, sync, rename, sync. Scripts are hung
up or killed, the server loses its power.

**`WorkspaceUse`** is who works in a directory of a server: commands that open files,
browsers, terminals and sessions in several windows, each with the lock it takes; calls
through a handle; closing of handles and of windows in the order of
`WindowState::close`; removals, which need the lock alone.

**`Credentials`** is the life of a secret in two stores, a record and a value in the
vault: reserved, put, verified, committed, retired, collected a day later. Savers die
between any two steps, or abandon a write that lands later and keeps the permit.

**`SelfUpdate`** is how the programs of a computer check for a release, download it and
exchange the installation, under the lock of the component and with a state file of
its own lock, beside installers that know of neither.

**`DesktopWindows`** moves a document from the first window into windows of its own
while windows are built, attach, are asked to close, closed by their interface or
destroyed, and the application restarts.

**`FileEditing`** is one window that edits two paths: `Open`, `Type`, `Save`, `Close`,
moves of its own and by others (`Relocated`), uploads, and the server's staged write
with its comparison and rename as three steps.

**`ConversationView`** is a chat in a window: events go through a broadcast that may
lag and a channel with one delivery under way; snapshots answer the opening, actions,
a resync and the edit of history; `Reduce` and `Apply` are the reducers. A turn stands
for all fields that only events and snapshots set.

**`DesktopNavigation`** is what a window shows: choices that wait for a connection or
for a conversation, the shared request that connects a workspace, drafts and their
submission, which opens a conversation, sets it up, and runs or does not, or nobody
knows. The conversation that was opened keeps text in a composer of its own.

### Composition

`ExecutionChannel` composes relay, connection, actor and store; `ExecutionLifecycle`
the session, connection, actor and backend; `SessionRecovery` budget, relay, owner,
status task and submissions. `SessionOwnership` composes windows, gate, lease and
other processes, and `ServerConnection` the application, the store and the service.
`RemoteOperations` is implemented by `ExecutionChannel` (`KeepsPromise`).

`MCSession`, `MCDesktop` and `MCClient` put modules that share no variable side by
side in one run: an initial choice (`part`) says which of them moves, and the others
rest. No property is about two parts, so a behaviour in which two move would show
nothing more; the choice keeps the state space a sum instead of a product.
`SessionAuthority` appears twice there, as changes and as approvals, whose variables do
not meet except in the engine that is replaced.

The other `MC` modules instantiate one module each; the `.cfg` files give the
constants. The theorems are in the modules whose names end in `Proofs`; each extends the
modules it is about. The symmetric sets are those whose members have the same actions and no
order; liveness is not checked under symmetry.

## Runs

A run answers one question, or one per part of a composition; the properties of a module
share an instance. Deadlock checking is off in all of them because every behaviour of
the system ends: a channel closes and its actor stops, or the bounds on what is asked,
lost and replaced are used up.

| Run | Question | Instance |
|---|---|---|
| `channel_safe` | does nothing run twice or unrecorded, do receipts and acknowledgements mean what they say, is what is skipped only what was trimmed, is the promise kept | a request and a refused request, outbox and queue of 1, one unanswered request: both EXECUTION_BUSY cases happen; room for 2 events; two attachments |
| `channel_skip` | the comment "it never silently skips" | one request, two notifications; the run finds it violated |
| `channel_settles` | is every operation settled | a request and a one-way message, outbox of 1, `FairSpec` |
| `life_safe` | do the jobs say what the backend does, what may the timer and maintenance end | a command and a request, queue of 1, two attachments, one change of the background setting, update and shutdown |
| `life_ends` | does an abandoned execution end, do MCP servers end | a command and an MCP server, queue of 1, `FairSpec` |
| `recovery` | budget, waiters, what becomes of an interrupted turn; does a recovery end, is a waiting message answered | two attempts, up to three outages and messages together, two of each at most, `FairSpec` |
| `recovery_replace` | the comment "The user's new instruction replaces automatic continuation" | one attempt, two outages, two messages; violated |
| `service` | is nothing cut by an update, is the service that serves reachable, are published settings the stored ones, does an update end | two builds ensured at once, three services, one channel, one transfer, two configurations, one crash |
| `transfer` | is the destination whole, is only an agreed file replaced, is no staging directory left, does every run end | one file of two blocks, two tokens, two changes by others, two faults of any kind |
| `session` | grant, approvals, goal, prompts, owner, connection | three changes or turns, two items, one replacement; two orders and two outages; two prompts, two connections of a terminal, a rebuild; two windows, another process and three opens; two users and a command of one server, two revisions, two breaks |
| `desktop` | edits, chat, choices and drafts | two paths, four texts, two saves, a read, a move and an upload; two turns, an action and an edit, a stream of 2; two workspaces, a session, three choices, three messages |
| `client` | document, secrets, updates, installation, workspace | two new windows, two inputs, a restart; three secrets, one cleanup; two programs, three versions, two replacements and two modes; two computers, two mishaps; two commands and a removal, two windows |

Bounds. `MaxEpoch = 2` attachments give one reconnection, with everything the first
connection left behind still able to act; a connection of a channel may break only
while another attachment is allowed (`MayBreak`). `MaxNotes` bounds notifications,
`MaxAge` the levels of age that the timer tells apart (one beyond each threshold),
`MaxChanges` the changes of a setting, `Maintenance` what the service does on its own.
Two outages are the smallest number with which a recovery is itself interrupted, and
one of them may be the engine's; two messages let one replace an interrupted turn
while another is on its way, or the user retry and then stop the turn that he still sees.
`recovery` allows two of each but three together (`FewEvents`; none of the actions it cuts
off is under fairness). Three typed messages fill a draft, its submission and a composer.
Three calls let a change cross a turn with a policy of its own behind an earlier change. Two faults let the run that repairs a first one be cut off itself. Two
tokens are a file that is staged anew. Three secrets are one in use, its replacement and
the password of ssh; `MaxCleanups = 1` is one collection beside them. Three versions are
the installed one, one that others install and one that is newer than both. Two openings
and a removal are the crossing of a close, an opening and a removal; two removals at once
do not occur, which their lock, held alone, would order anyway. The safety properties do not
rest on these bounds: they are proved for every value of the constants (see below).

Fairness.

* *Channel*: Tokio polls every ready task, so each statement of the actor and of the
  connection task is weakly fair; a frame that is ready again and again is read
  (strong fairness, `select!` chooses at random among ready branches); the recovery
  loop retries. No fairness forces a connection to break or a service to die.
* *Lifecycle*: the actor's inputs, the output of the backend, the application of
  settings, draining and the passing of time are weakly fair; the timer is strongly
  fair with an answering store (`Timer(TRUE)`), because a tick every second meets a
  store that is not broken for ever. The backend answers, and ends what it was asked
  to end; a command runs as long as it likes, and nobody has to detach.
* *Recovery*: the tasks and timers are weakly fair; the user, the connection, the engine and
  its turns owe nothing: an outage is never forced, so a recovery must end without one.
* *Service*: the steps and limited waits of services, of calls that began and of clients
  that ensure are weakly fair; crashes are not forced.
* *Transfer*: the engine and the worker are weakly fair, as a process and a blocking
  thread are; nobody has to start a run, and faults are not forced.

The parts in `session`, `desktop` and `client` are checked for what may never happen
and need no fairness. What should be so in the end is stated there of quiet states, in which
nothing is under way (`ChatConverges`, `PromptsAgree`, `GoalIsKept`).

`Prompt` is an assumption about time, not fairness: a task that can run without
waiting for anybody does so before a timer of five seconds fires or a person acts.
Only `recovery_replace` makes it, so that its counterexample needs no starved task; the
passing runs do without it. `AnswersFirst` in `session` is a property of Tokio's
scheduler as the code relies on it: a caller that an answer has woken runs before the
driver has read and the pump handled the next message of Codex.

`SessionKept` holds for a grace period of at least one second. With
`disconnect_grace_seconds = 0`, a legal setting, it does not: an attachment sends
`Touch` before it counts itself (`server/src/frontend.rs:60`), an older task that ends
in between sends `Disconnected` after it, and the tick finds an attached session
alone. The assumption is in the theorem (`ASSUME Grace # 0`).

### What the code does differently from what it says

* `channel_skip`: `execution_events` reads the replay floor and the rows in two
  statements. If the actor appends a record between them and the append trims rows
  that the subscriber has not read, the second returns what is left and the stream
  continues behind a gap, while the comment of `append_record` says that it "never
  silently skips" (`server/src/storage/retention.rs:39-40`). `SkippedWasTrimmed` is
  what does hold: a skipped event was removed by the capacity bound, never by an
  acknowledgement. When the skipped event is a response, its operation is not settled
  either; `channel_settles` has room for all events.
* `recovery_replace`: the status task notes a disconnection after awaiting the goal
  gate; a message that cleared the episode meanwhile does not prevent it, and the
  turn that the message replaced is continued (`client/src/local/events.rs:71`).

Others were met while modelling and are not runs; the models have these behaviours unless
the entry says otherwise.

* A transport that breaks while its owner replaces the generation comes back as the
  Fault SSH_FAILED, which `recovery.rs:91-99` does not retry although the budget is
  unused; and a relay reads `rebuilding` and publishes Ready in two steps.
* `intent.rs:119` remembers one stopped turn, the last, while its test is named
  `recovery_consumes_intent_once_and_never_restarts_a_cancelled_turn` (`intent.rs:146`). A turn that is stopped after its
  continuation was taken, while another message holds the turn gate, is continued when the
  turn of that message is stopped too. That needs three messages and was found by the
  attempt to prove more; `EndedStays` says what does hold.
* `supervisor.rs:244` offers Retry (CONTINUATION_UNCONFIRMED) although nobody waits for it.
* `goals.rs:24`, "A notification received during the read is newer": one that Codex sent
  before the read and that the pump reads during it is not. The next notification mends it.
* `permissions.rs:104`, "An expansion needs both a native response and notification": a
  change that Codex has already applied begins as observed, so the answer alone commits it.
* A rebuilt engine counts its prompts from the start again; an answer that a terminal gives
  to an old prompt can meet a new one of the same number (`IdsRestart = TRUE`). An
  answer that is late ends the gateway (`gateway.rs:152`).
* A restaging after an interrupted preparation or removal fails with TRANSFER_MISSING each
  time (`transfers/engine.rs:84-97`), while the cleaning at the end completes the journal
  first (`engine.rs:240`). `cancel` of a completed transfer makes it paused, then cancelled.
* A window that was built but never attached is not asked to close by a restart, which then
  stays pending while new windows are refused; a second close of a closing window makes the
  restart an exit; a content window that has not rendered ignores CloseRequested.
* `submitDraft` overwrites what was typed into the composer of the conversation it opened,
  and a workspace that was forgotten and chosen again gets the draft that still runs. Both are
  excluded by the assumption in `DesktopNavigation`.
* An event can be lost between the opening of a chat and its registration when the stream
  lags before that (`missed`), and a snapshot can undo a newer event, which only usage is
  protected from (`stale`); `ChatConverges` excuses both.
* A request for a takeover that is written between the lock of the owner and its first look
  at the marker is taken for an old one; its asker times out.
* A client with newer defaults sends another configuration under the same revision, which
  the server refuses until the next change (`server/src/storage.rs:133`); a Remote keeps
  the path of the service that it started with. Neither is modelled.
* A damaged installed directory makes `server add` fail until it is removed by hand. The cleaning of
  `install.sh:15` matches by prefix: installing 1.2 removes the staging directory of a
  running installation of 1.2-alpha, which holds another lock; the model has one version.
* A handle of files that was opened while its server was removed belongs to a server that
  is gone; the workspace itself is refused by its row (`Remember`).
* An automatic update continues when the mode is changed during its download.

Where a property leaves a window open that the code cannot close, a history variable marks
it and the comment of the property says so: the time between the last comparison and a rename
or exchange (`late` in `FileTransfer`, `overwritten` in `FileEditing` counts only what was
compared, `crossed` in `SelfUpdate`).

## Proofs

Each theorem holds for every value of the constants that the named assumptions of the
module allow; the bounds of the runs are constants too, and any number will do. The
assumptions say that limits and bounds are numbers, that sets which the code keeps apart
are disjoint, and that a marker such as "no program" is not a member of the set it is a
marker for. Invariants were checked by TLC before they were proved.

**`ExecutionChannelProofs`.** Assumed of the constants: operations are numbered, the
three classes are disjoint where it matters (`OpsAssumption`), limits are positive
naturals (`LimitsAssumption`). Nothing bounds them.

`TypeCorrect` is proved action by action. The safety properties are not inductive
by themselves: that nothing runs twice depends on where the actor is between two
statements, that a receipt means a run depends on every receipt still stored or on
the wire, and that acknowledgements are harmless depends on every frame of every
connection, superseded ones too. `ChannelInv` states all of that at once: `WireInv`
(what is under way refers only to submitted operations, processed cursors and
existing events), `StepInv` (what the statement under way may rely on) and
`StoreInv` (what the rows mean). The sets that type the wire only grow (`Grows`,
`SoundGrows`), so each action answers only for what it adds: `RelayInvariant`,
`ConnectionInvariant`, `ActorInvariant`. From it follow `AtMostOnce`,
`ReceiptMeansActed`, `NoInventedOutcome`, `NothingDroppedUnseen`, `InOrderOnce`
and the refinement `PromiseKept`. `SkippedWasAlwaysTrimmed` adds `SkipInv` to it: while a
connection streams, each event up to the one sent last is processed, trimmed, or on the
wire before every later one (`StreamInv`), and what is trimmed is below the floor.

**`ExecutionLifecycleProofs`.** Any number of commands, MCP servers, requests and
attachments, and any assignment of process identities. `LifeInv` is `TypeOK`,
`QueueInv` (an operation is in the queue once, before anything is known of it),
`BackendInv` (what the backend writes is of something it was asked), `StoreInv` (the
state of a job against what its process did, and the order of rows against the reuse
of an identity) and `EndInv` (what ran when the actor stopped). `StoreInv` is what
makes it inductive: that an exit ends the right job needs the fact that, of the starts
with one identity, only the latest can have an active job. From it follow
`LiveIsActiveAlways`, `ActiveIsExplainedAlways`, `BackgroundSurvivesAlways`,
`RetiredWasIdleAlways` and `NeverResurrectedAlways`; `SessionKeptAlways` has an
invariant of its own (`HeardInv`), about what is still in the queue behind a
session that was heard.

**`SessionRecoveryProofs`.** `RecoveryInv` is `TypeOK` with two parts. `BudgetInv`: that
Retry is heard and the budget is kept needs where the relay is while the owner waits
(`RelayStopped`), that the relay of a replacement does not wait while its owner rebuilds
(`RelayFailsBack`), and that whoever sleeps has an attempt left. `EpisodeInv`: the marker of
an episode is in one place only, the intent, one submission, or what was sent. They give
`RetryIsHeard`, `BudgetIsShared` and `MarkerIsSubmittedOnce`.
`EndedIsNotContinued` rests on `TurnInv`: what the events that nobody has read yet can say
of a turn (`Unread`, `TurnAtWork`), that turns are shown, stopped and completed in the order
of their numbers (`StopsInv`), that the turn at work and the interrupted one are neither
stopped nor completed (`ContinuableInv`), that an answer is of the last turn that began
because the turn gate was held since (`GateInv`), and that nothing begins while the owner
waits or replaces (`RestInv`). The lemmas on `Unread` say what is left when the first event
is read and when one is added.

**`ServiceUpdateProofs`.** `ServiceInv` ties the place of each service and each updater to
the locks it holds (`LocksAgree`, with one updater at a time at the database), keeps what an
updater counted true while it holds the write lock (`Counted`), keeps each call and
execution with a service that is there (`TableAgrees`), and gives the mutex to whoever has
saved a configuration and not yet published it (`SavedIsHeld`). From it follow
`ReplacementIsQuiet`, `ServiceIsReached` and `SettingsAreStored`.

**`FileTransferProofs`.** `TransferInv` relates the engine's step to the item and the task it
has stored (`EngineInv`), the directories to the token of the item (`StageInv`), the step of
the worker to the version it was asked for (`CommitInv`), and the version to be replaced to
what the user agreed to (`AgreedInv`). Contents are sequences of any length. From it follow
`UploadsAreWhole`, `StagesAreRemoved` and the action property `ReplacementsAreAgreed`.

**`SessionProofs`** has one part for each of five modules.

* *Authority*: `GrantIsAlwaysCurrent` is proved of `AnswersFirst = TRUE`, which is in the theorem.
  It follows from what is known of the change under way (`ChangeInv`) and of the
  settings in force, where each step of the engine that the session has not read yet is in
  the stream or among the accepted calls (`StreamInv`, `GrantInv`). `NoApprovalIsLeft` needs
  that the last the stream says of a command that is over is its end (`EndInv`).
* *Goals*: what a task behind the gate has read (`TaskInv`), the notifications not yet read
  against the goal as it is (`NewsInv`), and that nothing is left after a pause that says
  active (`PauseInv`). `GoalInv` gives more than `GoalIsKept` says.
* *Connection*: what each caller holds at its step (`PeerInv`), whom the slot refers to (`LinkInv`).
* *Prompts*: `PromptsAlwaysAgree` is proved where no two prompts share an identity: either
  they never do (`IdsRestart = FALSE`) or no engine has been replaced, which is in the
  theorem. The invariant (`FrontendInv`) speaks of one prompt at a time, not of what a queue
  would add up to (`NoticeInv`): in which queues its request and its end are, that a prompt
  that waits is before the user or on its way to him (`SeenInv`), that one that no longer waits
  is followed by its end, or something was lost on the way (`LeftInv`), and that what a
  connection was given is recorded (`DeliveredInv`). Of the order of a queue it needs only
  that a request is the first notice of its prompt (`AsksFirst`).
* *Ownership*: the call at the gate is the first that is not over (`GateInv`), an engine runs under
  the lease only (`LeaseInv`), and an owner is revoked only by what was asked after it began (`AskedInv`).

**`DesktopProofs`**. *Navigation*: nothing is shown for a choice not made (`ChoiceInv`), and a
text is in one draft, submission or composer until it has run (`DraftInv`). *Windows*: how
far the move of a document is against the places of its two windows and the lock of
the copy (`MoveInv`, `CopyInv`, `LeavingInv`), who holds what was typed (`HolderInv`) and what is
about to be adopted (`AdoptInv`). *Editing*: tabs and saves, each against the text it was read
from or last saved (`GoodTabs`, `GoodSave`), over sequences of reads and saves of any length.
*Conversations*: `ChatConverges` speaks of quiet states; behind it is what may be said while
events and snapshots are under way (`ViewInv`). The events under way lead from what is shown to
what the session is in (`TurnFollows`, `UsageFollows`): the turn that is shown will be seen to
end, the one at work to begin, the last usage to come. They keep doing so as the first of them
is heard because they are complete (`Whole`: a turn that begins in them also ends in them, or is
at work) and come in the order in which they were sent (`OrderInv`). The same is kept of each
snapshot that is not late (`TurnShownInv`), with what makes an older snapshot harmless for usage
(`UsageReadInv`), and no snapshot that counts is of a turn that an edit has removed
(`DiscardInv`). What waits for the chat to be registered is heard at once: that it leads to the
same (`HearsAll`) is proved by induction along the events, from the library's theorem that less
is well founded on the numbers (`Least`, `Induction`).

**`ClientProofs`**. *Credentials*: a value in the vault has a record unless its writer still
runs, and maintenance works alone (`MaintenanceIsAlone`). *Workspaces*: the lock and the row that
a command relies on, at each of its steps (`UseInv`). *Updates*: one program is at it, and only the one that
stores has read the state file (`OneJob`, `WriterStores`). *Installation*: a directory with a
name is whole and synced (`PlacedIsWhole`), which needs what each script has checked (`ScriptInv`).

What the proofs changed in the models. A file published from a staging directory could have
the stamp of a version of somebody else (`Copied`); text typed into the conversation that a draft opened
was not in any place (`chat` has it now); a rebuilt list of prompts came in one order, where the
code reads it from a map (`Listings`); the gate of `SessionOwnership` was a queue whose
head said less than the order of the calls; `EndedStays` claimed for every turn ever
stopped what the code does for those stopped before the taking, and for the last one; and
`FairSpec` of `SessionRecovery` forced a living connection to fail.

Only model-checked:

* liveness (`EverySubmissionSettles`, `NothingLingers`, `RecoveryEnds`, `UpdateEnds`, `RunEnds`), which is
  outside the prover's reach;
* the two properties that a run expects to be violated.

## Plan

Every safety and action property that a passing run checks is proved. What is left, in order:

1. That each module with a proof keeps its types, as theorems of their own where the
   type invariant is a part of a larger one now (`ClientProofs`, `SessionProofs`, `DesktopProofs`).
2. Refinements: a file that is old or new for `FileTransfer`, and an execution as the
   promise of `RemoteOperations` through several channels.

## Not modelled, and why

Pure functions (policy decisions, path rules, codecs, projection of history, mapping of
extensions) have no interleaving; where their result matters it is a class of operation
or error. Bounded pipes between actor, reader and exec-server are left out: the models have
unbounded ones, so that a deadlock of full pipes would not be seen. Trees of files,
several transfers at once and downloads repeat the engine that is modelled for one file.
Versions, signatures, host keys, prompts of ssh and the contents of archives are
checks by single decisions. Process output, message bodies, sizes in bytes and wording are data
that no property of these modules tells apart. The command line and the rendering of the
interface show what the client publishes.

Abstractions that a reader should know of:

* Releases of a lease or lock are one step, unless a module says otherwise.
* `SessionOwnership` has one marker and one thread; `ServerConnection` one server and no
  service that answers nothing (an `attach` waits for its Hello without a limit).
* `WorkspaceUse` leaves open which registered operations a closing window aborts, because a
  command that looked at the flag just before registers afterwards; a browser call under way
  when it is closed goes on without a lock; sessions are opened in `SessionOwnership`.
* `DesktopWindows` leaves out what is typed while a window is already leaving, or
  before a handed-over document has been confirmed, and the reloading of windows.
* `FileEditing` takes every typed text for a new one.
* `Credentials` leaves out the limit of 30 seconds for the lock, and the binding of passwords to targets.
* `RemoteInstall`: what is told as found may not be synced yet by the script that
  renamed it; a deployed service never removes `.stage-*` of others.
* `ConversationView` leaves out the bodies and the history of messages.
