--------------------------- MODULE ServiceUpdate ---------------------------
(***************************************************************************)
(* One installation of the remote service: who owns it, how a newer build  *)
(* takes its place, and what the old service may still accept meanwhile.   *)
(*                                                                         *)
(*   sv      processes of `remote-codex-server serve` (main.rs, service.rs)*)
(*   en      processes of `ensure`, one per connecting client, each with a *)
(*           build of its own (main.rs, installation.rs, handshake.rs)     *)
(*   lock, sock, db, shared   what they share through the file system:     *)
(*           service.lock, the socket, the write lock of the database, and *)
(*           the holders of transfer.lock                                  *)
(*   ch      channels: the call that opens one, its row, its execution     *)
(*   config  the configuration of one profile, stored and live, and the    *)
(*           calls that change it (profiles.rs)                            *)
(*                                                                         *)
(* A timeout may fire whenever the step it guards is waiting. The refusals *)
(* of one OpenExecution (capacity, MCP, runtime) are one.                  *)
(***************************************************************************)
EXTENDS Naturals, FiniteSets

CONSTANTS
  Ensures,       \* ensure processes
  Build,         \* the build each of them carries
  FirstBuild,    \* the build of the service that runs at first
  MaxServices,   \* bound: serve processes
  Channels, Transfers,
  Configs,       \* calls of Configure, each for a revision
  Revision,
  MaxCrashes     \* bound: services that are killed

ASSUME ServiceAssumption == /\ Build \in [Ensures -> STRING] /\ FirstBuild \in STRING
                            /\ "free" \notin Configs
                            /\ MaxServices \in Nat \ {0}
                            /\ MaxCrashes \in Nat
                            /\ Revision \in [Configs -> Nat \ {0}]

VARIABLES sv, lock, sock, db, shared, en, ch, config, crashes

sVars == <<sv, lock, sock>>
vars == <<sv, lock, sock, db, shared, en, ch, config, crashes>>

Services == 1..MaxServices
Nobody == 0
NoCall == "free"
Updater == MaxServices + 1      \* an ensure process, as the owner of service.lock

Holds == {"locked", "opened", "serving", "stopping", "told", "closing"}
Ended == {"ready", "waiting", "failed"}
Alive(s) == s # Nobody /\ sv[s].at \in Holds
Answers(s) == s # Nobody /\ sv[s].at = "serving"
\* The execution table of a service is locked by one call at a time.
TableFree(s) == \A c \in Channels : ch[c].by = s => ch[c].at \notin {"checked", "spawned"}
Running == {c \in Channels : ch[c].row = "running"}

Init ==
  /\ sv = [s \in Services |-> [at |-> IF s = 1 THEN "serving" ELSE "none", build |-> FirstBuild]]
  /\ lock = 1 /\ sock = 1 /\ db = Nobody /\ shared = {}
  /\ en = [e \in Ensures |-> [at |-> "idle", peer |-> Nobody, child |-> Nobody]]
  /\ ch = [c \in Channels |-> [at |-> "none", by |-> Nobody, row |-> "none", alive |-> FALSE]]
  /\ config = [stored |-> 1, live |-> 0, held |-> NoCall, at |-> [k \in Configs |-> "none"]]
  /\ crashes = 0

-----------------------------------------------------------------------------
(* serve *)

At(s, at) == [sv EXCEPT ![s].at = at]
Moves(s, from, to) == sv[s].at = from /\ sv' = At(s, to)

\* Mutant: the lock is only tried after the socket has been replaced.
ServeLocksAnyway(s) ==
  /\ Moves(s, "starting", "locked")
  /\ lock' = s /\ sock' = Nobody
  /\ UNCHANGED <<db, shared, en, ch, config, crashes>>

\* service.lock, without waiting; then the stale socket is removed.
ServeLocks(s) ==
  /\ \/ lock = Nobody /\ Moves(s, "starting", "locked") /\ lock' = s /\ sock' = Nobody
     \/ lock # Nobody /\ Moves(s, "starting", "gone") /\ UNCHANGED <<lock, sock>>
  /\ UNCHANGED <<db, shared, en, ch, config, crashes>>

\* Store::open reconciles what an earlier service left, or waits 3 s in vain.
ServeOpens(s) ==
  /\ \/ /\ db = Nobody /\ Moves(s, "locked", "opened")
        /\ ch' = [c \in Channels |-> [ch[c] EXCEPT !.row = IF @ = "running" THEN "lost" ELSE @]]
        /\ UNCHANGED lock
     \/ db # Nobody /\ Moves(s, "locked", "gone") /\ lock' = Nobody /\ UNCHANGED ch
  /\ UNCHANGED <<sock, db, shared, en, config, crashes>>

ServeBinds(s) ==
  /\ Moves(s, "opened", "serving") /\ sock' = s
  /\ UNCHANGED <<lock, db, shared, en, ch, config, crashes>>

\* shutdown: the table is locked, and every execution is told to stop.
ServeTells(s) ==
  /\ TableFree(s) /\ Moves(s, "stopping", "told")
  /\ UNCHANGED <<lock, sock, db, shared, en, ch, config, crashes>>

\* All have stopped, or 4 s have passed; the socket is removed.
ServeCloses(s) ==
  /\ TableFree(s) /\ Moves(s, "told", "closing") /\ sock' = Nobody
  /\ UNCHANGED <<lock, db, shared, en, ch, config, crashes>>

\* What a process takes with it: its lock, calls, executions and transfers.
Dead(s) ==
  /\ sv' = At(s, "gone")
  /\ lock' = IF lock = s THEN Nobody ELSE lock
  /\ ch' = [c \in Channels |-> IF ch[c].by = s
              THEN [ch[c] EXCEPT !.at = IF @ = "open" THEN "lost" ELSE "refused", !.alive = FALSE] ELSE ch[c]]
  /\ shared' = IF Alive(s) THEN {} ELSE shared
  /\ config' = IF Alive(s) THEN [config EXCEPT !.live = 0, !.held = NoCall,
                  !.at = [k \in Configs |-> IF @[k] = "none" THEN "none" ELSE "done"]] ELSE config

ServeExits(s) ==
  /\ sv[s].at = "closing" /\ Dead(s) /\ UNCHANGED <<sock, db, en, crashes>>

ServeCrashes(s) ==
  /\ crashes < MaxCrashes /\ Alive(s) /\ Dead(s)
  /\ crashes' = crashes + 1 /\ UNCHANGED <<sock, db, en>>

-----------------------------------------------------------------------------
(* OpenExecution, and what becomes of the execution *)

\* A connection accepted by a service is handled even while that one stops.
Calls(c, s) ==
  /\ ch[c].at \in {"none", "refused", "lost"} /\ ch[c].row = "none" /\ Answers(s)
  /\ ch' = [ch EXCEPT ![c].at = "connected", ![c].by = s]
  /\ UNCHANGED <<sv, lock, sock, db, shared, en, config, crashes>>

\* The table is locked until the answer; a channel that has a row is not opened again.
OpenChecks(c) ==
  LET s == ch[c].by IN
  /\ ch[c].at = "connected" /\ sv[s].at \in {"serving", "stopping", "told"} /\ TableFree(s)
  /\ ch' = [ch EXCEPT ![c].at = "checked"]
  /\ UNCHANGED <<sv, lock, sock, db, shared, en, config, crashes>>

\* The live profile (taken from the store if there is none) must have the
\* revision the client knows; then the backend is started.
OpenStarts(c) ==
  /\ ch[c].at = "checked" /\ config.held = NoCall
  /\ config' = [config EXCEPT !.live = IF \E d \in Channels : ch[d].alive THEN @ ELSE config.stored]
  /\ ch' = [ch EXCEPT ![c].at = "spawned"]
  /\ UNCHANGED <<sv, lock, sock, db, shared, en, crashes>>

OpenRefuses(c) ==
  /\ ch[c].at \in {"checked", "spawned"} /\ (ch[c].at = "spawned" => db # Nobody)
  /\ ch' = [ch EXCEPT ![c].at = "refused"]
  /\ UNCHANGED <<sv, lock, sock, db, shared, en, config, crashes>>

\* Mutant: the row is written whoever holds the database.
OpenStoresAnyway(c) ==
  /\ ch[c].at = "spawned"
  /\ ch' = [ch EXCEPT ![c].at = "open", ![c].row = "running", ![c].alive = TRUE]
  /\ UNCHANGED <<sv, lock, sock, db, shared, en, config, crashes>>

\* create_channel, then the execution enters the table and the call is answered.
OpenStores(c) ==
  /\ ch[c].at = "spawned" /\ db = Nobody
  /\ ch' = [ch EXCEPT ![c].at = "open", ![c].row = "running", ![c].alive = TRUE]
  /\ UNCHANGED <<sv, lock, sock, db, shared, en, config, crashes>>

\* An actor ends: idle, told to stop, or failed. Its channel is closed first.
ExecutionEnds(c) ==
  /\ ch[c].alive
  /\ ch' = [ch EXCEPT ![c].alive = FALSE, ![c].at = "lost",
                      ![c].row = IF db = Nobody THEN "lost" ELSE @]
  /\ UNCHANGED <<sv, lock, sock, db, shared, en, config, crashes>>

-----------------------------------------------------------------------------
(* transfers.rs *)

Stopping(e) == en[e].at = "replacing"

\* The connection may have been accepted before the service began to stop.
TransferBegins(t) ==
  /\ t \notin shared /\ (\E s \in Services : sv[s].at \in {"serving", "stopping", "told"})
  /\ \A e \in Ensures : ~Stopping(e)
  /\ shared' = shared \cup {t}
  /\ UNCHANGED <<sv, lock, sock, db, en, ch, config, crashes>>

TransferEnds(t) ==
  /\ t \in shared /\ shared' = shared \ {t}
  /\ UNCHANGED <<sv, lock, sock, db, en, ch, config, crashes>>

-----------------------------------------------------------------------------
(* profiles.rs *)

Configures(k) ==
  /\ config.at[k] = "none" /\ (\E s \in Services : Answers(s))
  /\ config' = [config EXCEPT !.at[k] = "loaded"]
  /\ UNCHANGED <<sv, lock, sock, db, shared, en, ch, crashes>>

\* Mutant: the live settings are published after the mutex is released.
ConfigSavesOpenly(k) ==
  /\ config.at[k] = "loaded"
  /\ \/ db = Nobody /\ Revision[k] > config.stored
        /\ config' = [config EXCEPT !.stored = Revision[k], !.at[k] = "saved"]
     \/ (db # Nobody \/ Revision[k] <= config.stored) /\ config' = [config EXCEPT !.at[k] = "done"]
  /\ UNCHANGED <<sv, lock, sock, db, shared, en, ch, crashes>>

\* Under the mutex of the profiles the row is replaced, by a newer revision only.
ConfigSaves(k) ==
  /\ config.at[k] = "loaded" /\ config.held = NoCall
  /\ \/ db = Nobody /\ Revision[k] > config.stored
        /\ config' = [config EXCEPT !.stored = Revision[k], !.held = k, !.at[k] = "saved"]
     \/ (db # Nobody \/ Revision[k] <= config.stored) /\ config' = [config EXCEPT !.at[k] = "done"]
  /\ UNCHANGED <<sv, lock, sock, db, shared, en, ch, crashes>>

ConfigPublishes(k) ==
  /\ config.at[k] = "saved"
  /\ config' = [config EXCEPT !.live = IF @ = 0 THEN 0 ELSE Revision[k],
                              !.held = NoCall, !.at[k] = "done"]
  /\ UNCHANGED <<sv, lock, sock, db, shared, en, ch, crashes>>

-----------------------------------------------------------------------------
(* ensure *)

Goes(e, at) == [en EXCEPT ![e].at = at]

\* A listening socket is greeted; nothing listens: a service is launched.
EnsureConnects(e) ==
  /\ en[e].at = "idle"
  /\ en' = IF Answers(sock) THEN [en EXCEPT ![e].at = "greeting", ![e].peer = sock]
           ELSE Goes(e, "launching")
  /\ UNCHANGED <<sv, lock, sock, db, shared, ch, config, crashes>>

\* Its Hello tells the build; a connection that ends is an error.
EnsureGreets(e) ==
  /\ en[e].at = "greeting"
  /\ en' = Goes(e, IF ~Alive(en[e].peer) THEN "failed"
                   ELSE IF sv[en[e].peer].build = Build[e] THEN "ready" ELSE "asking")
  /\ UNCHANGED <<sv, lock, sock, db, shared, ch, config, crashes>>

\* PrepareUpdate, on a connection of its own, waits 3 s for the execution table.
EnsureAsks(e) ==
  /\ en[e].at = "asking"
  /\ en' = IF Answers(sock) /\ TableFree(sock) THEN Goes(e, "checking") ELSE Goes(e, "failed")
  /\ UNCHANGED <<sv, lock, sock, db, shared, ch, config, crashes>>

\* replace_idle: with the write lock held, nothing may run; then the service that
\* was greeted is told to end. Both locks are held until it has gone.
EnsureStops(e) ==
  /\ en[e].at = "checking"
  /\ \/ db # Nobody /\ en' = Goes(e, "failed") /\ UNCHANGED <<sv, db>>
     \/ /\ db = Nobody /\ (Running # {} \/ shared # {})
        /\ en' = Goes(e, "waiting") /\ UNCHANGED <<sv, db>>
     \/ /\ db = Nobody /\ Running = {} /\ shared = {}
        /\ IF Alive(en[e].peer)
           THEN /\ en' = Goes(e, "replacing") /\ db' = 1
                /\ sv' = IF sv[en[e].peer].at = "serving" THEN At(en[e].peer, "stopping") ELSE sv
           ELSE en' = Goes(e, "failed") /\ UNCHANGED <<sv, db>>
  /\ UNCHANGED <<lock, sock, shared, ch, config, crashes>>

\* The lock of the old service is taken, the transaction ends, ...
EnsureOwns(e) ==
  /\ en[e].at = "replacing" /\ lock = Nobody
  /\ en' = Goes(e, "owning") /\ lock' = Updater /\ db' = Nobody
  /\ UNCHANGED <<sv, sock, shared, ch, config, crashes>>

\* ... and both locks are released.
EnsureReleases(e) ==
  /\ en[e].at = "owning"
  /\ en' = Goes(e, "launching") /\ lock' = Nobody
  /\ UNCHANGED <<sv, sock, db, shared, ch, config, crashes>>

\* 6 s have passed.
EnsureGivesUp(e) ==
  /\ en[e].at = "replacing" /\ lock # Nobody
  /\ en' = Goes(e, "failed") /\ db' = Nobody
  /\ UNCHANGED <<sv, lock, sock, shared, ch, config, crashes>>

EnsureLaunches(e) ==
  /\ en[e].at = "launching"
  /\ \E s \in Services :
       /\ sv[s].at = "none" /\ \A q \in 1..(s - 1) : sv[q].at # "none"
       /\ sv' = [sv EXCEPT ![s] = [at |-> "starting", build |-> Build[e]]]
       /\ en' = [en EXCEPT ![e].at = "polling", ![e].child = s]
  /\ UNCHANGED <<lock, sock, db, shared, ch, config, crashes>>

\* Mutant: a child that has ended is not noticed, nor that time has passed.
EnsurePollsOn(e) ==
  /\ en[e].at = "polling" /\ Answers(sock)
  /\ en' = Goes(e, IF sv[sock].build = Build[e] THEN "ready" ELSE "failed")
  /\ UNCHANGED <<sv, lock, sock, db, shared, ch, config, crashes>>

\* Readiness is a service of this very build; a child that ended, or 15 s, is a failure.
EnsurePolls(e) ==
  /\ en[e].at = "polling"
  /\ en' = Goes(e, IF Answers(sock) /\ sv[sock].build = Build[e] THEN "ready" ELSE "failed")
  /\ UNCHANGED <<sv, lock, sock, db, shared, ch, config, crashes>>

-----------------------------------------------------------------------------
Serves(s) == \/ ServeLocks(s) \/ ServeOpens(s) \/ ServeBinds(s) \/ ServeTells(s) \/ ServeCloses(s)
             \/ ServeExits(s)
Opens(c) == OpenChecks(c) \/ OpenStarts(c) \/ OpenRefuses(c) \/ OpenStores(c)
Saves(k) == ConfigSaves(k) \/ ConfigPublishes(k)
Begins == \/ \E c \in Channels : \E s \in Services : Calls(c, s)
          \/ \E t \in Transfers : TransferBegins(t)
          \/ \E k \in Configs : Configures(k)
          \/ \E e \in Ensures : EnsureConnects(e)
Ensuring(e) == \/ EnsureGreets(e) \/ EnsureAsks(e) \/ EnsureStops(e) \/ EnsureOwns(e)
               \/ EnsureReleases(e) \/ EnsureGivesUp(e) \/ EnsureLaunches(e) \/ EnsurePolls(e)

Next == \/ Begins
        \/ \E s \in Services : Serves(s) \/ ServeCrashes(s)
        \/ \E c \in Channels : Opens(c) \/ ExecutionEnds(c)
        \/ \E t \in Transfers : TransferEnds(t)
        \/ \E k \in Configs : Saves(k)
        \/ \E e \in Ensures : Ensuring(e)

\* Every task goes on; clients begin when they like, and nothing ends a transfer.
Fairness == /\ \A s \in Services : WF_vars(Serves(s))
            /\ \A c \in Channels : WF_vars(Opens(c))
            /\ \A k \in Configs : WF_vars(Saves(k))
            /\ \A e \in Ensures : WF_vars(Ensuring(e))

Spec == Init /\ [][Next]_vars /\ Fairness

-----------------------------------------------------------------------------
TypeOK ==
  /\ sv \in [Services -> [at : Holds \cup {"none", "starting", "gone"}, build : STRING]]
  /\ lock \in Services \cup {Nobody, Updater} /\ sock \in Services \cup {Nobody}
  /\ db \in {Nobody, 1} /\ shared \subseteq Transfers
  /\ en \in [Ensures -> [at : Ended \cup {"idle", "greeting", "asking", "checking", "replacing",
                                          "owning", "launching", "polling"},
                         peer : Services \cup {Nobody}, child : Services \cup {Nobody}]]
  /\ ch \in [Channels -> [at : {"none", "connected", "checked", "spawned", "open", "refused", "lost"},
                          by : Services \cup {Nobody}, row : {"none", "running", "lost"},
                          alive : BOOLEAN]]
  /\ config \in [stored : Nat, live : Nat, held : Configs \cup {NoCall},
                 at : [Configs -> {"none", "loaded", "saved", "done"}]]
  /\ crashes \in 0..MaxCrashes

(* From the moment the old service is told to end until it has gone, no execution
   is open and no transfer runs: calls that were on their way find the database
   and transfer.lock taken, so an update never cuts what it could not count. *)
QuietWhileReplaced ==
  (\E e \in Ensures : en[e].at = "replacing") =>
    shared = {} /\ \A c \in Channels : ~ch[c].alive /\ ch[c].row # "running"

(* A service that serves is the one its clients reach: whatever services were
   launched, stopped or killed before, none removes or replaces its socket. *)
ServingIsReached ==
  \A s \in Services : sv[s].at = "serving" => sock = s /\ lock = s

(* Nobody sees other settings than the stored ones, except while they are published:
   of two configurations at once the older one never wins in memory. *)
PublishedIsStored ==
  config.held = NoCall /\ config.live # 0 => config.live = config.stored

(* An update ends, and so does the service that was told to: the two wait for each
   other's locks (database, execution table, service.lock), each with a limit. *)
UpdateEnds ==
  /\ \A e \in Ensures : en[e].at = "greeting" ~> en[e].at \in Ended
  /\ \A s \in Services : sv[s].at = "stopping" ~> sv[s].at = "gone"
=============================================================================
