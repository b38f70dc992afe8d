-------------------------- MODULE ServerConnection --------------------------
(***************************************************************************)
(* How the windows and commands of a computer reach one server: the users  *)
(* of a process share one connection, others connect for a single call,    *)
(* and all of them bring the configuration of the server up to date.       *)
(*                                                                         *)
(*   access   the row of the server in the client store: its revision, the *)
(*            revision that was acknowledged, and the identity it was      *)
(*            acknowledged by (store/access.rs);                           *)
(*   stored   the configuration that each installation of the service has  *)
(*            stored for this client (server/storage.rs);                  *)
(*   service  the installation that is there now, and whether it runs;     *)
(*   slot     the mutex of the server and the weak reference behind it     *)
(*            (application/mod.rs connections);                            *)
(*   remote   the connections: the identity each was opened with, and      *)
(*            whether its SSH master lives (remote.rs, ssh.rs);            *)
(*   doing    what each user and caller is doing, and its connection.      *)
(*                                                                         *)
(* Every step of a connection may fail, time out or be dropped: GivesUp.   *)
(***************************************************************************)
EXTENDS Naturals, FiniteSets

CONSTANTS
  Users,         \* sessions, terminals and files of one process: they share a connection
  Callers,       \* config, server list and server add: a connection of their own
  MaxRevision,   \* bound: changes of the configuration
  MaxBroken      \* bound: masters and services that die, installations that are replaced

ASSUME ConnectionAssumption ==
  /\ IsFiniteSet(Users \cup Callers) /\ Users \cap Callers = {}
  /\ MaxRevision \in Nat /\ MaxBroken \in Nat /\ "nobody" \notin Users

VARIABLES access, stored, service, slot, remote, doing, broken

connectionVars == <<access, stored, service, slot, remote, doing, broken>>

Peers == Users \cup Callers
Links == 1..Cardinality(Peers)
Installed == 1..(MaxBroken + 1)        \* identities; 0 stands for none
Nobody == "nobody"
Resting == [at |-> "idle", link |-> 0, known |-> 0, rev |-> 0, sync |-> FALSE]
Dead == [identity |-> 0, alive |-> FALSE]

ConnectionInit ==
  /\ access = [revision |-> 0, applied |-> 0, identity |-> 0]
  /\ stored = [i \in Installed |-> 0]
  /\ service = [identity |-> 1, up |-> FALSE]
  /\ slot = [holder |-> Nobody, link |-> 0]
  /\ remote = [l \in Links |-> Dead]
  /\ doing = [c \in Peers |-> Resting] /\ broken = 0

Stands(c, step) == doing[c].at = step
Advance(c, step) == doing' = [doing EXCEPT ![c].at = step]
Mine(c) == remote[doing[c].link]
Holders(l) == {c \in Peers : doing[c].link = l}

\* A relay process on the master, and a service that answers it.
Reaches(c) == Mine(c).alive /\ service.up
\* Every call of a connection names the installation that it was opened with.
Expected(c) == Reaches(c) /\ Mine(c).identity = service.identity

-----------------------------------------------------------------------------
(* application/mod.rs connect *)

Connect(u) == /\ Stands(u, "idle") /\ Advance(u, "slot")
              /\ UNCHANGED <<access, stored, service, slot, remote, broken>>

\* A connection that somebody holds is used again; else one is opened under the mutex of the server.
Chooses(u) ==
  /\ doing' = [doing EXCEPT ![u] = [Resting EXCEPT !.at = IF slot.link # 0 THEN "reconnect" ELSE "dial",
                                              !.link = slot.link, !.sync = TRUE]]
  /\ UNCHANGED <<access, stored, service, remote, broken>>
\* Mutant: the mutex is not held while the connection is opened.
TakeSlotBriefly(u) == Stands(u, "slot") /\ Chooses(u) /\ UNCHANGED slot
TakeSlot(u) ==
  /\ Stands(u, "slot") /\ slot.holder = Nobody
  /\ slot' = [slot EXCEPT !.holder = u]
  /\ Chooses(u)

-----------------------------------------------------------------------------
(* remote.rs recover_with, ssh.rs reconnect *)

\* A session, a transfer or the files of a window found their connection broken.
AskAgain(u) ==
  /\ Stands(u, "ready") /\ doing' = [doing EXCEPT ![u].at = "reconnect", ![u].sync = FALSE]
  /\ UNCHANGED <<access, stored, service, slot, remote, broken>>

Recovering(c) == doing[c].at \in {"redial", "hello", "restart", "again"}

LockReconnect(u) ==
  /\ Stands(u, "reconnect") /\ \A v \in Holders(doing[u].link) : ~Recovering(v)
  /\ Advance(u, "redial") /\ UNCHANGED <<access, stored, service, slot, remote, broken>>

\* A master that lives is kept; a dead one is stopped, its socket removed, and another started.
Redial(u) ==
  /\ Stands(u, "redial")
  /\ remote' = [remote EXCEPT ![doing[u].link].alive = TRUE]
  /\ Advance(u, "hello") /\ UNCHANGED <<access, stored, service, slot, broken>>

\* A service that answers is never replaced; one that does not is started, once.
Hello(u) ==
  /\ \/ /\ doing[u].at \in {"hello", "again"} /\ Expected(u)
        /\ Advance(u, IF doing[u].sync THEN "resolve" ELSE "ready")
     \/ Stands(u, "hello") /\ ~Reaches(u) /\ Advance(u, "restart")
  /\ UNCHANGED <<access, stored, service, slot, remote, broken>>

\* The service is started by the saved program, or it runs already (servers/start.rs).
Starts(c, from, to) ==
  /\ Stands(c, from) /\ Mine(c).alive
  /\ service' = [service EXCEPT !.up = TRUE]
  /\ Advance(c, to) /\ UNCHANGED <<access, stored, slot, remote, broken>>
Restart(u) == Starts(u, "restart", "again")

-----------------------------------------------------------------------------
(* A new connection: servers.rs ensure, remote.rs connect_running *)

\* A caller reads the row before it connects; it does not start the service.
Call(c) ==
  /\ Stands(c, "idle")
  /\ doing' = [doing EXCEPT ![c] = [Resting EXCEPT !.at = "dial", !.known = access.identity]]
  /\ UNCHANGED <<access, stored, service, slot, remote, broken>>

\* A master is started: it authenticates, or the connection fails.
Dial(c) ==
  /\ Stands(c, "dial")
  /\ \E l \in Links : /\ Holders(l) = {} /\ \A k \in 1..(l - 1) : Holders(k) # {}
                      /\ remote' = [remote EXCEPT ![l] = [identity |-> 0, alive |-> TRUE]]
                      /\ doing' = [doing EXCEPT ![c].at = IF c \in Users THEN "prepare" ELSE "attach",
                                              ![c].link = l]
  /\ UNCHANGED <<access, stored, service, slot, broken>>

\* The service is installed where it is missing, and the row is read again.
PrepareServer(u) ==
  /\ Stands(u, "prepare") /\ Mine(u).alive
  /\ doing' = [doing EXCEPT ![u].at = "start", ![u].known = access.identity]
  /\ UNCHANGED <<access, stored, service, slot, remote, broken>>

Start(u) == Starts(u, "start", "attach")

\* The installation that answers must be the one in the row, if there is one.
Attach(c) ==
  /\ Stands(c, "attach") /\ Reaches(c) /\ doing[c].known \in {0, service.identity}
  /\ remote' = [remote EXCEPT ![doing[c].link].identity = service.identity]
  /\ Advance(c, "resolve") /\ UNCHANGED <<access, stored, service, slot, broken>>

-----------------------------------------------------------------------------
(* remote.rs synchronize, server/storage.rs save_config, store/access.rs *)

Resolve(c) ==
  /\ Stands(c, "resolve")
  /\ doing' = [doing EXCEPT ![c].at = "configure", ![c].rev = access.revision]
  /\ UNCHANGED <<access, stored, service, slot, remote, broken>>

\* The service refuses a revision older than the one it has.
Configure(c) ==
  /\ Stands(c, "configure") /\ Expected(c) /\ stored[service.identity] <= doing[c].rev
  /\ stored' = [stored EXCEPT ![service.identity] = doing[c].rev]
  /\ Advance(c, "acknowledge") /\ UNCHANGED <<access, service, slot, remote, broken>>

\* A user keeps the connection and the slot refers to it; a caller closes its own.
Connected(c) ==
  /\ Stands(c, "acknowledge")
  /\ IF c \in Users
       THEN /\ slot' = [slot EXCEPT !.link = doing[c].link, !.holder = IF @ = c THEN Nobody ELSE @]
            /\ Advance(c, "ready") /\ UNCHANGED remote
       ELSE /\ remote' = [remote EXCEPT ![doing[c].link] = Dead]
            /\ doing' = [doing EXCEPT ![c] = Resting] /\ UNCHANGED slot
  /\ UNCHANGED <<stored, service, broken>>
Records(rev, c) ==
  access' = IF access.applied <= rev THEN [access EXCEPT !.applied = rev, !.identity = Mine(c).identity]
                                     ELSE access
\* Mutants: the identity in the row is not compared; the newest revision is recorded.
AcknowledgeAny(c) == Connected(c) /\ Records(doing[c].rev, c)
AcknowledgeLatest(c) ==
  Connected(c) /\ access.identity \in {0, Mine(c).identity} /\ Records(access.revision, c)
Acknowledge(c) ==
  Connected(c) /\ access.identity \in {0, Mine(c).identity} /\ Records(doing[c].rev, c)

-----------------------------------------------------------------------------
(* Ends, changes and faults *)

\* An error, a time limit, or a window that closes drops what the client was doing: the mutexes and
\* a connection nobody else holds go with it. A recovery that fails leaves its owner the connection.
Drops(c) ==
  /\ doing' = [doing EXCEPT ![c] = Resting]
  /\ slot' = [holder |-> IF slot.holder = c THEN Nobody ELSE slot.holder,
              link |-> IF Holders(slot.link) = {c} THEN 0 ELSE slot.link]
  /\ remote' = IF doing[c].link # 0 /\ Holders(doing[c].link) = {c}
                 THEN [remote EXCEPT ![doing[c].link] = Dead] ELSE remote
  /\ UNCHANGED <<access, stored, service, broken>>
Keeps(u) == u \in Users /\ (Stands(u, "reconnect") \/ Recovering(u)) /\ ~doing[u].sync

GivesUp(c) ==
  \/ ~Stands(c, "idle") /\ ~Keeps(c) /\ Drops(c)
  \/ Keeps(c) /\ Advance(c, "ready") /\ UNCHANGED <<access, stored, service, slot, remote, broken>>

\* A change commits a new revision and is then sent by a connection of its own.
SetConfig(c) ==
  /\ Stands(c, "idle") /\ access.revision < MaxRevision
  /\ access' = [access EXCEPT !.revision = @ + 1]
  /\ doing' = [doing EXCEPT ![c] = [Resting EXCEPT !.at = "dial", !.known = access.identity]]
  /\ UNCHANGED <<stored, service, slot, remote, broken>>

Breaks == broken < MaxBroken /\ broken' = broken + 1
MasterDies ==
  /\ Breaks /\ \E l \in Links : remote[l].alive /\ remote' = [remote EXCEPT ![l].alive = FALSE]
  /\ UNCHANGED <<access, stored, service, slot, doing>>
ServiceStops ==
  /\ Breaks /\ service.up /\ service' = [service EXCEPT !.up = FALSE]
  /\ UNCHANGED <<access, stored, slot, remote, doing>>
\* The account or its state directory is another one: the service that starts next has a new identity.
ServerIsReplaced ==
  /\ Breaks /\ service' = [identity |-> service.identity + 1, up |-> FALSE]
  /\ UNCHANGED <<access, stored, slot, remote, doing>>

ConnectionNext ==
  \/ \E u \in Users : \/ Connect(u) \/ TakeSlot(u) \/ AskAgain(u) \/ LockReconnect(u) \/ Redial(u)
                      \/ Hello(u) \/ Restart(u) \/ PrepareServer(u) \/ Start(u)
  \/ \E c \in Callers : Call(c) \/ SetConfig(c)
  \/ \E c \in Peers : \/ Dial(c) \/ Attach(c) \/ Resolve(c) \/ Configure(c) \/ Acknowledge(c)
                        \/ GivesUp(c)
  \/ MasterDies \/ ServiceStops \/ ServerIsReplaced

ConnectionSpec == ConnectionInit /\ [][ConnectionNext]_connectionVars

-----------------------------------------------------------------------------
(* Properties *)

ConnectionTypeOK ==
  /\ access \in [revision : 0..MaxRevision, applied : 0..MaxRevision, identity : Installed \cup {0}]
  /\ stored \in [Installed -> 0..MaxRevision]
  /\ service \in [identity : Installed, up : BOOLEAN]
  /\ slot \in [holder : Users \cup {Nobody}, link : Links \cup {0}]
  /\ remote \in [Links -> [identity : Installed \cup {0}, alive : BOOLEAN]]
  /\ \A c \in Peers : doing[c].link \in Links \cup {0} /\ doing[c].rev \in 0..MaxRevision
  /\ broken \in 0..MaxBroken

\* The revision that config list calls applied (store/configuration.rs config_report) is stored by the
\* installation that the row names, whatever was replaced, lost or overtaken between the call and its
\* acknowledgement.
AppliedIsHeld == access.identity # 0 => access.applied <= stored[access.identity]

\* remote.rs attach: a connection that is used belongs to the installation the row names ("verify the
\* server before using saved sessions"), also when two first connections met different installations.
Uses(u) == Stands(u, "ready") \/ Keeps(u)
ConnectionIsKnown == \A u \in Users : Uses(u) => Mine(u).identity = access.identity

\* application/mod.rs connect: what a process does on one server runs over one connection.
SharesOne == \A u, v \in Users : Uses(u) /\ Uses(v) => doing[u].link = doing[v].link

\* A configuration is where its row says, and everybody uses the one connection to that installation.
ConnectionsAgree == AppliedIsHeld /\ ConnectionIsKnown /\ SharesOne
=============================================================================
