------------------------ MODULE ServiceUpdateProofs ------------------------
(***************************************************************************)
(* Theorems about ServiceUpdate, for every number of clients, services,    *)
(* channels, transfers and configurations, and every build and revision.   *)
(***************************************************************************)
EXTENDS ServiceUpdate, TLAPS

Serving == {"serving", "stopping", "told"}

\* service.lock is held by the service that has it, or by an updater; the socket is of the one that serves.
LocksAgree ==
  /\ \A s \in Services : (sv[s].at \in Holds) <=> (lock = s)
  /\ \A s \in Services : sv[s].at = "serving" => sock = s
  /\ \A e \in Ensures : en[e].at = "owning" => /\ lock = Updater
                                                /\ \A f \in Ensures : en[f].at = "owning" => f = e

\* One updater at a time has the database, and what it counted stays as it was.
Counted ==
  \A e \in Ensures : en[e].at = "replacing" =>
    /\ db # Nobody /\ shared = {}
    /\ \A c \in Channels : ch[c].row # "running"
    /\ \A f \in Ensures : en[f].at = "replacing" => f = e

\* A call that has the table of its service, and an execution in it, are of a service that is there.
TableAgrees ==
  \A c \in Channels :
    /\ ch[c].at = "connected" => ch[c].by \in Services
    /\ ch[c].at \in {"checked", "spawned"} => ch[c].by \in Services /\ sv[ch[c].by].at \in Serving
    /\ ch[c].alive => /\ ch[c].at = "open" /\ ch[c].row = "running"
                      /\ ch[c].by \in Services /\ sv[ch[c].by].at \in Serving \cup {"closing"}

\* Whoever has saved a configuration has the mutex until it is published.
SavedIsHeld ==
  \A k \in Configs : config.at[k] = "saved" => config.held = k /\ config.stored = Revision[k]

ServiceInv == TypeOK /\ LocksAgree /\ Counted /\ TableAgrees /\ SavedIsHeld /\ PublishedIsStored

LEMMA ServiceInitially == Init => ServiceInv
BY ServiceAssumption DEF Init, ServiceInv, TypeOK, LocksAgree, Counted, TableAgrees, SavedIsHeld, PublishedIsStored,
   ServiceAssumption, Services, Nobody, NoCall, Updater, Holds, Ended

LEMMA ServiceImplies == ServiceInv => QuietWhileReplaced /\ ServingIsReached
BY DEF ServiceInv, TypeOK, LocksAgree, Counted, TableAgrees, QuietWhileReplaced, ServingIsReached, Holds

LEMMA ServiceNumbers == /\ Nobody \notin Services /\ Updater \notin Services /\ Updater # Nobody
                        /\ 1 \in Services
BY ServiceAssumption DEF ServiceAssumption, Services, Nobody, Updater

-----------------------------------------------------------------------------
(* Types, a set for each variable. *)

ServicePlaces == Holds \cup {"none", "starting", "gone"}
EnsurePlaces == Ended \cup {"idle", "greeting", "asking", "checking", "replacing", "owning", "launching", "polling"}
ChannelPlaces == {"none", "connected", "checked", "spawned", "open", "refused", "lost"}
SvType == [Services -> [at : ServicePlaces, build : STRING]]
EnType == [Ensures -> [at : EnsurePlaces, peer : Services \cup {Nobody}, child : Services \cup {Nobody}]]
ChRecord == [at : ChannelPlaces, by : Services \cup {Nobody}, row : {"none", "running", "lost"}, alive : BOOLEAN]
ChType == [Channels -> ChRecord]
ConfigType == [stored : Nat, live : Nat, held : Configs \cup {NoCall},
               at : [Configs -> {"none", "loaded", "saved", "done"}]]
LockType == Services \cup {Nobody, Updater}
SockType == Services \cup {Nobody}

LEMMA TypeMeans ==
  ASSUME TypeOK
  PROVE  /\ sv \in SvType /\ en \in EnType /\ ch \in ChType /\ config \in ConfigType
         /\ lock \in LockType /\ sock \in SockType /\ db \in {Nobody, 1} /\ shared \subseteq Transfers
         /\ crashes \in 0..MaxCrashes
BY DEF TypeOK, SvType, EnType, ChType, ChRecord, ConfigType, LockType, SockType, ServicePlaces, EnsurePlaces, ChannelPlaces

LEMMA TypeFollows ==
  ASSUME sv' \in SvType, en' \in EnType, ch' \in ChType, config' \in ConfigType,
         lock' \in LockType, sock' \in SockType, db' \in {Nobody, 1}, shared' \subseteq Transfers,
         crashes' \in 0..MaxCrashes
  PROVE  TypeOK'
BY DEF TypeOK, SvType, EnType, ChType, ChRecord, ConfigType, LockType, SockType, ServicePlaces, EnsurePlaces, ChannelPlaces

LEMMA ServiceAt ==
  ASSUME sv \in SvType, NEW s \in Services, NEW at \in ServicePlaces
  PROVE  /\ At(s, at) \in SvType
         /\ \A q \in Services : At(s, at)[q].at = IF q = s THEN at ELSE sv[q].at
BY DEF At, SvType

LEMMA EnsureGoes ==
  ASSUME en \in EnType, NEW e \in Ensures, NEW at \in EnsurePlaces
  PROVE  /\ Goes(e, at) \in EnType
         /\ \A f \in Ensures : Goes(e, at)[f].at = IF f = e THEN at ELSE en[f].at
BY DEF Goes, EnType

LEMMA ChannelAt ==
  ASSUME ch \in ChType, NEW c \in Channels, NEW at \in ChannelPlaces
  PROVE  [ch EXCEPT ![c].at = at] \in ChType
BY DEF ChType, ChRecord

\* What the end of a service leaves of the channels.
LEMMA DeadMeans ==
  ASSUME TypeOK, LocksAgree, NEW s \in Services, sv[s].at \in Holds, Dead(s)
  PROVE  /\ sv' = At(s, "gone") /\ lock = s /\ lock' = Nobody /\ shared' = {}
         /\ ch' \in ChType
         /\ \A c \in Channels : /\ ch'[c].row = ch[c].row /\ ch'[c].by = ch[c].by
                                /\ IF ch[c].by = s THEN ch'[c].at \in {"lost", "refused"} /\ ~ch'[c].alive
                                                   ELSE ch'[c] = ch[c]
         /\ config' \in ConfigType /\ config'.live = 0 /\ config'.held = NoCall /\ config'.stored = config.stored
         /\ \A k \in Configs : config'.at[k] \in {"none", "done"}
<1>1. Alive(s) /\ lock = s
  BY ServiceNumbers DEF Alive, LocksAgree
<1>2. ch \in ChType /\ config \in ConfigType
  BY TypeMeans
<1>3. ch' = [c \in Channels |-> IF ch[c].by = s
               THEN [ch[c] EXCEPT !.at = IF @ = "open" THEN "lost" ELSE "refused", !.alive = FALSE] ELSE ch[c]]
  BY DEF Dead
<1>4. ASSUME NEW c \in Channels
      PROVE  /\ ch'[c] \in ChRecord /\ ch'[c].row = ch[c].row /\ ch'[c].by = ch[c].by
             /\ IF ch[c].by = s THEN ch'[c].at \in {"lost", "refused"} /\ ~ch'[c].alive ELSE ch'[c] = ch[c]
  <2>1. ch[c] \in ChRecord
    BY <1>2 DEF ChType
  <2>2. CASE ch[c].by = s
    BY <1>3, <2>1, <2>2 DEF ChRecord, ChannelPlaces
  <2>3. CASE ch[c].by # s
    BY <1>3, <2>1, <2>3
  <2> QED  BY <2>2, <2>3
<1>5. ch' \in ChType
  BY <1>3, <1>4 DEF ChType
<1>6. config' = [config EXCEPT !.live = 0, !.held = NoCall,
                  !.at = [k \in Configs |-> IF @[k] = "none" THEN "none" ELSE "done"]]
  BY <1>1 DEF Dead
<1>7. config' \in ConfigType /\ config'.live = 0 /\ config'.held = NoCall /\ config'.stored = config.stored
      /\ \A k \in Configs : config'.at[k] \in {"none", "done"}
  BY <1>2, <1>6 DEF ConfigType
<1> QED  BY <1>1, <1>4, <1>5, <1>7 DEF Dead

LEMMA TypeOKKept == ServiceInv /\ Next => TypeOK'
<1> SUFFICES ASSUME ServiceInv, Next PROVE TypeOK'
  OBVIOUS
<1>0. /\ TypeOK /\ LocksAgree
      /\ sv \in SvType /\ en \in EnType /\ ch \in ChType /\ config \in ConfigType
      /\ lock \in LockType /\ sock \in SockType /\ db \in {Nobody, 1} /\ shared \subseteq Transfers
      /\ crashes \in 0..MaxCrashes
  BY TypeMeans DEF ServiceInv
<1>1. ASSUME NEW s \in Services, ServeLocks(s) PROVE TypeOK'
  BY <1>0, <1>1, ServiceAt, TypeFollows DEF ServeLocks, Moves, ServicePlaces, Holds, LockType, SockType
<1>2. ASSUME NEW s \in Services, ServeOpens(s) PROVE TypeOK'
  <2>1. CASE db = Nobody /\ Moves(s, "locked", "opened")
             /\ ch' = [c \in Channels |-> [ch[c] EXCEPT !.row = IF @ = "running" THEN "lost" ELSE @]] /\ UNCHANGED lock
    <3>1. ch' \in ChType
      BY <1>0, <2>1 DEF ChType, ChRecord
    <3>2. sv' \in SvType
      BY <1>0, <2>1, ServiceAt DEF Moves, ServicePlaces, Holds
    <3> QED  BY <1>0, <1>2, <2>1, <3>1, <3>2, TypeFollows DEF ServeOpens
  <2>2. CASE Moves(s, "locked", "gone") /\ lock' = Nobody /\ UNCHANGED ch
    BY <1>0, <1>2, <2>2, ServiceAt, TypeFollows DEF ServeOpens, Moves, ServicePlaces, LockType
  <2> QED  BY <1>2, <2>1, <2>2 DEF ServeOpens
<1>3. ASSUME NEW s \in Services, ServeBinds(s) PROVE TypeOK'
  BY <1>0, <1>3, ServiceAt, TypeFollows DEF ServeBinds, Moves, ServicePlaces, Holds, SockType
<1>4. ASSUME NEW s \in Services, ServeTells(s) PROVE TypeOK'
  BY <1>0, <1>4, ServiceAt, TypeFollows DEF ServeTells, Moves, ServicePlaces, Holds
<1>5. ASSUME NEW s \in Services, ServeCloses(s) PROVE TypeOK'
  BY <1>0, <1>5, ServiceAt, TypeFollows DEF ServeCloses, Moves, ServicePlaces, Holds, SockType
<1>6. ASSUME NEW s \in Services, ServeExits(s) PROVE TypeOK'
  BY <1>0, <1>6, DeadMeans, ServiceAt, TypeFollows DEF ServeExits, Holds, ServicePlaces, LockType
<1>7. ASSUME NEW s \in Services, ServeCrashes(s) PROVE TypeOK'
  <2>1. crashes' \in 0..MaxCrashes
    BY <1>0, <1>7, ServiceAssumption DEF ServeCrashes, ServiceAssumption
  <2> QED  BY <1>0, <1>7, <2>1, DeadMeans, ServiceAt, TypeFollows DEF ServeCrashes, Alive, ServicePlaces, LockType
<1>8. ASSUME NEW c \in Channels, OpenChecks(c) PROVE TypeOK'
  BY <1>0, <1>8, ChannelAt, TypeFollows DEF OpenChecks, ChannelPlaces
<1>9. ASSUME NEW c \in Channels, OpenStarts(c) PROVE TypeOK'
  <2>1. ch' \in ChType
    BY <1>0, <1>9, ChannelAt DEF OpenStarts, ChannelPlaces
  <2>2. config' \in ConfigType
    BY <1>0, <1>9 DEF OpenStarts, ConfigType
  <2> QED  BY <1>0, <1>9, <2>1, <2>2, TypeFollows DEF OpenStarts
<1>10. ASSUME NEW c \in Channels, OpenRefuses(c) PROVE TypeOK'
  BY <1>0, <1>10, ChannelAt, TypeFollows DEF OpenRefuses, ChannelPlaces
<1>11. ASSUME NEW c \in Channels, OpenStores(c) PROVE TypeOK'
  <2>1. ch' \in ChType
    BY ZenonT(60), <1>0, <1>11 DEF OpenStores, ChType, ChRecord, ChannelPlaces
  <2> QED  BY <1>0, <1>11, <2>1, TypeFollows DEF OpenStores
<1>12. ASSUME NEW c \in Channels, ExecutionEnds(c) PROVE TypeOK'
  <2>0. ASSUME NEW row \in {"none", "running", "lost"}
        PROVE [ch EXCEPT ![c].alive = FALSE, ![c].at = "lost", ![c].row = row] \in ChType
    BY ZenonT(60), <1>0 DEF ChType, ChRecord, ChannelPlaces
  <2>1. ch' \in ChType
    <3>1. ch[c].row \in {"none", "running", "lost"}
      BY <1>0 DEF ChType, ChRecord
    <3>2. ch' = [ch EXCEPT ![c].alive = FALSE, ![c].at = "lost",
                           ![c].row = IF db = Nobody THEN "lost" ELSE ch[c].row]
      BY <1>0, <1>12 DEF ExecutionEnds, ChType, ChRecord
    <3> QED  BY <2>0, <3>1, <3>2
  <2> QED  BY <1>0, <1>12, <2>1, TypeFollows DEF ExecutionEnds
<1>13. ASSUME NEW t \in Transfers, TransferBegins(t) PROVE TypeOK'
  BY <1>0, <1>13, TypeFollows DEF TransferBegins
<1>14. ASSUME NEW t \in Transfers, TransferEnds(t) PROVE TypeOK'
  BY <1>0, <1>14, TypeFollows DEF TransferEnds
<1>15. ASSUME NEW k \in Configs, Configures(k) PROVE TypeOK'
  <2>1. config' \in ConfigType
    BY <1>0, <1>15 DEF Configures, ConfigType
  <2> QED  BY <1>0, <1>15, <2>1, TypeFollows DEF Configures
<1>16. ASSUME NEW k \in Configs, ConfigSaves(k) PROVE TypeOK'
  <2>0. Revision[k] \in Nat
    BY ServiceAssumption DEF ServiceAssumption
  <2>1. config' \in ConfigType
    <3>1. CASE config' = [config EXCEPT !.stored = Revision[k], !.held = k, !.at[k] = "saved"]
      BY <1>0, <2>0, <3>1 DEF ConfigType
    <3>2. CASE config' = [config EXCEPT !.at[k] = "done"]
      BY <1>0, <3>2 DEF ConfigType
    <3> QED  BY <1>16, <3>1, <3>2 DEF ConfigSaves
  <2> QED  BY <1>0, <1>16, <2>1, TypeFollows DEF ConfigSaves
<1>17. ASSUME NEW k \in Configs, ConfigPublishes(k) PROVE TypeOK'
  <2>0. Revision[k] \in Nat
    BY ServiceAssumption DEF ServiceAssumption
  <2>1. config' \in ConfigType
    BY <1>0, <1>17, <2>0 DEF ConfigPublishes, ConfigType
  <2> QED  BY <1>0, <1>17, <2>1, TypeFollows DEF ConfigPublishes
<1>18. ASSUME NEW e \in Ensures, EnsureConnects(e) PROVE TypeOK'
  <2>1. en' \in EnType
    <3>1. CASE en' = [en EXCEPT ![e].at = "greeting", ![e].peer = sock]
      BY <1>0, <3>1 DEF EnType, EnsurePlaces, SockType
    <3>2. CASE en' = Goes(e, "launching")
      BY <1>0, <3>2, EnsureGoes DEF EnsurePlaces
    <3> QED  BY <1>18, <3>1, <3>2 DEF EnsureConnects
  <2> QED  BY <1>0, <1>18, <2>1, TypeFollows DEF EnsureConnects
<1>19. ASSUME NEW e \in Ensures, EnsureGreets(e) PROVE TypeOK'
  BY <1>0, <1>19, EnsureGoes, TypeFollows DEF EnsureGreets, EnsurePlaces, Ended
<1>20. ASSUME NEW e \in Ensures, EnsureAsks(e) PROVE TypeOK'
  BY <1>0, <1>20, EnsureGoes, TypeFollows DEF EnsureAsks, EnsurePlaces, Ended
<1>21. ASSUME NEW e \in Ensures, EnsureStops(e) PROVE TypeOK'
  <2>1. en' \in EnType
    BY <1>0, <1>21, EnsureGoes DEF EnsureStops, EnsurePlaces, Ended
  <2>2. sv' \in SvType /\ db' \in {Nobody, 1}
    <3>1. Alive(en[e].peer) => en[e].peer \in Services
      BY <1>0 DEF EnType, Alive
    <3> QED  BY <1>0, <1>21, <3>1, ServiceAt DEF EnsureStops, ServicePlaces, Holds
  <2> QED  BY <1>0, <1>21, <2>1, <2>2, TypeFollows DEF EnsureStops
<1>22. ASSUME NEW e \in Ensures, EnsureOwns(e) PROVE TypeOK'
  BY <1>0, <1>22, EnsureGoes, TypeFollows DEF EnsureOwns, EnsurePlaces, Ended, LockType
<1>23. ASSUME NEW e \in Ensures, EnsureReleases(e) PROVE TypeOK'
  BY <1>0, <1>23, EnsureGoes, TypeFollows DEF EnsureReleases, EnsurePlaces, Ended, LockType
<1>24. ASSUME NEW e \in Ensures, EnsureGivesUp(e) PROVE TypeOK'
  BY <1>0, <1>24, EnsureGoes, TypeFollows DEF EnsureGivesUp, EnsurePlaces, Ended
<1>25. ASSUME NEW e \in Ensures, EnsureLaunches(e) PROVE TypeOK'
  <2>1. PICK s \in Services : /\ sv' = [sv EXCEPT ![s] = [at |-> "starting", build |-> Build[e]]]
                              /\ en' = [en EXCEPT ![e].at = "polling", ![e].child = s]
    BY <1>25 DEF EnsureLaunches
  <2>2. sv' \in SvType
    BY <1>0, <2>1, ServiceAssumption DEF SvType, ServiceAssumption, ServicePlaces
  <2>3. en' \in EnType
    BY ZenonT(60), <1>0, <2>1 DEF EnType, EnsurePlaces
  <2> QED  BY <1>0, <1>25, <2>2, <2>3, TypeFollows DEF EnsureLaunches
<1>26. ASSUME NEW e \in Ensures, EnsurePolls(e) PROVE TypeOK'
  BY <1>0, <1>26, EnsureGoes, TypeFollows DEF EnsurePolls, EnsurePlaces, Ended
<1>27. ASSUME NEW c \in Channels, NEW s \in Services, Calls(c, s) PROVE TypeOK'
  <2>1. ch' \in ChType
    <3>1. ch' = [ch EXCEPT ![c].at = "connected", ![c].by = s] /\ "connected" \in ChannelPlaces
      BY <1>27 DEF Calls, ChannelPlaces
    <3> QED  BY <1>0, <3>1 DEF ChType, ChRecord
  <2> QED  BY <1>0, <1>27, <2>1, TypeFollows DEF Calls
<1> QED
  BY <1>1, <1>2, <1>3, <1>4, <1>5, <1>6, <1>7, <1>8, <1>9, <1>10, <1>11, <1>12, <1>13, <1>14, <1>15, <1>16, <1>17, <1>18, <1>19, <1>20, <1>21, <1>22, <1>23, <1>24, <1>25, <1>26, <1>27 DEF Next, Begins, Serves, Opens, Saves, Ensuring

LEMMA LocksAgreeKept == ServiceInv /\ Next => LocksAgree'
<1> SUFFICES ASSUME ServiceInv, Next PROVE LocksAgree'
  OBVIOUS
<1>0. TypeOK /\ LocksAgree /\ Counted /\ TableAgrees /\ SavedIsHeld /\ PublishedIsStored
  BY DEF ServiceInv
<1>1. ASSUME NEW s \in Services, ServeLocks(s) PROVE LocksAgree'
  <2>0. sv \in SvType /\ s # Nobody /\ s # Updater
    BY <1>0, TypeMeans, ServiceNumbers
  <2>1. CASE lock = Nobody /\ Moves(s, "starting", "locked") /\ lock' = s /\ sock' = Nobody
    <3>1. \A q \in Services : sv'[q].at = IF q = s THEN "locked" ELSE sv[q].at
      BY <2>0, <2>1, ServiceAt DEF Moves, ServicePlaces, Holds
    <3>2. \A q \in Services : sv[q].at \notin Holds
      BY <1>0, <2>1, ServiceNumbers DEF LocksAgree
    <3>3. \A f \in Ensures : en'[f].at # "owning"
      BY <1>0, <1>1, <2>1, ServiceNumbers DEF ServeLocks, LocksAgree
    <3> QED  BY <2>1, <3>1, <3>2, <3>3 DEF LocksAgree, Holds
  <2>2. CASE lock # Nobody /\ Moves(s, "starting", "gone") /\ UNCHANGED <<lock, sock>>
    <3>1. \A q \in Services : sv'[q].at = IF q = s THEN "gone" ELSE sv[q].at
      BY <2>0, <2>2, ServiceAt DEF Moves, ServicePlaces
    <3>2. sv[s].at = "starting" /\ en' = en
      BY <1>1, <2>2 DEF ServeLocks, Moves
    <3> QED  BY <1>0, <2>2, <3>1, <3>2 DEF LocksAgree, Holds
  <2> QED  BY <1>1, <2>1, <2>2 DEF ServeLocks
<1>2. ASSUME NEW s \in Services, ServeOpens(s) PROVE LocksAgree'
  <2>0. sv \in SvType /\ s # Nobody /\ s # Updater /\ en' = en /\ sock' = sock
    BY <1>0, <1>2, TypeMeans, ServiceNumbers DEF ServeOpens
  <2>1. CASE Moves(s, "locked", "opened") /\ UNCHANGED lock
    <3>1. \A q \in Services : sv'[q].at = IF q = s THEN "opened" ELSE sv[q].at
      BY <2>0, <2>1, ServiceAt DEF Moves, ServicePlaces, Holds
    <3> QED  BY <1>0, <2>0, <2>1, <3>1 DEF LocksAgree, Holds, Moves
  <2>2. CASE Moves(s, "locked", "gone") /\ lock' = Nobody
    <3>1. \A q \in Services : sv'[q].at = IF q = s THEN "gone" ELSE sv[q].at
      BY <2>0, <2>2, ServiceAt DEF Moves, ServicePlaces
    <3>2. lock = s
      BY <1>0, <2>2 DEF LocksAgree, Holds, Moves
    <3> QED  BY <1>0, <2>0, <2>2, <3>1, <3>2, ServiceNumbers DEF LocksAgree, Holds
  <2> QED  BY <1>2, <2>1, <2>2 DEF ServeOpens
<1>3. ASSUME NEW s \in Services, ServeBinds(s) PROVE LocksAgree'
  BY <1>0, <1>3, ServiceAssumption DEF ServeBinds, Moves, At, TypeOK, LocksAgree, Nobody, Updater, Holds, Services, ServiceAssumption
<1>4. ASSUME NEW s \in Services, ServeTells(s) PROVE LocksAgree'
  BY <1>0, <1>4, ServiceAssumption DEF ServeTells, Moves, At, TypeOK, LocksAgree, Nobody, Updater, Holds, Services, ServiceAssumption
<1>5. ASSUME NEW s \in Services, ServeCloses(s) PROVE LocksAgree'
  BY <1>0, <1>5, ServiceAssumption DEF ServeCloses, Moves, At, TypeOK, LocksAgree, Nobody, Updater, Holds, Services, ServiceAssumption
<1>6. ASSUME NEW s \in Services, ServeExits(s) PROVE LocksAgree'
  BY <1>0, DeadMeans, ServiceNumbers, TypeMeans, ServiceAt, <1>6 DEF ServeExits, ServicePlaces, LocksAgree, Updater, Holds
<1>7. ASSUME NEW s \in Services, ServeCrashes(s) PROVE LocksAgree'
  BY <1>0, DeadMeans, ServiceNumbers, TypeMeans, ServiceAt, <1>7 DEF ServeCrashes, Alive, ServicePlaces, LocksAgree, Updater, Holds
<1>8. ASSUME NEW c \in Channels, OpenChecks(c) PROVE LocksAgree'
  BY <1>0, <1>8, ServiceAssumption DEF OpenChecks, TypeOK, LocksAgree, Nobody, Updater, Holds, Services, ServiceAssumption
<1>9. ASSUME NEW c \in Channels, OpenStarts(c) PROVE LocksAgree'
  BY <1>0, <1>9, ServiceAssumption DEF OpenStarts, TypeOK, LocksAgree, Nobody, Updater, Holds, Services, ServiceAssumption
<1>10. ASSUME NEW c \in Channels, OpenRefuses(c) PROVE LocksAgree'
  BY <1>0, <1>10, ServiceAssumption DEF OpenRefuses, TypeOK, LocksAgree, Nobody, Updater, Holds, Services, ServiceAssumption
<1>11. ASSUME NEW c \in Channels, OpenStores(c) PROVE LocksAgree'
  BY <1>0, <1>11, ServiceAssumption DEF OpenStores, TypeOK, LocksAgree, Nobody, Updater, Holds, Services, ServiceAssumption
<1>12. ASSUME NEW c \in Channels, ExecutionEnds(c) PROVE LocksAgree'
  BY <1>0, <1>12, ServiceAssumption DEF ExecutionEnds, TypeOK, LocksAgree, Nobody, Updater, Holds, Services, ServiceAssumption
<1>13. ASSUME NEW t \in Transfers, TransferBegins(t) PROVE LocksAgree'
  BY <1>0, <1>13, ServiceAssumption DEF TransferBegins, Stopping, TypeOK, LocksAgree, Nobody, Updater, Holds, Services, ServiceAssumption
<1>14. ASSUME NEW t \in Transfers, TransferEnds(t) PROVE LocksAgree'
  BY <1>0, <1>14, ServiceAssumption DEF TransferEnds, TypeOK, LocksAgree, Nobody, Updater, Holds, Services, ServiceAssumption
<1>15. ASSUME NEW k \in Configs, Configures(k) PROVE LocksAgree'
  BY <1>0, <1>15, ServiceAssumption DEF Configures, TypeOK, LocksAgree, Nobody, Updater, Holds, Services, ServiceAssumption
<1>16. ASSUME NEW k \in Configs, ConfigSaves(k) PROVE LocksAgree'
  BY <1>0, <1>16, ServiceAssumption DEF ConfigSaves, TypeOK, LocksAgree, Nobody, Updater, Holds, Services, ServiceAssumption
<1>17. ASSUME NEW k \in Configs, ConfigPublishes(k) PROVE LocksAgree'
  BY <1>0, <1>17, ServiceAssumption DEF ConfigPublishes, TypeOK, LocksAgree, Nobody, Updater, Holds, Services, ServiceAssumption
<1>18. ASSUME NEW e \in Ensures, EnsureConnects(e) PROVE LocksAgree'
  BY <1>0, <1>18, ServiceAssumption DEF EnsureConnects, Goes, TypeOK, LocksAgree, Nobody, Updater, Holds, Services, ServiceAssumption
<1>19. ASSUME NEW e \in Ensures, EnsureGreets(e) PROVE LocksAgree'
  BY <1>0, <1>19, ServiceAssumption DEF EnsureGreets, Goes, TypeOK, LocksAgree, Nobody, Updater, Holds, Services, ServiceAssumption
<1>20. ASSUME NEW e \in Ensures, EnsureAsks(e) PROVE LocksAgree'
  BY <1>0, <1>20, ServiceAssumption DEF EnsureAsks, Goes, TypeOK, LocksAgree, Nobody, Updater, Holds, Services, ServiceAssumption
<1>21. ASSUME NEW e \in Ensures, EnsureStops(e) PROVE LocksAgree'
  <2>0. sv \in SvType /\ en \in EnType /\ lock' = lock /\ sock' = sock
    BY <1>0, <1>21, TypeMeans DEF EnsureStops
  <2>1. \A f \in Ensures : en'[f].at = "owning" => en[f].at = "owning"
    BY <1>21, <2>0, EnsureGoes DEF EnsureStops, EnsurePlaces, Ended
  <2>2. \A q \in Services : (sv'[q].at \in Holds <=> sv[q].at \in Holds) /\ (sv'[q].at = "serving" => sv[q].at = "serving")
    <3>1. Alive(en[e].peer) => en[e].peer \in Services
      BY <2>0 DEF EnType, Alive
    <3>2. CASE en[e].peer \in Services /\ sv[en[e].peer].at = "serving" /\ sv' = At(en[e].peer, "stopping")
      BY <2>0, <3>2, ServiceAt DEF ServicePlaces, Holds
    <3> QED  BY <1>21, <3>1, <3>2 DEF EnsureStops
  <2> QED  BY <1>0, <2>0, <2>1, <2>2 DEF LocksAgree
<1>22. ASSUME NEW e \in Ensures, EnsureOwns(e) PROVE LocksAgree'
  BY <1>0, <1>22, ServiceAssumption DEF EnsureOwns, Goes, TypeOK, LocksAgree, Nobody, Updater, Holds, Services, ServiceAssumption
<1>23. ASSUME NEW e \in Ensures, EnsureReleases(e) PROVE LocksAgree'
  <2>0. en \in EnType /\ lock = Updater /\ lock' = Nobody /\ sv' = sv /\ sock' = sock
    BY <1>0, <1>23, TypeMeans DEF EnsureReleases, LocksAgree
  <2>1. \A f \in Ensures : en'[f].at # "owning"
    BY <1>0, <1>23, <2>0, EnsureGoes DEF EnsureReleases, EnsurePlaces, LocksAgree
  <2> QED  BY <1>0, <2>0, <2>1, ServiceNumbers DEF LocksAgree, Holds
<1>24. ASSUME NEW e \in Ensures, EnsureGivesUp(e) PROVE LocksAgree'
  BY <1>0, <1>24, ServiceAssumption DEF EnsureGivesUp, Goes, TypeOK, LocksAgree, Nobody, Updater, Holds, Services, ServiceAssumption
<1>25. ASSUME NEW e \in Ensures, EnsureLaunches(e) PROVE LocksAgree'
  <2>1. PICK s \in Services : /\ sv[s].at = "none" /\ sv' = [sv EXCEPT ![s] = [at |-> "starting", build |-> Build[e]]]
                              /\ en' = [en EXCEPT ![e].at = "polling", ![e].child = s]
    BY <1>25 DEF EnsureLaunches
  <2>2. sv \in SvType /\ en \in EnType /\ lock' = lock /\ sock' = sock
    BY <1>0, <1>25, TypeMeans DEF EnsureLaunches
  <2>3. \A q \in Services : sv'[q].at = IF q = s THEN "starting" ELSE sv[q].at
    BY <2>1, <2>2 DEF SvType
  <2>4. \A f \in Ensures : en'[f].at = IF f = e THEN "polling" ELSE en[f].at
    BY <2>1, <2>2 DEF EnType
  <2>5. \A q \in Services : (sv'[q].at \in Holds <=> sv[q].at \in Holds) /\ (sv'[q].at = "serving" => sv[q].at = "serving")
    BY <2>1, <2>3 DEF Holds
  <2>6. \A f \in Ensures : en'[f].at = "owning" => en[f].at = "owning"
    BY <2>4
  <2> QED  BY <1>0, <2>2, <2>5, <2>6 DEF LocksAgree
<1>26. ASSUME NEW e \in Ensures, EnsurePolls(e) PROVE LocksAgree'
  BY <1>0, <1>26, ServiceAssumption DEF EnsurePolls, Goes, TypeOK, LocksAgree, Nobody, Updater, Holds, Services, ServiceAssumption
<1>27. ASSUME NEW c \in Channels, NEW s \in Services, Calls(c, s) PROVE LocksAgree'
  BY <1>0, <1>27 DEF Calls, TypeOK, LocksAgree, Nobody, Updater, Holds, Services
<1> QED
  BY <1>1, <1>2, <1>3, <1>4, <1>5, <1>6, <1>7, <1>8, <1>9, <1>10, <1>11, <1>12, <1>13, <1>14, <1>15, <1>16, <1>17, <1>18, <1>19, <1>20, <1>21, <1>22, <1>23, <1>24, <1>25, <1>26, <1>27 DEF Next, Begins, Serves, Opens, Saves, Ensuring

LEMMA CountedKept == ServiceInv /\ Next => Counted'
<1> SUFFICES ASSUME ServiceInv, Next PROVE Counted'
  OBVIOUS
<1>0. TypeOK /\ LocksAgree /\ Counted /\ TableAgrees /\ SavedIsHeld /\ PublishedIsStored
  BY DEF ServiceInv
<1>1. ASSUME NEW s \in Services, ServeLocks(s) PROVE Counted'
  BY <1>0, <1>1, ServiceAssumption DEF ServeLocks, Moves, At, TypeOK, Counted, Nobody, ServiceAssumption
<1>2. ASSUME NEW s \in Services, ServeOpens(s) PROVE Counted'
  BY <1>0, <1>2, ServiceAssumption DEF ServeOpens, Moves, At, TypeOK, Counted, Nobody, ServiceAssumption
<1>3. ASSUME NEW s \in Services, ServeBinds(s) PROVE Counted'
  BY <1>0, <1>3, ServiceAssumption DEF ServeBinds, Moves, At, TypeOK, Counted, Nobody, ServiceAssumption
<1>4. ASSUME NEW s \in Services, ServeTells(s) PROVE Counted'
  BY <1>0, <1>4, ServiceAssumption DEF ServeTells, Moves, At, TypeOK, Counted, Nobody, ServiceAssumption
<1>5. ASSUME NEW s \in Services, ServeCloses(s) PROVE Counted'
  BY <1>0, <1>5, ServiceAssumption DEF ServeCloses, Moves, At, TypeOK, Counted, Nobody, ServiceAssumption
<1>6. ASSUME NEW s \in Services, ServeExits(s) PROVE Counted'
  BY <1>0, DeadMeans, ServiceNumbers, TypeMeans, ServiceAt, <1>6 DEF ServeExits, ServicePlaces, Counted, Holds
<1>7. ASSUME NEW s \in Services, ServeCrashes(s) PROVE Counted'
  BY <1>0, DeadMeans, ServiceNumbers, TypeMeans, ServiceAt, <1>7 DEF ServeCrashes, Alive, ServicePlaces, Counted, Holds
<1>8. ASSUME NEW c \in Channels, OpenChecks(c) PROVE Counted'
  BY <1>0, <1>8, ServiceAssumption DEF OpenChecks, TypeOK, Counted, Nobody, ServiceAssumption
<1>9. ASSUME NEW c \in Channels, OpenStarts(c) PROVE Counted'
  BY <1>0, <1>9, ServiceAssumption DEF OpenStarts, TypeOK, Counted, Nobody, ServiceAssumption
<1>10. ASSUME NEW c \in Channels, OpenRefuses(c) PROVE Counted'
  BY <1>0, <1>10, ServiceAssumption DEF OpenRefuses, TypeOK, Counted, Nobody, ServiceAssumption
<1>11. ASSUME NEW c \in Channels, OpenStores(c) PROVE Counted'
  BY <1>0, <1>11, ServiceAssumption DEF OpenStores, TypeOK, Counted, Nobody, ServiceAssumption
<1>12. ASSUME NEW c \in Channels, ExecutionEnds(c) PROVE Counted'
  BY <1>0, <1>12, ServiceAssumption DEF ExecutionEnds, TypeOK, Counted, Nobody, ServiceAssumption
<1>13. ASSUME NEW t \in Transfers, TransferBegins(t) PROVE Counted'
  BY <1>0, <1>13, ServiceAssumption DEF TransferBegins, Stopping, TypeOK, Counted, Nobody, ServiceAssumption
<1>14. ASSUME NEW t \in Transfers, TransferEnds(t) PROVE Counted'
  BY <1>0, <1>14, ServiceAssumption DEF TransferEnds, TypeOK, Counted, Nobody, ServiceAssumption
<1>15. ASSUME NEW k \in Configs, Configures(k) PROVE Counted'
  BY <1>0, <1>15, ServiceAssumption DEF Configures, TypeOK, Counted, Nobody, ServiceAssumption
<1>16. ASSUME NEW k \in Configs, ConfigSaves(k) PROVE Counted'
  BY <1>0, <1>16, ServiceAssumption DEF ConfigSaves, TypeOK, Counted, Nobody, ServiceAssumption
<1>17. ASSUME NEW k \in Configs, ConfigPublishes(k) PROVE Counted'
  BY <1>0, <1>17, ServiceAssumption DEF ConfigPublishes, TypeOK, Counted, Nobody, ServiceAssumption
<1>18. ASSUME NEW e \in Ensures, EnsureConnects(e) PROVE Counted'
  BY <1>0, <1>18, ServiceAssumption DEF EnsureConnects, Goes, TypeOK, Counted, Nobody, ServiceAssumption
<1>19. ASSUME NEW e \in Ensures, EnsureGreets(e) PROVE Counted'
  BY <1>0, <1>19, ServiceAssumption DEF EnsureGreets, Goes, TypeOK, Counted, Nobody, ServiceAssumption
<1>20. ASSUME NEW e \in Ensures, EnsureAsks(e) PROVE Counted'
  BY <1>0, <1>20, ServiceAssumption DEF EnsureAsks, Goes, TypeOK, Counted, Nobody, ServiceAssumption
<1>21. ASSUME NEW e \in Ensures, EnsureStops(e) PROVE Counted'
  <2>0. en \in EnType /\ ch \in ChType /\ shared' = shared /\ ch' = ch
    BY <1>0, <1>21, TypeMeans DEF EnsureStops
  <2>1. CASE db' = db /\ \A f \in Ensures : en'[f].at = "replacing" => en[f].at = "replacing"
    BY <1>0, <2>0, <2>1 DEF Counted
  <2>2. CASE db = Nobody /\ Running = {} /\ shared = {} /\ en' = Goes(e, "replacing") /\ db' = 1
    <3>1. \A f \in Ensures : en'[f].at = "replacing" => f = e
      BY <1>0, <2>0, <2>2, EnsureGoes DEF Counted, EnsurePlaces
    <3>2. \A c \in Channels : ch'[c].row # "running"
      BY <2>0, <2>2 DEF Running
    <3> QED  BY <2>0, <2>2, <3>1, <3>2 DEF Counted, Nobody
  <2>3. (\E at \in Ended : en' = Goes(e, at) /\ db' = db) \/ (db = Nobody /\ Running = {} /\ shared = {} /\ en' = Goes(e, "replacing") /\ db' = 1)
    BY <1>21 DEF EnsureStops, Ended
  <2>4. ASSUME NEW at \in Ended, en' = Goes(e, at), db' = db PROVE Counted'
    <3>1. \A f \in Ensures : en'[f].at = "replacing" => en[f].at = "replacing"
      BY <2>0, <2>4, EnsureGoes DEF EnsurePlaces, Ended
    <3> QED  BY <2>1, <2>4, <3>1
  <2> QED  BY <2>2, <2>3, <2>4
<1>22. ASSUME NEW e \in Ensures, EnsureOwns(e) PROVE Counted'
  BY <1>0, <1>22, ServiceAssumption DEF EnsureOwns, Goes, TypeOK, Counted, Nobody, ServiceAssumption
<1>23. ASSUME NEW e \in Ensures, EnsureReleases(e) PROVE Counted'
  BY <1>0, <1>23, ServiceAssumption DEF EnsureReleases, Goes, TypeOK, Counted, Nobody, ServiceAssumption
<1>24. ASSUME NEW e \in Ensures, EnsureGivesUp(e) PROVE Counted'
  BY <1>0, <1>24, ServiceAssumption DEF EnsureGivesUp, Goes, TypeOK, Counted, Nobody, ServiceAssumption
<1>25. ASSUME NEW e \in Ensures, EnsureLaunches(e) PROVE Counted'
  BY <1>0, <1>25, ServiceAssumption DEF EnsureLaunches, Goes, At, TypeOK, Counted, Nobody, ServiceAssumption
<1>26. ASSUME NEW e \in Ensures, EnsurePolls(e) PROVE Counted'
  BY <1>0, <1>26, ServiceAssumption DEF EnsurePolls, Goes, TypeOK, Counted, Nobody, ServiceAssumption
<1>27. ASSUME NEW c \in Channels, NEW s \in Services, Calls(c, s) PROVE Counted'
  BY <1>0, <1>27 DEF Calls, TypeOK, Counted, Nobody
<1> QED
  BY <1>1, <1>2, <1>3, <1>4, <1>5, <1>6, <1>7, <1>8, <1>9, <1>10, <1>11, <1>12, <1>13, <1>14, <1>15, <1>16, <1>17, <1>18, <1>19, <1>20, <1>21, <1>22, <1>23, <1>24, <1>25, <1>26, <1>27 DEF Next, Begins, Serves, Opens, Saves, Ensuring

LEMMA TableAgreesKept == ServiceInv /\ Next => TableAgrees'
<1> SUFFICES ASSUME ServiceInv, Next PROVE TableAgrees'
  OBVIOUS
<1>0. TypeOK /\ LocksAgree /\ Counted /\ TableAgrees /\ SavedIsHeld /\ PublishedIsStored
  BY DEF ServiceInv
<1>1. ASSUME NEW s \in Services, ServeLocks(s) PROVE TableAgrees'
  BY <1>0, <1>1, ServiceAssumption DEF ServeLocks, Moves, At, TypeOK, LocksAgree, TableAgrees, Holds, Serving, Nobody, Services, ServiceAssumption
<1>2. ASSUME NEW s \in Services, ServeOpens(s) PROVE TableAgrees'
  <2>0. sv \in SvType /\ ch \in ChType /\ sv[s].at = "locked" /\ lock = s
    BY <1>0, <1>2, TypeMeans DEF ServeOpens, Moves, LocksAgree, Holds
  <2>1. \A c \in Channels : ~ch[c].alive /\ ch[c].at \notin {"checked", "spawned"}
    BY <1>0, <2>0 DEF TableAgrees, LocksAgree, Serving, Holds
  <2>2. ASSUME NEW c \in Channels
        PROVE  ch'[c].alive = ch[c].alive /\ ch'[c].at = ch[c].at /\ ch'[c].by = ch[c].by
    BY <1>2, <2>0 DEF ServeOpens, ChType, ChRecord
  <2> QED  BY <1>0, <2>1, <2>2 DEF TableAgrees
<1>3. ASSUME NEW s \in Services, ServeBinds(s) PROVE TableAgrees'
  BY <1>0, <1>3, ServiceAssumption DEF ServeBinds, Moves, At, TypeOK, LocksAgree, TableAgrees, Holds, Serving, Nobody, Services, ServiceAssumption
<1>4. ASSUME NEW s \in Services, ServeTells(s) PROVE TableAgrees'
  BY <1>0, <1>4, ServiceAssumption DEF ServeTells, Moves, At, TableFree, TypeOK, LocksAgree, TableAgrees, Holds, Serving, Nobody, Services, ServiceAssumption
<1>5. ASSUME NEW s \in Services, ServeCloses(s) PROVE TableAgrees'
  BY <1>0, <1>5, ServiceAssumption DEF ServeCloses, Moves, At, TableFree, TypeOK, LocksAgree, TableAgrees, Holds, Serving, Nobody, Services, ServiceAssumption
<1>6. ASSUME NEW s \in Services, ServeExits(s) PROVE TableAgrees'
  BY <1>0, DeadMeans, ServiceNumbers, TypeMeans, ServiceAt, <1>6 DEF ServeExits, ServicePlaces, LocksAgree, TableAgrees, Serving, Holds
<1>7. ASSUME NEW s \in Services, ServeCrashes(s) PROVE TableAgrees'
  BY <1>0, DeadMeans, ServiceNumbers, TypeMeans, ServiceAt, <1>7 DEF ServeCrashes, Alive, ServicePlaces, LocksAgree, TableAgrees, Serving, Holds
<1>8. ASSUME NEW c \in Channels, OpenChecks(c) PROVE TableAgrees'
  <2>1. ch[c].by \in Services /\ sv[ch[c].by].at \in Serving /\ ~ch[c].alive
    BY <1>0, <1>8 DEF OpenChecks, TableAgrees, Serving
  <2>2. ch \in ChType /\ ch' = [ch EXCEPT ![c].at = "checked"] /\ sv' = sv
    BY <1>0, <1>8, TypeMeans DEF OpenChecks
  <2> QED  BY <1>0, <2>1, <2>2 DEF TableAgrees, ChType, ChRecord
<1>9. ASSUME NEW c \in Channels, OpenStarts(c) PROVE TableAgrees'
  BY <1>0, <1>9, ServiceAssumption DEF OpenStarts, TypeOK, LocksAgree, TableAgrees, Holds, Serving, Nobody, Services, ServiceAssumption
<1>10. ASSUME NEW c \in Channels, OpenRefuses(c) PROVE TableAgrees'
  BY <1>0, <1>10, ServiceAssumption DEF OpenRefuses, TypeOK, LocksAgree, TableAgrees, Holds, Serving, Nobody, Services, ServiceAssumption
<1>11. ASSUME NEW c \in Channels, OpenStores(c) PROVE TableAgrees'
  BY <1>0, <1>11, ServiceAssumption DEF OpenStores, TypeOK, LocksAgree, TableAgrees, Holds, Serving, Nobody, Services, ServiceAssumption
<1>12. ASSUME NEW c \in Channels, ExecutionEnds(c) PROVE TableAgrees'
  BY <1>0, <1>12, ServiceAssumption DEF ExecutionEnds, TypeOK, LocksAgree, TableAgrees, Holds, Serving, Nobody, Services, ServiceAssumption
<1>13. ASSUME NEW t \in Transfers, TransferBegins(t) PROVE TableAgrees'
  BY <1>0, <1>13, ServiceAssumption DEF TransferBegins, Stopping, TypeOK, LocksAgree, TableAgrees, Holds, Serving, Nobody, Services, ServiceAssumption
<1>14. ASSUME NEW t \in Transfers, TransferEnds(t) PROVE TableAgrees'
  BY <1>0, <1>14, ServiceAssumption DEF TransferEnds, TypeOK, LocksAgree, TableAgrees, Holds, Serving, Nobody, Services, ServiceAssumption
<1>15. ASSUME NEW k \in Configs, Configures(k) PROVE TableAgrees'
  BY <1>0, <1>15, ServiceAssumption DEF Configures, TypeOK, LocksAgree, TableAgrees, Holds, Serving, Nobody, Services, ServiceAssumption
<1>16. ASSUME NEW k \in Configs, ConfigSaves(k) PROVE TableAgrees'
  BY <1>0, <1>16, ServiceAssumption DEF ConfigSaves, TypeOK, LocksAgree, TableAgrees, Holds, Serving, Nobody, Services, ServiceAssumption
<1>17. ASSUME NEW k \in Configs, ConfigPublishes(k) PROVE TableAgrees'
  BY <1>0, <1>17, ServiceAssumption DEF ConfigPublishes, TypeOK, LocksAgree, TableAgrees, Holds, Serving, Nobody, Services, ServiceAssumption
<1>18. ASSUME NEW e \in Ensures, EnsureConnects(e) PROVE TableAgrees'
  BY <1>0, <1>18, ServiceAssumption DEF EnsureConnects, Goes, TypeOK, LocksAgree, TableAgrees, Holds, Serving, Nobody, Services, ServiceAssumption
<1>19. ASSUME NEW e \in Ensures, EnsureGreets(e) PROVE TableAgrees'
  BY <1>0, <1>19, ServiceAssumption DEF EnsureGreets, Goes, TypeOK, LocksAgree, TableAgrees, Holds, Serving, Nobody, Services, ServiceAssumption
<1>20. ASSUME NEW e \in Ensures, EnsureAsks(e) PROVE TableAgrees'
  BY <1>0, <1>20, ServiceAssumption DEF EnsureAsks, Goes, TypeOK, LocksAgree, TableAgrees, Holds, Serving, Nobody, Services, ServiceAssumption
<1>21. ASSUME NEW e \in Ensures, EnsureStops(e) PROVE TableAgrees'
  BY <1>0, <1>21, ServiceAssumption DEF EnsureStops, Goes, At, Alive, TypeOK, LocksAgree, TableAgrees, Holds, Serving, Nobody, Services, ServiceAssumption
<1>22. ASSUME NEW e \in Ensures, EnsureOwns(e) PROVE TableAgrees'
  BY <1>0, <1>22, ServiceAssumption DEF EnsureOwns, Goes, TypeOK, LocksAgree, TableAgrees, Holds, Serving, Nobody, Services, ServiceAssumption
<1>23. ASSUME NEW e \in Ensures, EnsureReleases(e) PROVE TableAgrees'
  BY <1>0, <1>23, ServiceAssumption DEF EnsureReleases, Goes, TypeOK, LocksAgree, TableAgrees, Holds, Serving, Nobody, Services, ServiceAssumption
<1>24. ASSUME NEW e \in Ensures, EnsureGivesUp(e) PROVE TableAgrees'
  BY <1>0, <1>24, ServiceAssumption DEF EnsureGivesUp, Goes, TypeOK, LocksAgree, TableAgrees, Holds, Serving, Nobody, Services, ServiceAssumption
<1>25. ASSUME NEW e \in Ensures, EnsureLaunches(e) PROVE TableAgrees'
  BY <1>0, <1>25, ServiceAssumption DEF EnsureLaunches, Goes, At, TypeOK, LocksAgree, TableAgrees, Holds, Serving, Nobody, Services, ServiceAssumption
<1>26. ASSUME NEW e \in Ensures, EnsurePolls(e) PROVE TableAgrees'
  BY <1>0, <1>26, ServiceAssumption DEF EnsurePolls, Goes, TypeOK, LocksAgree, TableAgrees, Holds, Serving, Nobody, Services, ServiceAssumption
<1>27. ASSUME NEW c \in Channels, NEW s \in Services, Calls(c, s) PROVE TableAgrees'
  BY <1>0, <1>27 DEF Calls, TypeOK, LocksAgree, TableAgrees, Holds, Serving, Nobody, Services
<1> QED
  BY <1>1, <1>2, <1>3, <1>4, <1>5, <1>6, <1>7, <1>8, <1>9, <1>10, <1>11, <1>12, <1>13, <1>14, <1>15, <1>16, <1>17, <1>18, <1>19, <1>20, <1>21, <1>22, <1>23, <1>24, <1>25, <1>26, <1>27 DEF Next, Begins, Serves, Opens, Saves, Ensuring

LEMMA SavedIsHeldKept == ServiceInv /\ Next => SavedIsHeld'
<1> SUFFICES ASSUME ServiceInv, Next PROVE SavedIsHeld'
  OBVIOUS
<1>0. TypeOK /\ LocksAgree /\ Counted /\ TableAgrees /\ SavedIsHeld /\ PublishedIsStored
  BY DEF ServiceInv
<1>1. ASSUME NEW s \in Services, ServeLocks(s) PROVE SavedIsHeld'
  BY <1>0, <1>1, ServiceAssumption DEF ServeLocks, Moves, At, TypeOK, SavedIsHeld, NoCall, ServiceAssumption
<1>2. ASSUME NEW s \in Services, ServeOpens(s) PROVE SavedIsHeld'
  BY <1>0, <1>2, ServiceAssumption DEF ServeOpens, Moves, At, TypeOK, SavedIsHeld, NoCall, ServiceAssumption
<1>3. ASSUME NEW s \in Services, ServeBinds(s) PROVE SavedIsHeld'
  BY <1>0, <1>3, ServiceAssumption DEF ServeBinds, Moves, At, TypeOK, SavedIsHeld, NoCall, ServiceAssumption
<1>4. ASSUME NEW s \in Services, ServeTells(s) PROVE SavedIsHeld'
  BY <1>0, <1>4, ServiceAssumption DEF ServeTells, Moves, At, TypeOK, SavedIsHeld, NoCall, ServiceAssumption
<1>5. ASSUME NEW s \in Services, ServeCloses(s) PROVE SavedIsHeld'
  BY <1>0, <1>5, ServiceAssumption DEF ServeCloses, Moves, At, TypeOK, SavedIsHeld, NoCall, ServiceAssumption
<1>6. ASSUME NEW s \in Services, ServeExits(s) PROVE SavedIsHeld'
  BY <1>0, DeadMeans, ServiceNumbers, TypeMeans, ServiceAt, <1>6 DEF ServeExits, ServicePlaces, SavedIsHeld, Holds
<1>7. ASSUME NEW s \in Services, ServeCrashes(s) PROVE SavedIsHeld'
  BY <1>0, DeadMeans, ServiceNumbers, TypeMeans, ServiceAt, <1>7 DEF ServeCrashes, Alive, ServicePlaces, SavedIsHeld, Holds
<1>8. ASSUME NEW c \in Channels, OpenChecks(c) PROVE SavedIsHeld'
  BY <1>0, <1>8, ServiceAssumption DEF OpenChecks, TypeOK, SavedIsHeld, NoCall, ServiceAssumption
<1>9. ASSUME NEW c \in Channels, OpenStarts(c) PROVE SavedIsHeld'
  BY <1>0, <1>9, ServiceAssumption DEF OpenStarts, TypeOK, SavedIsHeld, NoCall, ServiceAssumption
<1>10. ASSUME NEW c \in Channels, OpenRefuses(c) PROVE SavedIsHeld'
  BY <1>0, <1>10, ServiceAssumption DEF OpenRefuses, TypeOK, SavedIsHeld, NoCall, ServiceAssumption
<1>11. ASSUME NEW c \in Channels, OpenStores(c) PROVE SavedIsHeld'
  BY <1>0, <1>11, ServiceAssumption DEF OpenStores, TypeOK, SavedIsHeld, NoCall, ServiceAssumption
<1>12. ASSUME NEW c \in Channels, ExecutionEnds(c) PROVE SavedIsHeld'
  BY <1>0, <1>12, ServiceAssumption DEF ExecutionEnds, TypeOK, SavedIsHeld, NoCall, ServiceAssumption
<1>13. ASSUME NEW t \in Transfers, TransferBegins(t) PROVE SavedIsHeld'
  BY <1>0, <1>13, ServiceAssumption DEF TransferBegins, Stopping, TypeOK, SavedIsHeld, NoCall, ServiceAssumption
<1>14. ASSUME NEW t \in Transfers, TransferEnds(t) PROVE SavedIsHeld'
  BY <1>0, <1>14, ServiceAssumption DEF TransferEnds, TypeOK, SavedIsHeld, NoCall, ServiceAssumption
<1>15. ASSUME NEW k \in Configs, Configures(k) PROVE SavedIsHeld'
  BY <1>0, <1>15, ServiceAssumption DEF Configures, TypeOK, SavedIsHeld, NoCall, ServiceAssumption
<1>16. ASSUME NEW k \in Configs, ConfigSaves(k) PROVE SavedIsHeld'
  <2>0. config \in ConfigType /\ NoCall \notin Configs /\ \A j \in Configs : config.at[j] # "saved"
    BY <1>0, <1>16, TypeMeans, ServiceAssumption DEF ConfigSaves, SavedIsHeld, ServiceAssumption, NoCall
  <2>1. CASE config' = [config EXCEPT !.stored = Revision[k], !.held = k, !.at[k] = "saved"]
    BY <2>0, <2>1 DEF ConfigType, SavedIsHeld
  <2>2. CASE config' = [config EXCEPT !.at[k] = "done"]
    BY <1>0, <2>0, <2>2 DEF ConfigType, SavedIsHeld
  <2> QED  BY <1>16, <2>1, <2>2 DEF ConfigSaves
<1>17. ASSUME NEW k \in Configs, ConfigPublishes(k) PROVE SavedIsHeld'
  BY <1>0, <1>17, ServiceAssumption DEF ConfigPublishes, TypeOK, SavedIsHeld, NoCall, ServiceAssumption
<1>18. ASSUME NEW e \in Ensures, EnsureConnects(e) PROVE SavedIsHeld'
  BY <1>0, <1>18, ServiceAssumption DEF EnsureConnects, Goes, TypeOK, SavedIsHeld, NoCall, ServiceAssumption
<1>19. ASSUME NEW e \in Ensures, EnsureGreets(e) PROVE SavedIsHeld'
  BY <1>0, <1>19, ServiceAssumption DEF EnsureGreets, Goes, TypeOK, SavedIsHeld, NoCall, ServiceAssumption
<1>20. ASSUME NEW e \in Ensures, EnsureAsks(e) PROVE SavedIsHeld'
  BY <1>0, <1>20, ServiceAssumption DEF EnsureAsks, Goes, TypeOK, SavedIsHeld, NoCall, ServiceAssumption
<1>21. ASSUME NEW e \in Ensures, EnsureStops(e) PROVE SavedIsHeld'
  BY <1>0, <1>21, ServiceAssumption DEF EnsureStops, Goes, At, Alive, TypeOK, SavedIsHeld, NoCall, ServiceAssumption
<1>22. ASSUME NEW e \in Ensures, EnsureOwns(e) PROVE SavedIsHeld'
  BY <1>0, <1>22, ServiceAssumption DEF EnsureOwns, Goes, TypeOK, SavedIsHeld, NoCall, ServiceAssumption
<1>23. ASSUME NEW e \in Ensures, EnsureReleases(e) PROVE SavedIsHeld'
  BY <1>0, <1>23, ServiceAssumption DEF EnsureReleases, Goes, TypeOK, SavedIsHeld, NoCall, ServiceAssumption
<1>24. ASSUME NEW e \in Ensures, EnsureGivesUp(e) PROVE SavedIsHeld'
  BY <1>0, <1>24, ServiceAssumption DEF EnsureGivesUp, Goes, TypeOK, SavedIsHeld, NoCall, ServiceAssumption
<1>25. ASSUME NEW e \in Ensures, EnsureLaunches(e) PROVE SavedIsHeld'
  BY <1>0, <1>25, ServiceAssumption DEF EnsureLaunches, Goes, At, TypeOK, SavedIsHeld, NoCall, ServiceAssumption
<1>26. ASSUME NEW e \in Ensures, EnsurePolls(e) PROVE SavedIsHeld'
  BY <1>0, <1>26, ServiceAssumption DEF EnsurePolls, Goes, TypeOK, SavedIsHeld, NoCall, ServiceAssumption
<1>27. ASSUME NEW c \in Channels, NEW s \in Services, Calls(c, s) PROVE SavedIsHeld'
  BY <1>0, <1>27 DEF Calls, TypeOK, SavedIsHeld, NoCall
<1> QED
  BY <1>1, <1>2, <1>3, <1>4, <1>5, <1>6, <1>7, <1>8, <1>9, <1>10, <1>11, <1>12, <1>13, <1>14, <1>15, <1>16, <1>17, <1>18, <1>19, <1>20, <1>21, <1>22, <1>23, <1>24, <1>25, <1>26, <1>27 DEF Next, Begins, Serves, Opens, Saves, Ensuring

LEMMA PublishedIsStoredKept == ServiceInv /\ Next => PublishedIsStored'
<1> SUFFICES ASSUME ServiceInv, Next PROVE PublishedIsStored'
  OBVIOUS
<1>0. TypeOK /\ LocksAgree /\ Counted /\ TableAgrees /\ SavedIsHeld /\ PublishedIsStored
  BY DEF ServiceInv
<1>1. ASSUME NEW s \in Services, ServeLocks(s) PROVE PublishedIsStored'
  BY <1>0, <1>1, ServiceAssumption DEF ServeLocks, Moves, At, TypeOK, SavedIsHeld, PublishedIsStored, NoCall, ServiceAssumption
<1>2. ASSUME NEW s \in Services, ServeOpens(s) PROVE PublishedIsStored'
  BY <1>0, <1>2, ServiceAssumption DEF ServeOpens, Moves, At, TypeOK, SavedIsHeld, PublishedIsStored, NoCall, ServiceAssumption
<1>3. ASSUME NEW s \in Services, ServeBinds(s) PROVE PublishedIsStored'
  BY <1>0, <1>3, ServiceAssumption DEF ServeBinds, Moves, At, TypeOK, SavedIsHeld, PublishedIsStored, NoCall, ServiceAssumption
<1>4. ASSUME NEW s \in Services, ServeTells(s) PROVE PublishedIsStored'
  BY <1>0, <1>4, ServiceAssumption DEF ServeTells, Moves, At, TypeOK, SavedIsHeld, PublishedIsStored, NoCall, ServiceAssumption
<1>5. ASSUME NEW s \in Services, ServeCloses(s) PROVE PublishedIsStored'
  BY <1>0, <1>5, ServiceAssumption DEF ServeCloses, Moves, At, TypeOK, SavedIsHeld, PublishedIsStored, NoCall, ServiceAssumption
<1>6. ASSUME NEW s \in Services, ServeExits(s) PROVE PublishedIsStored'
  BY <1>0, DeadMeans, ServiceNumbers, TypeMeans, ServiceAt, <1>6 DEF ServeExits, ServicePlaces, SavedIsHeld, PublishedIsStored, Holds
<1>7. ASSUME NEW s \in Services, ServeCrashes(s) PROVE PublishedIsStored'
  BY <1>0, DeadMeans, ServiceNumbers, TypeMeans, ServiceAt, <1>7 DEF ServeCrashes, Alive, ServicePlaces, SavedIsHeld, PublishedIsStored, Holds
<1>8. ASSUME NEW c \in Channels, OpenChecks(c) PROVE PublishedIsStored'
  BY <1>0, <1>8, ServiceAssumption DEF OpenChecks, TypeOK, SavedIsHeld, PublishedIsStored, NoCall, ServiceAssumption
<1>9. ASSUME NEW c \in Channels, OpenStarts(c) PROVE PublishedIsStored'
  BY <1>0, <1>9, ServiceAssumption DEF OpenStarts, TypeOK, SavedIsHeld, PublishedIsStored, NoCall, ServiceAssumption
<1>10. ASSUME NEW c \in Channels, OpenRefuses(c) PROVE PublishedIsStored'
  BY <1>0, <1>10, ServiceAssumption DEF OpenRefuses, TypeOK, SavedIsHeld, PublishedIsStored, NoCall, ServiceAssumption
<1>11. ASSUME NEW c \in Channels, OpenStores(c) PROVE PublishedIsStored'
  BY <1>0, <1>11, ServiceAssumption DEF OpenStores, TypeOK, SavedIsHeld, PublishedIsStored, NoCall, ServiceAssumption
<1>12. ASSUME NEW c \in Channels, ExecutionEnds(c) PROVE PublishedIsStored'
  BY <1>0, <1>12, ServiceAssumption DEF ExecutionEnds, TypeOK, SavedIsHeld, PublishedIsStored, NoCall, ServiceAssumption
<1>13. ASSUME NEW t \in Transfers, TransferBegins(t) PROVE PublishedIsStored'
  BY <1>0, <1>13, ServiceAssumption DEF TransferBegins, Stopping, TypeOK, SavedIsHeld, PublishedIsStored, NoCall, ServiceAssumption
<1>14. ASSUME NEW t \in Transfers, TransferEnds(t) PROVE PublishedIsStored'
  BY <1>0, <1>14, ServiceAssumption DEF TransferEnds, TypeOK, SavedIsHeld, PublishedIsStored, NoCall, ServiceAssumption
<1>15. ASSUME NEW k \in Configs, Configures(k) PROVE PublishedIsStored'
  BY <1>0, <1>15, ServiceAssumption DEF Configures, TypeOK, SavedIsHeld, PublishedIsStored, NoCall, ServiceAssumption
<1>16. ASSUME NEW k \in Configs, ConfigSaves(k) PROVE PublishedIsStored'
  <2>0. config \in ConfigType /\ NoCall \notin Configs /\ \A j \in Configs : config.at[j] # "saved"
    BY <1>0, <1>16, TypeMeans, ServiceAssumption DEF ConfigSaves, SavedIsHeld, ServiceAssumption, NoCall
  <2>1. CASE config' = [config EXCEPT !.stored = Revision[k], !.held = k, !.at[k] = "saved"]
    BY <2>0, <2>1 DEF ConfigType, PublishedIsStored
  <2>2. CASE config' = [config EXCEPT !.at[k] = "done"]
    BY <1>0, <2>0, <2>2 DEF ConfigType, PublishedIsStored
  <2> QED  BY <1>16, <2>1, <2>2 DEF ConfigSaves
<1>17. ASSUME NEW k \in Configs, ConfigPublishes(k) PROVE PublishedIsStored'
  BY <1>0, <1>17, ServiceAssumption DEF ConfigPublishes, TypeOK, SavedIsHeld, PublishedIsStored, NoCall, ServiceAssumption
<1>18. ASSUME NEW e \in Ensures, EnsureConnects(e) PROVE PublishedIsStored'
  BY <1>0, <1>18, ServiceAssumption DEF EnsureConnects, Goes, TypeOK, SavedIsHeld, PublishedIsStored, NoCall, ServiceAssumption
<1>19. ASSUME NEW e \in Ensures, EnsureGreets(e) PROVE PublishedIsStored'
  BY <1>0, <1>19, ServiceAssumption DEF EnsureGreets, Goes, TypeOK, SavedIsHeld, PublishedIsStored, NoCall, ServiceAssumption
<1>20. ASSUME NEW e \in Ensures, EnsureAsks(e) PROVE PublishedIsStored'
  BY <1>0, <1>20, ServiceAssumption DEF EnsureAsks, Goes, TypeOK, SavedIsHeld, PublishedIsStored, NoCall, ServiceAssumption
<1>21. ASSUME NEW e \in Ensures, EnsureStops(e) PROVE PublishedIsStored'
  BY <1>0, <1>21, ServiceAssumption DEF EnsureStops, Goes, At, Alive, TypeOK, SavedIsHeld, PublishedIsStored, NoCall, ServiceAssumption
<1>22. ASSUME NEW e \in Ensures, EnsureOwns(e) PROVE PublishedIsStored'
  BY <1>0, <1>22, ServiceAssumption DEF EnsureOwns, Goes, TypeOK, SavedIsHeld, PublishedIsStored, NoCall, ServiceAssumption
<1>23. ASSUME NEW e \in Ensures, EnsureReleases(e) PROVE PublishedIsStored'
  BY <1>0, <1>23, ServiceAssumption DEF EnsureReleases, Goes, TypeOK, SavedIsHeld, PublishedIsStored, NoCall, ServiceAssumption
<1>24. ASSUME NEW e \in Ensures, EnsureGivesUp(e) PROVE PublishedIsStored'
  BY <1>0, <1>24, ServiceAssumption DEF EnsureGivesUp, Goes, TypeOK, SavedIsHeld, PublishedIsStored, NoCall, ServiceAssumption
<1>25. ASSUME NEW e \in Ensures, EnsureLaunches(e) PROVE PublishedIsStored'
  BY <1>0, <1>25, ServiceAssumption DEF EnsureLaunches, Goes, At, TypeOK, SavedIsHeld, PublishedIsStored, NoCall, ServiceAssumption
<1>26. ASSUME NEW e \in Ensures, EnsurePolls(e) PROVE PublishedIsStored'
  BY <1>0, <1>26, ServiceAssumption DEF EnsurePolls, Goes, TypeOK, SavedIsHeld, PublishedIsStored, NoCall, ServiceAssumption
<1>27. ASSUME NEW c \in Channels, NEW s \in Services, Calls(c, s) PROVE PublishedIsStored'
  BY <1>0, <1>27 DEF Calls, TypeOK, SavedIsHeld, PublishedIsStored, NoCall
<1> QED
  BY <1>1, <1>2, <1>3, <1>4, <1>5, <1>6, <1>7, <1>8, <1>9, <1>10, <1>11, <1>12, <1>13, <1>14, <1>15, <1>16, <1>17, <1>18, <1>19, <1>20, <1>21, <1>22, <1>23, <1>24, <1>25, <1>26, <1>27 DEF Next, Begins, Serves, Opens, Saves, Ensuring

-----------------------------------------------------------------------------
LEMMA ServiceKept == ServiceInv /\ [Next]_vars => ServiceInv'
<1> SUFFICES ASSUME ServiceInv, [Next]_vars PROVE ServiceInv'
  OBVIOUS
<1>1. CASE Next
  BY <1>1, TypeOKKept, LocksAgreeKept, CountedKept, TableAgreesKept, SavedIsHeldKept, PublishedIsStoredKept
     DEF ServiceInv
<1>2. CASE UNCHANGED vars
  <2>1. TypeOK'
    BY <1>2 DEF vars, ServiceInv, TypeOK
  <2>2. LocksAgree' /\ Counted' /\ TableAgrees'
    BY <1>2, Zenon DEF vars, ServiceInv, LocksAgree, Counted, TableAgrees
  <2>3. SavedIsHeld' /\ PublishedIsStored'
    BY <1>2, Zenon DEF vars, ServiceInv, SavedIsHeld, PublishedIsStored
  <2> QED  BY <2>1, <2>2, <2>3 DEF ServiceInv
<1> QED  BY <1>1, <1>2

(* Every state the services and their clients reach satisfies the invariant they keep together. *)
THEOREM ServiceHolds == Spec => []ServiceInv
<1>1. Init => ServiceInv
  BY ServiceInitially
<1>2. ServiceInv /\ [Next]_vars => ServiceInv'
  BY ServiceKept
<1> QED  BY <1>1, <1>2, PTL DEF Spec

(* Each process, lock, channel and configuration of an installation keeps its type. *)
THEOREM ServiceTypes == Spec => []TypeOK
<1>1. ServiceInv => TypeOK
  BY DEF ServiceInv
<1> QED  BY <1>1, ServiceHolds, PTL

(* main.rs, replace_idle: from the count of what runs until the old service has gone, nothing
   runs that was not counted, however many clients update and open at once. *)
THEOREM ReplacementIsQuiet == Spec => []QuietWhileReplaced
<1>1. ServiceInv => QuietWhileReplaced
  BY ServiceImplies
<1> QED  BY <1>1, ServiceHolds, PTL

(* service.rs: the service that serves has service.lock and the socket its clients connect to,
   whatever services were launched, stopped or killed before. *)
THEOREM ServiceIsReached == Spec => []ServingIsReached
<1>1. ServiceInv => ServingIsReached
  BY ServiceImplies
<1> QED  BY <1>1, ServiceHolds, PTL

(* profiles.rs: outside a publication the live settings of a profile are the stored ones. *)
THEOREM SettingsAreStored == Spec => []PublishedIsStored
<1>1. ServiceInv => PublishedIsStored
  BY DEF ServiceInv
<1> QED  BY <1>1, ServiceHolds, PTL
=============================================================================
