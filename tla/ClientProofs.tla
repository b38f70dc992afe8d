---------------------------- MODULE ClientProofs ----------------------------
(***************************************************************************)
(* Theorems about what the windows and processes of a computer share, for  *)
(* any number of them: the secrets of a server (Credentials), the use of   *)
(* its directories (WorkspaceUse), and the installations of the programs   *)
(* here (SelfUpdate) and on a server (RemoteInstall).                      *)
(***************************************************************************)
EXTENDS Credentials, WorkspaceUse, SelfUpdate, RemoteInstall, TLAPS

(***************************************************************************)
(* Credentials.                                                            *)
(***************************************************************************)

SaveSteps == {"none", "lock", "reserve", "put", "verify", "commit", "retire", "ended"}

CredentialTypes ==
  /\ record \in [Secrets -> [state : {"none", "pending", "active", "retired"},
                             kind : {"none", "setting", "ssh"}, old : BOOLEAN]]
  /\ save \in [Secrets -> [at : SaveSteps, kind : {"none", "setting", "ssh"},
                           expected : Secrets \cup {NoSecret}, revision : Nat]]
  /\ setting \in [secret : Secrets \cup {NoSecret}, revision : Nat]

\* A reference that no operation has reserved yet has left no trace.
Unused(r) == /\ record[r].state = "none"
             /\ r \notin vault /\ r \notin late /\ r \notin forgotten

\* An operation that has reserved its reference, and may go on to use it, has a record of it.
Reserved(r) == record[r].state # "none" /\ record[r].kind = save[r].kind

\* What maintenance has listed stays retired while it works, because nobody holds the lock.
MaintenanceIsAlone == cleaning => Holds = {} /\ \A r \in todo : record[r].state = "retired"

SecretInv(r) ==
  /\ save[r].at \in {"none", "lock", "reserve"} => Unused(r)
  /\ save[r].at # "none" => save[r].kind # "none"
  /\ save[r].at \in {"put", "verify", "commit"} => Reserved(r)
  /\ save[r].at \in {"verify", "commit"} => r \in vault
  /\ r \in late => record[r].state # "none"
  /\ r \in vault => record[r].state # "none"
  /\ r \in forgotten => record[r].state \notin {"pending", "active"}
  /\ record[r].state = "active" => r \in vault
  /\ r = setting.secret => record[r].state = "active" /\ record[r].kind = "setting"

\* late and todo hold references only; the values of the vault that matter do too.
CredentialInv ==
  /\ CredentialTypes
  /\ late \subseteq Secrets /\ todo \subseteq Secrets
  /\ MaintenanceIsAlone
  /\ \A r \in Secrets : SecretInv(r)

LEMMA CredentialInitially == CredentialsInit => CredentialInv
<1> SUFFICES ASSUME CredentialsInit PROVE CredentialInv
  OBVIOUS
<1>1. CredentialTypes
  BY DEF CredentialsInit, CredentialTypes, NoRecord, SaveSteps
<1>2. MaintenanceIsAlone /\ late \subseteq Secrets /\ todo \subseteq Secrets
  BY DEF CredentialsInit, MaintenanceIsAlone
<1>3. \A r \in Secrets : SecretInv(r)
  BY SecretsAssumption DEF CredentialsInit, SecretInv, Unused, NoRecord, SecretsAssumption
<1> QED  BY <1>1, <1>2, <1>3 DEF CredentialInv

LEMMA CredentialImplies == CredentialInv => SecretsAreKnown
BY DEF CredentialInv, SecretInv, SecretsAreKnown, CredentialTypes

\* The password is that of an active record, if there is one.
LEMMA PasswordIsActive ==
  Password \in Secrets => record[Password].kind = "ssh" /\ record[Password].state = "active"
<1>1. CASE InState("ssh", "active") = {}
  BY <1>1, SecretsAssumption DEF Password, SecretsAssumption
<1>2. CASE InState("ssh", "active") # {}
  BY <1>2 DEF Password, InState
<1> QED  BY <1>1, <1>2

\* Steps of an operation that saves a secret, up to the vault.
LEMMA SavingKeeps ==
  ASSUME CredentialInv, NEW q \in Secrets,
         BeginSetting(q) \/ BeginPassword(q) \/ Lock(q) \/ Reserve(q) \/ Put(q) \/ Verify(q)
  PROVE  CredentialInv'
<1>1. CASE BeginSetting(q)
  <2>1. CredentialTypes'
    BY <1>1 DEF BeginSetting, CredentialInv, CredentialTypes, SaveSteps
  <2>2. MaintenanceIsAlone' /\ (late \subseteq Secrets /\ todo \subseteq Secrets)'
    BY <1>1 DEF BeginSetting, CredentialInv, CredentialTypes, MaintenanceIsAlone, Holds
  <2>3. \A r \in Secrets : SecretInv(r)'
    BY <1>1 DEF BeginSetting, CredentialInv, CredentialTypes, SecretInv, Unused, Reserved
  <2> QED  BY <2>1, <2>2, <2>3 DEF CredentialInv
<1>2. CASE BeginPassword(q)
  <2>1. Password \in Secrets \cup {NoSecret}
    BY DEF Password, InState
  <2> HIDE DEF Password
  <2> QED  BY <1>2, <2>1 DEF BeginPassword, CredentialInv, CredentialTypes, SaveSteps, MaintenanceIsAlone, Holds, SecretInv, Unused, Reserved
<1>3. CASE Lock(q)
  <2>1. CredentialTypes'
    BY <1>3 DEF Lock, CredentialInv, CredentialTypes, SaveSteps
  <2>2. MaintenanceIsAlone' /\ (late \subseteq Secrets /\ todo \subseteq Secrets)'
    BY <1>3 DEF Lock, CredentialInv, CredentialTypes, MaintenanceIsAlone, Holds
  <2>3. \A r \in Secrets : SecretInv(r)'
    BY <1>3 DEF Lock, CredentialInv, CredentialTypes, SecretInv, Unused, Reserved
  <2> QED  BY <2>1, <2>2, <2>3 DEF CredentialInv
<1>4. CASE Reserve(q)
  <2>1. /\ save[q].at = "reserve" /\ UNCHANGED <<vault, late, setting, cleaning, todo, forgotten>>
        /\ \/ save' = [save EXCEPT ![q].at = "ended"] /\ UNCHANGED record
           \/ save' = [save EXCEPT ![q].at = "put"]
              /\ record' = [record EXCEPT ![q] = [state |-> "pending", kind |-> save[q].kind, old |-> FALSE]]
    BY <1>4 DEF Reserve, Pending
  <2>2. CASE save' = [save EXCEPT ![q].at = "ended"] /\ UNCHANGED record
    BY <2>1, <2>2 DEF CredentialInv, CredentialTypes, SaveSteps, MaintenanceIsAlone, Holds, SecretInv, Unused, Reserved
  <2>3. CASE /\ save' = [save EXCEPT ![q].at = "put"]
             /\ record' = [record EXCEPT ![q] = [state |-> "pending", kind |-> save[q].kind, old |-> FALSE]]
    <3>1. CredentialTypes' /\ MaintenanceIsAlone'
      BY SMTT(60), <2>1, <2>3 DEF CredentialInv, CredentialTypes, SaveSteps, MaintenanceIsAlone, Holds, SecretInv, Unused
    <3>2. \A r \in Secrets : SecretInv(r)'
      BY <2>1, <2>3 DEF CredentialInv, CredentialTypes, SaveSteps, SecretInv, Unused, Reserved
    <3> QED  BY <2>1, <3>1, <3>2 DEF CredentialInv
  <2> QED  BY <2>1, <2>2, <2>3
<1>5. CASE Put(q)
  <2>1. CredentialTypes'
    <3>1. \E next \in SaveSteps : save' = [save EXCEPT ![q].at = next]
      BY <1>5 DEF Put, SaveSteps
    <3>2. UNCHANGED <<record, setting>>
      BY <1>5 DEF Put
    <3> QED  BY <3>1, <3>2 DEF CredentialInv, CredentialTypes
  <2>2. MaintenanceIsAlone' /\ (late \subseteq Secrets /\ todo \subseteq Secrets)'
    BY <1>5 DEF Put, CredentialInv, CredentialTypes, MaintenanceIsAlone, Holds
  <2>3. \A r \in Secrets : SecretInv(r)'
    BY <1>5 DEF Put, CredentialInv, CredentialTypes, SecretInv, Unused, Reserved
  <2> QED  BY <2>1, <2>2, <2>3 DEF CredentialInv
<1>6. CASE Verify(q)
  <2>1. CredentialTypes'
    <3>1. (\E next \in SaveSteps : save' = [save EXCEPT ![q].at = next]) /\ UNCHANGED <<record, setting>>
      BY <1>6 DEF Verify, SaveSteps
    <3> QED  BY <3>1 DEF CredentialInv, CredentialTypes
  <2>2. MaintenanceIsAlone' /\ (late \subseteq Secrets /\ todo \subseteq Secrets)'
    BY <1>6 DEF Verify, CredentialInv, CredentialTypes, MaintenanceIsAlone, Holds
  <2>3. \A r \in Secrets : SecretInv(r)'
    <3>1. /\ save[q].at = "verify" /\ UNCHANGED <<record, vault, late, setting, forgotten>>
          /\ \E next \in {"commit", "retire"} : save' = [save EXCEPT ![q].at = next]
      BY <1>6 DEF Verify
    <3> QED  BY <3>1 DEF CredentialInv, CredentialTypes, SecretInv, Unused, Reserved
  <2> QED  BY <2>1, <2>2, <2>3 DEF CredentialInv
<1> QED  BY <1>1, <1>2, <1>3, <1>4, <1>5, <1>6

\* What becomes of a secret that is not saved by its operation.
LEMMA EndingKeeps ==
  ASSUME CredentialInv, NEW q \in Secrets,
         Retire(q) \/ Abandon(q) \/ SaverDies(q) \/ PutLate(q)
  PROVE  CredentialInv'
<1>1. CASE Retire(q)
  <2>0. /\ save[q].at = "retire" /\ save' = [save EXCEPT ![q].at = "ended"]
        /\ UNCHANGED <<vault, late, setting, cleaning, todo, forgotten>>
    BY <1>1 DEF Retire
  <2>10. q \in Holds /\ ~cleaning /\ ~cleaning'
    BY <2>0 DEF Holds, CredentialInv, MaintenanceIsAlone
  <2>1. CASE UNCHANGED record
    BY <2>0, <2>10, <2>1 DEF CredentialInv, CredentialTypes, SaveSteps, MaintenanceIsAlone, Holds, SecretInv, Unused, Reserved
  <2>2. CASE Retires({q}, {"pending"})
    <3>1. /\ record' \in [Secrets -> [state : {"none", "pending", "active", "retired"},
                                      kind : {"none", "setting", "ssh"}, old : BOOLEAN]]
          /\ \A r \in Secrets : /\ record'[r].kind = record[r].kind
                               /\ \/ record'[r].state = record[r].state
                                  \/ r = q /\ record[r].state = "pending" /\ record'[r].state = "retired"
      BY <2>2 DEF Retires, CredentialInv, CredentialTypes
    <3>3. CredentialTypes' /\ MaintenanceIsAlone' /\ (late \subseteq Secrets /\ todo \subseteq Secrets)'
      <4>1. save' \in [Secrets -> [at : SaveSteps, kind : {"none", "setting", "ssh"},
                                  expected : Secrets \cup {NoSecret}, revision : Nat]]
        BY <2>0 DEF CredentialInv, CredentialTypes, SaveSteps
      <4> QED  BY <2>0, <2>10, <3>1, <4>1 DEF CredentialInv, CredentialTypes, MaintenanceIsAlone
    <3>4. \A r \in Secrets : SecretInv(r)'
      BY <2>0, <3>1 DEF CredentialInv, CredentialTypes, SaveSteps, SecretInv, Unused, Reserved
    <3> QED  BY <3>3, <3>4 DEF CredentialInv
  <2> QED  BY <1>1, <2>1, <2>2 DEF Retire
<1>2. CASE Abandon(q)
  <2>1. CredentialTypes'
    BY <1>2 DEF Abandon, CredentialInv, CredentialTypes, SaveSteps
  <2>2. MaintenanceIsAlone' /\ (late \subseteq Secrets /\ todo \subseteq Secrets)'
    BY <1>2 DEF Abandon, CredentialInv, CredentialTypes, MaintenanceIsAlone, Holds
  <2>3. \A r \in Secrets : SecretInv(r)'
    BY <1>2 DEF Abandon, CredentialInv, CredentialTypes, SecretInv, Unused, Reserved
  <2> QED  BY <2>1, <2>2, <2>3 DEF CredentialInv
<1>3. CASE SaverDies(q)
  <2>1. CredentialTypes'
    BY <1>3 DEF SaverDies, CredentialInv, CredentialTypes, SaveSteps
  <2>2. MaintenanceIsAlone' /\ (late \subseteq Secrets /\ todo \subseteq Secrets)'
    BY <1>3 DEF SaverDies, CredentialInv, CredentialTypes, MaintenanceIsAlone, Holds
  <2>3. \A r \in Secrets : SecretInv(r)'
    BY <1>3 DEF SaverDies, CredentialInv, CredentialTypes, SecretInv, Unused, Reserved
  <2> QED  BY <2>1, <2>2, <2>3 DEF CredentialInv
<1>4. CASE PutLate(q)
  <2>1. CredentialTypes'
    BY <1>4 DEF PutLate, CredentialInv, CredentialTypes, SaveSteps
  <2>2. MaintenanceIsAlone' /\ (late \subseteq Secrets /\ todo \subseteq Secrets)'
    BY <1>4 DEF PutLate, CredentialInv, CredentialTypes, MaintenanceIsAlone, Holds
  <2>3. \A r \in Secrets : SecretInv(r)'
    BY <1>4 DEF PutLate, CredentialInv, CredentialTypes, SecretInv, Unused, Reserved
  <2> QED  BY <2>1, <2>2, <2>3 DEF CredentialInv
<1> QED  BY <1>1, <1>2, <1>3, <1>4

\* The new secret takes the place of the old one, of its own kind.
LEMMA CommitKeeps ==
  ASSUME CredentialInv, NEW q \in Secrets, Commit(q)
  PROVE  CredentialInv'
<1>1. CASE record' = record /\ setting' = setting
  BY SMTT(60), <1>1 DEF Commit, CredentialInv, CredentialTypes, SaveSteps, MaintenanceIsAlone, Holds, SecretInv, Unused, Reserved
<1>2. CASE save[q].kind = "ssh" /\ PasswordReplaced(q)
  <2> HIDE DEF Password
  <2>1. CASE save' = [save EXCEPT ![q].at = "ended"]
    BY <1>2, <2>1, PasswordIsActive DEF Commit, PasswordReplaced, CredentialInv, CredentialTypes, SaveSteps, MaintenanceIsAlone,
         Holds, SecretInv, Unused, Reserved
  <2> QED  BY <1>1, <1>2, <2>1 DEF Commit
<1>3. CASE save[q].kind # "ssh" /\ SettingReplaced(q)
  <2>1. CASE save' = [save EXCEPT ![q].at = "ended"]
    <3>1. /\ save[q].at = "commit" /\ UNCHANGED <<vault, late, cleaning, todo, forgotten>>
          /\ setting' = [secret |-> q, revision |-> setting.revision + 1]
          /\ record' = [r \in Secrets |-> IF r = q THEN [record[r] EXCEPT !.state = "active"]
                                        ELSE IF r = setting.secret THEN [record[r] EXCEPT !.state = "retired"]
                                        ELSE record[r]]
          /\ record[q].state = "pending"
      BY <1>3, <2>1 DEF Commit, SettingReplaced, CredentialInv, CredentialTypes
    <3>2. q \in Holds /\ ~cleaning /\ ~cleaning'
      BY <3>1 DEF Holds, CredentialInv, MaintenanceIsAlone
    <3>3. /\ record[q].kind = "setting" /\ q \in vault /\ q \notin forgotten /\ q # setting.secret
          /\ setting.secret \in Secrets => record[setting.secret].state = "active"
      <4>1. record[q].kind = save[q].kind /\ save[q].kind \in {"none", "setting", "ssh"} /\ q \in vault /\ q \notin forgotten
        BY <3>1 DEF CredentialInv, CredentialTypes, SecretInv, Reserved
      <4>2. q # setting.secret /\ (setting.secret \in Secrets => record[setting.secret].state = "active")
        BY <3>1 DEF CredentialInv, SecretInv
      <4>3. save[q].kind # "none"
        BY <3>1 DEF CredentialInv, SecretInv
      <4> QED  BY <1>3, <4>1, <4>2, <4>3
    <3>5. CredentialTypes'
      <4>1. save' \in [Secrets -> [at : SaveSteps, kind : {"none", "setting", "ssh"},
                                  expected : Secrets \cup {NoSecret}, revision : Nat]]
        BY <2>1 DEF CredentialInv, CredentialTypes, SaveSteps
      <4>2. record' \in [Secrets -> [state : {"none", "pending", "active", "retired"},
                                    kind : {"none", "setting", "ssh"}, old : BOOLEAN]]
        BY <3>1 DEF CredentialInv, CredentialTypes
      <4>3. setting' \in [secret : Secrets \cup {NoSecret}, revision : Nat]
        BY <3>1 DEF CredentialInv, CredentialTypes
      <4> QED  BY <4>1, <4>2, <4>3 DEF CredentialTypes
    <3>6. MaintenanceIsAlone' /\ (late \subseteq Secrets /\ todo \subseteq Secrets)'
      BY <3>1, <3>2 DEF CredentialInv, MaintenanceIsAlone
    <3>4. \A r \in Secrets : SecretInv(r)'
      BY <2>1, <3>1, <3>3 DEF CredentialInv, CredentialTypes, SaveSteps, SecretInv, Unused, Reserved
    <3> QED  BY <3>4, <3>5, <3>6 DEF CredentialInv
  <2> QED  BY <1>1, <1>3, <2>1 DEF Commit
<1> QED  BY <1>1, <1>2, <1>3 DEF Commit

\* Removing secrets, and the maintenance of the vault.
LEMMA RemovingKeeps ==
  ASSUME CredentialInv,
         \/ Unset \/ ForgetPassword \/ RemoveServer \/ DayPasses \/ CleanupBegins \/ CleanupEnds
         \/ \E q \in Secrets : CleanupOne(q)
  PROVE  CredentialInv'
<1>1. CASE Unset
  BY <1>1, SecretsAssumption DEF Unset, Retires, CredentialInv, CredentialTypes, MaintenanceIsAlone, Holds, SecretInv, Unused, Reserved, SecretsAssumption
<1>2. CASE ForgetPassword
  BY <1>2 DEF ForgetPassword, Forgets, Retires, InState, CredentialInv, CredentialTypes, MaintenanceIsAlone, Holds, SecretInv, Unused, Reserved
<1>3. CASE RemoveServer
  BY <1>3, SecretsAssumption DEF RemoveServer, Forgets, Retires, InState, CredentialInv, CredentialTypes, MaintenanceIsAlone, Holds, SecretInv, Unused, Reserved, SecretsAssumption
<1>4. CASE DayPasses
  <2>1. \A r \in Secrets : (record[r].old \/ record[r].state = "pending") \in BOOLEAN
    OBVIOUS
  <2> DEFINE Old(r) == record[r].old \/ record[r].state = "pending"
  <2>2. record' = [r \in Secrets |-> [record[r] EXCEPT !.old = Old(r)]]
    BY <1>4, Zenon DEF DayPasses
  <2> HIDE DEF Old
  <2>3. /\ record' \in [Secrets -> [state : {"none", "pending", "active", "retired"},
                                    kind : {"none", "setting", "ssh"}, old : BOOLEAN]]
        /\ \A r \in Secrets : record'[r].state = record[r].state /\ record'[r].kind = record[r].kind
    <3>1. \A r \in Secrets : Old(r) \in BOOLEAN
      BY <2>1, Zenon DEF Old
    <3> QED  BY <2>2, <3>1 DEF CredentialInv, CredentialTypes
  <2>4. UNCHANGED <<vault, save, late, setting, cleaning, todo, forgotten>>
    BY <1>4 DEF DayPasses
  <2> QED  BY <2>3, <2>4 DEF CredentialInv, CredentialTypes, MaintenanceIsAlone, Holds, SecretInv, Unused, Reserved
<1>5. CASE CleanupBegins
  BY <1>5 DEF CleanupBegins, Disposable, Retires, CredentialInv, CredentialTypes, MaintenanceIsAlone, Holds, SecretInv, Unused, Reserved
<1>6. CASE CleanupEnds
  BY <1>6 DEF CleanupEnds, CredentialInv, CredentialTypes, MaintenanceIsAlone, Holds, SecretInv, Unused, Reserved
<1>7. ASSUME NEW q \in Secrets, CleanupOne(q) PROVE CredentialInv'
  <2>1. /\ record[q].state = "retired" /\ Holds = {} /\ q \in todo
        /\ UNCHANGED <<save, late, setting, cleaning, forgotten>>
    BY <1>7 DEF CleanupOne, CredentialInv, MaintenanceIsAlone
  <2>2. CASE vault' = vault \ {q} /\ UNCHANGED <<record, todo>>
    BY <2>1, <2>2 DEF CredentialInv, CredentialTypes, SaveSteps, MaintenanceIsAlone, Holds, SecretInv, Unused, Reserved
  <2>3. CASE /\ q \notin vault /\ record' = [record EXCEPT ![q] = NoRecord] /\ todo' = todo \ {q}
             /\ UNCHANGED vault
    <3>1. CredentialTypes' /\ MaintenanceIsAlone' /\ (late \subseteq Secrets /\ todo \subseteq Secrets)'
      BY <2>1, <2>3 DEF NoRecord, CredentialInv, CredentialTypes, SaveSteps, MaintenanceIsAlone, Holds
    <3>2. \A r \in Secrets : SecretInv(r)'
      BY <2>1, <2>3 DEF NoRecord, CredentialInv, CredentialTypes, SaveSteps, Holds, SecretInv, Unused, Reserved
    <3> QED  BY <3>1, <3>2 DEF CredentialInv
  <2>4. CASE todo' = todo \ {q} /\ UNCHANGED <<record, vault>>
    BY <2>1, <2>4 DEF CredentialInv, CredentialTypes, SaveSteps, MaintenanceIsAlone, Holds, SecretInv, Unused, Reserved
  <2> QED  BY <1>7, <2>2, <2>3, <2>4 DEF CleanupOne
<1> QED  BY <1>1, <1>2, <1>3, <1>4, <1>5, <1>6, <1>7

\* Whatever is abandoned, fails, crashes or is saved, forgotten and cleaned up at the same time, a
\* secret in use is in the vault, and none is in the vault without a record (credentials.rs).
THEOREM SecretsAreAlwaysKnown == CredentialsSpec => []SecretsAreKnown
<1>1. CredentialInv /\ [CredentialsNext]_credentialVars => CredentialInv'
  <2>1. ASSUME CredentialInv, UNCHANGED credentialVars PROVE CredentialInv'
    BY <2>1 DEF credentialVars, CredentialInv, CredentialTypes, MaintenanceIsAlone, Holds, SecretInv, Unused, Reserved
  <2> QED  BY <2>1, SavingKeeps, EndingKeeps, CommitKeeps, RemovingKeeps DEF CredentialsNext
<1> QED  BY <1>1, CredentialInitially, CredentialImplies, PTL DEF CredentialsSpec

(***************************************************************************)
(* WorkspaceUse.                                                           *)
(***************************************************************************)

UseKinds == Inside \cup Outside \cup Removals
UseSteps == {"free", "connect", "lock", "remember", "insert", "open", "guard", "work", "draining",
             "killing", "close files", "delete"}
Closings == {"open", "closing", "shells closed", "files closed", "closed"}

UseRecord == [kind : UseKinds \cup {Nothing}, pane : Panes \cup {Nothing}, at : UseSteps,
              about : Commands \cup Panes \cup {Nothing}, lock : {"none", "shared", "exclusive"}]

UseTypes ==
  /\ rows \in [server : BOOLEAN, workspace : BOOLEAN]
  /\ panes \in [Panes -> Closings]
  /\ use \in [Commands -> UseRecord]

\* Where a command is tells what it is about to do, and the lock it has.
Place(x) ==
  /\ x.at # "free" => x.kind \in UseKinds /\ x.pane \in Panes
  /\ x.at = "connect" => x.kind \in Files \cup {"session"} \cup Outside
  /\ x.at = "lock" => x.kind \notin {"fileshell", "edit"}
  /\ x.at = "remember" => x.kind = "workspace"
  /\ x.at \in {"insert", "open"} => x.kind \notin {"edit"} \cup Removals
  /\ x.at \in {"guard", "work"} => x.kind \in {"fileshell", "edit"}
  /\ x.at = "killing" => x.kind \in {"shell", "fileshell"}
  /\ x.at \in {"close files", "delete"} => x.kind \in Removals
  /\ x.at = "delete" => x.lock = "exclusive"
  /\ \/ x.at \in {"remember", "insert", "open", "work", "killing"}
     \/ x.at = "connect" /\ x.kind \in Outside
     => x.lock = "shared"
  /\ x.lock = "shared" => x.kind \in Inside \cup Outside
  /\ x.lock = "exclusive" => x.kind \in Removals /\ x.at = "delete"

\* Who removes something has the lock of all that is inside alone.
Agree(x, y) ==
  x.lock = "exclusive" /\ y.lock # "none" => x.kind = "drop workspace" /\ y.kind \in Outside

\* How far the closing of a window has come tells what is no longer open in it.
ClosedSoFar(x) ==
  x.at = "open" /\ x.pane \in Panes =>
    /\ panes[x.pane] \in {"shells closed", "files closed", "closed"} => x.kind \notin {"shell", "fileshell", "browser"}
    /\ panes[x.pane] \in {"files closed", "closed"} => x.kind \notin Files
    /\ panes[x.pane] # "closed"

Remembered(x) == x.kind = "workspace" /\ x.at \in {"insert", "open"} => rows.workspace

UseInv ==
  /\ UseTypes
  /\ \A t \in Commands : Place(use[t])
  /\ \A t, u \in Commands : t # u => Agree(use[t], use[u])
  /\ \A t \in Commands : ClosedSoFar(use[t])
  /\ \A t \in Commands : Remembered(use[t])

LEMMA UseInitially == UseInit => UseInv
<1> SUFFICES ASSUME UseInit PROVE UseInv
  OBVIOUS
<1>1. Free \in UseRecord
  BY DEF Free, UseRecord, UseSteps
<1>2. UseTypes
  BY <1>1 DEF UseInit, UseTypes, Closings
<1>3. \A t \in Commands : use[t].at = "free" /\ use[t].lock = "none"
  BY DEF UseInit, Free
<1> QED  BY <1>2, <1>3 DEF UseInv, Place, Agree, ClosedSoFar, Remembered

LEMMA UseImplies == UseInv => UseIsExclusive
<1> SUFFICES ASSUME UseInv PROVE UseIsExclusive
  OBVIOUS
<1>1. RemovalIsExclusive
  <2> SUFFICES ASSUME NEW t \in Commands, NEW u \in Commands, Step(t, "delete"), InUse(u)
               PROVE  IsA(t, {"drop workspace"}) /\ ~IsA(u, Inside)
    BY DEF RemovalIsExclusive
  <2>1. Place(use[t]) /\ Place(use[u]) /\ (t # u => Agree(use[t], use[u]))
    BY DEF UseInv
  <2> QED  BY <2>1 DEF Place, Agree, Step, InUse, IsA, Inside, Outside, Files
<1>2. ShownIsSaved
  BY DEF UseInv, Remembered, ShownIsSaved, IsOpen, Step, IsA
<1>3. ClosedIsClosed
  BY DEF UseInv, ClosedSoFar, ClosedIsClosed, IsOpen, Step
<1> QED  BY <1>1, <1>2, <1>3 DEF UseIsExclusive

\* A state of one command that goes with the rest.
Fits(x, t) ==
  /\ x \in UseRecord /\ Place(x) /\ ClosedSoFar(x) /\ Remembered(x)
  /\ \A u \in Commands \ {t} : Agree(x, use[u]) /\ Agree(use[u], x)

LEMMA OneMoves ==
  ASSUME UseInv, NEW t \in Commands, NEW x, Fits(x, t), use' = [use EXCEPT ![t] = x], UNCHANGED <<rows, panes>>
  PROVE  UseInv'
<1>1. \A u \in Commands : use'[u] = IF u = t THEN x ELSE use[u]
  BY DEF UseInv, UseTypes
<1>2. UseTypes'
  BY DEF UseInv, UseTypes, Fits
<1>3. \A u \in Commands : Place(use'[u]) /\ ClosedSoFar(use'[u]) /\ Remembered(use'[u])
  BY <1>1 DEF UseInv, Fits
<1>4. \A u, v \in Commands : u # v => Agree(use'[u], use'[v])
  BY <1>1 DEF UseInv, Fits
<1>5. \A u \in Commands : ClosedSoFar(use[u])' /\ Remembered(use[u])'
  BY <1>3 DEF ClosedSoFar, Remembered
<1> QED  BY <1>2, <1>3, <1>4, <1>5 DEF UseInv

\* A command that keeps its kind, window and lock, or has none, goes with the locks of the others.
LEMMA LockKept ==
  ASSUME UseInv, NEW t \in Commands, NEW x,
         x.lock = "none" \/ (x.lock = use[t].lock /\ x.kind = use[t].kind)
  PROVE  \A u \in Commands \ {t} : Agree(x, use[u]) /\ Agree(use[u], x)
BY DEF UseInv, Agree

LEMMA FreeFits == ASSUME UseInv, NEW t \in Commands PROVE Fits(Free, t)
<1>1. Free \in UseRecord /\ Free.at = "free" /\ Free.lock = "none"
  BY DEF Free, UseRecord, UseSteps
<1>2. Place(Free) /\ ClosedSoFar(Free) /\ Remembered(Free)
  BY <1>1 DEF Place, ClosedSoFar, Remembered
<1> QED  BY <1>1, <1>2, LockKept DEF Fits

LEMMA OneGoes == ASSUME UseInv, NEW t \in Commands, Gone(t), Same PROVE UseInv'
BY FreeFits, OneMoves DEF Gone, Same

\* A command that only goes on, from a place it may be at to the next.
LEMMA GoingOnFits ==
  ASSUME UseInv, NEW t \in Commands, NEW at \in UseSteps \ {"open"},
         Place([use[t] EXCEPT !.at = at]), Remembered([use[t] EXCEPT !.at = at])
  PROVE  Fits([use[t] EXCEPT !.at = at], t)
<1> DEFINE x == [use[t] EXCEPT !.at = at]
<1>1. x \in UseRecord /\ x.lock = use[t].lock /\ x.kind = use[t].kind /\ x.at = at
  BY DEF UseInv, UseTypes, UseRecord
<1>2. ClosedSoFar(x)
  BY <1>1 DEF ClosedSoFar
<1> QED  BY <1>1, <1>2, LockKept DEF Fits

LEMMA BeginUseKeeps == ASSUME UseInv, NEW t \in Commands, BeginUse(t) PROVE UseInv'
<1>1. PICK w \in Panes, k \in UseKinds, h \in Commands \cup {Nothing} :
        /\ use' = [use EXCEPT ![t] = [Free EXCEPT !.kind = k, !.pane = w, !.at = First(k), !.about = h]]
        /\ UNCHANGED <<rows, panes>>
  BY DEF BeginUse, Same, UseKinds, Subject, OfWindow
<1> DEFINE x == [Free EXCEPT !.kind = k, !.pane = w, !.at = First(k), !.about = h]
<1>2. First(k) \in {"lock", "guard", "close files", "connect"}
  BY DEF First
<1>3. /\ x \in UseRecord
      /\ x.kind = k /\ x.pane = w /\ x.at = First(k) /\ x.lock = "none"
  <2> HIDE DEF First
  <2>1. First(k) \in UseSteps
    BY <1>2 DEF UseSteps
  <2>2. Free \in UseRecord /\ Free.lock = "none"
    BY DEF Free, UseRecord, UseSteps
  <2> QED  BY <2>1, <2>2 DEF UseRecord
<1>4. Place(x)
  BY <1>2, <1>3 DEF Place, First, UseKinds, Inside, Outside, Removals, Files
<1>5. ClosedSoFar(x) /\ Remembered(x)
  BY <1>2, <1>3 DEF ClosedSoFar, Remembered
<1>6. \A u \in Commands \ {t} : Agree(x, use[u]) /\ Agree(use[u], x)
  BY <1>3, LockKept
<1>7. Fits(x, t)
  BY <1>3, <1>4, <1>5, <1>6 DEF Fits
<1> QED  BY <1>1, <1>7, OneMoves

LEMMA ReachKeeps == ASSUME UseInv, NEW t \in Commands, Reach(t) PROVE UseInv'
<1> DEFINE at == IF IsA(t, Outside) THEN "insert" ELSE "lock"
<1>1. use' = [use EXCEPT ![t] = [use[t] EXCEPT !.at = at]] /\ UNCHANGED <<rows, panes>> /\ use[t].at = "connect"
  BY DEF Reach, GoesOn, Same, Step, UseInv, UseTypes, UseRecord
<1>2. Place(use[t]) /\ use[t] \in UseRecord
  BY DEF UseInv, UseTypes
<1>3. Place([use[t] EXCEPT !.at = at])
  BY <1>1, <1>2 DEF Place, UseRecord, IsA, Files, Inside, Outside, Removals, UseKinds
<1>4. Remembered([use[t] EXCEPT !.at = at])
  BY <1>1, <1>2 DEF Place, Remembered, UseRecord, IsA, Files, Inside, Outside
<1> QED  BY <1>1, <1>3, <1>4, GoingOnFits, OneMoves DEF UseSteps

LEMMA LockSharedKeeps == ASSUME UseInv, NEW t \in Commands, LockShared(t) PROVE UseInv'
<1> DEFINE at == IF IsA(t, Outside) THEN "connect" ELSE IF IsA(t, {"workspace"}) THEN "remember" ELSE "insert"
           x == [use[t] EXCEPT !.lock = "shared", !.at = at]
<1>1. /\ use' = [use EXCEPT ![t] = x] /\ UNCHANGED <<rows, panes>>
      /\ use[t].at = "lock" /\ use[t].kind \notin Removals
  BY DEF LockShared, Same, Step, IsA, UseInv, UseTypes, UseRecord
<1>2. Place(use[t]) /\ use[t] \in UseRecord
  BY DEF UseInv, UseTypes
<1>3. x \in UseRecord /\ x.lock = "shared" /\ x.at = at /\ x.kind = use[t].kind /\ x.pane = use[t].pane
  BY <1>2 DEF UseRecord, UseSteps
<1>10. use[t].kind \in {"context", "workspace", "session", "browser", "shell"}
  BY <1>1, <1>2 DEF Place, Files, Inside, Outside, Removals, UseKinds
<1>11. /\ use[t].kind \in UseKinds /\ use[t].kind \notin {"edit"} \cup Removals
       /\ use[t].kind \in Inside \cup Outside
  BY <1>10 DEF Files, Inside, Outside, Removals, UseKinds
<1>4. Place(x)
  BY <1>1, <1>2, <1>3, <1>11 DEF Place, IsA
<1>5. ClosedSoFar(x) /\ Remembered(x)
  BY <1>3 DEF ClosedSoFar, Remembered, IsA, Outside
<1>6. \A u \in Commands \ {t} : Agree(x, use[u]) /\ Agree(use[u], x)
  <2> SUFFICES ASSUME NEW u \in Commands \ {t}, use[u].lock = "exclusive"
               PROVE  use[u].kind = "drop workspace" /\ x.kind \in Outside
    BY <1>3 DEF Agree
  <2>1. ~Excludes(u, use[t].kind) /\ Place(use[u])
    BY DEF LockShared, Shared, UseInv
  <2> QED  BY <1>1, <1>2, <1>3, <2>1 DEF Excludes, IsA, Place, Removals, UseKinds
<1> QED  BY <1>1, <1>3, <1>4, <1>5, <1>6, OneMoves DEF Fits

LEMMA RememberKeeps == ASSUME UseInv, NEW t \in Commands, Remember(t) PROVE UseInv'
<1> DEFINE x == [use[t] EXCEPT !.at = "insert"]
<1>1. /\ use' = [use EXCEPT ![t] = x] /\ UNCHANGED panes /\ rows' = [rows EXCEPT !.workspace = TRUE]
      /\ use[t].at = "remember"
  BY DEF Remember, GoesOn, Step, UseInv, UseTypes, UseRecord
<1>2. Place(use[t]) /\ use[t] \in UseRecord
  BY DEF UseInv, UseTypes
<1>3. x \in UseRecord /\ x.lock = use[t].lock /\ x.at = "insert" /\ x.kind = use[t].kind
  BY <1>2 DEF UseRecord, UseSteps
<1>10. /\ use[t].kind = "workspace" /\ "workspace" \in UseKinds /\ "workspace" \in Inside
       /\ "workspace" \notin {"edit"} \cup Removals
  BY <1>1, <1>2 DEF Place, Files, Inside, Removals, UseKinds
<1>4. Place(x)
  BY <1>1, <1>2, <1>3, <1>10 DEF Place
<1>5. \A u \in Commands : use'[u] = IF u = t THEN x ELSE use[u]
  BY <1>1 DEF UseInv, UseTypes
<1>6. UseTypes' /\ rows'.workspace
  BY <1>1, <1>3 DEF UseInv, UseTypes
<1>7. \A u, v \in Commands : u # v => Agree(use'[u], use'[v])
  <2>1. \A u \in Commands \ {t} : Agree(x, use[u]) /\ Agree(use[u], x)
    BY <1>3, LockKept
  <2> QED  BY <1>5, <2>1 DEF UseInv
<1>8. \A u \in Commands : Place(use'[u]) /\ ClosedSoFar(use'[u])
  BY <1>3, <1>4, <1>5 DEF UseInv, ClosedSoFar
<1>9. \A u \in Commands : ClosedSoFar(use[u])' /\ Remembered(use[u])'
  BY <1>1, <1>6, <1>8 DEF ClosedSoFar, Remembered
<1> QED  BY <1>6, <1>7, <1>8, <1>9 DEF UseInv

LEMMA InsertKeeps == ASSUME UseInv, NEW t \in Commands, Insert(t) PROVE UseInv'
<1>1. CASE Closing(t)
  BY <1>1, OneGoes DEF Insert
<1>2. CASE ~Closing(t)
  <2> DEFINE x == [use[t] EXCEPT !.at = "open"]
  <2>1. use' = [use EXCEPT ![t] = x] /\ UNCHANGED <<rows, panes>> /\ use[t].at = "insert"
    BY <1>2 DEF Insert, GoesOn, Step, Same, UseInv, UseTypes, UseRecord
  <2>2. Place(use[t]) /\ use[t] \in UseRecord /\ Remembered(use[t])
    BY DEF UseInv, UseTypes
  <2>3. /\ x \in UseRecord /\ x.lock = use[t].lock /\ x.at = "open" /\ x.kind = use[t].kind
        /\ x.pane = use[t].pane
    BY <2>2 DEF UseRecord, UseSteps
  <2>4. Place(x) /\ Remembered(x)
    BY <2>1, <2>2, <2>3 DEF Place, Remembered, Files, Inside, Outside, Removals, UseKinds
  <2>5. ClosedSoFar(x)
    <3>1. use[t].kind # "session" => panes[use[t].pane] = "open"
      BY <1>2 DEF Closing, IsA
    <3>2. use[t].kind = "session" => panes[use[t].pane] # "closed"
      BY <1>2 DEF Closing, IsA
    <3> QED  BY <2>3, <3>1, <3>2 DEF ClosedSoFar, Files
  <2>6. Fits(x, t)
    BY <2>3, <2>4, <2>5, LockKept DEF Fits
  <2> QED  BY <2>1, <2>6, OneMoves
<1> QED  BY <1>1, <1>2

\* The ends: of work on a handle, of a shell, of a command.
LEMMA EndingOneKeeps ==
  ASSUME UseInv, NEW t \in Commands,
         Finish(t) \/ Drained(t) \/ CloseShell(t) \/ Killed(t) \/ CloseOther(t) \/ Abandons(t)
  PROVE  UseInv'
<1>1. CASE Drained(t) \/ Killed(t) \/ CloseOther(t) \/ Abandons(t)
  BY <1>1, OneGoes DEF Drained, Killed, CloseOther, Abandons
<1>2. CASE CloseShell(t)
  <2>1. /\ use' = [use EXCEPT ![t] = [use[t] EXCEPT !.at = "killing"]] /\ UNCHANGED <<rows, panes>>
        /\ use[t].at = "open" /\ use[t].kind \in {"shell", "fileshell"}
    BY <1>2 DEF CloseShell, GoesOn, Same, IsOpen, Step, IsA, UseInv, UseTypes, UseRecord
  <2>2. Place(use[t]) /\ use[t] \in UseRecord
    BY DEF UseInv, UseTypes
  <2>3. Place([use[t] EXCEPT !.at = "killing"]) /\ Remembered([use[t] EXCEPT !.at = "killing"])
    BY <2>1, <2>2 DEF Place, Remembered, UseRecord
  <2> QED  BY <2>1, <2>3, GoingOnFits, OneMoves DEF UseSteps
<1>3. CASE Finish(t) /\ ~IsA(t, {"fileshell"})
  BY <1>3, OneGoes DEF Finish
<1>4. CASE Finish(t) /\ IsA(t, {"fileshell"})
  <2> DEFINE x == [use[t] EXCEPT !.at = "insert", !.about = Nothing]
  <2>1. /\ use' = [use EXCEPT ![t] = x] /\ UNCHANGED <<rows, panes>>
        /\ use[t].at = "work" /\ use[t].kind = "fileshell"
    BY <1>4 DEF Finish, Same, Step, IsA, UseInv, UseTypes, UseRecord
  <2>2. Place(use[t]) /\ use[t] \in UseRecord
    BY DEF UseInv, UseTypes
  <2>3. x \in UseRecord /\ x.lock = use[t].lock /\ x.at = "insert" /\ x.kind = "fileshell" /\ x.pane = use[t].pane
    BY <2>1, <2>2 DEF UseRecord, UseSteps
  <2>4. Place(x) /\ Remembered(x) /\ ClosedSoFar(x)
    BY <2>1, <2>2, <2>3 DEF Place, Remembered, ClosedSoFar, Files, Inside, Removals, UseKinds
  <2>5. Fits(x, t)
    BY <2>1, <2>3, <2>4, LockKept DEF Fits
  <2> QED  BY <2>1, <2>5, OneMoves
<1> QED  BY <1>1, <1>2, <1>3, <1>4

LEMMA GuardKeeps == ASSUME UseInv, NEW t \in Commands, Guard(t) PROVE UseInv'
<1> DEFINE x == [use[t] EXCEPT !.lock = "shared", !.at = "work"]
<1>1. /\ use' = [use EXCEPT ![t] = x] /\ UNCHANGED <<rows, panes>> /\ use[t].at = "guard"
  BY DEF Guard, Guarded, Same, Step, UseInv, UseTypes, UseRecord
<1>2. Place(use[t]) /\ use[t] \in UseRecord
  BY DEF UseInv, UseTypes
<1>3. x \in UseRecord /\ x.lock = "shared" /\ x.at = "work" /\ x.kind = use[t].kind /\ x.pane = use[t].pane
  BY <1>2 DEF UseRecord, UseSteps
<1>4. use[t].kind \in {"fileshell", "edit"} /\ use[t].kind \in Inside
  BY <1>1, <1>2 DEF Place, Inside
<1>5. Place(x) /\ ClosedSoFar(x) /\ Remembered(x)
  BY <1>1, <1>2, <1>3, <1>4 DEF Place, ClosedSoFar, Remembered
<1>6. \A u \in Commands \ {t} : Agree(x, use[u]) /\ Agree(use[u], x)
  <2> SUFFICES ASSUME NEW u \in Commands \ {t}, use[u].lock = "exclusive"
               PROVE  FALSE
    BY <1>3 DEF Agree
  <2>1. ~Excludes(u, use[t].kind)
    BY DEF Guard, Shared
  <2> QED  BY <1>4, <2>1 DEF Excludes
<1> QED  BY <1>1, <1>3, <1>5, <1>6, OneMoves DEF Fits

LEMMA LockAloneKeeps == ASSUME UseInv, NEW t \in Commands, LockAlone(t) PROVE UseInv'
<1> DEFINE x == [use[t] EXCEPT !.lock = "exclusive", !.at = "delete"]
<1>1. /\ use' = [use EXCEPT ![t] = x] /\ UNCHANGED <<rows, panes>>
      /\ use[t].at = "lock" /\ use[t].kind \in Removals
  BY DEF LockAlone, Same, Step, IsA, UseInv, UseTypes, UseRecord
<1>2. Place(use[t]) /\ use[t] \in UseRecord
  BY DEF UseInv, UseTypes
<1>3. x \in UseRecord /\ x.lock = "exclusive" /\ x.at = "delete" /\ x.kind = use[t].kind /\ x.pane = use[t].pane
  BY <1>2 DEF UseRecord, UseSteps
<1>4. Place(x) /\ ClosedSoFar(x) /\ Remembered(x)
  BY <1>1, <1>2, <1>3 DEF Place, ClosedSoFar, Remembered
<1>5. ASSUME NEW u \in Commands \ {t}, use[u].lock # "none"
      PROVE  use[t].kind = "drop workspace" /\ use[u].kind \in Outside /\ use[u].lock # "exclusive"
  <2>1. use[t].kind = "drop workspace" /\ use[u].kind \notin Inside \cup {"drop workspace", "drop server"}
    BY <1>5 DEF LockAlone, IsA
  <2>2. Place(use[u]) /\ use[u] \in UseRecord
    BY DEF UseInv, UseTypes
  <2> QED  BY <1>5, <2>1, <2>2 DEF Place, UseRecord, Removals
<1>6. \A u \in Commands \ {t} : Agree(x, use[u]) /\ Agree(use[u], x)
  BY <1>3, <1>5 DEF Agree
<1> QED  BY <1>1, <1>3, <1>4, <1>6, OneMoves DEF Fits

\* While rows are deleted nobody shows or enters a workspace.
LEMMA DeleteKeeps == ASSUME UseInv, NEW t \in Commands, Delete(t) PROVE UseInv'
<1>1. /\ use' = [use EXCEPT ![t] = Free] /\ UNCHANGED panes /\ use[t].at = "delete"
      /\ rows' = [server |-> rows.server /\ ~IsA(t, {"drop server"}), workspace |-> FALSE]
  BY DEF Delete, Gone, Step
<1>2. Fits(Free, t)
  BY FreeFits
<1>3. \A u \in Commands : use'[u] = IF u = t THEN Free ELSE use[u]
  BY <1>1 DEF UseInv, UseTypes
<1>4. (rows.server /\ ~IsA(t, {"drop server"})) \in BOOLEAN
  BY Zenon
<1>5. UseTypes'
  BY <1>1, <1>2, <1>4 DEF UseInv, UseTypes, Fits
<1>6. \A u, v \in Commands : u # v => Agree(use'[u], use'[v])
  BY <1>2, <1>3 DEF UseInv, Fits
<1>7. \A u \in Commands : Place(use'[u]) /\ ClosedSoFar(use'[u])
  BY <1>2, <1>3 DEF UseInv, Fits
<1>8. ASSUME NEW u \in Commands, use'[u].kind = "workspace", use'[u].at \in {"insert", "open"} PROVE FALSE
  <2>1. u # t
    BY <1>3, <1>8 DEF Free
  <2>2. use[u].kind = "workspace" /\ use[u].at \in {"insert", "open"} /\ Place(use[u]) /\ Place(use[t]) /\ Agree(use[t], use[u])
    BY <1>3, <1>8, <2>1 DEF UseInv
  <2> QED  BY <1>1, <2>2 DEF Place, Agree, Outside
<1>9. \A u \in Commands : ClosedSoFar(use[u])' /\ Remembered(use[u])'
  BY <1>1, <1>7, <1>8 DEF ClosedSoFar, Remembered
<1> QED  BY <1>5, <1>6, <1>7, <1>9 DEF UseInv

\* Several commands fall back at once: they leave their table and give up their lock, while the
\* windows may go on closing.
Falls(x) == x \in UseRecord /\ Place(x) /\ x.lock = "none" /\ x.at \notin {"insert", "open"}

LEMMA ManyFall ==
  ASSUME UseInv, use' = [h \in Commands |-> use'[h]],
         \A h \in Commands : use'[h] = use[h] \/ Falls(use'[h]),
         panes' \in [Panes -> Closings], UNCHANGED rows,
         \A h \in Commands : ClosedSoFar(use[h])'
  PROVE  UseInv'
<1>1. UseTypes'
  <2>1. \A h \in Commands : use'[h] \in UseRecord
    BY DEF Falls, UseInv, UseTypes
  <2> QED  BY <2>1 DEF UseInv, UseTypes
<1>2. \A h \in Commands : Place(use'[h]) /\ Remembered(use'[h])
  BY DEF Falls, UseInv, Remembered
<1>3. \A u, v \in Commands : u # v => Agree(use'[u], use'[v])
  BY DEF Falls, UseInv, Agree
<1>4. \A h \in Commands : Remembered(use[h])'
  BY <1>2 DEF Remembered
<1> QED  BY <1>1, <1>2, <1>3, <1>4 DEF UseInv

LEMMA FreeFalls == Falls(Free) /\ Free.at = "free"
BY DEF Falls, Place, Free, UseRecord, UseSteps

LEMMA DrainingFalls ==
  ASSUME UseInv, NEW h \in Commands, use[h].kind \in Files, use[h].at = "open", NEW by \in Commands \cup Panes \cup {Nothing}
  PROVE  LET x == [use[h] EXCEPT !.at = "draining", !.lock = "none", !.about = by]
         IN  Falls(x) /\ x.at = "draining"
<1> DEFINE x == [use[h] EXCEPT !.at = "draining", !.lock = "none", !.about = by]
<1>1. use[h] \in UseRecord /\ Place(use[h])
  BY DEF UseInv, UseTypes
<1>2. x \in UseRecord /\ x.at = "draining" /\ x.lock = "none" /\ x.kind = use[h].kind /\ x.pane = use[h].pane
  BY <1>1 DEF UseRecord, UseSteps
<1> QED  BY <1>1, <1>2 DEF Falls, Place

\* Nothing is open that was not.
LEMMA PanesStay ==
  ASSUME UseInv, UNCHANGED panes, \A h \in Commands : use'[h] = use[h] \/ use'[h].at # "open"
  PROVE  \A h \in Commands : ClosedSoFar(use[h])'
BY DEF UseInv, ClosedSoFar

LEMMA CloseFileKeeps == ASSUME UseInv, NEW t \in Commands, CloseFile(t) PROVE UseInv'
<1> DEFINE x == [use[t] EXCEPT !.at = "draining", !.lock = "none", !.about = Nothing]
<1>1. /\ use' = [h \in Commands |-> IF h = t THEN x ELSE use[h]] /\ UNCHANGED <<rows, panes>>
      /\ use[t].kind \in Files /\ use[t].at = "open"
  BY DEF CloseFile, Closes, Same, IsA, IsOpen, Step
<1>2. Falls(x) /\ x.at = "draining"
  BY <1>1, DrainingFalls
<1>3. \A h \in Commands : use'[h] = IF h = t THEN x ELSE use[h]
  BY <1>1
<1>4. \A h \in Commands : ClosedSoFar(use[h])'
  BY <1>1, <1>2, <1>3, PanesStay
<1>5. use' = [h \in Commands |-> use'[h]] /\ panes' \in [Panes -> Closings]
  BY <1>1 DEF UseInv, UseTypes
<1> QED  BY <1>1, <1>2, <1>3, <1>4, <1>5, ManyFall

LEMMA CloseOwnKeeps == ASSUME UseInv, NEW t \in Commands, CloseOwn(t) PROVE UseInv'
<1> DEFINE x == [use[t] EXCEPT !.at = "lock"]
           Drains(h) == [use[h] EXCEPT !.at = "draining", !.lock = "none", !.about = t]
<1>1. /\ use[t].at = "close files" /\ UNCHANGED <<rows, panes>> /\ use' = [h \in Commands |-> use'[h]]
      /\ \A h \in Commands : \/ use'[h] = use[h] \/ use'[h] = Free
                             \/ h = t /\ use'[h] = x
                             \/ use[h].kind \in Files /\ use[h].at = "open" /\ use'[h] = Drains(h)
  BY DEF CloseOwn, Same, OfWindow, IsA, IsOpen, Step
<1>2. Falls(x) /\ x.at = "lock"
  <2>1. use[t] \in UseRecord /\ Place(use[t])
    BY DEF UseInv, UseTypes
  <2>2. x \in UseRecord /\ x.at = "lock" /\ x.lock = use[t].lock /\ x.kind = use[t].kind /\ x.pane = use[t].pane
    BY <2>1 DEF UseRecord, UseSteps
  <2>3. use[t].kind \in Removals /\ use[t].lock = "none"
    BY <1>1, <2>1 DEF Place, UseRecord, Removals, Inside, Outside, Files
  <2> QED  BY <1>1, <2>1, <2>2, <2>3 DEF Falls, Place, Removals
<1>3. \A h \in Commands : use'[h] = use[h] \/ (Falls(use'[h]) /\ use'[h].at # "open")
  <2> SUFFICES ASSUME NEW h \in Commands, use[h].kind \in Files, use[h].at = "open"
               PROVE  Falls(Drains(h)) /\ Drains(h).at # "open"
    BY <1>1, <1>2, FreeFalls
  <2> QED  BY DrainingFalls
<1>4. \A h \in Commands : ClosedSoFar(use[h])'
  BY <1>1, <1>3, PanesStay
<1>5. panes' \in [Panes -> Closings]
  BY <1>1 DEF UseInv, UseTypes
<1> QED  BY <1>1, <1>3, <1>4, <1>5, ManyFall

\* The closing of a window.
LEMMA ClosingKeeps ==
  ASSUME UseInv, NEW w \in Panes,
         ClosePane(w) \/ CloseShells(w) \/ CloseFiles(w) \/ CloseSessions(w) \/ Reopen(w)
  PROVE  UseInv'
<1>1. PICK from \in Closings, to \in Closings : Advances(w, from, to)
  BY DEF ClosePane, CloseShells, CloseFiles, CloseSessions, Reopen, Closings
<1>2. /\ panes' = [panes EXCEPT ![w] = to] /\ panes[w] = from /\ UNCHANGED rows
      /\ panes' \in [Panes -> Closings]
      /\ \A v \in Panes : panes'[v] = IF v = w THEN to ELSE panes[v]
  BY <1>1 DEF Advances, UseInv, UseTypes
<1>3. /\ use' = [h \in Commands |-> use'[h]]
      /\ \A h \in Commands : use'[h] = use[h] \/ Falls(use'[h])
  <2>1. CASE ClosePane(w) \/ CloseShells(w) \/ CloseSessions(w)
    BY <2>1, FreeFalls DEF ClosePane, CloseShells, CloseSessions
  <2>2. CASE CloseFiles(w)
    BY <2>2, DrainingFalls DEF CloseFiles, Closes, OfWindow, IsA, IsOpen, Step
  <2>3. CASE Reopen(w)
    BY <2>3 DEF Reopen, UseInv, UseTypes
  <2> QED  BY <2>1, <2>2, <2>3
<1>4. ASSUME NEW h \in Commands PROVE ClosedSoFar(use[h])'
  <2> SUFFICES ASSUME use'[h].at = "open", use'[h].pane \in Panes,
                      use'[h] = use[h]
               PROVE  /\ panes'[use[h].pane] \in {"shells closed", "files closed", "closed"}
                         => use[h].kind \notin {"shell", "fileshell", "browser"}
                      /\ panes'[use[h].pane] \in {"files closed", "closed"} => use[h].kind \notin Files
                      /\ panes'[use[h].pane] # "closed"
    BY <1>3 DEF ClosedSoFar, Falls
  <2>1. ClosedSoFar(use[h]) /\ Place(use[h])
    BY DEF UseInv
  <2>2. CASE use[h].pane # w
    BY <1>2, <2>1, <2>2 DEF ClosedSoFar
  <2>3. CASE use[h].pane = w
    <3>1. CASE ClosePane(w)
      BY <1>2, <2>3, <3>1 DEF ClosePane, Advances
    <3>2. CASE CloseShells(w)
      <4>1. panes'[w] = "shells closed"
        BY <1>2, <3>2 DEF CloseShells, Advances, UseInv, UseTypes
      <4>2. h \in OfWindow(w, {"shell", "fileshell", "browser"}) => use'[h] = Free
        BY <3>2 DEF CloseShells
      <4> QED  BY <2>3, <4>1, <4>2, FreeFalls DEF OfWindow, IsA, IsOpen, Step
    <3>3. CASE CloseFiles(w)
      <4>1. panes'[w] = "files closed" /\ panes[w] = "shells closed"
        BY <1>2, <3>3 DEF CloseFiles, Advances, UseInv, UseTypes
      <4>2. h \in OfWindow(w, Files) => use'[h].at = "draining"
        BY <3>3, DrainingFalls DEF CloseFiles, Closes, OfWindow, IsA, IsOpen, Step
      <4> QED  BY <2>1, <2>3, <4>1, <4>2 DEF OfWindow, IsA, IsOpen, Step, ClosedSoFar
    <3>4. CASE CloseSessions(w)
      <4>1. panes[w] = "files closed" /\ use[h].kind \in {"session"}
        BY <2>1, <2>3, <3>4 DEF CloseSessions, Advances, ClosedSoFar, Place, UseKinds, Inside, Outside, Files
      <4>2. h \in OfWindow(w, {"session"}) => use'[h] = Free
        BY <3>4 DEF CloseSessions
      <4> QED  BY <2>3, <4>1, <4>2, FreeFalls DEF OfWindow, IsA, IsOpen, Step
    <3>5. CASE Reopen(w)
      BY <2>3, <3>5 DEF Reopen
    <3> QED  BY <3>1, <3>2, <3>3, <3>4, <3>5
  <2> QED  BY <2>2, <2>3
<1> QED  BY <1>2, <1>3, <1>4, ManyFall

\* "OS locks cover all frontends" (workspace_lock.rs), for any number of commands, removals and
\* windows: nothing is open, entered or worked on in a directory while it is removed, what is shown is
\* in the catalog, and a window that is closed has left nothing open.
THEOREM UseIsAlwaysExclusive == UseSpec => []UseIsExclusive
<1>1. UseInv /\ [UseNext]_useVars => UseInv'
  <2> SUFFICES ASSUME UseInv, [UseNext]_useVars PROVE UseInv'
    OBVIOUS
  <2>1. CASE UNCHANGED useVars
    <3>1. \A t \in Commands : ClosedSoFar(use[t])' /\ Remembered(use[t])'
      BY <2>1 DEF useVars, UseInv, ClosedSoFar, Remembered
    <3> QED  BY <2>1, <3>1 DEF useVars, UseInv, UseTypes
  <2>2. CASE UseNext
    BY <2>2, BeginUseKeeps, ReachKeeps, LockSharedKeeps, RememberKeeps, InsertKeeps, GuardKeeps, EndingOneKeeps, CloseFileKeeps,
       CloseOwnKeeps, LockAloneKeeps, DeleteKeeps, ClosingKeeps DEF UseNext
  <2> QED  BY <2>1, <2>2
<1> QED  BY <1>1, UseInitially, UseImplies, PTL DEF UseSpec

(***************************************************************************)
(* SelfUpdate.                                                             *)
(***************************************************************************)

JobSteps == {"none", "refresh", "store", "storing", "decide", "look", "version", "download", "exchange"}
JobRecord == [at : JobSteps, kind : {"none", "check", "install", "auto"}, release : Nat, inode : Nat]
SavedRecord == [mode : Modes \cup {"none"}, release : Nat, fresh : BOOLEAN]

UpdateTypes ==
  /\ published \in Nat /\ installed \in [version : Nat, inode : Nat] /\ replaced \in Nat
  /\ saved \in SavedRecord /\ job \in [Programs -> JobRecord]
  /\ writer \in [who : Programs \cup {NoProgram}, read : SavedRecord]
  /\ crossed \in BOOLEAN

\* One program is at it; only the one that stores has read state.json, and nobody has changed it since.
OneJob == \A p, q \in Programs : job[p].at # "none" /\ job[q].at # "none" => p = q
WriterStores ==
  /\ \A p \in Programs : job[p].at = "storing" => writer.who = p
  /\ writer.who # NoProgram => job[writer.who].at = "storing" /\ writer.read.mode = saved.mode
ModeIsWanted == saved.mode = wanted

\* An inode that was looked at belongs to the version that was compared, or to no installation any more.
JobInv(j) ==
  /\ j.at \in {"version", "download"} => j.inode <= replaced
  /\ j.at = "download" => (j.inode = installed.inode => j.release > installed.version)
  /\ j.at = "exchange" /\ ~crossed => j.release > installed.version

UpdateInv ==
  /\ UpdateTypes /\ OneJob /\ WriterStores /\ ModeIsWanted
  /\ installed.inode <= replaced
  /\ \A p \in Programs : JobInv(job[p])

LEMMA UpdateInitially == UpdateInit => UpdateInv
<1> SUFFICES ASSUME UpdateInit PROVE UpdateInv
  OBVIOUS
<1>1. UpdateTypes
  BY DEF UpdateInit, UpdateTypes, NoJob, NoWriter, JobRecord, JobSteps, SavedRecord, Modes
<1>2. OneJob /\ WriterStores /\ ModeIsWanted /\ installed.inode <= replaced
  BY DEF UpdateInit, OneJob, WriterStores, ModeIsWanted, NoJob, NoWriter
<1>3. \A p \in Programs : JobInv(job[p])
  BY DEF UpdateInit, JobInv, NoJob
<1> QED  BY <1>1, <1>2, <1>3 DEF UpdateInv

LEMMA UpdateImplies == UpdateInv => UpdatesAreSafe
BY DEF UpdateInv, UpdatesAreSafe, JobInv, ModeIsWanted

\* What a step makes of the job of a program.
BecomesJob(p, j) == j \in JobRecord /\ job' = [job EXCEPT ![p] = j]

\* The job of one program moves, and what is installed does not.
LEMMA OneJobMoves ==
  ASSUME UpdateInv, NEW p \in Programs, NEW j, BecomesJob(p, j),
         job[p].at # "none" \/ \A q \in Programs : job[q].at = "none",
         job[p].at # "storing" /\ j.at # "storing",
         UNCHANGED <<installed, replaced, saved, writer, wanted>>, published' \in Nat, crossed' \in BOOLEAN,
         crossed' = crossed \/ j.at = "exchange",
         JobInv(j)'
  PROVE  UpdateInv'
<1>1. job'[p] = j /\ \A q \in Programs : q # p => job'[q] = job[q]
  BY DEF UpdateInv, UpdateTypes, BecomesJob
<1>2. UpdateTypes'
  BY DEF UpdateInv, UpdateTypes, BecomesJob
<1>3. \A q \in Programs : q # p => job'[q].at = "none"
  BY <1>1 DEF UpdateInv, OneJob
<1>4. OneJob'
  BY <1>3 DEF OneJob
<1>5. WriterStores'
  BY <1>1 DEF UpdateInv, WriterStores, UpdateTypes
<1>6. \A q \in Programs : JobInv(job[q])'
  BY <1>1, <1>3 DEF JobInv
<1> QED  BY <1>2, <1>4, <1>5, <1>6 DEF UpdateInv, ModeIsWanted

LEMMA JobTypes ==
  ASSUME UpdateInv, NEW p \in Programs
  PROVE  /\ job[p] \in JobRecord /\ NoJob \in JobRecord /\ NoJob.at = "none"
         /\ \A at \in JobSteps : [job[p] EXCEPT !.at = at] \in JobRecord
         /\ \A at \in JobSteps : LET j == [job[p] EXCEPT !.at = at]
                                 IN  j.at = at /\ j.release = job[p].release /\ j.inode = job[p].inode
         /\ job[p].release \in Nat /\ job[p].inode \in Nat /\ job[p].at \in JobSteps
         /\ installed.version \in Nat /\ installed.inode \in Nat /\ replaced \in Nat
         /\ saved.release \in Nat /\ saved.fresh \in BOOLEAN /\ published \in Nat /\ crossed \in BOOLEAN
<1>1. job[p] \in JobRecord /\ NoJob \in JobRecord /\ NoJob.at = "none"
  BY DEF UpdateInv, UpdateTypes, NoJob, JobRecord, JobSteps
<1>2. \A at \in JobSteps : [job[p] EXCEPT !.at = at] \in JobRecord
  BY <1>1 DEF JobRecord
<1>3. \A at \in JobSteps : LET j == [job[p] EXCEPT !.at = at]
                           IN  j.at = at /\ j.release = job[p].release /\ j.inode = job[p].inode
  BY <1>1 DEF JobRecord
<1>4. job[p].release \in Nat /\ job[p].inode \in Nat /\ job[p].at \in JobSteps
  BY <1>1 DEF JobRecord
<1>5. /\ installed.version \in Nat /\ installed.inode \in Nat /\ replaced \in Nat
      /\ saved.release \in Nat /\ saved.fresh \in BOOLEAN /\ published \in Nat /\ crossed \in BOOLEAN
  BY DEF UpdateInv, UpdateTypes, SavedRecord
<1> QED  BY <1>1, <1>2, <1>3, <1>4, <1>5

LEMMA JobMoves ==
  ASSUME UpdateInv, NEW p \in Programs
  PROVE  /\ \A at \in JobSteps : JobGoes(p, at) =>
              \E j : BecomesJob(p, j) /\ j.at = at /\ j.release = job[p].release /\ j.inode = job[p].inode
         /\ EndsJob(p) => \E j : BecomesJob(p, j) /\ j.at = "none"
<1>1. ASSUME NEW at \in JobSteps, JobGoes(p, at)
      PROVE  \E j : BecomesJob(p, j) /\ j.at = at /\ j.release = job[p].release /\ j.inode = job[p].inode
  <2> DEFINE j == [job[p] EXCEPT !.at = at]
  <2>1. j \in JobRecord /\ j.at = at /\ j.release = job[p].release /\ j.inode = job[p].inode
    BY JobTypes
  <2>2. job' = [job EXCEPT ![p] = j]
    BY <1>1 DEF JobGoes
  <2> HIDE DEF j
  <2> QED  BY <2>1, <2>2 DEF BecomesJob
<1>2. EndsJob(p) => BecomesJob(p, NoJob) /\ NoJob.at = "none"
  BY JobTypes DEF EndsJob, BecomesJob
<1> QED  BY <1>1, <1>2

LEMMA BeginKeeps ==
  ASSUME UpdateInv, NEW p \in Programs, BeginByItself(p) \/ Begin(p, "check") \/ Begin(p, "install")
  PROVE  UpdateInv'
<1>1. \A q \in Programs : job[q].at = "none"
  BY DEF BeginByItself, Begin, IsFree
<1>2. PICK j : BecomesJob(p, j) /\ j.at \in {"refresh", "decide"}
  <2>1. CASE BeginByItself(p)
    <3> DEFINE j == [NoJob EXCEPT !.at = IF saved.fresh THEN "decide" ELSE "refresh", !.kind = "auto",
                                  !.release = IF saved.fresh THEN saved.release ELSE 0]
    <3>1. j \in JobRecord /\ j.at \in {"refresh", "decide"}
      <4> DEFINE at == IF saved.fresh THEN "decide" ELSE "refresh"
                 release == IF saved.fresh THEN saved.release ELSE 0
      <4>1. at \in JobSteps /\ at \in {"refresh", "decide"} /\ release \in Nat
        BY JobTypes DEF JobSteps
      <4>2. NoJob \in JobRecord
        BY JobTypes
      <4> HIDE DEF at, release
      <4>3. /\ [NoJob EXCEPT !.at = at, !.kind = "auto", !.release = release] \in JobRecord
            /\ [NoJob EXCEPT !.at = at, !.kind = "auto", !.release = release].at = at
        BY <4>1, <4>2 DEF JobRecord
      <4> QED  BY <4>1, <4>3 DEF at, release
    <3>2. job' = [job EXCEPT ![p] = j]
      BY <2>1 DEF BeginByItself
    <3> HIDE DEF j
    <3> QED  BY <3>1, <3>2 DEF BecomesJob
  <2>2. ASSUME NEW what \in {"check", "install"}, Begin(p, what)
        PROVE  \E j : BecomesJob(p, j) /\ j.at \in {"refresh", "decide"}
    <3> DEFINE j == [NoJob EXCEPT !.at = "refresh", !.kind = what]
    <3>1. j \in JobRecord /\ j.at = "refresh"
      BY DEF NoJob, JobRecord, JobSteps
    <3>2. job' = [job EXCEPT ![p] = j]
      BY <2>2 DEF Begin
    <3> HIDE DEF j
    <3> QED  BY <3>1, <3>2 DEF BecomesJob
  <2> QED  BY <2>1, <2>2
<1>3. UNCHANGED <<published, installed, saved, writer, wanted, replaced, crossed>>
  BY DEF BeginByItself, Begin
<1> QED  BY <1>1, <1>2, <1>3, JobTypes, OneJobMoves DEF JobInv

LEMMA JobKeeps ==
  ASSUME UpdateInv, NEW p \in Programs, Refresh(p) \/ Decide(p) \/ Compare(p) \/ Download(p)
  PROVE  UpdateInv'
<1>1. CASE Refresh(p)
  <2>1. PICK j : BecomesJob(p, j) /\ j.at = "store" /\ job[p].at = "refresh"
    <3> DEFINE j == [job[p] EXCEPT !.at = "store", !.release = published]
    <3>0. job[p] \in JobRecord /\ published \in Nat
      BY JobTypes
    <3>1. j \in JobRecord /\ j.at = "store"
      BY <3>0 DEF JobRecord, JobSteps
    <3>2. job' = [job EXCEPT ![p] = j] /\ job[p].at = "refresh"
      BY <1>1 DEF Refresh
    <3> HIDE DEF j
    <3> QED  BY <3>1, <3>2 DEF BecomesJob
  <2>2. UNCHANGED <<published, installed, saved, writer, wanted, replaced, crossed>>
    BY <1>1 DEF Refresh
  <2> QED  BY <2>1, <2>2, JobTypes, OneJobMoves DEF JobInv
<1>2. CASE Decide(p)
  <2>1. PICK j : BecomesJob(p, j) /\ j.at \in {"look", "none"} /\ job[p].at = "decide"
    <3>1. job[p].at = "decide" /\ (JobGoes(p, "look") \/ EndsJob(p)) /\ "look" \in JobSteps
      BY <1>2 DEF Decide, JobSteps
    <3> QED  BY <3>1, JobMoves
  <2>2. UNCHANGED <<published, installed, saved, writer, wanted, replaced, crossed>>
    BY <1>2 DEF Decide
  <2> QED  BY <2>1, <2>2, JobTypes, OneJobMoves DEF JobInv
<1>3. CASE Compare(p) /\ job[p].at = "look"
  <2>1. PICK j : BecomesJob(p, j) /\ j.at = "version" /\ j.inode = installed.inode
    <3> DEFINE j == [job[p] EXCEPT !.at = "version", !.inode = installed.inode]
    <3>0. job[p] \in JobRecord /\ installed.inode \in Nat
      BY JobTypes
    <3>1. j \in JobRecord /\ j.at = "version" /\ j.inode = installed.inode
      BY <3>0 DEF JobRecord, JobSteps
    <3>2. job' = [job EXCEPT ![p] = j]
      BY <1>3 DEF Compare, Look
    <3> HIDE DEF j
    <3> QED  BY <3>1, <3>2 DEF BecomesJob
  <2>2. UNCHANGED <<published, installed, saved, writer, wanted, replaced, crossed>>
    BY <1>3 DEF Compare
  <2>3. installed.inode <= replaced
    BY DEF UpdateInv
  <2>4. JobInv(j)'
    BY <2>1, <2>2, <2>3 DEF JobInv
  <2> QED  BY <1>3, <2>1, <2>2, <2>4, JobTypes, OneJobMoves
<1>4. CASE Compare(p) /\ job[p].at = "version"
  <2>1. PICK j : /\ BecomesJob(p, j)
                 /\ \/ j.at = "none"
                    \/ /\ j.at = "download" /\ j.release = job[p].release /\ j.inode = job[p].inode
                       /\ job[p].release > installed.version
    <3>1. \/ JobGoes(p, "download") /\ job[p].release > installed.version
          \/ EndsJob(p)
      BY <1>4 DEF Compare, Look
    <3>2. "download" \in JobSteps
      BY DEF JobSteps
    <3> QED  BY <3>1, <3>2, JobMoves
  <2>2. UNCHANGED <<published, installed, saved, writer, wanted, replaced, crossed>>
    BY <1>4 DEF Compare
  <2>3. job[p].inode <= replaced
    BY <1>4 DEF UpdateInv, JobInv
  <2>4. JobInv(j)'
    BY <2>1, <2>2, <2>3 DEF JobInv
  <2> QED  BY <1>4, <2>1, <2>2, <2>4, JobTypes, OneJobMoves
<1>5. CASE Download(p)
  <2>1. PICK j : /\ BecomesJob(p, j)
                 /\ \/ j.at = "none" /\ crossed' = crossed
                    \/ /\ j.at = "exchange" /\ j.release = job[p].release
                       /\ job[p].inode = installed.inode /\ crossed' = FALSE
    <3>1. \/ JobGoes(p, "exchange") /\ job[p].inode = installed.inode /\ crossed' = FALSE
          \/ EndsJob(p) /\ crossed' = crossed
      BY <1>5 DEF Download
    <3>2. "exchange" \in JobSteps
      BY DEF JobSteps
    <3> QED  BY <3>1, <3>2, JobMoves
  <2>2. UNCHANGED <<published, installed, saved, writer, wanted, replaced>> /\ job[p].at = "download"
    BY <1>5 DEF Download
  <2>3. job[p].inode = installed.inode => job[p].release > installed.version
    BY <2>2 DEF UpdateInv, JobInv
  <2>4. JobInv(j)'
    BY <2>1, <2>2, <2>3 DEF JobInv
  <2> QED  BY <2>1, <2>2, <2>4, JobTypes, OneJobMoves
<1>6. Compare(p) => job[p].at \in {"look", "version"}
  BY DEF Compare, Look
<1> QED  BY <1>1, <1>2, <1>3, <1>4, <1>5, <1>6

LEMMA ChangeBeginsKeeps ==
  ASSUME UpdateInv, NEW p \in Programs, ChangeBegins(p)
  PROVE  UpdateInv'
<1>1. job[p].at = "store" /\ writer.who = NoProgram /\ writer' = [who |-> p, read |-> saved]
      /\ UNCHANGED <<published, installed, saved, wanted, replaced, crossed>>
  BY DEF ChangeBegins, StateIsFree
<1>2. PICK j \in JobRecord : job' = [job EXCEPT ![p] = j] /\ j.at = "storing"
  BY JobMoves DEF ChangeBegins, JobSteps, BecomesJob
<1>3. job'[p] = j /\ \A q \in Programs : q # p => job'[q] = job[q] /\ job[q].at = "none"
  BY <1>1, <1>2 DEF UpdateInv, UpdateTypes, OneJob
<1>4. UpdateTypes'
  BY <1>1, <1>2 DEF UpdateInv, UpdateTypes
<1>5. OneJob' /\ WriterStores'
  BY <1>1, <1>2, <1>3 DEF OneJob, WriterStores
<1>6. \A q \in Programs : JobInv(job[q])'
  BY <1>2, <1>3 DEF JobInv
<1> QED  BY <1>1, <1>4, <1>5, <1>6 DEF UpdateInv, ModeIsWanted

LEMMA ChangeEndsKeeps ==
  ASSUME UpdateInv, NEW p \in Programs, ChangeEnds(p)
  PROVE  UpdateInv'
<1>1. job[p].at = "storing" /\ writer' = NoWriter /\ saved' = [writer.read EXCEPT !.release = job[p].release, !.fresh = TRUE]
      /\ UNCHANGED <<published, installed, wanted, replaced, crossed>>
  BY DEF ChangeEnds
<1>2. PICK j \in JobRecord : job' = [job EXCEPT ![p] = j] /\ j.at = "decide"
  BY JobMoves DEF ChangeEnds, JobSteps, BecomesJob
<1>3. job'[p] = j /\ \A q \in Programs : q # p => job'[q] = job[q] /\ job[q].at = "none"
  BY <1>1, <1>2 DEF UpdateInv, UpdateTypes, OneJob
<1>4. writer.who = p /\ p # NoProgram /\ writer.read.mode = saved.mode /\ writer.read \in SavedRecord
  BY <1>1, UpdateAssumption DEF UpdateInv, WriterStores, UpdateTypes, UpdateAssumption
<1>5. saved' \in SavedRecord /\ saved'.mode = writer.read.mode
  BY <1>1, <1>4, JobTypes DEF SavedRecord
<1>6. writer' \in [who : Programs \cup {NoProgram}, read : SavedRecord] /\ writer'.who = NoProgram
  BY <1>1 DEF NoWriter, SavedRecord
<1>7. UpdateTypes'
  BY <1>1, <1>2, <1>5, <1>6 DEF UpdateInv, UpdateTypes
<1>8. OneJob' /\ WriterStores'
  BY <1>2, <1>3, <1>6 DEF OneJob, WriterStores
<1>9. \A q \in Programs : JobInv(job[q])'
  BY <1>2, <1>3 DEF JobInv
<1> QED  BY <1>1, <1>4, <1>5, <1>7, <1>8, <1>9 DEF UpdateInv, ModeIsWanted

LEMMA ExchangeKeeps ==
  ASSUME UpdateInv, NEW p \in Programs, Exchange(p)
  PROVE  UpdateInv'
<1>1. job[p].at = "exchange" /\ job' = [job EXCEPT ![p] = NoJob] /\ replaced' = replaced + 1
      /\ installed' = [version |-> job[p].release, inode |-> replaced']
      /\ UNCHANGED <<published, saved, writer, wanted, crossed>>
  BY DEF Exchange, EndsJob
<1>2. job'[p] = NoJob /\ NoJob \in JobRecord /\ NoJob.at = "none"
      /\ \A q \in Programs : q # p => job'[q] = job[q] /\ job[q].at = "none"
  BY <1>1, JobTypes DEF UpdateInv, UpdateTypes, OneJob
<1>3. UpdateTypes' /\ installed'.inode <= replaced'
  BY <1>1, <1>2, JobTypes DEF UpdateInv, UpdateTypes
<1>4. OneJob' /\ WriterStores'
  BY <1>1, <1>2 DEF OneJob, WriterStores, UpdateInv, UpdateTypes
<1>5. \A q \in Programs : JobInv(job[q])'
  BY <1>2 DEF JobInv
<1> QED  BY <1>1, <1>3, <1>4, <1>5 DEF UpdateInv, ModeIsWanted

LEMMA FailsKeeps ==
  ASSUME UpdateInv, NEW p \in Programs, Fails(p)
  PROVE  UpdateInv'
<1>1. job[p].at # "none" /\ job' = [job EXCEPT ![p] = NoJob] /\ writer' = (IF writer.who = p THEN NoWriter ELSE writer)
      /\ UNCHANGED <<published, installed, saved, wanted, replaced, crossed>>
  BY DEF Fails, EndsJob
<1>2. job'[p] = NoJob /\ NoJob \in JobRecord /\ NoJob.at = "none"
      /\ \A q \in Programs : q # p => job'[q] = job[q] /\ job[q].at = "none"
  BY <1>1, JobTypes DEF UpdateInv, UpdateTypes, OneJob
<1>3. NoWriter \in [who : Programs \cup {NoProgram}, read : SavedRecord] /\ NoWriter.who = NoProgram
  BY DEF NoWriter, SavedRecord
<1>4. UpdateTypes'
  BY <1>1, <1>2, <1>3 DEF UpdateInv, UpdateTypes
<1>5. writer'.who = NoProgram
  BY <1>1, <1>2, <1>3 DEF UpdateInv, WriterStores, UpdateTypes
<1>6. OneJob' /\ WriterStores'
  BY <1>2, <1>5 DEF OneJob, WriterStores
<1>7. \A q \in Programs : JobInv(job[q])'
  BY <1>2 DEF JobInv
<1> QED  BY <1>1, <1>4, <1>6, <1>7 DEF UpdateInv, ModeIsWanted

LEMMA WorldKeeps ==
  ASSUME UpdateInv, Publish \/ Replace \/ ReleaseAges \/ \E mode \in Modes : Configure(mode)
  PROVE  UpdateInv'
<1>0. MaxVersion \in Nat
  BY UpdateAssumption DEF UpdateAssumption
<1>1. CASE Publish
  <2>1. published' \in Nat
    BY <1>0, <1>1 DEF Publish
  <2> QED  BY <1>1, <2>1 DEF Publish, UpdateInv, UpdateTypes, OneJob, WriterStores, ModeIsWanted, JobInv
<1>2. CASE Replace
  <2>1. PICK v \in 1 .. MaxVersion : installed' = [version |-> v, inode |-> replaced']
    BY <1>2 DEF Replace
  <2>2. replaced \in Nat /\ replaced' = replaced + 1 /\ UNCHANGED <<published, saved, job, writer, wanted>>
        /\ crossed' = (crossed \/ \E p \in Programs : job[p].at = "exchange")
    BY <1>2 DEF Replace, UpdateInv, UpdateTypes
  <2>3. v \in Nat /\ installed' \in [version : Nat, inode : Nat] /\ installed'.inode = replaced + 1
    BY <1>0, <2>1, <2>2
  <2>4. UpdateTypes'
    BY <2>2, <2>3 DEF UpdateInv, UpdateTypes
  <2>5. ASSUME NEW p \in Programs PROVE JobInv(job[p])'
    <3> DEFINE j == job[p]
    <3>1. JobInv(j) /\ j.inode \in Nat /\ (j.at = "exchange" => crossed') /\ job'[p] = j
      BY <2>2, JobTypes DEF UpdateInv
    <3> HIDE DEF j
    <3>2. j.at \in {"version", "download"} => j.inode <= replaced /\ j.inode <= replaced + 1 /\ j.inode # replaced + 1
      BY <2>2, <3>1 DEF JobInv
    <3> QED  BY <2>2, <2>3, <3>1, <3>2 DEF JobInv
  <2> QED  BY <2>2, <2>3, <2>4, <2>5 DEF UpdateInv, OneJob, WriterStores, ModeIsWanted
<1>3. CASE ReleaseAges
  <2>1. saved' \in SavedRecord /\ saved'.mode = saved.mode /\ UNCHANGED <<published, installed, job, writer, wanted, replaced, crossed>>
    BY <1>3 DEF ReleaseAges, UpdateInv, UpdateTypes, SavedRecord
  <2> QED  BY <2>1 DEF UpdateInv, UpdateTypes, OneJob, WriterStores, ModeIsWanted, JobInv
<1>4. ASSUME NEW mode \in Modes, Configure(mode) PROVE UpdateInv'
  <2>1. /\ saved' \in SavedRecord /\ saved'.mode = mode /\ wanted' = mode /\ writer.who = NoProgram
        /\ UNCHANGED <<published, installed, job, writer, replaced, crossed>>
    BY <1>4 DEF Configure, StateIsFree, UpdateInv, UpdateTypes, SavedRecord
  <2> QED  BY <2>1 DEF UpdateInv, UpdateTypes, OneJob, WriterStores, ModeIsWanted, JobInv
<1> QED  BY <1>1, <1>2, <1>3, <1>4

\* updates/package.rs and updates/storage.rs: however checks, installations, changes of the mode and
\* other installers overlap, no update takes the place of a version as new as itself unless the
\* installation was replaced between the last look and the exchange, and no check undoes a mode.
THEOREM UpdatesAreAlwaysSafe == UpdateSpec => []UpdatesAreSafe
<1>1. UpdateInv /\ [UpdateNext]_updateVars => UpdateInv'
  <2>1. UNCHANGED updateVars /\ UpdateInv => UpdateInv'
    BY DEF updateVars, UpdateInv, UpdateTypes, OneJob, WriterStores, ModeIsWanted, JobInv
  <2> QED  BY <2>1, BeginKeeps, JobKeeps, ChangeBeginsKeeps, ChangeEndsKeeps, ExchangeKeeps, FailsKeeps, WorldKeeps
              DEF UpdateNext
<1> QED  BY <1>1, UpdateInitially, UpdateImplies, PTL DEF UpdateSpec

(***************************************************************************)
(* RemoteInstall.                                                          *)
(***************************************************************************)

InstallSteps == {"idle", "inspect", "download", "upload", "lock", "stage", "check", "extract", "probe", "sync",
                 "move", "settle"}
PackageRecord == [digest : Nat, cached : BOOLEAN]
InstallRecord == [at : InstallSteps, got : SUBSET Parts, told : {"nothing", "found", "ready"}]
Directory == [there : BOOLEAN, digest : Nat, parts : SUBSET Parts, synced : BOOLEAN, named : BOOLEAN]

InstallTypes ==
  /\ latest \in Nat \ {0}
  /\ package \in [Computers -> PackageRecord] /\ install \in [Computers -> InstallRecord]
  /\ stage \in [Computers -> Directory] /\ placed \in Directory

\* A directory with a name is whole and on disk, so that a power failure leaves it whole.
PlacedIsWhole == placed.there => placed.parts = Parts /\ placed.synced

\* One script works at a time, on the package of its computer: what it has extracted is in its staging
\* directory, whole before the programs are run and on disk before it gets its name.
ScriptInv(c) ==
  /\ Scripted(c) => flocked = c
  /\ install[c].at # "idle" => package[c].digest # 0
  /\ install[c].at \in {"check", "extract", "probe", "sync", "move"} =>
       stage[c].there /\ stage[c].digest = package[c].digest /\ stage[c].parts = install[c].got
  /\ install[c].at \in {"probe", "sync", "move"} => install[c].got = Parts
  /\ install[c].at = "move" => stage[c].synced
  /\ install[c].at = "settle" => placed.there /\ Agrees(c)
  /\ install[c].told = "ready" => package[c].digest # 0 /\ placed.there /\ placed.named /\ Agrees(c)

InstallInv == InstallTypes /\ PlacedIsWhole /\ \A c \in Computers : ScriptInv(c)

LEMMA InstallInitially == InstallInit => InstallInv
<1> SUFFICES ASSUME InstallInit PROVE InstallInv
  OBVIOUS
<1>1. InstallTypes
  BY DEF InstallInit, InstallTypes, PackageRecord, InstallRecord, InstallSteps, Directory, NoDir
<1>2. PlacedIsWhole
  BY DEF InstallInit, PlacedIsWhole, NoDir
<1>3. \A c \in Computers : ScriptInv(c)
  BY DEF InstallInit, ScriptInv, Scripted
<1> QED  BY <1>1, <1>2, <1>3 DEF InstallInv

LEMMA InstallImplies == InstallInv => InstallIsSound
BY DEF InstallInv, PlacedIsWhole, ScriptInv, InstallIsSound, InstalledIsWhole, ReadyIsThere

LEMMA InstallMeans ==
  ASSUME InstallInv, NEW c \in Computers
  PROVE  /\ install[c] \in InstallRecord /\ package[c] \in PackageRecord /\ stage[c] \in Directory
         /\ placed \in Directory /\ latest \in Nat \ {0} /\ NoDir \in Directory /\ ScriptInv(c)
         /\ install[c].at \in InstallSteps /\ install[c].got \subseteq Parts /\ stage[c].parts \subseteq Parts
         /\ install[c].told \in {"nothing", "found", "ready"} /\ package[c].digest \in Nat
BY DEF InstallInv, InstallTypes, NoDir, Directory, InstallRecord, PackageRecord

\* One computer moves: what it and its script have, and the lock.
ComputerMoves(c, i, d) ==
  /\ i \in InstallRecord /\ d \in Directory
  /\ install' = [install EXCEPT ![c] = i] /\ stage' = [stage EXCEPT ![c] = d]
  /\ UNCHANGED <<latest, package, placed>>
  /\ flocked' = flocked \/ (flocked = Unlocked /\ flocked' = c) \/ (flocked' = Released(c))

LEMMA ComputerKeeps ==
  ASSUME InstallInv, NEW c \in Computers, NEW i, NEW d, ComputerMoves(c, i, d),
         ScriptInv(c)'
  PROVE  InstallInv'
<1>1. /\ install'[c] = i /\ stage'[c] = d
      /\ \A e \in Computers : e # c => install'[e] = install[e] /\ stage'[e] = stage[e]
  BY DEF ComputerMoves, InstallInv, InstallTypes
<1>2. InstallTypes'
  BY DEF ComputerMoves, InstallInv, InstallTypes
<1>3. ASSUME NEW e \in Computers, e # c PROVE ScriptInv(e)'
  <2>1. ScriptInv(e) /\ install'[e] = install[e] /\ stage'[e] = stage[e] /\ UNCHANGED <<package, placed>>
    BY <1>1, <1>3 DEF InstallInv, ComputerMoves
  <2>2. flocked = e => flocked' = e
    BY <1>3, InstallAssumption DEF ComputerMoves, Released, InstallAssumption, Unlocked
  <2> QED  BY <2>1, <2>2 DEF ScriptInv, Scripted, Agrees
<1> QED  BY <1>2, <1>3 DEF InstallInv, PlacedIsWhole, ComputerMoves

\* A step of one computer, by the step it is at before and after.
LEMMA ComputerAt ==
  ASSUME InstallInv, NEW c \in Computers, NEW at \in InstallSteps
  PROVE  LET i == [install[c] EXCEPT !.at = at]
         IN  i \in InstallRecord /\ i.at = at /\ i.got = install[c].got /\ i.told = install[c].told
BY InstallMeans DEF InstallRecord

LEMMA UploadKeeps == ASSUME InstallInv, NEW c \in Computers, Upload(c) PROVE InstallInv'
<1> DEFINE i == [install[c] EXCEPT !.at = "lock"]
           d == stage[c]
<1>0. /\ install[c] \in InstallRecord /\ stage[c] \in Directory /\ NoDir \in Directory /\ ScriptInv(c)
      /\ placed \in Directory /\ package[c] \in PackageRecord
  BY InstallMeans
<1>1. i \in InstallRecord /\ i.at = "lock" /\ i.got = install[c].got /\ i.told = install[c].told
  BY <1>0 DEF InstallRecord, InstallSteps
<1>2. d \in Directory /\ d = stage[c]
  BY <1>0 DEF Directory, NoDir
<1>3. install' = [install EXCEPT ![c] = i] /\ stage' = [stage EXCEPT ![c] = d]
  BY DEF Upload, Then, InstallInv, InstallTypes
<1> HIDE DEF i, d
<1>4. ComputerMoves(c, i, d)
  BY <1>1, <1>2, <1>3 DEF ComputerMoves, Upload
<1>5. install'[c] = i /\ stage'[c] = d
  BY <1>3 DEF InstallInv, InstallTypes
<1>6. ScriptInv(c)'
  BY <1>0, <1>1, <1>2, <1>5 DEF Upload, ScriptInv, Scripted, Does, Agrees
<1> QED  BY <1>4, <1>6, ComputerKeeps

LEMMA LockScriptKeeps == ASSUME InstallInv, NEW c \in Computers, LockScript(c) PROVE InstallInv'
<1> DEFINE i == [install[c] EXCEPT !.at = "stage"]
           d == stage[c]
<1>0. /\ install[c] \in InstallRecord /\ stage[c] \in Directory /\ NoDir \in Directory /\ ScriptInv(c)
      /\ placed \in Directory /\ package[c] \in PackageRecord
  BY InstallMeans
<1>1. i \in InstallRecord /\ i.at = "stage" /\ i.got = install[c].got /\ i.told = install[c].told
  BY <1>0 DEF InstallRecord, InstallSteps
<1>2. d \in Directory /\ d = stage[c]
  BY <1>0 DEF Directory, NoDir
<1>3. install' = [install EXCEPT ![c] = i] /\ stage' = [stage EXCEPT ![c] = d]
  BY DEF LockScript, Then, InstallInv, InstallTypes
<1> HIDE DEF i, d
<1>4. ComputerMoves(c, i, d)
  BY <1>1, <1>2, <1>3 DEF ComputerMoves, LockScript
<1>5. install'[c] = i /\ stage'[c] = d
  BY <1>3 DEF InstallInv, InstallTypes
<1>6. ScriptInv(c)'
  BY <1>0, <1>1, <1>2, <1>5 DEF LockScript, ScriptInv, Scripted, Does, Agrees
<1> QED  BY <1>4, <1>6, ComputerKeeps

LEMMA ProbeKeeps == ASSUME InstallInv, NEW c \in Computers, Probe(c) PROVE InstallInv'
<1> DEFINE i == [install[c] EXCEPT !.at = "sync"]
           d == stage[c]
<1>0. /\ install[c] \in InstallRecord /\ stage[c] \in Directory /\ NoDir \in Directory /\ ScriptInv(c)
      /\ placed \in Directory /\ package[c] \in PackageRecord
  BY InstallMeans
<1>1. i \in InstallRecord /\ i.at = "sync" /\ i.got = install[c].got /\ i.told = install[c].told
  BY <1>0 DEF InstallRecord, InstallSteps
<1>2. d \in Directory /\ d = stage[c]
  BY <1>0 DEF Directory, NoDir
<1>3. install' = [install EXCEPT ![c] = i] /\ stage' = [stage EXCEPT ![c] = d]
  BY DEF Probe, Then, InstallInv, InstallTypes
<1> HIDE DEF i, d
<1>4. ComputerMoves(c, i, d)
  BY <1>1, <1>2, <1>3 DEF ComputerMoves, Probe
<1>5. install'[c] = i /\ stage'[c] = d
  BY <1>3 DEF InstallInv, InstallTypes
<1>6. ScriptInv(c)'
  BY <1>0, <1>1, <1>2, <1>5 DEF Probe, ScriptInv, Scripted, Does, Agrees
<1> QED  BY <1>4, <1>6, ComputerKeeps

LEMMA SyncKeeps == ASSUME InstallInv, NEW c \in Computers, Sync(c) PROVE InstallInv'
<1> DEFINE i == [install[c] EXCEPT !.at = "move"]
           d == [stage[c] EXCEPT !.synced = TRUE]
<1>0. /\ install[c] \in InstallRecord /\ stage[c] \in Directory /\ NoDir \in Directory /\ ScriptInv(c)
      /\ placed \in Directory /\ package[c] \in PackageRecord
  BY InstallMeans
<1>1. i \in InstallRecord /\ i.at = "move" /\ i.got = install[c].got /\ i.told = install[c].told
  BY <1>0 DEF InstallRecord, InstallSteps
<1>2. d \in Directory /\ d.synced /\ d.parts = stage[c].parts /\ d.digest = stage[c].digest
  BY <1>0 DEF Directory, NoDir
<1>3. install' = [install EXCEPT ![c] = i] /\ stage' = [stage EXCEPT ![c] = d]
  BY DEF Sync, Then, InstallInv, InstallTypes
<1> HIDE DEF i, d
<1>4. ComputerMoves(c, i, d)
  BY <1>1, <1>2, <1>3 DEF ComputerMoves, Sync
<1>5. install'[c] = i /\ stage'[c] = d
  BY <1>3 DEF InstallInv, InstallTypes
<1>6. ScriptInv(c)'
  BY <1>0, <1>1, <1>2, <1>5 DEF Sync, ScriptInv, Scripted, Does, Agrees
<1> QED  BY <1>4, <1>6, ComputerKeeps

LEMMA InspectKeeps == ASSUME InstallInv, NEW c \in Computers, Inspect(c) PROVE InstallInv'
<1> DEFINE i == IF placed.there THEN [install[c] EXCEPT !.at = "idle", !.told = "found"]
                ELSE [install[c] EXCEPT !.at = IF kind = "runtime" THEN "download" ELSE "upload"]
           d == stage[c]
<1>0. /\ install[c] \in InstallRecord /\ stage[c] \in Directory /\ NoDir \in Directory /\ ScriptInv(c)
      /\ placed \in Directory /\ package[c] \in PackageRecord
  BY InstallMeans
<1>1. i \in InstallRecord /\ i.at \in {"idle", "download", "upload"} /\ (i.told = install[c].told \/ i.told = "found")
  BY <1>0 DEF InstallRecord, InstallSteps
<1>2. d \in Directory /\ d = stage[c]
  BY <1>0 DEF Directory, NoDir
<1>3. install' = [install EXCEPT ![c] = i] /\ stage' = [stage EXCEPT ![c] = d]
  BY DEF Inspect, Then, Told, InstallInv, InstallTypes
<1> HIDE DEF i, d
<1>4. ComputerMoves(c, i, d)
  BY <1>1, <1>2, <1>3 DEF ComputerMoves, Inspect
<1>5. install'[c] = i /\ stage'[c] = d
  BY <1>3 DEF InstallInv, InstallTypes
<1>6. ScriptInv(c)'
  BY <1>0, <1>1, <1>2, <1>5 DEF Inspect, ScriptInv, Scripted, Does, Agrees
<1> QED  BY <1>4, <1>6, ComputerKeeps

LEMMA CheckKeeps == ASSUME InstallInv, NEW c \in Computers, Check(c) PROVE InstallInv'
<1> DEFINE i == IF placed.there THEN [install[c] EXCEPT !.at = "idle", !.told = "found"]
                ELSE [install[c] EXCEPT !.at = "extract"]
           d == IF placed.there THEN NoDir ELSE stage[c]
<1>0. /\ install[c] \in InstallRecord /\ stage[c] \in Directory /\ NoDir \in Directory /\ ScriptInv(c)
      /\ placed \in Directory /\ package[c] \in PackageRecord
  BY InstallMeans
<1>1. /\ i \in InstallRecord /\ i.got = install[c].got
      /\ placed.there => i.at = "idle" /\ i.told = "found"
      /\ ~placed.there => i.at = "extract" /\ i.told = install[c].told
  <2>1. CASE placed.there
    BY <1>0, <2>1 DEF InstallRecord, InstallSteps
  <2>2. CASE ~placed.there
    BY <1>0, <2>2 DEF InstallRecord, InstallSteps
  <2> QED  BY <2>1, <2>2
<1>2. d \in Directory /\ (~placed.there => d = stage[c])
  BY <1>0 DEF Directory, NoDir
<1>3. install' = [install EXCEPT ![c] = i] /\ stage' = [stage EXCEPT ![c] = d]
  BY DEF Check, Then, Told, InstallInv, InstallTypes
<1> HIDE DEF i, d
<1>4. ComputerMoves(c, i, d)
  BY <1>1, <1>2, <1>3 DEF ComputerMoves, Check
<1>5. install'[c] = i /\ stage'[c] = d
  BY <1>3 DEF InstallInv, InstallTypes
<1>6. ScriptInv(c)'
  BY <1>0, <1>1, <1>2, <1>5 DEF Check, ScriptInv, Scripted, Does, Agrees
<1> QED  BY <1>4, <1>6, ComputerKeeps

LEMMA StopsKeeps == ASSUME InstallInv, NEW c \in Computers, Stops(c) PROVE InstallInv'
<1> DEFINE i == [install[c] EXCEPT !.at = "idle"]
           d == NoDir
<1>0. /\ install[c] \in InstallRecord /\ stage[c] \in Directory /\ NoDir \in Directory /\ ScriptInv(c)
      /\ placed \in Directory /\ package[c] \in PackageRecord
  BY InstallMeans
<1>1. i \in InstallRecord /\ i.at = "idle" /\ i.got = install[c].got /\ i.told = install[c].told
  BY <1>0 DEF InstallRecord, InstallSteps
<1>2. d \in Directory
  BY <1>0 DEF Directory, NoDir
<1>3. install' = [install EXCEPT ![c] = i] /\ stage' = [stage EXCEPT ![c] = d]
  BY DEF Stops, Then, InstallInv, InstallTypes
<1> HIDE DEF i, d
<1>4. ComputerMoves(c, i, d)
  BY <1>1, <1>2, <1>3 DEF ComputerMoves, Stops
<1>5. install'[c] = i /\ stage'[c] = d
  BY <1>3 DEF InstallInv, InstallTypes
<1>6. ScriptInv(c)'
  BY <1>0, <1>1, <1>2, <1>5 DEF Stops, ScriptInv, Scripted, Does, Agrees
<1> QED  BY <1>4, <1>6, ComputerKeeps

LEMMA KilledScriptKeeps == ASSUME InstallInv, NEW c \in Computers, KilledScript(c) PROVE InstallInv'
<1> DEFINE i == [install[c] EXCEPT !.at = "idle"]
           d == stage[c]
<1>0. /\ install[c] \in InstallRecord /\ stage[c] \in Directory /\ NoDir \in Directory /\ ScriptInv(c)
      /\ placed \in Directory /\ package[c] \in PackageRecord
  BY InstallMeans
<1>1. i \in InstallRecord /\ i.at = "idle" /\ i.got = install[c].got /\ i.told = install[c].told
  BY <1>0 DEF InstallRecord, InstallSteps
<1>2. d \in Directory /\ d = stage[c]
  BY <1>0 DEF Directory, NoDir
<1>3. install' = [install EXCEPT ![c] = i] /\ stage' = [stage EXCEPT ![c] = d]
  BY DEF KilledScript, Then, Mishap, InstallInv, InstallTypes
<1> HIDE DEF i, d
<1>4. ComputerMoves(c, i, d)
  BY <1>1, <1>2, <1>3 DEF ComputerMoves, KilledScript
<1>5. install'[c] = i /\ stage'[c] = d
  BY <1>3 DEF InstallInv, InstallTypes
<1>6. ScriptInv(c)'
  BY <1>0, <1>1, <1>2, <1>5 DEF KilledScript, ScriptInv, Scripted, Does, Agrees
<1> QED  BY <1>4, <1>6, ComputerKeeps

LEMMA LookUpKeeps == ASSUME InstallInv, NEW c \in Computers, LookUp(c) PROVE InstallInv'
<1> DEFINE i == [install[c] EXCEPT !.at = "inspect"]
           n == IF package[c].digest = 0 THEN latest ELSE package[c].digest
           k == [package[c] EXCEPT !.digest = n]
<1>0. /\ install[c] \in InstallRecord /\ ScriptInv(c) /\ package[c] \in PackageRecord /\ latest \in Nat \ {0}
      /\ install[c].at = "idle" /\ package[c].digest \in Nat
  BY InstallMeans DEF LookUp, Does
<1>1. i \in InstallRecord /\ i.at = "inspect" /\ i.told = install[c].told
  BY <1>0 DEF InstallRecord, InstallSteps
<1>2. n \in Nat \ {0} /\ (package[c].digest # 0 => n = package[c].digest)
  BY <1>0
<1>3. install' = [install EXCEPT ![c] = i] /\ package' = [package EXCEPT ![c] = k]
  BY DEF LookUp, Then
<1> HIDE DEF n
<1>4. k \in PackageRecord /\ k.digest = n
  BY <1>0, <1>2 DEF PackageRecord
<1> HIDE DEF i, k
<1>5. UNCHANGED <<latest, stage, placed, flocked>>
  BY DEF LookUp
<1>6. install'[c] = i /\ package'[c] = k /\ \A e \in Computers : e # c => install'[e] = install[e] /\ package'[e] = package[e]
  BY <1>3 DEF InstallInv, InstallTypes
<1>7. InstallTypes'
  BY <1>1, <1>3, <1>4, <1>5 DEF InstallInv, InstallTypes
<1>8. ScriptInv(c)'
  BY <1>0, <1>1, <1>2, <1>4, <1>5, <1>6 DEF ScriptInv, Scripted, Agrees
<1>9. ASSUME NEW e \in Computers, e # c PROVE ScriptInv(e)'
  BY <1>5, <1>6, <1>9 DEF InstallInv, ScriptInv, Scripted, Agrees
<1> QED  BY <1>5, <1>7, <1>8, <1>9 DEF InstallInv, PlacedIsWhole

LEMMA ObtainKeeps == ASSUME InstallInv, NEW c \in Computers, Obtain(c) PROVE InstallInv'
<1> DEFINE i == [install[c] EXCEPT !.at = "upload"]
           k == [package[c] EXCEPT !.cached = TRUE]
<1>0. /\ install[c] \in InstallRecord /\ ScriptInv(c) /\ package[c] \in PackageRecord
      /\ install[c].at = "download"
  BY InstallMeans DEF Obtain, Does
<1>1. i \in InstallRecord /\ i.at = "upload" /\ i.told = install[c].told
  BY <1>0 DEF InstallRecord, InstallSteps
<1>2. k \in PackageRecord /\ k.digest = package[c].digest
  BY <1>0 DEF PackageRecord
<1>3. install' = [install EXCEPT ![c] = i] /\ package' = [package EXCEPT ![c] = k]
  BY DEF Obtain, Then
<1> HIDE DEF i, k
<1>4. UNCHANGED <<latest, stage, placed, flocked>>
  BY DEF Obtain
<1>5. install'[c] = i /\ package'[c] = k /\ \A e \in Computers : e # c => install'[e] = install[e] /\ package'[e] = package[e]
  BY <1>3 DEF InstallInv, InstallTypes
<1>6. InstallTypes'
  BY <1>1, <1>2, <1>3, <1>4 DEF InstallInv, InstallTypes
<1>7. ScriptInv(c)'
  BY <1>0, <1>1, <1>2, <1>4, <1>5 DEF ScriptInv, Scripted, Agrees
<1>8. ASSUME NEW e \in Computers, e # c PROVE ScriptInv(e)'
  BY <1>4, <1>5, <1>8 DEF InstallInv, ScriptInv, Scripted, Agrees
<1> QED  BY <1>4, <1>6, <1>7, <1>8 DEF InstallInv, PlacedIsWhole

\* While a script holds the lock, no other works.
LEMMA OneScript ==
  ASSUME InstallInv, NEW c \in Computers, Scripted(c), NEW e \in Computers, e # c
  PROVE  install[e].at \in {"idle", "inspect", "download", "upload", "lock"}
<1>1. ScriptInv(c) /\ ScriptInv(e) /\ install[e].at \in InstallSteps
  BY InstallMeans
<1> QED  BY <1>1 DEF ScriptInv, Scripted, InstallSteps

LEMMA MakeStageKeeps == ASSUME InstallInv, NEW c \in Computers, MakeStage(c) PROVE InstallInv'
<1> DEFINE i == [install[c] EXCEPT !.at = "check", !.got = {}]
           d == [NoDir EXCEPT !.there = TRUE, !.digest = package[c].digest]
<1>0. /\ install[c] \in InstallRecord /\ ScriptInv(c) /\ package[c] \in PackageRecord
      /\ install[c].at = "stage" /\ NoDir \in Directory /\ Scripted(c)
  BY InstallMeans DEF MakeStage, Does, Scripted
<1>1. i \in InstallRecord /\ i.at = "check" /\ i.got = {} /\ i.told = install[c].told
  BY <1>0 DEF InstallRecord, InstallSteps
<1>2. d \in Directory /\ d.there /\ d.digest = package[c].digest /\ d.parts = {}
  BY <1>0 DEF Directory, NoDir, PackageRecord
<1>3. install' = [install EXCEPT ![c] = i] /\ UNCHANGED <<latest, package, placed, flocked>>
  BY DEF MakeStage
<1>4. stage' = [e \in Computers |-> IF e = c THEN d
                                    ELSE IF kind = "runtime" THEN [stage[e] EXCEPT !.parts = {}] ELSE stage[e]]
  BY DEF MakeStage
<1> HIDE DEF i, d
<1>5. \A e \in Computers : stage[e] \in Directory /\ [stage[e] EXCEPT !.parts = {}] \in Directory
  BY InstallMeans DEF Directory
<1>6. stage' \in [Computers -> Directory] /\ stage'[c] = d
  BY <1>2, <1>4, <1>5
<1>7. install'[c] = i /\ \A e \in Computers : e # c => install'[e] = install[e]
  BY <1>3 DEF InstallInv, InstallTypes
<1>8. InstallTypes'
  BY <1>1, <1>3, <1>6 DEF InstallInv, InstallTypes
<1>9. ScriptInv(c)'
  BY <1>0, <1>1, <1>2, <1>3, <1>6, <1>7 DEF ScriptInv, Scripted, Agrees
<1>10. ASSUME NEW e \in Computers, e # c PROVE ScriptInv(e)'
  <2>1. install'[e].at \in {"idle", "inspect", "download", "upload", "lock"} /\ ScriptInv(e)
    BY <1>0, <1>7, <1>10, OneScript DEF InstallInv
  <2> QED  BY <1>3, <1>7, <1>10, <2>1 DEF ScriptInv, Scripted, Agrees
<1> QED  BY <1>3, <1>8, <1>9, <1>10 DEF InstallInv, PlacedIsWhole

LEMMA ExtractKeeps == ASSUME InstallInv, NEW c \in Computers, Extract(c) PROVE InstallInv'
<1>0. /\ install[c] \in InstallRecord /\ stage[c] \in Directory /\ ScriptInv(c) /\ install[c].at = "extract"
      /\ install[c].got \subseteq Parts /\ stage[c].parts = install[c].got /\ stage[c].there
  BY InstallMeans DEF Extract, Does, ScriptInv
<1>1. PICK q \in Parts \ install[c].got :
        /\ stage' = [stage EXCEPT ![c].parts = @ \cup {q}]
        /\ install' = [install EXCEPT ![c].got = @ \cup {q},
                                      ![c].at = IF install[c].got \cup {q} = Parts THEN "probe" ELSE @]
  BY DEF Extract
<1> DEFINE got == install[c].got \cup {q}
           at == IF got = Parts THEN "probe" ELSE "extract"
           i == [install[c] EXCEPT !.got = got, !.at = at]
           d == [stage[c] EXCEPT !.parts = got]
<1>2. got \subseteq Parts /\ at \in {"probe", "extract"} /\ (at = "probe" => got = Parts)
  BY <1>0
<1>3. install' = [install EXCEPT ![c] = i] /\ stage' = [stage EXCEPT ![c] = d]
  BY <1>0, <1>1
<1> HIDE DEF got, at
<1>4. i \in InstallRecord /\ i.got = got /\ i.at = at /\ i.told = install[c].told
  BY <1>0, <1>2 DEF InstallRecord, InstallSteps
<1>5. d \in Directory /\ d.there = stage[c].there /\ d.parts = got /\ d.digest = stage[c].digest
  BY <1>0, <1>2 DEF Directory
<1> HIDE DEF i, d
<1>6. ComputerMoves(c, i, d)
  BY <1>3, <1>4, <1>5 DEF ComputerMoves, Extract
<1>7. install'[c] = i /\ stage'[c] = d /\ UNCHANGED <<package, placed, flocked>>
  BY <1>3 DEF InstallInv, InstallTypes, Extract
<1>8. ScriptInv(c)'
  BY <1>0, <1>2, <1>4, <1>5, <1>7 DEF ScriptInv, Scripted, Agrees
<1> QED  BY <1>6, <1>8, ComputerKeeps

LEMMA MoveKeeps == ASSUME InstallInv, NEW c \in Computers, Move(c) PROVE InstallInv'
<1> DEFINE i == [install[c] EXCEPT !.at = "settle"]
<1>0. /\ install[c] \in InstallRecord /\ ScriptInv(c) /\ install[c].at = "move" /\ stage[c] \in Directory
      /\ NoDir \in Directory /\ Scripted(c) /\ ~placed.there
  BY InstallMeans DEF Move, Does, Scripted
<1>1. i \in InstallRecord /\ i.at = "settle" /\ i.told = install[c].told
  BY <1>0 DEF InstallRecord, InstallSteps
<1>2. /\ install' = [install EXCEPT ![c] = i] /\ stage' = [stage EXCEPT ![c] = NoDir] /\ placed' = stage[c]
      /\ UNCHANGED <<latest, package, flocked>>
  BY DEF Move, Then
<1> HIDE DEF i
<1>3. /\ install'[c] = i /\ stage'[c] = NoDir
      /\ \A e \in Computers : e # c => install'[e] = install[e] /\ stage'[e] = stage[e]
  BY <1>2 DEF InstallInv, InstallTypes
<1>4. InstallTypes'
  BY <1>0, <1>1, <1>2 DEF InstallInv, InstallTypes
<1>5. PlacedIsWhole'
  BY <1>0, <1>2 DEF ScriptInv, PlacedIsWhole
<1>6. ScriptInv(c)'
  BY <1>0, <1>1, <1>2, <1>3 DEF ScriptInv, Scripted, Agrees
<1>7. ASSUME NEW e \in Computers, e # c PROVE ScriptInv(e)'
  <2>1. ScriptInv(e) /\ install'[e].at \in {"idle", "inspect", "download", "upload", "lock"} /\ install'[e] = install[e]
    BY <1>0, <1>3, <1>7, OneScript DEF InstallInv
  <2> QED  BY <1>0, <1>2, <1>3, <1>7, <2>1 DEF ScriptInv, Scripted, Agrees
<1> QED  BY <1>4, <1>5, <1>6, <1>7 DEF InstallInv

LEMMA SettleKeeps == ASSUME InstallInv, NEW c \in Computers, Settle(c) PROVE InstallInv'
<1> DEFINE k == [placed EXCEPT !.named = TRUE]
<1>0. /\ install[c] \in InstallRecord /\ ScriptInv(c) /\ install[c].at = "settle" /\ placed \in Directory
      /\ Scripted(c) /\ package[c].digest # 0 /\ placed.there /\ Agrees(c)
  BY InstallMeans DEF Settle, Does, Scripted, ScriptInv
<1>1. k \in Directory /\ k.named /\ k.there = placed.there /\ k.parts = placed.parts
      /\ k.digest = placed.digest /\ k.synced = placed.synced
  BY <1>0 DEF Directory
<1>2. PICK i \in InstallRecord : /\ install' = [install EXCEPT ![c] = i] /\ i.at = "idle"
                                 /\ i.told \in {install[c].told, "ready"}
  <2>1. /\ [install[c] EXCEPT !.at = "idle", !.told = "ready"] \in InstallRecord
        /\ [install[c] EXCEPT !.at = "idle", !.told = "ready"].at = "idle"
        /\ [install[c] EXCEPT !.at = "idle", !.told = "ready"].told = "ready"
    BY <1>0 DEF InstallRecord, InstallSteps
  <2>2. /\ [install[c] EXCEPT !.at = "idle"] \in InstallRecord
        /\ [install[c] EXCEPT !.at = "idle"].at = "idle"
        /\ [install[c] EXCEPT !.at = "idle"].told = install[c].told
    BY <1>0 DEF InstallRecord, InstallSteps
  <2> QED  BY <2>1, <2>2 DEF Settle, Told, Then
<1>3. placed' = k /\ flocked' = Released(c) /\ UNCHANGED <<latest, package, stage>>
  BY DEF Settle
<1> HIDE DEF k
<1>4. install'[c] = i /\ \A e \in Computers : e # c => install'[e] = install[e]
  BY <1>2 DEF InstallInv, InstallTypes
<1>5. InstallTypes' /\ PlacedIsWhole'
  BY <1>1, <1>2, <1>3 DEF InstallInv, InstallTypes, PlacedIsWhole
<1>6. ScriptInv(c)'
  BY <1>0, <1>1, <1>2, <1>3, <1>4 DEF ScriptInv, Scripted, Agrees
<1>7. ASSUME NEW e \in Computers, e # c PROVE ScriptInv(e)'
  <2>1. ScriptInv(e) /\ install'[e].at \in {"idle", "inspect", "download", "upload", "lock"} /\ install'[e] = install[e]
    BY <1>0, <1>4, <1>7, OneScript DEF InstallInv
  <2> QED  BY <1>1, <1>3, <2>1 DEF ScriptInv, Scripted, Agrees
<1> QED  BY <1>5, <1>6, <1>7 DEF InstallInv

\* What has its name and is on disk is there after a power failure as it was.
LEMMA PowerKeeps == ASSUME InstallInv, PowerFails PROVE InstallInv'
<1>0. placed \in Directory /\ NoDir \in Directory /\ latest' = latest /\ package' = package
  BY DEF PowerFails, InstallInv, InstallTypes, NoDir, Directory
<1>1. /\ placed' \in Directory
      /\ placed'.there => placed.there /\ placed'.parts = Parts /\ placed'.synced
      /\ placed.named => /\ placed'.there = placed.there /\ placed'.digest = placed.digest /\ placed'.named
  <2>1. CASE placed' \in AfterPower(placed)
    <3>1. PICK q \in IF placed.synced THEN {placed.parts} ELSE SUBSET placed.parts :
            placed' = [placed EXCEPT !.parts = q, !.synced = TRUE]
      BY <2>1 DEF AfterPower
    <3>2. q \subseteq Parts /\ (placed.there => q = Parts)
      BY <1>0, <3>1 DEF InstallInv, PlacedIsWhole, Directory
    <3> QED  BY <1>0, <3>1, <3>2 DEF Directory
  <2>2. CASE placed' = NoDir /\ ~placed.named
    BY <1>0, <2>2 DEF NoDir
  <2> QED  BY <2>1, <2>2 DEF PowerFails
<1>2. ASSUME NEW c \in Computers
      PROVE  /\ install'[c] \in InstallRecord /\ install'[c].told = install[c].told /\ ~Scripted(c)'
             /\ install'[c].at # "idle" => install[c].at # "idle"
  <2> DEFINE i == [install[c] EXCEPT !.at = "idle"]
  <2>1. install[c] \in InstallRecord /\ i \in InstallRecord /\ i.at = "idle" /\ i.told = install[c].told
    BY InstallMeans DEF InstallRecord, InstallSteps
  <2>2. install'[c] = IF Scripted(c) THEN i ELSE install[c]
    BY DEF PowerFails
  <2> HIDE DEF i
  <2> QED  BY <2>1, <2>2 DEF Scripted
<1>3. InstallTypes'
  <2>1. install' \in [Computers -> InstallRecord]
    <3>1. install' = [c \in Computers |-> install'[c]]
      BY DEF PowerFails
    <3> QED  BY <1>2, <3>1
  <2>2. stage' \in [Computers -> Directory]
    BY <1>0 DEF PowerFails
  <2> QED  BY <1>0, <1>1, <2>1, <2>2 DEF InstallInv, InstallTypes
<1>4. ASSUME NEW c \in Computers PROVE ScriptInv(c)'
  <2>1. ScriptInv(c)
    BY DEF InstallInv
  <2>2. install'[c].at \notin {"stage", "check", "extract", "probe", "sync", "move", "settle"}
    BY <1>2 DEF Scripted
  <2>3. install'[c].told = "ready" => package[c].digest # 0 /\ placed'.there /\ placed'.named /\ Agrees(c)'
    BY <1>0, <1>1, <1>2, <2>1 DEF ScriptInv, Agrees
  <2>4. install'[c].at # "idle" => package[c].digest # 0
    BY <1>2, <2>1 DEF ScriptInv
  <2> QED  BY <1>0, <2>2, <2>3, <2>4 DEF ScriptInv, Scripted
<1> QED  BY <1>1, <1>3, <1>4 DEF InstallInv, PlacedIsWhole

LEMMA ReleaseKeeps == ASSUME InstallInv, ReleaseIsReplaced PROVE InstallInv'
<1>1. latest' \in Nat \ {0} /\ UNCHANGED <<kind, package, install, stage, placed, flocked>>
  BY DEF ReleaseIsReplaced, InstallInv, InstallTypes
<1> QED  BY <1>1 DEF InstallInv, InstallTypes, PlacedIsWhole, ScriptInv, Scripted, Agrees

\* runtime/install.sh, deploy.sh and release.rs: whatever scripts overlap, are stopped or killed, and
\* whatever a power failure leaves, a directory under the name of a version is the whole package, and
\* a computer that was told "ready" has the package it verified there.
THEOREM InstallIsAlwaysSound == InstallSpec => []InstallIsSound
<1>1. InstallInv /\ [InstallNext]_installVars => InstallInv'
  <2>1. UNCHANGED installVars /\ InstallInv => InstallInv'
    BY DEF installVars, InstallInv, InstallTypes, PlacedIsWhole, ScriptInv, Scripted, Agrees
  <2> QED  BY <2>1, LookUpKeeps, InspectKeeps, ObtainKeeps, UploadKeeps, LockScriptKeeps, MakeStageKeeps, CheckKeeps,
              ExtractKeeps, ProbeKeeps, SyncKeeps, MoveKeeps, SettleKeeps, StopsKeeps, KilledScriptKeeps,
              PowerKeeps, ReleaseKeeps DEF InstallNext
<1> QED  BY <1>1, InstallInitially, InstallImplies, PTL DEF InstallSpec
=============================================================================
