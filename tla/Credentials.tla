---------------------------- MODULE Credentials -----------------------------
(***************************************************************************)
(* The secrets of a server: a secret setting and the password of ssh, kept *)
(* in the vault of the system, with a record of each in the database.      *)
(*                                                                         *)
(*   record  state of the reference in credentials or ssh_credentials      *)
(*           (store/credentials.rs, store/ssh_credentials.rs);             *)
(*   vault   references that have a value in the vault;                    *)
(*   save    an operation that saves a secret under a new reference        *)
(*           (credentials.rs set_secret, servers/authentication.rs), each  *)
(*           in a process of its own, and what it has read before;         *)
(*   late    writes of the vault whose operation was abandoned: a blocking *)
(*           thread ends them, and holds the permit until then;            *)
(*   setting the secret of the setting and the revision; present: whether  *)
(*           the server exists;                                            *)
(*   todo    what the maintenance of the vault has listed (cleanup).       *)
(*                                                                         *)
(* Writers share credentials.lock, and maintenance has it alone. The value *)
(* of a secret is not modelled.                                            *)
(***************************************************************************)
EXTENDS Naturals, FiniteSets

CONSTANTS
  Secrets,     \* references, one for each operation that saves a secret
  NoSecret,    \* not a reference
  MaxCleanups  \* bound: times the vault is maintained

ASSUME SecretsAssumption == NoSecret \notin Secrets /\ MaxCleanups \in Nat

VARIABLES record, vault, save, late, setting, present, cleaning, todo, cleanups,
          forgotten  \* history: references that the user has forgotten, or whose server was removed

credentialVars == <<record, vault, save, late, setting, present, cleaning, todo, cleanups, forgotten>>

NoRecord == [state |-> "none", kind |-> "none", old |-> FALSE]

CredentialsInit ==
  /\ record = [r \in Secrets |-> NoRecord] /\ vault = {}
  /\ save = [r \in Secrets |-> [at |-> "none", kind |-> "none", expected |-> NoSecret, revision |-> 0]]
  /\ late = {} /\ setting = [secret |-> NoSecret, revision |-> 0] /\ present = TRUE
  /\ cleaning = FALSE /\ todo = {} /\ cleanups = 0 /\ forgotten = {}

InState(kind, state) == {r \in Secrets : record[r].kind = kind /\ record[r].state = state}
Password == IF InState("ssh", "active") = {} THEN NoSecret ELSE CHOOSE r \in Secrets : r \in InState("ssh", "active")

\* Records whose secret has been replaced, taken back or forgotten.
Retires(refs, states) ==
  record' = [r \in Secrets |-> IF r \in refs /\ record[r].state \in states THEN [record[r] EXCEPT !.state = "retired"] ELSE record[r]]

-----------------------------------------------------------------------------
(* Saving a secret.                                                        *)

\* Mutant: the permit of an abandoned write is given back.
HoldsWhileRunning == {r \in Secrets : save[r].at \in {"reserve", "put", "verify", "commit", "retire"}}

\* The shared lock: operations, and threads that still write.
Holds == {r \in Secrets : save[r].at \in {"reserve", "put", "verify", "commit", "retire"}} \cup late

\* set_secret reads the revision and waits for the lock.
BeginSetting(r) ==
  /\ save[r].at = "none" /\ present
  /\ save' = [save EXCEPT ![r] = [at |-> "lock", kind |-> "setting", expected |-> NoSecret, revision |-> setting.revision]]
  /\ UNCHANGED <<record, vault, late, setting, present, cleaning, todo, cleanups, forgotten>>

\* The password of ssh is compared with the one that was there when the lock was taken.
BeginPassword(r) ==
  /\ save[r].at = "none" /\ present /\ ~cleaning
  /\ save' = [save EXCEPT ![r] = [at |-> "reserve", kind |-> "ssh", expected |-> Password, revision |-> 0]]
  /\ UNCHANGED <<record, vault, late, setting, present, cleaning, todo, cleanups, forgotten>>

Lock(r) ==
  /\ save[r].at = "lock" /\ ~cleaning
  /\ save' = [save EXCEPT ![r].at = "reserve"]
  /\ UNCHANGED <<record, vault, late, setting, present, cleaning, todo, cleanups, forgotten>>

Pending(r) == record' = [record EXCEPT ![r] = [state |-> "pending", kind |-> save[r].kind, old |-> FALSE]]

\* The intent is recorded first; ssh_credentials only takes a server that exists.
Reserve(r) ==
  /\ save[r].at = "reserve"
  /\ IF save[r].kind = "ssh" /\ ~present
     THEN save' = [save EXCEPT ![r].at = "ended"] /\ UNCHANGED record
     ELSE save' = [save EXCEPT ![r].at = "put"] /\ Pending(r)
  /\ UNCHANGED <<vault, late, setting, present, cleaning, todo, cleanups, forgotten>>

\* The vault takes the secret, or fails, with or without having it.
Put(r) ==
  /\ save[r].at = "put"
  /\ \/ /\ vault' = vault \cup {r}
        /\ \E next \in {IF save[r].kind = "ssh" THEN "verify" ELSE "commit", "retire"} : save' = [save EXCEPT ![r].at = next]
     \/ save' = [save EXCEPT ![r].at = "retire"] /\ UNCHANGED vault
  /\ UNCHANGED <<record, late, setting, present, cleaning, todo, cleanups, forgotten>>

\* A connection by the staged password alone; a password that was forgotten meanwhile is not tried.
Verify(r) ==
  /\ save[r].at = "verify"
  /\ \/ record[r].state = "pending" /\ save' = [save EXCEPT ![r].at = "commit"]
     \/ save' = [save EXCEPT ![r].at = "retire"]
  /\ UNCHANGED <<record, vault, late, setting, present, cleaning, todo, cleanups, forgotten>>

\* activate_ssh_credential: compared with what was read, and only a pending one.
PasswordReplaced(r) == save[r].expected = Password /\ present /\ record[r].state = "pending"

\* update_config: the revision is compared, and only a pending or active reference is taken.
SettingReplaced(r) == save[r].revision = setting.revision /\ present /\ record[r].state = "pending"

\* The new secret takes the place of the old one in one transaction.
Commit(r) ==
  LET ssh == save[r].kind = "ssh"
  IN  /\ save[r].at = "commit"
      /\ \/ /\ IF ssh THEN PasswordReplaced(r) ELSE SettingReplaced(r)
            /\ record' = [q \in Secrets |->
                            IF q = r THEN [record[q] EXCEPT !.state = "active"]
                            ELSE IF q = (IF ssh THEN Password ELSE setting.secret)
                                 THEN [record[q] EXCEPT !.state = "retired"] ELSE record[q]]
            /\ setting' = IF ssh THEN setting ELSE [secret |-> r, revision |-> setting.revision + 1]
            /\ save' = [save EXCEPT ![r].at = "ended"]
         \/ ~(IF ssh THEN PasswordReplaced(r) ELSE SettingReplaced(r))
            /\ save' = [save EXCEPT ![r].at = "retire"] /\ UNCHANGED <<record, setting>>
      /\ UNCHANGED <<vault, late, present, cleaning, todo, cleanups, forgotten>>

\* After a failure the record is retired; when that fails too it stays pending.
Retire(r) ==
  /\ save[r].at = "retire"
  /\ save' = [save EXCEPT ![r].at = "ended"]
  /\ Retires({r}, {"pending"}) \/ UNCHANGED record
  /\ UNCHANGED <<vault, late, setting, present, cleaning, todo, cleanups, forgotten>>

\* The operation is abandoned; a write of the vault that has begun goes on.
Abandon(r) ==
  /\ save[r].at \notin {"none", "ended"}
  /\ save' = [save EXCEPT ![r].at = "ended"]
  /\ late' = IF save[r].at = "put" THEN late \cup {r} ELSE late
  /\ UNCHANGED <<record, vault, setting, present, cleaning, todo, cleanups, forgotten>>

\* The process ends, by itself or by a crash, and the system gives back its lock.
SaverDies(r) ==
  /\ save[r].at \notin {"none", "ended"} \/ r \in late
  /\ save' = [save EXCEPT ![r].at = "ended"] /\ late' = late \ {r}
  /\ \/ UNCHANGED vault
     \/ (save[r].at = "put" \/ r \in late) /\ vault' = vault \cup {r}
  /\ UNCHANGED <<record, setting, present, cleaning, todo, cleanups, forgotten>>

PutLate(r) ==
  /\ r \in late
  /\ late' = late \ {r}
  /\ vault' = vault \cup {r} \/ UNCHANGED vault
  /\ UNCHANGED <<record, save, setting, present, cleaning, todo, cleanups, forgotten>>

-----------------------------------------------------------------------------
(* Removing secrets, and time.                                             *)

\* unset_config: what no setting refers to is retired.
Unset ==
  /\ present /\ setting.secret # NoSecret
  /\ setting' = [secret |-> NoSecret, revision |-> setting.revision + 1]
  /\ Retires({setting.secret}, {"active"})
  /\ UNCHANGED <<vault, save, late, present, cleaning, todo, cleanups, forgotten>>

\* Passwords that are not yet active are forgotten too.
Forgets(others) ==
  LET refs == InState("ssh", "active") \cup InState("ssh", "pending") \cup (others \ {NoSecret})
  IN  Retires(refs, {"active", "pending"}) /\ forgotten' = forgotten \cup refs

\* forget_ssh_credentials
ForgetPassword ==
  /\ present /\ Forgets({})
  /\ UNCHANGED <<vault, save, late, setting, present, cleaning, todo, cleanups>>

\* remove_server
RemoveServer ==
  /\ present /\ present' = FALSE
  /\ Forgets({setting.secret})
  /\ setting' = [setting EXCEPT !.secret = NoSecret]
  /\ UNCHANGED <<vault, save, late, cleaning, todo, cleanups>>

\* Pending records are older than a day.
DayPasses ==
  /\ record' = [r \in Secrets |-> [record[r] EXCEPT !.old = @ \/ record[r].state = "pending"]]
  /\ UNCHANGED <<vault, save, late, setting, present, cleaning, todo, cleanups, forgotten>>

-----------------------------------------------------------------------------
(* Maintenance of the vault.                                               *)

Disposable == {r \in Secrets : record[r].state = "retired" \/ (record[r].state = "pending" /\ record[r].old)}

\* cleanup, when nobody holds the lock.
CleanupBegins ==
  /\ ~cleaning /\ cleanups < MaxCleanups /\ Disposable # {} /\ Holds = {}
  /\ cleaning' = TRUE /\ cleanups' = cleanups + 1
  /\ todo' = Disposable /\ Retires(Disposable, {"pending"})
  /\ UNCHANGED <<vault, save, late, setting, present, forgotten>>

\* The secret is deleted, then its record; either may fail and is left for later.
CleanupOne(r) ==
  /\ cleaning /\ r \in todo
  /\ \/ vault' = vault \ {r} /\ UNCHANGED <<record, todo>>
     \/ r \notin vault /\ record' = [record EXCEPT ![r] = NoRecord] /\ todo' = todo \ {r} /\ UNCHANGED vault
     \/ todo' = todo \ {r} /\ UNCHANGED <<record, vault>>
  /\ UNCHANGED <<save, late, setting, present, cleaning, cleanups, forgotten>>

\* All are done, two seconds have passed, or the process has ended.
CleanupEnds ==
  /\ cleaning /\ cleaning' = FALSE /\ todo' = {}
  /\ UNCHANGED <<record, vault, save, late, setting, present, cleanups, forgotten>>

-----------------------------------------------------------------------------
CredentialsNext ==
  \/ \E r \in Secrets :
       \/ BeginSetting(r) \/ BeginPassword(r) \/ Lock(r) \/ Reserve(r) \/ Put(r) \/ Verify(r) \/ Commit(r) \/ Retire(r)
       \/ Abandon(r) \/ SaverDies(r) \/ PutLate(r) \/ CleanupOne(r)
  \/ Unset \/ ForgetPassword \/ RemoveServer \/ DayPasses \/ CleanupBegins \/ CleanupEnds

CredentialsSpec == CredentialsInit /\ [][CredentialsNext]_credentialVars

-----------------------------------------------------------------------------
(* Properties *)

\* Whatever is abandoned, fails, crashes or is saved, forgotten and cleaned up at the same time, a
\* secret in use is in the vault and was not forgotten, and no secret is in the vault without a record
\* by which it is found and deleted (credentials.rs).
SecretsAreKnown ==
  \A r \in Secrets :
    /\ record[r].state = "active" => r \in vault /\ r \notin forgotten
    /\ r \in vault => record[r].state # "none"
    /\ r = setting.secret => record[r].state = "active"
=============================================================================
