----------------------------- MODULE SelfUpdate -----------------------------
(***************************************************************************)
(* How the programs of a computer replace their own installation           *)
(* (crates/client/src/updates).                                            *)
(*                                                                         *)
(*   published  the version that is the latest release;                    *)
(*   installed  version and inode of the installation;                     *)
(*   saved      state.json: mode, known release, and whether it is fresh;  *)
(*   job        what a running program does: it checks, installs, or does  *)
(*              either by itself (automatic_check), one at a time by the   *)
(*              lock of the component;                                     *)
(*   writer     who has state.lock, and what was read under it.            *)
(*                                                                         *)
(* The installation may be replaced by other means at any time. Between    *)
(* the last look at it and the exchange nothing can notice that (crossed). *)
(* Signatures and archives are not modelled: a download fails or is the    *)
(* release.                                                                *)
(***************************************************************************)
EXTENDS Naturals, FiniteSets

CONSTANTS
  Programs,     \* running programs
  NoProgram,    \* not a program
  MaxVersion,   \* bound: releases
  MaxReplaced,  \* bound: replacements by other means
  MaxModes      \* bound: changes of the mode

ASSUME UpdateAssumption == NoProgram \notin Programs /\ {MaxVersion, MaxReplaced, MaxModes} \subseteq Nat

VARIABLES published, installed, saved, job, writer, wanted, replaced, modes, crossed

updateVars == <<published, installed, saved, job, writer, wanted, replaced, modes, crossed>>

Modes == {"notify", "auto", "manual"}
NoJob == [at |-> "none", kind |-> "none", release |-> 0, inode |-> 0]
NoWriter == [who |-> NoProgram, read |-> [mode |-> "none", release |-> 0, fresh |-> FALSE]]

UpdateInit ==
  /\ published = 1 /\ installed = [version |-> 1, inode |-> 0]
  /\ saved = [mode |-> "notify", release |-> 0, fresh |-> FALSE]
  /\ job = [p \in Programs |-> NoJob] /\ writer = NoWriter
  /\ wanted = "notify" /\ replaced = 0 /\ modes = 0 /\ crossed = FALSE

JobGoes(p, at) == job' = [job EXCEPT ![p].at = at]
EndsJob(p) == job' = [job EXCEPT ![p] = NoJob]

-----------------------------------------------------------------------------
(* state.json is read and written under state.lock.                        *)

\* Mutant: state.json is read before the lock is taken.
StateIsFreeAnyway == TRUE

StateIsFree == writer.who = NoProgram

\* storage::change, by a program that has found a release.
ChangeBegins(p) ==
  /\ job[p].at = "store" /\ StateIsFree
  /\ writer' = [who |-> p, read |-> saved]
  /\ JobGoes(p, "storing")
  /\ UNCHANGED <<published, installed, saved, wanted, replaced, modes, crossed>>

ChangeEnds(p) ==
  /\ job[p].at = "storing"
  /\ saved' = [writer.read EXCEPT !.release = job[p].release, !.fresh = TRUE]
  /\ writer' = NoWriter
  /\ JobGoes(p, "decide")
  /\ UNCHANGED <<published, installed, wanted, replaced, modes, crossed>>

\* configure, by the settings of a program or a command, takes no other lock.
Configure(mode) ==
  /\ modes < MaxModes /\ StateIsFree
  /\ modes' = modes + 1 /\ wanted' = mode
  /\ saved' = [saved EXCEPT !.mode = mode]
  /\ UNCHANGED <<published, installed, job, writer, replaced, crossed>>

-----------------------------------------------------------------------------
(* Checking and installing.                                                *)

\* The lock of the component, which ends with the program that has it.
IsFree == \A p \in Programs : job[p].at = "none"

\* check and install; when another is at it they are refused (UPDATE_BUSY).
Begin(p, kind) ==
  /\ kind \in {"check", "install"} /\ IsFree
  /\ job' = [job EXCEPT ![p] = [NoJob EXCEPT !.at = "refresh", !.kind = kind]]
  /\ UNCHANGED <<published, installed, saved, writer, wanted, replaced, modes, crossed>>

\* automatic_check uses a release that is less than a day old.
BeginByItself(p) ==
  /\ IsFree /\ saved.mode # "manual"
  /\ job' = [job EXCEPT ![p] = [NoJob EXCEPT !.at = IF saved.fresh THEN "decide" ELSE "refresh", !.kind = "auto",
                                             !.release = IF saved.fresh THEN saved.release ELSE 0]]
  /\ UNCHANGED <<published, installed, saved, writer, wanted, replaced, modes, crossed>>

\* refresh_release
Refresh(p) ==
  /\ job[p].at = "refresh"
  /\ job' = [job EXCEPT ![p].at = "store", ![p].release = published]
  /\ UNCHANGED <<published, installed, saved, writer, wanted, replaced, modes, crossed>>

\* By itself a program only installs when the mode, read again, says so.
Decide(p) ==
  /\ job[p].at = "decide"
  /\ IF job[p].kind = "install" \/ (job[p].kind = "auto" /\ saved.mode = "auto") THEN JobGoes(p, "look") ELSE EndsJob(p)
  /\ UNCHANGED <<published, installed, saved, writer, wanted, replaced, modes, crossed>>

\* Mutant: the version is read before the inode.
LookLast(p) ==
  \/ /\ job[p].at = "look"
     /\ IF job[p].release > installed.version THEN JobGoes(p, "version") ELSE EndsJob(p)
  \/ /\ job[p].at = "version"
     /\ job' = [job EXCEPT ![p].at = "download", ![p].inode = installed.inode]

\* install looks at the installation, and then has it tell its version.
Look(p) ==
  \/ /\ job[p].at = "look"
     /\ job' = [job EXCEPT ![p].at = "version", ![p].inode = installed.inode]
  \/ /\ job[p].at = "version"
     /\ IF job[p].release > installed.version THEN JobGoes(p, "download") ELSE EndsJob(p)

Compare(p) ==
  /\ Look(p)
  /\ UNCHANGED <<published, installed, saved, writer, wanted, replaced, modes, crossed>>

\* The package is downloaded, verified and extracted beside the installation, which is looked at again (UPDATE_CHANGED).
Download(p) ==
  /\ job[p].at = "download"
  /\ IF job[p].inode = installed.inode THEN JobGoes(p, "exchange") /\ crossed' = FALSE ELSE EndsJob(p) /\ UNCHANGED crossed
  /\ UNCHANGED <<published, installed, saved, writer, wanted, replaced, modes>>

\* replace: one exchange of names.
Exchange(p) ==
  /\ job[p].at = "exchange"
  /\ replaced' = replaced + 1
  /\ installed' = [version |-> job[p].release, inode |-> replaced']
  /\ EndsJob(p)
  /\ UNCHANGED <<published, saved, writer, wanted, modes, crossed>>

\* A step fails, or the program ends; what it has staged goes, and its locks.
Fails(p) ==
  /\ job[p].at \notin {"none"}
  /\ EndsJob(p)
  /\ writer' = IF writer.who = p THEN NoWriter ELSE writer
  /\ UNCHANGED <<published, installed, saved, wanted, replaced, modes, crossed>>

-----------------------------------------------------------------------------
(* The rest of the world.                                                  *)

\* A version is released, or the latest one taken back.
Publish ==
  /\ published' \in 1 .. MaxVersion
  /\ UNCHANGED <<installed, saved, job, writer, wanted, replaced, modes, crossed>>

\* An installer, or an updater with another data directory.
Replace ==
  /\ replaced < MaxReplaced
  /\ replaced' = replaced + 1
  /\ \E v \in 1 .. MaxVersion : installed' = [version |-> v, inode |-> replaced']
  /\ crossed' = (crossed \/ \E p \in Programs : job[p].at = "exchange")
  /\ UNCHANGED <<published, saved, job, writer, wanted, modes>>

\* The known release is a day old.
ReleaseAges ==
  /\ saved' = [saved EXCEPT !.fresh = FALSE]
  /\ UNCHANGED <<published, installed, job, writer, wanted, replaced, modes, crossed>>

UpdateNext ==
  \/ \E p \in Programs :
       \/ BeginByItself(p) \/ Refresh(p) \/ ChangeBegins(p) \/ ChangeEnds(p) \/ Decide(p)
       \/ Compare(p) \/ Download(p) \/ Exchange(p) \/ Fails(p)
       \/ \E kind \in {"check", "install"} : Begin(p, kind)
  \/ \E mode \in Modes : Configure(mode)
  \/ Publish \/ Replace \/ ReleaseAges

UpdateSpec == UpdateInit /\ [][UpdateNext]_updateVars

-----------------------------------------------------------------------------
(* Properties *)

\* An update never takes the place of a version as new as itself, whatever has replaced the installation
\* while it was downloaded, and what a check stores never undoes a choice of the mode (updates/package.rs,
\* updates/storage.rs).
UpdatesAreSafe ==
  /\ \A p \in Programs : job[p].at = "exchange" /\ ~crossed => job[p].release > installed.version
  /\ saved.mode = wanted
=============================================================================
