--------------------------- MODULE RemoteInstall ---------------------------
(***************************************************************************)
(* Computers that prepare the same server at once install one directory    *)
(* on it: a runtime of Codex, or the execution service.                    *)
(*                                                                         *)
(*   kind     which of the two; the scripts differ in what they remove;    *)
(*   latest   the digest that the release of the version names now;        *)
(*   package  the digest that each computer has for the version, and       *)
(*            whether the archive is in its cache (runtime/release.rs,     *)
(*            download.rs);                                                *)
(*   install  where each computer and its script are, what the script has  *)
(*            extracted, and what the computer was told;                   *)
(*   stage    the staging directory of each script;                        *)
(*   placed   the installed directory (runtime/install.sh, deploy.sh);     *)
(*   flocked  who holds the lock file of the version.                      *)
(*                                                                         *)
(* A script whose connection breaks goes on, or is hung up and answers by  *)
(* its traps; a client that tries again beside it is another computer. A   *)
(* killed script runs no trap; a power failure keeps what was synced, and  *)
(* of the rest whatever the disk happened to have.                         *)
(***************************************************************************)
EXTENDS Naturals

CONSTANTS
  Computers,     \* clients that prepare the server
  Parts,         \* files of the package
  Probed,        \* those without which its programs do not run
  MaxMishaps     \* bound: killed scripts, power failures, releases that are replaced

ASSUME InstallAssumption == Probed \subseteq Parts /\ MaxMishaps \in Nat /\ "unlocked" \notin Computers

VARIABLES kind, latest, package, install, stage, placed, flocked, mishaps

installVars == <<kind, latest, package, install, stage, placed, flocked, mishaps>>

Kinds == {"runtime", "service"}
Digests == 1..(MaxMishaps + 1)
Unlocked == "unlocked"
NoDir == [there |-> FALSE, digest |-> 0, parts |-> {}, synced |-> FALSE, named |-> FALSE]

InstallInit ==
  /\ kind \in Kinds /\ latest = 1
  /\ package = [c \in Computers |-> [digest |-> 0, cached |-> FALSE]]
  /\ install = [c \in Computers |-> [at |-> "idle", got |-> {}, told |-> "nothing"]]
  /\ stage = [c \in Computers |-> NoDir] /\ placed = NoDir
  /\ flocked = Unlocked /\ mishaps = 0

Does(c, step) == install[c].at = step
Then(c, step) == install' = [install EXCEPT ![c].at = step]
Told(c, what) == install' = [install EXCEPT ![c].at = "idle", ![c].told = what]
Released(c) == IF flocked = c THEN Unlocked ELSE flocked
\* The manifest is compared with the files, and the digest in the directory with the package.
Agrees(c) == placed.digest = package[c].digest

-----------------------------------------------------------------------------
(* On the computer: release.rs resolve, install.rs prepare, download.rs package_with *)

\* What the computer knows of the version is kept; only an unknown version is looked up.
LookUp(c) ==
  /\ Does(c, "idle") /\ Then(c, "inspect")
  /\ package' = [package EXCEPT ![c].digest = IF @ = 0 THEN latest ELSE @]
  /\ UNCHANGED <<kind, latest, stage, placed, flocked, mishaps>>

\* No lock is taken: the directory appears by one rename.
Inspect(c) ==
  /\ Does(c, "inspect")
  /\ IF placed.there THEN Agrees(c) /\ Told(c, "found")
                     ELSE Then(c, IF kind = "runtime" THEN "download" ELSE "upload")
  /\ UNCHANGED <<kind, latest, package, stage, placed, flocked, mishaps>>

\* A download is verified before it gets its name in the cache; a release that was replaced does not match.
Obtain(c) ==
  /\ Does(c, "download")
  /\ package[c].cached \/ package[c].digest = latest
  /\ package' = [package EXCEPT ![c].cached = TRUE]
  /\ Then(c, "upload") /\ UNCHANGED <<kind, latest, stage, placed, flocked, mishaps>>

\* The archive goes to a name of its own; the script verifies it before anything else.
Upload(c) == /\ Does(c, "upload") /\ Then(c, "lock")
             /\ UNCHANGED <<kind, latest, package, stage, placed, flocked, mishaps>>

-----------------------------------------------------------------------------
(* On the server: install.sh, deploy.sh *)

\* Mutant: the lock is not taken.
LockNone(c) == /\ Does(c, "lock") /\ Then(c, "stage")
                  /\ UNCHANGED <<kind, latest, package, stage, placed, flocked, mishaps>>
LockScript(c) ==
  /\ Does(c, "lock") /\ flocked = Unlocked /\ flocked' = c
  /\ Then(c, "stage") /\ UNCHANGED <<kind, latest, package, stage, placed, mishaps>>

\* Whatever staging directory of this version there is was abandoned: the lock is held. Only the
\* installation of a runtime removes it.
MakeStage(c) ==
  /\ Does(c, "stage")
  /\ stage' = [d \in Computers |->
       IF d = c THEN [NoDir EXCEPT !.there = TRUE, !.digest = package[c].digest]
       ELSE IF kind = "runtime" THEN [stage[d] EXCEPT !.parts = {}] ELSE stage[d]]
  /\ install' = [install EXCEPT ![c].at = "check", ![c].got = {}]
  /\ UNCHANGED <<kind, latest, package, placed, flocked, mishaps>>

\* A directory that somebody installed meanwhile is used if it is the same package.
Check(c) ==
  /\ Does(c, "check")
  /\ IF placed.there
       THEN /\ Agrees(c) /\ Told(c, "found")
            /\ stage' = [stage EXCEPT ![c] = NoDir] /\ flocked' = Released(c)
       ELSE Then(c, "extract") /\ UNCHANGED <<stage, flocked>>
  /\ UNCHANGED <<kind, latest, package, placed, mishaps>>

Extract(c) ==
  /\ Does(c, "extract")
  /\ \E p \in Parts \ install[c].got :
       /\ stage' = [stage EXCEPT ![c].parts = @ \cup {p}]
       /\ install' = [install EXCEPT ![c].got = @ \cup {p},
                                     ![c].at = IF install[c].got \cup {p} = Parts THEN "probe" ELSE @]
  /\ UNCHANGED <<kind, latest, package, placed, flocked, mishaps>>

\* The programs are run; then the hashes of the files that are there are written beside them.
Probe(c) == /\ Does(c, "probe") /\ Probed \subseteq stage[c].parts /\ Then(c, "sync")
            /\ UNCHANGED <<kind, latest, package, stage, placed, flocked, mishaps>>

\* Mutant: the tree is not on disk before it gets its name.
SyncNothing(c) == /\ Does(c, "sync") /\ Then(c, "move")
                  /\ UNCHANGED <<kind, latest, package, stage, placed, flocked, mishaps>>
Sync(c) ==
  /\ Does(c, "sync") /\ stage' = [stage EXCEPT ![c].synced = TRUE]
  /\ Then(c, "move") /\ UNCHANGED <<kind, latest, package, placed, flocked, mishaps>>

Move(c) ==
  /\ Does(c, "move") /\ ~placed.there
  /\ placed' = stage[c] /\ stage' = [stage EXCEPT ![c] = NoDir]
  /\ Then(c, "settle") /\ UNCHANGED <<kind, latest, package, flocked, mishaps>>

\* The name is on disk before the computer is told that it is ready, if it still listens.
\* Mutant: the computer is told at once.
SettleNothing(c) == /\ Does(c, "settle") /\ Told(c, "ready") /\ flocked' = Released(c)
                    /\ UNCHANGED <<kind, latest, package, stage, placed, mishaps>>
Settle(c) ==
  /\ Does(c, "settle") /\ placed' = [placed EXCEPT !.named = TRUE]
  /\ Told(c, "ready") \/ Then(c, "idle")
  /\ flocked' = Released(c) /\ UNCHANGED <<kind, latest, package, stage, mishaps>>

-----------------------------------------------------------------------------
(* Ends and faults *)

Scripted(c) == install[c].at \in {"stage", "check", "extract", "probe", "sync", "move", "settle"}
\* A failed check, a time limit, a lost connection: the traps remove what the script made.
Stops(c) ==
  /\ ~Does(c, "idle") /\ Then(c, "idle")
  /\ stage' = [stage EXCEPT ![c] = NoDir] /\ flocked' = Released(c)
  /\ UNCHANGED <<kind, latest, package, placed, mishaps>>

Mishap == mishaps < MaxMishaps /\ mishaps' = mishaps + 1
KilledScript(c) ==
  /\ Mishap /\ Scripted(c) /\ Then(c, "idle") /\ flocked' = Released(c)
  /\ UNCHANGED <<kind, latest, package, stage, placed>>

\* What was not synced is there or not, file by file and name by name.
AfterPower(d) ==
  {[d EXCEPT !.parts = p, !.synced = TRUE] : p \in IF d.synced THEN {d.parts} ELSE SUBSET d.parts}
PowerFails ==
  /\ Mishap
  /\ install' = [c \in Computers |-> IF Scripted(c) THEN [install[c] EXCEPT !.at = "idle"] ELSE install[c]]
  /\ placed' \in AfterPower(placed) \cup (IF placed.named THEN {} ELSE {NoDir})
  /\ stage' = [c \in Computers |-> NoDir] /\ flocked' = Unlocked
  /\ UNCHANGED <<kind, latest, package>>

ReleaseIsReplaced == Mishap /\ latest' = latest + 1
                     /\ UNCHANGED <<kind, package, install, stage, placed, flocked>>

InstallNext ==
  \/ \E c \in Computers :
       \/ LookUp(c) \/ Inspect(c) \/ Obtain(c) \/ Upload(c) \/ LockScript(c) \/ MakeStage(c) \/ Check(c)
       \/ Extract(c) \/ Probe(c) \/ Sync(c) \/ Move(c) \/ Settle(c) \/ Stops(c) \/ KilledScript(c)
  \/ PowerFails \/ ReleaseIsReplaced

InstallSpec == InstallInit /\ [][InstallNext]_installVars

-----------------------------------------------------------------------------
(* Properties *)

InstallTypeOK ==
  /\ kind \in Kinds /\ latest \in Digests /\ mishaps \in 0..MaxMishaps
  /\ \A c \in Computers : /\ package[c].digest \in Digests \cup {0} /\ package[c].cached \in BOOLEAN
                          /\ install[c].got \subseteq Parts /\ install[c].told \in {"nothing", "found", "ready"}
                          /\ stage[c].parts \subseteq Parts
  /\ placed.parts \subseteq Parts /\ flocked \in Computers \cup {Unlocked}

\* install.sh: a directory under the name of a version is the whole package, whatever two scripts, a
\* killed one and a power failure did; its manifest would not show a file that was never listed.
InstalledIsWhole == placed.there => placed.parts = Parts

\* install.rs prepare: a computer whose own script reported success finds the package that it verified
\* there from then on. ("Found" promises less: the name may be newer than the last sync.)
ReadyIsThere ==
  \A c \in Computers : install[c].told = "ready" => placed.there /\ Agrees(c)

InstallIsSound == InstalledIsWhole /\ ReadyIsThere
=============================================================================
