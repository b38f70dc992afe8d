---------------------------- MODULE FileTransfer ----------------------------
(***************************************************************************)
(* The upload of one file: the engine of the client, its saved task and    *)
(* item, the staging directory at the destination, and a server, a network *)
(* and a client that may stop at any step. A download is the same engine   *)
(* with its two endpoints exchanged.                                       *)
(*                                                                         *)
(*   task, item  rows of the client store (transfers/model.rs);            *)
(*   pc          where the engine is (transfers/engine.rs, copy.rs,        *)
(*               conflict.rs); "idle" when no process runs the transfer;   *)
(*   job         the command under way at the destination: the worker goes *)
(*               on to its end when its connection breaks (server/         *)
(*               transfers.rs);                                            *)
(*   stage       what is on disk for each token: directory, state.json,    *)
(*               data (transfer/staging.rs, journal.rs);                   *)
(*   source, dest   the files, which others may change at any time.        *)
(*                                                                         *)
(* A file is known by its stamp, a number that is never used twice; its    *)
(* content is a sequence of blocks, each named by the version it comes     *)
(* from. The worker of a broken connection has begun its command by then.  *)
(***************************************************************************)
EXTENDS Naturals, Sequences

CONSTANTS
  Length,      \* blocks of the file
  MaxTokens,   \* bound: staging directories, one more for every restart
  MaxEdits,    \* bound: changes of the source or the destination by others
  MaxFaults    \* bound: connections that break, servers and clients that stop

ASSUME TransferAssumption == /\ Length \in Nat \ {0} /\ MaxTokens \in Nat \ {0}
                             /\ MaxEdits \in Nat /\ MaxFaults \in Nat

VARIABLES task, item, pc, job, stage, source, dest, edits, faults, hist

client == <<task, item, pc>>
disk == <<stage, dest>>
others == <<source, edits, faults>>
vars == <<task, item, pc, job, stage, source, dest, edits, faults, hist>>

Names == {"name", "other"}            \* the destination, and the name KeepBoth finds
Tokens == 1..MaxTokens
Absent == [id |-> 0, content |-> <<>>]
Others == 2 + MaxEdits                \* the last stamp that a file of somebody else may have
Copied(t, c) == [id |-> Others + t, content |-> c]   \* the stamp of a published file
NoStage == [at |-> "none", src |-> 0, exp |-> 0, offset |-> 0, digest |-> FALSE,
            committed |-> FALSE, data |-> <<>>, has |-> FALSE]
NoJob == [cmd |-> "none", at |-> "done", reply |-> "none", live |-> FALSE]

Whole(v) == [b \in 1..Length |-> v]
Finished == {"completed", "cancelled"}
Choices == {"none", "replace", "both", "skip"}
Places == {"idle", "scan", "restage", "restaging", "renew", "choose", "prepare", "preparing", "writing",
           "committing", "clean", "cleaning", "mending", "clearing", "end"}

Init ==
  /\ task = [status |-> "paused", cancel |-> FALSE, scanned |-> FALSE, conflict |-> 0]
  /\ item = [prepared |-> FALSE, exp |-> 0, done |-> FALSE, skipped |-> FALSE, choice |-> "none",
             restart |-> FALSE, restage |-> FALSE, tok |-> 1, name |-> "name", src |-> 0]
  /\ pc = "idle" /\ job = NoJob
  /\ stage = [t \in Tokens |-> NoStage]
  /\ source = 1
  /\ dest \in {[n \in Names |-> Absent], [n \in Names |-> IF n = "name" THEN [id |-> 2, content |-> <<2>>] ELSE Absent]}
  /\ edits = 0 /\ faults = 0
  /\ hist = [agreed |-> {}, late |-> {}, published |-> {}]

-----------------------------------------------------------------------------
(* The destination: staging.rs, journal.rs *)

st == stage[item.tok]
target == dest[item.name].id
Stages(s) == stage' = [stage EXCEPT ![item.tok] = s]
Replies(r) == job' = [job EXCEPT !.at = "done", !.reply = r]
Steps(at) == job' = [job EXCEPT !.at = at]
Works(cmd, at) == job.cmd = cmd /\ job.at = at
\* The directory, then its lock; a directory without state.json is begun again.
PrepareStages ==
  /\ Works("prepare", "begin")
  /\ IF st.at = "none" THEN Stages([NoStage EXCEPT !.at = "bare"]) ELSE UNCHANGED stage
  /\ Steps("journal") /\ UNCHANGED <<client, dest, others, hist>>

PrepareJournals ==
  /\ Works("prepare", "journal")
  /\ IF st.at = "bare"
     THEN Stages([NoStage EXCEPT !.at = "ready", !.src = item.src, !.exp = item.exp, !.has = TRUE])
     ELSE UNCHANGED stage
  /\ Steps("check") /\ UNCHANGED <<client, dest, others, hist>>

\* Mutant: a verified digest counts as a publication.
PublishedByDigest(s) == s.digest

\* Without its data, a verified stage is judged by the destination: is this the file?
Published(s) == s.digest /\ ~s.has /\ dest[item.name].content = Whole(s.src)
\* The data went to the destination, or a removal of the stage was cut off.
Gone(s) == s.digest /\ ~s.has

\* The checkpoint must be of this source and destination; data beyond it is cut off.
PrepareChecks ==
  /\ Works("prepare", "check")
  /\ IF st.src # item.src \/ st.exp # item.exp THEN Replies("changed") /\ UNCHANGED stage
     ELSE IF Published(st) THEN Stages([st EXCEPT !.committed = TRUE]) /\ Replies("complete")
     ELSE IF Gone(st) \/ target # st.exp THEN Replies("conflict") /\ UNCHANGED stage
     ELSE IF ~st.has THEN Replies("failed") /\ UNCHANGED stage
          ELSE Stages([st EXCEPT !.data = SubSeq(@, 1, st.offset)]) /\ Replies("ready")
  /\ UNCHANGED <<client, dest, others, hist>>

\* A block is written and synced before the checkpoint counts it.
WriteBlock ==
  /\ Works("write", "begin")
  /\ IF st.at # "ready" \/ st.committed \/ ~st.has THEN Replies("failed") /\ UNCHANGED stage
     ELSE Stages([st EXCEPT !.data = Append(SubSeq(@, 1, st.offset), item.src)]) /\ Steps("count")
  /\ UNCHANGED <<client, dest, others, hist>>

WriteCounts ==
  /\ Works("write", "count")
  /\ Stages([st EXCEPT !.offset = @ + 1]) /\ Replies("ready")
  /\ UNCHANGED <<client, dest, others, hist>>

\* Complete, unchanged and of the expected digest, which is saved first. The hash
\* of a worker whose connection broke is abandoned.
CommitVerifies ==
  /\ Works("commit", "begin")
  /\ \/ st.at # "ready" /\ Replies("failed") /\ UNCHANGED stage
     \/ /\ st.at = "ready" /\ Gone(st)
        /\ IF Published(st) THEN Stages([st EXCEPT !.committed = TRUE]) /\ Replies("done")
           ELSE Replies("conflict") /\ UNCHANGED stage
     \/ /\ st.at = "ready" /\ ~Gone(st)
        /\ (st.offset # Length \/ target # st.exp)
        /\ Replies("conflict") /\ UNCHANGED stage
     \/ /\ st.at = "ready" /\ ~Gone(st) /\ st.offset = Length /\ target = st.exp
        /\ \/ st.data = Whole(item.src) /\ Stages([st EXCEPT !.digest = TRUE]) /\ Steps("recheck")
           \/ (st.data # Whole(item.src) \/ ~job.live) /\ Replies("failed") /\ UNCHANGED stage
  /\ UNCHANGED <<client, dest, others, hist>>

\* Mutant: the destination is not looked at again.
CommitTrusts ==
  /\ Works("commit", "recheck") /\ Steps("rename") /\ UNCHANGED <<client, disk, others, hist>>

CommitRechecks ==
  /\ Works("commit", "recheck")
  /\ IF target = st.exp THEN Steps("rename") ELSE Replies("conflict")
  /\ UNCHANGED <<client, disk, others, hist>>

\* Mutant: the data is copied to its place block by block.
CommitCopies ==
  /\ Works("commit", "rename")
  /\ dest' = [dest EXCEPT ![item.name] = Copied(item.tok, SubSeq(st.data, 1, Len(@.content) + 1))]
  /\ IF dest'[item.name].content = st.data THEN Steps("save") /\ Stages([st EXCEPT !.has = FALSE])
     ELSE UNCHANGED <<job, stage>>
  /\ hist' = [hist EXCEPT !.published = @ \cup {[tok |-> item.tok, src |-> st.src]}]
  /\ UNCHANGED <<client, others>>

\* A new name is taken without replacing; an agreed file is replaced.
CommitRenames ==
  /\ Works("commit", "rename")
  /\ IF st.exp = 0 /\ target # 0
     THEN Replies("failed") /\ UNCHANGED <<disk, hist>>
     ELSE /\ dest' = [dest EXCEPT ![item.name] = Copied(item.tok, st.data)]
          /\ Stages([st EXCEPT !.data = <<>>, !.has = FALSE]) /\ Steps("save")
          /\ hist' = [hist EXCEPT !.published = @ \cup {[tok |-> item.tok, src |-> st.src]}]
  /\ UNCHANGED <<client, others>>

CommitSaves ==
  /\ Works("commit", "save")
  /\ Stages([st EXCEPT !.committed = TRUE]) /\ Replies("done")
  /\ UNCHANGED <<client, dest, others, hist>>

\* data, state.json, and the directory are removed in this order.
CancelRemoves ==
  /\ job.cmd = "cancel"
  /\ \/ job.at = "begin" /\ st.at = "none" /\ Replies("done") /\ UNCHANGED stage
     \/ job.at = "begin" /\ st.at = "bare" /\ Replies("missing") /\ UNCHANGED stage
     \/ job.at = "begin" /\ st.at = "ready" /\ Stages([st EXCEPT !.data = <<>>, !.has = FALSE]) /\ Steps("state")
     \/ job.at = "state" /\ Stages([NoStage EXCEPT !.at = "bare"]) /\ Steps("dir")
     \/ job.at = "dir" /\ Stages(NoStage) /\ Replies("done")
  /\ UNCHANGED <<client, dest, others, hist>>

Worker == \/ PrepareStages \/ PrepareJournals \/ PrepareChecks \/ WriteBlock \/ WriteCounts
          \/ CommitVerifies \/ CommitRechecks \/ CommitRenames \/ CommitSaves \/ CancelRemoves

-----------------------------------------------------------------------------
(* The engine: transfers.rs, engine.rs, scan.rs, conflict.rs, copy.rs *)

Alone == UNCHANGED <<disk, others, hist>>
\* One command at a time holds the lock of the staging directory.
Busy == job.at # "done"
\* The run ends; what is not finished or asks a question is paused.
Stops(t) == /\ pc' = "idle"
            /\ task' = IF t.status \in Finished \cup {"conflict"} THEN t ELSE [t EXCEPT !.status = "paused"]
Asks(cmd, at) ==
  IF Busy THEN Stops(task) /\ UNCHANGED job
  ELSE /\ job' = [cmd |-> cmd, at |-> "begin", reply |-> "none", live |-> TRUE]
       /\ pc' = at /\ UNCHANGED task
Answered(at, replies) == pc = at /\ job.live /\ ~Busy /\ job.reply \in replies
Conflicts == /\ Stops([task EXCEPT !.status = "conflict", !.conflict = target])
             /\ item' = [item EXCEPT !.choice = "none"]

\* One process holds the lease; a finished transfer is not run again.
Run ==
  /\ pc = "idle" /\ task.status \notin Finished
  /\ pc' = "scan" /\ task' = [task EXCEPT !.status = "running"]
  /\ UNCHANGED <<item, job>> /\ Alone

\* The entries are listed once, with the stamps that are transferred.
Scan ==
  /\ pc = "scan"
  /\ IF task.scanned \/ task.cancel
     THEN UNCHANGED <<task, item>>
     ELSE task' = [task EXCEPT !.scanned = TRUE] /\ item' = [item EXCEPT !.src = source]
  /\ pc' = IF task.cancel \/ item.done THEN "clean"
           ELSE IF item.restart \/ item.restage THEN "restage" ELSE "choose"
  /\ UNCHANGED job /\ Alone

\* The old staging directory goes before the file is staged anew.
RestageCancels ==
  /\ pc = "restage"
  /\ IF item.prepared THEN Asks("cancel", "restaging") ELSE pc' = "renew" /\ UNCHANGED <<task, job>>
  /\ UNCHANGED item /\ Alone

Renew ==
  /\ pc = "renew" \/ Answered("restaging", {"done"})
  /\ item' = [item EXCEPT !.tok = @ + 1, !.prepared = FALSE, !.restart = FALSE, !.restage = FALSE,
                          !.src = IF item.restart THEN source ELSE @,
                          !.choice = IF item.restart THEN "none" ELSE @]
  /\ pc' = "choose" /\ UNCHANGED <<task, job>> /\ Alone

\* What to do with a file that is there; the answer holds for the stamp it was given for.
Choose ==
  LET stale == task.conflict # 0 /\ item.choice # "none" /\ task.conflict # target IN
  /\ pc = "choose"
  /\ \/ item.prepared /\ pc' = "prepare" /\ UNCHANGED <<item, task, hist>>
     \/ /\ ~item.prepared /\ target # 0 /\ (stale \/ item.choice = "none")
        /\ Conflicts /\ UNCHANGED hist
     \/ /\ ~item.prepared /\ target # 0 /\ ~stale /\ item.choice = "skip"
        /\ item' = [item EXCEPT !.skipped = TRUE, !.done = TRUE]
        /\ pc' = "clean" /\ task' = [task EXCEPT !.conflict = 0] /\ UNCHANGED hist
     \/ /\ ~item.prepared
        /\ (target = 0 \/ (~stale /\ item.choice \in {"replace", "both"}))
        /\ \E n \in IF target # 0 /\ item.choice = "both" THEN {m \in Names : dest[m].id = 0} ELSE {item.name} :
             item' = [item EXCEPT !.prepared = TRUE, !.exp = dest[n].id, !.name = n]
        /\ hist' = [hist EXCEPT !.agreed = IF target # 0 /\ item.choice = "replace" THEN @ \cup {target} ELSE @]
        /\ pc' = "prepare" /\ UNCHANGED task
  /\ UNCHANGED <<job, disk, others>>

Prepare == pc = "prepare" /\ Asks("prepare", "preparing") /\ UNCHANGED item /\ Alone

\* A block is read, if the source still has the stamp, and written.
Copy ==
  /\ Answered("preparing", {"ready"}) \/ Answered("writing", {"ready"})
  /\ st.offset < Length
  /\ IF source = item.src THEN Asks("write", "writing") ELSE Stops(task) /\ UNCHANGED job
  /\ UNCHANGED item /\ Alone

\* The digest of the whole source, of the same stamp, is what must be committed.
Commit ==
  /\ Answered("preparing", {"ready"}) \/ Answered("writing", {"ready"})
  /\ st.offset = Length
  /\ IF source = item.src THEN Asks("commit", "committing") ELSE Stops(task) /\ UNCHANGED job
  /\ UNCHANGED item /\ Alone

Done ==
  /\ Answered("preparing", {"complete"}) \/ Answered("committing", {"done"})
  /\ item' = [item EXCEPT !.done = TRUE] /\ task' = [task EXCEPT !.conflict = 0]
  /\ pc' = "clean" /\ UNCHANGED job /\ Alone

\* A destination that changed is a question; any other error pauses the transfer.
Fails ==
  /\ \/ /\ Answered("preparing", {"conflict"}) \/ Answered("committing", {"conflict"})
        /\ IF target # 0 THEN Conflicts ELSE Stops(task) /\ UNCHANGED item
     \/ /\ \/ Answered("preparing", {"changed", "failed"}) \/ Answered("committing", {"failed"})
           \/ Answered("writing", {"failed"}) \/ Answered("restaging", {"missing"})
           \/ Answered("clearing", {"missing"}) \/ Answered("mending", {"changed", "failed"})
        /\ Stops(task) /\ UNCHANGED item
  /\ UNCHANGED job /\ Alone

\* Mutant: a directory without a journal is left to itself.
CleanMendsNot ==
  /\ Answered("cleaning", {"missing"})
  /\ pc' = "end" /\ UNCHANGED <<task, item, job>> /\ Alone

\* Mutant: the removal is tried again, as if it could find the journal later.
CleanRetries ==
  /\ Answered("cleaning", {"missing"}) /\ Asks("cancel", "cleaning") /\ UNCHANGED item /\ Alone

\* An interrupted journal is completed before the directory is removed.
CleanMends ==
  /\ Answered("cleaning", {"missing"}) /\ Asks("prepare", "mending") /\ UNCHANGED item /\ Alone

Clean ==
  /\ \/ pc = "clean" /\ item.prepared /\ Asks("cancel", "cleaning")
     \/ pc = "clean" /\ ~item.prepared /\ pc' = "end" /\ UNCHANGED <<task, job>>
     \/ Answered("mending", {"ready", "complete", "conflict"}) /\ Asks("cancel", "clearing")
     \/ \E at \in {"cleaning", "clearing"} : Answered(at, {"done"}) /\ pc' = "end" /\ UNCHANGED <<task, job>>
  /\ UNCHANGED item /\ Alone

End ==
  /\ pc = "end" /\ Stops([task EXCEPT !.status = IF task.cancel THEN "cancelled" ELSE "completed"])
  /\ UNCHANGED <<item, job>> /\ Alone

Engine == \/ Scan \/ RestageCancels \/ Renew \/ Choose \/ Prepare \/ Copy \/ Commit \/ Done
          \/ Fails \/ CleanMends \/ Clean \/ End

-----------------------------------------------------------------------------
(* The user, the others, and what may fail *)

Fresh == 3 + edits

\* The answer to the question that the transfer asks.
Resolve ==
  /\ pc = "idle" /\ task.conflict # 0 /\ item.tok < MaxTokens
  /\ \E c \in Choices \ {"none"} : item' = [item EXCEPT !.choice = c, !.restage = item.prepared]
  /\ UNCHANGED <<task, pc, job>> /\ Alone

RestartFile ==
  /\ pc = "idle" /\ task.scanned /\ ~item.done /\ item.tok < MaxTokens
  /\ item' = [item EXCEPT !.restart = TRUE] /\ task' = [task EXCEPT !.conflict = 0]
  /\ UNCHANGED <<pc, job>> /\ Alone

\* The run is paused first; the next one cleans up.
CancelTransfer ==
  /\ pc = "idle" /\ ~task.cancel
  /\ task' = [task EXCEPT !.cancel = TRUE, !.status = "paused", !.conflict = 0]
  /\ UNCHANGED <<item, pc, job>> /\ Alone

\* A pause, or the end of the process. A command under way goes on.
ClientStops ==
  /\ pc # "idle" /\ faults < MaxFaults /\ faults' = faults + 1
  /\ pc' = "idle" /\ job' = [job EXCEPT !.live = FALSE]
  /\ UNCHANGED <<task, item, source, edits, disk, hist>>

\* The reply is lost; the engine connects again and begins anew.
ConnectionBreaks ==
  /\ pc # "idle" /\ job.live /\ faults < MaxFaults /\ faults' = faults + 1
  /\ pc' = "scan" /\ job' = [job EXCEPT !.live = FALSE]
  /\ UNCHANGED <<task, item, source, edits, disk, hist>>

\* The server ends between two steps of a command.
ServerStops ==
  /\ Busy /\ faults < MaxFaults /\ faults' = faults + 1
  /\ pc' = IF job.live THEN "scan" ELSE pc
  /\ job' = NoJob /\ UNCHANGED <<task, item, source, edits, disk, hist>>

OthersEdit ==
  /\ edits < MaxEdits /\ edits' = edits + 1
  /\ \/ source' = Fresh /\ UNCHANGED <<dest, hist>>
     \/ \E f \in {Absent, [id |-> Fresh, content |-> <<Fresh>>]} :
          /\ dest' = [dest EXCEPT !["name"] = f]
          /\ hist' = [hist EXCEPT !.late = IF job.at = "rename" /\ st.exp # 0 THEN @ \cup {f.id} ELSE @]
          /\ UNCHANGED source
  /\ UNCHANGED <<client, job, stage, faults>>

Next == \/ Worker \/ Engine \/ Run
        \/ Resolve \/ RestartFile \/ CancelTransfer
        \/ ClientStops \/ ConnectionBreaks \/ ServerStops \/ OthersEdit

\* What is under way goes on; nobody has to run, resolve or cancel anything.
Spec == Init /\ [][Next]_vars /\ WF_vars(Worker) /\ WF_vars(Engine)

-----------------------------------------------------------------------------
TypeOK ==
  /\ task \in [status : Finished \cup {"paused", "running", "conflict"}, cancel : BOOLEAN,
               scanned : BOOLEAN, conflict : Nat]
  /\ item \in [prepared : BOOLEAN, exp : Nat, done : BOOLEAN, skipped : BOOLEAN, choice : Choices,
               restart : BOOLEAN, restage : BOOLEAN, tok : Tokens, name : Names, src : Nat]
  /\ pc \in Places
  /\ job \in [cmd : {"none", "prepare", "write", "commit", "cancel"},
              at : {"begin", "journal", "check", "count", "recheck", "rename", "save", "state", "dir", "done"},
              reply : {"none", "ready", "complete", "conflict", "changed", "failed", "done", "missing"},
              live : BOOLEAN]
  /\ stage \in [Tokens -> [at : {"none", "bare", "ready"}, src : Nat, exp : Nat, offset : 0..Length,
                           digest : BOOLEAN, committed : BOOLEAN, data : Seq(Nat), has : BOOLEAN]]
  /\ source \in Nat /\ dest \in [Names -> [id : Nat, content : Seq(Nat)]]
  /\ edits \in 0..MaxEdits /\ faults \in 0..MaxFaults
  /\ hist \in [agreed : SUBSET Nat, late : SUBSET Nat, published : SUBSET [tok : Tokens, src : Nat]]

(* The destination holds what somebody else wrote or one whole version of the
   source, at every moment and wherever a step was cut off; the rename of a
   verified file is the only step that makes it visible. *)
WholeOrNothing ==
  \A n \in Names : \/ Len(dest[n].content) <= 1 /\ dest[n].id <= Others
                   \/ \E p \in hist.published : dest[n] = Copied(p.tok, Whole(p.src))

(* An item that the client calls done was published, with the content it was
   listed with, although replies and whole processes were lost on the way. *)
DoneIsPublished ==
  item.done /\ ~item.skipped => [tok |-> item.tok, src |-> item.src] \in hist.published

(* What the client believes and what the destination shows are the upload, whole. *)
UploadIsWhole == WholeOrNothing /\ DoneIsPublished

(* A file that others wrote is replaced only if the user agreed to replace that very
   version, or if it appears between the last look at it and the rename that follows. *)
OnlyAgreedIsReplaced ==
  [][\A n \in Names : (dest'[n].id > Others /\ dest'[n].id # dest[n].id)
       => dest[n].id \in {0} \cup hist.agreed \cup hist.late]_vars

(* A transfer that has ended leaves no staging directory behind, whatever step of
   a preparation, commit or removal was interrupted before. *)
NoStageIsLeft ==
  task.status \in Finished => \A t \in Tokens : stage[t].at = "none"

(* Every run ends: with the transfer finished, asking a question, or paused. *)
RunEnds == pc # "idle" ~> pc = "idle"
=============================================================================
