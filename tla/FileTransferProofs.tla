------------------------ MODULE FileTransferProofs ------------------------
(***************************************************************************)
(* Theorems about FileTransfer, for every length of the file, every number *)
(* of staging directories, changes by others, and faults.                  *)
(***************************************************************************)
EXTENDS FileTransfer, SequenceTheorems, TLAPS

\* Where the engine waits for the answer to a command, and to which.
CommandAt == [p \in {"preparing", "mending", "writing", "committing", "restaging", "cleaning", "clearing"} |->
                IF p \in {"preparing", "mending"} THEN "prepare" ELSE
                IF p = "writing" THEN "write" ELSE IF p = "committing" THEN "commit" ELSE "cancel"]
Waits == pc \in DOMAIN CommandAt
Uploads == pc \in {"prepare", "preparing", "writing", "committing"}
Restages == pc \in {"restage", "restaging", "renew"}
Cleans == pc \in {"clean", "cleaning", "mending", "clearing", "end"}
\* The stage of the item is to be removed: it is never published again.
Doomed == item.restart \/ item.restage \/ task.cancel \/ item.done

EngineInv ==
  /\ Waits => job.live /\ job.cmd = CommandAt[pc]
  /\ Busy \/ Waits \/ Uploads => item.prepared
  /\ item.prepared \/ item.done => task.scanned
  /\ Uploads \/ Restages \/ pc = "choose" => task.scanned /\ ~task.cancel /\ ~item.done
  /\ Uploads \/ pc = "choose" => ~item.restart /\ ~item.restage
  /\ item.restart \/ item.restage => item.tok < MaxTokens
  /\ item.restage => item.prepared
  /\ Restages => item.restart \/ item.restage
  /\ pc = "renew" => ~item.prepared
  /\ Cleans => task.cancel \/ item.done
  /\ job.cmd = "cancel" /\ Busy => Doomed

\* Only the token of the item has a directory, and only while the item is prepared.
StageInv ==
  /\ \A t \in Tokens : /\ stage[t].at # "none" => t = item.tok /\ item.prepared
                       /\ stage[t].at # "ready" => ~stage[t].digest /\ ~stage[t].has
                       /\ ~stage[t].has => stage[t].data = <<>>
                       /\ stage[t].has => stage[t].offset <= Len(stage[t].data)
  /\ job.cmd = "cancel" /\ job.reply = "done" /\ ~Busy /\ Waits => st.at = "none"
  /\ pc = "end" \/ task.status \in Finished => ~Busy /\ st.at = "none"
  /\ task.status \in Finished => pc = "idle"
  /\ job.cmd = "write" /\ Busy => st.offset < Length
  /\ job.cmd = "write" /\ job.at = "count" => st.has /\ st.offset + 1 <= Len(st.data)

IsPublished == [tok |-> item.tok, src |-> item.src] \in hist.published

\* A command works on the version the item was listed with, and only a verified one is renamed.
CommitInv ==
  /\ (job.cmd \in {"write", "commit"} /\ (Busy \/ Waits)) \/ (job.cmd = "prepare" /\ job.reply \in {"ready", "complete"} /\ ~Busy /\ Waits)
       => st.src = item.src /\ st.exp = item.exp
  /\ job.cmd = "commit" /\ job.at \in {"recheck", "rename"} =>
       st.at = "ready" /\ st.digest /\ st.has /\ st.data = Whole(item.src)
  /\ job.cmd = "commit" /\ job.at = "save" => IsPublished
  /\ pc = "committing" /\ job.reply = "done" => IsPublished
  /\ pc = "preparing" /\ job.reply = "complete" => IsPublished
  /\ st.digest /\ ~st.has /\ ~Doomed => [tok |-> item.tok, src |-> st.src] \in hist.published

\* What is replaced was agreed to, or came after the last look.
AgreedInv ==
  /\ item.prepared /\ item.exp # 0 => item.exp \in hist.agreed
  /\ job.cmd = "commit" /\ job.at = "rename" /\ st.exp # 0 => target = st.exp \/ target \in hist.late

TransferInv == TypeOK /\ EngineInv /\ StageInv /\ CommitInv /\ AgreedInv /\ UploadIsWhole

Blocks == Seq(Nat)
TaskType == [status : Finished \cup {"paused", "running", "conflict"}, cancel : BOOLEAN, scanned : BOOLEAN, conflict : Nat]
ItemType == [prepared : BOOLEAN, exp : Nat, done : BOOLEAN, skipped : BOOLEAN, choice : Choices, restart : BOOLEAN,
             restage : BOOLEAN, tok : Tokens, name : Names, src : Nat]
Commands == {"none", "prepare", "write", "commit", "cancel"}
JobSteps == {"begin", "journal", "check", "count", "recheck", "rename", "save", "state", "dir", "done"}
JobReplies == {"none", "ready", "complete", "conflict", "changed", "failed", "done", "missing"}
JobType == [cmd : Commands, at : JobSteps, reply : JobReplies, live : BOOLEAN]
StageRecord == [at : {"none", "bare", "ready"}, src : Nat, exp : Nat, offset : 0..Length,
                digest : BOOLEAN, committed : BOOLEAN, data : Blocks, has : BOOLEAN]
StageType == [Tokens -> StageRecord]
FileType == [id : Nat, content : Blocks]
DestType == [Names -> FileType]
Publications == [tok : Tokens, src : Nat]
HistType == [agreed : SUBSET Nat, late : SUBSET Nat, published : SUBSET Publications]

LEMMA TypeMeans == TypeOK <=>
  /\ task \in TaskType /\ item \in ItemType /\ pc \in Places /\ job \in JobType /\ stage \in StageType
  /\ source \in Nat /\ dest \in DestType /\ edits \in 0..MaxEdits /\ faults \in 0..MaxFaults /\ hist \in HistType
BY DEF TypeOK, Blocks, TaskType, ItemType, Commands, JobSteps, JobReplies, JobType, StageRecord, StageType, FileType, DestType,
       Publications, HistType

LEMMA TypeFollows ==
  ASSUME task' \in TaskType, item' \in ItemType, pc' \in Places, job' \in JobType, stage' \in StageType,
         source' \in Nat, dest' \in DestType, edits' \in 0..MaxEdits, faults' \in 0..MaxFaults, hist' \in HistType
  PROVE  TypeOK'
BY DEF TypeOK, Blocks, TaskType, ItemType, Commands, JobSteps, JobReplies, JobType, StageRecord, StageType, FileType, DestType,
       Publications, HistType

LEMMA Bounds == Length \in Nat /\ 1 <= Length /\ MaxTokens \in Nat /\ 1 <= MaxTokens /\ MaxEdits \in Nat /\ MaxFaults \in Nat
BY TransferAssumption DEF TransferAssumption

(* A version of the file is a sequence of its blocks; it has at least one. *)
LEMMA WholeMeans ==
  ASSUME NEW v \in Nat
  PROVE  Whole(v) \in Blocks /\ Whole(v) # <<>>
<1>1. Whole(v) \in [1..Length -> Nat]
  BY DEF Whole
<1>2. Whole(v) \in Seq(Nat)
  BY <1>1, Bounds
<1>3. Len(Whole(v)) = Length
  BY <1>1, <1>2, Bounds, LenProperties
<1> QED  BY <1>2, <1>3, Bounds, EmptySeq DEF Blocks

(* A block is written after those that the checkpoint counts. *)
LEMMA CutMeans ==
  ASSUME NEW d \in Blocks, NEW n \in Nat, n <= Len(d), NEW b \in Nat
  PROVE  /\ SubSeq(d, 1, n) \in Blocks /\ Len(SubSeq(d, 1, n)) = n
         /\ Append(SubSeq(d, 1, n), b) \in Blocks /\ Len(Append(SubSeq(d, 1, n), b)) = n + 1
<1>0. d \in Seq(Nat) /\ Len(d) \in Nat
  BY DEF Blocks
<1>1. \A i \in 1..n : d[i] \in Nat
  BY <1>0, ElementOfSeq
<1>2. SubSeq(d, 1, n) \in Seq(Nat) /\ Len(SubSeq(d, 1, n)) = IF 1 <= n THEN n - 1 + 1 ELSE 0
  BY <1>1, SubSeqProperties
<1>3. Len(SubSeq(d, 1, n)) = n
  BY <1>2
<1> HIDE DEF Blocks
<1>4. ASSUME NEW s \in Seq(Nat) PROVE Append(s, b) \in Seq(Nat) /\ Len(Append(s, b)) = Len(s) + 1
  OBVIOUS
<1> QED  BY <1>2, <1>3, <1>4 DEF Blocks

LEMMA StageMeans ==
  ASSUME stage \in StageType, item \in ItemType
  PROVE  /\ st \in StageRecord /\ item.tok \in Tokens
         /\ \A s \in StageRecord : LET new == [stage EXCEPT ![item.tok] = s] IN
              new \in StageType /\ new[item.tok] = s /\ \A t \in Tokens : t # item.tok => new[t] = stage[t]
         /\ NoStage \in StageRecord /\ [NoStage EXCEPT !.at = "bare"] \in StageRecord
         /\ \A s \in StageRecord : [s EXCEPT !.committed = TRUE] \in StageRecord /\ [s EXCEPT !.digest = TRUE] \in StageRecord
         /\ \A s \in StageRecord, d \in Blocks :
              [s EXCEPT !.data = d] \in StageRecord /\ [s EXCEPT !.data = d, !.has = FALSE] \in StageRecord
<1>1. item.tok \in Tokens
  BY DEF ItemType
<1>2. <<>> \in Blocks /\ 0 \in 0..Length
  BY Bounds DEF Blocks
<1>3. NoStage \in StageRecord /\ [NoStage EXCEPT !.at = "bare"] \in StageRecord
  BY <1>2 DEF NoStage, StageRecord
<1>4. ASSUME NEW s \in StageRecord
      PROVE  /\ [s EXCEPT !.committed = TRUE] \in StageRecord /\ [s EXCEPT !.digest = TRUE] \in StageRecord
             /\ \A d \in Blocks : [s EXCEPT !.data = d] \in StageRecord /\ [s EXCEPT !.data = d, !.has = FALSE] \in StageRecord
  BY <1>4 DEF StageRecord
<1>5. st \in StageRecord
  BY <1>1 DEF st, StageType
<1>6. \A s \in StageRecord : LET new == [stage EXCEPT ![item.tok] = s] IN
              new \in StageType /\ new[item.tok] = s /\ \A t \in Tokens : t # item.tok => new[t] = stage[t]
  BY <1>1 DEF StageType
<1> QED  BY <1>1, <1>3, <1>4, <1>5, <1>6

(* A step of a command changes neither what was asked nor whether the reply is awaited. *)
LEMMA StepsMeans ==
  ASSUME job \in JobType
  PROVE  /\ \A at \in JobSteps : Steps(at) => /\ job' \in JobType /\ job'.cmd = job.cmd /\ job'.live = job.live
                                             /\ job'.at = at /\ job'.reply = job.reply
         /\ \A r \in JobReplies : Replies(r) => /\ job' \in JobType /\ job'.cmd = job.cmd /\ job'.live = job.live
                                                /\ job'.at = "done" /\ job'.reply = r
BY DEF Steps, Replies, JobType, JobSteps

LEMMA StopsMeans ==
  ASSUME NEW t \in TaskType, Stops(t)
  PROVE  /\ task' \in TaskType /\ pc' = "idle" /\ pc' \in Places
         /\ task'.cancel = t.cancel /\ task'.scanned = t.scanned /\ task'.conflict = t.conflict
         /\ task'.status \in Finished <=> t.status \in Finished
BY DEF Stops, TaskType, Finished, Places

(* A command is sent only when the one before it has let go of the staging directory. *)
LEMMA AsksMeans ==
  ASSUME task \in TaskType, job \in JobType, NEW cmd \in Commands, NEW at \in Places, Asks(cmd, at)
  PROVE  /\ task' \in TaskType /\ job' \in JobType /\ pc' \in Places
         /\ task'.cancel = task.cancel /\ task'.scanned = task.scanned
         /\ task'.status \in Finished <=> task.status \in Finished
         /\ \/ Busy /\ pc' = "idle" /\ job' = job
            \/ /\ ~Busy /\ pc' = at /\ job'.cmd = cmd /\ job'.at = "begin" /\ job'.reply = "none" /\ job'.live = TRUE
               /\ task' = task
<1>1. CASE Busy
  BY <1>1, StopsMeans DEF Asks
<1>2. CASE ~Busy
  <2>1. job' = [cmd |-> cmd, at |-> "begin", reply |-> "none", live |-> TRUE] /\ pc' = at /\ task' = task
    BY <1>2 DEF Asks
  <2>2. job' \in JobType /\ job'.cmd = cmd /\ job'.at = "begin" /\ job'.reply = "none" /\ job'.live = TRUE
    BY <2>1 DEF JobType, JobSteps, JobReplies
  <2> QED  BY <1>2, <2>1, <2>2
<1> QED  BY <1>1, <1>2

LEMMA ConflictsMeans ==
  ASSUME task \in TaskType, item \in ItemType, dest \in DestType, Conflicts
  PROVE  /\ task' \in TaskType /\ item' \in ItemType /\ pc' = "idle" /\ pc' \in Places
         /\ task'.cancel = task.cancel /\ task'.scanned = task.scanned /\ task'.status \notin Finished
         /\ item' = [item EXCEPT !.choice = "none"]
<1> DEFINE asked == [task EXCEPT !.status = "conflict", !.conflict = target]
<1>1. target \in Nat
  BY DEF target, ItemType, DestType, FileType
<1>2. asked \in TaskType /\ asked.status \notin Finished /\ asked.cancel = task.cancel /\ asked.scanned = task.scanned
  BY <1>1 DEF TaskType, Finished
<1>3. item' \in ItemType
  BY DEF Conflicts, ItemType, Choices
<1> HIDE DEF asked
<1>4. Stops(asked) /\ item' = [item EXCEPT !.choice = "none"]
  BY DEF Conflicts, asked
<1> QED  BY <1>2, <1>3, <1>4, StopsMeans

LEMMA TransferInitially == Init => TransferInv
<1> SUFFICES ASSUME Init PROVE TransferInv
  OBVIOUS
<1>0. <<>> \in Blocks /\ <<2>> \in Blocks /\ 1 \in Tokens /\ 0 \in 0..Length
  BY Bounds DEF Blocks, Tokens
<1>1. TypeOK
  <2>1. task \in TaskType /\ pc \in Places /\ hist \in HistType
    BY DEF Init, TaskType, Places, HistType
  <2>2. item \in ItemType
    BY <1>0 DEF Init, ItemType, Choices, Names
  <2>3. job \in JobType
    BY DEF Init, NoJob, JobType, Commands, JobSteps, JobReplies
  <2>4. NoStage \in StageRecord
    BY <1>0 DEF NoStage, StageRecord
  <2>5. stage \in StageType
    BY <2>4 DEF Init, StageType
  <2>6. Absent \in FileType /\ [id |-> 2, content |-> <<2>>] \in FileType
    BY <1>0 DEF Absent, FileType
  <2>7. dest \in DestType
    BY <2>6 DEF Init, DestType
  <2>8. source \in Nat /\ edits \in 0..MaxEdits /\ faults \in 0..MaxFaults
    BY Bounds DEF Init
  <2> QED  BY <2>1, <2>2, <2>3, <2>5, <2>7, <2>8, TypeMeans
<1>2. EngineInv
  BY DEF Init, EngineInv, Busy, NoJob, Waits, CommandAt, Uploads, Restages, Cleans, Doomed
<1>3. StageInv
  BY <1>0 DEF Init, StageInv, Busy, NoJob, Waits, CommandAt, st, NoStage, Finished
<1>4. CommitInv
  BY <1>0 DEF Init, CommitInv, Busy, NoJob, Waits, CommandAt, st, NoStage
<1>5. AgreedInv
  BY DEF Init, AgreedInv, NoJob
<1>6. UploadIsWhole
  <2>1. Len(<<>>) = 0 /\ Len(<<2>>) = 1
    OBVIOUS
  <2>2. \A n \in Names : dest[n] = Absent \/ dest[n] = [id |-> 2, content |-> <<2>>]
    BY DEF Init
  <2>3. Len(Absent.content) <= 1 /\ Absent.id <= 2
    BY <2>1 DEF Absent
  <2>4. Len([id |-> 2, content |-> <<2>>].content) <= 1 /\ [id |-> 2, content |-> <<2>>].id <= 2
    BY <2>1
  <2>5. \A n \in Names : Len(dest[n].content) <= 1 /\ dest[n].id <= Others
    <3>1. 2 <= Others
      BY Bounds DEF Others
    <3>2. ASSUME NEW n \in Names PROVE Len(dest[n].content) <= 1 /\ dest[n].id <= Others
      <4>1. CASE dest[n] = Absent
        BY <2>3, <3>1, <4>1, Bounds DEF Absent, Others
      <4>2. CASE dest[n] = [id |-> 2, content |-> <<2>>]
        BY <2>4, <3>1, <4>2, Bounds DEF Others
      <4> QED  BY <2>2, <4>1, <4>2
    <3> QED  BY <3>2
  <2> QED  BY <2>5 DEF UploadIsWhole, WholeOrNothing, DoneIsPublished, Init
<1> QED  BY <1>1, <1>2, <1>3, <1>4, <1>5, <1>6 DEF TransferInv

LEMMA StagesMeans ==
  ASSUME stage \in StageType, item \in ItemType, NEW s \in StageRecord, Stages(s)
  PROVE  stage' \in StageType /\ stage'[item.tok] = s /\ \A t \in Tokens : t # item.tok => stage'[t] = stage[t]
BY StageMeans DEF Stages

(* What the steps of a command write to the staging directory. *)
LEMMA StageSteps ==
  ASSUME stage \in StageType, item \in ItemType
  PROVE  /\ PrepareJournals /\ st.at = "bare" =>
              Stages([NoStage EXCEPT !.at = "ready", !.src = item.src, !.exp = item.exp, !.has = TRUE])
         /\ [NoStage EXCEPT !.at = "ready", !.src = item.src, !.exp = item.exp, !.has = TRUE] \in StageRecord
         /\ st.offset \in Nat /\ st.data \in Blocks /\ st.src \in Nat
         /\ st.offset <= Len(st.data) =>
              /\ [st EXCEPT !.data = SubSeq(@, 1, st.offset)] \in StageRecord
              /\ [st EXCEPT !.data = SubSeq(@, 1, st.offset)] = [st EXCEPT !.data = SubSeq(st.data, 1, st.offset)]
              /\ [st EXCEPT !.data = Append(SubSeq(@, 1, st.offset), item.src)] \in StageRecord
              /\ [st EXCEPT !.data = Append(SubSeq(@, 1, st.offset), item.src)]
                   = [st EXCEPT !.data = Append(SubSeq(st.data, 1, st.offset), item.src)]
         /\ st.offset < Length => /\ [st EXCEPT !.offset = @ + 1] \in StageRecord
                                  /\ [st EXCEPT !.offset = @ + 1] = [st EXCEPT !.offset = st.offset + 1]
         /\ [st EXCEPT !.data = <<>>, !.has = FALSE] \in StageRecord
<1>0. <<>> \in Blocks
  BY DEF Blocks
<1>1. st \in StageRecord /\ <<>> \in Blocks
  BY <1>0, StageMeans
<1>2. st.offset \in Nat /\ st.offset \in 0..Length /\ st.data \in Blocks /\ st.src \in Nat
  BY <1>1, Bounds DEF StageRecord
<1>3. item.src \in Nat /\ item.exp \in Nat
  BY DEF ItemType
<1>4. [NoStage EXCEPT !.at = "ready", !.src = item.src, !.exp = item.exp, !.has = TRUE] \in StageRecord
  BY <1>3, StageMeans DEF StageRecord
<1>5. ASSUME st.offset <= Len(st.data)
      PROVE  /\ [st EXCEPT !.data = SubSeq(@, 1, st.offset)] \in StageRecord
             /\ [st EXCEPT !.data = SubSeq(@, 1, st.offset)] = [st EXCEPT !.data = SubSeq(st.data, 1, st.offset)]
             /\ [st EXCEPT !.data = Append(SubSeq(@, 1, st.offset), item.src)] \in StageRecord
             /\ [st EXCEPT !.data = Append(SubSeq(@, 1, st.offset), item.src)]
                  = [st EXCEPT !.data = Append(SubSeq(st.data, 1, st.offset), item.src)]
  <2> DEFINE cut == SubSeq(st.data, 1, st.offset)
             longer == Append(SubSeq(st.data, 1, st.offset), item.src)
  <2>1. cut \in Blocks /\ longer \in Blocks
    BY <1>2, <1>3, <1>5, CutMeans
  <2>2. /\ [st EXCEPT !.data = SubSeq(@, 1, st.offset)] = [st EXCEPT !.data = cut]
        /\ [st EXCEPT !.data = Append(SubSeq(@, 1, st.offset), item.src)] = [st EXCEPT !.data = longer]
    BY <1>1 DEF StageRecord
  <2> HIDE DEF cut, longer
  <2>3. [st EXCEPT !.data = cut] \in StageRecord /\ [st EXCEPT !.data = longer] \in StageRecord
    BY <1>1, <2>1, StageMeans
  <2>4. /\ [st EXCEPT !.data = SubSeq(@, 1, st.offset)] \in StageRecord
        /\ [st EXCEPT !.data = Append(SubSeq(@, 1, st.offset), item.src)] \in StageRecord
    BY <2>2, <2>3
  <2> QED  BY <2>2, <2>4 DEF cut, longer
<1>6. ASSUME st.offset < Length
      PROVE  /\ [st EXCEPT !.offset = @ + 1] \in StageRecord
             /\ [st EXCEPT !.offset = @ + 1] = [st EXCEPT !.offset = st.offset + 1]
  <2> DEFINE next == st.offset + 1
  <2>1. next \in 0..Length
    BY <1>2, <1>6, Bounds
  <2>2. [st EXCEPT !.offset = @ + 1] = [st EXCEPT !.offset = next]
    BY <1>1 DEF StageRecord
  <2> HIDE DEF next
  <2>3. [st EXCEPT !.offset = next] \in StageRecord
    BY <1>1, <2>1 DEF StageRecord
  <2> QED  BY <2>2, <2>3 DEF next
<1>7. [st EXCEPT !.data = <<>>, !.has = FALSE] \in StageRecord
  BY <1>1, StageMeans
<1> QED  BY <1>2, <1>4, <1>5, <1>6, <1>7 DEF PrepareJournals

(* The worker changes neither the client nor the files of others, and only the stage of the item. *)
LEMMA WorkerMeans ==
  ASSUME TypeOK, StageInv, Worker
  PROVE  /\ UNCHANGED <<client, others>> /\ Busy /\ job' \in JobType /\ job'.cmd = job.cmd /\ job'.live = job.live
         /\ stage' \in StageType /\ \A t \in Tokens : t # item.tok => stage'[t] = stage[t]
<1>0. /\ task \in TaskType /\ item \in ItemType /\ pc \in Places /\ job \in JobType /\ stage \in StageType
      /\ source \in Nat /\ dest \in DestType /\ edits \in 0..MaxEdits /\ faults \in 0..MaxFaults /\ hist \in HistType
  BY TypeMeans
<1>s. st \in StageRecord /\ item.tok \in Tokens /\ (st.has => st.offset <= Len(st.data))
      /\ (job.cmd = "write" /\ job.at # "done" => st.offset < Length)
  BY <1>0, StageMeans DEF StageInv, st, Busy
<1>1. CASE PrepareStages
  BY <1>0, <1>1, StageMeans, StagesMeans, StepsMeans DEF PrepareStages, Works, Busy, JobSteps, client, others
<1>2. CASE PrepareJournals
  <2>1. stage' \in StageType /\ \A t \in Tokens : t # item.tok => stage'[t] = stage[t]
    <3>1. CASE st.at = "bare"
      BY <1>0, <1>2, <3>1, StageSteps, StagesMeans
    <3>2. CASE st.at # "bare"
      BY <1>0, <1>2, <3>2 DEF PrepareJournals
    <3> QED  BY <3>1, <3>2
  <2> QED  BY <1>0, <1>2, <2>1, StepsMeans DEF PrepareJournals, Works, Busy, JobSteps, client, others
<1>3. CASE PrepareChecks
  <2>1. stage' \in StageType /\ \A t \in Tokens : t # item.tok => stage'[t] = stage[t]
    <3>1. CASE UNCHANGED stage
      BY <1>0, <3>1
    <3>2. CASE Stages([st EXCEPT !.committed = TRUE])
      BY <1>0, <1>s, <3>2, StageMeans, StagesMeans
    <3>3. CASE st.has /\ Stages([st EXCEPT !.data = SubSeq(@, 1, st.offset)])
      BY <1>0, <1>s, <3>3, StageSteps, StagesMeans
    <3> QED  BY <1>3, <3>1, <3>2, <3>3 DEF PrepareChecks
  <2>2. \E r \in JobReplies : Replies(r)
    BY <1>3 DEF PrepareChecks, JobReplies
  <2> QED  BY <1>0, <1>3, <2>1, <2>2, StepsMeans DEF PrepareChecks, Works, Busy, client, others
<1>4. CASE WriteBlock
  <2>1. CASE Replies("failed") /\ UNCHANGED stage
    BY <1>0, <1>4, <2>1, StepsMeans DEF WriteBlock, Works, Busy, JobReplies, client, others
  <2>2. CASE st.has /\ Stages([st EXCEPT !.data = Append(SubSeq(@, 1, st.offset), item.src)]) /\ Steps("count")
    BY <1>0, <1>s, <1>4, <2>2, StageSteps, StagesMeans, StepsMeans DEF WriteBlock, Works, Busy, JobSteps, client, others
  <2> QED  BY <1>4, <2>1, <2>2 DEF WriteBlock
<1>5. CASE WriteCounts
  <2>1. Stages([st EXCEPT !.offset = @ + 1]) /\ Replies("ready") /\ Busy
    BY <1>5 DEF WriteCounts, Works, Busy, client, others
  <2>2. [st EXCEPT !.offset = @ + 1] \in StageRecord
    BY <1>0, <1>s, <1>5, StageSteps DEF WriteCounts, Works
  <2>3. stage' \in StageType /\ \A t \in Tokens : t # item.tok => stage'[t] = stage[t]
    BY <1>0, <2>1, <2>2, StagesMeans
  <2> QED  BY <1>0, <1>5, <2>1, <2>3, StepsMeans DEF WriteCounts, JobReplies, client, others
<1>6. CASE CommitVerifies
  <2>1. stage' \in StageType /\ \A t \in Tokens : t # item.tok => stage'[t] = stage[t]
    <3>1. CASE UNCHANGED stage
      BY <1>0, <3>1
    <3>2. CASE Stages([st EXCEPT !.committed = TRUE])
      BY <1>0, <1>s, <3>2, StageMeans, StagesMeans
    <3>3. CASE Stages([st EXCEPT !.digest = TRUE])
      BY <1>0, <1>s, <3>3, StageMeans, StagesMeans
    <3> QED  BY <1>6, <3>1, <3>2, <3>3 DEF CommitVerifies
  <2>2. (\E r \in JobReplies : Replies(r)) \/ Steps("recheck")
    BY <1>6 DEF CommitVerifies, JobReplies
  <2>3. "recheck" \in JobSteps
    BY DEF JobSteps
  <2> QED  BY <1>0, <1>6, <2>1, <2>2, <2>3, StepsMeans DEF CommitVerifies, Works, Busy, client, others
<1>7. CASE CommitRechecks
  BY <1>0, <1>7, StepsMeans DEF CommitRechecks, Works, Busy, JobSteps, JobReplies, disk, client, others, client, others
<1>8. CASE CommitRenames
  <2>1. CASE Replies("failed") /\ UNCHANGED disk
    BY <1>0, <1>8, <2>1, StepsMeans DEF CommitRenames, Works, Busy, JobReplies, disk, client, others
  <2>2. CASE Stages([st EXCEPT !.data = <<>>, !.has = FALSE]) /\ Steps("save")
    BY <1>0, <1>8, <2>2, StageSteps, StagesMeans, StepsMeans DEF CommitRenames, Works, Busy, JobSteps, client, others
  <2> QED  BY <1>8, <2>1, <2>2 DEF CommitRenames
<1>9. CASE CommitSaves
  BY <1>0, <1>s, <1>9, StageMeans, StagesMeans, StepsMeans DEF CommitSaves, Works, Busy, JobReplies, client, others
<1>10. CASE CancelRemoves
  <2>1. stage' \in StageType /\ \A t \in Tokens : t # item.tok => stage'[t] = stage[t]
    <3>1. CASE UNCHANGED stage
      BY <1>0, <3>1
    <3>2. CASE \E s \in {[st EXCEPT !.data = <<>>, !.has = FALSE], [NoStage EXCEPT !.at = "bare"], NoStage} : Stages(s)
      BY <1>0, <3>2, StageMeans, StageSteps, StagesMeans
    <3> QED  BY <1>10, <3>1, <3>2 DEF CancelRemoves
  <2>2. (\E r \in JobReplies : Replies(r)) \/ (\E at \in JobSteps : Steps(at))
    BY <1>10 DEF CancelRemoves, JobReplies, JobSteps
  <2> QED  BY <1>0, <1>10, <2>1, <2>2, StepsMeans DEF CancelRemoves, Busy, client, others
<1> QED  BY <1>1, <1>2, <1>3, <1>4, <1>5, <1>6, <1>7, <1>8, <1>9, <1>10 DEF Worker

LEMMA WorkerWrites ==
  ASSUME TypeOK, Worker
  PROVE  dest' \in DestType /\ hist' \in HistType
<1>0. item \in ItemType /\ dest \in DestType /\ hist \in HistType /\ stage \in StageType
  BY TypeMeans
<1>1. CASE UNCHANGED <<dest, hist>>
  BY <1>0, <1>1
<1>2. CASE CommitRenames /\ ~UNCHANGED <<dest, hist>>
  <2>1. /\ dest' = [dest EXCEPT ![item.name] = Copied(item.tok, st.data)]
        /\ hist' = [hist EXCEPT !.published = @ \cup {[tok |-> item.tok, src |-> st.src]}]
    BY <1>2 DEF CommitRenames, disk
  <2>2. item.tok \in Tokens /\ item.tok \in Nat /\ item.name \in Names /\ st.data \in Blocks /\ st.src \in Nat
    BY <1>0, StageSteps DEF ItemType, Tokens
  <2>3. Copied(item.tok, st.data) \in FileType
    BY <2>2, Bounds DEF Copied, Others, FileType
  <2>4. dest' \in DestType
    BY <1>0, <2>1, <2>2, <2>3 DEF DestType
  <2>5. [tok |-> item.tok, src |-> st.src] \in Publications
    BY <2>2 DEF Publications
  <2>6. hist' \in HistType
    BY <1>0, <2>1, <2>5 DEF HistType
  <2> QED  BY <2>4, <2>6
<1> QED  BY <1>1, <1>2 DEF Worker, PrepareStages, PrepareJournals, PrepareChecks, WriteBlock, WriteCounts, CommitVerifies,
            CommitRechecks, CommitSaves, CancelRemoves, disk
(* Every step of the engine, the user and the faults keeps the rows of the client in their types. *)
LEMMA ClientTypes ==
  ASSUME TypeOK, EngineInv, Engine \/ Run \/ Resolve \/ RestartFile \/ CancelTransfer \/ ClientStops \/ ConnectionBreaks \/ ServerStops
  PROVE  /\ task' \in TaskType /\ item' \in ItemType /\ pc' \in Places /\ job' \in JobType
         /\ UNCHANGED <<disk, source, edits, hist.late, hist.published>>
<1>0. /\ task \in TaskType /\ item \in ItemType /\ pc \in Places /\ job \in JobType /\ stage \in StageType
      /\ source \in Nat /\ dest \in DestType /\ edits \in 0..MaxEdits /\ faults \in 0..MaxFaults /\ hist \in HistType
  BY TypeMeans
<1>c. {"prepare", "write", "commit", "cancel"} \subseteq Commands
  BY DEF Commands
<1>p. {"idle", "scan", "restage", "restaging", "renew", "choose", "prepare", "preparing", "writing",
       "committing", "clean", "cleaning", "mending", "clearing", "end"} = Places
  BY DEF Places
<1>1. CASE Scan
  <2>1. task' \in TaskType /\ item' \in ItemType
    BY ZenonT(60), <1>0, <1>1 DEF Scan, TaskType, ItemType
  <2> QED  BY <1>0, <1>1, <2>1, <1>p DEF Scan, Alone, disk, others
<1>2. CASE RestageCancels
  <2>1. CASE item.prepared
    BY <1>0, <1>c, <1>p, <1>2, <2>1, AsksMeans DEF RestageCancels, Alone, disk, others
  <2>2. CASE ~item.prepared
    BY <1>0, <1>p, <1>2, <2>2 DEF RestageCancels, Alone, disk, others
  <2> QED  BY <2>1, <2>2
<1>3. CASE Renew
  <2>1. Restages
    BY <1>3 DEF Renew, Answered, Restages
  <2>2. item.tok < MaxTokens /\ item.tok \in Tokens
    BY <1>0, <2>1 DEF EngineInv, ItemType
  <2> DEFINE next == item.tok + 1
             src1 == IF item.restart THEN source ELSE item.src
             choice1 == IF item.restart THEN "none" ELSE item.choice
  <2>3. next \in Tokens /\ src1 \in Nat /\ choice1 \in Choices
    BY <1>0, <2>2, Bounds DEF Tokens, ItemType, Choices
  <2>4. item' = [item EXCEPT !.tok = next, !.prepared = FALSE, !.restart = FALSE, !.restage = FALSE, !.src = src1, !.choice = choice1]
    BY <1>0, <1>3 DEF Renew, ItemType
  <2> HIDE DEF next, src1, choice1
  <2>5. item' \in ItemType
    BY <1>0, <2>3, <2>4 DEF ItemType
  <2> QED  BY <1>0, <1>p, <1>3, <2>5 DEF Renew, Alone, disk, others
<1>4. CASE Choose
  <2>0. UNCHANGED <<job, disk, others>>
    BY <1>4 DEF Choose
  <2>1. CASE pc' = "prepare" /\ UNCHANGED <<item, task, hist>>
    BY <1>0, <1>p, <2>0, <2>1 DEF others
  <2>2. CASE Conflicts /\ UNCHANGED hist
    BY <1>0, <2>0, <2>2, ConflictsMeans DEF others
  <2>3. CASE item' = [item EXCEPT !.skipped = TRUE, !.done = TRUE] /\ pc' = "clean" /\ task' = [task EXCEPT !.conflict = 0] /\ UNCHANGED hist
    BY <1>0, <1>p, <2>0, <2>3 DEF others, ItemType, TaskType
  <2>4. CASE /\ \E n \in Names : item' = [item EXCEPT !.prepared = TRUE, !.exp = dest[n].id, !.name = n]
             /\ hist' = [hist EXCEPT !.agreed = IF target # 0 /\ item.choice = "replace" THEN @ \cup {target} ELSE @]
             /\ pc' = "prepare" /\ UNCHANGED task
    <3>1. PICK n \in Names : item' = [item EXCEPT !.prepared = TRUE, !.exp = dest[n].id, !.name = n]
      BY <2>4
    <3>2. dest[n].id \in Nat
      BY <1>0 DEF DestType, FileType
    <3>3. item' \in ItemType
      BY <1>0, <3>1, <3>2 DEF ItemType
    <3>4. hist'.late = hist.late /\ hist'.published = hist.published
      BY <1>0, <2>4 DEF HistType
    <3> QED  BY <1>0, <1>p, <2>0, <2>4, <3>3, <3>4 DEF others
  <2> QED
    <3>1. item.name \in Names
      BY <1>0 DEF ItemType
    <3> QED  BY <1>4, <2>1, <2>2, <2>3, <2>4, <3>1 DEF Choose
<1>5. CASE Prepare
  BY <1>0, <1>c, <1>p, <1>5, AsksMeans DEF Prepare, Alone, disk, others
<1>6. CASE Copy
  BY <1>0, <1>c, <1>p, <1>6, AsksMeans, StopsMeans DEF Copy, Alone, disk, others
<1>7. CASE Commit
  BY <1>0, <1>c, <1>p, <1>7, AsksMeans, StopsMeans DEF Commit, Alone, disk, others
<1>8. CASE Done
  <2>1. task' \in TaskType /\ item' \in ItemType
    BY <1>0, <1>8 DEF Done, TaskType, ItemType
  <2> QED  BY <1>0, <1>8, <1>p, <2>1 DEF Done, Alone, disk, others
<1>9. CASE Fails
  <2>1. CASE Conflicts
    BY <1>0, <1>9, <2>1, ConflictsMeans DEF Fails, Alone, disk, others
  <2>2. CASE Stops(task) /\ UNCHANGED item
    BY <1>0, <1>9, <2>2, StopsMeans DEF Fails, Alone, disk, others
  <2> QED  BY <1>9, <2>1, <2>2 DEF Fails
<1>10. CASE CleanMends
  BY <1>0, <1>c, <1>p, <1>10, AsksMeans DEF CleanMends, Alone, disk, others
<1>11. CASE Clean
  <2>1. CASE Asks("cancel", "cleaning") \/ Asks("cancel", "clearing")
    BY <1>0, <1>c, <1>p, <1>11, <2>1, AsksMeans DEF Clean, Alone, disk, others
  <2>2. CASE pc' = "end" /\ UNCHANGED <<task, job>>
    BY <1>0, <1>p, <1>11, <2>2 DEF Clean, Alone, disk, others
  <2> QED  BY <1>11, <2>1, <2>2 DEF Clean
<1>12. CASE End
  <2> DEFINE ended == [task EXCEPT !.status = IF task.cancel THEN "cancelled" ELSE "completed"]
  <2>1. ended \in TaskType
    BY <1>0 DEF TaskType, Finished
  <2>2. Stops(ended) /\ UNCHANGED <<item, job>> /\ Alone
    BY <1>12 DEF End
  <2> HIDE DEF ended
  <2> QED  BY <1>0, <2>1, <2>2, StopsMeans DEF Alone, disk, others
<1>13. CASE Run
  BY <1>0, <1>p, <1>13 DEF Run, Alone, disk, others, TaskType
<1>14. CASE Resolve
  BY <1>0, <1>14 DEF Resolve, Alone, disk, others, ItemType, Choices
<1>15. CASE RestartFile
  BY <1>0, <1>15 DEF RestartFile, Alone, disk, others, ItemType, TaskType
<1>16. CASE CancelTransfer
  BY <1>0, <1>16 DEF CancelTransfer, Alone, disk, others, TaskType
<1>17. CASE ClientStops
  BY <1>0, <1>p, <1>17 DEF ClientStops, disk, JobType
<1>18. CASE ConnectionBreaks
  BY <1>0, <1>p, <1>18 DEF ConnectionBreaks, disk, JobType
<1>19. CASE ServerStops
  <2>1. NoJob \in JobType
    BY DEF NoJob, JobType, Commands, JobSteps, JobReplies
  <2> QED  BY <1>0, <1>p, <1>19, <2>1 DEF ServerStops, disk
<1> QED
  BY <1>1, <1>2, <1>3, <1>4, <1>5, <1>6, <1>7, <1>8, <1>9, <1>10, <1>11, <1>12, <1>13, <1>14, <1>15, <1>16, <1>17, <1>18, <1>19
     DEF Engine

(* What somebody else writes at the destination has a stamp of its own. *)
LEMMA OthersWrite ==
  ASSUME TypeOK, OthersEdit
  PROVE  /\ UNCHANGED <<client, job, stage, faults>> /\ edits' \in 0..MaxEdits /\ source' \in Nat /\ dest' \in DestType
         /\ hist' \in HistType /\ hist'.agreed = hist.agreed /\ hist'.published = hist.published /\ hist.late \subseteq hist'.late
         /\ \/ UNCHANGED <<dest, hist>>
            \/ /\ dest'["other"] = dest["other"] /\ dest'["name"].id <= Others /\ Len(dest'["name"].content) <= 1
               /\ job.at = "rename" /\ st.exp # 0 => dest'["name"].id \in hist'.late
<1>0. edits \in 0..MaxEdits /\ edits < MaxEdits /\ dest \in DestType /\ source \in Nat /\ hist \in HistType
  BY TypeMeans DEF OthersEdit
<1>1. edits' \in 0..MaxEdits /\ Fresh \in Nat /\ Fresh <= Others /\ 0 <= Others
  BY <1>0, Bounds DEF OthersEdit, Fresh, Others
<1>2. UNCHANGED <<client, job, stage, faults>>
  BY DEF OthersEdit
<1>3. CASE source' = Fresh /\ UNCHANGED <<dest, hist>>
  BY <1>0, <1>1, <1>2, <1>3
<1>4. ASSUME NEW f \in {Absent, [id |-> Fresh, content |-> <<Fresh>>]},
             dest' = [dest EXCEPT !["name"] = f],
             hist' = [hist EXCEPT !.late = IF job.at = "rename" /\ st.exp # 0 THEN @ \cup {f.id} ELSE @], UNCHANGED source
      PROVE  /\ source' \in Nat /\ dest' \in DestType /\ hist' \in HistType /\ hist'.agreed = hist.agreed
             /\ hist'.published = hist.published /\ hist.late \subseteq hist'.late
             /\ dest'["other"] = dest["other"] /\ dest'["name"].id <= Others /\ Len(dest'["name"].content) <= 1
             /\ job.at = "rename" /\ st.exp # 0 => dest'["name"].id \in hist'.late
  <2>1. <<>> \in Seq(Nat) /\ <<Fresh>> \in Seq(Nat) /\ Len(<<>>) = 0 /\ Len(<<Fresh>>) = 1
    BY <1>1
  <2>2. f \in FileType /\ f.id \in Nat /\ f.id <= Others /\ Len(f.content) <= 1
    <3>1. CASE f = Absent
      BY <1>1, <2>1, <3>1 DEF Absent, FileType, Blocks
    <3>2. CASE f = [id |-> Fresh, content |-> <<Fresh>>]
      BY <1>1, <2>1, <3>2 DEF FileType, Blocks
    <3> QED  BY <1>4, <3>1, <3>2
  <2>3. dest' \in DestType /\ dest'["name"] = f /\ dest'["other"] = dest["other"]
    BY <1>0, <1>4, <2>2 DEF DestType, Names
  <2>4. /\ hist' \in HistType /\ hist'.agreed = hist.agreed
        /\ hist'.published = hist.published /\ hist.late \subseteq hist'.late
        /\ job.at = "rename" /\ st.exp # 0 => f.id \in hist'.late
    BY <1>0, <1>4, <2>2 DEF HistType
  <2> QED  BY <1>0, <1>4, <2>2, <2>3, <2>4
<1> QED  BY <1>1, <1>2, <1>3, <1>4 DEF OthersEdit

LEMMA HistKept ==
  ASSUME TypeOK, Engine \/ Run \/ Resolve \/ RestartFile \/ CancelTransfer \/ ClientStops \/ ConnectionBreaks \/ ServerStops
  PROVE  hist' \in HistType /\ faults' \in 0..MaxFaults /\ hist'.published = hist.published /\ hist'.late = hist.late
         /\ hist.agreed \subseteq hist'.agreed
<1>0. hist \in HistType /\ faults \in 0..MaxFaults /\ dest \in DestType /\ item \in ItemType
  BY TypeMeans
<1>1. CASE Choose
  <2>1. target \in Nat
    BY <1>0 DEF target, ItemType, DestType, FileType
  <2>2. hist' = hist \/ hist' = [hist EXCEPT !.agreed = IF target # 0 /\ item.choice = "replace" THEN @ \cup {target} ELSE @]
    BY <1>1 DEF Choose
  <2>3. hist' \in HistType /\ hist'.published = hist.published /\ hist'.late = hist.late /\ hist.agreed \subseteq hist'.agreed
    BY <1>0, <2>1, <2>2 DEF HistType
  <2> QED  BY <1>0, <1>1, <2>3 DEF Choose, others
<1>2. CASE UNCHANGED <<hist, faults>>
  BY <1>0, <1>2
<1>3. CASE hist' = hist /\ faults < MaxFaults /\ faults' = faults + 1
  BY <1>0, <1>3, Bounds
<1>4. Engine => Choose \/ UNCHANGED <<hist, faults>>
  BY DEF Engine, Scan, RestageCancels, Renew, Prepare, Copy, Commit, Done, Fails, CleanMends, Clean, End, Alone, others
<1> QED  BY <1>1, <1>2, <1>3, <1>4 DEF Run, Resolve, RestartFile, CancelTransfer, ClientStops, ConnectionBreaks, ServerStops, Alone, others

LEMMA TypeKept ==
  ASSUME TypeOK, EngineInv, StageInv, Next
  PROVE  TypeOK'
<1>0. /\ task \in TaskType /\ item \in ItemType /\ pc \in Places /\ job \in JobType /\ stage \in StageType
      /\ source \in Nat /\ dest \in DestType /\ edits \in 0..MaxEdits /\ faults \in 0..MaxFaults /\ hist \in HistType
  BY TypeMeans
<1>1. CASE Worker
  BY <1>0, <1>1, WorkerMeans, WorkerWrites, TypeFollows DEF client, others
<1>2. CASE OthersEdit
  BY <1>0, <1>2, OthersWrite, TypeFollows DEF client
<1>3. CASE Engine \/ Run \/ Resolve \/ RestartFile \/ CancelTransfer \/ ClientStops \/ ConnectionBreaks \/ ServerStops
  BY <1>0, <1>3, ClientTypes, HistKept, TypeFollows DEF disk
<1> QED  BY <1>1, <1>2, <1>3 DEF Next

-----------------------------------------------------------------------------
(* The engine waits only for the command it has sent, and works only on an item it has prepared. *)
LEMMA EngineKept ==
  ASSUME TypeOK, EngineInv, StageInv, Next
  PROVE  EngineInv'
<1>0. task \in TaskType /\ item \in ItemType /\ pc \in Places /\ job \in JobType /\ dest \in DestType
  BY TypeMeans
<1>c. {"prepare", "write", "commit", "cancel"} \subseteq Commands /\ {"restaging", "preparing", "writing", "committing", "cleaning", "mending", "clearing"} \subseteq Places
  BY DEF Commands, Places
<1>1. CASE Worker
  <2>1. UNCHANGED <<task, item, pc>> /\ Busy /\ job'.cmd = job.cmd /\ job'.live = job.live
    BY <1>1, WorkerMeans DEF client
  <2> QED  BY <2>1 DEF EngineInv, Waits, Uploads, Restages, Cleans, Doomed, CommandAt
<1>2. CASE OthersEdit
  BY <1>2 DEF OthersEdit, client, EngineInv, Waits, Uploads, Restages, Cleans, Doomed, CommandAt, Busy
<1>3. CASE Scan
  BY <1>0, <1>c, <1>3 DEF Scan, Answered, EngineInv, Waits, Uploads, Restages, Cleans, Doomed, CommandAt, Busy, Stops, TaskType, ItemType
<1>4. CASE RestageCancels
  BY <1>0, <1>c, <1>4, AsksMeans DEF RestageCancels, Answered, EngineInv, Waits, Uploads, Restages, Cleans, Doomed, CommandAt, Busy
<1>5. CASE Renew
  BY <1>0, <1>c, <1>5 DEF Renew, Answered, EngineInv, Waits, Uploads, Restages, Cleans, Doomed, CommandAt, Busy, Stops, TaskType, ItemType
<1>6. CASE Choose
  <2>0. pc = "choose" /\ job' = job /\ task.scanned /\ ~task.cancel /\ ~item.done /\ ~item.restart /\ ~item.restage
    BY <1>6 DEF Choose, others, EngineInv
  <2>1. CASE item.prepared /\ pc' = "prepare" /\ UNCHANGED <<item, task>>
    BY <2>0, <2>1 DEF EngineInv, Waits, Uploads, Restages, Cleans, Doomed, CommandAt, Busy
  <2>2. CASE Conflicts
    BY <1>0, <2>0, <2>2, ConflictsMeans DEF EngineInv, Waits, Uploads, Restages, Cleans, Doomed, CommandAt, Busy, ItemType
  <2>3. CASE ~item.prepared /\ item' = [item EXCEPT !.skipped = TRUE, !.done = TRUE] /\ pc' = "clean" /\ task' = [task EXCEPT !.conflict = 0]
    BY <1>0, <2>0, <2>3 DEF EngineInv, Waits, Uploads, Restages, Cleans, Doomed, CommandAt, Busy, ItemType, TaskType
  <2>4. CASE (\E n \in Names : item' = [item EXCEPT !.prepared = TRUE, !.exp = dest[n].id, !.name = n]) /\ pc' = "prepare" /\ UNCHANGED task
    BY <1>0, <2>0, <2>4 DEF EngineInv, Waits, Uploads, Restages, Cleans, Doomed, CommandAt, Busy, ItemType
  <2>5. item.name \in Names
    BY <1>0 DEF ItemType
  <2> QED  BY <1>6, <2>1, <2>2, <2>3, <2>4, <2>5 DEF Choose
<1>7. CASE Prepare
  BY <1>0, <1>c, <1>7, AsksMeans DEF Prepare, Answered, EngineInv, Waits, Uploads, Restages, Cleans, Doomed, CommandAt, Busy
<1>8. CASE Copy
  BY <1>0, <1>c, <1>8, AsksMeans, StopsMeans DEF Copy, Answered, EngineInv, Waits, Uploads, Restages, Cleans, Doomed, CommandAt, Busy
<1>9. CASE Commit
  BY <1>0, <1>c, <1>9, AsksMeans, StopsMeans DEF Commit, Answered, EngineInv, Waits, Uploads, Restages, Cleans, Doomed, CommandAt, Busy
<1>10. CASE Done
  BY <1>0, <1>c, <1>10 DEF Done, Answered, EngineInv, Waits, Uploads, Restages, Cleans, Doomed, CommandAt, Busy, Stops, TaskType, ItemType
<1>11. CASE Fails
  BY <1>0, <1>c, <1>11, ConflictsMeans, StopsMeans DEF Fails, Answered, EngineInv, Waits, Uploads, Restages, Cleans, Doomed, CommandAt, Busy, Stops, TaskType, ItemType
<1>12. CASE CleanMends
  BY <1>0, <1>c, <1>12, AsksMeans DEF CleanMends, Answered, EngineInv, Waits, Uploads, Restages, Cleans, Doomed, CommandAt, Busy
<1>13. CASE Clean
  BY <1>0, <1>c, <1>13, AsksMeans DEF Clean, Answered, EngineInv, Waits, Uploads, Restages, Cleans, Doomed, CommandAt, Busy
<1>14. CASE End
  BY <1>0, <1>c, <1>14 DEF End, Answered, EngineInv, Waits, Uploads, Restages, Cleans, Doomed, CommandAt, Busy, Stops, TaskType, ItemType
<1>15. CASE Run
  BY <1>0, <1>15 DEF Run, EngineInv, Waits, Uploads, Restages, Cleans, Doomed, CommandAt, Busy, TaskType, ItemType, JobType
<1>16. CASE Resolve
  BY <1>0, <1>16 DEF Resolve, EngineInv, Waits, Uploads, Restages, Cleans, Doomed, CommandAt, Busy, TaskType, ItemType, JobType
<1>17. CASE RestartFile
  BY <1>0, <1>17 DEF RestartFile, EngineInv, Waits, Uploads, Restages, Cleans, Doomed, CommandAt, Busy, TaskType, ItemType, JobType
<1>18. CASE CancelTransfer
  BY <1>0, <1>18 DEF CancelTransfer, EngineInv, Waits, Uploads, Restages, Cleans, Doomed, CommandAt, Busy, TaskType, ItemType, JobType
<1>19. CASE ClientStops
  BY <1>0, <1>19 DEF ClientStops, EngineInv, Waits, Uploads, Restages, Cleans, Doomed, CommandAt, Busy, TaskType, ItemType, JobType
<1>20. CASE ConnectionBreaks
  BY <1>0, <1>20 DEF ConnectionBreaks, EngineInv, Waits, Uploads, Restages, Cleans, Doomed, CommandAt, Busy, TaskType, ItemType, JobType
<1>21. CASE ServerStops
  BY <1>0, <1>21 DEF ServerStops, EngineInv, Waits, Uploads, Restages, Cleans, Doomed, CommandAt, Busy, TaskType, ItemType, JobType, NoJob
<1> QED
  BY <1>1, <1>2, <1>3, <1>4, <1>5, <1>6, <1>7, <1>8, <1>9, <1>10, <1>11, <1>12, <1>13, <1>14, <1>15, <1>16, <1>17, <1>18, <1>19, <1>20, <1>21
     DEF Next, Engine

-----------------------------------------------------------------------------
Bare == [NoStage EXCEPT !.at = "bare"]
Begun == [NoStage EXCEPT !.at = "ready", !.src = item.src, !.exp = item.exp, !.has = TRUE]
Emptied(s) == [s EXCEPT !.data = <<>>, !.has = FALSE]
Answers(r) == job'.at = "done" /\ job'.reply = r

(* What each step of a command does to the directory of the item, and to the command. *)
LEMMA WorkerDoes ==
  ASSUME TypeOK, StageInv
  PROVE  /\ PrepareStages => /\ job.cmd = "prepare" /\ job.at = "begin" /\ job'.at = "journal"
                             /\ UNCHANGED <<dest, hist>> /\ st' = IF st.at = "none" THEN Bare ELSE st
         /\ PrepareJournals => /\ job.cmd = "prepare" /\ job.at = "journal" /\ job'.at = "check"
                               /\ UNCHANGED <<dest, hist>> /\ st' = IF st.at = "bare" THEN Begun ELSE st
         /\ PrepareChecks => /\ job.cmd = "prepare" /\ job.at = "check" /\ UNCHANGED <<dest, hist>>
                             /\ \/ st' = st /\ job'.at = "done" /\ job'.reply \in {"changed", "conflict", "failed"}
                                \/ /\ st.src = item.src /\ st.exp = item.exp /\ Published(st)
                                   /\ Answers("complete") /\ st' = [st EXCEPT !.committed = TRUE]
                                \/ /\ st.src = item.src /\ st.exp = item.exp /\ st.has /\ Answers("ready")
                                   /\ \E d \in Blocks : Len(d) = st.offset /\ st' = [st EXCEPT !.data = d]
         /\ WriteBlock => /\ job.cmd = "write" /\ job.at = "begin" /\ UNCHANGED <<dest, hist>>
                          /\ \/ st' = st /\ Answers("failed")
                             \/ /\ st.at = "ready" /\ st.has /\ job'.at = "count"
                                /\ \E d \in Blocks : Len(d) = st.offset + 1 /\ st' = [st EXCEPT !.data = d]
         /\ WriteCounts => /\ job.cmd = "write" /\ job.at = "count" /\ Answers("ready") /\ UNCHANGED <<dest, hist>>
                           /\ st' = [st EXCEPT !.offset = st.offset + 1]
         /\ CommitVerifies => /\ job.cmd = "commit" /\ job.at = "begin" /\ UNCHANGED <<dest, hist>>
                              /\ \/ st' = st /\ job'.at = "done" /\ job'.reply \in {"failed", "conflict"}
                                 \/ Published(st) /\ Answers("done") /\ st' = [st EXCEPT !.committed = TRUE]
                                 \/ /\ st.at = "ready" /\ target = st.exp /\ st.data = Whole(item.src) /\ job'.at = "recheck"
                                    /\ st' = [st EXCEPT !.digest = TRUE]
         /\ CommitRechecks => /\ job.cmd = "commit" /\ job.at = "recheck" /\ st' = st /\ UNCHANGED <<dest, hist>>
                              /\ \/ target = st.exp /\ job'.at = "rename"
                                 \/ Answers("conflict")
         /\ CommitRenames => /\ job.cmd = "commit" /\ job.at = "rename"
                             /\ \/ st' = st /\ Answers("failed") /\ UNCHANGED <<dest, hist>>
                                \/ /\ ~(st.exp = 0 /\ target # 0) /\ job'.at = "save" /\ st' = Emptied(st)
                                   /\ dest' = [dest EXCEPT ![item.name] = Copied(item.tok, st.data)]
                                   /\ hist' = [hist EXCEPT !.published = @ \cup {[tok |-> item.tok, src |-> st.src]}]
         /\ CommitSaves => /\ job.cmd = "commit" /\ job.at = "save" /\ Answers("done") /\ UNCHANGED <<dest, hist>>
                           /\ st' = [st EXCEPT !.committed = TRUE]
         /\ CancelRemoves => /\ job.cmd = "cancel" /\ UNCHANGED <<dest, hist>>
                             /\ \/ st' = st /\ ((st.at = "none" /\ Answers("done")) \/ Answers("missing"))
                                \/ job'.at = "state" /\ st' = Emptied(st)
                                \/ job'.at = "dir" /\ st' = Bare
                                \/ Answers("done") /\ st' = NoStage
<1>0. /\ item \in ItemType /\ job \in JobType /\ stage \in StageType /\ st \in StageRecord
      /\ {"begin", "journal", "check", "count", "recheck", "rename", "save", "state", "dir"} \subseteq JobSteps
      /\ {"ready", "complete", "conflict", "changed", "failed", "done", "missing"} \subseteq JobReplies
  BY TypeMeans, StageMeans DEF JobSteps, JobReplies
<1>i. st.has => st.offset <= Len(st.data)
  BY <1>0, StageMeans DEF StageInv, st
<1>n. ASSUME NEW s \in StageRecord, Stages(s), item' = item PROVE st' = s
  BY <1>0, <1>n, StagesMeans DEF st
<1>u. ASSUME UNCHANGED <<stage, item>> PROVE st' = st
  BY <1>u DEF st
<1>l. st.data \in Blocks /\ st.offset \in Nat /\ item.src \in Nat
  BY <1>0, StageSteps DEF ItemType
<1>1. ASSUME PrepareStages PROVE job'.at = "journal" /\ st' = IF st.at = "none" THEN Bare ELSE st
  BY <1>0, <1>n, <1>u, <1>1, StageMeans, StepsMeans DEF PrepareStages, client, Bare
<1>2. ASSUME PrepareJournals PROVE job'.at = "check" /\ st' = IF st.at = "bare" THEN Begun ELSE st
  BY <1>0, <1>n, <1>u, <1>2, StageSteps, StepsMeans DEF PrepareJournals, client, Begun
<1>3. ASSUME PrepareChecks
      PROVE  \/ st' = st /\ job'.at = "done" /\ job'.reply \in {"changed", "conflict", "failed"}
             \/ /\ st.src = item.src /\ st.exp = item.exp /\ Published(st)
                /\ Answers("complete") /\ st' = [st EXCEPT !.committed = TRUE]
             \/ /\ st.src = item.src /\ st.exp = item.exp /\ st.has /\ Answers("ready")
                /\ \E d \in Blocks : Len(d) = st.offset /\ st' = [st EXCEPT !.data = d]
  <2>0. item' = item
    BY <1>3 DEF PrepareChecks, client
  <2>1. CASE UNCHANGED stage /\ \E r \in {"changed", "conflict", "failed"} : Replies(r)
    BY <1>0, <1>u, <2>0, <2>1, StepsMeans
  <2>2. CASE st.src = item.src /\ st.exp = item.exp /\ Published(st) /\ Stages([st EXCEPT !.committed = TRUE]) /\ Replies("complete")
    BY <1>0, <1>n, <2>0, <2>2, StepsMeans, StageMeans DEF Answers
  <2>3. CASE /\ st.src = item.src /\ st.exp = item.exp /\ st.has
             /\ Stages([st EXCEPT !.data = SubSeq(@, 1, st.offset)]) /\ Replies("ready")
    <3>1. st' = [st EXCEPT !.data = SubSeq(st.data, 1, st.offset)]
      BY <1>0, <1>i, <1>n, <2>0, <2>3, StageSteps
    <3>2. SubSeq(st.data, 1, st.offset) \in Blocks /\ Len(SubSeq(st.data, 1, st.offset)) = st.offset
      BY <1>i, <1>l, <2>3, CutMeans
    <3> QED  BY <1>0, <2>3, <3>1, <3>2, StepsMeans DEF Answers
  <2> QED  BY <1>3, <2>1, <2>2, <2>3 DEF PrepareChecks
<1>4. ASSUME WriteBlock
      PROVE  \/ st' = st /\ Answers("failed")
             \/ /\ st.at = "ready" /\ st.has /\ job'.at = "count"
                /\ \E d \in Blocks : Len(d) = st.offset + 1 /\ st' = [st EXCEPT !.data = d]
  <2>0. item' = item
    BY <1>4 DEF WriteBlock, client
  <2>1. CASE Replies("failed") /\ UNCHANGED stage
    BY <1>0, <1>u, <2>0, <2>1, StepsMeans DEF Answers
  <2>2. CASE /\ st.at = "ready" /\ st.has
             /\ Stages([st EXCEPT !.data = Append(SubSeq(@, 1, st.offset), item.src)]) /\ Steps("count")
    <3> DEFINE longer == Append(SubSeq(st.data, 1, st.offset), item.src)
    <3>1. st' = [st EXCEPT !.data = longer]
      BY <1>0, <1>i, <1>n, <2>0, <2>2, StageSteps
    <3>2. longer \in Blocks /\ Len(longer) = st.offset + 1
      BY <1>i, <1>l, <2>2, CutMeans
    <3> HIDE DEF longer
    <3> QED  BY <1>0, <2>2, <3>1, <3>2, StepsMeans
  <2> QED  BY <1>4, <2>1, <2>2 DEF WriteBlock
<1>5. ASSUME WriteCounts PROVE Answers("ready") /\ st' = [st EXCEPT !.offset = st.offset + 1]
  <2>1. st.offset < Length /\ item' = item
    BY <1>5 DEF WriteCounts, Works, StageInv, Busy, client
  <2>2. Stages([st EXCEPT !.offset = @ + 1]) /\ Replies("ready")
    BY <1>5 DEF WriteCounts
  <2>3. st' = [st EXCEPT !.offset = st.offset + 1]
    BY <1>0, <1>n, <2>1, <2>2, StageSteps
  <2> QED  BY <1>0, <2>2, <2>3, StepsMeans DEF Answers
<1>6. ASSUME CommitVerifies
      PROVE  \/ st' = st /\ job'.at = "done" /\ job'.reply \in {"failed", "conflict"}
             \/ Published(st) /\ Answers("done") /\ st' = [st EXCEPT !.committed = TRUE]
             \/ /\ st.at = "ready" /\ target = st.exp /\ st.data = Whole(item.src) /\ job'.at = "recheck"
                /\ st' = [st EXCEPT !.digest = TRUE]
  <2>0. item' = item
    BY <1>6 DEF CommitVerifies, client
  <2>1. CASE UNCHANGED stage /\ \E r \in {"failed", "conflict"} : Replies(r)
    BY <1>0, <1>u, <2>0, <2>1, StepsMeans
  <2>2. CASE Published(st) /\ Stages([st EXCEPT !.committed = TRUE]) /\ Replies("done")
    BY <1>0, <1>n, <2>0, <2>2, StepsMeans, StageMeans DEF Answers
  <2>3. CASE /\ st.at = "ready" /\ target = st.exp /\ st.data = Whole(item.src)
             /\ Stages([st EXCEPT !.digest = TRUE]) /\ Steps("recheck")
    BY <1>0, <1>n, <2>0, <2>3, StepsMeans, StageMeans
  <2> QED  BY <1>6, <2>1, <2>2, <2>3 DEF CommitVerifies
<1>7. ASSUME CommitRechecks PROVE st' = st /\ ((target = st.exp /\ job'.at = "rename") \/ Answers("conflict"))
  BY <1>0, <1>u, <1>7, StepsMeans DEF CommitRechecks, client, disk, Answers
<1>8. ASSUME CommitRenames
      PROVE  \/ st' = st /\ Answers("failed") /\ UNCHANGED <<dest, hist>>
             \/ /\ ~(st.exp = 0 /\ target # 0) /\ job'.at = "save" /\ st' = Emptied(st)
                /\ dest' = [dest EXCEPT ![item.name] = Copied(item.tok, st.data)]
                /\ hist' = [hist EXCEPT !.published = @ \cup {[tok |-> item.tok, src |-> st.src]}]
  <2>0. item' = item
    BY <1>8 DEF CommitRenames, client
  <2>1. CASE st.exp = 0 /\ target # 0
    BY <1>0, <1>u, <1>8, <2>0, <2>1, StepsMeans DEF CommitRenames, disk, Answers
  <2>2. CASE ~(st.exp = 0 /\ target # 0)
    <3>1. /\ Stages([st EXCEPT !.data = <<>>, !.has = FALSE]) /\ Steps("save")
          /\ dest' = [dest EXCEPT ![item.name] = Copied(item.tok, st.data)]
          /\ hist' = [hist EXCEPT !.published = @ \cup {[tok |-> item.tok, src |-> st.src]}]
      BY <1>8, <2>2 DEF CommitRenames
    <3>2. st' = Emptied(st)
      BY <1>0, <1>n, <2>0, <3>1, StageSteps DEF Emptied
    <3> QED  BY <1>0, <2>2, <3>1, <3>2, StepsMeans
  <2> QED  BY <2>1, <2>2
<1>9. ASSUME CommitSaves PROVE Answers("done") /\ st' = [st EXCEPT !.committed = TRUE]
  BY <1>0, <1>n, <1>9, StepsMeans, StageMeans DEF CommitSaves, client, Answers
<1>10. ASSUME CancelRemoves
       PROVE  \/ st' = st /\ ((st.at = "none" /\ Answers("done")) \/ Answers("missing"))
              \/ job'.at = "state" /\ st' = Emptied(st)
              \/ job'.at = "dir" /\ st' = Bare
              \/ Answers("done") /\ st' = NoStage
  <2>0. item' = item
    BY <1>10 DEF CancelRemoves, client
  <2>1. CASE UNCHANGED stage /\ ((st.at = "none" /\ Replies("done")) \/ Replies("missing"))
    BY <1>0, <1>u, <2>0, <2>1, StepsMeans DEF Answers
  <2>2. CASE Stages([st EXCEPT !.data = <<>>, !.has = FALSE]) /\ Steps("state")
    BY <1>0, <1>n, <2>0, <2>2, StageSteps, StepsMeans DEF Emptied
  <2>3. CASE Stages([NoStage EXCEPT !.at = "bare"]) /\ Steps("dir")
    BY <1>0, <1>n, <2>0, <2>3, StageMeans, StepsMeans DEF Bare
  <2>4. CASE Stages(NoStage) /\ Replies("done")
    BY <1>0, <1>n, <2>0, <2>4, StageMeans, StepsMeans DEF Answers
  <2> QED  BY <1>10, <2>1, <2>2, <2>3, <2>4 DEF CancelRemoves
<1> QED
  BY <1>1, <1>2, <1>3, <1>4, <1>5, <1>6, <1>7, <1>8, <1>9, <1>10
     DEF PrepareStages, PrepareJournals, PrepareChecks, WriteBlock, WriteCounts, CommitVerifies, CommitRechecks, CommitRenames,
         CommitSaves, CancelRemoves, Works, disk

(* A step of a command: it is enough to look at the directory of the item. *)
LEMMA StageFrame ==
  ASSUME TypeOK, EngineInv, StageInv, Worker, TypeOK',
         st'.at # "none" => item.prepared,
         st'.at # "ready" => ~st'.digest /\ ~st'.has,
         ~st'.has => st'.data = <<>>,
         st'.has => st'.offset <= Len(st'.data),
         job'.cmd = "cancel" /\ job'.reply = "done" /\ ~Busy' /\ Waits => st'.at = "none",
         job'.cmd = "write" /\ Busy' => st'.offset < Length,
         job'.cmd = "write" /\ job'.at = "count" => st'.has /\ st'.offset + 1 <= Len(st'.data)
  PROVE  StageInv'
<1>1. /\ UNCHANGED <<task, item, pc>> /\ Busy /\ \A t \in Tokens : t # item.tok => stage'[t] = stage[t]
  BY WorkerMeans DEF client
<1>2. item.tok \in Tokens /\ st' = stage'[item.tok]
  BY <1>1, TypeMeans DEF ItemType, st
<1>3. ASSUME NEW t \in Tokens
      PROVE  /\ stage'[t].at # "none" => t = item.tok /\ item.prepared
             /\ stage'[t].at # "ready" => ~stage'[t].digest /\ ~stage'[t].has
             /\ ~stage'[t].has => stage'[t].data = <<>>
             /\ stage'[t].has => stage'[t].offset <= Len(stage'[t].data)
  <2>1. CASE t = item.tok
    BY <1>2, <2>1
  <2>2. CASE t # item.tok
    BY <1>1, <2>2 DEF StageInv
  <2> QED  BY <2>1, <2>2
<1>4. task.status \notin Finished /\ pc # "end"
  BY <1>1 DEF StageInv
<1>5. Waits' = Waits
  BY <1>1 DEF Waits
<1> QED  BY <1>1, <1>3, <1>4, <1>5 DEF StageInv

LEMMA StageKeptByWorker ==
  ASSUME TypeOK, EngineInv, StageInv, Worker, TypeOK'
  PROVE  StageInv'
<1>0. /\ item \in ItemType /\ job \in JobType /\ stage \in StageType /\ item.tok \in Tokens /\ st \in StageRecord
      /\ UNCHANGED <<task, item, pc>> /\ Busy /\ job'.cmd = job.cmd /\ st' = stage'[item.tok]
  BY TypeMeans, WorkerMeans, StageMeans DEF client, st
<1>i. /\ item.prepared
      /\ st.at # "ready" => ~st.digest /\ ~st.has
      /\ ~st.has => st.data = <<>>
      /\ st.has => st.offset <= Len(st.data)
      /\ job.cmd = "write" => st.offset < Length
      /\ job.cmd = "write" /\ job.at = "count" => st.has /\ st.offset + 1 <= Len(st.data)
  BY <1>0 DEF EngineInv, StageInv, st
<1>n. NoStage.at = "none" /\ ~NoStage.digest /\ ~NoStage.has /\ NoStage.data = <<>> /\ Len(<<>>) = 0
      /\ Bare.at = "bare" /\ ~Bare.digest /\ ~Bare.has /\ Bare.data = <<>>
      /\ Begun.at = "ready" /\ Begun.data = <<>> /\ Begun.offset = 0 /\ Begun.has
  BY DEF NoStage, Bare, Begun
<1>l. st.data \in Blocks /\ st.offset \in Nat /\ item.src \in Nat
  BY <1>0, StageSteps DEF ItemType
<1>1. CASE PrepareStages
  <2>1. job.cmd = "prepare" /\ (st' = Bare \/ st' = st)
    BY <1>1, WorkerDoes
  <2> QED  BY <1>0, <1>i, <1>n, <1>l, <2>1, <1>1, StageFrame DEF Worker, Busy, Answers, StageRecord, Emptied
<1>2. CASE PrepareJournals
  <2>1. job.cmd = "prepare" /\ (st' = Begun \/ st' = st)
    BY <1>2, WorkerDoes
  <2> QED  BY <1>0, <1>i, <1>n, <1>l, <2>1, <1>2, StageFrame DEF Worker, Busy, Answers, StageRecord, Emptied
<1>3. CASE PrepareChecks
  <2>1. job.cmd = "prepare" /\ (st' = st \/ st' = [st EXCEPT !.committed = TRUE] \/ \E d \in Blocks : st.has /\ Len(d) = st.offset /\ st' = [st EXCEPT !.data = d])
    BY <1>3, WorkerDoes
  <2>2. CASE \E d \in Blocks : st.has /\ Len(d) = st.offset /\ st' = [st EXCEPT !.data = d]
    <3>1. PICK d \in Blocks : st.has /\ Len(d) = st.offset /\ st' = [st EXCEPT !.data = d]
      BY <2>2
    <3>2. st'.data = d /\ st'.offset = st.offset /\ st'.has = st.has /\ st'.at = st.at /\ st'.digest = st.digest
      BY <1>0, <3>1 DEF StageRecord
    <3> QED  BY <1>0, <1>i, <1>l, <2>1, <1>3, <3>1, <3>2, StageFrame DEF Worker, Busy
  <2>3. CASE st' = st \/ st' = [st EXCEPT !.committed = TRUE]
    BY <1>0, <1>i, <1>l, <2>1, <2>3, <1>3, StageFrame DEF Worker, Busy, StageRecord
  <2> QED  BY <2>1, <2>2, <2>3
<1>4. CASE WriteBlock
  <2>1. job.cmd = "write" /\ ((st' = st /\ job'.at = "done") \/ \E d \in Blocks : st.has /\ Len(d) = st.offset + 1 /\ st' = [st EXCEPT !.data = d])
    BY <1>4, WorkerDoes DEF Answers
  <2>2. CASE \E d \in Blocks : st.has /\ Len(d) = st.offset + 1 /\ st' = [st EXCEPT !.data = d]
    <3>1. PICK d \in Blocks : st.has /\ Len(d) = st.offset + 1 /\ st' = [st EXCEPT !.data = d]
      BY <2>2
    <3>2. st'.data = d /\ st'.offset = st.offset /\ st'.has = st.has /\ st'.at = st.at /\ st'.digest = st.digest
      BY <1>0, <3>1 DEF StageRecord
    <3> QED  BY <1>0, <1>i, <1>l, <2>1, <1>4, <3>1, <3>2, StageFrame DEF Worker, Busy
  <2>3. CASE st' = st /\ job'.at = "done"
    BY <1>0, <1>i, <1>l, <2>1, <2>3, <1>4, StageFrame DEF Worker, Busy
  <2> QED  BY <2>1, <2>2, <2>3
<1>5. CASE WriteCounts
  <2>1. job.cmd = "write" /\ job.at = "count" /\ job'.at = "done" /\ st' = [st EXCEPT !.offset = st.offset + 1]
    BY <1>5, WorkerDoes DEF Answers
  <2> QED  BY <1>0, <1>i, <1>n, <1>l, <2>1, <1>5, StageFrame DEF Worker, Busy, Answers, StageRecord, Emptied
<1>6. CASE CommitVerifies
  <2>1. /\ job.cmd = "commit"
        /\ \/ st' = st
           \/ st' = [st EXCEPT !.committed = TRUE]
           \/ st.at = "ready" /\ st' = [st EXCEPT !.digest = TRUE]
    BY <1>6, WorkerDoes
  <2> QED  BY <1>0, <1>i, <1>n, <1>l, <2>1, <1>6, StageFrame DEF Worker, Busy, Answers, StageRecord, Emptied
<1>7. CASE CommitRechecks
  <2>1. job.cmd = "commit" /\ st' = st
    BY <1>7, WorkerDoes
  <2> QED  BY <1>0, <1>i, <1>n, <1>l, <2>1, <1>7, StageFrame DEF Worker, Busy, Answers, StageRecord, Emptied
<1>8. CASE CommitRenames
  <2>1. job.cmd = "commit" /\ (st' = st \/ st' = Emptied(st))
    BY <1>8, WorkerDoes
  <2> QED  BY <1>0, <1>i, <1>n, <1>l, <2>1, <1>8, StageFrame DEF Worker, Busy, Answers, StageRecord, Emptied
<1>9. CASE CommitSaves
  <2>1. job.cmd = "commit" /\ st' = [st EXCEPT !.committed = TRUE]
    BY <1>9, WorkerDoes
  <2> QED  BY <1>0, <1>i, <1>n, <1>l, <2>1, <1>9, StageFrame DEF Worker, Busy, Answers, StageRecord, Emptied
<1>10. CASE CancelRemoves
  <2>1. /\ job.cmd = "cancel"
        /\ \/ st' = st /\ (st.at = "none" \/ Answers("missing"))
           \/ job'.at = "state" /\ st' = Emptied(st)
           \/ job'.at = "dir" /\ st' = Bare
           \/ st' = NoStage
    BY <1>10, WorkerDoes
  <2> QED  BY <1>0, <1>i, <1>n, <1>l, <2>1, <1>10, StageFrame DEF Worker, Busy, Answers, StageRecord, Emptied
<1> QED
  BY <1>1, <1>2, <1>3, <1>4, <1>5, <1>6, <1>7, <1>8, <1>9, <1>10 DEF Worker

(* The engine, the user and the faults leave the directories as they are. *)
LEMMA StageClientFrame ==
  ASSUME StageInv, UNCHANGED stage, item'.tok = item.tok, item.prepared => item'.prepared,
         job'.cmd = "cancel" /\ job'.reply = "done" /\ ~Busy' /\ Waits' => st.at = "none",
         pc' = "end" \/ task'.status \in Finished => ~Busy' /\ st.at = "none",
         task'.status \in Finished => pc' = "idle",
         \/ job'.cmd = job.cmd /\ job'.at = job.at
         \/ job'.at \in {"begin", "done"} /\ (job'.cmd = "write" /\ Busy' => st.offset < Length)
  PROVE  StageInv'
<1>1. st' = st
  BY DEF st
<1> QED  BY <1>1 DEF StageInv, Busy

LEMMA StageKept ==
  ASSUME TypeOK, EngineInv, StageInv, Next, TypeOK'
  PROVE  StageInv'
<1>0. task \in TaskType /\ item \in ItemType /\ pc \in Places /\ job \in JobType /\ dest \in DestType /\ stage \in StageType
  BY TypeMeans
<1>c. {"prepare", "write", "commit", "cancel"} \subseteq Commands /\ {"restaging", "preparing", "writing", "committing", "cleaning", "mending", "clearing"} \subseteq Places
  BY DEF Commands, Places
<1>1. CASE Worker
  BY <1>1, StageKeptByWorker
<1>2. CASE OthersEdit
  BY <1>2, StageClientFrame DEF OthersEdit, client, StageInv, Waits, Busy
<1>3. CASE Scan
  BY <1>0, <1>c, <1>3, StageClientFrame DEF Scan, Alone, disk, Answered, EngineInv, StageInv, Waits, Uploads, Restages, CommandAt, Busy, Finished, Stops, TaskType, ItemType
<1>4. CASE RestageCancels
  BY <1>0, <1>c, <1>4, AsksMeans, StageClientFrame DEF RestageCancels, Alone, disk, Answered, EngineInv, StageInv, Waits, Uploads, Restages, CommandAt, Busy, Finished
<1>5. CASE Renew
  <2>1. UNCHANGED <<task, job, stage>> /\ pc' = "choose" /\ ~Busy /\ task.status \notin Finished
        /\ \A t \in Tokens : stage[t].at = "none"
    <3>1. item.tok \in Tokens
      BY <1>0 DEF ItemType
    <3>2. CASE pc = "renew"
      BY <1>0, <1>5, <3>1, <3>2 DEF Renew, Alone, disk, EngineInv, StageInv, Busy, Waits, CommandAt, Finished
    <3>3. CASE Answered("restaging", {"done"})
      BY <1>0, <1>5, <3>1, <3>3 DEF Renew, Alone, disk, Answered, EngineInv, StageInv, Busy, Waits, CommandAt, Finished, st
    <3> QED  BY <1>5, <3>2, <3>3 DEF Renew
  <2>2. item'.tok \in Tokens
    BY TypeMeans, TypeKept DEF TypeOK
  <2>3. st'.at = "none" /\ ~Waits'
    BY <2>1, <2>2 DEF st, Waits, CommandAt
  <2>4. \A t \in Tokens : /\ ~stage[t].digest /\ ~stage[t].has /\ stage[t].data = <<>>
    BY <2>1 DEF StageInv
  <2>5. job.cmd = "write" => job.at # "count"
    BY <2>1 DEF Busy
  <2> QED  BY <2>1, <2>3, <2>4, <2>5 DEF StageInv, Busy
<1>6. CASE Choose
  BY <1>0, <1>c, <1>6, ConflictsMeans, StageClientFrame DEF Choose, Alone, disk, Answered, EngineInv, StageInv, Waits, Uploads, Restages, CommandAt, Busy, Finished, Stops, TaskType, ItemType
<1>7. CASE Prepare
  BY <1>0, <1>c, <1>7, AsksMeans, StageClientFrame DEF Prepare, Alone, disk, Answered, EngineInv, StageInv, Waits, Uploads, Restages, CommandAt, Busy, Finished
<1>8. CASE Copy
  BY <1>0, <1>c, <1>8, AsksMeans, StopsMeans, StageClientFrame DEF Copy, Alone, disk, Answered, EngineInv, StageInv, Waits, Uploads, Restages, CommandAt, Busy, Finished
<1>9. CASE Commit
  BY <1>0, <1>c, <1>9, AsksMeans, StopsMeans, StageClientFrame DEF Commit, Alone, disk, Answered, EngineInv, StageInv, Waits, Uploads, Restages, CommandAt, Busy, Finished
<1>10. CASE Done
  BY <1>0, <1>c, <1>10, StageClientFrame DEF Done, Alone, disk, Answered, EngineInv, StageInv, Waits, Uploads, Restages, CommandAt, Busy, Finished, Stops, TaskType, ItemType
<1>11. CASE Fails
  BY <1>0, <1>c, <1>11, ConflictsMeans, StopsMeans, StageClientFrame DEF Fails, Alone, disk, Answered, EngineInv, StageInv, Waits, Uploads, Restages, CommandAt, Busy, Finished, Stops, TaskType, ItemType
<1>12. CASE CleanMends
  BY <1>0, <1>c, <1>12, AsksMeans, StageClientFrame DEF CleanMends, Alone, disk, Answered, EngineInv, StageInv, Waits, Uploads, Restages, CommandAt, Busy, Finished
<1>13. CASE Clean
  <2>0. UNCHANGED <<item, stage>>
    BY <1>13 DEF Clean, Alone, disk
  <2>1. CASE \E at \in {"cleaning", "clearing"} : Asks("cancel", at)
    <3>1. pc # "idle" /\ task.status \notin Finished
      BY <1>13 DEF Clean, Answered, StageInv
    <3> QED  BY <1>0, <1>c, <2>0, <2>1, <3>1, AsksMeans, StageClientFrame DEF StageInv, Waits, Busy
  <2>2. CASE pc' = "end" /\ UNCHANGED <<task, job>>
    <3>1. pc # "idle" /\ task.status \notin Finished /\ ~Busy' /\ st.at = "none"
      <4>1. CASE pc = "clean" /\ ~item.prepared
        BY <1>0, <2>2, <4>1, StageMeans DEF EngineInv, StageInv, Busy, st, ItemType
      <4>2. CASE \E at \in {"cleaning", "clearing"} : Answered(at, {"done"})
        BY <2>2, <4>2 DEF Answered, EngineInv, StageInv, Busy, Waits, CommandAt
      <4>3. CASE \E at \in {"cleaning", "clearing"} : Asks("cancel", at)
        BY <1>0, <1>c, <2>2, <4>3, AsksMeans
      <4> QED  BY <1>13, <4>1, <4>2, <4>3 DEF Clean
    <3> QED  BY <2>0, <2>2, <3>1, StageClientFrame DEF Waits, CommandAt
  <2> QED  BY <1>13, <2>1, <2>2 DEF Clean
<1>14. CASE End
  BY <1>0, <1>c, <1>14, StageClientFrame DEF End, Alone, disk, Answered, EngineInv, StageInv, Waits, Uploads, Restages, CommandAt, Busy, Finished, Stops, TaskType, ItemType
<1>15. CASE Run
  BY <1>0, <1>15, StageClientFrame DEF Run, Alone, disk, EngineInv, StageInv, Waits, CommandAt, Busy, TaskType, ItemType, JobType, Finished
<1>16. CASE Resolve
  BY <1>0, <1>16, StageClientFrame DEF Resolve, Alone, disk, EngineInv, StageInv, Waits, CommandAt, Busy, TaskType, ItemType, JobType, Finished
<1>17. CASE RestartFile
  BY <1>0, <1>17, StageClientFrame DEF RestartFile, Alone, disk, EngineInv, StageInv, Waits, CommandAt, Busy, TaskType, ItemType, JobType, Finished
<1>18. CASE CancelTransfer
  BY <1>0, <1>18, StageClientFrame DEF CancelTransfer, Alone, disk, EngineInv, StageInv, Waits, CommandAt, Busy, TaskType, ItemType, JobType, Finished
<1>19. CASE ClientStops
  BY <1>0, <1>19, StageClientFrame DEF ClientStops, Alone, disk, EngineInv, StageInv, Waits, CommandAt, Busy, TaskType, ItemType, JobType, Finished
<1>20. CASE ConnectionBreaks
  BY <1>0, <1>20, StageClientFrame DEF ConnectionBreaks, Alone, disk, EngineInv, StageInv, Waits, CommandAt, Busy, TaskType, ItemType, JobType, Finished
<1>21. CASE ServerStops
  BY <1>0, <1>21, StageClientFrame DEF ServerStops, Alone, disk, EngineInv, StageInv, Waits, CommandAt, Busy, TaskType, ItemType, JobType, Finished, NoJob
<1> QED
  BY <1>1, <1>2, <1>3, <1>4, <1>5, <1>6, <1>7, <1>8, <1>9, <1>10, <1>11, <1>12, <1>13, <1>14, <1>15, <1>16, <1>17, <1>18, <1>19, <1>20, <1>21
     DEF Next, Engine

-----------------------------------------------------------------------------
LEMMA ReplyComesLast ==
  ASSUME TypeOK, Worker, job'.at # "done"
  PROVE  job'.reply = job.reply
<1>1. job \in JobType
  BY TypeMeans
<1>2. (\E r \in JobReplies : Replies(r)) \/ (\E at \in JobSteps : Steps(at))
  BY DEF Worker, PrepareStages, PrepareJournals, PrepareChecks, WriteBlock, WriteCounts, CommitVerifies, CommitRechecks,
         CommitRenames, CommitSaves, CancelRemoves, JobReplies, JobSteps
<1> QED  BY <1>1, <1>2, StepsMeans

(* Each command keeps to the version that the item was listed with; only the rename publishes. *)
LEMMA CommitKeptByWorker ==
  ASSUME TypeOK, EngineInv, StageInv, CommitInv, Worker
  PROVE  CommitInv'
<1>0. /\ item \in ItemType /\ st \in StageRecord /\ UNCHANGED <<task, item, pc>> /\ Busy /\ job'.cmd = job.cmd /\ hist \in HistType
  BY TypeMeans, WorkerMeans, StageMeans DEF client
<1>n. ~NoStage.digest /\ ~Bare.digest /\ ~Begun.digest
  BY DEF NoStage, Bare, Begun
<1>i. item.prepared /\ (st.at # "ready" => ~st.digest /\ ~st.has) /\ (~st.has => st.data = <<>>)
  BY <1>0, StageMeans, TypeMeans DEF EngineInv, StageInv, st
<1>w. Whole(item.src) # <<>>
  BY <1>0, WholeMeans DEF ItemType
<1>e. /\ job.cmd = "cancel" => Doomed
      /\ pc \in {"preparing", "committing"} => ~Doomed
      /\ pc = "preparing" => job.cmd = "prepare"
      /\ pc = "committing" => job.cmd = "commit"
      /\ pc = "writing" => job.cmd = "write"
      /\ Doomed' = Doomed
      /\ job'.at # "done" => job'.reply = job.reply
  BY <1>0, ReplyComesLast DEF EngineInv, Doomed, Uploads, Waits, CommandAt
<1>1. CASE PrepareStages
  BY <1>0, <1>n, <1>i, <1>w, <1>e, <1>1, WorkerDoes DEF Busy, Answers, StageRecord, Emptied, CommitInv, IsPublished, Published, HistType
<1>2. CASE PrepareJournals
  BY <1>0, <1>n, <1>i, <1>w, <1>e, <1>2, WorkerDoes DEF Busy, Answers, StageRecord, Emptied, CommitInv, IsPublished, Published, HistType
<1>3. CASE PrepareChecks
  BY <1>0, <1>n, <1>i, <1>w, <1>e, <1>3, WorkerDoes DEF Busy, Answers, StageRecord, Emptied, CommitInv, IsPublished, Published, HistType
<1>4. CASE WriteBlock
  BY <1>0, <1>n, <1>i, <1>w, <1>e, <1>4, WorkerDoes DEF Busy, Answers, StageRecord, Emptied, CommitInv, IsPublished, Published, HistType
<1>5. CASE WriteCounts
  BY <1>0, <1>n, <1>i, <1>w, <1>e, <1>5, WorkerDoes DEF Busy, Answers, StageRecord, Emptied, CommitInv, IsPublished, Published, HistType
<1>6. CASE CommitVerifies
  BY <1>0, <1>n, <1>i, <1>w, <1>e, <1>6, WorkerDoes DEF Busy, Answers, StageRecord, Emptied, CommitInv, IsPublished, Published, HistType
<1>7. CASE CommitRechecks
  BY <1>0, <1>n, <1>i, <1>w, <1>e, <1>7, WorkerDoes DEF Busy, Answers, StageRecord, Emptied, CommitInv, IsPublished, Published, HistType
<1>8. CASE CommitRenames
  <2>1. CASE st' = st /\ Answers("failed") /\ UNCHANGED <<dest, hist>>
    BY <1>0, <1>e, <2>1 DEF Busy, Answers, CommitInv, IsPublished
  <2>2. CASE job.at = "rename" /\ job.cmd = "commit" /\ job'.at = "save" /\ st' = Emptied(st)
             /\ hist' = [hist EXCEPT !.published = @ \cup {[tok |-> item.tok, src |-> st.src]}]
    <3>1. st.src = item.src /\ st'.src = st.src /\ st'.exp = st.exp
      BY <1>0, <2>2 DEF Busy, CommitInv, Emptied, StageRecord
    <3>2. IsPublished' /\ hist.published \subseteq hist'.published
      BY <1>0, <2>2, <3>1 DEF IsPublished, HistType
    <3> QED  BY <1>0, <1>e, <2>2, <3>1, <3>2 DEF Busy, CommitInv, IsPublished
  <2> QED  BY <1>8, <2>1, <2>2, WorkerDoes
<1>9. CASE CommitSaves
  BY <1>0, <1>n, <1>i, <1>w, <1>e, <1>9, WorkerDoes DEF Busy, Answers, StageRecord, Emptied, CommitInv, IsPublished, Published, HistType
<1>10. CASE CancelRemoves
  BY <1>0, <1>n, <1>i, <1>w, <1>e, <1>10, WorkerDoes DEF Busy, Answers, StageRecord, Emptied, CommitInv, IsPublished, Published, HistType
<1> QED
  BY <1>1, <1>2, <1>3, <1>4, <1>5, <1>6, <1>7, <1>8, <1>9, <1>10 DEF Worker

LEMMA CommitKept ==
  ASSUME TypeOK, EngineInv, StageInv, CommitInv, Next, TypeOK', EngineInv', StageInv'
  PROVE  CommitInv'
<1>0. task \in TaskType /\ item \in ItemType /\ pc \in Places /\ job \in JobType /\ dest \in DestType /\ stage \in StageType
  BY TypeMeans
<1>c. {"prepare", "write", "commit", "cancel"} \subseteq Commands /\ {"restaging", "preparing", "writing", "committing", "cleaning", "mending", "clearing"} \subseteq Places
  BY DEF Commands, Places
<1>t. st.at # "ready" => ~st.digest
  BY <1>0, StageMeans DEF StageInv, st
<1>s. UNCHANGED <<stage, item.tok>> => st' = st
  BY DEF st
<1>1. CASE Worker
  BY <1>1, CommitKeptByWorker
<1>2. CASE OthersEdit
  <2>1. UNCHANGED <<task, item, pc, job, stage>> /\ hist'.published = hist.published
    BY <1>2, OthersWrite DEF client
  <2> QED  BY <2>1, <1>s DEF CommitInv, IsPublished, Doomed, Busy, Waits
<1>3. CASE Scan
  BY <1>0, <1>c, <1>s, <1>t, <1>3, HistKept DEF Engine, Scan, Alone, disk, Answered, EngineInv, StageInv, CommitInv, IsPublished, Doomed, Waits, Uploads, Restages, CommandAt, Busy, Stops, TaskType, ItemType
<1>4. CASE RestageCancels
  BY <1>0, <1>c, <1>s, <1>t, <1>4, AsksMeans, HistKept DEF Engine, RestageCancels, Alone, disk, Answered, EngineInv, StageInv, CommitInv, IsPublished, Doomed, Waits, Uploads, Restages, CommandAt, Busy
<1>5. CASE Renew
  <2>1. UNCHANGED job /\ pc' = "choose" /\ ~Busy
    BY <1>0, <1>5 DEF Renew, Answered, EngineInv, Busy
  <2>2. st'.at = "none" /\ ~st'.digest
    <3>1. item'.tok \in Tokens /\ item'.tok = item.tok + 1 /\ stage' = stage /\ item.tok \in Nat
      <4>1. item'.tok \in Tokens
        BY DEF TypeOK
      <4>2. item.tok \in Nat
        BY <1>0, Bounds DEF ItemType, Tokens
      <4> QED  BY <1>0, <1>5, <4>1, <4>2 DEF Renew, Alone, disk, ItemType
    <3> QED  BY <3>1 DEF StageInv, st
  <2> QED  BY <2>1, <2>2 DEF CommitInv, Busy, Waits, CommandAt
<1>6. CASE Choose
  <2>0. UNCHANGED <<job, stage>> /\ pc = "choose" /\ pc' \in {"idle", "clean", "prepare"} /\ hist'.published = hist.published
    BY <1>0, <1>6, ConflictsMeans, HistKept DEF Choose, disk, Engine
  <2>1. item'.tok = item.tok /\ item'.src = item.src /\ (item.prepared => item'.exp = item.exp)
        /\ (Doomed => Doomed')
    <3>1. CASE UNCHANGED <<item, task>>
      BY <3>1 DEF Doomed
    <3>2. CASE Conflicts
      BY <1>0, <3>2, ConflictsMeans DEF ItemType, Doomed
    <3>3. CASE item' = [item EXCEPT !.skipped = TRUE, !.done = TRUE] /\ task' = [task EXCEPT !.conflict = 0]
      BY <1>0, <3>3 DEF ItemType, TaskType, Doomed
    <3>4. CASE (\E n \in Names : item' = [item EXCEPT !.prepared = TRUE, !.exp = dest[n].id, !.name = n]) /\ ~item.prepared /\ UNCHANGED task
      BY <1>0, <3>4 DEF ItemType, Doomed
    <3>5. item.name \in Names
      BY <1>0 DEF ItemType
    <3> QED  BY <1>6, <3>1, <3>2, <3>3, <3>4, <3>5 DEF Choose
  <2>2. ~Waits' /\ (Busy => item.prepared) /\ (Busy' = Busy) /\ st' = st
    BY <1>s, <2>0, <2>1 DEF Waits, CommandAt, EngineInv, Busy
  <2> QED  BY <2>0, <2>1, <2>2 DEF CommitInv, IsPublished, Busy
<1>7. CASE Prepare
  BY ZenonT(60), <1>0, <1>c, <1>s, <1>t, <1>7, AsksMeans, HistKept DEF Engine, Prepare, Alone, disk, Answered, EngineInv, StageInv, CommitInv, IsPublished, Doomed, Waits, Uploads, Restages, CommandAt, Busy
<1>8. CASE Copy
  BY <1>0, <1>c, <1>s, <1>t, <1>8, AsksMeans, StopsMeans, HistKept DEF Engine, Copy, Alone, disk, Answered, EngineInv, StageInv, CommitInv, IsPublished, Doomed, Waits, Uploads, Restages, CommandAt, Busy
<1>9. CASE Commit
  BY <1>0, <1>c, <1>s, <1>t, <1>9, AsksMeans, StopsMeans, HistKept DEF Engine, Commit, Alone, disk, Answered, EngineInv, StageInv, CommitInv, IsPublished, Doomed, Waits, Uploads, Restages, CommandAt, Busy
<1>10. CASE Done
  BY <1>0, <1>c, <1>s, <1>t, <1>10, HistKept DEF Engine, Done, Alone, disk, Answered, EngineInv, StageInv, CommitInv, IsPublished, Doomed, Waits, Uploads, Restages, CommandAt, Busy, Stops, TaskType, ItemType
<1>11. CASE Fails
  BY <1>0, <1>c, <1>s, <1>t, <1>11, ConflictsMeans, StopsMeans, HistKept DEF Engine, Fails, Alone, disk, Answered, EngineInv, StageInv, CommitInv, IsPublished, Doomed, Waits, Uploads, Restages, CommandAt, Busy, Stops, TaskType, ItemType
<1>12. CASE CleanMends
  BY <1>0, <1>c, <1>s, <1>t, <1>12, AsksMeans, HistKept DEF Engine, CleanMends, Alone, disk, Answered, EngineInv, StageInv, CommitInv, IsPublished, Doomed, Waits, Uploads, Restages, CommandAt, Busy
<1>13. CASE Clean
  BY ZenonT(60), <1>0, <1>c, <1>s, <1>t, <1>13, AsksMeans, HistKept DEF Engine, Clean, Alone, disk, Answered, EngineInv, StageInv, CommitInv, IsPublished, Doomed, Waits, Uploads, Restages, CommandAt, Busy
<1>14. CASE End
  BY <1>0, <1>c, <1>s, <1>t, <1>14, HistKept DEF Engine, End, Alone, disk, Answered, EngineInv, StageInv, CommitInv, IsPublished, Doomed, Waits, Uploads, Restages, CommandAt, Busy, Stops, TaskType, ItemType
<1>15. CASE Run
  BY <1>0, <1>s, <1>15, HistKept DEF Run, Alone, disk, EngineInv, StageInv, CommitInv, IsPublished, Doomed, Waits, CommandAt, Busy, TaskType, ItemType, JobType
<1>16. CASE Resolve
  <2>1. task' = task /\ pc' = pc /\ pc = "idle" /\ job' = job /\ stage' = stage /\ hist'.published = hist.published
    BY <1>0, <1>16, HistKept DEF Resolve, Alone, disk
  <2>2. item'.tok = item.tok /\ item'.src = item.src /\ item'.exp = item.exp /\ (item.prepared => item'.prepared) /\ (Doomed => Doomed')
    <3>1. PICK c \in Choices : item' = [item EXCEPT !.choice = c, !.restage = item.prepared]
      BY <1>16 DEF Resolve
    <3> QED  BY <1>0, <2>1, <3>1 DEF ItemType, Doomed, EngineInv
  <2>3. st' = st /\ Busy' = Busy /\ ~Waits /\ ~Waits'
    BY <1>s, <2>1, <2>2 DEF Busy, Waits, CommandAt
  <2> QED  BY <1>0, <2>1, <2>2, <2>3 DEF CommitInv, IsPublished, StageInv
<1>17. CASE RestartFile
  BY <1>0, <1>s, <1>17, HistKept DEF RestartFile, Alone, disk, EngineInv, StageInv, CommitInv, IsPublished, Doomed, Waits, CommandAt, Busy, TaskType, ItemType, JobType
<1>18. CASE CancelTransfer
  BY <1>0, <1>s, <1>18, HistKept DEF CancelTransfer, Alone, disk, EngineInv, StageInv, CommitInv, IsPublished, Doomed, Waits, CommandAt, Busy, TaskType, ItemType, JobType
<1>19. CASE ClientStops
  BY <1>0, <1>s, <1>19, HistKept DEF ClientStops, Alone, disk, EngineInv, StageInv, CommitInv, IsPublished, Doomed, Waits, CommandAt, Busy, TaskType, ItemType, JobType
<1>20. CASE ConnectionBreaks
  BY <1>0, <1>s, <1>20, HistKept DEF ConnectionBreaks, Alone, disk, EngineInv, StageInv, CommitInv, IsPublished, Doomed, Waits, CommandAt, Busy, TaskType, ItemType, JobType
<1>21. CASE ServerStops
  BY <1>0, <1>s, <1>21, HistKept DEF ServerStops, Alone, disk, EngineInv, StageInv, CommitInv, IsPublished, Doomed, Waits, CommandAt, Busy, TaskType, ItemType, JobType, NoJob
<1> QED
  BY <1>1, <1>2, <1>3, <1>4, <1>5, <1>6, <1>7, <1>8, <1>9, <1>10, <1>11, <1>12, <1>13, <1>14, <1>15, <1>16, <1>17, <1>18, <1>19, <1>20, <1>21
     DEF Next, Engine

-----------------------------------------------------------------------------
(* No step of the client touches an item whose command is under way. *)
LEMMA BusyItemStays ==
  ASSUME TypeOK, EngineInv, StageInv, Busy,
         Engine \/ Run \/ Resolve \/ RestartFile \/ CancelTransfer \/ ClientStops \/ ConnectionBreaks \/ ServerStops
  PROVE  item'.tok = item.tok /\ item'.name = item.name /\ item'.exp = item.exp /\ item'.prepared
         /\ job'.at \in {job.at, "done"} /\ job'.cmd \in {job.cmd, "none"}
<1>0. task \in TaskType /\ item \in ItemType /\ pc \in Places /\ job \in JobType /\ dest \in DestType
  BY TypeMeans
<1>i. item.prepared /\ pc # "renew" /\ pc # "end" /\ \A at, r : ~Answered(at, r)
  BY DEF EngineInv, StageInv, Answered
<1>c. {"prepare", "write", "commit", "cancel"} \subseteq Commands /\ {"restaging", "preparing", "writing", "committing", "cleaning", "mending", "clearing"} \subseteq Places
  BY DEF Commands, Places
<1>1. CASE Engine
  <2>1. CASE Scan
    BY <1>0, <1>i, <2>1 DEF Scan, ItemType, EngineInv
  <2>2. CASE Choose
    <3>1. UNCHANGED item \/ Conflicts
      BY <1>i, <2>2 DEF Choose
    <3> QED  BY <1>0, <1>i, <2>2, <3>1, ConflictsMeans DEF Choose, ItemType
  <2>3. CASE RestageCancels \/ Prepare \/ Clean
    <3>1. UNCHANGED item
      BY <2>3 DEF RestageCancels, Prepare, Clean
    <3>2. job' = job
      BY <1>0, <1>i, <1>c, <2>3, AsksMeans DEF RestageCancels, Prepare, Clean
    <3> QED  BY <1>i, <3>1, <3>2
  <2> QED  BY <1>1, <1>i, <2>1, <2>2, <2>3 DEF Engine, Renew, Copy, Commit, Done, Fails, CleanMends, End
<1>2. CASE Run \/ Resolve \/ RestartFile \/ CancelTransfer
  BY <1>0, <1>i, <1>2 DEF Run, Resolve, RestartFile, CancelTransfer, ItemType
<1>3. CASE ClientStops \/ ConnectionBreaks \/ ServerStops
  BY <1>0, <1>i, <1>3 DEF ClientStops, ConnectionBreaks, ServerStops, JobType, NoJob
<1> QED  BY <1>1, <1>2, <1>3

(* A command that is asked for has not looked at the destination yet. *)
LEMMA FreshJobsBegin ==
  ASSUME TypeOK, ~Busy,
         Engine \/ Run \/ Resolve \/ RestartFile \/ CancelTransfer \/ ClientStops \/ ConnectionBreaks \/ ServerStops
  PROVE  job'.at \in {"begin", "done"}
<1>0. task \in TaskType /\ job \in JobType
  BY TypeMeans
<1>1. CASE job' = job \/ \E cmd \in {"prepare", "write", "commit", "cancel"}, at \in Places : Asks(cmd, at)
  BY <1>0, <1>1, AsksMeans DEF Busy, Commands
<1>2. CASE ClientStops \/ ConnectionBreaks \/ ServerStops
  BY <1>0, <1>2 DEF ClientStops, ConnectionBreaks, ServerStops, JobType, Busy
<1>3. CASE RestageCancels \/ Prepare \/ Copy \/ Commit \/ CleanMends \/ Clean
  BY <1>1, <1>3 DEF RestageCancels, Prepare, Copy, Commit, CleanMends, Clean, Places
<1>4. CASE Scan \/ Renew \/ Choose \/ Done \/ Fails \/ End \/ Run \/ Resolve \/ RestartFile \/ CancelTransfer
  BY <1>1, <1>4 DEF Scan, Renew, Choose, Done, Fails, End, Run, Resolve, RestartFile, CancelTransfer
<1> QED  BY <1>2, <1>3, <1>4 DEF Engine

(* conflict.rs: an item names the version that it replaces, and the user has agreed to that one. *)
LEMMA ItemIsAgreed ==
  ASSUME TypeOK, AgreedInv,
         Engine \/ Run \/ Resolve \/ RestartFile \/ CancelTransfer \/ ClientStops \/ ConnectionBreaks \/ ServerStops,
         item'.prepared, item'.exp # 0
  PROVE  item'.exp \in hist'.agreed
<1>0. task \in TaskType /\ item \in ItemType /\ dest \in DestType /\ hist \in HistType /\ hist.agreed \subseteq hist'.agreed
  BY TypeMeans, HistKept
<1>1. CASE item'.prepared = item.prepared /\ item'.exp = item.exp
  BY <1>0, <1>1 DEF AgreedInv
<1>2. CASE Choose
  <2>1. CASE UNCHANGED item \/ Conflicts \/ item' = [item EXCEPT !.skipped = TRUE, !.done = TRUE]
    BY <1>0, <1>1, <2>1, ConflictsMeans DEF ItemType
  <2>2. CASE /\ \E n \in IF target # 0 /\ item.choice = "both" THEN {m \in Names : dest[m].id = 0} ELSE {item.name} :
                  item' = [item EXCEPT !.prepared = TRUE, !.exp = dest[n].id, !.name = n]
             /\ target = 0 \/ item.choice \in {"replace", "both"}
             /\ hist' = [hist EXCEPT !.agreed = IF target # 0 /\ item.choice = "replace" THEN @ \cup {target} ELSE @]
    <3>1. PICK n \in IF target # 0 /\ item.choice = "both" THEN {m \in Names : dest[m].id = 0} ELSE {item.name} :
                  item' = [item EXCEPT !.prepared = TRUE, !.exp = dest[n].id, !.name = n]
      BY <2>2
    <3>2. item'.exp = dest[n].id
      BY <1>0, <3>1 DEF ItemType
    <3>3. target # 0 /\ item.choice = "replace" /\ item'.exp = target
      BY <2>2, <3>1, <3>2 DEF target
    <3> QED  BY <1>0, <2>2, <3>3 DEF HistType
  <2> QED  BY <1>2, <2>1, <2>2 DEF Choose
<1>3. CASE Fails
  BY <1>0, <1>1, <1>3, ConflictsMeans DEF Fails, ItemType
<1>4. CASE Scan \/ Renew \/ Done \/ Resolve \/ RestartFile
  BY <1>0, <1>1, <1>4 DEF Scan, Renew, Done, Resolve, RestartFile, ItemType
<1>5. CASE UNCHANGED item
  BY <1>1, <1>5
<1> QED  BY <1>2, <1>3, <1>4, <1>5 DEF Engine, RestageCancels, Prepare, Copy, Commit, CleanMends, Clean, End, Run, CancelTransfer,
            ClientStops, ConnectionBreaks, ServerStops

LEMMA AgreedKept ==
  ASSUME TypeOK, EngineInv, StageInv, CommitInv, AgreedInv, Next
  PROVE  AgreedInv'
<1>0. item \in ItemType /\ dest \in DestType /\ hist \in HistType /\ item.tok \in Tokens /\ item.name \in Names
  BY TypeMeans DEF ItemType
<1>1. CASE Worker
  <2>1. UNCHANGED item /\ job'.cmd = job.cmd
    BY <1>1, WorkerMeans DEF client
  <2>2. hist'.agreed = hist.agreed /\ hist'.late = hist.late
    <3>1. hist' = hist \/ hist' = [hist EXCEPT !.published = @ \cup {[tok |-> item.tok, src |-> st.src]}]
      BY <1>1 DEF Worker, PrepareStages, PrepareJournals, PrepareChecks, WriteBlock, WriteCounts, CommitVerifies, CommitRechecks,
                  CommitRenames, CommitSaves, CancelRemoves
    <3> QED  BY <1>0, <3>1 DEF HistType
  <2>3. job.cmd = "commit" /\ job'.at = "rename" => st' = st /\ target = st.exp /\ dest' = dest
    BY <1>1, WorkerDoes DEF Worker, Answers
  <2> QED  BY <2>1, <2>2, <2>3 DEF AgreedInv, target
<1>2. CASE OthersEdit
  <2>1. UNCHANGED <<item, job>> /\ st' = st /\ hist'.agreed = hist.agreed /\ hist.late \subseteq hist'.late
        /\ \/ UNCHANGED <<dest, hist>>
           \/ /\ dest'["other"] = dest["other"]
              /\ job.at = "rename" /\ st.exp # 0 => dest'["name"].id \in hist'.late
    BY <1>2, OthersWrite DEF client, st
  <2>2. target' = dest'[item.name].id
    BY <2>1 DEF target
  <2>3. CASE item.name = "name"
    BY <2>1, <2>2, <2>3 DEF AgreedInv, target
  <2>4. CASE item.name = "other"
    BY <2>1, <2>2, <2>4 DEF AgreedInv, target
  <2> QED  BY <1>0, <2>3, <2>4 DEF Names
<1>3. CASE Engine \/ Run \/ Resolve \/ RestartFile \/ CancelTransfer \/ ClientStops \/ ConnectionBreaks \/ ServerStops
  <2>1. UNCHANGED <<stage, dest>> /\ hist'.late = hist.late
    BY <1>3, ClientTypes, HistKept DEF disk
  <2>2. CASE Busy
    <3>1. item'.tok = item.tok /\ item'.name = item.name /\ job'.at \in {job.at, "done"} /\ job'.cmd \in {job.cmd, "none"}
      BY <1>3, <2>2, BusyItemStays
    <3>2. st' = st /\ target' = target
      BY <2>1, <3>1 DEF st, target
    <3> QED  BY <1>3, <2>1, <3>1, <3>2, ItemIsAgreed DEF AgreedInv
  <2>3. CASE ~Busy
    BY <1>3, <2>3, FreshJobsBegin, ItemIsAgreed DEF AgreedInv
  <2> QED  BY <2>2, <2>3
<1> QED  BY <1>1, <1>2, <1>3 DEF Next
-----------------------------------------------------------------------------
(* What is renamed is a verified version of the item, and it replaces what was agreed or came late. *)
LEMMA RenameMeans ==
  ASSUME TypeOK, EngineInv, StageInv, CommitInv, AgreedInv, CommitRenames, ~UNCHANGED dest
  PROVE  /\ item.tok \in Tokens /\ item.name \in Names
         /\ dest' = [dest EXCEPT ![item.name] = Copied(item.tok, Whole(item.src))]
         /\ [tok |-> item.tok, src |-> item.src] \in hist'.published /\ hist.published \subseteq hist'.published
         /\ target \in {0} \cup hist.agreed \cup hist.late
<1>0. item \in ItemType /\ hist \in HistType
  BY TypeMeans
<1>1. /\ job.cmd = "commit" /\ job.at = "rename" /\ ~(st.exp = 0 /\ target # 0)
      /\ dest' = [dest EXCEPT ![item.name] = Copied(item.tok, st.data)]
      /\ hist' = [hist EXCEPT !.published = @ \cup {[tok |-> item.tok, src |-> st.src]}]
  BY WorkerDoes
<1>2. st.src = item.src /\ st.exp = item.exp /\ st.data = Whole(item.src) /\ item.prepared
  BY <1>1 DEF CommitInv, EngineInv, Busy
<1>3. target \in {0} \cup hist.agreed \cup hist.late
  BY <1>1, <1>2 DEF AgreedInv
<1> QED  BY <1>0, <1>1, <1>2, <1>3 DEF ItemType, HistType

LEMMA WholeKept ==
  ASSUME TypeOK, EngineInv, StageInv, CommitInv, AgreedInv, WholeOrNothing, Next
  PROVE  WholeOrNothing'
<1>0. dest \in DestType /\ hist \in HistType
  BY TypeMeans
<1>1. CASE UNCHANGED dest /\ hist.published \subseteq hist'.published
  BY <1>1 DEF WholeOrNothing
<1>2. CASE CommitRenames /\ ~UNCHANGED dest
  <2>1. ASSUME NEW n \in Names
        PROVE  \/ Len(dest'[n].content) <= 1 /\ dest'[n].id <= Others
               \/ \E p \in hist'.published : dest'[n] = Copied(p.tok, Whole(p.src))
    <3> DEFINE p == [tok |-> item.tok, src |-> item.src]
    <3>1. p \in hist'.published /\ p.tok = item.tok /\ p.src = item.src /\ hist.published \subseteq hist'.published
      BY <1>2, RenameMeans
    <3>2. CASE n = item.name
      <4>1. dest'[n] = Copied(p.tok, Whole(p.src))
        BY <1>0, <1>2, <3>1, <3>2, RenameMeans DEF DestType
      <4> HIDE DEF p
      <4> QED  BY <3>1, <4>1
    <3>3. CASE n # item.name
      <4>1. dest'[n] = dest[n]
        BY <1>0, <1>2, <3>3, RenameMeans DEF DestType
      <4> QED  BY <3>1, <4>1 DEF WholeOrNothing
    <3> QED  BY <3>2, <3>3
  <2> QED  BY <2>1 DEF WholeOrNothing
<1>3. CASE OthersEdit
  <2>1. hist'.published = hist.published
        /\ \/ UNCHANGED <<dest, hist>>
           \/ dest'["other"] = dest["other"] /\ dest'["name"].id <= Others /\ Len(dest'["name"].content) <= 1
    BY <1>3, OthersWrite
  <2>2. CASE UNCHANGED <<dest, hist>>
    BY <1>1, <2>2
  <2>3. CASE dest'["other"] = dest["other"] /\ dest'["name"].id <= Others /\ Len(dest'["name"].content) <= 1
    BY <2>1, <2>3 DEF WholeOrNothing, Names
  <2> QED  BY <2>1, <2>2, <2>3
<1>4. CASE Engine \/ Run \/ Resolve \/ RestartFile \/ CancelTransfer \/ ClientStops \/ ConnectionBreaks \/ ServerStops
  BY <1>1, <1>4, ClientTypes, HistKept DEF disk
<1>5. CASE Worker
  <2>1. hist.published \subseteq hist'.published
    <3>1. hist' = hist \/ hist' = [hist EXCEPT !.published = @ \cup {[tok |-> item.tok, src |-> st.src]}]
      BY <1>5 DEF Worker, PrepareStages, PrepareJournals, PrepareChecks, WriteBlock, WriteCounts, CommitVerifies, CommitRechecks,
                  CommitRenames, CommitSaves, CancelRemoves
    <3> QED  BY <1>0, <3>1 DEF HistType
  <2>2. CommitRenames \/ UNCHANGED dest
    BY <1>5 DEF Worker, PrepareStages, PrepareJournals, PrepareChecks, WriteBlock, WriteCounts, CommitVerifies, CommitRechecks,
                CommitSaves, CancelRemoves, disk
  <2> QED  BY <1>1, <1>2, <2>1, <2>2
<1> QED  BY <1>3, <1>4, <1>5 DEF Next

LEMMA DoneKept ==
  ASSUME TypeOK, EngineInv, StageInv, CommitInv, DoneIsPublished, Next
  PROVE  DoneIsPublished'
<1>0. task \in TaskType /\ item \in ItemType /\ dest \in DestType /\ hist \in HistType
  BY TypeMeans
<1>1. CASE Worker
  <2>1. hist.published \subseteq hist'.published
    <3>1. hist' = hist \/ hist' = [hist EXCEPT !.published = @ \cup {[tok |-> item.tok, src |-> st.src]}]
      BY <1>1 DEF Worker, PrepareStages, PrepareJournals, PrepareChecks, WriteBlock, WriteCounts, CommitVerifies, CommitRechecks,
                  CommitRenames, CommitSaves, CancelRemoves
    <3> QED  BY <1>0, <3>1 DEF HistType
  <2> QED  BY <1>1, <2>1, WorkerMeans DEF client, DoneIsPublished
<1>2. CASE OthersEdit
  BY <1>2, OthersWrite DEF client, DoneIsPublished
<1>3. CASE Engine \/ Run \/ Resolve \/ RestartFile \/ CancelTransfer \/ ClientStops \/ ConnectionBreaks \/ ServerStops
  <2>0. hist'.published = hist.published
    BY <1>3, HistKept
  <2>1. CASE item'.done = item.done /\ item'.skipped = item.skipped /\ item'.tok = item.tok /\ item'.src = item.src
    BY <2>0, <2>1 DEF DoneIsPublished
  <2>2. CASE Scan
    BY <1>0, <2>0, <2>1, <2>2 DEF Scan, ItemType, EngineInv, DoneIsPublished
  <2>3. CASE Renew
    BY <1>0, <2>3 DEF Renew, Answered, ItemType, EngineInv, Restages, DoneIsPublished
  <2>4. CASE Choose
    <3>1. CASE item' = [item EXCEPT !.skipped = TRUE, !.done = TRUE]
      BY <1>0, <3>1 DEF ItemType, DoneIsPublished
    <3>2. CASE UNCHANGED item \/ Conflicts \/ \E n \in Names : item' = [item EXCEPT !.prepared = TRUE, !.exp = dest[n].id, !.name = n]
      BY <1>0, <2>1, <3>2, ConflictsMeans DEF ItemType
    <3>3. item.name \in Names
      BY <1>0 DEF ItemType
    <3> QED  BY <2>4, <3>1, <3>2, <3>3 DEF Choose
  <2>5. CASE Done
    <3>1. [tok |-> item.tok, src |-> item.src] \in hist.published
      BY <2>5 DEF Done, Answered, CommitInv, IsPublished
    <3> QED  BY <1>0, <2>0, <2>5, <3>1 DEF Done, ItemType, DoneIsPublished
  <2>6. CASE Fails
    BY <1>0, <2>1, <2>6, ConflictsMeans DEF Fails, ItemType
  <2>7. CASE Resolve \/ RestartFile
    BY <1>0, <2>1, <2>7 DEF Resolve, RestartFile, ItemType
  <2>8. CASE UNCHANGED item
    BY <2>1, <2>8
  <2> QED  BY <1>3, <2>2, <2>3, <2>4, <2>5, <2>6, <2>7, <2>8
           DEF Engine, RestageCancels, Prepare, Copy, Commit, CleanMends, Clean, End, Run, CancelTransfer, ClientStops, ConnectionBreaks, ServerStops
<1> QED  BY <1>1, <1>2, <1>3 DEF Next

-----------------------------------------------------------------------------
LEMMA TransferStutters == TransferInv /\ UNCHANGED vars => TransferInv'
<1> SUFFICES ASSUME TransferInv, UNCHANGED vars PROVE TransferInv'
  OBVIOUS
<1>0. UNCHANGED <<task, item, pc, job, stage, source, dest, edits, faults, hist>> /\ st' = st /\ target' = target
  BY DEF vars, st, target
<1>1. TypeOK'
  BY SMTT(60), <1>0 DEF TransferInv, TypeOK
<1>2. EngineInv'
  BY <1>0 DEF TransferInv, EngineInv, Waits, Uploads, Restages, Cleans, Doomed, Busy
<1>3. StageInv'
  BY <1>0 DEF TransferInv, StageInv, Waits, Busy
<1>4. CommitInv'
  BY <1>0 DEF TransferInv, CommitInv, Waits, Busy, Doomed, IsPublished
<1>5. AgreedInv' /\ UploadIsWhole'
  BY <1>0 DEF TransferInv, AgreedInv, UploadIsWhole, WholeOrNothing, DoneIsPublished
<1> QED  BY <1>1, <1>2, <1>3, <1>4, <1>5 DEF TransferInv

LEMMA TransferKept == TransferInv /\ [Next]_vars => TransferInv'
<1>1. ASSUME TransferInv, Next PROVE TransferInv'
  <2>1. TypeOK'
    BY <1>1, TypeKept DEF TransferInv
  <2>2. EngineInv'
    BY <1>1, EngineKept DEF TransferInv
  <2>3. StageInv'
    BY <1>1, <2>1, StageKept DEF TransferInv
  <2>4. CommitInv'
    BY <1>1, <2>1, <2>2, <2>3, CommitKept DEF TransferInv
  <2>5. AgreedInv'
    BY <1>1, AgreedKept DEF TransferInv
  <2>6. UploadIsWhole'
    BY <1>1, WholeKept, DoneKept DEF TransferInv, UploadIsWhole
  <2> QED  BY <2>1, <2>2, <2>3, <2>4, <2>5, <2>6 DEF TransferInv
<1> QED  BY <1>1, TransferStutters

(* engine.rs, staging.rs: the rows of the client, the command under way, the staging directories and
   the destination agree in every state, whatever breaks and in whichever step. *)
THEOREM TransferHolds == Spec => []TransferInv
<1>1. Init => TransferInv
  BY TransferInitially
<1>2. TransferInv /\ [Next]_vars => TransferInv'
  BY TransferKept
<1> QED  BY <1>1, <1>2, PTL DEF Spec

(* Each row, command, journal and file keeps its type; the checkpoint never exceeds the file. *)
THEOREM TransferTypes == Spec => []TypeOK
<1>1. TransferInv => TypeOK
  BY DEF TransferInv
<1> QED  BY <1>1, TransferHolds, PTL

(* staging.rs, commit: the destination shows one whole version of the source or what somebody else
   wrote, and an item that copy.rs calls done was published with the version it was listed with. *)
THEOREM UploadsAreWhole == Spec => []UploadIsWhole
<1>1. TransferInv => UploadIsWhole
  BY DEF TransferInv
<1> QED  BY <1>1, TransferHolds, PTL

(* engine.rs, cleanup: a transfer ends only after the directory of its item is gone. *)
THEOREM StagesAreRemoved == Spec => []NoStageIsLeft
<1>1. TransferInv => NoStageIsLeft
  BY DEF TransferInv, StageInv, NoStageIsLeft, st
<1> QED  BY <1>1, TransferHolds, PTL

LEMMA ReplacementIsAgreed ==
  ASSUME TransferInv, [Next]_vars, NEW n \in Names, dest'[n].id > Others, dest'[n].id # dest[n].id
  PROVE  dest[n].id \in {0} \cup hist.agreed \cup hist.late
<1>i. TypeOK /\ EngineInv /\ StageInv /\ CommitInv /\ AgreedInv
  BY DEF TransferInv
<1>0. dest \in DestType /\ dest[n].id \in Nat /\ Others \in Nat
  BY <1>i, TypeMeans, Bounds DEF DestType, FileType, Others
<1>n. Next
  BY DEF vars
<1>1. CASE CommitRenames
  <2>1. dest[n].id = target
    BY <1>i, <1>0, <1>1, RenameMeans DEF DestType, target
  <2> QED  BY <1>i, <1>1, <2>1, RenameMeans
<1>2. CASE OthersEdit
  <2>1. dest'["other"] = dest["other"] /\ dest'["name"].id <= Others
    BY <1>i, <1>0, <1>2, OthersWrite
  <2>2. OthersEdit => (dest' \in DestType)
    BY <1>i, OthersWrite
  <2> QED  BY <1>0, <1>2, <2>1, <2>2 DEF Names, DestType, FileType
<1>3. CASE Engine \/ Run \/ Resolve \/ RestartFile \/ CancelTransfer \/ ClientStops \/ ConnectionBreaks \/ ServerStops
  BY <1>i, <1>3, ClientTypes DEF disk
<1>4. CASE Worker /\ ~CommitRenames
  BY <1>4 DEF Worker, PrepareStages, PrepareJournals, PrepareChecks, WriteBlock, WriteCounts, CommitVerifies, CommitRechecks,
              CommitSaves, CancelRemoves, disk
<1> QED  BY <1>n, <1>1, <1>2, <1>3, <1>4 DEF Next

(* conflict.rs and staging.rs, commit: a file of somebody else is replaced only in the version the user
   agreed to replace, or when it comes after the last look at the destination. *)
THEOREM ReplacementsAreAgreed == Spec => OnlyAgreedIsReplaced
<1> DEFINE Step == \A n \in Names : (dest'[n].id > Others /\ dest'[n].id # dest[n].id)
                     => dest[n].id \in {0} \cup hist.agreed \cup hist.late
<1>1. TransferInv /\ [Next]_vars => Step
  BY ReplacementIsAgreed
<1>2. [Step]_vars => [\A n \in Names : (dest'[n].id > Others /\ dest'[n].id # dest[n].id)
                        => dest[n].id \in {0} \cup hist.agreed \cup hist.late]_vars
  OBVIOUS
<1> HIDE DEF Step
<1>3. Spec => [][Step]_vars
  BY <1>1, TransferHolds, PTL DEF Spec
<1> QED  BY <1>2, <1>3, PTL DEF OnlyAgreedIsReplaced
=============================================================================
