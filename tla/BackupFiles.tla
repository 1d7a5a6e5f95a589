---------------------------- MODULE BackupFiles ----------------------------
(***************************************************************************)
(* The backup files, from which alone an upload is done and retried.       *)
(* Instances of one biz task, each of them started by a trigger, are       *)
(* produced by any number of calls of RunBizTask: builders (goroutines of  *)
(* produceIndexedBatches) save the files, the caller creates the rows in   *)
(* index order, and uploaders read the files the rows point to.  Big tasks *)
(* are the same with a window in place of the trigger, and minute tasks    *)
(* with one builder; their windows make the names of different instances   *)
(* differ.                                                                 *)
(*                                                                         *)
(* FSBackupStore.Save is os.WriteFile: it truncates the file and then      *)
(* writes it, so a reader may see it empty or in part, a crash leaves it   *)
(* like that, and writers of different data may mix.  The directory of the *)
(* day is left out: it only keeps apart what is saved on different days.   *)
(***************************************************************************)
EXTENDS Integers, FiniteSets

CONSTANTS
  Triggers,     \* trigger keys of one task_code
  Producers,    \* calls of RunBizTask that may run at the same time
  NoTrigger,    \* what an idle producer works on
  NumBatches,   \* CountChunks of every instance
  Parallelism,  \* productionParallelismFor: builders of a call
  Seconds,      \* the seconds triggers may come in
  NotYet        \* none of them: there is no instance row

ASSUME BackupOK ==
  /\ NoTrigger \notin Triggers
  /\ "absent" \notin Triggers
  /\ NumBatches \in Nat
  /\ Parallelism \in Nat \ {0}
  /\ NotYet \notin Seconds

Batch == 1 .. NumBatches

(* What a file holds: the data of the batch of that index of an instance   *)
(* (the data source is deterministic), or less, or a mixture.              *)
Content == Triggers \cup {"absent", "partial", "mixed"}

VARIABLES
  started,      \* instance rows: the second of started_at
  produced,     \* instance rows: total_batches is set
  row,          \* row[t][i]: "absent", "pending" or "uploaded"
  file,         \* the backup directory: from file names to contents
  pc,           \* producers: "idle", "count", "produce" or "drain"
  task,         \* producers: the instance
  next,         \* producers: the index whose row comes next, 0 when idle
  built,        \* producers: built[p][i]: "no", "writing", "disturbed" (writing,
                \* and the file was truncated meanwhile) or "saved"
  overlap       \* history: instances that two calls produced at a time

producerVars == <<pc, task, next, built>>
vars == <<started, produced, row, file, pc, task, next, built, overlap>>

-----------------------------------------------------------------------------
(* File names and rows.                                                    *)

(* defaultFileNamer: prefix, start and end, index.  Start and end of a biz *)
(* task are both started_at, printed to the second; the trigger key is in  *)
(* the NameContext, which this namer does not use.                         *)
Name(t, i) == <<started[t], i>>

SharesName(t) == \E u \in Triggers \ {t} : started[u] = started[t]

(* Mutant: the name of a batch is unique for its task only by its index.   *)
TakenByIndex(t, i) == \E u \in Triggers : row[u][i] # "absent"

(* The unique keys uk_instance_batch and uk_file_name.                     *)
Taken(t, i) ==
  \E u \in Triggers : row[u][i] # "absent" /\ (u = t \/ Name(u, i) = Name(t, i))

(* Mutant: production starts again with the last row there is.             *)
ResumeAtLast(t) ==
  LET existing == Cardinality({i \in Batch : row[t][i] # "absent"})
  IN IF existing = 0 THEN 1 ELSE existing

(* Mutant: a resumed production leaves out the index behind the last row.  *)
ResumeSkips(t) ==
  LET existing == Cardinality({i \in Batch : row[t][i] # "absent"})
  IN IF existing = 0 THEN 1 ELSE existing + 2

(* CountBatches and existingCount + 1.                                     *)
ResumeIndex(t) == Cardinality({i \in Batch : row[t][i] # "absent"}) + 1

-----------------------------------------------------------------------------
(* Production.                                                             *)

Busy(t) == \E p \in Producers : task[p] = t

(* GetOrCreateInstance in second s; the instance is produced unless it is. *)
RunBizTask(p, t, s) ==
  /\ pc[p] = "idle"
  /\ ~produced[t]
  /\ started' = [started EXCEPT ![t] = IF @ = NotYet THEN s ELSE @]
  /\ pc' = [pc EXCEPT ![p] = "count"]
  /\ task' = [task EXCEPT ![p] = t]
  /\ overlap' = IF Busy(t) THEN overlap \cup {t} ELSE overlap
  /\ UNCHANGED <<produced, row, file, next, built>>

CountBatches(p) ==
  /\ pc[p] = "count"
  /\ pc' = [pc EXCEPT ![p] = "produce"]
  /\ next' = [next EXCEPT ![p] = ResumeIndex(task[p])]
  /\ UNCHANGED <<started, produced, row, file, task, built, overlap>>

Builder(p) == {i \in Batch : built[p][i] \in {"writing", "disturbed"}}

(* The dispatcher hands out the indexes in order, and at most Parallelism  *)
(* builders are at work.  Also behind an error: builds that have not begun *)
(* find their context cancelled, which a data source may ignore.           *)
MayBuild(p, i) ==
  /\ pc[p] \in {"produce", "drain"}
  /\ i >= next[p]
  /\ built[p][i] = "no"
  /\ \A j \in Batch : next[p] <= j /\ j < i => built[p][j] # "no"
  /\ Cardinality(Builder(p)) < Parallelism

(* FetchChunk, then os.WriteFile opens the file with O_TRUNC.  What others *)
(* have written of it is gone, and they do not notice.                     *)
Truncate(p, i) ==
  /\ MayBuild(p, i)
  /\ file' = [file EXCEPT ![Name(task[p], i)] = "partial"]
  /\ built' = [q \in Producers |-> [j \in Batch |->
                 IF q = p /\ j = i THEN "writing"
                 ELSE IF j \in Builder(q) /\ Name(task[q], j) = Name(task[p], i)
                 THEN "disturbed" ELSE built[q][j]]]
  /\ UNCHANGED <<started, produced, row, pc, task, next, overlap>>

(* A part is written, over what another writer has put there meanwhile.    *)
WriteSome(p, i) ==
  /\ i \in Builder(p)
  /\ file[Name(task[p], i)] \notin {task[p], "partial"}
  /\ file' = [file EXCEPT ![Name(task[p], i)] = "mixed"]
  /\ UNCHANGED <<started, produced, row, producerVars, overlap>>

(* All is written.  What was written before a truncation by another writer *)
(* is missing, unless that one has written it by now; the tail of longer   *)
(* data of another instance may stay.                                      *)
Outcomes(p, i) ==
  LET now == file[Name(task[p], i)]
  IN {task[p]} \cup (IF now = "partial" /\ built[p][i] = "disturbed" THEN {now} ELSE {})
               \cup (IF now \in {task[p], "partial"} THEN {} ELSE {"mixed"})

Write(p, i) ==
  /\ i \in Builder(p)
  /\ \E c \in Outcomes(p, i) : file' = [file EXCEPT ![Name(task[p], i)] = c]
  /\ built' = [built EXCEPT ![p][i] = "saved"]
  /\ UNCHANGED <<started, produced, row, pc, task, next, overlap>>

(* Mutant: the row is created before its file is saved.                    *)
ReadyUnsaved(p) == next[p] \in Batch

(* pending[nextIndex] holds a result without an error.                     *)
Ready(p) == next[p] \in Batch /\ built[p][next[p]] = "saved"

(* CreateBatch: a violated unique key is ErrAlreadyExists, and production  *)
(* goes on as if the row were its own.                                     *)
CreateBatch(p) ==
  /\ pc[p] = "produce"
  /\ Ready(p)
  /\ row' = IF Taken(task[p], next[p]) THEN row
            ELSE [row EXCEPT ![task[p]][next[p]] = "pending"]
  /\ next' = [next EXCEPT ![p] = @ + 1]
  /\ UNCHANGED <<started, produced, file, pc, task, built, overlap>>

(* The call is over, or its process dies: its builders are gone with it.   *)
Leave(p) ==
  /\ pc' = [pc EXCEPT ![p] = "idle"]
  /\ task' = [task EXCEPT ![p] = NoTrigger]
  /\ next' = [next EXCEPT ![p] = 0]
  /\ built' = [built EXCEPT ![p] = [i \in Batch |-> "no"]]

(* UpdateProducedMeta.                                                     *)
UpdateProducedMeta(p) ==
  /\ pc[p] = "produce"
  /\ next[p] > NumBatches
  /\ produced' = [produced EXCEPT ![task[p]] = TRUE]
  /\ Leave(p)
  /\ UNCHANGED <<started, row, file, overlap>>

(* A build or CreateBatch fails; a file that was being written stays as it *)
(* is.  The call creates no more rows and waits for its builders.          *)
ProduceFails(p) ==
  /\ pc[p] \in {"produce", "drain"}
  /\ pc' = [pc EXCEPT ![p] = "drain"]
  /\ \/ UNCHANGED built
     \/ \E i \in Builder(p) : built' = [built EXCEPT ![p][i] = "saved"]
  /\ UNCHANGED <<started, produced, row, file, task, next, overlap>>

ReturnError(p) ==
  /\ pc[p] = "drain"
  /\ Builder(p) = {}
  /\ Leave(p)
  /\ UNCHANGED <<started, produced, row, file, overlap>>

Crash(p) ==
  /\ pc[p] # "idle"
  /\ Leave(p)
  /\ UNCHANGED <<started, produced, row, file, overlap>>

-----------------------------------------------------------------------------
(* The uploader, of which only the reading matters here: BackupStore.Read  *)
(* of the row's backup_path, Reporter.Upload of what was read, and the     *)
(* mark.  A failed upload leaves the row pending, to be read again.        *)
Upload(t, i) ==
  /\ row[t][i] = "pending"
  /\ file[Name(t, i)] # "absent"
  /\ row' = [row EXCEPT ![t][i] = "uploaded"]
  /\ UNCHANGED <<started, produced, file, producerVars, overlap>>

Init ==
  /\ started = [t \in Triggers |-> NotYet]
  /\ produced = [t \in Triggers |-> FALSE]
  /\ row = [t \in Triggers |-> [i \in Batch |-> "absent"]]
  /\ file = [n \in Seconds \X Batch |-> "absent"]
  /\ pc = [p \in Producers |-> "idle"]
  /\ task = [p \in Producers |-> NoTrigger]
  /\ next = [p \in Producers |-> 0]
  /\ built = [p \in Producers |-> [i \in Batch |-> "no"]]
  /\ overlap = {}

Produce(p) ==
  \/ CountBatches(p)
  \/ \E i \in Batch : Truncate(p, i) \/ WriteSome(p, i) \/ Write(p, i)
  \/ CreateBatch(p)
  \/ UpdateProducedMeta(p)
  \/ ProduceFails(p)
  \/ ReturnError(p)

Next ==
  \/ \E p \in Producers :
       (\E t \in Triggers : \E s \in Seconds : RunBizTask(p, t, s)) \/ Produce(p) \/ Crash(p)
  \/ \E t \in Triggers : \E i \in Batch : Upload(t, i)

Spec == Init /\ [][Next]_vars

-----------------------------------------------------------------------------
(* Properties.                                                             *)

(* Every variable keeps its type.                                          *)
TypeOK ==
  /\ started \in [Triggers -> Seconds \cup {NotYet}]
  /\ produced \in [Triggers -> BOOLEAN]
  /\ row \in [Triggers -> [Batch -> {"absent", "pending", "uploaded"}]]
  /\ file \in [Seconds \X Batch -> Content]
  /\ pc \in [Producers -> {"idle", "count", "produce", "drain"}]
  /\ task \in [Producers -> Triggers \cup {NoTrigger}]
  /\ next \in [Producers -> 0 .. NumBatches + 1]
  /\ built \in [Producers -> [Batch -> {"no", "writing", "disturbed", "saved"}]]
  /\ overlap \in SUBSET Triggers

(* README.md calls the backup files the only source of retries: a row      *)
(* always points to a file that is there.                                  *)
FileNeverMissing ==
  \A t \in Triggers : \A i \in Batch :
    row[t][i] # "absent" => file[Name(t, i)] # "absent"

(* What an upload reads now is exactly the data of the batch, although     *)
(* producers fail, die in the middle of a file and are run again.  A       *)
(* truncated file goes out only if two calls produced the instance at the  *)
(* same time or two instances share their names, and data of another       *)
(* instance only in the latter case.                                       *)
WrongDataNeedsCause ==
  \A t \in Triggers : \A i \in Batch :
    row[t][i] = "pending" =>
      \/ file[Name(t, i)] = t
      \/ SharesName(t)
      \/ file[Name(t, i)] = "partial" /\ t \in overlap

(* ErrAlreadyExists is taken for an own row.  It is one, except when       *)
(* another instance of the task was started in the same second: then an    *)
(* instance may be complete in its own eyes and lack rows.                 *)
LostNeedsSharedName ==
  \A t \in Triggers :
    produced[t] => SharesName(t) \/ \A i \in Batch : row[t][i] # "absent"
=============================================================================
