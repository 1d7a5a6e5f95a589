---------------------------- MODULE TaskInstance ----------------------------
(***************************************************************************)
(* The whole life of one big or biz task instance: RunBigTask / RunBizTask *)
(* create its row, produce its batches and upload them; RunBigUploader /   *)
(* RunBizUploader (another cron job) upload what is there; OnStartup       *)
(* resumes it after a restart.  All of them may run at the same time, in   *)
(* one process or in several, and each may die at any step.                *)
(*                                                                         *)
(* Production creates the rows one by one in index order, whatever its     *)
(* parallelism (IndexedProduce), so a worker's production is one counter.  *)
(* Everything from countUploaded on is BatchUpload.                        *)
(***************************************************************************)
EXTENDS BatchUpload

CONSTANT Entries        \* the entry points in use

EntryPoint == {"RunTask", "RunUploader", "OnStartup"}

ASSUME EntriesOK == Entries \subseteq EntryPoint

VARIABLES
  exists,               \* the instance row has been inserted
  totalBatches,         \* instance row: total_batches
  totalRecords,         \* instance row: the batches total_records sums up
  next,                 \* the batch index a producing worker is at, or 0
  known,                \* OnStartup's copy of the instance: its TotalBatches
  resuming,             \* the worker produces on behalf of OnStartup
  summed                \* what SumBatchRecords returned, as totalRecords

metaVars == <<exists, totalBatches, totalRecords>>
produceVars == <<next, known, resuming, summed>>
taskVars == <<vars, metaVars, produceVars>>

ProduceLocation == {"countBatches", "produce", "meta", "resume"}

(* A worker at one of these has none of BatchUpload's state to change.     *)
NotUploading == <<rowVars, instVars, todo, seen, count, found, histVars>>

-----------------------------------------------------------------------------
(* Starting.                                                               *)

(* Mutant: an instance that has batches is not produced again.             *)
MustProduceOnlyFirst == totalBatches = 0 /\ Present = {}

(* inst.TotalBatches == 0.                                                 *)
MustProduce == totalBatches = 0

(* RunBigTask / RunBizTask: GetOrCreateInstance, then produce unless the   *)
(* total of the batches is known.                                          *)
Open(w) ==
  /\ "RunTask" \in Entries
  /\ exists' = TRUE
  /\ Goto(w, "idle", IF MustProduce THEN "countBatches" ELSE "count")
  /\ UNCHANGED <<NotUploading, totalBatches, totalRecords, produceVars>>

(* RunBigUploader / RunBizUploader.                                        *)
StartUploader(w) ==
  /\ "RunUploader" \in Entries
  /\ exists
  /\ UploadRunning(w)
  /\ UNCHANGED <<metaVars, produceVars>>

(* OnStartup: resumeBig / resumeBiz read the running instances ...         *)
OnStartup(w) ==
  /\ "OnStartup" \in Entries
  /\ exists
  /\ instStatus = "running"
  /\ Goto(w, "idle", "resume")
  /\ known' = [known EXCEPT ![w] = totalBatches]
  /\ UNCHANGED <<NotUploading, metaVars, next, resuming, summed>>

(* ... and produce when batches are missing, or else upload.               *)
Resume(w) ==
  LET missing == known[w] > 0 /\ Cardinality(Present) < known[w]
  IN /\ Goto(w, "resume", IF missing THEN "countBatches" ELSE "count")
     /\ resuming' = [resuming EXCEPT ![w] = missing]
     /\ known' = [known EXCEPT ![w] = 0]
     /\ UNCHANGED <<NotUploading, metaVars, next, summed>>

-----------------------------------------------------------------------------
(* produceBig / produceBiz.                                                *)

(* Mutant: the index behind the batches that exist is skipped.             *)
ResumeTooFar == Cardinality(Present) + 2

(* Mutant: right from the start, but a resumed production skips an index.  *)
ResumeSkips == IF Present = {} THEN 1 ELSE Cardinality(Present) + 2

(* existingCount + 1.                                                      *)
ResumeIndex == Cardinality(Present) + 1

(* Mutant: the loop ends before its last index.                            *)
ProducedAllButOne(w) == next[w] >= NumBatches

(* The loop over the indexes has ended.                                    *)
ProducedAll(w) == next[w] > NumBatches

(* Mutant: an upsert instead of an insert.                                 *)
Upsert(s) == "pending"

(* CreateBatch on a row in status s; "already exists" is not an error.     *)
Insert(s) == IF s = "absent" THEN "pending" ELSE s

(* CountBatches: production goes on behind the batches that exist.         *)
CountExisting(w) ==
  /\ Goto(w, "countBatches", "produce")
  /\ next' = [next EXCEPT ![w] = ResumeIndex]
  /\ UNCHANGED <<NotUploading, metaVars, known, resuming, summed>>

CreateBatch(w) ==
  /\ pc[w] = "produce"
  /\ next[w] \in Batch
  /\ status' = [status EXCEPT ![next[w]] = Insert(@)]
  /\ next' = [next EXCEPT ![w] = @ + 1]
  /\ UNCHANGED <<owner, lease, retry, instVars, localVars, histVars,
                 metaVars, known, resuming, summed>>

(* SumBatchRecords, once the last index is done.                           *)
SumRecords(w) ==
  /\ ProducedAll(w)
  /\ Goto(w, "produce", "meta")
  /\ summed' = [summed EXCEPT ![w] = Present]
  /\ next' = [next EXCEPT ![w] = 0]
  /\ UNCHANGED <<NotUploading, metaVars, known, resuming>>

(* UpdateProducedMeta; RunBigTask / RunBizTask upload next, resumeBig /    *)
(* resumeBiz return.                                                       *)
UpdateProducedMeta(w) ==
  /\ Goto(w, "meta", IF resuming[w] THEN "idle" ELSE "count")
  /\ totalBatches' = NumBatches
  /\ totalRecords' = summed[w]
  /\ summed' = [summed EXCEPT ![w] = {}]
  /\ resuming' = [resuming EXCEPT ![w] = FALSE]
  /\ UNCHANGED <<NotUploading, exists, next, known>>

(* The worker stops; what it was producing is forgotten.                   *)
Stop(w) ==
  /\ Crash(w)
  /\ next' = [next EXCEPT ![w] = 0]
  /\ known' = [known EXCEPT ![w] = 0]
  /\ resuming' = [resuming EXCEPT ![w] = FALSE]
  /\ summed' = [summed EXCEPT ![w] = {}]
  /\ UNCHANGED metaVars

-----------------------------------------------------------------------------
TaskInit ==
  /\ InitWith("absent")
  /\ exists = FALSE
  /\ totalBatches = 0
  /\ totalRecords = {}
  /\ next = [w \in Workers |-> 0]
  /\ known = [w \in Workers |-> 0]
  /\ resuming = [w \in Workers |-> FALSE]
  /\ summed = [w \in Workers |-> {}]

ProduceStep(w) ==
  \/ CountExisting(w)
  \/ CreateBatch(w)
  \/ SumRecords(w)
  \/ UpdateProducedMeta(w)

Start(w) == Open(w) \/ StartUploader(w) \/ OnStartup(w)

Go(w) ==
  \/ Resume(w)
  \/ ProduceStep(w)
  \/ UploadStep(w) /\ UNCHANGED <<metaVars, produceVars>>

TimePasses(b) == ExpireLease(b) /\ UNCHANGED <<metaVars, produceVars>>

TaskNext ==
  \/ \E w \in Workers : Start(w) \/ Go(w) \/ Stop(w)
  \/ \E b \in Batch : TimePasses(b)

TaskSpec == TaskInit /\ [][TaskNext]_taskVars

-----------------------------------------------------------------------------
(* Properties.                                                             *)

(* Every variable keeps its type; the worker's place is one of BatchUpload *)
(* or of the production.                                                   *)
TaskTypeOK ==
  /\ pc \in [Workers -> Location \cup ProduceLocation]
  /\ status \in [Batch -> RowStatus]
  /\ exists \in BOOLEAN
  /\ totalBatches \in 0 .. NumBatches
  /\ totalRecords \in SUBSET Batch
  /\ next \in [Workers -> 0 .. NumBatches + 1]
  /\ known \in [Workers -> 0 .. NumBatches]
  /\ resuming \in [Workers -> BOOLEAN]
  /\ summed \in [Workers -> SUBSET Batch]

(* produceBig resumes at CountBatches + 1.  That is right only if the rows *)
(* of an instance never have a gap, and they have none: not when producers *)
(* die half way, and not when several produce the instance at once.        *)
BatchesArePrefix == \A b \in Present : \A a \in Batch : a < b => a \in Present

(* total_batches is the mark of a complete production: once it is set,     *)
(* every batch has its row and total_records covers them all, although     *)
(* each producer sums and writes on its own.                               *)
MetaMeansProduced ==
  totalBatches > 0 => Present = Batch /\ totalRecords = Batch

(* A batch row is never deleted and a settled batch stays settled, also    *)
(* when a second producer meets the rows of the first.                     *)
RowsStay ==
  [][\A b \in Batch :
       /\ status[b] # "absent" => status'[b] # "absent"
       /\ status[b] \in {"uploaded", "failed"} => status'[b] = status[b]]_taskVars

(* The rows of the instance live the life InstanceLife tells, whichever    *)
(* entry points make and upload them at the same time and die half way:    *)
(* batches are made in order and to the end, sent only when they are made, *)
(* settled once, and an attempt that failed is never forgotten or counted  *)
(* twice.                                                                  *)
Life ==
  INSTANCE InstanceLife WITH
    made <- Cardinality(Present), complete <- totalBatches > 0,
    outcome <- Outcome, tries <- retry, reached <- Reached, MaxTries <- Attempts

ImplementsLife == Life!Spec

(* README.md: OnStartup resumes big and biz tasks where they stopped.  So  *)
(* an instance whose production was cut short is completed by the resume,  *)
(* and is not closed as uploaded while batches are missing.                *)
ClosedMeansUploaded ==
  instStatus = "uploaded" => \A b \in Batch : status[b] = "uploaded"
=============================================================================
