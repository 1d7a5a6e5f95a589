---------------------------- MODULE BatchUpload ----------------------------
(***************************************************************************)
(* The upload side of one big or biz task instance: Engine's               *)
(* uploadPendingBatches, run by any number of workers (goroutines of one   *)
(* or of several processes) against the rows of big_task_batch (or         *)
(* biz_task_batch) and the instance row, as the MySQL repositories         *)
(* implement them.                                                         *)
(*                                                                         *)
(* Every repository call is one SQL statement or one transaction, so it is *)
(* one action; FinalizeInstance is two statements and two actions.  The    *)
(* uploader may stop between any two of them (process crash, or an error   *)
(* of the database that makes it return).                                  *)
(***************************************************************************)
EXTENDS ClaimRows

CONSTANT FailFast   \* failureMode = UploadFailureFailFast (else Continue)

ASSUME FailFastOK == FailFast \in BOOLEAN

Verdict == {"running", "uploaded", "failed"}

Location ==
  {"idle", "count", "loop", "mark", "update", "fail",
   "failFinalize", "failWrite", "finalize", "write"}

VARIABLES
  instStatus,       \* instance row: status
  uploadedBatches,  \* instance row: uploaded_batches
  pc,               \* where the worker is in uploadPendingBatches
  todo,             \* claimed, not attempted before and not finished yet
  seen,             \* the local map `attempted'
  count,            \* the local counter `uploaded'
  found             \* what batchCounts made of the rows in FinalizeInstance

instVars == <<instStatus, uploadedBatches>>
localVars == <<pc, todo, seen, count, found>>
vars == <<status, owner, lease, retry, instStatus, uploadedBatches,
          pc, todo, seen, count, found, received, lapsed>>

-----------------------------------------------------------------------------
(* FinalizeInstance.                                                       *)

(* Mutant: one failed batch makes the instance failed.                     *)
JudgeHasty(total, uploaded, failed) ==
  CASE total = 0 \/ uploaded >= total -> "uploaded"
    [] ~(total = 0 \/ uploaded >= total) /\ failed > 0 -> "failed"
    [] OTHER -> "running"

(* The switch of FinalizeInstance over the counts of batchCounts.          *)
Judge(total, uploaded, failed) ==
  CASE total = 0 \/ uploaded >= total -> "uploaded"
    [] ~(total = 0 \/ uploaded >= total)
       /\ failed > 0 /\ uploaded + failed >= total -> "failed"
    [] OTHER -> "running"

BatchCounts ==
  [status |-> Judge(Cardinality(Present), Cardinality(Uploaded),
                    Cardinality(Failed)),
   uploaded |-> Cardinality(Uploaded)]

NothingFound == [status |-> "running", uploaded |-> 0]

-----------------------------------------------------------------------------
(* The worker's own steps.                                                 *)

Goto(w, from, to) == pc[w] = from /\ pc' = [pc EXCEPT ![w] = to]

(* uploadPendingBatches returns: its local variables are gone.             *)
Return(w) ==
  /\ pc' = [pc EXCEPT ![w] = "idle"]
  /\ todo' = [todo EXCEPT ![w] = {}]
  /\ seen' = [seen EXCEPT ![w] = {}]
  /\ count' = [count EXCEPT ![w] = 0]
  /\ found' = [found EXCEPT ![w] = NothingFound]

(* The range loop takes the claimed batches in batch_index order.          *)
Current(w, b) == b \in todo[w] /\ \A a \in todo[w] : b <= a

(* RunBigUploader / RunBizUploader, and OnStartup when nothing is left to  *)
(* produce: the instances FindRunningInstances returns.                    *)
UploadRunning(w) ==
  /\ instStatus = "running"
  /\ Goto(w, "idle", "count")
  /\ UNCHANGED <<rowVars, instVars, todo, seen, count, found, histVars>>

(* RunBigTask / RunBizTask on an instance whose batches are produced: they *)
(* upload whatever the status of the instance is.                          *)
RunTask(w) ==
  /\ Goto(w, "idle", "count")
  /\ UNCHANGED <<rowVars, instVars, todo, seen, count, found, histVars>>

(* Mutant: the counter starts from all rows of the instance.               *)
CountEverything(w) ==
  /\ Goto(w, "count", "loop")
  /\ count' = [count EXCEPT ![w] = Cardinality(Present)]
  /\ UNCHANGED <<rowVars, instVars, todo, seen, found, histVars>>

CountUploaded(w) ==
  /\ Goto(w, "count", "loop")
  /\ count' = [count EXCEPT ![w] = Cardinality(Uploaded)]
  /\ UNCHANGED <<rowVars, instVars, todo, seen, found, histVars>>

(* queryLimit: Continue makes room for the batches attempted before.       *)
QueryLimit(w) == PendingLimit + (IF FailFast THEN 0 ELSE Cardinality(seen[w]))

Claimed(w) == Lowest(Claimable(MaxRetry), QueryLimit(w))

(* Batches this run attempted before are claimed too and then skipped.     *)
Fresh(w) == Claimed(w) \ seen[w]

(* Mutant: the loop goes on as long as it can claim anything.              *)
LoopEndsWithoutClaim(w) == Claimed(w) = {}

(* len(batches) == 0 or processed == 0.                                    *)
LoopEnds(w) == Fresh(w) = {}

(* ClaimPendingBatches.                                                    *)
ClaimPending(w) ==
  /\ todo[w] = {}
  /\ Goto(w, "loop", IF LoopEnds(w) THEN "finalize" ELSE "loop")
  /\ Claim(w, Claimed(w))
  /\ todo' = [todo EXCEPT ![w] = Fresh(w)]
  /\ UNCHANGED <<instVars, seen, count, found, histVars>>

(* Backup read, BeforeUpload and Reporter.Upload succeed.                  *)
Deliver(w, b) ==
  /\ Current(w, b)
  /\ Goto(w, "loop", "mark")
  /\ seen' = [seen EXCEPT ![w] = @ \cup {b}]
  /\ Receive(b)
  /\ UNCHANGED <<rowVars, instVars, todo, count, found, lapsed>>

(* One of them fails.  Reporter.Upload may report an error although the    *)
(* remote side has the file (a lost acknowledgement).                      *)
UploadFails(w, b) ==
  /\ Current(w, b)
  /\ Goto(w, "loop", "fail")
  /\ seen' = [seen EXCEPT ![w] = @ \cup {b}]
  /\ Receive(b) \/ UNCHANGED received
  /\ UNCHANGED <<rowVars, instVars, todo, count, found, lapsed>>

(* MarkBatchUploaded: zero rows affected means the claim was lost, and     *)
(* uploadPendingBatches returns that error at once.                        *)
MarkUploaded(w, b) ==
  /\ pc[w] = "mark"
  /\ Current(w, b)
  /\ \/ /\ Holds(w, b)
        /\ SetUploaded(b)
        /\ count' = [count EXCEPT ![w] = @ + 1]
        /\ todo' = [todo EXCEPT ![w] = @ \ {b}]
        /\ pc' = [pc EXCEPT ![w] = "update"]
        /\ UNCHANGED <<seen, found>>
     \/ ~Holds(w, b) /\ Return(w) /\ UNCHANGED rowVars
  /\ UNCHANGED <<instVars, histVars>>

(* UpdateUploadedBatches writes the worker's own counter.                  *)
UpdateUploaded(w) ==
  /\ Goto(w, "update", "loop")
  /\ uploadedBatches' = count[w]
  /\ UNCHANGED <<rowVars, instStatus, todo, seen, count, found, histVars>>

(* handleBatchErr: MarkBatchRetryOrFailed.                                 *)
MarkRetryOrFailed(w, b) ==
  /\ pc[w] = "fail"
  /\ Current(w, b)
  /\ \/ /\ Holds(w, b)
        /\ SetRetryOrFailed(b, MaxRetry)
        /\ todo' = [todo EXCEPT ![w] = @ \ {b}]
        /\ pc' = [pc EXCEPT ![w] = "failFinalize"]
        /\ UNCHANGED <<seen, count, found>>
     \/ ~Holds(w, b) /\ Return(w) /\ UNCHANGED rowVars
  /\ UNCHANGED <<instVars, histVars>>

(* FinalizeInstance, first statement: batchCounts.                         *)
FinalizeRead(w) ==
  /\ \/ Goto(w, "finalize", "write")
     \/ Goto(w, "failFinalize", "failWrite")
  /\ found' = [found EXCEPT ![w] = BatchCounts]
  /\ UNCHANGED <<rowVars, instVars, todo, seen, count, histVars>>

(* FinalizeInstance, second statement.  After a failed batch, Continue     *)
(* goes on with the next batch; otherwise the run is over.                 *)
FinalizeWrite(w) ==
  /\ pc[w] \in {"write", "failWrite"}
  /\ instStatus' = found[w].status
  /\ uploadedBatches' = found[w].uploaded
  /\ IF pc[w] = "failWrite" /\ ~FailFast
     THEN /\ pc' = [pc EXCEPT ![w] = "loop"]
          /\ found' = [found EXCEPT ![w] = NothingFound]
          /\ UNCHANGED <<todo, seen, count>>
     ELSE Return(w)
  /\ UNCHANGED <<rowVars, histVars>>

(* The worker stops where it is: its process dies, or a repository call    *)
(* returns an error, before or after it took effect.                       *)
Crash(w) ==
  /\ pc[w] # "idle"
  /\ Return(w)
  /\ UNCHANGED <<rowVars, instVars, histVars>>

ExpireLease(b) == LeaseEnds(b) /\ UNCHANGED <<instVars, localVars>>

-----------------------------------------------------------------------------
(* The instance row is new and every batch row is s.                       *)
InitWith(s) ==
  /\ RowsInit(s)
  /\ instStatus = "running"
  /\ uploadedBatches = 0
  /\ pc = [w \in Workers |-> "idle"]
  /\ todo = [w \in Workers |-> {}]
  /\ seen = [w \in Workers |-> {}]
  /\ count = [w \in Workers |-> 0]
  /\ found = [w \in Workers |-> NothingFound]

(* BatchUpload alone starts behind the production.                         *)
Init == InitWith("pending")

(* What a worker does by itself once it was started.                       *)
UploadStep(w) ==
  \/ CountUploaded(w)
  \/ ClaimPending(w)
  \/ \E b \in Batch : Deliver(w, b) \/ UploadFails(w, b)
  \/ \E b \in Batch : MarkUploaded(w, b) \/ MarkRetryOrFailed(w, b)
  \/ UpdateUploaded(w)
  \/ FinalizeRead(w)
  \/ FinalizeWrite(w)

Next ==
  \/ \E w \in Workers : UploadRunning(w) \/ RunTask(w) \/ UploadStep(w) \/ Crash(w)
  \/ \E b \in Batch : ExpireLease(b)

Spec == Init /\ [][Next]_vars

-----------------------------------------------------------------------------
(* Properties.                                                             *)

(* Every variable keeps its type.                                          *)
TypeOK ==
  /\ status \in [Batch -> RowStatus]
  /\ owner \in [Batch -> Workers \cup {NoWorker}]
  /\ lease \in [Batch -> Lease]
  /\ retry \in [Batch -> 0 .. Attempts]
  /\ instStatus \in Verdict
  /\ uploadedBatches \in Nat
  /\ pc \in [Workers -> Location]
  /\ todo \in [Workers -> SUBSET Batch]
  /\ seen \in [Workers -> SUBSET Batch]
  /\ count \in [Workers -> Nat]
  /\ found \in [Workers -> [status : Verdict, uploaded : Nat]]
  /\ received \in [Batch -> 0 .. Many]
  /\ lapsed \in [Batch -> BOOLEAN]

(* The status FinalizeInstance publishes is true of the batches even when  *)
(* it is written late: "uploaded" only if every batch is uploaded,         *)
(* "failed" only if every batch is settled and one of them failed.         *)
VerdictSound ==
  /\ instStatus = "uploaded" => \A b \in Batch : status[b] = "uploaded"
  /\ instStatus = "failed" =>
       /\ \A b \in Batch : status[b] \in {"uploaded", "failed"}
       /\ \E b \in Batch : status[b] = "failed"

(* uploaded_batches, which workers overwrite with counters of their own,   *)
(* may lag behind but never claims more uploads than there are.            *)
CounterNeverOverstates == uploadedBatches <= Cardinality(Uploaded)

(* How many steps a worker has at most before it: eight for every batch it *)
(* has not attempted, and the rest of its turn.                            *)
Turn == [idle |-> 0, write |-> 1, finalize |-> 2, loop |-> 3, count |-> 5, failWrite |-> 5,
         update |-> 6, failFinalize |-> 6, mark |-> 7, fail |-> 7]

Left(w) ==
  IF pc[w] = "idle" THEN 0
  ELSE 8 * (NumBatches - Cardinality(seen[w])) + Turn[pc[w]]
       + (IF pc[w] = "loop" /\ todo[w] = {} THEN 1 ELSE 0)

Onwards(w) ==
  /\ UploadStep(w) => Left(w)' < Left(w)
  /\ pc[w] # "idle" => Left(w)' <= Left(w)

(* A call of uploadPendingBatches ends, whatever it is handed and whatever *)
(* the others do to the rows meanwhile: it claims until a claim brings it  *)
(* nothing new, and rows it attempted come back to it again and again, but *)
(* every step of its own leaves it with fewer to go, and nobody else's     *)
(* leaves it with more.                                                    *)
CallEnds == [][\A w \in Workers : Onwards(w)]_vars

(* The uploader implements Delivery: no lost claim, late mark or late      *)
(* finalisation reopens or changes a settled batch, acknowledges a batch   *)
(* the remote side does not hold, or publishes an untrue verdict.          *)
Outcome == [b \in Batch |-> IF status[b] \in {"uploaded", "failed"}
                            THEN status[b] ELSE "open"]

Reached == {b \in Batch : received[b] > 0}

Promise ==
  INSTANCE Delivery WITH outcome <- Outcome, reached <- Reached, verdict <- instStatus

ImplementsDelivery == Promise!Spec
=============================================================================
