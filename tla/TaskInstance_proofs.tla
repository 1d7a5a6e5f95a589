------------------------- MODULE TaskInstance_proofs -------------------------
(***************************************************************************)
(* Theorems about TaskInstance, for any number of workers and batches and  *)
(* every limit.  The uploader at the heart of it is BatchUpload: read as   *)
(* idle while it starts up or produces, a worker of TaskInstance does what *)
(* a worker of BatchUpload does (UploaderSees), so that what is proved     *)
(* about the steps of the uploader holds here.  One step is not            *)
(* the uploader's: CreateBatch, which makes a row appear.                  *)
(***************************************************************************)
EXTENDS TaskInstance, FiniteSetTheorems, TLAPS

UploaderPlace == [w \in Workers |-> IF pc[w] \in ProduceLocation THEN "idle" ELSE pc[w]]

U == INSTANCE BatchUpload_proofs WITH pc <- UploaderPlace

UploaderStep == [U!Next]_(U!vars)

Types == TaskTypeOK /\ U!TypeOK /\ U!FailedWhenBudgetSpent /\ U!IdleClean

-----------------------------------------------------------------------------
(* What the uploader sees of a step.                                       *)

(* A row appears; nothing else the uploader knows of changes.              *)
RowAppears(b) ==
  /\ status[b] = "absent"
  /\ status' = [status EXCEPT ![b] = "pending"]
  /\ UNCHANGED <<owner, lease, retry, instVars, localVars, histVars>>

(* The sets of both are counted alike.                                     *)
LEMMA SameCount == \A S : U!Cardinality(S) = Cardinality(S)
BY DEF Cardinality, U!Cardinality, IsFiniteSet, U!IsFiniteSet

(* Both read the same rows.                                                *)
LEMMA SameRows ==
  /\ U!Batch = Batch /\ U!Uploaded = Uploaded /\ U!Failed = Failed /\ U!Present = Present
  /\ U!Claimable(MaxRetry) = Claimable(MaxRetry)
  /\ \A S, k : U!Lowest(S, k) = Lowest(S, k)
<1>1. U!Batch = Batch
  BY DEF Batch, U!Batch
<1>2. U!Uploaded = Uploaded /\ U!Failed = Failed /\ U!Present = Present
  BY <1>1 DEF Uploaded, U!Uploaded, Failed, U!Failed, Present, U!Present, Rows, U!Rows
<1>3. U!Claimable(MaxRetry) = Claimable(MaxRetry)
  BY <1>1 DEF Claimable, U!Claimable
<1>4. \A S, k : U!Lowest(S, k) = Lowest(S, k)
  BY SameCount DEF Lowest, U!Lowest
<1> QED
  BY <1>1, <1>2, <1>3, <1>4

(* A move between places of the uploader is its own; between the places    *)
(* of the production it sees nothing; and from there it sees a start.      *)
LEMMA PlaceMoves ==
  ASSUME TaskTypeOK, NEW w \in Workers, NEW f, NEW t, Goto(w, f, t)
  PROVE  /\ f \notin ProduceLocation /\ t \notin ProduceLocation => U!Goto(w, f, t)
         /\ f \in ProduceLocation \cup {"idle"} /\ t \in ProduceLocation \cup {"idle"}
              => UploaderPlace' = UploaderPlace
         /\ f \in ProduceLocation \cup {"idle"} /\ t \notin ProduceLocation
              => U!Goto(w, "idle", t)
BY DEF Goto, U!Goto, UploaderPlace, TaskTypeOK, ProduceLocation

LEMMA ReturnMaps ==
  ASSUME TaskTypeOK, NEW w \in Workers, Return(w)
  PROVE  U!Return(w)
BY DEF Return, U!Return, NothingFound, U!NothingFound, UploaderPlace, TaskTypeOK, ProduceLocation

(* Leaving a place the uploader takes for idle changes nothing for it.     *)
LEMMA ReturnIdle ==
  ASSUME Types, NEW w \in Workers, Return(w), pc[w] \in ProduceLocation
  PROVE  UNCHANGED <<UploaderPlace, todo, seen, count, found>>
<1>1. UploaderPlace' = UploaderPlace
  BY DEF Types, Return, UploaderPlace, TaskTypeOK, ProduceLocation
<1>2. todo[w] = {} /\ seen[w] = {} /\ count[w] = 0 /\ found[w] = NothingFound
  BY DEF Types, U!IdleClean, NothingFound, U!NothingFound, UploaderPlace
<1> QED
  BY <1>1, <1>2 DEF Return, Types, U!TypeOK

(* The steps of uploadPendingBatches are BatchUpload's.                    *)
LEMMA UploadStepMaps ==
  ASSUME TaskTypeOK, NEW w \in Workers, UploadStep(w)
  PROVE  U!UploadStep(w)
<1> USE DEF rowVars, instVars, localVars, histVars,
            U!rowVars, U!instVars, U!localVars, U!histVars
<1>1. CASE CountUploaded(w)
  <2>1. U!Goto(w, "count", "loop")
    BY <1>1, PlaceMoves DEF CountUploaded, ProduceLocation
  <2> QED
    BY <1>1, <2>1, SameRows, SameCount DEF CountUploaded, U!CountUploaded, U!UploadStep
<1>2. CASE ClaimPending(w)
  <2>1. Claimed(w) = U!Claimed(w) /\ Fresh(w) = U!Fresh(w) /\ (LoopEnds(w) <=> U!LoopEnds(w))
    <3>1. U!QueryLimit(w) = QueryLimit(w)
      BY SameCount DEF QueryLimit, U!QueryLimit
    <3>2. U!Claimed(w) = Claimed(w)
      BY <3>1, SameRows DEF Claimed, U!Claimed
    <3> QED
      BY <3>2 DEF Fresh, U!Fresh, LoopEnds, U!LoopEnds
  <2>2. Goto(w, "loop", IF LoopEnds(w) THEN "finalize" ELSE "loop")
    BY <1>2 DEF ClaimPending
  <2>3. U!Goto(w, "loop", IF LoopEnds(w) THEN "finalize" ELSE "loop")
    BY <2>2, PlaceMoves DEF ProduceLocation
  <2>4. U!ClaimPending(w)
    BY <1>2, <2>1, <2>3 DEF ClaimPending, U!ClaimPending, Claim, U!Claim, Batch, U!Batch
  <2> QED
    BY <2>4 DEF U!UploadStep
<1>3. ASSUME NEW b \in Batch, Deliver(w, b) \/ UploadFails(w, b)
      PROVE  U!UploadStep(w)
  BY <1>3, PlaceMoves DEF Deliver, UploadFails, U!Deliver, U!UploadFails, U!UploadStep,
     ProduceLocation, Current, U!Current, Receive, U!Receive, Many, U!Many, Batch, U!Batch
<1>4. ASSUME NEW b \in Batch, MarkUploaded(w, b) \/ MarkRetryOrFailed(w, b)
      PROVE  U!UploadStep(w)
  <2>1. (Holds(w, b) <=> U!Holds(w, b)) /\ (Current(w, b) <=> U!Current(w, b)) /\ b \in U!Batch
    BY DEF Holds, U!Holds, Current, U!Current, Batch, U!Batch
  <2>2. CASE Holds(w, b)
    <3>1. CASE MarkUploaded(w, b)
      <4>1. Goto(w, "mark", "update")
        BY <2>2, <3>1 DEF MarkUploaded, Goto
      <4>2. U!Goto(w, "mark", "update")
        BY <4>1, PlaceMoves DEF ProduceLocation
      <4>3. U!MarkUploaded(w, b)
        BY <2>1, <2>2, <3>1, <4>2 DEF MarkUploaded, U!MarkUploaded, SetUploaded, U!SetUploaded, U!Goto
      <4> QED
        BY <2>1, <4>3 DEF U!UploadStep
    <3>2. CASE MarkRetryOrFailed(w, b)
      <4>1. Goto(w, "fail", "failFinalize")
        BY <2>2, <3>2 DEF MarkRetryOrFailed, Goto
      <4>2. U!Goto(w, "fail", "failFinalize")
        BY <4>1, PlaceMoves DEF ProduceLocation
      <4>3. U!MarkRetryOrFailed(w, b)
        BY <2>1, <2>2, <3>2, <4>2 DEF MarkRetryOrFailed, U!MarkRetryOrFailed,
           SetRetryOrFailed, U!SetRetryOrFailed, Spent, U!Spent, U!Goto
      <4> QED
        BY <2>1, <4>3 DEF U!UploadStep
    <3> QED
      BY <1>4, <3>1, <3>2
  <2>3. CASE ~Holds(w, b)
    <3>1. U!Return(w)
      BY <1>4, <2>3, ReturnMaps DEF MarkUploaded, MarkRetryOrFailed
    <3>2. pc[w] = UploaderPlace[w]
      BY <1>4 DEF MarkUploaded, MarkRetryOrFailed, UploaderPlace, ProduceLocation
    <3>3. U!MarkUploaded(w, b) \/ U!MarkRetryOrFailed(w, b)
      BY <1>4, <2>1, <2>3, <3>1, <3>2 DEF MarkUploaded, MarkRetryOrFailed,
         U!MarkUploaded, U!MarkRetryOrFailed
    <3> QED
      BY <2>1, <3>3 DEF U!UploadStep
  <2> QED
    BY <2>2, <2>3
<1>5. CASE UpdateUploaded(w)
  BY <1>5, PlaceMoves DEF UpdateUploaded, U!UpdateUploaded, U!UploadStep, ProduceLocation
<1>6. CASE FinalizeRead(w)
  <2>1. BatchCounts = U!BatchCounts
    BY SameRows, SameCount DEF BatchCounts, U!BatchCounts, Judge, U!Judge
  <2>2. U!Goto(w, "finalize", "write") \/ U!Goto(w, "failFinalize", "failWrite")
    BY <1>6, PlaceMoves DEF FinalizeRead, ProduceLocation
  <2> QED
    BY <1>6, <2>1, <2>2 DEF FinalizeRead, U!FinalizeRead, U!UploadStep
<1>7. CASE FinalizeWrite(w)
  <2>1. pc[w] = UploaderPlace[w]
    BY <1>7 DEF FinalizeWrite, UploaderPlace, ProduceLocation
  <2>2. CASE pc[w] = "failWrite" /\ ~FailFast
    <3>1. Goto(w, "failWrite", "loop")
      BY <1>7, <2>2 DEF FinalizeWrite, Goto
    <3>2. U!Goto(w, "failWrite", "loop")
      BY <3>1, PlaceMoves DEF ProduceLocation
    <3> QED
      BY <1>7, <2>1, <2>2, <3>2 DEF FinalizeWrite, U!FinalizeWrite, U!UploadStep, U!Goto,
         NothingFound, U!NothingFound
  <2>3. CASE ~(pc[w] = "failWrite" /\ ~FailFast)
    <3>1. U!Return(w)
      BY <1>7, <2>3, ReturnMaps DEF FinalizeWrite
    <3> QED
      BY <1>7, <2>1, <2>3, <3>1 DEF FinalizeWrite, U!FinalizeWrite, U!UploadStep
  <2> QED
    BY <2>2, <2>3
<1> QED
  BY <1>1, <1>2, <1>3, <1>4, <1>5, <1>6, <1>7 DEF UploadStep

(* For the uploader every step is one of its own, or a row appears.        *)
LEMMA UploaderSees ==
  ASSUME Types, [TaskNext]_taskVars
  PROVE  UploaderStep \/ \E b \in Batch : RowAppears(b)
<1> USE DEF rowVars, instVars, localVars, histVars, NotUploading,
            U!rowVars, U!instVars, U!localVars, U!histVars
<1>0. TaskTypeOK
  BY DEF Types
<1>a. ASSUME UNCHANGED <<rowVars, instVars, todo, seen, count, found, histVars>>,
             UploaderPlace' = UploaderPlace
      PROVE  UploaderStep
  BY <1>a DEF UploaderStep, U!vars
<1>b. ASSUME NEW w \in Workers, U!Goto(w, "idle", "count"),
             UNCHANGED <<rowVars, instVars, todo, seen, count, found, histVars>>
      PROVE  UploaderStep
  BY <1>b DEF UploaderStep, U!Next, U!RunTask
<1>1. ASSUME NEW w \in Workers, Open(w) \/ Resume(w) \/ UpdateProducedMeta(w)
      PROVE  UploaderStep
  BY <1>0, <1>a, <1>b, <1>1, PlaceMoves DEF Open, Resume, UpdateProducedMeta, ProduceLocation
<1>2. ASSUME NEW w \in Workers, StartUploader(w)
      PROVE  UploaderStep
  BY <1>0, <1>b, <1>2, PlaceMoves DEF StartUploader, UploadRunning, ProduceLocation
<1>3. ASSUME NEW w \in Workers, OnStartup(w) \/ CountExisting(w) \/ SumRecords(w)
      PROVE  UploaderStep
  BY <1>0, <1>a, <1>3, PlaceMoves DEF OnStartup, CountExisting, SumRecords, ProduceLocation
<1>4. ASSUME NEW w \in Workers, CreateBatch(w)
      PROVE  UploaderStep \/ \E b \in Batch : RowAppears(b)
  <2>1. CASE status[next[w]] = "absent"
    BY <1>4, <2>1 DEF CreateBatch, Insert, RowAppears
  <2>2. CASE status[next[w]] # "absent"
    <3>1. status' = status /\ UploaderPlace' = UploaderPlace
      BY <1>0, <1>4, <2>2 DEF CreateBatch, Insert, TaskTypeOK, UploaderPlace
    <3> QED
      BY <1>a, <1>4, <3>1 DEF CreateBatch
  <2> QED
    BY <2>1, <2>2
<1>5. ASSUME NEW w \in Workers, UploadStep(w)
      PROVE  UploaderStep
  BY <1>0, <1>5, UploadStepMaps DEF UploaderStep, U!Next
<1>6. ASSUME NEW w \in Workers, Stop(w)
      PROVE  UploaderStep
  <2>1. Return(w) /\ pc[w] # "idle" /\ UNCHANGED <<rowVars, instVars, histVars>>
    BY <1>6 DEF Stop, Crash
  <2>2. CASE pc[w] \in ProduceLocation
    BY <1>a, <2>1, <2>2, ReturnIdle
  <2>3. CASE pc[w] \notin ProduceLocation
    <3>1. UploaderPlace[w] # "idle"
      BY <2>1, <2>3 DEF UploaderPlace
    <3> QED
      BY <1>0, <2>1, <3>1, ReturnMaps DEF UploaderStep, U!Next, U!Crash
  <2> QED
    BY <2>2, <2>3
<1>7. ASSUME NEW b \in Batch, TimePasses(b)
      PROVE  UploaderStep
  <2>1. UploaderPlace' = UploaderPlace
    BY <1>7 DEF TimePasses, ExpireLease, UploaderPlace
  <2>2. U!ExpireLease(b)
    BY <1>7, <2>1 DEF TimePasses, ExpireLease, U!ExpireLease, LeaseEnds, U!LeaseEnds
  <2> QED
    BY <2>2 DEF UploaderStep, U!Next, Batch, U!Batch
<1>8. CASE UNCHANGED taskVars
  BY <1>a, <1>8 DEF taskVars, vars, UploaderPlace
<1> QED
  BY <1>1, <1>2, <1>3, <1>4, <1>5, <1>6, <1>7, <1>8 DEF TaskNext, Start, Go, ProduceStep
-----------------------------------------------------------------------------
(* Types.                                                                  *)

LEMMA UploaderTypes ==
  ASSUME Types, [TaskNext]_taskVars
  PROVE  U!TypeOK' /\ U!FailedWhenBudgetSpent' /\ U!IdleClean'
<1>1. CASE UploaderStep
  BY <1>1, RowsOK, FailFastOK, U!NextType, U!NextBudget, U!IdleStays DEF Types, UploaderStep
<1>2. ASSUME NEW b \in Batch, RowAppears(b)
      PROVE  U!TypeOK' /\ U!FailedWhenBudgetSpent' /\ U!IdleClean'
  <2> USE DEF rowVars, instVars, localVars, histVars
  <2>1. UploaderPlace' = UploaderPlace
    BY <1>2 DEF RowAppears, UploaderPlace
  <2>2. U!TypeOK'
    BY <1>2, <2>1 DEF RowAppears, Types, U!TypeOK, Batch, U!Batch, U!RowStatus
  <2>3. U!FailedWhenBudgetSpent'
    BY <1>2 DEF RowAppears, Types, U!TypeOK, U!FailedWhenBudgetSpent, Batch, U!Batch,
       U!Attempts
  <2>4. U!IdleClean'
    BY <1>2, <2>1 DEF RowAppears, Types, U!IdleClean
  <2> QED
    BY <2>2, <2>3, <2>4
<1> QED
  BY <1>1, <1>2, UploaderSees

(* In one step at most one worker changes its place.                       *)
LEMMA OnePlace ==
  ASSUME TaskTypeOK, [TaskNext]_taskVars
  PROVE  \/ pc' = pc
         \/ \E w \in Workers, t \in Location \cup ProduceLocation : pc' = [pc EXCEPT ![w] = t]
<1> USE DEF rowVars, instVars, localVars, histVars, Goto, Location, ProduceLocation
<1>1. ASSUME NEW w \in Workers, Start(w)
      PROVE  \E t \in Location \cup ProduceLocation : pc' = [pc EXCEPT ![w] = t]
  BY <1>1 DEF Start, Open, StartUploader, UploadRunning, OnStartup
<1>2. ASSUME NEW w \in Workers, Resume(w) \/ CountExisting(w) \/ SumRecords(w)
                                 \/ UpdateProducedMeta(w)
      PROVE  \E t \in Location \cup ProduceLocation : pc' = [pc EXCEPT ![w] = t]
  BY <1>2 DEF Resume, CountExisting, SumRecords, UpdateProducedMeta
<1>3. ASSUME NEW w \in Workers, UploadStep(w)
      PROVE  \/ pc' = pc
             \/ \E t \in Location \cup ProduceLocation : pc' = [pc EXCEPT ![w] = t]
  <2>1. CASE CountUploaded(w) \/ ClaimPending(w) \/ UpdateUploaded(w) \/ FinalizeRead(w)
               \/ FinalizeWrite(w)
    BY <2>1 DEF CountUploaded, ClaimPending, UpdateUploaded, FinalizeRead, FinalizeWrite, Return
  <2>2. ASSUME NEW b \in Batch, Deliver(w, b) \/ UploadFails(w, b)
        PROVE  \E t \in Location \cup ProduceLocation : pc' = [pc EXCEPT ![w] = t]
    BY <2>2 DEF Deliver, UploadFails
  <2>3. ASSUME NEW b \in Batch, MarkUploaded(w, b) \/ MarkRetryOrFailed(w, b)
        PROVE  \E t \in Location \cup ProduceLocation : pc' = [pc EXCEPT ![w] = t]
    BY <2>3 DEF MarkUploaded, MarkRetryOrFailed, Return
  <2> QED
    BY <1>3, <2>1, <2>2, <2>3 DEF UploadStep
<1>4. ASSUME NEW w \in Workers, Stop(w)
      PROVE  \E t \in Location \cup ProduceLocation : pc' = [pc EXCEPT ![w] = t]
  BY <1>4 DEF Stop, Crash, Return
<1>5. ASSUME NEW w \in Workers, CreateBatch(w)
      PROVE  pc' = pc
  BY <1>5 DEF CreateBatch
<1>6. ASSUME NEW b \in Batch, TimePasses(b)
      PROVE  pc' = pc
  BY <1>6 DEF TimePasses, ExpireLease
<1>7. CASE UNCHANGED taskVars
  BY <1>7 DEF taskVars, vars
<1> QED
  BY <1>1, <1>2, <1>3, <1>4, <1>5, <1>6, <1>7 DEF TaskNext, Go, ProduceStep

(* The rows of the instance are finitely many.                             *)
LEMMA PresentBound ==
  /\ IsFiniteSet(Batch)
  /\ Cardinality(Present) \in 0 .. NumBatches
<1>1. IsFiniteSet(Batch) /\ Cardinality(Batch) = NumBatches
  BY RowsOK, FS_Interval DEF Batch
<1>2. Present \subseteq Batch
  BY DEF Present
<1>3. Cardinality(Present) \in Nat /\ Cardinality(Present) <= NumBatches
  BY <1>1, <1>2, FS_Subset, FS_CardinalityType
<1> QED
  BY <1>1, <1>3, RowsOK

(* The columns and variables of the production keep their types.           *)
LEMMA ProduceTypes ==
  ASSUME Types, [TaskNext]_taskVars
  PROVE  /\ exists' \in BOOLEAN
         /\ totalBatches' \in 0 .. NumBatches
         /\ totalRecords' \in SUBSET Batch
         /\ next' \in [Workers -> 0 .. NumBatches + 1]
         /\ known' \in [Workers -> 0 .. NumBatches]
         /\ resuming' \in [Workers -> BOOLEAN]
         /\ summed' \in [Workers -> SUBSET Batch]
<1> USE DEF Types, TaskTypeOK, metaVars, produceVars
<1>0. NumBatches \in Nat
  BY RowsOK
<1>1. ASSUME NEW w \in Workers, Open(w) \/ StartUploader(w) \/ OnStartup(w) \/ Resume(w)
      PROVE  /\ exists' \in BOOLEAN
             /\ UNCHANGED <<totalBatches, totalRecords, next, summed>>
             /\ known' \in [Workers -> 0 .. NumBatches]
             /\ resuming' \in [Workers -> BOOLEAN]
  <2>1. CASE Open(w) \/ StartUploader(w)
    BY <2>1 DEF Open, StartUploader
  <2>2. CASE OnStartup(w)
    BY <2>2 DEF OnStartup
  <2>3. CASE Resume(w)
    <3>1. \E m \in BOOLEAN : resuming' = [resuming EXCEPT ![w] = m]
      BY <2>3 DEF Resume
    <3>2. known' \in [Workers -> 0 .. NumBatches]
      BY <1>0, <2>3 DEF Resume
    <3> QED
      BY <2>3, <3>1, <3>2 DEF Resume
  <2> QED
    BY <1>1, <2>1, <2>2, <2>3
<1>2. ASSUME NEW w \in Workers, CountExisting(w)
      PROVE  next' \in [Workers -> 0 .. NumBatches + 1]
  BY <1>0, <1>2, PresentBound DEF CountExisting, ResumeIndex
<1>3. ASSUME NEW w \in Workers, CreateBatch(w)
      PROVE  next' \in [Workers -> 0 .. NumBatches + 1]
  BY <1>0, <1>3 DEF CreateBatch, Batch
<1>4. ASSUME NEW w \in Workers, SumRecords(w)
      PROVE  /\ next' \in [Workers -> 0 .. NumBatches + 1]
             /\ summed' \in [Workers -> SUBSET Batch]
  BY <1>0, <1>4 DEF SumRecords, Present
<1>5. ASSUME NEW w \in Workers, UpdateProducedMeta(w)
      PROVE  /\ totalBatches' \in 0 .. NumBatches
             /\ totalRecords' \in SUBSET Batch
             /\ resuming' \in [Workers -> BOOLEAN]
             /\ summed' \in [Workers -> SUBSET Batch]
  BY <1>0, <1>5 DEF UpdateProducedMeta
<1>6. ASSUME NEW w \in Workers, Stop(w)
      PROVE  /\ next' \in [Workers -> 0 .. NumBatches + 1]
             /\ known' \in [Workers -> 0 .. NumBatches]
             /\ resuming' \in [Workers -> BOOLEAN]
             /\ summed' \in [Workers -> SUBSET Batch]
  BY <1>0, <1>6 DEF Stop
<1>7. CASE UNCHANGED <<metaVars, produceVars>>
  BY <1>7
<1>8. ASSUME NEW w \in Workers, ProduceStep(w) \/ Stop(w)
      PROVE  /\ exists' \in BOOLEAN
             /\ totalBatches' \in 0 .. NumBatches
             /\ totalRecords' \in SUBSET Batch
             /\ next' \in [Workers -> 0 .. NumBatches + 1]
             /\ known' \in [Workers -> 0 .. NumBatches]
             /\ resuming' \in [Workers -> BOOLEAN]
             /\ summed' \in [Workers -> SUBSET Batch]
  BY <1>2, <1>3, <1>4, <1>5, <1>6, <1>8
     DEF ProduceStep, CountExisting, CreateBatch, SumRecords, UpdateProducedMeta, Stop
<1> QED
  BY <1>1, <1>7, <1>8 DEF TaskNext, Start, Go, TimePasses, taskVars

LEMMA NextTypes == Types /\ [TaskNext]_taskVars => Types'
<1> SUFFICES ASSUME Types, [TaskNext]_taskVars
             PROVE  Types'
  OBVIOUS
<1>1. U!TypeOK' /\ U!FailedWhenBudgetSpent' /\ U!IdleClean'
  BY UploaderTypes
<1>2. pc' \in [Workers -> Location \cup ProduceLocation]
  BY OnePlace DEF Types, TaskTypeOK
<1>3. status' \in [Batch -> RowStatus]
  BY <1>1 DEF U!TypeOK, U!Batch, Batch, U!RowStatus, RowStatus
<1> QED
  BY <1>1, <1>2, <1>3, ProduceTypes DEF Types, TaskTypeOK

LEMMA InitUploader == TaskInit => U!InitWith("absent")
BY DEF TaskInit, InitWith, U!InitWith, RowsInit, U!RowsInit, Batch, U!Batch, UploaderPlace,
   NothingFound, U!NothingFound, ProduceLocation

LEMMA InitTypes == TaskInit => Types
<1> SUFFICES ASSUME TaskInit
             PROVE  Types
  OBVIOUS
<1>1. TaskTypeOK
  <2>1. pc \in [Workers -> Location \cup ProduceLocation] /\ status \in [Batch -> RowStatus]
    BY DEF TaskInit, InitWith, RowsInit, RowStatus, Location
  <2>2. /\ exists \in BOOLEAN /\ totalRecords \in SUBSET Batch
        /\ resuming \in [Workers -> BOOLEAN] /\ summed \in [Workers -> SUBSET Batch]
    BY DEF TaskInit
  <2>3. /\ totalBatches \in 0 .. NumBatches /\ next \in [Workers -> 0 .. NumBatches + 1]
        /\ known \in [Workers -> 0 .. NumBatches]
    BY RowsOK DEF TaskInit
  <2> QED
    BY <2>1, <2>2, <2>3 DEF TaskTypeOK
<1>2. U!TypeOK
  <2>0. U!InitWith("absent")
    BY InitUploader
  <2>1. /\ status \in [U!Batch -> U!RowStatus] /\ lease \in [U!Batch -> U!Lease]
        /\ owner \in [U!Batch -> Workers \cup {NoWorker}] /\ lapsed \in [U!Batch -> BOOLEAN]
    BY <2>0 DEF U!InitWith, U!RowsInit, U!RowStatus, U!Lease
  <2>2. retry \in [U!Batch -> 0 .. U!Attempts] /\ received \in [U!Batch -> 0 .. U!Many]
    BY <2>0, RowsOK, FailFastOK, U!AttemptsFacts DEF U!InitWith, U!RowsInit, U!Many
  <2>3. instStatus \in U!Verdict /\ uploadedBatches \in Nat
    BY <2>0 DEF U!InitWith, U!Verdict
  <2>4. /\ UploaderPlace \in [Workers -> U!Location] /\ count \in [Workers -> Nat]
        /\ todo \in [Workers -> SUBSET U!Batch] /\ seen \in [Workers -> SUBSET U!Batch]
        /\ found \in [Workers -> [status : U!Verdict, uploaded : Nat]]
    BY <2>0 DEF U!InitWith, U!Location, U!NothingFound, U!Verdict
  <2> QED
    BY <2>1, <2>2, <2>3, <2>4 DEF U!TypeOK
<1>3. U!FailedWhenBudgetSpent
  BY RowsOK, InitUploader DEF U!InitWith, U!RowsInit, U!FailedWhenBudgetSpent, U!Attempts
<1>4. U!IdleClean
  BY InitUploader DEF U!InitWith, U!IdleClean
<1> QED
  BY <1>1, <1>2, <1>3, <1>4 DEF Types

(* Every variable keeps its type.                                          *)
THEOREM TaskTyping == TaskSpec => []TaskTypeOK
<1>1. Types => TaskTypeOK
  BY DEF Types
<1> QED
  BY <1>1, InitTypes, NextTypes, PTL DEF TaskSpec
-----------------------------------------------------------------------------
(* The rows of the instance have no gap.                                   *)

(* Rows do not disappear and settled rows stay settled.                    *)
LEMMA RowKept ==
  ASSUME Types, [TaskNext]_taskVars, NEW b \in Batch
  PROVE  /\ status[b] # "absent" => status'[b] # "absent"
         /\ status[b] \in {"uploaded", "failed"} => status'[b] = status[b]
<1>1. CASE UploaderStep
  BY <1>1, RowsOK, FailFastOK, U!SettledStays DEF Types, UploaderStep, Batch, U!Batch
<1>2. ASSUME NEW a \in Batch, RowAppears(a)
      PROVE  /\ status[b] # "absent" => status'[b] # "absent"
             /\ status[b] \in {"uploaded", "failed"} => status'[b] = status[b]
  BY <1>2 DEF RowAppears, Types, TaskTypeOK
<1> QED
  BY <1>1, <1>2, UploaderSees

(* Only CreateBatch makes a row appear, and it makes it at next.           *)
LEMMA RowMade ==
  ASSUME Types, [TaskNext]_taskVars, NEW b \in Batch, status[b] = "absent", status'[b] # "absent"
  PROVE  \E w \in Workers : CreateBatch(w) /\ next[w] = b
<1> USE DEF rowVars
<1>1. ASSUME NEW w \in Workers, CreateBatch(w)
      PROVE  next[w] = b
  BY <1>1 DEF CreateBatch, Types, TaskTypeOK
<1>2. ASSUME NEW w \in Workers, UploadStep(w)
      PROVE  FALSE
  <2>1. UploaderStep
    BY <1>2, UploadStepMaps DEF Types, UploaderStep, U!Next
  <2> QED
    BY <2>1, RowsOK, FailFastOK, U!AbsentStays DEF Types, UploaderStep, Batch, U!Batch
<1>3. ASSUME NEW w \in Workers, Start(w) \/ Resume(w) \/ CountExisting(w) \/ SumRecords(w)
                                 \/ UpdateProducedMeta(w) \/ Stop(w)
      PROVE  FALSE
  BY <1>3 DEF Start, Open, StartUploader, UploadRunning, OnStartup, Resume, CountExisting,
     SumRecords, UpdateProducedMeta, Stop, Crash, NotUploading
<1>4. ASSUME NEW a \in Batch, TimePasses(a)
      PROVE  FALSE
  BY <1>4 DEF TimePasses, ExpireLease, LeaseEnds
<1>5. ASSUME UNCHANGED taskVars
      PROVE  FALSE
  BY <1>5 DEF taskVars, vars
<1> QED
  BY <1>1, <1>2, <1>3, <1>4, <1>5 DEF TaskNext, Go, ProduceStep

(* A prefix that has k rows has the rows 1 .. k.                           *)
LEMMA PrefixIsCount ==
  ASSUME BatchesArePrefix, NEW b \in Batch
  PROVE  b \in Present <=> b <= Cardinality(Present)
<1>1. IsFiniteSet(Present) /\ Cardinality(Present) \in Nat
  BY PresentBound, FS_Subset, FS_CardinalityType DEF Present
<1>2. \A n \in Nat : IsFiniteSet(1 .. n) /\ Cardinality(1 .. n) = n
  BY FS_Interval
<1>3. ASSUME b \in Present
      PROVE  b <= Cardinality(Present)
  <2>1. 1 .. b \subseteq Present
    BY <1>3, RowsOK DEF BatchesArePrefix, Batch
  <2>2. Cardinality(1 .. b) <= Cardinality(Present)
    BY <1>1, <2>1, FS_Subset
  <2> QED
    BY <1>2, <2>2 DEF Batch
<1>4. ASSUME b \notin Present
      PROVE  Cardinality(Present) < b
  <2>1. Present \subseteq 1 .. (b - 1)
    BY <1>4, RowsOK DEF BatchesArePrefix, Batch, Present
  <2>2. b - 1 \in Nat
    BY DEF Batch
  <2>3. Cardinality(Present) <= Cardinality(1 .. (b - 1))
    BY <1>2, <2>1, <2>2, FS_Subset
  <2>4. Cardinality(1 .. (b - 1)) = b - 1
    BY <1>2, <2>2
  <2> QED
    BY <1>1, <2>2, <2>3, <2>4 DEF Batch
<1> QED
  BY <1>1, <1>3, <1>4 DEF Batch

(* How a worker comes to be, or stay, in the loop over the indexes.        *)
LEMMA ProducerMoves ==
  ASSUME TaskTypeOK, [TaskNext]_taskVars, NEW w \in Workers, pc'[w] = "produce"
  PROVE  CountExisting(w) \/ CreateBatch(w) \/ (pc[w] = "produce" /\ next'[w] = next[w])
<1> USE DEF produceVars
<1>1. ASSUME NEW v \in Workers, Start(v) \/ Resume(v) \/ SumRecords(v) \/ UpdateProducedMeta(v)
                                 \/ Stop(v)
      PROVE  pc[w] = "produce" /\ next'[w] = next[w]
  <2>1. CASE Start(v)
    BY <2>1 DEF Start, Open, StartUploader, UploadRunning, OnStartup, Goto, TaskTypeOK
  <2>2. CASE Resume(v)
    BY <2>2 DEF Resume, Goto, TaskTypeOK
  <2>3. CASE SumRecords(v)
    BY <2>3 DEF SumRecords, Goto, TaskTypeOK
  <2>4. CASE UpdateProducedMeta(v)
    BY <2>4 DEF UpdateProducedMeta, Goto, TaskTypeOK
  <2>5. CASE Stop(v)
    BY <2>5 DEF Stop, Crash, Return, TaskTypeOK
  <2> QED
    BY <1>1, <2>1, <2>2, <2>3, <2>4, <2>5
<1>2. ASSUME NEW v \in Workers, UploadStep(v)
      PROVE  pc[w] = "produce"
  <2>1. CASE CountUploaded(v) \/ UpdateUploaded(v) \/ FinalizeRead(v) \/ FinalizeWrite(v)
    BY <2>1 DEF CountUploaded, UpdateUploaded, FinalizeRead, FinalizeWrite, Goto, Return, TaskTypeOK
  <2>2. CASE ClaimPending(v)
    BY <2>2 DEF ClaimPending, Goto, TaskTypeOK
  <2>3. ASSUME NEW b \in Batch, Deliver(v, b) \/ UploadFails(v, b)
        PROVE  pc[w] = "produce"
    BY <2>3 DEF Deliver, UploadFails, Goto, TaskTypeOK
  <2>4. ASSUME NEW b \in Batch, MarkUploaded(v, b) \/ MarkRetryOrFailed(v, b)
        PROVE  pc[w] = "produce"
    BY <2>4 DEF MarkUploaded, MarkRetryOrFailed, Return, TaskTypeOK
  <2> QED
    BY <1>2, <2>1, <2>2, <2>3, <2>4 DEF UploadStep
<1>3. ASSUME NEW v \in Workers, CountExisting(v) \/ CreateBatch(v)
      PROVE  v = w \/ (pc[w] = "produce" /\ next'[w] = next[w])
  BY <1>3 DEF CountExisting, CreateBatch, Goto, localVars, TaskTypeOK
<1>4. CASE UNCHANGED taskVars
  BY <1>4 DEF taskVars, vars
<1>5. ASSUME NEW b \in Batch, TimePasses(b)
      PROVE  pc[w] = "produce" /\ next'[w] = next[w]
  BY <1>5 DEF TimePasses, ExpireLease, localVars
<1> QED
  BY <1>1, <1>2, <1>3, <1>4, <1>5 DEF TaskNext, Go, ProduceStep

(* A producing worker has every row before its index behind it.            *)
PrefixInv ==
  /\ BatchesArePrefix
  /\ \A w \in Workers : pc[w] = "produce" =>
       next[w] > 0 /\ \A a \in Batch : a < next[w] => a \in Present

LEMMA NextPrefix ==
  ASSUME Types, PrefixInv, [TaskNext]_taskVars
  PROVE  PrefixInv'
<1> USE DEF Types, TaskTypeOK
<1>1. \A b \in Batch : b \in Present => b \in Present'
  BY RowKept DEF Present
<1>2. BatchesArePrefix'
  <2> SUFFICES ASSUME NEW b \in Batch, status'[b] # "absent", NEW a \in Batch, a < b
               PROVE  a \in Present'
    BY DEF BatchesArePrefix, Present
  <2>1. CASE status[b] # "absent"
    BY <1>1, <2>1 DEF PrefixInv, BatchesArePrefix, Present
  <2>2. CASE status[b] = "absent"
    <3>1. PICK w \in Workers : CreateBatch(w) /\ next[w] = b
      BY <2>2, RowMade
    <3> QED
      BY <1>1, <3>1 DEF PrefixInv, CreateBatch
  <2> QED
    BY <2>1, <2>2
<1>3. ASSUME NEW w \in Workers, pc'[w] = "produce"
      PROVE  next'[w] > 0 /\ \A a \in Batch : a < next'[w] => a \in Present'
  <2>1. CASE pc[w] = "produce" /\ next'[w] = next[w]
    BY <1>1, <2>1 DEF PrefixInv
  <2>2. CASE CountExisting(w)
    <3>1. next'[w] = Cardinality(Present) + 1
      BY <2>2 DEF CountExisting, ResumeIndex
    <3> QED
      BY <1>1, <3>1, PresentBound, PrefixIsCount, RowsOK DEF PrefixInv, Batch
  <2>3. CASE CreateBatch(w)
    <3>1. next'[w] = next[w] + 1 /\ next[w] \in Batch /\ pc[w] = "produce"
      BY <2>3 DEF CreateBatch
    <3>2. next[w] \in Present'
      BY <2>3, <3>1 DEF CreateBatch, Insert, Present
    <3> QED
      BY <1>1, <3>1, <3>2 DEF PrefixInv, Batch
  <2>4. CountExisting(w) \/ CreateBatch(w) \/ (pc[w] = "produce" /\ next'[w] = next[w])
    BY <1>3, ProducerMoves
  <2> QED
    BY <2>1, <2>2, <2>3, <2>4
<1> QED
  BY <1>2, <1>3 DEF PrefixInv

(* The rows of an instance never have a gap, so that production may resume *)
(* at CountBatches + 1.                                                    *)
THEOREM NoGap == TaskSpec => []BatchesArePrefix
<1>1. TaskInit => PrefixInv
  BY DEF TaskInit, InitWith, RowsInit, PrefixInv, BatchesArePrefix, Present
<1>2. PrefixInv => BatchesArePrefix
  BY DEF PrefixInv
<1> QED
  BY <1>1, <1>2, InitTypes, NextTypes, NextPrefix, PTL DEF TaskSpec

(* Rows are never deleted and settled rows stay settled, also when a       *)
(* second producer meets the rows of the first.                            *)
THEOREM RowsKept == TaskSpec => RowsStay
<1>1. Types /\ [TaskNext]_taskVars =>
        [\A b \in Batch :
           /\ status[b] # "absent" => status'[b] # "absent"
           /\ status[b] \in {"uploaded", "failed"} => status'[b] = status[b]]_taskVars
  BY RowKept
<1> QED
  BY <1>1, InitTypes, NextTypes, PTL DEF TaskSpec, RowsStay
-----------------------------------------------------------------------------
(* What total_batches tells.                                               *)

(* A producer that is about to write it has seen every row.                *)
MetaInv ==
  /\ MetaMeansProduced
  /\ \A w \in Workers : pc[w] = "meta" => Present = Batch /\ summed[w] = Batch

(* How a worker comes to be, or stay, between the sum and the write.       *)
LEMMA MetaMoves ==
  ASSUME TaskTypeOK, [TaskNext]_taskVars, NEW w \in Workers, pc'[w] = "meta"
  PROVE  SumRecords(w) \/ (pc[w] = "meta" /\ summed'[w] = summed[w])
<1> USE DEF produceVars
<1>1. ASSUME NEW v \in Workers, Start(v)
      PROVE  pc[w] = "meta" /\ summed'[w] = summed[w]
  BY <1>1 DEF Start, Open, StartUploader, UploadRunning, OnStartup, Goto, TaskTypeOK
<1>2. ASSUME NEW v \in Workers, Resume(v) \/ CountExisting(v)
      PROVE  pc[w] = "meta" /\ summed'[w] = summed[w]
  BY <1>2 DEF Resume, CountExisting, Goto, TaskTypeOK
<1>3. ASSUME NEW v \in Workers, CreateBatch(v)
      PROVE  pc[w] = "meta" /\ summed'[w] = summed[w]
  BY <1>3 DEF CreateBatch, localVars
<1>4. ASSUME NEW v \in Workers, UpdateProducedMeta(v) \/ Stop(v)
      PROVE  pc[w] = "meta" /\ summed'[w] = summed[w]
  BY <1>4 DEF UpdateProducedMeta, Stop, Crash, Return, Goto, TaskTypeOK
<1>5. ASSUME NEW v \in Workers, SumRecords(v)
      PROVE  SumRecords(w) \/ (pc[w] = "meta" /\ summed'[w] = summed[w])
  BY <1>5 DEF SumRecords, Goto, TaskTypeOK
<1>6. ASSUME NEW v \in Workers, UploadStep(v), UNCHANGED produceVars
      PROVE  pc[w] = "meta" /\ summed'[w] = summed[w]
  <2>1. CASE CountUploaded(v) \/ UpdateUploaded(v) \/ FinalizeRead(v) \/ FinalizeWrite(v)
    BY <1>6, <2>1 DEF CountUploaded, UpdateUploaded, FinalizeRead, FinalizeWrite, Goto, Return,
       TaskTypeOK
  <2>2. CASE ClaimPending(v)
    BY <1>6, <2>2 DEF ClaimPending, Goto, TaskTypeOK
  <2>3. ASSUME NEW b \in Batch, Deliver(v, b) \/ UploadFails(v, b)
        PROVE  pc[w] = "meta" /\ summed'[w] = summed[w]
    BY <1>6, <2>3 DEF Deliver, UploadFails, Goto, TaskTypeOK
  <2>4. ASSUME NEW b \in Batch, MarkUploaded(v, b) \/ MarkRetryOrFailed(v, b)
        PROVE  pc[w] = "meta" /\ summed'[w] = summed[w]
    BY <1>6, <2>4 DEF MarkUploaded, MarkRetryOrFailed, Return, TaskTypeOK
  <2> QED
    BY <1>6, <2>1, <2>2, <2>3, <2>4 DEF UploadStep
<1>7. CASE UNCHANGED taskVars
  BY <1>7 DEF taskVars, vars
<1>8. ASSUME NEW b \in Batch, TimePasses(b)
      PROVE  pc[w] = "meta" /\ summed'[w] = summed[w]
  BY <1>8 DEF TimePasses, ExpireLease, localVars
<1> QED
  BY <1>1, <1>2, <1>3, <1>4, <1>5, <1>6, <1>7, <1>8 DEF TaskNext, Go, ProduceStep

(* The totals of the instance are written by UpdateProducedMeta only.      *)
LEMMA TotalsStep ==
  ASSUME [TaskNext]_taskVars
  PROVE  \/ UNCHANGED <<totalBatches, totalRecords>>
         \/ \E w \in Workers : UpdateProducedMeta(w)
BY DEF TaskNext, Start, Open, StartUploader, OnStartup, Go, Resume, ProduceStep, CountExisting,
   CreateBatch, SumRecords, Stop, TimePasses, metaVars, taskVars

LEMMA NextMeta ==
  ASSUME Types, PrefixInv, MetaInv, [TaskNext]_taskVars
  PROVE  MetaInv'
<1> USE DEF Types, TaskTypeOK
<1>1. Present = Batch => Present' = Batch
  BY RowKept DEF Present, Batch
<1>2. MetaMeansProduced'
  <2>1. CASE UNCHANGED <<totalBatches, totalRecords>>
    BY <1>1, <2>1 DEF MetaInv, MetaMeansProduced, Batch
  <2>2. ASSUME NEW w \in Workers, UpdateProducedMeta(w)
        PROVE  MetaMeansProduced'
    <3>1. pc[w] = "meta" /\ totalRecords' = summed[w]
      BY <2>2 DEF UpdateProducedMeta, Goto
    <3> QED
      BY <1>1, <3>1 DEF MetaInv, MetaMeansProduced, Batch
  <2> QED
    BY <2>1, <2>2, TotalsStep
<1>3. ASSUME NEW w \in Workers, pc'[w] = "meta"
      PROVE  Present' = Batch /\ summed'[w] = Batch
  <2>1. CASE pc[w] = "meta" /\ summed'[w] = summed[w]
    BY <1>1, <2>1 DEF MetaInv
  <2>2. CASE SumRecords(w)
    <3>1. pc[w] = "produce" /\ next[w] > NumBatches /\ summed'[w] = Present
      BY <2>2 DEF SumRecords, Goto, ProducedAll
    <3>2. \A a \in Batch : a \in Present
      BY <3>1, RowsOK DEF PrefixInv, Batch
    <3>3. Present = Batch
      BY <3>2 DEF Present
    <3> QED
      BY <1>1, <3>1, <3>3
  <2> QED
    BY <1>3, <2>1, <2>2, MetaMoves
<1> QED
  BY <1>2, <1>3 DEF MetaInv, Batch

(* Once total_batches is set every batch has its row, and total_records    *)
(* covers them all.                                                        *)
THEOREM MetaIsTrue == TaskSpec => []MetaMeansProduced
<1>1. TaskInit => PrefixInv /\ MetaInv
  BY DEF TaskInit, InitWith, RowsInit, PrefixInv, BatchesArePrefix, Present, MetaInv,
     MetaMeansProduced
<1>2. MetaInv => MetaMeansProduced
  BY DEF MetaInv
<1> QED
  BY <1>1, <1>2, InitTypes, NextTypes, NextPrefix, NextMeta, PTL DEF TaskSpec

-----------------------------------------------------------------------------
(* What the uploader promises.                                             *)

LEMMA NextUploadCount ==
  ASSUME Types, U!CounterInv, [TaskNext]_taskVars
  PROVE  U!CounterInv'
<1>1. CASE UploaderStep
  BY <1>1, RowsOK, FailFastOK, U!NextCounter DEF Types, UploaderStep
<1>2. ASSUME NEW b \in Batch, RowAppears(b)
      PROVE  U!CounterInv'
  <2>1. U!Uploaded' = U!Uploaded
    BY <1>2 DEF RowAppears, Types, TaskTypeOK, U!Uploaded, U!Rows, U!Batch, Batch
  <2>2. UNCHANGED <<count, found, uploadedBatches>>
    BY <1>2 DEF RowAppears, instVars, localVars
  <2> QED
    BY <2>1, <2>2 DEF U!CounterInv, U!CounterNeverOverstates
<1> QED
  BY <1>1, <1>2, UploaderSees

(* uploaded_batches never claims more uploads than there are, also while   *)
(* rows are still being produced.                                          *)
THEOREM CountIsSafe == TaskSpec => []CounterNeverOverstates
<1>1. TaskInit => U!CounterInv
  <2> SUFFICES ASSUME TaskInit
               PROVE  U!CounterInv
    OBVIOUS
  <2>1. U!Uploaded = {}
    BY InitUploader DEF U!InitWith, U!RowsInit, U!Uploaded, U!Rows
  <2>2. U!Cardinality(U!Uploaded) = 0
    BY <2>1, SameCount, FS_EmptySet
  <2> QED
    BY <2>2, InitUploader DEF U!InitWith, U!CounterInv, U!CounterNeverOverstates, U!NothingFound
<1>2. U!CounterInv => CounterNeverOverstates
  BY SameRows, SameCount DEF U!CounterInv, U!CounterNeverOverstates, CounterNeverOverstates
<1> QED
  BY <1>1, <1>2, InitTypes, NextTypes, NextUploadCount, PTL DEF TaskSpec

(* A row that is about to be made has not been sent by anybody.            *)
ClaimsInv ==
  /\ U!ClaimInv
  /\ \A b \in Batch : status[b] = "absent" => U!Unborn(b)

LEMMA NextClaims ==
  ASSUME Types, ClaimsInv, [TaskNext]_taskVars
  PROVE  ClaimsInv'
<1> USE DEF Types, TaskTypeOK
<1>1. CASE UploaderStep
  <2>1. U!ClaimInv'
    BY <1>1, RowsOK, FailFastOK, U!NextClaim DEF ClaimsInv, UploaderStep
  <2>2. ASSUME NEW b \in Batch, status'[b] = "absent"
        PROVE  U!Unborn(b)'
    BY <1>1, <2>2, RowsOK, FailFastOK, U!UnbornStays, RowKept DEF ClaimsInv, UploaderStep,
       Batch, U!Batch
  <2> QED
    BY <2>1, <2>2 DEF ClaimsInv, Batch
<1>2. ASSUME NEW a \in Batch, RowAppears(a)
      PROVE  ClaimsInv'
  <2>1. /\ UNCHANGED <<owner, lease, retry, todo, received, lapsed, UploaderPlace>>
        /\ \A b \in Batch : status'[b] = IF b = a THEN "pending" ELSE status[b]
        /\ received[a] = 0 /\ \A w \in Workers : a \notin todo[w]
    BY <1>2 DEF RowAppears, localVars, histVars, ClaimsInv, U!Unborn, UploaderPlace
  <2>2. U!ClaimInv'
    <3> SUFFICES ASSUME NEW b \in U!Batch, U!Quiet(b)'
                 PROVE  U!Exclusive(b)'
      BY DEF U!ClaimInv, U!Batch
    <3>1. U!Exclusive(b)
      BY <2>1 DEF ClaimsInv, U!ClaimInv, U!Quiet
    <3>2. b \in Batch
      BY DEF Batch, U!Batch
    <3> QED
      <4>1. CASE b = a
        <5>1. /\ status'[b] = "pending" /\ received'[b] = 0
              /\ \A w \in Workers : b \notin todo'[w]
          BY <2>1, <3>2, <4>1
        <5> QED
          BY <5>1 DEF U!Exclusive, U!Many
      <4>2. CASE b # a
        <5>1. /\ status'[b] = status[b] /\ received'[b] = received[b]
              /\ UNCHANGED <<lease, owner, todo, UploaderPlace>>
          BY <2>1, <3>2, <4>2
        <5> QED
          BY <3>1, <5>1 DEF U!Exclusive, U!Many, U!Holds, U!Current
      <4> QED
        BY <4>1, <4>2
  <2>3. \A b \in Batch : status'[b] = "absent" => U!Unborn(b)'
    BY <2>1 DEF ClaimsInv, U!Unborn
  <2> QED
    BY <2>2, <2>3 DEF ClaimsInv, Batch
<1> QED
  BY <1>1, <1>2, UploaderSees

(* The remote side receives a batch twice only if a lease ran out on it    *)
(* while it was claimed or an attempt was recorded as failed, although     *)
(* runs, uploaders and resumes of the task overlap.                        *)
THEOREM DuplicateHasCause == TaskSpec => []DuplicateNeedsCause
<1>1. TaskInit => ClaimsInv
  BY InitUploader DEF U!InitWith, U!RowsInit, ClaimsInv, U!ClaimInv, U!Exclusive, U!Quiet,
     U!Many, U!Unborn, Batch, U!Batch
<1>2. Types /\ ClaimsInv => DuplicateNeedsCause
  <2> SUFFICES ASSUME Types, ClaimsInv, NEW b \in Batch, received[b] = Many, ~lapsed[b]
               PROVE  retry[b] > 0
    BY DEF DuplicateNeedsCause
  <2>1. b \in U!Batch
    BY DEF Batch, U!Batch
  <2>2. retry[b] \in Nat
    BY <2>1, RowsOK, FailFastOK, U!AttemptsFacts DEF Types, U!TypeOK
  <2>3. retry[b] # 0
    BY <2>1 DEF ClaimsInv, U!ClaimInv, U!Exclusive, U!Quiet, U!Many, Many
  <2> QED
    BY <2>2, <2>3
<1> QED
  BY <1>1, <1>2, InitTypes, NextTypes, NextClaims, PTL DEF TaskSpec

-----------------------------------------------------------------------------
(* TaskInstance implements InstanceLife.                                   *)

(* A batch about to be recorded as uploaded is on the remote side, also    *)
(* when it was made a moment ago.                                          *)
LEMMA NextUploadMark ==
  ASSUME Types, U!MarkInv, [TaskNext]_taskVars
  PROVE  U!MarkInv'
<1>1. CASE UploaderStep
  BY <1>1, RowsOK, FailFastOK, U!NextMark DEF Types, UploaderStep
<1>2. ASSUME NEW b \in Batch, RowAppears(b)
      PROVE  U!MarkInv'
  BY <1>2 DEF RowAppears, localVars, histVars, U!MarkInv, U!Current, UploaderPlace, U!Batch
<1> QED
  BY <1>1, <1>2, UploaderSees

(* What all the steps keep.                                                *)
LifeInv == Types /\ PrefixInv /\ MetaInv /\ ClaimsInv /\ U!MarkInv

LEMMA LifeInvHolds == TaskSpec => []LifeInv
<1>1. TaskInit => LifeInv
  <2>1. TaskInit => Types
    BY InitTypes
  <2>2. TaskInit => PrefixInv /\ MetaInv
    BY DEF TaskInit, InitWith, RowsInit, PrefixInv, BatchesArePrefix, Present, MetaInv,
       MetaMeansProduced
  <2>3. TaskInit => ClaimsInv
    BY InitUploader DEF U!InitWith, U!RowsInit, ClaimsInv, U!ClaimInv, U!Exclusive, U!Quiet,
       U!Many, U!Unborn, Batch, U!Batch
  <2>4. TaskInit => U!MarkInv
    BY InitUploader DEF U!InitWith, U!MarkInv
  <2> QED
    BY <2>1, <2>2, <2>3, <2>4 DEF LifeInv
<1>2. LifeInv /\ [TaskNext]_taskVars => LifeInv'
  BY NextTypes, NextPrefix, NextMeta, NextClaims, NextUploadMark DEF LifeInv
<1> QED
  BY <1>1, <1>2, PTL DEF TaskSpec

(* A step of the uploader makes no batch, and it settles, counts or sends  *)
(* as InstanceLife says.                                                   *)
UploadLives ==
  /\ Present' = Present
  /\ \/ UNCHANGED <<Outcome, retry, Reached>>
     \/ \E b \in Batch :
          \/ /\ b \in Present
             /\ Reached' = Reached \cup {b} /\ UNCHANGED <<Outcome, retry>>
          \/ /\ Outcome[b] = "open" /\ b \in Reached
             /\ Outcome' = [Outcome EXCEPT ![b] = "uploaded"]
             /\ UNCHANGED <<retry, Reached>>
          \/ /\ b \in Present /\ Outcome[b] = "open"
             /\ retry' = [retry EXCEPT ![b] = @ + 1]
             /\ Outcome' = [Outcome EXCEPT ![b] = IF retry'[b] = Attempts THEN "failed"
                                                                        ELSE "open"]
             /\ Reached' = Reached

LEMMA UploadStepLives ==
  ASSUME LifeInv, LifeInv', NEW w \in Workers, UploadStep(w)
  PROVE  UploadLives
<1> USE DEF rowVars
<1>0. /\ status \in [Batch -> RowStatus] /\ retry \in [Batch -> Nat]
      /\ received \in [Batch -> 0 .. Many]
      /\ \A b \in Batch : status[b] = "failed" <=> retry[b] = Attempts
      /\ \A b \in Batch : status'[b] = "failed" <=> retry'[b] = Attempts
  <2>1. U!Attempts = Attempts /\ Attempts \in Nat
    BY RowsOK DEF U!Attempts, Attempts
  <2> QED
    BY <2>1 DEF LifeInv, Types, TaskTypeOK, U!TypeOK, U!FailedWhenBudgetSpent, Batch,
       U!Batch, Many, U!Many
<1>1. ASSUME UNCHANGED <<status, retry, received>>
      PROVE  UploadLives
  BY <1>1 DEF UploadLives, Present, Outcome, Reached
<1>2. ASSUME NEW b \in Batch, b \in todo[w], Receive(b), UNCHANGED rowVars
      PROVE  UploadLives
  <2>1. b \in Present
    BY <1>2 DEF LifeInv, ClaimsInv, U!Unborn, Present
  <2>2. Reached' = Reached \cup {b}
    BY <1>0, <1>2 DEF Reached, Receive, Many
  <2>3. UNCHANGED <<Present, Outcome, retry>>
    BY <1>2 DEF Present, Outcome
  <2> QED
    BY <2>1, <2>2, <2>3 DEF UploadLives
<1>3. ASSUME ClaimPending(w)
      PROVE  UploadLives
  <2>1. /\ status' = [b \in Batch |-> IF b \in Claimed(w) THEN "running" ELSE status[b]]
        /\ UNCHANGED <<retry, received>>
    BY <1>3 DEF ClaimPending, Claim, histVars
  <2>2. \A b \in Claimed(w) : status[b] \in {"pending", "running"}
    BY DEF Claimed, Lowest, Claimable
  <2>3. UNCHANGED <<Present, Outcome, Reached>>
    BY <1>0, <2>1, <2>2 DEF Present, Outcome, Reached
  <2> QED
    BY <2>1, <2>3 DEF UploadLives
<1>4. ASSUME NEW b \in Batch, MarkUploaded(w, b), Holds(w, b)
      PROVE  UploadLives
  <2>1. /\ status[b] = "running" /\ status' = [status EXCEPT ![b] = "uploaded"]
        /\ UNCHANGED <<retry, received>>
    BY <1>4 DEF MarkUploaded, SetUploaded, Holds, histVars
  <2>2. received[b] > 0
    BY <1>4 DEF MarkUploaded, LifeInv, U!MarkInv, Current, U!Current, Batch, U!Batch,
       UploaderPlace, ProduceLocation
  <2>3. /\ Outcome[b] = "open" /\ Outcome' = [Outcome EXCEPT ![b] = "uploaded"]
        /\ UNCHANGED <<Present, Reached>>
    BY <1>0, <2>1 DEF Outcome, Present, Reached
  <2> QED
    BY <2>1, <2>2, <2>3 DEF UploadLives, Reached
<1>5. ASSUME NEW b \in Batch, MarkRetryOrFailed(w, b), Holds(w, b)
      PROVE  UploadLives
  <2>1. /\ status[b] = "running" /\ UNCHANGED received
        /\ retry' = [retry EXCEPT ![b] = @ + 1]
        /\ \E s \in {"pending", "failed"} : status' = [status EXCEPT ![b] = s]
    BY <1>5 DEF MarkRetryOrFailed, SetRetryOrFailed, Holds, histVars
  <2>2. PICK s \in {"pending", "failed"} : status' = [status EXCEPT ![b] = s]
    BY <2>1
  <2>3. s = "failed" <=> retry'[b] = Attempts
    BY <1>0, <2>2
  <2>4. Outcome' = [Outcome EXCEPT ![b] = IF s = "failed" THEN "failed" ELSE "open"]
    BY <1>0, <2>1, <2>2 DEF Outcome
  <2>5. /\ b \in Present /\ Outcome[b] = "open"
        /\ UNCHANGED <<Present, Reached>>
    BY <1>0, <2>1, <2>2 DEF Outcome, Present, Reached
  <2> QED
    BY <2>1, <2>3, <2>4, <2>5 DEF UploadLives
<1>6. ASSUME NEW b \in Batch, MarkUploaded(w, b) \/ MarkRetryOrFailed(w, b), ~Holds(w, b)
      PROVE  UploadLives
  BY <1>1, <1>6 DEF MarkUploaded, MarkRetryOrFailed, histVars
<1>7. ASSUME CountUploaded(w) \/ UpdateUploaded(w) \/ FinalizeRead(w) \/ FinalizeWrite(w)
      PROVE  UploadLives
  BY <1>1, <1>7 DEF CountUploaded, UpdateUploaded, FinalizeRead, FinalizeWrite, histVars
<1>8. ASSUME NEW b \in Batch, Deliver(w, b) \/ UploadFails(w, b)
      PROVE  UploadLives
  BY <1>1, <1>2, <1>8 DEF Deliver, UploadFails, Current
<1> QED
  BY <1>3, <1>4, <1>5, <1>6, <1>7, <1>8 DEF UploadStep

(* A step of the uploader is a step of InstanceLife, or none.              *)
LEMMA LivesMaps ==
  ASSUME LifeInv, UploadLives, UNCHANGED totalBatches
  PROVE  [Life!Next]_(Life!vars)
<1>0. Batch = 1 .. NumBatches
  BY DEF Batch
<1>1. Cardinality(Present)' = Cardinality(Present) /\ (totalBatches > 0)' = (totalBatches > 0)
  BY DEF UploadLives
<1>2. \A b \in Batch : b \in Present => b <= Cardinality(Present)
  BY PrefixIsCount DEF LifeInv, PrefixInv, Types, TaskTypeOK
<1>3. CASE UNCHANGED <<Outcome, retry, Reached>>
  BY <1>1, <1>3 DEF Life!vars
<1>4. ASSUME NEW b \in Batch, b \in Present, Reached' = Reached \cup {b},
             UNCHANGED <<Outcome, retry>>
      PROVE  Life!Next
  BY <1>0, <1>1, <1>2, <1>4 DEF Life!Next, Life!Reach
<1>5. ASSUME NEW b \in Batch, Outcome[b] = "open", b \in Reached,
             Outcome' = [Outcome EXCEPT ![b] = "uploaded"], UNCHANGED <<retry, Reached>>
      PROVE  Life!Next
  BY <1>0, <1>1, <1>5 DEF Life!Next, Life!Acknowledge
<1>6. ASSUME NEW b \in Batch, b \in Present, Outcome[b] = "open",
             retry' = [retry EXCEPT ![b] = @ + 1],
             Outcome' = [Outcome EXCEPT ![b] = IF retry'[b] = Attempts THEN "failed"
                                                                       ELSE "open"],
             Reached' = Reached
      PROVE  Life!Next
  BY <1>0, <1>1, <1>2, <1>6 DEF Life!Next, Life!AttemptFails
<1> QED
  BY <1>3, <1>4, <1>5, <1>6 DEF UploadLives

(* Neither is any step that changes none of these columns.                 *)
LEMMA LifeStands ==
  ASSUME UNCHANGED <<status, retry, received, totalBatches>>
  PROVE  UNCHANGED Life!vars
BY DEF Life!vars, Present, Outcome, Reached

LEMMA MakeMaps ==
  ASSUME LifeInv, NEW w \in Workers, CreateBatch(w)
  PROVE  [Life!Next]_(Life!vars)
<1> USE DEF LifeInv, Types, TaskTypeOK
<1> DEFINE b == next[w]
<1>0. /\ b \in Batch /\ status' = [status EXCEPT ![b] = Insert(@)]
      /\ UNCHANGED <<retry, received, totalBatches>>
  BY DEF CreateBatch, histVars, metaVars
<1>1. CASE status[b] # "absent"
  <2>1. status' = status
    BY <1>0, <1>1 DEF Insert
  <2> QED
    BY <1>0, <2>1, LifeStands
<1>2. CASE status[b] = "absent"
  <2>1. status' = [status EXCEPT ![b] = "pending"]
    BY <1>0, <1>2 DEF Insert
  <2>2. b \in Batch \ Present /\ Present' = Present \cup {b}
    BY <1>0, <1>2, <2>1 DEF Present
  <2>3. Present \subseteq Batch /\ IsFiniteSet(Present)
    BY PresentBound, FS_Subset DEF Present
  <2>4. Cardinality(Present)' = Cardinality(Present) + 1
    BY <2>2, <2>3, FS_AddElement
  <2>5. ~(b <= Cardinality(Present))
    BY <2>2, PrefixIsCount DEF PrefixInv
  <2>6. Cardinality(Present) < NumBatches
    BY <1>0, <2>5, PresentBound, RowsOK DEF Batch
  <2>7. UNCHANGED <<Outcome, Reached, retry, totalBatches>>
    BY <1>0, <1>2, <2>1 DEF Outcome, Reached
  <2> QED
    BY <2>4, <2>6, <2>7 DEF Life!Next, Life!Make
<1> QED
  BY <1>1, <1>2

LEMMA CompleteMaps ==
  ASSUME LifeInv, NEW w \in Workers, UpdateProducedMeta(w)
  PROVE  [Life!Next]_(Life!vars)
<1>1. /\ pc[w] = "meta" /\ totalBatches' = NumBatches
      /\ UNCHANGED <<status, retry, received>>
  BY DEF UpdateProducedMeta, Goto, NotUploading, rowVars, histVars
<1>2. Cardinality(Present) = NumBatches
  BY <1>1, RowsOK, FS_Interval DEF LifeInv, MetaInv, Batch
<1>3. UNCHANGED <<Present, Outcome, Reached, retry>>
  BY <1>1 DEF Present, Outcome, Reached
<1>4. CASE NumBatches > 0
  BY <1>1, <1>2, <1>3, <1>4 DEF Life!Next, Life!Complete
<1>5. CASE NumBatches = 0
  <2>1. totalBatches' = totalBatches
    BY <1>1, <1>5 DEF LifeInv, Types, TaskTypeOK
  <2> QED
    BY <1>1, <2>1, LifeStands
<1> QED
  BY <1>4, <1>5, RowsOK

LEMMA StepLives ==
  ASSUME LifeInv, LifeInv', [TaskNext]_taskVars
  PROVE  [Life!Next]_(Life!vars)
<1> USE DEF rowVars, histVars, metaVars, NotUploading
<1>1. ASSUME NEW w \in Workers,
             Start(w) \/ Resume(w) \/ CountExisting(w) \/ SumRecords(w) \/ Stop(w)
      PROVE  UNCHANGED <<status, retry, received, totalBatches>>
  BY <1>1 DEF Start, Open, StartUploader, UploadRunning, OnStartup, Resume, CountExisting,
     SumRecords, Stop, Crash
<1>2. ASSUME NEW w \in Workers, UploadStep(w), UNCHANGED metaVars
      PROVE  [Life!Next]_(Life!vars)
  BY <1>2, UploadStepLives, LivesMaps
<1>3. ASSUME NEW b \in Batch, TimePasses(b)
      PROVE  UNCHANGED <<status, retry, received, totalBatches>>
  BY <1>3 DEF TimePasses, ExpireLease, LeaseEnds
<1>4. CASE UNCHANGED taskVars
  BY <1>4, LifeStands DEF taskVars, vars
<1> QED
  BY <1>1, <1>2, <1>3, <1>4, LifeStands, MakeMaps, CompleteMaps DEF TaskNext, Go, ProduceStep

(* However the entry points overlap and wherever they die, the rows of the *)
(* instance live the life of InstanceLife: made in order, complete only    *)
(* when all are there, sent only when made, settled once, as uploaded only *)
(* when received and as failed exactly with the last attempt, every        *)
(* attempt that failed counted once.                                       *)
THEOREM TaskImplementsLife == TaskSpec => ImplementsLife
<1>1. TaskInit => Life!Init
  <2> SUFFICES ASSUME TaskInit
               PROVE  Life!Init
    OBVIOUS
  <2>1. Present = {} /\ Reached = {} /\ Outcome = [b \in 1 .. NumBatches |-> "open"]
    BY DEF TaskInit, InitWith, RowsInit, Present, Reached, Outcome, Batch
  <2>2. retry = [b \in 1 .. NumBatches |-> 0] /\ ~(totalBatches > 0)
    BY DEF TaskInit, InitWith, RowsInit, Batch
  <2> QED
    BY <2>1, <2>2, FS_EmptySet DEF Life!Init
<1>2. LifeInv /\ LifeInv' /\ [TaskNext]_taskVars => [Life!Next]_(Life!vars)
  BY StepLives
<1> QED
  BY <1>1, <1>2, LifeInvHolds, PTL DEF TaskSpec, ImplementsLife, Life!Spec

-----------------------------------------------------------------------------
(* The calls end.                                                          *)

(* How many steps a worker has at most before it: those of the uploader,   *)
(* and before them one for every index of the production.                  *)
Ahead(w) ==
  CASE pc[w] = "resume" -> 9 * NumBatches + 9
    [] pc[w] = "countBatches" -> 9 * NumBatches + 8
    [] pc[w] = "produce" -> 9 * NumBatches + 8 - next[w]
    [] pc[w] = "meta" -> 8 * NumBatches + 6
    [] OTHER -> Left(w)

Nearer(w) ==
  pc[w] # "idle" =>
    /\ Ahead(w)' <= Ahead(w)
    /\ Go(w) => Ahead(w)' < Ahead(w)

TaskCallEnds == [][\A w \in Workers : Nearer(w)]_taskVars

(* The variables of the uploader are in their turn here, too.              *)
LEMMA UploaderTurns ==
  ASSUME Types, U!InTurn, U!BatchInHand, [TaskNext]_taskVars
  PROVE  U!InTurn' /\ U!BatchInHand'
<1>1. CASE UploaderStep
  BY <1>1, RowsOK, FailFastOK, U!TurnsKept DEF Types, UploaderStep
<1>2. ASSUME NEW b \in Batch, RowAppears(b)
      PROVE  U!InTurn' /\ U!BatchInHand'
  <2>1. UNCHANGED <<todo, seen, UploaderPlace>> /\ U!Batch' = U!Batch
    BY <1>2 DEF RowAppears, localVars, UploaderPlace, U!Batch
  <2> QED
    BY <2>1 DEF U!InTurn, U!BatchInHand, U!Current
<1> QED
  BY <1>1, <1>2, UploaderSees

LEMMA TurnsHold == TaskSpec => [](LifeInv /\ U!InTurn /\ U!BatchInHand)
<1>1. TaskInit => U!InTurn /\ U!BatchInHand
  BY InitUploader DEF U!InitWith, U!InTurn, U!BatchInHand
<1>2. LifeInv /\ U!InTurn /\ U!BatchInHand /\ [TaskNext]_taskVars
        => (U!InTurn /\ U!BatchInHand)'
  BY UploaderTurns DEF LifeInv
<1> QED
  BY <1>1, <1>2, LifeInvHolds, PTL DEF TaskSpec

(* In the uploader Ahead is what the uploader has left, which Left is.     *)
LEMMA LeftIsLeft == \A w \in Workers : pc[w] \in Location => Left(w) = U!Left(w)
<1> SUFFICES ASSUME NEW w \in Workers, pc[w] \in Location
             PROVE  Left(w) = U!Left(w)
  OBVIOUS
<1>1. UploaderPlace[w] = pc[w]
  BY DEF UploaderPlace, Location, ProduceLocation
<1>2. U!Cardinality(seen[w]) = Cardinality(seen[w])
  BY SameCount
<1> QED
  BY <1>1, <1>2 DEF Left, U!Left, Turn, U!Turn

UploadAhead == \A w \in Workers : pc[w] \in Location => Ahead(w) = U!Left(w)

LEMMA AheadInUploader == UploadAhead /\ UploadAhead'
<1>1. UploadAhead
  BY LeftIsLeft DEF UploadAhead, Ahead, Location
<1> QED
  BY <1>1, PTL

(* The uploader's last, longest way, and that it does not produce.         *)
LEMMA UploaderStays ==
  ASSUME TaskTypeOK, NEW w \in Workers, UploadStep(w)
  PROVE  pc[w] \in Location \ {"idle"} /\ pc'[w] \in Location
<1> USE DEF Goto, Location
<1>1. CASE CountUploaded(w) \/ UpdateUploaded(w) \/ FinalizeRead(w)
  BY <1>1 DEF CountUploaded, UpdateUploaded, FinalizeRead, TaskTypeOK
<1>2. CASE ClaimPending(w)
  BY <1>2 DEF ClaimPending, TaskTypeOK
<1>3. ASSUME NEW b \in Batch, Deliver(w, b) \/ UploadFails(w, b)
      PROVE  pc[w] \in Location \ {"idle"} /\ pc'[w] \in Location
  BY <1>3 DEF Deliver, UploadFails, TaskTypeOK
<1>4. ASSUME NEW b \in Batch, MarkUploaded(w, b) \/ MarkRetryOrFailed(w, b)
      PROVE  pc[w] \in Location \ {"idle"} /\ pc'[w] \in Location
  BY <1>4 DEF MarkUploaded, MarkRetryOrFailed, Return, TaskTypeOK
<1>5. CASE FinalizeWrite(w)
  BY <1>5 DEF FinalizeWrite, Return, TaskTypeOK
<1> QED
  BY <1>1, <1>2, <1>3, <1>4, <1>5 DEF UploadStep

(* A step of the production or of the resume leads on.                     *)
LEMMA ProduceOnwards ==
  ASSUME Types, Types', PrefixInv, NEW w \in Workers, Resume(w) \/ ProduceStep(w)
  PROVE  Ahead(w)' < Ahead(w)
<1> USE DEF Goto
<1>0. /\ NumBatches \in Nat /\ next[w] \in 0 .. NumBatches + 1 /\ next'[w] \in 0 .. NumBatches + 1
      /\ pc \in [Workers -> Location \cup ProduceLocation]
  BY RowsOK DEF Types, TaskTypeOK
<1>a. /\ pc'[w] = "idle" => Ahead(w)' = 0
      /\ pc'[w] = "count" => Ahead(w)' \in Nat /\ Ahead(w)' <= 8 * NumBatches + 5
  <2>1. pc'[w] = "idle" => Ahead(w)' = 0
    BY DEF Ahead, Left
  <2>2. ASSUME pc'[w] = "count"
        PROVE  Ahead(w)' \in Nat /\ Ahead(w)' <= 8 * NumBatches + 5
    <3>1. seen'[w] \in SUBSET Batch
      BY DEF Types, U!TypeOK, Batch, U!Batch
    <3>2. PICK c \in 0 .. NumBatches : Cardinality(seen'[w]) = c
      <4>1. IsFiniteSet(Batch) /\ Cardinality(Batch) = NumBatches
        BY RowsOK, FS_Interval DEF Batch
      <4> QED
        BY <3>1, <4>1, FS_Subset, FS_CardinalityType
    <3>3. Ahead(w)' = 8 * (NumBatches - c) + 5
      <4>1. Ahead(w)' = Left(w)'
        BY <2>2 DEF Ahead
      <4>2. Left(w)' = 8 * (NumBatches - Cardinality(seen'[w])) + 5 + 0
        BY <2>2 DEF Left, Turn
      <4> QED
        BY <1>0, <3>2, <4>1, <4>2
    <3> QED
      BY <1>0, <3>2, <3>3
  <2> QED
    BY <2>1, <2>2
<1>1. CASE Resume(w)
  <2>1. pc[w] = "resume" /\ pc'[w] \in {"countBatches", "count"}
    BY <1>0, <1>1 DEF Resume
  <2>2. Ahead(w) = 9 * NumBatches + 9
    BY <2>1 DEF Ahead
  <2>3. pc'[w] = "countBatches" => Ahead(w)' = 9 * NumBatches + 8
    BY DEF Ahead
  <2> QED
    BY <1>0, <1>a, <2>1, <2>2, <2>3
<1>2. CASE CountExisting(w)
  <2>1. pc[w] = "countBatches" /\ pc'[w] = "produce" /\ next'[w] > 0
    <3>1. next'[w] = Cardinality(Present) + 1
      BY <1>2 DEF CountExisting, ResumeIndex, Types, TaskTypeOK
    <3> QED
      BY <1>0, <1>2, <3>1, PresentBound DEF CountExisting
  <2>2. Ahead(w) = 9 * NumBatches + 8 /\ Ahead(w)' = 9 * NumBatches + 8 - next'[w]
    BY <2>1 DEF Ahead
  <2> QED
    BY <1>0, <2>1, <2>2
<1>3. CASE CreateBatch(w)
  <2>1. pc[w] = "produce" /\ pc'[w] = "produce" /\ next'[w] = next[w] + 1
    BY <1>3 DEF CreateBatch, localVars, Types, TaskTypeOK
  <2>2. Ahead(w) = 9 * NumBatches + 8 - next[w] /\ Ahead(w)' = 9 * NumBatches + 8 - next'[w]
    BY <2>1 DEF Ahead
  <2> QED
    BY <1>0, <2>1, <2>2
<1>4. CASE SumRecords(w)
  <2>1. pc[w] = "produce" /\ pc'[w] = "meta" /\ next[w] > NumBatches
    BY <1>0, <1>4 DEF SumRecords, ProducedAll
  <2>2. Ahead(w) = 9 * NumBatches + 8 - next[w] /\ Ahead(w)' = 8 * NumBatches + 6
    BY <2>1 DEF Ahead
  <2> QED
    BY <1>0, <2>1, <2>2
<1>5. CASE UpdateProducedMeta(w)
  <2>1. pc[w] = "meta" /\ pc'[w] \in {"idle", "count"}
    BY <1>0, <1>5 DEF UpdateProducedMeta
  <2>2. Ahead(w) = 8 * NumBatches + 6
    BY <2>1 DEF Ahead
  <2> QED
    BY <1>0, <1>a, <2>1, <2>2
<1> QED
  BY <1>1, <1>2, <1>3, <1>4, <1>5 DEF ProduceStep

(* Nobody but the worker itself moves it on in the production.             *)
LEMMA OthersProduce ==
  ASSUME Types, [TaskNext]_taskVars, NEW w \in Workers, pc[w] \in ProduceLocation
  PROVE  Resume(w) \/ ProduceStep(w) \/ Stop(w) \/ (pc'[w] = pc[w] /\ next'[w] = next[w])
<1> USE DEF Goto, Types, TaskTypeOK
<1>1. ASSUME NEW v \in Workers, Start(v)
      PROVE  pc'[w] = pc[w] /\ next'[w] = next[w]
  BY <1>1 DEF Start, Open, StartUploader, UploadRunning, OnStartup, produceVars, ProduceLocation
<1>2. ASSUME NEW v \in Workers, v # w, Resume(v) \/ ProduceStep(v) \/ Stop(v)
      PROVE  pc'[w] = pc[w] /\ next'[w] = next[w]
  BY <1>2 DEF Resume, ProduceStep, CountExisting, CreateBatch, SumRecords, UpdateProducedMeta,
     Stop, Crash, Return, localVars
<1>3. ASSUME NEW v \in Workers, UploadStep(v), UNCHANGED produceVars
      PROVE  pc'[w] = pc[w] /\ next'[w] = next[w]
  <2>1. v # w
    BY <1>3, UploaderStays DEF Location, ProduceLocation
  <2>2. \A u \in Workers : u # v => pc'[u] = pc[u]
    <3>1. CASE CountUploaded(v) \/ UpdateUploaded(v) \/ FinalizeRead(v) \/ FinalizeWrite(v)
                 \/ ClaimPending(v)
      BY <3>1 DEF CountUploaded, UpdateUploaded, FinalizeRead, FinalizeWrite, ClaimPending, Return
    <3>2. ASSUME NEW b \in Batch, Deliver(v, b) \/ UploadFails(v, b)
                                   \/ MarkUploaded(v, b) \/ MarkRetryOrFailed(v, b)
          PROVE  \A u \in Workers : u # v => pc'[u] = pc[u]
      BY <3>2 DEF Deliver, UploadFails, MarkUploaded, MarkRetryOrFailed, Return
    <3> QED
      BY <1>3, <3>1, <3>2 DEF UploadStep
  <2> QED
    BY <1>3, <2>1, <2>2 DEF produceVars
<1>4. CASE UNCHANGED taskVars \/ \E b \in Batch : TimePasses(b)
  BY <1>4 DEF taskVars, vars, produceVars, TimePasses, ExpireLease, localVars
<1> QED
  BY <1>1, <1>2, <1>3, <1>4 DEF TaskNext, Go

(* A worker that uploads does not begin to produce.                        *)
LEMMA OthersUpload ==
  ASSUME Types, [TaskNext]_taskVars, NEW w \in Workers, pc[w] \in Location \ {"idle"}
  PROVE  pc'[w] \in Location
<1> USE DEF Goto, Types, TaskTypeOK
<1>1. CASE pc'[w] = pc[w]
  BY <1>1
<1>2. CASE pc'[w] = "idle"
  BY <1>2 DEF Location
<1>3. ASSUME NEW v \in Workers, Start(v) \/ Resume(v) \/ ProduceStep(v)
      PROVE  pc'[w] = pc[w]
  BY <1>3 DEF Start, Open, StartUploader, UploadRunning, OnStartup, Resume, ProduceStep,
     CountExisting, CreateBatch, SumRecords, UpdateProducedMeta, localVars, Location
<1>4. ASSUME NEW v \in Workers, Stop(v)
      PROVE  pc'[w] \in {pc[w], "idle"}
  BY <1>4 DEF Stop, Crash, Return
<1>5. ASSUME NEW v \in Workers, UploadStep(v)
      PROVE  pc'[w] \in Location
  <2>1. CASE v = w
    BY <1>5, <2>1, UploaderStays
  <2>2. CASE v # w
    <3>1. CASE CountUploaded(v) \/ UpdateUploaded(v) \/ FinalizeRead(v) \/ FinalizeWrite(v)
                 \/ ClaimPending(v)
      BY <1>1, <2>2, <3>1 DEF CountUploaded, UpdateUploaded, FinalizeRead, FinalizeWrite,
         ClaimPending, Return
    <3>2. ASSUME NEW b \in Batch, Deliver(v, b) \/ UploadFails(v, b)
                                   \/ MarkUploaded(v, b) \/ MarkRetryOrFailed(v, b)
          PROVE  pc'[w] = pc[w]
      BY <2>2, <3>2 DEF Deliver, UploadFails, MarkUploaded, MarkRetryOrFailed, Return
    <3> QED
      BY <1>1, <1>5, <3>1, <3>2 DEF UploadStep
  <2> QED
    BY <2>1, <2>2
<1>6. CASE UNCHANGED taskVars \/ \E b \in Batch : TimePasses(b)
  BY <1>1, <1>6 DEF taskVars, vars, TimePasses, ExpireLease, localVars
<1> QED
  BY <1>1, <1>2, <1>3, <1>4, <1>5, <1>6 DEF TaskNext, Go

(* Every step, of whomever.                                                *)
LEMMA StepNearer ==
  ASSUME Types, Types', PrefixInv, U!InTurn, [TaskNext]_taskVars,
         NEW w \in Workers, pc[w] # "idle"
  PROVE  Nearer(w)
<1>0. /\ pc \in [Workers -> Location \cup ProduceLocation]
      /\ pc' \in [Workers -> Location \cup ProduceLocation]
      /\ NumBatches \in Nat
      /\ next[w] \in 0 .. NumBatches + 1
  BY RowsOK DEF Types, TaskTypeOK
<1>a. /\ U!Left(w) \in Nat /\ U!Left(w)' \in Nat
      /\ UploaderPlace[w] # "idle" => U!Left(w) # 0
  <2>1. /\ UploaderPlace[w] \in U!Location /\ UploaderPlace'[w] \in U!Location
        /\ todo[w] \in SUBSET U!Batch /\ todo'[w] \in SUBSET U!Batch
        /\ seen[w] \in SUBSET U!Batch /\ seen'[w] \in SUBSET U!Batch
    BY DEF Types, U!TypeOK
  <2>2. /\ U!Left(w) = U!LeftOf(UploaderPlace[w], todo[w], seen[w])
        /\ U!Left(w)' = U!LeftOf(UploaderPlace'[w], todo'[w], seen'[w])
    BY RowsOK, FailFastOK, U!LeftIs
  <2> QED
    BY <2>1, <2>2, RowsOK, FailFastOK, U!LeftSizes
<1>b. /\ pc[w] \in Location => Ahead(w) = U!Left(w)
      /\ pc'[w] \in Location => Ahead(w)' = U!Left(w)'
  BY AheadInUploader DEF UploadAhead
<1>c. ASSUME Ahead(w)' < Ahead(w), Ahead(w)' \in Int, Ahead(w) \in Int
      PROVE  Nearer(w)
  BY <1>c DEF Nearer
<1>d. pc[w] \in Location \/ pc[w] \in ProduceLocation
  BY <1>0
<1>1. CASE pc[w] \in Location
  <2>0. pc[w] \notin ProduceLocation /\ UploaderPlace[w] = pc[w]
    BY <1>1 DEF Location, ProduceLocation, UploaderPlace
  <2>1. ASSUME Go(w)
        PROVE  pc'[w] \in Location /\ U!Left(w)' < U!Left(w)
    <3>1. UploadStep(w)
      BY <1>1, <2>1 DEF Go, Resume, ProduceStep, CountExisting, CreateBatch, SumRecords,
         UpdateProducedMeta, Goto, Location
    <3>2. pc'[w] \in Location
      BY <3>1, UploaderStays DEF Types
    <3>3. U!UploadStep(w)
      BY <3>1, UploadStepMaps DEF Types
    <3>4. U!Left(w)' < U!Left(w)
      BY <3>3, RowsOK, FailFastOK, U!OwnStepOnwards DEF Types
    <3> QED
      BY <3>2, <3>4
  <2>2. pc'[w] \in Location /\ U!Left(w)' <= U!Left(w)
    <3>1. CASE UploaderStep
      <4>1. U!Onwards(w)
        BY <3>1, RowsOK, FailFastOK, U!StepOnwards DEF Types, UploaderStep
      <4>2. U!Left(w)' <= U!Left(w)
        BY <2>0, <4>1 DEF U!Onwards
      <4>3. pc'[w] \in Location
        BY <1>0, <1>1, <2>1, OthersUpload
      <4> QED
        BY <4>2, <4>3
    <3>2. ASSUME NEW b \in Batch, RowAppears(b)
          PROVE  pc'[w] \in Location /\ U!Left(w)' <= U!Left(w)
      <4>1. UNCHANGED <<pc, todo, seen, UploaderPlace>>
        BY <3>2 DEF RowAppears, localVars, UploaderPlace
      <4>2. U!Left(w)' = U!Left(w)
        BY <4>1, RowsOK, FailFastOK, U!LeftIs
      <4> QED
        BY <1>1, <1>a, <4>1, <4>2
    <3> QED
      BY <3>1, <3>2, UploaderSees
  <2> QED
    BY <1>1, <1>b, <2>1, <2>2 DEF Nearer
<1>2. CASE pc[w] \in ProduceLocation
  <2>1. ASSUME Resume(w) \/ ProduceStep(w)
        PROVE  Nearer(w)
    <3>1. Ahead(w)' < Ahead(w)
      BY <2>1, ProduceOnwards
    <3>2. Ahead(w) \in Int
      BY <1>0, <1>2 DEF Ahead, ProduceLocation
    <3>3. Ahead(w)' \in Int
      <4>1. next'[w] \in 0 .. NumBatches + 1
        BY DEF Types, TaskTypeOK
      <4>2. CASE pc'[w] \in Location
        BY <1>a, <1>b, <4>2
      <4>3. CASE pc'[w] \in ProduceLocation
        BY <1>0, <4>1, <4>3 DEF Ahead, ProduceLocation
      <4> QED
        BY <1>0, <4>2, <4>3
    <3> QED
      BY <1>c, <3>1, <3>2, <3>3
  <2>2. ASSUME Stop(w) \/ (pc'[w] = pc[w] /\ next'[w] = next[w])
        PROVE  Ahead(w)' <= Ahead(w)
    <3>1. CASE Stop(w)
      <4>1. pc'[w] = "idle"
        BY <1>0, <3>1 DEF Stop, Crash, Return
      <4>2. Ahead(w)' = 0
        BY <4>1 DEF Ahead, Left
      <4>3. Ahead(w) >= 0
        BY <1>0, <1>2 DEF Ahead, ProduceLocation
      <4> QED
        BY <4>2, <4>3
    <3>2. CASE pc'[w] = pc[w] /\ next'[w] = next[w]
      <4>1. Ahead(w)' = Ahead(w) /\ Ahead(w) \in Int
        BY <1>0, <1>2, <3>2 DEF Ahead, ProduceLocation
      <4> QED
        BY <4>1
    <3> QED
      BY <2>2, <3>1, <3>2
  <2>3. Go(w) => Resume(w) \/ ProduceStep(w)
    BY <1>2, UploaderStays DEF Go, Types, Location, ProduceLocation
  <2> QED
    BY <1>2, <2>1, <2>2, <2>3, OthersProduce DEF Nearer
<1> QED
  BY <1>d, <1>1, <1>2

(* RunBigTask, RunBizTask, the uploaders and OnStartup come to an end,     *)
(* production, resume and upload taken together and whatever the other     *)
(* entry points do to the same rows: every step of its own leaves a call   *)
(* with fewer to go, and nobody else's leaves it with more.                *)
THEOREM TaskCallsGetShorter == TaskSpec => TaskCallEnds
<1>1. LifeInv /\ LifeInv' /\ U!InTurn /\ [TaskNext]_taskVars
        => [\A w \in Workers : Nearer(w)]_taskVars
  BY StepNearer DEF LifeInv, Nearer
<1>2. TaskSpec => [](LifeInv /\ U!InTurn)
  BY TurnsHold, PTL
<1> QED
  BY <1>1, <1>2, PTL DEF TaskSpec, TaskCallEnds

(* What a worker at its place needs to take a step of its own.             *)
CanGoOn(w) ==
  \/ pc[w] \in {"resume", "countBatches", "meta", "count", "update", "failFinalize",
                "failWrite", "finalize", "write"}
  \/ pc[w] = "produce" /\ (next[w] \in Batch \/ ProducedAll(w))
  \/ pc[w] = "loop" /\ todo[w] = {}
  \/ pc[w] \in {"loop", "mark", "fail"} /\ \E b \in Batch : Current(w, b)

CallsGoOn ==
  \A w \in Workers :
    /\ Ahead(w) \in 0 .. 9 * NumBatches + 9
    /\ pc[w] # "idle" => Ahead(w) > 0 /\ CanGoOn(w)

(* Nobody waits for anybody, and no call is longer than nine steps for     *)
(* every batch and nine more: a worker that is scheduled is through with   *)
(* its call after so many steps, even if all the others stand still or     *)
(* die.                                                                    *)
THEOREM TaskNobodyWaits == TaskSpec => []CallsGoOn
<1>1. LifeInv /\ U!BatchInHand => CallsGoOn
  <2> SUFFICES ASSUME LifeInv, U!BatchInHand, NEW w \in Workers
               PROVE  /\ Ahead(w) \in 0 .. 9 * NumBatches + 9
                      /\ pc[w] # "idle" => Ahead(w) > 0 /\ CanGoOn(w)
    BY DEF CallsGoOn
  <2>0. /\ pc[w] \in Location \cup ProduceLocation
        /\ next[w] \in 0 .. NumBatches + 1 /\ NumBatches \in Nat
        /\ pc[w] = "produce" => next[w] > 0
    BY RowsOK DEF LifeInv, Types, TaskTypeOK, PrefixInv
  <2>1. CASE pc[w] \in ProduceLocation
    <3>1. Ahead(w) \in 1 .. 9 * NumBatches + 9
      BY <2>0, <2>1 DEF Ahead, ProduceLocation
    <3>2. pc[w] = "produce" => next[w] \in Batch \/ ProducedAll(w)
      BY <2>0 DEF Batch, ProducedAll
    <3> QED
      BY <2>1, <3>1, <3>2 DEF CanGoOn, ProduceLocation
  <2>2. CASE pc[w] \in Location
    <3>0. UploaderPlace[w] = pc[w]
      BY <2>2 DEF UploaderPlace, Location, ProduceLocation
    <3>1. /\ UploaderPlace[w] \in U!Location /\ todo[w] \in SUBSET U!Batch
          /\ seen[w] \in SUBSET U!Batch
      BY DEF LifeInv, Types, U!TypeOK
    <3>2. U!Left(w) = U!LeftOf(UploaderPlace[w], todo[w], seen[w])
      BY RowsOK, FailFastOK, U!LeftIs
    <3>3. /\ U!Left(w) \in Nat /\ U!Left(w) <= 8 * NumBatches + 7
          /\ pc[w] = "idle" <=> U!Left(w) = 0
      BY <3>0, <3>1, <3>2, RowsOK, FailFastOK, U!LeftSizes
    <3>4. Ahead(w) = U!Left(w)
      BY <2>2, AheadInUploader DEF UploadAhead
    <3>5. todo[w] # {} => \E b \in Batch : Current(w, b)
      <4>1. todo[w] # {} => \E a \in todo[w] : \A c \in todo[w] : a <= c
        BY <3>1, RowsOK, FailFastOK, U!LeastBatch
      <4> QED
        BY <3>1, <4>1 DEF Current, Batch, U!Batch
    <3>6. pc[w] \in {"mark", "fail"} => todo[w] # {}
      BY <3>0 DEF U!BatchInHand, U!Current
    <3>7. pc[w] # "idle" => CanGoOn(w)
      BY <2>2, <3>5, <3>6 DEF CanGoOn, Location
    <3> QED
      BY <2>0, <3>3, <3>4, <3>7
  <2> QED
    BY <2>0, <2>1, <2>2
<1> QED
  BY <1>1, TurnsHold, PTL

-----------------------------------------------------------------------------
(* No row is out of reach.                                                 *)

RowsInReach ==
  \A b \in Batch : status[b] \in {"pending", "running"} =>
    b \in Claimable(MaxRetry) \/ lease[b] = "live"

(* A batch that is made and not settled is one the next claim may take, or *)
(* its lease is alive and only has to run out, also when production and    *)
(* upload of the instance are under way at once or died at any point.      *)
THEOREM TaskNothingStranded == TaskSpec => []RowsInReach
<1>1. TaskInit => U!Leased
  BY InitUploader DEF U!InitWith, U!RowsInit, U!Leased
<1>2. Types /\ U!Leased /\ [TaskNext]_taskVars => U!Leased'
  <2> SUFFICES ASSUME Types, U!Leased, [TaskNext]_taskVars
               PROVE  U!Leased'
    OBVIOUS
  <2>1. CASE UploaderStep
    BY <2>1, RowsOK, FailFastOK, U!LeasedStays DEF Types, UploaderStep
  <2>2. ASSUME NEW b \in Batch, RowAppears(b)
        PROVE  U!Leased'
    BY <2>2 DEF RowAppears, Types, TaskTypeOK, U!Leased, Batch, U!Batch
  <2> QED
    BY <2>1, <2>2, UploaderSees
<1>3. Types /\ U!Leased => RowsInReach
  <2> SUFFICES ASSUME Types, U!Leased
               PROVE  RowsInReach
    OBVIOUS
  <2>1. U!InReach
    BY RowsOK, FailFastOK, U!LeasedInReach DEF Types
  <2> QED
    BY <2>1, SameRows DEF U!InReach, U!Open, RowsInReach
<1> QED
  BY <1>1, <1>2, <1>3, InitTypes, NextTypes, PTL DEF TaskSpec
=============================================================================
