------------------------- MODULE BatchUpload_proofs -------------------------
(***************************************************************************)
(* Theorems about BatchUpload, for every set of workers and every number   *)
(* of batches, retry limit, claim limit and failure mode.                  *)
(***************************************************************************)
EXTENDS BatchUpload, FiniteSetTheorems, WellFoundedInduction, TLAPS

-----------------------------------------------------------------------------
(* Counting rows.                                                          *)

(* The batches of an instance are finitely many, and so are the rows of    *)
(* any kind: COUNT returns a number.                                       *)
LEMMA BatchFinite ==
  ASSUME NEW S \in SUBSET Batch
  PROVE  IsFiniteSet(S) /\ Cardinality(S) \in Nat
<1>1. IsFiniteSet(Batch)
  BY FS_Interval, RowsOK DEF Batch
<1> QED
  BY <1>1, FS_Subset, FS_CardinalityType

(* The number of attempts is the limit, or one when the limit is 0.        *)
LEMMA AttemptsFacts ==
  /\ Attempts \in Nat
  /\ Attempts > 0
  /\ Attempts >= MaxRetry
  /\ MaxRetry > 0 => Attempts = MaxRetry
  /\ MaxRetry = 0 => Attempts = 1
BY RowsOK DEF Attempts

(* The row sets COUNT is applied to consist of batches.                    *)
LEMMA RowSets ==
  /\ Uploaded \in SUBSET Batch
  /\ Failed \in SUBSET Batch
  /\ Present \in SUBSET Batch
  /\ Claimable(MaxRetry) \in SUBSET Batch
BY DEF Uploaded, Failed, Present, Rows, Claimable

(* LIMIT only leaves rows out, and the skipped batches are left out again. *)
LEMMA ClaimedSubset ==
  ASSUME NEW w
  PROVE  Fresh(w) \subseteq Claimed(w) /\ Claimed(w) \subseteq Claimable(MaxRetry)
BY DEF Fresh, Claimed, Lowest

(* What batchCounts and the switch make of the rows is a verdict and a     *)
(* number.                                                                 *)
LEMMA BatchCountsType ==
  BatchCounts \in [status : Verdict, uploaded : Nat]
<1>1. Cardinality(Uploaded) \in Nat
  BY RowSets, BatchFinite
<1>2. \A t, u, f : Judge(t, u, f) \in Verdict
  BY DEF Judge, Verdict
<1> QED
  BY <1>1, <1>2 DEF BatchCounts

-----------------------------------------------------------------------------
(* Type correctness.                                                       *)

LEMMA InitType == Init => TypeOK
BY RowsOK, AttemptsFacts DEF Init, InitWith, RowsInit, TypeOK, RowStatus, Lease, Verdict, Location,
   NothingFound, Many

(* Leaving uploadPendingBatches keeps the types of its local variables.    *)
LEMMA ReturnType ==
  ASSUME TypeOK, NEW w \in Workers, Return(w)
  PROVE  /\ pc' \in [Workers -> Location]
         /\ todo' \in [Workers -> SUBSET Batch]
         /\ seen' \in [Workers -> SUBSET Batch]
         /\ count' \in [Workers -> Nat]
         /\ found' \in [Workers -> [status : Verdict, uploaded : Nat]]
BY DEF TypeOK, Return, Location, NothingFound, Verdict

(* Every step keeps the types.  That retry_count stays within the number   *)
(* of attempts needs the retry budget: such a row is failed, not running.  *)
LEMMA NextType ==
  TypeOK /\ FailedWhenBudgetSpent /\ [Next]_vars => TypeOK'
<1> SUFFICES ASSUME TypeOK, FailedWhenBudgetSpent, [Next]_vars
             PROVE  TypeOK'
  OBVIOUS
<1> USE DEF rowVars, instVars, localVars, histVars
<1>1. ASSUME NEW w \in Workers, UploadRunning(w) \/ RunTask(w)
      PROVE  TypeOK'
  BY <1>1 DEF UploadRunning, RunTask, Goto, TypeOK, Location
<1>2. ASSUME NEW w \in Workers, CountUploaded(w)
      PROVE  TypeOK'
  <2>1. Cardinality(Uploaded) \in Nat
    BY RowSets, BatchFinite
  <2> QED
    BY <1>2, <2>1 DEF CountUploaded, Goto, TypeOK, Location
<1>3. ASSUME NEW w \in Workers, ClaimPending(w)
      PROVE  TypeOK'
  <2>1. Fresh(w) \in SUBSET Batch
    BY ClaimedSubset, RowSets
  <2>2. status' \in [Batch -> RowStatus]
    BY <1>3 DEF ClaimPending, Claim, TypeOK, RowStatus
  <2>3. owner' \in [Batch -> Workers \cup {NoWorker}]
    BY <1>3 DEF ClaimPending, Claim, TypeOK
  <2>4. lease' \in [Batch -> Lease]
    BY <1>3 DEF ClaimPending, Claim, TypeOK, Lease
  <2>5. todo' \in [Workers -> SUBSET Batch]
    BY <1>3, <2>1 DEF ClaimPending, Claim, TypeOK
  <2>6. pc' \in [Workers -> Location]
    BY <1>3 DEF ClaimPending, Claim, Goto, TypeOK, Location
  <2>7. UNCHANGED <<retry, instStatus, uploadedBatches, seen, count, found,
                    received, lapsed>>
    BY <1>3 DEF ClaimPending, Claim
  <2> QED
    BY <2>2, <2>3, <2>4, <2>5, <2>6, <2>7 DEF TypeOK
<1>4. ASSUME NEW w \in Workers, NEW b \in Batch, Deliver(w, b) \/ UploadFails(w, b)
      PROVE  TypeOK'
  <2>1. received' \in [Batch -> 0 .. Many]
    BY <1>4 DEF Deliver, UploadFails, Receive, TypeOK, Many
  <2>2. seen' = [seen EXCEPT ![w] = @ \cup {b}]
    BY <1>4 DEF Deliver, UploadFails
  <2>3. seen' \in [Workers -> SUBSET Batch]
    BY <2>2 DEF TypeOK
  <2>4. pc' \in [Workers -> Location]
    BY <1>4 DEF Deliver, UploadFails, Goto, TypeOK, Location
  <2>5. UNCHANGED <<status, owner, lease, retry, instStatus, uploadedBatches,
                    todo, count, found, lapsed>>
    BY <1>4 DEF Deliver, UploadFails
  <2> QED
    BY <2>1, <2>3, <2>4, <2>5 DEF TypeOK
<1>5. ASSUME NEW w \in Workers, NEW b \in Batch, MarkUploaded(w, b)
      PROVE  TypeOK'
  <2>1. CASE Holds(w, b)
    <3>1. status' \in [Batch -> RowStatus] /\ owner' \in [Batch -> Workers \cup {NoWorker}]
      BY <1>5, <2>1 DEF MarkUploaded, SetUploaded, TypeOK, RowStatus
    <3>2. lease' \in [Batch -> Lease]
      BY <1>5, <2>1 DEF MarkUploaded, SetUploaded, TypeOK, Lease
    <3>7. count' \in [Workers -> Nat]
      <4>1. count' = [count EXCEPT ![w] = @ + 1]
        BY <1>5, <2>1 DEF MarkUploaded, SetUploaded
      <4> QED
        BY <4>1 DEF TypeOK
    <3>3. todo' = [todo EXCEPT ![w] = @ \ {b}]
      BY <1>5, <2>1 DEF MarkUploaded, SetUploaded
    <3>4. todo' \in [Workers -> SUBSET Batch]
      BY <3>3 DEF TypeOK
    <3>5. pc' \in [Workers -> Location]
      BY <1>5, <2>1 DEF MarkUploaded, SetUploaded, TypeOK, Location
    <3>6. UNCHANGED <<retry, instStatus, uploadedBatches, seen, found, received, lapsed>>
      BY <1>5, <2>1 DEF MarkUploaded, SetUploaded
    <3> QED
      BY <3>1, <3>2, <3>4, <3>5, <3>6, <3>7 DEF TypeOK
  <2>2. CASE ~Holds(w, b)
    BY <1>5, <2>2, ReturnType DEF MarkUploaded, SetUploaded, TypeOK
  <2> QED
    BY <2>1, <2>2
<1>6. ASSUME NEW w \in Workers, UpdateUploaded(w)
      PROVE  TypeOK'
  BY <1>6 DEF UpdateUploaded, Goto, TypeOK, Location
<1>7. ASSUME NEW w \in Workers, NEW b \in Batch, MarkRetryOrFailed(w, b)
      PROVE  TypeOK'
  <2>1. CASE Holds(w, b)
    <3>1. retry[b] < Attempts
      <4>1. retry[b] \in 0 .. Attempts
        BY DEF TypeOK
      <4>2. retry[b] # Attempts
        BY <2>1 DEF Holds, FailedWhenBudgetSpent
      <4> QED
        BY <4>1, <4>2, AttemptsFacts
    <3>2. retry' \in [Batch -> 0 .. Attempts]
      BY <1>7, <2>1, <3>1, AttemptsFacts DEF MarkRetryOrFailed, SetRetryOrFailed, TypeOK
    <3>3. status' \in [Batch -> RowStatus] /\ owner' \in [Batch -> Workers \cup {NoWorker}]
      BY <1>7, <2>1 DEF MarkRetryOrFailed, SetRetryOrFailed, TypeOK, RowStatus
    <3>4. lease' \in [Batch -> Lease]
      BY <1>7, <2>1 DEF MarkRetryOrFailed, SetRetryOrFailed, TypeOK, Lease
    <3>5. todo' = [todo EXCEPT ![w] = @ \ {b}]
      BY <1>7, <2>1 DEF MarkRetryOrFailed, SetRetryOrFailed
    <3>6. todo' \in [Workers -> SUBSET Batch]
      BY <3>5 DEF TypeOK
    <3>7. pc' \in [Workers -> Location]
      BY <1>7, <2>1 DEF MarkRetryOrFailed, SetRetryOrFailed, TypeOK, Location
    <3>8. UNCHANGED <<instStatus, uploadedBatches, seen, count, found, received, lapsed>>
      BY <1>7, <2>1 DEF MarkRetryOrFailed, SetRetryOrFailed
    <3> QED
      BY <3>2, <3>3, <3>4, <3>6, <3>7, <3>8 DEF TypeOK
  <2>2. CASE ~Holds(w, b)
    BY <1>7, <2>2, ReturnType DEF MarkRetryOrFailed, SetRetryOrFailed, TypeOK
  <2> QED
    BY <2>1, <2>2
<1>8. ASSUME NEW w \in Workers, FinalizeRead(w)
      PROVE  TypeOK'
  <2>1. found' \in [Workers -> [status : Verdict, uploaded : Nat]]
    BY <1>8, BatchCountsType DEF FinalizeRead, TypeOK
  <2>2. pc' \in [Workers -> Location]
    BY <1>8 DEF FinalizeRead, Goto, TypeOK, Location
  <2> QED
    BY <1>8, <2>1, <2>2 DEF FinalizeRead, TypeOK
<1>9. ASSUME NEW w \in Workers, FinalizeWrite(w)
      PROVE  TypeOK'
  <2>1. instStatus' \in Verdict /\ uploadedBatches' \in Nat
    BY <1>9 DEF FinalizeWrite, TypeOK
  <2>2. CASE pc[w] = "failWrite" /\ ~FailFast
    BY <1>9, <2>1, <2>2 DEF FinalizeWrite, TypeOK, Location, NothingFound, Verdict
  <2>3. CASE ~(pc[w] = "failWrite" /\ ~FailFast)
    BY <1>9, <2>1, <2>3, ReturnType DEF FinalizeWrite, TypeOK
  <2> QED
    BY <2>2, <2>3
<1>10. ASSUME NEW w \in Workers, Crash(w)
       PROVE  TypeOK'
  BY <1>10, ReturnType DEF Crash, TypeOK
<1>11. ASSUME NEW b \in Batch, ExpireLease(b)
       PROVE  TypeOK'
  BY <1>11 DEF ExpireLease, LeaseEnds, TypeOK, Lease
<1>12. CASE UNCHANGED vars
  BY <1>12 DEF vars, TypeOK
<1> QED
  BY <1>1, <1>2, <1>3, <1>4, <1>5, <1>6, <1>7, <1>8, <1>9, <1>10, <1>11, <1>12
     DEF Next, UploadStep

-----------------------------------------------------------------------------
(* What a step does to the batch rows.                                     *)

(* Five kinds of step: a claim, a successful mark (two kinds), a lease     *)
(* that ends, and everything else, which leaves the rows alone.            *)
LEMMA RowStep ==
  ASSUME [Next]_vars
  PROVE  \/ UNCHANGED rowVars
         \/ \E w \in Workers : ClaimPending(w)
         \/ \E w \in Workers, b \in Batch : Holds(w, b) /\ MarkUploaded(w, b)
         \/ \E w \in Workers, b \in Batch : Holds(w, b) /\ MarkRetryOrFailed(w, b)
         \/ \E b \in Batch : ExpireLease(b)
<1> USE DEF rowVars
<1>1. ASSUME NEW w \in Workers,
             UploadRunning(w) \/ RunTask(w) \/ CountUploaded(w) \/ UpdateUploaded(w)
               \/ FinalizeRead(w) \/ FinalizeWrite(w) \/ Crash(w)
      PROVE  UNCHANGED rowVars
  BY <1>1 DEF UploadRunning, RunTask, CountUploaded, UpdateUploaded, FinalizeRead,
     FinalizeWrite, Crash
<1>2. ASSUME NEW w \in Workers, NEW b \in Batch, Deliver(w, b) \/ UploadFails(w, b)
      PROVE  UNCHANGED rowVars
  BY <1>2 DEF Deliver, UploadFails
<1>3. ASSUME NEW w \in Workers, NEW b \in Batch, MarkUploaded(w, b), ~Holds(w, b)
      PROVE  UNCHANGED rowVars
  BY <1>3 DEF MarkUploaded, SetUploaded
<1>4. ASSUME NEW w \in Workers, NEW b \in Batch, MarkRetryOrFailed(w, b), ~Holds(w, b)
      PROVE  UNCHANGED rowVars
  BY <1>4 DEF MarkRetryOrFailed, SetRetryOrFailed
<1>5. CASE UNCHANGED vars
  BY <1>5 DEF vars
<1> QED
  BY <1>1, <1>2, <1>3, <1>4, <1>5 DEF Next, UploadStep

(* What a claim does to one row.                                           *)
LEMMA ClaimRow ==
  ASSUME TypeOK, NEW w \in Workers, ClaimPending(w), NEW b \in Batch
  PROVE  \/ /\ b \in Claimable(MaxRetry)
            /\ status'[b] = "running" /\ owner'[b] = w /\ lease'[b] = "live"
            /\ retry'[b] = retry[b]
         \/ /\ status'[b] = status[b] /\ owner'[b] = owner[b]
            /\ lease'[b] = lease[b] /\ retry'[b] = retry[b]
BY ClaimedSubset DEF ClaimPending, Claim

(* A settled batch stays settled: no claim, mark or lease touches it, and  *)
(* no row disappears.                                                      *)
LEMMA SettledStays ==
  ASSUME TypeOK, [Next]_vars, NEW b \in Batch
  PROVE  /\ status[b] \in {"uploaded", "failed"} => status'[b] = status[b]
         /\ status[b] # "absent" => status'[b] # "absent"
<1>1. CASE UNCHANGED rowVars
  BY <1>1 DEF rowVars
<1>2. ASSUME NEW w \in Workers, ClaimPending(w)
      PROVE  /\ status[b] \in {"uploaded", "failed"} => status'[b] = status[b]
             /\ status[b] # "absent" => status'[b] # "absent"
  BY <1>2, ClaimRow DEF Claimable
<1>3. ASSUME NEW w \in Workers, NEW a \in Batch, Holds(w, a), MarkUploaded(w, a)
      PROVE  /\ status[b] \in {"uploaded", "failed"} => status'[b] = status[b]
             /\ status[b] # "absent" => status'[b] # "absent"
  BY <1>3 DEF Holds, MarkUploaded, SetUploaded, TypeOK
<1>4. ASSUME NEW w \in Workers, NEW a \in Batch, Holds(w, a), MarkRetryOrFailed(w, a)
      PROVE  /\ status[b] \in {"uploaded", "failed"} => status'[b] = status[b]
             /\ status[b] # "absent" => status'[b] # "absent"
  BY <1>4 DEF Holds, MarkRetryOrFailed, SetRetryOrFailed, TypeOK
<1>5. ASSUME NEW a \in Batch, ExpireLease(a)
      PROVE  status'[b] = status[b]
  BY <1>5 DEF ExpireLease, LeaseEnds
<1> QED
  BY <1>1, <1>2, <1>3, <1>4, <1>5, RowStep

(* No claim, mark or lease makes a row exist: that is production's part.   *)
LEMMA AbsentStays ==
  ASSUME TypeOK, [Next]_vars, NEW b \in Batch, status[b] = "absent"
  PROVE  status'[b] = "absent"
<1>1. CASE UNCHANGED rowVars
  BY <1>1 DEF rowVars
<1>2. ASSUME NEW w \in Workers, ClaimPending(w)
      PROVE  status'[b] = "absent"
  BY <1>2, ClaimRow DEF Claimable
<1>3. ASSUME NEW w \in Workers, NEW a \in Batch, Holds(w, a),
             MarkUploaded(w, a) \/ MarkRetryOrFailed(w, a)
      PROVE  status'[b] = "absent"
  BY <1>3 DEF Holds, MarkUploaded, SetUploaded, MarkRetryOrFailed, SetRetryOrFailed, TypeOK
<1>4. ASSUME NEW a \in Batch, ExpireLease(a)
      PROVE  status'[b] = "absent"
  BY <1>4 DEF ExpireLease, LeaseEnds
<1> QED
  BY <1>1, <1>2, <1>3, <1>4, RowStep

(* A row that does not exist has not been sent, and nobody has it in hand. *)
Unborn(b) == received[b] = 0 /\ \A w \in Workers : b \notin todo[w]

LEMMA UnbornStays ==
  ASSUME TypeOK, [Next]_vars, NEW b \in Batch, status[b] = "absent", Unborn(b)
  PROVE  Unborn(b)'
<1> USE DEF rowVars, instVars, histVars, localVars, Unborn
<1>1. CASE UNCHANGED <<received, todo>>
  BY <1>1
<1>2. ASSUME NEW w \in Workers, UNCHANGED received,
             \A v \in Workers : v # w => todo'[v] = todo[v],
             todo'[w] \subseteq todo[w] \cup Claimable(MaxRetry)
      PROVE  Unborn(b)'
  BY <1>2 DEF Claimable
<1>3. ASSUME NEW w \in Workers, ClaimPending(w)
      PROVE  Unborn(b)'
  BY <1>2, <1>3, ClaimedSubset DEF ClaimPending, TypeOK
<1>4. ASSUME NEW w \in Workers, NEW a \in Batch, Deliver(w, a) \/ UploadFails(w, a)
      PROVE  Unborn(b)'
  BY <1>4 DEF Deliver, UploadFails, Current, Receive, TypeOK
<1>5. ASSUME NEW w \in Workers, NEW a \in Batch, MarkUploaded(w, a) \/ MarkRetryOrFailed(w, a)
      PROVE  Unborn(b)'
  BY <1>2, <1>5 DEF MarkUploaded, MarkRetryOrFailed, Return, TypeOK
<1>6. ASSUME NEW w \in Workers, FinalizeWrite(w) \/ Crash(w)
      PROVE  Unborn(b)'
  BY <1>2, <1>6 DEF FinalizeWrite, Crash, Return, TypeOK
<1>7. ASSUME NEW w \in Workers,
             UploadRunning(w) \/ RunTask(w) \/ CountUploaded(w) \/ UpdateUploaded(w)
               \/ FinalizeRead(w)
      PROVE  Unborn(b)'
  BY <1>1, <1>7 DEF UploadRunning, RunTask, CountUploaded, UpdateUploaded, FinalizeRead
<1>8. ASSUME NEW a \in Batch, ExpireLease(a)
      PROVE  Unborn(b)'
  BY <1>1, <1>8 DEF ExpireLease, LeaseEnds
<1>9. CASE UNCHANGED vars
  BY <1>1, <1>9 DEF vars
<1> QED
  BY <1>3, <1>4, <1>5, <1>6, <1>7, <1>8, <1>9 DEF Next, UploadStep

(* A worker that is not in uploadPendingBatches has no local variables.    *)
IdleClean ==
  \A w \in Workers : pc[w] = "idle" =>
    todo[w] = {} /\ seen[w] = {} /\ count[w] = 0 /\ found[w] = NothingFound

LEMMA IdleStays ==
  ASSUME TypeOK, IdleClean, [Next]_vars
  PROVE  IdleClean'
<1> USE DEF rowVars, instVars, histVars, localVars, IdleClean, Goto
<1>1. ASSUME NEW w \in Workers, Return(w)
      PROVE  IdleClean'
  BY <1>1 DEF Return, TypeOK
<1>2. ASSUME NEW w \in Workers, pc'[w] # "idle",
             \A v \in Workers : v # w =>
               /\ pc'[v] = pc[v] /\ todo'[v] = todo[v] /\ seen'[v] = seen[v]
               /\ count'[v] = count[v] /\ found'[v] = found[v]
      PROVE  IdleClean'
  BY <1>2
<1>3. ASSUME NEW w \in Workers,
             UploadRunning(w) \/ RunTask(w) \/ CountUploaded(w) \/ ClaimPending(w)
               \/ UpdateUploaded(w) \/ FinalizeRead(w)
      PROVE  IdleClean'
  BY <1>2, <1>3 DEF UploadRunning, RunTask, CountUploaded, ClaimPending, UpdateUploaded,
     FinalizeRead, TypeOK
<1>4. ASSUME NEW w \in Workers, NEW a \in Batch, Deliver(w, a) \/ UploadFails(w, a)
      PROVE  IdleClean'
  BY <1>2, <1>4 DEF Deliver, UploadFails, TypeOK
<1>5. ASSUME NEW w \in Workers, NEW a \in Batch, MarkUploaded(w, a) \/ MarkRetryOrFailed(w, a)
      PROVE  IdleClean'
  BY <1>1, <1>2, <1>5 DEF MarkUploaded, MarkRetryOrFailed, TypeOK
<1>6. ASSUME NEW w \in Workers, FinalizeWrite(w) \/ Crash(w)
      PROVE  IdleClean'
  BY <1>1, <1>2, <1>6 DEF FinalizeWrite, Crash, TypeOK
<1>7. CASE UNCHANGED localVars
  BY <1>7
<1> QED
  BY <1>3, <1>4, <1>5, <1>6, <1>7 DEF Next, UploadStep, ExpireLease, vars

-----------------------------------------------------------------------------
(* The retry budget.                                                       *)

LEMMA NextBudget ==
  TypeOK /\ FailedWhenBudgetSpent /\ [Next]_vars => FailedWhenBudgetSpent'
<1> SUFFICES ASSUME TypeOK, FailedWhenBudgetSpent, [Next]_vars, NEW b \in Batch
             PROVE  status'[b] = "failed" <=> retry'[b] = Attempts
  BY DEF FailedWhenBudgetSpent
<1>0. status[b] = "failed" <=> retry[b] = Attempts
  BY DEF FailedWhenBudgetSpent
<1>1. CASE UNCHANGED rowVars
  BY <1>0, <1>1 DEF rowVars
<1>2. ASSUME NEW w \in Workers, ClaimPending(w)
      PROVE  status'[b] = "failed" <=> retry'[b] = Attempts
  BY <1>0, <1>2, ClaimRow, RowsOK DEF Claimable, TypeOK
<1>3. ASSUME NEW w \in Workers, NEW a \in Batch, Holds(w, a), MarkUploaded(w, a)
      PROVE  status'[b] = "failed" <=> retry'[b] = Attempts
  BY <1>0, <1>3 DEF Holds, MarkUploaded, SetUploaded, TypeOK
<1>4. ASSUME NEW w \in Workers, NEW a \in Batch, Holds(w, a), MarkRetryOrFailed(w, a)
      PROVE  status'[b] = "failed" <=> retry'[b] = Attempts
  <2>1. CASE a = b
    <3>1. retry[b] \in 0 .. Attempts /\ retry[b] # Attempts
      BY <1>0, <1>4, <2>1 DEF Holds, TypeOK
    <3>2. retry'[b] = retry[b] + 1
      BY <1>4, <2>1 DEF MarkRetryOrFailed, SetRetryOrFailed, TypeOK
    <3>3. status'[b] = "failed" <=> Spent(MaxRetry, retry[b] + 1)
      BY <1>4, <2>1 DEF MarkRetryOrFailed, SetRetryOrFailed, TypeOK
    <3>4. Spent(MaxRetry, retry[b] + 1) <=> retry[b] + 1 = Attempts
      BY <3>1, RowsOK, AttemptsFacts DEF Spent
    <3> QED
      BY <3>2, <3>3, <3>4
  <2>2. CASE a # b
    BY <1>0, <1>4, <2>2 DEF MarkRetryOrFailed, SetRetryOrFailed, TypeOK
  <2> QED
    BY <2>1, <2>2
<1>5. ASSUME NEW a \in Batch, ExpireLease(a)
      PROVE  status'[b] = "failed" <=> retry'[b] = Attempts
  BY <1>0, <1>5 DEF ExpireLease, LeaseEnds
<1> QED
  BY <1>1, <1>2, <1>3, <1>4, <1>5, RowStep

LEMMA InitBudget == Init => FailedWhenBudgetSpent
BY RowsOK, AttemptsFacts DEF Init, InitWith, RowsInit, FailedWhenBudgetSpent

(* The types and the retry budget hold in every state; neither can be had  *)
(* without the other.                                                      *)
LEMMA TypesAndBudget == Spec => [](TypeOK /\ FailedWhenBudgetSpent)
<1>1. Init => TypeOK /\ FailedWhenBudgetSpent
  BY InitType, InitBudget
<1>2. TypeOK /\ FailedWhenBudgetSpent /\ [Next]_vars
        => (TypeOK /\ FailedWhenBudgetSpent)'
  BY NextType, NextBudget
<1> QED
  BY <1>1, <1>2, PTL DEF Spec

(* Every variable of the uploader keeps its type; in particular no row is  *)
(* marked more often than its budget allows.                               *)
THEOREM Typing == Spec => []TypeOK
BY TypesAndBudget, PTL

(* A row is failed exactly when its attempts are used up: none is given up *)
(* early, and none is left open that no claim would take any more.         *)
THEOREM BudgetSpent == Spec => []FailedWhenBudgetSpent
BY TypesAndBudget, PTL

-----------------------------------------------------------------------------
(* uploaded_batches.  What a worker writes there is its own counter or     *)
(* what it counted in FinalizeInstance, possibly long ago.  The inductive  *)
(* invariant bounds these two as well.                                     *)

CounterInv ==
  /\ CounterNeverOverstates
  /\ \A w \in Workers : count[w] <= Cardinality(Uploaded)
  /\ \A w \in Workers : found[w].uploaded <= Cardinality(Uploaded)

(* The number of uploaded rows never goes down.                            *)
LEMMA UploadedGrows ==
  ASSUME TypeOK, [Next]_vars
  PROVE  /\ Cardinality(Uploaded) \in Nat
         /\ Cardinality(Uploaded)' \in Nat
         /\ Cardinality(Uploaded) <= Cardinality(Uploaded)'
<1>1. Uploaded \subseteq Uploaded'
  BY SettledStays DEF Uploaded, Rows
<1>2. Uploaded' \in SUBSET Batch
  BY DEF Uploaded, Rows
<1>3. IsFiniteSet(Uploaded') /\ Cardinality(Uploaded') \in Nat
  BY <1>2, BatchFinite
<1>4. Cardinality(Uploaded) \in Nat
  BY RowSets, BatchFinite
<1>5. Cardinality(Uploaded) <= Cardinality(Uploaded')
  BY <1>1, <1>3, FS_Subset
<1> QED
  BY <1>3, <1>4, <1>5

(* A successful MarkBatchUploaded adds exactly one.                        *)
LEMMA MarkAddsOne ==
  ASSUME TypeOK, NEW w \in Workers, NEW b \in Batch, Holds(w, b), MarkUploaded(w, b)
  PROVE  Cardinality(Uploaded)' = Cardinality(Uploaded) + 1
<1>1. Uploaded' = Uploaded \cup {b}
  BY DEF Holds, MarkUploaded, SetUploaded, Uploaded, Rows, TypeOK
<1>2. b \notin Uploaded
  BY DEF Holds, Uploaded, Rows
<1>3. IsFiniteSet(Uploaded)
  BY RowSets, BatchFinite
<1>4. Cardinality(Uploaded \cup {b}) = Cardinality(Uploaded) + 1
  BY <1>2, <1>3, FS_AddElement
<1> QED
  BY <1>1, <1>4

LEMMA InitCounter == Init => CounterInv
<1> SUFFICES ASSUME Init
             PROVE  CounterInv
  OBVIOUS
<1>1. Cardinality(Uploaded) \in Nat
  BY RowSets, BatchFinite
<1> QED
  BY <1>1 DEF Init, InitWith, RowsInit, CounterInv, CounterNeverOverstates, NothingFound

LEMMA NextCounter == TypeOK /\ CounterInv /\ [Next]_vars => CounterInv'
<1> SUFFICES ASSUME TypeOK, CounterInv, [Next]_vars
             PROVE  CounterInv'
  OBVIOUS
<1> USE DEF rowVars, instVars, histVars
<1> DEFINE U == Cardinality(Uploaded)
           Bounds == /\ uploadedBatches' <= U'
                     /\ \A v \in Workers : count'[v] <= U'
                     /\ \A v \in Workers : found'[v].uploaded <= U'
<1>0. U \in Nat /\ U' \in Nat /\ U <= U'
  BY UploadedGrows
<1>a. /\ uploadedBatches \in Nat /\ uploadedBatches <= U
      /\ \A v \in Workers : count[v] \in Nat /\ count[v] <= U
      /\ \A v \in Workers : found[v].uploaded \in Nat /\ found[v].uploaded <= U
  BY DEF TypeOK, CounterInv, CounterNeverOverstates
<1>b. Bounds => CounterInv'
  BY DEF CounterInv, CounterNeverOverstates
<1> HIDE DEF U
<1>1. CASE UNCHANGED <<uploadedBatches, count, found>>
  BY <1>0, <1>a, <1>b, <1>1
<1>2. ASSUME NEW w \in Workers, CountUploaded(w)
      PROVE  CounterInv'
  <2>1. count' = [count EXCEPT ![w] = U]
    BY <1>2 DEF CountUploaded, U
  <2>2. UNCHANGED <<uploadedBatches, found>>
    BY <1>2 DEF CountUploaded
  <2> QED
    BY <1>0, <1>a, <1>b, <2>1, <2>2 DEF TypeOK
<1>3. ASSUME NEW w \in Workers, NEW b \in Batch, Holds(w, b), MarkUploaded(w, b)
      PROVE  CounterInv'
  <2>1. U' = U + 1
    BY <1>3, MarkAddsOne DEF U
  <2>2. count' = [count EXCEPT ![w] = @ + 1]
    BY <1>3 DEF MarkUploaded, SetUploaded
  <2>3. UNCHANGED <<uploadedBatches, found>>
    BY <1>3 DEF MarkUploaded, SetUploaded
  <2> QED
    BY <1>0, <1>a, <1>b, <2>1, <2>2, <2>3 DEF TypeOK
<1>4. ASSUME NEW w \in Workers, UpdateUploaded(w)
      PROVE  CounterInv'
  BY <1>0, <1>a, <1>b, <1>4 DEF UpdateUploaded
<1>5. ASSUME NEW w \in Workers, FinalizeRead(w)
      PROVE  CounterInv'
  <2>1. found' = [found EXCEPT ![w] = BatchCounts]
    BY <1>5 DEF FinalizeRead
  <2>2. BatchCounts.uploaded = U
    BY DEF BatchCounts, U
  <2>3. UNCHANGED <<uploadedBatches, count>>
    BY <1>5 DEF FinalizeRead
  <2>4. \A v \in Workers : found'[v].uploaded <= U'
    BY <1>0, <1>a, <2>1, <2>2 DEF TypeOK
  <2> QED
    BY <1>0, <1>a, <1>b, <2>3, <2>4
<1>6. ASSUME NEW w \in Workers, Return(w),
             uploadedBatches' \in {uploadedBatches, found[w].uploaded}
      PROVE  CounterInv'
  <2>1. uploadedBatches' <= U'
    BY <1>0, <1>a, <1>6
  <2>2. \A v \in Workers : count'[v] <= U'
    BY <1>0, <1>a, <1>6 DEF Return, TypeOK
  <2>3. \A v \in Workers : found'[v].uploaded <= U'
    BY <1>0, <1>a, <1>6 DEF Return, TypeOK, NothingFound
  <2> QED
    BY <1>b, <2>1, <2>2, <2>3
<1>7. ASSUME NEW w \in Workers, FinalizeWrite(w)
      PROVE  CounterInv'
  <2>1. CASE pc[w] = "failWrite" /\ ~FailFast
    <3>1. /\ uploadedBatches' = found[w].uploaded
          /\ found' = [found EXCEPT ![w] = NothingFound]
          /\ UNCHANGED count
      BY <1>7, <2>1 DEF FinalizeWrite
    <3> QED
      BY <1>0, <1>a, <1>b, <3>1 DEF TypeOK, NothingFound
  <2>2. CASE ~(pc[w] = "failWrite" /\ ~FailFast)
    BY <1>6, <1>7, <2>2 DEF FinalizeWrite
  <2> QED
    BY <2>1, <2>2
<1>8. ASSUME NEW w \in Workers, Crash(w)
      PROVE  CounterInv'
  BY <1>6, <1>8 DEF Crash
<1>9. ASSUME NEW w \in Workers, NEW b \in Batch, MarkUploaded(w, b), ~Holds(w, b)
      PROVE  CounterInv'
  BY <1>6, <1>9 DEF MarkUploaded, SetUploaded
<1>10. ASSUME NEW w \in Workers, NEW b \in Batch, MarkRetryOrFailed(w, b)
       PROVE  CounterInv'
  <2>1. CASE Holds(w, b)
    BY <1>1, <1>10, <2>1 DEF MarkRetryOrFailed, SetRetryOrFailed
  <2>2. CASE ~Holds(w, b)
    BY <1>6, <1>10, <2>2 DEF MarkRetryOrFailed, SetRetryOrFailed
  <2> QED
    BY <2>1, <2>2
<1>11. ASSUME NEW w \in Workers, UploadRunning(w) \/ RunTask(w) \/ ClaimPending(w)
       PROVE  CounterInv'
  BY <1>1, <1>11 DEF UploadRunning, RunTask, ClaimPending, Claim
<1>12. ASSUME NEW w \in Workers, NEW b \in Batch, Deliver(w, b) \/ UploadFails(w, b)
       PROVE  CounterInv'
  BY <1>1, <1>12 DEF Deliver, UploadFails
<1>13. ASSUME NEW b \in Batch, ExpireLease(b)
       PROVE  CounterInv'
  BY <1>1, <1>13 DEF ExpireLease, LeaseEnds, localVars
<1>14. CASE UNCHANGED vars
  BY <1>1, <1>14 DEF vars
<1> QED
  BY <1>2, <1>3, <1>4, <1>5, <1>7, <1>8, <1>9, <1>10, <1>11, <1>12, <1>13, <1>14
     DEF Next, UploadStep

(* uploaded_batches never claims more uploads than there are, although     *)
(* workers overwrite it with numbers they counted at different times.      *)
THEOREM CounterSafe == Spec => []CounterNeverOverstates
<1>1. Init => CounterInv
  BY InitCounter
<1>2. TypeOK /\ CounterInv /\ [Next]_vars => CounterInv'
  BY NextCounter
<1>3. CounterInv => CounterNeverOverstates
  BY DEF CounterInv
<1> QED
  BY <1>1, <1>2, <1>3, TypesAndBudget, PTL DEF Spec

-----------------------------------------------------------------------------
(* The published status.  FinalizeInstance writes what it counted in an    *)
(* earlier statement; what makes the late write true is that a settled     *)
(* batch never changes.  The inductive invariant says of every worker what *)
(* VerdictSound says of the instance.                                      *)

SoundVerdict(v) ==
  /\ v = "uploaded" => \A b \in Batch : status[b] = "uploaded"
  /\ v = "failed" =>
       /\ \A b \in Batch : status[b] \in {"uploaded", "failed"}
       /\ \E b \in Batch : status[b] = "failed"

Produced == \A b \in Batch : status[b] # "absent"

VerdictInv ==
  /\ Produced
  /\ SoundVerdict(instStatus)
  /\ \A w \in Workers : SoundVerdict(found[w].status)

(* The switch of FinalizeInstance draws the right conclusion from counts   *)
(* of one and the same moment.                                             *)
LEMMA JudgeSound ==
  ASSUME Produced
  PROVE  SoundVerdict(BatchCounts.status)
<1> DEFINE u == Cardinality(Uploaded)
           f == Cardinality(Failed)
           t == Cardinality(Batch)
<1>1. /\ IsFiniteSet(Batch)
      /\ IsFiniteSet(Uploaded) /\ IsFiniteSet(Failed)
      /\ u \in Nat /\ f \in Nat /\ t \in Nat
  BY RowSets, BatchFinite
<1>2. Present = Batch
  BY DEF Produced, Present
<1>3. BatchCounts.status = Judge(t, u, f)
  BY <1>2 DEF BatchCounts
<1>4. ASSUME Judge(t, u, f) = "uploaded"
      PROVE  \A b \in Batch : status[b] = "uploaded"
  <2>1. t = 0 \/ u >= t
    BY <1>4 DEF Judge
  <2>2. u <= t
    BY <1>1, RowSets, FS_Subset
  <2>3. u = t
    BY <1>1, <2>1, <2>2
  <2>4. Uploaded = Batch
    BY <1>1, <2>3, RowSets, FS_Subset
  <2> QED
    BY <2>4 DEF Uploaded, Rows
<1>5. ASSUME Judge(t, u, f) = "failed"
      PROVE  /\ \A b \in Batch : status[b] \in {"uploaded", "failed"}
             /\ \E b \in Batch : status[b] = "failed"
  <2>1. f > 0 /\ u + f >= t
    BY <1>5 DEF Judge
  <2>2. Uploaded \cap Failed = {}
    BY DEF Uploaded, Failed, Rows
  <2>3. Cardinality(Uploaded \cap Failed) = 0
    BY <2>2, FS_EmptySet
  <2>4. Cardinality(Uploaded \cup Failed) = u + f - Cardinality(Uploaded \cap Failed)
    BY <1>1, FS_Union
  <2>5. Uploaded \cup Failed \in SUBSET Batch
    BY RowSets
  <2>6. /\ Cardinality(Uploaded \cup Failed) <= t
        /\ Cardinality(Uploaded \cup Failed) = t => Uploaded \cup Failed = Batch
    BY <1>1, <2>5, FS_Subset
  <2>7. Cardinality(Uploaded \cup Failed) = t
    BY <1>1, <2>1, <2>3, <2>4, <2>6
  <2>8. Uploaded \cup Failed = Batch
    BY <2>6, <2>7
  <2>9. Failed # {}
    BY <2>1, FS_EmptySet
  <2> QED
    BY <2>8, <2>9 DEF Uploaded, Failed, Rows
<1> QED
  BY <1>3, <1>4, <1>5 DEF SoundVerdict

(* A verdict stays true whatever happens next.                             *)
LEMMA VerdictStays ==
  ASSUME TypeOK, [Next]_vars, NEW v, SoundVerdict(v)
  PROVE  SoundVerdict(v)'
BY SettledStays DEF SoundVerdict

LEMMA InitVerdict == Init => VerdictInv
BY DEF Init, InitWith, RowsInit, VerdictInv, Produced, SoundVerdict, NothingFound

LEMMA NextVerdict == TypeOK /\ VerdictInv /\ [Next]_vars => VerdictInv'
<1> SUFFICES ASSUME TypeOK, VerdictInv, [Next]_vars
             PROVE  VerdictInv'
  OBVIOUS
<1> USE DEF rowVars, instVars, histVars
<1> DEFINE Known == {instStatus} \cup {found[w].status : w \in Workers} \cup {"running"}
<1>1. Produced'
  BY SettledStays DEF VerdictInv, Produced
<1>2. \A v : v \in Known => SoundVerdict(v)
  BY DEF VerdictInv, SoundVerdict
<1>3. \A v : v \in Known => SoundVerdict(v)'
  BY <1>2, VerdictStays
<1>4. \A v : v = BatchCounts.status => SoundVerdict(v)'
  BY JudgeSound, VerdictStays DEF VerdictInv
<1> DEFINE Fine == /\ instStatus' \in Known
                   /\ \A w \in Workers : found'[w].status \in Known
<1>5. Fine => VerdictInv'
  BY <1>1, <1>3 DEF VerdictInv, SoundVerdict
<1>6. CASE UNCHANGED <<instStatus, found>>
  BY <1>5, <1>6
<1>7. ASSUME NEW w \in Workers, Return(w), instStatus' \in {instStatus, found[w].status}
      PROVE  VerdictInv'
  BY <1>5, <1>7 DEF Return, NothingFound, TypeOK
<1>8. ASSUME NEW w \in Workers, FinalizeRead(w)
      PROVE  VerdictInv'
  <2>1. found' = [found EXCEPT ![w] = BatchCounts] /\ instStatus' = instStatus
    BY <1>8 DEF FinalizeRead
  <2>2. \A v : v = found'[w].status => SoundVerdict(v)'
    BY <1>4, <2>1 DEF TypeOK
  <2>3. \A v \in Workers : v # w => found'[v].status \in Known
    BY <2>1 DEF TypeOK
  <2>4. instStatus' \in Known
    BY <2>1
  <2>5. \A v : (v = instStatus' \/ \E x \in Workers : v = found'[x].status)
                => SoundVerdict(v)'
    BY <1>3, <2>2, <2>3, <2>4
  <2> QED
    BY <1>1, <2>5 DEF VerdictInv, SoundVerdict
<1>9. ASSUME NEW w \in Workers, FinalizeWrite(w)
      PROVE  VerdictInv'
  <2>1. CASE pc[w] = "failWrite" /\ ~FailFast
    <3>1. instStatus' = found[w].status /\ found' = [found EXCEPT ![w] = NothingFound]
      BY <1>9, <2>1 DEF FinalizeWrite
    <3> QED
      BY <1>5, <3>1 DEF NothingFound, TypeOK
  <2>2. CASE ~(pc[w] = "failWrite" /\ ~FailFast)
    BY <1>7, <1>9, <2>2 DEF FinalizeWrite
  <2> QED
    BY <2>1, <2>2
<1>10. ASSUME NEW w \in Workers, Crash(w)
       PROVE  VerdictInv'
  BY <1>7, <1>10 DEF Crash
<1>11. ASSUME NEW w \in Workers, NEW b \in Batch, MarkUploaded(w, b) \/ MarkRetryOrFailed(w, b)
       PROVE  VerdictInv'
  BY <1>6, <1>7, <1>11 DEF MarkUploaded, SetUploaded, MarkRetryOrFailed, SetRetryOrFailed
<1>12. ASSUME NEW w \in Workers,
              UploadRunning(w) \/ RunTask(w) \/ CountUploaded(w) \/ ClaimPending(w)
                \/ UpdateUploaded(w)
       PROVE  VerdictInv'
  BY <1>6, <1>12 DEF UploadRunning, RunTask, CountUploaded, ClaimPending, Claim, UpdateUploaded
<1>13. ASSUME NEW w \in Workers, NEW b \in Batch, Deliver(w, b) \/ UploadFails(w, b)
       PROVE  VerdictInv'
  BY <1>6, <1>13 DEF Deliver, UploadFails
<1>14. ASSUME NEW b \in Batch, ExpireLease(b)
       PROVE  VerdictInv'
  BY <1>6, <1>14 DEF ExpireLease, LeaseEnds, localVars
<1>15. CASE UNCHANGED vars
  BY <1>6, <1>15 DEF vars
<1> QED
  BY <1>8, <1>9, <1>10, <1>11, <1>12, <1>13, <1>14, <1>15 DEF Next, UploadStep

(* The status published on the instance row is true of the batches.        *)
THEOREM VerdictSafe == Spec => []VerdictSound
<1>1. Init => VerdictInv
  BY InitVerdict
<1>2. TypeOK /\ VerdictInv /\ [Next]_vars => VerdictInv'
  BY NextVerdict
<1>3. VerdictInv => VerdictSound
  BY DEF VerdictInv, SoundVerdict, VerdictSound
<1> QED
  BY <1>1, <1>2, <1>3, TypesAndBudget, PTL DEF Spec

-----------------------------------------------------------------------------
(* Duplicates.  As long as no lease ran out on a claimed batch and no      *)
(* attempt was recorded as failed, the batch belongs to one worker at most *)
(* and has been sent only if that worker is about to record it.            *)

Quiet(b) == ~lapsed[b] /\ retry[b] = 0

Exclusive(b) ==
  /\ status[b] = "running" => lease[b] # "expired"
  /\ status[b] = "pending" => received[b] = 0
  /\ received[b] < Many
  /\ \A w \in Workers : b \in todo[w] =>
       /\ Holds(w, b)
       /\ received[b] > 0 => pc[w] \in {"mark", "fail"} /\ Current(w, b)

ClaimInv == \A b \in Batch : Quiet(b) => Exclusive(b)

(* What a worker gets from a claim are rows it has just claimed.           *)
LEMMA ClaimTodo ==
  ASSUME TypeOK, NEW w \in Workers, ClaimPending(w), NEW b \in todo'[w]
  PROVE  b \in Claimable(MaxRetry) /\ status'[b] = "running" /\ owner'[b] = w
BY ClaimedSubset, RowSets DEF ClaimPending, Claim, TypeOK

LEMMA InitClaim == Init => ClaimInv
BY DEF Init, InitWith, RowsInit, ClaimInv, Exclusive, Quiet, Many

LEMMA NextClaim == TypeOK /\ ClaimInv /\ [Next]_vars => ClaimInv'
<1> SUFFICES ASSUME TypeOK, ClaimInv, [Next]_vars, NEW b \in Batch, Quiet(b)'
             PROVE  Exclusive(b)'
  BY DEF ClaimInv
<1> USE DEF rowVars, instVars, histVars
<1>a. Quiet(b) => Exclusive(b)
  BY DEF ClaimInv
<1>1. CASE UNCHANGED <<rowVars, pc, todo, histVars>>
  BY <1>a, <1>1 DEF Quiet, Exclusive, Holds, Current
<1>2. ASSUME NEW w \in Workers, Return(w), UNCHANGED <<rowVars, histVars>>
      PROVE  Exclusive(b)'
  BY <1>a, <1>2 DEF Return, Quiet, Exclusive, Holds, Current, TypeOK
<1>3. ASSUME NEW w \in Workers, UNCHANGED <<rowVars, todo, histVars>>,
             pc[w] \notin {"mark", "fail"},
             \A v \in Workers : v # w => pc'[v] = pc[v]
      PROVE  Exclusive(b)'
  BY <1>a, <1>3 DEF Quiet, Exclusive, Holds, Current
<1>4. ASSUME NEW w \in Workers,
             UploadRunning(w) \/ RunTask(w) \/ CountUploaded(w) \/ UpdateUploaded(w)
               \/ FinalizeRead(w)
      PROVE  Exclusive(b)'
  BY <1>3, <1>4 DEF UploadRunning, RunTask, CountUploaded, UpdateUploaded,
     FinalizeRead, Goto, TypeOK
<1>5. ASSUME NEW w \in Workers, ClaimPending(w)
      PROVE  Exclusive(b)'
  <2>1. Quiet(b) /\ Exclusive(b)
    BY <1>a, <1>5, ClaimRow DEF Quiet, ClaimPending, Claim
  <2>2. /\ received' = received
        /\ \A v \in Workers : v # w => todo'[v] = todo[v] /\ pc'[v] = pc[v]
    BY <1>5 DEF ClaimPending, Claim, Goto, TypeOK
  <2>3. b \in Claimable(MaxRetry) => status[b] = "pending"
    BY <2>1 DEF Exclusive, Claimable
  <2>4. CASE status'[b] = status[b] /\ owner'[b] = owner[b] /\ lease'[b] = lease[b]
    <3>1. b \in todo'[w] => FALSE
      BY <1>5, <2>3, <2>4, ClaimTodo
    <3> QED
      BY <2>1, <2>2, <2>4, <3>1 DEF Exclusive, Holds, Current
  <2>5. CASE b \in Claimable(MaxRetry) /\ status'[b] = "running" /\ owner'[b] = w /\ lease'[b] = "live"
    <3>1. received[b] = 0 /\ \A v \in Workers : b \notin todo[v]
      BY <2>1, <2>3, <2>5 DEF Exclusive, Holds
    <3> QED
      BY <2>2, <2>5, <3>1 DEF Exclusive, Holds, Many
  <2> QED
    BY <1>5, <2>4, <2>5, ClaimRow
<1>6. ASSUME NEW w \in Workers, NEW c \in Batch, Deliver(w, c) \/ UploadFails(w, c)
      PROVE  Exclusive(b)'
  <2>1. /\ c \in todo[w] /\ Current(w, c) /\ pc[w] = "loop"
        /\ pc'[w] \in {"mark", "fail"}
        /\ \A v \in Workers : v # w => pc'[v] = pc[v]
        /\ UNCHANGED <<rowVars, todo, lapsed>>
        /\ received' = received \/ Receive(c)
    BY <1>6 DEF Deliver, UploadFails, Current, Goto, TypeOK
  <2>2. Quiet(b) /\ Exclusive(b)
    BY <1>a, <2>1 DEF Quiet
  <2>3. CASE b # c
    <3>1. received'[b] = received[b]
      BY <2>1, <2>3 DEF Receive, TypeOK
    <3> QED
      BY <2>1, <2>2, <3>1 DEF Exclusive, Holds, Current
  <2>4. CASE b = c
    <3>1. Holds(w, b) /\ received[b] = 0
      BY <2>1, <2>2, <2>4 DEF Exclusive, TypeOK
    <3>2. received'[b] < Many
      BY <2>1, <2>4, <3>1 DEF Receive, TypeOK, Many
    <3>3. \A v \in Workers : b \in todo'[v] => v = w
      BY <2>1, <2>2, <3>1 DEF Exclusive, Holds
    <3> QED
      BY <2>1, <2>2, <2>4, <3>1, <3>2, <3>3 DEF Exclusive, Holds, Current
  <2> QED
    BY <2>3, <2>4
<1>7. ASSUME NEW w \in Workers, NEW c \in Batch, Holds(w, c),
             MarkUploaded(w, c) \/ MarkRetryOrFailed(w, c)
      PROVE  Exclusive(b)'
  <2>1. /\ Current(w, c)
        /\ todo' = [todo EXCEPT ![w] = @ \ {c}]
        /\ \A v \in Workers : v # w => pc'[v] = pc[v]
        /\ UNCHANGED histVars
        /\ \A a \in Batch : a # c => /\ status'[a] = status[a] /\ owner'[a] = owner[a]
                                   /\ lease'[a] = lease[a] /\ retry'[a] = retry[a]
        /\ status'[c] = "uploaded" \/ retry'[c] > 0
    BY <1>7 DEF MarkUploaded, SetUploaded, MarkRetryOrFailed, SetRetryOrFailed, Holds, TypeOK
  <2>2. CASE b # c
    <3>1. Quiet(b) /\ Exclusive(b)
      BY <1>a, <2>1, <2>2 DEF Quiet
    <3>2. \A v \in Workers : b \in todo'[v] => b \in todo[v]
      BY <2>1 DEF TypeOK
    <3>3. b \in todo[w] => received[b] = 0
      <4>1. ~(Current(w, b) /\ Current(w, c))
        BY <2>2, <2>1 DEF Current, Batch
      <4> QED
        BY <2>1, <3>1, <4>1 DEF Exclusive, TypeOK
    <3>4. \A v \in Workers : v # w => todo'[v] = todo[v]
      BY <2>1 DEF TypeOK
    <3> QED
      BY <2>1, <2>2, <3>1, <3>2, <3>3, <3>4 DEF Exclusive, Holds, Current
  <2>3. CASE b = c
    <3>1. status'[b] = "uploaded" /\ retry' = retry
      BY <1>7, <2>1, <2>3
         DEF Quiet, MarkUploaded, SetUploaded, MarkRetryOrFailed, SetRetryOrFailed, TypeOK
    <3>2. Quiet(b) /\ Exclusive(b)
      BY <1>a, <2>1, <3>1 DEF Quiet
    <3>3. \A v \in Workers : b \notin todo'[v]
      <4>1. b \notin todo'[w]
        BY <2>1, <2>3 DEF TypeOK
      <4>2. \A v \in Workers : v # w => b \notin todo'[v]
        BY <1>7, <2>1, <2>3, <3>2 DEF Exclusive, Holds, TypeOK
      <4> QED
        BY <4>1, <4>2
    <3> QED
      BY <2>1, <3>1, <3>2, <3>3 DEF Exclusive
  <2> QED
    BY <2>2, <2>3
<1>8. ASSUME NEW w \in Workers, NEW c \in Batch, ~Holds(w, c),
             MarkUploaded(w, c) \/ MarkRetryOrFailed(w, c)
      PROVE  Exclusive(b)'
  BY <1>2, <1>8 DEF MarkUploaded, SetUploaded, MarkRetryOrFailed, SetRetryOrFailed
<1>9. ASSUME NEW w \in Workers, FinalizeWrite(w)
      PROVE  Exclusive(b)'
  <2>1. CASE pc[w] = "failWrite" /\ ~FailFast
    BY <1>3, <1>9, <2>1 DEF FinalizeWrite, TypeOK
  <2>2. CASE ~(pc[w] = "failWrite" /\ ~FailFast)
    BY <1>2, <1>9, <2>2 DEF FinalizeWrite
  <2> QED
    BY <2>1, <2>2
<1>10. ASSUME NEW w \in Workers, Crash(w)
       PROVE  Exclusive(b)'
  BY <1>2, <1>10 DEF Crash
<1>11. ASSUME NEW c \in Batch, ExpireLease(c)
       PROVE  Exclusive(b)'
  <2>1. /\ UNCHANGED <<status, owner, retry, received, pc, todo>>
        /\ lease' = [lease EXCEPT ![c] = "expired"]
        /\ lapsed' = [lapsed EXCEPT ![c] = @ \/ status[c] = "running"]
    BY <1>11 DEF ExpireLease, LeaseEnds, localVars
  <2>2. Quiet(b) /\ (b = c => status[b] # "running")
    BY <2>1 DEF Quiet, TypeOK
  <2>3. Exclusive(b)
    BY <1>a, <2>2
  <2>4. status[b] = "running" => lease'[b] = lease[b]
    BY <2>1, <2>2 DEF TypeOK
  <2> QED
    BY <2>1, <2>3, <2>4 DEF Exclusive, Holds, Current
<1>12. CASE UNCHANGED vars
  BY <1>1, <1>12 DEF vars
<1> QED
  BY <1>4, <1>5, <1>6, <1>7, <1>8, <1>9, <1>10, <1>11, <1>12 DEF Next, UploadStep

(* The remote side receives a batch twice only if a lease ran out on it    *)
(* while it was claimed or an attempt was recorded as failed.              *)
THEOREM DuplicatesExplained == Spec => []DuplicateNeedsCause
<1>1. Init => ClaimInv
  BY InitClaim
<1>2. TypeOK /\ ClaimInv /\ [Next]_vars => ClaimInv'
  BY NextClaim
<1>3. TypeOK /\ ClaimInv => DuplicateNeedsCause
  BY DEF ClaimInv, Quiet, Exclusive, DuplicateNeedsCause, TypeOK, Many
<1> QED
  BY <1>1, <1>2, <1>3, TypesAndBudget, PTL DEF Spec

-----------------------------------------------------------------------------
(* BatchUpload implements Delivery.                                        *)

(* A batch about to be recorded as uploaded is on the remote side.         *)
MarkInv ==
  \A w \in Workers, b \in Batch :
    pc[w] = "mark" /\ Current(w, b) => received[b] > 0

LEMMA InitMark == Init => MarkInv
BY DEF Init, InitWith, RowsInit, MarkInv

(* The remote side forgets nothing.                                        *)
LEMMA ReceivedGrows ==
  ASSUME TypeOK, [Next]_vars, NEW b \in Batch
  PROVE  received[b] > 0 => received'[b] > 0
<1> USE DEF rowVars, instVars, histVars, localVars
<1>1. ASSUME NEW w \in Workers, NEW c \in Batch, Deliver(w, c) \/ UploadFails(w, c)
      PROVE  received[b] > 0 => received'[b] > 0
  BY <1>1 DEF Deliver, UploadFails, Receive, TypeOK, Many
<1>2. ASSUME UNCHANGED received
      PROVE  received[b] > 0 => received'[b] > 0
  BY <1>2
<1>3. ASSUME NEW w \in Workers,
             UploadRunning(w) \/ RunTask(w) \/ CountUploaded(w) \/ ClaimPending(w)
               \/ UpdateUploaded(w) \/ FinalizeRead(w) \/ FinalizeWrite(w) \/ Crash(w)
      PROVE  UNCHANGED received
  BY <1>3 DEF UploadRunning, RunTask, CountUploaded, ClaimPending, Claim, UpdateUploaded,
     FinalizeRead, FinalizeWrite, Crash
<1>4. ASSUME NEW w \in Workers, NEW c \in Batch,
             MarkUploaded(w, c) \/ MarkRetryOrFailed(w, c)
      PROVE  UNCHANGED received
  BY <1>4 DEF MarkUploaded, SetUploaded, MarkRetryOrFailed, SetRetryOrFailed
<1>5. ASSUME NEW c \in Batch, ExpireLease(c)
      PROVE  UNCHANGED received
  BY <1>5 DEF ExpireLease, LeaseEnds
<1>6. CASE UNCHANGED vars
  BY <1>6 DEF vars
<1> QED
  BY <1>1, <1>2, <1>3, <1>4, <1>5, <1>6 DEF Next, UploadStep

LEMMA NextMark == TypeOK /\ MarkInv /\ [Next]_vars => MarkInv'
<1> SUFFICES ASSUME TypeOK, MarkInv, [Next]_vars,
                    NEW v \in Workers, NEW c \in Batch, pc'[v] = "mark", Current(v, c)'
             PROVE  received'[c] > 0
  BY DEF MarkInv
<1> USE DEF rowVars, instVars, histVars
<1>1. CASE pc[v] = "mark" /\ todo'[v] = todo[v]
  BY <1>1, ReceivedGrows DEF MarkInv, Current
<1>2. ASSUME NEW w \in Workers, NEW b \in Batch, Deliver(w, b)
      PROVE  received'[c] > 0
  <2>1. CASE v # w
    BY <1>1, <1>2, <2>1 DEF Deliver, Goto, TypeOK
  <2>2. CASE v = w
    <3>1. Current(w, b) /\ todo' = todo /\ received'[b] > 0
      BY <1>2 DEF Deliver, Receive, TypeOK, Many
    <3>2. b = c
      BY <2>2, <3>1 DEF Current, Batch
    <3> QED
      BY <3>1, <3>2
  <2> QED
    BY <2>1, <2>2
<1>3. ASSUME NEW w \in Workers,
             \A u \in Workers : u # w => pc'[u] = pc[u] /\ todo'[u] = todo[u],
             pc'[w] # "mark"
      PROVE  received'[c] > 0
  BY <1>1, <1>3
<1>4. ASSUME NEW w \in Workers,
             UploadRunning(w) \/ RunTask(w) \/ CountUploaded(w) \/ ClaimPending(w)
               \/ UpdateUploaded(w) \/ FinalizeRead(w)
      PROVE  received'[c] > 0
  BY <1>3, <1>4 DEF UploadRunning, RunTask, CountUploaded, ClaimPending, Claim,
     UpdateUploaded, FinalizeRead, Goto, TypeOK
<1>5. ASSUME NEW w \in Workers, FinalizeWrite(w) \/ Crash(w)
      PROVE  received'[c] > 0
  BY <1>3, <1>5 DEF FinalizeWrite, Crash, Return, TypeOK
<1>6. ASSUME NEW w \in Workers, NEW b \in Batch,
             UploadFails(w, b) \/ MarkUploaded(w, b) \/ MarkRetryOrFailed(w, b)
      PROVE  received'[c] > 0
  BY <1>3, <1>6 DEF UploadFails, MarkUploaded, MarkRetryOrFailed, Return, Goto, TypeOK
<1>7. ASSUME NEW b \in Batch, ExpireLease(b)
      PROVE  received'[c] > 0
  BY <1>1, <1>7 DEF ExpireLease, LeaseEnds, localVars
<1>8. CASE UNCHANGED vars
  BY <1>1, <1>8 DEF vars
<1> QED
  BY <1>2, <1>4, <1>5, <1>6, <1>7, <1>8 DEF Next, UploadStep

LEMMA InitDelivery == Init => Promise!Init
BY DEF Init, InitWith, RowsInit, Promise!Init, Outcome, Reached

(* Every step is a step of Delivery or changes nothing Delivery speaks of. *)
LEMMA NextDelivery ==
  TypeOK /\ VerdictInv /\ MarkInv /\ [Next]_vars => [Promise!Next]_(Promise!vars)
<1> SUFFICES ASSUME TypeOK, VerdictInv, MarkInv, [Next]_vars
             PROVE  [Promise!Next]_(Promise!vars)
  OBVIOUS
<1> USE DEF rowVars, instVars, histVars
<1>1. ASSUME status' = status, received' = received, instStatus' = instStatus
      PROVE  UNCHANGED Promise!vars
  BY <1>1 DEF Promise!vars, Outcome, Reached
<1>2. ASSUME NEW w \in Workers,
             UploadRunning(w) \/ RunTask(w) \/ CountUploaded(w) \/ UpdateUploaded(w)
               \/ FinalizeRead(w) \/ Crash(w)
      PROVE  UNCHANGED Promise!vars
  BY <1>1, <1>2 DEF UploadRunning, RunTask, CountUploaded, UpdateUploaded,
     FinalizeRead, Crash
<1>3. ASSUME NEW w \in Workers, ClaimPending(w)
      PROVE  UNCHANGED Promise!vars
  <2>1. received' = received /\ instStatus' = instStatus
    BY <1>3 DEF ClaimPending, Claim
  <2>2. ASSUME NEW b \in Batch
        PROVE  status'[b] = status[b]
                 \/ (status[b] \in {"pending", "running"} /\ status'[b] = "running")
    <3>1. b \in Claimable(MaxRetry) => status[b] \in {"pending", "running"}
      BY DEF Claimable
    <3> QED
      BY <1>3, <3>1, ClaimRow
  <2>3. Outcome' = Outcome
    BY <2>2 DEF Outcome
  <2> QED
    BY <2>1, <2>3 DEF Promise!vars, Reached
<1>4. ASSUME NEW w \in Workers, NEW b \in Batch, Deliver(w, b) \/ UploadFails(w, b)
      PROVE  [Promise!Next]_(Promise!vars)
  <2>1. status' = status /\ instStatus' = instStatus
    BY <1>4 DEF Deliver, UploadFails
  <2>2. CASE received' = received
    BY <1>1, <2>1, <2>2
  <2>3. CASE Receive(b)
    <3>1. Reached' = Reached \cup {b}
      BY <2>3 DEF Reached, Receive, TypeOK, Many
    <3>2. Outcome' = Outcome
      BY <2>1 DEF Outcome
    <3>3. Promise!Reach(b)
      BY <2>1, <3>1, <3>2 DEF Promise!Reach
    <3> QED
      BY <3>3 DEF Promise!Next
  <2> QED
    BY <1>4, <2>2, <2>3 DEF Deliver, UploadFails
<1>5. ASSUME NEW w \in Workers, NEW b \in Batch, MarkUploaded(w, b)
      PROVE  [Promise!Next]_(Promise!vars)
  <2>1. received' = received /\ instStatus' = instStatus
    BY <1>5 DEF MarkUploaded, SetUploaded
  <2>2. CASE Holds(w, b)
    <3>1. status[b] = "running" /\ status' = [status EXCEPT ![b] = "uploaded"]
      BY <1>5, <2>2 DEF MarkUploaded, SetUploaded, Holds
    <3>2. Outcome[b] = "open" /\ Outcome' = [Outcome EXCEPT ![b] = "uploaded"]
      BY <3>1 DEF Outcome, TypeOK
    <3>3. b \in Reached /\ Reached' = Reached
      BY <1>5, <2>1 DEF MarkUploaded, SetUploaded, MarkInv, Reached
    <3>4. Promise!Acknowledge(b)
      BY <2>1, <3>2, <3>3 DEF Promise!Acknowledge
    <3> QED
      BY <3>4 DEF Promise!Next
  <2>3. CASE ~Holds(w, b)
    BY <1>1, <1>5, <2>1, <2>3 DEF MarkUploaded, SetUploaded
  <2> QED
    BY <2>2, <2>3
<1>6. ASSUME NEW w \in Workers, NEW b \in Batch, MarkRetryOrFailed(w, b)
      PROVE  [Promise!Next]_(Promise!vars)
  <2>1. received' = received /\ instStatus' = instStatus
    BY <1>6 DEF MarkRetryOrFailed, SetRetryOrFailed
  <2>2. CASE Holds(w, b) /\ Spent(MaxRetry, retry[b] + 1)
    <3>1. status[b] = "running" /\ status' = [status EXCEPT ![b] = "failed"]
      BY <1>6, <2>2 DEF MarkRetryOrFailed, SetRetryOrFailed, Holds
    <3>2. Outcome[b] = "open" /\ Outcome' = [Outcome EXCEPT ![b] = "failed"]
      BY <3>1 DEF Outcome, TypeOK
    <3>3. Promise!GiveUp(b)
      BY <2>1, <3>2 DEF Promise!GiveUp, Reached
    <3> QED
      BY <3>3 DEF Promise!Next
  <2>3. CASE Holds(w, b) /\ ~Spent(MaxRetry, retry[b] + 1)
    <3>1. status[b] = "running" /\ status' = [status EXCEPT ![b] = "pending"]
      BY <1>6, <2>3 DEF MarkRetryOrFailed, SetRetryOrFailed, Holds
    <3>2. Outcome' = Outcome
      BY <3>1 DEF Outcome, TypeOK
    <3> QED
      BY <2>1, <3>2 DEF Promise!vars, Reached
  <2>4. CASE ~Holds(w, b)
    BY <1>1, <1>6, <2>1, <2>4 DEF MarkRetryOrFailed, SetRetryOrFailed
  <2> QED
    BY <2>2, <2>3, <2>4
<1>7. ASSUME NEW w \in Workers, FinalizeWrite(w)
      PROVE  [Promise!Next]_(Promise!vars)
  <2>1. status' = status /\ received' = received /\ instStatus' = found[w].status
    BY <1>7 DEF FinalizeWrite
  <2>2. SoundVerdict(found[w].status) /\ found[w].status \in Verdict
    BY DEF VerdictInv, TypeOK
  <2>3. Promise!Publish(found[w].status)
    BY <2>1, <2>2 DEF SoundVerdict, Promise!Publish, Promise!AllUploaded,
       Promise!AllSettled, Promise!SomeFailed, Outcome, Reached
  <2> QED
    BY <2>2, <2>3 DEF Promise!Next, Verdict
<1>8. ASSUME NEW b \in Batch, ExpireLease(b)
      PROVE  UNCHANGED Promise!vars
  BY <1>1, <1>8 DEF ExpireLease, LeaseEnds
<1>9. CASE UNCHANGED vars
  BY <1>1, <1>9 DEF vars
<1> QED
  BY <1>2, <1>3, <1>4, <1>5, <1>6, <1>7, <1>8, <1>9 DEF Next, UploadStep

(* The uploader with its claims, leases and late writes keeps the promise  *)
(* of Delivery.                                                            *)
THEOREM UploadImplementsDelivery == Spec => ImplementsDelivery
<1>1. Init => Promise!Init /\ VerdictInv /\ MarkInv
  BY InitDelivery, InitVerdict, InitMark
<1>2. TypeOK /\ VerdictInv /\ MarkInv /\ [Next]_vars => (VerdictInv /\ MarkInv)'
  BY NextVerdict, NextMark
<1>3. TypeOK /\ VerdictInv /\ MarkInv /\ [Next]_vars => [Promise!Next]_(Promise!vars)
  BY NextDelivery
<1> QED
  BY <1>1, <1>2, <1>3, TypesAndBudget, PTL DEF Spec, ImplementsDelivery, Promise!Spec

-----------------------------------------------------------------------------
(* The calls end.  Left(w) bounds the steps that a call has before it; a   *)
(* worker that is in a call always has a step of its own.                  *)

(* What is left to do is at no time something attempted before, apart from *)
(* the batch in hand, which is the lowest one left.                        *)
InTurn ==
  \A w \in Workers : \A a \in todo[w] \cap seen[w] :
    pc[w] \in {"mark", "fail"} /\ \A c \in todo[w] : a <= c

(* A mark is about a batch.                                                *)
BatchInHand ==
  \A w \in Workers : pc[w] \in {"mark", "fail"} => \E b \in Batch : Current(w, b)

(* A worker's step changes nobody else's local variables.                  *)
LEMMA OthersApart ==
  ASSUME TypeOK, NEW v \in Workers, NEW w \in Workers, v # w,
         UploadRunning(v) \/ RunTask(v) \/ UploadStep(v) \/ Crash(v)
  PROVE  pc'[w] = pc[w] /\ todo'[w] = todo[w] /\ seen'[w] = seen[w]
<1> USE DEF Goto
<1>1. ASSUME UploadRunning(v) \/ RunTask(v) \/ CountUploaded(v) \/ ClaimPending(v)
               \/ UpdateUploaded(v) \/ FinalizeRead(v)
      PROVE  pc'[w] = pc[w] /\ todo'[w] = todo[w] /\ seen'[w] = seen[w]
  BY <1>1 DEF UploadRunning, RunTask, CountUploaded, ClaimPending, UpdateUploaded,
     FinalizeRead, TypeOK
<1>2. ASSUME NEW b \in Batch, Deliver(v, b) \/ UploadFails(v, b)
      PROVE  pc'[w] = pc[w] /\ todo'[w] = todo[w] /\ seen'[w] = seen[w]
  BY <1>2 DEF Deliver, UploadFails, TypeOK
<1>3. ASSUME NEW b \in Batch, MarkUploaded(v, b) \/ MarkRetryOrFailed(v, b)
      PROVE  pc'[w] = pc[w] /\ todo'[w] = todo[w] /\ seen'[w] = seen[w]
  BY <1>3 DEF MarkUploaded, MarkRetryOrFailed, Return, TypeOK
<1>4. ASSUME FinalizeWrite(v) \/ Crash(v)
      PROVE  pc'[w] = pc[w] /\ todo'[w] = todo[w] /\ seen'[w] = seen[w]
  BY <1>4 DEF FinalizeWrite, Crash, Return, TypeOK
<1> QED
  BY <1>1, <1>2, <1>3, <1>4 DEF UploadStep

LEMMA TurnsKept ==
  ASSUME TypeOK, InTurn, BatchInHand, [Next]_vars
  PROVE  InTurn' /\ BatchInHand'
<1> SUFFICES ASSUME NEW w \in Workers
             PROVE  /\ \A a \in todo'[w] \cap seen'[w] :
                         pc'[w] \in {"mark", "fail"} /\ \A c \in todo'[w] : a <= c
                    /\ pc'[w] \in {"mark", "fail"} => \E b \in Batch : Current(w, b)'
  BY DEF InTurn, BatchInHand
<1> DEFINE Good == /\ \A a \in todo'[w] \cap seen'[w] :
                        pc'[w] \in {"mark", "fail"} /\ \A c \in todo'[w] : a <= c
                   /\ pc'[w] \in {"mark", "fail"} => \E b \in Batch : Current(w, b)'
<1> USE DEF rowVars, instVars, histVars, localVars, Goto
<1>0. /\ todo[w] \in SUBSET Batch /\ seen[w] \in SUBSET Batch
      /\ \A a \in Batch : a \in Int
  BY RowsOK DEF TypeOK, Batch
<1>1. CASE pc'[w] = pc[w] /\ todo'[w] = todo[w] /\ seen'[w] = seen[w]
  BY <1>1 DEF InTurn, BatchInHand, Current
<1>2. CASE todo'[w] = {} /\ pc'[w] \notin {"mark", "fail"}
  BY <1>2
<1>3. ASSUME UploadRunning(w) \/ RunTask(w) \/ CountUploaded(w) \/ UpdateUploaded(w)
               \/ FinalizeRead(w)
      PROVE  Good
  BY <1>3 DEF UploadRunning, RunTask, CountUploaded, UpdateUploaded, FinalizeRead, TypeOK,
     InTurn
<1>4. CASE ClaimPending(w)
  <2>1. todo'[w] \cap seen'[w] = {} /\ pc'[w] \notin {"mark", "fail"}
    BY <1>4 DEF ClaimPending, TypeOK, Fresh
  <2> QED
    BY <2>1
<1>5. ASSUME NEW b \in Batch, Deliver(w, b) \/ UploadFails(w, b)
      PROVE  Good
  <2>1. /\ Current(w, b) /\ todo' = todo /\ pc[w] = "loop"
        /\ seen'[w] = seen[w] \cup {b} /\ pc'[w] \in {"mark", "fail"}
    BY <1>5 DEF Deliver, UploadFails, TypeOK
  <2> QED
    BY <2>1 DEF InTurn, Current
<1>6. ASSUME NEW b \in Batch, MarkUploaded(w, b) \/ MarkRetryOrFailed(w, b), Holds(w, b)
      PROVE  Good
  <2>1. /\ Current(w, b) /\ seen' = seen
        /\ todo'[w] = todo[w] \ {b} /\ pc'[w] \notin {"mark", "fail"}
    BY <1>6 DEF MarkUploaded, MarkRetryOrFailed, TypeOK
  <2>2. \A a \in todo[w] \cap seen[w] : a = b
    BY <1>0, <2>1 DEF InTurn, Current
  <2> QED
    BY <2>1, <2>2
<1>7. ASSUME NEW b \in Batch, MarkUploaded(w, b) \/ MarkRetryOrFailed(w, b), ~Holds(w, b)
      PROVE  Good
  BY <1>7 DEF MarkUploaded, MarkRetryOrFailed, Return, TypeOK
<1>8. ASSUME FinalizeWrite(w) \/ Crash(w)
      PROVE  Good
  BY <1>8 DEF FinalizeWrite, Crash, Return, TypeOK, InTurn
<1>9. ASSUME NEW v \in Workers, v # w,
             UploadRunning(v) \/ RunTask(v) \/ UploadStep(v) \/ Crash(v)
      PROVE  Good
  BY <1>1, <1>9, OthersApart
<1>10. CASE UNCHANGED localVars
  BY <1>1, <1>10
<1> QED
  BY <1>3, <1>4, <1>5, <1>6, <1>7, <1>8, <1>9, <1>10 DEF Next, UploadStep, ExpireLease, vars

LEMMA TurnsHold == Spec => [](TypeOK /\ InTurn /\ BatchInHand)
<1>1. Init => InTurn /\ BatchInHand
  BY DEF Init, InitWith, InTurn, BatchInHand
<1>2. TypeOK /\ InTurn /\ BatchInHand /\ [Next]_vars => (InTurn /\ BatchInHand)'
  BY TurnsKept
<1> QED
  BY <1>1, <1>2, Typing, PTL DEF Spec

(* How much a batch in seen takes off.                                     *)
LEMMA SeenCounts ==
  ASSUME NEW S \in SUBSET Batch
  PROVE  /\ Cardinality(S) \in 0 .. NumBatches
         /\ \A b \in Batch \ S : Cardinality(S \cup {b}) = Cardinality(S) + 1
<1>1. IsFiniteSet(Batch) /\ Cardinality(Batch) = NumBatches
  BY FS_Interval, RowsOK DEF Batch
<1>2. Cardinality(S) \in Nat /\ Cardinality(S) <= NumBatches
  BY <1>1, BatchFinite, FS_Subset
<1>3. ASSUME NEW b \in Batch \ S
      PROVE  Cardinality(S \cup {b}) = Cardinality(S) + 1
  BY BatchFinite, FS_AddElement
<1> QED
  BY <1>2, <1>3, RowsOK

(* Left, as a function of the three things it looks at.                    *)
LeftOf(p, t, s) ==
  IF p = "idle" THEN 0
  ELSE 8 * (NumBatches - Cardinality(s)) + Turn[p] + (IF p = "loop" /\ t = {} THEN 1 ELSE 0)

LEMMA LeftIs ==
  ASSUME NEW w \in Workers
  PROVE  /\ Left(w) = LeftOf(pc[w], todo[w], seen[w])
         /\ Left(w)' = LeftOf(pc'[w], todo'[w], seen'[w])
BY DEF Left, LeftOf

(* Within a call, an attempt takes away more than all the rest of a turn   *)
(* puts back.                                                              *)
LEMMA LeftSizes ==
  ASSUME NEW p \in Location, NEW t \in SUBSET Batch, NEW s \in SUBSET Batch
  PROVE  /\ LeftOf(p, t, s) \in Nat
         /\ LeftOf(p, t, s) <= 8 * NumBatches + 7
         /\ p = "idle" <=> LeftOf(p, t, s) = 0
<1>1. PICK c \in 0 .. NumBatches : Cardinality(s) = c
  BY SeenCounts
<1>2. p # "idle" => Turn[p] \in 1 .. 7 /\ (p = "loop" => Turn[p] = 3)
  BY DEF Turn, Location
<1>3. CASE p = "idle"
  BY <1>3, RowsOK DEF LeftOf
<1>4. CASE p # "idle"
  <2>1. PICK r \in 1 .. 7 : Turn[p] = r /\ (p = "loop" => r = 3)
    BY <1>2, <1>4
  <2>2. LeftOf(p, t, s) = 8 * (NumBatches - c) + r + (IF p = "loop" /\ t = {} THEN 1 ELSE 0)
    BY <1>1, <1>4, <2>1 DEF LeftOf
  <2> QED
    BY <1>4, <2>1, <2>2, RowsOK
<1> QED
  BY <1>3, <1>4

(* The steps of a turn, and the one that attempts a batch.                 *)
LEMMA TurnsGetShorter ==
  ASSUME NEW p \in Location, NEW q \in Location, NEW t, NEW u, NEW s \in SUBSET Batch
  PROVE  /\ \/ p = "count" /\ q = "loop"
            \/ p = "loop" /\ t = {} /\ q = "loop" /\ u # {}
            \/ p = "loop" /\ q = "finalize"
            \/ p = "mark" /\ q = "update"
            \/ p = "fail" /\ q = "failFinalize"
            \/ p = "update" /\ q = "loop"
            \/ p = "failFinalize" /\ q = "failWrite"
            \/ p = "failWrite" /\ q = "loop"
            \/ p = "finalize" /\ q = "write"
          => LeftOf(q, u, s) < LeftOf(p, t, s)
         /\ \A b \in Batch \ s :
              p = "loop" /\ q \in {"mark", "fail"}
                => LeftOf(q, u, s \cup {b}) < LeftOf(p, t, s)
<1>1. PICK c \in 0 .. NumBatches : Cardinality(s) = c
  BY SeenCounts
<1>2. \A b \in Batch \ s : Cardinality(s \cup {b}) = c + 1
  BY <1>1, SeenCounts
<1> DEFINE Bonus(x, y) == IF x = "loop" /\ y = {} THEN 1 ELSE 0
<1>4. p # "idle" => LeftOf(p, t, s) = 8 * (NumBatches - c) + Turn[p] + Bonus(p, t)
  BY <1>1 DEF LeftOf
<1>5. q # "idle" => LeftOf(q, u, s) = 8 * (NumBatches - c) + Turn[q] + Bonus(q, u)
  BY <1>1 DEF LeftOf
<1>6. \A b \in Batch \ s : q # "idle" =>
        LeftOf(q, u, s \cup {b}) = 8 * (NumBatches - (c + 1)) + Turn[q] + Bonus(q, u)
  BY <1>2 DEF LeftOf
<1> QED
  BY <1>4, <1>5, <1>6, RowsOK DEF Turn, Bonus

(* An UploadStep of a worker brings its call closer to the end.            *)
LEMMA OwnStepOnwards ==
  ASSUME TypeOK, InTurn, TypeOK', NEW w \in Workers, UploadStep(w)
  PROVE  Left(w)' < Left(w)
<1> USE DEF Goto
<1>0. /\ pc[w] \in Location /\ todo[w] \in SUBSET Batch /\ seen[w] \in SUBSET Batch
      /\ pc'[w] \in Location /\ todo'[w] \in SUBSET Batch /\ seen'[w] \in SUBSET Batch
  BY DEF TypeOK
<1> DEFINE Less == LeftOf(pc'[w], todo'[w], seen'[w]) < LeftOf(pc[w], todo[w], seen[w])
<1> SUFFICES Less
  BY LeftIs
<1>r. ASSUME pc[w] # "idle", Return(w)
      PROVE  Less
  <2>1. pc'[w] = "idle"
    BY <1>r DEF Return, TypeOK
  <2>2. LeftOf(pc'[w], todo'[w], seen'[w]) = 0
    BY <2>1 DEF LeftOf
  <2>3. LeftOf(pc[w], todo[w], seen[w]) \in Nat /\ LeftOf(pc[w], todo[w], seen[w]) # 0
    BY <1>0, <1>r, LeftSizes
  <2> QED
    BY <2>2, <2>3
<1>1. CASE CountUploaded(w)
  <2>1. pc[w] = "count" /\ pc'[w] = "loop" /\ seen'[w] = seen[w]
    BY <1>1 DEF CountUploaded, TypeOK
  <2> QED
    BY <1>0, <2>1, TurnsGetShorter
<1>2. CASE ClaimPending(w)
  <2>1. /\ todo[w] = {} /\ pc[w] = "loop" /\ seen'[w] = seen[w]
        /\ pc'[w] = IF Fresh(w) = {} THEN "finalize" ELSE "loop"
        /\ todo'[w] = Fresh(w)
    BY <1>2 DEF ClaimPending, LoopEnds, TypeOK
  <2>2. CASE Fresh(w) = {}
    BY <1>0, <2>1, <2>2, TurnsGetShorter
  <2>3. CASE Fresh(w) # {}
    <3>1. pc'[w] = "loop" /\ todo'[w] # {}
      BY <2>1, <2>3
    <3> QED
      BY <1>0, <2>1, <3>1, TurnsGetShorter
  <2> QED
    BY <2>2, <2>3
<1>3. ASSUME NEW b \in Batch, Deliver(w, b) \/ UploadFails(w, b)
      PROVE  Less
  <2>1. /\ b \in todo[w] /\ pc[w] = "loop" /\ pc'[w] \in {"mark", "fail"}
        /\ seen'[w] = seen[w] \cup {b}
    BY <1>3 DEF Deliver, UploadFails, Current, TypeOK
  <2>2. b \in Batch \ seen[w]
    BY <2>1 DEF InTurn
  <2> QED
    BY <1>0, <2>1, <2>2, TurnsGetShorter
<1>4. ASSUME NEW b \in Batch, MarkUploaded(w, b)
      PROVE  Less
  <2>1. CASE Holds(w, b)
    <3>1. pc[w] = "mark" /\ pc'[w] = "update" /\ seen'[w] = seen[w]
      BY <1>4, <2>1 DEF MarkUploaded, TypeOK
    <3> QED
      BY <1>0, <3>1, TurnsGetShorter
  <2>2. CASE ~Holds(w, b)
    BY <1>4, <1>r, <2>2 DEF MarkUploaded
  <2> QED
    BY <2>1, <2>2
<1>5. ASSUME NEW b \in Batch, MarkRetryOrFailed(w, b)
      PROVE  Less
  <2>1. CASE Holds(w, b)
    <3>1. pc[w] = "fail" /\ pc'[w] = "failFinalize" /\ seen'[w] = seen[w]
      BY <1>5, <2>1 DEF MarkRetryOrFailed, TypeOK
    <3> QED
      BY <1>0, <3>1, TurnsGetShorter
  <2>2. CASE ~Holds(w, b)
    BY <1>5, <1>r, <2>2 DEF MarkRetryOrFailed
  <2> QED
    BY <2>1, <2>2
<1>6. CASE UpdateUploaded(w) \/ FinalizeRead(w)
  <2>1. /\ seen'[w] = seen[w]
        /\ \/ pc[w] = "update" /\ pc'[w] = "loop"
           \/ pc[w] = "finalize" /\ pc'[w] = "write"
           \/ pc[w] = "failFinalize" /\ pc'[w] = "failWrite"
    BY <1>6 DEF UpdateUploaded, FinalizeRead, TypeOK
  <2> QED
    BY <1>0, <2>1, TurnsGetShorter
<1>7. CASE FinalizeWrite(w)
  <2>1. CASE pc[w] = "failWrite" /\ ~FailFast
    <3>1. pc'[w] = "loop" /\ seen'[w] = seen[w]
      BY <1>7, <2>1 DEF FinalizeWrite, TypeOK
    <3>2. LeftOf("loop", todo'[w], seen[w]) < LeftOf("failWrite", todo[w], seen[w])
      BY <1>0, <2>1, <3>1, TurnsGetShorter
    <3> QED
      BY <2>1, <3>1, <3>2
  <2>2. CASE ~(pc[w] = "failWrite" /\ ~FailFast)
    <3>1. pc[w] # "idle" /\ Return(w)
      BY <1>7, <2>2 DEF FinalizeWrite
    <3> QED
      BY <1>r, <3>1
  <2> QED
    BY <2>1, <2>2
<1> QED
  BY <1>1, <1>2, <1>3, <1>4, <1>5, <1>6, <1>7 DEF UploadStep

(* And what anybody else does takes nothing back.                          *)
LEMMA StepOnwards ==
  ASSUME TypeOK, InTurn, TypeOK', [Next]_vars, NEW w \in Workers
  PROVE  Onwards(w)
<1>0. /\ pc[w] \in Location /\ todo[w] \in SUBSET Batch /\ seen[w] \in SUBSET Batch
      /\ pc'[w] \in Location /\ todo'[w] \in SUBSET Batch /\ seen'[w] \in SUBSET Batch
  BY DEF TypeOK
<1>1. Left(w) \in Nat /\ Left(w)' \in Nat
  BY <1>0, LeftIs, LeftSizes
<1>2. UploadStep(w) => Left(w)' < Left(w)
  BY OwnStepOnwards
<1>3. ASSUME pc'[w] = pc[w], todo'[w] = todo[w], seen'[w] = seen[w]
      PROVE  Left(w)' <= Left(w)
  <2>1. Left(w)' = Left(w)
    BY <1>3, LeftIs
  <2> QED
    BY <1>1, <2>1
<1>4. CASE UploadStep(w)
  BY <1>1, <1>2, <1>4 DEF Onwards
<1>5. CASE Crash(w)
  <2>1. pc'[w] = "idle"
    BY <1>5 DEF Crash, Return, TypeOK
  <2>2. Left(w)' = 0
    BY <2>1, LeftIs DEF LeftOf
  <2> QED
    BY <1>1, <1>2, <2>2 DEF Onwards
<1>6. CASE UploadRunning(w) \/ RunTask(w)
  BY <1>2, <1>6 DEF Onwards, UploadRunning, RunTask, Goto
<1>7. ASSUME NEW v \in Workers, v # w,
             UploadRunning(v) \/ RunTask(v) \/ UploadStep(v) \/ Crash(v)
      PROVE  Left(w)' <= Left(w)
  BY <1>3, <1>7, OthersApart
<1>8. CASE UNCHANGED vars \/ \E b \in Batch : ExpireLease(b)
  <2>1. UNCHANGED <<pc, todo, seen>>
    BY <1>8 DEF vars, ExpireLease, localVars
  <2>2. Left(w)' <= Left(w)
    BY <1>3, <2>1
  <2> QED
    BY <1>2, <2>2 DEF Onwards
<1> QED
  BY <1>2, <1>4, <1>5, <1>6, <1>7, <1>8 DEF Next, Onwards

(* Every step of a call brings it closer to its end, whatever rows come    *)
(* back to it and whatever the others do.                                  *)
THEOREM CallsGetShorter == Spec => CallEnds
<1>1. TypeOK /\ InTurn /\ TypeOK' /\ [Next]_vars => [\A w \in Workers : Onwards(w)]_vars
  BY StepOnwards
<1>2. Spec => [](TypeOK /\ InTurn)
  BY TurnsHold, PTL
<1> QED
  BY <1>1, <1>2, PTL DEF Spec, CallEnds

(* A call never takes more than 8 * NumBatches + 7 steps of its own, and   *)
(* it is over when nothing is left.                                        *)
LeftBounded ==
  \A w \in Workers : Left(w) \in 0 .. 8 * NumBatches + 7 /\ (Left(w) = 0 <=> pc[w] = "idle")

THEOREM CallsAreShort == Spec => []LeftBounded
<1>1. TypeOK => LeftBounded
  <2> SUFFICES ASSUME TypeOK, NEW w \in Workers
               PROVE  Left(w) \in 0 .. 8 * NumBatches + 7 /\ (Left(w) = 0 <=> pc[w] = "idle")
    BY DEF LeftBounded
  <2>1. pc[w] \in Location /\ todo[w] \in SUBSET Batch /\ seen[w] \in SUBSET Batch
    BY DEF TypeOK
  <2> QED
    BY <2>1, LeftIs, LeftSizes, RowsOK
<1> QED
  BY <1>1, Typing, PTL

-----------------------------------------------------------------------------
(* Nobody waits for anybody.                                               *)

(* ORDER BY finds a first row: a set of natural numbers has a least one.   *)
LEMMA LeastBatch ==
  ASSUME NEW S \in SUBSET Batch, S # {}
  PROVE  \E a \in S : \A c \in S : a <= c
<1> DEFINE R == OpToRel(<, Nat)
<1>1. IsWellFoundedOn(R, Nat)
  BY NatLessThanWellFounded
<1>2. S \in SUBSET Nat
  BY RowsOK DEF Batch
<1>3. PICK a \in S : \A c \in S : ~(<<c, a>> \in R)
  BY <1>1, <1>2, WFMin
<1>4. ASSUME NEW c \in S
      PROVE  a <= c
  <2>1. c < a => <<c, a>> \in R
    BY <1>2 DEF OpToRel
  <2>2. c \in Nat /\ a \in Nat
    BY <1>2
  <2>3. ~(c < a)
    BY <1>3, <2>1
  <2> QED
    BY <2>2, <2>3
<1> QED
  BY <1>4

(* The guards of UploadStep(w).                                            *)
CanGoOn(w) ==
  \/ pc[w] \in {"count", "update", "failFinalize", "failWrite", "finalize", "write"}
  \/ pc[w] = "loop" /\ todo[w] = {}
  \/ pc[w] \in {"loop", "mark", "fail"} /\ \E b \in Batch : Current(w, b)

NeverBlocked == \A w \in Workers : pc[w] # "idle" => CanGoOn(w)

(* A worker in a call can always take its next step: the claim protocol    *)
(* has no lock it could wait for.  With CallsGetShorter and CallsAreShort: *)
(* a worker that is scheduled is through with its call after so many       *)
(* steps, even if all the others stand still or die.                       *)
THEOREM NobodyWaits == Spec => []NeverBlocked
<1>1. TypeOK /\ BatchInHand => NeverBlocked
  <2> SUFFICES ASSUME TypeOK, BatchInHand, NEW w \in Workers, pc[w] # "idle"
               PROVE  CanGoOn(w)
    BY DEF NeverBlocked
  <2>1. CASE pc[w] = "loop" /\ todo[w] # {}
    <3>1. todo[w] \in SUBSET Batch
      BY DEF TypeOK
    <3> QED
      BY <2>1, <3>1, LeastBatch DEF CanGoOn, Current
  <2> QED
    BY <2>1 DEF CanGoOn, BatchInHand, TypeOK, Location
<1> QED
  BY <1>1, TurnsHold, PTL

-----------------------------------------------------------------------------
(* No row is out of reach.                                                 *)

Open(b) == status[b] \in {"pending", "running"}

(* A row that is not settled is one the next claim may take, or its lease  *)
(* is alive and only has to run out.                                       *)
InReach == \A b \in Batch : Open(b) => b \in Claimable(MaxRetry) \/ lease[b] = "live"

Leased == \A b \in Batch : status[b] = "running" => lease[b] # "none"

LEMMA LeasedStays ==
  ASSUME TypeOK, Leased, [Next]_vars
  PROVE  Leased'
<1> SUFFICES ASSUME NEW b \in Batch
             PROVE  status'[b] = "running" => lease'[b] # "none"
  BY DEF Leased
<1>0. status[b] = "running" => lease[b] # "none"
  BY DEF Leased
<1>1. CASE UNCHANGED rowVars
  BY <1>0, <1>1 DEF rowVars
<1>2. ASSUME NEW w \in Workers, ClaimPending(w)
      PROVE  status'[b] = "running" => lease'[b] # "none"
  BY <1>0, <1>2, ClaimRow
<1>3. ASSUME NEW w \in Workers, NEW a \in Batch, Holds(w, a), MarkUploaded(w, a)
      PROVE  status'[b] = "running" => lease'[b] # "none"
  BY <1>0, <1>3 DEF MarkUploaded, SetUploaded, TypeOK
<1>4. ASSUME NEW w \in Workers, NEW a \in Batch, Holds(w, a), MarkRetryOrFailed(w, a)
      PROVE  status'[b] = "running" => lease'[b] # "none"
  BY <1>0, <1>4 DEF MarkRetryOrFailed, SetRetryOrFailed, TypeOK
<1>5. ASSUME NEW a \in Batch, ExpireLease(a)
      PROVE  status'[b] = "running" => lease'[b] # "none"
  BY <1>0, <1>5 DEF ExpireLease, LeaseEnds, TypeOK
<1> QED
  BY <1>1, <1>2, <1>3, <1>4, <1>5, RowStep

LEMMA LeasedInReach ==
  ASSUME TypeOK, FailedWhenBudgetSpent, Leased
  PROVE  InReach
<1> SUFFICES ASSUME NEW b \in Batch, Open(b), lease[b] # "live"
             PROVE  b \in Claimable(MaxRetry)
  BY DEF InReach
<1>1. retry[b] \in 0 .. Attempts /\ retry[b] # Attempts
  BY DEF TypeOK, FailedWhenBudgetSpent, Open
<1>2. retry[b] <= MaxRetry
  BY <1>1, AttemptsFacts, RowsOK
<1> QED
  BY <1>2 DEF Open, Leased, Claimable, TypeOK, Lease

(* Whatever died where: there is no row that would have to be repaired by  *)
(* hand, because a dead worker had it, because it failed, or because its   *)
(* retries used to be more.  (The limit is constant here; the one of       *)
(* MinuteUpload is not.)                                                   *)
THEOREM NothingStranded == Spec => []InReach
<1>1. Init => Leased
  BY DEF Init, InitWith, RowsInit, Leased
<1>2. TypeOK /\ Leased /\ [Next]_vars => Leased'
  BY LeasedStays
<1>3. TypeOK /\ FailedWhenBudgetSpent /\ Leased => InReach
  BY LeasedInReach
<1> QED
  BY <1>1, <1>2, <1>3, TypesAndBudget, PTL DEF Spec
=============================================================================
