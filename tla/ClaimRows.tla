----------------------------- MODULE ClaimRows -----------------------------
(***************************************************************************)
(* The rows that are uploaded, and the claim protocol on them.  The tables *)
(* big_task_batch, biz_task_batch and uploadlog share it: their            *)
(* repositories issue the same three statements (claim, mark uploaded,     *)
(* mark retry or failed) against the same five columns.  A row stands for  *)
(* one backup file; here it is called a batch, and Batch are the rows of   *)
(* one instance (or of one minute task) in the order they are claimed in.  *)
(*                                                                         *)
(* Time is not a number: lease_until is "none" (NULL), "live" (after now)  *)
(* or "expired", and a live lease may run out at any moment, which covers  *)
(* every length of a lease and every skew between the clocks of the hosts. *)
(*                                                                         *)
(* A claim id is written by one claim and never reused (buildClaimID), and *)
(* a worker makes its next claim only when it has no batch in hand, so     *)
(* "the row still carries the claim id I got" is: the row is running and   *)
(* was last claimed by me.  owner[b] therefore stands for claim_id and     *)
(* owner together.                                                         *)
(***************************************************************************)
EXTENDS Integers, FiniteSets

CONSTANTS
  Workers,        \* upload loops that may run at the same time
  NoWorker,       \* the empty owner / claim_id
  NumBatches,     \* CountChunks of the instance: its batches are 1..NumBatches
  MaxRetry,       \* TaskConfig.MaxRetry (of a task that is reconfigured: the largest)
  PendingLimit    \* Engine.pendingLimit

ASSUME RowsOK ==
  /\ NoWorker \notin Workers
  /\ NumBatches \in Nat
  /\ MaxRetry \in Nat
  /\ PendingLimit \in Nat \ {0}

Batch == 1 .. NumBatches

(* "absent": no row has been created for this batch index yet.             *)
RowStatus == {"absent", "pending", "running", "uploaded", "failed"}

Lease == {"none", "live", "expired"}

(* The remote side counts what it received up to "more than once".         *)
Many == 2

VARIABLES
  status,           \* status column
  owner,            \* who made the claim that claim_id names
  lease,            \* lease_until against the clock
  retry,            \* retry_count
  received,         \* remote side: deliveries of each batch, up to Many
  lapsed            \* history: a lease ran out while the batch was claimed

rowVars == <<status, owner, lease, retry>>
histVars == <<received, lapsed>>

Rows(s) == {b \in Batch : status[b] = s}

Uploaded == Rows("uploaded")

Failed == Rows("failed")

Present == {b \in Batch : status[b] # "absent"}

-----------------------------------------------------------------------------
(* Claiming.                                                               *)

(* Mutant: a running row is taken over although its lease is alive.        *)
ClaimableWhileLeased(m) ==
  {b \in Batch :
     /\ retry[b] <= m
     /\ (status[b] = "pending" /\ lease[b] # "live") \/ status[b] = "running"}

(* Mutant: a running row is never taken over.                              *)
ClaimableOnlyPending(m) ==
  {b \in Batch : retry[b] <= m /\ status[b] = "pending" /\ lease[b] # "live"}

(* Mutant: the claim counts attempts like the marks do, one too many.      *)
ClaimableBelowLimit(m) ==
  {b \in Batch :
     /\ retry[b] + 1 < m
     /\ \/ status[b] = "pending" /\ lease[b] # "live"
        \/ status[b] = "running" /\ lease[b] = "expired"}

(* The WHERE clause of ClaimPendingBatches and ClaimPendingByCode; m is    *)
(* the MaxRetry of the configuration the caller works with.                *)
Claimable(m) ==
  {b \in Batch :
     /\ retry[b] <= m
     /\ \/ status[b] = "pending" /\ lease[b] # "live"
        \/ status[b] = "running" /\ lease[b] = "expired"}

(* ORDER BY batch_index LIMIT k (minute logs: by time_start and id).       *)
Lowest(S, k) == {b \in S : Cardinality({a \in S : a <= b}) <= k}

(* The SET clause.                                                         *)
Claim(w, S) ==
  /\ status' = [b \in Batch |-> IF b \in S THEN "running" ELSE status[b]]
  /\ owner' = [b \in Batch |-> IF b \in S THEN w ELSE owner[b]]
  /\ lease' = [b \in Batch |-> IF b \in S THEN "live" ELSE lease[b]]
  /\ UNCHANGED retry

-----------------------------------------------------------------------------
(* Marking.                                                                *)

(* Mutant: the marks look for the row by its id alone.                     *)
HoldsUnchecked(w, b) == TRUE

(* The WHERE clause of both mark operations: id, claim_id and status.      *)
Holds(w, b) == status[b] = "running" /\ owner[b] = w

SetUploaded(b) ==
  /\ status' = [status EXCEPT ![b] = "uploaded"]
  /\ owner' = [owner EXCEPT ![b] = NoWorker]
  /\ lease' = [lease EXCEPT ![b] = "none"]
  /\ UNCHANGED retry

(* Mutant: the limit is taken to have been passed one attempt later.       *)
SpentLate(m, r) == r > m

(* The condition of both CASE expressions of MarkRetryOrFailed, on the     *)
(* retry_count r they see.  GORM writes the columns of an update map in    *)
(* alphabetical order and MySQL evaluates the assignments of an UPDATE     *)
(* from left to right on the row as it changes: lease_until sees the old   *)
(* retry_count, status the one already incremented.                        *)
Spent(m, r) == r + 1 > m

SetRetryOrFailed(b, m) ==
  /\ owner' = [owner EXCEPT ![b] = NoWorker]
  /\ lease' = [lease EXCEPT ![b] = IF Spent(m, retry[b]) THEN "none" ELSE "live"]
  /\ retry' = [retry EXCEPT ![b] = @ + 1]
  /\ status' = [status EXCEPT ![b] =
                  IF Spent(m, retry[b] + 1) THEN "failed" ELSE "pending"]

-----------------------------------------------------------------------------
(* The remote side and the clock.                                          *)

Receive(b) == received' = [received EXCEPT ![b] = IF @ < Many THEN @ + 1 ELSE @]

(* now passes lease_until.  Nobody compares the clock with the lease of a  *)
(* failed row.                                                             *)
LeaseEnds(b) ==
  /\ lease[b] = "live"
  /\ status[b] # "failed"
  /\ lease' = [lease EXCEPT ![b] = "expired"]
  /\ lapsed' = [lapsed EXCEPT ![b] = @ \/ status[b] = "running"]
  /\ UNCHANGED <<status, owner, retry, received>>

(* Every row is new and s.                                                 *)
RowsInit(s) ==
  /\ status = [b \in Batch |-> s]
  /\ owner = [b \in Batch |-> NoWorker]
  /\ lease = [b \in Batch |-> "none"]
  /\ retry = [b \in Batch |-> 0]
  /\ received = [b \in Batch |-> 0]
  /\ lapsed = [b \in Batch |-> FALSE]

-----------------------------------------------------------------------------
(* Properties of the rows, whoever works on them.                          *)

(* MaxRetry = n gives n attempts, and one when n is 0.                     *)
Attempts == IF MaxRetry = 0 THEN 1 ELSE MaxRetry

(* The claim protocol (the claim with the claim_id checks of the two mark  *)
(* operations) keeps workers apart: the remote side receives a batch twice *)
(* only if a lease ran out on a claimed batch or an attempt was recorded   *)
(* as failed.  Concurrency and restarts alone never duplicate.             *)
DuplicateNeedsCause ==
  \A b \in Batch : received[b] = Many => lapsed[b] \/ retry[b] > 0

(* A batch is failed exactly when its attempts are used up, and no batch   *)
(* is left that is neither settled nor claimable because its retry_count   *)
(* has passed the limit.                                                   *)
FailedWhenBudgetSpent ==
  \A b \in Batch : status[b] = "failed" <=> retry[b] = Attempts

(* upload_pending_test.go, KeepsPendingWhenRetryHeadroomRemains, and the   *)
(* fake repositories: a batch is failed only when its retry_count is above *)
(* MaxRetry, so that MaxRetry = 1 leaves a second attempt.                 *)
FailedOnlyAboveLimit == \A b \in Batch : status[b] = "failed" => retry[b] > MaxRetry
=============================================================================
