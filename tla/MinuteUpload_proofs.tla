------------------------- MODULE MinuteUpload_proofs -------------------------
(***************************************************************************)
(* Theorems about MinuteUpload, for any number of workers and logs and     *)
(* whatever values a reload gives max_retry.  They are those of            *)
(* BatchUpload_proofs for the minute loop; what differs is that the claims *)
(* and marks of different workers work with different limits.              *)
(***************************************************************************)
EXTENDS MinuteUpload, TLAPS, FiniteSetTheorems, WellFoundedInduction

-----------------------------------------------------------------------------
(* Types.                                                                  *)

LEMMA AttemptsFacts ==
  /\ Attempts \in Nat
  /\ Attempts > 0
  /\ Attempts >= MaxRetry
BY RowsOK DEF Attempts

(* An open log has used fewer attempts than the largest limit allows, so   *)
(* that another mark does not take it beyond, whatever limit it goes by.   *)
AttemptLeft == \A b \in Batch : status[b] # "failed" => retry[b] < Attempts

Types == TypeOK /\ AttemptLeft

(* Every copy of the limit is one that task_config has had.                *)
LEMMA LimitType ==
  ASSUME TypeOK, NEW w \in Workers
  PROVE  cfg[w] \in 0 .. MaxRetry
<1>1. cfg[w] \in Limits \cup {0}
  BY DEF TypeOK
<1>2. \A m \in Limits : m \in 0 .. MaxRetry
  BY LimitsOK
<1>3. 0 \in 0 .. MaxRetry
  BY RowsOK
<1> QED
  BY <1>1, <1>2, <1>3

(* What a claim takes, and what it does to one row.                        *)
Taken(w) == Lowest(Claimable(cfg[w]), PendingLimit)

LEMMA ClaimRow ==
  ASSUME NEW w \in Workers, ClaimPendingByCode(w), NEW b \in Batch
  PROVE  \/ /\ b \in Taken(w) /\ b \in Claimable(cfg[w])
            /\ status'[b] = "running" /\ owner'[b] = w /\ lease'[b] = "live"
            /\ retry'[b] = retry[b]
         \/ /\ b \notin Taken(w)
            /\ status'[b] = status[b] /\ owner'[b] = owner[b]
            /\ lease'[b] = lease[b] /\ retry'[b] = retry[b]
BY DEF ClaimPendingByCode, Claim, Taken, Lowest

(* What a worker has in hand behind a claim are the rows it has claimed.   *)
LEMMA ClaimTodo ==
  ASSUME TypeOK, NEW w \in Workers, ClaimPendingByCode(w)
  PROVE  /\ Taken(w) \in SUBSET Batch
         /\ todo'[w] = Taken(w)
         /\ \A v \in Workers : v # w => todo'[v] = todo[v] /\ pc'[v] = pc[v]
         /\ pc'[w] \in {"idle", "loop"}
         /\ UNCHANGED <<received, lapsed, retry, config>>
<1>1. Taken(w) \in SUBSET Batch
  BY DEF Taken, Lowest, Claimable
<1>2. CASE Taken(w) = {}
  BY <1>1, <1>2 DEF ClaimPendingByCode, Claim, Taken, Return, TypeOK, histVars
<1>3. CASE Taken(w) # {}
  BY <1>1, <1>3 DEF ClaimPendingByCode, Claim, Taken, TypeOK, histVars
<1> QED
  BY <1>2, <1>3, <1>1

LEMMA ReturnType ==
  ASSUME TypeOK, NEW w \in Workers, Return(w)
  PROVE  /\ pc' \in [Workers -> Location]
         /\ todo' \in [Workers -> SUBSET Batch]
         /\ cfg' \in [Workers -> Limits \cup {0}]
BY DEF TypeOK, Return, Location

LEMMA InitTypes == Init => Types
<1> SUFFICES ASSUME Init
             PROVE  Types
  OBVIOUS
<1>1. AttemptLeft
  BY AttemptsFacts DEF Init, RowsInit, AttemptLeft
<1>2. /\ status \in [Batch -> RowStatus \ {"absent"}]
      /\ owner \in [Batch -> Workers \cup {NoWorker}]
      /\ lease \in [Batch -> Lease]
      /\ lapsed \in [Batch -> BOOLEAN]
  BY DEF Init, RowsInit, RowStatus, Lease
<1>3. retry \in [Batch -> 0 .. Attempts] /\ received \in [Batch -> 0 .. Many]
  BY AttemptsFacts DEF Init, RowsInit, Many
<1>4. /\ config \in Limits
      /\ cfg \in [Workers -> Limits \cup {0}]
      /\ pc \in [Workers -> Location]
      /\ todo \in [Workers -> SUBSET Batch]
  BY LimitsOK DEF Init, Location
<1> QED
  BY <1>1, <1>2, <1>3, <1>4 DEF Types, TypeOK

(* Every step keeps the types and the attempts that are left.              *)
LEMMA NextTypes == Types /\ [Next]_vars => Types'
<1> SUFFICES ASSUME Types, [Next]_vars
             PROVE  Types'
  OBVIOUS
<1> USE DEF rowVars, histVars, localVars
<1>0. TypeOK /\ AttemptLeft
  BY DEF Types
<1>a. ASSUME UNCHANGED rowVars
      PROVE  AttemptLeft'
  BY <1>0, <1>a DEF AttemptLeft
<1>1. ASSUME NEW w \in Workers, Start(w)
      PROVE  Types'
  <2>1. cfg' \in [Workers -> Limits \cup {0}] /\ pc' \in [Workers -> Location]
    BY <1>0, <1>1 DEF Start, Goto, TypeOK, Location
  <2> QED
    BY <1>0, <1>a, <1>1, <2>1 DEF Start, Types, TypeOK
<1>2. ASSUME NEW w \in Workers, ClaimPendingByCode(w)
      PROVE  Types'
  <2>1. status' \in [Batch -> RowStatus \ {"absent"}]
    BY <1>0, <1>2 DEF ClaimPendingByCode, Claim, TypeOK, RowStatus
  <2>2. owner' \in [Batch -> Workers \cup {NoWorker}] /\ lease' \in [Batch -> Lease]
    BY <1>0, <1>2 DEF ClaimPendingByCode, Claim, TypeOK, Lease
  <2>3. todo' \in [Workers -> SUBSET Batch] /\ cfg' \in [Workers -> Limits \cup {0}]
          /\ pc' \in [Workers -> Location]
    <3>1. CASE Taken(w) = {}
      BY <1>0, <1>2, <3>1, ReturnType DEF ClaimPendingByCode, Taken
    <3>2. CASE Taken(w) # {}
      <4>1. todo' = [todo EXCEPT ![w] = Taken(w)] /\ UNCHANGED <<cfg, pc>>
        BY <1>2, <3>2 DEF ClaimPendingByCode, Taken
      <4> QED
        BY <1>0, <1>2, <4>1, ClaimTodo DEF TypeOK
    <3> QED
      BY <3>1, <3>2
  <2>4. UNCHANGED <<retry, received, lapsed, config>>
    BY <1>0, <1>2, ClaimTodo
  <2>5. AttemptLeft'
    <3>1. \A b \in Batch : b \in Claimable(cfg[w]) => status[b] # "failed"
      BY DEF Claimable
    <3> QED
      BY <1>0, <1>2, <2>4, <3>1, ClaimRow DEF AttemptLeft
  <2> QED
    BY <1>0, <2>1, <2>2, <2>3, <2>4, <2>5 DEF Types, TypeOK
<1>3. ASSUME NEW w \in Workers, NEW b \in Batch, Deliver(w, b) \/ UploadFails(w, b)
      PROVE  Types'
  <2>1. received' \in [Batch -> 0 .. Many]
    BY <1>0, <1>3 DEF Deliver, UploadFails, Receive, TypeOK, Many
  <2>2. pc' \in [Workers -> Location]
    BY <1>0, <1>3 DEF Deliver, UploadFails, Goto, TypeOK, Location
  <2>3. UNCHANGED <<rowVars, config, cfg, todo, lapsed>>
    BY <1>3 DEF Deliver, UploadFails
  <2> QED
    BY <1>0, <1>a, <2>1, <2>2, <2>3 DEF Types, TypeOK
<1>4. ASSUME NEW w \in Workers, NEW b \in Batch, MarkUploaded(w, b)
      PROVE  Types'
  <2>1. CASE Holds(w, b)
    <3>1. status' \in [Batch -> RowStatus \ {"absent"}] /\ lease' \in [Batch -> Lease]
            /\ owner' \in [Batch -> Workers \cup {NoWorker}]
      BY <1>0, <1>4, <2>1 DEF MarkUploaded, SetUploaded, TypeOK, RowStatus, Lease
    <3>2. todo' = [todo EXCEPT ![w] = @ \ {b}] /\ pc' = [pc EXCEPT ![w] = "loop"]
      BY <1>4, <2>1 DEF MarkUploaded
    <3>3. todo' \in [Workers -> SUBSET Batch] /\ pc' \in [Workers -> Location]
      BY <1>0, <3>2 DEF TypeOK, Location
    <3>4. UNCHANGED <<retry, cfg, config, received, lapsed>>
      BY <1>4, <2>1 DEF MarkUploaded, SetUploaded
    <3>5. \A c \in Batch : status'[c] # "failed" => status[c] # "failed"
      BY <1>0, <1>4, <2>1 DEF MarkUploaded, SetUploaded, Holds, TypeOK
    <3>6. AttemptLeft'
      BY <1>0, <3>4, <3>5 DEF AttemptLeft
    <3> QED
      BY <1>0, <3>1, <3>3, <3>4, <3>6 DEF Types, TypeOK
  <2>2. CASE ~Holds(w, b)
    BY <1>0, <1>a, <1>4, <2>2, ReturnType DEF MarkUploaded, Types, TypeOK
  <2> QED
    BY <2>1, <2>2
<1>5. ASSUME NEW w \in Workers, NEW b \in Batch, MarkRetryOrFailed(w, b)
      PROVE  Types'
  <2>1. Return(w) /\ UNCHANGED <<received, lapsed, config>>
    BY <1>5 DEF MarkRetryOrFailed
  <2>2. CASE Holds(w, b)
    <3>1. /\ owner' = [owner EXCEPT ![b] = NoWorker]
          /\ retry' = [retry EXCEPT ![b] = @ + 1]
          /\ status' = [status EXCEPT ![b] =
                          IF Spent(cfg[w], retry[b] + 1) THEN "failed" ELSE "pending"]
          /\ lease' = [lease EXCEPT ![b] = IF Spent(cfg[w], retry[b]) THEN "none" ELSE "live"]
      BY <1>5, <2>2 DEF MarkRetryOrFailed, SetRetryOrFailed
    <3>2. retry[b] < Attempts /\ retry[b] \in 0 .. Attempts
      BY <1>0, <2>2 DEF AttemptLeft, Holds, TypeOK
    <3>3. retry' \in [Batch -> 0 .. Attempts]
      BY <1>0, <3>1, <3>2, AttemptsFacts DEF TypeOK
    <3>4. status' \in [Batch -> RowStatus \ {"absent"}]
      BY <1>0, <3>1 DEF TypeOK, RowStatus
    <3>5. lease' \in [Batch -> Lease] /\ owner' \in [Batch -> Workers \cup {NoWorker}]
      BY <1>0, <3>1 DEF TypeOK, Lease
    <3>6. AttemptLeft'
      <4> SUFFICES ASSUME NEW c \in Batch, status'[c] # "failed"
                   PROVE  retry'[c] < Attempts
        BY DEF AttemptLeft
      <4>1. CASE c = b
        <5>1. ~Spent(cfg[w], retry[b] + 1)
          BY <1>0, <3>1, <4>1 DEF TypeOK
        <5>2. retry[b] + 1 + 1 <= cfg[w]
          BY <1>0, <3>2, <5>1, LimitType, AttemptsFacts, RowsOK DEF Spent
        <5>3. retry'[b] = retry[b] + 1
          BY <1>0, <3>1 DEF TypeOK
        <5> QED
          BY <1>0, <3>2, <4>1, <5>2, <5>3, LimitType, AttemptsFacts, RowsOK
      <4>2. CASE c # b
        BY <1>0, <3>1, <4>2 DEF AttemptLeft, TypeOK
      <4> QED
        BY <4>1, <4>2
    <3> QED
      BY <1>0, <2>1, <3>3, <3>4, <3>5, <3>6, ReturnType DEF Types, TypeOK
  <2>3. CASE ~Holds(w, b)
    BY <1>0, <1>a, <1>5, <2>1, <2>3, ReturnType DEF MarkRetryOrFailed, Types, TypeOK
  <2> QED
    BY <2>2, <2>3
<1>6. ASSUME NEW w \in Workers, Crash(w)
      PROVE  Types'
  BY <1>0, <1>a, <1>6, ReturnType DEF Crash, Types, TypeOK
<1>7. ASSUME NEW b \in Batch, ExpireLease(b)
      PROVE  Types'
  BY <1>0, <1>7 DEF ExpireLease, LeaseEnds, Types, TypeOK, AttemptLeft, Lease
<1>8. CASE Reload
  BY <1>0, <1>a, <1>8 DEF Reload, Types, TypeOK
<1>9. CASE UNCHANGED vars
  BY <1>0, <1>a, <1>9 DEF vars, Types, TypeOK
<1> QED
  BY <1>1, <1>2, <1>3, <1>4, <1>5, <1>6, <1>7, <1>8, <1>9
     DEF Next, UploadStep, RunMinuteUploader, UploadPendingForTask

(* Every variable keeps its type; no log is tried more often than the      *)
(* largest max_retry allows.                                               *)
THEOREM Typing == Spec => []TypeOK
<1>1. Types => TypeOK
  BY DEF Types
<1> QED
  BY <1>1, InitTypes, NextTypes, PTL DEF Spec
-----------------------------------------------------------------------------
(* Duplicates.                                                             *)

(* No lease of the log ran out while it was claimed, and no attempt failed.*)
Quiet(b) == ~lapsed[b] /\ retry[b] = 0

(* Then at most one worker has it in hand, under a claim that is its own,  *)
(* and it was received at most once.                                       *)
Exclusive(b) ==
  /\ status[b] = "running" => lease[b] # "expired"
  /\ status[b] = "pending" => received[b] = 0
  /\ received[b] < Many
  /\ \A w \in Workers : b \in todo[w] =>
       /\ Holds(w, b)
       /\ received[b] > 0 => pc[w] \in {"mark", "fail"} /\ Current(w, b)

ClaimInv == \A b \in Batch : Quiet(b) => Exclusive(b)

LEMMA InitClaim == Init => ClaimInv
BY DEF Init, RowsInit, ClaimInv, Exclusive, Quiet, Many

LEMMA NextClaim == TypeOK /\ ClaimInv /\ [Next]_vars => ClaimInv'
<1> SUFFICES ASSUME TypeOK, ClaimInv, [Next]_vars, NEW b \in Batch, Quiet(b)'
             PROVE  Exclusive(b)'
  BY DEF ClaimInv
<1> USE DEF rowVars, histVars
<1>a. Quiet(b) => Exclusive(b)
  BY DEF ClaimInv
<1>1. CASE UNCHANGED <<rowVars, pc, todo, histVars>>
  BY <1>a, <1>1 DEF Quiet, Exclusive, Holds, Current
<1>2. ASSUME NEW w \in Workers, Return(w), UNCHANGED <<rowVars, histVars>>
      PROVE  Exclusive(b)'
  BY <1>a, <1>2 DEF Return, Quiet, Exclusive, Holds, Current, TypeOK
<1>3. ASSUME NEW w \in Workers, Start(w)
      PROVE  Exclusive(b)'
  BY <1>a, <1>3 DEF Start, Goto, Quiet, Exclusive, Holds, Current, TypeOK
<1>4. ASSUME NEW w \in Workers, ClaimPendingByCode(w)
      PROVE  Exclusive(b)'
  <2>1. Quiet(b) /\ Exclusive(b)
    BY <1>a, <1>4, ClaimTodo DEF Quiet
  <2>2. b \in Claimable(cfg[w]) => status[b] = "pending"
    BY <2>1 DEF Exclusive, Claimable
  <2>3. CASE b \notin Taken(w)
    <3>1. status'[b] = status[b] /\ owner'[b] = owner[b] /\ lease'[b] = lease[b]
      BY <1>4, <2>3, ClaimRow
    <3>2. b \notin todo'[w]
      BY <1>4, <2>3, ClaimTodo
    <3> QED
      BY <1>4, <2>1, <3>1, <3>2, ClaimTodo DEF Exclusive, Holds, Current
  <2>4. CASE b \in Taken(w)
    <3>1. status'[b] = "running" /\ owner'[b] = w /\ lease'[b] = "live" /\ status[b] = "pending"
      BY <1>4, <2>2, <2>4, ClaimRow
    <3>2. received[b] = 0 /\ \A v \in Workers : b \notin todo[v]
      BY <2>1, <3>1 DEF Exclusive, Holds
    <3> QED
      BY <1>4, <3>1, <3>2, ClaimTodo DEF Exclusive, Holds, Many
  <2> QED
    BY <2>3, <2>4
<1>5. ASSUME NEW w \in Workers, NEW c \in Batch, Deliver(w, c) \/ UploadFails(w, c)
      PROVE  Exclusive(b)'
  <2>1. /\ c \in todo[w] /\ Current(w, c) /\ pc[w] = "loop"
        /\ pc'[w] \in {"mark", "fail"}
        /\ \A v \in Workers : v # w => pc'[v] = pc[v]
        /\ UNCHANGED <<rowVars, todo, lapsed>>
        /\ received' = received \/ Receive(c)
    BY <1>5 DEF Deliver, UploadFails, Current, Goto, TypeOK
  <2>2. Quiet(b) /\ Exclusive(b)
    BY <1>a, <2>1 DEF Quiet
  <2>3. CASE b # c
    <3>1. received'[b] = received[b]
      BY <2>1, <2>3 DEF Receive, TypeOK
    <3> QED
      BY <2>1, <2>2, <3>1 DEF Exclusive, Holds, Current
  <2>4. CASE b = c
    <3>1. Holds(w, b) /\ received[b] = 0
      BY <2>1, <2>2, <2>4 DEF Exclusive, TypeOK
    <3>2. received'[b] < Many
      BY <2>1, <2>4, <3>1 DEF Receive, TypeOK, Many
    <3>3. \A v \in Workers : b \in todo'[v] => v = w
      BY <2>1, <2>2, <3>1 DEF Exclusive, Holds
    <3> QED
      BY <2>1, <2>2, <2>4, <3>1, <3>2, <3>3 DEF Exclusive, Holds, Current
  <2> QED
    BY <2>3, <2>4
<1>6. ASSUME NEW w \in Workers, NEW c \in Batch, Holds(w, c), MarkUploaded(w, c)
      PROVE  Exclusive(b)'
  <2>1. /\ Current(w, c)
        /\ todo' = [todo EXCEPT ![w] = @ \ {c}]
        /\ \A v \in Workers : v # w => pc'[v] = pc[v]
        /\ UNCHANGED <<retry, received, lapsed>>
        /\ \A a \in Batch : a # c => /\ status'[a] = status[a] /\ owner'[a] = owner[a]
                                   /\ lease'[a] = lease[a]
        /\ status'[c] = "uploaded"
    BY <1>6 DEF MarkUploaded, SetUploaded, Holds, TypeOK
  <2>2. Quiet(b) /\ Exclusive(b)
    BY <1>a, <2>1 DEF Quiet
  <2>3. \A v \in Workers : v # w => todo'[v] = todo[v]
    BY <2>1 DEF TypeOK
  <2>4. CASE b # c
    <3>1. b \in todo'[w] => b \in todo[w]
      BY <2>1 DEF TypeOK
    <3>2. b \in todo[w] => received[b] = 0
      <4>1. ~(Current(w, b) /\ Current(w, c))
        BY <2>4 DEF Current, Batch
      <4> QED
        BY <2>1, <2>2, <4>1 DEF Exclusive, TypeOK
    <3> QED
      BY <2>1, <2>2, <2>3, <2>4, <3>1, <3>2 DEF Exclusive, Holds, Current
  <2>5. CASE b = c
    <3>1. \A v \in Workers : b \notin todo'[v]
      <4>1. b \notin todo'[w]
        BY <2>1, <2>5 DEF TypeOK
      <4>2. \A v \in Workers : v # w => b \notin todo'[v]
        BY <1>6, <2>2, <2>3, <2>5 DEF Exclusive, Holds
      <4> QED
        BY <4>1, <4>2
    <3> QED
      BY <2>1, <2>2, <2>5, <3>1 DEF Exclusive
  <2> QED
    BY <2>4, <2>5
<1>7. ASSUME NEW w \in Workers, NEW c \in Batch, Holds(w, c), MarkRetryOrFailed(w, c)
      PROVE  Exclusive(b)'
  <2>1. /\ Return(w)
        /\ UNCHANGED <<received, lapsed>>
        /\ retry' = [retry EXCEPT ![c] = @ + 1]
        /\ \A a \in Batch : a # c => /\ status'[a] = status[a] /\ owner'[a] = owner[a]
                                   /\ lease'[a] = lease[a]
    BY <1>7 DEF MarkRetryOrFailed, SetRetryOrFailed, TypeOK
  <2>2. b # c
    <3>1. retry'[c] = retry[c] + 1 /\ retry[c] \in Nat
      BY <2>1, AttemptsFacts DEF TypeOK
    <3> QED
      BY <3>1 DEF Quiet
  <2>3. Quiet(b) /\ Exclusive(b)
    BY <1>a, <2>1, <2>2 DEF Quiet, TypeOK
  <2> QED
    BY <2>1, <2>2, <2>3 DEF Exclusive, Holds, Current, Return, TypeOK
<1>8. ASSUME NEW w \in Workers, NEW c \in Batch, ~Holds(w, c),
             MarkUploaded(w, c) \/ MarkRetryOrFailed(w, c)
      PROVE  Exclusive(b)'
  BY <1>2, <1>8 DEF MarkUploaded, MarkRetryOrFailed
<1>9. ASSUME NEW w \in Workers, Crash(w)
      PROVE  Exclusive(b)'
  BY <1>2, <1>9 DEF Crash
<1>10. ASSUME NEW c \in Batch, ExpireLease(c)
       PROVE  Exclusive(b)'
  <2>1. /\ UNCHANGED <<status, owner, retry, received, pc, todo>>
        /\ lease' = [lease EXCEPT ![c] = "expired"]
        /\ lapsed' = [lapsed EXCEPT ![c] = @ \/ status[c] = "running"]
    BY <1>10 DEF ExpireLease, LeaseEnds, localVars
  <2>2. Quiet(b) /\ (b = c => status[b] # "running")
    BY <2>1 DEF Quiet, TypeOK
  <2>3. Exclusive(b)
    BY <1>a, <2>2
  <2>4. status[b] = "running" => lease'[b] = lease[b]
    BY <2>1, <2>2 DEF TypeOK
  <2> QED
    BY <2>1, <2>3, <2>4 DEF Exclusive, Holds, Current
<1>11. CASE Reload
  BY <1>1, <1>11 DEF Reload, localVars
<1>12. CASE UNCHANGED vars
  BY <1>1, <1>12 DEF vars, localVars
<1> QED
  BY <1>3, <1>4, <1>5, <1>6, <1>7, <1>8, <1>9, <1>10, <1>11, <1>12
     DEF Next, UploadStep, RunMinuteUploader, UploadPendingForTask

(* The remote side receives a log twice only if a lease ran out on it      *)
(* while it was claimed or an attempt was recorded as failed, also when a  *)
(* reload makes the workers' limits differ.                                *)
THEOREM DuplicatesExplained == Spec => []DuplicateNeedsCause
<1>1. TypeOK /\ ClaimInv => DuplicateNeedsCause
  <2> SUFFICES ASSUME TypeOK, ClaimInv, NEW b \in Batch, received[b] = Many, ~lapsed[b]
               PROVE  retry[b] > 0
    BY DEF DuplicateNeedsCause
  <2>1. retry[b] \in Nat
    BY AttemptsFacts DEF TypeOK
  <2>2. retry[b] # 0
    BY DEF ClaimInv, Exclusive, Quiet, Many
  <2> QED
    BY <2>1, <2>2
<1> QED
  BY <1>1, InitClaim, NextClaim, Typing, PTL DEF Spec

-----------------------------------------------------------------------------
(* MinuteUpload implements Delivery.                                       *)

(* A log about to be recorded as uploaded is on the remote side.           *)
MarkInv ==
  \A w \in Workers, b \in Batch :
    pc[w] = "mark" /\ Current(w, b) => received[b] > 0

LEMMA InitMark == Init => MarkInv
BY DEF Init, MarkInv

LEMMA NextMark == TypeOK /\ MarkInv /\ [Next]_vars => MarkInv'
<1> SUFFICES ASSUME TypeOK, MarkInv, [Next]_vars,
                    NEW v \in Workers, NEW c \in Batch, pc'[v] = "mark", Current(v, c)'
             PROVE  received'[c] > 0
  BY DEF MarkInv
<1> USE DEF rowVars, histVars, localVars
<1>1. CASE pc[v] = "mark" /\ todo'[v] = todo[v] /\ received' = received
  BY <1>1 DEF MarkInv, Current
<1>2. ASSUME NEW w \in Workers, UNCHANGED received, pc'[w] # "mark",
             \A u \in Workers : u # w => pc'[u] = pc[u] /\ todo'[u] = todo[u]
      PROVE  received'[c] > 0
  BY <1>1, <1>2
<1>3. ASSUME NEW w \in Workers, NEW b \in Batch, Deliver(w, b) \/ UploadFails(w, b)
      PROVE  received'[c] > 0
  <2>1. /\ Current(w, b) /\ todo' = todo
        /\ \A u \in Workers : u # w => pc'[u] = pc[u]
        /\ received' = received \/ Receive(b)
    BY <1>3 DEF Deliver, UploadFails, Goto, TypeOK
  <2>2. received[c] > 0 => received'[c] > 0
    BY <2>1 DEF Receive, TypeOK, Many
  <2>3. CASE v # w
    BY <2>1, <2>2, <2>3 DEF MarkInv, Current
  <2>4. CASE v = w
    <3>1. Deliver(w, b)
      BY <1>3, <2>4 DEF UploadFails, Goto, TypeOK
    <3>2. b = c
      BY <2>1, <2>4 DEF Current, Batch
    <3> QED
      BY <3>1, <3>2 DEF Deliver, Receive, TypeOK, Many
  <2> QED
    BY <2>3, <2>4
<1>4. ASSUME NEW w \in Workers, Start(w) \/ ClaimPendingByCode(w) \/ Crash(w)
      PROVE  received'[c] > 0
  <2>1. CASE Start(w)
    BY <1>2, <2>1 DEF Start, Goto, TypeOK
  <2>2. CASE ClaimPendingByCode(w)
    BY <1>2, <2>2, ClaimTodo
  <2>3. CASE Crash(w)
    BY <1>2, <2>3 DEF Crash, Return, TypeOK
  <2> QED
    BY <1>4, <2>1, <2>2, <2>3
<1>5. ASSUME NEW w \in Workers, NEW b \in Batch, MarkUploaded(w, b) \/ MarkRetryOrFailed(w, b)
      PROVE  received'[c] > 0
  BY <1>2, <1>5 DEF MarkUploaded, MarkRetryOrFailed, Return, TypeOK
<1>6. ASSUME NEW b \in Batch, ExpireLease(b)
      PROVE  received'[c] > 0
  BY <1>1, <1>6 DEF ExpireLease, LeaseEnds
<1>7. CASE Reload \/ UNCHANGED vars
  BY <1>1, <1>7 DEF Reload, vars
<1> QED
  BY <1>3, <1>4, <1>5, <1>6, <1>7
     DEF Next, UploadStep, RunMinuteUploader, UploadPendingForTask

(* Every step is a step of Delivery or changes nothing Delivery speaks of. *)
LEMMA NextDelivery ==
  TypeOK /\ MarkInv /\ [Next]_vars => [Promise!Next]_(Promise!vars)
<1> SUFFICES ASSUME TypeOK, MarkInv, [Next]_vars
             PROVE  [Promise!Next]_(Promise!vars)
  OBVIOUS
<1> USE DEF rowVars, histVars, localVars
<1>1. ASSUME status' = status, received' = received
      PROVE  UNCHANGED Promise!vars
  BY <1>1 DEF Promise!vars, Outcome, Reached
<1>2. ASSUME NEW w \in Workers, Start(w) \/ Crash(w)
      PROVE  UNCHANGED Promise!vars
  BY <1>1, <1>2 DEF Start, Crash
<1>3. ASSUME NEW w \in Workers, ClaimPendingByCode(w)
      PROVE  UNCHANGED Promise!vars
  <2>1. received' = received
    BY <1>3, ClaimTodo
  <2>2. ASSUME NEW b \in Batch
        PROVE  status'[b] = status[b]
                 \/ (status[b] \in {"pending", "running"} /\ status'[b] = "running")
    <3>1. b \in Claimable(cfg[w]) => status[b] \in {"pending", "running"}
      BY DEF Claimable
    <3> QED
      BY <1>3, <3>1, ClaimRow
  <2>3. Outcome' = Outcome
    BY <2>2 DEF Outcome
  <2> QED
    BY <2>1, <2>3 DEF Promise!vars, Reached
<1>4. ASSUME NEW w \in Workers, NEW b \in Batch, Deliver(w, b) \/ UploadFails(w, b)
      PROVE  [Promise!Next]_(Promise!vars)
  <2>1. status' = status /\ (received' = received \/ Receive(b))
    BY <1>4 DEF Deliver, UploadFails
  <2>2. CASE received' = received
    BY <1>1, <2>1, <2>2
  <2>3. CASE Receive(b)
    <3>1. Reached' = Reached \cup {b}
      BY <2>3 DEF Reached, Receive, TypeOK, Many
    <3>2. Outcome' = Outcome
      BY <2>1 DEF Outcome
    <3>3. Promise!Reach(b)
      BY <3>1, <3>2 DEF Promise!Reach
    <3> QED
      BY <3>3 DEF Promise!Next
  <2> QED
    BY <2>1, <2>2, <2>3
<1>5. ASSUME NEW w \in Workers, NEW b \in Batch, MarkUploaded(w, b)
      PROVE  [Promise!Next]_(Promise!vars)
  <2>1. received' = received
    BY <1>5 DEF MarkUploaded
  <2>2. CASE Holds(w, b)
    <3>1. status[b] = "running" /\ status' = [status EXCEPT ![b] = "uploaded"]
      BY <1>5, <2>2 DEF MarkUploaded, SetUploaded, Holds
    <3>2. Outcome[b] = "open" /\ Outcome' = [Outcome EXCEPT ![b] = "uploaded"]
      BY <3>1 DEF Outcome, TypeOK
    <3>3. b \in Reached /\ Reached' = Reached
      BY <1>5, <2>1 DEF MarkUploaded, MarkInv, Reached
    <3>4. Promise!Acknowledge(b)
      BY <3>2, <3>3 DEF Promise!Acknowledge
    <3> QED
      BY <3>4 DEF Promise!Next
  <2>3. CASE ~Holds(w, b)
    BY <1>1, <1>5, <2>1, <2>3 DEF MarkUploaded
  <2> QED
    BY <2>2, <2>3
<1>6. ASSUME NEW w \in Workers, NEW b \in Batch, MarkRetryOrFailed(w, b)
      PROVE  [Promise!Next]_(Promise!vars)
  <2>1. received' = received
    BY <1>6 DEF MarkRetryOrFailed
  <2>2. CASE Holds(w, b) /\ Spent(cfg[w], retry[b] + 1)
    <3>1. status[b] = "running" /\ status' = [status EXCEPT ![b] = "failed"]
      BY <1>6, <2>2 DEF MarkRetryOrFailed, SetRetryOrFailed, Holds
    <3>2. Outcome[b] = "open" /\ Outcome' = [Outcome EXCEPT ![b] = "failed"]
      BY <3>1 DEF Outcome, TypeOK
    <3>3. Promise!GiveUp(b)
      BY <2>1, <3>2 DEF Promise!GiveUp, Reached
    <3> QED
      BY <3>3 DEF Promise!Next
  <2>3. CASE Holds(w, b) /\ ~Spent(cfg[w], retry[b] + 1)
    <3>1. status[b] = "running" /\ status' = [status EXCEPT ![b] = "pending"]
      BY <1>6, <2>3 DEF MarkRetryOrFailed, SetRetryOrFailed, Holds
    <3>2. Outcome' = Outcome
      BY <3>1 DEF Outcome, TypeOK
    <3> QED
      BY <2>1, <3>2 DEF Promise!vars, Reached
  <2>4. CASE ~Holds(w, b)
    BY <1>1, <1>6, <2>1, <2>4 DEF MarkRetryOrFailed
  <2> QED
    BY <2>2, <2>3, <2>4
<1>7. ASSUME NEW b \in Batch, ExpireLease(b)
      PROVE  UNCHANGED Promise!vars
  BY <1>1, <1>7 DEF ExpireLease, LeaseEnds
<1>8. CASE Reload \/ UNCHANGED vars
  BY <1>1, <1>8 DEF Reload, vars
<1> QED
  BY <1>2, <1>3, <1>4, <1>5, <1>6, <1>7, <1>8
     DEF Next, UploadStep, RunMinuteUploader, UploadPendingForTask

(* The minute uploader, too, keeps the promise of Delivery, across claims, *)
(* lost claims, retries and reloads.                                       *)
THEOREM UploadImplementsDelivery == Spec => ImplementsDelivery
<1>1. Init => Promise!Init
  BY DEF Init, RowsInit, Promise!Init, Outcome, Reached
<1> QED
  BY <1>1, InitMark, NextMark, NextDelivery, Typing, PTL DEF Spec, ImplementsDelivery,
     Promise!Spec
-----------------------------------------------------------------------------
(* The runs end.                                                           *)

(* A run claims until there is nothing to claim, and every round of it     *)
(* either uploads something or is the last.                                *)
Turn(p, t) == CASE p = "loop" /\ t = {} -> 3
                [] p = "loop" /\ t # {} -> 2
                [] OTHER -> 1

(* What a run that is at p with t in hand has before it while u is         *)
(* uploaded, and the bound this is for the steps of worker w.              *)
LeftOf(p, t, u) ==
  IF p = "idle" THEN 0 ELSE 3 * (NumBatches - Cardinality(u)) + Turn(p, t)

Left(w) == LeftOf(pc[w], todo[w], Uploaded)

Onwards(w) ==
  /\ UploadStep(w) => Left(w)' < Left(w)
  /\ pc[w] # "idle" => Left(w)' <= Left(w)

RunEnds == [][\A w \in Workers : Onwards(w)]_vars

LEMMA LeftIs ==
  ASSUME NEW w \in Workers
  PROVE  Left(w)' = LeftOf(pc'[w], todo'[w], Uploaded')
BY DEF Left, LeftOf, Turn

LEMMA RowCounts ==
  ASSUME NEW S \in SUBSET Batch
  PROVE  /\ IsFiniteSet(S)
         /\ Cardinality(S) \in 0 .. NumBatches
         /\ \A b \in Batch \ S : Cardinality(S \cup {b}) = Cardinality(S) + 1
         /\ \A R \in SUBSET S : Cardinality(R) <= Cardinality(S)
<1>1. IsFiniteSet(Batch) /\ Cardinality(Batch) = NumBatches
  BY FS_Interval, RowsOK DEF Batch
<1>2. IsFiniteSet(S) /\ Cardinality(S) <= NumBatches
  BY <1>1, FS_Subset
<1>3. Cardinality(S) \in Nat
  BY <1>2, FS_CardinalityType
<1>4. \A b \in Batch \ S : Cardinality(S \cup {b}) = Cardinality(S) + 1
  BY <1>2, FS_AddElement
<1>5. \A R \in SUBSET S : Cardinality(R) <= Cardinality(S)
  BY <1>2, FS_Subset
<1> QED
  BY <1>2, <1>3, <1>4, <1>5, RowsOK

LEMMA LeftSizes ==
  ASSUME NEW p \in Location, NEW t, NEW u \in SUBSET Batch
  PROVE  /\ LeftOf(p, t, u) \in 0 .. 3 * NumBatches + 3
         /\ p = "idle" <=> LeftOf(p, t, u) = 0
<1>1. PICK c \in 0 .. NumBatches : Cardinality(u) = c
  BY RowCounts
<1>2. Turn(p, t) \in 1 .. 3
  BY DEF Turn
<1>3. CASE p = "idle"
  BY <1>3, RowsOK DEF LeftOf
<1>4. CASE p # "idle"
  <2>1. LeftOf(p, t, u) = 3 * (NumBatches - c) + Turn(p, t)
    BY <1>1, <1>4 DEF LeftOf
  <2> QED
    BY <1>2, <1>4, <2>1, RowsOK
<1> QED
  BY <1>3, <1>4

(* A round goes on, an upload more than pays for the round after it, and   *)
(* what the others upload only helps.                                      *)
LEMMA RoundsGetShorter ==
  ASSUME NEW p \in Location \ {"idle"}, NEW t, NEW u \in SUBSET Batch,
         NEW q \in Location, NEW r
  PROVE  /\ q = "idle" => LeftOf(q, r, u) < LeftOf(p, t, u)
         /\ p = "loop" /\ t = {} /\ q = "loop" /\ r # {} => LeftOf(q, r, u) < LeftOf(p, t, u)
         /\ p = "loop" /\ t # {} /\ q \in {"mark", "fail"}
              => LeftOf(q, r, u) < LeftOf(p, t, u)
         /\ \A b \in Batch \ u : p = "mark" /\ q = "loop"
              => LeftOf(q, r, u \cup {b}) < LeftOf(p, t, u)
         /\ \A v \in SUBSET Batch : u \subseteq v => LeftOf(p, t, v) <= LeftOf(p, t, u)
<1>1. PICK c \in 0 .. NumBatches : Cardinality(u) = c
  BY RowCounts
<1>2. \A b \in Batch \ u : Cardinality(u \cup {b}) = c + 1
  BY <1>1, RowCounts
<1>3. /\ LeftOf(p, t, u) = 3 * (NumBatches - c) + Turn(p, t)
      /\ q # "idle" => LeftOf(q, r, u) = 3 * (NumBatches - c) + Turn(q, r)
      /\ \A b \in Batch \ u : q # "idle" =>
           LeftOf(q, r, u \cup {b}) = 3 * (NumBatches - (c + 1)) + Turn(q, r)
  BY <1>1, <1>2 DEF LeftOf
<1>4. Turn(p, t) \in 1 .. 3 /\ Turn(q, r) \in 1 .. 3
  BY DEF Turn
<1>5. q = "idle" => LeftOf(q, r, u) < LeftOf(p, t, u)
  BY <1>3, <1>4, RowsOK DEF LeftOf
<1>6. p = "loop" /\ t = {} /\ q = "loop" /\ r # {} => LeftOf(q, r, u) < LeftOf(p, t, u)
  BY <1>3, RowsOK DEF Turn
<1>7. p = "loop" /\ t # {} /\ q \in {"mark", "fail"} => LeftOf(q, r, u) < LeftOf(p, t, u)
  BY <1>3, RowsOK DEF Turn
<1>8. \A b \in Batch \ u : p = "mark" /\ q = "loop"
        => LeftOf(q, r, u \cup {b}) < LeftOf(p, t, u)
  BY <1>3, <1>4, RowsOK
<1>9. ASSUME NEW v \in SUBSET Batch, u \subseteq v
      PROVE  LeftOf(p, t, v) <= LeftOf(p, t, u)
  <2>1. PICK d \in 0 .. NumBatches : Cardinality(v) = d
    BY RowCounts
  <2>2. c <= d
    BY <1>1, <1>9, <2>1, RowCounts
  <2>3. LeftOf(p, t, v) = 3 * (NumBatches - d) + Turn(p, t)
    BY <2>1 DEF LeftOf
  <2> QED
    BY <1>3, <1>4, <2>2, <2>3, RowsOK
<1> QED
  BY <1>5, <1>6, <1>7, <1>8, <1>9

(* A worker's step changes nobody else's local variables.                  *)
LEMMA OthersApart ==
  ASSUME TypeOK, NEW v \in Workers, NEW w \in Workers, v # w,
         RunMinuteUploader(v) \/ UploadPendingForTask(v) \/ UploadStep(v) \/ Crash(v)
  PROVE  pc'[w] = pc[w] /\ todo'[w] = todo[w]
<1>1. CASE Start(v)
  BY <1>1 DEF Start, Goto, TypeOK
<1>2. CASE ClaimPendingByCode(v)
  BY <1>2, ClaimTodo
<1>3. ASSUME NEW b \in Batch, Deliver(v, b) \/ UploadFails(v, b)
      PROVE  pc'[w] = pc[w] /\ todo'[w] = todo[w]
  BY <1>3 DEF Deliver, UploadFails, Goto, TypeOK
<1>4. ASSUME NEW b \in Batch, MarkUploaded(v, b) \/ MarkRetryOrFailed(v, b)
      PROVE  pc'[w] = pc[w] /\ todo'[w] = todo[w]
  BY <1>4 DEF MarkUploaded, MarkRetryOrFailed, Return, TypeOK
<1>5. CASE Crash(v)
  BY <1>5 DEF Crash, Return, TypeOK
<1> QED
  BY <1>1, <1>2, <1>3, <1>4, <1>5 DEF UploadStep, RunMinuteUploader, UploadPendingForTask

(* An uploaded log stays uploaded.                                         *)
LEMMA UploadedGrows ==
  ASSUME TypeOK, [Next]_vars
  PROVE  Uploaded \in SUBSET Batch /\ Uploaded' \in SUBSET Batch /\ Uploaded \subseteq Uploaded'
<1> SUFFICES ASSUME NEW b \in Batch, status[b] = "uploaded"
             PROVE  status'[b] = "uploaded"
  BY DEF Uploaded, Rows
<1> USE DEF rowVars, histVars
<1>1. CASE UNCHANGED rowVars
  BY <1>1
<1>2. ASSUME NEW w \in Workers, ClaimPendingByCode(w)
      PROVE  status'[b] = "uploaded"
  BY <1>2, ClaimRow DEF Claimable
<1>3. ASSUME NEW w \in Workers, NEW a \in Batch, Holds(w, a),
             MarkUploaded(w, a) \/ MarkRetryOrFailed(w, a)
      PROVE  status'[b] = "uploaded"
  BY <1>3 DEF MarkUploaded, MarkRetryOrFailed, SetUploaded, SetRetryOrFailed, Holds, TypeOK
<1>4. ASSUME NEW a \in Batch, ExpireLease(a)
      PROVE  status'[b] = "uploaded"
  BY <1>4 DEF ExpireLease, LeaseEnds
<1> QED
  BY <1>1, <1>2, <1>3, <1>4 DEF Next, UploadStep, RunMinuteUploader, UploadPendingForTask,
     Start, Deliver, UploadFails, MarkUploaded, MarkRetryOrFailed, Crash, Reload, vars

(* A step of a run of its own, claim by claim and log by log, leaves it    *)
(* with less before it.                                                    *)
LEMMA OwnStepOnwards ==
  ASSUME TypeOK, TypeOK', [Next]_vars, NEW w \in Workers, UploadStep(w)
  PROVE  Left(w)' < Left(w)
<1> USE DEF Goto
<1>0. /\ pc[w] \in Location /\ pc'[w] \in Location
      /\ Uploaded \in SUBSET Batch /\ Uploaded' \in SUBSET Batch
  BY UploadedGrows DEF TypeOK
<1> DEFINE Less == LeftOf(pc'[w], todo'[w], Uploaded') < LeftOf(pc[w], todo[w], Uploaded)
<1> SUFFICES Less
  BY LeftIs DEF Left
<1>r. ASSUME pc[w] # "idle", Return(w)
      PROVE  Less
  <2>1. pc'[w] = "idle"
    BY <1>r DEF Return, TypeOK
  <2>2. LeftOf(pc'[w], todo'[w], Uploaded') = 0
    BY <2>1 DEF LeftOf
  <2>3. LeftOf(pc[w], todo[w], Uploaded) \in Nat /\ LeftOf(pc[w], todo[w], Uploaded) # 0
    BY <1>0, <1>r, LeftSizes, RowsOK
  <2> QED
    BY <2>2, <2>3
<1>1. CASE ClaimPendingByCode(w)
  <2>1. pc[w] = "loop" /\ todo[w] = {}
    BY <1>1 DEF ClaimPendingByCode
  <2>2. CASE Taken(w) = {}
    BY <1>1, <1>r, <2>1, <2>2 DEF ClaimPendingByCode, Taken
  <2>3. CASE Taken(w) # {}
    <3>1. pc'[w] = "loop" /\ todo'[w] # {}
      BY <1>1, <2>1, <2>3, ClaimTodo DEF ClaimPendingByCode, Taken
    <3>2. Uploaded' = Uploaded
      BY <1>1, ClaimRow DEF Uploaded, Rows, Claimable
    <3> QED
      BY <1>0, <2>1, <3>1, <3>2, RoundsGetShorter
  <2> QED
    BY <2>2, <2>3
<1>2. ASSUME NEW b \in Batch, Deliver(w, b) \/ UploadFails(w, b)
      PROVE  Less
  <2>1. /\ pc[w] = "loop" /\ todo[w] # {} /\ pc'[w] \in {"mark", "fail"}
        /\ Uploaded' = Uploaded
    BY <1>2 DEF Deliver, UploadFails, Current, TypeOK, rowVars, Uploaded, Rows
  <2> QED
    BY <1>0, <2>1, RoundsGetShorter
<1>3. ASSUME NEW b \in Batch, MarkUploaded(w, b)
      PROVE  Less
  <2>1. CASE Holds(w, b)
    <3>1. pc[w] = "mark" /\ pc'[w] = "loop"
      BY <1>3, <2>1 DEF MarkUploaded, TypeOK
    <3>2. b \notin Uploaded /\ Uploaded' = Uploaded \cup {b}
      BY <1>3, <2>1 DEF MarkUploaded, SetUploaded, Holds, Uploaded, Rows, TypeOK
    <3> QED
      BY <1>0, <3>1, <3>2, RoundsGetShorter
  <2>2. CASE ~Holds(w, b)
    BY <1>3, <1>r, <2>2 DEF MarkUploaded
  <2> QED
    BY <2>1, <2>2
<1>4. ASSUME NEW b \in Batch, MarkRetryOrFailed(w, b)
      PROVE  Less
  BY <1>4, <1>r DEF MarkRetryOrFailed
<1> QED
  BY <1>1, <1>2, <1>3, <1>4 DEF UploadStep

LEMMA StepOnwards ==
  ASSUME TypeOK, TypeOK', [Next]_vars, NEW w \in Workers
  PROVE  Onwards(w)
<1>0. /\ pc[w] \in Location /\ pc'[w] \in Location
      /\ Uploaded \in SUBSET Batch /\ Uploaded' \in SUBSET Batch
      /\ Uploaded \subseteq Uploaded'
  BY UploadedGrows DEF TypeOK
<1>1. Left(w) \in Nat /\ Left(w)' \in Nat
  BY <1>0, LeftIs, LeftSizes, RowsOK DEF Left
<1>2. UploadStep(w) => Left(w)' < Left(w)
  BY OwnStepOnwards
<1>3. ASSUME pc'[w] = pc[w], todo'[w] = todo[w], pc[w] # "idle"
      PROVE  Left(w)' <= Left(w)
  BY <1>0, <1>3, LeftIs, RoundsGetShorter DEF Left
<1>4. CASE UploadStep(w)
  BY <1>1, <1>2, <1>4 DEF Onwards
<1>5. CASE Crash(w)
  <2>1. pc'[w] = "idle"
    BY <1>5 DEF Crash, Return, TypeOK
  <2>2. Left(w)' = 0
    BY <2>1, LeftIs DEF LeftOf
  <2> QED
    BY <1>1, <1>2, <2>2 DEF Onwards
<1>6. CASE Start(w)
  BY <1>2, <1>6 DEF Onwards, Start, Goto
<1>7. ASSUME NEW v \in Workers, v # w,
             RunMinuteUploader(v) \/ UploadPendingForTask(v) \/ UploadStep(v) \/ Crash(v)
      PROVE  Onwards(w)
  BY <1>2, <1>3, <1>7, OthersApart DEF Onwards
<1>8. CASE UNCHANGED vars \/ Reload \/ \E b \in Batch : ExpireLease(b)
  <2>1. UNCHANGED <<pc, todo>>
    BY <1>8 DEF vars, ExpireLease, Reload, localVars
  <2> QED
    BY <1>2, <1>3, <2>1 DEF Onwards
<1> QED
  BY <1>4, <1>5, <1>6, <1>7, <1>8 DEF Next, RunMinuteUploader, UploadPendingForTask

(* uploadMinuteByTaskCode ends, whatever the others, a reload or the clock *)
(* do meanwhile: it claims as long as there is something to claim, but     *)
(* every step of its own leaves it with fewer to go, and nobody else's     *)
(* leaves it with more.                                                    *)
THEOREM RunsGetShorter == Spec => RunEnds
<1>1. TypeOK /\ TypeOK' /\ [Next]_vars => [\A w \in Workers : Onwards(w)]_vars
  BY StepOnwards
<1> QED
  BY <1>1, Typing, PTL DEF Spec, RunEnds

(* A run takes at most 3 * NumBatches + 3 steps, that is one claim for     *)
(* every log at the worst, and a worker in a run can always take the next  *)
(* one.                                                                    *)
CanGoOn(w) ==
  \/ pc[w] = "loop" /\ todo[w] = {}
  \/ pc[w] \in {"loop", "mark", "fail"} /\ \E b \in Batch : Current(w, b)

RunsOn ==
  \A w \in Workers :
    /\ Left(w) \in 0 .. 3 * NumBatches + 3
    /\ pc[w] # "idle" => Left(w) > 0 /\ CanGoOn(w)

(* A mark is about a log.                                                  *)
LogInHand == \A w \in Workers : pc[w] \in {"mark", "fail"} => todo[w] # {}

(* ORDER BY finds a first row: a set of natural numbers has a least one.   *)
LEMMA FirstLog ==
  ASSUME NEW S \in SUBSET Batch, S # {}
  PROVE  \E a \in S : \A c \in S : a <= c
<1> DEFINE R == OpToRel(<, Nat)
<1>1. S \in SUBSET Nat
  BY RowsOK DEF Batch
<1>2. PICK a \in S : \A c \in S : ~(<<c, a>> \in R)
  BY <1>1, NatLessThanWellFounded, WFMin
<1>3. ASSUME NEW c \in S
      PROVE  a <= c
  <2>1. c < a => <<c, a>> \in R
    BY <1>1 DEF OpToRel
  <2>2. c \in Nat /\ a \in Nat /\ ~(c < a)
    BY <1>1, <1>2, <2>1
  <2> QED
    BY <2>2
<1> QED
  BY <1>3

LEMMA LogStaysInHand == TypeOK /\ LogInHand /\ [Next]_vars => LogInHand'
<1> SUFFICES ASSUME TypeOK, LogInHand, [Next]_vars,
                    NEW w \in Workers, pc'[w] \in {"mark", "fail"}
             PROVE  todo'[w] # {}
  BY DEF LogInHand
<1>1. CASE pc'[w] = pc[w] /\ todo'[w] = todo[w]
  BY <1>1 DEF LogInHand
<1>2. ASSUME NEW b \in Batch, Deliver(w, b) \/ UploadFails(w, b)
      PROVE  todo'[w] # {}
  BY <1>2 DEF Deliver, UploadFails, Current
<1>3. CASE Start(w) \/ Crash(w) \/ ClaimPendingByCode(w)
  BY <1>3, ClaimTodo DEF Start, Crash, Return, Goto, TypeOK
<1>4. ASSUME NEW b \in Batch, MarkUploaded(w, b) \/ MarkRetryOrFailed(w, b)
      PROVE  todo'[w] # {}
  BY <1>4 DEF MarkUploaded, MarkRetryOrFailed, Return, TypeOK
<1>5. ASSUME NEW v \in Workers, v # w,
             RunMinuteUploader(v) \/ UploadPendingForTask(v) \/ UploadStep(v) \/ Crash(v)
      PROVE  todo'[w] # {}
  BY <1>1, <1>5, OthersApart
<1>6. CASE UNCHANGED <<pc, todo>>
  BY <1>1, <1>6
<1> QED
  BY <1>2, <1>3, <1>4, <1>5, <1>6 DEF Next, UploadStep, RunMinuteUploader,
     UploadPendingForTask, Reload, ExpireLease, vars, localVars

(* Nobody in a run waits for anybody, and every run is short: a worker     *)
(* that is scheduled is through with it after so many steps.               *)
THEOREM NobodyWaits == Spec => []RunsOn
<1>1. Init => LogInHand
  BY DEF Init, LogInHand
<1>2. TypeOK /\ LogInHand => RunsOn
  <2> SUFFICES ASSUME TypeOK, LogInHand, NEW w \in Workers
               PROVE  /\ Left(w) \in 0 .. 3 * NumBatches + 3
                      /\ pc[w] # "idle" => Left(w) > 0 /\ CanGoOn(w)
    BY DEF RunsOn
  <2>1. pc[w] \in Location /\ todo[w] \in SUBSET Batch /\ Uploaded \in SUBSET Batch
    BY DEF TypeOK, Uploaded, Rows
  <2>2. Left(w) \in 0 .. 3 * NumBatches + 3 /\ (pc[w] = "idle" <=> Left(w) = 0)
    BY <2>1, LeftSizes DEF Left
  <2>3. todo[w] # {} => \E b \in Batch : Current(w, b)
    BY <2>1, FirstLog DEF Current
  <2>4. pc[w] # "idle" => CanGoOn(w)
    BY <2>1, <2>3 DEF CanGoOn, LogInHand, Location
  <2> QED
    BY <2>2, <2>4, RowsOK
<1> QED
  BY <1>1, <1>2, LogStaysInHand, Typing, PTL DEF Spec

-----------------------------------------------------------------------------
(* No log is out of reach.                                                 *)

Open(b) == status[b] \in {"pending", "running"}

(* A log that is not settled may be taken by the next claim that goes by   *)
(* the configuration, or its lease has to run out first, or the limit is   *)
(* below the attempts it has had; it never passes the largest limit.       *)
InReach ==
  \A b \in Batch : Open(b) =>
    \/ lease[b] = "live"
    \/ b \in Claimable(config)
    \/ retry[b] > config /\ b \in Claimable(MaxRetry)

Leased == \A b \in Batch : status[b] = "running" => lease[b] # "none"

LEMMA LeasedStays == TypeOK /\ Leased /\ [Next]_vars => Leased'
<1> SUFFICES ASSUME TypeOK, Leased, [Next]_vars, NEW b \in Batch
             PROVE  status'[b] = "running" => lease'[b] # "none"
  BY DEF Leased
<1>0. status[b] = "running" => lease[b] # "none"
  BY DEF Leased
<1> USE DEF rowVars
<1>1. CASE UNCHANGED rowVars
  BY <1>0, <1>1
<1>2. ASSUME NEW w \in Workers, ClaimPendingByCode(w)
      PROVE  status'[b] = "running" => lease'[b] # "none"
  BY <1>0, <1>2, ClaimRow
<1>3. ASSUME NEW w \in Workers, NEW a \in Batch, Holds(w, a), MarkUploaded(w, a)
      PROVE  status'[b] = "running" => lease'[b] # "none"
  BY <1>0, <1>3 DEF MarkUploaded, SetUploaded, TypeOK
<1>4. ASSUME NEW w \in Workers, NEW a \in Batch, Holds(w, a), MarkRetryOrFailed(w, a)
      PROVE  status'[b] = "running" => lease'[b] # "none"
  BY <1>0, <1>4 DEF MarkRetryOrFailed, SetRetryOrFailed, TypeOK
<1>5. ASSUME NEW a \in Batch, ExpireLease(a)
      PROVE  status'[b] = "running" => lease'[b] # "none"
  BY <1>0, <1>5 DEF ExpireLease, LeaseEnds, TypeOK
<1> QED
  BY <1>1, <1>2, <1>3, <1>4, <1>5 DEF Next, UploadStep, RunMinuteUploader,
     UploadPendingForTask, Start, Deliver, UploadFails, MarkUploaded, MarkRetryOrFailed,
     Crash, Reload, vars

(* Whatever died where and however max_retry was changed in between, no    *)
(* log needs to be repaired by hand: one that no claim takes because the   *)
(* limit was lowered is taken again when it is raised back, and no mark    *)
(* takes an open log beyond the largest limit.                             *)
THEOREM NothingStranded == Spec => []InReach
<1>1. Init => Leased
  BY DEF Init, RowsInit, Leased
<1>2. Types /\ Leased => InReach
  <2> SUFFICES ASSUME Types, Leased, NEW b \in Batch, Open(b), lease[b] # "live"
               PROVE  \/ b \in Claimable(config)
                      \/ retry[b] > config /\ b \in Claimable(MaxRetry)
    BY DEF InReach
  <2>1. retry[b] \in Nat /\ retry[b] < Attempts /\ config \in 0 .. MaxRetry
    BY AttemptsFacts, LimitsOK DEF Types, TypeOK, AttemptLeft, Open
  <2>2. retry[b] <= MaxRetry
    BY <2>1, RowsOK DEF Attempts
  <2>3. \A m \in Nat : retry[b] <= m => b \in Claimable(m)
    BY DEF Open, Leased, Claimable, Types, TypeOK, Lease
  <2> QED
    BY <2>1, <2>2, <2>3, RowsOK
<1>3. Spec => []Types
  BY InitTypes, NextTypes, PTL DEF Spec
<1>4. Types => TypeOK
  BY DEF Types
<1> QED
  BY <1>1, <1>2, <1>3, <1>4, LeasedStays, PTL DEF Spec
=============================================================================
