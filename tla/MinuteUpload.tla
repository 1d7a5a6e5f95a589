---------------------------- MODULE MinuteUpload ----------------------------
(***************************************************************************)
(* The upload side of one minute task: uploadMinuteByTaskCode, run by any  *)
(* number of workers against the rows of uploadlog.  The claim protocol is *)
(* that of the batch tables (ClaimRows); the loop is simpler than          *)
(* uploadPendingBatches: there is no instance row, a claim is taken back   *)
(* for every round, and the first failed log ends the run, whatever the    *)
(* failure mode of the engine.                                             *)
(*                                                                         *)
(* The configuration of the task is read from a snapshot of task_config    *)
(* that a goroutine of the host replaces from time to time, once, when the *)
(* run starts.  Of the configuration only MaxRetry is kept here.           *)
(***************************************************************************)
EXTENDS ClaimRows

CONSTANTS
  Limits,           \* the values max_retry takes in task_config
  Changes           \* bound: the changes of it that reloads bring, as pairs

ASSUME LimitsOK ==
  /\ Limits \subseteq 0 .. MaxRetry /\ MaxRetry \in Limits
  /\ Changes \subseteq Limits \X Limits

Location == {"idle", "loop", "mark", "fail"}

VARIABLES
  config,           \* reloadableTaskConfigRepo: max_retry in the snapshot
  cfg,              \* the copy of it the run works with; 0 when there is no run
  pc,               \* where the worker is in uploadMinuteByTaskCode
  todo              \* claimed and not finished yet

localVars == <<cfg, pc, todo>>
vars == <<rowVars, histVars, config, localVars>>

Goto(w, from, to) == pc[w] = from /\ pc' = [pc EXCEPT ![w] = to]

Return(w) ==
  /\ pc' = [pc EXCEPT ![w] = "idle"]
  /\ todo' = [todo EXCEPT ![w] = {}]
  /\ cfg' = [cfg EXCEPT ![w] = 0]

Current(w, b) == b \in todo[w] /\ \A a \in todo[w] : b <= a

(* cfgRepo.Get, then uploadMinuteByTaskCode.  The run keeps the copy it    *)
(* got, whatever happens to the snapshot.                                  *)
Start(w) ==
  /\ Goto(w, "idle", "loop")
  /\ cfg' = [cfg EXCEPT ![w] = config]
  /\ UNCHANGED <<rowVars, histVars, config, todo>>

(* RunMinuteUploader: FindDistinctPendingTaskCodes returns the task.       *)
RunMinuteUploader(w) == Rows("pending") # {} /\ Start(w)

(* UploadPendingForTask: an operator or a trigger of the host names it.    *)
UploadPendingForTask(w) == Start(w)

(* Load, after max_retry was changed in task_config.  A load that fails    *)
(* leaves the snapshot as it is.                                           *)
Reload ==
  /\ config' \in {m \in Limits : <<config, m>> \in Changes}
  /\ UNCHANGED <<rowVars, histVars, localVars>>

(* ClaimPendingByCode.                                                     *)
ClaimPendingByCode(w) ==
  LET claimed == Lowest(Claimable(cfg[w]), PendingLimit)
  IN /\ pc[w] = "loop"
     /\ todo[w] = {}
     /\ Claim(w, claimed)
     /\ IF claimed = {}
        THEN Return(w)
        ELSE todo' = [todo EXCEPT ![w] = claimed] /\ UNCHANGED <<cfg, pc>>
     /\ UNCHANGED <<histVars, config>>

(* Backup read, decodeMeta, BeforeUpload and Reporter.Upload succeed.      *)
Deliver(w, b) ==
  /\ Current(w, b)
  /\ Goto(w, "loop", "mark")
  /\ Receive(b)
  /\ UNCHANGED <<rowVars, config, cfg, todo, lapsed>>

(* One of them fails, or Upload reports an error although the file is there.*)
UploadFails(w, b) ==
  /\ Current(w, b)
  /\ Goto(w, "loop", "fail")
  /\ Receive(b) \/ UNCHANGED received
  /\ UNCHANGED <<rowVars, config, cfg, todo, lapsed>>

(* MarkUploaded; a lost claim ends the run with an error.                  *)
MarkUploaded(w, b) ==
  /\ pc[w] = "mark"
  /\ Current(w, b)
  /\ \/ /\ Holds(w, b)
        /\ SetUploaded(b)
        /\ pc' = [pc EXCEPT ![w] = "loop"]
        /\ todo' = [todo EXCEPT ![w] = @ \ {b}]
        /\ UNCHANGED cfg
     \/ ~Holds(w, b) /\ Return(w) /\ UNCHANGED rowVars
  /\ UNCHANGED <<histVars, config>>

(* MarkRetryOrFailed; either way the error is returned, and the logs that  *)
(* were claimed behind this one stay claimed.                              *)
MarkRetryOrFailed(w, b) ==
  /\ pc[w] = "fail"
  /\ Current(w, b)
  /\ IF Holds(w, b) THEN SetRetryOrFailed(b, cfg[w]) ELSE UNCHANGED rowVars
  /\ Return(w)
  /\ UNCHANGED <<histVars, config>>

(* The process dies, or a repository call returns an error.                *)
Crash(w) ==
  /\ pc[w] # "idle"
  /\ Return(w)
  /\ UNCHANGED <<rowVars, histVars, config>>

ExpireLease(b) == LeaseEnds(b) /\ UNCHANGED <<config, localVars>>

(* produceRange has written the rows.                                      *)
Init ==
  /\ RowsInit("pending")
  /\ config = MaxRetry
  /\ cfg = [w \in Workers |-> 0]
  /\ pc = [w \in Workers |-> "idle"]
  /\ todo = [w \in Workers |-> {}]

UploadStep(w) ==
  \/ ClaimPendingByCode(w)
  \/ \E b \in Batch : Deliver(w, b) \/ UploadFails(w, b)
  \/ \E b \in Batch : MarkUploaded(w, b) \/ MarkRetryOrFailed(w, b)

Next ==
  \/ \E w \in Workers :
       RunMinuteUploader(w) \/ UploadPendingForTask(w) \/ UploadStep(w) \/ Crash(w)
  \/ \E b \in Batch : ExpireLease(b)
  \/ Reload

Spec == Init /\ [][Next]_vars

-----------------------------------------------------------------------------
(* Properties.                                                             *)

(* Every variable keeps its type.                                          *)
TypeOK ==
  /\ status \in [Batch -> RowStatus \ {"absent"}]
  /\ owner \in [Batch -> Workers \cup {NoWorker}]
  /\ lease \in [Batch -> Lease]
  /\ retry \in [Batch -> 0 .. Attempts]
  /\ received \in [Batch -> 0 .. Many]
  /\ lapsed \in [Batch -> BOOLEAN]
  /\ config \in Limits
  /\ cfg \in [Workers -> Limits \cup {0}]
  /\ pc \in [Workers -> Location]
  /\ todo \in [Workers -> SUBSET Batch]

(* The minute uploader, too, settles every file once and for all, and as   *)
(* uploaded only when the remote side has it.  There is no verdict.        *)
Outcome == [b \in Batch |-> IF status[b] \in {"uploaded", "failed"}
                            THEN status[b] ELSE "open"]

Reached == {b \in Batch : received[b] > 0}

Promise ==
  INSTANCE Delivery WITH outcome <- Outcome, reached <- Reached, verdict <- "running"

ImplementsDelivery == Promise!Spec
=============================================================================
