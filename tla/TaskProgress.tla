---------------------------- MODULE TaskProgress ----------------------------
(***************************************************************************)
(* Progress of TaskInstance, in the manner of UploadProgress: anything may *)
(* happen before the environment calms down, and the calm part starts in   *)
(* any state the disturbances leave behind.                                *)
(***************************************************************************)
EXTENDS TaskInstance

VARIABLE calm           \* the disturbances are over

progressVars == <<taskVars, calm>>

InHand(b) == \E w \in Workers : Holds(w, b) /\ b \in todo[w]

Disturb ==
  /\ ~calm
  /\ (\E w \in Workers : Stop(w)) \/ (\E b \in Batch : TimePasses(b))
  /\ UNCHANGED calm

Forgotten(b) == TimePasses(b) /\ ~InHand(b) /\ UNCHANGED calm

CalmDown == ~calm /\ calm' = TRUE /\ UNCHANGED taskVars

ProgressInit == TaskInit /\ calm = FALSE

ProgressNext ==
  \/ \E w \in Workers : (Start(w) \/ Go(w)) /\ UNCHANGED calm
  \/ Disturb
  \/ \E b \in Batch : Forgotten(b)
  \/ CalmDown

(* RunBigTask / RunBizTask is called again for the same window or trigger  *)
(* key until the task is done; the other entry points may run or not.      *)
ProgressSpec ==
  /\ ProgressInit
  /\ [][ProgressNext]_progressVars
  /\ \A w \in Workers :
       /\ WF_progressVars(Open(w) /\ UNCHANGED calm)
       /\ WF_progressVars(Go(w) /\ UNCHANGED calm)
  /\ \A b \in Batch : WF_progressVars(Forgotten(b))

(* Calling RunBigTask again repairs everything: whatever interrupted the   *)
(* production or the upload before, also when the instance was closed as   *)
(* "uploaded" too early, in the end all batches exist and are settled and  *)
(* the published verdict is the true one.                                  *)
Completed ==
  /\ totalBatches = NumBatches
  /\ \A b \in Batch : status[b] \in {"uploaded", "failed"}
  /\ instStatus = IF \E b \in Batch : status[b] = "failed" THEN "failed" ELSE "uploaded"

RepeatedCallsComplete == <>calm => <>[]Completed

(* Once calm, a worker that was started returns: the claim loop of         *)
(* uploadPendingBatches has no bound of its own, and in Continue mode it   *)
(* claims batches it attempted before only to skip them; still it ends.    *)
Returns == \A w \in Workers : []<>(calm => pc[w] = "idle")
=============================================================================
