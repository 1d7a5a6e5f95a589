--------------------------- MODULE UploadProgress ---------------------------
(***************************************************************************)
(* Progress of BatchUpload.  From some moment on, which nothing announces, *)
(* the environment is calm: no process dies, no repository call breaks and *)
(* a lease outlasts the upload it covers.  Before that moment anything     *)
(* BatchUpload allows may happen, so the calm part starts in any state the *)
(* disturbances can leave behind.                                          *)
(***************************************************************************)
EXTENDS BatchUpload

VARIABLE calm           \* the disturbances are over

progressVars == <<vars, calm>>

(* A worker has the batch in hand under a claim that is still its own.     *)
InHand(b) == \E w \in Workers : Holds(w, b) /\ b \in todo[w]

(* The uploader, started by a cron job or by an operator, and its steps.   *)
Step(w) == (UploadRunning(w) \/ RunTask(w) \/ UploadStep(w)) /\ UNCHANGED calm

Disturb ==
  /\ ~calm
  /\ (\E w \in Workers : Crash(w)) \/ (\E b \in Batch : ExpireLease(b))
  /\ UNCHANGED calm

(* Time passes for the claims nobody works on any more and for the batches *)
(* that wait for a retry.                                                  *)
Forgotten(b) == ExpireLease(b) /\ ~InHand(b) /\ UNCHANGED calm

CalmDown == ~calm /\ calm' = TRUE /\ UNCHANGED vars

ProgressInit == Init /\ calm = FALSE

ProgressNext ==
  \/ \E w \in Workers : Step(w)
  \/ Disturb
  \/ \E b \in Batch : Forgotten(b)
  \/ CalmDown

(* The cron job starts the uploader on running instances again and again,  *)
(* a started worker goes on, and time does not stand still.  Nothing makes *)
(* RunTask happen, and nothing makes an upload succeed.                    *)
ProgressSpec ==
  /\ ProgressInit
  /\ [][ProgressNext]_progressVars
  /\ \A w \in Workers :
       /\ WF_progressVars(UploadRunning(w) /\ UNCHANGED calm)
       /\ WF_progressVars(UploadStep(w) /\ UNCHANGED calm)
  /\ \A b \in Batch : WF_progressVars(Forgotten(b))

(* Once calm, every batch is settled and the published status is final for *)
(* good: batches claimed by dead workers, left claimed by a fail-fast      *)
(* return, or claimed and skipped are reclaimed; a verdict that a late     *)
(* FinalizeInstance set back to "running" is repaired by the next run.     *)
Finishes == <>calm => <>[](instStatus \in {"uploaded", "failed"})
=============================================================================
