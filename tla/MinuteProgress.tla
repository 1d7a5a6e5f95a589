--------------------------- MODULE MinuteProgress ---------------------------
(***************************************************************************)
(* Progress of MinuteUpload.  Crashes, lease timeouts and reloads of the   *)
(* configuration may happen at any moment; the properties speak of the     *)
(* behaviours in which they come to an end, wherever they leave the rows.  *)
(***************************************************************************)
EXTENDS MinuteUpload

(* The changes of max_retry in the run: it is lowered.                     *)
Lowered == {c \in Limits \X Limits : c[2] < c[1]}

(* A worker has the log in hand under a claim that is still its own.       *)
InHand(b) == \E w \in Workers : Holds(w, b) /\ b \in todo[w]

(* Time passes for the claims nobody works on any more and for the logs    *)
(* that wait for a retry.                                                  *)
Forgotten(b) == ExpireLease(b) /\ ~InHand(b)

(* RunMinuteUploader is a cron job; nothing else need ever be called.      *)
CronSpec ==
  /\ Spec
  /\ \A w \in Workers : WF_vars(RunMinuteUploader(w)) /\ WF_vars(UploadStep(w))
  /\ \A b \in Batch : WF_vars(Forgotten(b))

(* No process dies, no call breaks, a lease outlasts the upload it covers  *)
(* and the configuration stays as it is.                                   *)
CalmStep ==
  \/ \E w \in Workers : UploadPendingForTask(w) \/ UploadStep(w)
  \/ \E b \in Batch : Forgotten(b)

CalmInTheEnd == <>[][CalmStep]_vars

(* Besides, the host names the task again and again.                       *)
NamedAgain == \A w \in Workers : WF_vars(UploadPendingForTask(w))

Settled(b) == b \in Uploaded \cup Failed

(* max_retry was lowered below the attempts an open log has had: no claim  *)
(* takes it, so no mark ever fails it.                                     *)
OverLimit(b) == ~Settled(b) /\ retry[b] > config

(* When the task is named again and again, every log is settled: those a   *)
(* dead worker or an error return left claimed are claimed again.  Only    *)
(* the logs that a reload put above the limit stay open.                   *)
SettlesWhenNamed ==
  CalmInTheEnd /\ NamedAgain => <>[](\A b \in Batch : Settled(b) \/ OverLimit(b))

(* RunMinuteUploader finds a task by its pending logs only.  Besides those *)
(* above the limit it leaves no log pending for good, but a log that was   *)
(* left claimed while no other is pending stays claimed: stranded, until a *)
(* new log of the task arrives.                                            *)
Stranded(b) == status[b] = "running" /\ lease[b] = "expired"

OnlyStrandedRemain ==
  CalmInTheEnd => <>[](\A b \in Batch : Settled(b) \/ OverLimit(b) \/ Stranded(b))
=============================================================================
