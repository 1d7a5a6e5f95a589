------------------------------ MODULE Delivery ------------------------------
(***************************************************************************)
(* What the uploader of one task instance promises, without workers,       *)
(* claims, leases or retries.  Every batch is open until it is settled,    *)
(* once and for all, as "uploaded" or as "failed"; it is settled as        *)
(* "uploaded" only after the remote side has received it; and the verdict  *)
(* published on the instance row says "uploaded" or "failed" only when the *)
(* batches really are in that state.  The verdict may fall back to         *)
(* "running": a slow finalisation may publish what it counted earlier.     *)
(***************************************************************************)
CONSTANT Batch          \* the batches of the instance

VARIABLES
  outcome,              \* outcome[b]: "open", "uploaded" or "failed"
  reached,              \* the batches the remote side holds
  verdict               \* the status published on the instance row

vars == <<outcome, reached, verdict>>

AllUploaded == \A b \in Batch : outcome[b] = "uploaded"

AllSettled == \A b \in Batch : outcome[b] # "open"

SomeFailed == \E b \in Batch : outcome[b] = "failed"

(* A batch that was delivered may be delivered again, and a delivery may   *)
(* arrive after the batch was settled.                                     *)
Reach(b) ==
  /\ reached' = reached \cup {b}
  /\ UNCHANGED <<outcome, verdict>>

Acknowledge(b) ==
  /\ outcome[b] = "open"
  /\ b \in reached
  /\ outcome' = [outcome EXCEPT ![b] = "uploaded"]
  /\ UNCHANGED <<reached, verdict>>

GiveUp(b) ==
  /\ outcome[b] = "open"
  /\ outcome' = [outcome EXCEPT ![b] = "failed"]
  /\ UNCHANGED <<reached, verdict>>

Publish(v) ==
  /\ v = "uploaded" => AllUploaded
  /\ v = "failed" => AllSettled /\ SomeFailed
  /\ verdict' = v
  /\ UNCHANGED <<outcome, reached>>

Init ==
  /\ outcome = [b \in Batch |-> "open"]
  /\ reached = {}
  /\ verdict = "running"

Next ==
  \/ \E b \in Batch : Reach(b) \/ Acknowledge(b) \/ GiveUp(b)
  \/ \E v \in {"running", "uploaded", "failed"} : Publish(v)

Spec == Init /\ [][Next]_vars
=============================================================================
