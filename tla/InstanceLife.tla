---------------------------- MODULE InstanceLife ----------------------------
(***************************************************************************)
(* The life of one big or biz task instance as its rows tell it, without   *)
(* workers, claims, leases, cron jobs or restarts.  The batches are made   *)
(* one after another and none is ever taken away; when all are made the    *)
(* instance may be marked complete, for good.  A batch that is made can be *)
(* sent, again and again; it is settled once, as "uploaded" when the       *)
(* remote side holds it, or as "failed" with the attempt that was its      *)
(* last; and the attempts that failed are counted one by one.              *)
(*                                                                         *)
(* The status of the instance row is not part of it: that one may be wrong *)
(* while batches are still to be made.                                     *)
(***************************************************************************)
EXTENDS Naturals

CONSTANTS
  NumBatches,           \* the batches of the instance: 1 .. NumBatches
  MaxTries              \* the attempts every batch has

VARIABLES
  made,                 \* how many batches have been made
  complete,             \* all of them have, and the instance row says so
  outcome,              \* outcome[b]: "open", "uploaded" or "failed"
  tries,                \* tries[b]: the attempts that failed
  reached               \* the batches the remote side holds

vars == <<made, complete, outcome, tries, reached>>

Make ==
  /\ made < NumBatches
  /\ made' = made + 1
  /\ UNCHANGED <<complete, outcome, tries, reached>>

Complete ==
  /\ made = NumBatches
  /\ complete' = TRUE
  /\ UNCHANGED <<made, outcome, tries, reached>>

Reach(b) ==
  /\ b <= made
  /\ reached' = reached \cup {b}
  /\ UNCHANGED <<made, complete, outcome, tries>>

Acknowledge(b) ==
  /\ outcome[b] = "open"
  /\ b \in reached
  /\ outcome' = [outcome EXCEPT ![b] = "uploaded"]
  /\ UNCHANGED <<made, complete, tries, reached>>

AttemptFails(b) ==
  /\ b <= made
  /\ outcome[b] = "open"
  /\ tries' = [tries EXCEPT ![b] = @ + 1]
  /\ outcome' = [outcome EXCEPT ![b] = IF tries'[b] = MaxTries THEN "failed" ELSE "open"]
  /\ UNCHANGED <<made, complete, reached>>

Init ==
  /\ made = 0
  /\ complete = FALSE
  /\ outcome = [b \in 1 .. NumBatches |-> "open"]
  /\ tries = [b \in 1 .. NumBatches |-> 0]
  /\ reached = {}

Next ==
  \/ Make
  \/ Complete
  \/ \E b \in 1 .. NumBatches : Reach(b) \/ Acknowledge(b) \/ AttemptFails(b)

Spec == Init /\ [][Next]_vars
=============================================================================
