--------------------------- MODULE OrderedProduce ---------------------------
(***************************************************************************)
(* What the production of the batches First..Last promises, and what       *)
(* produceIndexedBatches does when parallelism is at most 1: batches are   *)
(* built and created one by one in index order, nothing is created behind  *)
(* the first error, and the call returns nil only when all are created.    *)
(***************************************************************************)
EXTENDS Integers, Sequences

CONSTANTS
  First,        \* startIndex, a natural number
  Last          \* endIndex, a natural number; nothing to do when below First

VARIABLES
  created,      \* the rows written by this call, in the order of the writes
  index,        \* the loop variable
  firstErr,     \* the index whose error the call reports, or NoErr
  returned      \* the call has returned

produceVars == <<created, index, firstErr, returned>>

NoErr == First - 1

(* build and create succeed.                                               *)
Create ==
  /\ ~returned
  /\ firstErr = NoErr
  /\ index <= Last
  /\ created' = Append(created, index)
  /\ index' = index + 1
  /\ UNCHANGED <<firstErr, returned>>

(* build or create fails; a create that fails may have written its row.    *)
Fail ==
  /\ ~returned
  /\ firstErr = NoErr
  /\ index <= Last
  /\ created' = created \/ created' = Append(created, index)
  /\ firstErr' = index
  /\ UNCHANGED <<index, returned>>

Return ==
  /\ ~returned
  /\ firstErr # NoErr \/ index > Last
  /\ returned' = TRUE
  /\ UNCHANGED <<created, index, firstErr>>

Init ==
  /\ created = << >>
  /\ index = First
  /\ firstErr = NoErr
  /\ returned = FALSE

Next == Create \/ Fail \/ Return

Spec == Init /\ [][Next]_produceVars
=============================================================================
