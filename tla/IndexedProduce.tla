--------------------------- MODULE IndexedProduce ---------------------------
(***************************************************************************)
(* produceIndexedBatches with parallelism > 1: a dispatcher hands indexes  *)
(* to workers over an unbuffered channel, the workers build the batches    *)
(* and send them to a buffered channel in any order, and the caller puts   *)
(* them back into index order and creates the rows.                        *)
(*                                                                         *)
(* The context is cancelled on the first error.  Its only effect is that a *)
(* build may fail, which it may at any time anyway (the caller's context   *)
(* can be cancelled too), so the cancellation itself is not a variable.    *)
(***************************************************************************)
EXTENDS Integers, Sequences

CONSTANTS
  First,        \* startIndex
  Last,         \* endIndex
  Parallelism   \* parallelism

ASSUME ParallelOK ==
  /\ First \in Nat
  /\ Last \in Nat
  /\ First <= Last              \* else the call returns before it starts
  /\ Parallelism \in Nat
  /\ Parallelism > 1            \* else it is OrderedProduce

Index == First .. Last

Total == Last - First + 1

(* workerCount.                                                            *)
Worker == 1 .. (IF Parallelism > Total THEN Total ELSE Parallelism)

Result == [index : Index, ok : BOOLEAN]

NoErr == First - 1

VARIABLES
  sent,         \* the dispatcher's index: the next one to hand out
  jobsClosed,   \* the dispatcher closed jobs
  wpc,          \* workers: "idle", "build", "send" or "done"
  job,          \* workers: what they have in hand, First when nothing
  built,        \* workers: whether build succeeded
  results,      \* the buffered channel
  closed,       \* results is closed
  pc,           \* the caller: "receive", "order" or "returned"
  pending,      \* the caller's map, as the set of its entries
  nextIndex,    \* the index to create next
  firstErr,     \* the index of the first error, or NoErr
  created       \* the rows written by this call, in the order of the writes

workerVars == <<wpc, job, built>>
callerVars == <<pc, pending, nextIndex, firstErr, created>>
vars == <<sent, jobsClosed, wpc, job, built, results, closed,
          pc, pending, nextIndex, firstErr, created>>

-----------------------------------------------------------------------------
(* The dispatcher goroutine.                                               *)

(* jobs <- index meets the receive of an idle worker.                      *)
Dispatch(w) ==
  /\ sent \in Index
  /\ wpc[w] = "idle"
  /\ wpc' = [wpc EXCEPT ![w] = "build"]
  /\ job' = [job EXCEPT ![w] = sent]
  /\ sent' = sent + 1
  /\ UNCHANGED <<jobsClosed, built, results, closed, callerVars>>

CloseJobs ==
  /\ sent > Last
  /\ ~jobsClosed
  /\ jobsClosed' = TRUE
  /\ UNCHANGED <<sent, workerVars, results, closed, callerVars>>

(* Mutant: results is closed behind jobs, without waiting.                 *)
NobodyWaits == TRUE

(* wg.Wait() returns.                                                      *)
AllDone == \A w \in Worker : wpc[w] = "done"

(* wg.Wait(), then close(results).                                         *)
CloseResults ==
  /\ jobsClosed
  /\ AllDone
  /\ ~closed
  /\ closed' = TRUE
  /\ UNCHANGED <<sent, jobsClosed, workerVars, results, callerVars>>

-----------------------------------------------------------------------------
(* The worker goroutines.                                                  *)

Build(w) ==
  /\ wpc[w] = "build"
  /\ wpc' = [wpc EXCEPT ![w] = "send"]
  /\ \E ok \in BOOLEAN : built' = [built EXCEPT ![w] = ok]
  /\ UNCHANGED <<sent, jobsClosed, job, results, closed, callerVars>>

(* Mutant: one result too many.                                            *)
RoomForOneMore == Len(results) <= Parallelism

(* The channel holds Parallelism results.                                  *)
Room == Len(results) < Parallelism

(* The worker waits while the channel is full.                             *)
SendResult(w) ==
  /\ wpc[w] = "send"
  /\ Room
  /\ results' = Append(results, [index |-> job[w], ok |-> built[w]])
  /\ wpc' = [wpc EXCEPT ![w] = "idle"]
  /\ job' = [job EXCEPT ![w] = First]
  /\ built' = [built EXCEPT ![w] = FALSE]
  /\ UNCHANGED <<sent, jobsClosed, closed, callerVars>>

WorkerDone(w) ==
  /\ jobsClosed
  /\ wpc[w] = "idle"
  /\ wpc' = [wpc EXCEPT ![w] = "done"]
  /\ UNCHANGED <<sent, jobsClosed, job, built, results, closed, callerVars>>

-----------------------------------------------------------------------------
(* The caller.                                                             *)

Receive ==
  /\ pc = "receive"
  /\ results # << >>
  /\ pending' = pending \cup {Head(results)}
  /\ results' = Tail(results)
  /\ pc' = "order"
  /\ UNCHANGED <<sent, jobsClosed, workerVars, closed, nextIndex, firstErr, created>>

(* Mutant: results are taken as they come.                                 *)
InAnyOrder(r) == TRUE

(* pending[nextIndex].                                                     *)
InOrder(r) == r.index = nextIndex

(* Mutant: creation goes on behind an error.                               *)
AcceptingAlways == TRUE

Accepting == firstErr = NoErr

(* The entry of nextIndex leaves the map.  Before the first error its row  *)
(* is created, or its error (or that of create, which may have written the *)
(* row) becomes the first; behind the first error it is dropped.           *)
Take(r) ==
  /\ pc = "order"
  /\ r \in pending
  /\ InOrder(r)
  /\ pending' = pending \ {r}
  /\ nextIndex' = nextIndex + 1
  /\ \/ ~Accepting /\ UNCHANGED <<firstErr, created>>
     \/ /\ Accepting
        /\ r.ok
        /\ created' = Append(created, r.index)
        /\ firstErr' \in {NoErr, nextIndex}
     \/ /\ Accepting
        /\ UNCHANGED created
        /\ firstErr' = nextIndex
  /\ UNCHANGED <<sent, jobsClosed, workerVars, results, closed, pc>>

(* Nothing more is in order: back to the channel.                          *)
Wait ==
  /\ pc = "order"
  /\ \A r \in pending : ~InOrder(r)
  /\ pc' = "receive"
  /\ UNCHANGED <<sent, jobsClosed, workerVars, results, closed,
                 pending, nextIndex, firstErr, created>>

(* Mutant: the caller stops receiving at the first error.                  *)
RangeEndsAtError == (results = << >> /\ closed) \/ firstErr # NoErr

(* results is closed and empty.                                            *)
RangeEnds == results = << >> /\ closed

Return ==
  /\ pc = "receive"
  /\ RangeEnds
  /\ pc' = "returned"
  /\ UNCHANGED <<sent, jobsClosed, workerVars, results, closed,
                 pending, nextIndex, firstErr, created>>

-----------------------------------------------------------------------------
Init ==
  /\ sent = First
  /\ jobsClosed = FALSE
  /\ wpc = [w \in Worker |-> "idle"]
  /\ job = [w \in Worker |-> First]
  /\ built = [w \in Worker |-> FALSE]
  /\ results = << >>
  /\ closed = FALSE
  /\ pc = "receive"
  /\ pending = {}
  /\ nextIndex = First
  /\ firstErr = NoErr
  /\ created = << >>

Dispatcher == CloseJobs \/ CloseResults \/ \E w \in Worker : Dispatch(w)

WorkerStep(w) == Build(w) \/ SendResult(w) \/ WorkerDone(w)

Caller == Receive \/ (\E r \in pending : Take(r)) \/ Wait \/ Return

Next == Dispatcher \/ (\E w \in Worker : WorkerStep(w)) \/ Caller

Spec == Init /\ [][Next]_vars

(* Every goroutine that can go on does, and build and create return.       *)
FairSpec ==
  /\ Spec
  /\ WF_vars(Dispatcher)
  /\ WF_vars(Caller)
  /\ \A w \in Worker : WF_vars(WorkerStep(w))

-----------------------------------------------------------------------------
(* Properties.                                                             *)

(* Every variable keeps its type, and the channel its capacity.            *)
TypeOK ==
  /\ sent \in First .. Last + 1
  /\ jobsClosed \in BOOLEAN
  /\ wpc \in [Worker -> {"idle", "build", "send", "done"}]
  /\ job \in [Worker -> Index]
  /\ built \in [Worker -> BOOLEAN]
  /\ results \in Seq(Result)
  /\ Len(results) <= Parallelism
  /\ closed \in BOOLEAN
  /\ pc \in {"receive", "order", "returned"}
  /\ pending \in SUBSET Result
  /\ nextIndex \in First .. Last + 1
  /\ firstErr \in First - 1 .. Last
  /\ created \in Seq(Index)

(* Whatever order the workers finish in, the rows are written in index     *)
(* order without a gap, and the row of the first error is the last that    *)
(* can have been written.                                                  *)
CreatedInOrder ==
  /\ \A i \in 1 .. Len(created) : created[i] = First + i - 1
  /\ firstErr # NoErr => First + Len(created) - 1 <= firstErr

(* nil means that every batch has been created: no result is left behind   *)
(* in the reordering map or in the channel when the range loop ends.       *)
NilMeansAll == pc = "returned" /\ firstErr = NoErr => Len(created) = Total

(* Reordering the results of parallel workers implements the sequential    *)
(* loop, whose index stops at the first error.                             *)
Sequential ==
  INSTANCE OrderedProduce WITH
    index <- IF firstErr = NoErr THEN nextIndex ELSE firstErr,
    returned <- pc = "returned"

ImplementsSequential == Sequential!Spec

(* The call always returns and leaves no goroutine behind: dispatcher,     *)
(* workers and caller never wait for each other in a circle, whether       *)
(* batches fail or not.                                                    *)
Terminates ==
  <>[](/\ pc = "returned"
       /\ closed
       /\ \A w \in Worker : wpc[w] = "done")
=============================================================================
