---------------------------- MODULE ParallelRun ----------------------------
(***************************************************************************)
(* One call of an entry point that works on many tasks or instances:       *)
(* RunUploader runs three phases one behind the other (minute tasks, big   *)
(* and biz instances), OnStartup resumes in two (big, biz), RunProducer    *)
(* and the single uploaders have one.  A phase asks the database for its   *)
(* items and hands them to runInParallel or one of its three twins, which  *)
(* differ in the type of the items only: one goroutine per item, a         *)
(* semaphore, a channel for the errors.                                    *)
(*                                                                         *)
(* What OnStartup does before its two resumes, the backfill of the minute  *)
(* tasks, is no phase: it works on one task after the other and logs their *)
(* errors, which do not end the call and which it does not return.         *)
(*                                                                         *)
(* Semaphore and channel belong to the call, so two calls at the same time *)
(* do not meet here; what fn does to the rows is BatchUpload's, MinuteLog's *)
(* and TaskInstance's subject.  Here fn ends, well or with an error.       *)
(***************************************************************************)
EXTENDS Integers, FiniteSets

CONSTANTS
  MaxItems,     \* bound on the items a query returns
  MaxPhases,    \* 3: RunUploader is the longest entry point
  Limits        \* the values of Engine.maxParallel looked at; 0: no limit

ASSUME RunOK ==
  /\ MaxItems \in Nat
  /\ MaxPhases \in Nat \ {0}
  /\ Limits \subseteq Nat

(* A goroutine is none before it is spawned and done behind wg.Done.       *)
Place == {"none", "acquire", "run", "send", "release", "done"}

VARIABLES
  maxParallel,  \* Engine.maxParallel
  phases,       \* how many phases the entry point has
  phase,        \* the phase the caller is in
  pc,           \* the caller: "query", "spawn", "wait", "join" or "returned"
  items,        \* what the query of the phase returned: items 1 .. items
  spawned,      \* the caller's loop variable: goroutines started so far
  at,           \* at[i]: where the goroutine of item i is
  slots,        \* tokens in the semaphore channel
  errCh,        \* the items whose error is in the error channel
  failed,       \* history: the items of the phase whose fn failed
  trouble,      \* history: a query or an item of any phase failed
  result        \* what the call returned: "none" yet, "nil" or "error"

phaseVars == <<items, spawned, at, slots, errCh, failed>>
vars == <<maxParallel, phases, phase, pc, items, spawned, at, slots, errCh,
          failed, trouble, result>>

Item == 1 .. items

In(place) == {i \in Item : at[i] = place}

-----------------------------------------------------------------------------
(* The caller.                                                             *)

(* RunUploader, like OnStartup in its two resumes, returns the error of    *)
(* the first phase that fails ...                                          *)
Abort ==
  /\ pc' = "returned"
  /\ result' = "error"
  /\ UNCHANGED phase

(* ... and what the last one returns.                                      *)
Advance ==
  IF phase = phases
  THEN pc' = "returned" /\ result' = "nil" /\ UNCHANGED phase
  ELSE pc' = "query" /\ phase' = phase + 1 /\ UNCHANGED result

(* FindDistinctPendingTaskCodes, FindRunningInstances, FindEnabledByType.  *)
(* A missing repository is a phase without items.                          *)
Query ==
  /\ pc = "query"
  /\ \E n \in 0 .. MaxItems :
       /\ items' = n
       /\ at' = [i \in 1 .. n |-> "none"]
  /\ pc' = "spawn"
  /\ spawned' = 0
  /\ slots' = 0
  /\ errCh' = {}
  /\ failed' = {}
  /\ UNCHANGED <<maxParallel, phases, phase, trouble, result>>

QueryFails ==
  /\ pc = "query"
  /\ Abort
  /\ trouble' = TRUE
  /\ UNCHANGED <<maxParallel, phases, phaseVars>>

MoreToSpawn == spawned < items

(* wg.Add(1) and the go statement.                                         *)
Spawn ==
  /\ pc = "spawn"
  /\ IF MoreToSpawn
     THEN /\ spawned' = spawned + 1
          /\ at' = [at EXCEPT ![spawned + 1] = "acquire"]
          /\ UNCHANGED pc
     ELSE pc' = "wait" /\ UNCHANGED <<spawned, at>>
  /\ UNCHANGED <<maxParallel, phases, phase, items, slots, errCh, failed,
                 trouble, result>>

(* Mutant: wg.Add(1) inside of the goroutine, behind its first step.       *)
NobodyAtWork == \A i \in Item : at[i] \in {"none", "acquire", "done"}

(* The counter of the wait group is zero.                                  *)
AllDone == \A i \in Item : at[i] \in {"none", "done"}

(* wg.Wait, close(errCh).                                                  *)
Wait ==
  /\ pc = "wait"
  /\ AllDone
  /\ pc' = "join"
  /\ UNCHANGED <<maxParallel, phases, phase, phaseVars, trouble, result>>

(* Mutant: a phase is taken to have failed when all of its items failed.   *)
AllErrors == errCh # {} /\ errCh = Item

(* joinErrors finds a message in the channel.                              *)
SomeError == errCh # {}

Join ==
  /\ pc = "join"
  /\ IF SomeError THEN Abort ELSE Advance
  /\ UNCHANGED <<maxParallel, phases, phaseVars, trouble>>

-----------------------------------------------------------------------------
(* The goroutines.                                                         *)

Move(i, from, to) == at[i] = from /\ at' = [at EXCEPT ![i] = to]

(* Mutant: the semaphore has room for one more.                            *)
SlotFreeLate == maxParallel = 0 \/ slots <= maxParallel

(* sem <- struct{}{} does not block; without a limit there is no channel.  *)
SlotFree == maxParallel = 0 \/ slots < maxParallel

Acquire(i) ==
  /\ SlotFree
  /\ Move(i, "acquire", "run")
  /\ slots' = IF maxParallel = 0 THEN slots ELSE slots + 1
  /\ UNCHANGED <<maxParallel, phases, phase, pc, items, spawned, errCh, failed,
                 trouble, result>>

Succeed(i) ==
  /\ Move(i, "run", "release")
  /\ UNCHANGED <<maxParallel, phases, phase, pc, items, spawned, slots, errCh,
                 failed, trouble, result>>

Fail(i) ==
  /\ Move(i, "run", "send")
  /\ failed' = failed \cup {i}
  /\ trouble' = TRUE
  /\ UNCHANGED <<maxParallel, phases, phase, pc, items, spawned, slots, errCh,
                 result>>

(* Mutant: a buffer for one error.                                         *)
RoomForOne == errCh = {}

(* errCh has a buffer of len(items), and nobody receives before the join.  *)
Room == Cardinality(errCh) < items

SendError(i) ==
  /\ Room
  /\ Move(i, "send", "release")
  /\ errCh' = errCh \cup {i}
  /\ UNCHANGED <<maxParallel, phases, phase, pc, items, spawned, slots, failed,
                 trouble, result>>

(* <-sem.                                                                  *)
Freed(i) == IF maxParallel = 0 THEN slots ELSE slots - 1

(* The deferred calls, last one first: releaseParallelSlot, wg.Done.  The  *)
(* goroutine does nothing between them.                                    *)
Release(i) ==
  /\ Move(i, "release", "done")
  /\ slots' = Freed(i)
  /\ UNCHANGED <<maxParallel, phases, phase, pc, items, spawned, errCh, failed,
                 trouble, result>>

-----------------------------------------------------------------------------
Init ==
  /\ maxParallel \in Limits
  /\ phases \in 1 .. MaxPhases
  /\ phase = 1
  /\ pc = "query"
  /\ items = 0
  /\ spawned = 0
  /\ at = [i \in 1 .. 0 |-> "none"]
  /\ slots = 0
  /\ errCh = {}
  /\ failed = {}
  /\ trouble = FALSE
  /\ result = "none"

Caller == Query \/ QueryFails \/ Spawn \/ Wait \/ Join

Goroutine(i) ==
  \/ Acquire(i)
  \/ Succeed(i)
  \/ Fail(i)
  \/ SendError(i)
  \/ Release(i)

Next == Caller \/ \E i \in Item : Goroutine(i)

Spec == Init /\ [][Next]_vars

(* Every goroutine goes on, and fn ends.                                   *)
FairSpec ==
  /\ Spec
  /\ WF_vars(Caller)
  /\ \A i \in 1 .. MaxItems : WF_vars(i \in Item /\ Goroutine(i))

-----------------------------------------------------------------------------
(* Properties.                                                             *)

(* Every variable keeps its type; the two channels keep their capacities.  *)
TypeOK ==
  /\ maxParallel \in Limits
  /\ phases \in 1 .. MaxPhases
  /\ phase \in 1 .. phases
  /\ pc \in {"query", "spawn", "wait", "join", "returned"}
  /\ items \in 0 .. MaxItems
  /\ spawned \in 0 .. items
  /\ at \in [Item -> Place]
  /\ slots \in 0 .. (IF maxParallel = 0 THEN 0 ELSE maxParallel)
  /\ errCh \subseteq Item
  /\ failed \subseteq Item
  /\ trouble \in BOOLEAN
  /\ result \in {"none", "nil", "error"}

(* WithMaxParallel: no more than that many tasks are worked on at a time.  *)
SlotsBounded ==
  maxParallel > 0 =>
    Cardinality(In("run") \cup In("send") \cup In("release")) <= maxParallel

(* One task's failure is its own (README.md: concurrency is isolated by    *)
(* task_code): when runInParallel has joined, fn has run for every item,   *)
(* whichever failed before, and nobody's error is missing.                 *)
EveryItemRuns ==
  pc = "join" => (\A i \in Item : at[i] = "done") /\ errCh = failed

(* The caller of RunUploader, RunProducer, a single uploader or the two    *)
(* resumes of OnStartup is told: nil means that every phase ran and        *)
(* nothing failed in any of them, and every failure is returned.           *)
(* (OnStartup as a whole may return nil although a backfill failed.)       *)
ReturnTellsAll ==
  pc = "returned" =>
    /\ result = (IF trouble THEN "error" ELSE "nil")
    /\ result = "nil" => phase = phases

(* The call returns: nobody waits for good on the semaphore, on the full   *)
(* error channel or on the wait group, and no goroutine is left behind.    *)
Terminates == <>[](pc = "returned" /\ \A i \in Item : at[i] = "done")
=============================================================================
