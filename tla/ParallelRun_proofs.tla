-------------------------- MODULE ParallelRun_proofs --------------------------
(***************************************************************************)
(* What a call that works on many tasks promises, for any number of tasks, *)
(* any number of phases and every limit.  Four facts hold together: the    *)
(* tokens in the semaphore count the goroutines at work (Counted), the     *)
(* caller has spawned a prefix of the items and leaves a phase only when   *)
(* every goroutine is done (Stages), an error is on its way to the channel *)
(* or in it (Errors), and what is returned is what happened (Told).        *)
(***************************************************************************)
EXTENDS ParallelRun, TLAPS, FiniteSetTheorems

AtWork == {i \in Item : at[i] \in {"run", "send", "release"}}

Counted == slots = IF maxParallel = 0 THEN 0 ELSE Cardinality(AtWork)

Stages ==
  /\ \A i \in Item : at[i] = "none" <=> i > spawned
  /\ pc = "wait" => spawned = items
  /\ pc \in {"query", "join", "returned"} => \A i \in Item : at[i] = "done"

Errors == failed = errCh \cup In("send")

Told ==
  /\ pc # "returned" => result = "none" /\ (trouble = (failed # {}))
  /\ pc = "query" => failed = {}
  /\ pc = "returned" => /\ result = (IF trouble THEN "error" ELSE "nil")
                        /\ result = "nil" => phase = phases

IInv == TypeOK /\ Counted /\ Stages /\ Errors /\ Told

-----------------------------------------------------------------------------
(* Sets of items.                                                          *)

(* The goroutines at work are finitely many.                               *)
LEMMA AtWorkFinite ==
  ASSUME TypeOK
  PROVE  IsFiniteSet(AtWork) /\ Cardinality(AtWork) \in Nat
<1>1. items \in Int /\ IsFiniteSet(1 .. items)
  BY RunOK, FS_Interval DEF TypeOK
<1>2. AtWork \subseteq 1 .. items
  BY DEF AtWork, Item
<1> QED
  BY <1>1, <1>2, FS_Subset, FS_CardinalityType

(* A goroutine that takes a slot is one more at work.                      *)
LEMMA OneMore ==
  ASSUME TypeOK, NEW i \in Item, at[i] = "acquire", UNCHANGED items,
         at' = [at EXCEPT ![i] = "run"]
  PROVE  Cardinality(AtWork') = Cardinality(AtWork) + 1
<1>1. AtWork' = AtWork \cup {i} /\ i \notin AtWork
  BY DEF AtWork, Item, TypeOK
<1> QED
  BY <1>1, AtWorkFinite, FS_AddElement

(* A goroutine that gives its slot back is one less, and was one of them.  *)
LEMMA OneLess ==
  ASSUME TypeOK, NEW i \in Item, at[i] = "release", UNCHANGED items,
         at' = [at EXCEPT ![i] = "done"]
  PROVE  /\ Cardinality(AtWork') = Cardinality(AtWork) - 1
         /\ Cardinality(AtWork) > 0
<1>1. AtWork' = AtWork \ {i} /\ i \in AtWork
  BY DEF AtWork, Item, TypeOK
<1>2. Cardinality(AtWork') = Cardinality(AtWork) - 1
  BY <1>1, AtWorkFinite, FS_RemoveElement
<1>3. Cardinality(AtWork) # 0
  BY <1>1, AtWorkFinite, FS_EmptySet
<1> QED
  BY <1>2, <1>3, AtWorkFinite

-----------------------------------------------------------------------------
(* The invariant is inductive.                                             *)

(* Before the first query no goroutine exists.                           *)
LEMMA InitInv == Init => IInv
<1> SUFFICES ASSUME Init PROVE IInv
  OBVIOUS
<1>1. Item = {}
  BY DEF Init, Item
<1>2. TypeOK
  <2>1. at \in [Item -> Place]
    BY DEF Init, Item
  <2>2. phase \in 1 .. phases
    BY RunOK DEF Init
  <2>3. slots \in 0 .. (IF maxParallel = 0 THEN 0 ELSE maxParallel)
    BY RunOK DEF Init
  <2>4. items \in 0 .. MaxItems /\ spawned \in 0 .. items /\ errCh \subseteq Item /\ failed \subseteq Item
    BY RunOK DEF Init
  <2> QED
    BY <2>1, <2>2, <2>3, <2>4 DEF Init, TypeOK
<1>3. AtWork = {} /\ In("send") = {}
  BY <1>1 DEF AtWork, In
<1>4. Counted
  BY <1>3, FS_EmptySet DEF Init, Counted
<1> QED
  BY <1>1, <1>2, <1>3, <1>4 DEF Init, IInv, Stages, Errors, Told

(* The caller starts a phase.                                              *)
LEMMA QueryStep ==
  ASSUME IInv, Query
  PROVE  IInv'
<1>1. PICK n \in 0 .. MaxItems : items' = n /\ at' = [i \in 1 .. n |-> "none"]
  BY DEF Query
<1>2. AtWork' = {} /\ In("send")' = {}
  BY <1>1 DEF AtWork, In, Item
<1>3. TypeOK'
  BY <1>1, RunOK DEF IInv, TypeOK, Query, Item, Place
<1>4. Counted'
  BY <1>2, FS_EmptySet DEF Query, Counted
<1>5. Stages'
  BY <1>1, RunOK DEF Query, Stages, Item
<1>6. Errors'
  BY <1>2 DEF Query, Errors
<1>7. Told'
  BY DEF IInv, Query, Told
<1> QED
  BY <1>3, <1>4, <1>5, <1>6, <1>7 DEF IInv

(* The query of a phase fails: nothing of it has started.                  *)
LEMMA QueryFailsStep ==
  ASSUME IInv, QueryFails
  PROVE  IInv'
<1> USE DEF QueryFails, Abort, phaseVars, IInv
<1>1. AtWork' = AtWork /\ In("send")' = In("send")
  BY DEF AtWork, In, Item
<1>2. TypeOK'
  BY DEF TypeOK, Item
<1>3. Counted' /\ Stages' /\ Errors'
  BY <1>1 DEF Counted, Stages, Errors, Item
<1>4. Told'
  BY DEF Told
<1> QED
  BY <1>2, <1>3, <1>4

(* The next goroutine is started, or the caller goes on to wait.         *)
LEMMA SpawnStep ==
  ASSUME IInv, Spawn
  PROVE  IInv'
<1> USE DEF IInv
<1>0. items \in Nat /\ spawned \in 0 .. items /\ at \in [Item -> Place] /\ Item = 1 .. items
  BY RunOK DEF TypeOK, Item
<1>1. CASE ~MoreToSpawn
  <2>1. AtWork' = AtWork /\ In("send")' = In("send")
    BY <1>1 DEF Spawn, AtWork, In, Item
  <2>2. spawned = items
    BY <1>0, <1>1 DEF MoreToSpawn
  <2>3. TypeOK'
    BY <1>1 DEF Spawn, TypeOK, Item
  <2>4. Counted' /\ Stages' /\ Errors' /\ Told'
    BY <1>1, <2>1, <2>2 DEF Spawn, Counted, Stages, Errors, Told, Item
  <2> QED
    BY <2>3, <2>4
<1>2. CASE MoreToSpawn
  <2>1. /\ spawned + 1 \in Item
        /\ at[spawned + 1] = "none"
        /\ at' = [at EXCEPT ![spawned + 1] = "acquire"]
        /\ spawned' = spawned + 1
        /\ UNCHANGED <<maxParallel, phases, phase, pc, items, slots, errCh, failed, trouble, result>>
    BY <1>0, <1>2 DEF Spawn, MoreToSpawn, Stages
  <2>2. AtWork' = AtWork /\ In("send")' = In("send")
    BY <1>0, <2>1 DEF AtWork, In, Item
  <2>3. TypeOK'
    BY <1>0, <2>1 DEF TypeOK, Item, Place
  <2>4. Stages'
    BY <1>0, <1>2, <2>1 DEF Stages, Item, Spawn
  <2>5. Counted' /\ Errors' /\ Told'
    BY <2>1, <2>2 DEF Counted, Errors, Told
  <2> QED
    BY <2>3, <2>4, <2>5
<1> QED
  BY <1>1, <1>2

(* The wait group is at zero: with every item spawned, all are done.     *)
LEMMA WaitStep ==
  ASSUME IInv, Wait
  PROVE  IInv'
<1> USE DEF IInv, Wait, phaseVars
<1>1. AtWork' = AtWork /\ In("send")' = In("send")
  BY DEF AtWork, In, Item
<1>2. \A i \in Item : at[i] = "done"
  BY RunOK DEF AllDone, Stages, TypeOK, Item
<1>3. TypeOK'
  BY DEF TypeOK, Item
<1>4. Counted' /\ Errors' /\ Told'
  BY <1>1 DEF Counted, Errors, Told
<1>5. Stages'
  BY <1>2 DEF Stages, Item
<1> QED
  BY <1>3, <1>4, <1>5

(* The phase is over, and with an error or behind the last phase the call. *)
LEMMA JoinStep ==
  ASSUME IInv, Join
  PROVE  IInv'
<1> USE DEF IInv, Join, phaseVars
<1>1. AtWork' = AtWork /\ In("send")' = In("send")
  BY DEF AtWork, In, Item
<1>2. failed = errCh
  BY DEF Stages, Errors, In
<1>3. TypeOK'
  BY RunOK DEF TypeOK, Item, Abort, Advance
<1>4. Counted' /\ Errors'
  BY <1>1 DEF Counted, Errors
<1>5. Stages'
  BY DEF Stages, Item, Abort, Advance
<1>6. Told'
  BY <1>2 DEF Told, Abort, Advance, SomeError, TypeOK
<1> QED
  BY <1>3, <1>4, <1>5, <1>6

(* A goroutine moves on; the caller is between its query and its join.   *)
LEMMA GoroutineStep ==
  ASSUME IInv, NEW i \in Item, Goroutine(i)
  PROVE  IInv'
<1> USE DEF IInv
<1>0. items \in Nat /\ at \in [Item -> Place] /\ Item = 1 .. items
  BY RunOK DEF TypeOK, Item
<1>e. at[i] \in {"acquire", "run", "send", "release"}
  BY DEF Goroutine, Acquire, Succeed, Fail, SendError, Release, Move
<1>a. at[i] # "none" /\ pc \notin {"query", "join", "returned"}
  BY <1>e DEF Stages
<1>b. UNCHANGED <<maxParallel, phases, phase, pc, items, spawned, result>>
  BY DEF Goroutine, Acquire, Succeed, Fail, SendError, Release
<1>c. Item' = Item
  BY <1>b DEF Item
<1>d. /\ at' \in [Item -> Place]
      /\ at'[i] # "none"
      /\ \A j \in Item \ {i} : at'[j] = at[j]
  BY <1>0 DEF Goroutine, Acquire, Succeed, Fail, SendError, Release, Move, Place
<1>1. Stages'
  <2>1. \A j \in Item' : at'[j] = "none" <=> j > spawned'
    BY <1>a, <1>b, <1>c, <1>d DEF Stages
  <2>2. pc' = "wait" => spawned' = items'
    BY <1>b DEF Stages
  <2> QED
    BY <1>a, <1>b, <2>1, <2>2 DEF Stages
<1>2. CASE Acquire(i)
  <2>1. Cardinality(AtWork') = Cardinality(AtWork) + 1
    BY <1>2, <1>b, OneMore DEF Acquire, Move
  <2>2. In("send")' = In("send")
    BY <1>0, <1>2, <1>c, <1>d DEF Acquire, Move, In
  <2>3. Counted'
    BY <1>2, <1>b, <2>1 DEF Acquire, Counted
  <2>4. TypeOK'
    BY <1>2, <1>b, <1>c, <1>d, RunOK DEF TypeOK, Acquire, SlotFree
  <2>5. Errors' /\ Told'
    BY <1>2, <1>b, <2>2 DEF Acquire, Errors, Told
  <2> QED
    BY <1>1, <2>3, <2>4, <2>5
<1>3. CASE Succeed(i)
  <2>1. AtWork' = AtWork /\ In("send")' = In("send")
    BY <1>0, <1>3, <1>c, <1>d DEF Succeed, Move, In, AtWork
  <2>2. TypeOK'
    BY <1>3, <1>b, <1>c, <1>d DEF TypeOK, Succeed
  <2>3. Counted' /\ Errors' /\ Told'
    BY <1>3, <1>b, <2>1 DEF Succeed, Counted, Errors, Told
  <2> QED
    BY <1>1, <2>2, <2>3
<1>4. CASE Fail(i)
  <2>1. AtWork' = AtWork /\ In("send")' = In("send") \cup {i}
    BY <1>0, <1>4, <1>c, <1>d DEF Fail, Move, In, AtWork
  <2>2. TypeOK'
    BY <1>4, <1>b, <1>c, <1>d DEF TypeOK, Fail
  <2>3. Counted' /\ Errors'
    BY <1>4, <1>b, <2>1 DEF Fail, Counted, Errors
  <2>4. Told'
    BY <1>4, <1>a, <1>b DEF Fail, Told
  <2> QED
    BY <1>1, <2>2, <2>3, <2>4
<1>5. CASE SendError(i)
  <2>1. AtWork' = AtWork /\ In("send")' = In("send") \ {i} /\ i \in In("send")
    BY <1>0, <1>5, <1>c, <1>d DEF SendError, Move, In, AtWork
  <2>2. TypeOK'
    BY <1>5, <1>b, <1>c, <1>d DEF TypeOK, SendError
  <2>3. Counted' /\ Errors' /\ Told'
    BY <1>5, <1>b, <2>1 DEF SendError, Counted, Errors, Told
  <2> QED
    BY <1>1, <2>2, <2>3
<1>6. CASE Release(i)
  <2>1. Cardinality(AtWork') = Cardinality(AtWork) - 1 /\ Cardinality(AtWork) > 0
    BY <1>6, <1>b, OneLess DEF Release, Move
  <2>2. In("send")' = In("send")
    BY <1>0, <1>6, <1>c, <1>d DEF Release, Move, In
  <2>3. Counted'
    BY <1>6, <1>b, <2>1 DEF Release, Freed, Counted
  <2>4. TypeOK'
    BY <1>6, <1>b, <1>c, <1>d, <2>1, RunOK, AtWorkFinite DEF TypeOK, Release, Freed, Counted
  <2>5. Errors' /\ Told'
    BY <1>6, <1>b, <2>2 DEF Release, Errors, Told
  <2> QED
    BY <1>1, <2>3, <2>4, <2>5
<1> QED
  BY <1>2, <1>3, <1>4, <1>5, <1>6 DEF Goroutine

(* Every step of the call keeps the invariant.                           *)
LEMMA NextInv == IInv /\ [Next]_vars => IInv'
<1> SUFFICES ASSUME IInv, [Next]_vars PROVE IInv'
  OBVIOUS
<1>1. CASE UNCHANGED vars
  <2>1. AtWork' = AtWork /\ In("send")' = In("send")
    BY <1>1 DEF vars, AtWork, In, Item
  <2> QED
    BY <1>1, <2>1 DEF vars, IInv, TypeOK, Item, Counted, Stages, Errors, Told
<1>2. CASE Caller
  BY <1>2, QueryStep, QueryFailsStep, SpawnStep, WaitStep, JoinStep DEF Caller
<1>3. CASE \E i \in Item : Goroutine(i)
  BY <1>3, GoroutineStep
<1> QED
  BY <1>1, <1>2, <1>3 DEF Next

(* The invariant holds throughout.                                       *)
LEMMA Invariant == Spec => []IInv
BY InitInv, NextInv, PTL DEF Spec

-----------------------------------------------------------------------------
(* Every variable keeps its type, and the semaphore its capacity.          *)
THEOREM Typing == Spec => []TypeOK
<1>1. IInv => TypeOK
  BY DEF IInv
<1> QED
  BY <1>1, Invariant, PTL

(* WithMaxParallel is kept: there are as many goroutines at work as tokens *)
(* in the channel.                                                         *)
THEOREM LimitKept == Spec => []SlotsBounded
<1>1. IInv => SlotsBounded
  <2> SUFFICES ASSUME IInv, maxParallel > 0
               PROVE  Cardinality(In("run") \cup In("send") \cup In("release")) <= maxParallel
    BY DEF SlotsBounded
  <2>1. AtWork = In("run") \cup In("send") \cup In("release")
    BY DEF AtWork, In
  <2> QED
    BY <2>1, RunOK DEF IInv, Counted, TypeOK
<1> QED
  BY <1>1, Invariant, PTL

(* Whichever tasks fail, every task of a phase is worked on, and no error  *)
(* is lost between its goroutine and the join.                             *)
THEOREM NobodyLeftOut == Spec => []EveryItemRuns
<1>1. IInv => EveryItemRuns
  BY DEF IInv, Stages, Errors, In, EveryItemRuns
<1> QED
  BY <1>1, Invariant, PTL

(* What RunUploader, RunProducer, a single uploader or the two resumes of  *)
(* OnStartup return tells whether anything failed in any phase.            *)
THEOREM ToldAll == Spec => []ReturnTellsAll
<1>1. IInv => ReturnTellsAll
  BY DEF IInv, Told, ReturnTellsAll
<1> QED
  BY <1>1, Invariant, PTL

-----------------------------------------------------------------------------
(* The call ends.  Terminates says so under fairness; here is what it says *)
(* of every state and every step without any.  Somebody can go on until    *)
(* the call has returned and every goroutine is done (NobodyIsStuck), and  *)
(* no step leads back: it leaves a phase for the next one or goes on       *)
(* within the phase (OnlyForward), where the way is short (PhaseIsShort).  *)

Finished == pc = "returned" /\ \A i \in Item : at[i] = "done"

(* The guards of the actions.                                              *)
SomebodyCanGoOn ==
  \/ pc \in {"query", "spawn", "join"}
  \/ pc = "wait" /\ AllDone
  \/ SlotFree /\ In("acquire") # {}
  \/ Room /\ In("send") # {}
  \/ In("run") # {} \/ In("release") # {}

NeverStuck == Finished \/ SomebodyCanGoOn

(* An error in the channel is of a goroutine that has sent it.             *)
Sent == \A i \in errCh : at[i] \in {"release", "done"}

LEMMA SentHolds == Spec => []Sent
<1>1. Init => Sent
  BY DEF Init, Sent
<1>2. IInv /\ Sent /\ [Next]_vars => Sent'
  <2> SUFFICES ASSUME IInv, Sent, [Next]_vars
               PROVE  Sent'
    OBVIOUS
  <2>1. at \in [Item -> Place] /\ errCh \subseteq Item
    BY DEF IInv, TypeOK
  <2>2. CASE Query \/ QueryFails \/ Wait \/ Join \/ UNCHANGED vars
    BY <2>2 DEF Query, QueryFails, Wait, Join, phaseVars, vars, Sent
  <2>3. CASE Spawn
    <3>1. MoreToSpawn => at[spawned + 1] = "none"
      BY RunOK DEF MoreToSpawn, IInv, TypeOK, Stages, Item
    <3> QED
      BY <2>1, <2>3, <3>1 DEF Spawn, Sent
  <2>4. ASSUME NEW i \in Item, Goroutine(i)
        PROVE  Sent'
    BY <2>1, <2>4 DEF Goroutine, Acquire, Succeed, Fail, SendError, Release, Move, Sent
  <2> QED
    BY <2>2, <2>3, <2>4 DEF Next, Caller
<1> QED
  BY <1>1, <1>2, Invariant, PTL DEF Spec

(* A goroutine with an error to send finds room for it.                    *)
LEMMA RoomForEveryError ==
  ASSUME IInv, Sent, NEW i \in In("send")
  PROVE  Room
<1>1. items \in Nat /\ Item = 1 .. items /\ i \in Item /\ errCh \subseteq Item \ {i}
  BY RunOK DEF IInv, TypeOK, Item, In, Sent
<1>2. IsFiniteSet(Item) /\ Cardinality(Item) = items
  BY <1>1, FS_Interval
<1>3. IsFiniteSet(Item \ {i}) /\ Cardinality(Item \ {i}) = items - 1
  BY <1>1, <1>2, FS_RemoveElement
<1>4. Cardinality(errCh) <= items - 1 /\ Cardinality(errCh) \in Nat
  BY <1>1, <1>3, FS_Subset, FS_CardinalityType
<1> QED
  BY <1>1, <1>4 DEF Room

(* No goroutine waits for good on the semaphore or on the error channel,   *)
(* and the caller not on the wait group.                                   *)
THEOREM NobodyIsStuck == Spec => []NeverStuck
<1>1. IInv /\ Sent => NeverStuck
  <2> SUFFICES ASSUME IInv, Sent, ~SomebodyCanGoOn
               PROVE  Finished
    BY DEF NeverStuck
  <2>1. In("run") = {} /\ In("release") = {} /\ In("send") = {}
    BY RoomForEveryError DEF SomebodyCanGoOn
  <2>2. AtWork = {}
    BY <2>1 DEF AtWork, In
  <2>3. slots = 0
    BY <2>2, FS_EmptySet DEF IInv, Counted
  <2>4. SlotFree
    BY <2>3, RunOK DEF SlotFree, IInv, TypeOK
  <2>5. \A i \in Item : at[i] \in {"none", "done"}
    BY <2>1, <2>4 DEF SomebodyCanGoOn, In, IInv, TypeOK, Place
  <2>6. pc = "returned"
    BY <2>5 DEF SomebodyCanGoOn, AllDone, IInv, TypeOK
  <2> QED
    BY <2>6 DEF Finished, IInv, Stages
<1> QED
  BY <1>1, Invariant, SentHolds, PTL

-----------------------------------------------------------------------------
(* How far a goroutine has come.                                           *)
Way == [none |-> 0, acquire |-> 1, run |-> 2, send |-> 3, release |-> 4, done |-> 5]

(* The goroutines that have come at least so far.                          *)
Past(k) == {i \in Item : Way[at[i]] >= k}

(* The steps of the goroutines, each counted for how far it led.           *)
Done ==
  Cardinality(Past(1)) + Cardinality(Past(2)) + Cardinality(Past(3))
  + Cardinality(Past(4)) + Cardinality(Past(5))

CallerWay == [query |-> 0, spawn |-> 1, wait |-> 2, join |-> 3, returned |-> 4]

(* How far the call has come in its phase.  What the goroutines of the     *)
(* phase before did is no part of it.                                      *)
InPhase == IF pc = "query" THEN 0 ELSE CallerWay[pc] + Done

Forward == phase' > phase \/ (phase' = phase /\ InPhase' > InPhase)

PhaseBounded == phase <= phases /\ 0 <= InPhase /\ InPhase <= 5 * items + 4

LEMMA WayFacts ==
  /\ \A p \in Place : Way[p] \in 0 .. 5
  /\ Way["none"] = 0 /\ Way["acquire"] = 1 /\ Way["run"] = 2
  /\ Way["send"] = 3 /\ Way["release"] = 4 /\ Way["done"] = 5
BY DEF Way, Place

LEMMA PastFinite ==
  ASSUME TypeOK, NEW k
  PROVE  /\ IsFiniteSet(Past(k))
         /\ Cardinality(Past(k)) \in Nat
         /\ Cardinality(Past(k)) <= items
<1>1. items \in Nat /\ Item = 1 .. items
  BY RunOK DEF TypeOK, Item
<1>2. IsFiniteSet(Item) /\ Cardinality(Item) = items
  BY <1>1, FS_Interval
<1>3. Past(k) \in SUBSET Item
  BY DEF Past
<1> QED
  BY <1>2, <1>3, FS_Subset, FS_CardinalityType

(* The same of the next state.                                             *)
LEMMA PastFiniteNext ==
  ASSUME TypeOK', NEW k
  PROVE  IsFiniteSet(Past(k)') /\ Cardinality(Past(k)') \in Nat
<1>1. items' \in Nat /\ Item' = 1 .. items'
  BY RunOK DEF TypeOK, Item
<1>2. IsFiniteSet(Item')
  BY <1>1, FS_Interval
<1>3. Past(k)' \in SUBSET Item'
  BY DEF Past
<1> QED
  BY <1>2, <1>3, FS_Subset, FS_CardinalityType

LEMMA DoneTyped ==
  ASSUME TypeOK
  PROVE  Done \in Nat /\ Done <= 5 * items
<1>1. \A k \in 1 .. 5 : Cardinality(Past(k)) \in Nat /\ Cardinality(Past(k)) <= items
  BY PastFinite
<1>2. items \in Nat
  BY RunOK DEF TypeOK
<1> QED
  BY <1>1, <1>2 DEF Done

(* A goroutine that goes on has come further, and nobody else less far.    *)
LEMMA OneFurther ==
  ASSUME TypeOK, TypeOK', UNCHANGED items, NEW i \in Item, NEW to \in Place,
         at' = [at EXCEPT ![i] = to], Way[to] > Way[at[i]]
  PROVE  Done' > Done
<1>1. at \in [Item -> Place] /\ Item' = Item
  BY DEF TypeOK, Item
<1>2. ASSUME NEW k \in 1 .. 5
      PROVE  /\ Cardinality(Past(k)) \in Nat /\ Cardinality(Past(k)') \in Nat
             /\ Cardinality(Past(k)) <= Cardinality(Past(k)')
             /\ k = Way[to] => Cardinality(Past(k)) # Cardinality(Past(k)')
  <2>1. Past(k) \in SUBSET Past(k)'
    BY <1>1, WayFacts DEF Past
  <2>2. IsFiniteSet(Past(k)') /\ Cardinality(Past(k)') \in Nat
    BY PastFiniteNext
  <2>3. Cardinality(Past(k)) \in Nat /\ Cardinality(Past(k)) <= Cardinality(Past(k)')
    BY <2>1, <2>2, PastFinite, FS_Subset
  <2>4. k = Way[to] => i \in Past(k)' /\ i \notin Past(k)
    BY <1>1, WayFacts DEF Past
  <2>5. k = Way[to] => Cardinality(Past(k)) # Cardinality(Past(k)')
    BY <2>1, <2>2, <2>4, FS_Subset
  <2> QED
    BY <2>2, <2>3, <2>5
<1>3. Way[to] \in 1 .. 5
  BY <1>1, WayFacts
<1> HIDE DEF Past
<1> QED
  BY <1>2, <1>3 DEF Done

(* No step leads back: a phase is left for good, and in a phase neither    *)
(* the caller nor a goroutine comes to a place twice.                      *)
THEOREM OnlyForward == Spec => [][Forward]_vars
<1>1. IInv /\ IInv' /\ [Next]_vars => [Forward]_vars
  <2> SUFFICES ASSUME IInv, IInv', Next
               PROVE  Forward
    OBVIOUS
  <2>0. TypeOK /\ TypeOK'
    BY DEF IInv
  <2>1. /\ phase \in Nat
        /\ Done \in Nat
        /\ pc \in {"query", "spawn", "wait", "join", "returned"}
    BY <2>0, DoneTyped DEF TypeOK
  <2>2. Done' \in Nat
    <3>1. \A k \in 1 .. 5 : Cardinality(Past(k)') \in Nat
      BY <2>0, PastFiniteNext
    <3> QED
      BY <3>1 DEF Done
  <2>d. PICK later \in Nat : Done' = later
    BY <2>2
  <2>3. items' = items /\ at' = at => Done' = Done
    BY DEF Done, Past, Item
  <2>4. CASE Query
    <3>1. pc = "query" /\ pc' = "spawn" /\ phase' = phase
      BY <2>4 DEF Query
    <3>2. InPhase = 0 /\ InPhase' = 1 + later
      BY <2>d, <3>1 DEF InPhase, CallerWay
    <3>3. InPhase' > InPhase
      BY <3>2
    <3> QED
      BY <3>1, <3>3 DEF Forward
  <2>5. CASE QueryFails
    <3>1. pc = "query" /\ pc' = "returned" /\ phase' = phase
      BY <2>5 DEF QueryFails, Abort
    <3>2. InPhase = 0 /\ InPhase' = 4 + later
      BY <2>d, <3>1 DEF InPhase, CallerWay
    <3>3. InPhase' > InPhase
      BY <3>2
    <3> QED
      BY <3>1, <3>3 DEF Forward
  <2>6. CASE Spawn /\ ~MoreToSpawn
    BY <2>1, <2>3, <2>6 DEF Spawn, Forward, InPhase, CallerWay
  <2>7. CASE Spawn /\ MoreToSpawn
    <3>1. /\ spawned + 1 \in Item /\ at[spawned + 1] = "none"
          /\ at' = [at EXCEPT ![spawned + 1] = "acquire"]
          /\ UNCHANGED <<items, phase, pc>> /\ pc = "spawn"
      BY <2>0, <2>7, RunOK DEF Spawn, MoreToSpawn, IInv, Stages, TypeOK, Item
    <3>2. Done' > Done
      <4>1. "acquire" \in Place /\ Way["acquire"] > Way[at[spawned + 1]]
        BY <3>1, WayFacts DEF Place
      <4> QED
        BY <2>0, <3>1, <4>1, OneFurther
    <3>3. InPhase = 1 + Done /\ InPhase' = 1 + later
      BY <2>d, <3>1 DEF InPhase, CallerWay
    <3>4. InPhase' > InPhase
      BY <2>1, <2>d, <3>2, <3>3
    <3> QED
      BY <3>1, <3>4 DEF Forward
  <2>8. CASE Wait
    BY <2>1, <2>3, <2>8 DEF Wait, phaseVars, Forward, InPhase, CallerWay
  <2>9. CASE Join
    BY <2>1, <2>3, <2>9 DEF Join, Abort, Advance, phaseVars, Forward, InPhase, CallerWay
  <2>10. ASSUME NEW i \in Item, Goroutine(i)
         PROVE  Forward
    <3>1. /\ UNCHANGED <<items, phase, pc>>
          /\ pc # "query"
      BY <2>10 DEF Goroutine, Acquire, Succeed, Fail, SendError, Release, Move, IInv, Stages
    <3>2. PICK to \in Place : at' = [at EXCEPT ![i] = to] /\ Way[to] > Way[at[i]]
      BY <2>10, WayFacts DEF Goroutine, Acquire, Succeed, Fail, SendError, Release, Move, Place
    <3>3. Done' > Done
      BY <2>0, <3>1, <3>2, OneFurther
    <3> QED
      BY <2>1, <2>2, <3>1, <3>3 DEF Forward, InPhase, CallerWay
  <2> QED
    BY <2>4, <2>5, <2>6, <2>7, <2>8, <2>9, <2>10 DEF Next, Caller
<1> QED
  BY <1>1, Invariant, PTL DEF Spec

(* A call has at most three phases, and a phase at most five steps of each *)
(* of its goroutines and four of the caller besides.                       *)
THEOREM PhaseIsShort == Spec => []PhaseBounded
<1>1. TypeOK => PhaseBounded
  <2> SUFFICES ASSUME TypeOK
               PROVE  PhaseBounded
    OBVIOUS
  <2>1. phase <= phases /\ items \in Nat
    BY RunOK DEF TypeOK
  <2>2. pc = "query" \/ CallerWay[pc] \in 1 .. 4
    BY DEF TypeOK, CallerWay
  <2> QED
    BY <2>1, <2>2, DoneTyped DEF PhaseBounded, InPhase
<1> QED
  BY <1>1, Typing, PTL
=============================================================================
