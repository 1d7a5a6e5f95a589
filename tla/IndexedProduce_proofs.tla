----------------------- MODULE IndexedProduce_proofs -----------------------
(***************************************************************************)
(* Theorems about IndexedProduce, for every range of indexes and every     *)
(* parallelism.                                                            *)
(***************************************************************************)
EXTENDS IndexedProduce, TLAPS, FiniteSetTheorems

-----------------------------------------------------------------------------
(* Sequences: what Append adds and what Head and Tail take apart.          *)

LEMMA AppendFacts ==
  ASSUME NEW S, NEW s \in Seq(S), NEW e \in S
  PROVE  /\ Append(s, e) \in Seq(S)
         /\ Len(Append(s, e)) = Len(s) + 1
         /\ \A i \in 1 .. Len(s) : Append(s, e)[i] = s[i]
         /\ Append(s, e)[Len(s) + 1] = e
OBVIOUS

LEMMA HeadTailFacts ==
  ASSUME NEW S, NEW s \in Seq(S), s # << >>
  PROVE  /\ Head(s) \in S
         /\ Head(s) = s[1]
         /\ Tail(s) \in Seq(S)
         /\ Len(s) \in Nat /\ Len(s) > 0
         /\ Len(Tail(s)) = Len(s) - 1
         /\ \A i \in 1 .. Len(Tail(s)) : Tail(s)[i] = s[i + 1]
OBVIOUS

-----------------------------------------------------------------------------
(* Type correctness.                                                       *)

LEMMA InitType == Init => TypeOK
<1> SUFFICES ASSUME Init
             PROVE  TypeOK
  OBVIOUS
<1>1. First \in Index /\ First \in First .. Last + 1 /\ NoErr \in First - 1 .. Last
  BY ParallelOK DEF Index, NoErr
<1>2. results \in Seq(Result) /\ Len(results) <= Parallelism /\ created \in Seq(Index)
  BY ParallelOK DEF Init
<1> QED
  BY <1>1, <1>2 DEF Init, TypeOK

LEMMA NextType == TypeOK /\ [Next]_vars => TypeOK'
<1> SUFFICES ASSUME TypeOK, [Next]_vars
             PROVE  TypeOK'
  OBVIOUS
<1> USE ParallelOK DEF workerVars, callerVars
<1>1. ASSUME NEW w \in Worker, Dispatch(w)
      PROVE  TypeOK'
  BY <1>1 DEF Dispatch, TypeOK, Index
<1>2. CASE CloseJobs \/ CloseResults
  BY <1>2 DEF CloseJobs, CloseResults, TypeOK
<1>3. ASSUME NEW w \in Worker, Build(w) \/ WorkerDone(w)
      PROVE  TypeOK'
  BY <1>3 DEF Build, WorkerDone, TypeOK
<1>4. ASSUME NEW w \in Worker, SendResult(w)
      PROVE  TypeOK'
  <2>1. [index |-> job[w], ok |-> built[w]] \in Result
    BY DEF TypeOK, Result
  <2>2. results' \in Seq(Result) /\ Len(results') <= Parallelism
    <3>1. Len(results) \in Nat /\ Len(results) < Parallelism
      BY <1>4 DEF SendResult, Room, TypeOK
    <3> QED
      BY <1>4, <2>1, <3>1, AppendFacts DEF SendResult, TypeOK
  <2> QED
    BY <1>4, <2>2 DEF SendResult, TypeOK, Index
<1>5. CASE Receive
  <2>1. /\ results \in Seq(Result) /\ results # << >>
        /\ pending' = pending \cup {Head(results)}
        /\ results' = Tail(results)
        /\ pc' = "order"
    BY <1>5 DEF Receive, TypeOK
  <2>2. Head(results) \in Result /\ results' \in Seq(Result) /\ Len(results') <= Parallelism
    BY <2>1, HeadTailFacts DEF TypeOK
  <2> QED
    BY <1>5, <2>1, <2>2 DEF Receive, TypeOK
<1>6. ASSUME NEW r \in pending, Take(r)
      PROVE  TypeOK'
  <2>1. r.index \in Index /\ r.index = nextIndex
    BY <1>6 DEF Take, InOrder, TypeOK, Result
  <2>2. created' \in Seq(Index)
    <3>1. created' = created \/ created' = Append(created, r.index)
      BY <1>6 DEF Take
    <3> QED
      BY <2>1, <3>1, AppendFacts DEF TypeOK
  <2>3. firstErr' \in First - 1 .. Last
    BY <1>6, <2>1 DEF Take, TypeOK, Index, NoErr
  <2>4. nextIndex' \in First .. Last + 1
    BY <1>6, <2>1 DEF Take, TypeOK, Index
  <2>5. pending' \in SUBSET Result
    BY <1>6 DEF Take, TypeOK
  <2> QED
    BY <1>6, <2>2, <2>3, <2>4, <2>5 DEF Take, TypeOK
<1>7. CASE Wait \/ Return
  BY <1>7 DEF Wait, Return, TypeOK
<1>8. CASE UNCHANGED vars
  BY <1>8 DEF vars, TypeOK
<1> QED
  BY <1>1, <1>2, <1>3, <1>4, <1>5, <1>6, <1>7, <1>8
     DEF Next, Dispatcher, WorkerStep, Caller

(* The variables keep their types and the channel its capacity.            *)
THEOREM Typing == Spec => []TypeOK
BY InitType, NextType, PTL DEF Spec

-----------------------------------------------------------------------------
(* No index is lost on its way.  Every index that was handed out is with a *)
(* worker, in the channel, in the reordering map or behind nextIndex.      *)

Held(i) == \E w \in Worker : wpc[w] \in {"build", "send"} /\ job[w] = i

InChannel(i) == \E n \in 1 .. Len(results) : results[n].index = i

InMap(i) == \E r \in pending : r.index = i

OnTheWay ==
  \A i \in Index : i < sent => i < nextIndex \/ Held(i) \/ InChannel(i) \/ InMap(i)

(* What the closed channels and the place of the caller tell.              *)
Phases ==
  /\ jobsClosed => sent = Last + 1
  /\ closed => jobsClosed /\ \A w \in Worker : wpc[w] = "done"
  /\ pc # "order" => ~InMap(nextIndex)
  /\ pc = "returned" => nextIndex = Last + 1

(* The rows written so far, and the first error.                           *)
Written ==
  /\ \A i \in 1 .. Len(created) : created[i] = First + i - 1
  /\ firstErr = NoErr => First + Len(created) = nextIndex
  /\ firstErr # NoErr => /\ firstErr < nextIndex
                         /\ First + Len(created) - 1 <= firstErr

IInv == TypeOK /\ OnTheWay /\ Phases /\ Written

LEMMA InitIInv == Init => IInv
<1> SUFFICES ASSUME Init
             PROVE  OnTheWay /\ Phases /\ Written
  BY InitType DEF IInv
<1> USE ParallelOK
<1>1. OnTheWay
  BY DEF Init, OnTheWay, Index
<1>2. Phases
  BY DEF Init, Phases, InMap
<1>3. Written
  BY DEF Init, Written, NoErr
<1> QED
  BY <1>1, <1>2, <1>3

LEMMA NextOnTheWay == TypeOK /\ Phases /\ OnTheWay /\ [Next]_vars => OnTheWay'
<1> SUFFICES ASSUME TypeOK, Phases, OnTheWay, [Next]_vars, NEW i \in Index, i < sent'
             PROVE  i < nextIndex' \/ Held(i)' \/ InChannel(i)' \/ InMap(i)'
  BY DEF OnTheWay
<1> USE DEF workerVars, callerVars
<1> DEFINE There == i < nextIndex' \/ Held(i)' \/ InChannel(i)' \/ InMap(i)'
<1>0. i < sent => i < nextIndex \/ Held(i) \/ InChannel(i) \/ InMap(i)
  BY DEF OnTheWay
<1>1. ASSUME NEW w \in Worker, Dispatch(w)
      PROVE  There
  <2>1. CASE i = sent
    BY <1>1, <2>1 DEF Dispatch, Held, TypeOK
  <2>2. CASE i # sent
    <3>1. i < sent
      BY <1>1, <2>2, ParallelOK DEF Dispatch, Index, TypeOK
    <3>2. Held(i) => Held(i)'
      BY <1>1 DEF Dispatch, Held, TypeOK
    <3>3. UNCHANGED <<nextIndex, results, pending>>
      BY <1>1 DEF Dispatch
    <3> QED
      BY <1>0, <3>1, <3>2, <3>3 DEF InChannel, InMap
  <2> QED
    BY <2>1, <2>2
<1>2. CASE CloseJobs \/ CloseResults \/ Wait \/ Return
  BY <1>0, <1>2 DEF CloseJobs, CloseResults, Wait, Return, Held, InChannel, InMap
<1>3. ASSUME NEW w \in Worker, Build(w) \/ WorkerDone(w)
      PROVE  There
  <2>1. Held(i) => Held(i)'
    BY <1>3 DEF Build, WorkerDone, Held, TypeOK
  <2>2. UNCHANGED <<sent, nextIndex, results, pending>>
    BY <1>3 DEF Build, WorkerDone
  <2> QED
    BY <1>0, <2>1, <2>2 DEF InChannel, InMap
<1>4. ASSUME NEW w \in Worker, SendResult(w)
      PROVE  There
  <2> DEFINE e == [index |-> job[w], ok |-> built[w]]
  <2>1. /\ results \in Seq(Result) /\ e \in Result
        /\ results' = Append(results, e)
        /\ UNCHANGED <<sent, nextIndex, pending>>
    BY <1>4 DEF SendResult, TypeOK, Result
  <2>2. /\ Len(results) \in Nat
        /\ Len(results') = Len(results) + 1
        /\ \A n \in 1 .. Len(results) : results'[n] = results[n]
        /\ results'[Len(results) + 1] = e
    BY <2>1, AppendFacts
  <2>3. InChannel(i) => InChannel(i)'
    BY <2>2 DEF InChannel
  <2>4. Held(i) => Held(i)' \/ InChannel(i)'
    <3>1. ASSUME NEW v \in Worker, v # w, wpc[v] \in {"build", "send"}, job[v] = i
          PROVE  Held(i)'
      BY <1>4, <3>1 DEF SendResult, Held, TypeOK
    <3>2. ASSUME job[w] = i
          PROVE  InChannel(i)'
      <4>1. results'[Len(results) + 1].index = i
        BY <2>2, <3>2
      <4> QED
        BY <2>2, <4>1 DEF InChannel
    <3> QED
      BY <3>1, <3>2 DEF Held
  <2> QED
    BY <1>0, <2>1, <2>3, <2>4 DEF InMap
<1>5. CASE Receive
  <2>1. /\ results \in Seq(Result) /\ results # << >>
        /\ results' = Tail(results)
        /\ pending' = pending \cup {Head(results)}
        /\ UNCHANGED <<sent, nextIndex, wpc, job>>
    BY <1>5 DEF Receive, TypeOK
  <2>2. /\ Head(results) = results[1]
        /\ Len(results) \in Nat
        /\ Len(results') = Len(results) - 1
        /\ \A n \in 1 .. Len(results') : results'[n] = results[n + 1]
    BY <2>1, HeadTailFacts
  <2>3. InChannel(i) => InChannel(i)' \/ InMap(i)'
    <3>1. ASSUME NEW n \in 1 .. Len(results), results[n].index = i
          PROVE  InChannel(i)' \/ InMap(i)'
      <4>1. CASE n = 1
        BY <2>1, <2>2, <3>1, <4>1 DEF InMap
      <4>2. CASE n # 1
        <5>1. n - 1 \in 1 .. Len(results')
          BY <2>2, <3>1, <4>2
        <5>2. results'[n - 1].index = i
          BY <2>2, <3>1, <5>1
        <5> QED
          BY <5>1, <5>2 DEF InChannel
      <4> QED
        BY <4>1, <4>2
    <3> QED
      BY <3>1 DEF InChannel
  <2>4. InMap(i) => InMap(i)'
    BY <2>1 DEF InMap
  <2> QED
    BY <1>0, <2>1, <2>3, <2>4 DEF Held
<1>6. ASSUME NEW r \in pending, Take(r)
      PROVE  There
  <2>1. /\ pending' = pending \ {r} /\ r.index = nextIndex
        /\ nextIndex' = nextIndex + 1
        /\ UNCHANGED <<sent, wpc, job, results>>
    BY <1>6 DEF Take, InOrder
  <2>2. InMap(i) => InMap(i)' \/ i = nextIndex
    BY <2>1 DEF InMap
  <2>3. nextIndex \in Int /\ i \in Int
    BY ParallelOK DEF TypeOK, Index
  <2> QED
    BY <1>0, <2>1, <2>2, <2>3 DEF Held, InChannel
<1>7. CASE UNCHANGED vars
  BY <1>0, <1>7 DEF vars, Held, InChannel, InMap
<1> QED
  BY <1>1, <1>2, <1>3, <1>4, <1>5, <1>6, <1>7
     DEF Next, Dispatcher, WorkerStep, Caller

(* When the range over results ends, every index has been taken: none is   *)
(* still with a worker, in the channel or in the map.                      *)
LEMMA ReturnComplete ==
  ASSUME TypeOK, OnTheWay, Phases, Return
  PROVE  nextIndex = Last + 1
<1>1. sent = Last + 1 /\ \A w \in Worker : wpc[w] = "done"
  BY DEF Return, RangeEnds, Phases
<1>2. results = << >> /\ pc = "receive"
  BY DEF Return, RangeEnds
<1>3. ~InMap(nextIndex)
  BY <1>2 DEF Phases
<1>4. ~InChannel(nextIndex) /\ ~Held(nextIndex)
  BY <1>1, <1>2 DEF InChannel, Held
<1>5. CASE nextIndex \in Index
  <2>1. nextIndex < sent
    BY <1>1, <1>5, ParallelOK DEF Index
  <2>2. nextIndex < nextIndex
    BY <1>3, <1>4, <1>5, <2>1 DEF OnTheWay
  <2> QED
    BY <1>5, <2>2, ParallelOK DEF Index
<1>6. CASE nextIndex \notin Index
  BY <1>6, ParallelOK DEF TypeOK, Index
<1> QED
  BY <1>5, <1>6

LEMMA NextPhases == TypeOK /\ OnTheWay /\ Phases /\ [Next]_vars => Phases'
<1> SUFFICES ASSUME TypeOK, OnTheWay, Phases, [Next]_vars
             PROVE  Phases'
  OBVIOUS
<1> USE DEF workerVars, callerVars
<1>1. ASSUME NEW w \in Worker, Dispatch(w)
      PROVE  Phases'
  <2>1. ~jobsClosed /\ ~closed
    BY <1>1, ParallelOK DEF Dispatch, Phases, Index
  <2> QED
    BY <1>1, <2>1 DEF Dispatch, Phases, InMap
<1>2. CASE CloseJobs
  BY <1>2, ParallelOK DEF CloseJobs, Phases, InMap, TypeOK
<1>3. CASE CloseResults
  BY <1>3 DEF CloseResults, AllDone, Phases, InMap
<1>4. ASSUME NEW w \in Worker, Build(w) \/ SendResult(w)
      PROVE  Phases'
  <2>1. ~closed
    BY <1>4 DEF Build, SendResult, Phases
  <2> QED
    BY <1>4, <2>1 DEF Build, SendResult, Phases, InMap
<1>5. ASSUME NEW w \in Worker, WorkerDone(w)
      PROVE  Phases'
  BY <1>5 DEF WorkerDone, Phases, InMap, TypeOK
<1>6. CASE Receive
  BY <1>6 DEF Receive, Phases
<1>7. ASSUME NEW r \in pending, Take(r)
      PROVE  Phases'
  BY <1>7 DEF Take, Phases
<1>8. CASE Wait
  BY <1>8 DEF Wait, InOrder, Phases, InMap
<1>9. CASE Return
  BY <1>9, ReturnComplete DEF Return, Phases, InMap
<1>10. CASE UNCHANGED vars
  BY <1>10 DEF vars, Phases, InMap
<1> QED
  BY <1>1, <1>2, <1>3, <1>4, <1>5, <1>6, <1>7, <1>8, <1>9, <1>10
     DEF Next, Dispatcher, WorkerStep, Caller

LEMMA NextWritten == TypeOK /\ Written /\ [Next]_vars => Written'
<1> SUFFICES ASSUME TypeOK, Written, [Next]_vars
             PROVE  Written'
  OBVIOUS
<1> USE DEF workerVars, callerVars
<1>1. CASE UNCHANGED <<nextIndex, firstErr, created>>
  BY <1>1 DEF Written
<1>2. ASSUME NEW r \in pending, Take(r)
      PROVE  Written'
  <2>1. /\ r.index = nextIndex /\ nextIndex \in Index
        /\ nextIndex' = nextIndex + 1
    BY <1>2 DEF Take, InOrder, TypeOK, Result
  <2>2. /\ created \in Seq(Index) /\ Len(created) \in Nat
        /\ First \in Int /\ nextIndex \in Int /\ firstErr \in Int /\ NoErr < nextIndex
    BY <2>1, ParallelOK DEF TypeOK, Index, NoErr
  <2>3. CASE ~Accepting
    BY <1>2, <2>1, <2>2, <2>3 DEF Take, Accepting, Written
  <2>4. CASE Accepting /\ created' = Append(created, nextIndex)
    <3>1. First + Len(created) = nextIndex
      BY <2>4 DEF Accepting, Written
    <3>2. /\ Len(created') = Len(created) + 1
          /\ \A i \in 1 .. Len(created) : created'[i] = created[i]
          /\ created'[Len(created) + 1] = nextIndex
      BY <2>1, <2>2, <2>4, AppendFacts
    <3>3. \A i \in 1 .. Len(created') : created'[i] = First + i - 1
      BY <2>2, <3>1, <3>2 DEF Written
    <3>4. firstErr' \in {NoErr, nextIndex}
      BY <1>2, <2>4 DEF Take, Accepting
    <3>5. First + Len(created') = nextIndex'
      BY <2>1, <2>2, <3>1, <3>2
    <3>6. CASE firstErr' = NoErr
      BY <3>3, <3>5, <3>6 DEF Written
    <3>7. CASE firstErr' = nextIndex
      <4>1. firstErr' < nextIndex' /\ First + Len(created') - 1 <= firstErr'
        BY <2>1, <2>2, <3>2, <3>5, <3>7
      <4>2. firstErr' # NoErr
        BY <2>1, <3>7, ParallelOK DEF Index, NoErr
      <4> QED
        BY <3>3, <4>1, <4>2 DEF Written
    <3> QED
      BY <3>4, <3>6, <3>7
  <2>5. CASE Accepting /\ created' = created /\ firstErr' = nextIndex
    BY <2>1, <2>2, <2>5 DEF Accepting, Written
  <2> QED
    BY <1>2, <2>1, <2>3, <2>4, <2>5 DEF Take
<1>3. ASSUME NEW w \in Worker, Dispatch(w) \/ WorkerStep(w)
      PROVE  UNCHANGED <<nextIndex, firstErr, created>>
  BY <1>3 DEF Dispatch, WorkerStep, Build, SendResult, WorkerDone
<1>4. CASE CloseJobs \/ CloseResults \/ Receive \/ Wait \/ Return \/ UNCHANGED vars
  BY <1>1, <1>4 DEF CloseJobs, CloseResults, Receive, Wait, Return, vars
<1> QED
  BY <1>1, <1>2, <1>3, <1>4 DEF Next, Dispatcher, Caller

THEOREM Invariant == Spec => []IInv
<1>1. Init => IInv
  BY InitIInv
<1>2. IInv /\ [Next]_vars => IInv'
  BY NextType, NextOnTheWay, NextPhases, NextWritten DEF IInv
<1> QED
  BY <1>1, <1>2, PTL DEF Spec

(* The rows are written in index order without a gap, and none behind the  *)
(* first error, in whatever order the workers finish.                      *)
THEOREM OrderKept == Spec => []CreatedInOrder
<1>1. IInv => CreatedInOrder
  BY DEF IInv, Written, CreatedInOrder
<1> QED
  BY <1>1, Invariant, PTL

(* A call that returns nil has created every batch.                        *)
THEOREM NothingLost == Spec => []NilMeansAll
<1>1. IInv => NilMeansAll
  <2> SUFFICES ASSUME IInv, pc = "returned", firstErr = NoErr
               PROVE  Len(created) = Total
    BY DEF NilMeansAll
  <2>1. nextIndex = Last + 1 /\ First + Len(created) = nextIndex
    BY DEF IInv, Phases, Written
  <2>2. Len(created) \in Nat
    BY DEF IInv, TypeOK
  <2> QED
    BY <2>1, <2>2, ParallelOK DEF Total
<1> QED
  BY <1>1, Invariant, PTL

-----------------------------------------------------------------------------
(* IndexedProduce implements OrderedProduce.                               *)

LEMMA InitSequential == Init => Sequential!Init
BY ParallelOK DEF Init, Sequential!Init, Sequential!NoErr, NoErr

LEMMA NextSequential ==
  IInv /\ [Next]_vars => [Sequential!Next]_(Sequential!produceVars)
<1> SUFFICES ASSUME IInv, [Next]_vars
             PROVE  [Sequential!Next]_(Sequential!produceVars)
  OBVIOUS
<1> USE DEF workerVars, callerVars
<1>1. ASSUME UNCHANGED <<nextIndex, firstErr, created>>, (pc = "returned") = (pc' = "returned")
      PROVE  UNCHANGED Sequential!produceVars
  BY <1>1 DEF Sequential!produceVars
<1>2. ASSUME NEW w \in Worker, Dispatch(w) \/ WorkerStep(w)
      PROVE  UNCHANGED Sequential!produceVars
  BY <1>1, <1>2 DEF Dispatch, WorkerStep, Build, SendResult, WorkerDone
<1>3. CASE CloseJobs \/ CloseResults \/ Receive \/ Wait \/ UNCHANGED vars
  BY <1>1, <1>3 DEF CloseJobs, CloseResults, Receive, Wait, vars
<1>4. ASSUME NEW r \in pending, Take(r)
      PROVE  [Sequential!Next]_(Sequential!produceVars)
  <2>1. /\ pc = "order" /\ pc' = "order"
        /\ r.index = nextIndex /\ nextIndex \in First .. Last
        /\ nextIndex' = nextIndex + 1
    BY <1>4 DEF Take, InOrder, IInv, TypeOK, Result, Index
  <2>2. First \in Nat /\ Last \in Nat /\ nextIndex # NoErr /\ nextIndex <= Last
    BY <2>1, ParallelOK DEF NoErr
  <2>3. CASE ~Accepting
    BY <1>4, <2>1, <2>3 DEF Take, Accepting, Sequential!produceVars
  <2>4. CASE Accepting /\ created' = Append(created, nextIndex) /\ firstErr' = NoErr
    BY <2>1, <2>2, <2>4 DEF Accepting, Sequential!Next, Sequential!Create,
       Sequential!NoErr, NoErr
  <2>5. CASE Accepting /\ created' = Append(created, nextIndex) /\ firstErr' = nextIndex
    BY <2>1, <2>2, <2>5 DEF Accepting, Sequential!Next, Sequential!Fail,
       Sequential!NoErr, NoErr
  <2>6. CASE Accepting /\ created' = created /\ firstErr' = nextIndex
    BY <2>1, <2>2, <2>6 DEF Accepting, Sequential!Next, Sequential!Fail,
       Sequential!NoErr, NoErr
  <2> QED
    BY <1>4, <2>1, <2>3, <2>4, <2>5, <2>6 DEF Take
<1>5. CASE Return
  <2>1. nextIndex = Last + 1
    BY <1>5, ReturnComplete DEF IInv
  <2>2. /\ pc # "returned" /\ pc' = "returned"
        /\ UNCHANGED <<nextIndex, firstErr, created>>
    BY <1>5 DEF Return
  <2>3. Sequential!Return
    BY <2>1, <2>2, ParallelOK DEF Sequential!Return, Sequential!NoErr, NoErr
  <2> QED
    BY <2>3 DEF Sequential!Next
<1> QED
  BY <1>2, <1>3, <1>4, <1>5 DEF Next, Dispatcher, Caller

(* Reordering the results of parallel workers implements the sequential    *)
(* loop.                                                                   *)
THEOREM ParallelImplementsSequential == Spec => ImplementsSequential
<1>1. Init => Sequential!Init
  BY InitSequential
<1>2. IInv /\ [Next]_vars => [Sequential!Next]_(Sequential!produceVars)
  BY NextSequential
<1> QED
  BY <1>1, <1>2, Invariant, PTL DEF Spec, ImplementsSequential, Sequential!Spec

-----------------------------------------------------------------------------
(* The call ends.  Terminates says so under fairness; without it two facts *)
(* of every single state and step say more: as long as the call and its    *)
(* goroutines have not finished, somebody can go on (NeverStuck), and the  *)
(* number of steps a call takes is fixed from the start (EveryStepCounts,  *)
(* StepsAreFew).                                                           *)

Finished == pc = "returned" /\ closed /\ AllDone

(* The guards of the actions.                                              *)
SomebodyCanGoOn ==
  \/ sent \in Index /\ \E w \in Worker : wpc[w] = "idle"
  \/ sent > Last /\ ~jobsClosed
  \/ jobsClosed /\ AllDone /\ ~closed
  \/ \E w \in Worker : wpc[w] = "build"
  \/ Room /\ \E w \in Worker : wpc[w] = "send"
  \/ jobsClosed /\ \E w \in Worker : wpc[w] = "idle"
  \/ pc = "receive" /\ (results # << >> \/ RangeEnds)
  \/ pc = "order"

NeverStuck == Finished \/ SomebodyCanGoOn

(* A worker has left only behind the last index, and the caller only       *)
(* behind the closed channel.                                              *)
LeftInOrder ==
  /\ \A w \in Worker : wpc[w] = "done" => jobsClosed
  /\ pc = "returned" => closed

LEMMA LeftInOrderHolds == Spec => []LeftInOrder
<1>1. Init => LeftInOrder
  BY DEF Init, LeftInOrder
<1>2. TypeOK /\ LeftInOrder /\ [Next]_vars => LeftInOrder'
  <2> SUFFICES ASSUME TypeOK, LeftInOrder, [Next]_vars
               PROVE  LeftInOrder'
    OBVIOUS
  <2> USE DEF workerVars, callerVars, LeftInOrder
  <2>1. CASE Dispatcher
    BY <2>1 DEF Dispatcher, CloseJobs, CloseResults, Dispatch, TypeOK
  <2>2. ASSUME NEW w \in Worker, WorkerStep(w)
        PROVE  LeftInOrder'
    BY <2>2 DEF WorkerStep, Build, SendResult, WorkerDone, TypeOK
  <2>3. CASE Caller
    BY <2>3 DEF Caller, Receive, Take, Wait, Return, RangeEnds
  <2>4. CASE UNCHANGED vars
    BY <2>4 DEF vars
  <2> QED
    BY <2>1, <2>2, <2>3, <2>4 DEF Next
<1> QED
  BY <1>1, <1>2, Typing, PTL DEF Spec

(* Nobody waits for good: dispatcher, workers and caller never wait for    *)
(* each other in a circle, also when the channel is full or a batch        *)
(* failed.                                                                 *)
THEOREM NobodyIsStuck == Spec => []NeverStuck
<1>1. IInv /\ LeftInOrder => NeverStuck
  <2> SUFFICES ASSUME IInv, LeftInOrder, ~SomebodyCanGoOn
               PROVE  Finished
    BY DEF NeverStuck
  <2> USE DEF SomebodyCanGoOn
  <2>1. Parallelism \in Nat /\ Parallelism > 1 /\ 1 \in Worker
    BY ParallelOK DEF Worker, Total
  <2>2. CASE pc = "returned"
    BY <2>2 DEF LeftInOrder, IInv, Phases, Finished, AllDone
  <2>3. CASE pc # "returned"
    <3>1. pc = "receive" /\ results = << >>
      BY <2>3 DEF IInv, TypeOK
    <3>2. \A w \in Worker : wpc[w] \in {"idle", "done"}
      BY <2>1, <3>1 DEF Room, IInv, TypeOK
    <3>3. jobsClosed
      <4>1. CASE sent \in Index
        BY <2>1, <3>2, <4>1 DEF LeftInOrder
      <4>2. CASE sent \notin Index
        BY <4>2, ParallelOK DEF IInv, TypeOK, Index
      <4> QED
        BY <4>1, <4>2
    <3>4. AllDone
      BY <3>2, <3>3 DEF AllDone
    <3> QED
      BY <3>1, <3>3, <3>4 DEF RangeEnds
  <2> QED
    BY <2>2, <2>3
<1> QED
  BY <1>1, Invariant, LeftInOrderHolds, PTL

-----------------------------------------------------------------------------
(* The steps a call has taken, read off its state.  An index takes five on *)
(* its way to the caller's map (dispatch, build, send, receive, and the    *)
(* Wait that ends the receive) and one to leave it.                        *)

Busy(place) == {w \in Worker : wpc[w] = place}

Building == Cardinality(Busy("build"))

Sending == Cardinality(Busy("send"))

Gone == Cardinality(Busy("done"))

Queued == Len(results)

One(p) == IF p THEN 1 ELSE 0

(* What is behind the call apart from the indexes on their way.            *)
Closings == One(jobsClosed) + One(closed) + One(pc = "returned") - One(pc = "order")

Steps ==
  5 * (sent - First) - 4 * Building - 3 * Sending - 2 * Queued
  + (nextIndex - First) + Gone + Closings

StepsOfACall == 6 * Total + Cardinality(Worker) + 3

StepsBounded == 0 <= Steps /\ Steps <= StepsOfACall

LEMMA BusyFinite ==
  ASSUME NEW place
  PROVE  /\ Cardinality(Worker) \in Nat
         /\ IsFiniteSet(Busy(place)) /\ Cardinality(Busy(place)) \in Nat
         /\ Cardinality(Busy(place)) <= Cardinality(Worker)
<1>1. IsFiniteSet(Worker)
  BY ParallelOK, FS_Interval DEF Worker, Total
<1>2. Busy(place) \in SUBSET Worker
  BY DEF Busy
<1> QED
  BY <1>1, <1>2, FS_Subset, FS_CardinalityType

(* A worker that moves is one more where it arrives and one less where it  *)
(* was.                                                                    *)
LEMMA OneArrives ==
  ASSUME TypeOK, NEW w \in Worker, NEW to, wpc[w] # to,
         wpc' = [wpc EXCEPT ![w] = to]
  PROVE  Cardinality(Busy(to)') = Cardinality(Busy(to)) + 1
<1>1. Busy(to)' = Busy(to) \cup {w} /\ w \notin Busy(to)
  BY DEF Busy, TypeOK
<1>2. IsFiniteSet(Busy(to))
  BY BusyFinite
<1> QED
  BY <1>1, <1>2, FS_AddElement

LEMMA OneLeaves ==
  ASSUME TypeOK, NEW w \in Worker, NEW from, NEW to, from # to,
         wpc[w] = from, wpc' = [wpc EXCEPT ![w] = to]
  PROVE  Cardinality(Busy(from)') = Cardinality(Busy(from)) - 1
<1>1. Busy(from)' = Busy(from) \ {w} /\ w \in Busy(from)
  BY DEF Busy, TypeOK
<1>2. IsFiniteSet(Busy(from))
  BY BusyFinite
<1> QED
  BY <1>1, <1>2, FS_RemoveElement

(* What the steps are counted from, and that it is made of numbers.        *)
LEMMA StepsTyped ==
  ASSUME TypeOK
  PROVE  /\ sent \in Nat /\ nextIndex \in Nat /\ First \in Nat /\ Last \in Nat
         /\ Building \in Nat /\ Sending \in Nat /\ Gone \in Nat /\ Queued \in Nat
         /\ Closings \in Int
         /\ Steps \in Int
<1>1. sent \in Nat /\ nextIndex \in Nat /\ First \in Nat /\ Last \in Nat
  BY ParallelOK DEF TypeOK
<1>2. Queued \in Nat
  BY DEF TypeOK, Queued
<1>3. Building \in Nat /\ Sending \in Nat /\ Gone \in Nat
  BY BusyFinite DEF Building, Sending, Gone
<1>4. Closings \in Int
  BY DEF Closings, One
<1> QED
  BY <1>1, <1>2, <1>3, <1>4 DEF Steps

LEMMA OneStepMore ==
  ASSUME TypeOK, TypeOK', Next
  PROVE  Steps' = Steps + 1
<1> USE DEF workerVars, callerVars
<1>0. /\ sent \in Nat /\ nextIndex \in Nat /\ First \in Nat
      /\ Building \in Nat /\ Sending \in Nat /\ Gone \in Nat /\ Queued \in Nat
      /\ Closings \in Int
  BY StepsTyped
<1> DEFINE Workers == <<Building, Sending, Gone>>
<1>k. wpc' = wpc => UNCHANGED Workers
  BY DEF Building, Sending, Gone, Busy
<1>q. results' = results => Queued' = Queued
  BY DEF Queued
<1>c. UNCHANGED <<jobsClosed, closed, pc>> => Closings' = Closings
  BY DEF Closings
<1>1. ASSUME NEW w \in Worker, Dispatch(w)
      PROVE  Steps' = Steps + 1
  <2>1. Building' = Building + 1
    BY <1>1, OneArrives DEF Dispatch, Building
  <2>2. Sending' = Sending /\ Gone' = Gone
    BY <1>1 DEF Dispatch, Sending, Gone, Busy, TypeOK
  <2>3. sent' = sent + 1 /\ nextIndex' = nextIndex
    BY <1>1 DEF Dispatch
  <2>4. Queued' = Queued /\ Closings' = Closings
    BY <1>1, <1>q, <1>c DEF Dispatch
  <2> QED
    BY <1>0, <2>1, <2>2, <2>3, <2>4 DEF Steps
<1>2. CASE CloseJobs \/ CloseResults \/ Wait \/ Return
  <2>1. UNCHANGED <<sent, wpc, results, nextIndex>>
    BY <1>2 DEF CloseJobs, CloseResults, Wait, Return
  <2>2. Closings' = Closings + 1
    BY <1>2 DEF CloseJobs, CloseResults, Wait, Return, Closings, One
  <2> QED
    BY <1>0, <1>k, <1>q, <2>1, <2>2 DEF Steps
<1>3. ASSUME NEW w \in Worker, Build(w)
      PROVE  Steps' = Steps + 1
  <2>1. Sending' = Sending + 1
    BY <1>3, OneArrives DEF Build, Sending
  <2>2. Building' = Building - 1
    BY <1>3, OneLeaves DEF Build, Building
  <2>3. Gone' = Gone
    BY <1>3 DEF Build, Gone, Busy, TypeOK
  <2>4. UNCHANGED <<sent, nextIndex>> /\ Queued' = Queued /\ Closings' = Closings
    BY <1>3, <1>q, <1>c DEF Build
  <2> QED
    BY <1>0, <2>1, <2>2, <2>3, <2>4 DEF Steps
<1>4. ASSUME NEW w \in Worker, SendResult(w)
      PROVE  Steps' = Steps + 1
  <2>1. Sending' = Sending - 1
    BY <1>4, OneLeaves DEF SendResult, Sending
  <2>2. Building' = Building /\ Gone' = Gone
    BY <1>4 DEF SendResult, Building, Gone, Busy, TypeOK
  <2>3. Queued' = Queued + 1
    <3>1. [index |-> job[w], ok |-> built[w]] \in Result /\ results \in Seq(Result)
      BY DEF TypeOK, Result
    <3> QED
      BY <1>4, <3>1, AppendFacts DEF SendResult, Queued
  <2>4. UNCHANGED <<sent, nextIndex>> /\ Closings' = Closings
    BY <1>4, <1>c DEF SendResult
  <2> QED
    BY <1>0, <2>1, <2>2, <2>3, <2>4 DEF Steps
<1>5. ASSUME NEW w \in Worker, WorkerDone(w)
      PROVE  Steps' = Steps + 1
  <2>1. Gone' = Gone + 1
    BY <1>5, OneArrives DEF WorkerDone, Gone
  <2>2. Building' = Building /\ Sending' = Sending
    BY <1>5 DEF WorkerDone, Building, Sending, Busy, TypeOK
  <2>3. UNCHANGED <<sent, nextIndex>> /\ Queued' = Queued /\ Closings' = Closings
    BY <1>5, <1>q, <1>c DEF WorkerDone
  <2> QED
    BY <1>0, <2>1, <2>2, <2>3 DEF Steps
<1>6. CASE Receive
  <2>1. Queued' = Queued - 1
    BY <1>6, HeadTailFacts DEF Receive, TypeOK, Queued
  <2>2. Closings' = Closings - 1
    BY <1>6 DEF Receive, Closings, One
  <2>3. UNCHANGED <<sent, wpc, nextIndex>>
    BY <1>6 DEF Receive
  <2> QED
    BY <1>0, <1>k, <2>1, <2>2, <2>3 DEF Steps
<1>7. ASSUME NEW r \in pending, Take(r)
      PROVE  Steps' = Steps + 1
  <2>1. nextIndex' = nextIndex + 1 /\ UNCHANGED <<sent, wpc, results, jobsClosed, closed, pc>>
    BY <1>7 DEF Take
  <2> QED
    BY <1>0, <1>k, <1>q, <1>c, <2>1 DEF Steps
<1> QED
  BY <1>1, <1>2, <1>3, <1>4, <1>5, <1>6, <1>7
     DEF Next, Dispatcher, WorkerStep, Caller

(* Every step of anybody is one of the steps the call has to take: none is *)
(* repeated, and none leads back.                                          *)
THEOREM EveryStepCounts == Spec => [][Steps' = Steps + 1]_vars
<1>1. TypeOK /\ TypeOK' /\ [Next]_vars => [Steps' = Steps + 1]_vars
  BY OneStepMore
<1> QED
  BY <1>1, Typing, PTL DEF Spec

(* And there are 6 * Total + Cardinality(Worker) + 3 of them.  With        *)
(* NobodyIsStuck: however the goroutines are scheduled, a call finishes    *)
(* after at most so many steps.                                            *)
THEOREM StepsAreFew == Spec => []StepsBounded
<1> DEFINE Counting == 0 <= Steps
<1>1. Init => Counting
  <2> SUFFICES ASSUME Init
               PROVE  0 <= Steps
    OBVIOUS
  <2>1. Busy("build") = {} /\ Busy("send") = {} /\ Busy("done") = {}
    BY DEF Init, Busy
  <2>2. Building = 0 /\ Sending = 0 /\ Gone = 0
    BY <2>1, FS_EmptySet DEF Building, Sending, Gone
  <2>3. sent = First /\ nextIndex = First /\ Queued = 0 /\ Closings = 0 /\ First \in Nat
    BY ParallelOK DEF Init, Queued, Closings, One
  <2> QED
    BY <2>2, <2>3 DEF Steps
<1>2. TypeOK /\ Counting /\ TypeOK' /\ [Next]_vars => Counting'
  <2> SUFFICES ASSUME TypeOK, 0 <= Steps, TypeOK', [Next]_vars
               PROVE  0 <= Steps'
    OBVIOUS
  <2>1. CASE Next
    BY <2>1, OneStepMore, StepsTyped
  <2>2. CASE UNCHANGED vars
    BY <2>2 DEF vars, Steps, Building, Sending, Gone, Queued, Closings, Busy
  <2> QED
    BY <2>1, <2>2
<1>3. TypeOK => Steps <= StepsOfACall
  <2> SUFFICES ASSUME TypeOK
               PROVE  Steps <= StepsOfACall
    OBVIOUS
  <2>1. sent <= Last + 1 /\ nextIndex <= Last + 1
    BY ParallelOK DEF TypeOK
  <2>2. Gone <= Cardinality(Worker) /\ Cardinality(Worker) \in Nat
    BY BusyFinite DEF Gone
  <2>3. Closings <= 3
    BY DEF Closings, One
  <2> QED
    BY <2>1, <2>2, <2>3, StepsTyped DEF Steps, StepsOfACall, Total
<1>4. TypeOK /\ Counting => StepsBounded
  BY <1>3 DEF StepsBounded
<1> HIDE DEF Counting
<1> QED
  BY <1>1, <1>2, <1>4, Typing, PTL DEF Spec
=============================================================================
