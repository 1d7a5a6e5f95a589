-------------------------- MODULE MinuteLog_proofs --------------------------
(***************************************************************************)
(* Theorems about MinuteWindow and MinuteLog, for every interval, delay,   *)
(* clock, data source, set of producers and set of given ranges.           *)
(***************************************************************************)
EXTENDS MinuteLog, TLAPS

-----------------------------------------------------------------------------
(* Division.                                                               *)

(* The last multiple of u that is not above t, and how near it is.         *)
LEMMA DivBound ==
  ASSUME NEW t \in Int, NEW u \in Nat \ {0}
  PROVE  /\ t \div u \in Int
         /\ (t \div u) * u <= t
         /\ t < (t \div u) * u + u
         /\ (t \div u) * u \in Int
OBVIOUS

(* A multiple of u leaves no remainder.                                    *)
LEMMA ModMultiple ==
  ASSUME NEW q \in Int, NEW u \in Nat \ {0}
  PROVE  (q * u) % u = 0
OBVIOUS

(* A number without remainder is the multiple of its quotient.             *)
LEMMA MultipleMod ==
  ASSUME NEW t \in Int, NEW u \in Nat \ {0}, t % u = 0
  PROVE  t = (t \div u) * u
OBVIOUS

(* Of two quotients the lower one gives a multiple u lower.                *)
LEMMA Apart ==
  ASSUME NEW a \in Int, NEW b \in Int, NEW u \in Nat \ {0}, a < b
  PROVE  a * u + u <= b * u
OBVIOUS

(* Multiples of u that are not equal are at least u apart.                 *)
LEMMA MultiplesApart ==
  ASSUME NEW s \in Int, NEW t \in Int, NEW u \in Nat \ {0},
         s % u = 0, t % u = 0, s < t
  PROVE  s + u <= t
<1>1. s = (s \div u) * u /\ t = (t \div u) * u
  BY MultipleMod
<1>2. s \div u \in Int /\ t \div u \in Int
  BY DivBound
<1>3. s \div u < t \div u
  <2>1. CASE t \div u < s \div u
    BY <1>1, <1>2, <2>1, Apart
  <2>2. CASE t \div u = s \div u
    BY <1>1, <2>2
  <2> QED
    BY <1>2, <2>1, <2>2
<1> QED
  BY <1>1, <1>2, <1>3, Apart

(* The neighbours of a multiple of u are multiples of u.                   *)
LEMMA NextMultiple ==
  ASSUME NEW t \in Int, NEW u \in Nat \ {0}, t % u = 0
  PROVE  (t + u) % u = 0 /\ (t - u) % u = 0
<1> DEFINE q == t \div u
<1>1. q \in Int /\ t = q * u
  BY DivBound, MultipleMod
<1>2. t + u = (q + 1) * u /\ t - u = (q - 1) * u
  BY <1>1
<1>3. ((q + 1) * u) % u = 0 /\ ((q - 1) * u) % u = 0
  BY <1>1, ModMultiple
<1> QED
  BY <1>2, <1>3

(* The difference of two multiples is a multiple.                          *)
LEMMA MultipleOfBoth ==
  ASSUME NEW s \in Int, NEW t \in Int, NEW u \in Nat \ {0},
         s % u = 0, t % u = 0
  PROVE  (s - t) % u = 0
<1>1. s = (s \div u) * u /\ t = (t \div u) * u
  BY MultipleMod
<1>2. s \div u \in Int /\ t \div u \in Int
  BY DivBound
<1>3. s - t = ((s \div u) - (t \div u)) * u
  BY <1>1, <1>2
<1>4. (((s \div u) - (t \div u)) * u) % u = 0
  BY <1>2, ModMultiple
<1> QED
  BY <1>3, <1>4

-----------------------------------------------------------------------------
(* Windows.                                                                *)

(* minuteInterval is a positive number of seconds, whatever is configured. *)
LEMMA IntervalType ==
  ASSUME NEW i \in Int
  PROVE  minuteInterval(i) \in Nat \ {0} /\ minuteInterval(i) \in Int
BY DEF minuteInterval, Minute

(* Whatever the configuration and the clock: the range calcMinuteRange     *)
(* returns is a window of the task, it ended at least delay seconds ago,   *)
(* and no more than an interval and a minute before that.                  *)
THEOREM WindowSound ==
  ASSUME NEW now_ \in Int, NEW d \in Int, NEW i \in Int
  PROVE  LET r == calcMinuteRange(now_, d, i)
         IN /\ r \in [start : Int, end : Int]
            /\ IsWindow(r, i)
            /\ r.end + d <= now_
            /\ now_ < r.end + d + minuteInterval(i) + Minute
<1> DEFINE u == minuteInterval(i)
           a == Align(now_ - d, Minute)
           e == Align(a, u)
           r == calcMinuteRange(now_, d, i)
<1>1. u \in Nat \ {0}
  BY IntervalType
<1>2. a \in Int /\ a <= now_ - d /\ now_ - d < a + Minute
  BY DivBound DEF Align, Minute
<1> HIDE DEF a, u
<1>3. e \in Int /\ e <= a /\ a < e + u
  BY <1>1, <1>2, DivBound DEF Align
<1>4. e % u = 0
  BY <1>1, <1>2, DivBound, ModMultiple DEF Align
<1>5. r = [start |-> e - u, end |-> e]
  BY DEF a, u, calcMinuteRange, Span
<1> HIDE DEF e, r
<1>6. r \in [start : Int, end : Int] /\ r.start = e - u /\ r.end = e
  BY <1>1, <1>3, <1>5
<1>7. IsWindow(r, i)
  <2>1. (e - u) % u = 0
    BY <1>1, <1>3, <1>4, NextMultiple
  <2> QED
    BY <1>1, <1>3, <1>6, <2>1 DEF IsWindow, u
<1>8. r.end + d <= now_
  BY <1>2, <1>3, <1>6
<1>9. now_ < r.end + d + u + Minute
  BY <1>1, <1>2, <1>3, <1>6 DEF Minute
<1> QED
  BY <1>6, <1>7, <1>8, <1>9 DEF r, u

(* Two windows of the same interval are equal or do not overlap: whatever  *)
(* processes compute windows, at whatever times, they agree on the         *)
(* division of time.                                                       *)
THEOREM WindowsDisjoint ==
  ASSUME NEW i \in Int,
         NEW r \in [start : Int, end : Int], NEW s \in [start : Int, end : Int],
         IsWindow(r, i), IsWindow(s, i)
  PROVE  r = s \/ ~Overlap(r, s)
<1> DEFINE u == minuteInterval(i)
<1>1. u \in Nat \ {0}
  BY IntervalType
<1>2. /\ r.start % u = 0 /\ r.end = r.start + u
      /\ s.start % u = 0 /\ s.end = s.start + u
  BY DEF IsWindow
<1> HIDE DEF u
<1>3. r.start \in Int /\ s.start \in Int
  OBVIOUS
<1>4. CASE r.start = s.start
  BY <1>2, <1>4
<1>5. CASE r.start < s.start
  <2>1. r.start + u <= s.start
    BY <1>1, <1>2, <1>3, <1>5, MultiplesApart
  <2> QED
    BY <1>1, <1>2, <1>3, <2>1 DEF Overlap
<1>6. CASE s.start < r.start
  <2>1. s.start + u <= r.start
    BY <1>1, <1>2, <1>3, <1>6, MultiplesApart
  <2> QED
    BY <1>1, <1>2, <1>3, <2>1 DEF Overlap
<1> QED
  BY <1>3, <1>4, <1>5, <1>6
-----------------------------------------------------------------------------
(* Typing.                                                                 *)

SpanType == [start : Int, end : Int]

(* The step of a backfill is positive: its loop makes progress.            *)
LEMMA StepType ==
  ASSUME TypeOK, NEW p \in Producers
  PROVE  /\ Step(p) \in Nat \ {0} /\ Step(p) \in Int
         /\ cfg[p] \in Int
<1>1. cfg[p] \in Intervals \cup {0}
  BY DEF TypeOK
<1>2. Intervals \cup {0} \subseteq Int
  BY MinuteOK
<1>3. cfg[p] \in Int
  BY <1>1, <1>2
<1> QED
  BY <1>3, IntervalType DEF Step

LEMMA ConfigType ==
  ASSUME TypeOK
  PROVE  config \in Int /\ minuteInterval(config) \in Nat \ {0}
<1>1. config \in Int
  BY MinuteOK DEF TypeOK
<1> QED
  BY <1>1, IntervalType

(* WindowSound, for the task as the call finds it configured.              *)
LEMMA CurrentSound ==
  ASSUME TypeOK, NEW p \in Producers
  PROVE  /\ Current(p) \in SpanType
         /\ IsWindow(Current(p), cfg[p])
         /\ Current(p).end + Delay <= now
         /\ Current(p).end = Current(p).start + Step(p)
<1>1. now \in Int /\ Delay \in Int /\ cfg[p] \in Int
  BY MinuteOK, StepType DEF TypeOK
<1>2. /\ Current(p) \in [start : Int, end : Int]
      /\ IsWindow(Current(p), cfg[p])
      /\ Current(p).end + Delay <= now
  BY <1>1, WindowSound DEF Current
<1> QED
  BY <1>2 DEF IsWindow, Step, SpanType

(* The ranges of the rows have integer ends.                               *)
LEMMA RangeType ==
  ASSUME TypeOK
  PROVE  Ranges \subseteq SpanType
BY DEF TypeOK, Ranges, Span, SpanType

(* The two ways produceRange ends keep the types.                          *)
LEMMA LeaveType ==
  ASSUME TypeOK, NEW p \in Producers, Leave(p) \/ Forget(p)
  PROVE  /\ pc' \in [Producers -> Location]
         /\ window' \in [Producers -> SpanType]
         /\ index' \in [Producers -> Nat]
         /\ cfg' \in [Producers -> Intervals \cup {0}]
         /\ from' \in [Producers -> Int]
         /\ cursor' \in [Producers -> Int]
         /\ cutoff' \in [Producers -> Int]
         /\ attempted' \in [Producers -> Nat]
         /\ BackfillLimit > 0 => \A q \in Producers : attempted'[q] <= BackfillLimit
<1>1. NoSpan \in SpanType /\ None \in Int
  BY DEF NoSpan, Span, None, SpanType
<1>2. CASE Forget(p)
  BY <1>1, <1>2, MinuteOK DEF Forget, TypeOK, Location, SpanType
<1>3. CASE Recovering(p) /\ Leave(p)
  <2>1. cursor[p] + Step(p) \in Int
    BY StepType DEF TypeOK
  <2>2. /\ pc' = [pc EXCEPT ![p] = "scan"]
        /\ cursor' = [cursor EXCEPT ![p] = cursor[p] + Step(p)]
        /\ window' = [window EXCEPT ![p] = NoSpan]
        /\ index' = [index EXCEPT ![p] = 0]
        /\ UNCHANGED <<cfg, from, cutoff, attempted>>
    BY <1>3 DEF Leave, StepOn
  <2>3. cursor' \in [Producers -> Int] /\ pc' \in [Producers -> Location]
    BY <2>1, <2>2 DEF TypeOK, Location
  <2>4. window' \in [Producers -> SpanType] /\ index' \in [Producers -> Nat]
    BY <1>1, <2>2 DEF TypeOK, SpanType
  <2> QED
    BY <2>2, <2>3, <2>4 DEF TypeOK
<1> QED
  BY <1>2, <1>3 DEF Leave

(* The induction step of TypeOK.                                           *)
LEMMA TypeStep == TypeOK /\ [Next]_vars => TypeOK'
<1> SUFFICES ASSUME TypeOK, [Next]_vars PROVE TypeOK'
  OBVIOUS
<1> USE DEF SpanType
<1>0. CASE UNCHANGED vars
  BY <1>0 DEF vars, worldVars, loopVars, histVars, TypeOK
<1>1. ASSUME NEW p \in Producers, ProduceForTask(p) PROVE TypeOK'
  BY <1>1, MinuteOK DEF ProduceForTask, Goto, worldVars, loopVars, TypeOK, Location
<1>2. ASSUME NEW p \in Producers, RunProducer(p) PROVE TypeOK'
  BY <1>2, CurrentSound DEF RunProducer, Goto, worldVars, loopVars, histVars, TypeOK, Location
<1>12. ASSUME NEW p \in Producers, Begin(p) PROVE TypeOK'
  BY <1>12 DEF Begin, Goto, worldVars, histVars, TypeOK, Location
<1>13. CASE Reload
  BY <1>13 DEF Reload, loopVars, TypeOK
<1>3. ASSUME NEW p \in Producers, OnStartup(p) PROVE TypeOK'
  <2>1. ASSUME NEW e \in Int, StartFrom(p, e)
        PROVE  from' \in [Producers -> Int] /\ cursor' \in [Producers -> Int]
    BY <2>1 DEF StartFrom, TypeOK
  <2>2. \A l \in logs : l.end \in Int
    BY DEF TypeOK
  <2>3. Current(p).start - Step(p) \in Int
    BY CurrentSound, StepType
  <2>4. from' \in [Producers -> Int] /\ cursor' \in [Producers -> Int]
    BY <1>3, <2>1, <2>2, <2>3 DEF OnStartup
  <2> QED
    BY <1>3, <2>4 DEF OnStartup, Goto, worldVars, histVars, TypeOK, Location
<1>4. ASSUME NEW p \in Producers, CheckExists(p) PROVE TypeOK'
  <2>1. CASE Leave(p)
    BY <1>4, <2>1, LeaveType DEF CheckExists, worldVars, histVars, TypeOK
  <2>2. CASE ~Leave(p)
    <3>1. UNCHANGED <<cfg, from, cursor, cutoff, attempted, window>>
      BY <1>4, <2>2 DEF CheckExists, loopVars
    <3>2. UNCHANGED <<logs, now, config, broken, irregular>>
      BY <1>4 DEF CheckExists, worldVars, histVars
    <3>3. pc' \in [Producers -> Location] /\ index' \in [Producers -> Nat]
      BY <1>4, <2>2 DEF CheckExists, TypeOK, Location
    <3> QED
      BY <3>1, <3>2, <3>3 DEF TypeOK
  <2> QED
    BY <2>1, <2>2
<1>5. ASSUME NEW p \in Producers, CreateLog(p) PROVE TypeOK'
  <2>1. logs' \subseteq [start : Int, end : Int, index : Nat]
    BY <1>5 DEF CreateLog, TypeOK
  <2>2. CASE AtEnd(p)
    BY <1>5, <2>1, <2>2, LeaveType DEF CreateLog, histVars, TypeOK
  <2>3. CASE ~AtEnd(p)
    <3>1. UNCHANGED <<pc, window, cfg, from, cursor, cutoff, attempted>>
      BY <1>5, <2>3 DEF CreateLog, loopVars
    <3>2. UNCHANGED <<now, config, broken, irregular>>
      BY <1>5 DEF CreateLog, histVars
    <3>3. index' \in [Producers -> Nat]
      BY <1>5, <2>3 DEF CreateLog, TypeOK
    <3> QED
      BY <2>1, <3>1, <3>2, <3>3 DEF TypeOK
  <2> QED
    BY <2>2, <2>3
<1>6. ASSUME NEW p \in Producers, ProduceFails(p) PROVE TypeOK'
  BY <1>6, LeaveType DEF ProduceFails, worldVars, TypeOK
<1>7. ASSUME NEW p \in Producers, ReadCutoff(p) PROVE TypeOK'
  BY <1>7, CurrentSound DEF ReadCutoff, Goto, worldVars, histVars, TypeOK, Location
<1>8. ASSUME NEW p \in Producers, Scan(p) PROVE TypeOK'
  <2>1. cursor[p] + Step(p) \in Int /\ Span(cursor[p], cursor[p] + Step(p)) \in SpanType
    BY StepType DEF TypeOK, Span
  <2>2. CASE cursor' = [cursor EXCEPT ![p] = StepOn(p)] /\ UNCHANGED <<pc, window, attempted>>
    BY <1>8, <2>1, <2>2 DEF Scan, StepOn, worldVars, histVars, TypeOK
  <2>3. CASE ~(cursor' = [cursor EXCEPT ![p] = StepOn(p)] /\ UNCHANGED <<pc, window, attempted>>)
    <3>1. attempted' = [attempted EXCEPT ![p] = @ + 1] /\ ~LimitReached(p)
      BY <1>8, <2>3 DEF Scan
    <3>2. attempted' \in [Producers -> Nat]
      BY <3>1 DEF TypeOK
    <3>3. BackfillLimit > 0 => \A q \in Producers : attempted'[q] <= BackfillLimit
      BY <3>1, MinuteOK DEF TypeOK, LimitReached
    <3>4. /\ pc' = [pc EXCEPT ![p] = "exists"]
          /\ window' = [window EXCEPT ![p] = Span(cursor[p], cursor[p] + Step(p))]
          /\ UNCHANGED <<worldVars, index, cfg, from, cursor, cutoff, histVars>>
      BY <1>8, <2>3 DEF Scan
    <3>5. pc' \in [Producers -> Location] /\ window' \in [Producers -> SpanType]
      BY <2>1, <3>4 DEF TypeOK, Location
    <3> QED
      BY <3>2, <3>3, <3>4, <3>5 DEF worldVars, histVars, TypeOK
  <2> QED
    BY <2>2, <2>3
<1>9. ASSUME NEW p \in Producers, ScanEnds(p) PROVE TypeOK'
  BY <1>9, LeaveType DEF ScanEnds, worldVars, histVars, TypeOK
<1>10. ASSUME NEW p \in Producers, Stop(p) PROVE TypeOK'
  BY <1>10, LeaveType DEF Stop, worldVars, TypeOK
<1>11. CASE Tick
  BY <1>11 DEF Tick, loopVars, histVars, TypeOK
<1> QED
  BY <1>0, <1>1, <1>2, <1>3, <1>4, <1>5, <1>6, <1>7, <1>8, <1>9, <1>10, <1>11,
     <1>12, <1>13 DEF Next, Start, Go

(* Every variable keeps its type; in particular a backfill never produces  *)
(* more windows than its limit.                                            *)
THEOREM Typing == Spec => []TypeOK
<1>1. Init => TypeOK
  <2> SUFFICES ASSUME Init PROVE TypeOK
    OBVIOUS
  <2>1. NoSpan \in SpanType /\ None \in Int
    BY DEF NoSpan, Span, None, SpanType
  <2>2. BackfillLimit > 0 => \A p \in Producers : attempted[p] <= BackfillLimit
    BY MinuteOK DEF Init
  <2>3. window \in [Producers -> SpanType] /\ cursor \in [Producers -> Int]
    BY <2>1 DEF Init
  <2>4. logs = {} /\ broken = {} /\ irregular = FALSE /\ now \in Readings /\ config \in Intervals
    BY DEF Init
  <2>5. pc \in [Producers -> Location]
    BY DEF Init, Location
  <2>6. /\ cfg \in [Producers -> Intervals \cup {0}]
        /\ index \in [Producers -> Nat] /\ from \in [Producers -> Int]
        /\ cutoff \in [Producers -> Int] /\ attempted \in [Producers -> Nat]
    BY DEF Init
  <2> QED
    BY <2>2, <2>3, <2>4, <2>5, <2>6 DEF TypeOK, SpanType
<1> QED
  BY <1>1, TypeStep, PTL DEF Spec
-----------------------------------------------------------------------------
(* What the actions do.                                                    *)

Act(p) == Start(p) \/ Go(p) \/ Stop(p)

(* A step of p leaves the local variables of the others alone.             *)
LEMMA OthersStay ==
  ASSUME TypeOK, NEW p \in Producers, Act(p), NEW q \in Producers, q # p
  PROVE  /\ pc'[q] = pc[q] /\ window'[q] = window[q] /\ index'[q] = index[q]
         /\ from'[q] = from[q] /\ cursor'[q] = cursor[q] /\ cutoff'[q] = cutoff[q]
         /\ cfg'[q] = cfg[q]
<1> DEFINE Same == /\ pc'[q] = pc[q] /\ window'[q] = window[q] /\ index'[q] = index[q]
                   /\ from'[q] = from[q] /\ cursor'[q] = cursor[q]
                   /\ cutoff'[q] = cutoff[q] /\ cfg'[q] = cfg[q]
<1>1. Forget(p) => Same
  BY DEF Forget, TypeOK
<1>2. Leave(p) => Same
  BY <1>1 DEF Leave, TypeOK
<1>3. Start(p) => Same
  BY DEF Start, ProduceForTask, Begin, RunProducer, OnStartup, StartFrom, Goto, loopVars, TypeOK
<1>4. CheckExists(p) \/ CreateLog(p) \/ ProduceFails(p) => Same
  BY <1>2 DEF CheckExists, CreateLog, ProduceFails, loopVars, TypeOK
<1>5. ReadCutoff(p) \/ Scan(p) => Same
  BY DEF ReadCutoff, Scan, Goto, TypeOK
<1>6. ScanEnds(p) \/ Stop(p) => Same
  BY <1>1 DEF ScanEnds, Stop
<1> QED
  BY <1>3, <1>4, <1>5, <1>6 DEF Act, Go

(* After the end of produceRange, or of the whole call.                    *)
LEMMA LeaveEffect ==
  ASSUME TypeOK, NEW p \in Producers, Leave(p) \/ Forget(p)
  PROVE  \/ /\ pc'[p] = "idle" /\ cursor'[p] = None
         \/ /\ Recovering(p) /\ pc'[p] = "scan"
            /\ cursor'[p] = cursor[p] + Step(p)
            /\ from'[p] = from[p] /\ cutoff'[p] = cutoff[p] /\ cfg'[p] = cfg[p]
BY DEF Leave, Forget, StepOn, TypeOK

(* A step of a producer takes no row and no history away.                  *)
LEMMA WorldGrows ==
  ASSUME TypeOK, NEW p \in Producers, Act(p)
  PROVE  /\ now' = now /\ config' = config
         /\ logs \subseteq logs'
         /\ Ranges \subseteq Ranges'
         /\ broken \subseteq broken'
         /\ irregular => irregular'
<1>1. CASE Start(p)
  <2>1. logs' = logs /\ now' = now /\ config' = config /\ broken' = broken
    BY <1>1 DEF Start, ProduceForTask, Begin, RunProducer, OnStartup, worldVars, histVars
  <2>3. irregular => irregular'
    <3>1. ProduceForTask(p) => (irregular => irregular')
      BY Zenon DEF ProduceForTask
    <3>2. Begin(p) \/ RunProducer(p) \/ OnStartup(p) => irregular' = irregular
      BY DEF Begin, RunProducer, OnStartup, histVars
    <3> QED
      BY <1>1, <3>1, <3>2 DEF Start
  <2>2. Ranges' = Ranges
    BY <2>1 DEF Ranges
  <2> QED
    BY <2>1, <2>2, <2>3
<1>2. CASE Go(p)
  BY <1>2 DEF Go, CheckExists, CreateLog, ProduceFails, ReadCutoff, Scan, ScanEnds,
              worldVars, histVars, Ranges
<1>3. CASE Stop(p)
  BY <1>3 DEF Stop, worldVars, Ranges
<1> QED
  BY <1>1, <1>2, <1>3 DEF Act

(* Only CreateLog makes a row, and only in the range it works on.          *)
LEMMA NewRange ==
  ASSUME TypeOK, NEW p \in Producers, Act(p)
  PROVE  \/ logs' = logs /\ Ranges' = Ranges
         \/ CreateLog(p) /\ Ranges' = Ranges \cup {window[p]}
<1>1. CASE Start(p)
  BY <1>1 DEF Start, ProduceForTask, Begin, RunProducer, OnStartup, worldVars, Ranges
<1>2. CASE Go(p) /\ ~CreateLog(p)
  BY <1>2 DEF Go, CheckExists, ProduceFails, ReadCutoff, Scan, ScanEnds, worldVars, Ranges
<1>3. CASE Stop(p)
  BY <1>3 DEF Stop, worldVars, Ranges
<1>4. CASE CreateLog(p)
  <2> DEFINE new == [start |-> window[p].start, end |-> window[p].end, index |-> index[p]]
  <2>1. logs' = logs \cup {new}
    BY <1>4 DEF CreateLog
  <2>2. Span(new.start, new.end) = window[p]
    BY DEF Span, TypeOK
  <2> HIDE DEF new
  <2> QED
    BY <1>4, <2>1, <2>2 DEF Ranges
<1> QED
  BY <1>1, <1>2, <1>3, <1>4 DEF Act

-----------------------------------------------------------------------------
(* One division of time.                                                   *)

InLoop(p) == pc[p] \in {"cutoff", "scan"} \/ Recovering(p)

InRange(p) == pc[p] \in {"exists", "produce"}

(* Unless an odd range was given or the interval was changed, everything   *)
(* is on one grid of windows: the rows, the ranges producers work on and   *)
(* the cursors of backfills; and every copy of the interval is current.    *)
GridInv ==
  irregular \/
    /\ \A r \in Ranges : IsWindow(r, config)
    /\ \A p \in Producers : InRange(p) => IsWindow(window[p], config)
    /\ \A p \in Producers : InLoop(p) => cursor[p] % minuteInterval(config) = 0
    /\ \A p \in Producers : pc[p] = "begin" \/ InLoop(p) => cfg[p] = config
    /\ \A p \in Producers : pc[p] \in {"idle", "begin"} => cursor[p] = None

(* The induction step of GridInv.                                          *)
LEMMA GridStep == TypeOK /\ GridInv /\ [Next]_vars => GridInv'
<1> SUFFICES ASSUME TypeOK, GridInv, [Next]_vars, ~irregular' PROVE GridInv'
  BY DEF GridInv
<1>0. CASE UNCHANGED vars
  BY <1>0 DEF vars, worldVars, loopVars, histVars, GridInv, InRange, InLoop, Recovering,
              Ranges
<1>1. CASE Tick
  BY <1>1 DEF Tick, loopVars, histVars, GridInv, InRange, InLoop, Recovering, Ranges
<1>3. CASE Reload
  BY <1>3 DEF Reload
<1>2. ASSUME NEW p \in Producers, Act(p) PROVE GridInv'
  <2> DEFINE u == minuteInterval(config)
  <2>1. /\ ~irregular
        /\ \A r \in Ranges : IsWindow(r, config)
        /\ \A q \in Producers : InRange(q) => IsWindow(window[q], config)
        /\ \A q \in Producers : InLoop(q) => cursor[q] % u = 0
        /\ \A q \in Producers : pc[q] = "begin" \/ InLoop(q) => cfg[q] = config
        /\ \A q \in Producers : pc[q] \in {"idle", "begin"} => cursor[q] = None
    BY <1>2, WorldGrows DEF GridInv
  <2>2. \A r \in Ranges' : IsWindow(r, config)
    <3>1. CASE CreateLog(p)
      BY <1>2, <2>1, <3>1, NewRange DEF CreateLog, InRange
    <3> QED
      BY <1>2, <2>1, <3>1, NewRange
  <2>3. config' = config
    BY <1>2, WorldGrows
  <2>6. u \in Nat \ {0} /\ u \in Int
    BY ConfigType
  <2>7. cfg[p] = config => Step(p) = u
    BY DEF Step
  <2>4. /\ InRange(p)' => IsWindow(window'[p], config)
        /\ InLoop(p)' => cursor'[p] % u = 0
        /\ pc'[p] = "begin" \/ InLoop(p)' => cfg'[p] = config
        /\ pc'[p] \in {"idle", "begin"} => cursor'[p] = None
    <3>1. ASSUME Leave(p) \/ Forget(p),
                 Recovering(p) => cursor[p] % u = 0 /\ cfg[p] = config
          PROVE <2>4!1 /\ <2>4!2 /\ <2>4!3 /\ <2>4!4
      <4>1. cursor[p] \in Int
        BY DEF TypeOK
      <4>2. CASE pc'[p] = "idle" /\ cursor'[p] = None
        BY <4>2 DEF InRange, InLoop, Recovering
      <4>3. CASE /\ Recovering(p) /\ pc'[p] = "scan" /\ cfg'[p] = cfg[p]
                 /\ cursor'[p] = cursor[p] + Step(p)
        <5>1. (cursor[p] + u) % u = 0
          BY <2>6, <3>1, <4>1, <4>3, NextMultiple
        <5> QED
          BY <2>7, <3>1, <4>3, <5>1 DEF InRange
      <4> QED
        BY <3>1, <4>2, <4>3, LeaveEffect
    <3>2. CASE ProduceForTask(p)
      <4>1. PICK r \in Given : /\ window' = [window EXCEPT ![p] = r]
                              /\ irregular' = (irregular \/ ~IsWindow(r, config))
        BY <3>2 DEF ProduceForTask
      <4> QED
        BY <2>1, <3>2, <4>1
           DEF ProduceForTask, Goto, loopVars, InRange, InLoop, Recovering, TypeOK
    <3>11. CASE Begin(p)
      BY <2>1, <3>11 DEF Begin, Goto, InRange, InLoop, Recovering, TypeOK
    <3>3. CASE RunProducer(p)
      <4>1. IsWindow(Current(p), config)
        BY <2>1, <3>3, CurrentSound DEF RunProducer, Goto
      <4> QED
        BY <2>1, <3>3, <4>1
           DEF RunProducer, Goto, loopVars, InRange, InLoop, Recovering, TypeOK
    <3>4. CASE OnStartup(p)
      <4>1. pc'[p] = "cutoff" /\ cfg' = cfg /\ cfg[p] = config
        BY <2>1, <3>4 DEF OnStartup, Goto, TypeOK
      <4>2. ASSUME NEW l \in logs, StartFrom(p, l.end) PROVE cursor'[p] % u = 0
        <5>1. Span(l.start, l.end) \in Ranges /\ l.start \in Int /\ l.end \in Int
          BY DEF Ranges, TypeOK
        <5>2. l.start % u = 0 /\ l.end = l.start + u
          BY <2>1, <5>1 DEF IsWindow, Span
        <5>3. (l.start + u) % u = 0
          BY <2>6, <5>1, <5>2, NextMultiple
        <5> QED
          BY <4>2, <5>2, <5>3 DEF StartFrom, TypeOK
      <4>3. ASSUME StartFrom(p, Current(p).start - Step(p)) PROVE cursor'[p] % u = 0
        <5>1. Current(p).start \in Int /\ Current(p).start % u = 0
          BY <4>1, CurrentSound DEF IsWindow, SpanType
        <5>2. Step(p) = u
          BY <2>7, <4>1
        <5> QED
          BY <2>6, <4>3, <5>1, <5>2, NextMultiple DEF StartFrom, TypeOK
      <4> QED
        BY <3>4, <4>1, <4>2, <4>3 DEF OnStartup, InRange
    <3>5. CASE CheckExists(p)
      <4>1. CASE Leave(p)
        BY <2>1, <3>1, <4>1 DEF InLoop
      <4>2. CASE ~Leave(p)
        BY <2>1, <3>5, <4>2 DEF CheckExists, loopVars, InRange, InLoop, Recovering, TypeOK
      <4> QED
        BY <4>1, <4>2
    <3>6. CASE CreateLog(p)
      <4>1. CASE Leave(p)
        BY <2>1, <3>1, <4>1 DEF InLoop
      <4>2. CASE ~Leave(p)
        BY <2>1, <3>6, <4>2 DEF CreateLog, loopVars, InRange, InLoop, Recovering, TypeOK
      <4> QED
        BY <4>1, <4>2
    <3>7. CASE ProduceFails(p)
      BY <2>1, <3>1, <3>7 DEF ProduceFails, InLoop
    <3>8. CASE ReadCutoff(p)
      BY <2>1, <3>8 DEF ReadCutoff, Goto, InRange, InLoop, Recovering, TypeOK
    <3>9. CASE Scan(p)
      <4>1. cursor[p] \in Int /\ cursor[p] % u = 0 /\ cfg[p] = config /\ cfg' = cfg
        BY <2>1, <3>9 DEF Scan, InLoop, TypeOK
      <4>2. IsWindow(Span(cursor[p], cursor[p] + Step(p)), config)
        BY <2>7, <4>1 DEF IsWindow, Span
      <4>3. (cursor[p] + Step(p)) % u = 0
        <5>1. (cursor[p] + u) % u = 0
          BY <2>6, <4>1, NextMultiple
        <5> QED
          BY <2>7, <4>1, <5>1
      <4>4. CASE cursor' = [cursor EXCEPT ![p] = StepOn(p)] /\ UNCHANGED <<pc, window, attempted>>
        <5>1. pc'[p] = "scan" /\ cursor'[p] = cursor[p] + Step(p)
          BY <3>9, <4>4 DEF Scan, StepOn, TypeOK
        <5> QED
          BY <4>1, <4>3, <5>1 DEF InRange
      <4>5. CASE /\ pc' = [pc EXCEPT ![p] = "exists"]
                 /\ window' = [window EXCEPT ![p] = Span(cursor[p], cursor[p] + Step(p))]
                 /\ UNCHANGED cursor
        BY <4>1, <4>2, <4>5 DEF TypeOK
      <4> QED
        BY <3>9, <4>4, <4>5 DEF Scan
    <3>10. CASE ScanEnds(p) \/ Stop(p)
      BY <2>1, <3>1, <3>10 DEF ScanEnds, Stop, InLoop
    <3> QED
      BY <1>2, <3>2, <3>3, <3>4, <3>5, <3>6, <3>7, <3>8, <3>9, <3>10,
         <3>11 DEF Act, Start, Go
  <2>5. ASSUME NEW q \in Producers, q # p
        PROVE  /\ InRange(q)' => IsWindow(window'[q], config)
               /\ InLoop(q)' => cursor'[q] % u = 0
               /\ pc'[q] = "begin" \/ InLoop(q)' => cfg'[q] = config
               /\ pc'[q] \in {"idle", "begin"} => cursor'[q] = None
    BY <1>2, <2>1, <2>5, OthersStay DEF InRange, InLoop, Recovering
  <2> QED
    BY <2>2, <2>3, <2>4, <2>5 DEF GridInv
<1> QED
  BY <1>0, <1>1, <1>2, <1>3 DEF Next, Act

(* Whatever the cron jobs and backfills of all processes produce, no two   *)
(* ranges with rows overlap, unless a range was given that is no window or *)
(* the interval was changed.                                               *)
THEOREM NoOverlap == Spec => []OverlapNeedsCause
<1>1. Init => GridInv
  BY DEF Init, GridInv, Ranges, InRange, InLoop, Recovering
<1>2. TypeOK /\ GridInv => OverlapNeedsCause
  BY ConfigType, RangeType, WindowsDisjoint DEF GridInv, OverlapNeedsCause, SpanType
<1> QED
  BY <1>1, <1>2, GridStep, Typing, PTL DEF Spec

-----------------------------------------------------------------------------
(* No window is produced early.                                            *)

(* A backfill compares its windows with a reading of the clock that was    *)
(* over for Delay seconds when it was taken.                               *)
EarlyInv(p) ==
  /\ pc[p] \in {"idle", "begin"} => cursor[p] = None
  /\ pc[p] = "scan" \/ (InRange(p) /\ Recovering(p)) => cutoff[p] + Step(p) + Delay <= now
  /\ InRange(p) => window[p] \in Given \/ window[p].end + Delay <= now

EarlyInvAll == \A p \in Producers : EarlyInv(p)

(* The induction step of EarlyInv, for all producers.                      *)
LEMMA EarlyStep == TypeOK /\ EarlyInvAll /\ [Next]_vars => EarlyInvAll'
<1> SUFFICES ASSUME TypeOK, \A p \in Producers : EarlyInv(p), [Next]_vars
             PROVE  \A p \in Producers : EarlyInv(p)'
  BY DEF EarlyInvAll
<1> USE DEF EarlyInv, InRange, Recovering
<1>0. CASE UNCHANGED vars \/ Reload
  BY <1>0 DEF vars, worldVars, loopVars, histVars, Reload, Step
<1>1. CASE Tick
  <2>1. now' \in Int /\ now \in Int /\ now < now' /\ Delay \in Int
    BY <1>1, MinuteOK DEF Tick, TypeOK
  <2>2. UNCHANGED <<pc, window, cursor, cutoff, cfg>>
    BY <1>1 DEF Tick, loopVars
  <2>3. \A p \in Producers : Step(p)' = Step(p) /\ Step(p) \in Int
    BY <2>2, StepType DEF Step
  <2> QED
    BY <2>1, <2>2, <2>3 DEF TypeOK
<1>2. ASSUME NEW p \in Producers, Act(p) PROVE \A q \in Producers : EarlyInv(q)'
  <2>0. /\ now' = now
        /\ \A q \in Producers : cfg'[q] = cfg[q] => Step(q)' = Step(q)
    BY <1>2, WorldGrows DEF Step
  <2>1. ASSUME NEW q \in Producers, q # p PROVE EarlyInv(q)'
    BY <1>2, <2>0, <2>1, OthersStay
  <2>2. EarlyInv(p)'
    <3>1. ASSUME Leave(p) \/ Forget(p),
                 Recovering(p) => cutoff[p] + Step(p) + Delay <= now
          PROVE  EarlyInv(p)'
      BY <2>0, <3>1, LeaveEffect
    <3>2. CASE ProduceForTask(p)
      BY <2>0, <3>2 DEF ProduceForTask, Goto, loopVars, TypeOK
    <3>3. CASE RunProducer(p)
      BY <2>0, <3>3, CurrentSound DEF RunProducer, Goto, loopVars, TypeOK
    <3>11. CASE Begin(p)
      BY <3>11 DEF Begin, Goto, TypeOK
    <3>4. CASE OnStartup(p)
      BY <3>4 DEF OnStartup, Goto, TypeOK
    <3>5. CASE CheckExists(p)
      <4>1. CASE Leave(p)
        BY <3>1, <3>5, <4>1 DEF CheckExists
      <4>2. CASE ~Leave(p)
        BY <2>0, <3>5, <4>2 DEF CheckExists, loopVars, TypeOK
      <4> QED
        BY <4>1, <4>2
    <3>6. CASE CreateLog(p)
      <4>1. CASE Leave(p)
        BY <3>1, <3>6, <4>1 DEF CreateLog
      <4>2. CASE ~Leave(p)
        BY <2>0, <3>6, <4>2 DEF CreateLog, loopVars, TypeOK
      <4> QED
        BY <4>1, <4>2
    <3>7. CASE ProduceFails(p)
      BY <3>1, <3>7 DEF ProduceFails
    <3>8. CASE ReadCutoff(p)
      <4>1. pc'[p] = "scan" /\ cutoff'[p] = Current(p).start /\ cfg' = cfg
        BY <3>8 DEF ReadCutoff, Goto, TypeOK
      <4> QED
        BY <2>0, <4>1, CurrentSound
    <3>9. CASE Scan(p)
      <4>1. /\ cursor[p] < cutoff[p] /\ cursor[p] \in Int /\ cutoff[p] \in Int
            /\ cutoff[p] + Step(p) + Delay <= now
            /\ Delay \in Int /\ now \in Int
        <5>0. pc[p] = "scan" /\ cursor[p] < cutoff[p]
          BY <3>9 DEF Scan
        <5>1. cutoff[p] + Step(p) + Delay <= now
          BY <5>0
        <5>2. now \in Int /\ Delay \in Int
          BY MinuteOK DEF TypeOK
        <5> QED
          BY <5>0, <5>1, <5>2 DEF TypeOK
      <4>2. Span(cursor[p], cursor[p] + Step(p)).end + Delay <= now
        BY <4>1, StepType DEF Span
      <4>3. cutoff' = cutoff /\ cfg' = cfg
        BY <3>9 DEF Scan
      <4>4. CASE UNCHANGED <<pc, window, attempted>>
        BY <2>0, <3>9, <4>1, <4>3, <4>4 DEF Scan
      <4>5. CASE /\ pc' = [pc EXCEPT ![p] = "exists"]
                 /\ window' = [window EXCEPT ![p] = Span(cursor[p], cursor[p] + Step(p))]
        BY <2>0, <4>1, <4>2, <4>3, <4>5 DEF TypeOK
      <4> QED
        BY <3>9, <4>4, <4>5 DEF Scan
    <3>10. CASE ScanEnds(p) \/ Stop(p)
      <4>1. pc'[p] = "idle" /\ cursor'[p] = None
        BY <3>10 DEF ScanEnds, Stop, Forget, TypeOK
      <4> QED
        BY <4>1
    <3> QED
      BY <1>2, <3>2, <3>3, <3>4, <3>5, <3>6, <3>7, <3>8, <3>9, <3>10,
         <3>11 DEF Act, Start, Go
  <2> QED
    BY <2>1, <2>2
<1> QED
  BY <1>0, <1>1, <1>2 DEF Next, Act

(* No producer, and no backfill, asks for a window before it has been over *)
(* for Delay seconds; only a range that was given may be early.            *)
THEOREM Punctual == Spec => []NeverEarly
<1>1. Init => EarlyInvAll
  BY DEF Init, EarlyInvAll, EarlyInv, InRange
<1>2. EarlyInvAll => NeverEarly
  BY DEF EarlyInvAll, EarlyInv, InRange, NeverEarly
<1> QED
  BY <1>1, <1>2, EarlyStep, Typing, PTL DEF Spec

-----------------------------------------------------------------------------
(* The backfill passes over no window.                                     *)

(* The windows of length u from f up to c, one after the other, are in S.  *)
Passed(f, c, S, u) ==
  /\ f <= c
  /\ (c - f) % u = 0
  /\ \A t \in f .. c - 1 : (t - f) % u = 0 => Span(t, t + u) \in S

(* At the start nothing is passed.                                         *)
LEMMA PassedNone ==
  ASSUME NEW f \in Int, NEW S, NEW u \in Nat \ {0}
  PROVE  Passed(f, f, S, u)
<1>1. f - f = 0 * u
  OBVIOUS
<1>2. (f - f) % u = 0
  BY <1>1, ModMultiple
<1> QED
  BY <1>2 DEF Passed

(* What is passed stays passed when rows are added.                        *)
LEMMA PassedGrows ==
  ASSUME NEW f \in Int, NEW c \in Int, NEW u, NEW S, NEW T, S \subseteq T, Passed(f, c, S, u)
  PROVE  Passed(f, c, T, u)
BY DEF Passed

(* One window more.                                                        *)
LEMMA PassedOn ==
  ASSUME NEW f \in Int, NEW c \in Int, NEW S, NEW u \in Nat \ {0},
         Passed(f, c, S, u), Span(c, c + u) \in S
  PROVE  Passed(f, c + u, S, u)
<1>1. u \in Nat \ {0} /\ f <= c /\ (c - f) % u = 0
  BY DEF Passed
<1>2. ((c + u) - f) % u = 0
  <2>1. ((c - f) + u) % u = 0
    <3>1. c - f \in Int
      OBVIOUS
    <3> QED
      BY <1>1, <3>1, NextMultiple
  <2>2. (c - f) + u = (c + u) - f
    BY <1>1
  <2> QED
    BY <2>1, <2>2
<1>3. ASSUME NEW t \in f .. (c + u) - 1, (t - f) % u = 0
      PROVE  Span(t, t + u) \in S
  <2>1. t \in Int /\ f <= t /\ t < c + u
    BY <1>1, <1>3
  <2>2. CASE t < c
    <3>1. t \in f .. c - 1
      BY <2>1, <2>2
    <3> QED
      BY <1>3, <3>1 DEF Passed
  <2>3. CASE t = c
    BY <2>3
  <2>4. CASE c < t
    <3>1. c - f \in Int /\ t - f \in Int /\ c - f < t - f
      BY <2>1, <2>4
    <3>2. (c - f) + u <= t - f
      BY <1>1, <1>3, <3>1, MultiplesApart
    <3> QED
      BY <1>1, <2>1, <3>2
  <2> QED
    BY <2>1, <2>2, <2>3, <2>4
<1>4. f <= c + u
  BY <1>1
<1> QED
  BY <1>2, <1>3, <1>4 DEF Passed

Tried == Ranges \cup broken

BackInv(p) ==
  /\ pc[p] \in {"idle", "begin"} => cursor[p] = None
  /\ InLoop(p) => Passed(from[p], cursor[p], Tried, Step(p))
  /\ InRange(p) /\ Recovering(p) => window[p] = Span(cursor[p], cursor[p] + Step(p))

BackInvAll == \A p \in Producers : BackInv(p)

(* The induction step of BackInv, for all producers.                       *)
LEMMA BackStep == TypeOK /\ BackInvAll /\ [Next]_vars => BackInvAll'
<1> SUFFICES ASSUME TypeOK, \A p \in Producers : BackInv(p), [Next]_vars
             PROVE  \A p \in Producers : BackInv(p)'
  BY DEF BackInvAll
<1> USE DEF InRange, InLoop, Recovering
<1>0. CASE UNCHANGED vars \/ Tick \/ Reload
  <2>1. UNCHANGED <<logs, pc, window, cfg, from, cursor, broken>>
    BY <1>0 DEF vars, worldVars, loopVars, histVars, Tick, Reload
  <2>2. Tried' = Tried /\ \A p \in Producers : Step(p)' = Step(p)
    BY <2>1 DEF Tried, Ranges, Step
  <2> QED
    BY <2>1, <2>2 DEF BackInv, Passed
<1>1. ASSUME NEW p \in Producers, Act(p) PROVE \A q \in Producers : BackInv(q)'
  <2>0. /\ \A q \in Producers : cfg'[q] = cfg[q] => Step(q)' = Step(q)
        /\ Tried \subseteq Tried'
    BY <1>1, WorldGrows DEF Step, Tried
  <2>1. ASSUME NEW q \in Producers, q # p PROVE BackInv(q)'
    <3>1. /\ pc'[q] = pc[q] /\ window'[q] = window[q]
          /\ from'[q] = from[q] /\ cursor'[q] = cursor[q] /\ cfg'[q] = cfg[q]
      BY <1>1, <2>1, OthersStay
    <3>2. ASSUME InLoop(q) PROVE Passed(from[q], cursor[q], Tried', Step(q))
      BY <2>0, <3>2, PassedGrows DEF BackInv, TypeOK
    <3> QED
      BY <2>0, <3>1, <3>2 DEF BackInv, Passed
  <2>2. BackInv(p)'
    <3> DEFINE f == from[p]
               c == cursor[p]
               u == Step(p)
    <3>0. f \in Int /\ c \in Int /\ u \in Nat \ {0}
      BY StepType DEF TypeOK
    <3>1. ASSUME Leave(p) \/ Forget(p),
                 Recovering(p) => Passed(f, c, Tried, u) /\ Span(c, c + u) \in Tried'
          PROVE  BackInv(p)'
      <4>1. CASE pc'[p] = "idle" /\ cursor'[p] = None
        BY <4>1 DEF BackInv
      <4>2. CASE /\ Recovering(p) /\ pc'[p] = "scan"
                 /\ cursor'[p] = c + u /\ from'[p] = f /\ cfg'[p] = cfg[p]
        <5>1. Passed(f, c, Tried', u)
          BY <2>0, <3>0, <3>1, <4>2, PassedGrows
        <5>2. Passed(f, c + u, Tried', u)
          BY <3>0, <3>1, <4>2, <5>1, PassedOn
        <5> QED
          BY <2>0, <4>2, <5>2 DEF BackInv, Passed
      <4> QED
        BY <3>1, <4>1, <4>2, LeaveEffect
    <3>2. CASE ProduceForTask(p) \/ RunProducer(p)
      BY <3>2 DEF BackInv, ProduceForTask, RunProducer, Goto, loopVars, TypeOK
    <3>10. CASE Begin(p)
      BY <3>10 DEF BackInv, Begin, Goto, TypeOK
    <3>3. CASE OnStartup(p)
      <4>1. pc'[p] = "cutoff" /\ cfg' = cfg
        BY <3>3 DEF OnStartup, Goto, TypeOK
      <4>2. ASSUME NEW e \in Int, StartFrom(p, e) PROVE from'[p] = e /\ cursor'[p] = e
        BY <4>2 DEF StartFrom, TypeOK
      <4>3. \E e \in Int : from'[p] = e /\ cursor'[p] = e
        <5>1. \A l \in logs : l.end \in Int
          BY DEF TypeOK
        <5>2. Current(p).start - Step(p) \in Int
          BY CurrentSound, StepType DEF SpanType
        <5> QED
          BY <3>3, <4>2, <5>1, <5>2 DEF OnStartup
      <4> QED
        BY <2>0, <3>0, <4>1, <4>3, PassedNone DEF BackInv, Passed
    <3>4. CASE CheckExists(p)
      <4>1. CASE Leave(p) /\ window[p] \in Ranges
        <5>1. Recovering(p) => Passed(f, c, Tried, u) /\ window[p] = Span(c, c + u)
          BY <3>4 DEF CheckExists, BackInv
        <5> QED
          BY <2>0, <3>1, <4>1, <5>1 DEF Tried
      <4>2. CASE pc' = [pc EXCEPT ![p] = "produce"] /\ UNCHANGED <<window, loopVars>>
        <5>1. InLoop(p) => Passed(f, c, Tried', u)
          BY <2>0, <3>0, PassedGrows DEF BackInv
        <5> QED
          BY <2>0, <3>4, <4>2, <5>1 DEF BackInv, CheckExists, Passed, loopVars, TypeOK
      <4> QED
        BY <3>4, <4>1, <4>2 DEF CheckExists
    <3>5. CASE CreateLog(p)
      <4>1. window[p] \in Tried'
        <5>1. window[p] \in Ranges'
          <6> DEFINE new == [start |-> window[p].start, end |-> window[p].end,
                             index |-> index[p]]
          <6>1. new \in logs'
            BY <3>5 DEF CreateLog
          <6>2. Span(new.start, new.end) = window[p]
            BY DEF Span, TypeOK
          <6> HIDE DEF new
          <6> QED
            BY <6>1, <6>2 DEF Ranges
        <5> QED
          BY <5>1 DEF Tried
      <4>2. CASE Leave(p)
        <5>1. Recovering(p) => Passed(f, c, Tried, u) /\ window[p] = Span(c, c + u)
          BY <3>5 DEF CreateLog, BackInv
        <5> QED
          BY <3>1, <4>1, <4>2, <5>1
      <4>3. CASE ~Leave(p)
        <5>1. UNCHANGED <<pc, window, loopVars>>
          BY <3>5, <4>3 DEF CreateLog
        <5>2. InLoop(p) => Passed(f, c, Tried', u)
          BY <2>0, <3>0, PassedGrows DEF BackInv
        <5> QED
          BY <2>0, <5>1, <5>2 DEF BackInv, Passed, loopVars
      <4> QED
        BY <4>2, <4>3
    <3>6. CASE ProduceFails(p)
      <4>1. Recovering(p) => /\ Passed(f, c, Tried, u)
                             /\ window[p] = Span(c, c + u)
                             /\ window[p] \in Tried'
        BY <3>6 DEF ProduceFails, BackInv, Tried
      <4> QED
        BY <3>1, <3>6, <4>1 DEF ProduceFails
    <3>7. CASE ReadCutoff(p)
      <4>1. Passed(f, c, Tried', u)
        BY <2>0, <3>0, <3>7, PassedGrows DEF BackInv, ReadCutoff, Goto
      <4> QED
        BY <2>0, <3>7, <4>1 DEF BackInv, ReadCutoff, Goto, Passed, TypeOK
    <3>8. CASE Scan(p)
      <4>1. Passed(f, c, Tried', u)
        BY <2>0, <3>0, <3>8, PassedGrows DEF BackInv, Scan
      <4>2. CASE /\ Span(c, c + u) \in Ranges
                 /\ cursor' = [cursor EXCEPT ![p] = c + u]
                 /\ UNCHANGED <<pc, window, attempted>>
        <5>1. Passed(f, c + u, Tried', u)
          BY <2>0, <3>0, <4>1, <4>2, PassedOn DEF Tried
        <5>2. pc'[p] = "scan" /\ from'[p] = f /\ cursor'[p] = c + u /\ cfg' = cfg
          BY <3>8, <4>2 DEF Scan, TypeOK
        <5> QED
          BY <2>0, <5>1, <5>2 DEF BackInv, Passed
      <4>3. CASE /\ pc' = [pc EXCEPT ![p] = "exists"]
                 /\ window' = [window EXCEPT ![p] = Span(c, c + u)]
                 /\ UNCHANGED cursor
        <5>1. pc'[p] = "exists" /\ window'[p] = Span(c, c + u)
          BY <4>3 DEF TypeOK
        <5>2. from'[p] = f /\ cursor'[p] = c /\ cfg' = cfg
          BY <3>8, <4>3 DEF Scan
        <5> QED
          BY <2>0, <4>1, <5>1, <5>2 DEF BackInv, Passed
      <4> QED
        BY <3>8, <4>2, <4>3 DEF Scan, StepOn
    <3>9. CASE ScanEnds(p) \/ Stop(p)
      <4>1. pc'[p] = "idle" /\ cursor'[p] = None
        BY <3>9 DEF ScanEnds, Stop, Forget, TypeOK
      <4> QED
        BY <4>1 DEF BackInv
    <3> QED
      BY <1>1, <3>2, <3>3, <3>4, <3>5, <3>6, <3>7, <3>8, <3>9,
         <3>10 DEF Act, Start, Go
  <2> QED
    BY <2>1, <2>2
<1> QED
  BY <1>0, <1>1 DEF Next, Act

(* Every window between the last row a backfill found and the one it has   *)
(* come to has rows, or its production failed.                             *)
THEOREM NothingSkipped == Spec => []BackfillSkipsNothing
<1>1. Init => BackInvAll
  BY DEF Init, BackInvAll, BackInv, InLoop, InRange, Recovering
<1>2. BackInvAll => BackfillSkipsNothing
  BY DEF BackInvAll, BackInv, InLoop, Passed, Tried, BackfillSkipsNothing
<1> QED
  BY <1>1, <1>2, BackStep, Typing, PTL DEF Spec

-----------------------------------------------------------------------------
(* No race leaves a window half produced.                                  *)

(* The indexes of the files of r.                                          *)
AllOf(r) == IF CountChunks(r) = 0 THEN {0} ELSE 1 .. CountChunks(r)

(* Indexes(r), when the rows are L.                                        *)
IndexesIn(L, r) == {l.index : l \in {k \in L : Span(k.start, k.end) = r}}

(* The data source gives every range a number of files.                    *)
FilesCounted == \A r \in SpanType : CountChunks(r) \in Nat

(* A producer has a row, its own or another's, for every index below the   *)
(* one it has come to.                                                     *)
RowsInv ==
  /\ \A r \in Ranges : IndexesIn(logs, r) \subseteq AllOf(r)
  /\ \A p \in Producers : pc[p] = "produce" =>
       /\ index[p] \in AllOf(window[p])
       /\ \A i \in AllOf(window[p]) : i < index[p] => i \in IndexesIn(logs, window[p])
  /\ PartialNeedsCause

(* The row a producer makes is one of its range, and of no other.          *)
LEMMA NewIndex ==
  ASSUME TypeOK, NEW p \in Producers, CreateLog(p), NEW r \in SpanType
  PROVE  IndexesIn(logs', r) = IndexesIn(logs, r) \cup (IF r = window[p] THEN {index[p]} ELSE {})
<1> DEFINE new == [start |-> window[p].start, end |-> window[p].end, index |-> index[p]]
<1>1. logs' = logs \cup {new}
  BY DEF CreateLog
<1>2. Span(new.start, new.end) = window[p] /\ new.index = index[p]
  BY DEF Span, TypeOK
<1> HIDE DEF new
<1> QED
  BY <1>1, <1>2 DEF IndexesIn

(* Without a new row every range keeps its rows.                           *)
LEMMA SameIndexes ==
  ASSUME logs' = logs PROVE Ranges' = Ranges /\ \A r : IndexesIn(logs', r) = IndexesIn(logs, r)
BY DEF Ranges, IndexesIn

(* The files of a range follow one another up to the last.                 *)
LEMMA LastFile ==
  ASSUME NEW r \in SpanType, CountChunks(r) \in Nat, NEW i \in AllOf(r)
  PROVE  /\ i \in Nat
         /\ i < CountChunks(r) => i + 1 \in AllOf(r)
         /\ i >= CountChunks(r) => \A j \in AllOf(r) : j = i \/ j < i
         /\ \A j \in AllOf(r) : j \in Nat /\ (j < i + 1 => j < i \/ j = i)
BY DEF AllOf

(* The induction step of RowsInv.                                          *)
LEMMA RowsStep == FilesCounted /\ TypeOK /\ RowsInv /\ [Next]_vars => RowsInv'
<1> SUFFICES ASSUME FilesCounted, TypeOK, RowsInv, [Next]_vars PROVE RowsInv'
  OBVIOUS
<1>0. \A r \in Ranges : r \in SpanType
  BY RangeType
<1>1. CASE UNCHANGED vars \/ Tick \/ Reload
  <2>1. UNCHANGED <<logs, pc, window, index, broken>>
    BY <1>1 DEF vars, worldVars, loopVars, histVars, Tick, Reload
  <2>2. Ranges' = Ranges /\ \A r : IndexesIn(logs', r) = IndexesIn(logs, r)
    BY <2>1, SameIndexes
  <2> QED
    BY <2>1, <2>2 DEF RowsInv, PartialNeedsCause, Complete, Indexes, IndexesIn, AllOf
<1>2. ASSUME NEW p \in Producers, Act(p), logs' = logs,
             pc'[p] = "produce" => /\ window'[p] = window[p]
                                   /\ \/ pc[p] = "produce" /\ index'[p] = index[p]
                                      \/ /\ window[p] \in SpanType
                                         /\ index'[p] = IF CountChunks(window[p]) = 0
                                                        THEN 0 ELSE 1,
             pc[p] = "produce" => \/ pc'[p] = "produce"
                                  \/ window[p] \in broken'
      PROVE  RowsInv'
  <2>1. Ranges' = Ranges /\ \A r : IndexesIn(logs', r) = IndexesIn(logs, r)
    BY <1>2, SameIndexes
  <2>2. ASSUME NEW q \in Producers, pc'[q] = "produce"
        PROVE  /\ index'[q] \in AllOf(window'[q])
               /\ \A i \in AllOf(window'[q]) :
                    i < index'[q] => i \in IndexesIn(logs, window'[q])
    <3>1. CASE q # p
      BY <1>2, <2>2, <3>1, OthersStay DEF RowsInv
    <3>2. CASE q = p /\ pc[p] = "produce" /\ index'[p] = index[p]
      BY <1>2, <2>2, <3>2 DEF RowsInv
    <3>3. CASE /\ q = p /\ window[p] \in SpanType
               /\ index'[p] = IF CountChunks(window[p]) = 0 THEN 0 ELSE 1
      <4>1. CountChunks(window[p]) \in Nat
        BY <3>3 DEF FilesCounted
      <4>2. /\ index'[p] \in AllOf(window[p])
            /\ \A i \in AllOf(window[p]) : ~(i < index'[p])
        BY <3>3, <4>1 DEF AllOf
      <4> QED
        BY <1>2, <2>2, <3>3, <4>2
    <3> QED
      BY <1>2, <2>2, <3>1, <3>2, <3>3
  <2>3. ASSUME NEW r \in Ranges
        PROVE  \/ IndexesIn(logs', r) = AllOf(r) \/ r \in broken'
               \/ \E q \in Producers : pc'[q] = "produce" /\ window'[q] = r
    <3>1. CASE \E q \in Producers : pc[q] = "produce" /\ window[q] = r
      <4>1. PICK q \in Producers : pc[q] = "produce" /\ window[q] = r
        BY <3>1
      <4>2. CASE q = p
        BY <1>2, <4>1, <4>2
      <4>3. CASE q # p
        BY <1>2, <4>1, <4>3, OthersStay
      <4> QED
        BY <4>2, <4>3
    <3>2. broken \subseteq broken'
      BY <1>2, WorldGrows
    <3> QED
      BY <1>2, <3>1, <3>2
         DEF RowsInv, PartialNeedsCause, Complete, Indexes, IndexesIn, AllOf
  <2>4. PartialNeedsCause'
    BY <2>1, <2>3 DEF PartialNeedsCause, Complete, Indexes, IndexesIn, AllOf
  <2>5. \A r \in Ranges' : IndexesIn(logs', r) \subseteq AllOf(r)
    BY <1>2, <2>1 DEF RowsInv
  <2> QED
    BY <1>2, <2>2, <2>4, <2>5 DEF RowsInv, AllOf
<1>3. ASSUME NEW p \in Producers, CreateLog(p) PROVE RowsInv'
  <2> DEFINE w == window[p]
  <2>0. Act(p) /\ w \in SpanType /\ CountChunks(w) \in Nat
    BY <1>3 DEF Act, Go, TypeOK, SpanType, FilesCounted
  <2>1. Ranges' = Ranges \cup {w}
    <3>1. CASE logs' = logs /\ Ranges' = Ranges
      <4> DEFINE new == [start |-> w.start, end |-> w.end, index |-> index[p]]
      <4>1. new \in logs
        BY <1>3, <3>1 DEF CreateLog
      <4>2. Span(new.start, new.end) = w
        BY DEF Span, TypeOK
      <4> HIDE DEF new
      <4>3. w \in Ranges
        BY <4>1, <4>2 DEF Ranges
      <4> QED
        BY <3>1, <4>3
    <3> QED
      BY <2>0, <3>1, NewRange
  <2>2. /\ pc[p] = "produce" /\ index[p] \in AllOf(w)
        /\ \A i \in AllOf(w) : i < index[p] => i \in IndexesIn(logs, w)
    BY <1>3 DEF CreateLog, RowsInv
  <2>3. IndexesIn(logs', w) = IndexesIn(logs, w) \cup {index[p]}
    BY <1>3, <2>0, NewIndex
  <2>4. \A r \in SpanType : r # w => IndexesIn(logs', r) = IndexesIn(logs, r)
    BY <1>3, NewIndex
  <2>5. IndexesIn(logs, w) \subseteq AllOf(w)
    <3>1. CASE w \in Ranges
      BY <3>1 DEF RowsInv
    <3>2. CASE w \notin Ranges
      BY <3>2 DEF Ranges, IndexesIn
    <3> QED
      BY <3>1, <3>2
  <2>6. /\ index[p] \in Nat
        /\ index[p] < CountChunks(w) => index[p] + 1 \in AllOf(w)
        /\ index[p] >= CountChunks(w) => \A j \in AllOf(w) : j = index[p] \/ j < index[p]
        /\ \A j \in AllOf(w) : j < index[p] + 1 => j < index[p] \/ j = index[p]
    BY <2>0, <2>2, LastFile
  <2> HIDE DEF w
  <2>7. \A r \in Ranges' : IndexesIn(logs', r) \subseteq AllOf(r)
    BY <1>0, <2>1, <2>2, <2>3, <2>4, <2>5 DEF RowsInv
  <2>8. ASSUME NEW q \in Producers, pc'[q] = "produce"
        PROVE  /\ index'[q] \in AllOf(window'[q])
               /\ \A i \in AllOf(window'[q]) :
                    i < index'[q] => i \in IndexesIn(logs', window'[q])
    <3>1. CASE q # p
      <4>1. /\ pc[q] = "produce" /\ window'[q] = window[q] /\ index'[q] = index[q]
            /\ window[q] \in SpanType
        BY <2>0, <2>8, <3>1, OthersStay DEF TypeOK, SpanType
      <4>2. IndexesIn(logs, window[q]) \subseteq IndexesIn(logs', window[q])
        BY <2>3, <2>4, <4>1
      <4> QED
        BY <4>1, <4>2 DEF RowsInv
    <3>2. CASE q = p
      <4>1. ~AtEnd(p)
        <5>1. ASSUME AtEnd(p) PROVE FALSE
          BY <1>3, <2>0, <2>8, <3>2, <5>1, LeaveEffect DEF CreateLog
        <5> QED
          BY <5>1
      <4>2. index'[p] = index[p] + 1 /\ window'[p] = w
        BY <1>3, <4>1 DEF CreateLog, TypeOK, w
      <4>3. index[p] < CountChunks(w)
        BY <2>0, <2>6, <4>1 DEF AtEnd, w
      <4> QED
        BY <2>2, <2>3, <2>6, <3>2, <4>2, <4>3
    <3> QED
      BY <3>1, <3>2
  <2>9. ASSUME NEW r \in Ranges'
        PROVE  \/ IndexesIn(logs', r) = AllOf(r)
               \/ r \in broken'
               \/ \E q \in Producers : pc'[q] = "produce" /\ window'[q] = r
    <3>1. CASE r = w /\ AtEnd(p)
      <4>1. index[p] >= CountChunks(w)
        BY <3>1 DEF AtEnd, w
      <4> QED
        BY <2>2, <2>3, <2>5, <2>6, <3>1, <4>1
    <3>2. CASE r = w /\ ~AtEnd(p)
      <4>1. pc' = pc /\ window' = window
        BY <1>3, <3>2 DEF CreateLog
      <4> QED
        BY <2>2, <3>2, <4>1 DEF w
    <3>3. CASE r # w
      <4>1. r \in Ranges /\ IndexesIn(logs', r) = IndexesIn(logs, r)
        BY <1>0, <2>1, <2>4, <3>3
      <4>2. \/ IndexesIn(logs, r) = AllOf(r)
            \/ r \in broken
            \/ \E q \in Producers : pc[q] = "produce" /\ window[q] = r
        BY <4>1 DEF RowsInv, PartialNeedsCause, Complete, Indexes, IndexesIn, AllOf
      <4>3. \A q \in Producers : pc[q] = "produce" /\ window[q] = r =>
                                   pc'[q] = "produce" /\ window'[q] = r
        BY <2>0, <3>3, OthersStay DEF w
      <4>4. broken \subseteq broken'
        BY <2>0, WorldGrows
      <4> QED
        BY <4>1, <4>2, <4>3, <4>4
    <3> QED
      BY <3>1, <3>2, <3>3
  <2> QED
    BY <2>7, <2>8, <2>9 DEF RowsInv, PartialNeedsCause, Complete, Indexes, IndexesIn, AllOf
<1>4. ASSUME NEW p \in Producers, Start(p) PROVE RowsInv'
  BY <1>2, <1>4 DEF Act, Start, ProduceForTask, Begin, RunProducer, OnStartup, Goto, worldVars, TypeOK
<1>5. ASSUME NEW p \in Producers, CheckExists(p) PROVE RowsInv'
  <2>1. Act(p) /\ logs' = logs /\ pc[p] = "exists"
    BY <1>5 DEF Act, Go, CheckExists, worldVars
  <2>2. CASE Leave(p)
    BY <1>2, <2>1, <2>2, LeaveEffect
  <2>3. CASE ~Leave(p)
    <3>1. /\ window' = window
          /\ index'[p] = IF CountChunks(window[p]) = 0 THEN 0 ELSE 1
      BY <1>5, <2>3 DEF CheckExists, TypeOK
    <3> QED
      BY <1>2, <2>1, <3>1 DEF TypeOK, SpanType
  <2> QED
    BY <2>2, <2>3
<1>6. ASSUME NEW p \in Producers, ProduceFails(p) PROVE RowsInv'
  <2>1. /\ Act(p) /\ logs' = logs /\ Leave(p)
        /\ pc[p] = "produce" => window[p] \in broken'
    BY <1>6 DEF Act, Go, ProduceFails, worldVars
  <2> QED
    BY <1>2, <2>1, LeaveEffect
<1>7. ASSUME NEW p \in Producers, ReadCutoff(p) \/ Scan(p) PROVE RowsInv'
  <2>1. Act(p) /\ logs' = logs /\ pc[p] # "produce"
    BY <1>7 DEF Act, Go, ReadCutoff, Scan, Goto, worldVars
  <2>2. pc'[p] # "produce"
    BY <1>7 DEF ReadCutoff, Scan, Goto, TypeOK
  <2> QED
    BY <1>2, <2>1, <2>2
<1>8. ASSUME NEW p \in Producers, ScanEnds(p) \/ Stop(p) PROVE RowsInv'
  <2>1. /\ Act(p) /\ logs' = logs /\ Forget(p)
        /\ pc[p] = "produce" => window[p] \in broken'
    BY <1>8 DEF Act, Go, ScanEnds, Stop, worldVars
  <2>2. pc'[p] = "idle"
    BY <2>1 DEF Forget, TypeOK
  <2> QED
    BY <1>2, <2>1, <2>2
<1> QED
  BY <1>1, <1>3, <1>4, <1>5, <1>6, <1>7, <1>8 DEF Next, Go

(* A range lacks rows only while a producer is at work in it, or after one *)
(* stopped or failed in it, whatever number of files its ranges have.      *)
THEOREM HalfProducedOnlyWithCause ==
  ASSUME FilesCounted PROVE Spec => []PartialNeedsCause
<1>1. Init => RowsInv
  BY DEF Init, RowsInv, PartialNeedsCause, Ranges
<1>2. TypeOK /\ RowsInv /\ [Next]_vars => RowsInv'
  BY RowsStep
<1>3. RowsInv => PartialNeedsCause
  BY DEF RowsInv
<1> QED
  BY <1>1, <1>2, <1>3, Typing, PTL DEF Spec

-----------------------------------------------------------------------------
(* The backfill comes to an end.                                           *)

(* What a call still has to go through, the rounds of the backfill and the *)
(* files of a window aside.                                                *)
Rank == [begin |-> 5, cutoff |-> 4, scan |-> 3, exists |-> 2, produce |-> 1, idle |-> 0]

(* The call returns; or it goes one place further, in the same round; or   *)
(* it goes one file further, in the same window; or a round is over, and   *)
(* the next one is nearer to the cutoff, which stands, by a minute at      *)
(* least.                                                                  *)
Closer(p) ==
  \/ pc'[p] = "idle"
  \/ /\ Rank[pc'[p]] < Rank[pc[p]]
     /\ pc[p] \in {"scan", "exists"} => cursor'[p] = cursor[p] /\ cutoff'[p] = cutoff[p]
  \/ /\ pc[p] = "produce" /\ pc'[p] = "produce"
     /\ window'[p] = window[p] /\ cursor'[p] = cursor[p] /\ cutoff'[p] = cutoff[p]
     /\ index[p] < index'[p] /\ index'[p] <= CountChunks(window[p])
  \/ /\ pc[p] \in {"scan", "exists", "produce"} /\ pc'[p] = "scan"
     /\ cursor[p] < cutoff[p] /\ cutoff'[p] = cutoff[p]
     /\ cursor[p] + Minute <= cursor'[p]

Standing(p) ==
  /\ pc'[p] = pc[p] /\ window'[p] = window[p] /\ index'[p] = index[p]
  /\ cursor'[p] = cursor[p] /\ cutoff'[p] = cutoff[p]

Onwards(p) ==
  /\ Go(p) => Closer(p)
  /\ pc[p] # "idle" => Closer(p) \/ Standing(p)

BackfillEnds == [][\A p \in Producers : Onwards(p)]_vars

(* A backfill looks at a window only when it is before the cutoff.         *)
LoopInv ==
  \A p \in Producers :
    /\ pc[p] \in {"idle", "begin"} => ~Recovering(p)
    /\ pc[p] \in {"exists", "produce"} /\ Recovering(p) => cursor[p] < cutoff[p]

(* A window is a minute long at least.                                     *)
LEMMA StepMinute ==
  ASSUME TypeOK, NEW p \in Producers
  PROVE  Step(p) >= Minute
BY StepType DEF Step, minuteInterval, Minute

(* A round is over.                                                        *)
LEMMA RoundOver ==
  ASSUME TypeOK, LoopInv, NEW p \in Producers, pc[p] \in {"exists", "produce"}, Leave(p)
  PROVE  Closer(p)
<1>1. CASE pc'[p] = "idle"
  BY <1>1 DEF Closer
<1>2. CASE pc'[p] # "idle"
  <2>1. /\ Recovering(p) /\ pc'[p] = "scan" /\ cutoff'[p] = cutoff[p]
        /\ cursor'[p] = cursor[p] + Step(p)
    BY <1>2, LeaveEffect
  <2>2. cursor[p] + Minute <= cursor'[p]
    BY <2>1, StepType, StepMinute DEF TypeOK, Minute
  <2> QED
    BY <2>1, <2>2 DEF Closer, LoopInv
<1> QED
  BY <1>1, <1>2

LEMMA GoCloser ==
  ASSUME FilesCounted, TypeOK, LoopInv, NEW p \in Producers, Go(p)
  PROVE  Closer(p)
<1>1. CASE CheckExists(p)
  <2>1. CASE Leave(p)
    BY <1>1, <2>1, RoundOver DEF CheckExists
  <2>2. CASE ~Leave(p)
    BY <1>1, <2>2 DEF CheckExists, loopVars, TypeOK, Closer, Rank
  <2> QED
    BY <2>1, <2>2
<1>2. CASE CreateLog(p)
  <2>1. CASE AtEnd(p)
    BY <1>2, <2>1, RoundOver DEF CreateLog
  <2>2. CASE ~AtEnd(p)
    <3>1. /\ index' = [index EXCEPT ![p] = index[p] + 1] /\ UNCHANGED <<pc, window, loopVars>>
          /\ pc[p] = "produce"
      BY <1>2, <2>2 DEF CreateLog
    <3>2. index'[p] = index[p] + 1 /\ index[p] \in Nat
      BY <3>1 DEF TypeOK
    <3>3. CountChunks(window[p]) \in Nat
      BY DEF FilesCounted, TypeOK, SpanType
    <3>4. index'[p] <= CountChunks(window[p])
      BY <2>2, <3>2, <3>3 DEF AtEnd
    <3> QED
      BY <3>1, <3>2, <3>4 DEF Closer, loopVars
  <2> QED
    BY <2>1, <2>2
<1>3. CASE ProduceFails(p)
  BY <1>3, RoundOver DEF ProduceFails
<1>4. CASE ReadCutoff(p)
  BY <1>4 DEF ReadCutoff, Goto, TypeOK, Closer, Rank
<1>5. CASE Scan(p)
  <2>1. pc[p] = "scan" /\ cursor[p] < cutoff[p] /\ cutoff' = cutoff
    BY <1>5 DEF Scan
  <2>2. CASE pc' = pc
    <3>1. cursor' = [cursor EXCEPT ![p] = cursor[p] + Step(p)]
      BY <1>5, <2>1, <2>2 DEF Scan, StepOn, TypeOK
    <3>2. cursor[p] + Minute <= cursor'[p]
      BY <3>1, StepType, StepMinute DEF TypeOK, Minute
    <3> QED
      BY <2>1, <2>2, <3>2 DEF Closer
  <2>3. CASE pc' # pc
    <3>1. cursor' = cursor /\ pc'[p] = "exists"
      BY <1>5, <2>3 DEF Scan, TypeOK
    <3> QED
      BY <2>1, <3>1 DEF Closer, Rank
  <2> QED
    BY <2>2, <2>3
<1>6. CASE ScanEnds(p)
  BY <1>6 DEF ScanEnds, Forget, TypeOK, Closer
<1> QED
  BY <1>1, <1>2, <1>3, <1>4, <1>5, <1>6 DEF Go

LEMMA ActOnwards ==
  ASSUME FilesCounted, TypeOK, LoopInv, [Next]_vars, NEW p \in Producers
  PROVE  Onwards(p)
<1>1. CASE Go(p)
  BY <1>1, GoCloser DEF Onwards
<1>2. CASE Stop(p)
  <2>1. pc'[p] = "idle"
    BY <1>2 DEF Stop, Forget, TypeOK
  <2> QED
    BY <2>1 DEF Onwards, Closer
<1>3. CASE Start(p) /\ ~Go(p)
  <2>1. pc[p] \in {"idle", "begin"} /\ pc'[p] \in {"begin", "exists", "cutoff"}
    BY <1>3 DEF Start, ProduceForTask, Begin, RunProducer, OnStartup, Goto, TypeOK
  <2>2. pc[p] = "begin" => pc'[p] # "begin"
    BY <1>3 DEF Start, ProduceForTask, Begin, RunProducer, OnStartup, Goto, TypeOK
  <2> QED
    BY <1>3, <2>1, <2>2 DEF Onwards, Closer, Rank
<1>4. ASSUME NEW q \in Producers, q # p, Act(q), ~Go(p)
      PROVE  Onwards(p)
  BY <1>4, OthersStay DEF Onwards, Standing
<1>5. CASE (Tick \/ Reload \/ UNCHANGED vars) /\ ~Go(p)
  BY <1>5 DEF Tick, Reload, vars, loopVars, Onwards, Standing
<1> QED
  BY <1>1, <1>2, <1>3, <1>4, <1>5 DEF Next, Act

LEMMA LoopStep == TypeOK /\ LoopInv /\ [Next]_vars => LoopInv'
<1> SUFFICES ASSUME TypeOK, LoopInv, [Next]_vars, NEW p \in Producers
             PROVE  /\ pc'[p] \in {"idle", "begin"} => cursor'[p] = None
                    /\ pc'[p] \in {"exists", "produce"} /\ cursor'[p] # None
                         => cursor'[p] < cutoff'[p]
  BY DEF LoopInv, Recovering
<1> DEFINE Good == /\ pc'[p] \in {"idle", "begin"} => cursor'[p] = None
                   /\ pc'[p] \in {"exists", "produce"} /\ cursor'[p] # None
                        => cursor'[p] < cutoff'[p]
<1>0. /\ pc[p] \in {"idle", "begin"} => cursor[p] = None
      /\ pc[p] \in {"exists", "produce"} /\ cursor[p] # None => cursor[p] < cutoff[p]
  BY DEF LoopInv, Recovering
<1>1. CASE pc'[p] = pc[p] /\ cursor'[p] = cursor[p] /\ cutoff'[p] = cutoff[p]
  BY <1>0, <1>1
<1>2. CASE Leave(p) \/ Forget(p)
  BY <1>2, LeaveEffect
<1>3. CASE Start(p)
  BY <1>0, <1>3 DEF Start, ProduceForTask, Begin, RunProducer, OnStartup, Goto, loopVars, TypeOK
<1>4. CASE CheckExists(p) \/ CreateLog(p) \/ ProduceFails(p)
  BY <1>0, <1>1, <1>2, <1>4 DEF CheckExists, CreateLog, ProduceFails, loopVars, TypeOK
<1>5. CASE ReadCutoff(p) \/ Scan(p)
  <2>1. CASE ReadCutoff(p)
    BY <2>1 DEF ReadCutoff, Goto, TypeOK
  <2>2. CASE Scan(p)
    BY <2>2 DEF Scan, TypeOK
  <2> QED
    BY <1>5, <2>1, <2>2
<1>6. CASE ScanEnds(p) \/ Stop(p)
  BY <1>2, <1>6 DEF ScanEnds, Stop
<1>7. ASSUME NEW q \in Producers, q # p, Act(q)
      PROVE  Good
  BY <1>1, <1>7, OthersStay
<1>8. CASE Tick \/ Reload \/ UNCHANGED vars
  BY <1>1, <1>8 DEF Tick, Reload, vars, loopVars
<1> QED
  BY <1>3, <1>4, <1>5, <1>6, <1>7, <1>8 DEF Next, Act, Go

(* A backfill, like any other call, ends however long the task was down,   *)
(* whatever interval is configured (also 0 or less) and however windows    *)
(* are produced by others or fail meanwhile: no step of a call leads back, *)
(* each window is passed at most once on the way to a cutoff that does not *)
(* move with the clock, and nobody else moves its cursor.                  *)
THEOREM BackfillComesToAnEnd ==
  ASSUME FilesCounted PROVE Spec => BackfillEnds
<1>1. Init => LoopInv
  BY DEF Init, LoopInv, Recovering
<1>2. FilesCounted /\ TypeOK /\ LoopInv /\ [Next]_vars => [\A p \in Producers : Onwards(p)]_vars
  BY ActOnwards
<1>3. FilesCounted
  OBVIOUS
<1>4. TypeOK /\ LoopInv /\ [Next]_vars => [\A p \in Producers : Onwards(p)]_vars
  BY <1>2, <1>3
<1> QED
  BY <1>1, <1>4, LoopStep, Typing, PTL DEF Spec, BackfillEnds
=============================================================================
