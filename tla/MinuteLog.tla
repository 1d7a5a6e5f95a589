------------------------------ MODULE MinuteLog ------------------------------
(***************************************************************************)
(* The production side of one minute task.  RunProducer (and its variant   *)
(* for one task) produces the window calcMinuteRange returns, OnStartup    *)
(* backfills what was missed (recoverMinuteGaps), and ProduceForTask       *)
(* produces a range its caller chooses.  They run in any number of         *)
(* goroutines and processes while the clock goes on and reloads of         *)
(* task_config change the interval: a call goes by the copy it took when   *)
(* it started.  The rows of uploadlog are seen from the producers only:    *)
(* whether they exist.                                                     *)
(***************************************************************************)
EXTENDS MinuteWindow, FiniteSets

CONSTANTS
  Producers,      \* calls of the entry points that may run at the same time
  Readings,       \* bound: the times the clock shows, in seconds
  Delay,          \* TaskConfig.DelaySeconds
  Intervals,      \* the values interval_minutes takes in task_config
  Changes,        \* bound: the changes of it that reloads bring, as pairs
  Given,          \* the ranges ProduceForTask is called with
  CountChunks(_), \* the data source: the files of a range, which do not change
  BackfillLimit   \* startupBackfillLimit; 0: no limit

ASSUME MinuteOK ==
  /\ Delay \in Nat
  /\ Readings # {} /\ \A t \in Readings : t \in Nat /\ Delay <= t
  /\ Intervals # {} /\ Intervals \subseteq Int
  /\ Changes \subseteq Intervals \X Intervals
  /\ Given \subseteq [start : Nat, end : Nat]
  /\ BackfillLimit \in Nat

Location == {"idle", "begin", "exists", "produce", "cutoff", "scan"}

None == -1

NoSpan == Span(None, None)

VARIABLES
  logs,           \* the rows: the range and the index of the file
  now,            \* clock
  config,         \* reloadableTaskConfigRepo: interval_minutes in the snapshot
  pc,             \* where the producer is
  window,         \* produceRange: start and end
  index,          \* produceRange: the loop variable
  cfg,            \* the copy of it the call took, while it is needed
  from,           \* recoverMinuteGaps: lastEnd
  cursor,         \* recoverMinuteGaps: t, or None outside of it
  cutoff,         \* recoverMinuteGaps: cutoffStart
  attempted,      \* recoverMinuteGaps: attempted
  broken,         \* history: ranges a producer gave up half way, or a backfill
  irregular       \* history: a range was given that is no window, or the
                  \* interval was changed

loopVars == <<cfg, from, cursor, cutoff, attempted>>
worldVars == <<logs, now, config>>
histVars == <<broken, irregular>>
vars == <<worldVars, pc, window, index, loopVars, histVars>>

Goto(p, f, t) == pc[p] = f /\ pc' = [pc EXCEPT ![p] = t]

Recovering(p) == cursor[p] # None

Step(p) == minuteInterval(cfg[p])

Current(p) == calcMinuteRange(now, Delay, cfg[p])

(* The ranges that have a row, and the indexes of a range.                 *)
Ranges == {Span(l.start, l.end) : l \in logs}

Indexes(r) == {l.index : l \in {k \in logs : Span(k.start, k.end) = r}}

(* The rows of a range that was produced to the end.  One without data has *)
(* a marker row, already uploaded, with index 0.                           *)
Complete(r) ==
  Indexes(r) = (IF CountChunks(r) = 0 THEN {0} ELSE 1 .. CountChunks(r))

-----------------------------------------------------------------------------
(* produceRange.                                                           *)

(* ProduceForTask.                                                         *)
ProduceForTask(p) ==
  /\ Goto(p, "idle", "exists")
  /\ \E r \in Given :
       /\ window' = [window EXCEPT ![p] = r]
       /\ irregular' = (irregular \/ ~IsWindow(r, config))
  /\ UNCHANGED <<worldVars, index, loopVars, broken>>

(* RunProducer, ProduceCurrentWindowForTask and OnStartup take the task's  *)
(* configuration from the snapshot, and read the clock some time after.    *)
Begin(p) ==
  /\ Goto(p, "idle", "begin")
  /\ cfg' = [cfg EXCEPT ![p] = config]
  /\ UNCHANGED <<worldVars, window, index, from, cursor, cutoff, attempted, histVars>>

(* RunProducer, ProduceCurrentWindowForTask.                               *)
RunProducer(p) ==
  /\ Goto(p, "begin", "exists")
  /\ window' = [window EXCEPT ![p] = Current(p)]
  /\ cfg' = [cfg EXCEPT ![p] = 0]
  /\ UNCHANGED <<worldVars, index, from, cursor, cutoff, attempted, histVars>>

(* The call is over.                                                       *)
Forget(p) ==
  /\ pc' = [pc EXCEPT ![p] = "idle"]
  /\ window' = [window EXCEPT ![p] = NoSpan]
  /\ index' = [index EXCEPT ![p] = 0]
  /\ cfg' = [cfg EXCEPT ![p] = 0]
  /\ from' = [from EXCEPT ![p] = 0]
  /\ cursor' = [cursor EXCEPT ![p] = None]
  /\ cutoff' = [cutoff EXCEPT ![p] = 0]
  /\ attempted' = [attempted EXCEPT ![p] = 0]

(* Mutant: only every second window is looked at.                          *)
StepTwice(p) == cursor[p] + 2 * Step(p)

(* t.Add(step).                                                            *)
StepOn(p) == cursor[p] + Step(p)

(* produceRange is over.  recoverMinuteGaps goes on with the next window,  *)
(* also after an error, which it logs.                                     *)
Leave(p) ==
  IF Recovering(p)
  THEN /\ pc' = [pc EXCEPT ![p] = "scan"]
       /\ cursor' = [cursor EXCEPT ![p] = StepOn(p)]
       /\ window' = [window EXCEPT ![p] = NoSpan]
       /\ index' = [index EXCEPT ![p] = 0]
       /\ UNCHANGED <<cfg, from, cutoff, attempted>>
  ELSE Forget(p)

(* ExistsByTaskAndTimeRange, then CountChunks.                             *)
CheckExists(p) ==
  /\ pc[p] = "exists"
  /\ \/ window[p] \in Ranges /\ Leave(p)
     \/ /\ window[p] \notin Ranges
        /\ pc' = [pc EXCEPT ![p] = "produce"]
        /\ index' = [index EXCEPT ![p] = IF CountChunks(window[p]) = 0 THEN 0 ELSE 1]
        /\ UNCHANGED <<window, loopVars>>
  /\ UNCHANGED <<worldVars, histVars>>

(* Mutant: the loop runs to index < total.                                 *)
AtEndEarly(p) == index[p] + 1 >= CountChunks(window[p])

AtEnd(p) == index[p] >= CountChunks(window[p])

(* FetchChunk, Save, Create; a row that exists already is skipped.         *)
CreateLog(p) ==
  /\ pc[p] = "produce"
  /\ logs' = logs \cup
       {[start |-> window[p].start, end |-> window[p].end, index |-> index[p]]}
  /\ IF AtEnd(p)
     THEN Leave(p)
     ELSE /\ index' = [index EXCEPT ![p] = @ + 1]
          /\ UNCHANGED <<pc, window, loopVars>>
  /\ UNCHANGED <<now, config, histVars>>

(* One of the calls of produceRange returns an error.                      *)
ProduceFails(p) ==
  /\ pc[p] \in {"exists", "produce"}
  /\ broken' = IF pc[p] = "produce" \/ Recovering(p)
               THEN broken \cup {window[p]} ELSE broken
  /\ Leave(p)
  /\ UNCHANGED <<worldVars, irregular>>

-----------------------------------------------------------------------------
(* recoverMinuteGaps.                                                      *)

StartFrom(p, e) ==
  /\ from' = [from EXCEPT ![p] = e]
  /\ cursor' = [cursor EXCEPT ![p] = e]

(* GetLastTimeEndByCode; a task without rows starts one window before the  *)
(* current one.                                                            *)
OnStartup(p) ==
  /\ Goto(p, "begin", "cutoff")
  /\ \/ \E l \in logs : (\A k \in logs : k.end <= l.end) /\ StartFrom(p, l.end)
     \/ logs = {} /\ StartFrom(p, Current(p).start - Step(p))
  /\ UNCHANGED <<worldVars, window, index, cfg, cutoff, attempted, histVars>>

(* The clock is read again.                                                *)
ReadCutoff(p) ==
  /\ Goto(p, "cutoff", "scan")
  /\ cutoff' = [cutoff EXCEPT ![p] = Current(p).start]
  /\ UNCHANGED <<worldVars, window, index, cfg, from, cursor, attempted, histVars>>

(* Mutant: one window more than the limit is produced.                     *)
LimitReachedLate(p) == BackfillLimit > 0 /\ attempted[p] > BackfillLimit

LimitReached(p) == BackfillLimit > 0 /\ attempted[p] >= BackfillLimit

(* The loop meets a window that has rows, or one to produce.               *)
Scan(p) ==
  LET r == Span(cursor[p], cursor[p] + Step(p))
  IN /\ pc[p] = "scan"
     /\ cursor[p] < cutoff[p]
     /\ ~LimitReached(p)
     /\ \/ /\ r \in Ranges
           /\ cursor' = [cursor EXCEPT ![p] = StepOn(p)]
           /\ UNCHANGED <<pc, window, attempted>>
        \/ /\ r \notin Ranges
           /\ pc' = [pc EXCEPT ![p] = "exists"]
           /\ window' = [window EXCEPT ![p] = r]
           /\ attempted' = [attempted EXCEPT ![p] = @ + 1]
           /\ UNCHANGED cursor
     /\ UNCHANGED <<worldVars, index, cfg, from, cutoff, histVars>>

(* The loop ends: the current window is reached, or the limit.             *)
ScanEnds(p) ==
  /\ pc[p] = "scan"
  /\ cursor[p] >= cutoff[p] \/ LimitReached(p)
  /\ Forget(p)
  /\ UNCHANGED <<worldVars, histVars>>

-----------------------------------------------------------------------------
(* The process dies, or a query of recoverMinuteGaps returns an error.     *)
Stop(p) ==
  /\ pc[p] # "idle"
  /\ broken' = IF pc[p] = "produce" THEN broken \cup {window[p]} ELSE broken
  /\ Forget(p)
  /\ UNCHANGED <<worldVars, irregular>>

(* Time passes; nothing makes the cron job run in every window.            *)
Tick ==
  /\ now' \in {t \in Readings : t > now}
  /\ UNCHANGED <<logs, config, pc, window, index, loopVars, histVars>>

(* Load, after interval_minutes was changed: the windows before and after  *)
(* it are on different grids.                                              *)
Reload ==
  /\ config' \in {i \in Intervals : <<config, i>> \in Changes}
  /\ irregular' = TRUE
  /\ UNCHANGED <<logs, now, pc, window, index, loopVars, broken>>

Init ==
  /\ logs = {}
  /\ now \in Readings
  /\ config \in Intervals
  /\ pc = [p \in Producers |-> "idle"]
  /\ window = [p \in Producers |-> NoSpan]
  /\ index = [p \in Producers |-> 0]
  /\ cfg = [p \in Producers |-> 0]
  /\ from = [p \in Producers |-> 0]
  /\ cursor = [p \in Producers |-> None]
  /\ cutoff = [p \in Producers |-> 0]
  /\ attempted = [p \in Producers |-> 0]
  /\ broken = {}
  /\ irregular = FALSE

Start(p) == ProduceForTask(p) \/ Begin(p) \/ RunProducer(p) \/ OnStartup(p)

Go(p) ==
  \/ CheckExists(p)
  \/ CreateLog(p)
  \/ ProduceFails(p)
  \/ ReadCutoff(p)
  \/ Scan(p)
  \/ ScanEnds(p)

Next ==
  \/ \E p \in Producers : Start(p) \/ Go(p) \/ Stop(p)
  \/ Tick
  \/ Reload

Spec == Init /\ [][Next]_vars

-----------------------------------------------------------------------------
(* Properties.                                                             *)

(* Every variable keeps its type, and a backfill its limit.                *)
TypeOK ==
  /\ logs \subseteq [start : Int, end : Int, index : Nat]
  /\ now \in Readings
  /\ config \in Intervals
  /\ pc \in [Producers -> Location]
  /\ window \in [Producers -> [start : Int, end : Int]]
  /\ index \in [Producers -> Nat]
  /\ cfg \in [Producers -> Intervals \cup {0}]
  /\ from \in [Producers -> Int]
  /\ cursor \in [Producers -> Int]
  /\ cutoff \in [Producers -> Int]
  /\ attempted \in [Producers -> Nat]
  /\ BackfillLimit > 0 => \A p \in Producers : attempted[p] <= BackfillLimit
  /\ broken \subseteq [start : Int, end : Int]
  /\ irregular \in BOOLEAN

(* produceRange takes any row of a range for the whole range, and a row of *)
(* another producer for its own.  Still a range lacks rows only while a    *)
(* producer is at work in it, or after one stopped or failed in it:        *)
(* producers that race for a window never leave it half produced.          *)
PartialNeedsCause ==
  \A r \in Ranges :
    \/ Complete(r)
    \/ r \in broken
    \/ \E p \in Producers : pc[p] = "produce" /\ window[p] = r

(* recoverMinuteGaps passes over no window: every window between the last  *)
(* row it found and the one it has come to has rows, or its production     *)
(* failed.                                                                 *)
BackfillSkipsNothing ==
  \A p \in Producers : Recovering(p) =>
    \A t \in from[p] .. cursor[p] - 1 :
      (t - from[p]) % Step(p) = 0 => Span(t, t + Step(p)) \in Ranges \cup broken

(* A moment belongs to one window: whatever the cron jobs and backfills of *)
(* all processes produce, at whatever times they read the clock, no two    *)
(* ranges that have rows overlap, so that no record is delivered in two    *)
(* files.  It takes a range that was given and is no window of the task to *)
(* make them overlap, from whose end later backfills may go on, or a new   *)
(* interval: its windows lie across those that have rows already.          *)
OverlapNeedsCause ==
  irregular \/ \A r, s \in Ranges : r = s \/ ~Overlap(r, s)

(* No producer asks for a window that is not over for Delay seconds, also  *)
(* not a backfill that goes on from the end of a given range or of a       *)
(* window of an interval of old; only a given range may itself be early.   *)
NeverEarly ==
  \A p \in Producers : pc[p] \in {"exists", "produce"} =>
    window[p] \in Given \/ window[p].end + Delay <= now

(* engine.go: "OnStartup backfills minute gaps".  So when the backfill is  *)
(* over, unless it met its limit, every window since the first one that    *)
(* was produced has rows, or its production was tried and failed.          *)
NoGapAfterBackfill ==
  [][\A p \in Producers :
       ScanEnds(p) /\ ~LimitReached(p) /\ ~irregular =>
         \A r \in Ranges : \A t \in r.end .. cutoff[p] - 1 :
           t % Step(p) = 0 => Span(t, t + Step(p)) \in Ranges \cup broken]_vars
=============================================================================
