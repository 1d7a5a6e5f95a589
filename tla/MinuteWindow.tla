---------------------------- MODULE MinuteWindow ----------------------------
(***************************************************************************)
(* The window arithmetic of minute tasks, in seconds since the epoch of    *)
(* Unix.  The clock shows a time after it, so that Go's division, which    *)
(* truncates, is \div; and Truncate(time.Minute), which counts from the    *)
(* year 1, counts from a full minute before the epoch and is a division,   *)
(* too.  A negative delay would take the clock back to neither.            *)
(***************************************************************************)
EXTENDS Integers

Minute == 60

(* A range of time: start belongs to it, end does not.                     *)
Span(s, e) == [start |-> s, end |-> e]

(* Mutant: nearly as good for the end of a window, but not aligned.        *)
AlignNot(t, unit) == t

Align(t, unit) == (t \div unit) * unit

(* Zero and negative intervals are taken for one minute.                   *)
minuteInterval(intervalMinutes) ==
  Minute * (IF intervalMinutes <= 0 THEN 1 ELSE intervalMinutes)

(* Mutant: the delay is forgotten.                                         *)
calcWithoutDelay(now, delay, intervalMinutes) ==
  LET interval == minuteInterval(intervalMinutes)
      end == Align(Align(now, Minute), interval)
  IN Span(end - interval, end)

(* The last window that was over delay seconds ago.                        *)
calcMinuteRange(now, delay, intervalMinutes) ==
  LET interval == minuteInterval(intervalMinutes)
      anchor == Align(now - delay, Minute)
      end == Align(anchor, interval)
  IN Span(end - interval, end)

-----------------------------------------------------------------------------
(* What the callers rely on.                                               *)

(* r is one of the windows a task with this interval is divided into.      *)
IsWindow(r, intervalMinutes) ==
  /\ r.start % minuteInterval(intervalMinutes) = 0
  /\ r.end = r.start + minuteInterval(intervalMinutes)

Overlap(r, s) == r.start < s.end /\ s.start < r.end
=============================================================================
