---------------------------- MODULE MCMinuteLog ----------------------------
(* MinuteLog for TLC: producers are interchangeable; one window has no     *)
(* data and one has two files; the interval may be shortened; the range    *)
(* that is given is a window of the shorter interval only, and is asked    *)
(* for before it is over, too.                                             *)
EXTENDS MinuteLog, TLC

ProducerSymmetry == Permutations(Producers)

Shortened == {<<3, 2>>}

Files(r) == CASE r = Span(240, 360) -> 0
              [] r = Span(360, 480) -> 2
              [] OTHER -> 1

GivenRanges == {Span(360, 480)}
=============================================================================
