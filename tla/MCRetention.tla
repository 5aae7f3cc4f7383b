---------------------------- MODULE MCRetention ----------------------------
(* Small instances of Retention: weights in thousandths, thresholds as     *)
(* shipped.                                                                *)
EXTENDS Retention, TLC

\* A curve with an age for each of the levels.
Curve == [age \in Ages |-> <<100, 25, 15, 6>>[age + 1]]

\* 1 + 0.1 * log2(1 + n), in tenths and rounded.
Boost == [n \in 0..MaxCount |-> IF n = 0 THEN 10 ELSE 11]
=============================================================================
