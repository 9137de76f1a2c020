----------------------------- MODULE MCScheduling -----------------------------
(***************************************************************************)
(* Small instances of Scheduling: overlapping and adjacent intervals.      *)
(***************************************************************************)
EXTENDS Scheduling, TLC

\* Two intervals that overlap and one that is adjacent to the first.
ThreeIntervals == {<<0, 2>>, <<1, 3>>, <<2, 3>>}
\* Two intervals that overlap; only the second starts in the future.
TwoIntervals == {<<0, 2>>, <<1, 2>>}
OneInterval == {<<0, 1>>}
\* A long interval and its halves, all in the future at first.
FutureIntervals == {<<1, 3>>, <<1, 2>>, <<2, 3>>}

Symmetric == Permutations(Session) \cup Permutations(Appointment) \cup Permutations(Barber)
=============================================================================
