---------------------------- MODULE MCScheduler -----------------------------
(* Scheduler on three tasks and a wheel of two buckets, with requests that *)
(* round to zero, one and two ticks and timer gaps longer than the wheel.    *)
EXTENDS Scheduler, TLC

MCSleepMS == {0, 1, 4}
MCSleepTimes == {<<0, 0>>, <<0, 1>>}
Symmetry == Permutations(Tasks)
=============================================================================
