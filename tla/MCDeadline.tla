----------------------------- MODULE MCDeadline -----------------------------
(* Two coroutines, half seconds, and a wall clock that can be set.         *)
EXTENDS Deadline, TLC

Symmetry == Permutations(Co)
ClockSteps == {-3, 3}
=============================================================================
