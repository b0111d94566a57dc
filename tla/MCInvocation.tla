---------------------------- MODULE MCInvocation ----------------------------
(* Two coroutines, two descriptors whose numbers are soon reused.          *)
EXTENDS Invocation, TLC

Symmetry == Permutations(Co)
=============================================================================
