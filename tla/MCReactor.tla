----------------------------- MODULE MCReactor ------------------------------
(* The reactor with a few coroutines, which are interchangeable.           *)
EXTENDS Reactor, TLC

Symmetry == Permutations(Co)
=============================================================================
