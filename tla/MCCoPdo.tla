------------------------------ MODULE MCCoPdo -------------------------------
(* Two connections, three statements, two coroutines.                      *)
EXTENDS CoPdo, TLC

Symmetry == Permutations(Db) \cup Permutations(St) \cup Permutations(Co)
=============================================================================
