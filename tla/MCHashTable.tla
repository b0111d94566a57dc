---------------------------- MODULE MCHashTable -----------------------------
(* Two indices: "a", "ab" (whose hash wraps around) and a char above 127   *)
(* (a negative number) share one of them, "b" has the other for itself.    *)
EXTENDS HashTable, TLC

Keys == {<<97>>, <<97, 98>>, <<-61>>, <<98>>}
Symmetry == Permutations(Value)
=============================================================================
