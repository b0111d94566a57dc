---------------------------- MODULE MCCoroutine -----------------------------
(* Coroutines over a small cid map; php_context blocks are interchangeable. *)
EXTENDS Coroutine, TLC

Symmetry == Permutations(Ctx)
=============================================================================
