------------------------------- MODULE MCLink -------------------------------
(* The list over a few nodes.                                              *)
EXTENDS Link
=============================================================================
