----------------------------- MODULE MCVmStack ------------------------------
(* A stack of eight places, for frames of three sizes.                     *)
EXTENDS VmStack
=============================================================================
