------------------------------- MODULE MCBatching ------------------------------
(***************************************************************************)
(* Small instances of Batching: the .cfg gives every constant its value.   *)
(***************************************************************************)
EXTENDS Batching
=============================================================================
