---------------------------- MODULE MCErrorHandling ----------------------------
(***************************************************************************)
(* Small instances of ErrorHandling: the .cfg gives every constant its     *)
(* value.                                                                  *)
(***************************************************************************)
EXTENDS ErrorHandling
=============================================================================
