-------------------------- MODULE MCValidatorNetwork --------------------------
(***************************************************************************)
(* Small instances of ValidatorNetwork.  The configurations choose which   *)
(* kinds of task exist; tasks of one kind and addresses are                *)
(* interchangeable, so safety runs use their permutations as symmetry.     *)
(***************************************************************************)
EXTENDS ValidatorNetwork, TLC

Symmetry ==
    Permutations(Addr) \cup Permutations(Dialer)
      \cup Permutations(Session) \cup Permutations(Caster)
=============================================================================
