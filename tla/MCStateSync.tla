------------------------------ MODULE MCStateSync ------------------------------
(***************************************************************************)
(* Small instances of StateSync: contents c1 and c2 pass verification, c3  *)
(* does not; c1 lists nothing, the others list transactions.               *)
(***************************************************************************)
EXTENDS StateSync, TLC

CONSTANTS c1, c2, c3, t1, t2

MCContent == {c1, c2, c3}

MCValid == {c1, c2}

MCTransaction == {t1, t2}

MCListed == (c1 :> {}) @@ (c2 :> {t1, t2}) @@ (c3 :> {t1})
=============================================================================
