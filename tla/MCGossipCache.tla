----------------------------- MODULE MCGossipCache -----------------------------
(***************************************************************************)
(* Small instances of GossipCache.                                         *)
(***************************************************************************)
EXTENDS GossipCache, TLC

Ids == Permutations(Id)
=============================================================================
