------------------------------ MODULE MCMiningPool -----------------------------
(***************************************************************************)
(* Small instances of MiningPool: each of two miners in a shard of its own.*)
(***************************************************************************)
EXTENDS MiningPool, TLC

CONSTANTS t1, t2, t3, m1, m2

MCMiner == {m1, m2}

MCShardOf == (m1 :> 1) @@ (m2 :> 2)

Threads == Permutations(Thread)
=============================================================================
