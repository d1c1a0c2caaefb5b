----------------------------- MODULE MCPeerManager -----------------------------
(***************************************************************************)
(* Small instances of PeerManager: peers spread over two shards.           *)
(***************************************************************************)
EXTENDS PeerManager, TLC

CONSTANTS p1, p2, p3

MCPeer == {p1, p2, p3}

MCShardOf == (p1 :> 1) @@ (p2 :> 2) @@ (p3 :> 2)

Symmetric == Permutations(Thread) \cup Permutations({p2, p3})
=============================================================================
