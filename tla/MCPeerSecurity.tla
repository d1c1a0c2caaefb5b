----------------------------- MODULE MCPeerSecurity ----------------------------
(***************************************************************************)
(* Small instances of PeerSecurity.                                        *)
(***************************************************************************)
EXTENDS PeerSecurity, TLC

Threads == Permutations(Thread)
=============================================================================
