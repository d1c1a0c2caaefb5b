---------------------------- MODULE ValidatorPeers ----------------------------
(***************************************************************************)
(* What every task of a ValidatorNetworkManager shares: the peer table     *)
(* behind the RwLock `peers` and the statistics behind the RwLock `stats`, *)
(* with the methods of PeerInfo and the calls of the manager that run in   *)
(* one critical section of the table.                                      *)
(*                                                                         *)
(* A section that holds `peers` and takes `stats` inside it is one step:   *)
(* no task takes `peers` while it holds `stats`, so nothing can tell the   *)
(* two apart.  Sections that take the locks one after the other are two    *)
(* steps in the modules that extend this one.                              *)
(***************************************************************************)
EXTENDS Naturals, FiniteSets

CONSTANTS
    Addr,            \* socket addresses
    None,            \* the table at an address without an entry; no address
    CanReset,        \* whether an operator may call reset_stats
    FailLimit,       \* record_failure marks a peer Failed beyond it (5)
    ReconnectLimit,  \* reconnect_failed_peers skips a peer from it on (10)
    MaxCalls         \* bound: connect, reconnect and broadcast calls

ASSUME AddrAssumption == IsFiniteSet(Addr) /\ None \notin Addr
ASSUME LimitAssumption ==
          FailLimit \in Nat /\ ReconnectLimit \in Nat /\ MaxCalls \in Nat
ASSUME ResetAssumption == CanReset \in BOOLEAN

VARIABLES
    peers,           \* the table: an entry or None at every address
    stats,           \* BroadcastStats
    calls            \* calls made so far

peerVars == <<peers, stats>>

\* The enum also has Stale, which nothing assigns: staleness is is_stale().
ConnectionState == {"Disconnected", "Connecting", "Connected", "Failed"}

(***************************************************************************)
(* An entry of the table.  `handshaked` is validator_id.is_some() and      *)
(* `stale` is is_stale().  Traffic counters and latency are left out.      *)
(***************************************************************************)
PeerInfo == [state : ConnectionState, handshaked : BOOLEAN,
             failed_attempts : Nat, stale : BOOLEAN]

ASSUME NoneAssumption == None \notin PeerInfo

BroadcastStats ==
    [peer_count : Nat, connected_peer_count : Nat, connection_failures : Nat,
     total_messages_received : Nat, total_messages_sent : Nat,
     message_retries : Nat, total_broadcasts : Nat,
     successful_broadcasts : Nat, failed_broadcasts : Nat]

NoStats ==
    [peer_count |-> 0, connected_peer_count |-> 0, connection_failures |-> 0,
     total_messages_received |-> 0, total_messages_sent |-> 0,
     message_retries |-> 0, total_broadcasts |-> 0,
     successful_broadcasts |-> 0, failed_broadcasts |-> 0]

Known == {a \in Addr : peers[a] # None}

Connected == {a \in Known : peers[a].state = "Connected"}

-----------------------------------------------------------------------------
(* The methods of PeerInfo. *)

NewPeer == [state |-> "Disconnected", handshaked |-> FALSE,
            failed_attempts |-> 0, stale |-> FALSE]

\* Variant: the failure counter survives the handshake.
CompleteHandshakeUncleared(p) ==
    [p EXCEPT !.state = "Connected", !.handshaked = TRUE]

\* A Handshake answer was read: Connected, with a clean failure counter.
CompleteHandshake(p) ==
    [p EXCEPT !.state = "Connected", !.handshaked = TRUE,
              !.failed_attempts = 0]

RecordSent(p) == [p EXCEPT !.stale = FALSE]

RecordReceived(p) == [p EXCEPT !.stale = FALSE, !.failed_attempts = 0]

\* Variant: the limit is compared with the counter before its increment.
RecordFailureLate(p) ==
    [p EXCEPT !.failed_attempts = @ + 1,
              !.state = IF p.failed_attempts > FailLimit THEN "Failed" ELSE @]

RecordFailure(p) ==
    [p EXCEPT !.failed_attempts = @ + 1,
              !.state = IF p.failed_attempts + 1 > FailLimit
                        THEN "Failed" ELSE @]

\* connect_peer's failure branches: Failed first, then record_failure.
FailConnect(p) == RecordFailure([p EXCEPT !.state = "Failed"])

SetState(p, s) == [p EXCEPT !.state = s]

\* Variant: entry(a).or_insert(..) in place of get_mut(&a).
UpdateOrInsert(a, p) ==
    peers' = [peers EXCEPT ![a] = IF a \in Known THEN p ELSE NewPeer]

\* `if let Some(peer) = peers.get_mut(&a)`: an entry that is gone stays gone.
UpdateIfKnown(a, p) ==
    peers' = [peers EXCEPT ![a] = IF a \in Known THEN p ELSE None]

SaturatingDec(n) == IF n = 0 THEN 0 ELSE n - 1

-----------------------------------------------------------------------------
(* Calls that are one critical section.  Calls that find nothing to do      *)
(* return an error and change nothing.                                      *)

PeersInit ==
    /\ peers = [a \in Addr |-> None]
    /\ stats = NoStats
    /\ calls = 0

StartCall == calls < MaxCalls /\ calls' = calls + 1

\* Variant: no contains_key check.
AddPeerUnchecked(a) ==
    /\ peers' = [peers EXCEPT ![a] = NewPeer]
    /\ stats' = [stats EXCEPT !.peer_count = @ + 1]

AddPeer(a) ==
    /\ a \notin Known
    /\ peers' = [peers EXCEPT ![a] = NewPeer]
    /\ stats' = [stats EXCEPT !.peer_count = @ + 1]

RemovePeer(a) ==
    /\ a \in Known
    /\ peers' = [peers EXCEPT ![a] = None]
    /\ stats' = [stats EXCEPT !.peer_count = SaturatingDec(@)]

DisconnectPeer(a) ==
    /\ a \in Known
    /\ peers' = [peers EXCEPT ![a] = SetState(@, "Disconnected")]
    /\ stats' = [stats EXCEPT !.connected_peer_count =
                    IF a \in Connected THEN SaturatingDec(@) ELSE @]

\* Variant: the count is left as it was.
CleanupUncounted ==
    /\ peers' = [a \in Addr |-> IF a \in Known /\ ~peers[a].stale
                                 THEN peers[a] ELSE None]
    /\ UNCHANGED stats

CleanupStalePeers ==
    LET fresh == {a \in Known : ~peers[a].stale}
    IN  /\ peers' = [a \in Addr |-> IF a \in fresh THEN peers[a] ELSE None]
        /\ stats' = [stats EXCEPT !.peer_count = Cardinality(fresh)]

ResetStats ==
    /\ CanReset
    /\ stats' = NoStats
    /\ UNCHANGED peers

\* Five minutes without update_last_seen: nothing else refreshes last_seen,
\* neither a handshake nor a state change.
GrowStale(a) ==
    /\ a \in Known
    /\ ~peers[a].stale
    /\ peers' = [peers EXCEPT ![a].stale = TRUE]
    /\ UNCHANGED stats

TableStep ==
    \/ \E a \in Addr : \/ AddPeer(a)
                       \/ RemovePeer(a)
                       \/ DisconnectPeer(a)
                       \/ GrowStale(a)
    \/ CleanupStalePeers
    \/ ResetStats

PeersTypeOK ==
    /\ peers \in [Addr -> PeerInfo \cup {None}]
    /\ stats \in BroadcastStats
    /\ calls \in 0 .. MaxCalls
=============================================================================
