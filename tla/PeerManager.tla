------------------------------- MODULE PeerManager -----------------------------
(***************************************************************************)
(* PeerManager: the table of peers as threads share it.                    *)
(*                                                                         *)
(* The table is a DashMap.  A call on one key locks its shard and is one   *)
(* step; len(), iter() and retain() go from shard to shard.  add_peer is   *)
(* three calls: it counts the peers, looks for the peer, and inserts.      *)
(* Addresses, versions, the mining-pool flag and the counters of messages  *)
(* are left out; what refreshes last_seen beside them is Touch.            *)
(***************************************************************************)
EXTENDS Integers, FiniteSets

CONSTANTS
    Peer, Thread, None,
    Shards,          \* number of shards of the DashMap
    ShardOf,         \* the shard of a peer
    MaxPeers,        \* max_peers
    Timeout,         \* timeout of a peer that is silent
    MaxReputation,   \* 100
    Neutral,         \* 50, the reputation of a new peer
    BanBelow,        \* 10, should_ban
    Amounts,         \* amounts by which callers change a reputation
    MaxTime          \* bound: how far the clock goes

ASSUME ShardAssumption == Shards \in Nat \ {0} /\ ShardOf \in [Peer -> 1 .. Shards]
ASSUME FiniteAssumption == IsFiniteSet(Peer) /\ IsFiniteSet(Thread) /\ Thread # {}
ASSUME ScoreAssumption ==
          /\ MaxReputation \in Nat /\ Neutral \in 0 .. MaxReputation
          /\ BanBelow \in Nat /\ Amounts \subseteq Nat
ASSUME BoundAssumption == MaxPeers \in Nat /\ Timeout \in Nat /\ MaxTime \in Nat

Time == 0 .. MaxTime
Status == {"Connecting", "Connected", "Disconnected", "Banned"}
PeerInfo == [status : Status, reputation : 0 .. MaxReputation, last_seen : Time]

ASSUME NoneAssumption == None \notin PeerInfo \cup Peer

VARIABLES
    peers,           \* the entry of a peer, None without one
    task,            \* what each thread is doing
    now

vars == <<peers, task, now>>

\* peer: the peer to add; at: the shard a count or a sweep has come to; count:
\* the peers counted so far; read: the clock a sweep goes by.
Task == [pc : {"idle", "len", "contains", "insert", "sweep"}, peer : Peer \cup {None},
         at : 1 .. Shards, count : Nat, read : Time]

NewTask(pc, p, read) == [pc |-> pc, peer |-> p, at |-> 1, count |-> 0, read |-> read]
IdleTask == NewTask("idle", None, 0)

AtMost(x, y) == IF x < y THEN x ELSE y
AtLeast(x, y) == IF x > y THEN x ELSE y

AtWork(t, pc) == task[t].pc = pc
Become(t, new) == task' = [task EXCEPT ![t] = new]

Present == {p \in Peer : peers[p] # None}
PeersIn(s) == {p \in Present : ShardOf[p] = s}

TypeOK ==
    /\ peers \in [Peer -> PeerInfo \cup {None}]
    /\ task \in [Thread -> Task]
    /\ now \in Time

Init ==
    /\ peers = [p \in Peer |-> None]
    /\ task = [t \in Thread |-> IdleTask]
    /\ now = 0

(***************************************************************************)
(* add_peer.                                                               *)
(***************************************************************************)
AddPeer(t, p) ==
    /\ AtWork(t, "idle")
    /\ Become(t, NewTask("len", p, 0))
    /\ UNCHANGED <<peers, now>>

\* Variant: one shard is left out of the count.
CountShardShort(t) ==
    /\ AtWork(t, "len")
    /\ LET count == task[t].count + Cardinality(PeersIn(task[t].at))
       IN  Become(t, IF task[t].at + 1 < Shards
                     THEN [task[t] EXCEPT !.at = @ + 1, !.count = count]
                     ELSE IF count >= MaxPeers THEN IdleTask
                     ELSE NewTask("contains", task[t].peer, 0))
    /\ UNCHANGED <<peers, now>>

\* One shard of len(); after the last one the sum is compared with the limit.
CountShard(t) ==
    /\ AtWork(t, "len")
    /\ LET count == task[t].count + Cardinality(PeersIn(task[t].at))
       IN  Become(t, IF task[t].at < Shards
                     THEN [task[t] EXCEPT !.at = @ + 1, !.count = count]
                     ELSE IF count >= MaxPeers THEN IdleTask
                     ELSE NewTask("contains", task[t].peer, 0))
    /\ UNCHANGED <<peers, now>>

CheckKnown(t) ==
    /\ AtWork(t, "contains")
    /\ Become(t, IF peers[task[t].peer] # None THEN IdleTask
                 ELSE [task[t] EXCEPT !.pc = "insert"])
    /\ UNCHANGED <<peers, now>>

NewPeer == [status |-> "Connecting", reputation |-> Neutral, last_seen |-> now]

InsertPeer(t) ==
    /\ AtWork(t, "insert")
    /\ peers' = [peers EXCEPT ![task[t].peer] = NewPeer]
    /\ Become(t, IdleTask)
    /\ UNCHANGED now

(***************************************************************************)
(* Calls on one peer.                                                      *)
(***************************************************************************)
RemovePeer(p) ==
    /\ peers[p] # None
    /\ peers' = [peers EXCEPT ![p] = None]
    /\ UNCHANGED <<task, now>>

Update(p, info) ==
    /\ peers[p] # None
    /\ peers' = [peers EXCEPT ![p] = info]
    /\ UNCHANGED <<task, now>>

\* Any status may follow any other, Banned included.
UpdatePeerStatus(p, status) ==
    Update(p, [peers[p] EXCEPT !.status = status, !.last_seen = now])

\* update_peer_addresses, update_peer_protocol, record_message_sent and
\* record_message_received.
Touch(p) == Update(p, [peers[p] EXCEPT !.last_seen = now])

\* Variant: the sum is not cut at 100.
IncreaseUncapped(p, amount) ==
    Update(p, [peers[p] EXCEPT !.reputation = @ + amount])

IncreaseReputation(p, amount) ==
    Update(p, [peers[p] EXCEPT !.reputation = AtMost(@ + amount, MaxReputation)])

DecreaseReputation(p, amount) ==
    LET reputation == AtLeast(peers[p].reputation - amount, 0)
    IN  Update(p, [peers[p] EXCEPT
                      !.reputation = reputation,
                      !.status = IF reputation < BanBelow THEN "Banned" ELSE @])

BanPeer(p) == Update(p, [peers[p] EXCEPT !.status = "Banned", !.reputation = 0])

(***************************************************************************)
(* remove_timed_out_peers.                                                 *)
(***************************************************************************)
StartSweep(t) ==
    /\ AtWork(t, "idle")
    /\ Become(t, NewTask("sweep", None, now))
    /\ UNCHANGED <<peers, now>>

\* Variant: a peer is silent when it was not seen since before the sweep.
SilentSince(p, read) ==
    /\ peers[p].status = "Connected"
    /\ peers[p].last_seen <= read

\* Silence is never negative: a peer seen since the clock was read stays.
Silent(p, read) ==
    /\ peers[p].status = "Connected"
    /\ AtLeast(read - peers[p].last_seen, 0) > Timeout

SweepShard(t) ==
    /\ AtWork(t, "sweep")
    /\ peers' = [p \in Peer |->
                    IF p \in PeersIn(task[t].at) /\ Silent(p, task[t].read)
                    THEN None ELSE peers[p]]
    /\ Become(t, IF task[t].at < Shards THEN [task[t] EXCEPT !.at = @ + 1] ELSE IdleTask)
    /\ UNCHANGED now

Tick ==
    /\ now < MaxTime
    /\ now' = now + 1
    /\ UNCHANGED <<peers, task>>

Next ==
    \/ \E t \in Thread, p \in Peer : AddPeer(t, p)
    \/ \E t \in Thread :
          \/ CountShard(t) \/ CheckKnown(t) \/ InsertPeer(t)
          \/ StartSweep(t) \/ SweepShard(t)
    \/ \E p \in Peer : RemovePeer(p) \/ Touch(p) \/ BanPeer(p)
    \/ \E p \in Peer, s \in Status : UpdatePeerStatus(p, s)
    \/ \E p \in Peer, n \in Amounts : IncreaseReputation(p, n) \/ DecreaseReputation(p, n)
    \/ Tick

Spec == Init /\ [][Next]_vars

(***************************************************************************)
(* Properties.                                                             *)
(***************************************************************************)
\* add_peer counts before it inserts, so the table may exceed max_peers, but
\* only by the threads that were adding at the same time: one entry for each
\* thread but the first.
OvershootBounded ==
    Cardinality(Present) <= MaxPeers + Cardinality(Thread) - 1

\* A sweep removes only peers that are connected and have been silent for
\* longer than the timeout when they are removed, however long ago the sweep
\* read its clock.
SweepsOnlySilent ==
    [][\A p \in Peer, t \in Thread :
          AtWork(t, "sweep") /\ task'[t] # task[t] /\ peers[p] # None /\ peers'[p] = None =>
             peers[p].status = "Connected" /\ now - peers[p].last_seen > Timeout]_vars
=============================================================================
