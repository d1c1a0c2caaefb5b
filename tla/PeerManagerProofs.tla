---------------------------- MODULE PeerManagerProofs ---------------------------
(***************************************************************************)
(* Proofs about PeerManager: its types, that a sweep whose clock is old    *)
(* takes no peer that has been seen since, and by how much threads that    *)
(* add peers together overshoot the limit.                                 *)
(***************************************************************************)
EXTENDS PeerManager, FiniteSetTheorems, TLAPS

\* An entry is put together from its three fields.
LEMMA PeerInfoType ==
    ASSUME NEW s \in Status, NEW r \in 0 .. MaxReputation, NEW n \in Time
    PROVE  [status |-> s, reputation |-> r, last_seen |-> n] \in PeerInfo
BY DEF PeerInfo

\* A thread's task is put together from its five fields.
LEMMA TaskType ==
    ASSUME NEW pc \in {"idle", "len", "contains", "insert", "sweep"},
           NEW p \in Peer \cup {None}, NEW at \in 1 .. Shards, NEW count \in Nat,
           NEW read \in Time
    PROVE  [pc |-> pc, peer |-> p, at |-> at, count |-> count, read |-> read] \in Task
BY DEF Task

\* A thread that starts something, or is done, has a task of the right type.
LEMMA NewTaskType ==
    ASSUME NEW pc \in {"idle", "len", "contains", "insert", "sweep"},
           NEW p \in Peer \cup {None}, NEW read \in Time
    PROVE  NewTask(pc, p, read) \in Task
<1>1. 1 \in 1 .. Shards /\ 0 \in Nat
  BY ShardAssumption
<1> QED BY <1>1, TaskType DEF NewTask

LEMMA IdleTaskType == IdleTask \in Task
<1>1. 0 \in Time
  BY BoundAssumption DEF Time
<1> QED BY <1>1, NewTaskType DEF IdleTask

\* A shard holds finitely many peers.
LEMMA ShardCounted ==
    ASSUME NEW s PROVE Cardinality(PeersIn(s)) \in Nat
<1>1. PeersIn(s) \subseteq Peer
  BY DEF PeersIn, Present
<1>2. IsFiniteSet(PeersIn(s))
  BY <1>1, FiniteAssumption, FS_Subset
<1> QED BY <1>2, FS_CardinalityType

\* A call that replaces one entry by an entry keeps the types.
LEMMA UpdateType ==
    ASSUME TypeOK, NEW p \in Peer, NEW info \in PeerInfo, Update(p, info)
    PROVE  TypeOK'
BY DEF TypeOK, Update

\* So does a step that gives one thread a task and leaves the rest alone.
LEMMA BecomeType ==
    ASSUME TypeOK, NEW t \in Thread, NEW new \in Task, Become(t, new),
           UNCHANGED <<peers, now>>
    PROVE  TypeOK'
BY DEF TypeOK, Become

\* What an entry of the table is made of.
LEMMA EntryType ==
    ASSUME TypeOK, NEW p \in Peer, peers[p] # None
    PROVE  /\ peers[p] \in PeerInfo
           /\ peers[p].status \in Status
           /\ peers[p].reputation \in 0 .. MaxReputation
           /\ peers[p].last_seen \in Time
<1>1. peers[p] \in PeerInfo
  BY DEF TypeOK
<1> QED BY <1>1 DEF PeerInfo

\* Every step keeps the types.
LEMMA TypeStep == TypeOK /\ [Next]_vars => TypeOK'
<1> SUFFICES ASSUME TypeOK, [Next]_vars PROVE TypeOK'
  OBVIOUS
<1>n. now \in Time
  BY DEF TypeOK
<1>z. 0 \in Time
  BY BoundAssumption DEF Time
<1>t. \A t \in Thread :
         /\ task[t] \in Task
         /\ task[t].peer \in Peer \cup {None}
         /\ task[t].at \in 1 .. Shards
         /\ task[t].count \in Nat
         /\ task[t].read \in Time
  BY DEF TypeOK, Task
<1>1. ASSUME NEW t \in Thread, NEW p \in Peer, AddPeer(t, p) PROVE TypeOK'
  <2>1. NewTask("len", p, 0) \in Task
    BY <1>z, NewTaskType
  <2> QED BY <1>1, <2>1, BecomeType DEF AddPeer
<1>2. ASSUME NEW t \in Thread, CountShard(t) PROVE TypeOK'
  <2> DEFINE count == task[t].count + Cardinality(PeersIn(task[t].at))
  <2>1. count \in Nat
    BY <1>t, ShardCounted
  <2> HIDE DEF count
  <2>2. ASSUME task[t].at < Shards
        PROVE  [task[t] EXCEPT !.at = @ + 1, !.count = count] \in Task
    <3>1. task[t].at + 1 \in 1 .. Shards
      BY <1>t, <2>2, ShardAssumption
    <3> QED BY <1>t, <2>1, <3>1 DEF Task
  <2>3. IdleTask \in Task /\ NewTask("contains", task[t].peer, 0) \in Task
    BY <1>t, <1>z, IdleTaskType, NewTaskType
  <2>4. \E new \in Task : Become(t, new)
    BY <1>2, <2>2, <2>3 DEF CountShard, count
  <2> QED BY <1>2, <2>4, BecomeType DEF CountShard
<1>3. ASSUME NEW t \in Thread, CheckKnown(t) PROVE TypeOK'
  <2>1. [task[t] EXCEPT !.pc = "insert"] \in Task
    BY <1>t DEF Task
  <2>2. \E new \in Task : Become(t, new)
    BY <1>3, <2>1, IdleTaskType DEF CheckKnown
  <2> QED BY <1>3, <2>2, BecomeType DEF CheckKnown
<1>4. ASSUME NEW t \in Thread, InsertPeer(t) PROVE TypeOK'
  <2>1. NewPeer \in PeerInfo
    <3>1. "Connecting" \in Status /\ Neutral \in 0 .. MaxReputation
      BY ScoreAssumption DEF Status
    <3> QED BY <3>1, <1>n, PeerInfoType DEF NewPeer
  <2>2. peers' \in [Peer -> PeerInfo \cup {None}]
    BY <1>4, <2>1 DEF InsertPeer, TypeOK
  <2>3. task' \in [Thread -> Task]
    BY <1>4, IdleTaskType DEF InsertPeer, Become, TypeOK
  <2> QED BY <1>4, <1>n, <2>2, <2>3 DEF InsertPeer, TypeOK
<1>5. ASSUME NEW t \in Thread, StartSweep(t) PROVE TypeOK'
  <2>1. NewTask("sweep", None, now) \in Task
    BY <1>n, NewTaskType
  <2> QED BY <1>5, <2>1, BecomeType DEF StartSweep
<1>6. ASSUME NEW t \in Thread, SweepShard(t) PROVE TypeOK'
  <2>1. peers' \in [Peer -> PeerInfo \cup {None}]
    BY <1>6 DEF SweepShard, TypeOK
  <2>2. ASSUME task[t].at < Shards PROVE [task[t] EXCEPT !.at = @ + 1] \in Task
    <3>1. task[t].at + 1 \in 1 .. Shards
      BY <1>t, <2>2, ShardAssumption
    <3> QED BY <1>t, <3>1 DEF Task
  <2>3. task' \in [Thread -> Task]
    BY <1>6, <2>2, IdleTaskType DEF SweepShard, Become, TypeOK
  <2> QED BY <1>6, <1>n, <2>1, <2>3 DEF SweepShard, TypeOK
<1>7. ASSUME NEW p \in Peer, RemovePeer(p) PROVE TypeOK'
  BY <1>7 DEF RemovePeer, TypeOK
<1>8. ASSUME NEW p \in Peer, Touch(p) PROVE TypeOK'
  <2>1. peers[p] \in PeerInfo
    BY <1>8, EntryType DEF Touch, Update
  <2>2. [peers[p] EXCEPT !.last_seen = now] \in PeerInfo
    BY <2>1, <1>n DEF PeerInfo
  <2> QED BY <1>8, <2>2, UpdateType DEF Touch
<1>9. ASSUME NEW p \in Peer, BanPeer(p) PROVE TypeOK'
  <2>1. peers[p] \in PeerInfo
    BY <1>9, EntryType DEF BanPeer, Update
  <2>2. "Banned" \in Status /\ 0 \in 0 .. MaxReputation
    BY ScoreAssumption DEF Status
  <2>3. [peers[p] EXCEPT !.status = "Banned", !.reputation = 0] \in PeerInfo
    BY <2>1, <2>2 DEF PeerInfo
  <2> QED BY <1>9, <2>3, UpdateType DEF BanPeer
<1>10. ASSUME NEW p \in Peer, NEW s \in Status, UpdatePeerStatus(p, s) PROVE TypeOK'
  <2>1. peers[p] \in PeerInfo
    BY <1>10, EntryType DEF UpdatePeerStatus, Update
  <2>2. [peers[p] EXCEPT !.status = s, !.last_seen = now] \in PeerInfo
    BY <2>1, <1>n DEF PeerInfo
  <2> QED BY <1>10, <2>2, UpdateType DEF UpdatePeerStatus
<1>11. ASSUME NEW p \in Peer, NEW n \in Amounts, IncreaseReputation(p, n) PROVE TypeOK'
  <2>1. peers[p] \in PeerInfo /\ peers[p].reputation \in 0 .. MaxReputation
    BY <1>11, EntryType DEF IncreaseReputation, Update
  <2>2. AtMost(peers[p].reputation + n, MaxReputation) \in 0 .. MaxReputation
    BY <2>1, ScoreAssumption DEF AtMost
  <2>3. [peers[p] EXCEPT !.reputation = AtMost(@ + n, MaxReputation)] \in PeerInfo
    BY <2>1, <2>2 DEF PeerInfo
  <2> QED BY <1>11, <2>3, UpdateType DEF IncreaseReputation
<1>12. ASSUME NEW p \in Peer, NEW n \in Amounts, DecreaseReputation(p, n) PROVE TypeOK'
  <2> DEFINE r == AtLeast(peers[p].reputation - n, 0)
             s == IF r < BanBelow THEN "Banned" ELSE peers[p].status
  <2>1. /\ peers[p] \in PeerInfo /\ peers[p].reputation \in 0 .. MaxReputation
        /\ peers[p].status \in Status
    BY <1>12, EntryType DEF DecreaseReputation, Update
  <2>2. r \in 0 .. MaxReputation
    BY <2>1, ScoreAssumption DEF AtLeast
  <2>3. s \in Status
    BY <2>1 DEF Status
  <2>4. Update(p, [peers[p] EXCEPT !.reputation = r, !.status = s])
    BY <1>12 DEF DecreaseReputation
  <2> HIDE DEF r, s
  <2>5. [peers[p] EXCEPT !.reputation = r, !.status = s] \in PeerInfo
    BY <2>1, <2>2, <2>3 DEF PeerInfo
  <2> QED BY <2>4, <2>5, UpdateType
<1>13. ASSUME Tick PROVE TypeOK'
  BY <1>13, BoundAssumption DEF Tick, TypeOK, Time
<1>14. ASSUME UNCHANGED vars PROVE TypeOK'
  BY <1>14 DEF vars, TypeOK
<1> QED
  BY <1>1, <1>2, <1>3, <1>4, <1>5, <1>6, <1>7, <1>8, <1>9, <1>10, <1>11, <1>12,
     <1>13, <1>14 DEF Next

\* The types: reputations stay between 0 and 100 whatever callers report, and a
\* count or a sweep never runs past the last shard.
THEOREM TypeCorrect == Spec => []TypeOK
<1>1. Init => TypeOK
  <2>1. 0 \in Time
    BY BoundAssumption DEF Time
  <2> QED BY <2>1, IdleTaskType DEF Init, TypeOK
<1> QED BY <1>1, TypeStep, PTL DEF Spec

\* A clock that a thread read is not ahead of the clock.
ReadBefore == \A t \in Thread : task[t].read <= now

LEMMA ReadBeforeStep == TypeOK /\ ReadBefore /\ [Next]_vars => ReadBefore'
<1> SUFFICES ASSUME TypeOK, ReadBefore, [Next]_vars, NEW t \in Thread
             PROVE  task'[t].read <= now'
  BY DEF ReadBefore
<1>1. now \in Nat /\ now' \in Nat /\ now <= now' /\ task[t].read \in Nat
  <2>1. now' \in Time
    BY TypeStep DEF TypeOK
  <2>2. now \in Time /\ task[t].read \in Time
    BY DEF TypeOK, Task
  <2>3. now' = now \/ now' = now + 1
    BY DEF Next, vars, AddPeer, CountShard, CheckKnown, InsertPeer, StartSweep, SweepShard,
           RemovePeer, Touch, BanPeer, UpdatePeerStatus, IncreaseReputation,
           DecreaseReputation, Update, Tick
  <2> QED BY <2>1, <2>2, <2>3, BoundAssumption DEF Time
<1>2. task[t].read <= now
  BY DEF ReadBefore
<1>3. task'[t].read \in {task[t].read, 0, now}
  <2>1. ASSUME NEW u \in Thread, NEW new, Become(u, new), new.read \in {task[u].read, 0, now}
        PROVE  task'[t].read \in {task[t].read, 0, now}
    BY <2>1 DEF Become, TypeOK
  <2>2. ASSUME NEW pc, NEW p, NEW n PROVE NewTask(pc, p, n).read = n
    BY DEF NewTask
  <2>3. IdleTask.read = 0
    BY <2>2 DEF IdleTask
  <2>4. ASSUME NEW u \in Thread, NEW n, NEW c, NEW pc
        PROVE  /\ [task[u] EXCEPT !.at = n].read = task[u].read
               /\ [task[u] EXCEPT !.at = n, !.count = c].read = task[u].read
               /\ [task[u] EXCEPT !.pc = pc].read = task[u].read
    BY DEF TypeOK, Task
  <2>5. ASSUME NEW u \in Thread, NEW p \in Peer, AddPeer(u, p)
        PROVE  task'[t].read \in {task[t].read, 0, now}
    BY <2>5, <2>1, <2>2 DEF AddPeer
  <2>6. ASSUME NEW u \in Thread, CountShard(u)
        PROVE  task'[t].read \in {task[t].read, 0, now}
    <3> DEFINE c == task[u].count + Cardinality(PeersIn(task[u].at))
    <3>1. \/ Become(u, [task[u] EXCEPT !.at = @ + 1, !.count = c])
          \/ Become(u, IdleTask)
          \/ Become(u, NewTask("contains", task[u].peer, 0))
      BY <2>6 DEF CountShard
    <3> HIDE DEF c
    <3>2. [task[u] EXCEPT !.at = @ + 1, !.count = c].read = task[u].read
      BY <2>4
    <3>3. CASE Become(u, [task[u] EXCEPT !.at = @ + 1, !.count = c])
      BY <3>2, <3>3, <2>1
    <3>4. CASE Become(u, IdleTask)
      BY <3>4, <2>1, <2>3
    <3>5. CASE Become(u, NewTask("contains", task[u].peer, 0))
      BY <3>5, <2>1, <2>2
    <3> QED BY <3>1, <3>3, <3>4, <3>5
  <2>7. ASSUME NEW u \in Thread, CheckKnown(u)
        PROVE  task'[t].read \in {task[t].read, 0, now}
    BY <2>7, <2>1, <2>3, <2>4 DEF CheckKnown
  <2>8. ASSUME NEW u \in Thread, InsertPeer(u)
        PROVE  task'[t].read \in {task[t].read, 0, now}
    BY <2>8, <2>1, <2>3 DEF InsertPeer
  <2>9. ASSUME NEW u \in Thread, StartSweep(u)
        PROVE  task'[t].read \in {task[t].read, 0, now}
    BY <2>9, <2>1, <2>2 DEF StartSweep
  <2>10. ASSUME NEW u \in Thread, SweepShard(u)
         PROVE  task'[t].read \in {task[t].read, 0, now}
    BY <2>10, <2>1, <2>3, <2>4 DEF SweepShard
  <2>11. ASSUME task' = task PROVE task'[t].read \in {task[t].read, 0, now}
    BY <2>11
  <2> QED
    BY <2>5, <2>6, <2>7, <2>8, <2>9, <2>10, <2>11
    DEF Next, vars, RemovePeer, Touch, BanPeer, UpdatePeerStatus, IncreaseReputation,
        DecreaseReputation, Update, Tick
<1> QED BY <1>1, <1>2, <1>3

\* One step of the sweep takes only peers that are silent by the clock now.
LEMMA SweepStep ==
    ASSUME TypeOK, ReadBefore, [Next]_vars, NEW p \in Peer, NEW t \in Thread,
           AtWork(t, "sweep"), task'[t] # task[t], peers[p] # None, peers'[p] = None
    PROVE  peers[p].status = "Connected" /\ now - peers[p].last_seen > Timeout
<1>1. SweepShard(t)
  <2>1. \A u \in Thread : u # t =>
           ~ ((\E q \in Peer : AddPeer(u, q)) \/ CountShard(u) \/ CheckKnown(u)
              \/ InsertPeer(u) \/ StartSweep(u) \/ SweepShard(u))
    BY DEF AddPeer, CountShard, CheckKnown, InsertPeer, StartSweep, SweepShard, Become, TypeOK
  <2>2. ~ ((\E q \in Peer : AddPeer(t, q)) \/ CountShard(t) \/ CheckKnown(t)
           \/ InsertPeer(t) \/ StartSweep(t))
    BY DEF AddPeer, CountShard, CheckKnown, InsertPeer, StartSweep, AtWork
  <2> QED
    BY <2>1, <2>2
    DEF Next, vars, RemovePeer, Touch, BanPeer, UpdatePeerStatus, IncreaseReputation,
        DecreaseReputation, Update, Tick
<1>2. Silent(p, task[t].read)
  BY <1>1 DEF SweepShard, TypeOK
<1>3. task[t].read <= now
  BY DEF ReadBefore
<1>4. /\ task[t].read \in Int /\ now \in Int /\ peers[p].last_seen \in Int
      /\ Timeout \in Nat
  BY EntryType, BoundAssumption DEF TypeOK, Task, Time
<1>5. peers[p].status = "Connected" /\ task[t].read - peers[p].last_seen > Timeout
  BY <1>2, <1>4 DEF Silent, AtLeast
<1> QED BY <1>3, <1>4, <1>5

\* remove_timed_out_peers reads its clock once and then goes from shard to
\* shard while peers are seen again: whatever it takes is connected, and silent
\* for longer than the timeout at the moment it is taken.
THEOREM SweepIsSound == Spec => SweepsOnlySilent
<1>1. Init => TypeOK /\ ReadBefore
  <2>1. 0 \in Time
    BY BoundAssumption DEF Time
  <2>2. Init => TypeOK
    BY <2>1, IdleTaskType DEF Init, TypeOK
  <2>3. Init => ReadBefore
    BY DEF Init, ReadBefore, IdleTask, NewTask
  <2> QED BY <2>2, <2>3
<1>2. TypeOK /\ ReadBefore /\ [Next]_vars => (TypeOK /\ ReadBefore)'
  BY TypeStep, ReadBeforeStep
<1>3. TypeOK /\ ReadBefore /\ [Next]_vars =>
         [\A p \in Peer, t \in Thread :
             AtWork(t, "sweep") /\ task'[t] # task[t] /\ peers[p] # None /\ peers'[p] = None =>
                peers[p].status = "Connected" /\ now - peers[p].last_seen > Timeout]_vars
  BY SweepStep
<1> QED BY <1>1, <1>2, <1>3, PTL DEF Spec, SweepsOnlySilent

-----------------------------------------------------------------------------
(***************************************************************************)
(* The bound on the table.  A thread that is admitted counted fewer than   *)
(* MaxPeers peers, but only of those that were there when it began and     *)
(* stayed: what came meanwhile it may have missed.  What has to be known   *)
(* of the past is when each thread began, and when and by whom each peer   *)
(* came.  No variable of the manager says so, hence the invariant states   *)
(* that there is a history h that fits the state.                          *)
(***************************************************************************)
History == [clock : Nat, latest : Nat, start : [Thread -> Nat],
            came : [Peer -> Nat], by : [Peer -> Thread]]

Adding(t) == task[t].pc \in {"len", "contains", "insert"}
Admitted(t) == task[t].pc \in {"contains", "insert"}

\* The peers that are there and came no later than n.
Before(h, n) == {p \in Present : h.came[p] <= n}

\* Those of them that a thread that is counting has come past.
Passed(h, t) == {p \in Before(h, h.start[t]) : ShardOf[p] < task[t].at}

Past(h) ==
    /\ h.latest <= h.clock
    /\ \A t \in Thread : h.start[t] <= h.clock
    /\ \A p \in Peer : h.came[p] <= h.clock

\* latest is when the latest of the admitted threads began, the ones that have
\* inserted since included: before it there was room, and after it every thread
\* has inserted at most once.
Remembers(h) ==
    /\ Past(h)
    /\ \A p \in Present : Adding(h.by[p]) => h.came[p] <= h.start[h.by[p]]
    /\ \A t \in Thread : AtWork(t, "len") => Cardinality(Passed(h, t)) <= task[t].count
    /\ \A t \in Thread : Admitted(t) => h.start[t] <= h.latest
    /\ \A p, q \in Present :
          h.came[p] > h.latest /\ h.came[q] > h.latest /\ h.by[p] = h.by[q] => p = q
    /\ \/ Cardinality(Before(h, h.latest)) < MaxPeers
       \/ Present = {} /\ \A t \in Thread : ~ Admitted(t)

\* Sets of peers are finite, and a smaller one has no more peers.
LEMMA PeersFinite ==
    ASSUME NEW S, S \subseteq Peer
    PROVE  /\ IsFiniteSet(S) /\ Cardinality(S) \in Nat
           /\ \A R \in SUBSET S : Cardinality(R) \in Nat /\ Cardinality(R) <= Cardinality(S)
<1>1. IsFiniteSet(S)
  BY FiniteAssumption, FS_Subset
<1>2. ASSUME NEW R \in SUBSET S
      PROVE  Cardinality(R) \in Nat /\ Cardinality(R) <= Cardinality(S)
  BY <1>1, <1>2, FS_Subset, FS_CardinalityType
<1> QED BY <1>1, <1>2, FS_CardinalityType

\* The fields of a history.
LEMMA HistoryFields ==
    ASSUME NEW h \in History
    PROVE  /\ h.clock \in Nat /\ h.latest \in Nat
           /\ \A t \in Thread : h.start[t] \in Nat
           /\ \A p \in Peer : h.came[p] \in Nat /\ h.by[p] \in Thread
BY DEF History

\* A step in which peers only leave, and nobody begins to add, counts or is
\* admitted, needs no new memory.
LEMMA FewerRemembered ==
    ASSUME TypeOK, NEW h \in History, Remembers(h), Present' \subseteq Present,
           \A t \in Thread : /\ AtWork(t, "len")' => task'[t] = task[t]
                             /\ Admitted(t)' => Admitted(t)
    PROVE  Remembers(h)'
<1>1. \A n : Before(h, n)' \subseteq Before(h, n)
  BY DEF Before
<1>2. \A n : Before(h, n) \subseteq Peer
  BY DEF Before, Present
<1>3. \A p \in Present' : Adding(h.by[p])' => h.came[p] <= h.start[h.by[p]]
  <2>1. \A t \in Thread : Adding(t)' => Adding(t)
    BY DEF Adding, Admitted, AtWork
  <2>2. \A p \in Present : h.by[p] \in Thread
    BY HistoryFields DEF Present
  <2> QED BY <2>1, <2>2 DEF Remembers
<1>4. ASSUME NEW t \in Thread, AtWork(t, "len")'
      PROVE  Cardinality(Passed(h, t)') <= task'[t].count
  <2>1. AtWork(t, "len") /\ task'[t] = task[t]
    BY <1>4 DEF AtWork
  <2>2. Passed(h, t)' \subseteq Passed(h, t) /\ Passed(h, t) \subseteq Peer
    BY <1>1, <1>2, <2>1 DEF Passed
  <2>3. Cardinality(Passed(h, t)') <= Cardinality(Passed(h, t))
        /\ Cardinality(Passed(h, t)') \in Nat /\ Cardinality(Passed(h, t)) \in Nat
    BY <2>2, PeersFinite
  <2>4. Cardinality(Passed(h, t)) <= task[t].count /\ task[t].count \in Nat
    BY <2>1 DEF Remembers, TypeOK, Task
  <2> QED BY <2>1, <2>3, <2>4
<1>5. \/ Cardinality(Before(h, h.latest)') < MaxPeers
      \/ Present' = {} /\ \A t \in Thread : ~ Admitted(t)'
  <2>1. Cardinality(Before(h, h.latest)') <= Cardinality(Before(h, h.latest))
        /\ Cardinality(Before(h, h.latest)') \in Nat /\ Cardinality(Before(h, h.latest)) \in Nat
    BY <1>1, <1>2, PeersFinite
  <2> QED BY <2>1, BoundAssumption DEF Remembers
<1>6. Past(h)'
  BY DEF Remembers, Past
<1> QED BY <1>3, <1>4, <1>5, <1>6 DEF Remembers

\* A thread that begins to count has missed nobody yet.
LEMMA BeginRemembered ==
    ASSUME TypeOK, NEW h \in History, Remembers(h), NEW t \in Thread, NEW p \in Peer,
           AddPeer(t, p)
    PROVE  \E g \in History : Remembers(g)'
<1> DEFINE g == [h EXCEPT !.start = [h.start EXCEPT ![t] = h.clock]]
<1>1. /\ g \in History
      /\ g.clock = h.clock /\ g.latest = h.latest /\ g.came = h.came /\ g.by = h.by
      /\ \A u \in Thread : g.start[u] = IF u = t THEN h.clock ELSE h.start[u]
  BY DEF History
<1> HIDE DEF g
<1>2. /\ Present' = Present
      /\ task'[t].pc = "len" /\ task'[t].at = 1 /\ task'[t].count = 0
      /\ \A u \in Thread \ {t} : task'[u] = task[u]
  BY DEF AddPeer, Become, NewTask, Present, TypeOK
<1>3. \A n : Before(g, n)' = Before(h, n)
  BY <1>1, <1>2 DEF Before
<1>4. Past(g)'
  BY <1>1, HistoryFields DEF Remembers, Past
<1>5. ASSUME NEW q \in Present', Adding(g.by[q])'
      PROVE  g.came[q] <= g.start[g.by[q]]
  <2>1. q \in Present /\ q \in Peer /\ h.by[q] \in Thread
    BY <1>2, HistoryFields DEF Present
  <2>2. CASE h.by[q] = t
    BY <1>1, <2>1, <2>2 DEF Remembers, Past
  <2>3. CASE h.by[q] # t
    BY <1>1, <1>2, <1>5, <2>1, <2>3 DEF Remembers, Adding
  <2> QED BY <2>2, <2>3
<1>6. ASSUME NEW u \in Thread, AtWork(u, "len")'
      PROVE  Cardinality(Passed(g, u)') <= task'[u].count
  <2>1. CASE u = t
    <3>1. Passed(g, u)' = {}
      <4>1. \A q \in Peer : ~ (ShardOf[q] < 1)
        BY ShardAssumption
      <4> QED BY <1>2, <2>1, <4>1 DEF Passed, Before, Present
    <3> QED BY <1>2, <2>1, <3>1, FS_EmptySet
  <2>2. CASE u # t
    <3>1. Passed(g, u)' = Passed(h, u)
      BY <1>1, <1>2, <1>3, <2>2 DEF Passed
    <3> QED BY <1>2, <1>6, <2>2, <3>1 DEF Remembers, AtWork
  <2> QED BY <2>1, <2>2
<1>7. \A u \in Thread : Admitted(u)' => u # t /\ Admitted(u)
  BY <1>2 DEF Admitted
<1>8. \A u \in Thread : Admitted(u)' => g.start[u] <= g.latest
  BY <1>1, <1>7 DEF Remembers
<1>9. \A q, r \in Present' :
         g.came[q] > g.latest /\ g.came[r] > g.latest /\ g.by[q] = g.by[r] => q = r
  BY <1>1, <1>2 DEF Remembers
<1>10. \/ Cardinality(Before(g, g.latest)') < MaxPeers
       \/ Present' = {} /\ \A u \in Thread : ~ Admitted(u)'
  BY <1>1, <1>2, <1>3, <1>7 DEF Remembers
<1>11. Remembers(g)'
  BY <1>4, <1>5, <1>6, <1>8, <1>9, <1>10 DEF Remembers
<1> QED BY <1>1, <1>11

\* What a thread has counted covers the shards it has come to, the next one
\* included.
LEMMA CountCovers ==
    ASSUME TypeOK, NEW h \in History, Remembers(h), NEW t \in Thread, AtWork(t, "len")
    PROVE  Cardinality({p \in Before(h, h.start[t]) : ShardOf[p] <= task[t].at})
             <= task[t].count + Cardinality(PeersIn(task[t].at))
<1> DEFINE here == PeersIn(task[t].at)
           both == Passed(h, t) \cup here
           S == {p \in Before(h, h.start[t]) : ShardOf[p] <= task[t].at}
<1>1. Passed(h, t) \subseteq Peer /\ here \subseteq Peer /\ both \subseteq Peer
  BY DEF Passed, Before, PeersIn, Present
<1>2. S \subseteq both
  <2>1. \A p \in Peer : ShardOf[p] \in Int
    BY ShardAssumption
  <2>2. task[t].at \in Int
    BY DEF TypeOK, Task
  <2>3. \A p \in Peer : ShardOf[p] <= task[t].at
                          => ShardOf[p] < task[t].at \/ ShardOf[p] = task[t].at
    BY <2>1, <2>2
  <2> QED BY <2>3 DEF Passed, Before, PeersIn, Present
<1>3. Cardinality(both)
        = Cardinality(Passed(h, t)) + Cardinality(here) - Cardinality(Passed(h, t) \cap here)
  BY <1>1, PeersFinite, FS_Union
<1>4. /\ Cardinality(Passed(h, t)) \in Nat /\ Cardinality(here) \in Nat
      /\ Cardinality(Passed(h, t) \cap here) \in Nat
      /\ Cardinality(S) \in Nat /\ Cardinality(S) <= Cardinality(both)
  BY <1>1, <1>2, PeersFinite
<1>5. Cardinality(Passed(h, t)) <= task[t].count /\ task[t].count \in Nat
  BY DEF Remembers, TypeOK, Task
<1> HIDE DEF here, both, S
<1>6. Cardinality(S) <= task[t].count + Cardinality(here)
  BY <1>3, <1>4, <1>5
<1> QED BY <1>6 DEF S, here

\* A thread that goes on to the next shard keeps its count true.
LEMMA CountOnRemembered ==
    ASSUME TypeOK, NEW h \in History, Remembers(h), NEW t \in Thread, NEW count,
           AtWork(t, "len"), task[t].at < Shards, UNCHANGED peers,
           count = task[t].count + Cardinality(PeersIn(task[t].at)),
           Become(t, [task[t] EXCEPT !.at = @ + 1, !.count = count])
    PROVE  Remembers(h)'
<1>1. /\ Present' = Present
      /\ task'[t].pc = "len" /\ task'[t].at = task[t].at + 1 /\ task'[t].count = count
      /\ \A u \in Thread \ {t} : task'[u] = task[u]
  BY DEF Become, Present, TypeOK, Task, AtWork
<1>2. \A n : Before(h, n)' = Before(h, n)
  BY <1>1 DEF Before
<1>3. ASSUME NEW u \in Thread, AtWork(u, "len")'
      PROVE  Cardinality(Passed(h, u)') <= task'[u].count
  <2>1. CASE u = t
    <3>1. \A p \in Peer : ShardOf[p] < task[t].at + 1 <=> ShardOf[p] <= task[t].at
      BY ShardAssumption DEF TypeOK, Task
    <3>2. Passed(h, t)' = {p \in Before(h, h.start[t]) : ShardOf[p] <= task[t].at}
      BY <1>1, <1>2, <3>1 DEF Passed, Before, Present
    <3> QED BY <1>1, <2>1, <3>2, CountCovers
  <2>2. CASE u # t
    <3>1. Passed(h, u)' = Passed(h, u)
      BY <1>1, <1>2, <2>2 DEF Passed
    <3> QED BY <1>1, <1>3, <2>2, <3>1 DEF Remembers, AtWork
  <2> QED BY <2>1, <2>2
<1>4. \A u \in Thread : /\ Adding(u)' => Adding(u)
                        /\ Admitted(u)' => Admitted(u)
  BY <1>1 DEF Adding, Admitted, AtWork
<1>5. \A p \in Present' : Adding(h.by[p])' => h.came[p] <= h.start[h.by[p]]
  BY <1>1, <1>4, HistoryFields DEF Remembers, Present
<1>6. Past(h)'
  BY DEF Remembers, Past
<1>7. \/ Cardinality(Before(h, h.latest)') < MaxPeers
      \/ Present' = {} /\ \A u \in Thread : ~ Admitted(u)'
  BY <1>1, <1>2, <1>4 DEF Remembers
<1> QED BY <1>1, <1>3, <1>4, <1>5, <1>6, <1>7 DEF Remembers

\* A thread that is admitted has counted all that were there when it began and
\* have stayed: there was room then.  It is the latest, if none began after it.
LEMMA AdmitRemembered ==
    ASSUME TypeOK, NEW h \in History, Remembers(h), NEW t \in Thread, NEW count,
           AtWork(t, "len"), ~ (task[t].at < Shards), UNCHANGED peers,
           count = task[t].count + Cardinality(PeersIn(task[t].at)), ~ (count >= MaxPeers),
           Become(t, NewTask("contains", task[t].peer, 0))
    PROVE  \E g \in History : Remembers(g)'
<1> DEFINE latest == AtLeast(h.start[t], h.latest)
           g == [h EXCEPT !.latest = latest]
<1>0. h.start[t] \in Nat /\ h.latest \in Nat /\ h.clock \in Nat
  BY HistoryFields
<1>1. /\ latest \in Nat /\ h.start[t] <= latest /\ h.latest <= latest /\ latest <= h.clock
      /\ latest \in {h.start[t], h.latest}
  BY <1>0 DEF AtLeast, Remembers, Past
<1> HIDE DEF latest
<1>2. /\ g \in History
      /\ g.clock = h.clock /\ g.latest = latest /\ g.came = h.came /\ g.by = h.by
      /\ g.start = h.start
  BY <1>1 DEF History
<1> HIDE DEF g
<1>3. /\ Present' = Present
      /\ task'[t].pc = "contains"
      /\ \A u \in Thread \ {t} : task'[u] = task[u]
  BY DEF Become, NewTask, Present, TypeOK
<1>4. \A n : Before(g, n)' = Before(h, n) /\ Before(h, n) \subseteq Peer
  BY <1>2, <1>3 DEF Before, Present
<1>5. Cardinality(Before(h, h.start[t])) < MaxPeers
  <2>1. \A p \in Peer : ShardOf[p] <= task[t].at
    BY ShardAssumption DEF TypeOK, Task
  <2>2. Before(h, h.start[t]) = {p \in Before(h, h.start[t]) : ShardOf[p] <= task[t].at}
    BY <2>1 DEF Before, Present
  <2>3. Cardinality(Before(h, h.start[t])) <= count
    BY <2>2, CountCovers
  <2>4. Cardinality(Before(h, h.start[t])) \in Nat /\ count \in Nat
    BY <1>4, PeersFinite, ShardCounted DEF TypeOK, Task
  <2> QED BY <2>3, <2>4, BoundAssumption
<1>6. Cardinality(Before(h, latest)) < MaxPeers
  <2>1. CASE latest = h.start[t]
    BY <1>5, <2>1
  <2>2. CASE latest = h.latest /\ Cardinality(Before(h, h.latest)) < MaxPeers
    BY <2>2
  <2>3. CASE latest = h.latest /\ Present = {}
    <3>1. Before(h, latest) = Before(h, h.start[t])
      BY <2>3 DEF Before
    <3> QED BY <1>5, <3>1
  <2> QED BY <1>1, <2>1, <2>2, <2>3 DEF Remembers
<1>7. Past(g)'
  BY <1>1, <1>2 DEF Remembers, Past
<1>8. \A u \in Thread : Adding(u)' => Adding(u)
  BY <1>3 DEF Adding, AtWork
<1>9. \A p \in Present' : Adding(g.by[p])' => g.came[p] <= g.start[g.by[p]]
  BY <1>2, <1>3, <1>8, HistoryFields DEF Remembers, Present
<1>10. ASSUME NEW u \in Thread, AtWork(u, "len")'
       PROVE  Cardinality(Passed(g, u)') <= task'[u].count
  <2>1. u # t /\ task'[u] = task[u] /\ AtWork(u, "len")
    BY <1>3, <1>10 DEF AtWork
  <2>2. Passed(g, u)' = Passed(h, u)
    BY <1>2, <1>4, <2>1 DEF Passed
  <2> QED BY <2>1, <2>2 DEF Remembers
<1>11. ASSUME NEW u \in Thread, Admitted(u)' PROVE g.start[u] <= g.latest
  <2>1. CASE u = t
    BY <1>1, <1>2, <2>1
  <2>2. CASE u # t
    <3>1. h.start[u] <= h.latest
      BY <1>3, <1>11, <2>2 DEF Remembers, Admitted
    <3> QED BY <1>0, <1>1, <1>2, <3>1, HistoryFields
  <2> QED BY <2>1, <2>2
<1>12. ASSUME NEW p \in Present', NEW q \in Present',
              g.came[p] > g.latest, g.came[q] > g.latest, g.by[p] = g.by[q]
       PROVE  p = q
  <2>1. p \in Present /\ q \in Present /\ h.came[p] \in Nat /\ h.came[q] \in Nat
    BY <1>3, HistoryFields DEF Present
  <2>2. h.came[p] > h.latest /\ h.came[q] > h.latest
    BY <1>0, <1>1, <1>2, <1>12, <2>1
  <2> QED BY <1>2, <1>12, <2>1, <2>2 DEF Remembers
<1>13. Remembers(g)'
  BY <1>2, <1>4, <1>6, <1>7, <1>9, <1>10, <1>11, <1>12 DEF Remembers
<1> QED BY <1>2, <1>13

\* A peer that is inserted is the first that its thread has inserted since the
\* latest began: the thread itself had begun before.
LEMMA InsertRemembered ==
    ASSUME TypeOK, NEW h \in History, Remembers(h), NEW t \in Thread, InsertPeer(t),
           NEW p \in Peer, p = task[t].peer
    PROVE  \E g \in History : Remembers(g)'
<1> DEFINE g == [h EXCEPT !.clock = h.clock + 1,
                          !.came = [h.came EXCEPT ![p] = h.clock + 1],
                          !.by = [h.by EXCEPT ![p] = t]]
<1>0. /\ h.clock \in Nat /\ h.latest \in Nat
      /\ \A u \in Thread : h.start[u] \in Nat
      /\ \A q \in Peer : h.came[q] \in Nat
  BY HistoryFields
<1>1. /\ g \in History
      /\ g.clock = h.clock + 1 /\ g.latest = h.latest /\ g.start = h.start
      /\ \A q \in Peer : /\ g.came[q] = IF q = p THEN h.clock + 1 ELSE h.came[q]
                         /\ g.by[q] = IF q = p THEN t ELSE h.by[q]
  <2>1. h.came \in [Peer -> Nat] /\ h.by \in [Peer -> Thread] /\ h.clock + 1 \in Nat
    BY <1>0 DEF History
  <2>2. /\ [h.came EXCEPT ![p] = h.clock + 1] \in [Peer -> Nat]
        /\ [h.by EXCEPT ![p] = t] \in [Peer -> Thread]
    BY <2>1
  <2>3. g \in History /\ g.clock = h.clock + 1 /\ g.latest = h.latest /\ g.start = h.start
    BY <2>1, <2>2 DEF History
  <2>4. g.came = [h.came EXCEPT ![p] = h.clock + 1] /\ g.by = [h.by EXCEPT ![p] = t]
    BY DEF History
  <2> HIDE DEF g
  <2> QED BY <2>1, <2>3, <2>4
<1> HIDE DEF g
<1>2. /\ Present' = Present \cup {p}
      /\ task'[t].pc = "idle"
      /\ \A u \in Thread \ {t} : task'[u] = task[u]
      /\ AtWork(t, "insert")
  <2>1. NewPeer # None
    <3>1. "Connecting" \in Status /\ Neutral \in 0 .. MaxReputation /\ now \in Time
      BY ScoreAssumption DEF Status, TypeOK
    <3>2. NewPeer \in PeerInfo
      BY <3>1, PeerInfoType DEF NewPeer
    <3> QED BY <3>2, NoneAssumption
  <2>2. \A q \in Peer : peers'[q] = IF q = p THEN NewPeer ELSE peers[q]
    BY DEF InsertPeer, TypeOK
  <2>3. Present' = Present \cup {p}
    BY <2>1, <2>2 DEF Present
  <2> QED BY <2>3 DEF InsertPeer, Become, IdleTask, NewTask, TypeOK
<1>3. \A n : n <= h.clock /\ n \in Nat => Before(g, n)' = Before(h, n) \ {p}
  BY <1>0, <1>1, <1>2 DEF Before, Present
<1>4. \A n : Before(h, n) \subseteq Peer
  BY DEF Before, Present
<1>5. Past(g)'
  <2>1. h.latest <= h.clock + 1
    BY <1>0 DEF Remembers, Past
  <2>2. \A u \in Thread : h.start[u] <= h.clock + 1
    BY <1>0 DEF Remembers, Past
  <2>3. \A q \in Peer : g.came[q] <= h.clock + 1
    BY <1>0, <1>1 DEF Remembers, Past
  <2> QED BY <1>1, <2>1, <2>2, <2>3 DEF Past
<1>6. ASSUME NEW q \in Present', Adding(g.by[q])' PROVE g.came[q] <= g.start[g.by[q]]
  <2>1. g.by[q] # t
    BY <1>2, <1>6 DEF Adding
  <2>2. q # p /\ q \in Present /\ q \in Peer
    BY <1>1, <1>2, <2>1 DEF Present
  <2>3. g.by[q] = h.by[q] /\ g.came[q] = h.came[q] /\ h.by[q] \in Thread
    BY <1>1, <2>2, HistoryFields
  <2>4. Adding(h.by[q])
    BY <1>2, <1>6, <2>1, <2>3 DEF Adding
  <2> QED BY <1>1, <2>2, <2>3, <2>4 DEF Remembers
<1>7. ASSUME NEW u \in Thread, AtWork(u, "len")'
      PROVE  Cardinality(Passed(g, u)') <= task'[u].count
  <2>1. u # t /\ task'[u] = task[u] /\ AtWork(u, "len")
    BY <1>2, <1>7 DEF AtWork
  <2>2. h.start[u] <= h.clock /\ h.start[u] \in Nat
    BY <1>0 DEF Remembers, Past
  <2>3. Passed(g, u)' \subseteq Passed(h, u) /\ Passed(h, u) \subseteq Peer
    BY <1>1, <1>3, <1>4, <2>1, <2>2 DEF Passed
  <2>4. /\ Cardinality(Passed(g, u)') <= Cardinality(Passed(h, u))
        /\ Cardinality(Passed(g, u)') \in Nat /\ Cardinality(Passed(h, u)) \in Nat
    BY <2>3, PeersFinite
  <2>5. Cardinality(Passed(h, u)) <= task[u].count /\ task[u].count \in Nat
    BY <2>1 DEF Remembers, TypeOK, Task
  <2> QED BY <2>1, <2>4, <2>5
<1>8. \A u \in Thread : Admitted(u)' => g.start[u] <= g.latest
  BY <1>1, <1>2 DEF Remembers, Admitted
<1>9. \A q \in Present \ {p} : h.by[q] = t => ~ (h.came[q] > h.latest)
  <2> SUFFICES ASSUME NEW q \in Present \ {p}, h.by[q] = t
               PROVE  ~ (h.came[q] > h.latest)
    OBVIOUS
  <2>1. h.came[q] <= h.start[t] /\ h.start[t] <= h.latest
    BY <1>2 DEF Remembers, Adding, Admitted, AtWork
  <2> QED BY <1>0, <2>1 DEF Present
<1>10. ASSUME NEW q \in Present', NEW r \in Present',
              g.came[q] > g.latest, g.came[r] > g.latest, g.by[q] = g.by[r]
       PROVE  q = r
  <2>0. q \in Peer /\ r \in Peer /\ q \in Present \cup {p} /\ r \in Present \cup {p}
    BY <1>2 DEF Present
  <2>1. CASE q = p /\ r # p
    BY <1>1, <1>9, <1>10, <2>0, <2>1
  <2>2. CASE r = p /\ q # p
    BY <1>1, <1>9, <1>10, <2>0, <2>2
  <2>3. CASE q # p /\ r # p
    BY <1>1, <1>10, <2>0, <2>3 DEF Remembers
  <2> QED BY <2>1, <2>2, <2>3
<1>11. Cardinality(Before(g, g.latest)') < MaxPeers
  <2>1. Cardinality(Before(h, h.latest)) < MaxPeers
    BY <1>2 DEF Remembers, Admitted, AtWork
  <2>2. Before(g, g.latest)' \subseteq Before(h, h.latest)
    BY <1>0, <1>1, <1>3 DEF Remembers, Past
  <2>3. /\ Cardinality(Before(g, g.latest)') <= Cardinality(Before(h, h.latest))
        /\ Cardinality(Before(g, g.latest)') \in Nat /\ Cardinality(Before(h, h.latest)) \in Nat
    BY <1>4, <2>2, PeersFinite
  <2> QED BY <2>1, <2>3, BoundAssumption
<1>12. Remembers(g)'
  BY <1>5, <1>6, <1>7, <1>8, <1>10, <1>11 DEF Remembers
<1> QED BY <1>1, <1>12

\* There is always a history that fits.
Remembered == \E h \in History : Remembers(h)

\* A thread that adds a peer has one to add.
AddsPeer == \A t \in Thread : Adding(t) => task[t].peer \in Peer

LEMMA AddsPeerStep == TypeOK /\ AddsPeer /\ [Next]_vars => AddsPeer'
<1> SUFFICES ASSUME TypeOK, AddsPeer, [Next]_vars PROVE AddsPeer'
  OBVIOUS
<1>1. ASSUME NEW t \in Thread, NEW new, Become(t, new),
             new.pc \in {"len", "contains", "insert"} => new.peer \in Peer
      PROVE  AddsPeer'
  BY <1>1 DEF AddsPeer, Adding, Become, TypeOK
<1>2. ASSUME NEW pc, NEW p, NEW read
      PROVE  NewTask(pc, p, read).pc = pc /\ NewTask(pc, p, read).peer = p
  BY DEF NewTask
<1>3. IdleTask.pc = "idle"
  BY DEF IdleTask, NewTask
<1>4. ASSUME NEW t \in Thread, NEW p \in Peer, AddPeer(t, p) PROVE AddsPeer'
  BY <1>1, <1>2, <1>4 DEF AddPeer
<1>5. ASSUME NEW t \in Thread, CountShard(t) PROVE AddsPeer'
  <2> DEFINE c == task[t].count + Cardinality(PeersIn(task[t].at))
             new == [task[t] EXCEPT !.at = @ + 1, !.count = c]
  <2>1. task[t].peer \in Peer
    BY <1>5 DEF CountShard, AddsPeer, Adding, AtWork
  <2>2. new.peer = task[t].peer
    BY DEF TypeOK, Task
  <2>3. \/ Become(t, new) \/ Become(t, IdleTask)
        \/ Become(t, NewTask("contains", task[t].peer, 0))
    BY <1>5 DEF CountShard
  <2> HIDE DEF new
  <2> QED BY <1>1, <1>2, <1>3, <2>1, <2>2, <2>3
<1>6. ASSUME NEW t \in Thread, CheckKnown(t) PROVE AddsPeer'
  <2> DEFINE new == [task[t] EXCEPT !.pc = "insert"]
  <2>1. task[t].peer \in Peer
    BY <1>6 DEF CheckKnown, AddsPeer, Adding, AtWork
  <2>2. new.peer = task[t].peer
    BY DEF TypeOK, Task
  <2>3. Become(t, new) \/ Become(t, IdleTask)
    BY <1>6 DEF CheckKnown
  <2> HIDE DEF new
  <2> QED BY <1>1, <1>3, <2>1, <2>2, <2>3
<1>7. ASSUME NEW t \in Thread, InsertPeer(t) \/ StartSweep(t) PROVE AddsPeer'
  BY <1>1, <1>2, <1>3, <1>7 DEF InsertPeer, StartSweep
<1>8. ASSUME NEW t \in Thread, SweepShard(t) PROVE AddsPeer'
  <2> DEFINE new == [task[t] EXCEPT !.at = @ + 1]
  <2>1. new.pc = "sweep"
    BY <1>8 DEF SweepShard, AtWork, TypeOK, Task
  <2>2. Become(t, new) \/ Become(t, IdleTask)
    BY <1>8 DEF SweepShard
  <2> HIDE DEF new
  <2> QED BY <1>1, <1>3, <2>1, <2>2
<1>9. ASSUME task' = task PROVE AddsPeer'
  BY <1>9 DEF AddsPeer, Adding
<1> QED
  BY <1>4, <1>5, <1>6, <1>7, <1>8, <1>9
  DEF Next, vars, RemovePeer, Touch, BanPeer, UpdatePeerStatus, IncreaseReputation,
      DecreaseReputation, Update, Tick

\* Every step leaves a history that fits.
LEMMA RememberedStep == TypeOK /\ AddsPeer /\ Remembered /\ [Next]_vars => Remembered'
<1> SUFFICES ASSUME TypeOK, AddsPeer, NEW h \in History, Remembers(h), [Next]_vars
             PROVE  \E g \in History : Remembers(g)'
  BY DEF Remembered
<1>f. ASSUME Present' \subseteq Present,
             \A t \in Thread : /\ AtWork(t, "len")' => task'[t] = task[t]
                               /\ Admitted(t)' => Admitted(t)
      PROVE  \E g \in History : Remembers(g)'
  BY <1>f, FewerRemembered
<1>1. ASSUME NEW t \in Thread, NEW p \in Peer, AddPeer(t, p)
      PROVE  \E g \in History : Remembers(g)'
  BY <1>1, BeginRemembered
<1>2. ASSUME NEW t \in Thread, CountShard(t) PROVE \E g \in History : Remembers(g)'
  <2>0. PICK count : count = task[t].count + Cardinality(PeersIn(task[t].at))
    OBVIOUS
  <2>1. /\ AtWork(t, "len") /\ UNCHANGED peers
        /\ Become(t, IF task[t].at < Shards
                     THEN [task[t] EXCEPT !.at = @ + 1, !.count = count]
                     ELSE IF count >= MaxPeers THEN IdleTask
                     ELSE NewTask("contains", task[t].peer, 0))
    BY <1>2, <2>0 DEF CountShard
  <2>2. CASE task[t].at < Shards
    BY <2>0, <2>1, <2>2, CountOnRemembered
  <2>3. CASE ~ (task[t].at < Shards) /\ count >= MaxPeers
    <3>1. Become(t, IdleTask)
      BY <2>1, <2>3
    <3>2. \A u \in Thread : task'[u] = IF u = t THEN IdleTask ELSE task[u]
      BY <3>1 DEF Become, TypeOK
    <3> QED BY <1>f, <2>1, <3>2 DEF Present, AtWork, Admitted, IdleTask, NewTask
  <2>4. CASE ~ (task[t].at < Shards) /\ ~ (count >= MaxPeers)
    BY <2>0, <2>1, <2>4, AdmitRemembered
  <2> QED BY <2>2, <2>3, <2>4
<1>3. ASSUME NEW t \in Thread, CheckKnown(t) PROVE \E g \in History : Remembers(g)'
  <2>1. /\ AtWork(t, "contains") /\ UNCHANGED peers
        /\ task'[t] = IdleTask \/ task'[t] = [task[t] EXCEPT !.pc = "insert"]
        /\ \A u \in Thread \ {t} : task'[u] = task[u]
    BY <1>3 DEF CheckKnown, Become, TypeOK
  <2>2. task'[t].pc \in {"idle", "insert"}
    BY <2>1 DEF IdleTask, NewTask, TypeOK, Task
  <2> QED BY <1>f, <2>1, <2>2 DEF Present, AtWork, Admitted
<1>4. ASSUME NEW t \in Thread, InsertPeer(t) PROVE \E g \in History : Remembers(g)'
  <2>1. task[t].peer \in Peer
    BY <1>4 DEF AddsPeer, Adding, InsertPeer, AtWork
  <2> QED BY <1>4, <2>1, InsertRemembered
<1>5. ASSUME NEW t \in Thread, StartSweep(t) \/ SweepShard(t)
      PROVE  \E g \in History : Remembers(g)'
  <2>1. Present' \subseteq Present
    BY <1>5 DEF StartSweep, SweepShard, Present
  <2>2. task'[t].pc \in {"idle", "sweep"} /\ \A u \in Thread \ {t} : task'[u] = task[u]
    BY <1>5 DEF StartSweep, SweepShard, Become, AtWork, IdleTask, NewTask, TypeOK, Task
  <2> QED BY <1>f, <2>1, <2>2 DEF AtWork, Admitted
<1>6. ASSUME Present' \subseteq Present, task' = task PROVE \E g \in History : Remembers(g)'
  BY <1>6, <1>f DEF Admitted, AtWork
<1>7. ASSUME NEW p \in Peer, RemovePeer(p) PROVE \E g \in History : Remembers(g)'
  <2>1. Present' \subseteq Present
    BY <1>7 DEF RemovePeer, Present, TypeOK
  <2> QED BY <1>6, <1>7, <2>1 DEF RemovePeer
<1>8. ASSUME NEW p \in Peer, NEW info, Update(p, info)
      PROVE  \E g \in History : Remembers(g)'
  <2>1. Present' \subseteq Present
    BY <1>8 DEF Update, Present, TypeOK
  <2> QED BY <1>6, <1>8, <2>1 DEF Update
<1>9. ASSUME Tick \/ UNCHANGED vars PROVE \E g \in History : Remembers(g)'
  BY <1>6, <1>9 DEF Tick, vars, Present
<1> QED
  BY <1>1, <1>2, <1>3, <1>4, <1>5, <1>7, <1>8, <1>9
  DEF Next, Touch, BanPeer, UpdatePeerStatus, IncreaseReputation, DecreaseReputation

\* The past of an empty table.
LEMMA RememberedInit == Init => Remembered
<1> SUFFICES ASSUME Init PROVE Remembered
  OBVIOUS
<1>1. PICK t \in Thread : TRUE
  BY FiniteAssumption
<1> DEFINE h == [clock |-> 0, latest |-> 0, start |-> [u \in Thread |-> 0],
                 came |-> [p \in Peer |-> 0], by |-> [p \in Peer |-> t]]
<1>2. h \in History /\ Past(h)
  BY DEF History, Past
<1>3. Present = {} /\ \A u \in Thread : task[u].pc = "idle"
  BY DEF Init, Present, IdleTask, NewTask
<1> HIDE DEF h
<1>4. Remembers(h)
  BY <1>2, <1>3 DEF Remembers, Adding, Admitted, AtWork
<1> QED BY <1>2, <1>4 DEF Remembered

\* What came after the latest began was inserted by as many threads.
LEMMA RememberedBound == Remembered => OvershootBounded
<1> SUFFICES ASSUME NEW h \in History, Remembers(h) PROVE OvershootBounded
  BY DEF Remembered
<1> DEFINE old == Before(h, h.latest)
           new == Present \ old
<1>1. old \subseteq Peer /\ new \subseteq Peer /\ Present = old \cup new /\ old \cap new = {}
  BY DEF Before, Present
<1>2. Cardinality(Present) = Cardinality(old) + Cardinality(new) - Cardinality(old \cap new)
  BY <1>1, PeersFinite, FS_Union
<1>3. Cardinality(old \cap new) = 0
  BY <1>1, FS_EmptySet
<1>4. \A p \in new : h.came[p] > h.latest /\ h.by[p] \in Thread
  BY HistoryFields DEF Before, Present
<1>5. [p \in new |-> h.by[p]] \in Injection(new, Thread)
  BY <1>4 DEF Remembers, Injection, IsInjective
<1>6. Cardinality(new) <= Cardinality(Thread)
  BY <1>5, FiniteAssumption, FS_Injection
<1>7. /\ Cardinality(Thread) \in Nat /\ Cardinality(Thread) # 0
      /\ Cardinality(old) \in Nat /\ Cardinality(new) \in Nat
  BY <1>1, PeersFinite, FiniteAssumption, FS_CardinalityType, FS_EmptySet
<1>8. CASE Cardinality(old) < MaxPeers
  <2> HIDE DEF old, new
  <2> QED BY <1>2, <1>3, <1>6, <1>7, <1>8, BoundAssumption DEF OvershootBounded
<1>9. CASE Present = {}
  <2>1. Cardinality(Present) = 0
    BY <1>9, FS_EmptySet
  <2> QED BY <2>1, <1>7, BoundAssumption DEF OvershootBounded
<1> QED BY <1>8, <1>9 DEF Remembers

\* add_peer checks the length of the table before it inserts, over a DashMap
\* that others change shard by shard: whatever they insert, remove and sweep in
\* between, max_peers is exceeded by at most one peer for each thread but one.
THEOREM OvershootIsBounded == Spec => []OvershootBounded
<1>1. Init => TypeOK /\ AddsPeer /\ Remembered
  <2>1. 0 \in Time
    BY BoundAssumption DEF Time
  <2>2. Init => TypeOK
    BY <2>1, IdleTaskType DEF Init, TypeOK
  <2>3. Init => AddsPeer
    BY DEF Init, AddsPeer, Adding, IdleTask, NewTask
  <2> QED BY <2>2, <2>3, RememberedInit
<1>2. TypeOK /\ AddsPeer /\ Remembered /\ [Next]_vars => (TypeOK /\ AddsPeer /\ Remembered)'
  BY TypeStep, AddsPeerStep, RememberedStep
<1>3. Remembered => OvershootBounded
  BY RememberedBound
<1> QED BY <1>1, <1>2, <1>3, PTL DEF Spec
=============================================================================
