--------------------------- MODULE MiningPoolProofs ---------------------------
(***************************************************************************)
(* Proofs about MiningPool, for any threads, miners, shards and bounds:    *)
(* ids are unique although threads hand them out and insert at different   *)
(* times, packages and shares are counted exactly once, no submit_share    *)
(* that has reached the statistics returns, and the types.                 *)
(***************************************************************************)
EXTENDS MiningPool, FiniteSetTheorems, TLAPS

TaskShape ==
    [pc : {"idle", "insert", "count_work", "account", "stats", "len", "sweep"},
     work : Work \cup {None}, miner : Miner \cup {None},
     at : 1 .. Shards, read : Nat, count : Nat]

\* What the steps need to know of the shape of the state.
Shape ==
    /\ work_packages \in [Work -> Nat \cup {None}]
    /\ next_work_id \in Nat \ {0}
    /\ shard_guard \in [1 .. Shards -> Thread \cup {None}]
    /\ now \in Nat
    /\ task \in [Thread -> TaskShape]

\* An id that was handed out is neither handed out again nor in use until the
\* thread that has it inserts its package.
IdsUnused ==
    /\ \A w \in Work : w >= next_work_id => work_packages[w] = None
    /\ \A t \in Thread : AtWork(t, "insert") =>
          /\ task[t].work \in Work
          /\ task[t].work < next_work_id
          /\ work_packages[task[t].work] = None
    /\ \A t, u \in Thread :
          AtWork(t, "insert") /\ AtWork(u, "insert") /\ task[t].work = task[u].work
            => t = u

\* A share holds its miner's shard from the account on, and its count has not
\* come past that shard.
ShareHoldsShard ==
    \A t \in Thread :
       /\ AtWork(t, "idle") => task[t].miner = None
       /\ AtWork(t, "account") => task[t].miner \in Miner /\ task[t].at = 1
       /\ AtWork(t, "stats") =>
             /\ task[t].miner \in Miner /\ task[t].at = 1
             /\ shard_guard[ShardOf[task[t].miner]] = t
       /\ AtWork(t, "len") /\ task[t].miner # None =>
             /\ task[t].at <= ShardOf[task[t].miner]
             /\ shard_guard[ShardOf[task[t].miner]] = t

PoolInv == Shape /\ IdsUnused /\ ShareHoldsShard

\* A share that has come to count the miners goes on counting for ever.
SharesNeverReturn ==
    [][\A t \in Thread :
          AtWork(t, "len") /\ task[t].miner # None
            => AtWork(t, "len")' /\ task'[t].miner = task[t].miner]_vars

\* A task that begins has its shape, and starts at the first shard.
LEMMA NewTaskShape ==
    ASSUME NEW w \in Work \cup {None}, NEW m \in Miner \cup {None}, NEW read \in Nat,
           NEW pc \in {"idle", "insert", "count_work", "account", "stats", "len", "sweep"}
    PROVE  /\ NewTask(pc, w, m, read) \in TaskShape
           /\ NewTask(pc, w, m, read).pc = pc
           /\ NewTask(pc, w, m, read).work = w
           /\ NewTask(pc, w, m, read).miner = m
           /\ NewTask(pc, w, m, read).at = 1
BY ShardAssumption DEF NewTask, TaskShape

\* A thread that is idle works for nobody.
LEMMA IdleShape == IdleTask \in TaskShape /\ IdleTask.pc = "idle"
                     /\ IdleTask.miner = None /\ IdleTask.at = 1
BY NewTaskShape DEF IdleTask

\* The initial state satisfies the invariant.
LEMMA InitPool == Init => PoolInv
<1> SUFFICES ASSUME Init PROVE PoolInv
  OBVIOUS
<1>1. Shape
  BY IdleShape DEF Init, Shape
<1>2. IdsUnused
  BY IdleShape DEF Init, IdsUnused, AtWork
<1>3. ShareHoldsShard
  BY IdleShape DEF Init, ShareHoldsShard, AtWork
<1> QED
  BY <1>1, <1>2, <1>3 DEF PoolInv

\* A step of a thread that neither begins nor ends an insertion, adds no
\* package and hands out no id keeps ids unused.
LEMMA IdsKept ==
    ASSUME PoolInv, Shape', NEW t \in Thread,
           \A u \in Thread \ {t} : task'[u] = task[u],
           task'[t].pc # "insert", next_work_id' = next_work_id,
           \A w \in Work : work_packages'[w] \in {work_packages[w], None}
    PROVE  IdsUnused'
<1>1. ASSUME NEW u \in Thread, AtWork(u, "insert")'
      PROVE  u # t /\ AtWork(u, "insert") /\ task'[u] = task[u]
  BY <1>1 DEF AtWork
<1>2. \A w \in Work : (w >= next_work_id => work_packages[w] = None)'
  BY DEF PoolInv, IdsUnused
<1>3. ASSUME NEW u \in Thread, AtWork(u, "insert")'
      PROVE  /\ task'[u].work \in Work
             /\ task'[u].work < next_work_id'
             /\ work_packages'[task'[u].work] = None
  BY <1>1, <1>3 DEF PoolInv, IdsUnused
<1>4. ASSUME NEW u \in Thread, NEW v \in Thread, AtWork(u, "insert")',
             AtWork(v, "insert")', task'[u].work = task'[v].work
      PROVE  u = v
  BY <1>1, <1>4 DEF PoolInv, IdsUnused
<1> QED
  BY <1>2, <1>3, <1>4 DEF IdsUnused

\* A step of a thread that leaves the guards alone keeps the shards of the
\* shares of others; what it owes for its own task is the second assumption.
LEMMA ShardsKept ==
    ASSUME PoolInv, Shape', NEW t \in Thread,
           \A u \in Thread \ {t} : task'[u] = task[u],
           shard_guard' = shard_guard,
           /\ AtWork(t, "idle")' => task'[t].miner = None
           /\ AtWork(t, "account")' => task'[t].miner \in Miner /\ task'[t].at = 1
           /\ AtWork(t, "stats")' =>
                 /\ task'[t].miner \in Miner /\ task'[t].at = 1
                 /\ shard_guard[ShardOf[task'[t].miner]] = t
           /\ AtWork(t, "len")' /\ task'[t].miner # None =>
                 /\ task'[t].at <= ShardOf[task'[t].miner]
                 /\ shard_guard[ShardOf[task'[t].miner]] = t
    PROVE  ShareHoldsShard'
BY DEF PoolInv, ShareHoldsShard, AtWork

\* Handing out an id: it is new, so no package and no other thread has it.
LEMMA TakeIdPool ==
    ASSUME PoolInv, NEW t \in Thread, TakeId(t)
    PROVE  PoolInv'
<1> DEFINE r == NewTask("insert", next_work_id, None, now)
<1>1. /\ next_work_id \in Work /\ now \in Nat
      /\ next_work_id' = next_work_id + 1
      /\ UNCHANGED <<work_packages, shard_guard, now>>
      /\ task' = [task EXCEPT ![t] = r]
  BY BoundAssumption DEF TakeId, PoolInv, Shape, Work, guards
<1>2. /\ r \in TaskShape /\ r.pc = "insert" /\ r.work = next_work_id
  BY <1>1, NewTaskShape
<1> HIDE DEF r
<1>3. task' \in [Thread -> TaskShape] /\ task'[t] = r
      /\ \A u \in Thread \ {t} : task'[u] = task[u]
  BY <1>1, <1>2 DEF PoolInv, Shape
<1>4. Shape'
  BY <1>1, <1>3 DEF PoolInv, Shape
<1>5. IdsUnused'
  <2>1. \A w \in Work : w >= next_work_id' => work_packages'[w] = None
    BY <1>1 DEF PoolInv, Shape, IdsUnused, Work
  <2>2. ASSUME NEW u \in Thread, AtWork(u, "insert")'
        PROVE  /\ task'[u].work \in Work
               /\ task'[u].work < next_work_id'
               /\ work_packages'[task'[u].work] = None
               /\ u # t => AtWork(u, "insert") /\ task'[u].work < next_work_id
    <3>1. CASE u = t
      <4>1. task'[u].work = next_work_id
        BY <1>2, <1>3, <3>1
      <4>2. work_packages[next_work_id] = None
        BY <1>1 DEF PoolInv, Shape, IdsUnused, Work
      <4> QED
        BY <1>1, <3>1, <4>1, <4>2 DEF Work
    <3>2. CASE u # t
      <4>1. task'[u] = task[u] /\ AtWork(u, "insert")
        BY <1>3, <2>2, <3>2 DEF AtWork
      <4>2. task[u].work \in Work /\ task[u].work < next_work_id
            /\ work_packages[task[u].work] = None
        BY <4>1 DEF PoolInv, IdsUnused
      <4> QED
        BY <1>1, <4>1, <4>2 DEF Work
    <3> QED
      BY <3>1, <3>2
  <2>3. ASSUME NEW u \in Thread, NEW v \in Thread, AtWork(u, "insert")',
               AtWork(v, "insert")', task'[u].work = task'[v].work
        PROVE  u = v
    <3>1. CASE u # t /\ v # t
      BY <1>3, <2>2, <2>3, <3>1 DEF PoolInv, IdsUnused
    <3>2. ASSUME NEW x \in Thread, NEW y \in Thread, x = t, y # t,
                 AtWork(y, "insert")', task'[x].work = task'[y].work
          PROVE  FALSE
      BY <1>1, <1>2, <1>3, <2>2, <3>2 DEF Work
    <3> QED
      BY <2>3, <3>1, <3>2
  <2> QED
    BY <2>1, <2>2, <2>3 DEF IdsUnused
<1>6. ShareHoldsShard'
  BY <1>1, <1>2, <1>3, <1>4, ShardsKept DEF AtWork
<1> QED
  BY <1>4, <1>5, <1>6 DEF PoolInv

\* The package of an id is inserted where there was none.
LEMMA InsertPool ==
    ASSUME PoolInv, NEW t \in Thread, InsertWork(t)
    PROVE  /\ PoolInv'
           /\ work_packages[task[t].work] = None
           /\ \A w \in Work : w # task[t].work => work_packages'[w] = work_packages[w]
<1> DEFINE r == [task[t] EXCEPT !.pc = "count_work"]
           n == task[t].work
<1>1. /\ work_packages' = [work_packages EXCEPT ![n] = task[t].read]
      /\ task' = [task EXCEPT ![t] = r]
      /\ UNCHANGED <<next_work_id, shard_guard, now>>
  BY DEF InsertWork, Goto, guards
<1>2. n \in Work /\ n < next_work_id /\ work_packages[n] = None
  BY DEF InsertWork, PoolInv, IdsUnused
<1>3. task[t] \in TaskShape
  BY DEF PoolInv, Shape
<1>4. r \in TaskShape /\ r.pc = "count_work" /\ task[t].read \in Nat
  BY <1>3 DEF TaskShape
<1> HIDE DEF r
<1>5. task' \in [Thread -> TaskShape] /\ task'[t] = r
      /\ \A u \in Thread \ {t} : task'[u] = task[u]
  BY <1>1, <1>4 DEF PoolInv, Shape
<1>6. Shape'
  BY <1>1, <1>2, <1>4, <1>5 DEF PoolInv, Shape
<1>7. \A w \in Work : w # n => work_packages'[w] = work_packages[w]
  BY <1>1 DEF PoolInv, Shape
<1>8. IdsUnused'
  <2>1. \A w \in Work : w >= next_work_id' => work_packages'[w] = None
    BY <1>1, <1>2, <1>7 DEF PoolInv, Shape, IdsUnused, Work
  <2>2. ASSUME NEW u \in Thread, AtWork(u, "insert")'
        PROVE  /\ task'[u] = task[u] /\ AtWork(u, "insert")
               /\ task[u].work # n
    BY <1>4, <1>5, <2>2 DEF AtWork, InsertWork, PoolInv, IdsUnused
  <2>3. ASSUME NEW u \in Thread, AtWork(u, "insert")'
        PROVE  /\ task'[u].work \in Work
               /\ task'[u].work < next_work_id'
               /\ work_packages'[task'[u].work] = None
    BY <1>1, <1>7, <2>2, <2>3 DEF PoolInv, IdsUnused
  <2>4. ASSUME NEW u \in Thread, NEW v \in Thread, AtWork(u, "insert")',
               AtWork(v, "insert")', task'[u].work = task'[v].work
        PROVE  u = v
    BY <2>2, <2>4 DEF PoolInv, IdsUnused
  <2> QED
    BY <2>1, <2>3, <2>4 DEF IdsUnused
<1>9. ShareHoldsShard'
  BY <1>1, <1>4, <1>5, <1>6, ShardsKept DEF AtWork
<1> QED
  BY <1>2, <1>6, <1>7, <1>8, <1>9 DEF PoolInv

\* A thread that begins a call that is no insertion, or ends one, keeps the
\* invariant when it changes neither packages nor guards.
LEMMA BeginPool ==
    ASSUME PoolInv, NEW t \in Thread, NEW r \in TaskShape,
           task' = [task EXCEPT ![t] = r],
           UNCHANGED <<work_packages, next_work_id, shard_guard, now>>,
           \/ r.pc \in {"idle", "sweep", "len"} /\ r.miner = None
           \/ r.pc = "account" /\ r.miner \in Miner /\ r.at = 1
    PROVE  PoolInv'
<1>1. /\ task' \in [Thread -> TaskShape] /\ task'[t] = r
      /\ \A u \in Thread \ {t} : task'[u] = task[u]
  BY DEF PoolInv, Shape
<1>2. Shape'
  BY <1>1 DEF PoolInv, Shape
<1>3. IdsUnused'
  BY <1>1, <1>2, IdsKept
<1>4. ShareHoldsShard'
  BY <1>1, <1>2, ShardsKept DEF AtWork
<1> QED
  BY <1>2, <1>3, <1>4 DEF PoolInv

\* The calls begin, and distribute_work ends, without a guard.
LEMMA CallsPool ==
    ASSUME PoolInv, NEW t \in Thread,
           \/ CountWork(t)
           \/ \E m \in Miner, w \in Work : CheckWork(t, m, w)
           \/ StartCount(t)
           \/ StartCleanup(t)
    PROVE  PoolInv'
<1>1. CASE CountWork(t)
  BY <1>1, IdleShape, BeginPool DEF CountWork, Return, guards
<1>2. ASSUME NEW m \in Miner, NEW w \in Work, CheckWork(t, m, w)
      PROVE  PoolInv'
  <2> DEFINE r == NewTask("account", w, m, 0)
  <2>1. r \in TaskShape /\ r.pc = "account" /\ r.miner = m /\ r.at = 1
    BY NewTaskShape
  <2>2. UNCHANGED <<work_packages, next_work_id, shard_guard, now>>
    BY <1>2 DEF CheckWork, guards
  <2>3. task' = task \/ task' = [task EXCEPT ![t] = r]
    BY <1>2 DEF CheckWork
  <2> HIDE DEF r
  <2>4. CASE task' = task
    BY <2>2, <2>4 DEF PoolInv, Shape, IdsUnused, ShareHoldsShard, AtWork
  <2>5. CASE task' = [task EXCEPT ![t] = r]
    BY <2>1, <2>2, <2>5, BeginPool
  <2> QED
    BY <2>3, <2>4, <2>5
<1>3. CASE StartCount(t)
  <2> DEFINE r == [task[t] EXCEPT !.pc = "len"]
  <2>1. task[t] \in TaskShape /\ task[t].miner = None
    BY <1>3 DEF StartCount, PoolInv, Shape, ShareHoldsShard
  <2>2. r \in TaskShape /\ r.pc = "len" /\ r.miner = None
    BY <2>1 DEF TaskShape
  <2>3. task' = [task EXCEPT ![t] = r]
    BY <1>3 DEF StartCount, Goto
  <2>4. UNCHANGED <<work_packages, next_work_id, shard_guard, now>>
    BY <1>3 DEF StartCount, guards
  <2> HIDE DEF r
  <2> QED
    BY <2>2, <2>3, <2>4, BeginPool
<1>4. CASE StartCleanup(t)
  <2> DEFINE r == NewTask("sweep", None, None, now)
  <2>0. now \in Nat
    BY DEF PoolInv, Shape
  <2>1. r \in TaskShape /\ r.pc = "sweep" /\ r.miner = None
    BY <2>0, ShardAssumption DEF NewTask, TaskShape
  <2>2. task' = [task EXCEPT ![t] = r]
    BY <1>4 DEF StartCleanup
  <2>3. UNCHANGED <<work_packages, next_work_id, shard_guard, now>>
    BY <1>4 DEF StartCleanup, guards
  <2> HIDE DEF r
  <2> QED
    BY <2>1, <2>2, <2>3, BeginPool
<1> QED
  BY <1>1, <1>2, <1>3, <1>4

\* The account's shard was nobody's; from here on it is the share's.
LEMMA RecordPool ==
    ASSUME PoolInv, NEW t \in Thread, RecordShare(t)
    PROVE  PoolInv'
<1> DEFINE r == [task[t] EXCEPT !.pc = "stats"]
           s == ShardOf[task[t].miner]
<1>1. task[t] \in TaskShape /\ task[t].miner \in Miner /\ task[t].at = 1
  BY DEF RecordShare, PoolInv, Shape, ShareHoldsShard
<1>2. r \in TaskShape /\ r.pc = "stats" /\ r.miner = task[t].miner /\ r.at = 1
  BY <1>1 DEF TaskShape
<1>3. s \in 1 .. Shards /\ \A m \in Miner : ShardOf[m] \in 1 .. Shards
  BY <1>1, ShardAssumption
<1>4. /\ shard_guard[s] = None
      /\ shard_guard' = [shard_guard EXCEPT ![s] = t]
      /\ task' = [task EXCEPT ![t] = r]
      /\ UNCHANGED <<work_packages, next_work_id, now>>
  BY DEF RecordShare, Goto
<1>5. r.miner = task[t].miner /\ ShardOf[r.miner] = s
  BY <1>2
<1> HIDE DEF r, s
<1>6. /\ task' \in [Thread -> TaskShape] /\ task'[t] = r
      /\ \A u \in Thread \ {t} : task'[u] = task[u]
  BY <1>2, <1>4 DEF PoolInv, Shape
<1>7. /\ shard_guard' \in [1 .. Shards -> Thread \cup {None}]
      /\ shard_guard'[s] = t
      /\ \A x \in 1 .. Shards : shard_guard[x] # None => shard_guard'[x] = shard_guard[x]
  BY <1>3, <1>4 DEF PoolInv, Shape
<1>8. Shape'
  BY <1>4, <1>6, <1>7 DEF PoolInv, Shape
<1>9. IdsUnused'
  BY <1>2, <1>4, <1>6, <1>8, IdsKept
<1>10. ShareHoldsShard'
  <2>1. ASSUME NEW u \in Thread, u # t
        PROVE  /\ AtWork(u, "idle")' => task'[u].miner = None
               /\ AtWork(u, "account")' => task'[u].miner \in Miner /\ task'[u].at = 1
               /\ AtWork(u, "stats")' =>
                     /\ task'[u].miner \in Miner /\ task'[u].at = 1
                     /\ shard_guard'[ShardOf[task'[u].miner]] = u
               /\ AtWork(u, "len")' /\ task'[u].miner # None =>
                     /\ task'[u].at <= ShardOf[task'[u].miner]
                     /\ shard_guard'[ShardOf[task'[u].miner]] = u
    <3>1. task'[u] = task[u] /\ u # None /\ task[u].miner \in Miner \cup {None}
      BY <1>6, <2>1, NoneAssumption DEF PoolInv, Shape, TaskShape
    <3>2. task[u].miner \in Miner => ShardOf[task[u].miner] \in 1 .. Shards
      BY <1>3
    <3> QED
      BY <1>7, <3>1, <3>2 DEF PoolInv, ShareHoldsShard, AtWork
  <2>2. task'[t].pc = "stats" /\ task'[t].miner \in Miner /\ task'[t].at = 1
        /\ shard_guard'[ShardOf[task'[t].miner]] = t
    BY <1>1, <1>2, <1>5, <1>6, <1>7
  <2> QED
    BY <2>1, <2>2 DEF ShareHoldsShard, AtWork
<1> QED
  BY <1>8, <1>9, <1>10 DEF PoolInv

\* Shards begin at 1: a count that has just begun has not passed any.
LEMMA CountSharePool ==
    ASSUME PoolInv, NEW t \in Thread, CountShare(t)
    PROVE  PoolInv'
<1> DEFINE r == [task[t] EXCEPT !.pc = "len"]
<1>1. /\ task[t] \in TaskShape /\ task[t].miner \in Miner /\ task[t].at = 1
      /\ shard_guard[ShardOf[task[t].miner]] = t
  BY DEF CountShare, PoolInv, Shape, ShareHoldsShard
<1>2. /\ r \in TaskShape /\ r.pc = "len" /\ r.miner = task[t].miner /\ r.at = 1
  BY <1>1 DEF TaskShape
<1>3. 1 <= ShardOf[task[t].miner]
  BY <1>1, ShardAssumption
<1>4. /\ task' = [task EXCEPT ![t] = r]
      /\ UNCHANGED <<work_packages, next_work_id, shard_guard, now>>
  BY DEF CountShare, Goto
<1> HIDE DEF r
<1>5. /\ task' \in [Thread -> TaskShape] /\ task'[t] = r
      /\ \A u \in Thread \ {t} : task'[u] = task[u]
  BY <1>2, <1>4 DEF PoolInv, Shape
<1>6. Shape'
  BY <1>4, <1>5 DEF PoolInv, Shape
<1>7. IdsUnused'
  BY <1>2, <1>4, <1>5, <1>6, IdsKept
<1>8. ShareHoldsShard'
  BY <1>1, <1>2, <1>3, <1>4, <1>5, <1>6, ShardsKept DEF AtWork
<1> QED
  BY <1>6, <1>7, <1>8 DEF PoolInv

\* A count for a share stops at the shard the share holds; other counts go on
\* and end.  Neither ends a share.
LEMMA CountShardPool ==
    ASSUME PoolInv, NEW t \in Thread, CountShard(t)
    PROVE  /\ PoolInv'
           /\ \A u \in Thread : AtWork(u, "len") /\ task[u].miner # None
                => AtWork(u, "len")' /\ task'[u].miner = task[u].miner
<1> DEFINE s == task[t].at
           count == task[t].count + Cardinality(AccountsIn(s))
           r == [task[t] EXCEPT !.at = s + 1, !.count = count]
<1>1. /\ task[t] \in TaskShape /\ task[t].pc = "len" /\ s \in 1 .. Shards
      /\ task[t].miner \in Miner \cup {None} /\ task[t].count \in Nat
  BY DEF CountShard, PoolInv, Shape, TaskShape, AtWork
<1>2. Cardinality(AccountsIn(s)) \in Nat
  <2>1. AccountsIn(s) \subseteq Miner
    BY DEF AccountsIn, Accounts
  <2> QED
    BY <2>1, FiniteAssumption, FS_Subset, FS_CardinalityType
<1>3. count \in Nat
  BY <1>1, <1>2
<1>4. /\ shard_guard[s] = None
      /\ UNCHANGED <<work_packages, next_work_id, now>>
      /\ \/ s = Shards /\ FinishCount(t, count)
         \/ s # Shards /\ task' = [task EXCEPT ![t] = r] /\ UNCHANGED guards
  <2>1. shard_guard[s] = None /\ UNCHANGED <<work_packages, next_work_id, now>>
    BY DEF CountShard
  <2>2. IF s = Shards THEN FinishCount(t, count)
        ELSE /\ task' = [task EXCEPT ![t].at = s + 1, ![t].count = count]
             /\ UNCHANGED <<active_miners, guards>>
    BY DEF CountShard
  <2>3. task \in [Thread -> TaskShape]
    BY DEF PoolInv, Shape
  <2>4. ASSUME task' = [task EXCEPT ![t].at = s + 1, ![t].count = count]
        PROVE  task' = [task EXCEPT ![t] = r]
    BY <2>3, <2>4
  <2> HIDE DEF count, r
  <2> QED
    BY <2>1, <2>2, <2>4
<1>5. task[t].miner # None =>
         /\ s < ShardOf[task[t].miner] /\ ShardOf[task[t].miner] \in 1 .. Shards
         /\ shard_guard[ShardOf[task[t].miner]] = t
  <2> SUFFICES ASSUME task[t].miner # None
               PROVE  /\ s < ShardOf[task[t].miner]
                      /\ ShardOf[task[t].miner] \in 1 .. Shards
                      /\ shard_guard[ShardOf[task[t].miner]] = t
    OBVIOUS
  <2>1. ShardOf[task[t].miner] \in 1 .. Shards
    BY <1>1, ShardAssumption
  <2>2. s <= ShardOf[task[t].miner] /\ shard_guard[ShardOf[task[t].miner]] = t
    BY <1>1 DEF PoolInv, ShareHoldsShard, AtWork
  <2>3. t # None
    BY NoneAssumption
  <2> QED
    BY <1>1, <1>4, <2>1, <2>2, <2>3, ShardAssumption
<1>6. CASE s = Shards /\ FinishCount(t, count)
  <2>1. task[t].miner = None
    BY <1>5, <1>6, ShardAssumption
  <2>2. task' = [task EXCEPT ![t] = IdleTask] /\ shard_guard' = shard_guard
    BY <1>6, <2>1 DEF FinishCount, Return, guards
  <2>3. PoolInv'
    BY <1>4, <2>2, IdleShape, BeginPool
  <2>4. ASSUME NEW u \in Thread, AtWork(u, "len"), task[u].miner # None
        PROVE  task'[u] = task[u]
    BY <2>1, <2>2, <2>4 DEF PoolInv, Shape
  <2> QED
    BY <2>3, <2>4 DEF AtWork
<1>7. CASE s # Shards /\ task' = [task EXCEPT ![t] = r] /\ UNCHANGED guards
  <2>1. s + 1 \in 1 .. Shards
    BY <1>1, <1>7, ShardAssumption
  <2>2. /\ r \in TaskShape /\ r.pc = "len" /\ r.miner = task[t].miner
        /\ r.at = s + 1
    <3> HIDE DEF count, s
    <3> QED
      BY <1>1, <1>3, <2>1 DEF TaskShape
  <2> HIDE DEF r
  <2>3. /\ task' \in [Thread -> TaskShape] /\ task'[t] = r
        /\ \A u \in Thread \ {t} : task'[u] = task[u]
        /\ shard_guard' = shard_guard
    BY <1>7, <2>2 DEF PoolInv, Shape, guards
  <2>4. Shape'
    BY <1>4, <2>3 DEF PoolInv, Shape
  <2>5. IdsUnused'
    BY <1>4, <2>2, <2>3, <2>4, IdsKept
  <2>6. task'[t].miner # None =>
           /\ task'[t].at <= ShardOf[task'[t].miner]
           /\ shard_guard[ShardOf[task'[t].miner]] = t
    BY <1>1, <1>5, <2>2, <2>3
  <2>7. ShareHoldsShard'
    BY <2>2, <2>3, <2>4, <2>6, ShardsKept DEF AtWork
  <2> QED
    BY <1>1, <2>2, <2>3, <2>4, <2>5, <2>7 DEF PoolInv, AtWork
<1> QED
  BY <1>4, <1>6, <1>7

\* A sweep only drops packages.
LEMMA SweepPool ==
    ASSUME PoolInv, NEW t \in Thread, SweepShard(t)
    PROVE  /\ PoolInv'
           /\ \A w \in Work : work_packages'[w] \in {work_packages[w], None}
<1> DEFINE r == [task[t] EXCEPT !.at = task[t].at + 1]
<1>1. /\ task[t] \in TaskShape /\ task[t].pc = "sweep" /\ task[t].at \in 1 .. Shards
  BY DEF SweepShard, PoolInv, Shape, TaskShape, AtWork
<1>2. /\ UNCHANGED <<next_work_id, shard_guard, now>>
      /\ \/ task' = [task EXCEPT ![t] = IdleTask]
         \/ task' = [task EXCEPT ![t] = r] /\ task[t].at # Shards
  BY DEF SweepShard, Return, guards, PoolInv, Shape
<1>3. /\ work_packages' \in [Work -> Nat \cup {None}]
      /\ \A w \in Work : work_packages'[w] \in {work_packages[w], None}
  BY DEF SweepShard, PoolInv, Shape
<1>4. \/ r \in TaskShape /\ r.pc = "sweep"
      \/ task[t].at = Shards
  BY <1>1, ShardAssumption DEF TaskShape
<1> HIDE DEF r
<1>5. PICK q \in TaskShape :
         /\ task' = [task EXCEPT ![t] = q]
         /\ q.pc = "sweep" \/ (q.pc = "idle" /\ q.miner = None)
  BY <1>2, <1>4, IdleShape
<1>6. /\ task' \in [Thread -> TaskShape] /\ task'[t] = q
      /\ \A u \in Thread \ {t} : task'[u] = task[u]
  BY <1>5 DEF PoolInv, Shape
<1>7. Shape'
  BY <1>2, <1>3, <1>6 DEF PoolInv, Shape
<1>8. task'[t].pc # "insert"
  BY <1>5, <1>6
<1>9. IdsUnused'
  BY <1>2, <1>3, <1>6, <1>7, <1>8, IdsKept
<1>10. ShareHoldsShard'
  BY <1>2, <1>5, <1>6, <1>7, ShardsKept DEF AtWork
<1> QED
  BY <1>3, <1>7, <1>9, <1>10 DEF PoolInv

\* Time passes, or nothing happens.
LEMMA TickPool ==
    ASSUME PoolInv, Tick \/ UNCHANGED vars
    PROVE  PoolInv' /\ UNCHANGED <<work_packages, task>>
<1>1. /\ UNCHANGED <<work_packages, next_work_id, shard_guard, task>>
      /\ now' \in Nat
  BY DEF Tick, vars, guards, PoolInv, Shape
<1> QED
  BY <1>1 DEF PoolInv, Shape, IdsUnused, ShareHoldsShard, AtWork

\* Every step keeps the invariant, writes a package only where there is none,
\* and ends no share.
LEMMA StepPool ==
    ASSUME PoolInv, [Next]_vars
    PROVE  /\ PoolInv'
           /\ \A w \in Work : work_packages[w] # None
                => work_packages'[w] \in {work_packages[w], None}
           /\ \A u \in Thread : AtWork(u, "len") /\ task[u].miner # None
                => AtWork(u, "len")' /\ task'[u].miner = task[u].miner
<1> DEFINE Kept == \A w \in Work : work_packages[w] # None
                      => work_packages'[w] \in {work_packages[w], None}
           Others(t) == \A u \in Thread : u # t => task'[u] = task[u]
           Stuck == \A u \in Thread : AtWork(u, "len") /\ task[u].miner # None
                      => AtWork(u, "len")' /\ task'[u].miner = task[u].miner
<1>1. ASSUME NEW t \in Thread, Others(t), ~(AtWork(t, "len") /\ task[t].miner # None)
      PROVE  Stuck
  BY <1>1 DEF AtWork
<1>2. task \in [Thread -> TaskShape]
  BY DEF PoolInv, Shape
<1> HIDE DEF Stuck, Kept
<1>3. ASSUME NEW t \in Thread, TakeId(t) PROVE PoolInv' /\ Kept /\ Stuck
  <2>1. Others(t) /\ ~AtWork(t, "len") /\ UNCHANGED work_packages
    BY <1>2, <1>3 DEF TakeId, AtWork
  <2> QED
    BY <1>1, <1>3, <2>1, TakeIdPool DEF Kept
<1>4. ASSUME NEW t \in Thread, InsertWork(t) PROVE PoolInv' /\ Kept /\ Stuck
  <2>1. Others(t) /\ ~AtWork(t, "len")
    BY <1>2, <1>4 DEF InsertWork, Goto, AtWork
  <2> QED
    BY <1>1, <1>4, <2>1, InsertPool DEF Kept
<1>5. ASSUME NEW t \in Thread, CountWork(t) \/ StartCount(t) \/ StartCleanup(t)
      PROVE  PoolInv' /\ Kept /\ Stuck
  <2>1. Others(t) /\ ~AtWork(t, "len") /\ UNCHANGED work_packages
    BY <1>2, <1>5 DEF CountWork, StartCount, StartCleanup, Return, Goto, AtWork
  <2> QED
    BY <1>1, <1>5, <2>1, CallsPool DEF Kept
<1>6. ASSUME NEW t \in Thread, NEW m \in Miner, NEW w \in Work, CheckWork(t, m, w)
      PROVE  PoolInv' /\ Kept /\ Stuck
  <2>1. Others(t) /\ ~AtWork(t, "len") /\ UNCHANGED work_packages
    BY <1>2, <1>6 DEF CheckWork, AtWork
  <2> QED
    BY <1>1, <1>6, <2>1, CallsPool DEF Kept
<1>7. ASSUME NEW t \in Thread, RecordShare(t) PROVE PoolInv' /\ Kept /\ Stuck
  <2>1. Others(t) /\ ~AtWork(t, "len") /\ UNCHANGED work_packages
    BY <1>2, <1>7 DEF RecordShare, Goto, AtWork
  <2> QED
    BY <1>1, <1>7, <2>1, RecordPool DEF Kept
<1>8. ASSUME NEW t \in Thread, CountShare(t) PROVE PoolInv' /\ Kept /\ Stuck
  <2>1. Others(t) /\ ~AtWork(t, "len") /\ UNCHANGED work_packages
    BY <1>2, <1>8 DEF CountShare, Goto, AtWork
  <2> QED
    BY <1>1, <1>8, <2>1, CountSharePool DEF Kept
<1>9. ASSUME NEW t \in Thread, CountShard(t) PROVE PoolInv' /\ Kept /\ Stuck
  <2>1. UNCHANGED work_packages
    BY <1>9 DEF CountShard
  <2> QED
    BY <1>9, <2>1, CountShardPool DEF Kept, Stuck
<1>10. ASSUME NEW t \in Thread, SweepShard(t) PROVE PoolInv' /\ Kept /\ Stuck
  <2>1. Others(t) /\ ~AtWork(t, "len")
    BY <1>2, <1>10 DEF SweepShard, Return, AtWork
  <2> QED
    BY <1>1, <1>10, <2>1, SweepPool DEF Kept
<1>11. ASSUME Tick \/ UNCHANGED vars PROVE PoolInv' /\ Kept /\ Stuck
  BY <1>11, TickPool DEF Kept, Stuck, AtWork
<1>12. ASSUME NEW t \in Thread, Continue(t) PROVE PoolInv' /\ Kept /\ Stuck
  <2>1. \/ InsertWork(t) \/ CountWork(t) \/ RecordShare(t)
        \/ CountShare(t) \/ CountShard(t) \/ SweepShard(t)
    BY <1>12 DEF Continue
  <2> QED
    BY <2>1, <1>4, <1>5, <1>7, <1>8, <1>9, <1>10
<1>13. PoolInv' /\ Kept /\ Stuck
  <2>1. CASE Tick \/ UNCHANGED vars
    BY <1>11, <2>1
  <2>2. ASSUME NEW t \in Thread,
               \/ Continue(t) \/ TakeId(t) \/ StartCount(t) \/ StartCleanup(t)
               \/ \E m \in Miner, w \in Work : CheckWork(t, m, w)
        PROVE  PoolInv' /\ Kept /\ Stuck
    BY <2>2, <1>3, <1>5, <1>6, <1>12
  <2> QED
    BY <2>1, <2>2 DEF Next
<1> QED
  BY <1>13 DEF Kept, Stuck

-----------------------------------------------------------------------------
\* The invariant holds in every state of the pool.
THEOREM PoolInvariant == Safe => []PoolInv
<1>1. Init => PoolInv
  BY InitPool
<1>2. PoolInv /\ [Next]_vars => PoolInv'
  BY StepPool
<1> QED
  BY <1>1, <1>2, PTL DEF Safe

\* A package is never put in the place of another: ids are unique.
THEOREM UniqueIds == Safe => InsertsAreNew
<1>1. PoolInv /\ [Next]_vars =>
         [\A w \in Work : work_packages[w] # None
            => work_packages'[w] \in {work_packages[w], None}]_vars
  BY StepPool
<1> QED
  BY <1>1, PoolInvariant, PTL DEF Safe, InsertsAreNew

\* No call of submit_share returns once it has come to count the miners:
\* its own guard is in the way, whatever other threads do.
THEOREM ShareNeverReturns == Safe => SharesNeverReturn
<1>1. PoolInv /\ [Next]_vars =>
         [\A t \in Thread : AtWork(t, "len") /\ task[t].miner # None
            => AtWork(t, "len")' /\ task'[t].miner = task[t].miner]_vars
  BY StepPool
<1> QED
  BY <1>1, PoolInvariant, PTL DEF Safe, SharesNeverReturn

-----------------------------------------------------------------------------
(* The packages that are counted, against the ids that were handed out. *)

\* The calls that took an id and have not counted their package yet.
Uncounted == {t \in Thread : task[t].pc \in {"insert", "count_work"}}

Counted == total_work_packages \in Nat /\ PackagesCounted

\* There are finitely many such calls.
LEMMA UncountedFinite == IsFiniteSet(Uncounted) /\ Cardinality(Uncounted) \in Nat
<1>1. Uncounted \subseteq Thread
  BY DEF Uncounted
<1> QED
  BY <1>1, FiniteAssumption, FS_Subset, FS_CardinalityType

\* At first no id is handed out and no package is counted.
LEMMA InitCounted == Init => Counted
<1> SUFFICES ASSUME Init PROVE Counted
  OBVIOUS
<1>1. {t \in Thread : task[t].pc \in {"insert", "count_work"}} = {}
  BY IdleShape DEF Init
<1> QED
  BY <1>1, FS_EmptySet DEF Init, Counted, PackagesCounted

\* A call that takes an id is one more to be counted.
LEMMA TakeIdCounted ==
    ASSUME PoolInv, Counted, NEW t \in Thread, TakeId(t)
    PROVE  Counted'
<1>1. NewTask("insert", next_work_id, None, now).pc = "insert"
  BY DEF NewTask
<1>2. t \notin Uncounted /\ Uncounted' = Uncounted \cup {t}
  BY <1>1 DEF PoolInv, Shape, Uncounted, TakeId, AtWork
<1>3. Cardinality(Uncounted') = Cardinality(Uncounted) + 1
  BY <1>2, UncountedFinite, FS_AddElement
<1> QED
  BY <1>3, UncountedFinite DEF PoolInv, Shape, Uncounted, Counted, PackagesCounted,
     TakeId, stats

\* A call that counts its package is one less.
LEMMA CountWorkCounted ==
    ASSUME PoolInv, Counted, NEW t \in Thread, CountWork(t)
    PROVE  Counted'
<1>1. t \in Uncounted /\ Uncounted' = Uncounted \ {t}
  BY IdleShape DEF PoolInv, Shape, Uncounted, CountWork, Return, AtWork
<1>2. Cardinality(Uncounted') = Cardinality(Uncounted) - 1
  BY <1>1, UncountedFinite, FS_RemoveElement
<1> QED
  BY <1>2, UncountedFinite DEF PoolInv, Shape, Uncounted, Counted, PackagesCounted,
     CountWork

\* Every other step leaves the ids, the counter and those calls alone.
LEMMA OthersCounted ==
    ASSUME PoolInv, Counted, Uncounted' = Uncounted,
           UNCHANGED <<total_work_packages, next_work_id>>
    PROVE  Counted'
BY DEF Uncounted, Counted, PackagesCounted

\* A call that goes on and is not about a package is none of those.
LEMMA GoesOnCounted ==
    ASSUME NEW t \in Thread, t \notin Uncounted,
           \A u \in Thread \ {t} : task'[u].pc = task[u].pc,
           task'[t].pc \notin {"insert", "count_work"}
    PROVE  Uncounted' = Uncounted
BY DEF Uncounted

\* Every step keeps the account.
LEMMA StepCounted == PoolInv /\ Counted /\ [Next]_vars => Counted'
<1> SUFFICES ASSUME PoolInv, Counted, [Next]_vars PROVE Counted'
  OBVIOUS
<1>1. task \in [Thread -> TaskShape]
  BY DEF PoolInv, Shape
<1>2. ASSUME NEW t \in Thread, InsertWork(t) PROVE Counted'
  <2>1. Uncounted' = Uncounted
    BY <1>1, <1>2 DEF InsertWork, Goto, AtWork, Uncounted
  <2> QED
    BY <1>2, <2>1, OthersCounted DEF InsertWork, stats
<1>3. ASSUME NEW t \in Thread, NEW m \in Miner, NEW w \in Work, CheckWork(t, m, w)
      PROVE  Counted'
  <2>1. NewTask("account", w, m, 0).pc = "account"
    BY DEF NewTask
  <2>2. Uncounted' = Uncounted
    BY <1>1, <1>3, <2>1 DEF CheckWork, AtWork, Uncounted
  <2> QED
    BY <1>3, <2>2, OthersCounted DEF CheckWork, stats
<1>4. ASSUME NEW t \in Thread, RecordShare(t) \/ CountShare(t) \/ StartCount(t)
      PROVE  Counted'
  <2>1. t \notin Uncounted /\ (Goto(t, "stats") \/ Goto(t, "len"))
    BY <1>4 DEF RecordShare, CountShare, StartCount, AtWork, Uncounted
  <2>2. Uncounted' = Uncounted
    BY <1>1, <2>1, GoesOnCounted DEF Goto, TaskShape
  <2>3. UNCHANGED <<total_work_packages, next_work_id>>
    BY <1>4 DEF RecordShare, CountShare, StartCount, stats
  <2> QED
    BY <2>2, <2>3, OthersCounted
<1>5. ASSUME NEW t \in Thread, CountShard(t) PROVE Counted'
  <2>1. task[t].pc = "len" /\ task[t] \in TaskShape
    BY <1>1, <1>5 DEF CountShard, AtWork
  <2>2. /\ \A u \in Thread \ {t} : task'[u] = task[u]
        /\ task'[t].pc \in {"len", "idle"}
    BY <1>1, <2>1, <1>5, IdleShape DEF CountShard, FinishCount, Return, AtWork, TaskShape
  <2>3. Uncounted' = Uncounted
    BY <2>1, <2>2, GoesOnCounted DEF Uncounted
  <2> QED
    BY <1>5, <2>3, OthersCounted DEF CountShard
<1>6. ASSUME NEW t \in Thread, StartCleanup(t) PROVE Counted'
  <2>1. NewTask("sweep", None, None, now).pc = "sweep"
    BY DEF NewTask
  <2>2. Uncounted' = Uncounted
    BY <1>1, <1>6, <2>1 DEF StartCleanup, AtWork, Uncounted
  <2> QED
    BY <1>6, <2>2, OthersCounted DEF StartCleanup, stats
<1>7. ASSUME NEW t \in Thread, SweepShard(t) PROVE Counted'
  <2>1. task[t].pc = "sweep" /\ task[t] \in TaskShape
    BY <1>1, <1>7 DEF SweepShard, AtWork
  <2>2. /\ \A u \in Thread \ {t} : task'[u] = task[u]
        /\ task'[t].pc \in {"sweep", "idle"}
    BY <1>1, <2>1, <1>7, IdleShape DEF SweepShard, Return, AtWork, TaskShape
  <2>3. Uncounted' = Uncounted
    BY <2>1, <2>2, GoesOnCounted DEF Uncounted
  <2> QED
    BY <1>7, <2>3, OthersCounted DEF SweepShard, stats
<1>8. ASSUME Tick \/ UNCHANGED vars PROVE Counted'
  BY <1>8, OthersCounted DEF Tick, vars, stats, Uncounted
<1>9. ASSUME NEW t \in Thread,
             \/ Continue(t) \/ TakeId(t) \/ StartCount(t) \/ StartCleanup(t)
             \/ \E m \in Miner, w \in Work : CheckWork(t, m, w)
      PROVE  Counted'
  BY <1>2, <1>3, <1>4, <1>5, <1>6, <1>7, <1>9, TakeIdCounted, CountWorkCounted
     DEF Continue
<1> QED
  BY <1>8, <1>9 DEF Next

\* The statistics lag behind the ids by exactly the calls on their way: no
\* package goes uncounted and none is counted twice, however threads interleave.
THEOREM PackagesAreCounted == Safe => []PackagesCounted
<1>1. Init => Counted
  BY InitCounted
<1>2. PoolInv /\ Counted /\ [Next]_vars => Counted'
  BY StepCounted
<1>3. Counted => PackagesCounted
  BY DEF Counted
<1> QED
  BY <1>1, <1>2, <1>3, PoolInvariant, PTL DEF Safe

-----------------------------------------------------------------------------
(* The types.  What a count has come to is bounded by the miners of the    *)
(* shards behind it; the shares by what was submitted, see below.          *)

MinersBefore(s) == {m \in Miner : ShardOf[m] < s}

CountsBounded == \A t \in Thread : task[t].count <= Cardinality(MinersBefore(task[t].at))

Typed ==
    /\ work_packages \in [Work -> (0 .. MaxTime) \cup {None}]
    /\ active_miners \in 0 .. Cardinality(Miner)
    /\ next_work_id \in 1 .. (MaxWork + 1)
    /\ shard_guard \in [1 .. Shards -> Thread \cup {None}]
    /\ stats_guard \in Thread \cup {None}
    /\ task \in [Thread -> Task]
    /\ now \in 0 .. MaxTime
    /\ CountsBounded

\* There are finitely many miners, behind a count as well.
LEMMA MinersFinite ==
    ASSUME NEW S \in SUBSET Miner
    PROVE  /\ IsFiniteSet(S) /\ Cardinality(S) \in Nat
           /\ Cardinality(S) <= Cardinality(Miner) /\ Cardinality(Miner) \in Nat
BY FiniteAssumption, FS_Subset, FS_CardinalityType

\* A task that begins is of its type and has counted nobody.
LEMMA NewTaskType ==
    ASSUME NEW w \in Work \cup {None}, NEW m \in Miner \cup {None}, NEW read \in 0 .. MaxTime,
           NEW pc \in {"idle", "insert", "count_work", "account", "stats", "len", "sweep"}
    PROVE  /\ NewTask(pc, w, m, read) \in Task
           /\ NewTask(pc, w, m, read).count = 0 /\ NewTask(pc, w, m, read).at = 1
<1>1. 0 \in 0 .. Cardinality(Miner)
  BY MinersFinite
<1> QED
  BY <1>1, ShardAssumption DEF NewTask, Task

LEMMA IdleTaskType ==
    IdleTask \in Task /\ IdleTask.count = 0 /\ IdleTask.at = 1
<1>1. 0 \in 0 .. MaxTime
  BY BoundAssumption
<1> QED
  BY <1>1, NewTaskType DEF IdleTask

\* A thread that gets a task of its type, with a bounded count.
LEMMA TaskTyped ==
    ASSUME Typed, NEW t \in Thread, NEW q \in Task,
           q.count <= Cardinality(MinersBefore(q.at)),
           task' = [task EXCEPT ![t] = q]
    PROVE  task' \in [Thread -> Task] /\ CountsBounded'
<1>1. task' \in [Thread -> Task]
  BY DEF Typed
<1>2. \A u \in Thread : task'[u] = IF u = t THEN q ELSE task[u]
  BY DEF Typed
<1> QED
  BY <1>1, <1>2 DEF Typed, CountsBounded, MinersBefore

LEMMA FreshTyped ==
    ASSUME Typed, NEW t \in Thread, NEW q \in Task, q.count = 0,
           task' = [task EXCEPT ![t] = q]
    PROVE  task' \in [Thread -> Task] /\ CountsBounded'
<1>1. MinersBefore(q.at) \in SUBSET Miner
  BY DEF MinersBefore
<1>2. q.count <= Cardinality(MinersBefore(q.at))
  BY <1>1, MinersFinite
<1> QED
  BY <1>2, TaskTyped

\* A thread that goes on with its call, at the shard where it is.
LEMMA GotoTyped ==
    ASSUME Typed, NEW t \in Thread,
           NEW pc \in {"idle", "insert", "count_work", "account", "stats", "len", "sweep"},
           Goto(t, pc)
    PROVE  task' \in [Thread -> Task] /\ CountsBounded'
<1> DEFINE q == [task[t] EXCEPT !.pc = pc]
<1>1. task[t] \in Task /\ task[t].count <= Cardinality(MinersBefore(task[t].at))
  BY DEF Typed, CountsBounded
<1>2. q \in Task /\ q.count = task[t].count /\ q.at = task[t].at
  BY <1>1 DEF Task
<1>3. task' = [task EXCEPT ![t] = q]
  BY DEF Goto
<1> HIDE DEF q
<1>4. q.count <= Cardinality(MinersBefore(q.at))
  BY <1>1, <1>2
<1> QED
  BY <1>2, <1>3, <1>4, TaskTyped

LEMMA InitTyped == Init => Typed
<1> SUFFICES ASSUME Init PROVE Typed
  OBVIOUS
<1>1. 0 \in 0 .. Cardinality(Miner) /\ 0 \in 0 .. MaxTime /\ 1 \in 1 .. (MaxWork + 1)
  <2>1. Cardinality(Miner) \in Nat
    BY FiniteAssumption, FS_CardinalityType
  <2> QED
    BY <2>1, BoundAssumption
<1>2. MinersBefore(1) \in SUBSET Miner
  BY DEF MinersBefore
<1>3. CountsBounded
  BY <1>2, IdleTaskType, MinersFinite DEF Init, CountsBounded
<1> QED
  BY <1>1, <1>3, IdleTaskType DEF Init, Typed

\* The miners a count comes upon in a shard are not those behind it.
LEMMA CountAdds ==
    ASSUME NEW s \in 1 .. Shards
    PROVE  /\ Cardinality(AccountsIn(s)) \in Nat
           /\ Cardinality(MinersBefore(s)) \in Nat
           /\ Cardinality(MinersBefore(s)) + Cardinality(AccountsIn(s))
                <= Cardinality(MinersBefore(s + 1))
           /\ Cardinality(MinersBefore(s + 1)) \in 0 .. Cardinality(Miner)
<1>1. /\ MinersBefore(s) \in SUBSET Miner /\ AccountsIn(s) \in SUBSET Miner
      /\ MinersBefore(s + 1) \in SUBSET Miner
  BY DEF MinersBefore, AccountsIn, Accounts
<1>2. MinersBefore(s) \cap AccountsIn(s) = {}
  BY ShardAssumption DEF MinersBefore, AccountsIn, Accounts
<1>3. MinersBefore(s) \cup AccountsIn(s) \in SUBSET MinersBefore(s + 1)
  BY ShardAssumption DEF MinersBefore, AccountsIn, Accounts
<1>4. Cardinality(MinersBefore(s) \cup AccountsIn(s))
         = Cardinality(MinersBefore(s)) + Cardinality(AccountsIn(s))
  <2>1. Cardinality(MinersBefore(s) \cap AccountsIn(s)) = 0
    BY <1>2, FS_EmptySet
  <2> QED
    BY <1>1, <2>1, MinersFinite, FS_Union
<1>5. Cardinality(MinersBefore(s) \cup AccountsIn(s)) <= Cardinality(MinersBefore(s + 1))
  BY <1>1, <1>3, MinersFinite, FS_Subset
<1> QED
  BY <1>1, <1>4, <1>5, MinersFinite

\* A count that moves on to the next shard, or ends with the last.
LEMMA CountShardTyped ==
    ASSUME Typed, NEW t \in Thread, CountShard(t)
    PROVE  Typed'
<1>1. PICK s : s = task[t].at
  OBVIOUS
<1>2. PICK count : count = task[t].count + Cardinality(AccountsIn(s))
  OBVIOUS
<1>3. task[t] \in Task /\ s \in 1 .. Shards /\ task[t].count \in Nat
  <2>1. task[t] \in Task
    BY DEF Typed
  <2>2. Cardinality(Miner) \in Nat
    BY MinersFinite
  <2> QED
    BY <1>1, <2>1, <2>2 DEF Task
<1>4. /\ count \in 0 .. Cardinality(Miner)
      /\ count <= Cardinality(MinersBefore(s + 1))
  <2>1. task[t].count <= Cardinality(MinersBefore(s))
    BY <1>1 DEF Typed, CountsBounded
  <2>2. /\ Cardinality(AccountsIn(s)) \in Nat /\ Cardinality(MinersBefore(s)) \in Nat
        /\ Cardinality(MinersBefore(s)) + Cardinality(AccountsIn(s))
             <= Cardinality(MinersBefore(s + 1))
        /\ Cardinality(MinersBefore(s + 1)) \in 0 .. Cardinality(Miner)
        /\ Cardinality(Miner) \in Nat
    BY <1>3, CountAdds, FiniteAssumption, FS_CardinalityType
  <2> QED
    BY <1>2, <1>3, <2>1, <2>2
<1>5. /\ IF s = Shards THEN FinishCount(t, count)
         ELSE /\ task' = [task EXCEPT ![t].at = s + 1, ![t].count = count]
              /\ UNCHANGED <<active_miners, guards>>
      /\ UNCHANGED <<work_packages, next_work_id, now>>
  BY <1>1, <1>2 DEF CountShard
<1>6. CASE s = Shards
  <2>1. task' \in [Thread -> Task] /\ CountsBounded'
    BY <1>5, <1>6, IdleTaskType, FreshTyped DEF FinishCount, Return
  <2>2. active_miners' \in 0 .. Cardinality(Miner)
    BY <1>4, <1>5, <1>6 DEF FinishCount, Typed
  <2>3. shard_guard' \in [1 .. Shards -> Thread \cup {None}]
        /\ stats_guard' \in Thread \cup {None}
    BY <1>5, <1>6 DEF FinishCount, Typed, guards
  <2> QED
    BY <1>5, <2>1, <2>2, <2>3 DEF Typed
<1>7. CASE s # Shards
  <2> DEFINE q == [task[t] EXCEPT !.at = s + 1, !.count = count]
  <2>1. s + 1 \in 1 .. Shards
    BY <1>3, <1>7, ShardAssumption
  <2>2. q \in Task /\ q.at = s + 1 /\ q.count = count
    BY <1>3, <1>4, <2>1 DEF Task
  <2>3. task' = [task EXCEPT ![t] = q]
    BY <1>5, <1>7 DEF Typed
  <2> HIDE DEF q
  <2>4. task' \in [Thread -> Task] /\ CountsBounded'
    BY <1>4, <2>2, <2>3, TaskTyped
  <2>5. UNCHANGED <<active_miners, shard_guard, stats_guard>>
    BY <1>5, <1>7 DEF guards
  <2> QED
    BY <1>5, <2>4, <2>5 DEF Typed
<1> QED
  BY <1>6, <1>7

\* A sweep that moves on has counted nobody.
LEMMA SweepTyped ==
    ASSUME Typed, NEW t \in Thread, SweepShard(t)
    PROVE  Typed'
<1>1. task[t] \in Task /\ task[t].at \in 1 .. Shards
  BY DEF Typed, Task
<1>2. work_packages' \in [Work -> (0 .. MaxTime) \cup {None}]
  BY DEF SweepShard, Typed
<1>3. task' \in [Thread -> Task] /\ CountsBounded'
  <2>1. CASE Return(t)
    BY <2>1, IdleTaskType, FreshTyped DEF Return
  <2>2. CASE task[t].at # Shards /\ task' = [task EXCEPT ![t].at = task[t].at + 1]
    <3> DEFINE q == [task[t] EXCEPT !.at = task[t].at + 1]
    <3>1. task[t].at + 1 \in 1 .. Shards
      BY <1>1, <2>2, ShardAssumption
    <3>2. q \in Task /\ q.at = task[t].at + 1 /\ q.count = task[t].count
      BY <1>1, <3>1 DEF Task
    <3>3. task' = [task EXCEPT ![t] = q]
      BY <2>2 DEF Typed
    <3> HIDE DEF q
    <3>4. task[t].count <= Cardinality(MinersBefore(task[t].at))
      BY DEF Typed, CountsBounded
    <3>5. MinersBefore(task[t].at) \in SUBSET MinersBefore(task[t].at + 1)
      BY <1>1, ShardAssumption DEF MinersBefore
    <3>6. /\ Cardinality(MinersBefore(task[t].at)) <= Cardinality(MinersBefore(task[t].at + 1))
          /\ Cardinality(MinersBefore(task[t].at)) \in Nat
          /\ Cardinality(MinersBefore(task[t].at + 1)) \in Nat
      <4>1. \A s : MinersBefore(s) \in SUBSET Miner
        BY DEF MinersBefore
      <4> QED
        BY <3>5, <4>1, MinersFinite, FS_Subset
    <3>7. task[t].count \in Nat
      BY <1>1, MinersFinite DEF Task
    <3>8. q.count <= Cardinality(MinersBefore(q.at))
      BY <3>2, <3>4, <3>6, <3>7
    <3> QED
      BY <3>2, <3>3, <3>8, TaskTyped
  <2> QED
    BY <2>1, <2>2 DEF SweepShard, Typed
<1> QED
  BY <1>2, <1>3 DEF SweepShard, guards, stats, Typed

LEMMA StepTyped == PoolInv /\ Typed /\ [Next]_vars => Typed'
<1> SUFFICES ASSUME PoolInv, Typed, [Next]_vars PROVE Typed'
  OBVIOUS
<1>1. now \in 0 .. MaxTime /\ next_work_id \in Nat
  BY DEF Typed
<1>2. ASSUME NEW t \in Thread, TakeId(t) PROVE Typed'
  <2>1. next_work_id \in Work /\ next_work_id' \in 1 .. (MaxWork + 1)
    BY <1>2, BoundAssumption DEF TakeId, Typed, Work
  <2>2. task' \in [Thread -> Task] /\ CountsBounded'
    <3>1. PICK q \in Task : q.count = 0 /\ task' = [task EXCEPT ![t] = q]
      BY <1>1, <1>2, <2>1, NewTaskType DEF TakeId
    <3> QED
      BY <3>1, FreshTyped
  <2> QED
    BY <1>2, <2>1, <2>2 DEF TakeId, guards, stats, Typed
<1>3. ASSUME NEW t \in Thread, InsertWork(t) PROVE Typed'
  <2>1. task[t].read \in 0 .. MaxTime
    BY DEF Typed, Task
  <2>2. work_packages' \in [Work -> (0 .. MaxTime) \cup {None}]
    BY <1>3, <2>1 DEF InsertWork, Typed
  <2>3. task' \in [Thread -> Task] /\ CountsBounded'
    BY <1>3, GotoTyped DEF InsertWork
  <2> QED
    BY <1>3, <2>2, <2>3 DEF InsertWork, guards, stats, Typed
<1>4. ASSUME NEW t \in Thread, CountWork(t) PROVE Typed'
  <2>1. task' \in [Thread -> Task] /\ CountsBounded'
    BY <1>4, IdleTaskType, FreshTyped DEF CountWork, Return
  <2> QED
    BY <1>4, <2>1 DEF CountWork, guards, Typed
<1>5. ASSUME NEW t \in Thread, NEW m \in Miner, NEW w \in Work, CheckWork(t, m, w)
      PROVE  Typed'
  <2>1. 0 \in 0 .. MaxTime
    BY BoundAssumption
  <2>2. task' \in [Thread -> Task] /\ CountsBounded'
    <3>1. CASE task' = task
      BY <3>1 DEF Typed, CountsBounded
    <3>2. CASE task' = [task EXCEPT ![t] = NewTask("account", w, m, 0)]
      <4>1. PICK q \in Task : q.count = 0 /\ task' = [task EXCEPT ![t] = q]
        BY <2>1, <3>2, NewTaskType
      <4> QED
        BY <4>1, FreshTyped
    <3> QED
      BY <1>5, <3>1, <3>2 DEF CheckWork
  <2> QED
    BY <1>5, <2>2 DEF CheckWork, guards, stats, Typed
<1>6. ASSUME NEW t \in Thread, RecordShare(t) PROVE Typed'
  <2>1. task' \in [Thread -> Task] /\ CountsBounded'
    BY <1>6, GotoTyped DEF RecordShare
  <2>2. shard_guard' \in [1 .. Shards -> Thread \cup {None}]
    BY <1>6 DEF RecordShare, Typed
  <2> QED
    BY <1>6, <2>1, <2>2 DEF RecordShare, stats, Typed
<1>7. ASSUME NEW t \in Thread, CountShare(t) PROVE Typed'
  <2>1. task' \in [Thread -> Task] /\ CountsBounded'
    BY <1>7, GotoTyped DEF CountShare
  <2> QED
    BY <1>7, <2>1 DEF CountShare, Typed
<1>8. ASSUME NEW t \in Thread, StartCount(t) PROVE Typed'
  <2>1. task' \in [Thread -> Task] /\ CountsBounded'
    BY <1>8, GotoTyped DEF StartCount
  <2> QED
    BY <1>8, <2>1 DEF StartCount, guards, stats, Typed
<1>9. ASSUME NEW t \in Thread, StartCleanup(t) PROVE Typed'
  <2>1. PICK q \in Task : q.count = 0 /\ task' = [task EXCEPT ![t] = q]
    BY <1>1, <1>9, NewTaskType DEF StartCleanup
  <2>2. task' \in [Thread -> Task] /\ CountsBounded'
    BY <2>1, FreshTyped
  <2> QED
    BY <1>9, <2>2 DEF StartCleanup, guards, stats, Typed
<1>10. CASE Tick
  <2>1. now' \in 0 .. MaxTime
    BY <1>10, BoundAssumption DEF Tick, Typed
  <2> QED
    BY <1>10, <2>1 DEF Tick, guards, stats, Typed, CountsBounded
<1>11. CASE UNCHANGED vars
  BY <1>11 DEF vars, guards, stats, Typed, CountsBounded
<1> QED
  BY <1>2, <1>3, <1>4, <1>5, <1>6, <1>7, <1>8, <1>9, <1>10, <1>11, CountShardTyped,
     SweepTyped DEF Next, Continue

-----------------------------------------------------------------------------
(* The shares.  A share is submitted, then recorded in its account, then   *)
(* added to the statistics; the calls between are counted by where they    *)
(* are.  So no account outgrows what was submitted.                        *)

ToRecord == {t \in Thread : AtWork(t, "account")}
ToCount == {t \in Thread : AtWork(t, "stats")}

SharesKept ==
    /\ miners \in [Miner -> (1 .. MaxShares) \cup {None}]
    /\ submitted \in 0 .. MaxShares
    /\ total_shares \in Nat
    /\ Cardinality(RecordedShares) + Cardinality(ToRecord) <= submitted
    /\ total_shares + Cardinality(ToCount) = Cardinality(RecordedShares)

MinersTyped == miners \in [Miner -> (1 .. MaxShares) \cup {None}]

LEMMA ToDoFinite ==
    /\ IsFiniteSet(ToRecord) /\ Cardinality(ToRecord) \in Nat
    /\ IsFiniteSet(ToCount) /\ Cardinality(ToCount) \in Nat
<1>1. ToRecord \in SUBSET Thread /\ ToCount \in SUBSET Thread
  BY DEF ToRecord, ToCount
<1> QED
  BY <1>1, FiniteAssumption, FS_Subset, FS_CardinalityType

\* What it is for a share to be recorded.
LEMMA RecordedElements ==
    \A m, i : <<m, i>> \in RecordedShares <=> m \in Accounts /\ i \in 1 .. miners[m]
BY DEF RecordedShares

LEMMA RecordedPairs ==
    \A r \in RecordedShares : \E m \in Accounts : \E i \in 1 .. miners[m] : r = <<m, i>>
BY DEF RecordedShares

\* An account has no more shares than all accounts have.
LEMMA RecordedFinite ==
    ASSUME MinersTyped
    PROVE  /\ IsFiniteSet(RecordedShares) /\ Cardinality(RecordedShares) \in Nat
           /\ \A m \in Accounts : miners[m] \in Nat /\ miners[m] <= Cardinality(RecordedShares)
<1>0. MaxShares \in Int
  BY BoundAssumption
<1>1. \A m \in Accounts : m \in Miner /\ miners[m] \in 1 .. MaxShares
  BY DEF MinersTyped, Accounts
<1>2. RecordedShares \in SUBSET (Miner \X (1 .. MaxShares))
  <2>1. ASSUME NEW r \in RecordedShares PROVE r \in Miner \X (1 .. MaxShares)
    <3>1. PICK m \in Accounts : \E i \in 1 .. miners[m] : r = <<m, i>>
      BY RecordedPairs
    <3>2. PICK i \in 1 .. miners[m] : r = <<m, i>>
      BY <3>1
    <3>3. i \in 1 .. MaxShares /\ m \in Miner
      BY <1>0, <1>1
    <3> QED
      BY <3>2, <3>3
  <2> QED
    BY <2>1
<1>3. IsFiniteSet(Miner \X (1 .. MaxShares))
  <2>1. IsFiniteSet(1 .. MaxShares)
    BY <1>0, FS_Interval
  <2> QED
    BY <2>1, FiniteAssumption, FS_Product
<1>4. IsFiniteSet(RecordedShares) /\ Cardinality(RecordedShares) \in Nat
  BY <1>2, <1>3, FS_Subset, FS_CardinalityType
<1>5. ASSUME NEW m \in Accounts
      PROVE  miners[m] \in Nat /\ miners[m] <= Cardinality(RecordedShares)
  <2>1. miners[m] \in Nat
    BY <1>0, <1>1
  <2>2. IsFiniteSet(1 .. miners[m]) /\ Cardinality(1 .. miners[m]) = miners[m]
    BY <2>1, FS_Interval
  <2>3. IsFiniteSet({m}) /\ Cardinality({m}) = 1
    BY FS_Singleton
  <2>4. /\ IsFiniteSet({m} \X (1 .. miners[m]))
        /\ Cardinality({m} \X (1 .. miners[m])) = 1 * miners[m]
    BY <2>2, <2>3, FS_Product
  <2>5. {m} \X (1 .. miners[m]) \in SUBSET RecordedShares
    BY DEF RecordedShares
  <2>6. Cardinality({m} \X (1 .. miners[m])) <= Cardinality(RecordedShares)
    BY <1>4, <2>5, FS_Subset
  <2> QED
    BY <2>1, <2>4, <2>6
<1> QED
  BY <1>4, <1>5

\* One share more in an account is one more of them all.
LEMMA RecordAdds ==
    ASSUME MinersTyped, NEW m \in Miner,
           miners' = [miners EXCEPT ![m] = IF @ = None THEN 1 ELSE @ + 1]
    PROVE  /\ Cardinality(RecordedShares') = Cardinality(RecordedShares) + 1
           /\ miners'[m] \in Nat \ {0} /\ miners'[m] <= Cardinality(RecordedShares) + 1
<1>1. PICK old : old = IF miners[m] = None THEN 0 ELSE miners[m]
  OBVIOUS
<1>2. old \in Nat /\ (m \in Accounts => old = miners[m]) /\ (m \notin Accounts => old = 0)
  BY <1>1, BoundAssumption DEF MinersTyped, Accounts
<1>3. /\ miners'[m] = old + 1 /\ \A x \in Miner \ {m} : miners'[x] = miners[x]
  BY <1>1 DEF MinersTyped
<1>4. old + 1 \in Nat /\ old + 1 # None
  BY <1>2, NoneAssumption
<1>5. m \in Accounts' /\ \A x \in Miner \ {m} : x \in Accounts' <=> x \in Accounts
  BY <1>3, <1>4 DEF Accounts
<1>6. <<m, old + 1>> \notin RecordedShares
  BY <1>2, RecordedElements
<1>7. RecordedShares' = RecordedShares \cup {<<m, old + 1>>}
  <2>1. \A x, i : <<x, i>> \in RecordedShares' <=> x \in Accounts' /\ i \in 1 .. miners'[x]
    BY DEF RecordedShares
  <2>2. \A r \in RecordedShares' : \E x, i : r = <<x, i>> 
    BY DEF RecordedShares
  <2>3. ASSUME NEW x, NEW i
        PROVE  <<x, i>> \in RecordedShares'
                  <=> <<x, i>> \in RecordedShares \/ <<x, i>> = <<m, old + 1>>
    <3>1. CASE x = m
      <4>1. i \in 1 .. (old + 1) <=> i \in 1 .. old \/ i = old + 1
        BY <1>2
      <4>2. <<x, i>> \in RecordedShares <=> i \in 1 .. old
        BY <1>2, <3>1, RecordedElements
      <4> QED
        BY <1>3, <1>5, <2>1, <3>1, <4>1, <4>2
    <3>2. CASE x # m
      <4>1. Accounts \subseteq Miner /\ Accounts' \subseteq Miner
        BY DEF Accounts
      <4> QED
        BY <1>3, <1>5, <2>1, <3>2, <4>1, RecordedElements
    <3> QED
      BY <3>1, <3>2
  <2>4. \A r \in RecordedShares : \E x, i : r = <<x, i>>
    BY DEF RecordedShares
  <2> QED
    BY <2>2, <2>3, <2>4
<1>8. Cardinality(RecordedShares') = Cardinality(RecordedShares) + 1
  BY <1>6, <1>7, RecordedFinite, FS_AddElement
<1>9. old <= Cardinality(RecordedShares)
  BY <1>2, RecordedFinite
<1> QED
  BY <1>2, <1>3, <1>8, <1>9, RecordedFinite

LEMMA InitShares == Init => SharesKept
<1> SUFFICES ASSUME Init PROVE SharesKept
  OBVIOUS
<1>1. Accounts = {} /\ ToRecord = {} /\ ToCount = {}
  BY IdleShape DEF Init, Accounts, ToRecord, ToCount, AtWork
<1>2. RecordedShares = {}
  BY <1>1 DEF RecordedShares
<1> QED
  BY <1>1, <1>2, FS_EmptySet, BoundAssumption DEF Init, SharesKept

\* Calls that neither wait to record a share nor to count it.
LEMMA OtherShares ==
    ASSUME SharesKept, ToRecord' = ToRecord, ToCount' = ToCount,
           UNCHANGED <<miners, submitted, total_shares>>
    PROVE  SharesKept'
<1>1. RecordedShares' = RecordedShares
  BY DEF RecordedShares, Accounts
<1> QED
  BY <1>1 DEF SharesKept

LEMMA GoesOnShares ==
    ASSUME NEW t \in Thread, \A u \in Thread \ {t} : task'[u].pc = task[u].pc,
           task[t].pc \notin {"account", "stats"}, task'[t].pc \notin {"account", "stats"}
    PROVE  ToRecord' = ToRecord /\ ToCount' = ToCount
BY DEF ToRecord, ToCount, AtWork

\* A share that is submitted is, at most, one more to record.
LEMMA CheckWorkShares ==
    ASSUME PoolInv, SharesKept, NEW t \in Thread, NEW m \in Miner, NEW w \in Work,
           CheckWork(t, m, w)
    PROVE  SharesKept'
<1>1. task[t].pc = "idle" /\ submitted < MaxShares /\ submitted' = submitted + 1
      /\ UNCHANGED <<miners, total_shares>>
  BY DEF CheckWork, AtWork, stats
<1>2. task' = task \/ task' = [task EXCEPT ![t] = NewTask("account", w, m, 0)]
  BY DEF CheckWork
<1>3. NewTask("account", w, m, 0).pc = "account"
  BY DEF NewTask
<1>4. ToCount' = ToCount /\ (ToRecord' = ToRecord \/ ToRecord' = ToRecord \cup {t})
  BY <1>1, <1>2, <1>3 DEF PoolInv, Shape, ToRecord, ToCount, AtWork
<1>5. Cardinality(ToRecord') \in Nat /\ Cardinality(ToRecord') <= Cardinality(ToRecord) + 1
  <2>1. CASE ToRecord' = ToRecord
    BY <2>1, ToDoFinite
  <2>2. CASE ToRecord' = ToRecord \cup {t}
    <3>1. t \notin ToRecord
      BY <1>1 DEF ToRecord, AtWork
    <3>2. Cardinality(ToRecord \cup {t}) = Cardinality(ToRecord) + 1
      BY <3>1, ToDoFinite, FS_AddElement
    <3> QED
      BY <2>2, <3>2, ToDoFinite
  <2> QED
    BY <1>4, <2>1, <2>2
<1>6. RecordedShares' = RecordedShares
  BY <1>1 DEF RecordedShares, Accounts
<1>7. Cardinality(RecordedShares) \in Nat
  BY RecordedFinite DEF SharesKept, MinersTyped
<1>8. submitted' \in 0 .. MaxShares
  BY <1>1, BoundAssumption DEF SharesKept
<1>9. Cardinality(RecordedShares) + Cardinality(ToRecord') <= submitted'
  BY <1>1, <1>5, <1>7, ToDoFinite DEF SharesKept
<1> QED
  BY <1>1, <1>4, <1>6, <1>8, <1>9 DEF SharesKept

\* It is recorded, and then has to be counted.
LEMMA RecordShares ==
    ASSUME PoolInv, SharesKept, NEW t \in Thread, RecordShare(t)
    PROVE  SharesKept'
<1>1. task[t].pc = "account" /\ task[t].miner \in Miner /\ task[t] \in TaskShape
  BY DEF RecordShare, AtWork, PoolInv, Shape, ShareHoldsShard
<1>2. /\ Goto(t, "stats") /\ UNCHANGED <<submitted, total_shares>>
      /\ miners' = [miners EXCEPT ![task[t].miner] = IF @ = None THEN 1 ELSE @ + 1]
  BY DEF RecordShare, stats
<1>3. /\ task'[t].pc = "stats" /\ \A u \in Thread \ {t} : task'[u] = task[u]
  BY <1>1, <1>2 DEF Goto, PoolInv, Shape, TaskShape
<1>4. /\ t \in ToRecord /\ ToRecord' = ToRecord \ {t}
      /\ t \notin ToCount /\ ToCount' = ToCount \cup {t}
  BY <1>1, <1>3 DEF ToRecord, ToCount, AtWork
<1>5. /\ Cardinality(ToRecord') = Cardinality(ToRecord) - 1
      /\ Cardinality(ToCount') = Cardinality(ToCount) + 1
  BY <1>4, ToDoFinite, FS_AddElement, FS_RemoveElement
<1>6. Cardinality(ToRecord) >= 1
  BY <1>4, ToDoFinite, FS_EmptySet
<1>7. MinersTyped
  BY DEF SharesKept, MinersTyped
<1>8. /\ Cardinality(RecordedShares') = Cardinality(RecordedShares) + 1
      /\ miners'[task[t].miner] \in Nat \ {0}
      /\ miners'[task[t].miner] <= Cardinality(RecordedShares) + 1
  BY <1>1, <1>2, <1>7, RecordAdds
<1>9. Cardinality(RecordedShares) \in Nat
  BY <1>7, RecordedFinite
<1>10. Cardinality(RecordedShares) + 1 <= MaxShares
  BY <1>6, <1>9, ToDoFinite, BoundAssumption DEF SharesKept
<1>11. miners'[task[t].miner] \in 1 .. MaxShares
  BY <1>8, <1>9, <1>10, BoundAssumption
<1>12. miners' \in [Miner -> (1 .. MaxShares) \cup {None}]
  BY <1>1, <1>2, <1>11 DEF SharesKept
<1>13. Cardinality(RecordedShares') + Cardinality(ToRecord') <= submitted'
  BY <1>2, <1>5, <1>8, <1>9, ToDoFinite DEF SharesKept
<1>14. total_shares' + Cardinality(ToCount') = Cardinality(RecordedShares')
  BY <1>2, <1>5, <1>8, <1>9, ToDoFinite DEF SharesKept
<1> QED
  BY <1>2, <1>12, <1>13, <1>14 DEF SharesKept

LEMMA CountShares ==
    ASSUME PoolInv, SharesKept, NEW t \in Thread, CountShare(t)
    PROVE  SharesKept'
<1>1. task[t].pc = "stats" /\ task[t] \in TaskShape /\ Goto(t, "len")
      /\ total_shares' = total_shares + 1 /\ UNCHANGED <<miners, submitted>>
  BY DEF CountShare, AtWork, PoolInv, Shape
<1>2. /\ task'[t].pc = "len" /\ \A u \in Thread \ {t} : task'[u] = task[u]
  BY <1>1 DEF Goto, PoolInv, Shape, TaskShape
<1>3. t \in ToCount /\ ToCount' = ToCount \ {t} /\ ToRecord' = ToRecord
  BY <1>1, <1>2 DEF ToRecord, ToCount, AtWork
<1>4. Cardinality(ToCount') = Cardinality(ToCount) - 1
  BY <1>3, ToDoFinite, FS_RemoveElement
<1>5. RecordedShares' = RecordedShares
  BY <1>1 DEF RecordedShares, Accounts
<1>6. total_shares' \in Nat
      /\ total_shares' + Cardinality(ToCount') = Cardinality(RecordedShares')
  BY <1>1, <1>4, <1>5, ToDoFinite DEF SharesKept
<1> QED
  BY <1>1, <1>3, <1>5, <1>6 DEF SharesKept

LEMMA StepShares == PoolInv /\ SharesKept /\ [Next]_vars => SharesKept'
<1> SUFFICES ASSUME PoolInv, SharesKept, [Next]_vars PROVE SharesKept'
  OBVIOUS
<1>1. task \in [Thread -> TaskShape]
  BY DEF PoolInv, Shape
<1>2. ASSUME NEW t \in Thread, NEW pc \in {"insert", "count_work", "idle", "len", "sweep"},
             task[t].pc \notin {"account", "stats"}, task'[t].pc = pc,
             \A u \in Thread \ {t} : task'[u] = task[u],
             UNCHANGED <<miners, submitted, total_shares>>
      PROVE  SharesKept'
  BY <1>2, GoesOnShares, OtherShares
<1>3. ASSUME NEW t \in Thread, TakeId(t) PROVE SharesKept'
  <2>1. task'[t].pc = "insert"
    BY <1>1, <1>3 DEF TakeId, NewTask
  <2> QED
    BY <1>1, <1>2, <1>3, <2>1 DEF TakeId, AtWork, stats
<1>4. ASSUME NEW t \in Thread, InsertWork(t) PROVE SharesKept'
  <2>1. task'[t].pc = "count_work"
    BY <1>1, <1>4 DEF InsertWork, Goto, TaskShape
  <2> QED
    BY <1>1, <1>2, <1>4, <2>1 DEF InsertWork, Goto, AtWork, stats
<1>5. ASSUME NEW t \in Thread, CountWork(t) PROVE SharesKept'
  BY <1>1, <1>2, <1>5, IdleShape DEF CountWork, Return, AtWork
<1>6. ASSUME NEW t \in Thread, StartCount(t) PROVE SharesKept'
  <2>1. task'[t].pc = "len"
    BY <1>1, <1>6 DEF StartCount, Goto, TaskShape
  <2> QED
    BY <1>1, <1>2, <1>6, <2>1 DEF StartCount, Goto, AtWork, stats
<1>7. ASSUME NEW t \in Thread, StartCleanup(t) PROVE SharesKept'
  <2>1. task'[t].pc = "sweep"
    BY <1>1, <1>7 DEF StartCleanup, NewTask
  <2> QED
    BY <1>1, <1>2, <1>7, <2>1 DEF StartCleanup, AtWork, stats
<1>8. ASSUME NEW t \in Thread, CountShard(t) PROVE SharesKept'
  <2>1. task[t].pc = "len" /\ task[t] \in TaskShape
    BY <1>1, <1>8 DEF CountShard, AtWork
  <2>2. /\ \A u \in Thread \ {t} : task'[u] = task[u]
        /\ task'[t].pc \in {"len", "idle"}
    BY <1>1, <2>1, <1>8, IdleShape DEF CountShard, FinishCount, Return, AtWork, TaskShape
  <2> QED
    BY <1>2, <1>8, <2>1, <2>2 DEF CountShard
<1>9. ASSUME NEW t \in Thread, SweepShard(t) PROVE SharesKept'
  <2>1. task[t].pc = "sweep" /\ task[t] \in TaskShape
    BY <1>1, <1>9 DEF SweepShard, AtWork
  <2>2. /\ \A u \in Thread \ {t} : task'[u] = task[u]
        /\ task'[t].pc \in {"sweep", "idle"}
    BY <1>1, <2>1, <1>9, IdleShape DEF SweepShard, Return, AtWork, TaskShape
  <2> QED
    BY <1>2, <1>9, <2>1, <2>2 DEF SweepShard, stats
<1>10. CASE Tick \/ UNCHANGED vars
  BY <1>10, OtherShares DEF Tick, vars, stats, ToRecord, ToCount, AtWork
<1> QED
  BY <1>3, <1>4, <1>5, <1>6, <1>7, <1>8, <1>9, <1>10, CheckWorkShares, RecordShares,
     CountShares DEF Next, Continue

\* The pool's total and the accounts tell the same shares: they differ by the
\* calls that wait for the statistics, and by nothing else.
THEOREM SharesAreCounted == Safe => []SharesCounted
<1>1. SharesKept => SharesCounted
  BY DEF SharesKept, SharesCounted, ToCount
<1> QED
  BY <1>1, InitShares, StepShares, PoolInvariant, PTL DEF Safe

\* The state keeps its types and its bounds: a count of miners never exceeds the
\* miners, and neither the pool nor an account has more shares than were submitted.
THEOREM TypeCorrect == Safe => []TypeOK
<1>1. Typed /\ SharesKept /\ Counted => TypeOK
  <2> SUFFICES ASSUME Typed, SharesKept, Counted PROVE TypeOK
    OBVIOUS
  <2>1. total_work_packages \in 0 .. MaxWork
    <3>1. total_work_packages + Cardinality(Uncounted) = next_work_id - 1
      BY DEF Counted, PackagesCounted, Uncounted
    <3>2. next_work_id \in 1 .. (MaxWork + 1) /\ total_work_packages \in Nat
      BY DEF Typed, Counted
    <3> QED
      BY <3>1, <3>2, UncountedFinite, BoundAssumption
  <2>2. total_shares \in 0 .. MaxShares
    <3>1. Cardinality(RecordedShares) \in Nat
      BY RecordedFinite DEF SharesKept, MinersTyped
    <3> QED
      BY <3>1, ToDoFinite, BoundAssumption DEF SharesKept
  <2> QED
    BY <2>1, <2>2 DEF TypeOK, Typed, SharesKept
<1> QED
  BY <1>1, InitTyped, StepTyped, InitShares, StepShares, InitCounted, StepCounted,
     PoolInvariant, PTL DEF Safe
=============================================================================
