------------------------------- MODULE MiningPool ------------------------------
(***************************************************************************)
(* MiningPool: MiningPoolManager as threads share it.                      *)
(*                                                                         *)
(* Both maps are DashMaps: an array of shards, each behind a lock that is  *)
(* not reentrant.  A call on one key locks its shard; len() and retain()   *)
(* lock the shards one after the other.  A guard that a call keeps is held *)
(* until the call returns: submit_share keeps the write guard of its       *)
(* miner's shard and the write lock of the statistics while it asks for    *)
(* the length of the map of miners.                                        *)
(***************************************************************************)
EXTENDS Integers, FiniteSets

CONSTANTS
    Thread, Miner, None,
    Shards,          \* number of shards of a DashMap
    ShardOf,         \* the shard of a miner's account
    MaxAge,          \* max_age_secs of cleanup_old_work
    MaxWork,         \* bound: packages ever distributed
    MaxShares,       \* bound: shares ever submitted
    MaxTime,         \* bound: seconds that pass
    Width            \* 2^64: seconds are unsigned

ASSUME ShardAssumption == Shards \in Nat \ {0} /\ ShardOf \in [Miner -> 1 .. Shards]
ASSUME BoundAssumption ==
          /\ MaxAge \in Nat /\ MaxWork \in Nat /\ MaxShares \in Nat
          /\ MaxTime \in Nat /\ Width \in Nat /\ MaxTime + MaxAge < Width
ASSUME FiniteAssumption == IsFiniteSet(Thread) /\ IsFiniteSet(Miner)

Work == 1 .. MaxWork

ASSUME NoneAssumption == None \notin Thread \cup Miner \cup Nat

VARIABLES
    work_packages,   \* created_at of each package that is there, else None
    miners,          \* total_shares of each miner, None without an account
    total_work_packages,
    total_shares,
    active_miners,
    next_work_id,
    shard_guard,     \* who holds the write guard of a shard of miners
    stats_guard,     \* who holds the write lock of the statistics
    task,            \* what each thread is doing
    now,             \* seconds of the system clock
    submitted        \* shares submitted so far

stats == <<total_work_packages, total_shares, active_miners>>
guards == <<shard_guard, stats_guard>>
vars == <<work_packages, miners, stats, next_work_id, guards, task, now, submitted>>

\* at: the shard a sweep or a count has come to; read: the clock it read;
\* count: accounts counted so far.
Task ==
    [pc : {"idle", "insert", "count_work", "account", "stats", "len", "sweep"},
     work : Work \cup {None}, miner : Miner \cup {None},
     at : 1 .. Shards, read : 0 .. MaxTime, count : 0 .. Cardinality(Miner)]

NewTask(pc, w, m, read) ==
    [pc |-> pc, work |-> w, miner |-> m, at |-> 1, read |-> read, count |-> 0]

IdleTask == NewTask("idle", None, None, 0)

AtWork(t, pc) == task[t].pc = pc

Goto(t, pc) == task' = [task EXCEPT ![t].pc = pc]

Return(t) == task' = [task EXCEPT ![t] = IdleTask]

Accounts == {m \in Miner : miners[m] # None}

\* active_miner_count
AccountsIn(s) == {m \in Accounts : ShardOf[m] = s}

WorkIn(s) == {w \in Work : work_packages[w] # None /\ (w % Shards) + 1 = s}

\* `read - created_at` as an unsigned number.
Age(w, read) == (read - work_packages[w]) % Width

Init ==
    /\ work_packages = [w \in Work |-> None]
    /\ miners = [m \in Miner |-> None]
    /\ total_work_packages = 0
    /\ total_shares = 0
    /\ active_miners = 0
    /\ next_work_id = 1
    /\ shard_guard = [s \in 1 .. Shards |-> None]
    /\ stats_guard = None
    /\ task = [t \in Thread |-> IdleTask]
    /\ now = 0
    /\ submitted = 0

-----------------------------------------------------------------------------
(* distribute_work *)

\* Variant: the id is loaded and stored, and another thread's store is lost.
TakeIdTorn(t) ==
    /\ AtWork(t, "idle") /\ next_work_id <= MaxWork
    /\ next_work_id' = IF \E u \in Thread : AtWork(u, "insert")
                         THEN next_work_id ELSE next_work_id + 1
    /\ task' = [task EXCEPT ![t] = NewTask("insert", next_work_id, None, now)]
    /\ UNCHANGED <<work_packages, miners, stats, guards, now, submitted>>

\* The id is fetched and incremented at once; then the clock is read.
TakeId(t) ==
    /\ AtWork(t, "idle") /\ next_work_id <= MaxWork
    /\ next_work_id' = next_work_id + 1
    /\ task' = [task EXCEPT ![t] = NewTask("insert", next_work_id, None, now)]
    /\ UNCHANGED <<work_packages, miners, stats, guards, now, submitted>>

\* Variant: the package is not counted in the statistics.
InsertUncounted(t) ==
    /\ AtWork(t, "insert")
    /\ work_packages' = [work_packages EXCEPT ![task[t].work] = task[t].read]
    /\ Return(t)
    /\ UNCHANGED <<miners, stats, next_work_id, guards, now, submitted>>

InsertWork(t) ==
    /\ AtWork(t, "insert")
    /\ work_packages' = [work_packages EXCEPT ![task[t].work] = task[t].read]
    /\ Goto(t, "count_work")
    /\ UNCHANGED <<miners, stats, next_work_id, guards, now, submitted>>

CountWork(t) ==
    /\ AtWork(t, "count_work") /\ stats_guard = None
    /\ total_work_packages' = total_work_packages + 1
    /\ Return(t)
    /\ UNCHANGED <<work_packages, miners, total_shares, active_miners, next_work_id,
                   guards, now, submitted>>

-----------------------------------------------------------------------------
(* submit_share *)

\* A share of unknown work is rejected at once, else the account comes next.
CheckWork(t, m, w) ==
    /\ AtWork(t, "idle") /\ submitted < MaxShares
    /\ submitted' = submitted + 1
    /\ task' = IF work_packages[w] = None THEN task
               ELSE [task EXCEPT ![t] = NewTask("account", w, m, 0)]
    /\ UNCHANGED <<work_packages, miners, stats, next_work_id, guards, now>>

\* Get or create the account and record the share in it; the guard is kept.
RecordShare(t) ==
    LET m == task[t].miner
    IN  /\ AtWork(t, "account") /\ shard_guard[ShardOf[m]] = None
        /\ shard_guard' = [shard_guard EXCEPT ![ShardOf[m]] = t]
        /\ miners' = [miners EXCEPT ![m] = IF @ = None THEN 1 ELSE @ + 1]
        /\ Goto(t, "stats")
        /\ UNCHANGED <<work_packages, stats, next_work_id, stats_guard, now, submitted>>

\* Variant: a share is not added to the statistics of the pool.
CountShareLost(t) ==
    /\ AtWork(t, "stats") /\ stats_guard = None
    /\ stats_guard' = t
    /\ Goto(t, "len")
    /\ UNCHANGED <<work_packages, miners, stats, next_work_id, shard_guard, now, submitted>>

CountShare(t) ==
    /\ AtWork(t, "stats") /\ stats_guard = None
    /\ stats_guard' = t
    /\ total_shares' = total_shares + 1
    /\ Goto(t, "len")
    /\ UNCHANGED <<work_packages, miners, total_work_packages, active_miners,
                   next_work_id, shard_guard, now, submitted>>

-----------------------------------------------------------------------------
(* active_miner_count, and len() within submit_share *)

StartCount(t) ==
    /\ AtWork(t, "idle")
    /\ Goto(t, "len")
    /\ UNCHANGED <<work_packages, miners, stats, next_work_id, guards, now, submitted>>

\* A share is done when its length is known: the guards go with the call.
FinishCount(t, count) ==
    /\ Return(t)
    /\ IF task[t].miner = None THEN UNCHANGED <<active_miners, guards>>
       ELSE /\ active_miners' = count
            /\ shard_guard' = [shard_guard EXCEPT ![ShardOf[task[t].miner]] = None]
            /\ stats_guard' = None

\* Variant: the count runs past the last shard.
CountBeyond(t) ==
    /\ AtWork(t, "len")
    /\ task[t].at \in 1 .. Shards => shard_guard[task[t].at] = None
    /\ task' = [task EXCEPT ![t].at = @ + 1]
    /\ UNCHANGED <<work_packages, miners, stats, next_work_id, guards, now, submitted>>

\* The read lock of a shard is granted when nobody holds its write guard, the
\* thread that asks for it included.
CountShard(t) ==
    LET s == task[t].at
        count == task[t].count + Cardinality(AccountsIn(s))
    IN  /\ AtWork(t, "len") /\ shard_guard[s] = None
        /\ IF s = Shards THEN FinishCount(t, count)
           ELSE /\ task' = [task EXCEPT ![t].at = s + 1, ![t].count = count]
                /\ UNCHANGED <<active_miners, guards>>
        /\ UNCHANGED <<work_packages, miners, total_work_packages, total_shares,
                       next_work_id, now, submitted>>

-----------------------------------------------------------------------------
(* cleanup_old_work *)

\* The clock is read once, before the first shard is locked.
StartCleanup(t) ==
    /\ AtWork(t, "idle")
    /\ task' = [task EXCEPT ![t] = NewTask("sweep", None, None, now)]
    /\ UNCHANGED <<work_packages, miners, stats, next_work_id, guards, now, submitted>>

SweepShard(t) ==
    LET s == task[t].at
    IN  /\ AtWork(t, "sweep")
        /\ work_packages' =
              [w \in Work |-> IF w \in WorkIn(s) /\ ~(Age(w, task[t].read) < MaxAge)
                                THEN None ELSE work_packages[w]]
        /\ IF s = Shards THEN Return(t) ELSE task' = [task EXCEPT ![t].at = s + 1]
        /\ UNCHANGED <<miners, stats, next_work_id, guards, now, submitted>>

Tick ==
    /\ now < MaxTime
    /\ now' = now + 1
    /\ UNCHANGED <<work_packages, miners, stats, next_work_id, guards, task, submitted>>

\* The steps that go on with a call once it has begun.
Continue(t) ==
    \/ InsertWork(t)
    \/ CountWork(t)
    \/ RecordShare(t)
    \/ CountShare(t)
    \/ CountShard(t)
    \/ SweepShard(t)

Next ==
    \/ \E t \in Thread :
          \/ Continue(t)
          \/ TakeId(t)
          \/ \E m \in Miner, w \in Work : CheckWork(t, m, w)
          \/ StartCount(t)
          \/ StartCleanup(t)
    \/ Tick

Safe == Init /\ [][Next]_vars

\* Threads run, and a lock that is free again and again is granted.
Spec == Safe /\ \A t \in Thread : SF_vars(Continue(t))

-----------------------------------------------------------------------------
TypeOK ==
    /\ work_packages \in [Work -> (0 .. MaxTime) \cup {None}]
    /\ miners \in [Miner -> (1 .. MaxShares) \cup {None}]
    /\ total_work_packages \in 0 .. MaxWork
    /\ total_shares \in 0 .. MaxShares
    /\ active_miners \in 0 .. Cardinality(Miner)
    /\ next_work_id \in 1 .. (MaxWork + 1)
    /\ shard_guard \in [1 .. Shards -> Thread \cup {None}]
    /\ stats_guard \in Thread \cup {None}
    /\ task \in [Thread -> Task]
    /\ now \in 0 .. MaxTime
    /\ submitted \in 0 .. MaxShares

\* A package is counted once it is there: the counter is behind the ids
\* handed out by exactly the calls that have not come to count theirs.
PackagesCounted ==
    total_work_packages
      + Cardinality({t \in Thread : task[t].pc \in {"insert", "count_work"}})
        = next_work_id - 1

\* The shares the accounts record, for each miner the first, the second, ...
RecordedShares == UNION {{m} \X (1 .. miners[m]) : m \in Accounts}

\* The pool's total is behind the accounts' by exactly the calls that have
\* recorded their share and wait for the statistics.
SharesCounted ==
    total_shares + Cardinality({t \in Thread : AtWork(t, "stats")})
      = Cardinality(RecordedShares)

\* "Unique work ID": a package never takes the place of another.
InsertsAreNew ==
    [][\A w \in Work :
          work_packages[w] # None => work_packages'[w] \in {work_packages[w], None}]_vars

-----------------------------------------------------------------------------
(* What the documentation and the tests say and the code does not do. *)

\* assert!(pool.submit_share(share)): a share that is submitted for known work
\* is recorded and the call returns.
ShareReturns == \A t \in Thread : AtWork(t, "account") ~> AtWork(t, "idle")
=============================================================================
