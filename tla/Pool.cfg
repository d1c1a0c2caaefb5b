SPECIFICATION Safe
CONSTANTS
    t1 = t1
    t2 = t2
    t3 = t3
    m1 = m1
    m2 = m2
    Thread = {t1, t2, t3}
    Miner <- MCMiner
    None = None
    Shards = 2
    ShardOf <- MCShardOf
    MaxAge = 1
    MaxWork = 2
    MaxShares = 3
    MaxTime = 2
    Width = 16
CHECK_DEADLOCK FALSE
SYMMETRY Threads
INVARIANTS TypeOK PackagesCounted SharesCounted
PROPERTIES InsertsAreNew
