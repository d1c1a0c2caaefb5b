SPECIFICATION Spec
CONSTANTS
    t1 = t1
    t2 = t2
    t3 = t3
    m1 = m1
    m2 = m2
    Thread = {t1}
    Miner <- MCMiner
    None = None
    Shards = 2
    ShardOf <- MCShardOf
    MaxAge = 1
    MaxWork = 1
    MaxShares = 1
    MaxTime = 0
    Width = 16
CHECK_DEADLOCK FALSE
PROPERTIES ShareReturns
