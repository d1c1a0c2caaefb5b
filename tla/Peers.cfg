SPECIFICATION Spec
CONSTANTS
    p1 = p1
    p2 = p2
    p3 = p3
    Peer <- MCPeer
    Thread = {t1, t2}
    None = None
    Shards = 2
    ShardOf <- MCShardOf
    MaxPeers = 1
    Timeout = 0
    MaxReputation = 2
    Neutral = 1
    BanBelow = 1
    Amounts = {1}
    MaxTime = 2
SYMMETRY Symmetric
INVARIANTS TypeOK OvershootBounded
PROPERTIES SweepsOnlySilent
