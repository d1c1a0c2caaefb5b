SPECIFICATION Spec
CONSTANTS
    Peer = {p1}
    Thread = {t1, t2, t3}
    None = None
    MaxScore = 4
    Neutral = 2
    DecayRate = 1
    BanThreshold = 1
    BanDuration = 2
    Hour = 1
    Byte = 5
    Amounts = {1, 3}
    MaxTime = 5
SYMMETRY Threads
INVARIANTS TypeOK LowIsBanned
PROPERTIES BansLast DecayTowardsNeutral
