SPECIFICATION Spec
CONSTANTS
    Topic = {t1, t2}
    Standard = {t1}
    Id = {m1, m2, m3, m4, m5}
    MaxCache = 4
    Fraction = 2
    TTL = 2
    MaxTime = 3
    MaxMessages = 3
SYMMETRY Ids
INVARIANTS TypeOK CacheBounded TotalsCoverTopics
PROPERTY RememberedWhileYoung
