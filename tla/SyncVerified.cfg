SPECIFICATION Safe
CONSTANTS
    c1 = c1
    c2 = c2
    c3 = c3
    t1 = t1
    t2 = t2
    Sequence = {1, 2}
    Content <- MCContent
    Valid <- MCValid
    Transaction <- MCTransaction
    Listed <- MCListed
    None = None
    MaxRequests = 2
    RetryLimit = 1
    MaxId = 1
    MaxAnswers = 2
CHECK_DEADLOCK FALSE
PROPERTIES AppliesVerified
