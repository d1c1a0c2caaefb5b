SPECIFICATION Spec
CONSTANTS
    Peer = {p1}
    Thread = {t1, t2}
    None = None
    MaxErrorsBeforeBan = 1
    InitialDelay = 20
    MaxDelay = 80
    MaxHistory = 2
    Errors = {"ConnectionTimeout", "PeerDisconnected", "CriticalError", "ResourceExhaustion"}
    EnableAlerts = TRUE
    MaxErrors = 3
INVARIANTS CountersMatchLog HistoryIsNewest ReconnectsBounded
PROPERTIES BackoffGrows HandleReturns
