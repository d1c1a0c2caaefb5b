SPECIFICATION Spec
CONSTANTS
    Addr = {a1, a2}
    None = None
    FailLimit = 1
    ReconnectLimit = 2
    CanReset = FALSE
    Dialer = {d1}
    Session = {}
    MaxPermits = 2
    MaxCalls = 3
    MaxReceived = 0
    Caster = {c1, c2}
    MaxRetries = 3
    InitialBackoff = 2
    BackoffCap = 3
INVARIANTS TypeOK SentAccounting RetryAccounting
PROPERTY BroadcastReturns
