SPECIFICATION Spec
CONSTANTS
    Addr = {a1}
    None = None
    FailLimit = 1
    ReconnectLimit = 2
    CanReset = TRUE
    Dialer = {d1, d2}
    Session = {s1}
    MaxPermits = 2
    MaxCalls = 3
    MaxReceived = 0
    Caster = {}
    MaxRetries = 2
    InitialBackoff = 1
    BackoffCap = 3
INVARIANT PeerCountKept
PROPERTIES ConnectReturns SessionServed
