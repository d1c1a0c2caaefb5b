SPECIFICATION Safe
CONSTANTS
    Addr = {a1, a2}
    None = None
    FailLimit = 1
    ReconnectLimit = 3
    CanReset = FALSE
    Dialer = {d1, d2}
    Session = {s1}
    MaxPermits = 1
    MaxCalls = 3
    MaxReceived = 1
    Caster = {}
    MaxRetries = 0
    InitialBackoff = 1
    BackoffCap = 3
SYMMETRY Symmetry
INVARIANTS ConnectedIsSound PermitAccounting PeerCountKept
PROPERTIES OnlyAddPeerCreates ConnectionsAreLimited
