SPECIFICATION CountersSpec
CONSTANTS
    Clients = {c1, c2, c3}
    Limit = 2
    TTL = 3
    MaxOpened = 2
    MaxLeaked = 2
    MaxForgotten = 2
    Requests = {r1, r2, r3}
    Quota = 2
    LastPeriod = 2
    MaxAdmitted = 5
    Callers = {k1, k2}
    Addresses = {i1, i2}
    Scopes = {"impersonate", "apitoken"}
    IpLimit = 1
    AllLimit = 3
    Window = 2
    MaxCount = 4
    MaxFails = 2
    LockTTL = 2
    UnlockTTL = 1
    FlushTTL = 2
    MaxCalls = 5
    PerTick = 3
    MaxFaults = 1
INVARIANTS TypeInv CounterDrift OverAdmissionBounded
INVARIANTS TierSafe LoginSafe GateSafe UsesSafe
PROPERTIES IsSemaphore RefusalJustified CountersSettle
CHECK_DEADLOCK FALSE
