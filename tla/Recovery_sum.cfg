SPECIFICATION RecoverySpec
CONSTANTS
    Workers = {w1}
    Prober = prober
    Refresher = refresher
    UnhealthyAfter = 2
    Cooldowns = {"rateUntil"}
    MaxCool = 2
    DayLength = 1
    MonthLength = 2
    DayLimit = 1
    NewAccount <- MCNewAccount
    Horizon = 2
    MaxEvents = 3
    Notes = {n1}
    Viewers = {v1}
    Jobs = {j1, j2}
    Nightly = j1
    MaxRev = 2
    MaxOpens = 2
    MaxFailures = 1
    Rounds = {"timer", "hand"}
    MaxMails = 2
    MaxFaults = 1
    MaxButtons = 1
INVARIANTS TypeInv ListAgreesWithGateway
PROPERTIES NoCooldownLost AccountsRecover StoresKept StoresComplete
CHECK_DEADLOCK FALSE
