SPECIFICATION Spec
CONSTANTS
    Clients = {c1, c2, c3}
    a1 = a1
    a2 = a2
    Accounts <- MCAccounts
    AccLimit <- MCAccLimit
    Priority <- MCPriority
    KeyLimit = 2
    MaxAttempts = 3
    UnhealthyAfter = 1
    Floor = 0
INVARIANT SlotsBalance
PROPERTY GatesAreSemaphores
SYMMETRY ClientSymmetry
