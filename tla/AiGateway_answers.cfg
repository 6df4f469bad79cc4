SPECIFICATION FairSpec
CONSTANTS
    Clients = {c1, c2}
    a1 = a1
    a2 = a2
    Accounts <- MCAccounts
    AccLimit <- MCAccLimit
    Priority <- MCPriority
    KeyLimit = 2
    MaxAttempts = 3
    UnhealthyAfter = 2
    Floor = 0
INVARIANT AnswersOnRecord
PROPERTIES NoSecondAnswer EveryRequestEnds
