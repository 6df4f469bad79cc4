SPECIFICATION ServicesSpec
CONSTANTS
    Requests = {r1, r2}
    None = None
    Autos = {a, b}
    First = {a}
    IdleOnly = {a}
    Runs = {1}
    Admins = {e1}
    Heal = heal
    Torn = torn
    MaxEdits = 1
    MaxStops = 2
    Students = {p1, p2}
    Totals = {1, 2}
    MaxGradeCalls = 4
    MaxMarks = 2
    MaxSupportCalls = 4
    Rooms = {m1, m2}
    Opens = 2
    TTL = 1
    Retry = 2
    MaxTime = 4
    MaxAsks = 2
    MaxSyncs = 1
    MaxFaults = 1
    Contacts = {x, y}
    MaxLinkEdits = 1
    MaxAlls = 1
    MaxMatches = 2
PROPERTIES AutomationsKept GradesKept SupportKept RoomsKept MailLinksKept
SYMMETRY NameSymmetry
CHECK_DEADLOCK FALSE
