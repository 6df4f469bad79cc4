SPECIFICATION RecordsSpec
CONSTANTS
    Requests = {p1, p2}
    MaxStudents = 2
    MaxNo = 2
    Retry = 0
    Coded = {1}
    Options = {o1, o2}
    PageSize = 2
    MaxPages = 4
    MaxScanned = 5
    Contacts = {k1}
    Students = {s1, s2}
    BuiltIn = {"teacher"}
    Custom = {"phase"}
    MaxConfigs = 2
    MaxRoleEdits = 2
    MaxBlanks = 1
    MaxRoleStops = 1
INVARIANT ScanBounded
PROPERTIES NumbersKept OptionsKept LinksKept RolesKept
SYMMETRY NameSymmetry
CHECK_DEADLOCK FALSE
