SPECIFICATION TeachingSpec
CONSTANTS
    Callers = {c1, c2}
    JobSet <- MCJobs
    FirstMinute = 1405
    Horizon = 40
    MaxStops = 1
    Lessons = {1, 2, 3}
    Slots <- MCSlots
    LessonPage = 2
    MaxEdits = 1
    MaxMoves = 2
    Users = {u1, u2, u3}
    Nobody = Nobody
    MaxWrites = 5
    Rates = {1}
    MaxBills = 2
    BillPage = 1
    MaxCalls = 3
    MaxRows = 4
    MaxDeleted = 1
PROPERTIES TasksKept BookingsKept LedgersKept
SYMMETRY CallerSymmetry
CHECK_DEADLOCK FALSE
