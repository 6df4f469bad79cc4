SPECIFICATION Spec
CONSTANTS
    Phones = {c1}
    MaxRows = 4
    MaxDeleted = 1
INVARIANT RecordedOnce
CHECK_DEADLOCK FALSE
