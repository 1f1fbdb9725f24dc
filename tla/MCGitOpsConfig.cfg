CONSTANTS
    Ids = {a, b}
    Syncers = {s}
    MaxRev = 2
    MaxEdits = 1
    Scheduler = scheduler
    Absent = Absent
SPECIFICATION Spec
PROPERTY WorkersKeepConfig
CHECK_DEADLOCK FALSE
