CONSTANTS
    Ids = {a}
    Syncers = {s}
    MaxRev = 2
    MaxEdits = 2
    Scheduler = scheduler
    Absent = Absent
SPECIFICATION FairSpec
INVARIANTS TypeOK StatusHonest
PROPERTIES DetectOnlyUntouched SyncKeepsSources AutoSyncConverges
CHECK_DEADLOCK FALSE
