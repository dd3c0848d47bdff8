\* The database is closed while jobs run.
SPECIFICATION Spec
CONSTANTS
    MaxEdits = 1
    Valid <- AllGood
INVARIANTS
    JobsStopFirst
CHECK_DEADLOCK FALSE
