\* Three writes or renames, the second broken, with shutdown at any time (the process ends).
SPECIFICATION FairSpec
CONSTANTS
    MaxEdits = 3
    Valid <- SecondIsBad
INVARIANTS
    OneGeneration
    NoticedIsPending
    JobsKeepRunning
PROPERTIES
    SavesAreLoaded
CHECK_DEADLOCK FALSE
