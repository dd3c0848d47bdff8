\* Workers without hooks that may panic, and a reload.  After the last
\* reload a panic stops the job for good: the system may deadlock.
SPECIFICATION FairSpec
CONSTANTS
    h1 = h1
    h2 = h2
    Hashes <- TwoHashes
    UrlList <- OneUrl
    HasUrls = FALSE
    N <- OneThenOne
    MaxGens = 2
    Hooked = FALSE
    Panics = TRUE
PROPERTIES
    CyclesEnd
    CancelledEnds
CHECK_DEADLOCK FALSE
