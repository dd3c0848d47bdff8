\* Both backends, every interleaving of two callers with close and restart.
SPECIFICATION Spec
CONSTANTS
    c1 = c1
    c2 = c2
    h1 = h1
    h2 = h2
    j1 = j1
    j2 = j2
    NoOne = NoOne
    Callers <- MCCallers
    Hashes <- MCHashes
    Batches <- MCBatches
    JobIds <- MCJobIds
    Timestamps <- MCTimestamps
INVARIANTS
    AtMostOnce
    RecordsAreSeen
    NoWorkWhenClosed
    OneRecordPerSeenHash
PROPERTIES
    PromiseSpec
