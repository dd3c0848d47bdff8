\* A worker panics: the job loop stops.
SPECIFICATION Spec
CONSTANTS
    h1 = h1
    h2 = h2
    Hashes <- OneHash
    UrlList <- TwoUrls
    HasUrls = TRUE
    N <- JustTwo
    MaxGens = 1
    Hooked = TRUE
    Panics = TRUE
INVARIANTS
    BatchContinuity
CHECK_DEADLOCK FALSE
