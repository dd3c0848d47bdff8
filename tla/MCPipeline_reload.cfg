\* Two workers share two urls; a reload cuts a cycle anywhere and leaves one worker.
SPECIFICATION Spec
CONSTANTS
    h1 = h1
    h2 = h2
    Hashes <- OneHash
    UrlList <- TwoUrls
    HasUrls = TRUE
    N <- TwoThenOne
    MaxGens = 2
    Hooked = TRUE
    Panics = FALSE
INVARIANTS
    FinishedIsLast
    UrlsShared
    TellsOnlySeen
PROPERTIES
    ToldOnce
