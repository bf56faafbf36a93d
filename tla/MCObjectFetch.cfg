\* Two requests at once or in a row, one failed read, and depth four of a
\* resolved chain, of files that are opened encrypted or not.
SPECIFICATION FairSpec
CONSTANTS
    Nums = {1, 2, 3, 4, 5}
    Files <- MCFiles
    Modes = {"async", "sync"}
    Tasks = {t1, t2}
    Opener = t1
    MaxDepth = 4
    MaxRequests = 2
    MaxFaults = 1
    t1 = t1
    t2 = t2
INVARIANTS NoCiphertextLeft CacheIsTransparent AnswersAreOfTheFile NoReentry
PROPERTY FetchesEnd
CHECK_DEADLOCK FALSE
