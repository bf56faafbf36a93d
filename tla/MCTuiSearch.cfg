\* Five keys: up to three searches at once, cancelled, accepted and reopened,
\* under fairness of the tasks and the event loop.
SPECIFICATION FairSpec
CONSTANTS
    a = a
    o1 = o1
    o2 = o2
    o3 = o3
    Chars = {a}
    Objects <- MCObjects
    Matches <- MCMatches
    MaxQuery = 2
    MaxKeys = 5
INVARIANT HitsOfTheQuery
PROPERTIES SearchEnds
CHECK_DEADLOCK FALSE
