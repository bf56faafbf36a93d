\* Six keys while passes run and a page's contents load, fail and are retried, under
\* fairness of the background tasks.
SPECIFICATION FairSpec
CONSTANTS
    o1 = o1
    missing = missing
    NoRef = NoRef
    Physical <- MCPhysical
    Logical <- MCLogical
    PageContents <- MCContents
    Refs = {o1, missing}
    Batch = 2
    HistoryCap = 2
    MaxKeys = 6
INVARIANTS InspectorFollowsSelection RetriesLoadOnce
PROPERTIES DeferredJumpTaken ObjectsGetShown
CHECK_DEADLOCK FALSE
