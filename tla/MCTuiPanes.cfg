\* Five keys and resizes while answers come in any order or fail, a document
\* without pages and one with two.
SPECIFICATION FairSpec
CONSTANTS
    Sources <- MCSources
    Nodes <- MCNodes
    NoSource = none
    none = none
    PageCounts = {0, 2}
    Sizes <- MCSizes
    Window = 2
    Debounce = 2
    MaxKeys = 5
INVARIANTS PanesShowTheirPage PreviewFitsThePane PanesFollowSelection HexShowsItsSource
PROPERTY PanesSettle
CHECK_DEADLOCK FALSE
