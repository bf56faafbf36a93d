\* Two sources into one writer, three calls.
SPECIFICATION FairSpec
CONSTANTS
    root = root
    tree = tree
    p = p
    q = q
    a = a
    NoObj = NoObj
    Objects = {root, tree, p, q, a}
    Root = root
    Files <- MCFiles
    MaxImporters = 2
    MaxCalls = 3
INVARIANTS NeverFilledTwice HolesAccountedFor CopyHasTheShape PagesAreTheirOwn
PROPERTIES CallsReturn
CHECK_DEADLOCK FALSE
