\* A page whose own dictionary names the page.
SPECIFICATION Spec
CONSTANTS
    root = root
    tree = tree
    p = p
    q = q
    a = a
    NoObj = NoObj
    Objects = {root, tree, p, q, a}
    Root = root
    Files <- MCFiles
    MaxImporters = 1
    MaxCalls = 1
INVARIANTS FirstImportKeepsIdentity
CHECK_DEADLOCK FALSE
