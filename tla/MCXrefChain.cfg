\* All files of four sections, both documents, and one read that fails.
SPECIFICATION FairSpec
CONSTANTS
    Offsets = {1, 2, 3, 4}
    Nums = {1, 2}
    Files <- MCFiles
    Starts = {1}
    MaxFaults = 1
INVARIANTS NewestRevisionWins DocumentsAgree
PROPERTY WalksEnd
CHECK_DEADLOCK FALSE
