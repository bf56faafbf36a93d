\* One reader of a resource of the length declared, whose bodies may end early.
SPECIFICATION FairSpec
PROPERTY ShortOnlyAtTheEnd
CONSTANTS
    Readers = {r1}
    Requests <- MCRequests
    FileLen = 4
    SourceLen = 4
    Retries = 2
    MaxReads = 2
CHECK_DEADLOCK FALSE
