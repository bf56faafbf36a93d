\* Two concurrent readers, three reads, of a resource longer than declared
\* whose bodies may end early.
SPECIFICATION FairSpec
INVARIANT RacingBodiesAgree
PROPERTY ImplementsShortReads TransientErrorsAreHidden ReadsEnd
CONSTANTS
    Readers = {r1, r2}
    Requests <- MCRequests
    FileLen = 3
    SourceLen = 4
    Retries = 2
    MaxReads = 3
CHECK_DEADLOCK FALSE
