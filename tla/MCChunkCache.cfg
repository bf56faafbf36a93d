\* Two readers of a file that declares eleven bytes and ends after seven, and a
\* budget of three chunks.
SPECIFICATION FairSpec
INVARIANT AccountingExact
PROPERTY RunStaysResident ImplementsReadAt ReadsEnd
CONSTANTS
    Readers = {r1, r2}
    Requests <- MCRequests
    FileLen = 11
    SourceLen = 7
    ChunkSize = 2
    MaxBytes = 6
    MaxBatchBytes = 8
    BudgetShare = 1
    DenseFactor = 1
    MaxReads = 3
CHECK_DEADLOCK FALSE
