\* Two downloads of a file of at most five bytes in messages of two; the file
\* grows and is cut, and either side may close.  The bound on calls ends the run.
CONSTANTS
    INT = 2
    MAX_BUF_LENGTH = 6
    FileSizes = {0, 2, 3, 5}
    InFlight = 5
    MaxCalls = 2
SPECIFICATION FairSpec
INVARIANTS
    TypeOK
    FaithfulCopy
    InStep
PROPERTY
    TransferEnds
CHECK_DEADLOCK FALSE
