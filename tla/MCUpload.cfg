CONSTANTS
    p1 = p1
    p2 = p2
    p3 = p3
    Requests <- MCRequests
    Runs <- MCRuns
    Machines = {"m"}
    MachineOf <- MCMachineOf
    Started <- MCStarted
    Finished <- MCFinished
    Chunks <- MCChunks
    CopyBatchRows = 2
    Addresses <- MCAddresses
    MaxPosts <- MCMaxPosts

SPECIFICATION UploadSpec

\* The last post may have ended.
CHECK_DEADLOCK FALSE

INVARIANTS
    ExitZeroMeansStored
    AnsweredMeansStored
    FastPathIsAlone
    SeenSpansRuns

PROPERTIES
    CountsAreExact
    EveryRequestAnswered
    UploadImplementsRunStore
    UploadEnds
