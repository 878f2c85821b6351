CONSTANTS
    CacheLine = 2
    MinLines = 2
    DiskBlock = 4
    DefaultSet = 4
    MaxResults = 4
    StartTime = 2
    Clocks = {1, 2}
    OptionSets <- MCOptionSets
    Probes <- MCProbes
    Samples <- MCSamples
    ForeignDocuments <- MCForeignDocuments

SPECIFICATION Spec

\* The command ends, and with it the request.
CHECK_DEADLOCK FALSE

INVARIANTS
    HandedInOrder
    OkMeansValid
    EngineRunsAccepted
    SelfValidation
    NoRowShadowed
