CONSTANTS
    w1 = w1
    w2 = w2
    w3 = w3
    Main = main
    Workers <- MCWorkers
    Lead = w1
    WarmupTrials = 1
    WarmupFloor = 2
    Trials = 2
    Durations <- MCDurations
    SpawnMayFail = TRUE
    BatchMayThrow = TRUE

SPECIFICATION Spec

CHECK_DEADLOCK FALSE

INVARIANTS
    TrialDataCoherent
    ConsistentStop
    RunsInItsTurn
    WarmUpFirst

PROPERTIES
    Terminates
