CONSTANTS
    Groups <- MCGroups
    WarmupTrials = 1
    Trials = 2
    CanaryRetries = 1
    Deadlines <- MCDeadlines
    Budgets <- MCBudgets
    Writes <- MCWrites
    MaxTime = 2

SPECIFICATION Spec

INVARIANTS
    EnvelopeWhole
    SummariesMatchRows
    CompleteUnlessStopped
    StopsInTime

PROPERTIES
    Terminates
