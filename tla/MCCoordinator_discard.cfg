CONSTANTS
    Groups <- MCGroups
    WarmupTrials = 1
    Trials = 2
    CanaryRetries = 1
    Deadlines <- MCOnlyDeadlines
    Budgets <- MCNoBudgets
    Writes <- MCNoWrites
    MaxTime = 2

SPECIFICATION Spec

INVARIANTS
    PartialRatherThanNone
