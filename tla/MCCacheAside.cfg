CONSTANTS
    h1 = h1
    h2 = h2
    Handlers <- TwoHandlers
    Queries <- MixedQueries
    Machines <- MCMachines
    TTL = 1
    IndexTTL = 2
    Cooldown = 1
    Threshold = 2
    Faults = TRUE
    MaxVersion = 1

SPECIFICATION CacheSpec

PROPERTIES
    EveryRequestAnswered
    StalenessHeals
