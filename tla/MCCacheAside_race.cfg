CONSTANTS
    h1 = h1
    h2 = h2
    Handlers <- TwoHandlers
    Queries <- MCQueries
    Machines <- MCMachines
    TTL = 1
    IndexTTL = 2
    Cooldown = 1
    Threshold = 3
    Faults = FALSE
    MaxVersion = 1

SPECIFICATION CacheSpec

INVARIANTS
    CoherentAtRest
