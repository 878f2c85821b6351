CONSTANTS
    q1 = q1
    q2 = q2
    up1 = up1
    up2 = up2
    Requests <- MCRequests
    Migrators <- MCMigrators
    MaxConns = 1
    MaxLoad = 4

SPECIFICATION Spec

\* Everything may have ended.
CHECK_DEADLOCK FALSE

INVARIANTS
    ResponseWellFormed
    DrainLosesNothing
    RecordMatchesSchema

PROPERTIES
    ShutdownEnds
    NobodyWaitsForever
