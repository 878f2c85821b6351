CONSTANTS
    t1 = t1
    t2 = t2
    Txns <- MCTxns
    RowsOf <- MCRowsOf
    Values <- MCValues
    PageLimit = 2
    TrialsLimit = 6
    Thresholds <- MCThresholds
    MayRoundDown = TRUE

SPECIFICATION Spec

INVARIANTS
    WalkComplete
    SeriesExact
