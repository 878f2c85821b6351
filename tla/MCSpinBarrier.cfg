CONSTANTS
    main = main
    w1 = w1
    w2 = w2
    Procs <- MCProcs
    Modulus <- MCModulus

SPECIFICATION Spec

INVARIANTS
    SoleLeader

PROPERTIES
    StampBeforeRelease
    ImplementsBarrier
    EveryoneReleased
