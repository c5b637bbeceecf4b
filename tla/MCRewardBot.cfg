SPECIFICATION Spec
CONSTANTS
    Owner <- MCOwner
    Users <- MCUsers
    EpochSlots = 180
    BlockSlots = 60
    MaxTxs = 3
    Scenarios <- MCScenarios
INVARIANTS
    PaidExactlyOnce
    IndexesFollowChain
    CosignedChainsPayOnce
    NothingForgotten
CHECK_DEADLOCK FALSE
