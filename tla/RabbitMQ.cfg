\* One caller and three connections: losses before, during and after a repair.
CONSTANTS
    p1 = p1
    Producers = {p1}
    MaxConns = 3
SPECIFICATION FairSpec
INVARIANTS
    TypeOK
    NoLostWakeup
PROPERTIES
    ClosedForGood
    LossIsRepaired
    ProduceRepairs
    ProduceReturns
