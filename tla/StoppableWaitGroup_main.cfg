SPECIFICATION FairSpec
CONSTANTS
    Procs = {p1, p2, p3}
    Stopper = s
INVARIANTS
    ReturnsOnlyStopped
    WaitsForAll
    CounterExact
PROPERTIES
    WaitReturns
