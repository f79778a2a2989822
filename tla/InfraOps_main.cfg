SPECIFICATION FairSpec
CONSTANTS
    n1 = n1
    m1 = m1
    m2 = m2
    NoSet = NoSet
    Workers = {w1, w2}
    Nodes = {n1}
    Mains = {m1, m2}
    Ports <- MCPorts
    Present <- MCPresent
    Events <- MCEvents
    ChanCap = 1
    PoolCap = 2
    MaxSent = 2
CHECK_DEADLOCK FALSE
INVARIANTS
    CountsCallbacks
    CreatorsNeverList
PROPERTIES
    WorkEnds
    TasksEnd
