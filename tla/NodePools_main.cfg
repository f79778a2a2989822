SPECIFICATION PoolsFairSpec
CONSTANTS
    Nodes = {n1}
    Insts = {i1}
    NoInst = NoInst
    Ctl = Ctl
    Foreign = {}
    ChanCap = 1
    MaxLag = 1
    Pools = {p1}
    NoNode = NoNode
PROPERTIES
    ReleasedDespitePools
