SPECIFICATION FairSpec
CONSTANTS
    Nodes = {n1}
    Insts = {i1}
    NoInst = NoInst
    Ctl = Ctl
    Foreign = {}
    ChanCap = 1
    MaxLag = 1
PROPERTIES
    CallbackHears
