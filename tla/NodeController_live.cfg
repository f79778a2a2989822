SPECIFICATION FairSpec
CONSTANTS
    Nodes = {n1}
    Insts = {i1}
    NoInst = NoInst
    Ctl = Ctl
    Foreign = {f}
    ChanCap = 1
    MaxLag = 1
INVARIANTS
    TypeOK
    AnnouncedNodesKnown
    FlaggedGuardedIsDeleting
PROPERTIES
    NeverStripLive
    AnnouncementsDelivered
    LiveNodesGuarded
    DeletingNodesReleased
