SPECIFICATION FairSpec
CONSTANTS
    Files = {f1, f2}
    MaxLate = 2
INVARIANT LostToOwnPastOnly
PROPERTY NothingLeftLocked
