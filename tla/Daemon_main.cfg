SPECIFICATION FairSpec
CONSTANTS
    ChanCap = 1
    MaxQueue = 2
INVARIANTS
    CallbacksWired
    OnlySendsStall
PROPERTIES
    SignalStops
    StartupEnds
