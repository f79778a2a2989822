SPECIFICATION FairSpec
CONSTANTS
    Callers = {c1, c2}
    MinInterval = 2
INVARIANTS
    WakeupInFlight
PROPERTIES
    CallsServed
    RunsApart
