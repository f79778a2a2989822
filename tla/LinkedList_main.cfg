SPECIFICATION ListSpec
CONSTANTS
    Vals = {v1, v2, v3}
    MaxSize = 3
    MaxArgs = 2
INVARIANTS
    WellFormed
PROPERTIES
    ImplementsAbstractList
