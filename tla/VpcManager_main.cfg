SPECIFICATION HistorySpec
CONSTANTS
    n1 = n1
    ns1 = ns1
    Subnets = {default}
    Default = default
    Nodes = {n1}
    Spaces = {ns1}
    Specs <- MCSpecs
INVARIANTS
    SettledIsCovered
    SelectsOnlyAsked
PROPERTIES
    SubnetsRegistered
