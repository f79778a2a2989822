SPECIFICATION ManagersSpec
CONSTANTS
    n1 = n1
    ns1 = ns1
    Subnets = {default}
    Default = default
    NoSubnat = NoSubnat
    Nodes = {n1}
    Spaces = {ns1}
    Specs <- MCSpecs
    ChanCap = 1
PROPERTIES
    OnlySendsBlock
    ImplementsVpcManager
