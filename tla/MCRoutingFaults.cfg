CONSTANTS
    NetIds <- TwoNetIds
    PhysicalIds = {100}
    VirtualIds = {101}
    Ifaces <- ThreeIfaces
    IfaceOrder <- ThreeInOrder
    InterfaceArgs <- PhysicalAndVpn
    UserArgs = {}
    VolatileIfaces <- NoSet
    TetherArgs <- NoSet
    Uids <- NoSet
    Ranges <- NoSet
    SubPriorities <- NoSet
    RangeArgs <- NoSet
    AllowlistIds = {}
    PermissionArgs = {0}
    LocalArgs = {FALSE}
    VpnArgs <- OneVpn
    IfIndices <- ThreeIndices
    LockdownArgs <- NoSet
    MaxIfIndex = 3
    MaxRules = 60
    MaxFaults = 1
    Addresses <- NoSet
    MAX_OEM_ID = 0
    MaxCopies = 0
SPECIFICATION RoutingSpec
PROPERTIES
    Spec
