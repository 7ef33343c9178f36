CONSTANTS
    NetIds <- OneNetId
    PhysicalIds = {100}
    VirtualIds = {}
    Ifaces <- ThreeIfaces
    IfaceOrder <- ThreeInOrder
    InterfaceArgs <- PhysicalOrLocal
    UserArgs = {}
    VolatileIfaces <- WlanOnly
    TetherArgs <- Tethering
    Uids <- NoSet
    Ranges <- NoSet
    SubPriorities <- NoSet
    RangeArgs <- NoSet
    AllowlistIds = {}
    PermissionArgs = {0}
    LocalArgs = {TRUE, FALSE}
    VpnArgs <- OneVpn
    IfIndices <- FourIndices
    LockdownArgs <- NoSet
    MaxIfIndex = 4
    MaxRules = 60
    MaxFaults = 0
    Addresses <- NoSet
    MAX_OEM_ID = 0
    MaxCopies = 0
SPECIFICATION RoutingSpec
INVARIANTS
    NoStaleTable
