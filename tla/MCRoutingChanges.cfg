CONSTANTS
    NetIds <- ThreeNetIds
    PhysicalIds = {100, 101}
    VirtualIds = {102}
    Ifaces <- FourIfaces
    IfaceOrder <- FourInOrder
    InterfaceArgs <- OneInterfaceEach
    UserArgs = {}
    VolatileIfaces <- NoSet
    TetherArgs <- NoSet
    Uids <- NoSet
    Ranges <- NoSet
    SubPriorities <- NoSet
    RangeArgs <- NoSet
    AllowlistIds = {}
    PermissionArgs <- OpenAndSystem
    LocalArgs = {FALSE}
    VpnArgs <- OneVpn
    IfIndices <- FourIndices
    LockdownArgs <- NoSet
    MaxIfIndex = 4
    MaxRules = 60
    MaxFaults = 0
    Addresses <- NoSet
    MAX_OEM_ID = 0
    MaxCopies = 0
SPECIFICATION RoutingSpec
INVARIANTS
    RulesMatchNetworks
    SelectedNetworkIsAlwaysRouted
    DefaultIsAlwaysRouted
