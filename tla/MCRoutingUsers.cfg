CONSTANTS
    NetIds <- TwoNetIds
    PhysicalIds = {100, 101}
    VirtualIds = {101}
    Ifaces <- ThreeIfaces
    IfaceOrder <- ThreeInOrder
    InterfaceArgs <- PhysicalAndVpn
    UserArgs <- UsersOfEach
    VolatileIfaces <- NoSet
    TetherArgs <- NoSet
    Uids <- SystemAndApp
    Ranges <- OneRange
    SubPriorities = {0, 1, 999}
    RangeArgs <- OneCopy
    AllowlistIds = {}
    PermissionArgs = {0}
    LocalArgs = {FALSE}
    VpnArgs <- SecureOrBypassable
    IfIndices <- ThreeIndices
    LockdownArgs <- OneRange
    MaxIfIndex = 3
    MaxRules = 60
    MaxFaults = 0
    Addresses <- NoSet
    MAX_OEM_ID = 0
    MaxCopies = 1
SPECIFICATION RoutingSpec
INVARIANTS
    SocketsFollowController
    LockdownHolds
CONSTRAINT PhysicalOrVpn
