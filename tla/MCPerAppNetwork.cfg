CONSTANTS
    NetIds <- OneNetId
    Ifaces <- DummyOnly
    Uids <- OneUid
    Ranges <- OneRange
    SubPriorities <- SomeSubPriorities
    RangeArgs <- OneCopy
    AllowlistIds = {}
    PermissionArgs = {0}
    LocalArgs = {FALSE}
    VpnArgs <- OneVpn
    IfIndices <- NoSet
    Addresses <- NoSet
    MAX_OEM_ID = 1
    MaxCopies = 1
SPECIFICATION Spec
INVARIANTS
    PerAppNetworkBeatsUnreachable
