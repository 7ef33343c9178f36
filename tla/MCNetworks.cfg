CONSTANTS
    NetIds <- OneNetId
    Ifaces <- TwoIfaces
    Uids <- OneUid
    Ranges <- OneRange
    SubPriorities = {0}
    RangeArgs <- OneCopy
    AllowlistIds = {100}
    PermissionArgs = {0}
    LocalArgs = {FALSE}
    VpnArgs <- OneVpn
    IfIndices = {2}
    Addresses = {"addr"}
    MAX_OEM_ID = 1
    MaxCopies = 1
SPECIFICATION Spec
INVARIANTS
    LastNetIdsExist
    DnsUsesLiveNetwork
