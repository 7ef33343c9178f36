CONSTANTS
    Components = {"UidRanges", "NFLogListener", "XfrmController", "XfrmMessages", "NetlinkHandler", "InterfaceController", "NetdNativeService"}
    Ranges <- MCRanges
    Uids <- MCUids
    MaxLength = 5
    Groups = {1, 3}
    Messages <- MCMessages
    MaxQueue = 1
    Transforms <- MCTransforms
    FamilyOf <- MCFamilyOf
    RAND_SPI_MIN = 2
    RAND_SPI_MAX = 4
    CounterSize = 6
    KeyLengths = {0, 1, 20, 127, 128, 129}
    NameLengths = {1, 2, 3, 4, 5, 15}
    Conns <- MCConns
    DiagThreads = {"netlink", "binder"}
    FailingThreads = {"binder"}
    IfIndexes = {2, 3}
    VpnOf <- MCVpnOf
    HandlerAddresses <- MCAddresses
    CallArgs <- MCCallArgs
    MaxKernelChanges = 3
    InterfaceNames = {"wlan0", "rmnet0"}
    CallerParameters = {"accept_ra", "accept_ra_rt_info_min_plen"}
    MaskBits = 4
    MaxSecrets = 2
    MaxPrivacyCalls = 1
    MaxInterfaceFaults = 1
    Threads = {"netd", "binder", "connectivity"}
    CallsOf <- MCCallsOf
    MaxRpcs = 3
SPECIFICATION RequestsSpec
INVARIANTS
    HasUidIsExactOnDisjointRanges
    PacketsAreReported
    TransformsFindTheirSa
    KernelFollowsOwners
    MessagesParse
    
    
    EveryInterfaceIsConfigured
    
    
    NoCircularWait
    

    
CHECK_DEADLOCK FALSE
