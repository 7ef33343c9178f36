CONSTANTS
    Components = {"TcpSocketMonitor"}
    Cookies = {"c1", "c2"}
    NetIdOf <- MCNetIdOf
    MaxSegments = 1
    CounterRange = 2
    Listeners = {"system_server", "other"}
    MaxCalls = 2
    Handlers = {"route"}
    MaxEvents = 2
    RETRY_ATTEMPTS = 2
    Ids = {1, 2}
    KindsOf <- MCKindsOf
    InitialPollSize = 2
    PollGrowth = 1
    MaxBytes = 2
    MaxResults = 1
    MaxMiscounts = 1
    Families = {"V4", "V6"}
    Targets <- MCTargets
    Commands = {1, 2}
    MAX_RETRIES = 2
    NetIds = {100, 101, 102, 103}
    Ifaces <- MCIfaces
    Uids = {10001}
    Ranges <- MCRanges
    SubPriorities = {0}
    RangeArgs <- MCRangeArgs
    AllowlistIds = {}
    PermissionArgs = {0, 1}
    LocalArgs = {FALSE}
    VpnArgs <- NoArgs
    IfIndices = {}
    Addresses = {}
    MAX_OEM_ID = 0
    MaxCopies = 1
    Clients = {"app", "app2", "proxy"}
    Workloads <- MCWorkloads
    UidOf <- MCUidOf
    ProcessOf <- MCProcessOf
    FdsOf <- MCFdsOf
    mRedirectSocketCalls = TRUE
    SelectArgs = {0, 101, 103}
    TargetArgs = {0, 101}
    UserIdArgs = {10001}
    ControllerArgs <- MCControllerArgs
    MaxChanges = 1
    MaxRefusals = 1
SPECIFICATION DaemonSpec
PROPERTIES
    ResumedMonitorPolls
CHECK_DEADLOCK FALSE
