CONSTANTS
    MaxFaults = 1
    Execute <- ExecuteBatch
    BwIfaces = {"wlan0", "rmnet0"}
    QuotaIfaces = {"wlan0"}
    Quotas = {1, 2}
    Alerts = {1}
    FwIfaces = {"wlan0", "rmnet0"}
    Apps = {"10001", "10002"}
    MaxStrictRules = 3
    Downstreams = {"wlan0", "usb0"}
    Upstreams = {"rmnet0", "eth0"}
    NatPairs <- MCNatPairs
    Requesters = {"tethering", "bp-tools"}
    DnsServers <- MCDnsServers
    MaxCmdInterfaces = 1
    MaxTethered = 2
    MaxMasquerades = 3
    Monitored = {"wlan0", "rmnet0"}
    MaxMonitorRules = 2
SPECIFICATION FiltersSpec
INVARIANTS
    QuotasAreEnforced
    FirewallPolicyHolds
    PenaltyIsTheLastSet
    
    NatFollowsPairs
    RestartMeetsFirstBoot
PROPERTY
    SharedChainsAreLeftAlone
CHECK_DEADLOCK FALSE
