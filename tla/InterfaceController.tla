-------------------------- MODULE InterfaceController --------------------------
(***************************************************************************)
(* class InterfaceController (server/InterfaceController.cpp): sysctl      *)
(* settings of every interface, the secret of stable privacy addresses,    *)
(* and the IPv4 configuration of an interface.                             *)
(*                                                                         *)
(* Most calls hold InterfaceController::mutex and are one step here;       *)
(* setIPv6AddrGenMode holds no lock.  Interfaces come and go at any time,  *)
(* and netd may stop in the middle of a call.  A new interface gets the    *)
(* values of "default".                                                    *)
(***************************************************************************)
EXTENDS Integers, Sequences, FiniteSets

CONSTANTS
    InterfaceNames,
    CallerParameters, \* parameters that callers set
    MaskBits,        \* 32 in the code: the bits of an IPv4 address
    MaxSecrets,      \* secrets that are generated
    MaxPrivacyCalls, \* calls of setIPv6AddrGenMode at a time
    MaxInterfaceFaults  \* writes that fail, and restarts

VARIABLES
    sysctl,      \* interface that exists, or "default" -> parameter -> value
    setup,       \* how far initializeAll is: the setting, and the interfaces left to write
    secret,      \* the persistent property, what interfaces were given, and secrets generated
    privacyCall, \* interface -> its enableStablePrivacyAddresses in progress
    config,      \* interface -> its IPv4 address, netmask and whether it is up
    lastSet,     \* interface -> the configuration that setCfg succeeded with, or NoConfig
    interfaceFaults

interfaceVars == <<sysctl, setup, secret, privacyCall, config, lastSet, interfaceFaults>>

KernelDefault == "kernel"
kUninitialized == 0
NoPrivacyCall == [pc |-> "idle"]
NoConfig == [ipv4Addr |-> "none"]
FreshConfig == [ipv4Addr |-> "0.0.0.0", netmask |-> 0, up |-> FALSE]

(* initializeAll: each setting is a list of parameters that are written one after the other. *)
Settings ==
    <<<<"accept_ra">>, <<"accept_ra_rt_info_min_plen", "accept_ra_rt_info_max_plen">>, <<"accept_ra_rt_table">>,
      <<"optimistic_dad">>, <<"use_optimistic">>, <<"base_reachable_time_ms">>,
      <<"use_oif_addrs_only">>, <<"accept_redirects">>>>
Parameters == UNION {{Settings[i][j] : j \in DOMAIN Settings[i]} : i \in DOMAIN Settings}

ASSUME InterfaceAssumption ==
    /\ IsFiniteSet(InterfaceNames) /\ "default" \notin InterfaceNames
    /\ CallerParameters \subseteq Parameters

existing == DOMAIN sysctl \ {"default"}

Fault == interfaceFaults < MaxInterfaceFaults /\ interfaceFaults' = interfaceFaults + 1
-----------------------------------------------------------------------------
(* Settings of all interfaces *)

(* writeValueToPath for the parameters of a setting, up to the first that fails. *)
WriteSetting(name, written) ==
    sysctl' = [sysctl EXCEPT ![name] = [p \in Parameters |-> IF p \in written THEN "netd" ELSE @[p]]]

ParametersOf(setting) == {Settings[setting][j] : j \in DOMAIN Settings[setting]}

(* forEachInterface that leaves out "default". *)
skipDefault ==
    /\ setup.at <= Len(Settings) /\ setup.phase = "default"
    /\ setup' = [setup EXCEPT !.phase = "list"]
    /\ UNCHANGED <<sysctl, secret, privacyCall, config, lastSet, interfaceFaults>>

(* forEachInterface: first "default", then the interfaces that the directory lists. *)
writeDefault ==
    /\ setup.at <= Len(Settings) /\ setup.phase = "default"
    /\ WriteSetting("default", ParametersOf(setup.at))
    /\ setup' = [setup EXCEPT !.phase = "list"]
    /\ UNCHANGED <<secret, privacyCall, config, lastSet, interfaceFaults>>

listInterfaces ==
    /\ setup.phase = "list"
    /\ setup' = [setup EXCEPT !.phase = "interfaces", !.todo = existing]
    /\ UNCHANGED <<sysctl, secret, privacyCall, config, lastSet, interfaceFaults>>

(* The write fails if the interface is gone, or is a fault; setAcceptIPv6RIO *)
(* leaves the maximum if the minimum could not be written.                  *)
writeInterface(i) ==
    /\ setup.phase = "interfaces" /\ i \in setup.todo
    /\ \/ /\ IF i \in existing THEN WriteSetting(i, ParametersOf(setup.at)) ELSE UNCHANGED sysctl
          /\ UNCHANGED interfaceFaults
       \/ /\ i \in existing /\ Fault
          /\ \E n \in 0 .. Len(Settings[setup.at]) - 1 :
                WriteSetting(i, {Settings[setup.at][j] : j \in 1 .. n})
    /\ setup' = [setup EXCEPT !.todo = @ \ {i}]
    /\ UNCHANGED <<secret, privacyCall, config, lastSet>>

nextSetting ==
    /\ setup.phase = "interfaces" /\ setup.todo = {}
    /\ setup' = [at |-> setup.at + 1, phase |-> "default", todo |-> {}]
    /\ UNCHANGED <<sysctl, secret, privacyCall, config, lastSet, interfaceFaults>>

ready == setup.at > Len(Settings)
-----------------------------------------------------------------------------
(* Calls *)

(* setParameter and the setters of one parameter, of one interface or of "default" *)
setParameterOf(i, p) ==
    /\ ready /\ i \in DOMAIN sysctl
    /\ sysctl' = [sysctl EXCEPT ![i][p] = "caller"]
    /\ UNCHANGED <<setup, secret, privacyCall, config, lastSet, interfaceFaults>>

(* setIPv6AddrGenMode(STABLE_PRIVACY): the property is read, and a secret generated if there is none. *)
enableStablePrivacyAddresses(i) ==
    /\ ready /\ i \in existing /\ privacyCall[i] = NoPrivacyCall
    /\ Cardinality({j \in InterfaceNames : privacyCall[j] # NoPrivacyCall}) < MaxPrivacyCalls
    /\ LET new == IF secret.property = kUninitialized THEN secret.generated + 1 ELSE secret.property
       IN  /\ new <= MaxSecrets
           /\ secret' = [secret EXCEPT !.generated = IF new > @ THEN new ELSE @, !.done = @ \ {i}]
           /\ privacyCall' = [privacyCall EXCEPT ![i] = [pc |-> "write", oldSecret |-> secret.property, secret |-> new]]
    /\ UNCHANGED <<sysctl, setup, config, lastSet, interfaceFaults>>

(* The secret is given to the kernel, which may refuse it. *)
writeSecret(i) ==
    /\ privacyCall[i].pc = "write"
    /\ \/ /\ secret' = [secret EXCEPT !.of[i] = privacyCall[i].secret]
          /\ privacyCall' = [privacyCall EXCEPT ![i].pc = "persist"]
          /\ UNCHANGED interfaceFaults
       \/ /\ Fault
          /\ privacyCall' = [privacyCall EXCEPT ![i] = NoPrivacyCall]
          /\ UNCHANGED secret
    /\ UNCHANGED <<sysctl, setup, config, lastSet>>

(* persistSecret that forgets to set the property. *)
neverPersist(i) ==
    /\ privacyCall[i].pc = "persist"
    /\ secret' = [secret EXCEPT !.done = @ \cup {i}]
    /\ privacyCall' = [privacyCall EXCEPT ![i] = NoPrivacyCall]
    /\ UNCHANGED <<sysctl, setup, config, lastSet, interfaceFaults>>

(* A secret that was generated is persisted, and the call succeeds. *)
persistSecret(i) ==
    /\ privacyCall[i].pc = "persist"
    /\ secret' = [secret EXCEPT !.done = @ \cup {i},
                     !.property = IF privacyCall[i].oldSecret = kUninitialized THEN privacyCall[i].secret ELSE @]
    /\ privacyCall' = [privacyCall EXCEPT ![i] = NoPrivacyCall]
    /\ UNCHANGED <<sysctl, setup, config, lastSet, interfaceFaults>>

(* setProperty fails, and the call with it. *)
persistFails(i) ==
    /\ privacyCall[i].pc = "persist" /\ privacyCall[i].oldSecret = kUninitialized /\ Fault
    /\ privacyCall' = [privacyCall EXCEPT ![i] = NoPrivacyCall]
    /\ UNCHANGED <<sysctl, setup, secret, config, lastSet>>

(* The netmask of a prefix length, and ipv4NetmaskToPrefixLength: shift while the top bit is set. *)
Netmask(prefixLength) == 2 ^ MaskBits - 2 ^ (MaskBits - prefixLength)
ipv4NetmaskToPrefixLength(mask) ==
    LET shift[m \in 0 .. 2 ^ MaskBits - 1] ==
            IF m >= 2 ^ (MaskBits - 1) THEN 1 + shift[(m * 2) % 2 ^ MaskBits] ELSE 0
    IN  shift[mask]

FlagsAfter(up, flag) == IF flag = "" THEN up ELSE flag = "up"

(* addressCleared that does not clear the address first. *)
addressKept(i, cfg) == [config[i] EXCEPT !.up = FlagsAfter(@, cfg.flag)]

(* setCfg up to the new address: the IPv4 address is cleared, then the flags are set. *)
addressCleared(i, cfg) == [FreshConfig EXCEPT !.up = FlagsAfter(config[i].up, cfg.flag)]

(* ifc_add_address adds to the addresses; the first one is what SIOCGIFADDR returns. *)
ifc_add_address(before, cfg) ==
    IF before.ipv4Addr = "0.0.0.0"
    THEN [before EXCEPT !.ipv4Addr = cfg.ipv4Addr, !.netmask = Netmask(cfg.prefixLength)] ELSE before

setCfg(i, cfg) ==
    /\ ready /\ i \in existing
    /\ config' = [config EXCEPT ![i] = ifc_add_address(addressCleared(i, cfg), cfg)]
    /\ lastSet' = [lastSet EXCEPT ![i] = cfg]
    /\ UNCHANGED <<sysctl, setup, secret, privacyCall, interfaceFaults>>

(* It fails after it cleared the address, before or after it set the flags. *)
setCfgFails(i, cfg) ==
    /\ ready /\ i \in existing /\ Fault
    /\ \E up \in {config[i].up, FlagsAfter(config[i].up, cfg.flag)} :
          config' = [config EXCEPT ![i] = [addressCleared(i, cfg) EXCEPT !.up = up]]
    /\ lastSet' = [lastSet EXCEPT ![i] = NoConfig]
    /\ UNCHANGED <<sysctl, setup, secret, privacyCall>>

getCfg(i) ==
    [ipv4Addr |-> config[i].ipv4Addr, prefixLength |-> ipv4NetmaskToPrefixLength(config[i].netmask),
     flag |-> IF config[i].up THEN "up" ELSE "down"]

clearAddrs(i) ==
    /\ ready /\ i \in existing
    /\ config' = [config EXCEPT ![i].ipv4Addr = "0.0.0.0", ![i].netmask = 0]
    /\ lastSet' = [lastSet EXCEPT ![i] = NoConfig]
    /\ UNCHANGED <<sysctl, setup, secret, privacyCall, interfaceFaults>>
-----------------------------------------------------------------------------
(* Interfaces, and restarts of netd *)

CreateInterface(i) ==
    /\ i \notin existing
    /\ sysctl' = [j \in DOMAIN sysctl \cup {i} |-> IF j = i THEN sysctl["default"] ELSE sysctl[j]]
    /\ UNCHANGED <<setup, secret, privacyCall, config, lastSet, interfaceFaults>>

DestroyInterface(i) ==
    /\ i \in existing
    /\ sysctl' = [j \in DOMAIN sysctl \ {i} |-> sysctl[j]]
    /\ secret' = [secret EXCEPT !.of[i] = kUninitialized, !.done = @ \ {i}]
    /\ config' = [config EXCEPT ![i] = FreshConfig]
    /\ lastSet' = [lastSet EXCEPT ![i] = NoConfig]
    /\ privacyCall' = [privacyCall EXCEPT ![i] = NoPrivacyCall]
    /\ UNCHANGED <<setup, interfaceFaults>>

RestartNetd ==
    /\ Fault
    /\ setup' = [at |-> 1, phase |-> "default", todo |-> {}]
    /\ privacyCall' = [i \in InterfaceNames |-> NoPrivacyCall]
    /\ UNCHANGED <<sysctl, secret, config, lastSet>>

ConfigArgs ==
    [ipv4Addr : {"192.0.2.1", "192.0.2.2"}, prefixLength : {0, MaskBits - 1, MaskBits}, flag : {"", "up", "down"}]

(* netd starts with the interfaces that exist. *)
InterfaceInit ==
    /\ \E present \in SUBSET InterfaceNames :
          sysctl = [i \in present \cup {"default"} |-> [p \in Parameters |-> KernelDefault]]
    /\ setup = [at |-> 1, phase |-> "default", todo |-> {}]
    /\ secret = [property |-> kUninitialized, of |-> [i \in InterfaceNames |-> kUninitialized],
                 generated |-> 0, done |-> {}]
    /\ privacyCall = [i \in InterfaceNames |-> NoPrivacyCall]
    /\ config = [i \in InterfaceNames |-> FreshConfig]
    /\ lastSet = [i \in InterfaceNames |-> NoConfig]
    /\ interfaceFaults = 0

initializeAll == writeDefault \/ listInterfaces \/ nextSetting \/ \E i \in InterfaceNames : writeInterface(i)

ConfigNext(i) == clearAddrs(i) \/ \E cfg \in ConfigArgs : setCfg(i, cfg) \/ setCfgFails(i, cfg)
PrivacyNext(i) == enableStablePrivacyAddresses(i) \/ writeSecret(i) \/ persistSecret(i) \/ persistFails(i)
ParameterNext == \E i \in InterfaceNames \cup {"default"}, p \in CallerParameters : setParameterOf(i, p)

InterfaceNext ==
    \/ initializeAll \/ RestartNetd \/ ParameterNext
    \/ \E i \in InterfaceNames :
         CreateInterface(i) \/ DestroyInterface(i) \/ ConfigNext(i) \/ PrivacyNext(i)

InterfaceSpec == InterfaceInit /\ [][InterfaceNext]_interfaceVars
-----------------------------------------------------------------------------
(* Properties *)

(***************************************************************************)
(* Once initializeAll is done, every interface has netd's settings, also   *)
(* one that appeared while the settings were written, unless a write       *)
(* failed or a caller changed the setting (InterfaceController.cpp:112).   *)
(* And an interface never accepts route information options with netd's    *)
(* maximum and the kernel's minimum, whatever fails                        *)
(* (InterfaceController.cpp:166).                                          *)
(***************************************************************************)
EveryInterfaceIsConfigured ==
    \A i \in existing :
        /\ ready /\ interfaceFaults = 0 => \A p \in Parameters : sysctl[i][p] # KernelDefault
        /\ sysctl[i]["accept_ra_rt_info_max_plen"] = "netd" =>
              sysctl[i]["accept_ra_rt_info_min_plen"] # KernelDefault

(***************************************************************************)
(* An interface whose setIPv6AddrGenMode succeeded uses the secret that is *)
(* persisted, so that its addresses are the same after a restart, also if  *)
(* calls before it failed or were cut off half-way.                        *)
(***************************************************************************)
SecretsArePersisted == \A i \in secret.done : secret.of[i] = secret.property

(***************************************************************************)
(* getCfg returns what the last setCfg that succeeded was given, whatever  *)
(* was configured before and whichever setCfg failed in between.           *)
(***************************************************************************)
ConfigRoundTrips ==
    \A i \in InterfaceNames : lastSet[i] # NoConfig =>
        /\ getCfg(i).ipv4Addr = lastSet[i].ipv4Addr
        /\ getCfg(i).prefixLength = lastSet[i].prefixLength
        /\ lastSet[i].flag # "" => getCfg(i).flag = lastSet[i].flag
===============================================================================
