--------------------------- MODULE MCNetworkRouting ---------------------------
(***************************************************************************)
(* Small instances of NetworkRouting for TLC.                              *)
(***************************************************************************)
EXTENDS NetworkRouting

NoSet == {}
AppUid == 10001
AppRange == [start |-> AppUid, stop |-> AppUid]
OneRange == {AppRange}
OneCopy == [OneRange -> {1}]
SystemAndApp == {1000, AppUid}
OneVpn == {<<TRUE, FALSE>>}
SecureOrBypassable == {<<TRUE, FALSE>>, <<FALSE, TRUE>>}
OpenAndSystem == {PERMISSION_NONE, PERMISSION_SYSTEM}

(* Two physical networks that take turns as the default, and a VPN. *)
ThreeNetIds == {100, 101, 102}
FourIfaces == {DUMMY_INTERFACE, "rmnet0", "tun0", "wlan0"}
FourInOrder == <<DUMMY_INTERFACE, "rmnet0", "tun0", "wlan0">>
FourIndices == 1 .. 4
OneInterfaceEach == {<<100, "rmnet0">>, <<101, "wlan0">>, <<102, "tun0">>}

(* Users of a physical network, of the unreachable network and of network 101. *)
TwoNetIds == {100, 101}
ThreeIfaces == {DUMMY_INTERFACE, "tun0", "wlan0"}
ThreeInOrder == <<DUMMY_INTERFACE, "tun0", "wlan0">>
ThreeIndices == 1 .. 3
PhysicalAndVpn == {<<100, "wlan0">>, <<101, "tun0">>}
UsersOfEach == {<<100, 1>>, <<101, 0>>, <<101, 999>>, <<UNREACHABLE_NET_ID, 0>>}

(* Network 101 is physical, and the UID is given to the two physical networks at several  *)
(* subsidiary priorities; or it is a VPN, and the UID may also be in lockdown or in the   *)
(* unreachable network: the behaviours that have both are not explored.                   *)
PhysicalOrVpn ==
    \/ 101 \in DOMAIN mNetworks => isVirtual(mNetworks[101])
    \/ ~InLockdown(AppUid) /\ ~appliesToUser(mNetworks[UNREACHABLE_NET_ID], AppUid)

(* One physical network, the local network, tethering, interfaces that come and go. *)
OneNetId == {100}
PhysicalOrLocal == {<<100, "wlan0">>, <<100, "tun0">>, <<LOCAL_NET_ID, "tun0">>}
Tethering == {<<"tun0", "wlan0">>}
WlanOnly == {"wlan0"}
===============================================================================
