------------------------- MODULE MCNetworkController -------------------------
(***************************************************************************)
(* Small instances of NetworkController for TLC.  The netIds are the       *)
(* numbers the code tells apart: a regular one, the fixed ones and the    *)
(* first OEM one.                                                          *)
(***************************************************************************)
EXTENDS NetworkController

NoSet == {}
OneNetId == {100}
TwoIfaces == {DUMMY_INTERFACE, "wlan0"}
ThreeIfaces == {DUMMY_INTERFACE, "tun0", "tun1"}
DummyOnly == {DUMMY_INTERFACE}
OneVpn == {<<TRUE, FALSE>>}

AppUid == 10001
OneUid == {AppUid}
OneRange == {[start |-> AppUid, stop |-> AppUid + 1]}
OneCopy == [OneRange -> {1}]
SomeSubPriorities == {0, 998, 999}
==============================================================================
