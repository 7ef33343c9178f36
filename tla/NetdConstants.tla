---------------------------- MODULE NetdConstants ----------------------------
(***************************************************************************)
(* The netIds and permissions that every part of netd shares.              *)
(***************************************************************************)
NETID_UNSET == 0
MIN_OEM_ID == 1
DUMMY_NET_ID == 51
UNREACHABLE_NET_ID == 52
LOCAL_NET_ID == 99
MIN_NET_ID == 100
MAX_NET_ID == 65535

AID_VPN == 1016
FIRST_APPLICATION_UID == 10000

DUMMY_INTERFACE == "dummy0"

(* Flags; each includes the bits of those before it, so "has all bits" is >=. *)
PERMISSION_NONE == 0
PERMISSION_NETWORK == 1
PERMISSION_SYSTEM == 3
Permissions == {PERMISSION_NONE, PERMISSION_NETWORK, PERMISSION_SYSTEM}
==============================================================================
