----------------------------- MODULE XfrmMessages -----------------------------
(***************************************************************************)
(* The netlink messages of XfrmController.cpp: gather lists of headers,    *)
(* structures, names, keys and padding whose lengths must add up, because  *)
(* the kernel finds an attribute only by the length of the one before it.  *)
(*                                                                         *)
(* A piece is an entry of the gather list: its size in bytes, and the      *)
(* netlink attribute header it starts with, if any.                        *)
(***************************************************************************)
EXTENDS Integers, Sequences

CONSTANTS
    KeyLengths,     \* the lengths of keys that callers pass
    NameLengths     \* the lengths of device names that callers pass

VARIABLE request    \* the arguments of the message that is being sent

NLA_HDRLEN == 4
MAX_KEY_LENGTH == 128
IFNAMSIZ == 16
INFO_KIND_MAX_LEN == 8

(* The sizes of the kernel's structures. *)
sizeof ==
    [ifinfomsg |-> 16, xfrm_usersa_info |-> 224, xfrm_usersa_id |-> 24, xfrm_userpolicy_info |-> 168,
     xfrm_userpolicy_id |-> 64, xfrm_algo |-> 68, xfrm_algo_auth |-> 72, xfrm_algo_aead |-> 72, xfrm_mark |-> 8,
     xfrm_encap_tmpl |-> 24, xfrm_replay_state_esn |-> 24, xfrm_user_tmpl |-> 64, xfrm_user_migrate |-> 76,
     u32 |-> 4, in_addr |-> 4, in6_addr |-> 16]

ALIGN(len) == ((len + 3) \div 4) * 4
NoHeader == [type |-> "", len |-> 0]
Piece(size, header) == [size |-> size, header |-> header]
Pad(len) == Piece(ALIGN(len) - len, NoHeader)

(* A structure, and the padding after it. *)
Struct(len) == <<Piece(len, NoHeader), Pad(len)>>

(* An attribute in one piece, and the padding after it: fillXfrmNlaHdr. *)
Attribute(type, valueSize) ==
    <<Piece(NLA_HDRLEN + valueSize, [type |-> type, len |-> NLA_HDRLEN + valueSize]), Pad(valueSize)>>
-----------------------------------------------------------------------------
(* Messages of the XFRM socket *)

fillNlAttrXfrmAlgoEnc(keyLen) ==
    IF keyLen < 0 THEN <<>> ELSE Attribute("XFRMA_ALG_CRYPT", sizeof.xfrm_algo + keyLen)
fillNlAttrXfrmAlgoAuth(keyLen) ==
    IF keyLen < 0 THEN <<>> ELSE Attribute("XFRMA_ALG_AUTH_TRUNC", sizeof.xfrm_algo_auth + keyLen)
fillNlAttrXfrmAlgoAead(keyLen) ==
    IF keyLen < 0 THEN <<>> ELSE Attribute("XFRMA_ALG_AEAD", sizeof.xfrm_algo_aead + keyLen)
fillNlAttrXfrmEncapTmpl(encap) == IF encap THEN Attribute("XFRMA_ENCAP", sizeof.xfrm_encap_tmpl) ELSE <<>>
fillNlAttrXfrmMark(mark) == IF mark = 0 THEN <<>> ELSE Attribute("XFRMA_MARK", sizeof.xfrm_mark)
outputMarkAttribute(mode) == IF mode = "TUNNEL" THEN Attribute("XFRMA_OUTPUT_MARK", sizeof.u32) ELSE <<>>
fillNlAttrXfrmIntfId(ifId) == IF ifId = 0 THEN <<>> ELSE Attribute("XFRMA_IF_ID", sizeof.u32)
fillNlAttrXfrmReplayEsn == Attribute("XFRMA_REPLAY_ESN_VAL", sizeof.xfrm_replay_state_esn)
fillNlAttrUserTemplate == Attribute("XFRMA_TMPL", sizeof.xfrm_user_tmpl)
fillNlAttrXfrmMigrate == Attribute("XFRMA_MIGRATE", sizeof.xfrm_user_migrate)

(* The checks of updateSecurityAssociation; a key length of -1 is an algorithm without a name. *)
validAlgorithms(r) ==
    /\ r.aead < 0 \/ (r.auth < 0 /\ r.crypt < 0)
    /\ r.aead <= MAX_KEY_LENGTH /\ r.auth <= MAX_KEY_LENGTH /\ r.crypt <= MAX_KEY_LENGTH
validSaArguments(r) ==
    /\ r.mode # "TUNNEL" => r.mark = 0 /\ r.ifId = 0

updateSecurityAssociation(r) ==
    Struct(sizeof.xfrm_usersa_info) \o fillNlAttrXfrmAlgoEnc(r.crypt) \o fillNlAttrXfrmAlgoAuth(r.auth)
        \o fillNlAttrXfrmAlgoAead(r.aead) \o fillNlAttrXfrmMark(r.mark) \o outputMarkAttribute(r.mode)
        \o fillNlAttrXfrmEncapTmpl(r.encap) \o fillNlAttrXfrmIntfId(r.ifId) \o fillNlAttrXfrmReplayEsn
deleteSecurityAssociation(r) ==
    Struct(sizeof.xfrm_usersa_id) \o fillNlAttrXfrmMark(r.mark) \o fillNlAttrXfrmIntfId(r.ifId)
updateTunnelModeSecurityPolicy(r) ==
    Struct(sizeof.xfrm_userpolicy_info) \o fillNlAttrUserTemplate
        \o fillNlAttrXfrmMark(r.mark) \o fillNlAttrXfrmIntfId(r.ifId)
deleteTunnelModeSecurityPolicy(r) ==
    Struct(sizeof.xfrm_userpolicy_id) \o fillNlAttrXfrmMark(r.mark) \o fillNlAttrXfrmIntfId(r.ifId)
migrate == Struct(sizeof.xfrm_userpolicy_id) \o fillNlAttrXfrmMigrate
-----------------------------------------------------------------------------
(* Messages about interfaces *)

(* fillNlAttr gives the header; the value and the padding are pieces of their own. *)
fillNlAttr(type, valueSize) ==
    <<Piece(NLA_HDRLEN, [type |-> type, len |-> NLA_HDRLEN + valueSize]), Piece(valueSize, NoHeader), Pad(valueSize)>>
fillNlAttrIpAddress(type, family) ==
    fillNlAttr(type, IF family = "AF_INET" THEN sizeof.in_addr ELSE sizeof.in6_addr)

(* A header whose value is the pieces that follow. *)
Nested(type, valueSize) == <<Piece(NLA_HDRLEN, [type |-> type, len |-> NLA_HDRLEN + valueSize])>>

Padded(len) == NLA_HDRLEN + ALIGN(len)

(* The length of IFLA_LINKINFO without the padding of the kind. *)
withoutKindPad(kindLength, dataLength) == Padded(dataLength) + NLA_HDRLEN + kindLength

(* What IFLA_LINKINFO holds: the kind and the data. *)
linkInfoLength(kindLength, dataLength) == Padded(dataLength) + Padded(kindLength)

ipSecAddVirtualTunnelInterface(r) ==
    LET kindLength == IF r.family = "AF_INET6" THEN 4 ELSE 3   \* "vti6", "vti": strlcpy's result
        addressLength == IF r.family = "AF_INET" THEN sizeof.in_addr ELSE sizeof.in6_addr
        dataLength == 2 * Padded(addressLength) + 2 * Padded(sizeof.u32)
    IN  Struct(sizeof.ifinfomsg) \o fillNlAttr("IFLA_IFNAME", r.name)
        \o Nested("IFLA_LINKINFO", linkInfoLength(kindLength, dataLength))
        \o fillNlAttr("IFLA_INFO_KIND", kindLength) \o Nested("IFLA_INFO_DATA", dataLength)
        \o fillNlAttrIpAddress("IFLA_VTI_LOCAL", r.family) \o fillNlAttrIpAddress("IFLA_VTI_REMOTE", r.family)
        \o Attribute("IFLA_VTI_IKEY", sizeof.u32) \o Attribute("IFLA_VTI_OKEY", sizeof.u32)

(* One structure with arrays of fixed size, so that every attribute is aligned. *)
ipSecAddXfrmInterface ==
    LET infoData == 2 * (NLA_HDRLEN + sizeof.u32)
        linkInfo == NLA_HDRLEN + INFO_KIND_MAX_LEN + NLA_HDRLEN + infoData
    IN  Struct(sizeof.ifinfomsg) \o fillNlAttr("IFLA_IFNAME", IFNAMSIZ) \o Nested("IFLA_LINKINFO", linkInfo)
        \o fillNlAttr("IFLA_INFO_KIND", INFO_KIND_MAX_LEN) \o Nested("IFLA_INFO_DATA", infoData)
        \o fillNlAttr("IFLA_XFRM_LINK", sizeof.u32) \o fillNlAttr("IFLA_XFRM_IF_ID", sizeof.u32)

deleteLinkRequest(r) == Struct(sizeof.ifinfomsg) \o fillNlAttr("IFLA_IFNAME", r.name)
-----------------------------------------------------------------------------
Requests ==
    [op : {"UPDSA"}, crypt : KeyLengths \cup {-1}, auth : KeyLengths \cup {-1}, aead : KeyLengths \cup {-1},
     mark : {0, 1}, mode : {"TUNNEL", "TRANSPORT"}, encap : BOOLEAN, ifId : {0, 1}]
    \cup [op : {"DELSA", "UPDPOLICY", "DELPOLICY"}, mark : {0, 1}, ifId : {0, 1}]
    \cup [op : {"MIGRATE", "XFRM_INTERFACE"}]
    \cup [op : {"VTI"}, family : {"AF_INET", "AF_INET6"}, name : NameLengths]
    \cup [op : {"REMOVE"}, name : NameLengths]

(* sendMessage: the pieces that are written; a request that is refused writes none. *)
sendMessage(r) ==
    CASE r.op = "UPDSA" ->
            IF validAlgorithms(r) /\ validSaArguments(r) THEN updateSecurityAssociation(r) ELSE <<>>
      [] r.op = "DELSA" -> deleteSecurityAssociation(r)
      [] r.op = "UPDPOLICY" -> updateTunnelModeSecurityPolicy(r)
      [] r.op = "DELPOLICY" -> deleteTunnelModeSecurityPolicy(r)
      [] r.op = "MIGRATE" -> migrate
      [] r.op = "VTI" -> ipSecAddVirtualTunnelInterface(r)
      [] r.op = "XFRM_INTERFACE" -> ipSecAddXfrmInterface
      [] r.op = "REMOVE" -> deleteLinkRequest(r)
-----------------------------------------------------------------------------
(* What the kernel reads *)

(* Where each piece of a message starts; the last one is the end. *)
Offsets(pieces) ==
    LET start[i \in 1 .. Len(pieces) + 1] == IF i = 1 THEN 0 ELSE start[i - 1] + pieces[i - 1].size
    IN  start

(* The attributes between two offsets, each found by the length of the one before; *)
(* <<"garbage">> where there is no header, or one that does not fit.               *)
Attributes(pieces, from, to) ==
    LET start == Offsets(pieces)
        read[o \in Nat] ==
            IF o = to THEN <<>>
            ELSE LET at == {i \in DOMAIN pieces : start[i] = o /\ pieces[i].header # NoHeader}
                 IN  IF at = {} THEN <<"garbage">>
                     ELSE LET h == pieces[CHOOSE i \in at : TRUE].header
                          IN  IF o + h.len > to \/ ALIGN(h.len) = 0 THEN <<"garbage">>
                              ELSE IF h.type \in {"IFLA_LINKINFO", "IFLA_INFO_DATA"}
                              THEN <<h.type>> \o read[o + NLA_HDRLEN]
                              ELSE <<h.type>> \o read[o + ALIGN(h.len)]
    IN  read[from]

(* The end of the attribute of a type. *)
EndOf(pieces, type) ==
    LET i == CHOOSE i \in DOMAIN pieces : pieces[i].header.type = type
    IN  Offsets(pieces)[i] + pieces[i].header.len

(***************************************************************************)
(* The kernel finds the attributes that were put into a message, in their  *)
(* order, and the nested ones end where the one around them does, for      *)
(* every length of key and name and both address families; and no key is   *)
(* longer than the array it is copied to (XfrmController.cpp:1058).        *)
(***************************************************************************)
MessagesParse ==
    LET pieces == sendMessage(request)
        end == Offsets(pieces)[Len(pieces) + 1]
        headers == SelectSeq(pieces, LAMBDA p : p.header # NoHeader)
    IN  pieces # <<>> =>
            /\ Attributes(pieces, pieces[1].size, end) = [i \in DOMAIN headers |-> headers[i].header.type]
            /\ request.op \in {"VTI", "XFRM_INTERFACE"} =>
                  EndOf(pieces, "IFLA_LINKINFO") = end /\ EndOf(pieces, "IFLA_INFO_DATA") = end
            /\ request.op = "UPDSA" => \A key \in {request.crypt, request.auth, request.aead} : key <= MAX_KEY_LENGTH
===============================================================================
