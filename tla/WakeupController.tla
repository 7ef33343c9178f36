-------------------------- MODULE WakeupController --------------------------
(***************************************************************************)
(* The NFLOG message handler of WakeupController: it goes through the      *)
(* netlink attributes of a packet that woke the device and fills in a      *)
(* report.  The payload can only be read once the ethertype is known; if   *)
(* it comes first, the attributes are gone through a second time.          *)
(***************************************************************************)
EXTENDS Integers, Sequences, SequencesExt

ETH_P_IP == 2048
ETH_P_IPV6 == 34525
IPPROTO_TCP == 6
IPPROTO_UDP == 17
Unknown == -1                \* fields start at -1

InitialArgs == [uid |-> Unknown, ethertype |-> Unknown, ipNextHeader |-> Unknown,
                srcIp |-> Unknown, dstPort |-> Unknown]

(* Payloads: header and ports may be cut off by the copy range. *)
Payload == [hasHeader : BOOLEAN, proto : {IPPROTO_TCP, IPPROTO_UDP, 1}, srcIp : {7},
            hasPorts : BOOLEAN, dstPort : {80}]

extractIpPorts(args, payload) ==
    IF args.ipNextHeader \in {IPPROTO_TCP, IPPROTO_UDP} /\ payload.hasPorts
    THEN [args EXCEPT !.dstPort = payload.dstPort] ELSE args

extractIpHeader(args, payload) ==
    IF args.ethertype \in {ETH_P_IP, ETH_P_IPV6} /\ payload.hasHeader
    THEN extractIpPorts([args EXCEPT !.ipNextHeader = payload.proto, !.srcIp = payload.srcIp],
                        payload)
    ELSE args

(* One attribute; state is args together with parseAgain. *)
attrHandler(state, attr) ==
    CASE attr.type = "NFULA_UID" ->
            [state EXCEPT !.args.uid = attr.value]
      [] attr.type = "NFULA_PACKET_HDR" ->
            [state EXCEPT !.args.ethertype = attr.value]
      [] attr.type = "NFULA_PAYLOAD" ->
            [args |-> extractIpHeader(state.args, attr.value),
             parseAgain |-> state.args.ethertype = Unknown]
      [] OTHER -> state

(* msgHandler without the second pass. *)
singlePass(attrs) ==
    FoldLeft(attrHandler, [args |-> InitialArgs, parseAgain |-> FALSE], attrs).args

(* The handler that init subscribes. *)
msgHandler(attrs) ==
    LET first == FoldLeft(attrHandler, [args |-> InitialArgs, parseAgain |-> FALSE], attrs)
    IN  IF first.parseAgain THEN FoldLeft(attrHandler, first, attrs).args ELSE first.args
-----------------------------------------------------------------------------
(* What the attributes say, whatever their order: the reference for msgHandler. *)
ValueOf(attrs, type) ==
    IF \E i \in DOMAIN attrs : attrs[i].type = type
    THEN attrs[CHOOSE i \in DOMAIN attrs : attrs[i].type = type].value ELSE Unknown

DescribedBy(attrs) ==
    LET ethertype == ValueOf(attrs, "NFULA_PACKET_HDR")
        payload == ValueOf(attrs, "NFULA_PAYLOAD")
        readable == /\ \E i \in DOMAIN attrs : attrs[i].type = "NFULA_PAYLOAD"
                    /\ ethertype \in {ETH_P_IP, ETH_P_IPV6}
                    /\ payload.hasHeader
        hasPorts == readable /\ payload.hasPorts /\ payload.proto \in {IPPROTO_TCP, IPPROTO_UDP}
    IN  [uid |-> ValueOf(attrs, "NFULA_UID"), ethertype |-> ethertype,
         ipNextHeader |-> IF readable THEN payload.proto ELSE Unknown,
         srcIp |-> IF readable THEN payload.srcIp ELSE Unknown,
         dstPort |-> IF hasPorts THEN payload.dstPort ELSE Unknown]
=============================================================================
