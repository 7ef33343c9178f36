-------------------------- MODULE TetherController --------------------------
(***************************************************************************)
(* TetherController: the dnsmasq daemon and what it is told, the IP        *)
(* forwarding switch, and the NAT and forwarding rules of the tethered     *)
(* interface pairs.  Each operation runs under TetherController::lock.     *)
(***************************************************************************)
EXTENDS Iptables

CONSTANTS Downstreams, Upstreams,   \* the interfaces that are tethered, and those they are tethered to
          NatPairs,                 \* the pairs enableNat is called with
          Requesters,               \* who asks for IP forwarding
          DnsServers,               \* the values setDnsForwarders is called with
          MaxCmdInterfaces,         \* interfaces that fit a dnsmasq command (MAX_CMD_SIZE)
          MaxTethered,              \* bound: length of mInterfaces
          MaxMasquerades            \* bound: MASQUERADE rules in the nat table

VARIABLES te,     \* the fields about dnsmasq and forwarding, and what dnsmasq was told
          nat     \* mFwdIfaces: <<upstream, downstream>> -> active

-----------------------------------------------------------------------------
(* IP forwarding.  Switching it off makes the kernel accept ICMP redirects *)
(* again.                                                                  *)
setIpFwdEnabled(m) ==
    [m EXCEPT !.ipForward = m.mForwardingRequests # {}, !.acceptRedirects = FALSE]

enableForwarding(requester) ==
    te' = setIpFwdEnabled([te EXCEPT !.mForwardingRequests = @ \cup {requester}]) /\ UNCHANGED <<nat, kernel>>
disableForwarding(requester) ==
    te' = setIpFwdEnabled([te EXCEPT !.mForwardingRequests = @ \ {requester}]) /\ UNCHANGED <<nat, kernel>>

TetherController ==
    setIpFwdEnabled([mInterfaces |-> <<>>, mIsTetheringStarted |-> FALSE, daemon |-> "none",
                     update_ifaces_cmd |-> <<>>, update_dns_cmd |-> <<>>, toldIfaces |-> <<>>, toldDns |-> <<>>,
                     mDnsForwarders |-> <<>>, router |-> {}, tcpBeLiberal |-> FALSE,
                     mForwardingRequests |-> {}, ipForward |-> TRUE, acceptRedirects |-> TRUE])

-----------------------------------------------------------------------------
(* dnsmasq.  `daemon' is "none" while mDaemonPid is 0; a daemon that died  *)
(* is noticed by nobody, and writing to it fails.                          *)
Sent(ok, m) == [ok |-> ok, m |-> m]
sendAllState(m) ==
    IF m.daemon = "dead" THEN Sent(m.update_ifaces_cmd = <<>> /\ m.update_dns_cmd = <<>>, m)
    ELSE Sent(TRUE, [m EXCEPT !.toldIfaces = IF m.update_ifaces_cmd # <<>> THEN m.update_ifaces_cmd ELSE @,
                              !.toldDns = IF m.update_dns_cmd # <<>> THEN m.update_dns_cmd ELSE @])

(* Mutant: only the interfaces are sent.                                   *)
applyIfacesOnly(m) ==
    LET n == [m EXCEPT !.update_ifaces_cmd = SubSeq(m.mInterfaces, 1, IF Len(m.mInterfaces) > MaxCmdInterfaces THEN MaxCmdInterfaces ELSE Len(m.mInterfaces))]
    IN  Sent(m.daemon # "dead", IF m.daemon = "running" THEN [n EXCEPT !.toldIfaces = n.update_ifaces_cmd] ELSE n)
applyDnsInterfaces(m) ==
    LET listed == SubSeq(m.mInterfaces, 1, IF Len(m.mInterfaces) > MaxCmdInterfaces THEN MaxCmdInterfaces ELSE Len(m.mInterfaces))
        n == [m EXCEPT !.update_ifaces_cmd = listed]
    IN  IF listed = <<>> \/ m.daemon = "none" THEN Sent(TRUE, n) ELSE sendAllState(n)

(* With neither a DNS proxy nor DHCP ranges there is no daemon to start;   *)
(* starting one may fail, and then nothing has changed.                    *)
startTethering(usingLegacyDnsProxy, dhcpRanges) ==
    /\ IF ~usingLegacyDnsProxy /\ ~dhcpRanges
       THEN te' = [te EXCEPT !.tcpBeLiberal = TRUE, !.mIsTetheringStarted = TRUE]
       ELSE IF te.mIsTetheringStarted THEN te' = te
       ELSE \/ te' = te
            \/ te' = applyDnsInterfaces([te EXCEPT !.daemon = "running", !.toldIfaces = <<>>, !.toldDns = <<>>,
                                                   !.tcpBeLiberal = TRUE, !.mIsTetheringStarted = TRUE]).m
    /\ UNCHANGED <<nat, kernel>>

stopTethering ==
    /\ te' = LET off == [te EXCEPT !.tcpBeLiberal = FALSE]
             IN  IF ~te.mIsTetheringStarted THEN off
                 ELSE IF te.daemon = "none" THEN [off EXCEPT !.mIsTetheringStarted = FALSE]
                 ELSE [off EXCEPT !.mIsTetheringStarted = FALSE, !.daemon = "none",
                                  !.update_ifaces_cmd = <<>>, !.update_dns_cmd = <<>>]
    /\ UNCHANGED <<nat, kernel>>

(* The daemon exits by itself.                                             *)
DaemonDies == te.daemon = "running" /\ te' = [te EXCEPT !.daemon = "dead"] /\ UNCHANGED <<nat, kernel>>

(* "bad" is a server that is not a numeric address.                        *)
setDnsForwarders(servers) ==
    /\ te' = IF servers = <<"bad">> THEN [te EXCEPT !.mDnsForwarders = <<>>]
             ELSE LET set == [te EXCEPT !.mDnsForwarders = servers, !.update_dns_cmd = servers]
                      sent == IF te.daemon = "none" THEN Sent(TRUE, set) ELSE sendAllState(set)
                  IN  IF sent.ok THEN sent.m ELSE [sent.m EXCEPT !.mDnsForwarders = <<>>]
    /\ UNCHANGED <<nat, kernel>>

(* The interface becomes an IPv6 router; when a setting cannot be made, or *)
(* dnsmasq cannot be told, it becomes a client again.                      *)
configureForIPv6Router(m, i) == [m EXCEPT !.router = @ \cup {i}]
configureForIPv6Client(m, i) == [m EXCEPT !.router = @ \ {i}]

tetherInterface(i) ==
    /\ Len(te.mInterfaces) < MaxTethered
    /\ \/ te' = configureForIPv6Client(te, i)
       \/ LET pushed == [configureForIPv6Router(te, i) EXCEPT !.mInterfaces = Append(@, i)]
              applied == applyDnsInterfaces(pushed)
          IN  te' = IF applied.ok THEN applied.m
                    ELSE configureForIPv6Client([applied.m EXCEPT !.mInterfaces = te.mInterfaces], i)
    /\ UNCHANGED <<nat, kernel>>

untetherInterface(i) ==
    /\ i \in ToSet(te.mInterfaces)
    /\ te' = applyDnsInterfaces(configureForIPv6Client(
                 [te EXCEPT !.mInterfaces = RemoveAt(@, First({j \in DOMAIN @ : @[j] = i}))], i)).m
    /\ UNCHANGED <<nat, kernel>>

-----------------------------------------------------------------------------
(* NAT.                                                                    *)

setDefaults(k) ==
    LET v4 == << <<NewChain("tetherctrl_FORWARD"), Append2("tetherctrl_FORWARD", Jump({}, "DROP"))>>, <<NewChain("tetherctrl_nat_POSTROUTING")>> >>
        v6 == << <<NewChain("tetherctrl_FORWARD")>>, <<NewChain("tetherctrl_raw_PREROUTING")>> >>
    IN  UNION {IF r.ok THEN Execute(r.k, Only("v6", v6)) ELSE {r} : r \in Execute(k, Only("v4", v4))}

TetherHooks(k) ==
    LET mss == << <<Append2("tetherctrl_mangle_FORWARD", Jump({"-p tcp", "SYN"}, "TCPMSS"))>> >>
        counters == << <<NewChain("tetherctrl_counters")>> >>
    IN  UNION {IF ~r.ok THEN {r.k}
               ELSE UNION {IF ~s.ok THEN {s.k} ELSE {q.k : q \in Execute(s.k, Both(counters))} : s \in Execute(r.k, Only("v4", mss))} :
                  r \in setDefaults(k)}

isForwardingPairEnabled(m, int, ext) == <<ext, int>> \in DOMAIN m /\ m[<<ext, int>>]
isAnyForwardingEnabledOnUpstream(m, ext) == \E p \in DOMAIN m : p[1] = ext /\ m[p]
isAnyForwardingPairEnabled(m) == \E p \in DOMAIN m : m[p]
tetherCountingRuleExists(m, if1, if2) == <<if1, if2>> \in DOMAIN m \/ <<if2, if1>> \in DOMAIN m
addForwardingPair(m, int, ext) == [p \in DOMAIN m \cup {<<ext, int>>} |-> p = <<ext, int>> \/ m[p]]
markForwardingPairDisabled(m, int, ext) == [p \in DOMAIN m |-> p # <<ext, int>> /\ m[p]]

setTetherGlobalAlertRule(m, k) ==
    IF isAnyForwardingPairEnabled(m) THEN {[ok |-> TRUE, k |-> k]}
    ELSE Execute(k, Both(<< <<Insert("tetherctrl_FORWARD", 1, Jump({}, "bw_global_alert"))>> >>))
setupIPv6CountersChain(m, k) ==
    IF isAnyForwardingPairEnabled(m) THEN {[ok |-> TRUE, k |-> k]}
    ELSE Execute(k, Only("v6", << <<Append2("tetherctrl_FORWARD", Rule({}, "-g", "tetherctrl_counters"))>> >>))

FromTo(in, out) == {"-i " \o in, "-o " \o out}
makeTetherCountingRule(if1, if2) == Append2("tetherctrl_counters", Jump(FromTo(if1, if2), "RETURN"))
CountingRules(m, int, ext) ==
    IF tetherCountingRuleExists(m, int, ext) THEN <<>> ELSE <<makeTetherCountingRule(int, ext), makeTetherCountingRule(ext, int)>>

Op(add, c, r) == IF add THEN Append2(c, r) ELSE Delete(c, r)
RpFilter(add, int) == << <<Op(add, "tetherctrl_raw_PREROUTING", Jump({"-i " \o int, "--rpfilter"}, "DROP"))>> >>
V4ForwardCommands(add, m, int, ext) ==
    LET op(r) == Op(add, "tetherctrl_FORWARD", r)
        drop == Jump({}, "DROP")
    IN  << <<Op(add, "tetherctrl_raw_PREROUTING", Jump({"-i " \o int, "--dport 21"}, "CT")),
             Op(add, "tetherctrl_raw_PREROUTING", Jump({"-i " \o int, "--dport 1723"}, "CT"))>>,
           <<op(Rule(FromTo(ext, int) \cup {"ESTABLISHED"}, "-g", "tetherctrl_counters")),
             op(Jump(FromTo(int, ext) \cup {"INVALID"}, "DROP")),
             op(Rule(FromTo(int, ext), "-g", "tetherctrl_counters"))>>
           \o (IF add THEN CountingRules(m, int, ext) \o <<Delete("tetherctrl_FORWARD", drop), Append2("tetherctrl_FORWARD", drop)>>
               ELSE <<>>) >>

(* setForwardRules(false, ...): the IPv6 counting rules stay.              *)
removeForwardRules(m, k, int, ext) ==
    UNION {{Outcome(s.ok, IF s.ok THEN markForwardingPairDisabled(m, int, ext) ELSE m, s.k) :
               s \in Execute(r.k, Only("v4", V4ForwardCommands(FALSE, m, int, ext)))} :
              r \in Execute(k, Only("v6", RpFilter(FALSE, int)))}

(* Mutant: a failed IPv4 batch is not undone.                              *)
addWithoutUnwind(m, k, int, ext) ==
    LET four(l) == UNION {IF s.ok THEN {Outcome(t.ok, IF t.ok THEN addForwardingPair(m, int, ext) ELSE m, t.k) : t \in Execute(s.k, Only("v6", <<CountingRules(m, int, ext)>>))}
                          ELSE Fails(m, s.k) : s \in Execute(l, Only("v4", V4ForwardCommands(TRUE, m, int, ext)))}
    IN  UNION {IF r.ok THEN four(r.k) ELSE Fails(m, r.k) : r \in Execute(k, Only("v6", RpFilter(TRUE, int)))}

(* setForwardRules(true, ...): what was done is undone when a part fails.  *)
addForwardRules(m, k, int, ext) ==
    LET unwind(l) == AfterFailure(removeForwardRules(m, l, int, ext))
        six(l) == UNION {IF s.ok THEN {Outcome(TRUE, addForwardingPair(m, int, ext), s.k)} ELSE unwind(s.k) :
                            s \in Execute(l, Only("v6", <<CountingRules(m, int, ext)>>))}
        four(l) == UNION {IF s.ok THEN six(s.k) ELSE unwind(s.k) : s \in Execute(l, Only("v4", V4ForwardCommands(TRUE, m, int, ext)))}
    IN  UNION {IF r.ok THEN four(r.k) ELSE Fails(m, r.k) : r \in Execute(k, Only("v6", RpFilter(TRUE, int)))}

(* Back to the default rules when no pair is left.                         *)
OrDefaults(m, k) == IF isAnyForwardingPairEnabled(m) THEN {k} ELSE {r.k : r \in setDefaults(k)}

(* The rules an upstream needs before its first pair.                      *)
SetUpstream(m, k, ext) ==
    LET masquerade == << <<Append2("tetherctrl_nat_POSTROUTING", Jump({"-o " \o ext}, "MASQUERADE"))>> >>
        alert(r) == IF r.ok THEN setTetherGlobalAlertRule(m, r.k) ELSE {r}
        counters(r) == IF r.ok THEN UNION {alert(s) : s \in setupIPv6CountersChain(m, r.k)} ELSE {r}
    IN  IF isAnyForwardingEnabledOnUpstream(m, ext) THEN {[ok |-> TRUE, k |-> k]}
        ELSE UNION {counters(r) : r \in Execute(k, Only("v4", masquerade))}

enableNatOutcomes(m, k, int, ext) ==
    IF int = ext THEN Fails(m, k)
    ELSE IF isForwardingPairEnabled(m, int, ext) THEN {Outcome(TRUE, m, k)}
    ELSE UNION {IF ~r.ok THEN {Outcome(FALSE, m, l) : l \in OrDefaults(m, r.k)}
                ELSE UNION {IF s.ok THEN {s} ELSE {Outcome(FALSE, s.m, l) : l \in OrDefaults(s.m, s.k)} : s \in addForwardRules(m, r.k, int, ext)} :
                   r \in SetUpstream(m, k, ext)}

enableNat(int, ext) ==
    /\ Len(Chains(kernel, "v4")["tetherctrl_nat_POSTROUTING"]) < MaxMasquerades
    /\ \E r \in enableNatOutcomes(nat, kernel, int, ext) : nat' = r.m /\ kernel' = r.k
    /\ UNCHANGED te

(* Callers disable the pairs they enabled.                                 *)
disableNat(int, ext) ==
    /\ isForwardingPairEnabled(nat, int, ext)
    /\ \E r \in removeForwardRules(nat, kernel, int, ext) : nat' = r.m /\ kernel' \in OrDefaults(r.m, r.k)
    /\ UNCHANGED te

-----------------------------------------------------------------------------
(* Statistics: the counting rules are read back in pairs.  An entry's tx   *)
(* and rx are the interfaces of the rules they were read from.             *)
NoStats == [int |-> "", ext |-> "", tx |-> <<>>, rx |-> <<>>]
IfaceOf(option, r, ifaces) == CHOOSE i \in ifaces : option \o i \in r.match
addStats(list, stats) == IF \E i \in DOMAIN list : list[i].int = stats.int /\ list[i].ext = stats.ext THEN list ELSE Append(list, stats)
addForwardChainStats(list, rules) ==
    LET ifaces == Downstreams \cup Upstreams
        line(s, r) ==
            LET if0 == IfaceOf("-i ", r, ifaces)
                if1 == IfaceOf("-o ", r, ifaces)
                cur == IF s.cur.int = "" THEN [NoStats EXCEPT !.int = if0, !.ext = if1, !.tx = <<if0, if1>>]
                       ELSE IF s.cur.int = if1 /\ s.cur.ext = if0 THEN [s.cur EXCEPT !.rx = <<if0, if1>>] ELSE s.cur
            IN  IF cur.tx # <<>> /\ cur.rx # <<>> THEN [cur |-> NoStats, list |-> addStats(s.list, cur)] ELSE [s EXCEPT !.cur = cur]
        last == FoldLeft(line, [cur |-> NoStats, list |-> list], rules)
    IN  [ok |-> (last.cur.tx = <<>>) = (last.cur.rx = <<>>), list |-> last.list]

getTetherStats(k) ==
    LET v4 == addForwardChainStats(<<>>, Chains(k, "v4")["tetherctrl_counters"])
    IN  IF v4.ok THEN addForwardChainStats(v4.list, Chains(k, "v6")["tetherctrl_counters"]) ELSE v4

-----------------------------------------------------------------------------
DaemonNext ==
    \/ \E r \in Requesters : enableForwarding(r) \/ disableForwarding(r)
    \/ \E dns, dhcp \in BOOLEAN : startTethering(dns, dhcp)
    \/ stopTethering
    \/ DaemonDies
    \/ \E s \in DnsServers : setDnsForwarders(s)
    \/ \E i \in Downstreams : tetherInterface(i) \/ untetherInterface(i)
NatNext == \E p \in NatPairs : enableNat(p[1], p[2]) \/ disableNat(p[1], p[2])

(* While dnsmasq runs and serves an interface, it has been told of every   *)
(* interface that is tethered and of the DNS servers last set, also those  *)
(* set before it was started and after one of its predecessors died.       *)
DnsmasqIsUpToDate ==
    te.daemon = "running" /\ te.mInterfaces # <<>> =>
        /\ te.toldIfaces = SubSeq(te.mInterfaces, 1, Len(te.toldIfaces))
        /\ Len(te.toldIfaces) = MaxCmdInterfaces \/ te.toldIfaces = te.mInterfaces
        /\ te.update_dns_cmd # <<>> => te.toldDns = te.update_dns_cmd

Forwards(f, p) == Verdict(kernel, f, "tetherctrl_FORWARD", p) = "RETURN"

(* One batch that fails anywhere in enableNat or disableNat, or takes      *)
(* effect although it is reported as failed, never leaves IPv4 packets     *)
(* forwarded between two interfaces that mFwdIfaces does not hold active;  *)
(* without such a failure an active pair is forwarded and masqueraded,     *)
(* whichever other pairs were disabled before it.  The statistics can be   *)
(* read at any time, and every pair that was ever enabled is counted in    *)
(* both families, also after a batch that failed.                          *)
NatFollowsPairs ==
    LET stats(f) == addForwardChainStats(<<>>, Chains(kernel, f)["tetherctrl_counters"]).list
    IN  /\ \A int \in Downstreams, ext \in Upstreams :
              /\ \/ Forwards("v4", FromTo(int, ext))
                 \/ Forwards("v4", FromTo(ext, int) \cup {"ESTABLISHED"})
                 => isForwardingPairEnabled(nat, int, ext)
              /\ ~Forwards("v4", FromTo(ext, int))
              /\ isForwardingPairEnabled(nat, int, ext) /\ kernel.faults = MaxFaults =>
                   /\ \A f \in Families :
                         /\ Forwards(f, FromTo(int, ext))
                         /\ Forwards(f, FromTo(ext, int) \cup {"ESTABLISHED"})
                   /\ Jump({"-o " \o ext}, "MASQUERADE")
                        \in ToSet(Chains(kernel, "v4")["tetherctrl_nat_POSTROUTING"])
        /\ getTetherStats(kernel).ok
        /\ \A p \in DOMAIN nat, f \in Families : \E i \in DOMAIN stats(f) :
              {stats(f)[i].int, stats(f)[i].ext} = {p[1], p[2]}
=============================================================================
