------------------------- MODULE FirewallController -------------------------
(***************************************************************************)
(* FirewallController: the firewall type and, in ALLOWLIST mode, the       *)
(* interfaces that are let through.  Each operation runs under             *)
(* FirewallController::lock.                                               *)
(***************************************************************************)
EXTENDS Iptables

CONSTANT FwIfaces    \* the interfaces rules are set on

VARIABLE fw

(* Without rules the firewall is in DENYLIST mode.                         *)
FirewallController == [mFirewallType |-> "DENYLIST", mIfaceRules |-> {}]

flushRules(k) ==
    LET clear == <<NewChain("fw_INPUT"), NewChain("fw_OUTPUT"), NewChain("fw_FORWARD")>>
    IN  Execute(k, [v4 |-> <<clear>>,
                    v6 |-> <<clear \o <<Append2("fw_OUTPUT", Jump({"! -o lo", "-s ::1"}, "DROP"))>> >>])

FirewallHooks(k) == {r.k : r \in flushRules(k)}

(* Mutant: the interfaces are remembered when their rules are flushed.     *)
flushOnly(m, k) == {Outcome(r.ok, [m EXCEPT !.mFirewallType = "ALLOWLIST"], r.k) : r \in flushRules(k)}
resetFirewall(m, k) ==
    {Outcome(r.ok, [m EXCEPT !.mFirewallType = "ALLOWLIST", !.mIfaceRules = {}], r.k) : r \in flushRules(k)}

(* The result of the reset is not looked at.                               *)
setFirewallType(m, k, ftype) ==
    IF m.mFirewallType = ftype THEN {Outcome(TRUE, m, k)}
    ELSE LET drop == <<Append2("fw_INPUT", Jump({}, "DROP")), Append2("fw_OUTPUT", Jump({}, "REJECT")), Append2("fw_FORWARD", Jump({}, "REJECT"))>>
             set(r) == [r.m EXCEPT !.mFirewallType = ftype]
         IN  UNION {IF ftype = "ALLOWLIST" THEN {Outcome(s.ok, set(r), s.k) : s \in Execute(r.k, Both(<<drop>>))}
                    ELSE {Outcome(TRUE, set(r), r.k)} : r \in resetFirewall(m, k)}

(* An interface is recorded before its rules are sent.                     *)
setInterfaceRule(m, k, iface, rule) ==
    LET known == iface \in m.mIfaceRules
        in == Jump({"-i " \o iface}, "RETURN")
        out == Jump({"-o " \o iface}, "RETURN")
    IN  CASE m.mFirewallType = "DENYLIST" -> Fails(m, k)
          [] m.mFirewallType # "DENYLIST" /\ rule = "ALLOW" /\ ~known ->
                {Outcome(r.ok, [m EXCEPT !.mIfaceRules = @ \cup {iface}], r.k) :
                    r \in Execute(k, Both(<< <<Insert("fw_INPUT", 1, in), Insert("fw_OUTPUT", 1, out)>> >>))}
          [] m.mFirewallType # "DENYLIST" /\ rule = "DENY" /\ known ->
                {Outcome(r.ok, [m EXCEPT !.mIfaceRules = @ \ {iface}], r.k) :
                    r \in Execute(k, Both(<< <<Delete("fw_INPUT", in), Delete("fw_OUTPUT", out)>> >>))}
          [] OTHER -> {Outcome(TRUE, m, k)}

(* The six ICMPv6 types IPv6 cannot work without are one option here.      *)
makeCriticalCommands(f, chain) == IF f = "v6" THEN <<Append2(chain, Jump({"-p icmpv6"}, "RETURN"))>> ELSE <<>>

FirewallStep(results) == \E r \in results : fw' = r.m /\ kernel' = r.k
FirewallNext ==
    \/ \E ftype \in {"ALLOWLIST", "DENYLIST"} : FirewallStep(setFirewallType(fw, kernel, ftype))
    \/ \E i \in FwIfaces, rule \in {"ALLOW", "DENY"} : FirewallStep(setInterfaceRule(fw, kernel, i, rule))

(* What the firewall promises of the packets of an interface.              *)
Passes(m, i) == m.mFirewallType = "DENYLIST" \/ i \in m.mIfaceRules

(* In every order of type changes and interface rules, exactly the         *)
(* interfaces FirewallController believes open are: the others' incoming   *)
(* packets are dropped and their outgoing and forwarded ones rejected, in  *)
(* both families, and leaving ALLOWLIST mode leaves no rule behind.        *)
FirewallPolicyHolds ==
    \A f \in Families, i \in FwIfaces :
        /\ Verdict(kernel, f, "fw_INPUT", {"-i " \o i}) = IF Passes(fw, i) THEN "RETURN" ELSE "DROP"
        /\ Verdict(kernel, f, "fw_OUTPUT", {"-o " \o i, "! -o lo"}) = IF Passes(fw, i) THEN "RETURN" ELSE "REJECT"
        /\ Verdict(kernel, f, "fw_FORWARD", {"-i " \o i}) = IF fw.mFirewallType = "DENYLIST" THEN "RETURN" ELSE "REJECT"
=============================================================================
