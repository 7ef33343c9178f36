---------------------------- MODULE Controllers ----------------------------
(***************************************************************************)
(* Controllers: the start of netd, which hooks the controllers' chains     *)
(* into the built-in ones and has every controller set up its own, on a    *)
(* device that has just booted or on the tables a netd that crashed left   *)
(* behind, with rules of the vendor's between netd's.                      *)
(***************************************************************************)
EXTENDS BandwidthController, StrictController, TetherController, InterfaceMonitors

FILTER_INPUT == <<"bw_INPUT", "fw_INPUT">>
FILTER_FORWARD == <<"oem_fwd", "fw_FORWARD", "bw_FORWARD", "tetherctrl_FORWARD">>
FILTER_OUTPUT == <<"oem_out", "fw_OUTPUT", "st_OUTPUT", "bw_OUTPUT">>
RAW_PREROUTING == <<"idletimer_raw_PREROUTING", "bw_raw_PREROUTING", "tetherctrl_raw_PREROUTING">>
MANGLE_POSTROUTING == <<"oem_mangle_post", "bw_mangle_POSTROUTING", "idletimer_mangle_POSTROUTING">>
MANGLE_INPUT == <<"wakeupctrl_mangle_INPUT", "routectrl_mangle_INPUT">>
MANGLE_FORWARD == <<"tetherctrl_mangle_FORWARD">>
NAT_PREROUTING == <<"oem_nat_pre">>
NAT_POSTROUTING == <<"tetherctrl_nat_POSTROUTING">>

(* The children a chain already jumps to unconditionally, or nothing when  *)
(* the chain cannot be listed.                                             *)
findExistingChildChains(k, f, parent) ==
    {[k |-> r.k, existing |-> IF r.ok THEN {x.to : x \in {y \in ToSet(Chains(k, f)[parent]) : y.match = {}}} ELSE {}] :
        r \in Execute(k, Only(f, << <<>> >>))}

ChildCommands(parent, children, existing) ==
    FoldLeft(LAMBDA s, c : s \o <<NewChain(c)>> \o IF c \in existing THEN <<>> ELSE <<Append2(parent, Jump({}, c))>>, <<>>, children)

(* A chain netd owns is cleared; in one the vendor shares, the jumps that  *)
(* exist keep their places.                                                *)
(* Mutants: a built-in chain is not flushed; a shared chain is rebuilt.    *)
createWithoutFlush(k, fams, parent, children) ==
    {r.k : r \in Execute(k, [f \in fams |-> << <<NewChain(parent)>> \o ChildCommands(parent, children, {}) >>])}
rebuildShared(k, f, parent, children) ==
    {r.k : r \in Execute(k, Only(f, << <<NewChain(parent), Flush(parent)>> \o ChildCommands(parent, children, {}) >>))}
createOwnChildren(k, fams, parent, children) ==
    {r.k : r \in Execute(k, [f \in fams |-> << <<NewChain(parent), Flush(parent)>> \o ChildCommands(parent, children, {}) >>])}
createSharedChildren(k, f, parent, children) ==
    UNION {{r.k : r \in Execute(l.k, Only(f, <<ChildCommands(parent, children, l.existing)>>))} : l \in findExistingChildChains(k, f, parent)}

Own(ks, fams, parent, children) == UNION {createOwnChildren(k, fams, parent, children) : k \in ks}
Shared(ks, f, parent, children) == UNION {createSharedChildren(k, f, parent, children) : k \in ks}

initChildChains(k) ==
    LET a == Own({k}, Families, "filter INPUT", FILTER_INPUT)
        b == Own(a, Families, "filter FORWARD", FILTER_FORWARD)
        c == Own(b, Families, "raw PREROUTING", RAW_PREROUTING)
        d == Own(c, Families, "mangle FORWARD", MANGLE_FORWARD)
        e == Own(d, Families, "mangle INPUT", MANGLE_INPUT)
        f == Own(e, {"v4"}, "nat PREROUTING", NAT_PREROUTING)
        g == Own(f, {"v4"}, "nat POSTROUTING", NAT_POSTROUTING)
        h == Shared(g, "v4", "filter OUTPUT", FILTER_OUTPUT)
        i == Shared(h, "v6", "filter OUTPUT", FILTER_OUTPUT)
        j == Shared(i, "v4", "mangle POSTROUTING", MANGLE_POSTROUTING)
    IN  Shared(j, "v6", "mangle POSTROUTING", MANGLE_POSTROUTING)

(* The vendor's script, when there is one, fills the oem_* chains.         *)
oemCleanupHooks(k) ==
    LET clear == <<NewChain("oem_out"), NewChain("oem_fwd")>>
    IN  UNION {IF r.ok THEN {s.k : s \in Execute(r.k, Only("v6", <<clear>>))} ELSE {r.k} :
                  r \in Execute(k, Only("v4", <<clear, <<NewChain("oem_nat_pre")>> >>))}

initIptablesRules(k) ==
    LET a == UNION {oemCleanupHooks(l) : l \in initChildChains(k)}
        b == UNION {FirewallHooks(l) : l \in a}
        c == UNION {TetherHooks(l) : l \in b}
        d == UNION {BandwidthHooks(l) : l \in c}
    IN  UNION {StrictHooks(l) : l \in d}

ControllersInit(k) == UNION {{r.k : r \in enableBandwidthControl(l)} : l \in initIptablesRules(k)}

-----------------------------------------------------------------------------
VARIABLE fresh    \* netd has just started and changed nothing yet

filterVars == <<kernel, bw, fw, penalties, te, nat, fresh>>

FreshFields ==
    /\ bw = BandwidthController
    /\ fw = FirewallController
    /\ penalties = [u \in Apps |-> "ACCEPT"]
    /\ te = TetherController
    /\ nat = [p \in {} |-> FALSE]
    /\ fresh = TRUE

ControllersStart == kernel \in ControllersInit(EmptyKernel) /\ FreshFields

(* netd crashes and is started again on the tables it left.                *)
Restart ==
    /\ kernel' \in ControllersInit([kernel EXCEPT !.faults = 0])
    /\ bw' = BandwidthController
    /\ fw' = FirewallController
    /\ penalties' = [u \in Apps |-> "ACCEPT"]
    /\ te' = TetherController
    /\ nat' = [p \in {} |-> FALSE]
    /\ fresh' = TRUE

(* The vendor's rules in the chains it shares with netd.                   *)
VendorRule == Jump({"vendor"}, "ACCEPT")
SharedChains == {"filter OUTPUT", "mangle POSTROUTING"}
VendorAdds(f, c, pos) ==
    /\ VendorRule \notin ToSet(Chains(kernel, f)[c])
    /\ kernel' = [kernel EXCEPT !.chains[f][c] = InsertAt(@, pos, VendorRule)]
    /\ UNCHANGED <<bw, fw, penalties, te, nat, fresh>>

(* The chains packets can meet, without the vendor's rules.                *)
RECURSIVE ReachableFrom(_, _)
ReachableFrom(t, S) ==
    LET next == S \cup {r.to : r \in {x \in UNION {ToSet(t[c]) : c \in S} : x.to \in DOMAIN t}}
    IN  IF next = S THEN S ELSE ReachableFrom(t, next)
NetdRules(t) == [c \in ReachableFrom(t, BuiltinChains) |-> SelectSeq(t[c], LAMBDA r : r # VendorRule)]

(* However the tables looked when netd crashed, and whatever had failed    *)
(* before, after a restart packets meet exactly the rules of a first boot: *)
(* no quota, penalty, NAT, firewall or monitor rule of the last life, and  *)
(* no hook twice.                                                          *)
RestartMeetsFirstBoot ==
    fresh => \A f \in Families : \E k \in ControllersInit(EmptyKernel) : NetdRules(Chains(kernel, f)) = NetdRules(Chains(k, f))

(* netd never changes the chains it shares with the vendor, not even when  *)
(* it restarts: its own jumps and the vendor's rules keep their places.    *)
SharedChainsAreLeftAlone ==
    [][\A f \in Families, c \in SharedChains :
          LET old == Chains(kernel, f)[c]
              new == Chains(kernel', f)[c]
          IN  new = old \/ \E pos \in 1 .. Len(old) + 1 : new = InsertAt(old, pos, VendorRule)]_filterVars
=============================================================================
