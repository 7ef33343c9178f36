------------------------------ MODULE MCFilters ------------------------------
(***************************************************************************)
(* The controllers of the packet filter, model-checked one at a time: they *)
(* use different chains, so a behaviour exercises one controller, chosen   *)
(* at the start, and restarts of netd.                                     *)
(***************************************************************************)
EXTENDS Controllers

VARIABLE component

MCDnsServers == {<<"8.8.8.8">>, <<"1.1.1.1", "8.8.8.8">>, <<"bad">>}

MCNatPairs == {<<"wlan0", "rmnet0">>, <<"usb0", "rmnet0">>, <<"wlan0", "eth0">>}

BootedWith(faults) == \E k \in ControllersInit(EmptyKernel) : kernel = [k EXCEPT !.faults = faults]

FiltersInit ==
    /\ component \in {"bandwidth", "firewall", "strict", "monitors", "daemon", "nat"}
    /\ BootedWith(IF component = "nat" THEN MaxFaults ELSE 0)
    /\ FreshFields

Running(c) == component = c /\ fresh' = FALSE

FiltersNext ==
    /\ UNCHANGED component
    /\ \/ Running("bandwidth") /\ BandwidthNext /\ UNCHANGED <<fw, penalties, te, nat>>
       \/ Running("firewall") /\ FirewallNext /\ UNCHANGED <<bw, penalties, te, nat>>
       \/ Running("strict") /\ StrictNext /\ UNCHANGED <<bw, fw, te, nat>>
       \/ Running("monitors") /\ MonitorsNext /\ UNCHANGED <<bw, fw, penalties, te, nat>>
       \/ Running("daemon") /\ DaemonNext /\ UNCHANGED <<bw, fw, penalties>>
       \/ Running("nat") /\ NatNext /\ UNCHANGED <<bw, fw, penalties>>
       \/ component # "daemon" /\ Restart
       \/ /\ component = "firewall"
          /\ \E f \in Families, c \in SharedChains, pos \in {1, 3} : VendorAdds(f, c, pos)

(* BandwidthPolicyHolds, in the behaviours in which it can fail: in every  *)
(* order of the calls to BandwidthController, packets meet the policy of   *)
(* their interface and the kernel counts the quota last set.               *)
QuotasAreEnforced == component = "bandwidth" => BandwidthPolicyHolds

FiltersSpec == FiltersInit /\ [][FiltersNext]_<<filterVars, component>>
=============================================================================
