------------------------- MODULE InterfaceMonitors -------------------------
(***************************************************************************)
(* The rules of two controllers that only watch interfaces:                *)
(* IdletimerController's timers and WakeupController's packet log.         *)
(* Neither keeps state of its own.                                         *)
(***************************************************************************)
EXTENDS Iptables

CONSTANTS Monitored,           \* the interfaces watched
          MaxMonitorRules      \* bound: rules in a chain

Op2(op, c, r) == IF op = "-A" THEN Append2(c, r) ELSE Delete(c, r)

(* The raw and the mangle rule are two sections of one batch.              *)
modifyInterfaceIdletimer(k, op, iface) ==
    Execute(k, Both(<< <<Op2(op, "idletimer_raw_PREROUTING", Jump({"-i " \o iface}, "IDLETIMER"))>>,
                       <<Op2(op, "idletimer_mangle_POSTROUTING", Jump({"-o " \o iface}, "IDLETIMER"))>> >>))

execIptables(k, op, iface) ==
    Execute(k, Both(<< <<Op2(op, "wakeupctrl_mangle_INPUT", Jump({"-i " \o iface, "--mark"}, "NFLOG"))>> >>))

MonitorsNext ==
    \E i \in Monitored, op \in {"-A", "-D"} :
        \/ /\ op = "-A" => Len(Chains(kernel, "v4")["idletimer_raw_PREROUTING"]) < MaxMonitorRules
           /\ \E r \in modifyInterfaceIdletimer(kernel, op, i) : kernel' = r.k
        \/ /\ op = "-A" => Len(Chains(kernel, "v4")["wakeupctrl_mangle_INPUT"]) < MaxMonitorRules
           /\ \E r \in execIptables(kernel, op, i) : kernel' = r.k
=============================================================================
