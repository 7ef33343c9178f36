------------------------ MODULE BandwidthController ------------------------
(***************************************************************************)
(* BandwidthController: interface quotas, the quota shared by several      *)
(* interfaces, their alerts and data saver, kept as rules of the bw_*      *)
(* chains.  The controller's fields are one record, bw, and an operation   *)
(* maps bw and the kernel's state to the set of its possible outcomes      *)
(* [ok, m, k]; NetdNativeService holds BandwidthController::lock around   *)
(* each, so an operation is one step.                                      *)
(***************************************************************************)
EXTENDS FirewallController

CONSTANTS BwIfaces,     \* the interfaces of the shared quota
          QuotaIfaces,  \* those of them with a quota of their own
          Quotas,       \* the interface quotas asked for
          Alerts        \* the shared quotas and the alerts asked for

VARIABLE bw

BandwidthController ==
    [mSharedQuotaIfaces |-> {}, mQuotaIfaces |-> [i \in {} |-> 0], mGlobalAlertBytes |-> 0,
     mSharedQuotaBytes |-> 0, mSharedAlertBytes |-> 0, dataSaver |-> FALSE]

Costly(cost) == "bw_costly_" \o cost
Alert(cost) == cost \o "Alert"

-----------------------------------------------------------------------------
(* Set-up, at the start of netd.                                           *)

IPT_FLUSH_COMMANDS ==
    << <<NewChain("bw_INPUT"), NewChain("bw_OUTPUT"), NewChain("bw_FORWARD"), NewChain("bw_happy_box"),
         NewChain("bw_penalty_box"), NewChain("bw_data_saver"), NewChain("bw_costly_shared"), NewChain("bw_global_alert")>>,
       <<NewChain("bw_raw_PREROUTING")>>, <<NewChain("bw_mangle_POSTROUTING")>> >>

getBasicAccountingCommands ==
    << <<Append2("bw_INPUT", Jump({}, "bw_global_alert")),
         Append2("bw_INPUT", Jump({"-p esp"}, "RETURN")),
         Append2("bw_INPUT", Jump({"--mark uidBillingMask"}, "RETURN")),
         Append2("bw_INPUT", Jump({}, "MARK")),
         Append2("bw_OUTPUT", Jump({}, "bw_global_alert")),
         Append2("bw_costly_shared", Jump({}, "bw_penalty_box")),
         Insert("bw_penalty_box", 1, Jump({"-m bpf DENYLIST"}, "REJECT")),
         Append2("bw_penalty_box", Jump({}, "bw_happy_box")),
         Append2("bw_happy_box", Jump({}, "bw_data_saver")),
         Append2("bw_data_saver", Jump({}, "RETURN")),
         Insert("bw_happy_box", 1, Jump({"-m bpf ALLOWLIST"}, "RETURN"))>>,
       <<Append2("bw_raw_PREROUTING", Jump({"--mark CLAT_MARK"}, "DROP")),
         Append2("bw_raw_PREROUTING", Jump({"-i ipsec+"}, "RETURN")),
         Append2("bw_raw_PREROUTING", Jump({"--pol ipsec"}, "RETURN")),
         Append2("bw_raw_PREROUTING", Jump({"-m bpf INGRESS"}, ""))>>,
       <<Append2("bw_mangle_POSTROUTING", Jump({"-o ipsec+"}, "RETURN")),
         Append2("bw_mangle_POSTROUTING", Jump({"--pol ipsec"}, "RETURN")),
         Append2("bw_mangle_POSTROUTING", Jump({}, "MARK")),
         Append2("bw_mangle_POSTROUTING", Jump({"-m bpf EGRESS"}, ""))>> >>

(* The chains of single interfaces are those the IPv4 listing shows, with  *)
(* any order of the interfaces.                                            *)
parseAndFlushCostlyTables(k, listed, doRemove) ==
    LET chains == SetToSeq({Costly(i) : i \in {j \in BwIfaces : Costly(j) \in listed}})
        clear(c) == IF doRemove THEN <<NewChain(c), DeleteChain(c)>> ELSE <<NewChain(c)>>
        clearCommands == FoldLeft(LAMBDA s, c : s \o clear(c), <<>>, chains)
    IN  IF clearCommands = <<>> THEN {k} ELSE {r.k : r \in ExecuteMetered(k, Both(<<clearCommands>>))}

flushExistingCostlyTables(k, doClean) ==
    UNION {IF r.ok THEN parseAndFlushCostlyTables(r.k, DOMAIN Chains(r.k, "v4"), doClean) ELSE {r.k} :
              r \in ExecuteMetered(k, Only("v4", << <<>> >>))}

flushCleanTables(k, doClean) ==
    UNION {{r.k : r \in ExecuteMetered(l, Both(IPT_FLUSH_COMMANDS))} : l \in flushExistingCostlyTables(k, doClean)}

BandwidthHooks(k) == flushCleanTables(k, TRUE)

enableBandwidthControl(k) ==
    UNION {{Outcome(r.ok, BandwidthController, r.k) : r \in ExecuteMetered(l, Both(getBasicAccountingCommands))} :
              l \in flushCleanTables(k, FALSE)}

-----------------------------------------------------------------------------
(* Data saver.                                                             *)

makeDataSaverCommand(f, enable) ==
    << <<NewChain("bw_data_saver")>>
       \o (IF enable THEN makeCriticalCommands(f, "bw_data_saver") ELSE <<>>)
       \o <<Append2("bw_data_saver", Jump({}, IF enable THEN "REJECT" ELSE "RETURN"))>> >>

enableDataSaver(m, k, enable) ==
    UNION {{Outcome(r.ok /\ s.ok, [m EXCEPT !.dataSaver = enable], s.k) :
                s \in ExecuteMetered(r.k, Only("v6", makeDataSaverCommand("v6", enable)))} :
              r \in ExecuteMetered(k, Only("v4", makeDataSaverCommand("v4", enable)))}

-----------------------------------------------------------------------------
(* Quotas.                                                                 *)

(* Writing /proc/net/xt_quota/<name>; a failed write is ignored.           *)
updateQuota(k, name, bytes) ==
    IF name \notin DOMAIN k.quotas THEN {[ok |-> FALSE, k |-> k]}
    ELSE {[ok |-> TRUE, k |-> [k EXCEPT !.quotas[name] = bytes]]}
         \cup IF k.faults = 0 THEN {} ELSE {[ok |-> TRUE, k |-> [k EXCEPT !.faults = @ - 1]]}

ruleInsertPos(m) == IF m.mGlobalAlertBytes # 0 THEN 2 ELSE 1
(* Mutant: the jumps go to the end of bw_INPUT and bw_OUTPUT.              *)
appendHooks(iface, chain, pos) ==
    <<Append2("bw_INPUT", Jump({"-i " \o iface}, chain)), Append2("bw_OUTPUT", Jump({"-o " \o iface}, chain)),
      Append2("bw_FORWARD", Jump({"-i " \o iface}, chain)), Append2("bw_FORWARD", Jump({"-o " \o iface}, chain))>>
CostlyHooks(iface, chain, pos) ==
    <<Insert("bw_INPUT", pos, Jump({"-i " \o iface}, chain)), Insert("bw_OUTPUT", pos, Jump({"-o " \o iface}, chain)),
      Append2("bw_FORWARD", Jump({"-i " \o iface}, chain)), Append2("bw_FORWARD", Jump({"-o " \o iface}, chain))>>
RemoveCostlyHooks(iface, chain) ==
    <<Delete("bw_INPUT", Jump({"-i " \o iface}, chain)), Delete("bw_OUTPUT", Jump({"-o " \o iface}, chain)),
      Delete("bw_FORWARD", Jump({"-i " \o iface}, chain)), Delete("bw_FORWARD", Jump({"-o " \o iface}, chain))>>

setInterfaceQuotaCommands(m, iface, maxBytes) ==
    <<NewChain(Costly(iface)), Append2(Costly(iface), Jump({}, "bw_penalty_box"))>>
    \o CostlyHooks(iface, Costly(iface), ruleInsertPos(m))
    \o <<Append2(Costly(iface), QuotaRule(iface, maxBytes, "REJECT"))>>

removeInterfaceQuota(m, k, iface) ==
    IF iface \notin DOMAIN m.mQuotaIfaces THEN Fails(m, k)
    ELSE LET cmds == RemoveCostlyHooks(iface, Costly(iface)) \o <<Flush(Costly(iface)), DeleteChain(Costly(iface))>>
         IN  {Outcome(r.ok,
                      IF r.ok THEN [m EXCEPT !.mQuotaIfaces = [i \in DOMAIN @ \ {iface} |-> @[i]]] ELSE m,
                      r.k) : r \in ExecuteMetered(k, Both(<<cmds>>))}

setInterfaceQuota(m, k, iface, maxBytes) ==
    IF maxBytes = 0 THEN Fails(m, k)
    ELSE IF maxBytes = -1 THEN removeInterfaceQuota(m, k, iface)
    ELSE IF iface \in DOMAIN m.mQuotaIfaces
    THEN UNION {IF r.ok THEN {Outcome(TRUE, [m EXCEPT !.mQuotaIfaces[iface].quota = maxBytes], r.k)}
                ELSE AfterFailure(removeInterfaceQuota(m, r.k, iface)) : r \in updateQuota(k, iface, maxBytes)}
    ELSE UNION {IF r.ok
                THEN {Outcome(TRUE,
                              [m EXCEPT !.mQuotaIfaces = [i \in DOMAIN @ \cup {iface} |->
                                  IF i = iface THEN [quota |-> maxBytes, alert |-> 0] ELSE @[i]]],
                              r.k)}
                ELSE AfterFailure(removeInterfaceQuota(m, r.k, iface)) :
                   r \in ExecuteMetered(k, Both(<<setInterfaceQuotaCommands(m, iface, maxBytes)>>))}

-----------------------------------------------------------------------------
(* Alerts.                                                                 *)

runIptablesAlertCmd(k, op, bytes) ==
    LET rule == QuotaRule("globalAlert", bytes, "")
    IN  ExecuteMetered(k, Both(<< <<IF op = "-I" THEN Insert("bw_global_alert", 1, rule) ELSE Delete("bw_global_alert", rule)>> >>))

setGlobalAlert(m, k, bytes) ==
    IF bytes = 0 THEN Fails(m, k)
    ELSE {Outcome(r.ok, [m EXCEPT !.mGlobalAlertBytes = bytes], r.k) :
             r \in IF m.mGlobalAlertBytes # 0 THEN updateQuota(k, "globalAlert", bytes) ELSE runIptablesAlertCmd(k, "-I", bytes)}

removeGlobalAlert(m, k) ==
    IF m.mGlobalAlertBytes = 0 THEN Fails(m, k)
    ELSE {Outcome(r.ok, [m EXCEPT !.mGlobalAlertBytes = 0], r.k) : r \in runIptablesAlertCmd(k, "-D", m.mGlobalAlertBytes)}

(* An alert that is already set is refreshed with the value it had.        *)
setCostlyAlert(k, cost, bytes, alertBytes) ==
    {[ok |-> r.ok, k |-> r.k, alertBytes |-> IF r.ok THEN bytes ELSE alertBytes] :
        r \in IF alertBytes # 0 THEN updateQuota(k, Alert(cost), alertBytes)
              ELSE ExecuteMetered(k, Both(<< <<Append2(Costly(cost), QuotaRule(Alert(cost), bytes, ""))>> >>))}

removeCostlyAlert(k, cost, alertBytes) ==
    IF alertBytes = 0 THEN {[ok |-> FALSE, k |-> k, alertBytes |-> 0]}
    ELSE {[ok |-> r.ok, k |-> r.k, alertBytes |-> IF r.ok THEN 0 ELSE alertBytes] :
             r \in ExecuteMetered(k, Both(<< <<Delete(Costly(cost), QuotaRule(Alert(cost), alertBytes, ""))>> >>))}

setInterfaceAlert(m, k, iface, bytes) ==
    IF bytes = 0 \/ iface \notin DOMAIN m.mQuotaIfaces THEN Fails(m, k)
    ELSE {Outcome(r.ok, [m EXCEPT !.mQuotaIfaces[iface].alert = r.alertBytes], r.k) :
             r \in setCostlyAlert(k, iface, bytes, m.mQuotaIfaces[iface].alert)}

removeInterfaceAlert(m, k, iface) ==
    IF iface \notin DOMAIN m.mQuotaIfaces THEN Fails(m, k)
    ELSE {Outcome(r.ok, [m EXCEPT !.mQuotaIfaces[iface].alert = r.alertBytes], r.k) :
             r \in removeCostlyAlert(k, iface, m.mQuotaIfaces[iface].alert)}

setSharedAlert(m, k, bytes) ==
    IF bytes = 0 \/ m.mSharedQuotaBytes = 0 THEN Fails(m, k)
    ELSE {Outcome(r.ok, [m EXCEPT !.mSharedAlertBytes = r.alertBytes], r.k) :
             r \in setCostlyAlert(k, "shared", bytes, m.mSharedAlertBytes)}

removeSharedAlert(m, k) ==
    {Outcome(r.ok, [m EXCEPT !.mSharedAlertBytes = r.alertBytes], r.k) : r \in removeCostlyAlert(k, "shared", m.mSharedAlertBytes)}

-----------------------------------------------------------------------------
(* The quota shared by several interfaces; it goes, with its alert, with   *)
(* the last of them.                                                       *)

removeInterfaceSharedQuota(m, k, iface) ==
    IF iface \notin m.mSharedQuotaIfaces THEN Fails(m, k)
    ELSE LET last == m.mSharedQuotaIfaces = {iface}
             cmds == RemoveCostlyHooks(iface, Costly("shared"))
                     \o IF last THEN <<Delete(Costly("shared"), QuotaRule("shared", m.mSharedQuotaBytes, "REJECT"))>> ELSE <<>>
             erased == [m EXCEPT !.mSharedQuotaIfaces = @ \ {iface}, !.mSharedQuotaBytes = IF last THEN 0 ELSE @]
         IN  UNION {IF ~r.ok THEN Fails(m, r.k)
                    ELSE IF last /\ m.mSharedAlertBytes # 0 THEN removeSharedAlert(erased, r.k)
                    ELSE {Outcome(TRUE, erased, r.k)} : r \in ExecuteMetered(k, Both(<<cmds>>))}

addSharedInterface(m, k, iface, maxBytes) ==
    LET cmds == CostlyHooks(iface, Costly("shared"), ruleInsertPos(m))
                \o IF m.mSharedQuotaIfaces = {} THEN <<Insert(Costly("shared"), 1, QuotaRule("shared", maxBytes, "REJECT"))>> ELSE <<>>
    IN  UNION {IF r.ok THEN {Outcome(TRUE, [m EXCEPT !.mSharedQuotaBytes = maxBytes, !.mSharedQuotaIfaces = @ \cup {iface}], r.k)}
               ELSE AfterFailure(removeInterfaceSharedQuota(m, r.k, iface)) : r \in ExecuteMetered(k, Both(<<cmds>>))}

updateSharedQuota(s, iface, maxBytes) ==
    IF ~s.ok \/ s.m.mSharedQuotaBytes = maxBytes THEN {s}
    ELSE UNION {IF r.ok THEN {Outcome(TRUE, [s.m EXCEPT !.mSharedQuotaBytes = maxBytes], r.k)}
                ELSE AfterFailure(removeInterfaceSharedQuota(s.m, r.k, iface)) : r \in updateQuota(s.k, "shared", maxBytes)}

setInterfaceSharedQuota(m, k, iface, maxBytes) ==
    IF maxBytes = 0 THEN Fails(m, k)
    ELSE IF maxBytes = -1 THEN removeInterfaceSharedQuota(m, k, iface)
    ELSE UNION {updateSharedQuota(s, iface, maxBytes) :
                   s \in IF iface \in m.mSharedQuotaIfaces THEN {Outcome(TRUE, m, k)} ELSE addSharedInterface(m, k, iface, maxBytes)}

-----------------------------------------------------------------------------
BandwidthStep(results) == \E r \in results : bw' = r.m /\ kernel' = r.k

BandwidthNext ==
    \/ \E e \in BOOLEAN : BandwidthStep(enableDataSaver(bw, kernel, e))
    \/ \E i \in QuotaIfaces :
          \/ \E b \in Quotas \cup {0, -1} : BandwidthStep(setInterfaceQuota(bw, kernel, i, b))
          \/ BandwidthStep(removeInterfaceQuota(bw, kernel, i))
          \/ \E b \in Alerts \cup {0} : BandwidthStep(setInterfaceAlert(bw, kernel, i, b))
          \/ BandwidthStep(removeInterfaceAlert(bw, kernel, i))
    \/ \E i \in BwIfaces :
          \/ \E b \in Alerts \cup {0, -1} : BandwidthStep(setInterfaceSharedQuota(bw, kernel, i, b))
          \/ BandwidthStep(removeInterfaceSharedQuota(bw, kernel, i))
    \/ \E b \in Alerts \cup {0} : BandwidthStep(setGlobalAlert(bw, kernel, b)) \/ BandwidthStep(setSharedAlert(bw, kernel, b))
    \/ BandwidthStep(removeGlobalAlert(bw, kernel))
    \/ BandwidthStep(removeSharedAlert(bw, kernel))

(* What a packet of interface i should meet, as the comment at the head of *)
(* BandwidthController.cpp has it: quotas, then the denylist over the      *)
(* allowlist over data saver, on costly interfaces only.                   *)
PolicyFor(m, f, i, p) ==
    LET quotas == (IF i \in DOMAIN m.mQuotaIfaces THEN {i} ELSE {}) \cup (IF i \in m.mSharedQuotaIfaces THEN {"shared"} ELSE {})
        over == \E n \in quotas : "-m quota2 " \o n \in p
        boxed == \/ "-m bpf DENYLIST" \in p
                 \/ m.dataSaver /\ "-m bpf ALLOWLIST" \notin p /\ ~(f = "v6" /\ "-p icmpv6" \in p)
    IN  IF quotas # {} /\ (over \/ boxed) THEN "REJECT" ELSE "RETURN"

PacketsOn(option, i) ==
    {{option \o i} \cup x : x \in SUBSET {"-m quota2 " \o i, "-m quota2 shared", "-m bpf DENYLIST", "-m bpf ALLOWLIST", "-p icmpv6", "-p esp"}}

(* In every order of quota, alert and data saver calls, a packet of an     *)
(* interface meets that policy in both families and in each of the three   *)
(* chains, wherever the global alert has moved the insertion point, and    *)
(* the quota the kernel counts down is the one last set.                   *)
BandwidthPolicyHolds ==
    \A f \in Families, i \in BwIfaces :
        /\ \A p \in PacketsOn("-i ", i) : Verdict(kernel, f, "bw_INPUT", p) = PolicyFor(bw, f, i, p)
        /\ \A p \in PacketsOn("-o ", i) : Verdict(kernel, f, "bw_OUTPUT", p) = PolicyFor(bw, f, i, p)
        /\ \A p \in PacketsOn("-i ", i) : Verdict(kernel, f, "bw_FORWARD", p) = PolicyFor(bw, f, i, p)
        /\ i \in DOMAIN bw.mQuotaIfaces => kernel.quotas[i] = bw.mQuotaIfaces[i].quota
=============================================================================
