------------------------------ MODULE Iptables ------------------------------
(***************************************************************************)
(* The packet filter as netd's controllers see it: what an iptables-restore*)
(* batch does to the tables of one IP family and what the tables do to a   *)
(* packet.  The filter is the kernel's and the parser iptables' own, so    *)
(* every definition is modelled from the batches netd sends and from how   *)
(* it treats their outcome.                                                *)
(*                                                                         *)
(* A packet is the set of match options it satisfies ("-i wlan0",          *)
(* "-p esp", ...), so a rule matches a packet that contains its options.   *)
(* The state of the kernel is one record: the two families' chains, the    *)
(* byte counters of the named quotas, and the number of batches that may   *)
(* still fail for a reason of their own.                                   *)
(***************************************************************************)
EXTENDS Integers, Sequences, FiniteSets, SequencesExt

CONSTANTS MaxFaults,        \* bound: batches that fail without being wrong
          Execute(_, _)     \* execIptablesRestore, a function pointer in the controllers: ExecuteBatch

VARIABLE kernel    \* [chains, quotas, faults]

Families == {"v4", "v6"}
Chains(k, f) == k.chains[f]

(* The rules, and the commands of a batch that adds or removes them.       *)
Rule(match, verb, to) == [match |-> match, verb |-> verb, to |-> to, quota |-> "", bytes |-> 0]
Jump(match, to) == Rule(match, "-j", to)
QuotaRule(name, bytes, to) == [match |-> {"-m quota2 " \o name}, verb |-> "-j", to |-> to, quota |-> name, bytes |-> bytes]

NewChain(c) == [op |-> ":", chain |-> c]
Flush(c) == [op |-> "-F", chain |-> c]
DeleteChain(c) == [op |-> "-X", chain |-> c]
Append2(c, r) == [op |-> "-A", chain |-> c, rule |-> r]
Insert(c, p, r) == [op |-> "-I", chain |-> c, pos |-> p, rule |-> r]
Delete(c, r) == [op |-> "-D", chain |-> c, rule |-> r]

Targets == {"", "ACCEPT", "CONNMARK accept", "CONNMARK reject", "CT", "DROP", "IDLETIMER", "MARK",
            "MASQUERADE", "NFLOG", "REJECT", "RETURN", "TCPMSS"}

(* A delete finds the first rule with the same matches and target: the     *)
(* number of bytes of a quota is not compared.                             *)
SameRule(r, s) == [r EXCEPT !.bytes = 0] = [s EXCEPT !.bytes = 0]
Positions(rules, r) == {i \in DOMAIN rules : SameRule(rules[i], r)}
First(S) == CHOOSE i \in S : \A j \in S : i <= j

Referenced(t, c) == \E d \in DOMAIN t : \E i \in DOMAIN t[d] : t[d][i].to = c

Accepted(t, cmd) ==
    CASE cmd.op = ":" -> TRUE
      [] cmd.op = "-F" -> cmd.chain \in DOMAIN t
      [] cmd.op = "-X" -> cmd.chain \in DOMAIN t /\ t[cmd.chain] = <<>> /\ ~Referenced(t, cmd.chain)
      [] cmd.op = "-D" -> cmd.chain \in DOMAIN t /\ Positions(t[cmd.chain], cmd.rule) # {}
      [] cmd.op \in {"-A", "-I"} ->
            /\ cmd.chain \in DOMAIN t
            /\ cmd.rule.to \in DOMAIN t \cup Targets
            /\ cmd.op = "-I" => cmd.pos <= Len(t[cmd.chain]) + 1

(* ":chain -" creates or flushes a chain, but not a built-in one.          *)
BuiltinChains == {"filter INPUT", "filter FORWARD", "filter OUTPUT", "raw PREROUTING", "mangle INPUT",
                  "mangle FORWARD", "mangle POSTROUTING", "nat PREROUTING", "nat POSTROUTING"}
Effect(t, cmd) ==
    LET c == cmd.chain
    IN  CASE cmd.op = ":" /\ c \in BuiltinChains -> t
          [] cmd.op = "-F" \/ (cmd.op = ":" /\ c \notin BuiltinChains) -> [d \in DOMAIN t \cup {c} |-> IF d = c THEN <<>> ELSE t[d]]
          [] cmd.op = "-X" -> [d \in DOMAIN t \ {c} |-> t[d]]
          [] cmd.op = "-A" -> [t EXCEPT ![c] = Append(@, cmd.rule)]
          [] cmd.op = "-I" -> [t EXCEPT ![c] = InsertAt(@, cmd.pos, cmd.rule)]
          [] cmd.op = "-D" -> [t EXCEPT ![c] = RemoveAt(@, First(Positions(@, cmd.rule)))]

(* A section, from "*table" to COMMIT, is applied as a whole or not at     *)
(* all, and iptables-restore stops at the first one it refuses.            *)
Section(t, cmds) ==
    LET step(s, cmd) == IF s.ok /\ Accepted(s.t, cmd) THEN [s EXCEPT !.t = Effect(s.t, cmd)]
                        ELSE [s EXCEPT !.ok = FALSE]
        last == FoldLeft(step, [ok |-> TRUE, t |-> t], cmds)
    IN  IF last.ok THEN last ELSE [ok |-> FALSE, t |-> t]

Restore(t, sections) ==
    FoldLeft(LAMBDA s, cmds : IF s.ok THEN Section(s.t, cmds) ELSE s, [ok |-> TRUE, t |-> t], sections)

(* What sending `sections' to one family may come to: iptables-restore     *)
(* runs them, or it dies or stops answering after any number of them.      *)
Outcomes(t, sections, faults) ==
    LET all == Restore(t, sections)
    IN  {[ok |-> all.ok, t |-> all.t, faults |-> faults]}
        \cup IF faults = 0 THEN {}
             ELSE {[ok |-> FALSE, t |-> Restore(t, SubSeq(sections, 1, n)).t, faults |-> faults - 1] : n \in 0 .. Len(sections)}

(* IptablesRestoreController::execute on the families of `batch': IPv4     *)
(* first, IPv6 whether or not IPv4 succeeded.                              *)
ExecuteBatch(k, batch) ==
    LET on(f, faults) == IF f \in DOMAIN batch THEN Outcomes(Chains(k, f), batch[f], faults)
                         ELSE {[ok |-> TRUE, t |-> Chains(k, f), faults |-> faults]}
    IN  UNION {{[ok |-> a.ok /\ b.ok, k |-> [k EXCEPT !.chains = [v4 |-> a.t, v6 |-> b.t], !.faults = b.faults]] : b \in on("v6", a.faults)} :
                  a \in on("v4", k.faults)}

Both(sections) == [f \in Families |-> sections]
Only(f, sections) == [g \in {f} |-> sections]

(* An operation of a controller has a set of outcomes: whether it reports  *)
(* success, the controller's fields after it and the kernel's state.       *)
Outcome(ok, m, k) == [ok |-> ok, m |-> m, k |-> k]
Fails(m, k) == {Outcome(FALSE, m, k)}
AfterFailure(results) == {[r EXCEPT !.ok = FALSE] : r \in results}

(* A named quota is counted from the bytes of the rule that created it     *)
(* and goes with the last rule that names it.                              *)
RulesOf(chains) == UNION {UNION {ToSet(chains[f][c]) : c \in DOMAIN chains[f]} : f \in Families}
Counted(k) ==
    LET metered == {r \in RulesOf(k.chains) : r.quota # ""}
    IN  [k EXCEPT !.quotas = [n \in {r.quota : r \in metered} |->
            IF n \in DOMAIN k.quotas THEN k.quotas[n] ELSE (CHOOSE r \in metered : r.quota = n).bytes]]
ExecuteMetered(k, batch) == {[r EXCEPT !.k = Counted(@)] : r \in Execute(k, batch)}

(* A packet's way through a chain: "RETURN" when it leaves the chain at    *)
(* its end.  A connection mark set on the way belongs to the packet.       *)
RECURSIVE Walk(_, _, _)
Walk(t, rules, p) ==
    IF rules = <<>> THEN [verdict |-> "RETURN", packet |-> p]
    ELSE LET r == Head(rules)
             inner == Walk(t, t[r.to], p)
         IN  IF ~(r.match \subseteq p) THEN Walk(t, Tail(rules), p)
             ELSE IF r.to \in {"RETURN", "DROP", "REJECT", "ACCEPT"} THEN [verdict |-> r.to, packet |-> p]
             ELSE IF r.to \in DOMAIN t
                  THEN IF r.verb = "-g" \/ inner.verdict # "RETURN" THEN inner ELSE Walk(t, Tail(rules), inner.packet)
             ELSE IF r.to \in {"CONNMARK accept", "CONNMARK reject"} THEN Walk(t, Tail(rules), p \cup {r.to})
             ELSE Walk(t, Tail(rules), p)

Verdict(k, f, c, p) == Walk(Chains(k, f), Chains(k, f)[c], p).verdict

(* The tables of a device that has just booted.                            *)
EmptyKernel ==
    [chains |-> [f \in Families |-> [c \in BuiltinChains |-> <<>>]], quotas |-> [n \in {} |-> 0], faults |-> 0]
=============================================================================
