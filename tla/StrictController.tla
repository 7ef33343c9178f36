-------------------------- MODULE StrictController --------------------------
(***************************************************************************)
(* StrictController: what happens to an app that is caught sending         *)
(* cleartext.  The controller keeps no state of its own: a uid's penalty   *)
(* is the content of its chain st_clear_caught_<uid>.  The u32 programs    *)
(* that look for a TLS or DTLS header are the options "tls" and "payload". *)
(***************************************************************************)
EXTENDS Iptables

CONSTANT Apps    \* the uids penalties are set for

VARIABLE penalties    \* uid -> the penalty of the last call that succeeded

resetChains(k) ==
    Execute(k, Both(<< <<NewChain("st_OUTPUT"), NewChain("st_penalty_log"), NewChain("st_penalty_reject"),
                         NewChain("st_clear_caught"), NewChain("st_clear_detect")>> >>))

DetectCommands ==
    << <<Append2("st_penalty_log", Jump({}, "CONNMARK accept")),
         Append2("st_penalty_log", Jump({}, "NFLOG")),
         Append2("st_penalty_reject", Jump({}, "CONNMARK reject")),
         Append2("st_penalty_reject", Jump({}, "NFLOG")),
         Append2("st_penalty_reject", Jump({}, "REJECT")),
         Append2("st_clear_detect", Jump({"CONNMARK reject"}, "REJECT")),
         Append2("st_clear_detect", Jump({"CONNMARK accept"}, "RETURN")),
         Append2("st_clear_detect", Jump({"-p tcp", "tls"}, "CONNMARK accept")),
         Append2("st_clear_detect", Jump({"-p udp", "tls"}, "CONNMARK accept")),
         Append2("st_clear_detect", Jump({"CONNMARK accept"}, "RETURN")),
         Append2("st_clear_detect", Jump({"-p tcp", "ESTABLISHED", "payload"}, "st_clear_caught")),
         Append2("st_clear_detect", Jump({"-p udp"}, "st_clear_caught"))>> >>

StrictHooks(k) ==
    UNION {UNION {{s.k : s \in Execute(l, Only("v6", DetectCommands))} : l \in {q.k : q \in Execute(r.k, Only("v4", DetectCommands))}} :
              r \in resetChains(k)}

Caught(uid) == "st_clear_caught_" \o uid
Owner(uid) == {"--uid-owner " \o uid}

(* Mutant: ACCEPT only deletes the rule that leads to detection.           *)
acceptOnce(k, uid, penalty) ==
    LET detect == Jump(Owner(uid), "st_clear_detect")
        caught == Jump(Owner(uid), Caught(uid))
    IN  Execute(k, Both(<<
            IF penalty = "ACCEPT" THEN <<Delete("st_OUTPUT", detect)>>
            ELSE <<NewChain(Caught(uid)), Insert("st_OUTPUT", 1, detect), Insert("st_clear_caught", 1, caught),
                   Append2(Caught(uid), Jump({}, IF penalty = "LOG" THEN "st_penalty_log" ELSE "st_penalty_reject"))>> >>))

setUidCleartextPenalty(k, uid, penalty) ==
    LET detect == Jump(Owner(uid), "st_clear_detect")
        caught == Jump(Owner(uid), Caught(uid))
    IN  Execute(k, Both(<<
            IF penalty = "ACCEPT"
            THEN <<Delete("st_OUTPUT", detect), Delete("st_clear_caught", caught), Flush(Caught(uid)), DeleteChain(Caught(uid))>>
            ELSE <<NewChain(Caught(uid)), Insert("st_OUTPUT", 1, detect), Insert("st_clear_caught", 1, caught),
                   Append2(Caught(uid), Jump({}, IF penalty = "LOG" THEN "st_penalty_log" ELSE "st_penalty_reject"))>> >>))

(* Each penalty other than ACCEPT adds rules to st_OUTPUT: a bound on      *)
(* their number.                                                           *)
CONSTANT MaxStrictRules
StrictStep(uid, penalty) ==
    \E r \in setUidCleartextPenalty(kernel, uid, penalty) :
        /\ kernel' = r.k
        /\ penalties' = IF r.ok THEN [penalties EXCEPT ![uid] = penalty] ELSE penalties
StrictNext ==
    \E uid \in Apps, penalty \in {"ACCEPT", "LOG", "REJECT"} :
        /\ penalty # "ACCEPT" => Len(Chains(kernel, "v4")["st_OUTPUT"]) < MaxStrictRules
        /\ StrictStep(uid, penalty)

(* The fate of a packet of an app whose connection has no mark yet, and of *)
(* the next packet of the connection.                                      *)
FirstPacket(f, uid, x) == Walk(Chains(kernel, f), Chains(kernel, f)["st_OUTPUT"], Owner(uid) \cup x)
NextVerdict(f, uid, x) == Verdict(kernel, f, "st_OUTPUT", Owner(uid) \cup {"-p tcp", "ESTABLISHED", "payload"} \cup (FirstPacket(f, uid, x).packet \cap {"CONNMARK accept", "CONNMARK reject"}))

(* Whatever penalties were set before it, the last one that was accepted   *)
(* is the one a uid gets: its cleartext is rejected exactly under REJECT,  *)
(* and the rest of that connection with it, whatever it carries; encrypted *)
(* and empty packets, and other uids, are left alone; LOG lets the         *)
(* connection through for good.                                            *)
PenaltyIsTheLastSet ==
    \A f \in Families, uid \in Apps :
        LET rejected == penalties[uid] = "REJECT"
            clear == {"-p tcp", "ESTABLISHED", "payload"}
        IN  /\ FirstPacket(f, uid, clear).verdict = IF rejected THEN "REJECT" ELSE "RETURN"
            /\ NextVerdict(f, uid, clear) = IF rejected THEN "REJECT" ELSE "RETURN"
            /\ FirstPacket(f, uid, clear \cup {"tls"}).verdict = "RETURN"
            /\ NextVerdict(f, uid, clear \cup {"tls"}) = "RETURN"
            /\ FirstPacket(f, uid, {"-p tcp"}).verdict = "RETURN"
            /\ FirstPacket(f, uid, {"-p udp"}).verdict = IF rejected THEN "REJECT" ELSE "RETURN"
=============================================================================
