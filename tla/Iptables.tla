------------------------------ MODULE Iptables ------------------------------
(***************************************************************************)
(* The reader of iptables-save dumps, one for each family, and what        *)
(* iptables itself decides by them.  A line keeps the parts of its rule    *)
(* that decide whether it can be represented; `odd' stands for the options *)
(* the reader refuses whatever else the line says: a negation, a module it *)
(* does not know, a port without its protocol, an ICMP code.               *)
(***************************************************************************)
EXTENDS Readers

CONSTANT NoDump     \* the file of a family that is not there

(* A dump: the policies declared for the builtin chains, the lines of the  *)
(* filter table in their order, whether it has one and whether another     *)
(* table holds anything.                                                   *)
Builtin == {"INPUT", "OUTPUT", "FORWARD"}
iptBuiltinDir == [INPUT |-> "in", OUTPUT |-> "out", FORWARD |-> "routed"]
Chains == Builtin \cup {"user"}

Verdicts == [ACCEPT |-> "allow", DROP |-> "deny", REJECT |-> "reject"]

RuleSpec == [iface : Iface \cup {"any"}, src : SUBSET Addr, services : SUBSET Service,
             state : {"any", "established", "other"}, odd : BOOLEAN,
             target : {"ACCEPT", "DROP", "REJECT", "RETURN", "LOG", "user", ""}]

(* at is 0 for -A and the rule number for -I.                              *)
Line == [chain : Chains, at : Nat, spec : RuleSpec]

iptSaveFile == [lines : Seq(Line), policy : [Builtin -> {"-", "ACCEPT", "DROP", "REJECT"}],
                filter : BOOLEAN, otherTables : BOOLEAN]

(* iptParseSave: the chains of the filter table; a rule number beyond the  *)
(* end of its chain is an error.                                           *)
PutLine(read, l) ==
    IF l.at > Len(read.chains[l.chain]) + 1 THEN [read EXCEPT !.error = TRUE]
    ELSE [read EXCEPT !.chains[l.chain] = IF l.at = 0 THEN Append(@, l.spec)
                                          ELSE InsertAt(@, l.at, l.spec)]

iptParseSave(lines) ==
    FoldLeft(PutLine, [chains |-> [c \in Chains |-> <<>>], error |-> FALSE], lines)

(* The rule matches on something.                                           *)
Matched(s) == s.iface # "any" \/ s.src # Addr \/ s.services # Service

(* A bug: a RETURN for some packets only is passed over.                   *)
iptParseSpecReturn(chain, s, first) ==
    CASE s.odd \/ s.target \in {"LOG", "user"} \/ s.state = "other" -> "error"
      [] s.state = "established" \/ s.target = "" -> "skip"
      [] s.target = "RETURN" -> IF Matched(s) THEN "skip" ELSE "return"
      [] OTHER -> "rule"

(* iptParseSpec: a rule, "skip", "return", or "error" for what the rules   *)
(* of bfw cannot say.  first: no rule of the chain has been taken yet.     *)
iptParseSpec(chain, s, first) ==
    IF s.odd \/ s.target \in {"LOG", "user"} THEN "error"
    ELSE IF s.state = "any"
    THEN CASE s.target = "" -> "skip"
           [] s.target = "RETURN" -> IF Matched(s) THEN "error" ELSE "return"
           [] OTHER -> "rule"
    ELSE IF s.state = "established" /\ s.target = "ACCEPT" /\ ~Matched(s) /\ first THEN "skip"
    ELSE "error"

ruleOf(chain, s) ==
    [dir |-> iptBuiltinDir[chain], iface |-> s.iface, src |-> s.src, bySet |-> FALSE,
     services |-> s.services, act |-> Verdicts[s.target], policy |-> FALSE]

(* iptImportStream for one chain: what follows a RETURN is not looked at.  *)
TakeSpec(chain, a, s) ==
    LET kind == iptParseSpec(chain, s, a.rules = <<>>)
    IN  IF a.truncated THEN a
        ELSE CASE kind = "error" -> [a EXCEPT !.error = TRUE]
               [] kind = "return" -> [a EXCEPT !.truncated = TRUE]
               [] kind = "skip" -> a
               [] kind = "rule" -> [a EXCEPT !.rules = Append(@, ruleOf(chain, s))]

chainRules(chain, specs) ==
    FoldLeft(LAMBDA a, s : TakeSpec(chain, a, s),
             [rules |-> <<>>, truncated |-> FALSE, error |-> FALSE], specs)

(* iptImportStream: the chains that nothing jumps to are left out, and a   *)
(* jump is refused, so the builtin ones are all there is.  [rules, error]. *)
iptImportStream(dump) ==
    LET read == iptParseSave(dump.lines)
        part == [c \in Builtin |-> chainRules(c, read.chains[c])]
    IN  IF dump.otherTables \/ (dump.filter /\ read.error)
        THEN [rules |-> <<>>, error |-> TRUE]
        ELSE IF ~dump.filter THEN [rules |-> <<>>, error |-> FALSE]
        ELSE [rules |-> part["INPUT"].rules \o part["OUTPUT"].rules \o part["FORWARD"].rules,
              error |-> \E c \in Builtin : part[c].error]

iptPolicyRank == [allow |-> 1, reject |-> 2, deny |-> 3]

(* What a family's chain is to decide last: the policy it declares, or     *)
(* what the state has where nothing is declared.                           *)
Declares(dump, chain) == dump # NoDump /\ dump.filter /\ dump.policy[chain] # "-"
effective(dump, chain, old) ==
    IF Declares(dump, chain) THEN Verdicts[dump.policy[chain]] ELSE old

(* iptAppendPolicyCatchall                                                 *)
iptAppendPolicyCatchall(list, dir, act) ==
    LET catchall == [dir |-> dir, iface |-> "any", src |-> Addr, bySet |-> FALSE,
                     services |-> Service, act |-> act, policy |-> TRUE]
        own == {i \in DOMAIN list : list[i].dir = dir}
    IN  IF own # {} /\ list[Max(own)] = catchall THEN list ELSE Append(list, catchall)

(* A bug: only a family that declares a policy gets its catchall.          *)
mergePolicyDeclared(st, dumps, chain) ==
    LET dir == iptBuiltinDir[chain]
        eff == [f \in Family |-> effective(dumps[f], chain, st.policies[dir])]
        strictest == IF iptPolicyRank[eff["v6"]] > iptPolicyRank[eff["v4"]]
                     THEN eff["v6"] ELSE eff["v4"]
        lax(f) == eff[f] # strictest /\ Declares(dumps[f], chain)
    IN  [st EXCEPT !.policies[dir] = strictest,
                   !.rules = [f \in Family |->
                       IF lax(f) THEN iptAppendPolicyCatchall(@[f], dir, eff[f]) ELSE @[f]]]

(* The policies are global: the strictest of the families', and a catchall *)
(* at the end of the list of the family that is laxer.                     *)
mergePolicy(st, dumps, chain) ==
    LET dir == iptBuiltinDir[chain]
        eff == [f \in Family |-> effective(dumps[f], chain, st.policies[dir])]
        strictest == IF st.ipv6 /\ iptPolicyRank[eff["v6"]] > iptPolicyRank[eff["v4"]]
                     THEN eff["v6"] ELSE eff["v4"]
        lax(f) == eff[f] # strictest /\ (f = "v6" => st.ipv6)
    IN  [st EXCEPT !.policies[dir] = strictest,
                   !.rules = [f \in Family |->
                       IF lax(f) THEN iptAppendPolicyCatchall(@[f], dir, eff[f]) ELSE @[f]]]

(* ImportIPTables: an error, or the state with the dumps merged in.        *)
ImportIPTables(dumps, st, failed) ==
    LET given == {f \in Family : dumps[f] # NoDump}
        read == [f \in given |-> iptImportStream(dumps[f])]
        empty(f) == /\ read[f].rules = <<>>
                    /\ \A c \in Builtin : ~Declares(dumps[f], c)
        rules == [st EXCEPT
                    !.rules = [f \in Family |->
                        IF f \in given THEN mergeRules(@[f], read[f].rules) ELSE @[f]],
                    !.ipv6 = @ \/ "v6" \in given]
    IN  IF given = {} \/ (\E f \in given : read[f].error) \/ (\A f \in given : empty(f))
        THEN failed
        ELSE LET input == mergePolicy(rules, dumps, "INPUT")
                 output == mergePolicy(input, dumps, "OUTPUT")
             IN  mergePolicy(output, dumps, "FORWARD")

-----------------------------------------------------------------------------
(* iptables itself: the first line with a verdict that matches, or the     *)
(* policy; "old" where the dump says nothing of the chain.  A line that is *)
(* for established connections does not match a new one; a line that has   *)
(* no verdict lets the packet pass on.                                     *)
Deciding(specs, p) ==
    {i \in DOMAIN specs : /\ specs[i].state # "established"
                          /\ specs[i].target \in DOMAIN Verdicts \cup {"RETURN"}
                          /\ Matches(specs[i], p)}

Stated(specs, p) ==
    LET hits == Deciding(specs, p)
    IN  IF hits = {} \/ specs[Min(hits)].target = "RETURN" THEN "none"
        ELSE Verdicts[specs[Min(hits)].target]

chainOf(dir) == CHOOSE c \in Builtin : iptBuiltinDir[c] = dir

(* A line of the dump decides of the packet, not only a policy.            *)
IptStates(dump, p) == Stated(iptParseSave(dump.lines).chains[chainOf(p.dir)], p)

IptDecides(dump, p) ==
    CASE ~dump.filter -> "old"
      [] dump.filter /\ IptStates(dump, p) # "none" -> IptStates(dump, p)
      [] OTHER -> LET policy == dump.policy[chainOf(p.dir)]
                  IN  IF policy = "-" THEN "old" ELSE Verdicts[policy]
=============================================================================
