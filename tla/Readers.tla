------------------------------ MODULE Readers -------------------------------
(***************************************************************************)
(* What the readers of foreign configurations have in common: the packets  *)
(* a firewall is asked about, the state they import into, and how bfw      *)
(* decides by that state, by /etc/default/better-firewall and by what its  *)
(* before chains accept.  A packet opens a new connection and is not on    *)
(* the loopback; what bfw does to the others is the same for any state.    *)
(***************************************************************************)
EXTENDS Integers, Sequences, FiniteSets, SequencesExt

CONSTANTS
    Addr,           \* the addresses of a family
    Iface,          \* network interfaces
    Service,        \* ports, protocols without ports, ICMP types
    ofFamily,       \* ofFamily[s]: the families that have a service
    Before,         \* the packets that compileBefore accepts
    EtcFile         \* what /etc/default/better-firewall may say

Family == {"v4", "v6"}
Dir == {"in", "out", "routed"}
Verdict == {"allow", "deny", "reject"}

(* EtcDefaults: "keep" is a policy that overridePolicy does not know.      *)
Etc == [policies : [Dir -> Verdict \cup {"keep"}], ipv6 : BOOLEAN]

(* A rule is of the list of one family.  Its source is a set of addresses, *)
(* as wide as a prefix or, with bySet, an ipset is; its services are those *)
(* of one line, all of them where it names none.  policy tells the         *)
(* catchall of a chain policy from the rules, as its comment does.         *)
Rule == [dir : Dir, iface : Iface \cup {"any"}, src : SUBSET Addr, bySet : BOOLEAN,
         services : SUBSET Service, act : Verdict, policy : BOOLEAN]

State == [rules : [Family -> Seq(Rule)], policies : [Dir -> Verdict], ipv6 : BOOLEAN]

Packet == {p \in [family : Family, dir : Dir, iface : Iface, src : Addr, service : Service] :
              p.family \in ofFamily[p.service]}

ASSUME ReadersAssumption ==
    /\ "any" \notin Iface /\ ofFamily \in [Service -> SUBSET Family]
    /\ Before \subseteq Packet /\ EtcFile \subseteq Etc

Matches(r, p) ==
    r.iface \in {"any", p.iface} /\ p.src \in r.src /\ p.service \in r.services

(* The first rule of the packet's direction that matches it, or the policy.*)
Hits(list, p) == {i \in DOMAIN list : list[i].dir = p.dir /\ Matches(list[i], p)}

Ruled(st, p) ==
    LET list == st.rules[p.family]
    IN  IF Hits(list, p) = {} THEN st.policies[p.dir] ELSE list[Min(Hits(list, p))].act

(* compile: the policies of /etc/default take the place of the stored ones.*)
overridePolicy(current, v) == IF v = "keep" THEN current ELSE v

InForce(st, etc) ==
    [st EXCEPT !.policies = [d \in Dir |-> overridePolicy(st.policies[d], etc.policies[d])]]

(* compile: IPv6 is on or off as /etc/default says, and dropped first when *)
(* it is off; then the before chains; then the rules.                      *)
Off(etc, p) == p.family = "v6" /\ ~etc.ipv6

Decide(st, etc, p) ==
    CASE Off(etc, p) -> "deny"
      [] ~Off(etc, p) /\ p \in Before -> "allow"
      [] OTHER -> Ruled(InForce(st, etc), p)

(* No rule is asked about a packet that the chain drops or accepts first.  *)
Aside(etc, p) == Off(etc, p) \/ p \in Before

(* A direction's stored policy is the one in force.                        *)
Honoured(st, etc, dir) == InForce(st, etc).policies[dir] = st.policies[dir]

(* store.Defaults                                                          *)
Defaults == [rules |-> [f \in Family |-> <<>>],
             policies |-> [d \in Dir |-> IF d = "out" THEN "allow" ELSE "deny"],
             ipv6 |-> TRUE]

(* Rule.Match compares all but the verdict and the comment.                *)
SameTuple(r, o) == [r EXCEPT !.act = "", !.policy = FALSE] = [o EXCEPT !.act = "", !.policy = FALSE]

(* mergeRules: what is there already is replaced where it stands.          *)
MergeRule(list, nr) ==
    LET old == {i \in DOMAIN list : SameTuple(list[i], nr)}
    IN  IF old = {} THEN Append(list, nr) ELSE [list EXCEPT ![Min(old)] = nr]

mergeRules(dst, src) == FoldLeft(MergeRule, dst, src)

(* Two rules of one list that match the same packets but do not agree:     *)
(* mergeRules keeps the place of the first and the verdict of the last.    *)
Contradictory(list) ==
    \E i, j \in DOMAIN list : SameTuple(list[i], list[j]) /\ list[i].act # list[j].act
=============================================================================
