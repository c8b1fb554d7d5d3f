------------------------------ MODULE Compile -------------------------------
(***************************************************************************)
(* compile(): from a state of rules.json to the chains of the inet table   *)
(* better-firewall.                                                        *)
(*                                                                         *)
(* A rule of the kernel is a sequence of expressions and a verdict.  An    *)
(* expression is a field of the packet and the values that let it pass;    *)
(* counters are left out.  Rules that differ in one value and follow each  *)
(* other with the same verdict (a list of ICMP types, of ports) are one    *)
(* rule here.  A chain is named by its part and its hook: bfw-user-input   *)
(* is <<"user", "input">>.                                                 *)
(***************************************************************************)
EXTENDS Intervals, FiniteSets

CONSTANTS
    LinkLocal,      \* the addresses of fe80::/10
    Mdns, Upnp      \* Mdns[v6]: the group 224.0.0.251 or ff02::fb; Upnp alike

ASSUME PacketAssumption ==
    /\ LinkLocal \subseteq Address
    /\ Mdns \in [BOOLEAN -> Address] /\ Upnp \in [BOOLEAN -> Address]

Hook == {"input", "output", "forward"}

-----------------------------------------------------------------------------
(* Expressions and rules.                                                  *)

NoMeter == {}
nft(on, verdict, to) == [on |-> on, limited |-> FALSE, meter |-> NoMeter,
                         verdict |-> verdict, to |-> to]
NoChain == <<"", "">>
Accept(on) == nft(on, "accept", NoChain)
Drop(on) == nft(on, "drop", NoChain)
Reject(on) == nft(on, "reject", NoChain)
Return(on) == nft(on, "return", NoChain)
Log(on) == nft(on, "continue", NoChain)
jump(on, chain) == nft(on, "jump", chain)

(* limit rate ...: beyond the rate the rule does not match.                *)
Limited(r) == [r EXCEPT !.limited = TRUE]

nfproto(v6) == << <<"v6", {v6}>> >>
iif(names) == << <<"in", names>> >>
oif(names) == << <<"out", names>> >>
l4proto(protos) == << <<"proto", protos>> >>
ctState(states) == << <<"ct", states>> >>
icmpType(types) == << <<"icmp", types>> >>
sport(ports) == << <<"sport", ports>> >>
dport(ports) == << <<"dport", ports>> >>
fibAddrType(types) == << <<"fib", types>> >>
hopLimit(n) == << <<"hl", {n}>> >>
rhType == << <<"rh0", {TRUE}>> >>

policyVerdict(p) == CASE p = "allow" -> Accept(<<>>)
                      [] p = "reject" -> Reject(<<>>)
                      [] OTHER -> Drop(<<>>)

-----------------------------------------------------------------------------
(* What /etc/default/better-firewall (st.etc) and panic mode make of the   *)
(* policies, the address families and the log level of rules.json.         *)

overridePolicy(current, raw) ==
    CASE raw \in {"accept", "allow"} -> "allow"
      [] raw \in {"drop", "deny"} -> "deny"
      [] raw = "reject" -> "reject"
      [] OTHER -> current

PolicyFor(st, hook) == overridePolicy(st.policies[hook], st.etc.policy[hook])
IPv6(st) == IF st.etc.ipv6 = "" THEN st.ipv6 ELSE st.etc.ipv6 = "yes"
Level(st) == IF st.logging = "" THEN "low" ELSE st.logging

(* Every log rule is limited unless the level is high or full.             *)
LogRule(st, on) == IF Level(st) \in {"high", "full"} THEN Log(on)
                   ELSE Limited(Log(on))

-----------------------------------------------------------------------------
(* Base chains, with the policy that ends them.                            *)

Jumps(hook) == [i \in 1 .. 7 |-> jump(<<>>, <<
    <<"before-logging", "before", "user", "after",
      "after-logging", "reject", "track">>[i], hook>>)]

(* IPV6=no drops all IPv6 but loopback.                                    *)
NoIPv6(hook) ==
    (CASE hook = "input" -> <<Accept(nfproto(TRUE) \o iif({"lo"}))>>
       [] hook = "output" -> <<Accept(nfproto(TRUE) \o oif({"lo"}))>>
       [] OTHER -> <<>>) \o <<Drop(nfproto(TRUE))>>

Base(st, hook) ==
    IF st.panic THEN <<>>
    ELSE (IF IPv6(st) THEN <<>> ELSE NoIPv6(hook)) \o Jumps(hook)

(* deny and reject are both drop for the kernel.                           *)
BasePolicy(st, hook) ==
    IF ~st.panic /\ PolicyFor(st, hook) = "allow" THEN "accept" ELSE "drop"

-----------------------------------------------------------------------------
(* bfw-before-*: what is decided before any rule of the user.              *)

(* compileThreatBans: the set of the bans that have not expired.           *)
ThreatBans(st, v6) ==
    compileAddressSet(FlattenSeq([i \in DOMAIN st.bans |->
        IF st.bans[i].expired THEN <<>> ELSE <<st.bans[i].element>>]), v6)
BannedAddresses(st, v6) ==
    {a \in Address : Holds(ThreatBans(st, v6), a)}

ThreatBan(st, v6) ==
    Drop(nfproto(v6) \o << <<"saddr", BannedAddresses(st, v6)>> >>)
Established == Accept(ctState({"established", "related"}))
RoutingHeader == Drop(nfproto(TRUE) \o rhType)

(* A wrong prefix of the input and forward chains, for the runs' mutants:  *)
(* the flows already established go first.                                 *)
BeforePrefixFast(st, hook) ==
    <<RoutingHeader, Established, ThreatBan(st, FALSE), ThreatBan(st, TRUE)>>

(* addThreatBanRules comes between the routing header rule and the fast    *)
(* path of established flows, on input and forward.                        *)
BeforePrefix(st, hook) ==
    <<RoutingHeader, ThreatBan(st, FALSE), ThreatBan(st, TRUE), Established>>

ICMPv4 == Accept(nfproto(FALSE) \o l4proto({"icmp"}) \o icmpType({3, 11, 12, 8}))
ICMPv6(types) == nfproto(TRUE) \o l4proto({"icmpv6"}) \o icmpType(types)
FromLinkLocal == << <<"saddr", LinkLocal>> >>

(* beforeICMPv6Rules, grouped by source and hop limit.                     *)
beforeICMPv6Rules ==
    <<Accept(ICMPv6({1, 2, 3, 4, 128})),
      Accept(ICMPv6({133, 134, 135, 136, 141, 142, 148, 149}) \o hopLimit(255)),
      Accept(ICMPv6({130, 131, 132, 143}) \o FromLinkLocal),
      Accept(ICMPv6({151, 152, 153}) \o FromLinkLocal \o hopLimit(1))>>
EchoReply6 == Accept(ICMPv6({129}))

DHCPClient ==
    LET UDP(from, to) == l4proto({"udp"}) \o sport({from}) \o dport({to})
    IN  <<Accept(nfproto(FALSE) \o UDP(67, 68)),
          Accept(nfproto(TRUE) \o UDP(547, 546) \o FromLinkLocal
                 \o << <<"daddr", LinkLocal>> >>)>>

Discovery(v6, group, p) ==
    Accept(nfproto(v6) \o l4proto({"udp"}) \o << <<"daddr", {group[v6]}>> >>
           \o dport({p}))

Before(st, hook) ==
    CASE hook = "input" ->
           <<Accept(iif({"lo"}))>> \o BeforePrefix(st, hook)
           \o <<EchoReply6,
                jump(ctState({"invalid"}), <<"logging-deny", "">>),
                Drop(ctState({"invalid"})),
                ICMPv4>>
           \o beforeICMPv6Rules \o <<Accept(ICMPv6({144, 145, 146, 147}))>>
           \o DHCPClient
           \o <<jump(nfproto(FALSE), <<"not-local", "">>),
                Discovery(FALSE, Mdns, 5353), Discovery(TRUE, Mdns, 5353),
                Discovery(FALSE, Upnp, 1900), Discovery(TRUE, Upnp, 1900)>>
      [] hook = "output" ->
           <<Accept(oif({"lo"})), RoutingHeader, Established>>
           \o beforeICMPv6Rules
           \o <<EchoReply6, jump(<<>>, <<"user-egress", "">>)>>
      [] hook = "forward" ->
           BeforePrefix(st, hook)
           \o <<ICMPv4, Accept(ICMPv6({1, 2, 3, 4, 128, 129}))>>

(* A wrong bfw-not-local, for the runs' mutants: it jumps to itself.       *)
NotLocalLoops == <<Return(fibAddrType({"local", "multicast", "broadcast"})),
                   Limited(jump(<<>>, <<"not-local", "">>)), Drop(<<>>)>>

(* bfw-not-local: only what is addressed to this host, a multicast group   *)
(* or a broadcast address goes on.                                         *)
NotLocal == <<Return(fibAddrType({"local", "multicast", "broadcast"})),
              Limited(jump(<<>>, <<"logging-deny", "">>)),
              Drop(<<>>)>>

-----------------------------------------------------------------------------
(* Logging chains, and what follows the rules of the user.                 *)

LoggingDeny(st) ==
    IF Level(st) = "off" THEN <<>>
    ELSE <<IF Level(st) = "low" THEN Limited(Return(ctState({"invalid"})))
           ELSE LogRule(st, ctState({"invalid"})),
           LogRule(st, <<>>)>>

BeforeLogging(st) ==
    CASE Level(st) \in {"off", "low"} -> <<>>
      [] Level(st) = "medium" -> <<Limited(Log(ctState({"new"})))>>
      [] Level(st) = "high" -> <<Limited(Log(<<>>))>>
      [] OTHER -> <<Log(<<>>)>>

AfterLogging(st, hook) ==
    IF \/ Level(st) = "off"
       \/ PolicyFor(st, hook) = "allow" /\ Level(st) = "low"
    THEN <<>> ELSE <<LogRule(st, <<>>)>>

(* Noise takes the policy's verdict without being logged.                  *)
After(hook) ==
    IF hook # "input" THEN <<>>
    ELSE LET Skip(on) == jump(on, <<"skip-to-policy", hook>>) IN
         <<Skip(nfproto(FALSE) \o fibAddrType({"broadcast"})),
           Skip(nfproto(FALSE) \o l4proto({"udp"}) \o dport({137, 138})),
           Skip(nfproto(FALSE) \o l4proto({"tcp"}) \o dport({139, 445})),
           Skip(nfproto(FALSE) \o l4proto({"udp"}) \o sport({67}) \o dport({68})),
           Skip(nfproto(TRUE) \o l4proto({"udp"}) \o dport({546, 547}))>>

RejectChain(st, hook) ==
    IF PolicyFor(st, hook) = "reject" THEN <<Reject(<<>>)>> ELSE <<>>
Track(st, hook) ==
    IF PolicyFor(st, hook) = "allow"
    THEN <<Accept(l4proto({"tcp", "udp"}) \o ctState({"new"}))>> ELSE <<>>

UserLimit(st) ==
    (IF Level(st) = "off" THEN <<>> ELSE <<Limited(Log(<<>>))>>)
    \o <<Reject(<<>>)>>

-----------------------------------------------------------------------------
(* The rules of the user.                                                  *)

HookOf == [in |-> "input", out |-> "output", routed |-> "forward"]
AnyAddr == [v6 |-> FALSE, addr |-> 0, bits |-> -1]
AnyType == -1
NoSet == ""
AnyIface == {}

(* rule.Rule, with its addresses parsed, and what compile() reads of the   *)
(* state and of /etc/default/better-firewall.                              *)
PortRange == [lo : Nat, hi : Nat, proto : {"any", "tcp", "udp"}]
AddrSpec == [set : STRING, ip : Element \cup {AnyAddr}]
Rule == [id : Nat, action : STRING, direction : DOMAIN HookOf, log : STRING,
         proto : STRING, src : AddrSpec, dst : AddrSpec,
         sports : SUBSET PortRange, dports : SUBSET PortRange,
         ifaceIn : SUBSET STRING, ifaceOut : SUBSET STRING, icmpType : Int,
         disabled : BOOLEAN, expired : BOOLEAN]
IsState(st) ==
    /\ {st.rules4, st.rules6} \subseteq Seq(Rule)
    /\ st.bans \in Seq([element : Element, expired : BOOLEAN])
    /\ \A name \in DOMAIN st.sets : st.sets[name] \in Seq(Element)
    /\ {st.policies, st.etc.policy} \subseteq [Hook -> STRING]
    /\ {st.panic, st.ipv6} \subseteq BOOLEAN /\ {st.logging, st.etc.ipv6} \subseteq STRING

Ranges(ports, proto) == {r \in ports : r.proto \in {"any", proto}}
PortNumbers(ranges) == UNION {r.lo .. r.hi : r \in ranges}

(* A wrong one, for the runs' mutants: no variants.                        *)
protoVariantsOne(r) == <<r.proto>>

(* protoVariants: a rule for any protocol with ports is one rule for tcp   *)
(* and one for udp, as far as its ports name them.                         *)
protoVariants(r) ==
    LET named == {x.proto : x \in r.sports \cup r.dports}
        Has(p) == named \cap {"any", p} # {}
    IN  IF r.proto # "any" THEN <<r.proto>>
        ELSE IF named = {} THEN <<"any">>
        ELSE (IF Has("tcp") THEN <<"tcp">> ELSE <<>>) \o (IF Has("udp") THEN <<"udp">> ELSE <<>>)

(* appendPortExprs: the ranges of another protocol do not count.           *)
appendPortExprs(field, ports, proto) ==
    IF Ranges(ports, proto) = {} THEN <<>>
    ELSE << <<field, PortNumbers(Ranges(ports, proto))>> >>

(* appendEndpointAddr: a set, any address, or a prefix.  A prefix of the   *)
(* other family matches nothing.                                           *)
appendEndpointAddr(st, field, end, v6) ==
    IF end.set # NoSet
    THEN << <<field, {a \in Address :
                        Holds(compileAddressSet(st.sets[end.set], v6), a)}>> >>
    ELSE IF end.ip = AnyAddr THEN <<>>
    ELSE << <<field, IF end.ip.v6 = v6 THEN Covers(end.ip) ELSE {}>> >>

(* ruleMatch.  An interface given with a wildcard is the set of its names. *)
ruleMatch(st, r, proto, v6) ==
    nfproto(v6)
    \o (IF r.ifaceIn = AnyIface THEN <<>> ELSE iif(r.ifaceIn))
    \o (IF r.ifaceOut = AnyIface THEN <<>> ELSE oif(r.ifaceOut))
    \o (IF proto = "any" THEN <<>> ELSE l4proto({proto}))
    \o (IF r.icmpType = AnyType THEN <<>> ELSE icmpType({r.icmpType}))
    \o appendEndpointAddr(st, "saddr", r.src, v6)
    \o appendEndpointAddr(st, "daddr", r.dst, v6)
    \o (IF proto \in {"tcp", "udp"}
        THEN appendPortExprs("sport", r.sports, proto)
             \o appendPortExprs("dport", r.dports, proto)
        ELSE <<>>)

(* ruleMatch, protoNum and compileRule refuse these.                       *)
Refused(r, v6) ==
    \/ r.proto = "icmp" /\ v6
    \/ r.proto = "icmpv6" /\ ~v6
    \/ r.proto \in {"icmp", "icmpv6"} /\ r.sports \cup r.dports # {}
    \/ r.proto \notin {"icmp", "icmpv6"} /\ r.icmpType # AnyType
    \/ r.action \notin {"allow", "deny", "reject", "limit"}

(* A wrong meter, for the runs' mutants: a set for each variant.           *)
LimitSetPerProto(r, proto, v6) == <<r.id, proto, v6>>

(* compileLimit: the dynamic set of a rule is named by its id and family,  *)
(* so both variants of a rule share it.  The first branch matches once a   *)
(* source has used up its rate for a port.                                 *)
LimitSet(r, proto, v6) == <<r.id, v6>>
compileLimit(r, proto, v6, match) ==
    <<[jump(match \o ctState({"new"}), <<"user-limit", "">>) EXCEPT
          !.meter = {[set |-> LimitSet(r, proto, v6),
                      ported |-> proto \in {"tcp", "udp"}]}],
      jump(match, <<"user-limit-accept", "">>)>>

Live(r) == ~r.disabled /\ ~r.expired

(* compileRule, what goes to the logging chain: both rules carry the       *)
(* match, the second ends the logging of this packet.                      *)
LogMatch(r, match) ==
    match \o IF r.log = "log" THEN ctState({"new"}) ELSE <<>>
LoggingRules(st, r, proto, v6) ==
    LET on == LogMatch(r, ruleMatch(st, r, proto, v6))
    IN  IF r.log = "" THEN <<>> ELSE <<Limited(Log(on)), Return(on)>>

(* compileRule, what goes to the user's chain.                             *)
ActionRules(r, proto, v6, match) ==
    CASE r.action = "allow" -> <<Accept(match)>>
      [] r.action = "deny" -> <<Drop(match)>>
      [] r.action = "reject" -> <<Reject(match)>>
      [] r.action = "limit" -> compileLimit(r, proto, v6, match)
UserRules(st, r, proto, v6) ==
    LET match == ruleMatch(st, r, proto, v6)
    IN  (IF r.log = "" THEN <<>>
         ELSE <<jump(match, <<"user-logging", HookOf[r.direction]>>)>>)
        \o ActionRules(r, proto, v6, match)

(* What every variant of every live rule of a list puts into one of its    *)
(* chains.                                                                 *)
compileRule(st, r, v6, hook, logging) ==
    LET variants == protoVariants(r)
    IN  IF ~Live(r) \/ HookOf[r.direction] # hook THEN <<>>
        ELSE FlattenSeq([k \in DOMAIN variants |->
                IF logging THEN LoggingRules(st, r, variants[k], v6)
                ELSE UserRules(st, r, variants[k], v6)])
CompileList(st, list, v6, hook, logging) ==
    FlattenSeq([i \in DOMAIN list |-> compileRule(st, list[i], v6, hook, logging)])

User(st, hook) == CompileList(st, st.rules4, FALSE, hook, FALSE)
                  \o CompileList(st, st.rules6, TRUE, hook, FALSE)
UserLogging(st, hook) ==
    (IF Level(st) = "off" THEN <<Return(<<>>)>> ELSE <<>>)
    \o CompileList(st, st.rules4, FALSE, hook, TRUE)
    \o CompileList(st, st.rules6, TRUE, hook, TRUE)

-----------------------------------------------------------------------------
(* regularChainNames and the others.                                       *)
ChainName ==
    ({"base", "before-logging", "before", "user", "after", "after-logging",
      "user-logging", "reject", "track", "skip-to-policy"} \X Hook)
    \cup ({"not-local", "logging-deny", "user-limit",
           "user-limit-accept", "user-egress"} \X {""})

(* compile(): the chain of a name, and whether there is a ruleset at all.  *)
Chain(st, name) ==
    LET part == name[1]  hook == name[2] IN
    CASE part = "base" -> Base(st, hook)
      [] part = "before-logging" -> BeforeLogging(st)
      [] part = "before" -> Before(st, hook)
      [] part = "user" -> User(st, hook)
      [] part = "after" -> After(hook)
      [] part = "after-logging" -> AfterLogging(st, hook)
      [] part = "user-logging" -> UserLogging(st, hook)
      [] part = "reject" -> RejectChain(st, hook)
      [] part = "track" -> Track(st, hook)
      [] part = "skip-to-policy" -> <<policyVerdict(PolicyFor(st, hook))>>
      [] part = "not-local" -> NotLocal
      [] part = "logging-deny" -> LoggingDeny(st)
      [] part = "user-limit" -> UserLimit(st)
      [] part = "user-limit-accept" -> <<Accept(<<>>)>>
      [] part = "user-egress" -> <<>>

Compiles(st) ==
    \/ st.panic
    \/ /\ \A i \in DOMAIN st.rules4 :
             Live(st.rules4[i]) => ~Refused(st.rules4[i], FALSE)
       /\ \A i \in DOMAIN st.rules6 :
             Live(st.rules6[i]) => ~Refused(st.rules6[i], TRUE)

(* Every set of the ruleset, as the kernel is asked to insert it.          *)
AddressSets(st) ==
    {ThreatBans(st, v6) : v6 \in BOOLEAN}
    \cup {compileAddressSet(st.sets[s], v6) :
             s \in DOMAIN st.sets, v6 \in BOOLEAN}

=============================================================================
