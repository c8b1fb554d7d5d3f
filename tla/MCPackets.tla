----------------------------- MODULE MCPackets ------------------------------
(* Small instances of Packets for TLC: eight addresses to a family, about  *)
(* thirty packets that between them meet every built-in rule, and the      *)
(* states built from a pool of rules below.                                *)
EXTENDS Packets

MCMdns == [v6 \in BOOLEAN |-> 6]
MCUpnp == [v6 \in BOOLEAN |-> 5]

P == [hook |-> "input", v6 |-> FALSE, in |-> "eth0", out |-> "none",
      ct |-> "new", proto |-> "tcp", icmp |-> AnyType, saddr |-> 2,
      daddr |-> 4, sport |-> 1000, dport |-> 22, fib |-> "local",
      rh0 |-> FALSE, hl |-> 64]
P6 == [P EXCEPT !.v6 = TRUE]
U == [P EXCEPT !.proto = "udp"]
U6 == [P6 EXCEPT !.proto = "udp"]
Ping == [P EXCEPT !.proto = "icmp", !.icmp = 8]
Icmp6 == [P6 EXCEPT !.proto = "icmpv6", !.icmp = 135]
Out == [P EXCEPT !.hook = "output", !.in = "none", !.out = "eth0"]
Fwd == [P EXCEPT !.hook = "forward", !.out = "eth1", !.fib = "unicast"]

PacketSet ==
    {P, U, [U EXCEPT !.dport = 53], [P EXCEPT !.saddr = 3],
     [P EXCEPT !.in = "lo"], [P EXCEPT !.ct = "established"],
     [P EXCEPT !.ct = "established", !.saddr = 7],
     [P EXCEPT !.ct = "invalid"], [P EXCEPT !.fib = "unicast"],
     [P EXCEPT !.proto = "gre"], [P EXCEPT !.dport = 445],
     Ping, [Ping EXCEPT !.icmp = 0], [Ping EXCEPT !.hook = "output", !.icmp = 0],
     [U EXCEPT !.sport = 67, !.dport = 68],
     [U EXCEPT !.sport = 67, !.dport = 68, !.fib = "unicast"],
     [U EXCEPT !.daddr = 6, !.dport = 5353, !.fib = "multicast"],
     [U EXCEPT !.daddr = 5, !.dport = 1900, !.fib = "multicast"],
     [U EXCEPT !.daddr = 7, !.dport = 137, !.fib = "broadcast"]}
    \cup
    {P6, U6, [P6 EXCEPT !.in = "lo"], [P6 EXCEPT !.rh0 = TRUE],
     [P6 EXCEPT !.ct = "related"],
     Icmp6, [Icmp6 EXCEPT !.hl = 255], [Icmp6 EXCEPT !.icmp = 129, !.ct = "invalid"],
     [Icmp6 EXCEPT !.icmp = 130, !.saddr = 1], [Icmp6 EXCEPT !.icmp = 144],
     [Icmp6 EXCEPT !.icmp = 151, !.saddr = 1, !.hl = 1],
     [U6 EXCEPT !.sport = 547, !.dport = 546, !.saddr = 1, !.daddr = 0],
     [U6 EXCEPT !.sport = 547, !.dport = 546]}
    \cup
    {Out, [Out EXCEPT !.v6 = TRUE, !.out = "lo"], [Out EXCEPT !.ct = "invalid"],
     [Out EXCEPT !.v6 = TRUE, !.proto = "icmpv6", !.icmp = 129],
     Fwd, [Fwd EXCEPT !.ct = "established", !.saddr = 6],
     [Fwd EXCEPT !.in = "eth1", !.ct = "invalid"],
     [Fwd EXCEPT !.v6 = TRUE, !.proto = "icmpv6", !.icmp = 129]}

-----------------------------------------------------------------------------
Anywhere == [set |-> NoSet, ip |-> AnyAddr]
Net(v6, a, b) == [set |-> NoSet, ip |-> [v6 |-> v6, addr |-> a, bits |-> b]]
PR(lo, hi, proto) == [lo |-> lo, hi |-> hi, proto |-> proto]

R == [id |-> 1, action |-> "allow", direction |-> "in", log |-> "",
      proto |-> "tcp", src |-> Anywhere, dst |-> Anywhere, sports |-> {},
      dports |-> {PR(22, 22, "tcp")}, ifaceIn |-> AnyIface,
      ifaceOut |-> AnyIface, icmpType |-> AnyType,
      disabled |-> FALSE, expired |-> FALSE]

(* Rules that overlap in all kinds of ways.                                *)
Pool ==
    {R,
     [R EXCEPT !.id = 2, !.action = "deny", !.log = "log", !.src = Net(FALSE, 2, 2)],
     [R EXCEPT !.id = 3, !.action = "limit", !.proto = "any", !.log = "log-all",
               !.dports = {PR(20, 30, "any")}],
     [R EXCEPT !.id = 4, !.action = "reject", !.proto = "any", !.dports = {},
               !.src = [set |-> "trusted", ip |-> AnyAddr]]}
Single ==
    {[R EXCEPT !.id = 5, !.proto = "any", !.log = "log-all",
               !.dports = {PR(22, 22, "tcp"), PR(53, 53, "udp")}, !.ifaceIn = {"eth0"}],
     [R EXCEPT !.id = 6, !.direction = "routed", !.dports = {}, !.proto = "any",
               !.ifaceIn = {"eth0"}, !.ifaceOut = {"eth1"}],
     [R EXCEPT !.id = 7, !.direction = "out", !.action = "reject"],
     [R EXCEPT !.disabled = TRUE], [R EXCEPT !.expired = TRUE],
     [R EXCEPT !.src = Net(TRUE, 2, 3)],
     [R EXCEPT !.action = "limit", !.proto = "gre", !.dports = {}],
     [R EXCEPT !.proto = "icmp", !.dports = {}, !.icmpType = 0],
     [R EXCEPT !.proto = "icmpv6", !.dports = {}]}

NoEtc == [policy |-> [h \in Hook |-> ""], ipv6 |-> ""]
S == [panic |-> FALSE, ipv6 |-> TRUE, logging |-> "low",
      policies |-> [input |-> "deny", output |-> "allow", forward |-> "reject"],
      rules4 |-> <<>>, rules6 |-> <<>>, bans |-> <<>>,
      sets |-> [trusted |-> <<[v6 |-> FALSE, addr |-> 2, bits |-> 3],
                              [v6 |-> FALSE, addr |-> 0, bits |-> 2],
                              [v6 |-> TRUE, addr |-> 2, bits |-> 2]>>],
      etc |-> NoEtc]
Ban(v6, a, b, expired) ==
    [element |-> [v6 |-> v6, addr |-> a, bits |-> b], expired |-> expired]

Both(rules) == [S EXCEPT !.rules4 = rules,
                         !.rules6 = SelectSeq(rules, LAMBDA r : ~Refused(r, TRUE))]

(* No ban, and no set, reaches the last address and holds another: see     *)
(* SetsComplete.                                                           *)
States ==
    {Both(rules) : rules \in {<<>>} \cup {<<r>> : r \in Single \cup Pool}
                             \cup {<<r, q>> : r, q \in Pool}}
    \cup {[S EXCEPT !.policies = [h \in Hook |-> p], !.logging = l] :
             p \in {"allow", "deny", "reject"}, l \in {"off", "low", "medium", "high", "full"}}
    \cup {[Both(<<[R EXCEPT !.log = "log"], [R EXCEPT !.action = "deny"]>>)
             EXCEPT !.logging = l] : l \in {"off", "full"}}
    \cup {[Both(<<R>>) EXCEPT !.panic = TRUE], [Both(<<R>>) EXCEPT !.ipv6 = FALSE],
          [Both(<<R>>) EXCEPT !.etc.ipv6 = "no", !.etc.policy["input"] = "accept"],
          [Both(<<>>) EXCEPT !.etc.policy["input"] = "accept",
                             !.etc.policy["output"] = "drop"],
          [S EXCEPT !.rules6 = <<[R EXCEPT !.proto = "icmp", !.dports = {}]>>]}
    \cup {[Both(<<R>>) EXCEPT !.bans = b] : b \in
            {<<Ban(FALSE, 2, 3, FALSE), Ban(FALSE, 2, 2, FALSE), Ban(FALSE, 6, 3, FALSE)>>,
             <<Ban(TRUE, 2, 3, FALSE), Ban(FALSE, 4, 1, FALSE), Ban(FALSE, 3, 3, FALSE)>>,
             <<Ban(FALSE, 2, 3, TRUE), Ban(TRUE, 0, 2, FALSE)>>}}

(* A ban on the upper half of the family, and one inside it.               *)
MCTopContent ==
    <<[S EXCEPT !.bans = <<Ban(FALSE, 4, 1, FALSE), Ban(FALSE, 5, 3, FALSE)>>]>>

(* TLC evaluates these once, but what a .cfg puts for a constant whenever  *)
(* the constant is used.                                                   *)
Contents == FoldSet(LAMBDA s, list : Append(list, s), <<>>, States)
Configs == DOMAIN Contents
MCContent == Contents
MCConfig == Configs
MCPacket == PacketSet

(* The states are ones that FirewallProof speaks of.                       *)
ASSUME StatesMeant == \A c \in MCConfig : Meant(MCContent[c])

=============================================================================
