------------------------------ MODULE Firewall ------------------------------
(***************************************************************************)
(* What the ruleset promises: the verdict of every packet, read off        *)
(* rules.json and the list at the top of compile.go, without chains,       *)
(* jumps, logging, protocol variants or interval sets.  Packets says how   *)
(* the kernel comes to it.                                                 *)
(***************************************************************************)
EXTENDS Compile

CONSTANTS
    Config,         \* configurations
    content,        \* content[c]: the state in rules.json, and /etc/default
    Packet          \* packets at one of the hooks

VARIABLES
    config,         \* the configuration the kernel's ruleset was compiled from
    pkt,            \* the packet at the hook, or NoPacket
    verdict         \* accept, drop or reject, once there is one

NoPacket == [hook |-> ""]
Undecided == ""

-----------------------------------------------------------------------------
(* Which rule of the user covers a packet.                                 *)

InElements(elements, p, a) ==
    \E i \in DOMAIN elements :
        elements[i].v6 = p.v6 /\ a \in Covers(elements[i])

CoversAddr(s, end, p, a) ==
    IF end.set # NoSet THEN InElements(s.sets[end.set], p, a)
    ELSE end.ip = AnyAddr \/ InElements(<<end.ip>>, p, a)

CoversPort(ports, p, n) ==
    ports = {} \/ \E r \in ports : r.proto \in {"any", p.proto} /\ n \in r.lo .. r.hi

RuleCovers(s, r, p) ==
    /\ HookOf[r.direction] = p.hook
    /\ r.ifaceIn = AnyIface \/ p.in \in r.ifaceIn
    /\ r.ifaceOut = AnyIface \/ p.out \in r.ifaceOut
    /\ r.proto \in {"any", p.proto}
    /\ r.icmpType \in {AnyType, p.icmp}
    /\ CoversAddr(s, r.src, p, p.saddr) /\ CoversAddr(s, r.dst, p, p.daddr)
    /\ r.sports \cup r.dports # {} => p.proto \in {"tcp", "udp"}
    /\ CoversPort(r.sports, p, p.sport) /\ CoversPort(r.dports, p, p.dport)

(* The rules of the packet's family that are in force and cover it.        *)
List(s, p) == IF p.v6 THEN s.rules6 ELSE s.rules4
Covering(s, p) == {i \in DOMAIN List(s, p) : Live(List(s, p)[i]) /\ RuleCovers(s, List(s, p)[i], p)}

-----------------------------------------------------------------------------
(* What no rule can change.                                                *)

Loopback(p) == \/ p.hook = "input" /\ p.in = "lo"
               \/ p.hook = "output" /\ p.out = "lo"

Banned(s, p) ==
    /\ p.hook \in {"input", "forward"}
    /\ \E i \in DOMAIN s.bans : /\ ~s.bans[i].expired
                                /\ InElements(<<s.bans[i].element>>, p, p.saddr)

(* ICMP that hosts need, and the multicast replies conntrack cannot place. *)
Control(p) ==
    IF p.v6
    THEN /\ p.proto = "icmpv6"
         /\ \/ p.icmp \in {1, 2, 3, 4, 128}
            \/ p.icmp = 129 /\ p.hook # "input"
            \/ p.hook = "input" /\ p.icmp \in 144 .. 147
            \/ /\ p.hook # "forward"
               /\ \/ p.icmp \in (133 .. 136) \cup {141, 142, 148, 149} /\ p.hl = 255
                  \/ p.icmp \in {130, 131, 132, 143} /\ p.saddr \in LinkLocal
                  \/ p.icmp \in 151 .. 153 /\ p.saddr \in LinkLocal /\ p.hl = 1
    ELSE p.proto = "icmp" /\ p.icmp \in {3, 8, 11, 12} /\ p.hook # "output"

DHCPAnswer(p) ==
    /\ p.hook = "input" /\ p.proto = "udp"
    /\ IF p.v6 THEN /\ p.sport = 547 /\ p.dport = 546
                    /\ {p.saddr, p.daddr} \subseteq LinkLocal
       ELSE p.sport = 67 /\ p.dport = 68

Foreign(p) == p.hook = "input" /\ ~p.v6
              /\ p.fib \notin {"local", "multicast", "broadcast"}

Announcement(p) ==
    /\ p.hook = "input" /\ p.proto = "udp"
    /\ \/ p.daddr = Mdns[p.v6] /\ p.dport = 5353
       \/ p.daddr = Upnp[p.v6] /\ p.dport = 1900

-----------------------------------------------------------------------------
PolicyVerdict(s, hook) ==
    LET p == PolicyFor(s, hook)
    IN  IF p = "allow" THEN "accept" ELSE IF p = "reject" THEN "reject" ELSE "drop"

(* allow, deny and reject decide alone; a limit rule accepts or, once its  *)
(* rate is used up, rejects what is new.                                   *)
ActionVerdicts(r, p) ==
    CASE r.action = "allow" -> {"accept"}
      [] r.action = "deny" -> {"drop"}
      [] r.action = "reject" -> {"reject"}
      [] r.action = "limit" -> {"accept"} \cup IF p.ct = "new" THEN {"reject"} ELSE {}

(* The first covering rule decides, else the policy.                       *)
UserVerdicts(s, p) ==
    IF Covering(s, p) = {} THEN {PolicyVerdict(s, p.hook)}
    ELSE ActionVerdicts(List(s, p)[Min(Covering(s, p))], p)

Verdicts(s, p) ==
    CASE s.panic -> {"drop"}
      [] ~s.panic /\ Loopback(p) -> {"accept"}
      [] ~s.panic /\ ~Loopback(p) ->
            IF p.v6 /\ ~IPv6(s) THEN {"drop"}
            ELSE IF (p.v6 /\ p.rh0) \/ Banned(s, p) THEN {"drop"}
            ELSE IF p.ct \in {"established", "related"} THEN {"accept"}
            ELSE IF p.hook = "input" /\ p.v6 /\ p.proto = "icmpv6" /\ p.icmp = 129
            THEN {"accept"}
            ELSE IF p.hook = "input" /\ p.ct = "invalid" THEN {"drop"}
            ELSE IF Control(p) \/ DHCPAnswer(p) THEN {"accept"}
            ELSE IF Foreign(p) THEN {"drop"}
            ELSE IF Announcement(p) THEN {"accept"}
            ELSE UserVerdicts(s, p)

Applicable == {c \in Config : Compiles(content[c])}

-----------------------------------------------------------------------------
Init == config \in Applicable /\ pkt = NoPacket /\ verdict = Undecided

Apply == /\ pkt = NoPacket
         /\ config' \in Applicable
         /\ UNCHANGED <<pkt, verdict>>

Arrive == /\ pkt = NoPacket
          /\ pkt' \in Packet
          /\ UNCHANGED <<config, verdict>>

Decide == /\ pkt # NoPacket /\ verdict = Undecided
          /\ verdict' \in Verdicts(content[config], pkt)
          /\ UNCHANGED <<config, pkt>>

Leave == /\ verdict # Undecided
         /\ pkt' = NoPacket /\ verdict' = Undecided
         /\ UNCHANGED config

vars == <<config, pkt, verdict>>
Next == Apply \/ Arrive \/ Decide \/ Leave

(* Every packet that arrives gets its verdict.                             *)
Spec == Init /\ [][Next]_vars /\ WF_vars(Decide)

=============================================================================
