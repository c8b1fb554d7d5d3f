--------------------------- MODULE FirewallProof ----------------------------
(***************************************************************************)
(* Packets implements Firewall, up to fairness: whatever the rules, bans,  *)
(* sets, policies and options are (Meant says which), the verdict a packet *)
(* gets from the compiled chains is one that rules.json asks for.          *)
(*                                                                         *)
(* A packet comes past the decisions Firewall lists one at a time: Stage   *)
(* says how far.  A list of rules is Good from one stage to another if a   *)
(* packet in the first meets only rules that do what Firewall says, and is *)
(* in the second if none settles it.  BeforeGood and UserGood show this of *)
(* the built-in chains and of any rules of the user, ChainRight of every   *)
(* chain.  AgreeInv says that a packet on its way has met no rule that     *)
(* settles it, in its chain and in those it is to return to; StepAgrees    *)
(* keeps it.                                                               *)
(*                                                                         *)
(* At the end, from the same: a limit rule lets no source open more        *)
(* connections at once than its burst.  What lets a packet through for a   *)
(* limit rule stands behind what counts it (Paired), and no packet comes   *)
(* to the one without the other (DueCounted).                              *)
(***************************************************************************)
EXTENDS PacketsProof

-----------------------------------------------------------------------------
(* Where a packet may be, and what it may meet there.                      *)

(* How far a packet has come: what Firewall lists has not decided it, in   *)
(* the order of the chains, nor has any of the first k - 18 rules.         *)
Multicast(p, group, n) ==
    p.hook = "input" /\ p.proto = "udp" /\ p.daddr = group[p.v6] /\ p.dport = n
Stage(s, p, k) ==
    /\ ~s.panic
    /\ k >= 1 => ~(p.v6 /\ ~IPv6(s)) \/ F!Loopback(p)
    /\ k >= 2 => ~F!Loopback(p)
    /\ k >= 3 => ~(p.v6 /\ p.rh0)
    /\ k >= 4 => ~F!Banned(s, p) \/ p.v6
    /\ k >= 5 => ~F!Banned(s, p)
    /\ k >= 6 => p.ct \notin {"established", "related"}
    /\ k >= 7 => ~(p.hook = "input" /\ p.v6 /\ p.proto = "icmpv6" /\ p.icmp = 129)
    /\ k >= 8 => ~(p.hook = "input" /\ p.ct = "invalid")
    /\ k >= 9 => ~F!Control(p) \/ p.v6
    /\ k >= 10 => ~F!Control(p) \/ p.icmp \in {129} \cup 144 .. 147
    /\ k >= 11 => ~F!Control(p)
    /\ k >= 12 => ~F!DHCPAnswer(p) \/ p.v6
    /\ k >= 13 => ~F!DHCPAnswer(p)
    /\ k >= 14 => ~F!Foreign(p)
    /\ k >= 15 => ~Multicast(p, Mdns, 5353) \/ p.v6
    /\ k >= 16 => ~Multicast(p, Mdns, 5353)
    /\ k >= 17 => ~Multicast(p, Upnp, 1900) \/ p.v6
    /\ k >= 18 => ~F!Announcement(p)
    /\ k > 18 => \A i \in F!Covering(s, p) : k < 18 + i

(* After all rules of its family only the policy is left.                  *)
Past18(s, p) == 18 + Len(F!List(s, p))

Entry(s, p, name) ==
    /\ name \in ChainName /\ name[1] # "base" /\ (name[2] = "" \/ name[2] = p.hook)
    /\ CASE name[1] \in {"before-logging", "before"} -> Stage(s, p, 1)
         [] name[1] = "not-local" -> p.hook = "input" /\ ~p.v6 /\ Stage(s, p, 13)
         [] name[1] = "user" -> Stage(s, p, 18)
         [] name[1] \in {"after", "after-logging", "reject", "track", "skip-to-policy"} ->
               Stage(s, p, Past18(s, p))
         [] name[1] = "user-limit" -> F!Verdicts(s, p) = {"accept", "reject"}
         [] name[1] = "user-limit-accept" ->
               F!Verdicts(s, p) \in {{"accept"}, {"accept", "reject"}}
         [] OTHER -> TRUE

Final == {"accept", "drop", "reject"}

(* A rule that decides a packet it meets, if the chains of C do.           *)
Settles(C, r, p) ==
    /\ Passes(r, p) /\ ~r.limited /\ r.meter = {}
    /\ r.verdict \in Final \/ (r.verdict = "jump" /\ r.to \in C)

(* The chains that decide this packet.                                     *)
Inner(p) == {<<"user-limit", "">>, <<"user-limit-accept", "">>}
            \cup ({"skip-to-policy"} \X Hook)
            \cup IF F!Foreign(p) THEN {<<"not-local", "">>} ELSE {}
Closed(s, p) ==
    Inner(p) \cup {name \in ChainName : 
                      /\ Depth(name) = 1
                      /\ \E j \in DOMAIN Chain(s, name) : Settles(Inner(p), Chain(s, name)[j], p)}

(* The rule of the user that decides a packet, and the meter of a limit    *)
(* rule.                                                                   *)
Decider(s, p) == F!List(s, p)[Min(F!Covering(s, p))]
Ported(r) == r.sports \cup r.dports # {} \/ r.proto \in {"tcp", "udp"}
MeterOf(r, v6) == [set |-> <<r.id, v6>>, ported |-> Ported(r)]
Deciding(s, p, r, v6) ==
    F!Verdicts(s, p) = F!ActionVerdicts(r, p) /\ Decider(s, p) = r /\ p.v6 = v6

(* What a rule that matches does to the packet is what Firewall says, and  *)
(* if it counts the packet then for the rule of the user that decides it.  *)
Sound(s, p, r) ==
    Passes(r, p) =>
        /\ r.verdict \in Final => F!Verdicts(s, p) = {r.verdict}
        /\ r.verdict = "jump" => Entry(s, p, r.to)
        /\ r.verdict # "return"
        /\ r.meter \subseteq {MeterOf(Decider(s, p), p.v6)}

Good(C, s, p, l, k, m) ==
    /\ IsSeq(l)
    /\ Stage(s, p, k) =>
          /\ \A i \in DOMAIN l :
                (\A j \in 1 .. i - 1 : ~Settles(C, l[j], p)) => Sound(s, p, l[i])
          /\ (\A j \in DOMAIN l : ~Settles(C, l[j], p)) => Stage(s, p, m)

(* Where a packet may be.                                                  *)
Fine(s, p, name, i) ==
    /\ name \in ChainName /\ (name[2] = "" \/ name[2] = p.hook)
    /\ i \in 1 .. Len(Chain(s, name)) + 1
    /\ name[1] # "base" => Entry(s, p, name)
    /\ \A j \in 1 .. i - 1 : ~Settles(Closed(s, p), Chain(s, name)[j], p)
    /\ name[1] = "not-local" /\ i > 1 => F!Foreign(p)
Called(s, p, f, name) ==
    /\ f.pc - 1 \in DOMAIN Chain(s, f.chain) /\ Fine(s, p, f.chain, f.pc - 1)
    /\ LET r == Chain(s, f.chain)[f.pc - 1] IN r.verdict = "jump" /\ r.to = name
Callee(i) == IF i = Len(stack) THEN chain ELSE stack[i + 1].chain
AgreeInv ==
    pkt # NoPacket =>
        LET s == content[config] IN
        /\ verdict = Undecided =>
              /\ Fine(s, pkt, chain, pc)
              /\ \A i \in DOMAIN stack : /\ Called(s, pkt, stack[i], Callee(i))
                                         /\ stack[i].chain[1] = "base" <=> i = 1
              /\ stack = <<>> <=> chain[1] = "base"
        /\ verdict # Undecided => verdict \in F!Verdicts(s, pkt)

-----------------------------------------------------------------------------
(* What Firewall says at each stage.                                       *)

(* Which verdict Firewall gives at each stage.                             *)
LEMMA StageVerdicts ==
    ASSUME NEW s, NEW p
    PROVE  /\ s.panic => F!Verdicts(s, p) = {"drop"}
           /\ Stage(s, p, 0) /\ F!Loopback(p) => F!Verdicts(s, p) = {"accept"}
           /\ Stage(s, p, 0) /\ ~F!Loopback(p) /\ p.v6 /\ ~IPv6(s) => F!Verdicts(s, p) = {"drop"}
           /\ Stage(s, p, 2) /\ p.v6 /\ p.rh0 => F!Verdicts(s, p) = {"drop"}
           /\ Stage(s, p, 2) /\ F!Banned(s, p) => F!Verdicts(s, p) = {"drop"}
           /\ Stage(s, p, 5) /\ p.ct \in {"established", "related"} => F!Verdicts(s, p) = {"accept"}
           /\ Stage(s, p, 6) /\ p.hook = "input" /\ p.v6 /\ p.proto = "icmpv6" /\ p.icmp = 129
              => F!Verdicts(s, p) = {"accept"}
           /\ Stage(s, p, 7) /\ p.hook = "input" /\ p.ct = "invalid" => F!Verdicts(s, p) = {"drop"}
           /\ Stage(s, p, 8) /\ (F!Control(p) \/ F!DHCPAnswer(p)) => F!Verdicts(s, p) = {"accept"}
           /\ Stage(s, p, 13) /\ F!Foreign(p) => F!Verdicts(s, p) = {"drop"}
           /\ Stage(s, p, 14) /\ F!Announcement(p) => F!Verdicts(s, p) = {"accept"}
           /\ Stage(s, p, 18) => F!Verdicts(s, p) = F!UserVerdicts(s, p)
<1>1. F!IPv6(s) <=> IPv6(s)
  BY DEF F!IPv6, IPv6
<1>2. s.panic => F!Verdicts(s, p) = {"drop"}
  BY DEF F!Verdicts
<1>3. ~s.panic /\ F!Loopback(p) => F!Verdicts(s, p) = {"accept"}
  BY DEF F!Verdicts
<1>4. ~s.panic /\ ~F!Loopback(p) =>
        F!Verdicts(s, p) =
            (IF p.v6 /\ ~F!IPv6(s) THEN {"drop"}
            ELSE IF (p.v6 /\ p.rh0) \/ F!Banned(s, p) THEN {"drop"}
            ELSE IF p.ct \in {"established", "related"} THEN {"accept"}
            ELSE IF p.hook = "input" /\ p.v6 /\ p.proto = "icmpv6" /\ p.icmp = 129
            THEN {"accept"}
            ELSE IF p.hook = "input" /\ p.ct = "invalid" THEN {"drop"}
            ELSE IF F!Control(p) \/ F!DHCPAnswer(p) THEN {"accept"}
            ELSE IF F!Foreign(p) THEN {"drop"}
            ELSE IF F!Announcement(p) THEN {"accept"}
            ELSE F!UserVerdicts(s, p))
  BY DEF F!Verdicts
<1>5. Stage(s, p, 0) => ~s.panic
  BY DEF Stage
<1>6. Stage(s, p, 2) => ~s.panic /\ ~F!Loopback(p) /\ ~(p.v6 /\ ~IPv6(s))
  BY DEF Stage
<1>7. Stage(s, p, 5) => ~s.panic /\ ~F!Loopback(p) /\ ~(p.v6 /\ ~IPv6(s)) /\ ~(p.v6 /\ p.rh0) /\ ~F!Banned(s, p)
  BY DEF Stage
<1>8. Stage(s, p, 6) => Stage(s, p, 5) /\ p.ct \notin {"established", "related"}
  BY DEF Stage
<1>9. Stage(s, p, 7) => Stage(s, p, 6) /\ ~(p.hook = "input" /\ p.v6 /\ p.proto = "icmpv6" /\ p.icmp = 129)
  BY DEF Stage
<1>10. Stage(s, p, 8) => Stage(s, p, 7) /\ ~(p.hook = "input" /\ p.ct = "invalid")
  BY DEF Stage
<1>11. Stage(s, p, 13) => Stage(s, p, 8) /\ ~F!Control(p) /\ ~F!DHCPAnswer(p)
  BY DEF Stage
<1>12. Stage(s, p, 14) => Stage(s, p, 13) /\ ~F!Foreign(p)
  BY DEF Stage
<1>13. Stage(s, p, 18) => Stage(s, p, 14) /\ ~F!Announcement(p)
  BY DEF Stage
<1> QED BY <1>1, <1>2, <1>3, <1>4, <1>5, <1>6, <1>7, <1>8, <1>9, <1>10, <1>11, <1>12, <1>13

(* And at the rules of the user.                                           *)
LEMMA UserStages ==
    ASSUME NEW s, NEW p, IsSeq(F!List(s, p))
    PROVE  /\ F!Covering(s, p) \subseteq 1 .. Len(F!List(s, p)) /\ Len(F!List(s, p)) \in Nat
           /\ Stage(s, p, Past18(s, p)) => Stage(s, p, 18) /\ F!Verdicts(s, p) = {F!PolicyVerdict(s, p.hook)}
           /\ \A i \in F!Covering(s, p) :
                 Stage(s, p, 17 + i) => Deciding(s, p, F!List(s, p)[i], p.v6)
           /\ \A i \in DOMAIN F!List(s, p) :
                 Stage(s, p, 17 + i) /\ i \notin F!Covering(s, p) => Stage(s, p, 18 + i)
<1>1. PICK l : l = F!List(s, p)
  OBVIOUS
<1>2. PICK K : K = F!Covering(s, p)
  OBVIOUS
<1>3. PICK n \in Nat : n = Len(l) /\ DOMAIN l = 1 .. n
  <2>1. PICK E : l \in Seq(E)
    BY <1>1 DEF IsSeq
  <2> QED BY <2>1
<1>4. K \subseteq 1 .. n
  BY <1>1, <1>2, <1>3 DEF F!Covering
<1>5. F!UserVerdicts(s, p) = IF K = {} THEN {F!PolicyVerdict(s, p.hook)} ELSE F!ActionVerdicts(l[Min(K)], p)
  BY <1>1, <1>2 DEF F!UserVerdicts, F!Min, Min
<1>6. \A k \in Nat : Stage(s, p, 18 + k) <=> Stage(s, p, 18) /\ \A i \in K : k < i
  <2>1. \A k \in Nat, i \in K : i \in Nat /\ (18 + k < 18 + i <=> k < i) /\ 18 < 18 + i
    BY <1>4
  <2>2. \A k \in Nat : 18 + k >= 18 /\ (k # 0 => 18 + k > 18) /\ (k = 0 => \A i \in K : k < i)
    BY <1>4
  <2>3. ASSUME NEW k \in Nat \ {0}
        PROVE  Stage(s, p, 18 + k) <=> Stage(s, p, 18) /\ \A i \in K : k < i
    <3>1. PICK j : j = 18 + k
      OBVIOUS
    <3>2. j \in Nat /\ j > 18 /\ \A i \in K : j < 18 + i <=> k < i
      BY <2>1, <2>3, <3>1
    <3> QED BY <1>2, <3>1, <3>2 DEF Stage
  <2> QED BY <2>2, <2>3
<1>7. Stage(s, p, 18 + n) => K = {}
  BY <1>4, <1>6
<1>8. ASSUME NEW i \in K, Stage(s, p, 17 + i)
      PROVE  Deciding(s, p, l[i], p.v6)
  <2>1. i - 1 \in Nat /\ 17 + i = 18 + (i - 1) /\ i \in Nat
    BY <1>4
  <2>2. Stage(s, p, 18) /\ \A j \in K : i - 1 < j
    BY <1>6, <1>8, <2>1
  <2>3. \A j \in K : i <= j
    BY <1>4, <2>1, <2>2
  <2>4. K \subseteq Nat /\ K # {}
    BY <1>4
  <2>5. Min(K) \in K /\ \A x \in K : Min(K) <= x
    BY <2>4, Least
  <2>6. PICK m : m = Min(K)
    OBVIOUS
  <2>7. m = i
    <3>1. m \in Nat /\ m <= i /\ i <= m
      BY <2>1, <2>3, <2>4, <2>5, <2>6
    <3> QED BY <2>1, <3>1
  <2>8. F!Verdicts(s, p) = F!ActionVerdicts(l[i], p)
    BY <1>5, <2>2, <2>4, <2>6, <2>7, StageVerdicts
  <2>9. Decider(s, p) = l[i]
    BY <1>1, <1>2, <2>6, <2>7 DEF Decider
  <2> QED BY <2>8, <2>9 DEF Deciding
<1>9. ASSUME NEW i \in 1 .. n, Stage(s, p, 17 + i), i \notin K PROVE Stage(s, p, 18 + i)
  <2>1. i - 1 \in Nat /\ 17 + i = 18 + (i - 1) /\ i \in Nat
    BY <1>3
  <2>2. Stage(s, p, 18) /\ \A j \in K : i - 1 < j
    BY <1>6, <1>9, <2>1
  <2>3. \A j \in K : i < j
    BY <1>4, <1>9, <2>1, <2>2
  <2> QED BY <1>6, <2>1, <2>2, <2>3
<1>10. Stage(s, p, 18 + n) => Stage(s, p, 18) /\ F!Verdicts(s, p) = {F!PolicyVerdict(s, p.hook)}
  BY <1>3, <1>5, <1>6, <1>7, StageVerdicts
<1> QED BY <1>1, <1>2, <1>3, <1>4, <1>8, <1>9, <1>10 DEF Past18


(* The names of the chains and when a packet may enter each.               *)
LEMMA Names ==
    /\ \A part \in {"base", "before-logging", "before", "user", "after", "after-logging",
                    "user-logging", "reject", "track", "skip-to-policy"} :
          \A h \in Hook : <<part, h>> \in ChainName
    /\ \A part \in {"not-local", "logging-deny", "user-limit", "user-limit-accept", "user-egress"} :
          <<part, "">> \in ChainName
<1> DEFINE S == {"base", "before-logging", "before", "user", "after", "after-logging",
                 "user-logging", "reject", "track", "skip-to-policy"}
           T == {"not-local", "logging-deny", "user-limit", "user-limit-accept", "user-egress"}
           E == {""}
<1>1. ChainName = (S \X Hook) \cup (T \X E)
  BY DEF ChainName
<1>2. \A e : e = "" => e \in E
  OBVIOUS
<1> HIDE DEF S, T, E
<1>3. \A part \in S : \A h \in Hook : <<part, h>> \in ChainName
  BY <1>1
<1>4. \A part \in T : \A e \in E : <<part, e>> \in ChainName
  BY <1>1
<1> QED BY <1>2, <1>3, <1>4 DEF S, T

(* What Entry asks of a name, by its part.                                 *)
LEMMA EntryIs ==
    ASSUME NEW s, NEW p, NEW name, name \in ChainName, name[2] = "" \/ name[2] = p.hook
    PROVE  /\ name[1] \in {"before-logging", "before"} /\ Stage(s, p, 1) => Entry(s, p, name)
           /\ name[1] = "not-local" /\ p.hook = "input" /\ ~p.v6 /\ Stage(s, p, 13) => Entry(s, p, name)
           /\ name[1] = "user" /\ Stage(s, p, 18) => Entry(s, p, name)
           /\ /\ name[1] \in {"after", "after-logging", "reject", "track", "skip-to-policy"}
              /\ Stage(s, p, Past18(s, p))
              => Entry(s, p, name)
           /\ name[1] = "user-limit" /\ F!Verdicts(s, p) = {"accept", "reject"} => Entry(s, p, name)
           /\ /\ name[1] = "user-limit-accept"
              /\ F!Verdicts(s, p) = {"accept"} \/ F!Verdicts(s, p) = {"accept", "reject"}
              => Entry(s, p, name)
           /\ name[1] \in {"logging-deny", "user-logging", "user-egress"} => Entry(s, p, name)
BY DEF Entry

(* The same by name.                                                       *)
LEMMA Entries ==
    ASSUME NEW s, NEW p, p.hook \in Hook
    PROVE  /\ Stage(s, p, 1) => /\ Entry(s, p, <<"before-logging", p.hook>>)
                               /\ Entry(s, p, <<"before", p.hook>>)
           /\ p.hook = "input" /\ ~p.v6 /\ Stage(s, p, 13) => Entry(s, p, <<"not-local", "">>)
           /\ Stage(s, p, 18) => Entry(s, p, <<"user", p.hook>>)
           /\ \A part \in {"after", "after-logging", "reject", "track", "skip-to-policy"} :
                 Stage(s, p, Past18(s, p)) => Entry(s, p, <<part, p.hook>>)
           /\ F!Verdicts(s, p) = {"accept", "reject"} => Entry(s, p, <<"user-limit", "">>)
           /\ F!Verdicts(s, p) = {"accept"} \/ F!Verdicts(s, p) = {"accept", "reject"}
              => Entry(s, p, <<"user-limit-accept", "">>)
           /\ Entry(s, p, <<"logging-deny", "">>) /\ Entry(s, p, <<"user-egress", "">>)
           /\ Entry(s, p, <<"user-logging", p.hook>>)
<1>1. \A x, h : <<x, h>>[1] = x /\ <<x, h>>[2] = h
  OBVIOUS
<1>2. PICK h : h = p.hook
  OBVIOUS
<1>3. \A x \in {"before-logging", "before", "user", "after", "after-logging", "reject", "track",
               "skip-to-policy", "user-logging"} :
         <<x, h>> \in ChainName
  BY <1>2, Names
<1>4. \A x \in {"not-local", "user-limit", "user-limit-accept", "logging-deny", "user-egress"} :
         <<x, "">> \in ChainName
  BY Names
<1>5. \A x \in {"before-logging", "before"} : Stage(s, p, 1) => Entry(s, p, <<x, h>>)
  BY <1>1, <1>2, <1>3, EntryIs
<1>6. p.hook = "input" /\ ~p.v6 /\ Stage(s, p, 13) => Entry(s, p, <<"not-local", "">>)
  BY <1>1, <1>4, EntryIs
<1>7. Stage(s, p, 18) => Entry(s, p, <<"user", h>>)
  BY <1>1, <1>2, <1>3, EntryIs
<1>8. \A x \in {"after", "after-logging", "reject", "track", "skip-to-policy"} :
         Stage(s, p, Past18(s, p)) => Entry(s, p, <<x, h>>)
  BY <1>1, <1>2, <1>3, EntryIs
<1>9. F!Verdicts(s, p) = {"accept", "reject"} => Entry(s, p, <<"user-limit", "">>)
  BY <1>1, <1>4, EntryIs
<1>10. F!Verdicts(s, p) = {"accept"} \/ F!Verdicts(s, p) = {"accept", "reject"}
       => Entry(s, p, <<"user-limit-accept", "">>)
  BY <1>1, <1>4, EntryIs
<1>11. \A x \in {"logging-deny", "user-egress"} : Entry(s, p, <<x, "">>)
  BY <1>1, <1>4, EntryIs
<1>12. Entry(s, p, <<"user-logging", h>>)
  BY <1>1, <1>2, <1>3, EntryIs
<1> QED BY <1>2, <1>5, <1>6, <1>7, <1>8, <1>9, <1>10, <1>11, <1>12

-----------------------------------------------------------------------------
(* Lists of rules that take a packet from a stage to another.              *)

(* Lists one after the other.                                              *)
LEMMA GoodCat ==
    ASSUME NEW C, NEW s, NEW p, NEW k, NEW n, NEW m, NEW a, NEW b,
           Good(C, s, p, a, k, n), Good(C, s, p, b, n, m)
    PROVE  Good(C, s, p, a \o b, k, m)
<1>1. IsSeq(a) /\ IsSeq(b)
  BY DEF Good
<1>2. PICK c : c = a \o b
  OBVIOUS
<1>3. PICK x \in Nat, y \in Nat : /\ x = Len(a) /\ y = Len(b) /\ IsSeq(c)
                                  /\ DOMAIN a = 1 .. x /\ DOMAIN b = 1 .. y /\ DOMAIN c = 1 .. x + y
                                  /\ \A i \in 1 .. x + y : c[i] = IF i <= x THEN a[i] ELSE b[i - x]
  <2>1. /\ IsSeq(a \o b) /\ Len(a) \in Nat /\ Len(b) \in Nat /\ Len(a \o b) = Len(a) + Len(b)
        /\ \A i \in 1 .. Len(a) + Len(b) : (a \o b)[i] = IF i <= Len(a) THEN a[i] ELSE b[i - Len(a)]
    BY <1>1, Cat
  <2>2. \A l : IsSeq(l) => DOMAIN l = 1 .. Len(l)
    BY DEF IsSeq
  <2>3. PICK x \in Nat, y \in Nat : x = Len(a) /\ y = Len(b)
    BY <2>1
  <2> QED BY <1>1, <1>2, <2>1, <2>2, <2>3
<1>4. (\A i \in 1 .. x : c[i] = a[i]) /\ (\A i \in 1 .. y : c[x + i] = b[i])
  BY <1>3
<1> SUFFICES ASSUME Stage(s, p, k)
             PROVE  /\ \A i \in 1 .. x + y :
                          (\A j \in 1 .. i - 1 : ~Settles(C, c[j], p)) => Sound(s, p, c[i])
                    /\ (\A j \in 1 .. x + y : ~Settles(C, c[j], p)) => Stage(s, p, m)
  BY <1>2, <1>3 DEF Good
<1>5. /\ \A i \in 1 .. x : (\A j \in 1 .. i - 1 : ~Settles(C, a[j], p)) => Sound(s, p, a[i])
      /\ (\A j \in 1 .. x : ~Settles(C, a[j], p)) => Stage(s, p, n)
  BY <1>3 DEF Good
<1>6. Stage(s, p, n) =>
        /\ \A i \in 1 .. y : (\A j \in 1 .. i - 1 : ~Settles(C, b[j], p)) => Sound(s, p, b[i])
        /\ (\A j \in 1 .. y : ~Settles(C, b[j], p)) => Stage(s, p, m)
  BY <1>3 DEF Good
<1>7. ASSUME NEW i \in 1 .. x + y, \A j \in 1 .. i - 1 : ~Settles(C, c[j], p)
      PROVE  Sound(s, p, c[i])
  <2>1. CASE i <= x
    <3>1. i \in 1 .. x /\ c[i] = a[i]
      BY <1>4, <2>1
    <3>2. \A j \in 1 .. i - 1 : ~Settles(C, a[j], p)
      <4>1. \A j \in 1 .. i - 1 : j \in 1 .. x
        BY <3>1
      <4> QED BY <1>4, <1>7, <4>1
    <3> QED BY <1>5, <3>1, <3>2
  <2>2. CASE i > x
    <3>1. PICK q \in 1 .. y : i = x + q
      <4>1. i - x \in 1 .. y /\ i = x + (i - x)
        BY <1>3, <2>2
      <4> QED BY <4>1
    <3>2. Stage(s, p, n)
      <4>1. \A j \in 1 .. x : j \in 1 .. i - 1
        BY <1>3, <2>2
      <4> QED BY <1>4, <1>5, <1>7, <4>1
    <3>3. \A j \in 1 .. q - 1 : ~Settles(C, b[j], p)
      <4>1. \A j \in 1 .. q - 1 : x + j \in 1 .. i - 1 /\ j \in 1 .. y
        BY <1>3, <3>1
      <4> QED BY <1>4, <1>7, <4>1
    <3> QED BY <1>4, <1>6, <3>1, <3>2, <3>3
  <2> QED BY <1>3, <2>1, <2>2
<1>8. ASSUME \A j \in 1 .. x + y : ~Settles(C, c[j], p) PROVE Stage(s, p, m)
  <2>1. \A j \in 1 .. x : j \in 1 .. x + y
    BY <1>3
  <2>2. \A j \in 1 .. y : x + j \in 1 .. x + y
    BY <1>3
  <2> QED BY <1>4, <1>5, <1>6, <1>8, <2>1, <2>2
<1> QED BY <1>7, <1>8

(* A list that no packet is decided by, at a stage that is the next as     *)
(* well.                                                                   *)
LEMMA GoodNone ==
    ASSUME NEW C, NEW s, NEW p, NEW k, NEW m, Stage(s, p, k) => Stage(s, p, m)
    PROVE  Good(C, s, p, <<>>, k, m)
<1>1. DOMAIN <<>> = {}
  OBVIOUS
<1> QED BY <1>1, Zero DEF Good

(* A list of which every rule is sound at the first stage.                 *)
LEMMA GoodChunk ==
    ASSUME NEW C, NEW s, NEW p, NEW k, NEW m, NEW l, IsSeq(l),
           Stage(s, p, k) => \A r \in Range(l) : Sound(s, p, r),
           Stage(s, p, k) /\ (\A r \in Range(l) : ~Settles(C, r, p)) => Stage(s, p, m)
    PROVE  Good(C, s, p, l, k, m)
<1>1. \A i \in DOMAIN l : l[i] \in Range(l)
  BY DEF Range
<1>2. \A r \in Range(l) : \E i \in DOMAIN l : r = l[i]
  BY DEF Range
<1> HIDE DEF Range
<1> QED BY <1>1, <1>2 DEF Good

(* One rule.                                                               *)
LEMMA GoodOne ==
    ASSUME NEW C, NEW s, NEW p, NEW k, NEW m, NEW r,
           Stage(s, p, k) => Sound(s, p, r),
           Stage(s, p, k) /\ ~Settles(C, r, p) => Stage(s, p, m)
    PROVE  Good(C, s, p, <<r>>, k, m)
<1>1. IsSeq(<<r>>) /\ Range(<<r>>) = {r}
  BY One DEF Range
<1> QED BY <1>1, GoodChunk

(* A rule that accepts, drops or rejects what it meets,                    *)
LEMMA GoodFinal ==
    ASSUME NEW C, NEW s, NEW p, NEW k, NEW m, NEW r,
           r.verdict \in Final, ~r.limited, r.meter = {},
           Stage(s, p, k) /\ Passes(r, p) => F!Verdicts(s, p) = {r.verdict},
           Stage(s, p, k) /\ ~Passes(r, p) => Stage(s, p, m)
    PROVE  Good(C, s, p, <<r>>, k, m)
<1>1. r.verdict # "jump" /\ r.verdict # "return"
  BY DEF Final
<1>2. Stage(s, p, k) => Sound(s, p, r)
  BY <1>1 DEF Sound
<1>3. ~Settles(C, r, p) => ~Passes(r, p)
  BY DEF Settles
<1> QED BY <1>2, <1>3, GoodOne

(* and one that calls a chain.                                             *)
LEMMA GoodJump ==
    ASSUME NEW C, NEW s, NEW p, NEW k, NEW m, NEW r,
           r.verdict = "jump", r.meter = {},
           Stage(s, p, k) /\ Passes(r, p) => Entry(s, p, r.to),
           Stage(s, p, k) /\ ~Settles(C, r, p) => Stage(s, p, m)
    PROVE  Good(C, s, p, <<r>>, k, m)
<1>1. r.verdict \notin Final
  BY DEF Final
<1>2. Stage(s, p, k) => Sound(s, p, r)
  BY <1>1 DEF Sound
<1> QED BY <1>2, GoodOne

(* Lists of a few rules.                                                   *)
LEMMA GoodTwo ==
    ASSUME NEW C, NEW s, NEW p, NEW k, NEW n, NEW m, NEW a, NEW b,
           Good(C, s, p, <<a>>, k, n), Good(C, s, p, <<b>>, n, m)
    PROVE  Good(C, s, p, <<a, b>>, k, m)
<1>1. <<a, b>> = <<a>> \o <<b>>
  <2>1. <<a>> \in Seq({a, b}) /\ <<b>> \in Seq({a, b}) /\ <<a, b>> \in Seq({a, b})
    OBVIOUS
  <2>2. /\ <<a>> \o <<b>> \in Seq({a, b}) /\ Len(<<a>> \o <<b>>) = 2
        /\ (<<a>> \o <<b>>)[1] = a /\ (<<a>> \o <<b>>)[2] = b
    BY <2>1
  <2>3. PICK E : E = {a, b}
    OBVIOUS
  <2>4. PICK u \in Seq(E) : u = <<a, b>> /\ Len(u) = 2 /\ u[1] = a /\ u[2] = b
    BY <2>1, <2>3
  <2>5. PICK w \in Seq(E) : w = <<a>> \o <<b>> /\ Len(w) = 2 /\ w[1] = a /\ w[2] = b
    BY ONLY <2>2, <2>3
  <2>6. \A i \in 1 .. 2 : i = 1 \/ i = 2
    OBVIOUS
  <2>7. u = w
    <3>1. Len(u) = Len(w) /\ \A i \in 1 .. Len(u) : u[i] = w[i]
      BY ONLY <2>4, <2>5, <2>6
    <3> QED BY ONLY <3>1, ListsEqual
  <2> QED BY ONLY <2>4, <2>5, <2>7
<1> QED BY <1>1, GoodCat

(* Three rules.                                                            *)
LEMMA GoodThree ==
    ASSUME NEW C, NEW s, NEW p, NEW k, NEW n1, NEW n2, NEW m, NEW a, NEW b, NEW c,
           Good(C, s, p, <<a>>, k, n1), Good(C, s, p, <<b>>, n1, n2), Good(C, s, p, <<c>>, n2, m)
    PROVE  Good(C, s, p, <<a, b, c>>, k, m)
<1>1. <<a, b, c>> = <<a, b>> \o <<c>>
  OBVIOUS
<1> QED BY <1>1, GoodTwo, GoodCat

(* Four rules.                                                             *)
LEMMA GoodFour ==
    ASSUME NEW C, NEW s, NEW p, NEW k, NEW n1, NEW n2, NEW n3, NEW m,
           NEW a, NEW b, NEW c, NEW d,
           Good(C, s, p, <<a>>, k, n1), Good(C, s, p, <<b>>, n1, n2),
           Good(C, s, p, <<c>>, n2, n3), Good(C, s, p, <<d>>, n3, m)
    PROVE  Good(C, s, p, <<a, b, c, d>>, k, m)
<1>1. <<a, b, c, d>> = <<a, b, c>> \o <<d>>
  OBVIOUS
<1> QED BY <1>1, GoodThree, GoodCat

(* Five rules.                                                             *)
LEMMA GoodFive ==
    ASSUME NEW C, NEW s, NEW p, NEW k, NEW n1, NEW n2, NEW n3, NEW n4, NEW m,
           NEW a, NEW b, NEW c, NEW d, NEW e,
           Good(C, s, p, <<a>>, k, n1), Good(C, s, p, <<b>>, n1, n2),
           Good(C, s, p, <<c>>, n2, n3), Good(C, s, p, <<d>>, n3, n4), Good(C, s, p, <<e>>, n4, m)
    PROVE  Good(C, s, p, <<a, b, c, d, e>>, k, m)
<1>1. <<a, b, c, d, e>> = <<a, b, c, d>> \o <<e>>
  OBVIOUS
<1> QED BY <1>1, GoodFour, GoodCat

-----------------------------------------------------------------------------
(* What the expressions of a rule ask of a packet.                         *)

(* Its tests.                                                              *)
Meets(on, p) == \A i \in DOMAIN on : p[on[i][1]] \in on[i][2]
Tests(on, p, cond) == IsSeq(on) /\ (Meets(on, p) <=> cond)

(* One test.                                                               *)
LEMMA TestOne == ASSUME NEW f, NEW S, NEW p PROVE Tests(<< <<f, S>> >>, p, p[f] \in S)
<1>1. PICK t : t = <<f, S>>
  OBVIOUS
<1>2. DOMAIN <<t>> = {1} /\ <<t>>[1] = t /\ t[1] = f /\ t[2] = S
  BY <1>1
<1>3. IsSeq(<<t>>)
  BY One
<1>4. PICK l : l = <<t>>
  OBVIOUS
<1>5. Meets(l, p) <=> p[f] \in S
  BY ONLY <1>2, <1>4 DEF Meets
<1> QED BY <1>1, <1>3, <1>4, <1>5 DEF Tests

(* Two lists of tests ask for both.                                        *)
LEMMA TestCat ==
    ASSUME NEW a, NEW b, NEW p, IsSeq(a), IsSeq(b)
    PROVE  IsSeq(a \o b) /\ (Meets(a \o b, p) <=> Meets(a, p) /\ Meets(b, p))
<1>1. PICK c : c = a \o b
  OBVIOUS
<1>2. PICK x \in Nat, y \in Nat : /\ x = Len(a) /\ y = Len(b) /\ IsSeq(c)
                                  /\ DOMAIN a = 1 .. x /\ DOMAIN b = 1 .. y /\ DOMAIN c = 1 .. x + y
                                  /\ \A i \in 1 .. x + y : c[i] = IF i <= x THEN a[i] ELSE b[i - x]
  <2>1. /\ IsSeq(a \o b) /\ Len(a) \in Nat /\ Len(b) \in Nat /\ Len(a \o b) = Len(a) + Len(b)
        /\ \A i \in 1 .. Len(a) + Len(b) : (a \o b)[i] = IF i <= Len(a) THEN a[i] ELSE b[i - Len(a)]
    BY Cat
  <2>2. \A l : IsSeq(l) => DOMAIN l = 1 .. Len(l)
    BY DEF IsSeq
  <2>3. PICK x \in Nat, y \in Nat : x = Len(a) /\ y = Len(b)
    BY <2>1
  <2> QED BY <1>1, <2>1, <2>2, <2>3
<1>3. (\A i \in 1 .. x : c[i] = a[i]) /\ (\A i \in 1 .. y : c[x + i] = b[i])
  BY <1>2
<1>4. ASSUME Meets(c, p) PROVE Meets(a, p) /\ Meets(b, p)
  <2>1. \A i \in 1 .. x : i \in 1 .. x + y
    BY <1>2
  <2>2. \A i \in 1 .. y : x + i \in 1 .. x + y
    BY <1>2
  <2> QED BY <1>2, <1>3, <1>4, <2>1, <2>2 DEF Meets
<1>5. ASSUME Meets(a, p), Meets(b, p) PROVE Meets(c, p)
  <2>1. ASSUME NEW i \in 1 .. x + y PROVE p[c[i][1]] \in c[i][2]
    <3>1. CASE i <= x
      BY <1>2, <1>5, <2>1, <3>1 DEF Meets
    <3>2. CASE i > x
      <4>1. i - x \in 1 .. y
        BY <1>2, <2>1, <3>2
      <4>2. c[i] = b[i - x]
        BY <1>2, <2>1, <3>2
      <4> QED BY <1>2, <1>5, <4>1, <4>2 DEF Meets
    <3> QED BY <1>2, <2>1, <3>1, <3>2
  <2> QED BY <1>2, <2>1 DEF Meets
<1> QED BY <1>1, <1>2, <1>4, <1>5

(* What each helper of compile.go that tests a field asks of a packet.     *)
LEMMA FieldTests ==
    ASSUME NEW p
    PROVE  /\ \A v6 : IsSeq(nfproto(v6)) /\ (Meets(nfproto(v6), p) <=> p.v6 = v6)
           /\ \A S : IsSeq(iif(S)) /\ (Meets(iif(S), p) <=> p.in \in S)
           /\ \A S : IsSeq(oif(S)) /\ (Meets(oif(S), p) <=> p.out \in S)
           /\ \A S : IsSeq(l4proto(S)) /\ (Meets(l4proto(S), p) <=> p.proto \in S)
           /\ \A S : IsSeq(ctState(S)) /\ (Meets(ctState(S), p) <=> p.ct \in S)
           /\ \A S : IsSeq(icmpType(S)) /\ (Meets(icmpType(S), p) <=> p.icmp \in S)
           /\ \A S : IsSeq(sport(S)) /\ (Meets(sport(S), p) <=> p.sport \in S)
           /\ \A S : IsSeq(dport(S)) /\ (Meets(dport(S), p) <=> p.dport \in S)
           /\ \A S : IsSeq(fibAddrType(S)) /\ (Meets(fibAddrType(S), p) <=> p.fib \in S)
           /\ \A n : IsSeq(hopLimit(n)) /\ (Meets(hopLimit(n), p) <=> p.hl = n)
           /\ IsSeq(rhType) /\ (Meets(rhType, p) <=> p.rh0 = TRUE)
           /\ \A S : IsSeq(<< <<"saddr", S>> >>) /\ (Meets(<< <<"saddr", S>> >>, p) <=> p.saddr \in S)
           /\ \A S : IsSeq(<< <<"daddr", S>> >>) /\ (Meets(<< <<"daddr", S>> >>, p) <=> p.daddr \in S)
           /\ IsSeq(<<>>) /\ Meets(<<>>, p)
<1>1. \A f, S : IsSeq(<< <<f, S>> >>) /\ (Meets(<< <<f, S>> >>, p) <=> p[f] \in S)
  BY TestOne DEF Tests
<1>2. \A v6 : IsSeq(nfproto(v6)) /\ (Meets(nfproto(v6), p) <=> p.v6 = v6)
  BY <1>1 DEF nfproto
<1>3. \A S : IsSeq(iif(S)) /\ (Meets(iif(S), p) <=> p.in \in S)
  BY <1>1 DEF iif
<1>4. \A S : IsSeq(oif(S)) /\ (Meets(oif(S), p) <=> p.out \in S)
  BY <1>1 DEF oif
<1>5. \A S : IsSeq(l4proto(S)) /\ (Meets(l4proto(S), p) <=> p.proto \in S)
  BY <1>1 DEF l4proto
<1>6. \A S : IsSeq(ctState(S)) /\ (Meets(ctState(S), p) <=> p.ct \in S)
  BY <1>1 DEF ctState
<1>7. \A S : IsSeq(icmpType(S)) /\ (Meets(icmpType(S), p) <=> p.icmp \in S)
  BY <1>1 DEF icmpType
<1>8. \A S : IsSeq(sport(S)) /\ (Meets(sport(S), p) <=> p.sport \in S)
  BY <1>1 DEF sport
<1>9. \A S : IsSeq(dport(S)) /\ (Meets(dport(S), p) <=> p.dport \in S)
  BY <1>1 DEF dport
<1>10. \A S : IsSeq(fibAddrType(S)) /\ (Meets(fibAddrType(S), p) <=> p.fib \in S)
  BY <1>1 DEF fibAddrType
<1>11. \A n : IsSeq(hopLimit(n)) /\ (Meets(hopLimit(n), p) <=> p.hl = n)
  BY <1>1 DEF hopLimit
<1>12. IsSeq(rhType) /\ (Meets(rhType, p) <=> p.rh0 = TRUE)
  <2>1. IsSeq(rhType) /\ (Meets(rhType, p) <=> p["rh0"] \in {TRUE})
    BY <1>1, Zenon DEF rhType
  <2>2. p["rh0"] \in {TRUE} <=> p.rh0 = TRUE
    <3>1. \A x : x \in {TRUE} <=> x = TRUE
      BY Zenon
    <3> QED BY <3>1, Zenon
  <2> QED BY <2>1, <2>2
<1>13. \A S : IsSeq(<< <<"saddr", S>> >>) /\ (Meets(<< <<"saddr", S>> >>, p) <=> p.saddr \in S)
  BY <1>1
<1>14. \A S : IsSeq(<< <<"daddr", S>> >>) /\ (Meets(<< <<"daddr", S>> >>, p) <=> p.daddr \in S)
  BY <1>1
<1>15. IsSeq(<<>>) /\ Meets(<<>>, p)
  <2>1. DOMAIN <<>> = {}
    OBVIOUS
  <2> QED BY <2>1, Zero DEF Meets
<1> QED BY <1>2, <1>3, <1>4, <1>5, <1>6, <1>7, <1>8, <1>9, <1>10, <1>11, <1>12, <1>13, <1>14, <1>15

(* What the rules of each kind are.                                        *)
LEMMA RuleKinds ==
    ASSUME NEW on, NEW p
    PROVE  /\ Accept(on).verdict = "accept" /\ ~Accept(on).limited /\ Accept(on).meter = {}
           /\ Drop(on).verdict = "drop" /\ ~Drop(on).limited /\ Drop(on).meter = {}
           /\ Reject(on).verdict = "reject" /\ ~Reject(on).limited /\ Reject(on).meter = {}
           /\ \A to : /\ jump(on, to).verdict = "jump" /\ jump(on, to).to = to
                      /\ ~jump(on, to).limited /\ jump(on, to).meter = {}
                      /\ Passes(jump(on, to), p) <=> Meets(on, p)
           /\ Passes(Accept(on), p) <=> Meets(on, p)
           /\ Passes(Drop(on), p) <=> Meets(on, p)
           /\ Passes(Reject(on), p) <=> Meets(on, p)
           /\ Accept(on).on = on /\ Drop(on).on = on /\ Reject(on).on = on
BY DEF Accept, Drop, Reject, jump, nft, NoMeter, Passes, Meets

(* Each stage is the one before and one thing more.                        *)
LEMMA StageSteps ==
    ASSUME NEW s, NEW p
    PROVE  /\ Stage(s, p, 0) <=> ~s.panic
           /\ Stage(s, p, 1) <=> Stage(s, p, 0) /\ (~(p.v6 /\ ~IPv6(s)) \/ F!Loopback(p))
           /\ Stage(s, p, 2) <=> Stage(s, p, 1) /\ ~F!Loopback(p)
           /\ Stage(s, p, 3) <=> Stage(s, p, 2) /\ ~(p.v6 /\ p.rh0)
           /\ Stage(s, p, 4) <=> Stage(s, p, 3) /\ (~F!Banned(s, p) \/ p.v6)
           /\ Stage(s, p, 5) <=> Stage(s, p, 4) /\ ~F!Banned(s, p)
           /\ Stage(s, p, 6) <=> Stage(s, p, 5) /\ p.ct \notin {"established", "related"}
           /\ Stage(s, p, 7) <=> Stage(s, p, 6) /\ ~(p.hook = "input" /\ p.v6 /\ p.proto = "icmpv6" /\ p.icmp = 129)
           /\ Stage(s, p, 8) <=> Stage(s, p, 7) /\ ~(p.hook = "input" /\ p.ct = "invalid")
           /\ Stage(s, p, 9) <=> Stage(s, p, 8) /\ (~F!Control(p) \/ p.v6)
           /\ Stage(s, p, 10) <=> Stage(s, p, 9) /\ (~F!Control(p) \/ p.icmp \in {129} \cup 144 .. 147)
           /\ Stage(s, p, 11) <=> Stage(s, p, 10) /\ ~F!Control(p)
           /\ Stage(s, p, 12) <=> Stage(s, p, 11) /\ (~F!DHCPAnswer(p) \/ p.v6)
           /\ Stage(s, p, 13) <=> Stage(s, p, 12) /\ ~F!DHCPAnswer(p)
           /\ Stage(s, p, 14) <=> Stage(s, p, 13) /\ ~F!Foreign(p)
           /\ Stage(s, p, 15) <=> Stage(s, p, 14) /\ (~Multicast(p, Mdns, 5353) \/ p.v6)
           /\ Stage(s, p, 16) <=> Stage(s, p, 15) /\ ~Multicast(p, Mdns, 5353)
           /\ Stage(s, p, 17) <=> Stage(s, p, 16) /\ (~Multicast(p, Upnp, 1900) \/ p.v6)
           /\ Stage(s, p, 18) <=> Stage(s, p, 17) /\ ~F!Announcement(p)
<1>1. /\ Stage(s, p, 0) <=> ~s.panic
      /\ Stage(s, p, 1) <=> Stage(s, p, 0) /\ (~(p.v6 /\ ~IPv6(s)) \/ F!Loopback(p))
      /\ Stage(s, p, 2) <=> Stage(s, p, 1) /\ ~F!Loopback(p)
      /\ Stage(s, p, 3) <=> Stage(s, p, 2) /\ ~(p.v6 /\ p.rh0)
      /\ Stage(s, p, 4) <=> Stage(s, p, 3) /\ (~F!Banned(s, p) \/ p.v6)
  BY DEF Stage
<1>2. /\ Stage(s, p, 5) <=> Stage(s, p, 4) /\ ~F!Banned(s, p)
      /\ Stage(s, p, 6) <=> Stage(s, p, 5) /\ p.ct \notin {"established", "related"}
      /\ Stage(s, p, 7) <=> Stage(s, p, 6) /\ ~(p.hook = "input" /\ p.v6 /\ p.proto = "icmpv6" /\ p.icmp = 129)
      /\ Stage(s, p, 8) <=> Stage(s, p, 7) /\ ~(p.hook = "input" /\ p.ct = "invalid")
      /\ Stage(s, p, 9) <=> Stage(s, p, 8) /\ (~F!Control(p) \/ p.v6)
  BY DEF Stage
<1>3. /\ Stage(s, p, 10) <=> Stage(s, p, 9) /\ (~F!Control(p) \/ p.icmp \in {129} \cup 144 .. 147)
      /\ Stage(s, p, 11) <=> Stage(s, p, 10) /\ ~F!Control(p)
      /\ Stage(s, p, 12) <=> Stage(s, p, 11) /\ (~F!DHCPAnswer(p) \/ p.v6)
      /\ Stage(s, p, 13) <=> Stage(s, p, 12) /\ ~F!DHCPAnswer(p)
      /\ Stage(s, p, 14) <=> Stage(s, p, 13) /\ ~F!Foreign(p)
  BY DEF Stage
<1>4. /\ Stage(s, p, 15) <=> Stage(s, p, 14) /\ (~Multicast(p, Mdns, 5353) \/ p.v6)
      /\ Stage(s, p, 16) <=> Stage(s, p, 15) /\ ~Multicast(p, Mdns, 5353)
      /\ Stage(s, p, 17) <=> Stage(s, p, 16) /\ (~Multicast(p, Upnp, 1900) \/ p.v6)
      /\ Stage(s, p, 18) <=> Stage(s, p, 17) /\ ~F!Announcement(p)
  BY DEF Stage
<1> QED BY <1>1, <1>2, <1>3, <1>4

(* Single rules.                                                           *)
LEMMA AcceptOne ==
    ASSUME NEW C, NEW s, NEW p, NEW k, NEW m, NEW on,
           Stage(s, p, k) /\ Meets(on, p) => F!Verdicts(s, p) = {"accept"},
           Stage(s, p, k) /\ ~Meets(on, p) => Stage(s, p, m)
    PROVE  Good(C, s, p, <<Accept(on)>>, k, m)
<1>1. PICK r : r = Accept(on)
  OBVIOUS
<1>2. r.verdict = "accept" /\ ~r.limited /\ r.meter = {} /\ (Passes(r, p) <=> Meets(on, p))
  BY <1>1, RuleKinds
<1>3. r.verdict \in Final
  BY <1>2 DEF Final
<1> QED BY <1>1, <1>2, <1>3, GoodFinal

(* A rule that drops.                                                      *)
LEMMA DropOne ==
    ASSUME NEW C, NEW s, NEW p, NEW k, NEW m, NEW on,
           Stage(s, p, k) /\ Meets(on, p) => F!Verdicts(s, p) = {"drop"},
           Stage(s, p, k) /\ ~Meets(on, p) => Stage(s, p, m)
    PROVE  Good(C, s, p, <<Drop(on)>>, k, m)
<1>1. PICK r : r = Drop(on)
  OBVIOUS
<1>2. r.verdict = "drop" /\ ~r.limited /\ r.meter = {} /\ (Passes(r, p) <=> Meets(on, p))
  BY <1>1, RuleKinds
<1>3. r.verdict \in Final
  BY <1>2 DEF Final
<1> QED BY <1>1, <1>2, <1>3, GoodFinal

(* A rule that jumps.                                                      *)
LEMMA JumpOne ==
    ASSUME NEW C, NEW s, NEW p, NEW k, NEW m, NEW on, NEW to,
           Stage(s, p, k) /\ Meets(on, p) => Entry(s, p, to),
           Stage(s, p, k) /\ (Meets(on, p) => to \notin C) => Stage(s, p, m)
    PROVE  Good(C, s, p, <<jump(on, to)>>, k, m)
<1>1. PICK r : r = jump(on, to)
  OBVIOUS
<1>2. r.verdict = "jump" /\ r.to = to /\ ~r.limited /\ r.meter = {} /\ (Passes(r, p) <=> Meets(on, p))
  <2>1. \A t : /\ jump(on, t).verdict = "jump" /\ jump(on, t).to = t
               /\ ~jump(on, t).limited /\ jump(on, t).meter = {}
               /\ Passes(jump(on, t), p) <=> Meets(on, p)
    BY RuleKinds
  <2> QED BY <1>1, <2>1
<1>3. ~Settles(C, r, p) => (Meets(on, p) => to \notin C)
  BY <1>2 DEF Settles
<1> QED BY <1>1, <1>2, <1>3, GoodJump

(* A stage that comes sooner or later.                                     *)
LEMMA GoodWeaken ==
    ASSUME NEW C, NEW s, NEW p, NEW l, NEW k, NEW m, NEW k0, NEW m0, Good(C, s, p, l, k, m),
           Stage(s, p, k0) => Stage(s, p, k), Stage(s, p, m) => Stage(s, p, m0)
    PROVE  Good(C, s, p, l, k0, m0)
BY DEF Good

(* The fields of a packet.                                                 *)
LEMMA Header ==
    ASSUME NEW p \in Packet
    PROVE  /\ p.v6 \in BOOLEAN /\ p.rh0 \in BOOLEAN /\ p.hook \in Hook
           /\ p.saddr \in Address /\ p.daddr \in Address
           /\ p.icmp \in Int /\ p.sport \in Nat /\ p.dport \in Nat /\ p.hl \in Nat
<1>1. PICK R : R = [hook : Hook, v6 : BOOLEAN, in : STRING, out : STRING,
                     ct : STRING, proto : STRING, icmp : Int, saddr : Address,
                     daddr : Address, sport : Nat, dport : Nat, fib : STRING,
                     rh0 : BOOLEAN, hl : Nat]
  OBVIOUS
<1>2. p \in R
  BY <1>1, HeaderAssumption
<1> QED BY <1>1, <1>2

(* The addresses that are banned are those of the bans.                    *)
LEMMA BannedExactly ==
    ASSUME NEW s, IsState(s), TopHoldsTop(LiveBans(s)), NEW p \in Packet
    PROVE  F!Banned(s, p) <=> p.hook \in {"input", "forward"} /\ p.saddr \in BannedAddresses(s, p.v6)
<1>1. \A e : F!Covers(e) = Covers(e)
  BY DEF F!Covers, F!First, F!Size, F!Power, Covers, First, Size, Power
<1>2. p.v6 \in BOOLEAN /\ p.saddr \in Address
  BY Header
<1>3. p.saddr \in BannedAddresses(s, p.v6) <=> \E e \in LiveBans(s) : e.v6 = p.v6 /\ p.saddr \in Covers(e)
  BY <1>2, BansListed DEF BannedAddresses
<1>4. \A e : F!InElements(<<e>>, p, p.saddr) <=> e.v6 = p.v6 /\ p.saddr \in Covers(e)
  <2>1. \A e : DOMAIN <<e>> = {1} /\ <<e>>[1] = e
    OBVIOUS
  <2> QED BY <1>1, <2>1 DEF F!InElements
<1>5. (\E e \in LiveBans(s) : e.v6 = p.v6 /\ p.saddr \in Covers(e))
      <=> \E i \in DOMAIN s.bans : ~s.bans[i].expired /\ F!InElements(<<s.bans[i].element>>, p, p.saddr)
  BY <1>4 DEF LiveBans
<1> QED BY <1>3, <1>5 DEF F!Banned

(* Several tests, one after the other.                                     *)
LEMMA TestThree ==
    ASSUME NEW a, NEW b, NEW c, NEW p, IsSeq(a), IsSeq(b), IsSeq(c)
    PROVE  /\ IsSeq(a \o b \o c)
           /\ Meets(a \o b \o c, p) <=> Meets(a, p) /\ Meets(b, p) /\ Meets(c, p)
<1>1. PICK d : d = a \o b
  OBVIOUS
<1>2. IsSeq(d) /\ (Meets(d, p) <=> Meets(a, p) /\ Meets(b, p))
  BY <1>1, TestCat
<1>3. IsSeq(d \o c) /\ (Meets(d \o c, p) <=> Meets(d, p) /\ Meets(c, p))
  BY <1>2, TestCat
<1> QED BY <1>1, <1>2, <1>3

(* Booleans.                                                               *)
LEMMA IsTrue == \A b \in BOOLEAN : (b = TRUE <=> b) /\ (b = FALSE <=> ~b)
BY Zenon

(* What the tests of the built-in rules ask of a packet.                   *)
LEMMA ICMPTests ==
    ASSUME NEW p \in Packet
    PROVE  /\ \A T : /\ IsSeq(ICMPv6(T))
                     /\ Meets(ICMPv6(T), p) <=> p.v6 /\ p.proto = "icmpv6" /\ p.icmp \in T
           /\ \A T : LET on == nfproto(FALSE) \o l4proto({"icmp"}) \o icmpType(T)
                     IN  Meets(on, p) <=> ~p.v6 /\ p.proto = "icmp" /\ p.icmp \in T
           /\ IsSeq(FromLinkLocal) /\ (Meets(FromLinkLocal, p) <=> p.saddr \in LinkLocal)
<1>1. p.v6 = TRUE <=> p.v6
  BY Header, IsTrue
<1>2. p.v6 = FALSE <=> ~p.v6
  BY Header, IsTrue
<1>3. ASSUME NEW T
      PROVE  /\ IsSeq(ICMPv6(T))
             /\ Meets(ICMPv6(T), p) <=> p.v6 /\ p.proto = "icmpv6" /\ p.icmp \in T
  <2>1. PICK a, b, c : a = nfproto(TRUE) /\ b = l4proto({"icmpv6"}) /\ c = icmpType(T)
    OBVIOUS
  <2>2. IsSeq(a) /\ IsSeq(b) /\ IsSeq(c)
    BY <2>1, FieldTests
  <2>3. (Meets(a, p) <=> p.v6) /\ (Meets(b, p) <=> p.proto = "icmpv6") /\ (Meets(c, p) <=> p.icmp \in T)
    <3>1. Meets(a, p) <=> p.v6 = TRUE
      BY <2>1, FieldTests
    <3>2. Meets(b, p) <=> p.proto \in {"icmpv6"}
      BY <2>1, FieldTests
    <3>3. Meets(c, p) <=> p.icmp \in T
      BY <2>1, FieldTests
    <3> QED BY <1>1, <3>1, <3>2, <3>3
  <2>4. ICMPv6(T) = a \o b \o c
    BY <2>1 DEF ICMPv6
  <2>5. IsSeq(a \o b \o c) /\ (Meets(a \o b \o c, p) <=> Meets(a, p) /\ Meets(b, p) /\ Meets(c, p))
    BY <2>2, TestThree
  <2> QED BY ONLY <2>3, <2>4, <2>5
<1>4. ASSUME NEW T
      PROVE  Meets(nfproto(FALSE) \o l4proto({"icmp"}) \o icmpType(T), p)
             <=> ~p.v6 /\ p.proto = "icmp" /\ p.icmp \in T
  <2>1. PICK a, b, c : a = nfproto(FALSE) /\ b = l4proto({"icmp"}) /\ c = icmpType(T)
    OBVIOUS
  <2>2. IsSeq(a) /\ IsSeq(b) /\ IsSeq(c)
    BY <2>1, FieldTests
  <2>3. (Meets(a, p) <=> ~p.v6) /\ (Meets(b, p) <=> p.proto = "icmp") /\ (Meets(c, p) <=> p.icmp \in T)
    <3>1. Meets(a, p) <=> p.v6 = FALSE
      BY <2>1, FieldTests
    <3>2. Meets(b, p) <=> p.proto \in {"icmp"}
      BY <2>1, FieldTests
    <3>3. Meets(c, p) <=> p.icmp \in T
      BY <2>1, FieldTests
    <3> QED BY <1>2, <3>1, <3>2, <3>3
  <2> QED BY <2>1, <2>2, <2>3, TestThree
<1>5. IsSeq(FromLinkLocal) /\ (Meets(FromLinkLocal, p) <=> p.saddr \in LinkLocal)
  BY FieldTests DEF FromLinkLocal
<1> QED BY <1>3, <1>4, <1>5, Zenon

-----------------------------------------------------------------------------
(* The built-in rules.                                                     *)

(* Accepting rules.                                                        *)
LEMMA Accepting ==
    ASSUME NEW C, NEW s, NEW p, NEW on
    PROVE  /\ Settles(C, Accept(on), p) <=> Meets(on, p)
           /\ (Meets(on, p) => F!Verdicts(s, p) = {"accept"}) => Sound(s, p, Accept(on))
<1>1. PICK r : r = Accept(on)
  OBVIOUS
<1>2. r.verdict = "accept" /\ ~r.limited /\ r.meter = {} /\ (Passes(r, p) <=> Meets(on, p))
  BY <1>1, RuleKinds
<1>3. r.verdict \in Final /\ r.verdict # "jump"
  BY <1>2 DEF Final
<1>4. Settles(C, r, p) <=> Meets(on, p)
  BY <1>2, <1>3 DEF Settles
<1>5. (Meets(on, p) => F!Verdicts(s, p) = {"accept"}) => Sound(s, p, r)
  BY <1>2, <1>3 DEF Sound
<1> QED BY <1>1, <1>4, <1>5

(* What beforeICMPv6Rules accepts is what Firewall calls control traffic,  *)
(* echo replies and inverse discovery apart.                               *)
LEMMA NeighbourTests ==
    ASSUME NEW p \in Packet
    PROVE  LET a == ICMPv6({1, 2, 3, 4, 128})
               b == ICMPv6({133, 134, 135, 136, 141, 142, 148, 149}) \o hopLimit(255)
               c == ICMPv6({130, 131, 132, 143}) \o FromLinkLocal
               d == ICMPv6({151, 152, 153}) \o FromLinkLocal \o hopLimit(1)
           IN  /\ Meets(a, p) \/ Meets(b, p) \/ Meets(c, p) \/ Meets(d, p)
                  => p.v6 /\ (p.hook # "forward" => F!Control(p))
               /\ p.v6 /\ F!Control(p) /\ ~Meets(a, p) /\ ~Meets(b, p) /\ ~Meets(c, p) /\ ~Meets(d, p)
                  => p.icmp \in {129} \cup 144 .. 147
<1>1. \A T : /\ IsSeq(ICMPv6(T))
             /\ Meets(ICMPv6(T), p) <=> p.v6 /\ p.proto = "icmpv6" /\ p.icmp \in T
  BY ICMPTests, Zenon
<1>2. IsSeq(FromLinkLocal) /\ (Meets(FromLinkLocal, p) <=> p.saddr \in LinkLocal)
  BY ICMPTests, Zenon
<1>3. \A n : IsSeq(hopLimit(n)) /\ (Meets(hopLimit(n), p) <=> p.hl = n)
  BY FieldTests
<1>4. PICK a, b, c, d :
        /\ a = ICMPv6({1, 2, 3, 4, 128})
        /\ b = ICMPv6({133, 134, 135, 136, 141, 142, 148, 149}) \o hopLimit(255)
        /\ c = ICMPv6({130, 131, 132, 143}) \o FromLinkLocal
        /\ d = ICMPv6({151, 152, 153}) \o FromLinkLocal \o hopLimit(1)
  OBVIOUS
<1>5. Meets(a, p) <=> p.v6 /\ p.proto = "icmpv6" /\ p.icmp \in {1, 2, 3, 4, 128}
  BY <1>1, <1>4
<1>6. Meets(b, p) <=> p.v6 /\ p.proto = "icmpv6" /\ p.icmp \in {133, 134, 135, 136, 141, 142, 148, 149} /\ p.hl = 255
  <2>1. PICK T : T = {133, 134, 135, 136, 141, 142, 148, 149}
    OBVIOUS
  <2>2. PICK x, y : x = ICMPv6(T) /\ y = hopLimit(255)
    OBVIOUS
  <2>3. IsSeq(x) /\ IsSeq(y) /\ (Meets(x, p) <=> p.v6 /\ p.proto = "icmpv6" /\ p.icmp \in T) /\ (Meets(y, p) <=> p.hl = 255)
    BY <1>1, <1>3, <2>2
  <2>4. Meets(x \o y, p) <=> Meets(x, p) /\ Meets(y, p)
    BY <2>3, TestCat
  <2> QED BY <1>4, <2>1, <2>2, <2>3, <2>4
<1>7. Meets(c, p) <=> p.v6 /\ p.proto = "icmpv6" /\ p.icmp \in {130, 131, 132, 143} /\ p.saddr \in LinkLocal
  <2>1. PICK T : T = {130, 131, 132, 143}
    OBVIOUS
  <2>2. PICK x, y : x = ICMPv6(T) /\ y = FromLinkLocal
    OBVIOUS
  <2>3. IsSeq(x) /\ IsSeq(y) /\ (Meets(x, p) <=> p.v6 /\ p.proto = "icmpv6" /\ p.icmp \in T) /\ (Meets(y, p) <=> p.saddr \in LinkLocal)
    BY <1>1, <1>2, <2>2
  <2>4. Meets(x \o y, p) <=> Meets(x, p) /\ Meets(y, p)
    BY <2>3, TestCat
  <2> QED BY <1>4, <2>1, <2>2, <2>3, <2>4
<1>8. Meets(d, p) <=> p.v6 /\ p.proto = "icmpv6" /\ p.icmp \in {151, 152, 153} /\ p.saddr \in LinkLocal /\ p.hl = 1
  <2>1. PICK T : T = {151, 152, 153}
    OBVIOUS
  <2>2. PICK x, y, z : x = ICMPv6(T) /\ y = FromLinkLocal /\ z = hopLimit(1)
    OBVIOUS
  <2>3. IsSeq(x) /\ IsSeq(y) /\ IsSeq(z) /\ (Meets(x, p) <=> p.v6 /\ p.proto = "icmpv6" /\ p.icmp \in T) /\ (Meets(y, p) <=> p.saddr \in LinkLocal) /\ (Meets(z, p) <=> p.hl = 1)
    BY <1>1, <1>2, <1>3, <2>2
  <2>4. Meets(x \o y \o z, p) <=> Meets(x, p) /\ Meets(y, p) /\ Meets(z, p)
    BY <2>3, TestThree
  <2> QED BY <1>4, <2>1, <2>2, <2>3, <2>4
<1>9. p.icmp \in Int /\ p.hl \in Nat
  BY Header
<1>10. (Meets(a, p) \/ Meets(b, p) \/ Meets(c, p) \/ Meets(d, p)) => p.v6 /\ (p.hook # "forward" => F!Control(p))
  BY <1>5, <1>6, <1>7, <1>8, <1>9 DEF F!Control
<1>11. p.v6 /\ F!Control(p) /\ ~Meets(a, p) /\ ~Meets(b, p) /\ ~Meets(c, p) /\ ~Meets(d, p)
       => p.icmp \in {129} \cup 144 .. 147
  BY <1>5, <1>6, <1>7, <1>8, <1>9 DEF F!Control
<1> QED BY <1>4, <1>10, <1>11

(* The ICMPv6 that hosts need, on input and output.                        *)
LEMMA NeighbourRules ==
    ASSUME NEW C, NEW s, NEW p \in Packet, p.hook # "forward"
    PROVE  Good(C, s, p, beforeICMPv6Rules, 9, 10)
<1> DEFINE a == ICMPv6({1, 2, 3, 4, 128})
           b == ICMPv6({133, 134, 135, 136, 141, 142, 148, 149}) \o hopLimit(255)
           c == ICMPv6({130, 131, 132, 143}) \o FromLinkLocal
           d == ICMPv6({151, 152, 153}) \o FromLinkLocal \o hopLimit(1)
<1>1. beforeICMPv6Rules = <<Accept(a), Accept(b), Accept(c), Accept(d)>>
  BY DEF beforeICMPv6Rules
<1>2. /\ Meets(a, p) \/ Meets(b, p) \/ Meets(c, p) \/ Meets(d, p) => F!Control(p)
      /\ p.v6 /\ F!Control(p) /\ ~Meets(a, p) /\ ~Meets(b, p) /\ ~Meets(c, p) /\ ~Meets(d, p)
                  => p.icmp \in {129} \cup 144 .. 147
  BY NeighbourTests, Zenon
<1> HIDE DEF a, b, c, d
<1>3. PICK l : l = <<Accept(a), Accept(b), Accept(c), Accept(d)>>
  OBVIOUS
<1>4. IsSeq(l) /\ Range(l) = {Accept(a), Accept(b), Accept(c), Accept(d)}
  BY <1>3, Four DEF Range
<1>5. ASSUME Stage(s, p, 9), F!Control(p) PROVE F!Verdicts(s, p) = {"accept"}
  BY <1>5, StageVerdicts, StageSteps
<1>6. ASSUME Stage(s, p, 9) PROVE \A r \in Range(l) : Sound(s, p, r)
  BY <1>2, <1>4, <1>5, <1>6, Accepting
<1>7. ASSUME Stage(s, p, 9), \A r \in Range(l) : ~Settles(C, r, p) PROVE Stage(s, p, 10)
  <2>1. ~Meets(a, p) /\ ~Meets(b, p) /\ ~Meets(c, p) /\ ~Meets(d, p)
    BY <1>4, <1>7, Accepting
  <2> QED BY <1>2, <1>7, <2>1, StageSteps
<1> QED BY <1>1, <1>3, <1>4, <1>6, <1>7, GoodChunk

(* The chains that decide the packets sent to them.                        *)
LEMMA InnerParts ==
    ASSUME NEW p
    PROVE  /\ \A n \in Inner(p) : n[1] \in {"user-limit", "user-limit-accept", "skip-to-policy", "not-local"}
           /\ <<"not-local", "">> \in Inner(p) <=> F!Foreign(p)
           /\ <<"user-limit", "">> \in Inner(p) /\ <<"user-limit-accept", "">> \in Inner(p)
           /\ \A h \in Hook : <<"skip-to-policy", h>> \in Inner(p)
<1>1. \A n \in {"skip-to-policy"} \X Hook : n[1] = "skip-to-policy"
  OBVIOUS
<1>2. <<"not-local", "">> \notin {"skip-to-policy"} \X Hook
  <2>1. "not-local" # "skip-to-policy"
    OBVIOUS
  <2> QED BY <1>1, <2>1
<1>3. <<"user-limit", "">>[1] = "user-limit" /\ <<"user-limit-accept", "">>[1] = "user-limit-accept"
      /\ <<"not-local", "">>[1] = "not-local"
  OBVIOUS
<1>4. PICK S : S = {"skip-to-policy"} \X Hook
  OBVIOUS
<1>5. PICK u, w, n : u = <<"user-limit", "">> /\ w = <<"user-limit-accept", "">> /\ n = <<"not-local", "">>
                     /\ u[1] = "user-limit" /\ w[1] = "user-limit-accept" /\ n[1] = "not-local" 
  BY <1>3
<1>6. Inner(p) = {u, w} \cup S \cup IF F!Foreign(p) THEN {n} ELSE {}
  BY <1>4, <1>5 DEF Inner
<1>7. \A x \in S : x[1] = "skip-to-policy"
  BY <1>1, <1>4
<1>8. \A h \in Hook : <<"skip-to-policy", h>> \in S
  BY <1>4
<1>9. n \notin S /\ n # u /\ n # w
  BY <1>5, <1>7
<1> QED BY <1>5, <1>6, <1>7, <1>8, <1>9

(* Two chains that decide no packet.                                       *)
LEMMA NotInner ==
    ASSUME NEW p
    PROVE  <<"logging-deny", "">> \notin Inner(p) /\ <<"user-egress", "">> \notin Inner(p)
<1>1. <<"logging-deny", "">>[1] = "logging-deny" /\ <<"user-egress", "">>[1] = "user-egress"
  OBVIOUS
<1>2. \A n \in Inner(p) : n[1] # "logging-deny" /\ n[1] # "user-egress"
  BY InnerParts
<1> QED BY <1>1, <1>2

(* The prefix of the input and forward chains, and that of output.         *)
LEMMA HeaderRule ==
    ASSUME NEW C, NEW s, NEW p \in Packet
    PROVE  Good(C, s, p, <<RoutingHeader>>, 2, 3)
<1>1. p.v6 \in BOOLEAN /\ p.rh0 \in BOOLEAN
  BY Header
<1>2. PICK a, b : a = nfproto(TRUE) /\ b = rhType
  OBVIOUS
<1>3. IsSeq(a) /\ IsSeq(b) /\ (Meets(a, p) <=> p.v6) /\ (Meets(b, p) <=> p.rh0)
  <2>1. (Meets(a, p) <=> p.v6 = TRUE) /\ (Meets(b, p) <=> p.rh0 = TRUE)
    BY <1>2, FieldTests
  <2>2. (p.v6 = TRUE <=> p.v6) /\ (p.rh0 = TRUE <=> p.rh0)
    BY <1>1, IsTrue
  <2>3. IsSeq(a) /\ IsSeq(b)
    BY <1>2, FieldTests
  <2> QED BY <2>1, <2>2, <2>3
<1>4. Meets(a \o b, p) <=> p.v6 /\ p.rh0
  BY <1>3, TestCat
<1>5. Stage(s, p, 2) /\ Meets(a \o b, p) => F!Verdicts(s, p) = {"drop"}
  BY <1>4, StageVerdicts
<1>6. Stage(s, p, 2) /\ ~Meets(a \o b, p) => Stage(s, p, 3)
  BY <1>4, StageSteps
<1>7. Good(C, s, p, <<Drop(a \o b)>>, 2, 3)
  BY <1>5, <1>6, DropOne
<1> QED BY <1>2, <1>7 DEF RoutingHeader

(* The fast path of established flows.                                     *)
LEMMA FlowRule ==
    ASSUME NEW C, NEW s, NEW p
    PROVE  Good(C, s, p, <<Established>>, 5, 6)
<1>1. PICK on : on = ctState({"established", "related"})
  OBVIOUS
<1>2. Meets(on, p) <=> p.ct \in {"established", "related"}
  BY <1>1, FieldTests
<1>3. Stage(s, p, 5) /\ Meets(on, p) => F!Verdicts(s, p) = {"accept"}
  BY <1>2, StageVerdicts
<1>4. Stage(s, p, 5) /\ ~Meets(on, p) => Stage(s, p, 6)
  BY <1>2, StageSteps
<1> QED BY <1>1, <1>3, <1>4, AcceptOne DEF Established

(* The bans of each family.                                                *)
LEMMA BanRule ==
    ASSUME NEW C, NEW s, IsState(s), TopHoldsTop(LiveBans(s)), NEW p \in Packet, p.hook \in {"input", "forward"}
    PROVE  /\ Good(C, s, p, <<ThreatBan(s, FALSE)>>, 3, 4)
           /\ Good(C, s, p, <<ThreatBan(s, TRUE)>>, 4, 5)
<1>1. p.v6 \in BOOLEAN /\ (p.v6 = TRUE <=> p.v6) /\ (p.v6 = FALSE <=> ~p.v6)
  <2>1. p.v6 \in BOOLEAN
    BY Header
  <2> QED BY <2>1, IsTrue
<1>2. F!Banned(s, p) <=> p.saddr \in BannedAddresses(s, p.v6)
  BY BannedExactly
<1>3. ASSUME NEW v6 \in BOOLEAN
      PROVE  \E on : ThreatBan(s, v6) = Drop(on) /\ (Meets(on, p) <=> p.v6 = v6 /\ F!Banned(s, p))
  <2>1. PICK a, b : a = nfproto(v6) /\ b = << <<"saddr", BannedAddresses(s, v6)>> >>
    OBVIOUS
  <2>2. IsSeq(a) /\ IsSeq(b) /\ (Meets(a, p) <=> p.v6 = v6) /\ (Meets(b, p) <=> p.saddr \in BannedAddresses(s, v6))
    BY <2>1, FieldTests
  <2>3. Meets(a \o b, p) <=> p.v6 = v6 /\ p.saddr \in BannedAddresses(s, v6)
    BY <2>2, TestCat
  <2>4. ThreatBan(s, v6) = Drop(a \o b)
    BY <2>1 DEF ThreatBan
  <2> QED BY <1>2, <2>3, <2>4
<1>4. PICK on : ThreatBan(s, FALSE) = Drop(on) /\ (Meets(on, p) <=> p.v6 = FALSE /\ F!Banned(s, p))
  BY <1>3
<1>5. PICK onn : ThreatBan(s, TRUE) = Drop(onn) /\ (Meets(onn, p) <=> p.v6 = TRUE /\ F!Banned(s, p))
  BY <1>3
<1>6. \A k \in {3, 4} : Stage(s, p, k) => Stage(s, p, 2)
  BY StageSteps
<1>7. Good(C, s, p, <<Drop(on)>>, 3, 4)
  <2>1. Stage(s, p, 3) /\ Meets(on, p) => F!Verdicts(s, p) = {"drop"}
    BY <1>4, <1>6, StageVerdicts
  <2>2. Stage(s, p, 3) /\ ~Meets(on, p) => Stage(s, p, 4)
    BY <1>1, <1>4, StageSteps
  <2> QED BY <2>1, <2>2, DropOne
<1>8. Good(C, s, p, <<Drop(onn)>>, 4, 5)
  <2>1. Stage(s, p, 4) /\ Meets(onn, p) => F!Verdicts(s, p) = {"drop"}
    BY <1>5, <1>6, StageVerdicts
  <2>2. Stage(s, p, 4) /\ ~Meets(onn, p) => Stage(s, p, 5)
    <3>1. Stage(s, p, 4) /\ F!Banned(s, p) => p.v6
      BY StageSteps
    <3> QED BY <1>1, <1>5, <3>1, StageSteps
  <2> QED BY <2>1, <2>2, DropOne
<1> QED BY <1>4, <1>5, <1>7, <1>8

(* The prefix of the input and forward chains.                             *)
LEMMA PrefixRules ==
    ASSUME NEW C, NEW s, IsState(s), TopHoldsTop(LiveBans(s)), NEW p \in Packet, p.hook \in {"input", "forward"}
    PROVE  Good(C, s, p, BeforePrefix(s, p.hook), 2, 6)
<1>1. PICK a, b, c, d : a = RoutingHeader /\ b = ThreatBan(s, FALSE) /\ c = ThreatBan(s, TRUE) /\ d = Established
  OBVIOUS
<1>2. Good(C, s, p, <<a>>, 2, 3) /\ Good(C, s, p, <<b>>, 3, 4) /\ Good(C, s, p, <<c>>, 4, 5) /\ Good(C, s, p, <<d>>, 5, 6)
  BY <1>1, HeaderRule, BanRule, FlowRule
<1>3. Good(C, s, p, <<a, b, c, d>>, 2, 6)
  BY <1>2, GoodFour
<1> QED BY <1>1, <1>3 DEF BeforePrefix

(* The loopback rule.                                                      *)
LEMMA LoopRule ==
    ASSUME NEW C, NEW s, NEW p, NEW on,
           (p.hook = "input" /\ on = iif({"lo"})) \/ (p.hook = "output" /\ on = oif({"lo"}))
    PROVE  Good(C, s, p, <<Accept(on)>>, 1, 2)
<1>1. (Meets(on, p)) <=> F!Loopback(p)
  <2>1. Meets(iif({"lo"}), p) <=> p.in \in {"lo"}
    BY FieldTests
  <2>2. Meets(oif({"lo"}), p) <=> p.out \in {"lo"}
    BY FieldTests
  <2> QED BY <2>1, <2>2 DEF F!Loopback
<1>2. Stage(s, p, 1) /\ Meets(on, p) => F!Verdicts(s, p) = {"accept"}
  <2>1. Stage(s, p, 1) => Stage(s, p, 0)
    BY StageSteps
  <2> QED BY <1>1, <2>1, StageVerdicts
<1>3. Stage(s, p, 1) /\ ~Meets(on, p) => Stage(s, p, 2)
  BY <1>1, StageSteps
<1>4. QED BY <1>2, <1>3, AcceptOne

(* ICMP, each kind where its chain accepts it.                             *)
LEMMA ICMPRules ==
    ASSUME NEW C, NEW s, NEW p \in Packet
    PROVE  /\ p.hook # "output" => Good(C, s, p, <<ICMPv4>>, 8, 9)
           /\ p.hook = "input" => Good(C, s, p, <<EchoReply6>>, 6, 7)
           /\ p.hook = "output" => Good(C, s, p, <<EchoReply6>>, 10, 11)
           /\ p.hook = "forward" => Good(C, s, p, <<Accept(ICMPv6({1, 2, 3, 4, 128, 129}))>>, 9, 11)
           /\ p.hook = "input" => Good(C, s, p, <<Accept(ICMPv6({144, 145, 146, 147}))>>, 10, 11)
<1>1. \A T : Meets(ICMPv6(T), p) <=> p.v6 /\ p.proto = "icmpv6" /\ p.icmp \in T
  BY ICMPTests, Zenon
<1>2. Meets(nfproto(FALSE) \o l4proto({"icmp"}) \o icmpType({3, 11, 12, 8}), p) <=> ~p.v6 /\ p.proto = "icmp" /\ p.icmp \in {3, 11, 12, 8}
  BY ICMPTests, Zenon
<1>3. p.icmp \in Int
  BY Header
<1>4. \A k \in {8, 9, 10} : Stage(s, p, k) => Stage(s, p, 8)
  BY StageSteps
<1>5. \A k \in {8, 9, 10} : Stage(s, p, k) /\ F!Control(p) => F!Verdicts(s, p) = {"accept"}
  BY <1>4, StageVerdicts
<1>6. ASSUME p.hook # "output" PROVE Good(C, s, p, <<ICMPv4>>, 8, 9)
  <2>1. PICK on : on = nfproto(FALSE) \o l4proto({"icmp"}) \o icmpType({3, 11, 12, 8})
    OBVIOUS
  <2>2. Meets(on, p) <=> F!Control(p) /\ ~p.v6
    BY <1>2, <1>6, <2>1 DEF F!Control
  <2>3. Stage(s, p, 8) /\ Meets(on, p) => F!Verdicts(s, p) = {"accept"}
    BY <1>5, <2>2
  <2>4. Stage(s, p, 8) /\ ~Meets(on, p) => Stage(s, p, 9)
    BY <2>2, StageSteps
  <2> QED BY <2>1, <2>3, <2>4, AcceptOne DEF ICMPv4
<1>7. ASSUME p.hook = "input" PROVE Good(C, s, p, <<EchoReply6>>, 6, 7)
  <2>1. PICK on : on = ICMPv6({129})
    OBVIOUS
  <2>2. Meets(on, p) <=> p.v6 /\ p.proto = "icmpv6" /\ p.icmp = 129
    BY <1>1, <2>1
  <2>3. Stage(s, p, 6) /\ Meets(on, p) => F!Verdicts(s, p) = {"accept"}
    BY <1>7, <2>2, StageVerdicts
  <2>4. Stage(s, p, 6) /\ ~Meets(on, p) => Stage(s, p, 7)
    BY <2>2, StageSteps
  <2> QED BY <2>1, <2>3, <2>4, AcceptOne DEF EchoReply6
<1>8. ASSUME p.hook = "output" PROVE Good(C, s, p, <<EchoReply6>>, 10, 11)
  <2>1. PICK on : on = ICMPv6({129})
    OBVIOUS
  <2>2. Meets(on, p) <=> p.v6 /\ p.proto = "icmpv6" /\ p.icmp = 129
    BY <1>1, <2>1
  <2>3. Meets(on, p) => F!Control(p)
    BY <1>8, <2>2 DEF F!Control
  <2>4. Stage(s, p, 10) /\ F!Control(p) => Meets(on, p)
    <3>1. Stage(s, p, 10) /\ F!Control(p) => p.icmp \in {129} \cup 144 .. 147 /\ p.v6
      BY StageSteps
    <3>2. F!Control(p) /\ p.v6 /\ p.icmp \in {129} \cup 144 .. 147 => p.icmp = 129 /\ p.proto = "icmpv6"
      BY <1>3, <1>8 DEF F!Control
    <3> QED BY <2>2, <3>1, <3>2
  <2>5. Stage(s, p, 10) /\ Meets(on, p) => F!Verdicts(s, p) = {"accept"}
    BY <1>5, <2>3
  <2>6. Stage(s, p, 10) /\ ~Meets(on, p) => Stage(s, p, 11)
    BY <2>4, StageSteps
  <2> QED BY <2>1, <2>5, <2>6, AcceptOne DEF EchoReply6
<1>9. ASSUME p.hook = "forward" PROVE Good(C, s, p, <<Accept(ICMPv6({1, 2, 3, 4, 128, 129}))>>, 9, 11)
  <2>1. PICK on : on = ICMPv6({1, 2, 3, 4, 128, 129})
    OBVIOUS
  <2>2. Meets(on, p) <=> F!Control(p) /\ p.v6
    BY <1>1, <1>3, <1>9, <2>1 DEF F!Control
  <2>3. Stage(s, p, 9) /\ Meets(on, p) => F!Verdicts(s, p) = {"accept"}
    BY <1>5, <2>2
  <2>4. Stage(s, p, 9) /\ ~Meets(on, p) => Stage(s, p, 11)
    BY <2>2, StageSteps
  <2> QED BY <2>1, <2>3, <2>4, AcceptOne
<1>10. ASSUME p.hook = "input" PROVE Good(C, s, p, <<Accept(ICMPv6({144, 145, 146, 147}))>>, 10, 11)
  <2>1. PICK on : on = ICMPv6({144, 145, 146, 147})
    OBVIOUS
  <2>2. Meets(on, p) => F!Control(p)
    BY <1>1, <1>10, <2>1 DEF F!Control
  <2>3. Stage(s, p, 10) /\ F!Control(p) => Meets(on, p)
    <3>1. Stage(s, p, 10) /\ F!Control(p) => p.icmp \in {129} \cup 144 .. 147 /\ p.v6
      BY StageSteps
    <3>2. F!Control(p) /\ p.v6 /\ p.icmp \in {129} \cup 144 .. 147 => p.icmp \in 144 .. 147 /\ p.proto = "icmpv6"
      BY <1>3, <1>10 DEF F!Control
    <3>3. 144 .. 147 = {144, 145, 146, 147}
      OBVIOUS
    <3> QED BY <1>1, <2>1, <3>1, <3>2, <3>3
  <2>4. Stage(s, p, 10) /\ Meets(on, p) => F!Verdicts(s, p) = {"accept"}
    BY <1>5, <2>2
  <2>5. Stage(s, p, 10) /\ ~Meets(on, p) => Stage(s, p, 11)
    BY <2>3, StageSteps
  <2> QED BY <2>1, <2>4, <2>5, AcceptOne
<1> QED BY <1>6, <1>7, <1>8, <1>9, <1>10

(* Only input has more decisions than these.                               *)
LEMMA OtherStages ==
    ASSUME NEW s, NEW p, p.hook # "input"
    PROVE  /\ Stage(s, p, 6) => Stage(s, p, 8)
           /\ Stage(s, p, 11) => Stage(s, p, 18)
           /\ p.hook = "output" => /\ Stage(s, p, 3) => Stage(s, p, 5)
                                   /\ Stage(s, p, 8) /\ ~p.v6 => Stage(s, p, 9)
           /\ p.hook = "forward" => (Stage(s, p, 1) => Stage(s, p, 2))
<1>1. ~F!DHCPAnswer(p) /\ ~F!Foreign(p) /\ ~F!Announcement(p)
      /\ ~Multicast(p, Mdns, 5353) /\ ~Multicast(p, Upnp, 1900)
  BY DEF F!DHCPAnswer, F!Foreign, F!Announcement, Multicast
<1>2. Stage(s, p, 11) => Stage(s, p, 14)
  BY <1>1, StageSteps
<1>3. Stage(s, p, 14) => Stage(s, p, 18)
  BY <1>1, StageSteps
<1>4. Stage(s, p, 6) => Stage(s, p, 8)
  BY StageSteps
<1>5. ASSUME p.hook = "output"
      PROVE  ~F!Banned(s, p) /\ (F!Control(p) => p.v6)
  BY <1>5 DEF F!Banned, F!Control
<1>6. p.hook = "forward" => ~F!Loopback(p)
  BY DEF F!Loopback
<1> QED BY <1>2, <1>3, <1>4, <1>5, <1>6, StageSteps

(* Four tests.                                                             *)
LEMMA TestFour ==
    ASSUME NEW a, NEW b, NEW c, NEW d, NEW p, IsSeq(a), IsSeq(b), IsSeq(c), IsSeq(d)
    PROVE  /\ IsSeq(a \o b \o c \o d)
           /\ Meets(a \o b \o c \o d, p) <=> Meets(a, p) /\ Meets(b, p) /\ Meets(c, p) /\ Meets(d, p)
<1>1. PICK e : e = a \o b \o c
  OBVIOUS
<1>2. IsSeq(e) /\ (Meets(e, p) <=> Meets(a, p) /\ Meets(b, p) /\ Meets(c, p))
  BY <1>1, TestThree
<1>3. IsSeq(e \o d) /\ (Meets(e \o d, p) <=> Meets(e, p) /\ Meets(d, p))
  BY <1>2, TestCat
<1> QED BY <1>1, <1>2, <1>3

(* The tests of datagrams.                                                 *)
LEMMA UDPTests ==
    ASSUME NEW p, NEW from, NEW to
    PROVE  LET on == l4proto({"udp"}) \o sport({from}) \o dport({to})
           IN  IsSeq(on) /\ (Meets(on, p) <=> p.proto = "udp" /\ p.sport = from /\ p.dport = to)
<1>1. PICK a, b, c : a = l4proto({"udp"}) /\ b = sport({from}) /\ c = dport({to})
  OBVIOUS
<1>2. IsSeq(a) /\ IsSeq(b) /\ IsSeq(c)
  BY <1>1, FieldTests
<1>3. (Meets(a, p) <=> p.proto = "udp") /\ (Meets(b, p) <=> p.sport = from) /\ (Meets(c, p) <=> p.dport = to)
  <2>1. Meets(a, p) <=> p.proto \in {"udp"}
    BY <1>1, FieldTests
  <2>2. Meets(b, p) <=> p.sport \in {from}
    BY <1>1, FieldTests
  <2>3. Meets(c, p) <=> p.dport \in {to}
    BY <1>1, FieldTests
  <2> QED BY <2>1, <2>2, <2>3
<1>4. IsSeq(a \o b \o c) /\ (Meets(a \o b \o c, p) <=> Meets(a, p) /\ Meets(b, p) /\ Meets(c, p))
  BY <1>2, TestThree
<1> QED BY <1>1, <1>3, <1>4

(* The answers of DHCP servers.                                            *)
LEMMA DHCPRules ==
    ASSUME NEW C, NEW s, NEW p \in Packet, p.hook = "input"
    PROVE  Good(C, s, p, DHCPClient, 11, 13)
<1> DEFINE UDP(from, to) == l4proto({"udp"}) \o sport({from}) \o dport({to})
           on4 == nfproto(FALSE) \o UDP(67, 68)
           on6 == nfproto(TRUE) \o UDP(547, 546) \o FromLinkLocal \o << <<"daddr", LinkLocal>> >>
<1>1. DHCPClient = <<Accept(on4), Accept(on6)>>
  BY Zenon DEF DHCPClient
<1>2. \A from, to : IsSeq(UDP(from, to))
                    /\ (Meets(UDP(from, to), p) <=> p.proto = "udp" /\ p.sport = from /\ p.dport = to)
  BY UDPTests, Zenon
<1>3. (p.v6 = TRUE <=> p.v6) /\ (p.v6 = FALSE <=> ~p.v6)
  BY Header, IsTrue
<1> HIDE DEF UDP
<1>14. p.hook = "input"
  OBVIOUS
<1>4. Meets(on4, p) <=> ~p.v6 /\ F!DHCPAnswer(p)
  <2>1. PICK a, b : a = nfproto(FALSE) /\ b = UDP(67, 68)
    OBVIOUS
  <2>2. IsSeq(a) /\ IsSeq(b) /\ (Meets(a, p) <=> ~p.v6) /\ (Meets(b, p) <=> p.proto = "udp" /\ p.sport = 67 /\ p.dport = 68)
    <3>1. IsSeq(a) /\ (Meets(a, p) <=> p.v6 = FALSE)
      BY <2>1, FieldTests
    <3>2. IsSeq(b) /\ (Meets(b, p) <=> p.proto = "udp" /\ p.sport = 67 /\ p.dport = 68)
      BY ONLY <1>2, <2>1
    <3> QED BY <1>3, <3>1, <3>2
  <2>3. Meets(a \o b, p) <=> Meets(a, p) /\ Meets(b, p)
    BY <2>2, TestCat
  <2>4. Meets(on4, p) <=> ~p.v6 /\ p.proto = "udp" /\ p.sport = 67 /\ p.dport = 68
    BY <2>1, <2>2, <2>3
  <2> QED BY <2>4 DEF F!DHCPAnswer
<1>5. Meets(on6, p) <=> p.v6 /\ F!DHCPAnswer(p)
  <2>1. PICK a, b, c, d : a = nfproto(TRUE) /\ b = UDP(547, 546) /\ c = FromLinkLocal /\ d = << <<"daddr", LinkLocal>> >>
    OBVIOUS
  <2>2. /\ IsSeq(a) /\ (Meets(a, p) <=> p.v6)
        /\ IsSeq(b) /\ (Meets(b, p) <=> p.proto = "udp" /\ p.sport = 547 /\ p.dport = 546)
        /\ IsSeq(c) /\ (Meets(c, p) <=> p.saddr \in LinkLocal)
        /\ IsSeq(d) /\ (Meets(d, p) <=> p.daddr \in LinkLocal)
    <3>1. IsSeq(a) /\ (Meets(a, p) <=> p.v6 = TRUE)
      BY <2>1, FieldTests
    <3>2. IsSeq(b) /\ (Meets(b, p) <=> p.proto = "udp" /\ p.sport = 547 /\ p.dport = 546)
      BY ONLY <1>2, <2>1
    <3>3. IsSeq(FromLinkLocal) /\ (Meets(FromLinkLocal, p) <=> p.saddr \in LinkLocal)
      BY ICMPTests, Zenon
    <3>4. IsSeq(d) /\ (Meets(d, p) <=> p.daddr \in LinkLocal)
      BY <2>1, FieldTests
    <3> QED BY <1>3, <2>1, <3>1, <3>2, <3>3, <3>4
  <2>4. Meets(a \o b \o c \o d, p) <=> Meets(a, p) /\ Meets(b, p) /\ Meets(c, p) /\ Meets(d, p)
    BY <2>2, TestFour
  <2>5. on6 = a \o b \o c \o d
    BY <2>1
  <2>6. PICK e : e = a \o b \o c \o d
    OBVIOUS
  <2>7. Meets(e, p) <=> p.v6 /\ p.proto = "udp" /\ p.sport = 547 /\ p.dport = 546
                        /\ p.saddr \in LinkLocal /\ p.daddr \in LinkLocal
    BY ONLY <2>2, <2>4, <2>6
  <2>8. Meets(e, p) <=> p.v6 /\ F!DHCPAnswer(p)
    BY ONLY <1>14, <2>7 DEF F!DHCPAnswer
  <2> QED BY ONLY <2>5, <2>6, <2>8
<1> HIDE DEF on4, on6
<1>6. \A k \in {11, 12} : Stage(s, p, k) => Stage(s, p, 8)
  BY StageSteps
<1>7. \A k \in {11, 12} : Stage(s, p, k) /\ F!DHCPAnswer(p) => F!Verdicts(s, p) = {"accept"}
  BY <1>6, StageVerdicts
<1>8. Good(C, s, p, <<Accept(on4)>>, 11, 12)
  <2>1. Stage(s, p, 11) /\ Meets(on4, p) => F!Verdicts(s, p) = {"accept"}
    BY <1>4, <1>7
  <2>2. Stage(s, p, 11) /\ ~Meets(on4, p) => Stage(s, p, 12)
    BY <1>4, StageSteps
  <2> QED BY <2>1, <2>2, AcceptOne
<1>9. Good(C, s, p, <<Accept(on6)>>, 12, 13)
  <2>1. Stage(s, p, 12) /\ Meets(on6, p) => F!Verdicts(s, p) = {"accept"}
    BY <1>5, <1>7
  <2>2. Stage(s, p, 12) /\ ~Meets(on6, p) => Stage(s, p, 13)
    BY <1>5, StageSteps
  <2> QED BY <2>1, <2>2, AcceptOne
<1>10. PICK x, y : x = Accept(on4) /\ y = Accept(on6)
  OBVIOUS
<1>11. Good(C, s, p, <<x, y>>, 11, 13)
  BY <1>8, <1>9, <1>10, GoodTwo
<1> QED BY <1>1, <1>10, <1>11

(* The service discovery groups.                                           *)
LEMMA DiscoveryRule ==
    ASSUME NEW p \in Packet, p.hook = "input", NEW v6 \in BOOLEAN, NEW group, NEW n
    PROVE  \E on : Discovery(v6, group, n) = Accept(on)
                   /\ (Meets(on, p) <=> p.v6 = v6 /\ Multicast(p, group, n))
<1>1. PICK a, b, c, d : a = nfproto(v6) /\ b = l4proto({"udp"}) /\ c = << <<"daddr", {group[v6]}>> >> /\ d = dport({n})
  OBVIOUS
<1>2. IsSeq(a) /\ IsSeq(b) /\ IsSeq(c) /\ IsSeq(d)
  BY <1>1, FieldTests
<1>3. /\ Meets(a, p) <=> p.v6 = v6
      /\ Meets(b, p) <=> p.proto = "udp"
      /\ Meets(c, p) <=> p.daddr = group[v6]
      /\ Meets(d, p) <=> p.dport = n
  <2>1. Meets(a, p) <=> p.v6 = v6
    BY <1>1, FieldTests
  <2>2. Meets(b, p) <=> p.proto \in {"udp"}
    BY <1>1, FieldTests
  <2>3. Meets(c, p) <=> p.daddr \in {group[v6]}
    BY <1>1, FieldTests
  <2>4. Meets(d, p) <=> p.dport \in {n}
    BY <1>1, FieldTests
  <2> QED BY <2>1, <2>2, <2>3, <2>4
<1>4. PICK on : on = a \o b \o c \o d
  OBVIOUS
<1>5. Meets(on, p) <=> Meets(a, p) /\ Meets(b, p) /\ Meets(c, p) /\ Meets(d, p)
  BY <1>2, <1>4, TestFour
<1>6. Meets(on, p) <=> p.v6 = v6 /\ Multicast(p, group, n)
  BY <1>3, <1>5 DEF Multicast
<1>7. Discovery(v6, group, n) = Accept(on)
  BY <1>1, <1>4 DEF Discovery
<1> QED BY <1>6, <1>7

mdns4 == Discovery(FALSE, Mdns, 5353)
mdns6 == Discovery(TRUE, Mdns, 5353)
upnp4 == Discovery(FALSE, Upnp, 1900)
upnp6 == Discovery(TRUE, Upnp, 1900)

(* The service discovery rules, in their order.                            *)
LEMMA DiscoveryRules ==
    ASSUME NEW C, NEW s, NEW p \in Packet, p.hook = "input"
    PROVE  /\ Good(C, s, p, <<mdns4>>, 14, 15) /\ Good(C, s, p, <<mdns6>>, 15, 16)
           /\ Good(C, s, p, <<upnp4>>, 16, 17) /\ Good(C, s, p, <<upnp6>>, 17, 18)
<1>1. (p.v6 = TRUE <=> p.v6) /\ (p.v6 = FALSE <=> ~p.v6)
  BY Header, IsTrue
<1>0. p \in Packet /\ p.hook = "input" /\ FALSE \in BOOLEAN /\ TRUE \in BOOLEAN
  OBVIOUS
<1>11. PICK x : x = 5353
  OBVIOUS
<1>12. PICK y : y = 1900
  OBVIOUS
<1>2. F!Announcement(p) <=> Multicast(p, Mdns, x) \/ Multicast(p, Upnp, y)
  BY <1>11, <1>12 DEF F!Announcement, Multicast
<1>3. \A k \in {14, 15, 16, 17} : Stage(s, p, k) => Stage(s, p, 14)
  BY StageSteps
<1>4. \A k \in {14, 15, 16, 17} : Stage(s, p, k) /\ F!Announcement(p) => F!Verdicts(s, p) = {"accept"}
  BY <1>3, StageVerdicts
<1>5. PICK M, U : (M <=> Multicast(p, Mdns, x)) /\ (U <=> Multicast(p, Upnp, y))
  OBVIOUS
<1>6. /\ Stage(s, p, 15) <=> Stage(s, p, 14) /\ (~M \/ p.v6)
      /\ Stage(s, p, 16) <=> Stage(s, p, 15) /\ ~M
      /\ Stage(s, p, 17) <=> Stage(s, p, 16) /\ (~U \/ p.v6)
      /\ Stage(s, p, 18) <=> Stage(s, p, 17) /\ ~F!Announcement(p)
  BY <1>5, <1>11, <1>12, StageSteps
<1>7. Good(C, s, p, <<Discovery(FALSE, Mdns, x)>>, 14, 15)
  <2>1. PICK on : Discovery(FALSE, Mdns, x) = Accept(on)
                  /\ (Meets(on, p) <=> p.v6 = FALSE /\ Multicast(p, Mdns, x))
    BY <1>0, DiscoveryRule, Zenon
  <2>2. Meets(on, p) <=> ~p.v6 /\ M
    BY <1>1, <1>5, <2>1
  <2>3. Stage(s, p, 14) /\ Meets(on, p) => F!Verdicts(s, p) = {"accept"}
    BY <1>2, <1>4, <1>5, <2>2
  <2>4. Stage(s, p, 14) /\ ~Meets(on, p) => Stage(s, p, 15)
    BY <1>2, <1>5, <1>6, <2>2
  <2>5. Good(C, s, p, <<Accept(on)>>, 14, 15)
    BY <2>3, <2>4, AcceptOne
  <2> QED BY <2>1, <2>5
<1>8. Good(C, s, p, <<Discovery(TRUE, Mdns, x)>>, 15, 16)
  <2>1. PICK on : Discovery(TRUE, Mdns, x) = Accept(on)
                  /\ (Meets(on, p) <=> p.v6 = TRUE /\ Multicast(p, Mdns, x))
    BY <1>0, DiscoveryRule, Zenon
  <2>2. Meets(on, p) <=> p.v6 /\ M
    BY <1>1, <1>5, <2>1
  <2>3. Stage(s, p, 15) /\ Meets(on, p) => F!Verdicts(s, p) = {"accept"}
    BY <1>2, <1>4, <1>5, <2>2
  <2>4. Stage(s, p, 15) /\ ~Meets(on, p) => Stage(s, p, 16)
    BY <1>2, <1>5, <1>6, <2>2
  <2>5. Good(C, s, p, <<Accept(on)>>, 15, 16)
    BY <2>3, <2>4, AcceptOne
  <2> QED BY <2>1, <2>5
<1>9. Good(C, s, p, <<Discovery(FALSE, Upnp, y)>>, 16, 17)
  <2>1. PICK on : Discovery(FALSE, Upnp, y) = Accept(on)
                  /\ (Meets(on, p) <=> p.v6 = FALSE /\ Multicast(p, Upnp, y))
    BY <1>0, DiscoveryRule, Zenon
  <2>2. Meets(on, p) <=> ~p.v6 /\ U
    BY <1>1, <1>5, <2>1
  <2>3. Stage(s, p, 16) /\ Meets(on, p) => F!Verdicts(s, p) = {"accept"}
    BY <1>2, <1>4, <1>5, <2>2
  <2>4. Stage(s, p, 16) /\ ~Meets(on, p) => Stage(s, p, 17)
    BY <1>2, <1>5, <1>6, <2>2
  <2>5. Good(C, s, p, <<Accept(on)>>, 16, 17)
    BY <2>3, <2>4, AcceptOne
  <2> QED BY <2>1, <2>5
<1>10. Good(C, s, p, <<Discovery(TRUE, Upnp, y)>>, 17, 18)
  <2>1. PICK on : Discovery(TRUE, Upnp, y) = Accept(on)
                  /\ (Meets(on, p) <=> p.v6 = TRUE /\ Multicast(p, Upnp, y))
    BY <1>0, DiscoveryRule, Zenon
  <2>2. Meets(on, p) <=> p.v6 /\ U
    BY <1>1, <1>5, <2>1
  <2>3. Stage(s, p, 17) /\ Meets(on, p) => F!Verdicts(s, p) = {"accept"}
    BY <1>2, <1>4, <1>5, <2>2
  <2>4. Stage(s, p, 17) /\ ~Meets(on, p) => Stage(s, p, 18)
    BY <1>2, <1>5, <1>6, <2>2
  <2>5. Good(C, s, p, <<Accept(on)>>, 17, 18)
    BY <2>3, <2>4, AcceptOne
  <2> QED BY <2>1, <2>5
<1> QED BY <1>7, <1>8, <1>9, <1>10, <1>11, <1>12 DEF mdns4, mdns6, upnp4, upnp6

(* The rules of input for what conntrack cannot place, and the jump to     *)
(* bfw-not-local.                                                          *)
LEMMA InvalidRules ==
    ASSUME NEW s, NEW p \in Packet, p.hook = "input"
    PROVE  /\ Good(Inner(p), s, p, <<jump(ctState({"invalid"}), <<"logging-deny", "">>)>>, 7, 7)
           /\ Good(Inner(p), s, p, <<Drop(ctState({"invalid"}))>>, 7, 8)
<1>1. PICK on : on = ctState({"invalid"})
  OBVIOUS
<1>2. Meets(on, p) <=> p.ct = "invalid"
  <2>1. Meets(on, p) <=> p.ct \in {"invalid"}
    BY <1>1, FieldTests
  <2> QED BY <2>1
<1>3. Entry(s, p, <<"logging-deny", "">>)
  BY Header, Entries
<1>4. Good(Inner(p), s, p, <<jump(on, <<"logging-deny", "">>)>>, 7, 7)
  BY <1>3, JumpOne
<1>5. Good(Inner(p), s, p, <<Drop(on)>>, 7, 8)
  <2>1. Stage(s, p, 7) /\ Meets(on, p) => F!Verdicts(s, p) = {"drop"}
    BY <1>2, StageVerdicts
  <2>2. Stage(s, p, 7) /\ ~Meets(on, p) => Stage(s, p, 8)
    BY <1>2, StageSteps
  <2> QED BY <2>1, <2>2, DropOne
<1> QED BY <1>1, <1>4, <1>5

(* The jump to the chain of what is not for this host.                     *)
LEMMA NotLocalJump ==
    ASSUME NEW s, NEW p \in Packet, p.hook = "input"
    PROVE  Good(Inner(p), s, p, <<jump(nfproto(FALSE), <<"not-local", "">>)>>, 13, 14)
<1>0. <<"not-local", "">>[1] = "not-local"
  OBVIOUS
<1>1. PICK on, n : on = nfproto(FALSE) /\ n = <<"not-local", "">> /\ n[1] = "not-local"
  BY <1>0
<1>2. Meets(on, p) <=> ~p.v6
  <2>1. Meets(on, p) <=> p.v6 = FALSE
    BY <1>1, FieldTests
  <2> QED BY <2>1, Header, IsTrue
<1>3. Stage(s, p, 13) /\ ~p.v6 => Entry(s, p, n)
  BY <1>1, Header, Entries
<1>4. n \in Inner(p) <=> F!Foreign(p)
  BY <1>1, InnerParts
<1>5. F!Foreign(p) => ~p.v6
  BY DEF F!Foreign
<1>6. Stage(s, p, 13) /\ (Meets(on, p) => n \notin Inner(p)) => Stage(s, p, 14)
  BY <1>2, <1>4, <1>5, StageSteps
<1>7. Good(Inner(p), s, p, <<jump(on, n)>>, 13, 14)
  BY <1>2, <1>3, <1>6, JumpOne
<1> QED BY <1>1, <1>7

(* bfw-before-* decides what Firewall decides before the rules of the user.*)
LEMMA BeforeInput ==
    ASSUME NEW s, IsState(s), TopHoldsTop(LiveBans(s)), NEW p \in Packet, p.hook = "input"
    PROVE  Good(Inner(p), s, p, Before(s, "input"), 1, 18)
<1> DEFINE G(l, k, m) == Good(Inner(p), s, p, l, k, m)
<1>1. PICK a, b, c, d, e, f :
        /\ a = <<Accept(iif({"lo"}))>>
        /\ b = BeforePrefix(s, "input")
        /\ c = <<EchoReply6, jump(ctState({"invalid"}), <<"logging-deny", "">>), Drop(ctState({"invalid"})), ICMPv4>>
        /\ d = beforeICMPv6Rules
        /\ e = <<Accept(ICMPv6({144, 145, 146, 147}))>>
        /\ f = DHCPClient
  OBVIOUS
<1> DEFINE local == jump(nfproto(FALSE), <<"not-local", "">>)
           g == <<local, mdns4, mdns6, upnp4, upnp6>>
<1>2. Before(s, "input") = a \o b \o c \o d \o e \o f \o g
  <2>1. Before(s, "input") = <<Accept(iif({"lo"}))>> \o BeforePrefix(s, "input")
                         \o <<EchoReply6, jump(ctState({"invalid"}), <<"logging-deny", "">>),
                              Drop(ctState({"invalid"})), ICMPv4>>
                         \o beforeICMPv6Rules \o <<Accept(ICMPv6({144, 145, 146, 147}))>>
                         \o DHCPClient \o g
    <3>1. PICK h : h = "input"
      OBVIOUS
    <3>2. Before(s, h) = <<Accept(iif({"lo"}))>> \o BeforePrefix(s, h)
                         \o <<EchoReply6, jump(ctState({"invalid"}), <<"logging-deny", "">>),
                              Drop(ctState({"invalid"})), ICMPv4>>
                         \o beforeICMPv6Rules \o <<Accept(ICMPv6({144, 145, 146, 147}))>>
                         \o DHCPClient \o g
      BY <3>1 DEF Before, mdns4, mdns6, upnp4, upnp6
    <3> HIDE DEF g
    <3> QED BY <3>1, <3>2
  <2> HIDE DEF g
  <2> QED BY <1>1, <2>1
<1>3. \A l, q, k, n, m : G(l, k, n) /\ G(q, n, m) => G(l \o q, k, m)
  BY GoodCat
<1>4. G(a, 1, 2)
  BY <1>1, LoopRule
<1>5. G(b, 2, 6)
  BY <1>1, PrefixRules
<1>6. G(c, 6, 9)
  <2>1. PICK u, v, w, x : /\ u = EchoReply6 /\ v = jump(ctState({"invalid"}), <<"logging-deny", "">>)
                          /\ w = Drop(ctState({"invalid"})) /\ x = ICMPv4
    OBVIOUS
  <2>2. G(<<u>>, 6, 7) /\ G(<<v>>, 7, 7) /\ G(<<w>>, 7, 8) /\ G(<<x>>, 8, 9)
    BY <2>1, ICMPRules, InvalidRules
  <2>3. G(<<u, v, w, x>>, 6, 9)
    BY <2>2, GoodFour
  <2> QED BY <1>1, <2>1, <2>3
<1>7. G(d, 9, 10)
  BY <1>1, NeighbourRules
<1>8. G(e, 10, 11)
  BY <1>1, ICMPRules
<1>9. G(f, 11, 13)
  BY <1>1, DHCPRules
<1>10. G(g, 13, 18)
  <2>1. G(<<local>>, 13, 14)
    BY NotLocalJump, Zenon
  <2>2. G(<<mdns4>>, 14, 15) /\ G(<<mdns6>>, 15, 16) /\ G(<<upnp4>>, 16, 17) /\ G(<<upnp6>>, 17, 18)
    BY DiscoveryRules
  <2> HIDE DEF local
  <2> QED BY <2>1, <2>2, GoodFive
<1> HIDE DEF g
<1> HIDE DEF G
<1>11. G(a \o b, 1, 6)
  BY <1>3, <1>4, <1>5
<1>12. G(a \o b \o c, 1, 9)
  BY <1>3, <1>6, <1>11
<1>13. G(a \o b \o c \o d, 1, 10)
  BY <1>3, <1>7, <1>12
<1>14. G(a \o b \o c \o d \o e, 1, 11)
  BY <1>3, <1>8, <1>13
<1>15. G(a \o b \o c \o d \o e \o f, 1, 13)
  BY <1>3, <1>9, <1>14
<1>16. G(a \o b \o c \o d \o e \o f \o g, 1, 18)
  BY <1>3, <1>10, <1>15
<1> QED BY <1>2, <1>16 DEF G

(* The built-in rules of the output chain.                                 *)
LEMMA BeforeOutput ==
    ASSUME NEW s, NEW p \in Packet, p.hook = "output"
    PROVE  Good(Inner(p), s, p, Before(s, "output"), 1, 18)
<1> DEFINE G(l, k, m) == Good(Inner(p), s, p, l, k, m)
<1>1. PICK u, v, w, x, y : /\ u = Accept(oif({"lo"})) /\ v = RoutingHeader /\ w = Established
                           /\ x = EchoReply6 /\ y = jump(<<>>, <<"user-egress", "">>)
  OBVIOUS
<1>2. PICK b : b = beforeICMPv6Rules
  OBVIOUS
<1>3. Before(s, "output") = <<u, v, w>> \o b \o <<x, y>>
  <2>1. PICK h : h = "output"
    OBVIOUS
  <2>2. PICK a : a = <<Accept(oif({"lo"})), RoutingHeader, Established>>
    OBVIOUS
  <2>3. PICK c : c = <<EchoReply6, jump(<<>>, <<"user-egress", "">>)>>
    OBVIOUS
  <2>4. Before(s, h) = a \o beforeICMPv6Rules \o c
    BY <2>1, <2>2, <2>3 DEF Before
  <2>5. a = <<u, v, w>> /\ c = <<x, y>>
    BY <1>1, <2>2, <2>3
  <2> QED BY <1>2, <2>1, <2>4, <2>5
<1>4. G(<<u>>, 1, 2)
  BY <1>1, LoopRule
<1>5. G(<<v>>, 2, 3)
  BY <1>1, HeaderRule
<1>6. G(<<w>>, 3, 9)
  <2>1. G(<<w>>, 5, 6)
    BY <1>1, FlowRule
  <2>2. Stage(s, p, 3) => Stage(s, p, 5)
    BY OtherStages
  <2>3. G(<<w>>, 3, 6)
    BY <2>1, <2>2, GoodWeaken
  <2>4. Stage(s, p, 6) => Stage(s, p, 9)
    <3>1. Stage(s, p, 6) => Stage(s, p, 8)
      BY OtherStages
    <3>2. Stage(s, p, 8) /\ ~p.v6 => Stage(s, p, 9)
      BY OtherStages
    <3>3. Stage(s, p, 8) /\ p.v6 => Stage(s, p, 9)
      BY StageSteps
    <3> QED BY <3>1, <3>2, <3>3
  <2> QED BY <2>3, <2>4, GoodWeaken
<1>7. G(<<u, v, w>>, 1, 9)
  BY <1>4, <1>5, <1>6, GoodThree
<1>8. G(b, 9, 10)
  BY <1>2, NeighbourRules
<1>9. G(<<x>>, 10, 11)
  BY <1>1, ICMPRules
<1>10. G(<<y>>, 11, 18)
  <2>1. PICK n : n = <<"user-egress", "">>
    OBVIOUS
  <2>3. Entry(s, p, n)
    BY <2>1, Header, Entries
  <2>4. Stage(s, p, 11) => Stage(s, p, 18)
    BY OtherStages
  <2>5. G(<<jump(<<>>, n)>>, 11, 18)
    BY <2>3, <2>4, JumpOne
  <2> QED BY <1>1, <2>1, <2>5
<1>11. G(<<x, y>>, 10, 18)
  BY <1>9, <1>10, GoodTwo
<1>12. G(<<u, v, w>> \o b, 1, 10)
  BY <1>7, <1>8, GoodCat
<1>13. G(<<u, v, w>> \o b \o <<x, y>>, 1, 18)
  BY <1>11, <1>12, GoodCat
<1> QED BY <1>3, <1>13

(* The built-in rules of the forward chain.                                *)
LEMMA BeforeForward ==
    ASSUME NEW s, IsState(s), TopHoldsTop(LiveBans(s)), NEW p \in Packet, p.hook = "forward"
    PROVE  Good(Inner(p), s, p, Before(s, "forward"), 1, 18)
<1> DEFINE G(l, k, m) == Good(Inner(p), s, p, l, k, m)
<1>1. PICK a, x, y : a = BeforePrefix(s, "forward") /\ x = ICMPv4 /\ y = Accept(ICMPv6({1, 2, 3, 4, 128, 129}))
  OBVIOUS
<1>2. Before(s, "forward") = a \o <<x, y>>
  BY <1>1 DEF Before
<1>3. G(a, 1, 8)
  <2>1. G(a, 2, 6)
    BY <1>1, PrefixRules
  <2>2. Stage(s, p, 1) => Stage(s, p, 2)
    BY OtherStages
  <2>3. Stage(s, p, 6) => Stage(s, p, 8)
    BY OtherStages
  <2> QED BY <2>1, <2>2, <2>3, GoodWeaken
<1>4. G(<<x>>, 8, 9)
  BY <1>1, ICMPRules
<1>5. G(<<y>>, 9, 18)
  <2>1. G(<<y>>, 9, 11)
    BY <1>1, ICMPRules
  <2>2. Stage(s, p, 11) => Stage(s, p, 18)
    BY OtherStages
  <2>3. Stage(s, p, 9) => Stage(s, p, 9)
    OBVIOUS
  <2> QED BY <2>1, <2>2, <2>3, GoodWeaken
<1>6. G(<<x, y>>, 8, 18)
  BY <1>4, <1>5, GoodTwo
<1> QED BY <1>2, <1>3, <1>6, GoodCat

(* The built-in rules take a packet to the rules of the user, if they do   *)
(* not decide it.                                                          *)
LEMMA BeforeGood ==
    ASSUME NEW s, IsState(s), TopHoldsTop(LiveBans(s)), NEW p \in Packet
    PROVE  Good(Inner(p), s, p, Before(s, p.hook), 1, 18)
<1>1. p.hook = "input" \/ p.hook = "output" \/ p.hook = "forward"
  BY Header DEF Hook
<1> QED BY <1>1, BeforeInput, BeforeOutput, BeforeForward

-----------------------------------------------------------------------------
(* The rules of the user.                                                  *)

(* Firewall and the compiler read rules.json alike.                        *)
LEMMA Shared ==
    /\ \A e : F!Covers(e) = Covers(e)
    /\ F!NoSet = NoSet /\ F!AnyAddr = AnyAddr /\ F!AnyType = AnyType /\ F!AnyIface = AnyIface
    /\ F!HookOf = HookOf
    /\ \A r : F!Live(r) <=> Live(r)
    /\ \A s, h : F!PolicyFor(s, h) = PolicyFor(s, h)
<1>1. \A e : F!Covers(e) = Covers(e)
  BY DEF F!Covers, F!First, F!Size, F!Power, Covers, First, Size, Power
<1>2. F!NoSet = NoSet /\ F!AnyAddr = AnyAddr /\ F!AnyType = AnyType /\ F!AnyIface = AnyIface
  BY DEF F!NoSet, F!AnyAddr, F!AnyType, F!AnyIface, NoSet, AnyAddr, AnyType, AnyIface
<1>3. F!HookOf = HookOf
  BY Zenon DEF F!HookOf, HookOf
<1>4. \A r : F!Live(r) <=> Live(r)
  BY DEF F!Live, Live
<1>5. \A s, h : F!PolicyFor(s, h) = PolicyFor(s, h)
  BY Zenon DEF F!PolicyFor, PolicyFor, F!overridePolicy, overridePolicy
<1> QED BY <1>1, <1>2, <1>3, <1>4, <1>5

(* What a rule of the user is made of.                                     *)
LEMMA RuleIs ==
    ASSUME NEW s, IsState(s), NEW list \in {s.rules4, s.rules6}, NEW i \in DOMAIN list
    PROVE  /\ list[i].src \in AddrSpec /\ list[i].dst \in AddrSpec
           /\ list[i].sports \subseteq PortRange /\ list[i].dports \subseteq PortRange
           /\ list[i].direction \in DOMAIN HookOf /\ list[i].proto \in STRING
           /\ list[i].icmpType \in Int
           /\ list[i].disabled \in BOOLEAN /\ list[i].expired \in BOOLEAN
<1>1. PICK R : R = Rule
  OBVIOUS
<1>2. list \in Seq(R)
  BY <1>1 DEF IsState
<1>3. PICK r : r = list[i]
  OBVIOUS
<1>4. r \in R
  BY <1>2, <1>3
<1>5. r \in Rule
  BY <1>1, <1>4
<1> QED BY <1>3, <1>5 DEF Rule

(* The addresses of a rule.                                                *)
LEMMA AddrTests ==
    ASSUME NEW s, IsState(s), \A n \in DOMAIN s.sets : TopHoldsTop(Range(s.sets[n])),
           NEW end \in AddrSpec, end.set \in DOMAIN s.sets \cup {NoSet},
           NEW p, p.v6 \in BOOLEAN, NEW field, p[field] \in Address
    PROVE  LET on == appendEndpointAddr(s, field, end, p.v6)
           IN  IsSeq(on) /\ (Meets(on, p) <=> F!CoversAddr(s, end, p, p[field]))
<1>1. PICK a, v6 : a = p[field] /\ v6 = p.v6
  OBVIOUS
<1>2. \A e : F!InElements(<<e>>, p, a) <=> e.v6 = v6 /\ a \in Covers(e)
  <2>1. \A e : DOMAIN <<e>> = {1} /\ <<e>>[1] = e
    OBVIOUS
  <2> QED BY <1>1, <2>1, Shared DEF F!InElements
<1>3. PICK on : on = appendEndpointAddr(s, field, end, v6)
  OBVIOUS
<1>4. CASE end.set # NoSet
  <2>1. PICK l : l = s.sets[end.set]
    OBVIOUS
  <2>2. l \in Seq(Element) /\ TopHoldsTop(Range(l))
    BY <1>4, <2>1 DEF IsState
  <2>3. PICK H : H = {x \in Address : Holds(compileAddressSet(l, v6), x)}
    OBVIOUS
  <2>4. on = << <<field, H>> >>
    BY <1>3, <1>4, <2>1, <2>3 DEF appendEndpointAddr
  <2>5. IsSeq(on) /\ (Meets(on, p) <=> a \in H)
    BY <1>1, <2>4, TestOne DEF Tests
  <2>6. a \in H <=> \E e \in Range(l) : e.v6 = v6 /\ a \in Covers(e)
    BY <1>1, <2>2, <2>3, SetOf
  <2>7. (\E e \in Range(l) : e.v6 = v6 /\ a \in Covers(e)) <=> F!InElements(l, p, a)
    BY <1>1, Shared DEF F!InElements, Range
  <2>8. F!CoversAddr(s, end, p, a) <=> F!InElements(l, p, a)
    BY <1>4, <2>1, Shared DEF F!CoversAddr
  <2> QED BY <1>1, <1>3, <2>5, <2>6, <2>7, <2>8
<1>5. CASE end.set = NoSet /\ end.ip = AnyAddr
  <2>1. on = <<>>
    BY <1>3, <1>5 DEF appendEndpointAddr
  <2>2. F!CoversAddr(s, end, p, a)
    BY <1>5, Shared DEF F!CoversAddr
  <2>3. IsSeq(<<>>) /\ Meets(<<>>, p)
    BY FieldTests
  <2>4. IsSeq(on) /\ Meets(on, p)
    BY <2>1, <2>3
  <2> QED BY <1>1, <1>3, <2>2, <2>4
<1>6. CASE end.set = NoSet /\ end.ip # AnyAddr
  <2>1. PICK H : H = IF end.ip.v6 = v6 THEN Covers(end.ip) ELSE {}
    OBVIOUS
  <2>2. on = << <<field, H>> >>
    BY <1>3, <1>6, <2>1 DEF appendEndpointAddr
  <2>3. IsSeq(on) /\ (Meets(on, p) <=> a \in H)
    BY <1>1, <2>2, TestOne DEF Tests
  <2>4. F!CoversAddr(s, end, p, a) <=> F!InElements(<<end.ip>>, p, a)
    BY <1>6, Shared DEF F!CoversAddr
  <2>5. a \in H <=> F!InElements(<<end.ip>>, p, a)
    BY <1>2, <2>1
  <2> QED BY <1>1, <1>3, <2>3, <2>4, <2>5
<1> QED BY <1>4, <1>5, <1>6

(* The ports of a rule, for a protocol that it names.                      *)
PortTest(ports, q, n) == Ranges(ports, q) = {} \/ n \in PortNumbers(Ranges(ports, q))

(* appendPortExprs asks for that.                                          *)
LEMMA PortTests ==
    ASSUME NEW ports, NEW q, NEW p, NEW field
    PROVE  LET on == appendPortExprs(field, ports, q)
           IN  IsSeq(on) /\ (Meets(on, p) <=> PortTest(ports, q, p[field]))
<1>1. PICK on : on = appendPortExprs(field, ports, q)
  OBVIOUS
<1>2. IsSeq(<<>>) /\ Meets(<<>>, p)
  BY FieldTests
<1>3. CASE Ranges(ports, q) = {}
  <2>1. on = <<>>
    BY <1>1, <1>3 DEF appendPortExprs
  <2>2. IsSeq(on) /\ Meets(on, p)
    BY <1>2, <2>1
  <2> QED BY <1>1, <1>3, <2>2 DEF PortTest
<1>4. CASE Ranges(ports, q) # {}
  <2>1. PICK S : S = PortNumbers(Ranges(ports, q))
    OBVIOUS
  <2>2. on = << <<field, S>> >>
    BY <1>1, <1>4, <2>1 DEF appendPortExprs
  <2>3. IsSeq(on) /\ (Meets(on, p) <=> p[field] \in S)
    BY <2>2, TestOne DEF Tests
  <2> QED BY <1>1, <1>4, <2>1, <2>3 DEF PortTest
<1> QED BY <1>3, <1>4

(* What ruleMatch asks of a packet.                                        *)
LEMMA MatchTests ==
    ASSUME NEW s, IsState(s), \A n \in DOMAIN s.sets : TopHoldsTop(Range(s.sets[n])),
           NEW r, r.src \in AddrSpec, r.dst \in AddrSpec,
           {r.src.set, r.dst.set} \subseteq DOMAIN s.sets \cup {NoSet},
           NEW p \in Packet, NEW q, NEW v6
    PROVE  LET on == ruleMatch(s, r, q, v6)
           IN  /\ IsSeq(on) /\ (Meets(on, p) => p.v6 = v6)
               /\ p.v6 = v6 =>
                  (Meets(on, p) <=> /\ r.ifaceIn = AnyIface \/ p.in \in r.ifaceIn
                                    /\ r.ifaceOut = AnyIface \/ p.out \in r.ifaceOut
                                    /\ q \in {"any", p.proto}
                                    /\ r.icmpType \in {AnyType, p.icmp}
                                    /\ F!CoversAddr(s, r.src, p, p.saddr)
                                    /\ F!CoversAddr(s, r.dst, p, p.daddr)
                                    /\ q \in {"tcp", "udp"} => /\ PortTest(r.sports, q, p.sport)
                                                               /\ PortTest(r.dports, q, p.dport))
<1>1. PICK a, b, c, d, e, f, g, h :
        /\ a = nfproto(v6)
        /\ b = (IF r.ifaceIn = AnyIface THEN <<>> ELSE iif(r.ifaceIn))
        /\ c = (IF r.ifaceOut = AnyIface THEN <<>> ELSE oif(r.ifaceOut))
        /\ d = (IF q = "any" THEN <<>> ELSE l4proto({q}))
        /\ e = (IF r.icmpType = AnyType THEN <<>> ELSE icmpType({r.icmpType}))
        /\ f = appendEndpointAddr(s, "saddr", r.src, v6)
        /\ g = appendEndpointAddr(s, "daddr", r.dst, v6)
        /\ h = (IF q \in {"tcp", "udp"}
                THEN appendPortExprs("sport", r.sports, q) \o appendPortExprs("dport", r.dports, q)
                ELSE <<>>)
  OBVIOUS
<1>2. ruleMatch(s, r, q, v6) = a \o b \o c \o d \o e \o f \o g \o h
  BY <1>1 DEF ruleMatch
<1>3. IsSeq(<<>>) /\ Meets(<<>>, p)
  BY FieldTests
<1>4. IsSeq(a) /\ (Meets(a, p) <=> p.v6 = v6)
  BY <1>1, FieldTests
<1>5. IsSeq(b) /\ (Meets(b, p) <=> r.ifaceIn = AnyIface \/ p.in \in r.ifaceIn)
  <2>1. IsSeq(iif(r.ifaceIn)) /\ (Meets(iif(r.ifaceIn), p) <=> p.in \in r.ifaceIn)
    BY FieldTests
  <2>2. CASE r.ifaceIn = AnyIface
    BY <1>1, <1>3, <2>2
  <2>3. CASE r.ifaceIn # AnyIface
    BY <1>1, <2>1, <2>3
  <2> QED BY <2>2, <2>3
<1>6. IsSeq(c) /\ (Meets(c, p) <=> r.ifaceOut = AnyIface \/ p.out \in r.ifaceOut)
  <2>1. IsSeq(oif(r.ifaceOut)) /\ (Meets(oif(r.ifaceOut), p) <=> p.out \in r.ifaceOut)
    BY FieldTests
  <2>2. CASE r.ifaceOut = AnyIface
    BY <1>1, <1>3, <2>2
  <2>3. CASE r.ifaceOut # AnyIface
    BY <1>1, <2>1, <2>3
  <2> QED BY <2>2, <2>3
<1>7. IsSeq(d) /\ (Meets(d, p) <=> q \in {"any", p.proto})
  <2>1. IsSeq(l4proto({q})) /\ (Meets(l4proto({q}), p) <=> p.proto \in {q})
    BY FieldTests
  <2>2. CASE q = "any"
    BY <1>1, <1>3, <2>2
  <2>3. CASE q # "any"
    BY <1>1, <2>1, <2>3
  <2> QED BY <2>2, <2>3
<1>8. IsSeq(e) /\ (Meets(e, p) <=> r.icmpType \in {AnyType, p.icmp})
  <2>1. IsSeq(icmpType({r.icmpType})) /\ (Meets(icmpType({r.icmpType}), p) <=> p.icmp \in {r.icmpType})
    BY FieldTests
  <2>2. CASE r.icmpType = AnyType
    BY <1>1, <1>3, <2>2
  <2>3. CASE r.icmpType # AnyType
    BY <1>1, <2>1, <2>3
  <2> QED BY <2>2, <2>3
<1>9. \A l, k : IsSeq(l) /\ IsSeq(k) => IsSeq(l \o k) /\ (Meets(l \o k, p) <=> Meets(l, p) /\ Meets(k, p))
  BY TestCat
<1>10. IsSeq(h) /\ (Meets(h, p) <=> (q \in {"tcp", "udp"} => /\ PortTest(r.sports, q, p.sport)
                                                             /\ PortTest(r.dports, q, p.dport)))
  <2>1. PICK x, y : x = appendPortExprs("sport", r.sports, q) /\ y = appendPortExprs("dport", r.dports, q)
    OBVIOUS
  <2>2. IsSeq(x) /\ (Meets(x, p) <=> PortTest(r.sports, q, p.sport))
    BY <2>1, PortTests
  <2>3. IsSeq(y) /\ (Meets(y, p) <=> PortTest(r.dports, q, p.dport))
    BY <2>1, PortTests
  <2>4. IsSeq(x \o y) /\ (Meets(x \o y, p) <=> Meets(x, p) /\ Meets(y, p))
    BY <1>9, <2>2, <2>3
  <2>5. CASE q \in {"tcp", "udp"}
    BY <1>1, <2>1, <2>2, <2>3, <2>4, <2>5
  <2>6. CASE q \notin {"tcp", "udp"}
    BY <1>1, <1>3, <2>6
  <2> QED BY <2>5, <2>6
<1>11. p.v6 \in BOOLEAN /\ p.saddr \in Address /\ p.daddr \in Address
  BY Header
<1>12. ASSUME p.v6 = v6
       PROVE  /\ IsSeq(f) /\ (Meets(f, p) <=> F!CoversAddr(s, r.src, p, p.saddr))
              /\ IsSeq(g) /\ (Meets(g, p) <=> F!CoversAddr(s, r.dst, p, p.daddr))
  <2>1. PICK x : x = r.src
    OBVIOUS
  <2>2. PICK y : y = r.dst
    OBVIOUS
  <2>3. x \in AddrSpec /\ y \in AddrSpec /\ x.set \in DOMAIN s.sets \cup {NoSet} /\ y.set \in DOMAIN s.sets \cup {NoSet}
    BY <2>1, <2>2
  <2>4. IsSeq(f) /\ (Meets(f, p) <=> F!CoversAddr(s, x, p, p.saddr))
    BY <1>1, <1>11, <1>12, <2>1, <2>3, AddrTests
  <2>5. IsSeq(g) /\ (Meets(g, p) <=> F!CoversAddr(s, y, p, p.daddr))
    BY <1>1, <1>11, <1>12, <2>2, <2>3, AddrTests
  <2> QED BY <2>1, <2>2, <2>4, <2>5
<1>13. IsSeq(f) /\ IsSeq(g)
  <2>1. \A field, S : IsSeq(<< <<field, S>> >>)
    BY One
  <2> QED BY <1>1, <1>3, <2>1 DEF appendEndpointAddr
<1>14. PICK on : on = a \o b \o c \o d \o e \o f \o g \o h
  OBVIOUS
<1>15. /\ IsSeq(on)
       /\ Meets(on, p) <=> Meets(a, p) /\ Meets(b, p) /\ Meets(c, p) /\ Meets(d, p)
                           /\ Meets(e, p) /\ Meets(f, p) /\ Meets(g, p) /\ Meets(h, p)
  <2>1. PICK x : x = a \o b \o c \o d
    OBVIOUS
  <2>2. IsSeq(x) /\ (Meets(x, p) <=> Meets(a, p) /\ Meets(b, p) /\ Meets(c, p) /\ Meets(d, p))
    BY <1>4, <1>5, <1>6, <1>7, <2>1, TestFour
  <2>3. PICK y : y = x \o e \o f \o g
    OBVIOUS
  <2>4. IsSeq(y) /\ (Meets(y, p) <=> Meets(x, p) /\ Meets(e, p) /\ Meets(f, p) /\ Meets(g, p))
    BY <1>8, <1>13, <2>2, <2>3, TestFour
  <2>5. IsSeq(y \o h) /\ (Meets(y \o h, p) <=> Meets(y, p) /\ Meets(h, p))
    BY <1>10, <2>4, TestCat
  <2>6. on = y \o h
    BY <1>14, <2>1, <2>3
  <2> QED BY <2>2, <2>4, <2>5, <2>6
<1> QED BY <1>2, <1>4, <1>5, <1>6, <1>7, <1>8, <1>10, <1>12, <1>14, <1>15

(* The ports of a rule that names this protocol.                           *)
LEMMA PortsCover ==
    ASSUME NEW ports, NEW q, NEW p, NEW n, p.proto = q, ports # {} => Ranges(ports, q) # {}
    PROVE  PortTest(ports, q, n) <=> F!CoversPort(ports, p, n)
<1>1. PICK S : S = Ranges(ports, q)
  OBVIOUS
<1>2. \A x : x \in S <=> x \in ports /\ x.proto \in {"any", q}
  BY <1>1 DEF Ranges
<1>3. n \in PortNumbers(S) <=> \E x \in S : n \in x.lo .. x.hi
  BY DEF PortNumbers
<1>4. ports = {} <=> S = {}
  BY <1>1, <1>2
<1> QED BY <1>1, <1>2, <1>3, <1>4 DEF PortTest, F!CoversPort

(* The variants of a rule.                                                 *)
LEMMA VariantsAre ==
    ASSUME NEW r
    PROVE  LET q == protoVariants(r)
               named == {x.proto : x \in r.sports \cup r.dports}
           IN  /\ IsSeq(q)
               /\ r.proto # "any" => Range(q) = {r.proto}
               /\ r.proto = "any" /\ named = {} => Range(q) = {"any"}
               /\ r.proto = "any" /\ named # {} =>
                     Range(q) = {t \in {"tcp", "udp"} : named \cap {"any", t} # {}}
<1>1. PICK q, named : q = protoVariants(r) /\ named = {x.proto : x \in r.sports \cup r.dports}
  OBVIOUS
<1>2. /\ IsSeq(<<>>) /\ Range(<<>>) = {}
      /\ \A a : IsSeq(<<a>>) /\ Range(<<a>>) = {a}
  <2>1. Range(<<>>) = {}
    BY DEF Range
  <2>2. \A a : Range(<<a>>) = {a}
    BY DEF Range
  <2> QED BY <2>1, <2>2, Zero, One
<1>3. \A a, b : IsSeq(a) /\ IsSeq(b) => IsSeq(a \o b) /\ Range(a \o b) = Range(a) \cup Range(b)
  <2>1. ASSUME NEW a, NEW b, IsSeq(a), IsSeq(b)
        PROVE  IsSeq(a \o b) /\ Range(a \o b) = Range(a) \cup Range(b)
    <3>1. PICK S, T : a \in Seq(S) /\ b \in Seq(T)
      BY <2>1 DEF IsSeq
    <3>2. PICK U : U = S \cup T
      OBVIOUS
    <3>3. a \in Seq(U) /\ b \in Seq(U)
      BY <3>1, <3>2
    <3>4. Range(a \o b) = Range(a) \cup Range(b)
      BY <3>3, ConcatRange
    <3> QED BY <2>1, <3>4, Cat
  <2> QED BY <2>1
<1>4. CASE r.proto # "any"
  <2>1. q = <<r.proto>>
    BY <1>1, <1>4, Zenon DEF protoVariants
  <2> QED BY <1>1, <1>2, <1>4, <2>1
<1>5. CASE r.proto = "any" /\ named = {}
  <2>1. q = <<"any">>
    BY <1>1, <1>5, Zenon DEF protoVariants
  <2> QED BY <1>1, <1>2, <1>5, <2>1
<1>6. CASE r.proto = "any" /\ named # {}
  <2>1. PICK a, b : /\ a = (IF named \cap {"any", "tcp"} # {} THEN <<"tcp">> ELSE <<>>)
                    /\ b = (IF named \cap {"any", "udp"} # {} THEN <<"udp">> ELSE <<>>)
    OBVIOUS
  <2>2. q = a \o b
    BY <1>1, <1>6, <2>1, Zenon DEF protoVariants
  <2>3. IsSeq(a) /\ Range(a) = IF named \cap {"any", "tcp"} # {} THEN {"tcp"} ELSE {}
    BY <1>2, <2>1
  <2>4. IsSeq(b) /\ Range(b) = IF named \cap {"any", "udp"} # {} THEN {"udp"} ELSE {}
    BY <1>2, <2>1
  <2>5. IsSeq(q) /\ Range(q) = Range(a) \cup Range(b)
    BY <1>3, <2>2, <2>3, <2>4
  <2>6. Range(q) = {t \in {"tcp", "udp"} : named \cap {"any", t} # {}}
    BY <2>3, <2>4, <2>5
  <2> QED BY <1>1, <1>6, <2>5, <2>6
<1> QED BY <1>1, <1>4, <1>5, <1>6

(* A variant is for packets with ports if the rule tells ports apart.      *)
LEMMA VariantPorted ==
    ASSUME NEW r, PortsMeant(r), NEW t, t \in Range(protoVariants(r))
    PROVE  t \in {"tcp", "udp"} <=> Ported(r)
<1>1. PICK q, named : q = protoVariants(r) /\ named = {x.proto : x \in r.sports \cup r.dports}
  OBVIOUS
<1>2. /\ r.proto # "any" => Range(q) = {r.proto}
      /\ r.proto = "any" /\ named = {} => Range(q) = {"any"}
      /\ r.proto = "any" /\ named # {} => Range(q) = {x \in {"tcp", "udp"} : named \cap {"any", x} # {}}
  BY <1>1, VariantsAre
<1>3. named = {} <=> r.sports \cup r.dports = {}
  BY <1>1
<1>4. r.sports \cup r.dports # {} => r.proto \in {"any", "tcp", "udp"}
  BY DEF PortsMeant
<1> QED BY <1>1, <1>2, <1>3, <1>4 DEF Ported

(* A rule covers a packet of its family if one of its variants matches it, *)
(* and none of the other family.                                           *)
LEMMA VariantsCover ==
    ASSUME NEW s, IsState(s), Meant(s), NEW list \in {s.rules4, s.rules6}, NEW i \in DOMAIN list,
           NEW p \in Packet, NEW v6
    PROVE  LET r == list[i]
               Match == \E q \in Range(protoVariants(r)) : Meets(ruleMatch(s, r, q, v6), p)
           IN  /\ p.v6 # v6 => ~Match
               /\ p.v6 = v6 /\ HookOf[r.direction] = p.hook => (F!RuleCovers(s, r, p) <=> Match)
<1>1. PICK r : r = list[i]
  OBVIOUS
<1>2. PICK Q : Q = Range(protoVariants(r))
  OBVIOUS
<1>3. PICK named : named = {x.proto : x \in r.sports \cup r.dports}
  OBVIOUS
<1>4. r.src \in AddrSpec /\ r.dst \in AddrSpec /\ r.sports \subseteq PortRange /\ r.dports \subseteq PortRange
  BY <1>1, RuleIs
<1>5. /\ {r.src.set, r.dst.set} \subseteq DOMAIN s.sets \cup {NoSet} /\ PortsMeant(r)
      /\ \A n \in DOMAIN s.sets : TopHoldsTop(Range(s.sets[n]))
  BY <1>1 DEF Meant
<1>6. PICK Rest : Rest <=> /\ r.ifaceIn = AnyIface \/ p.in \in r.ifaceIn
                           /\ r.ifaceOut = AnyIface \/ p.out \in r.ifaceOut
                           /\ r.icmpType \in {AnyType, p.icmp}
                           /\ F!CoversAddr(s, r.src, p, p.saddr)
                           /\ F!CoversAddr(s, r.dst, p, p.daddr)
  OBVIOUS
<1>7. \A q : /\ Meets(ruleMatch(s, r, q, v6), p) => p.v6 = v6
             /\ p.v6 = v6 =>
                (Meets(ruleMatch(s, r, q, v6), p)
                 <=> /\ Rest /\ q \in {"any", p.proto}
                     /\ q \in {"tcp", "udp"} => PortTest(r.sports, q, p.sport) /\ PortTest(r.dports, q, p.dport))
  <2>1. ASSUME NEW q
        PROVE  /\ Meets(ruleMatch(s, r, q, v6), p) => p.v6 = v6
               /\ p.v6 = v6 =>
                  (Meets(ruleMatch(s, r, q, v6), p) <=>
                     /\ r.ifaceIn = AnyIface \/ p.in \in r.ifaceIn
                     /\ r.ifaceOut = AnyIface \/ p.out \in r.ifaceOut
                     /\ q \in {"any", p.proto}
                     /\ r.icmpType \in {AnyType, p.icmp}
                     /\ F!CoversAddr(s, r.src, p, p.saddr)
                     /\ F!CoversAddr(s, r.dst, p, p.daddr)
                     /\ q \in {"tcp", "udp"} => /\ PortTest(r.sports, q, p.sport)
                                                /\ PortTest(r.dports, q, p.dport))
    BY <1>4, <1>5, MatchTests
  <2> QED BY <1>6, <2>1
<1>8. HookOf[r.direction] = p.hook =>
         (F!RuleCovers(s, r, p) <=>
            /\ Rest /\ r.proto \in {"any", p.proto}
            /\ r.sports \cup r.dports # {} => p.proto \in {"tcp", "udp"}
            /\ F!CoversPort(r.sports, p, p.sport) /\ F!CoversPort(r.dports, p, p.dport))
  BY <1>6, Shared DEF F!RuleCovers
<1>9. ASSUME NEW q \in Q, q \in {"tcp", "udp"}
      PROVE  /\ r.sports # {} => Ranges(r.sports, q) # {}
             /\ r.dports # {} => Ranges(r.dports, q) # {}
  <2>1. PICK k \in DOMAIN protoVariants(r) : protoVariants(r)[k] = q
    BY <1>2 DEF Range
  <2> QED BY <1>5, <1>9, <2>1 DEF PortsMeant
<1>10. ASSUME NEW q \in Q, q \in {"tcp", "udp"}, p.proto = q
       PROVE  /\ PortTest(r.sports, q, p.sport) <=> F!CoversPort(r.sports, p, p.sport)
              /\ PortTest(r.dports, q, p.dport) <=> F!CoversPort(r.dports, p, p.dport)
  BY <1>9, <1>10, PortsCover
<1>11. /\ r.proto # "any" => Q = {r.proto}
       /\ r.proto = "any" /\ named = {} => Q = {"any"}
       /\ r.proto = "any" /\ named # {} => Q = {t \in {"tcp", "udp"} : named \cap {"any", t} # {}}
  BY <1>2, <1>3, VariantsAre, Zenon
<1>12. named = {} <=> r.sports \cup r.dports = {}
  BY <1>3
<1>13. r.sports \cup r.dports # {} => r.proto \in {"any", "tcp", "udp"}
  BY <1>5 DEF PortsMeant
<1>14. \A ports, n : ports = {} => F!CoversPort(ports, p, n)
  BY DEF F!CoversPort
<1>15. ASSUME p.v6 = v6, HookOf[r.direction] = p.hook, F!RuleCovers(s, r, p)
       PROVE  \E q \in Q : Meets(ruleMatch(s, r, q, v6), p)
  <2>1. CASE r.sports \cup r.dports = {}
    <3>1. Q = {r.proto}
      BY <1>11, <1>12, <2>1
    <3>2. r.proto \in {"tcp", "udp"} => p.proto = r.proto
      BY <1>8, <1>15
    <3>3. Meets(ruleMatch(s, r, r.proto, v6), p)
      BY <1>7, <1>8, <1>10, <1>15, <3>1, <3>2
    <3> QED BY <3>1, <3>3
  <2>2. CASE r.sports \cup r.dports # {}
    <3>1. PICK t : t = p.proto
      OBVIOUS
    <3>2. t \in {"tcp", "udp"} /\ F!CoversPort(r.sports, p, p.sport) /\ F!CoversPort(r.dports, p, p.dport)
      BY <1>8, <1>15, <2>2, <3>1
    <3>3. t \in Q
      <4>1. CASE r.proto # "any"
        BY <1>8, <1>11, <1>15, <3>1, <4>1
      <4>2. CASE r.proto = "any"
        <5>1. PICK x \in r.sports \cup r.dports : x.proto \in {"any", t}
          BY <2>2, <3>1, <3>2 DEF F!CoversPort
        <5>2. x.proto \in named
          BY <1>3, <5>1
        <5> QED BY <1>11, <3>2, <4>2, <5>1, <5>2
      <4> QED BY <4>1, <4>2
    <3>4. Meets(ruleMatch(s, r, t, v6), p)
      BY <1>7, <1>8, <1>10, <1>15, <3>1, <3>2, <3>3
    <3> QED BY <3>3, <3>4
  <2> QED BY <2>1, <2>2
<1>16. ASSUME p.v6 = v6, HookOf[r.direction] = p.hook, NEW q \in Q, Meets(ruleMatch(s, r, q, v6), p)
       PROVE  F!RuleCovers(s, r, p)
  <2>1. Rest /\ q \in {"any", p.proto}
        /\ (q \in {"tcp", "udp"} => PortTest(r.sports, q, p.sport) /\ PortTest(r.dports, q, p.dport))
    BY <1>7, <1>16
  <2>2. CASE r.sports \cup r.dports = {}
    <3>1. q = r.proto
      BY <1>11, <1>12, <2>2
    <3> QED BY <1>8, <1>14, <1>16, <2>1, <2>2, <3>1
  <2>3. CASE r.sports \cup r.dports # {}
    <3>1. q \in {"tcp", "udp"} /\ r.proto \in {"any", q}
      BY <1>11, <1>12, <1>13, <2>3
    <3>2. q = p.proto
      BY <2>1, <3>1
    <3> QED BY <1>8, <1>10, <1>16, <2>1, <3>1, <3>2
  <2> QED BY <2>2, <2>3
<1> QED BY <1>1, <1>2, <1>7, <1>15, <1>16

(* What one variant of a rule puts into the user's chain.                  *)
LEMMA UserRuleSteps ==
    ASSUME NEW s, NEW r, NEW q, NEW v6, ~Refused(r, v6), NEW p, p.hook \in Hook,
           HookOf[r.direction] = p.hook, NEW on, on = ruleMatch(s, r, q, v6), IsSeq(on),
           q \in {"tcp", "udp"} <=> Ported(r)
    PROVE  LET l == UserRules(s, r, q, v6)
           IN  /\ IsSeq(l)
               /\ \A x \in Range(l) : Passes(x, p) => Meets(on, p)
               /\ (Meets(on, p) => Deciding(s, p, r, v6))
                  => \A x \in Range(l) : Sound(s, p, x)
               /\ Meets(on, p) => \E x \in Range(l) : Settles(Inner(p), x, p)
<1>1. PICK name : name = <<"user-logging", HookOf[r.direction]>>
  OBVIOUS
<1>2. PICK lim : lim = <<"user-limit", "">>
  OBVIOUS
<1>3. PICK acc : acc = <<"user-limit-accept", "">>
  OBVIOUS
<1>4. PICK pre : pre = IF r.log = "" THEN <<>> ELSE <<jump(on, name)>>
  OBVIOUS
<1>5. PICK act : act = ActionRules(r, q, v6, on)
  OBVIOUS
<1>6. UserRules(s, r, q, v6) = pre \o act
  BY <1>1, <1>4, <1>5, Zenon DEF UserRules
<1>7. \A a : IsSeq(<<a>>) /\ Range(<<a>>) = {a}
  <2>1. \A a : Range(<<a>>) = {a}
    BY DEF Range
  <2> QED BY <2>1, One
<1>8. \A to : /\ jump(on, to).verdict = "jump" /\ jump(on, to).to = to
              /\ ~jump(on, to).limited /\ jump(on, to).meter = {}
              /\ Passes(jump(on, to), p) <=> Meets(on, p)
  BY RuleKinds
<1>9. Entry(s, p, name)
  BY <1>1, Entries
<1>10. /\ IsSeq(pre) /\ \A x \in Range(pre) : Passes(x, p) => Meets(on, p)
       /\ \A x \in Range(pre) : Sound(s, p, x)
  <2>1. CASE r.log = ""
    <3>1. pre = <<>>
      BY <1>4, <2>1
    <3>2. Range(<<>>) = {}
      BY DEF Range
    <3> QED BY <3>1, <3>2, Zero
  <2>2. CASE r.log # ""
    <3>1. PICK x : x = jump(on, name)
      OBVIOUS
    <3>2. IsSeq(pre) /\ Range(pre) = {x}
      BY <1>4, <1>7, <2>2, <3>1
    <3>3. x.verdict = "jump" /\ x.to = name /\ x.meter = {} /\ (Passes(x, p) <=> Meets(on, p))
      BY <1>8, <3>1
    <3>4. Sound(s, p, x)
      BY <1>1, <1>9, <3>3 DEF Sound, Final
    <3> QED BY <3>2, <3>3, <3>4
  <2> QED BY <2>1, <2>2
<1>11. /\ IsSeq(act) /\ \A x \in Range(act) : Passes(x, p) => Meets(on, p)
       /\ (Meets(on, p) => Deciding(s, p, r, v6)) => \A x \in Range(act) : Sound(s, p, x)
       /\ Meets(on, p) => \E x \in Range(act) : Settles(Inner(p), x, p)
  <2>1. ASSUME NEW x, act = <<x>>, x.verdict \in Final, ~x.limited, x.meter = {}, Passes(x, p) <=> Meets(on, p),
               F!ActionVerdicts(r, p) = {x.verdict}
        PROVE  /\ IsSeq(act) /\ \A y \in Range(act) : Passes(y, p) => Meets(on, p)
               /\ (Meets(on, p) => Deciding(s, p, r, v6)) => \A y \in Range(act) : Sound(s, p, y)
               /\ Meets(on, p) => \E y \in Range(act) : Settles(Inner(p), y, p)
    <3>1. IsSeq(act) /\ Range(act) = {x}
      BY <1>7, <2>1
    <3>2. x.verdict # "jump" /\ x.verdict # "return"
      BY <2>1 DEF Final
    <3>3. (Meets(on, p) => Deciding(s, p, r, v6)) => Sound(s, p, x)
      BY <2>1, <3>2 DEF Sound, Deciding
    <3>4. Meets(on, p) => Settles(Inner(p), x, p)
      BY <2>1 DEF Settles
    <3> QED BY <2>1, <3>1, <3>3, <3>4
  <2>2. r.action \in {"allow", "deny", "reject", "limit"}
    BY DEF Refused
  <2>3. CASE r.action = "allow"
    <3>1. PICK x : x = Accept(on)
      OBVIOUS
    <3>2. act = <<x>> /\ F!ActionVerdicts(r, p) = {"accept"}
      BY <1>5, <2>3, <3>1 DEF ActionRules, F!ActionVerdicts
    <3>3. x.verdict = "accept" /\ ~x.limited /\ x.meter = {} /\ (Passes(x, p) <=> Meets(on, p))
      BY <3>1, RuleKinds
    <3> QED BY <2>1, <3>2, <3>3 DEF Final
  <2>4. CASE r.action = "deny"
    <3>1. PICK x : x = Drop(on)
      OBVIOUS
    <3>2. act = <<x>> /\ F!ActionVerdicts(r, p) = {"drop"}
      BY <1>5, <2>4, <3>1 DEF ActionRules, F!ActionVerdicts
    <3>3. x.verdict = "drop" /\ ~x.limited /\ x.meter = {} /\ (Passes(x, p) <=> Meets(on, p))
      BY <3>1, RuleKinds
    <3> QED BY <2>1, <3>2, <3>3 DEF Final
  <2>5. CASE r.action = "reject"
    <3>1. PICK x : x = Reject(on)
      OBVIOUS
    <3>2. act = <<x>> /\ F!ActionVerdicts(r, p) = {"reject"}
      BY <1>5, <2>5, <3>1 DEF ActionRules, F!ActionVerdicts
    <3>3. x.verdict = "reject" /\ ~x.limited /\ x.meter = {} /\ (Passes(x, p) <=> Meets(on, p))
      BY <3>1, RuleKinds
    <3> QED BY <2>1, <3>2, <3>3 DEF Final
  <2>6. CASE r.action = "limit"
    <3>1. PICK m : m = {[set |-> LimitSet(r, q, v6), ported |-> q \in {"tcp", "udp"}]}
      OBVIOUS
    <3>13. m = {MeterOf(r, v6)}
      <4>1. (q \in {"tcp", "udp"}) = Ported(r)
        BY DEF Ported
      <4>2. LimitSet(r, q, v6) = <<r.id, v6>>
        BY DEF LimitSet
      <4> QED BY <3>1, <4>1, <4>2, Zenon DEF MeterOf
    <3>2. PICK w : w = on \o ctState({"new"})
      OBVIOUS
    <3>3. PICK x : x = [jump(w, lim) EXCEPT !.meter = m]
      OBVIOUS
    <3>4. PICK y : y = jump(on, acc)
      OBVIOUS
    <3>5. act = <<x, y>>
      <4>1. act = compileLimit(r, q, v6, on)
        BY <1>5, <2>6 DEF ActionRules
      <4> QED BY <1>2, <1>3, <3>1, <3>2, <3>3, <3>4, <4>1, Zenon DEF compileLimit
    <3>6. IsSeq(act) /\ Range(act) = {x, y}
      <4>1. Range(<<x, y>>) = {x, y}
        BY DEF Range
      <4> QED BY <3>5, <4>1, Two
    <3>7. F!ActionVerdicts(r, p) = {"accept"} \cup IF p.ct = "new" THEN {"reject"} ELSE {}
      BY <2>6 DEF F!ActionVerdicts
    <3>8. Meets(w, p) <=> Meets(on, p) /\ p.ct = "new"
      <4>1. PICK c : c = ctState({"new"})
        OBVIOUS
      <4>2. IsSeq(c) /\ (Meets(c, p) <=> p.ct \in {"new"})
        BY <4>1, FieldTests
      <4> QED BY <3>2, <4>1, <4>2, TestCat
    <3>9. x.verdict = "jump" /\ x.to = lim /\ x.meter = m /\ (Passes(x, p) <=> Meets(w, p))
      <4>1. x.on = w /\ x.verdict = "jump" /\ x.to = lim /\ x.meter = m
        BY <3>3 DEF jump, nft
      <4> QED BY <4>1 DEF Passes, Meets
    <3>10. y.verdict = "jump" /\ y.to = acc /\ ~y.limited /\ y.meter = {} /\ (Passes(y, p) <=> Meets(on, p))
      BY <1>8, <3>4
    <3>11. ASSUME Meets(on, p) => Deciding(s, p, r, v6)
           PROVE  Sound(s, p, x) /\ Sound(s, p, y)
      <4>1. Passes(x, p) => Entry(s, p, lim)
        BY <1>2, <3>7, <3>8, <3>9, <3>11, Entries DEF Deciding
      <4>2. Passes(y, p) => Entry(s, p, acc)
        <5>1. Passes(y, p) => F!Verdicts(s, p) = {"accept"} \/ F!Verdicts(s, p) = {"accept", "reject"}
          BY <3>7, <3>10, <3>11 DEF Deciding
        <5> QED BY <1>3, <5>1, Entries
      <4>3. Passes(x, p) => x.meter \subseteq {MeterOf(Decider(s, p), p.v6)}
        BY <3>8, <3>9, <3>11, <3>13 DEF Deciding
      <4> QED BY <3>9, <3>10, <4>1, <4>2, <4>3 DEF Sound, Final
    <3>12. Meets(on, p) => Settles(Inner(p), y, p)
      BY <1>3, <3>10, InnerParts DEF Settles
    <3> QED BY <3>6, <3>8, <3>9, <3>10, <3>11, <3>12
  <2> QED BY <2>2, <2>3, <2>4, <2>5, <2>6
<1>12. IsSeq(pre \o act) /\ Range(pre \o act) = Range(pre) \cup Range(act)
  <2>1. PICK S, T : pre \in Seq(S) /\ act \in Seq(T)
    BY <1>10, <1>11 DEF IsSeq
  <2>2. PICK U : U = S \cup T
    OBVIOUS
  <2>3. pre \in Seq(U) /\ act \in Seq(U)
    BY <2>1, <2>2
  <2>4. Range(pre \o act) = Range(pre) \cup Range(act)
    BY <2>3, ConcatRange
  <2> QED BY <1>10, <1>11, <2>4, Cat
<1> QED BY <1>6, <1>10, <1>11, <1>12

(* A function on the domain of a list is a list.                           *)
LEMMA FunctionListed ==
    ASSUME NEW q, IsSeq(q), NEW ss, DOMAIN ss = DOMAIN q, ss = [k \in DOMAIN ss |-> ss[k]]
    PROVE  IsSeq(ss)
<1>1. PICK A : q \in Seq(A)
  BY DEF IsSeq
<1>2. PICK n \in Nat : n = Len(q) /\ DOMAIN q = 1 .. n
  BY <1>1
<1>3. PICK R : R = Range(ss)
  OBVIOUS
<1>4. ss \in [1 .. n -> R]
  <2>1. \A k \in DOMAIN ss : ss[k] \in R
    BY <1>3 DEF Range
  <2>2. DOMAIN ss = 1 .. n /\ ss = [k \in 1 .. n |-> ss[k]]
    BY <1>2
  <2> QED BY <2>1, <2>2
<1>5. ss \in Seq(R)
  BY <1>4
<1> QED BY <1>5 DEF IsSeq

(* Lists, flattened.                                                       *)
LEMMA ListsListed ==
    ASSUME NEW ss, IsSeq(ss), \A i \in DOMAIN ss : IsSeq(ss[i])
    PROVE  \E E : ss \in Seq(Seq(E))
<1> DEFINE E == UNION {Range(ss[i]) : i \in DOMAIN ss}
<1>1. PICK A : ss \in Seq(A)
  BY DEF IsSeq
<1>2. \A i \in DOMAIN ss : ss[i] \in Seq(E)
  <2>1. ASSUME NEW i \in DOMAIN ss PROVE ss[i] \in Seq(E)
    <3>1. PICK l : l = ss[i]
      OBVIOUS
    <3>2. PICK B : l \in Seq(B)
      BY <3>1 DEF IsSeq
    <3>3. Range(l) \subseteq E
      BY <3>1
    <3>4. \A k \in DOMAIN l : l[k] \in Range(l)
      BY DEF Range
    <3> HIDE DEF E
    <3>5. \A k \in DOMAIN l : l[k] \in E
      BY <3>3, <3>4
    <3>6. l \in Seq(E)
      BY <3>2, <3>5
    <3> QED BY <3>1, <3>6
  <2> QED BY <2>1
<1> HIDE DEF E
<1>3. ss \in Seq(Seq(E))
  BY <1>1, <1>2
<1> QED BY <1>3

(* What is in a list of lists put together.                                *)
LEMMA FlattenMembers ==
    ASSUME NEW ss, IsSeq(ss), \A i \in DOMAIN ss : IsSeq(ss[i])
    PROVE  /\ IsSeq(FlattenSeq(ss))
           /\ \A x : x \in Range(FlattenSeq(ss)) <=> \E i \in DOMAIN ss : x \in Range(ss[i])
<1>1. PICK E : ss \in Seq(Seq(E))
  BY ListsListed
<1>2. FlattenSeq(ss) \in Seq(E) /\ Range(FlattenSeq(ss)) = {x \in E : \E i \in DOMAIN ss : x \in Range(ss[i])}
  BY <1>1, FlattenRange
<1>3. \A i \in DOMAIN ss : \A x \in Range(ss[i]) : x \in E
  <2>1. ASSUME NEW i \in DOMAIN ss PROVE \A x \in Range(ss[i]) : x \in E
    <3>1. PICK l : l = ss[i]
      OBVIOUS
    <3>2. l \in Seq(E)
      BY <1>1, <3>1
    <3>3. \A x \in Range(l) : \E k \in DOMAIN l : x = l[k]
      BY DEF Range
    <3> QED BY <3>1, <3>2, <3>3
  <2> QED BY <2>1
<1> QED BY <1>2, <1>3 DEF IsSeq

(* The rules of one rule of the user.                                      *)
LEMMA OneRuleGood ==
    ASSUME NEW s, ~s.panic, IsState(s), Meant(s), NEW list \in {s.rules4, s.rules6}, NEW i \in DOMAIN list,
           NEW p \in Packet, NEW v6, Live(list[i]) => ~Refused(list[i], v6)
    PROVE  LET l == compileRule(s, list[i], v6, p.hook, FALSE)
           IN  /\ p.v6 # v6 => \A k : Good(Inner(p), s, p, l, k, k)
               /\ p.v6 = v6 /\ list = F!List(s, p) => Good(Inner(p), s, p, l, 17 + i, 18 + i)
<1>1. PICK r, h, l : r = list[i] /\ h = p.hook /\ l = compileRule(s, list[i], v6, p.hook, FALSE)
  OBVIOUS
<1>2. ASSUME p.v6 = v6, list = F!List(s, p)
      PROVE  /\ i \in F!Covering(s, p) <=> Live(r) /\ F!RuleCovers(s, r, p)
             /\ i \in F!Covering(s, p) /\ Stage(s, p, 17 + i) => Deciding(s, p, r, v6)
             /\ i \notin F!Covering(s, p) /\ Stage(s, p, 17 + i) => Stage(s, p, 18 + i)
  <2>1. IsSeq(list)
    BY DEF IsState, IsSeq
  <2>2. i \in F!Covering(s, p) <=> Live(r) /\ F!RuleCovers(s, r, p)
    BY <1>1, <1>2, Shared DEF F!Covering
  <2>3. /\ \A j \in F!Covering(s, p) :
                 Stage(s, p, 17 + j) => Deciding(s, p, F!List(s, p)[j], p.v6)
        /\ \A j \in DOMAIN F!List(s, p) :
                 Stage(s, p, 17 + j) /\ j \notin F!Covering(s, p) => Stage(s, p, 18 + j)
    BY <1>2, <2>1, UserStages
  <2> QED BY <1>1, <1>2, <2>2, <2>3
<1>3. CASE ~Live(r) \/ HookOf[r.direction] # h
  <2>1. l = <<>>
    BY <1>1, <1>3, Zenon DEF compileRule
  <2>2. \A k : Good(Inner(p), s, p, <<>>, k, k)
    BY GoodNone
  <2>3. ASSUME p.v6 = v6, list = F!List(s, p) PROVE Good(Inner(p), s, p, <<>>, 17 + i, 18 + i)
    <3>1. i \notin F!Covering(s, p)
      BY <1>1, <1>2, <1>3, <2>3, Shared DEF F!RuleCovers
    <3>2. Stage(s, p, 17 + i) => Stage(s, p, 18 + i)
      BY <1>2, <2>3, <3>1
    <3> QED BY <3>2, GoodNone
  <2> QED BY <1>1, <2>1, <2>2, <2>3
<1>4. CASE Live(r) /\ HookOf[r.direction] = h
  <2>1. PICK q : q = protoVariants(r)
    OBVIOUS
  <2>2. IsSeq(q)
    BY <2>1, VariantsAre, Zenon
  <2>3. PICK ss : ss = [k \in DOMAIN q |-> UserRules(s, r, q[k], v6)]
    OBVIOUS
  <2>4. l = FlattenSeq(ss)
    BY <1>1, <1>4, <2>1, <2>3, Zenon DEF compileRule
  <2>5. /\ r.src \in AddrSpec /\ r.dst \in AddrSpec
        /\ {r.src.set, r.dst.set} \subseteq DOMAIN s.sets \cup {NoSet}
        /\ \A n \in DOMAIN s.sets : TopHoldsTop(Range(s.sets[n]))
    BY <1>1, RuleIs DEF Meant
  <2>6. \A t : IsSeq(ruleMatch(s, r, t, v6))
    BY <2>5, MatchTests
  <2>7. ~Refused(r, v6)
    BY <1>1, <1>4
  <2>8. ASSUME NEW k \in DOMAIN q
        PROVE  LET on == ruleMatch(s, r, q[k], v6)
               IN  /\ IsSeq(ss[k])
                   /\ \A x \in Range(ss[k]) : Passes(x, p) => Meets(on, p)
                   /\ (Meets(on, p) => Deciding(s, p, r, v6))
                      => \A x \in Range(ss[k]) : Sound(s, p, x)
                   /\ Meets(on, p) => \E x \in Range(ss[k]) : Settles(Inner(p), x, p)
    <3>1. PICK on : on = ruleMatch(s, r, q[k], v6)
      OBVIOUS
    <3>2. PICK u : u = UserRules(s, r, q[k], v6)
      OBVIOUS
    <3>3. ss[k] = u
      BY <2>3, <3>2
    <3>4. IsSeq(on)
      BY <2>6, <3>1
    <3>5. /\ IsSeq(u)
          /\ \A x \in Range(u) : Passes(x, p) => Meets(on, p)
          /\ (Meets(on, p) => Deciding(s, p, r, v6))
             => \A x \in Range(u) : Sound(s, p, x)
          /\ Meets(on, p) => \E x \in Range(u) : Settles(Inner(p), x, p)
      <4>1. p.hook \in Hook /\ HookOf[r.direction] = p.hook
        BY <1>1, <1>4, Header
      <4>2. q[k] \in {"tcp", "udp"} <=> Ported(r)
        <5>1. PortsMeant(r) /\ q[k] \in Range(q)
          BY <1>1 DEF Meant, Range
        <5> QED BY <2>1, <5>1, VariantPorted
      <4> QED BY <2>7, <3>1, <3>2, <3>4, <4>1, <4>2, UserRuleSteps
    <3> QED BY <3>1, <3>3, <3>5
  <2>9. PICK M : M = [k \in DOMAIN q |-> Meets(ruleMatch(s, r, q[k], v6), p)]
    OBVIOUS
  <2>10. \A k \in DOMAIN q : M[k] <=> Meets(ruleMatch(s, r, q[k], v6), p)
    BY <2>9
  <2>11. \A k \in DOMAIN q :
            /\ IsSeq(ss[k])
            /\ \A x \in Range(ss[k]) : Passes(x, p) => M[k]
            /\ (M[k] => Deciding(s, p, r, v6)) => \A x \in Range(ss[k]) : Sound(s, p, x)
            /\ M[k] => \E x \in Range(ss[k]) : Settles(Inner(p), x, p)
    BY <2>8, <2>10
  <2>12. IsSeq(ss) /\ DOMAIN ss = DOMAIN q
    <3>1. DOMAIN ss = DOMAIN q /\ ss = [k \in DOMAIN ss |-> ss[k]]
      BY <2>3
    <3> QED BY <2>2, <3>1, FunctionListed
  <2>13. IsSeq(l) /\ \A x : x \in Range(l) <=> \E k \in DOMAIN q : x \in Range(ss[k])
    BY <2>4, <2>11, <2>12, FlattenMembers
  <2>14. PICK OfAny : OfAny <=> \E k \in DOMAIN q : M[k]
    OBVIOUS
  <2>15. /\ p.v6 # v6 => ~OfAny
         /\ p.v6 = v6 => (F!RuleCovers(s, r, p) <=> OfAny)
    <3>1. LET Match == \E t \in Range(protoVariants(r)) : Meets(ruleMatch(s, r, t, v6), p)
          IN  /\ p.v6 # v6 => ~Match
              /\ p.v6 = v6 => (F!RuleCovers(s, r, p) <=> Match)
      BY <1>1, <1>4, VariantsCover
    <3>2. (\E t \in Range(q) : Meets(ruleMatch(s, r, t, v6), p)) <=> \E k \in DOMAIN q : Meets(ruleMatch(s, r, q[k], v6), p)
      BY DEF Range
    <3>3. (\E k \in DOMAIN q : Meets(ruleMatch(s, r, q[k], v6), p)) <=> OfAny
      BY <2>10, <2>14
    <3> QED BY <2>1, <3>1, <3>2, <3>3
  <2>16. ASSUME p.v6 # v6, NEW k PROVE Good(Inner(p), s, p, l, k, k)
    <3>1. \A x \in Range(l) : Sound(s, p, x)
      BY <2>11, <2>13, <2>14, <2>15, <2>16
    <3> QED BY <2>13, <3>1, GoodChunk
  <2>17. ASSUME p.v6 = v6, list = F!List(s, p) PROVE Good(Inner(p), s, p, l, 17 + i, 18 + i)
    <3>1. i \in F!Covering(s, p) <=> OfAny
      BY <1>2, <1>4, <2>15, <2>17
    <3>2. Stage(s, p, 17 + i) /\ OfAny => Deciding(s, p, r, v6)
      BY <1>2, <2>17, <3>1
    <3>3. ASSUME Stage(s, p, 17 + i) PROVE \A x \in Range(l) : Sound(s, p, x)
      BY <2>11, <2>13, <2>14, <3>2, <3>3
    <3>4. ASSUME Stage(s, p, 17 + i), \A x \in Range(l) : ~Settles(Inner(p), x, p)
          PROVE  Stage(s, p, 18 + i)
      <4>1. ~OfAny
        BY <2>11, <2>13, <2>14, <3>4
      <4> QED BY <1>2, <2>17, <3>1, <3>4, <4>1
    <3> QED BY <2>13, <3>3, <3>4, GoodChunk
  <2> QED BY <1>1, <2>16, <2>17
<1> QED BY <1>3, <1>4

(* Lists one after the other, each up to the stage the next begins at.     *)
LEMMA FlattenGood ==
    ASSUME NEW C, NEW s, NEW p, NEW ss, IsSeq(ss), NEW K,
           \A i \in DOMAIN ss : Good(C, s, p, ss[i], K[i - 1], K[i])
    PROVE  Good(C, s, p, FlattenSeq(ss), K[0], K[Len(ss)])
<1>1. \A i \in DOMAIN ss : IsSeq(ss[i])
  BY DEF Good
<1>2. PICK E : ss \in Seq(Seq(E))
  BY <1>1, ListsListed
<1>3. PICK n \in Nat : n = Len(ss) /\ DOMAIN ss = 1 .. n
  BY <1>2
<1>4. CASE n = 0
  <2>1. ss = <<>>
    BY <1>2, <1>3, <1>4
  <2>2. FlattenSeq(<<>>) = <<>>
    BY <1>2, FlattenSteps
  <2>3. Good(C, s, p, <<>>, K[0], K[0])
    BY GoodNone
  <2> QED BY <1>3, <1>4, <2>1, <2>2, <2>3
<1>5. CASE n # 0
  <2>1. PICK f : /\ FlattenSeq(ss) = f[n]
                 /\ \A i \in 1 .. n : f[i] = IF i = 1 THEN ss[i] ELSE f[i - 1] \o ss[i]
    <3>1. Len(ss) # 0
      BY <1>3, <1>5
    <3>2. \E f \in [1 .. Len(ss) -> Seq(E)] :
              FlattenSeq(ss) = f[Len(ss)]
              /\ \A i \in 1 .. Len(ss) : f[i] = IF i = 1 THEN ss[i] ELSE f[i - 1] \o ss[i]
      BY <1>2, <3>1, FlattenFun
    <3> QED BY <1>3, <3>2
  <2> DEFINE T == {i \in 0 .. n : i # 0 => Good(C, s, p, f[i], K[0], K[i])}
  <2>2. 0 \in T
    OBVIOUS
  <2>3. ASSUME NEW i \in 1 .. n, i - 1 \in T PROVE i \in T
    <3>1. Good(C, s, p, ss[i], K[i - 1], K[i])
      BY <1>3
    <3>2. CASE i = 1
      <4>1. f[i] = ss[i] /\ K[i - 1] = K[0]
        BY <2>1, <3>2
      <4>2. Good(C, s, p, f[i], K[0], K[i])
        BY ONLY <3>1, <4>1
      <4> QED BY <4>2
    <3>3. CASE i # 1
      <4>1. f[i] = f[i - 1] \o ss[i]
        BY <2>1, <3>3
      <4>2. Good(C, s, p, f[i - 1], K[0], K[i - 1])
        BY <2>3, <3>3
      <4>3. Good(C, s, p, f[i], K[0], K[i])
        BY ONLY <3>1, <4>1, <4>2, GoodCat
      <4> QED BY <4>3
    <3> QED BY <3>2, <3>3
  <2>4. n \in T
    <3> HIDE DEF T
    <3>1. 0 .. n \subseteq T
      BY <2>2, <2>3, IntervalInduction
    <3> QED BY <3>1
  <2>5. Good(C, s, p, f[n], K[0], K[n])
    BY <1>5, <2>4
  <2> QED BY <1>3, <2>1, <2>5
<1> QED BY <1>4, <1>5

(* The rules of a list, and the whole chain.                               *)
LEMMA ListGood ==
    ASSUME NEW s, ~s.panic, IsState(s), Meant(s), NEW list \in {s.rules4, s.rules6},
           NEW p \in Packet, NEW v6, \A i \in DOMAIN list : Live(list[i]) => ~Refused(list[i], v6)
    PROVE  LET l == CompileList(s, list, v6, p.hook, FALSE)
           IN  /\ p.v6 # v6 => \A k : Good(Inner(p), s, p, l, k, k)
               /\ p.v6 = v6 /\ list = F!List(s, p) => Good(Inner(p), s, p, l, 18, Past18(s, p))
<1>1. PICK ss : ss = [i \in DOMAIN list |-> compileRule(s, list[i], v6, p.hook, FALSE)]
  OBVIOUS
<1>2. CompileList(s, list, v6, p.hook, FALSE) = FlattenSeq(ss)
  BY <1>1, Zenon DEF CompileList
<1>3. IsSeq(list)
  BY DEF IsState, IsSeq
<1>4. IsSeq(ss) /\ DOMAIN ss = DOMAIN list
  <2>1. DOMAIN ss = DOMAIN list /\ ss = [i \in DOMAIN ss |-> ss[i]]
    BY <1>1
  <2> QED BY <1>3, <2>1, FunctionListed
<1>5. PICK n \in Nat : n = Len(ss) /\ n = Len(list) /\ DOMAIN list = 1 .. n
  <2>1. PICK A, B : list \in Seq(A) /\ ss \in Seq(B)
    BY <1>3, <1>4 DEF IsSeq
  <2> QED BY <1>4, <2>1
<1>6. \A i \in DOMAIN list :
         /\ p.v6 # v6 => \A k : Good(Inner(p), s, p, ss[i], k, k)
         /\ p.v6 = v6 /\ list = F!List(s, p) => Good(Inner(p), s, p, ss[i], 17 + i, 18 + i)
  BY <1>1, OneRuleGood
<1>7. ASSUME p.v6 # v6, NEW k PROVE Good(Inner(p), s, p, FlattenSeq(ss), k, k)
  <2>1. PICK K : K = [i \in 0 .. n |-> k]
    OBVIOUS
  <2>2. \A i \in 1 .. n : K[i] = k /\ K[i - 1] = k
    BY <2>1
  <2>3. K[0] = k /\ K[n] = k
    BY <2>1
  <2>4. \A i \in DOMAIN ss : Good(Inner(p), s, p, ss[i], K[i - 1], K[i])
    BY <1>4, <1>5, <1>6, <1>7, <2>2
  <2>5. Good(Inner(p), s, p, FlattenSeq(ss), K[0], K[n])
    BY <1>4, <1>5, <2>4, FlattenGood
  <2> QED BY <2>3, <2>5
<1>8. ASSUME p.v6 = v6, list = F!List(s, p) PROVE Good(Inner(p), s, p, FlattenSeq(ss), 18, Past18(s, p))
  <2>1. PICK K : K = [i \in 0 .. n |-> 18 + i]
    OBVIOUS
  <2>2. \A i \in 1 .. n : K[i] = 18 + i /\ K[i - 1] = 17 + i
    BY <2>1
  <2>3. K[0] = 18 /\ K[n] = 18 + n
    BY <2>1
  <2>4. \A i \in DOMAIN ss : Good(Inner(p), s, p, ss[i], K[i - 1], K[i])
    BY <1>4, <1>5, <1>6, <1>8, <2>2
  <2>5. Good(Inner(p), s, p, FlattenSeq(ss), K[0], K[n])
    BY <1>4, <1>5, <2>4, FlattenGood
  <2>6. Past18(s, p) = 18 + n
    BY <1>5, <1>8 DEF Past18
  <2> QED BY <2>3, <2>5, <2>6
<1> QED BY <1>2, <1>7, <1>8

(* The rules of the user take a packet to the policy, if they do not       *)
(* decide it.                                                              *)
LEMMA UserGood ==
    ASSUME NEW s, ~s.panic, IsState(s), Meant(s), Compiles(s), NEW p \in Packet
    PROVE  Good(Inner(p), s, p, User(s, p.hook), 18, Past18(s, p))
<1>1. /\ \A i \in DOMAIN s.rules4 : Live(s.rules4[i]) => ~Refused(s.rules4[i], FALSE)
      /\ \A i \in DOMAIN s.rules6 : Live(s.rules6[i]) => ~Refused(s.rules6[i], TRUE)
  BY DEF Compiles
<1>2. PICK a : a = CompileList(s, s.rules4, FALSE, p.hook, FALSE)
  OBVIOUS
<1>3. PICK b : b = CompileList(s, s.rules6, TRUE, p.hook, FALSE)
  OBVIOUS
<1>4. User(s, p.hook) = a \o b
  BY <1>2, <1>3 DEF User
<1>5. (p.v6 = TRUE <=> p.v6) /\ (p.v6 = FALSE <=> ~p.v6)
  BY Header, IsTrue
<1>6. ASSUME NEW list \in {s.rules4, s.rules6}, NEW v6,
             \A i \in DOMAIN list : Live(list[i]) => ~Refused(list[i], v6)
      PROVE  /\ p.v6 # v6 => \A k : Good(Inner(p), s, p, CompileList(s, list, v6, p.hook, FALSE), k, k)
             /\ p.v6 = v6 /\ list = F!List(s, p)
                => Good(Inner(p), s, p, CompileList(s, list, v6, p.hook, FALSE), 18, Past18(s, p))
  BY <1>6, ListGood
<1>7. /\ p.v6 # FALSE => \A k : Good(Inner(p), s, p, a, k, k)
      /\ p.v6 = FALSE /\ s.rules4 = F!List(s, p) => Good(Inner(p), s, p, a, 18, Past18(s, p))
  BY <1>1, <1>2, <1>6, Zenon
<1>8. /\ p.v6 # TRUE => \A k : Good(Inner(p), s, p, b, k, k)
      /\ p.v6 = TRUE /\ s.rules6 = F!List(s, p) => Good(Inner(p), s, p, b, 18, Past18(s, p))
  BY <1>1, <1>3, <1>6, Zenon
<1>9. F!List(s, p) = IF p.v6 THEN s.rules6 ELSE s.rules4
  BY DEF F!List
<1>10. CASE p.v6
  <2>1. Good(Inner(p), s, p, a, 18, 18) /\ Good(Inner(p), s, p, b, 18, Past18(s, p))
    BY <1>5, <1>7, <1>8, <1>9, <1>10
  <2> QED BY <1>4, <2>1, GoodCat
<1>11. CASE ~p.v6
  <2>1. Good(Inner(p), s, p, a, 18, Past18(s, p)) /\ Good(Inner(p), s, p, b, Past18(s, p), Past18(s, p))
    BY <1>5, <1>7, <1>8, <1>9, <1>11
  <2> QED BY <1>4, <2>1, GoodCat
<1> QED BY <1>10, <1>11

-----------------------------------------------------------------------------
(* The other chains.                                                       *)

(* What the other chains do to a packet that enters them as it may.        *)

(* The more chains decide a packet, the less is left to show.              *)
LEMMA GoodMore ==
    ASSUME NEW s, NEW p, NEW l, NEW k, NEW m, Good(Inner(p), s, p, l, k, m)
    PROVE  Good(Closed(s, p), s, p, l, k, m)
<1>1. \A r : Settles(Inner(p), r, p) => Settles(Closed(s, p), r, p)
  BY DEF Settles, Closed
<1> QED BY <1>1 DEF Good

(* Rules that only log, or end their chain.                                *)
Ending == {"continue", "return"}
Quietly(r, V) == r.verdict \in V /\ r.meter = {}
Still(l, V) == IsSeq(l) /\ \A r \in Range(l) : Quietly(r, V)

(* Lists of such rules.                                                    *)
LEMMA StillCat ==
    ASSUME NEW V
    PROVE  /\ Still(<<>>, V) /\ \A r : Quietly(r, V) => Still(<<r>>, V)
           /\ \A q, r : Quietly(q, V) /\ Quietly(r, V) => Still(<<q, r>>, V)
           /\ \A a, b : Still(a, V) /\ Still(b, V) => Still(a \o b, V)
<1>1. Range(<<>>) = {}
  BY DEF Range
<1>2. \A r : Range(<<r>>) = {r}
  BY DEF Range
<1>3. \A q, r : Range(<<q, r>>) = {q, r}
  BY DEF Range
<1>4. ASSUME NEW a, NEW b, Still(a, V), Still(b, V) PROVE Still(a \o b, V)
  <2>1. PICK S, T : a \in Seq(S) /\ b \in Seq(T)
    BY <1>4 DEF Still, IsSeq
  <2>2. PICK U : U = S \cup T
    OBVIOUS
  <2>3. a \in Seq(U) /\ b \in Seq(U)
    BY <2>1, <2>2
  <2>4. Range(a \o b) = Range(a) \cup Range(b)
    BY <2>3, ConcatRange
  <2> QED BY <1>4, <2>4, Cat DEF Still
<1> QED BY <1>1, <1>2, <1>3, <1>4, Zero, One, Two DEF Still

(* The rules that do.                                                      *)
LEMMA StillRules ==
    ASSUME NEW on
    PROVE  /\ Quietly(Log(on), {"continue"}) /\ Quietly(Limited(Log(on)), {"continue"})
           /\ Quietly(Return(on), {"return"}) /\ Quietly(Limited(Return(on)), {"return"})
           /\ \A s : Quietly(LogRule(s, on), {"continue"})
           /\ \A r : Quietly(r, {"continue"}) \/ Quietly(r, {"return"}) => Quietly(r, Ending)
<1>1. /\ Quietly(Log(on), {"continue"}) /\ Quietly(Limited(Log(on)), {"continue"})
      /\ Quietly(Return(on), {"return"}) /\ Quietly(Limited(Return(on)), {"return"})
  BY DEF Quietly, Log, Return, Limited, nft, NoMeter
<1>2. \A r : Quietly(r, {"continue"}) \/ Quietly(r, {"return"}) => Quietly(r, Ending)
  BY DEF Quietly, Ending
<1> QED BY <1>1, <1>2 DEF LogRule

(* The logging chains are such, and those that nothing is in.              *)
LEMMA LoggingStill ==
    ASSUME NEW s, NEW h
    PROVE  /\ Still(BeforeLogging(s), {"continue"}) /\ Still(AfterLogging(s, h), {"continue"})
           /\ Still(LoggingDeny(s), Ending)
<1>1. Still(BeforeLogging(s), {"continue"})
  BY StillCat, StillRules DEF BeforeLogging
<1>2. Still(AfterLogging(s, h), {"continue"})
  <2>1. PICK r : r = LogRule(s, <<>>)
    OBVIOUS
  <2>2. Quietly(r, {"continue"})
    BY <2>1, StillRules
  <2>3. Still(<<>>, {"continue"}) /\ Still(<<r>>, {"continue"})
    BY <2>2, StillCat
  <2> QED BY <2>1, <2>3, Zenon DEF AfterLogging
<1>3. Still(LoggingDeny(s), Ending)
  <2>1. PICK a : a = IF Level(s) = "low" THEN Limited(Return(ctState({"invalid"})))
                     ELSE LogRule(s, ctState({"invalid"}))
    OBVIOUS
  <2>2. Quietly(a, Ending)
    BY <2>1, StillRules
  <2>3. PICK b : b = LogRule(s, <<>>)
    OBVIOUS
  <2>4. Quietly(b, Ending)
    BY <2>3, StillRules
  <2>5. LoggingDeny(s) = IF Level(s) = "off" THEN <<>> ELSE <<a, b>>
    BY <2>1, <2>3 DEF LoggingDeny
  <2>6. Still(<<>>, Ending) /\ Still(<<a, b>>, Ending)
    BY <2>2, <2>4, StillCat
  <2> QED BY <2>5, <2>6
<1> QED BY <1>1, <1>2, <1>3

(* So is what the rules of the user log.                                   *)
LEMMA UserLoggingStill ==
    ASSUME NEW s, IsState(s), NEW h PROVE Still(UserLogging(s, h), Ending)
<1>1. ASSUME NEW list, IsSeq(list), NEW v6 PROVE Still(CompileList(s, list, v6, h, TRUE), Ending)
  <2>1. ASSUME NEW r PROVE Still(compileRule(s, r, v6, h, TRUE), Ending)
    <3>1. PICK q : q = protoVariants(r)
      OBVIOUS
    <3>2. IsSeq(q)
      BY <3>1, VariantsAre, Zenon
    <3>3. PICK ss : ss = [k \in DOMAIN q |-> LoggingRules(s, r, q[k], v6)]
      OBVIOUS
    <3>4. compileRule(s, r, v6, h, TRUE) = <<>> \/ compileRule(s, r, v6, h, TRUE) = FlattenSeq(ss)
      BY <3>1, <3>3, Zenon DEF compileRule
    <3>5. \A k : Still(LoggingRules(s, r, k, v6), Ending)
      <4>1. \A on : Still(<<Limited(Log(on)), Return(on)>>, Ending)
        BY StillCat, StillRules
      <4>2. Still(<<>>, Ending)
        BY StillCat
      <4> QED BY <4>1, <4>2, Zenon DEF LoggingRules
    <3>6. IsSeq(ss) /\ DOMAIN ss = DOMAIN q
      <4>1. DOMAIN ss = DOMAIN q /\ ss = [k \in DOMAIN ss |-> ss[k]]
        BY <3>3
      <4> QED BY <3>2, <4>1, FunctionListed
    <3>7. \A k \in DOMAIN ss : Still(ss[k], Ending)
      BY <3>3, <3>5, <3>6
    <3>8. Still(FlattenSeq(ss), Ending)
      BY <3>6, <3>7, FlattenMembers DEF Still
    <3> QED BY <3>4, <3>8, StillCat
  <2>2. PICK ss : ss = [i \in DOMAIN list |-> compileRule(s, list[i], v6, h, TRUE)]
    OBVIOUS
  <2>3. CompileList(s, list, v6, h, TRUE) = FlattenSeq(ss)
    BY <2>2, Zenon DEF CompileList
  <2>4. IsSeq(ss) /\ DOMAIN ss = DOMAIN list
    <3>1. DOMAIN ss = DOMAIN list /\ ss = [k \in DOMAIN ss |-> ss[k]]
      BY <2>2
    <3> QED BY <1>1, <3>1, FunctionListed
  <2>5. \A k \in DOMAIN ss : Still(ss[k], Ending)
    BY <2>1, <2>2, <2>4
  <2> QED BY <2>3, <2>4, <2>5, FlattenMembers DEF Still
<1>2. IsSeq(s.rules4) /\ IsSeq(s.rules6)
  BY DEF IsState, IsSeq
<1>3. PICK a, b : a = CompileList(s, s.rules4, FALSE, h, TRUE) /\ b = CompileList(s, s.rules6, TRUE, h, TRUE)
  OBVIOUS
<1>4. Still(a, Ending) /\ Still(b, Ending)
  BY <1>1, <1>2, <1>3
<1>5. Still(<<>>, Ending) /\ Still(<<Return(<<>>)>>, Ending)
  BY StillCat, StillRules
<1>6. UserLogging(s, h) = (IF Level(s) = "off" THEN <<Return(<<>>)>> ELSE <<>>) \o a \o b
  BY <1>3, Zenon DEF UserLogging
<1>7. PICK u : u = IF Level(s) = "off" THEN <<Return(<<>>)>> ELSE <<>>
  OBVIOUS
<1>8. Still(u, Ending)
  BY <1>5, <1>7
<1>9. Still((u \o a) \o b, Ending)
  BY <1>4, <1>8, StillCat
<1> QED BY <1>6, <1>7, <1>9

(* Two rules, the second met only if the first decides nothing.            *)
LEMMA GoodPair ==
    ASSUME NEW C, NEW s, NEW p, NEW k, NEW m, NEW a, NEW b,
           NEW l, IsSeq(l), DOMAIN l = 1 .. 2, l[1] = a, l[2] = b,
           Stage(s, p, k) => Sound(s, p, a),
           Stage(s, p, k) /\ ~Settles(C, a, p) => Sound(s, p, b),
           Stage(s, p, k) /\ ~Settles(C, a, p) /\ ~Settles(C, b, p) => Stage(s, p, m)
    PROVE  Good(C, s, p, l, k, m)
<1>3. \A i \in 1 .. 2 : i = 1 \/ i = 2
  OBVIOUS
<1>4. 1 \in 1 .. 2 - 1 /\ 1 \in 1 .. 2 /\ 2 \in 1 .. 2
  OBVIOUS
<1> QED BY <1>3, <1>4 DEF Good

(* IPV6=no: only loopback is left of it.                                   *)
LEMMA NoIPv6Good ==
    ASSUME NEW C, NEW s, NEW p \in Packet, ~IPv6(s)
    PROVE  Good(C, s, p, NoIPv6(p.hook), 0, 1)
<1>1. PICK d : d = Drop(nfproto(TRUE))
  OBVIOUS
<1>2. /\ d.verdict = "drop" /\ ~d.limited /\ d.meter = {}
      /\ Passes(d, p) <=> p.v6
  <2>1. PICK on : on = nfproto(TRUE)
    OBVIOUS
  <2>2. Meets(on, p) <=> p.v6 = TRUE
    BY <2>1, FieldTests
  <2>3. Meets(on, p) <=> p.v6
    BY <2>2, Header, IsTrue
  <2> QED BY <1>1, <2>1, <2>3, RuleKinds
<1>3. Stage(s, p, 0) /\ ~F!Loopback(p) => Sound(s, p, d)
  BY <1>2, StageVerdicts DEF Sound, Final
<1>4. ~Settles(C, d, p) => ~p.v6
  BY <1>2 DEF Settles, Final
<1>5. Stage(s, p, 0) /\ (F!Loopback(p) \/ ~p.v6) => Stage(s, p, 1)
  BY StageSteps
<1>6. ASSUME NEW on, Meets(on, p) <=> p.v6 /\ F!Loopback(p)
      PROVE  Good(C, s, p, <<Accept(on)>> \o <<d>>, 0, 1)
  <2>1. PICK a : a = Accept(on)
    OBVIOUS
  <2>2. /\ a.verdict = "accept" /\ ~a.limited /\ a.meter = {}
        /\ Passes(a, p) <=> p.v6 /\ F!Loopback(p)
    BY <1>6, <2>1, RuleKinds
  <2>3. Stage(s, p, 0) => Sound(s, p, a)
    BY <2>2, StageVerdicts DEF Sound, Final
  <2>4. ~Settles(C, a, p) => ~(p.v6 /\ F!Loopback(p))
    BY <2>2 DEF Settles, Final
  <2>5. ~p.v6 => Sound(s, p, d)
    BY <1>2 DEF Sound
  <2>6. PICK l : l = <<a>> \o <<d>>
    OBVIOUS
  <2>7. IsSeq(l) /\ Len(l) = 2 /\ l[1] = a /\ l[2] = d
    <3>0. \A x : <<x>>[1] = x
      OBVIOUS
    <3>1. PICK u, v : u = <<a>> /\ v = <<d>> /\ u[1] = a /\ v[1] = d
      BY <3>0
    <3>2. IsSeq(u) /\ IsSeq(v) /\ Len(u) = 1 /\ Len(v) = 1
      BY <3>1, One
    <3>3. /\ IsSeq(u \o v) /\ Len(u \o v) = Len(u) + Len(v)
          /\ \A i \in 1 .. Len(u) + Len(v) : (u \o v)[i] = IF i <= Len(u) THEN u[i] ELSE v[i - Len(u)]
      BY <3>2, Cat
    <3> QED BY <2>6, <3>1, <3>2, <3>3
  <2>8. DOMAIN l = 1 .. 2
    BY <2>7 DEF IsSeq
  <2>9. Good(C, s, p, l, 0, 1)
    BY <1>3, <1>4, <1>5, <2>3, <2>4, <2>5, <2>7, <2>8, GoodPair
  <2> QED BY <2>1, <2>6, <2>9
<1>8. CASE p.hook = "input"
  <2>1. PICK u, v : u = nfproto(TRUE) /\ v = iif({"lo"})
    OBVIOUS
  <2>2. IsSeq(u) /\ IsSeq(v) /\ (Meets(u, p) <=> p.v6 = TRUE) /\ (Meets(v, p) <=> p.in \in {"lo"})
    BY <2>1, FieldTests
  <2>3. Meets(u \o v, p) <=> p.v6 /\ F!Loopback(p)
    BY <1>8, <2>2, Header, IsTrue, TestCat DEF F!Loopback
  <2>4. NoIPv6(p.hook) = <<Accept(u \o v)>> \o <<d>>
    BY <1>1, <1>8, <2>1 DEF NoIPv6
  <2> QED BY <1>6, <2>3, <2>4
<1>9. CASE p.hook = "output"
  <2>1. PICK u, v : u = nfproto(TRUE) /\ v = oif({"lo"})
    OBVIOUS
  <2>2. IsSeq(u) /\ IsSeq(v) /\ (Meets(u, p) <=> p.v6 = TRUE) /\ (Meets(v, p) <=> p.out \in {"lo"})
    BY <2>1, FieldTests
  <2>3. Meets(u \o v, p) <=> p.v6 /\ F!Loopback(p)
    BY <1>9, <2>2, Header, IsTrue, TestCat DEF F!Loopback
  <2>4. NoIPv6(p.hook) = <<Accept(u \o v)>> \o <<d>>
    BY <1>1, <1>9, <2>1 DEF NoIPv6
  <2> QED BY <1>6, <2>3, <2>4
<1>10. CASE p.hook = "forward"
  <2>1. ~F!Loopback(p)
    BY <1>10 DEF F!Loopback
  <2>2. Good(C, s, p, <<d>>, 0, 1)
    BY <1>3, <1>4, <1>5, <2>1, GoodOne
  <2>3. NoIPv6(p.hook) = <<>> \o <<d>>
    BY <1>1, <1>10 DEF NoIPv6
  <2>4. <<>> \o <<d>> = <<d>>
    OBVIOUS
  <2> QED BY <2>2, <2>3, <2>4
<1> QED BY <1>8, <1>9, <1>10, Header DEF Hook

(* The jumps of a base chain, one by one.                                  *)
LEMMA JumpsAre ==
    ASSUME NEW h
    PROVE  Jumps(h) = <<jump(<<>>, <<"before-logging", h>>), jump(<<>>, <<"before", h>>),
                        jump(<<>>, <<"user", h>>), jump(<<>>, <<"after", h>>)>>
                      \o <<jump(<<>>, <<"after-logging", h>>), jump(<<>>, <<"reject", h>>),
                           jump(<<>>, <<"track", h>>)>>
<1> DEFINE parts == <<"before-logging", "before", "user", "after", "after-logging", "reject", "track">>
<1>1. Jumps(h) = [i \in 1 .. 7 |-> jump(<<>>, <<parts[i], h>>)]
  BY DEF Jumps
<1>2. /\ parts[1] = "before-logging" /\ parts[2] = "before" /\ parts[3] = "user" /\ parts[4] = "after"
      /\ parts[5] = "after-logging" /\ parts[6] = "reject" /\ parts[7] = "track"
  OBVIOUS
<1> HIDE DEF parts
<1>3. PICK x : x = [i \in 1 .. 7 |-> jump(<<>>, <<parts[i], h>>)]
  OBVIOUS
<1>4. x = <<x[1], x[2], x[3], x[4], x[5], x[6], x[7]>>
  <2>1. DOMAIN x = 1 .. 7 /\ x \in Seq({x[i] : i \in 1 .. 7})
    BY <1>3
  <2> QED BY <2>1
<1>5. \A i \in 1 .. 7 : x[i] = jump(<<>>, <<parts[i], h>>)
  BY <1>3
<1>6. /\ x[1] = jump(<<>>, <<"before-logging", h>>) /\ x[2] = jump(<<>>, <<"before", h>>)
      /\ x[3] = jump(<<>>, <<"user", h>>) /\ x[4] = jump(<<>>, <<"after", h>>)
      /\ x[5] = jump(<<>>, <<"after-logging", h>>) /\ x[6] = jump(<<>>, <<"reject", h>>)
      /\ x[7] = jump(<<>>, <<"track", h>>)
  <2>1. /\ x[1] = jump(<<>>, <<parts[1], h>>) /\ x[2] = jump(<<>>, <<parts[2], h>>)
        /\ x[3] = jump(<<>>, <<parts[3], h>>) /\ x[4] = jump(<<>>, <<parts[4], h>>)
        /\ x[5] = jump(<<>>, <<parts[5], h>>) /\ x[6] = jump(<<>>, <<parts[6], h>>)
        /\ x[7] = jump(<<>>, <<parts[7], h>>)
    BY <1>5
  <2> QED BY ONLY <1>2, <2>1, Zenon
<1>7. \A a, b, c, d, e, f, g : <<a, b, c, d, e, f, g>> = <<a, b, c, d>> \o <<e, f, g>>
  OBVIOUS
<1>8. x = <<x[1], x[2], x[3], x[4]>> \o <<x[5], x[6], x[7]>>
  BY <1>4, <1>7
<1> QED BY ONLY <1>1, <1>3, <1>6, <1>8

(* A chain that decides no packet of its own.                              *)
LEMMA Open ==
    ASSUME NEW s, NEW p, NEW part, part \in {"before-logging", "before", "user", "after",
                                            "after-logging", "reject", "track"},
           p.hook \in Hook, <<part, p.hook>> \notin Closed(s, p),
           NEW j, j \in DOMAIN Chain(s, <<part, p.hook>>)
    PROVE  ~Settles(Inner(p), Chain(s, <<part, p.hook>>)[j], p)
<1>1. PICK name : name = <<part, p.hook>>
  OBVIOUS
<1>2. name \in ChainName
  BY <1>1, Names
<1>3. name[1] = part
  BY <1>1
<1>4. Depth(name) = 1
  BY <1>3 DEF Depth
<1> QED BY <1>1, <1>2, <1>4 DEF Closed

(* A base chain takes a packet past all that decides it.                   *)
LEMMA BaseGood ==
    ASSUME NEW s, ~s.panic, IsState(s), Meant(s), Compiles(s), NEW p \in Packet
    PROVE  Good(Closed(s, p), s, p, Base(s, p.hook), 0, Past18(s, p))
<1> DEFINE G(l, k, m) == Good(Closed(s, p), s, p, l, k, m)
<1>1. PICK h : h = p.hook
  OBVIOUS
<1>2. h \in Hook
  BY <1>1, Header
<1>3. PICK pre : pre = IF IPv6(s) THEN <<>> ELSE NoIPv6(h)
  OBVIOUS
<1>4. Base(s, h) = pre \o Jumps(h)
  BY <1>3 DEF Base
<1>5. G(pre, 0, 1)
  <2>1. CASE IPv6(s)
    <3>1. Stage(s, p, 0) => Stage(s, p, 1)
      BY <2>1, StageSteps
    <3> QED BY <1>3, <2>1, <3>1, GoodNone
  <2>2. CASE ~IPv6(s)
    BY <1>1, <1>3, <2>2, NoIPv6Good
  <2> QED BY <2>1, <2>2
<1>6. PICK x : x = Past18(s, p)
  OBVIOUS
<1>7. Meets(<<>>, p)
  BY FieldTests
<1>8. G(<<jump(<<>>, <<"before-logging", h>>)>>, 1, 1)
  BY <1>1, <1>2, Entries, JumpOne
<1>9. G(<<jump(<<>>, <<"before", h>>)>>, 1, 18)
  <2>1. Chain(s, <<"before", h>>) = Before(s, h)
    BY DEF Chain
  <2>2. TopHoldsTop(LiveBans(s))
    BY DEF Meant
  <2>3. Good(Inner(p), s, p, Before(s, h), 1, 18)
    BY <1>1, <2>2, BeforeGood
  <2>4. Stage(s, p, 1) /\ <<"before", h>> \notin Closed(s, p) => Stage(s, p, 18)
    BY <1>1, <1>2, <2>1, <2>3, Open DEF Good
  <2>5. PICK n : n = <<"before", h>>
    OBVIOUS
  <2>6. Stage(s, p, 1) => Entry(s, p, n)
    BY <1>1, <1>2, <2>5, Entries
  <2> QED BY <1>7, <2>4, <2>5, <2>6, JumpOne
<1>10. G(<<jump(<<>>, <<"user", h>>)>>, 18, x)
  <2>1. Chain(s, <<"user", h>>) = User(s, h)
    BY DEF Chain
  <2>3. Good(Inner(p), s, p, User(s, h), 18, x)
    BY <1>1, <1>6, UserGood
  <2>4. Stage(s, p, 18) /\ <<"user", h>> \notin Closed(s, p) => Stage(s, p, x)
    BY <1>1, <1>2, <2>1, <2>3, Open DEF Good
  <2>5. PICK n : n = <<"user", h>>
    OBVIOUS
  <2>6. Stage(s, p, 18) => Entry(s, p, n)
    BY <1>1, <1>2, <2>5, Entries
  <2> QED BY <1>7, <2>4, <2>5, <2>6, JumpOne
<1>11. \A part \in {"after", "after-logging", "reject", "track"} : G(<<jump(<<>>, <<part, h>>)>>, x, x)
  <2>1. ASSUME NEW part \in {"after", "after-logging", "reject", "track"}
        PROVE  G(<<jump(<<>>, <<part, h>>)>>, x, x)
    <3>1. PICK n : n = <<part, h>>
      OBVIOUS
    <3>2. Stage(s, p, x) => Entry(s, p, n)
      BY <1>1, <1>2, <1>6, <3>1, Entries
    <3> QED BY <3>1, <3>2, JumpOne
  <2> QED BY <2>1
<1> HIDE DEF G
<1>12. PICK a, b, c, d, e, f, g :
          /\ a = jump(<<>>, <<"before-logging", h>>) /\ b = jump(<<>>, <<"before", h>>)
          /\ c = jump(<<>>, <<"user", h>>) /\ d = jump(<<>>, <<"after", h>>)
          /\ e = jump(<<>>, <<"after-logging", h>>) /\ f = jump(<<>>, <<"reject", h>>)
          /\ g = jump(<<>>, <<"track", h>>)
  OBVIOUS
<1>13. /\ G(<<a>>, 1, 1) /\ G(<<b>>, 1, 18) /\ G(<<c>>, 18, x) /\ G(<<d>>, x, x)
       /\ G(<<e>>, x, x) /\ G(<<f>>, x, x) /\ G(<<g>>, x, x)
  BY <1>8, <1>9, <1>10, <1>11, <1>12
<1>14. G(<<a, b, c, d>>, 1, x)
  BY <1>13, GoodFour DEF G
<1>15. G(<<e, f, g>>, x, x)
  BY <1>13, GoodThree DEF G
<1>16. Jumps(h) = <<a, b, c, d>> \o <<e, f, g>>
  BY <1>12, JumpsAre
<1>17. G(Jumps(h), 1, x)
  BY <1>14, <1>15, <1>16, GoodCat DEF G
<1> QED BY <1>1, <1>4, <1>5, <1>6, <1>17, GoodCat DEF G

(* What is left to the policy of the hook gets its verdict.                *)
LEMMA PolicyDecides ==
    ASSUME NEW s, IsState(s), Meant(s), Compiles(s), NEW p \in Packet,
           \A j \in DOMAIN Base(s, p.hook) : ~Settles(Closed(s, p), Base(s, p.hook)[j], p)
    PROVE  F!Verdicts(s, p) = {BasePolicy(s, p.hook)}
<1>1. CASE s.panic
  BY <1>1, StageVerdicts DEF BasePolicy
<1>2. CASE ~s.panic
  <2>1. PICK h : h = p.hook /\ h \in Hook
    BY Header
  <2>2. PICK f, name : f = jump(<<>>, name) /\ name = <<"reject", h>>
    OBVIOUS
  <2>3. \E j \in DOMAIN Base(s, h) : Base(s, h)[j] = f
    <3>1. \E pre, a, b, c, d, e, g : IsSeq(pre) /\ Base(s, h) = pre \o (<<a, b, c, d>> \o <<e, f, g>>)
      <4>1. PICK pre : pre = IF IPv6(s) THEN <<>> ELSE NoIPv6(h)
        OBVIOUS
      <4>2. IsSeq(pre)
        BY <2>1, <4>1, Zero, NoIPv6Good DEF Good
      <4>3. Base(s, h) = pre \o Jumps(h)
        BY <1>2, <4>1 DEF Base
      <4> QED BY <2>2, <4>2, <4>3, JumpsAre
    <3>2. PICK pre, a, b, c, d, e, g : IsSeq(pre) /\ Base(s, h) = pre \o (<<a, b, c, d>> \o <<e, f, g>>)
      BY <3>1
    <3>3. PICK u, v : u = <<a, b, c, d>> /\ v = <<e, f, g>>
      OBVIOUS
    <3>4. IsSeq(u) /\ Len(u) = 4
      BY <3>3, Four
    <3>5. IsSeq(v) /\ Len(v) = 3 /\ v[2] = f
      <4>1. v \in Seq({e, f, g}) /\ Len(v) = 3 /\ v[2] = f
        BY <3>3
      <4> QED BY <4>1 DEF IsSeq
    <3>6. PICK w : w = u \o v
      OBVIOUS
    <3>7. IsSeq(w) /\ Len(w) = 7 /\ w[6] = f
      <4>1. /\ IsSeq(u \o v) /\ Len(u \o v) = Len(u) + Len(v)
            /\ \A i \in 1 .. Len(u) + Len(v) : (u \o v)[i] = IF i <= Len(u) THEN u[i] ELSE v[i - Len(u)]
        BY <3>4, <3>5, Cat
      <4> QED BY <3>4, <3>5, <3>6, <4>1
    <3>8. PICK n \in Nat : n = Len(pre)
      BY <3>2, Zero, Cat
    <3>9. PICK z : z = pre \o w
      OBVIOUS
    <3>10. IsSeq(z) /\ Len(z) = n + 7 /\ z[n + 6] = f
      <4>1. /\ IsSeq(pre \o w) /\ Len(pre \o w) = Len(pre) + Len(w)
            /\ \A i \in 1 .. Len(pre) + Len(w) : (pre \o w)[i] = IF i <= Len(pre) THEN pre[i] ELSE w[i - Len(pre)]
        BY <3>2, <3>7, Cat
      <4> QED BY <3>7, <3>8, <3>9, <4>1
    <3>11. n + 6 \in DOMAIN z
      BY <3>8, <3>10 DEF IsSeq
    <3> QED BY <3>2, <3>3, <3>6, <3>9, <3>10, <3>11
  <2>4. PICK on : on = <<>> /\ f = jump(on, name) /\ Meets(on, p)
    BY <2>2, FieldTests
  <2>5. name \notin Closed(s, p)
    <3>1. ~Settles(Closed(s, p), f, p)
      BY <2>1, <2>3
    <3>2. f.verdict = "jump" /\ f.to = name /\ ~f.limited /\ f.meter = {} /\ Passes(f, p)
      BY <2>4, RuleKinds
    <3> QED BY <3>1, <3>2 DEF Settles
  <2>6. PolicyFor(s, h) # "reject"
    <3>1. ASSUME PolicyFor(s, h) = "reject" PROVE FALSE
      <4>1. Chain(s, <<"reject", h>>) = <<Reject(<<>>)>>
        BY <3>1 DEF Chain, RejectChain
      <4>2. PICK r : r = Reject(on)
        OBVIOUS
      <4>3. r.verdict = "reject" /\ ~r.limited /\ r.meter = {} /\ Passes(r, p)
        BY <2>4, <4>2, RuleKinds
      <4>4. Settles(Inner(p), r, p)
        BY <4>3 DEF Settles, Final
      <4>5. 1 \in DOMAIN <<r>> /\ <<r>>[1] = r
        OBVIOUS
      <4>6. Chain(s, <<"reject", h>>) = <<r>>
        BY <2>4, <4>1, <4>2
      <4> QED BY <2>1, <2>2, <2>5, <4>4, <4>5, <4>6, Open
    <3> QED BY <3>1
  <2>7. Stage(s, p, 0)
    BY <1>2, StageSteps
  <2>8. Stage(s, p, Past18(s, p))
    BY <1>2, <2>7, BaseGood DEF Good
  <2>9. IsSeq(F!List(s, p))
    BY DEF F!List, IsState, IsSeq
  <2>10. F!Verdicts(s, p) = {F!PolicyVerdict(s, h)}
    BY <2>1, <2>8, <2>9, UserStages
  <2>11. F!PolicyVerdict(s, h) = BasePolicy(s, h)
    BY <1>2, <2>6, Shared DEF F!PolicyVerdict, BasePolicy
  <2> QED BY <2>1, <2>10, <2>11
<1> QED BY <1>1, <1>2

(* The chain that accepts for limit rules.                                 *)
Granting == <<"user-limit-accept", "">>

(* What a rule of a chain does to a packet in it.                          *)
Right(s, p, name, r) ==
    Passes(r, p) => /\ r.verdict \in Final => r.verdict \in F!Verdicts(s, p)
                    /\ r.verdict = "accept" /\ name # Granting => F!Verdicts(s, p) = {"accept"}
                    /\ r.verdict = "jump" => Entry(s, p, r.to)
                    /\ r.verdict = "return" => name \notin Closed(s, p)
                    /\ r.meter \subseteq {MeterOf(Decider(s, p), p.v6)}

(* Ways to be right.                                                       *)
LEMMA RightIs ==
    ASSUME NEW s, NEW p, NEW name, NEW r
    PROVE  /\ Sound(s, p, r) => Right(s, p, name, r)
           /\ Quietly(r, {"continue"}) => Right(s, p, name, r)
           /\ Quietly(r, {"return"}) /\ name \notin Closed(s, p) => Right(s, p, name, r)
           /\ Quietly(r, Ending) /\ name \notin Closed(s, p) => Right(s, p, name, r)
           /\ Quietly(r, Final) /\ F!Verdicts(s, p) = {r.verdict} => Right(s, p, name, r)
           /\ Quietly(r, Final) /\ r.verdict \in F!Verdicts(s, p)
              /\ (r.verdict = "accept" => name = Granting) => Right(s, p, name, r)
           /\ Quietly(r, {"jump"}) /\ Entry(s, p, r.to) => Right(s, p, name, r)
<1>1. Sound(s, p, r) => Right(s, p, name, r)
  BY DEF Right, Sound, Final
<1>2. /\ Quietly(r, {"continue"}) => Right(s, p, name, r)
      /\ Quietly(r, {"return"}) /\ name \notin Closed(s, p) => Right(s, p, name, r)
      /\ Quietly(r, Ending) /\ name \notin Closed(s, p) => Right(s, p, name, r)
  BY DEF Right, Quietly, Final, Ending
<1>3. /\ Quietly(r, Final) /\ F!Verdicts(s, p) = {r.verdict} => Right(s, p, name, r)
      /\ Quietly(r, Final) /\ r.verdict \in F!Verdicts(s, p)
         /\ (r.verdict = "accept" => name = Granting) => Right(s, p, name, r)
  BY DEF Right, Quietly, Final
<1>4. Quietly(r, {"jump"}) /\ Entry(s, p, r.to) => Right(s, p, name, r)
  BY DEF Right, Quietly, Final
<1> QED BY <1>1, <1>2, <1>3, <1>4

(* The chains that decide a packet by what they are.                       *)
LEMMA ClosedIs ==
    ASSUME NEW s, NEW p, NEW name
    PROVE  /\ Depth(name) # 1 /\ name \notin Inner(p) => name \notin Closed(s, p)
           /\ name[1] \notin {"user-limit", "user-limit-accept", "skip-to-policy", "not-local"}
              => name \notin Inner(p)
           /\ name[1] = "not-local" /\ ~F!Foreign(p) => name \notin Inner(p)
           /\ name[1] \in {"logging-deny", "user-logging", "user-egress"} => name \notin Closed(s, p)
<1>2. name[1] = "not-local" /\ ~F!Foreign(p) => name \notin Inner(p)
  <2>1. \A n \in {"skip-to-policy"} \X Hook : n[1] = "skip-to-policy"
    OBVIOUS
  <2>2. <<"user-limit", "">>[1] = "user-limit" /\ <<"user-limit-accept", "">>[1] = "user-limit-accept"
    OBVIOUS
  <2> QED BY <2>1, <2>2 DEF Inner
<1>1. name[1] \in {"logging-deny", "user-logging", "user-egress"} => Depth(name) # 1
  BY DEF Depth
<1> QED BY <1>1, <1>2, InnerParts DEF Closed

(* The name of a chain a packet may be in.                                 *)
HookPart == {"base", "before-logging", "before", "user", "after", "after-logging",
             "user-logging", "reject", "track", "skip-to-policy"}
SharedPart == {"not-local", "logging-deny", "user-limit", "user-limit-accept", "user-egress"}

(* They are all.                                                           *)
LEMMA NameIs ==
    ASSUME NEW name \in ChainName, NEW h, name[2] = "" \/ name[2] = h
    PROVE  (name[1] \in HookPart /\ name[2] = h) \/ (name[1] \in SharedPart /\ name[2] = "")
<1> DEFINE E == {""}
<1>1. ChainName = (HookPart \X Hook) \cup (SharedPart \X E)
  BY DEF ChainName, HookPart, SharedPart
<1>2. "" \notin Hook /\ \A e : e \in E <=> e = ""
  BY DEF Hook
<1> HIDE DEF E
<1>3. CASE name \in HookPart \X Hook
  <2>1. PICK part \in HookPart, k \in Hook : name = <<part, k>>
    BY ONLY <1>3, SharedName
  <2>2. name[1] = part /\ name[2] = k
    BY <2>1
  <2>3. k = h
    BY <1>2, <2>1, <2>2
  <2> QED BY <2>1, <2>2, <2>3
<1>4. CASE name \in SharedPart \X E
  <2>1. PICK part \in SharedPart, k \in E : name = <<part, k>>
    BY ONLY <1>4, SharedName
  <2>2. name[1] = part /\ name[2] = k
    BY <2>1
  <2>3. k = ""
    BY <1>2, <2>1
  <2> QED BY <2>1, <2>2, <2>3
<1> QED BY <1>1, <1>3, <1>4

(* Rules that only log, and what they are in.                              *)
LEMMA StillRight ==
    ASSUME NEW s, NEW p, NEW name, NEW l,
           Still(l, {"continue"}) \/ (Still(l, Ending) /\ name \notin Closed(s, p))
    PROVE  \A i \in DOMAIN l : Right(s, p, name, l[i])
<1>1. \A i \in DOMAIN l : l[i] \in Range(l)
  BY DEF Range
<1> QED BY <1>1, RightIs DEF Still

(* bfw-after leads to the policy.                                          *)
LEMMA AfterRight ==
    ASSUME NEW s, NEW p, p.hook \in Hook, Stage(s, p, Past18(s, p)), NEW name
    PROVE  \A i \in DOMAIN After(p.hook) : Right(s, p, name, After(p.hook)[i])
<1>1. PICK h, to : h = p.hook /\ to = <<"skip-to-policy", h>>
  OBVIOUS
<1>2. Entry(s, p, to)
  BY <1>1, Entries
<1>3. \A on : Right(s, p, name, jump(on, to))
  <2>1. ASSUME NEW on PROVE Right(s, p, name, jump(on, to))
    <3>1. PICK r : r = jump(on, to)
      OBVIOUS
    <3>2. r.verdict = "jump" /\ r.to = to /\ r.meter = {}
      BY <3>1 DEF jump, nft, NoMeter
    <3>3. Quietly(r, {"jump"})
      BY <3>2 DEF Quietly
    <3> QED BY <1>2, <3>1, <3>2, <3>3, RightIs
  <2> QED BY <2>1
<1>4. CASE h # "input"
  BY <1>1, <1>4 DEF After
<1>5. CASE h = "input"
  <2> DEFINE u == jump(nfproto(FALSE) \o fibAddrType({"broadcast"}), to)
             v == jump(nfproto(FALSE) \o l4proto({"udp"}) \o dport({137, 138}), to)
             w == jump(nfproto(FALSE) \o l4proto({"tcp"}) \o dport({139, 445}), to)
             x == jump(nfproto(FALSE) \o l4proto({"udp"}) \o sport({67}) \o dport({68}), to)
             y == jump(nfproto(TRUE) \o l4proto({"udp"}) \o dport({546, 547}), to)
  <2>4. After(h) = <<u, v, w, x, y>>
    BY <1>1, <1>5 DEF After
  <2>5. /\ Right(s, p, name, u) /\ Right(s, p, name, v) /\ Right(s, p, name, w)
        /\ Right(s, p, name, x) /\ Right(s, p, name, y)
    BY <1>3
  <2> HIDE DEF u, v, w, x, y
  <2>6. \A i \in DOMAIN <<u, v, w, x, y>> : <<u, v, w, x, y>>[i] \in {u, v, w, x, y}
    OBVIOUS
  <2> QED BY <1>1, <2>4, <2>5, <2>6
<1> QED BY <1>4, <1>5

(* What the policy leaves to a chain gets the policy's verdict in it.      *)
LEMMA PolicyRight ==
    ASSUME NEW s, IsState(s), NEW p \in Packet, Stage(s, p, Past18(s, p)), NEW name
    PROVE  /\ \A i \in DOMAIN RejectChain(s, p.hook) : Right(s, p, name, RejectChain(s, p.hook)[i])
           /\ \A i \in DOMAIN Track(s, p.hook) : Right(s, p, name, Track(s, p.hook)[i])
           /\ Right(s, p, name, policyVerdict(PolicyFor(s, p.hook)))
<1>1. PICK h : h = p.hook
  OBVIOUS
<1>2. F!Verdicts(s, p) = {F!PolicyVerdict(s, h)}
  <2>1. IsSeq(F!List(s, p))
    BY DEF F!List, IsState, IsSeq
  <2> QED BY <1>1, <2>1, UserStages
<1>3. F!PolicyVerdict(s, h) = IF PolicyFor(s, h) = "allow" THEN "accept"
                              ELSE IF PolicyFor(s, h) = "reject" THEN "reject" ELSE "drop"
  BY Shared DEF F!PolicyVerdict
<1>4. \A i, r : i \in DOMAIN <<r>> => <<r>>[i] = r
  OBVIOUS
<1>5. ASSUME PolicyFor(s, h) = "reject" PROVE \A on : Right(s, p, name, Reject(on))
  <2>1. \A on : Reject(on).verdict = "reject" /\ Reject(on).meter = {}
    BY RuleKinds
  <2>2. F!Verdicts(s, p) = {"reject"}
    BY <1>2, <1>3, <1>5
  <2>3. "reject" \in Final
    BY DEF Final
  <2>4. ASSUME NEW on PROVE Right(s, p, name, Reject(on))
    <3>1. PICK r : r = Reject(on)
      OBVIOUS
    <3>2. Quietly(r, Final) /\ F!Verdicts(s, p) = {r.verdict}
      BY <2>1, <2>2, <2>3, <3>1 DEF Quietly
    <3> QED BY <3>1, <3>2, RightIs
  <2> QED BY <2>4
<1>6. ASSUME PolicyFor(s, h) = "allow" PROVE \A on : Right(s, p, name, Accept(on))
  <2>1. \A on : Accept(on).verdict = "accept" /\ Accept(on).meter = {}
    BY RuleKinds
  <2>2. F!Verdicts(s, p) = {"accept"}
    BY <1>2, <1>3, <1>6
  <2>3. "accept" \in Final
    BY DEF Final
  <2>4. ASSUME NEW on PROVE Right(s, p, name, Accept(on))
    <3>1. PICK r : r = Accept(on)
      OBVIOUS
    <3>2. Quietly(r, Final) /\ F!Verdicts(s, p) = {r.verdict}
      BY <2>1, <2>2, <2>3, <3>1 DEF Quietly
    <3> QED BY <3>1, <3>2, RightIs
  <2> QED BY <2>4
<1>7. ASSUME PolicyFor(s, h) \notin {"allow", "reject"} PROVE \A on : Right(s, p, name, Drop(on))
  <2>1. \A on : Drop(on).verdict = "drop" /\ Drop(on).meter = {}
    BY RuleKinds
  <2>2. F!Verdicts(s, p) = {"drop"}
    BY <1>2, <1>3, <1>7
  <2>3. "drop" \in Final
    BY DEF Final
  <2>4. ASSUME NEW on PROVE Right(s, p, name, Drop(on))
    <3>1. PICK r : r = Drop(on)
      OBVIOUS
    <3>2. Quietly(r, Final) /\ F!Verdicts(s, p) = {r.verdict}
      BY <2>1, <2>2, <2>3, <3>1 DEF Quietly
    <3> QED BY <3>1, <3>2, RightIs
  <2> QED BY <2>4
<1>8. \A i \in DOMAIN RejectChain(s, h) : Right(s, p, name, RejectChain(s, h)[i])
  <2>1. CASE PolicyFor(s, h) = "reject"
    <3>1. PICK r : r = Reject(<<>>)
      OBVIOUS
    <3>2. RejectChain(s, h) = <<r>> /\ Right(s, p, name, r)
      BY <1>5, <2>1, <3>1 DEF RejectChain
    <3> QED BY <1>4, <3>2
  <2>2. CASE PolicyFor(s, h) # "reject"
    BY <2>2 DEF RejectChain
  <2> QED BY <2>1, <2>2
<1>9. \A i \in DOMAIN Track(s, h) : Right(s, p, name, Track(s, h)[i])
  <2>1. CASE PolicyFor(s, h) = "allow"
    <3>1. PICK r : r = Accept(l4proto({"tcp", "udp"}) \o ctState({"new"}))
      OBVIOUS
    <3>2. Track(s, h) = <<r>> /\ Right(s, p, name, r)
      BY <1>6, <2>1, <3>1 DEF Track
    <3> QED BY <1>4, <3>2
  <2>2. CASE PolicyFor(s, h) # "allow"
    BY <2>2 DEF Track
  <2> QED BY <2>1, <2>2
<1>10. Right(s, p, name, policyVerdict(PolicyFor(s, h)))
  BY <1>5, <1>6, <1>7 DEF policyVerdict
<1> QED BY <1>1, <1>8, <1>9, <1>10

(* bfw-not-local drops what is not addressed to this host, and returns the *)
(* rest.                                                                   *)
LEMMA NotLocalRight ==
    ASSUME NEW s, NEW p \in Packet, p.hook = "input", ~p.v6, Stage(s, p, 13),
           NEW name, name[1] = "not-local", NEW i, i \in DOMAIN NotLocal, i > 1 => F!Foreign(p)
    PROVE  Right(s, p, name, NotLocal[i])
<1>1. PICK a, b, c :
         /\ a = Return(fibAddrType({"local", "multicast", "broadcast"}))
         /\ b = Limited(jump(<<>>, <<"logging-deny", "">>)) /\ c = Drop(<<>>)
  OBVIOUS
<1>2. NotLocal = <<a, b, c>>
  BY <1>1 DEF NotLocal
<1>3. i \in 1 .. 3 /\ (i = 1 => NotLocal[i] = a) /\ (i = 2 => NotLocal[i] = b) /\ (i = 3 => NotLocal[i] = c)
  BY <1>2
<1>4. Right(s, p, name, a)
  <2>1. PICK on : on = fibAddrType({"local", "multicast", "broadcast"})
    OBVIOUS
  <2>2. Meets(on, p) => p.fib \in {"local", "multicast", "broadcast"}
    BY <2>1, FieldTests
  <2>3. a.verdict = "return" /\ a.meter = {} /\ (Passes(a, p) <=> Meets(on, p))
    BY <1>1, <2>1 DEF Return, nft, NoMeter, Passes, Meets
  <2>4. Meets(on, p) => ~F!Foreign(p)
    BY <2>2 DEF F!Foreign
  <2>5. Meets(on, p) => name \notin Inner(p)
    BY <2>4, ClosedIs
  <2>6. Depth(name) # 1
    BY DEF Depth
  <2>7. Meets(on, p) => name \notin Closed(s, p)
    BY <2>5, <2>6, ClosedIs
  <2> QED BY <2>3, <2>7 DEF Right, Final
<1>5. Right(s, p, name, b)
  <2>1. PICK to : to = <<"logging-deny", "">>
    OBVIOUS
  <2>2. Entry(s, p, to)
    BY <2>1, Header, Entries
  <2>3. Quietly(b, {"jump"}) /\ b.to = to
    BY <1>1, <2>1 DEF Quietly, jump, nft, Limited, NoMeter
  <2> QED BY <2>2, <2>3, RightIs
<1>6. ASSUME F!Foreign(p) PROVE Right(s, p, name, c)
  <2>1. c.verdict = "drop" /\ c.meter = {}
    BY <1>1, RuleKinds
  <2>2. F!Verdicts(s, p) = {"drop"}
    BY <1>6, StageVerdicts
  <2> QED BY <2>1, <2>2, RightIs DEF Final, Quietly
<1>7. i = 1 \/ i = 2 \/ i = 3
  BY <1>3
<1>8. CASE i = 1
  BY <1>3, <1>4, <1>8
<1>9. CASE i = 2
  BY <1>3, <1>5, <1>9
<1>10. CASE i = 3
  BY <1>3, <1>6, <1>10
<1> QED BY <1>7, <1>8, <1>9, <1>10

(* The chains of limit rules accept or reject.                             *)
LEMMA LimitRight ==
    ASSUME NEW s, NEW p, NEW name
    PROVE  /\ F!Verdicts(s, p) = {"accept", "reject"}
              => \A i \in DOMAIN UserLimit(s) : Right(s, p, name, UserLimit(s)[i])
           /\ F!Verdicts(s, p) \in {{"accept"}, {"accept", "reject"}}
              => Right(s, p, Granting, Accept(<<>>))
<1>1. ASSUME F!Verdicts(s, p) = {"accept", "reject"}
      PROVE  \A i \in DOMAIN UserLimit(s) : Right(s, p, name, UserLimit(s)[i])
  <2>1. PICK a, b : a = Limited(Log(<<>>)) /\ b = Reject(<<>>)
    OBVIOUS
  <2>2. Quietly(a, {"continue"}) /\ Quietly(b, Final) /\ b.verdict = "reject"
    BY <2>1, StillRules, RuleKinds DEF Quietly, Final
  <2>3. Right(s, p, name, a) /\ Right(s, p, name, b)
    BY <1>1, <2>2, RightIs
  <2>4. UserLimit(s) = <<>> \o <<b>> \/ UserLimit(s) = <<a>> \o <<b>>
    BY <2>1, Zenon DEF UserLimit
  <2>5. \A i \in DOMAIN UserLimit(s) : UserLimit(s)[i] \in {a, b}
    <3>0. Range(<<>>) = {} /\ \A x : Range(<<x>>) = {x}
      BY DEF Range
    <3>1. PICK u, v, w : u = <<>> /\ v = <<a>> /\ w = <<b>>
      OBVIOUS
    <3>2. Range(u) = {} /\ Range(v) = {a} /\ Range(w) = {b}
      BY <3>0, <3>1
    <3>3. u \in Seq({a, b}) /\ v \in Seq({a, b}) /\ w \in Seq({a, b})
      BY <3>1
    <3>4. Range(u \o w) = Range(u) \cup Range(w) /\ Range(v \o w) = Range(v) \cup Range(w)
      BY <3>3, ConcatRange
    <3>5. Range(UserLimit(s)) \subseteq {a, b}
      BY <2>4, <3>1, <3>2, <3>4
    <3> QED BY <3>5 DEF Range
  <2> QED BY <2>3, <2>5
<1>2. ASSUME F!Verdicts(s, p) \in {{"accept"}, {"accept", "reject"}}
      PROVE  Right(s, p, Granting, Accept(<<>>))
  <2>1. PICK r : r = Accept(<<>>)
    OBVIOUS
  <2>2. r.verdict = "accept" /\ r.meter = {}
    BY <2>1, RuleKinds
  <2>3. Quietly(r, Final) /\ r.verdict \in F!Verdicts(s, p)
    BY <1>2, <2>2 DEF Quietly, Final
  <2> QED BY <2>1, <2>3, RightIs
<1> QED BY <1>1, <1>2

(* What Good says of a list, said of its rules.                            *)
LEMMA GoodRight ==
    ASSUME NEW s, NEW p, NEW name, NEW l, NEW k, NEW m,
           Good(Closed(s, p), s, p, l, k, m), Stage(s, p, k),
           NEW i, i \in DOMAIN l, \A j \in 1 .. i - 1 : ~Settles(Closed(s, p), l[j], p)
    PROVE  Right(s, p, name, l[i])
<1>1. Sound(s, p, l[i])
  BY DEF Good
<1> QED BY <1>1, RightIs

(* A packet that no panic drops is at its start.                           *)
LEMMA Starts == \A s, p : ~s.panic => Stage(s, p, 0)
BY DEF Stage

(* Lists of no rule and of one.                                            *)
LEMMA Alone == DOMAIN <<>> = {} /\ \A x, k : k \in DOMAIN <<x>> => <<x>>[k] = x
OBVIOUS

(* A rule of any chain does to a packet what Firewall says.                *)
LEMMA ChainRight ==
    ASSUME NEW s, IsState(s), Meant(s), Compiles(s), NEW p \in Packet,
           NEW name \in ChainName, name[2] = "" \/ name[2] = p.hook, name[1] # "base" => Entry(s, p, name),
           NEW i, i \in DOMAIN Chain(s, name),
           \A j \in 1 .. i - 1 : ~Settles(Closed(s, p), Chain(s, name)[j], p),
           name[1] = "not-local" /\ i > 1 => F!Foreign(p)
    PROVE  Right(s, p, name, Chain(s, name)[i])
<1>1. PICK h, part : h = p.hook /\ part = name[1]
  OBVIOUS
<1>2. h \in Hook
  BY <1>1, Header
<1>3. PICK l : l = Chain(s, name)
  OBVIOUS
<1>4. part \in {"base", "before-logging", "before", "user", "after", "after-logging",
                "user-logging", "reject", "track", "skip-to-policy"}
      => name[2] = h
  <2>1. (name[1] \in HookPart /\ name[2] = h) \/ (name[1] \in SharedPart /\ name[2] = "")
    BY <1>1, NameIs
  <2>2. \A x \in SharedPart : x \notin HookPart
    BY DEF HookPart, SharedPart
  <2> QED BY <1>1, <2>1, <2>2 DEF HookPart
<1>5. TopHoldsTop(LiveBans(s))
  BY DEF Meant
<1>6. \A k \in Nat : Stage(s, p, k) => ~s.panic
  BY DEF Stage
<1>7. CASE part = "base"
  <2>1. l = Base(s, h)
    BY <1>1, <1>3, <1>4, <1>7 DEF Chain
  <2>2. CASE s.panic
    <3>1. l = <<>>
      BY <2>1, <2>2 DEF Base
    <3> QED BY <1>3, <3>1, Alone
  <2>3. CASE ~s.panic
    <3>1. Good(Closed(s, p), s, p, l, 0, Past18(s, p))
      BY <1>1, <2>1, <2>3, BaseGood
    <3>2. Stage(s, p, 0)
      BY <2>3, Starts
    <3> QED BY <1>3, <3>1, <3>2, GoodRight
  <2> QED BY <2>2, <2>3
<1>8. CASE part = "before-logging"
  <2>1. l = BeforeLogging(s)
    BY <1>1, <1>3, <1>8 DEF Chain
  <2> QED BY <1>3, <2>1, LoggingStill, StillRight
<1>9. CASE part = "before"
  <2>1. l = Before(s, h) /\ Stage(s, p, 1)
    BY <1>1, <1>3, <1>4, <1>9 DEF Chain, Entry
  <2>2. Good(Closed(s, p), s, p, l, 1, 18)
    BY <1>1, <1>5, <2>1, BeforeGood, GoodMore
  <2> QED BY <1>3, <2>1, <2>2, GoodRight
<1>10. CASE part = "user"
  <2>1. l = User(s, h) /\ Stage(s, p, 18)
    BY <1>1, <1>3, <1>4, <1>10 DEF Chain, Entry
  <2>2. ~s.panic
    BY <1>6, <2>1
  <2>3. Good(Closed(s, p), s, p, l, 18, Past18(s, p))
    BY <1>1, <2>1, <2>2, UserGood, GoodMore
  <2> QED BY <1>3, <2>1, <2>3, GoodRight
<1>11. CASE part = "after"
  <2>1. l = After(h) /\ Stage(s, p, Past18(s, p))
    BY <1>1, <1>3, <1>4, <1>11 DEF Chain, Entry
  <2> QED BY <1>1, <1>2, <1>3, <2>1, AfterRight
<1>12. CASE part = "after-logging"
  <2>1. l = AfterLogging(s, h)
    BY <1>1, <1>3, <1>4, <1>12 DEF Chain
  <2> QED BY <1>3, <2>1, LoggingStill, StillRight
<1>13. CASE part = "user-logging"
  <2>1. l = UserLogging(s, h)
    BY <1>1, <1>3, <1>4, <1>13 DEF Chain
  <2>2. name \notin Closed(s, p)
    BY <1>1, <1>13, ClosedIs
  <2> QED BY <1>3, <2>1, <2>2, UserLoggingStill, StillRight
<1>14. CASE part \in {"reject", "track", "skip-to-policy"}
  <2>1. Stage(s, p, Past18(s, p))
    BY <1>1, <1>14 DEF Entry
  <2>2. CASE part = "reject"
    <3>1. l = RejectChain(s, h)
      BY <1>1, <1>3, <1>4, <2>2 DEF Chain
    <3> QED BY <1>1, <1>3, <2>1, <3>1, PolicyRight
  <2>3. CASE part = "track"
    <3>1. l = Track(s, h)
      BY <1>1, <1>3, <1>4, <2>3 DEF Chain
    <3> QED BY <1>1, <1>3, <2>1, <3>1, PolicyRight
  <2>4. CASE part = "skip-to-policy"
    <3>1. PICK r : r = policyVerdict(PolicyFor(s, h))
      OBVIOUS
    <3>2. l = <<r>>
      BY <1>1, <1>3, <1>4, <2>4, <3>1 DEF Chain
    <3>3. l[i] = r
      BY <1>3, <3>2, Alone
    <3> QED BY <1>1, <1>3, <2>1, <3>1, <3>3, PolicyRight
  <2> QED BY <1>14, <2>2, <2>3, <2>4
<1>15. CASE part = "not-local"
  <2>1. l = NotLocal
    BY <1>1, <1>3, <1>15 DEF Chain
  <2>2. p.hook = "input" /\ ~p.v6 /\ Stage(s, p, 13)
    BY <1>1, <1>15 DEF Entry
  <2> QED BY <1>1, <1>3, <1>15, <2>1, <2>2, NotLocalRight
<1>16. CASE part = "logging-deny"
  <2>1. l = LoggingDeny(s)
    BY <1>1, <1>3, <1>16 DEF Chain
  <2>2. name \notin Closed(s, p)
    BY <1>1, <1>16, ClosedIs
  <2> QED BY <1>3, <2>1, <2>2, LoggingStill, StillRight
<1>17. CASE part = "user-limit"
  <2>1. l = UserLimit(s) /\ F!Verdicts(s, p) = {"accept", "reject"}
    BY <1>1, <1>3, <1>17 DEF Chain, Entry
  <2> QED BY <1>3, <2>1, LimitRight
<1>18. CASE part = "user-limit-accept"
  <2>1. PICK r : r = Accept(<<>>)
    OBVIOUS
  <2>2. l = <<r>> /\ F!Verdicts(s, p) \in {{"accept"}, {"accept", "reject"}}
    BY <1>1, <1>3, <1>18, <2>1 DEF Chain, Entry
  <2>3. l[i] = r
    BY <1>3, <2>2, Alone
  <2>4. name = Granting
    <3>1. "user-limit-accept" \in SharedPart /\ "user-limit-accept" \notin HookPart
      BY DEF SharedPart, HookPart
    <3>2. name[2] = "" /\ name[1] = "user-limit-accept"
      BY <1>1, <1>18, <3>1, NameIs
    <3>3. PICK a, b : name = <<a, b>>
      <4>1. PICK E : E = {""}
        OBVIOUS
      <4>2. ChainName = (HookPart \X Hook) \cup (SharedPart \X E)
        BY <4>1 DEF ChainName, SharedPart, HookPart
      <4> QED BY ONLY name \in ChainName, <4>2, SharedName
    <3> QED BY <3>2, <3>3 DEF Granting
  <2> QED BY <1>3, <2>1, <2>2, <2>3, <2>4, LimitRight
<1>19. CASE part = "user-egress"
  <2>1. l = <<>>
    BY <1>1, <1>3, <1>19 DEF Chain
  <2> QED BY <1>3, <2>1, Alone
<1>20. part \in {"base", "before-logging", "before", "user", "after", "after-logging",
                 "user-logging", "reject", "track", "skip-to-policy", "not-local",
                 "logging-deny", "user-limit", "user-limit-accept", "user-egress"}
  BY <1>1, NameIs DEF HookPart, SharedPart
<1> QED BY <1>7, <1>8, <1>9, <1>10, <1>11, <1>12, <1>13, <1>14, <1>15, <1>16, <1>17, <1>18, <1>19, <1>20

(* The chains that decide every packet hold a rule that matches all.       *)
LEMMA InnerSettles ==
    ASSUME NEW s, NEW p, NEW name, name \in Inner(p), NEW C
    PROVE  \E j \in DOMAIN Chain(s, name) : Settles(C, Chain(s, name)[j], p)
<1>1. PICK on : on = <<>> /\ Meets(on, p)
  BY FieldTests
<1>2. Settles(C, Accept(on), p) /\ Settles(C, Drop(on), p) /\ Settles(C, Reject(on), p)
  BY <1>1, RuleKinds DEF Settles, Final
<1>3. PICK l : l = Chain(s, name)
  OBVIOUS
<1>4. \A r, x : r = x => 1 \in DOMAIN <<r>> /\ <<r>>[1] = x
  OBVIOUS
<1>5. name[1] \in {"user-limit", "user-limit-accept", "skip-to-policy", "not-local"}
  BY InnerParts
<1>6. CASE name[1] = "skip-to-policy"
  <2>1. PICK r : r = policyVerdict(PolicyFor(s, name[2]))
    OBVIOUS
  <2>2. l = <<r>>
    BY <1>3, <1>6, <2>1 DEF Chain
  <2>3. r = Accept(on) \/ r = Drop(on) \/ r = Reject(on)
    BY <1>1, <2>1 DEF policyVerdict
  <2> QED BY <1>2, <1>3, <1>4, <2>2, <2>3
<1>7. CASE name[1] = "user-limit-accept"
  <2>1. PICK r : r = Accept(on)
    OBVIOUS
  <2>2. l = <<r>>
    BY <1>1, <1>3, <1>7, <2>1 DEF Chain
  <2> QED BY <1>2, <1>3, <1>4, <2>1, <2>2
<1>8. CASE name[1] = "not-local"
  <2>1. PICK a, b, c : /\ a = Return(fibAddrType({"local", "multicast", "broadcast"}))
                       /\ b = Limited(jump(<<>>, <<"logging-deny", "">>)) /\ c = Drop(on)
    OBVIOUS
  <2>2. l = <<a, b, c>>
    BY <1>1, <1>3, <1>8, <2>1 DEF Chain, NotLocal
  <2>3. 3 \in DOMAIN <<a, b, c>> /\ <<a, b, c>>[3] = c
    OBVIOUS
  <2> QED BY <1>2, <1>3, <2>1, <2>2, <2>3
<1>9. CASE name[1] = "user-limit"
  <2>1. PICK a, b : a = Limited(Log(<<>>)) /\ b = Reject(on)
    OBVIOUS
  <2>2. PICK u, w : u = (IF Level(s) = "off" THEN <<>> ELSE <<a>>) /\ w = <<b>>
    OBVIOUS
  <2>3. l = u \o w
    BY <1>1, <1>3, <1>9, <2>1, <2>2 DEF Chain, UserLimit
  <2>4. u \in Seq({a, b}) /\ w \in Seq({a, b})
    <3>1. \A S : \A x \in S : <<x>> \in Seq(S)
      OBVIOUS
    <3>2. \A S : <<>> \in Seq(S)
      OBVIOUS
    <3> QED BY <2>2, <3>1, <3>2
  <2>5. b \in Range(w)
    BY <1>4, <2>2 DEF Range
  <2>6. b \in Range(l)
    BY <2>3, <2>4, <2>5, ConcatRange
  <2> QED BY <1>2, <1>3, <2>1, <2>6 DEF Range
<1> QED BY <1>5, <1>6, <1>7, <1>8, <1>9

(* A chain that came to its end decides no packet of its own.              *)
LEMMA EndOpen ==
    ASSUME NEW s, NEW p, NEW name \in ChainName,
           \A j \in DOMAIN Chain(s, name) : ~Settles(Closed(s, p), Chain(s, name)[j], p)
    PROVE  name \notin Closed(s, p)
<1>1. name \notin Inner(p)
  BY InnerSettles
<1>2. \A r : Settles(Inner(p), r, p) => Settles(Closed(s, p), r, p)
  BY DEF Settles, Closed
<1> QED BY <1>1, <1>2 DEF Closed

(* The first rule of bfw-not-local is for what is addressed to the host.   *)
LEMMA NotLocalFirst ==
    ASSUME NEW s, NEW p, NEW name, name[1] = "not-local"
    PROVE  /\ Chain(s, name)[1].verdict = "return" /\ ~Chain(s, name)[1].limited
           /\ Chain(s, name)[1].meter = {}
           /\ Entry(s, p, name) /\ ~Passes(Chain(s, name)[1], p) => F!Foreign(p)
<1>1. PICK a, on : a = Return(on) /\ on = fibAddrType({"local", "multicast", "broadcast"})
  OBVIOUS
<1>2. \A x, y, z : <<x, y, z>>[1] = x
  OBVIOUS
<1>3. Chain(s, name)[1] = a
  BY <1>1, <1>2, Zenon DEF Chain, NotLocal
<1>4. /\ a.verdict = "return" /\ ~a.limited /\ a.meter = {}
      /\ Passes(a, p) <=> Meets(on, p)
  BY <1>1 DEF Return, nft, NoMeter, Passes, Meets
<1>5. Meets(on, p) <=> p.fib \in {"local", "multicast", "broadcast"}
  BY <1>1, FieldTests
<1>6. Entry(s, p, name) => p.hook = "input" /\ ~p.v6
  BY DEF Entry
<1> QED BY <1>3, <1>4, <1>5, <1>6 DEF F!Foreign

(* A rule that decides nothing leaves a packet where it may be.            *)
LEMMA NextFine ==
    ASSUME NEW s, NEW p, NEW name, NEW i, Fine(s, p, name, i), IsSeq(Chain(s, name)),
           i \in DOMAIN Chain(s, name), ~Settles(Closed(s, p), Chain(s, name)[i], p),
           name[1] = "not-local" /\ i = 1 => ~Passes(Chain(s, name)[i], p)
    PROVE  Fine(s, p, name, i + 1)
<1>1. PICK l : l = Chain(s, name)
  OBVIOUS
<1>2. Len(l) \in Nat /\ DOMAIN l = 1 .. Len(l)
  BY <1>1 DEF IsSeq
<1>3. i \in 1 .. Len(l)
  BY <1>1, <1>2
<1>4. i + 1 \in 1 .. Len(l) + 1
  BY <1>2, <1>3
<1>5. \A j \in 1 .. (i + 1) - 1 : ~Settles(Closed(s, p), l[j], p)
  <2>1. \A j \in 1 .. i - 1 : ~Settles(Closed(s, p), l[j], p)
    BY <1>1 DEF Fine
  <2>2. \A j \in 1 .. (i + 1) - 1 : j = i \/ j \in 1 .. i - 1
    BY <1>3
  <2> QED BY <1>1, <2>1, <2>2
<1>6. name[1] = "not-local" => F!Foreign(p)
  <2>1. name[1] = "not-local" => Entry(s, p, name)
    BY DEF Fine
  <2>2. name[1] = "not-local" /\ i > 1 => F!Foreign(p)
    BY DEF Fine
  <2>3. i = 1 \/ i > 1
    BY <1>3
  <2> QED BY <2>1, <2>2, <2>3, NotLocalFirst
<1> QED BY <1>1, <1>4, <1>5, <1>6 DEF Fine

-----------------------------------------------------------------------------
(* The walk.                                                               *)

(* No configuration says what it does not mean.                            *)
AllMeant == \A c \in Config : Meant(content[c])

(* What a packet on its way is in.                                         *)
LEMMA OnTheWay ==
    ASSUME NestInv, AgreeInv, Walking, AllMeant, NEW s, s = content[config]
    PROVE  /\ IsState(s) /\ Meant(s) /\ Compiles(s) /\ pkt \in Packet /\ pkt.hook \in Hook
           /\ Fine(s, pkt, chain, pc)
           /\ \A i \in DOMAIN stack : /\ Called(s, pkt, stack[i], Callee(i))
                                      /\ stack[i].chain[1] = "base" <=> i = 1
           /\ stack = <<>> <=> chain[1] = "base"
           /\ ruleset[chain] = Chain(s, chain)
           /\ IsSeq(Chain(s, chain))
           /\ chain[1] # "base" => ~s.panic
<1>1. config \in Applicable /\ ruleset = compile(config) /\ pkt \in Packet \cup {NoPacket}
  BY DEF NestInv
<1>2. pkt # NoPacket /\ verdict = Undecided
  BY DEF Walking
<1>3. IsState(s) /\ Meant(s) /\ Compiles(s)
  BY <1>1, ContentAssumption DEF Applicable, AllMeant
<1>4. pkt \in Packet /\ pkt.hook \in Hook
  BY <1>1, <1>2, Header
<1>5. chain \in ChainName /\ (s.panic => chain[1] = "base")
  BY DEF NestInv
<1>6. ruleset[chain] = Chain(s, chain)
  BY <1>1, <1>5 DEF compile
<1>7. IsSeq(Chain(s, chain))
  BY <1>3, <1>5, ChainNests DEF Nests
<1>8. /\ Fine(s, pkt, chain, pc)
      /\ \A i \in DOMAIN stack : /\ Called(s, pkt, stack[i], Callee(i))
                                 /\ stack[i].chain[1] = "base" <=> i = 1
      /\ stack = <<>> <=> chain[1] = "base"
  BY <1>2 DEF AgreeInv
<1> QED BY <1>3, <1>4, <1>5, <1>6, <1>7, <1>8

(* What the rule it is at does to it.                                      *)
LEMMA RuleRight ==
    ASSUME NestInv, AgreeInv, AtRule, AllMeant, NEW s, s = content[config], NEW r, r = Current
    PROVE  /\ pc \in DOMAIN Chain(s, chain) /\ r = Chain(s, chain)[pc]
           /\ Right(s, pkt, chain, r)
<1>1. Walking
  BY DEF AtRule
<1>2. PICK l : l = Chain(s, chain)
  OBVIOUS
<1>3. ruleset[chain] = l /\ IsSeq(l) /\ Fine(s, pkt, chain, pc)
  BY <1>1, <1>2, OnTheWay
<1>4. pc \in 1 .. Len(l) + 1 /\ pc <= Len(l)
  BY <1>2, <1>3 DEF AtRule, Fine
<1>5. pc \in DOMAIN l
  BY <1>3, <1>4 DEF IsSeq
<1>6. r = l[pc]
  BY <1>3 DEF Current
<1>7. /\ chain \in ChainName /\ (chain[2] = "" \/ chain[2] = pkt.hook)
      /\ chain[1] # "base" => Entry(s, pkt, chain)
      /\ \A j \in 1 .. pc - 1 : ~Settles(Closed(s, pkt), Chain(s, chain)[j], pkt)
      /\ chain[1] = "not-local" /\ pc > 1 => F!Foreign(pkt)
  BY <1>3 DEF Fine
<1>8. IsState(s) /\ Meant(s) /\ Compiles(s) /\ pkt \in Packet
  BY <1>1, OnTheWay
<1>9. Right(s, pkt, chain, Chain(s, chain)[pc])
  BY <1>2, <1>5, <1>7, <1>8, ChainRight
<1> QED BY <1>2, <1>5, <1>6, <1>9

(* The packet goes on to the next rule.                                    *)
LEMMA AgreeNext ==
    ASSUME NestInv, AgreeInv, AtRule, AllMeant, GoTo(chain, pc + 1, stack),
           \/ Current.verdict = "continue"
           \/ ~Passes(Current, pkt) \/ Current.limited
           \/ Current.meter # {}
    PROVE  AgreeInv'
<1>1. PICK s, r : s = content[config] /\ r = Current
  OBVIOUS
<1>2. Walking
  BY DEF AtRule
<1>3. pc \in DOMAIN Chain(s, chain) /\ r = Chain(s, chain)[pc]
  BY <1>1, RuleRight
<1>4. ~Settles(Closed(s, pkt), r, pkt)
  BY <1>1 DEF Settles, Final
<1>5. Fine(s, pkt, chain, pc) /\ IsSeq(Chain(s, chain))
  BY <1>1, <1>2, OnTheWay
<1>6. chain[1] = "not-local" /\ pc = 1 => ~Passes(r, pkt)
  BY <1>1, <1>3, NotLocalFirst
<1>7. Fine(s, pkt, chain, pc + 1)
  BY <1>3, <1>4, <1>5, <1>6, NextFine
<1>8. /\ \A i \in DOMAIN stack : /\ Called(s, pkt, stack[i], Callee(i))
                                 /\ stack[i].chain[1] = "base" <=> i = 1
      /\ stack = <<>> <=> chain[1] = "base"
  BY <1>1, <1>2, OnTheWay
<1>9. /\ chain' = chain /\ pc' = pc + 1 /\ stack' = stack /\ pkt' = pkt /\ verdict' = Undecided
      /\ content[config'] = s
  BY <1>1, <1>2 DEF GoTo, table, Walking
<1>10. \A i \in DOMAIN stack' : Callee(i)' = Callee(i)
  BY <1>9 DEF Callee
<1> QED BY <1>7, <1>8, <1>9, <1>10 DEF AgreeInv

(* It gets its verdict.                                                    *)
LEMMA AgreeDecided ==
    ASSUME Walking, NEW v, v # Undecided, v \in F!Verdicts(content[config], pkt), Decided(v)
    PROVE  AgreeInv'
BY DEF AgreeInv, Decided, table

(* It jumps to another chain.                                              *)
LEMMA AgreeJump ==
    ASSUME NestInv, AgreeInv, AtRule, AllMeant, Passes(Current, pkt), Current.verdict = "jump",
           GoTo(Current.to, 1, Append(stack, [chain |-> chain, pc |-> pc + 1]))
    PROVE  AgreeInv'
<1>1. PICK s, r, to : s = content[config] /\ r = Current /\ to = r.to
  OBVIOUS
<1>2. Walking
  BY DEF AtRule
<1>3. /\ pc \in DOMAIN Chain(s, chain) /\ r = Chain(s, chain)[pc]
      /\ Entry(s, pkt, to)
  BY <1>1, RuleRight DEF Right
<1>4. PICK top, a : top = [chain |-> chain, pc |-> pc + 1] /\ a = Append(stack, top)
  OBVIOUS
<1>5. /\ chain' = to /\ pc' = 1 /\ stack' = a /\ pkt' = pkt /\ verdict' = Undecided
      /\ content[config'] = s
  BY <1>1, <1>2, <1>4 DEF GoTo, table, Walking
<1>6. /\ IsState(s) /\ Meant(s) /\ Compiles(s)
      /\ Fine(s, pkt, chain, pc)
      /\ \A i \in DOMAIN stack : /\ Called(s, pkt, stack[i], Callee(i))
                                 /\ stack[i].chain[1] = "base" <=> i = 1
      /\ stack = <<>> <=> chain[1] = "base"
  BY <1>1, <1>2, OnTheWay
<1>7. PICK n \in Nat : n = Len(stack) /\ DOMAIN stack = 1 .. n
  BY DEF NestInv
<1>8. pc \in Nat /\ stack \in Seq(Frame)
  BY DEF NestInv
<1>9. chain \in ChainName /\ pc # 0
  BY <1>2 DEF NestInv
<1>10. top \in Frame
  BY <1>4, <1>8, <1>9 DEF Frame
<1>11. /\ a \in Seq(Frame) /\ Len(a) = n + 1 /\ DOMAIN a = 1 .. n + 1 /\ a[n + 1] = top
       /\ \A i \in 1 .. n : a[i] = stack[i]
  BY <1>4, <1>7, <1>8, <1>10
<1>12. to \in ChainName /\ to[1] # "base" /\ (to[2] = "" \/ to[2] = pkt.hook)
  BY <1>3 DEF Entry
<1>13. ~s.panic
  <2>1. ASSUME s.panic PROVE FALSE
    <3>1. chain[1] = "base"
      BY <1>1, <1>2, <2>1, OnTheWay
    <3>2. Chain(s, chain) = <<>>
      BY <2>1, <3>1 DEF Chain, Base
    <3> QED BY <1>3, <3>2, Alone
  <2> QED BY <2>1
<1>14. Fine(s, pkt, to, 1)
  <2>1. IsSeq(Chain(s, to))
    BY <1>6, <1>12, <1>13, ChainNests DEF Nests
  <2>2. Len(Chain(s, to)) \in Nat
    BY <2>1, Zero, Cat
  <2>3. 1 \in 1 .. Len(Chain(s, to)) + 1 /\ 1 .. 1 - 1 = {} /\ ~(1 > 1)
    BY <2>2
  <2> QED BY <1>3, <1>12, <2>3 DEF Fine
<1>15. \A i \in 1 .. n : a[i] = stack[i] /\ (i < n => Callee(i) = stack[i + 1].chain) /\ (i = n => Callee(i) = chain)
  BY <1>7, <1>11 DEF Callee
<1>16. ASSUME NEW i \in DOMAIN a
       PROVE  /\ Called(s, pkt, a[i], IF i = Len(a) THEN to ELSE a[i + 1].chain)
              /\ a[i].chain[1] = "base" <=> i = 1
  <2>1. CASE i = n + 1
    <3>1. top.chain = chain /\ top.pc - 1 = pc
      BY <1>4, <1>8
    <3>2. Called(s, pkt, top, to)
      BY <1>1, <1>3, <1>6, <3>1 DEF Called
    <3>3. chain[1] = "base" <=> n = 0
      BY <1>6, <1>7, <1>8
    <3> QED BY <1>7, <1>11, <2>1, <3>1, <3>2, <3>3
  <2>2. CASE i \in 1 .. n
    <3>1. Callee(i) = IF i = Len(a) THEN to ELSE a[i + 1].chain
      <4>1. i # Len(a) /\ i + 1 \in 1 .. n + 1
        BY <1>7, <1>11, <2>2
      <4>2. CASE i = n
        BY <1>4, <1>11, <1>15, <2>2, <4>1, <4>2
      <4>3. CASE i < n
        <5>1. i + 1 \in 1 .. n
          BY <1>7, <2>2, <4>3
        <5> QED BY <1>11, <1>15, <2>2, <4>1, <4>3, <5>1
      <4> QED BY <1>7, <2>2, <4>2, <4>3
    <3> QED BY <1>6, <1>7, <1>15, <2>2, <3>1
  <2> QED BY <1>7, <1>11, <2>1, <2>2
<1>17. a # <<>>
  BY <1>7, <1>11
<1>18. \A i : Callee(i)' = IF i = Len(a) THEN to ELSE a[i + 1].chain
  BY <1>5 DEF Callee
<1> QED BY <1>5, <1>12, <1>14, <1>16, <1>17, <1>18 DEF AgreeInv

(* It comes back from a chain that has not decided it, to the rule after   *)
(* the jump.                                                               *)
LEMMA AgreeReturn ==
    ASSUME NestInv, AgreeInv, Walking, AllMeant, stack # <<>>,
           chain \notin Closed(content[config], pkt),
           GoTo(Last(stack).chain, Last(stack).pc, Front(stack))
    PROVE  AgreeInv'
<1>1. PICK s : s = content[config]
  OBVIOUS
<1>2. /\ IsState(s) /\ Compiles(s) /\ pkt \in Packet
      /\ \A i \in DOMAIN stack : /\ Called(s, pkt, stack[i], Callee(i))
                                 /\ stack[i].chain[1] = "base" <=> i = 1
  BY <1>1, OnTheWay
<1>3. stack \in Seq(Frame) /\ ~s.panic
  BY <1>1 DEF NestInv
<1>4. PICK n \in Nat \ {0} : n = Len(stack) /\ DOMAIN stack = 1 .. n
  BY <1>3
<1>5. PICK top : top = stack[n]
  OBVIOUS
<1>6. PICK f : f = Front(stack)
  OBVIOUS
<1>7. /\ f \in Seq(Frame) /\ Len(f) = n - 1 /\ DOMAIN f = 1 .. n - 1
      /\ \A i \in 1 .. n - 1 : f[i] = stack[i]
  BY <1>3, <1>4, <1>6 DEF Front
<1>8. /\ chain' = top.chain /\ pc' = top.pc /\ stack' = f /\ pkt' = pkt /\ verdict' = Undecided
      /\ content[config'] = s
  BY <1>1, <1>4, <1>5, <1>6 DEF GoTo, table, Walking, Last
<1>9. top \in Frame
  BY <1>3, <1>4, <1>5
<1>10. top.chain \in ChainName /\ top.pc \in Nat \ {0}
  BY <1>9 DEF Frame
<1>11. Callee(n) = chain /\ \A i \in 1 .. n - 1 : Callee(i) = stack[i + 1].chain
  BY <1>4 DEF Callee
<1>12. PICK i : i = top.pc - 1
  OBVIOUS
<1>13. PICK l : l = Chain(s, top.chain)
  OBVIOUS
<1>14. Called(s, pkt, top, chain) /\ (top.chain[1] = "base" <=> n = 1)
  BY <1>2, <1>4, <1>5, <1>11
<1>15. i \in DOMAIN l /\ Fine(s, pkt, top.chain, i) /\ l[i].verdict = "jump" /\ l[i].to = chain
  BY <1>12, <1>13, <1>14 DEF Called
<1>16. ~Settles(Closed(s, pkt), l[i], pkt)
  BY <1>1, <1>15 DEF Settles, Final
<1>17. IsSeq(l)
  BY <1>2, <1>3, <1>10, <1>13, ChainNests DEF Nests
<1>18. ~(top.chain[1] = "not-local" /\ i = 1)
  BY <1>13, <1>15, NotLocalFirst
<1>19. Fine(s, pkt, top.chain, top.pc)
  <2>1. Fine(s, pkt, top.chain, i + 1)
    BY <1>13, <1>15, <1>16, <1>17, <1>18, NextFine
  <2>2. i + 1 = top.pc
    BY <1>10, <1>12
  <2> QED BY <2>1, <2>2
<1>20. f = <<>> <=> n = 1
  BY <1>7
<1>21. \A k : Callee(k)' = IF k = n - 1 THEN top.chain ELSE f[k + 1].chain
  BY <1>7, <1>8 DEF Callee
<1>22. \A k \in DOMAIN f : /\ Called(s, pkt, f[k], Callee(k)')
                           /\ f[k].chain[1] = "base" <=> k = 1
  <2> SUFFICES ASSUME NEW k \in DOMAIN f
               PROVE  /\ Called(s, pkt, f[k], Callee(k)')
                      /\ f[k].chain[1] = "base" <=> k = 1
    OBVIOUS
  <2>1. k \in 1 .. n - 1 /\ k \in 1 .. n
    BY <1>7
  <2>2. Callee(k)' = stack[k + 1].chain
    <3>1. CASE k = n - 1
      BY <1>5, <1>21, <2>1, <3>1
    <3>2. CASE k # n - 1
      <4>1. k + 1 \in 1 .. n - 1
        BY <2>1, <3>2
      <4> QED BY <1>7, <1>21, <3>2, <4>1
    <3> QED BY <3>1, <3>2
  <2>3. Callee(k)' = Callee(k) /\ f[k] = stack[k]
    BY <1>7, <1>11, <2>1, <2>2
  <2> QED BY <1>2, <1>4, <2>1, <2>3
<1> QED BY <1>8, <1>14, <1>19, <1>20, <1>22 DEF AgreeInv

(* A chain that ends has not decided it.                                   *)
LEMMA AtTheEnd ==
    ASSUME NestInv, AgreeInv, Walking, ~AtRule, AllMeant, NEW s, s = content[config]
    PROVE  /\ \A j \in DOMAIN Chain(s, chain) : ~Settles(Closed(s, pkt), Chain(s, chain)[j], pkt)
           /\ chain \notin Closed(s, pkt)
<1>1. PICK l : l = Chain(s, chain)
  OBVIOUS
<1>2. Fine(s, pkt, chain, pc) /\ ruleset[chain] = l /\ IsSeq(l)
  BY <1>1, OnTheWay
<1>3. Len(l) \in Nat /\ DOMAIN l = 1 .. Len(l)
  BY <1>2 DEF IsSeq
<1>4. pc \in 1 .. Len(l) + 1 /\ ~(pc <= Len(l))
  BY <1>1, <1>2 DEF AtRule, Fine
<1>5. 1 .. pc - 1 = DOMAIN l
  BY <1>3, <1>4
<1>6. \A j \in 1 .. pc - 1 : ~Settles(Closed(s, pkt), l[j], pkt)
  BY <1>1, <1>2 DEF Fine
<1>7. chain \in ChainName
  BY <1>2 DEF Fine
<1>8. \A j \in DOMAIN Chain(s, chain) : ~Settles(Closed(s, pkt), Chain(s, chain)[j], pkt)
  BY <1>1, <1>5, <1>6
<1> QED BY <1>7, <1>8, EndOpen

(* The policy of a base chain is what Firewall says.                       *)
LEMMA AgreePolicy ==
    ASSUME NestInv, AgreeInv, Walking, ~AtRule, AllMeant, stack = <<>>,
           Decided(BasePolicy(content[config], pkt.hook))
    PROVE  AgreeInv'
<1>1. PICK s, v : s = content[config] /\ v = BasePolicy(s, pkt.hook)
  OBVIOUS
<1>2. /\ IsState(s) /\ Meant(s) /\ Compiles(s) /\ pkt \in Packet /\ pkt.hook \in Hook
      /\ Fine(s, pkt, chain, pc) /\ chain[1] = "base"
  BY <1>1, OnTheWay
<1>3. chain \in ChainName /\ (chain[2] = "" \/ chain[2] = pkt.hook)
  BY <1>2 DEF Fine
<1>4. chain[2] = pkt.hook
  BY <1>2, <1>3, NameIs DEF SharedPart
<1>5. Chain(s, chain) = Base(s, pkt.hook)
  BY <1>2, <1>4 DEF Chain
<1>6. \A j \in DOMAIN Base(s, pkt.hook) : ~Settles(Closed(s, pkt), Base(s, pkt.hook)[j], pkt)
  BY <1>1, <1>5, AtTheEnd
<1>7. v \in F!Verdicts(s, pkt)
  BY <1>1, <1>2, <1>6, PolicyDecides
<1>8. v # Undecided
  BY <1>1 DEF BasePolicy, Undecided
<1> QED BY <1>1, <1>7, <1>8, AgreeDecided

(* Every step of a packet keeps it where Firewall allows it.               *)
LEMMA StepAgrees == ASSUME NestInv, AgreeInv, Step, AllMeant PROVE AgreeInv'
<1>1. CASE Matched
  <2>1. AtRule /\ Walking /\ Passes(Current, pkt)
    BY <1>1 DEF Matched, AtRule
  <2>2. PICK s, r : s = content[config] /\ r = Current
    OBVIOUS
  <2>3. Right(s, pkt, chain, r)
    BY <2>1, <2>2, RuleRight
  <2>4. ASSUME r.verdict \in Final, Decided(r.verdict) PROVE AgreeInv'
    <3>1. r.verdict \in F!Verdicts(s, pkt) /\ r.verdict # Undecided
      BY <2>1, <2>2, <2>3, <2>4 DEF Right, Final, Undecided
    <3> QED BY <2>1, <2>2, <2>4, <3>1, AgreeDecided
  <2>5. ASSUME r.verdict = "return", stack # <<>>,
               GoTo(Last(stack).chain, Last(stack).pc, Front(stack))
        PROVE  AgreeInv'
    <3>1. chain \notin Closed(s, pkt)
      BY <2>1, <2>2, <2>3, <2>5 DEF Right
    <3> QED BY <2>1, <2>2, <2>5, <3>1, AgreeReturn
  <2>6. CASE r.verdict \in Final /\ Decided(r.verdict)
    BY <2>4, <2>6
  <2>7. CASE r.verdict = "continue" /\ GoTo(chain, pc + 1, stack)
    BY <2>1, <2>2, <2>7, AgreeNext
  <2>8. CASE r.verdict = "jump" /\ GoTo(r.to, 1, Append(stack, [chain |-> chain, pc |-> pc + 1]))
    BY <2>1, <2>2, <2>8, AgreeJump
  <2>9. CASE r.verdict = "return" /\ stack # <<>>
             /\ GoTo(Last(stack).chain, Last(stack).pc, Front(stack))
    BY <2>5, <2>9
  <2> QED BY <1>1, <2>2, <2>6, <2>7, <2>8, <2>9 DEF Matched, Final
<1>2. CASE Missed
  BY <1>2, AgreeNext DEF Missed
<1>3. CASE Metered
  <2>1. Current.meter # {}
    BY <1>3 DEF Metered
  <2> QED BY <1>3, <2>1, AgreeNext DEF Metered
<1>4. CASE ChainEnd
  <2>1. Walking /\ ~AtRule
    BY <1>4 DEF ChainEnd
  <2>2. CASE stack # <<>>
    <3>1. chain \notin Closed(content[config], pkt)
      BY <2>1, AtTheEnd
    <3> QED BY <1>4, <2>1, <2>2, <3>1, AgreeReturn DEF ChainEnd
  <2>3. CASE stack = <<>>
    BY <1>4, <2>1, <2>3, AgreePolicy DEF ChainEnd
  <2> QED BY <2>2, <2>3
<1> QED BY <1>1, <1>2, <1>3, <1>4 DEF Step

(* Nothing else moves a packet that has no verdict.                        *)
LEMMA NextAgrees == ASSUME NestInv, AgreeInv, [Next]_vars, AllMeant PROVE AgreeInv'
<1>1. CASE Apply
  BY <1>1 DEF Apply, AgreeInv
<1>2. CASE Arrive
  <2>1. PICK s, p, name : s = content[config] /\ p = pkt' /\ name = <<"base", p.hook>>
    OBVIOUS
  <2>2. pkt = NoPacket /\ p \in Packet /\ chain' = name /\ pc' = 1 /\ stack' = <<>>
        /\ verdict' = Undecided /\ content[config'] = s
    BY <1>2, <2>1 DEF Arrive, NestInv, table
  <2>3. IsState(s) /\ Compiles(s) /\ name \in ChainName /\ name[1] = "base" /\ name[2] = p.hook
    <3>1. IsState(s) /\ Compiles(s)
      BY <2>1, ContentAssumption DEF NestInv, Applicable
    <3>2. p.hook \in Hook
      BY <2>2, Header
    <3> QED BY <2>1, <3>1, <3>2, Names
  <2>4. IsSeq(Chain(s, name))
    BY <2>3, ChainNests DEF Nests
  <2>5. Len(Chain(s, name)) \in Nat
    BY <2>4 DEF IsSeq
  <2>6. 1 \in 1 .. Len(Chain(s, name)) + 1 /\ 1 .. 1 - 1 = {}
    BY <2>5
  <2>7. Fine(s, p, name, 1)
    BY <2>3, <2>6 DEF Fine
  <2>8. DOMAIN stack' = {}
    BY <2>2, Alone
  <2> QED BY <2>1, <2>2, <2>3, <2>7, <2>8 DEF AgreeInv
<1>3. CASE Step
  BY <1>3, StepAgrees
<1>4. CASE Leave
  BY <1>4 DEF Leave, AgreeInv
<1>5. CASE Quiet
  BY <1>5 DEF Quiet, AgreeInv
<1>6. CASE UNCHANGED vars
  <2>1. UNCHANGED <<config, pkt, verdict, chain, pc, stack>>
    BY <1>6 DEF vars, table, where
  <2> QED BY <2>1 DEF AgreeInv, Callee
<1> QED BY <1>1, <1>2, <1>3, <1>4, <1>5, <1>6 DEF Next

(* It always holds.                                                        *)
LEMMA AgreeInvHolds == ASSUME AllMeant PROVE Spec => []AgreeInv
<1>1. Init => AgreeInv
  BY DEF Init, AgreeInv
<1>2. NestInv /\ AgreeInv /\ [Next]_vars => AgreeInv'
  BY NextAgrees
<1> QED BY <1>1, <1>2, NestInvHolds, PTL DEF Spec

(* Both agree on which rulesets there can be.                              *)
LEMMA SameApplicable == F!Applicable = Applicable
<1>2. \A r, v6 : F!Refused(r, v6) <=> Refused(r, v6)
  BY Shared, Zenon DEF F!Refused, Refused
<1>3. \A s : F!Compiles(s) <=> Compiles(s)
  BY <1>2, Shared DEF F!Compiles, Compiles
<1> QED BY <1>3 DEF Applicable, F!Applicable

(* Every packet gets the verdict rules.json asks for, whatever the rules   *)
(* are: each step of the kernel is a step of Firewall or changes nothing   *)
(* it tells.                                                               *)
THEOREM RulesetDecides ==
    ASSUME \A c \in Config : Meant(content[c])
    PROVE  Spec => F!Init /\ [][F!Next]_(F!vars)
<1>1. AllMeant
  BY DEF AllMeant
<1>2. F!NoPacket = NoPacket /\ F!Undecided = Undecided /\ F!Applicable = Applicable
  BY SameApplicable DEF NoPacket, F!NoPacket, Undecided, F!Undecided
<1>3. Init => F!Init
  BY <1>2 DEF Init, F!Init
<1>4. NestInv /\ AgreeInv /\ AgreeInv' /\ [Next]_vars => [F!Next]_(F!vars)
  <2> SUFFICES ASSUME NestInv, AgreeInv', [Next]_vars PROVE [F!Next]_(F!vars)
    OBVIOUS
  <2>1. CASE Apply
    BY <1>2, <2>1 DEF Apply, F!Next, F!Apply
  <2>2. CASE Arrive
    BY <1>2, <2>2 DEF Arrive, table, F!Next, F!Arrive
  <2>3. CASE Step
    <3>1. Walking /\ UNCHANGED <<config, pkt>>
      BY <2>3 DEF Step, Matched, Missed, Metered, ChainEnd, AtRule, GoTo, Decided, table
    <3>2. CASE verdict' = Undecided
      BY <3>1, <3>2 DEF Walking, F!vars
    <3>3. CASE verdict' # Undecided
      <4>1. verdict' \in F!Verdicts(content[config], pkt)
        BY <3>1, <3>3 DEF AgreeInv, Walking
      <4> QED BY <1>2, <3>1, <4>1 DEF Walking, F!Next, F!Decide
    <3> QED BY <3>2, <3>3
  <2>4. CASE Leave
    BY <1>2, <2>4 DEF Leave, table, F!Next, F!Leave
  <2>5. CASE Quiet
    BY <2>5 DEF Quiet, table, F!vars
  <2>6. CASE UNCHANGED vars
    BY <2>6 DEF vars, table, F!vars
  <2> QED BY <2>1, <2>2, <2>3, <2>4, <2>5, <2>6 DEF Next
<1> QED BY <1>1, <1>3, <1>4, NestInvHolds, AgreeInvHolds, PTL DEF Spec

-----------------------------------------------------------------------------
(* What a limit rule lets through, its meter has counted.                  *)

(* A rule that lets a packet through for a limit rule, and the one before  *)
(* it that counts the packet.                                              *)
Grants(r) == r.verdict = "jump" /\ r.to = Granting
Guards(x, y) ==
    /\ x.verdict = "jump" /\ x.to = <<"user-limit", "">> /\ ~x.limited
    /\ \A p : p.ct = "new" /\ Passes(y, p) => Passes(x, p)
Paired(l) ==
    /\ IsSeq(l)
    /\ \A i \in DOMAIN l : Grants(l[i]) => i - 1 \in DOMAIN l /\ Guards(l[i - 1], l[i])

(* A packet that is about to be let through, or has been, and the          *)
(* connection it opens if a limit rule does that.                          *)
Due ==
    /\ pkt # NoPacket
    /\ \/ verdict = "accept"
       \/ Walking /\ (chain = Granting \/ (AtRule /\ Grants(Current) /\ Passes(Current, pkt)))
Owed == IF Due THEN GrantedBy(pkt) ELSE {}

(* A connection is counted before it is let through.                       *)
KeyOf(k) == << <<k[1], k[2]>>, k[3], k[4]>>
PaidInv ==
    /\ \A k \in DOMAIN granted : granted[k] \in Nat
    /\ \A k : Count(granted, k) + (IF k \in Owed THEN 1 ELSE 0) <= Count(spent, KeyOf(k))

(* A rule that lets no packet through for a limit rule.                    *)
Plain(l) == IsSeq(l) /\ \A r \in Range(l) : ~Grants(r)

(* Lists of such rules.                                                    *)
LEMMA PlainCat ==
    ASSUME NEW a, NEW b, Plain(a), Plain(b)
    PROVE  Plain(a \o b)
<1>1. PICK S, T : a \in Seq(S) /\ b \in Seq(T)
  BY DEF Plain, IsSeq
<1>2. PICK U : U = S \cup T
  OBVIOUS
<1>3. a \in Seq(U) /\ b \in Seq(U)
  BY <1>1, <1>2
<1>4. Range(a \o b) = Range(a) \cup Range(b)
  BY <1>3, ConcatRange
<1> QED BY <1>4, Cat DEF Plain

(* Short ones.                                                             *)
LEMMA PlainFew ==
    /\ Plain(<<>>)
    /\ \A a : ~Grants(a) => Plain(<<a>>)
    /\ \A a, b : ~Grants(a) /\ ~Grants(b) => Plain(<<a, b>>)
    /\ \A a, b, c : ~Grants(a) /\ ~Grants(b) /\ ~Grants(c) => Plain(<<a, b, c>>)
    /\ \A a, b, c, d : ~Grants(a) /\ ~Grants(b) /\ ~Grants(c) /\ ~Grants(d) => Plain(<<a, b, c, d>>)
    /\ \A a, b, c, d, e : ~Grants(a) /\ ~Grants(b) /\ ~Grants(c) /\ ~Grants(d) /\ ~Grants(e)
                           => Plain(<<a, b, c, d, e>>)
<1>1. IsSeq(<<>>) /\ Range(<<>>) = {}
  BY Zero DEF Range
<1>2. \A a : IsSeq(<<a>>) /\ Range(<<a>>) = {a}
  <2>1. \A a : Range(<<a>>) = {a}
    BY DEF Range
  <2> QED BY <2>1, One
<1>3. \A a, b : IsSeq(<<a, b>>) /\ Range(<<a, b>>) = {a, b}
  <2>1. \A a, b : Range(<<a, b>>) = {a, b}
    BY DEF Range
  <2> QED BY <2>1, Two
<1>4. \A a, b, c : IsSeq(<<a, b, c>>) /\ Range(<<a, b, c>>) = {a, b, c}
  <2>1. \A a, b, c : <<a, b, c>> \in Seq({a, b, c}) /\ Range(<<a, b, c>>) = {a, b, c}
    BY DEF Range
  <2> QED BY <2>1 DEF IsSeq
<1>5. \A a, b, c, d : IsSeq(<<a, b, c, d>>) /\ Range(<<a, b, c, d>>) = {a, b, c, d}
  <2>1. \A a, b, c, d : Range(<<a, b, c, d>>) = {a, b, c, d}
    BY DEF Range
  <2> QED BY <2>1, Four
<1>6. \A a, b, c, d, e : IsSeq(<<a, b, c, d, e>>) /\ Range(<<a, b, c, d, e>>) = {a, b, c, d, e}
  <2>1. \A a, b, c, d, e : IsSeq(<<a, b, c, d, e>>)
    BY Five
  <2>2. ASSUME NEW a, NEW b, NEW c, NEW d, NEW e
        PROVE  IsSeq(<<a, b, c, d, e>>) /\ Range(<<a, b, c, d, e>>) = {a, b, c, d, e}
    <3>1. IsSeq(<<a, b, c, d, e>>)
      BY <2>1, Zenon
    <3>2. Range(<<a, b, c, d, e>>) = {a, b, c, d, e}
      BY DEF Range
    <3> QED BY <3>1, <3>2
  <2> QED BY <2>2, Zenon
<1> QED BY <1>1, <1>2, <1>3, <1>4, <1>5, <1>6 DEF Plain

(* The rules they are made of.                                             *)
LEMMA PlainRules ==
    ASSUME NEW on
    PROVE  /\ ~Grants(Accept(on)) /\ ~Grants(Drop(on)) /\ ~Grants(Reject(on)) /\ ~Grants(Return(on))
           /\ \A part, hook : part # "user-limit-accept" =>
                 ~Grants(jump(on, <<part, hook>>)) /\ ~Grants(Limited(jump(on, <<part, hook>>)))
<1>1. ~Grants(Accept(on)) /\ ~Grants(Drop(on)) /\ ~Grants(Reject(on)) /\ ~Grants(Return(on))
  BY DEF Grants, Accept, Drop, Reject, Return, nft
<1>2. ASSUME NEW part, NEW hook, part # "user-limit-accept"
      PROVE  ~Grants(jump(on, <<part, hook>>)) /\ ~Grants(Limited(jump(on, <<part, hook>>)))
  <2>1. PICK to : to = <<part, hook>> /\ to[1] = part
    <3>1. <<part, hook>>[1] = part
      OBVIOUS
    <3> QED BY <3>1
  <2>2. to # Granting
    <3>1. Granting[1] = "user-limit-accept"
      BY DEF Granting
    <3> QED BY <1>2, <2>1, <3>1
  <2>3. jump(on, to).to = to /\ Limited(jump(on, to)).to = to
    BY DEF jump, nft, Limited
  <2> QED BY <2>1, <2>2, <2>3 DEF Grants
<1> QED BY <1>1, <1>2

(* Nothing in them has to be paired.                                       *)
LEMMA PlainPaired == ASSUME NEW l, Plain(l) PROVE Paired(l)
<1>1. \A i \in DOMAIN l : l[i] \in Range(l)
  BY DEF Range
<1> QED BY <1>1 DEF Plain, Paired

(* Rules that only log are such.                                           *)
LEMMA StillPlain ==
    ASSUME NEW l, Still(l, {"continue"}) \/ Still(l, Ending)
    PROVE  Plain(l)
BY DEF Still, Quietly, Ending, Plain, Grants

(* Lists of rules that are paired, one after the other.                    *)
LEMMA PairedCat ==
    ASSUME NEW a, NEW b, Paired(a), Paired(b)
    PROVE  Paired(a \o b)
<1>1. IsSeq(a) /\ IsSeq(b)
  BY DEF Paired
<1>2. PICK c : c = a \o b
  OBVIOUS
<1>3. PICK x \in Nat, y \in Nat : /\ x = Len(a) /\ y = Len(b) /\ IsSeq(c)
                                  /\ DOMAIN a = 1 .. x /\ DOMAIN b = 1 .. y /\ DOMAIN c = 1 .. x + y
                                  /\ \A i \in 1 .. x + y : c[i] = IF i <= x THEN a[i] ELSE b[i - x]
  <2>1. /\ IsSeq(a \o b) /\ Len(a) \in Nat /\ Len(b) \in Nat /\ Len(a \o b) = Len(a) + Len(b)
        /\ \A i \in 1 .. Len(a) + Len(b) : (a \o b)[i] = IF i <= Len(a) THEN a[i] ELSE b[i - Len(a)]
    BY <1>1, Cat
  <2>2. \A l : IsSeq(l) => DOMAIN l = 1 .. Len(l)
    BY DEF IsSeq
  <2>3. PICK x \in Nat, y \in Nat : x = Len(a) /\ y = Len(b)
    BY <2>1
  <2> QED BY <1>1, <1>2, <2>1, <2>2, <2>3
<1>4. (\A i \in 1 .. x : c[i] = a[i]) /\ (\A i \in 1 .. y : c[x + i] = b[i])
  BY <1>3
<1>5. ASSUME NEW i \in 1 .. x + y, Grants(c[i])
      PROVE  i - 1 \in 1 .. x + y /\ Guards(c[i - 1], c[i])
  <2>1. CASE i <= x
    <3>1. i \in 1 .. x /\ c[i] = a[i]
      BY <1>4, <2>1
    <3>2. i - 1 \in 1 .. x /\ Guards(a[i - 1], a[i])
      BY <1>3, <1>5, <3>1 DEF Paired
    <3>3. c[i - 1] = a[i - 1] /\ i - 1 \in 1 .. x + y
      BY <1>3, <1>4, <3>2
    <3> QED BY <3>1, <3>2, <3>3
  <2>2. CASE i > x
    <3>1. PICK q \in 1 .. y : i = x + q
      <4>1. i - x \in 1 .. y /\ i = x + (i - x)
        BY <1>3, <2>2
      <4> QED BY <4>1
    <3>2. c[i] = b[q]
      BY <1>4, <3>1
    <3>3. q - 1 \in 1 .. y /\ Guards(b[q - 1], b[q])
      BY <1>3, <1>5, <3>1, <3>2 DEF Paired
    <3>4. PICK z \in 1 .. y : z = q - 1
      BY <3>3
    <3>5. i - 1 = x + z /\ i - 1 \in 1 .. x + y
      BY <1>3, <3>1, <3>4
    <3>6. c[i - 1] = b[z]
      BY <1>4, <3>4, <3>5
    <3> QED BY <3>2, <3>3, <3>4, <3>5, <3>6
  <2> QED BY <1>3, <2>1, <2>2
<1> QED BY <1>2, <1>3, <1>5 DEF Paired

(* Many of them.                                                           *)
LEMMA PairedFlatten ==
    ASSUME NEW ss, IsSeq(ss), \A i \in DOMAIN ss : Paired(ss[i])
    PROVE  Paired(FlattenSeq(ss))
<1>1. \A i \in DOMAIN ss : IsSeq(ss[i])
  BY DEF Paired
<1>2. PICK E : ss \in Seq(Seq(E))
  BY <1>1, ListsListed
<1>3. PICK n \in Nat : n = Len(ss) /\ DOMAIN ss = 1 .. n
  BY <1>2
<1>4. CASE n = 0
  <2>1. ss = <<>>
    BY <1>2, <1>3, <1>4
  <2>2. FlattenSeq(<<>>) = <<>>
    BY <1>2, FlattenSteps
  <2> QED BY <2>1, <2>2, PlainFew, PlainPaired
<1>5. CASE n # 0
  <2>1. PICK f : /\ FlattenSeq(ss) = f[n]
                 /\ \A i \in 1 .. n : f[i] = IF i = 1 THEN ss[i] ELSE f[i - 1] \o ss[i]
    <3>1. Len(ss) # 0
      BY <1>3, <1>5
    <3>2. \E f \in [1 .. Len(ss) -> Seq(E)] :
              FlattenSeq(ss) = f[Len(ss)]
              /\ \A i \in 1 .. Len(ss) : f[i] = IF i = 1 THEN ss[i] ELSE f[i - 1] \o ss[i]
      BY <1>2, <3>1, FlattenFun
    <3> QED BY <1>3, <3>2
  <2> DEFINE T == {i \in 0 .. n : i # 0 => Paired(f[i])}
  <2>2. 0 \in T
    OBVIOUS
  <2>3. ASSUME NEW i \in 1 .. n, i - 1 \in T PROVE i \in T
    <3>1. Paired(ss[i])
      BY <1>3
    <3>2. CASE i = 1
      BY <2>1, <3>1, <3>2
    <3>3. CASE i # 1
      <4>1. f[i] = f[i - 1] \o ss[i]
        BY <2>1, <3>3
      <4>2. Paired(f[i - 1])
        BY <2>3, <3>3
      <4>3. Paired(f[i])
        BY ONLY <3>1, <4>1, <4>2, PairedCat
      <4> QED BY <4>3
    <3> QED BY <3>2, <3>3
  <2>4. n \in T
    <3> HIDE DEF T
    <3>1. 0 .. n \subseteq T
      BY <2>2, <2>3, IntervalInduction
    <3> QED BY <3>1
  <2> QED BY <1>5, <2>1, <2>4
<1> QED BY <1>4, <1>5

(* A limit rule's two rules are a pair; with them so are the rules of      *)
(* every variant.                                                          *)
LEMMA VariantPaired ==
    ASSUME NEW s, NEW r, NEW q, NEW v6, ~Refused(r, v6), IsSeq(ruleMatch(s, r, q, v6))
    PROVE  Paired(UserRules(s, r, q, v6))
<1>1. PICK on : on = ruleMatch(s, r, q, v6) /\ IsSeq(on)
  OBVIOUS
<1>2. PICK pre : pre = IF r.log = "" THEN <<>> ELSE <<jump(on, <<"user-logging", HookOf[r.direction]>>)>>
  OBVIOUS
<1>3. PICK act : act = ActionRules(r, q, v6, on)
  OBVIOUS
<1>4. UserRules(s, r, q, v6) = pre \o act
  BY <1>1, <1>2, <1>3, Zenon DEF UserRules
<1>5. Paired(pre)
  <2>1. ~Grants(jump(on, <<"user-logging", HookOf[r.direction]>>))
    <3>1. "user-logging" # "user-limit-accept"
      OBVIOUS
    <3> QED BY <3>1, PlainRules
  <2> QED BY <1>2, <2>1, PlainFew, PlainPaired
<1>6. r.action \in {"allow", "deny", "reject", "limit"}
  BY DEF Refused
<1>7. CASE r.action # "limit"
  <2>1. act = <<Accept(on)>> \/ act = <<Drop(on)>> \/ act = <<Reject(on)>>
    BY <1>3, <1>6, <1>7 DEF ActionRules
  <2>2. Paired(act)
    BY <2>1, PlainRules, PlainFew, PlainPaired
  <2> QED BY <1>4, <1>5, <2>2, PairedCat
<1>8. CASE r.action = "limit"
  <2>1. PICK w : w = on \o ctState({"new"})
    OBVIOUS
  <2>2. PICK x : x = [jump(w, <<"user-limit", "">>) EXCEPT
                        !.meter = {[set |-> LimitSet(r, q, v6), ported |-> q \in {"tcp", "udp"}]}]
    OBVIOUS
  <2>3. PICK y : y = jump(on, Granting)
    OBVIOUS
  <2>4. act = <<x, y>>
    <3>1. act = compileLimit(r, q, v6, on)
      BY <1>3, <1>8 DEF ActionRules
    <3> QED BY <2>1, <2>2, <2>3, <3>1, Zenon DEF compileLimit, Granting
  <2>5. x.on = w /\ x.verdict = "jump" /\ x.to = <<"user-limit", "">> /\ ~x.limited
    BY <2>2 DEF jump, nft
  <2>6. y.on = on
    BY <2>3 DEF jump, nft
  <2>7. ASSUME NEW p, p.ct = "new", Passes(y, p) PROVE Passes(x, p)
    <3>1. Meets(on, p)
      BY <2>6, <2>7 DEF Passes, Meets
    <3>2. PICK c : c = ctState({"new"})
      OBVIOUS
    <3>3. IsSeq(c) /\ Meets(c, p)
      BY <2>7, <3>2, FieldTests
    <3>4. Meets(w, p)
      BY <1>1, <2>1, <3>1, <3>2, <3>3, TestCat
    <3> QED BY <2>5, <3>4 DEF Passes, Meets
  <2>8. Guards(x, y)
    BY <2>5, <2>7 DEF Guards
  <2>9. ~Grants(x)
    <3>1. <<"user-limit", "">> # Granting
      <4>1. <<"user-limit", "">>[1] = "user-limit" /\ <<"user-limit-accept", "">>[1] = "user-limit-accept"
        OBVIOUS
      <4> QED BY <4>1 DEF Granting
    <3> QED BY <2>5, <3>1 DEF Grants
  <2>10. Paired(<<x, y>>)
    <3>1. DOMAIN <<x, y>> = 1 .. 2 /\ <<x, y>>[1] = x /\ <<x, y>>[2] = y
      OBVIOUS
    <3>2. \A i \in 1 .. 2 : i = 1 \/ (i = 2 /\ i - 1 = 1)
      OBVIOUS
    <3>3. PICK l : l = <<x, y>>
      OBVIOUS
    <3>4. DOMAIN l = 1 .. 2 /\ l[1] = x /\ l[2] = y /\ IsSeq(l)
      BY <3>1, <3>3, Two
    <3>5. \A i \in 1 .. 2 : Grants(l[i]) => i - 1 \in 1 .. 2 /\ Guards(l[i - 1], l[i])
      <4>1. ~Grants(l[1]) /\ Guards(l[1], l[2])
        BY <2>8, <2>9, <3>4
      <4> QED BY <3>2, <4>1
    <3> QED BY <3>3, <3>4, <3>5 DEF Paired
  <2> QED BY <1>4, <1>5, <2>4, <2>10, PairedCat
<1> QED BY <1>6, <1>7, <1>8

(* So are the rules of the user, of both families.                         *)
LEMMA UserPaired ==
    ASSUME NEW s, IsState(s), Meant(s), Compiles(s), ~s.panic, NEW p \in Packet, NEW h
    PROVE  Paired(User(s, h))
<1>1. Paired(<<>>)
  BY PlainFew, PlainPaired
<1>2. ASSUME NEW list \in {s.rules4, s.rules6}, NEW v6,
             \A i \in DOMAIN list : Live(list[i]) => ~Refused(list[i], v6)
      PROVE  Paired(CompileList(s, list, v6, h, FALSE))
  <2>1. ASSUME NEW i \in DOMAIN list PROVE Paired(compileRule(s, list[i], v6, h, FALSE))
    <3>1. PICK r : r = list[i]
      OBVIOUS
    <3>2. PICK q : q = protoVariants(r)
      OBVIOUS
    <3>3. IsSeq(q)
      BY <3>2, VariantsAre, Zenon
    <3>4. PICK ss : ss = [k \in DOMAIN q |-> UserRules(s, r, q[k], v6)]
      OBVIOUS
    <3>5. \/ compileRule(s, r, v6, h, FALSE) = <<>>
          \/ Live(r) /\ compileRule(s, r, v6, h, FALSE) = FlattenSeq(ss)
      BY <3>2, <3>4, Zenon DEF compileRule
    <3>6. ASSUME Live(r) PROVE Paired(FlattenSeq(ss))
      <4>1. /\ r.src \in AddrSpec /\ r.dst \in AddrSpec
            /\ {r.src.set, r.dst.set} \subseteq DOMAIN s.sets \cup {NoSet}
            /\ \A n \in DOMAIN s.sets : TopHoldsTop(Range(s.sets[n]))
        BY <3>1, RuleIs DEF Meant
      <4>2. \A t : IsSeq(ruleMatch(s, r, t, v6))
        BY <4>1, MatchTests
      <4>3. ~Refused(r, v6)
        BY <1>2, <3>1, <3>6
      <4>4. \A t : Paired(UserRules(s, r, t, v6))
        BY <4>2, <4>3, VariantPaired
      <4>5. IsSeq(ss) /\ DOMAIN ss = DOMAIN q
        <5>1. DOMAIN ss = DOMAIN q /\ ss = [k \in DOMAIN ss |-> ss[k]]
          BY <3>4
        <5> QED BY <3>3, <5>1, FunctionListed
      <4>6. \A k \in DOMAIN ss : Paired(ss[k])
        BY <3>4, <4>4, <4>5
      <4> QED BY <4>5, <4>6, PairedFlatten
    <3> QED BY <1>1, <3>1, <3>5, <3>6
  <2>2. PICK ss : ss = [i \in DOMAIN list |-> compileRule(s, list[i], v6, h, FALSE)]
    OBVIOUS
  <2>3. CompileList(s, list, v6, h, FALSE) = FlattenSeq(ss)
    BY <2>2, Zenon DEF CompileList
  <2>4. IsSeq(list)
    BY DEF IsState, IsSeq
  <2>5. IsSeq(ss) /\ DOMAIN ss = DOMAIN list
    <3>1. DOMAIN ss = DOMAIN list /\ ss = [k \in DOMAIN ss |-> ss[k]]
      BY <2>2
    <3> QED BY <2>4, <3>1, FunctionListed
  <2>6. \A k \in DOMAIN ss : Paired(ss[k])
    BY <2>1, <2>2, <2>5
  <2> QED BY <2>3, <2>5, <2>6, PairedFlatten
<1>3. /\ \A i \in DOMAIN s.rules4 : Live(s.rules4[i]) => ~Refused(s.rules4[i], FALSE)
      /\ \A i \in DOMAIN s.rules6 : Live(s.rules6[i]) => ~Refused(s.rules6[i], TRUE)
  BY DEF Compiles
<1>4. Paired(CompileList(s, s.rules4, FALSE, h, FALSE))
  BY <1>2, <1>3, Zenon
<1>5. Paired(CompileList(s, s.rules6, TRUE, h, FALSE))
  BY <1>2, <1>3, Zenon
<1> QED BY <1>4, <1>5, PairedCat DEF User

(* What comes before the rules of the user lets nothing through for a      *)
(* limit rule.                                                             *)
LEMMA BeforePlain ==
    ASSUME NEW s, NEW h \in Hook PROVE Plain(Before(s, h))
<1>1. \A on : ~Grants(Accept(on)) /\ ~Grants(Drop(on))
  BY PlainRules
<1>2. /\ ~Grants(RoutingHeader) /\ ~Grants(ThreatBan(s, FALSE))
      /\ ~Grants(ThreatBan(s, TRUE)) /\ ~Grants(Established)
      /\ ~Grants(EchoReply6) /\ ~Grants(ICMPv4)
      /\ \A v6, g, n : ~Grants(Discovery(v6, g, n))
  BY <1>1, Zenon DEF RoutingHeader, ThreatBan, Established, EchoReply6, ICMPv4, Discovery
<1>3. Plain(BeforePrefix(s, h))
  BY <1>2, PlainFew DEF BeforePrefix
<1>4. Plain(beforeICMPv6Rules)
  BY <1>1, PlainFew DEF beforeICMPv6Rules
<1>5. Plain(DHCPClient)
  <2> DEFINE UDP(from, to) == l4proto({"udp"}) \o sport({from}) \o dport({to})
             a == Accept(nfproto(FALSE) \o UDP(67, 68))
             b == Accept(nfproto(TRUE) \o UDP(547, 546) \o FromLinkLocal \o << <<"daddr", LinkLocal>> >>)
  <2>1. DHCPClient = <<a, b>>
    BY Zenon DEF DHCPClient
  <2>2. ~Grants(a) /\ ~Grants(b)
    BY <1>1
  <2> HIDE DEF a, b
  <2> QED BY <2>1, <2>2, PlainFew
<1>6. \A on : /\ ~Grants(jump(on, <<"logging-deny", "">>))
              /\ ~Grants(jump(on, <<"not-local", "">>))
              /\ ~Grants(jump(on, <<"user-egress", "">>))
  <2>1. /\ "logging-deny" # "user-limit-accept" /\ "not-local" # "user-limit-accept"
        /\ "user-egress" # "user-limit-accept"
    OBVIOUS
  <2> QED BY <2>1, PlainRules, Zenon
<1>7. CASE h = "input"
  <2>1. PICK a : a = <<Accept(iif({"lo"}))>>
    OBVIOUS
  <2>2. PICK b : b = <<EchoReply6, jump(ctState({"invalid"}), <<"logging-deny", "">>),
                       Drop(ctState({"invalid"})), ICMPv4>>
    OBVIOUS
  <2>3. PICK c : c = <<Accept(ICMPv6({144, 145, 146, 147}))>>
    OBVIOUS
  <2>4. PICK local : local = jump(nfproto(FALSE), <<"not-local", "">>)
    OBVIOUS
  <2>5. PICK m : m = <<local, mdns4, mdns6, upnp4, upnp6>>
    OBVIOUS
  <2>6. Plain(a) /\ Plain(c)
    BY <1>1, <2>1, <2>3, PlainFew
  <2>7. Plain(b)
    <3>1. PICK x, y : x = jump(ctState({"invalid"}), <<"logging-deny", "">>) /\ y = Drop(ctState({"invalid"}))
      OBVIOUS
    <3>2. ~Grants(x) /\ ~Grants(y)
      BY <1>1, <1>6, <3>1
    <3> QED BY <1>2, <2>2, <3>1, <3>2, PlainFew
  <2>8. Plain(m)
    <3>1. ~Grants(mdns4) /\ ~Grants(mdns6) /\ ~Grants(upnp4) /\ ~Grants(upnp6)
      <4>1. PICK x, y : x = 5353 /\ y = 1900
        OBVIOUS
      <4>2. /\ ~Grants(Discovery(FALSE, Mdns, x)) /\ ~Grants(Discovery(TRUE, Mdns, x))
            /\ ~Grants(Discovery(FALSE, Upnp, y)) /\ ~Grants(Discovery(TRUE, Upnp, y))
        BY ONLY <1>2, Zenon
      <4>3. /\ mdns4 = Discovery(FALSE, Mdns, x) /\ mdns6 = Discovery(TRUE, Mdns, x)
            /\ upnp4 = Discovery(FALSE, Upnp, y) /\ upnp6 = Discovery(TRUE, Upnp, y)
        BY <4>1 DEF mdns4, mdns6, upnp4, upnp6
      <4> QED BY ONLY <4>2, <4>3
    <3>2. ~Grants(local)
      BY <1>6, <2>4
    <3> QED BY <2>5, <3>1, <3>2, PlainFew, Zenon
  <2>9. Before(s, h) = a \o BeforePrefix(s, h) \o b \o beforeICMPv6Rules \o c \o DHCPClient \o m
    <3>1. Before(s, h) = <<Accept(iif({"lo"}))>> \o BeforePrefix(s, h)
                         \o <<EchoReply6, jump(ctState({"invalid"}), <<"logging-deny", "">>),
                              Drop(ctState({"invalid"})), ICMPv4>>
                         \o beforeICMPv6Rules \o <<Accept(ICMPv6({144, 145, 146, 147}))>>
                         \o DHCPClient \o <<jump(nfproto(FALSE), <<"not-local", "">>), mdns4, mdns6, upnp4, upnp6>>
      BY <1>7 DEF Before, mdns4, mdns6, upnp4, upnp6
    <3> QED BY <2>1, <2>2, <2>3, <2>4, <2>5, <3>1
  <2>10. Plain(a \o BeforePrefix(s, h) \o b)
    BY <1>3, <2>6, <2>7, PlainCat
  <2>11. Plain(a \o BeforePrefix(s, h) \o b \o beforeICMPv6Rules \o c)
    BY <1>4, <2>6, <2>10, PlainCat
  <2> QED BY <1>5, <2>8, <2>9, <2>11, PlainCat
<1>8. CASE h = "output"
  <2>1. PICK a : a = <<Accept(oif({"lo"})), RoutingHeader, Established>>
    OBVIOUS
  <2>2. PICK b : b = <<EchoReply6, jump(<<>>, <<"user-egress", "">>)>>
    OBVIOUS
  <2>3. Plain(a)
    BY <1>1, <1>2, <2>1, PlainFew
  <2>4. Plain(b)
    <3>1. PICK x : x = jump(<<>>, <<"user-egress", "">>)
      OBVIOUS
    <3>2. ~Grants(x)
      BY <1>6, <3>1
    <3> QED BY <1>2, <2>2, <3>1, <3>2, PlainFew
  <2>5. Before(s, h) = a \o beforeICMPv6Rules \o b
    BY <1>8, <2>1, <2>2 DEF Before
  <2> QED BY <1>4, <2>3, <2>4, <2>5, PlainCat
<1>9. CASE h = "forward"
  <2>1. PICK a : a = <<ICMPv4, Accept(ICMPv6({1, 2, 3, 4, 128, 129}))>>
    OBVIOUS
  <2>2. Plain(a)
    BY <1>1, <1>2, <2>1, PlainFew
  <2>3. Before(s, h) = BeforePrefix(s, h) \o a
    BY <1>9, <2>1 DEF Before
  <2> QED BY <1>3, <2>2, <2>3, PlainCat
<1> QED BY <1>7, <1>8, <1>9 DEF Hook

(* Nor does a base chain.                                                  *)
LEMMA BasePlain ==
    ASSUME NEW s, NEW h \in Hook PROVE Plain(Base(s, h))
<1>1. Plain(NoIPv6(h))
  <2>1. PICK d : d = <<Drop(nfproto(TRUE))>>
    OBVIOUS
  <2>2. Plain(d) /\ \A on : Plain(<<Accept(on)>>)
    BY <2>1, PlainRules, PlainFew
  <2>3. Plain(<<>>)
    BY PlainFew
  <2>4. NoIPv6(h) = <<>> \o d \/ \E on : NoIPv6(h) = <<Accept(on)>> \o d
    BY <2>1, Zenon DEF NoIPv6
  <2> QED BY <2>2, <2>3, <2>4, PlainCat
<1>2. Plain(Jumps(h))
  <2>1. ASSUME NEW part \in {"before-logging", "before", "user", "after", "after-logging", "reject", "track"}
        PROVE  ~Grants(jump(<<>>, <<part, h>>))
    BY PlainRules
  <2>2. PICK a, b, c, d, e, f, g :
            /\ a = jump(<<>>, <<"before-logging", h>>) /\ b = jump(<<>>, <<"before", h>>)
            /\ c = jump(<<>>, <<"user", h>>) /\ d = jump(<<>>, <<"after", h>>)
            /\ e = jump(<<>>, <<"after-logging", h>>) /\ f = jump(<<>>, <<"reject", h>>)
            /\ g = jump(<<>>, <<"track", h>>)
    OBVIOUS
  <2>3. ~Grants(a) /\ ~Grants(b) /\ ~Grants(c) /\ ~Grants(d) /\ ~Grants(e) /\ ~Grants(f) /\ ~Grants(g)
    BY <2>1, <2>2
  <2>4. Plain(<<a, b, c, d>>) /\ Plain(<<e, f, g>>)
    BY ONLY <2>3, PlainFew, Zenon
  <2>5. Jumps(h) = <<a, b, c, d>> \o <<e, f, g>>
    BY ONLY <2>2, JumpsAre
  <2> QED BY <2>4, <2>5, PlainCat
<1>3. Plain(<<>>)
  BY PlainFew
<1>4. Plain(<<>> \o Jumps(h)) /\ Plain(NoIPv6(h) \o Jumps(h))
  BY <1>1, <1>2, <1>3, PlainCat
<1> QED BY <1>3, <1>4, Zenon DEF Base

(* Nor do the chains after the rules of the user.                          *)
LEMMA AfterPlain ==
    ASSUME NEW s, NEW h
    PROVE  Plain(After(h)) /\ Plain(RejectChain(s, h)) /\ Plain(Track(s, h))
           /\ Plain(NotLocal) /\ Plain(UserLimit(s)) /\ Plain(<<policyVerdict(PolicyFor(s, h))>>)
<1>1. Plain(After(h))
  <2>1. CASE h # "input"
    BY <2>1, PlainFew DEF After
  <2>2. CASE h = "input"
    <3> DEFINE Skip(on) == jump(on, <<"skip-to-policy", h>>)
               a == Skip(nfproto(FALSE) \o fibAddrType({"broadcast"}))
               b == Skip(nfproto(FALSE) \o l4proto({"udp"}) \o dport({137, 138}))
               c == Skip(nfproto(FALSE) \o l4proto({"tcp"}) \o dport({139, 445}))
               e == Skip(nfproto(FALSE) \o l4proto({"udp"}) \o sport({67}) \o dport({68}))
               f == Skip(nfproto(TRUE) \o l4proto({"udp"}) \o dport({546, 547}))
    <3>1. After(h) = <<a, b, c, e, f>>
      BY <2>2 DEF After
    <3>2. \A on : ~Grants(jump(on, <<"skip-to-policy", h>>))
      <4>1. "skip-to-policy" # "user-limit-accept"
        OBVIOUS
      <4> QED BY <4>1, PlainRules, Zenon
    <3>3. ~Grants(a) /\ ~Grants(b) /\ ~Grants(c) /\ ~Grants(e) /\ ~Grants(f)
      BY ONLY <3>2, Zenon
    <3> HIDE DEF a, b, c, e, f
    <3> QED BY <3>1, <3>3, PlainFew, Zenon
  <2> QED BY <2>1, <2>2
<1>2. Plain(<<>>) /\ \A on : Plain(<<Accept(on)>>) /\ Plain(<<Reject(on)>>) /\ Plain(<<Drop(on)>>)
  BY PlainFew, PlainRules
<1>3. Plain(RejectChain(s, h)) /\ Plain(Track(s, h))
  BY <1>2, Zenon DEF RejectChain, Track
<1>4. Plain(NotLocal)
  <2>1. PICK a, b, c : /\ a = Return(fibAddrType({"local", "multicast", "broadcast"}))
                       /\ b = Limited(jump(<<>>, <<"logging-deny", "">>)) /\ c = Drop(<<>>)
    OBVIOUS
  <2>2. NotLocal = <<a, b, c>>
    BY <2>1 DEF NotLocal
  <2>3. ~Grants(a) /\ ~Grants(b) /\ ~Grants(c)
    <3>1. "logging-deny" # "user-limit-accept"
      OBVIOUS
    <3> QED BY <2>1, <3>1, PlainRules
  <2> QED BY <2>2, <2>3, PlainFew
<1>5. Plain(UserLimit(s))
  <2>1. PICK l : l = IF Level(s) = "off" THEN <<>> ELSE <<Limited(Log(<<>>))>>
    OBVIOUS
  <2>2. Still(l, {"continue"})
    BY <2>1, StillCat, StillRules
  <2>3. UserLimit(s) = l \o <<Reject(<<>>)>>
    BY <2>1 DEF UserLimit
  <2> QED BY <1>2, <2>2, <2>3, StillPlain, PlainCat
<1>6. Plain(<<policyVerdict(PolicyFor(s, h))>>)
  BY <1>2, Zenon DEF policyVerdict
<1> QED BY <1>1, <1>3, <1>4, <1>5, <1>6

(* In every chain what a limit rule lets through is counted first.         *)
LEMMA ChainPaired ==
    ASSUME NEW s, IsState(s), Meant(s), Compiles(s), NEW p \in Packet,
           NEW name \in ChainName, s.panic => name[1] = "base"
    PROVE  Paired(Chain(s, name))
<1>1. PICK l, part, h : l = Chain(s, name) /\ part = name[1] /\ h = name[2]
  OBVIOUS
<1>2. part \in HookPart => h \in Hook
  <2>1. PICK E : E = {""}
    OBVIOUS
  <2>2. ChainName = (HookPart \X Hook) \cup (SharedPart \X E)
    BY <2>1 DEF ChainName, HookPart, SharedPart
  <2>3. \A x \in SharedPart : x \notin HookPart
    BY DEF HookPart, SharedPart
  <2> HIDE DEF HookPart, SharedPart, Hook
  <2>4. CASE name \in HookPart \X Hook
    BY <1>1, <2>4
  <2>5. CASE name \in SharedPart \X E
    <3>1. name[1] \in SharedPart
      BY <2>5
    <3> QED BY <1>1, <2>3, <3>1
  <2> QED BY <2>2, <2>4, <2>5
<1>3. part \in HookPart \cup SharedPart
  BY <1>1, NameIs
<1>4. part # "user-limit-accept" => (Plain(l) \/ Paired(l))
  <2>1. CASE part = "base"
    <3>1. l = Base(s, h)
      BY <1>1, <2>1 DEF Chain
    <3> QED BY <1>2, <2>1, <3>1, BasePlain DEF HookPart
  <2>2. CASE part = "before"
    <3>1. l = Before(s, h)
      BY <1>1, <2>2 DEF Chain
    <3> QED BY <1>2, <2>2, <3>1, BeforePlain DEF HookPart
  <2>3. CASE part = "user"
    <3>1. l = User(s, h)
      BY <1>1, <2>3 DEF Chain
    <3>2. ~s.panic
      BY <1>1, <2>3
    <3> QED BY <3>1, <3>2, UserPaired
  <2>4. CASE part \in {"after", "reject", "track", "skip-to-policy", "not-local", "user-limit"}
    <3>1. \/ l = After(h) \/ l = RejectChain(s, h) \/ l = Track(s, h) \/ l = NotLocal \/ l = UserLimit(s)
          \/ l = <<policyVerdict(PolicyFor(s, h))>>
      BY <1>1, <2>4 DEF Chain
    <3> QED BY <3>1, AfterPlain
  <2>5. CASE part \in {"before-logging", "after-logging", "user-logging", "logging-deny"}
    <3>1. l = BeforeLogging(s) \/ l = AfterLogging(s, h) \/ l = UserLogging(s, h) \/ l = LoggingDeny(s)
      BY <1>1, <2>5 DEF Chain
    <3>2. Still(l, {"continue"}) \/ Still(l, Ending)
      BY <3>1, LoggingStill, UserLoggingStill
    <3> QED BY <3>2, StillPlain
  <2>6. CASE part = "user-egress"
    <3>1. l = <<>>
      BY <1>1, <2>6 DEF Chain
    <3> QED BY <3>1, PlainFew
  <2> QED BY <1>3, <2>1, <2>2, <2>3, <2>4, <2>5, <2>6 DEF HookPart, SharedPart
<1>5. CASE part = "user-limit-accept"
  <2>1. l = <<Accept(<<>>)>>
    BY <1>1, <1>5 DEF Chain
  <2>2. Plain(l)
    BY <2>1, PlainRules, PlainFew
  <2> QED BY <1>1, <2>2, PlainPaired
<1> QED BY <1>1, <1>4, <1>5, PlainPaired

(* A packet that a limit rule decides belongs to a new connection.         *)
LEMMA LimitedNew ==
    ASSUME NEW s, NEW p \in Packet, IsState(s), Compiles(s), F!Verdicts(s, p) = {"accept", "reject"}
    PROVE  p.ct = "new"
<1>1. "accept" # "reject"
  OBVIOUS
<1>2. \A v : {"accept", "reject"} # {v}
  BY <1>1
<1>3. F!Verdicts(s, p) = F!UserVerdicts(s, p) /\ ~s.panic
  <2>1. F!Verdicts(s, p) # {"drop"} /\ F!Verdicts(s, p) # {"accept"}
    BY <1>2
  <2>2. s.panic \in BOOLEAN
    BY DEF IsState
  <2> QED BY <2>1, <2>2, Zenon DEF F!Verdicts
<1>4. F!Covering(s, p) # {}
  <2>1. SUFFICES ASSUME F!Covering(s, p) = {} PROVE FALSE
    OBVIOUS
  <2>2. F!UserVerdicts(s, p) = {F!PolicyVerdict(s, p.hook)}
    BY <2>1 DEF F!UserVerdicts
  <2> QED BY <1>2, <1>3, <2>2
<1>5. PICK r : r = F!List(s, p)[Min(F!Covering(s, p))]
  OBVIOUS
<1>6. F!ActionVerdicts(r, p) = {"accept", "reject"}
  BY <1>3, <1>4, <1>5 DEF F!UserVerdicts, F!Min, Min
<1>7. r.action \in {"allow", "deny", "reject", "limit"}
  <2>1. IsSeq(F!List(s, p))
    BY DEF IsState, IsSeq, F!List
  <2>2. F!Covering(s, p) \subseteq Nat
    BY <2>1 DEF F!Covering, IsSeq
  <2>3. PICK i \in F!Covering(s, p) : Min(F!Covering(s, p)) = i
    BY <1>4, <2>2, Least
  <2>4. i \in DOMAIN F!List(s, p) /\ Live(r) /\ r = F!List(s, p)[i]
    BY <1>5, <2>3, Shared DEF F!Covering
  <2>5. \E v6 : ~Refused(r, v6)
    BY <1>3, <2>4 DEF Compiles, F!List
  <2> QED BY <2>5 DEF Refused
<1>8. r.action = "limit"
  <2>1. r.action = "allow" => F!ActionVerdicts(r, p) = {"accept"}
    BY DEF F!ActionVerdicts
  <2>2. r.action = "deny" => F!ActionVerdicts(r, p) = {"drop"}
    BY DEF F!ActionVerdicts
  <2>3. r.action = "reject" => F!ActionVerdicts(r, p) = {"reject"}
    BY DEF F!ActionVerdicts
  <2> QED BY <1>2, <1>6, <1>7, <2>1, <2>2, <2>3
<1>9. F!ActionVerdicts(r, p) = {"accept"} \cup IF p.ct = "new" THEN {"reject"} ELSE {}
  BY <1>8 DEF F!ActionVerdicts
<1> QED BY <1>1, <1>6, <1>9

(* Where a packet is, a rule that lets it through for a limit rule comes   *)
(* after one that counts it.                                               *)
LEMMA GuardedRule ==
    ASSUME NEW s, IsState(s), Meant(s), Compiles(s), NEW p \in Packet,
           NEW name \in ChainName, s.panic => name[1] = "base",
           NEW i \in Nat \ {0}, i <= Len(Chain(s, name)), Grants(Chain(s, name)[i])
    PROVE  i - 1 \in DOMAIN Chain(s, name) /\ Guards(Chain(s, name)[i - 1], Chain(s, name)[i])
<1>1. PICK l : l = Chain(s, name)
  OBVIOUS
<1>2. Paired(l)
  BY <1>1, ChainPaired
<1>3. i \in DOMAIN l
  <2>1. DOMAIN l = 1 .. Len(l) /\ Len(l) \in Nat
    BY <1>2 DEF Paired, IsSeq
  <2> QED BY <1>1, <2>1
<1> QED BY <1>1, <1>2, <1>3 DEF Paired

(* The chain of a limit rule's last jump accepts and does nothing else.    *)
LEMMA GrantingIs ==
    ASSUME NEW s
    PROVE  \A i \in DOMAIN Chain(s, Granting) : Chain(s, Granting)[i].verdict = "accept"
<1>1. Granting[1] = "user-limit-accept"
  BY DEF Granting
<1>2. PICK r : r = Accept(<<>>)
  OBVIOUS
<1>3. Chain(s, Granting) = <<r>>
  BY <1>1, <1>2 DEF Chain
<1>4. r.verdict = "accept"
  BY <1>2 DEF Accept, nft
<1> QED BY <1>3, <1>4, Alone

(* A packet comes to be let through for a limit rule only by a rule that   *)
(* matches it and jumps, not by the one before it in its chain;            *)
LEMMA DueAfter ==
    ASSUME NestInv, AgreeInv, AllMeant, AtRule, GoTo(chain, pc + 1, stack),
           F!Verdicts(content[config], pkt) = {"accept", "reject"}, ~Due, Due'
    PROVE  Passes(Current, pkt) /\ Current.verdict = "jump" /\ ~Current.limited
<1>1. PICK s, l : s = content[config] /\ l = Chain(s, chain)
  OBVIOUS
<1>2. Walking
  BY DEF AtRule
<1>3. /\ IsState(s) /\ Meant(s) /\ Compiles(s) /\ pkt \in Packet /\ ruleset[chain] = l
      /\ chain \in ChainName /\ pc \in Nat \ {0} /\ (s.panic => chain[1] = "base")
  BY <1>1, <1>2, OnTheWay DEF NestInv
<1>4. chain' = chain /\ pc' = pc + 1 /\ ruleset' = ruleset /\ pkt' = pkt /\ verdict' = Undecided
  BY <1>2 DEF GoTo, table, Walking
<1>5. chain # Granting
  BY <1>2 DEF Due, Walking
<1>6. pc + 1 <= Len(l) /\ Grants(l[pc + 1]) /\ Passes(l[pc + 1], pkt)
  BY <1>3, <1>4, <1>5 DEF Due, AtRule, Current, Undecided
<1>7. PICK i \in Nat \ {0} : i = pc + 1 /\ i - 1 = pc
  <2>1. pc + 1 \in Nat \ {0} /\ (pc + 1) - 1 = pc
    BY <1>3
  <2> QED BY <2>1
<1>8. Guards(l[pc], l[pc + 1])
  BY <1>1, <1>3, <1>6, <1>7, GuardedRule
<1>9. pkt.ct = "new"
  BY <1>1, <1>3, LimitedNew
<1>10. Current = l[pc]
  BY <1>3 DEF Current
<1> QED BY <1>6, <1>8, <1>9, <1>10 DEF Guards

(* not where it jumps to, unless it was already;                           *)
LEMMA DueInside ==
    ASSUME NestInv, AgreeInv, AllMeant, AtRule, NestInv', Passes(Current, pkt), Current.verdict = "jump",
           GoTo(Current.to, 1, Append(stack, [chain |-> chain, pc |-> pc + 1])), ~Due
    PROVE  ~Due'
<1>1. PICK s, to : s = content[config] /\ to = Current.to
  OBVIOUS
<1>2. Walking
  BY DEF AtRule
<1>3. IsState(s) /\ Meant(s) /\ Compiles(s) /\ pkt \in Packet
  BY <1>1, <1>2, OnTheWay
<1>4. chain' = to /\ pc' = 1 /\ UNCHANGED <<config, ruleset, pkt>> /\ verdict' = Undecided
  BY <1>1, <1>2 DEF GoTo, table, Walking
<1>5. Walking'
  BY <1>2, <1>4 DEF Walking
<1>6. to \in ChainName /\ (s.panic => to[1] = "base") /\ ruleset[to] = Chain(s, to)
  BY <1>1, <1>4, <1>5 DEF NestInv, compile
<1>7. to # Granting
  BY <1>1, <1>2 DEF Due, Grants, Walking
<1>8. ASSUME 1 <= Len(Chain(s, to)), Grants(Chain(s, to)[1]) PROVE FALSE
  <2>1. PICK i : i = 1
    OBVIOUS
  <2>2. i - 1 \in DOMAIN Chain(s, to)
    BY <1>3, <1>6, <1>8, <2>1, GuardedRule
  <2>3. IsSeq(Chain(s, to))
    BY <1>3, <1>6, ChainPaired DEF Paired
  <2> QED BY <2>1, <2>2, <2>3 DEF IsSeq
<1> QED BY <1>4, <1>6, <1>7, <1>8 DEF Due, AtRule, Current, Undecided

(* and not where it comes back to: a packet does not come back from the    *)
(* chain that rejects it for its rate.                                     *)
LEMMA DueBack ==
    ASSUME NestInv, AgreeInv, AllMeant, Walking, NestInv', stack # <<>>,
           chain \notin Closed(content[config], pkt),
           GoTo(Last(stack).chain, Last(stack).pc, Front(stack))
    PROVE  ~Due'
<1>1. PICK s : s = content[config]
  OBVIOUS
<1>2. /\ IsState(s) /\ Meant(s) /\ Compiles(s) /\ pkt \in Packet
      /\ \A i \in DOMAIN stack : Called(s, pkt, stack[i], Callee(i))
  BY <1>1, OnTheWay
<1>3. PICK n \in Nat \ {0} : n = Len(stack) /\ DOMAIN stack = 1 .. n
  BY DEF NestInv
<1>4. PICK top : top = stack[n]
  OBVIOUS
<1>5. top \in Frame
  BY <1>3, <1>4 DEF NestInv
<1>6. top.chain \in ChainName /\ top.pc \in Nat \ {0}
  BY <1>5 DEF Frame
<1>7. Called(s, pkt, top, chain)
  <2>1. Callee(n) = chain
    BY <1>3 DEF Callee
  <2> QED BY <1>2, <1>3, <1>4, <2>1
<1>8. chain' = top.chain /\ pc' = top.pc /\ UNCHANGED <<config, ruleset, pkt>> /\ verdict' = Undecided
  BY <1>3, <1>4 DEF GoTo, table, Walking, Last
<1>9. Walking'
  BY <1>8 DEF Walking
<1>10. PICK l : l = Chain(s, top.chain)
  OBVIOUS
<1>11. (s.panic => top.chain[1] = "base") /\ ruleset[top.chain] = l
  BY <1>1, <1>6, <1>8, <1>9, <1>10 DEF NestInv, compile
<1>12. top.pc - 1 \in DOMAIN l /\ l[top.pc - 1].verdict = "jump" /\ l[top.pc - 1].to = chain
  BY <1>7, <1>10 DEF Called
<1>13. top.chain # Granting
  <2>1. "jump" # "accept"
    OBVIOUS
  <2> QED BY <1>10, <1>12, <2>1, GrantingIs
<1>14. ASSUME top.pc <= Len(l), Grants(l[top.pc]) PROVE FALSE
  <2>1. Guards(l[top.pc - 1], l[top.pc])
    BY <1>2, <1>6, <1>10, <1>11, <1>14, GuardedRule
  <2>2. chain = <<"user-limit", "">>
    BY <1>12, <2>1 DEF Guards
  <2>3. chain \in Inner(pkt)
    BY <2>2 DEF Inner
  <2> QED BY <2>3 DEF Closed
<1> QED BY <1>8, <1>10, <1>11, <1>13, <1>14 DEF Due, AtRule, Current, Undecided

(* It is counted then.                                                     *)
LEMMA DueCounted ==
    ASSUME NestInv, AgreeInv, AllMeant, Step, F!Verdicts(content[config], pkt) = {"accept", "reject"},
           ~Due, Due'
    PROVE  Metered
<1>1. PICK s, r : s = content[config] /\ r = Current
  OBVIOUS
<1>2. NestInv'
  BY StepNests
<1>3. ASSUME NEW v PROVE F!Verdicts(s, pkt) # {v}
  <2>1. "accept" # "reject"
    OBVIOUS
  <2> QED BY <1>1, <2>1
<1>4. CASE Matched
  <2>1. AtRule /\ Walking /\ Passes(r, pkt)
    BY <1>1, <1>4 DEF Matched, AtRule
  <2>2. Right(s, pkt, chain, r)
    BY <1>1, <2>1, RuleRight
  <2>3. ~(r.verdict \in {"accept", "drop", "reject"} /\ Decided(r.verdict))
    <3>1. SUFFICES ASSUME r.verdict \in {"accept", "drop", "reject"}, Decided(r.verdict) PROVE FALSE
      OBVIOUS
    <3>2. verdict' = r.verdict /\ verdict' # Undecided
      BY <3>1 DEF Decided, Undecided
    <3>3. r.verdict = "accept"
      BY <3>2 DEF Due, Walking
    <3>4. chain = Granting
      BY <1>3, <2>1, <2>2, <3>3 DEF Right
    <3> QED BY <2>1, <3>4 DEF Due, Walking
  <2>4. ~(r.verdict = "continue" /\ GoTo(chain, pc + 1, stack))
    <3>1. "continue" # "jump"
      OBVIOUS
    <3> QED BY <1>1, <2>1, <3>1, DueAfter
  <2>5. ~(r.verdict = "jump" /\ GoTo(r.to, 1, Append(stack, [chain |-> chain, pc |-> pc + 1])))
    BY <1>1, <1>2, <2>1, DueInside
  <2>6. ~(r.verdict = "return" /\ stack # <<>> /\ GoTo(Last(stack).chain, Last(stack).pc, Front(stack)))
    <3>1. r.verdict = "return" => chain \notin Closed(s, pkt)
      BY <2>1, <2>2 DEF Right
    <3> QED BY <1>1, <1>2, <2>1, <3>1, DueBack
  <2> QED BY <1>1, <1>4, <2>3, <2>4, <2>5, <2>6 DEF Matched
<1>5. CASE Missed
  BY <1>5, DueAfter DEF Missed
<1>6. CASE ChainEnd
  <2>1. Walking /\ ~AtRule
    BY <1>6 DEF ChainEnd
  <2>2. CASE stack # <<>>
    <3>1. chain \notin Closed(s, pkt)
      BY <1>1, <2>1, AtTheEnd
    <3>2. GoTo(Last(stack).chain, Last(stack).pc, Front(stack))
      BY <1>6, <2>2 DEF ChainEnd
    <3> QED BY <1>1, <1>2, <2>1, <2>2, <3>1, <3>2, DueBack
  <2>3. CASE stack = <<>>
    <3>1. /\ IsState(s) /\ Meant(s) /\ Compiles(s) /\ pkt \in Packet /\ pkt.hook \in Hook
          /\ Fine(s, pkt, chain, pc) /\ chain[1] = "base"
      BY <1>1, <2>1, <2>3, OnTheWay
    <3>2. chain \in ChainName /\ (chain[2] = "" \/ chain[2] = pkt.hook)
      BY <3>1 DEF Fine
    <3>3. chain[2] = pkt.hook
      BY <3>1, <3>2, NameIs DEF SharedPart
    <3>4. Chain(s, chain) = Base(s, pkt.hook)
      BY <3>1, <3>3 DEF Chain
    <3>5. \A j \in DOMAIN Base(s, pkt.hook) : ~Settles(Closed(s, pkt), Base(s, pkt.hook)[j], pkt)
      BY <1>1, <2>1, <3>4, AtTheEnd
    <3>6. F!Verdicts(s, pkt) = {BasePolicy(s, pkt.hook)}
      BY <3>1, <3>5, PolicyDecides
    <3> QED BY <1>3, <3>6
  <2> QED BY <2>2, <2>3
<1> QED BY <1>4, <1>5, <1>6 DEF Step

(* Counting one more.                                                      *)
LEMMA CountMore ==
    ASSUME NEW f, \A x \in DOMAIN f : f[x] \in Nat, NEW k
    PROVE  /\ \A x : Count(f, x) \in Nat
           /\ \A x : Count(Incremented(f, k), x) = Count(f, x) + IF x = k THEN 1 ELSE 0
           /\ \A x \in DOMAIN Incremented(f, k) : Incremented(f, k)[x] \in Nat
<1>1. \A x : Count(f, x) \in Nat
  BY DEF Count
<1>2. PICK g : g = Incremented(f, k)
  OBVIOUS
<1>3. /\ DOMAIN g = DOMAIN f \cup {k}
      /\ \A x \in DOMAIN g : g[x] = Count(f, x) + IF x = k THEN 1 ELSE 0
  BY <1>2 DEF Incremented
<1>4. \A x \in DOMAIN g : g[x] \in Nat
  BY <1>1, <1>3
<1>5. ASSUME NEW x PROVE Count(g, x) = Count(f, x) + IF x = k THEN 1 ELSE 0
  <2>1. CASE x \in DOMAIN g
    BY <1>3, <2>1 DEF Count
  <2>2. CASE x \notin DOMAIN g
    BY <1>3, <2>2 DEF Count
  <2> QED BY <2>1, <2>2
<1> QED BY <1>1, <1>2, <1>4, <1>5

(* The connection a packet opens through a limit rule, and the element of  *)
(* the dynamic set that counts it.                                         *)
LEMMA GrantedIs ==
    /\ GrantedBy(pkt) # {} => F!Verdicts(content[config], pkt) = {"accept", "reject"}
    /\ \A k \in GrantedBy(pkt) :
          /\ GrantedBy(pkt) = {k}
          /\ KeyOf(k) = MeterKey(MeterOf(Decider(content[config], pkt), pkt.v6))
<1>1. PICK s, r : s = content[config] /\ r = Decider(s, pkt)
  OBVIOUS
<1>2. GrantedBy(pkt) = IF F!Verdicts(s, pkt) = {"accept", "reject"} THEN {LimitKey(r, pkt)} ELSE {}
  BY <1>1, Zenon DEF GrantedBy, Decider
<1>3. KeyOf(LimitKey(r, pkt)) = MeterKey(MeterOf(r, pkt.v6))
  <2>1. PICK n : n = IF Ported(r) THEN pkt.dport ELSE 0
    OBVIOUS
  <2>2. LimitKey(r, pkt) = <<r.id, pkt.v6, pkt.saddr, n>>
    BY <2>1 DEF LimitKey, Ported
  <2>3. PICK m : m = MeterOf(r, pkt.v6)
    OBVIOUS
  <2>4. m.set = <<r.id, pkt.v6>> /\ m.ported = Ported(r)
    BY <2>3 DEF MeterOf
  <2>5. MeterKey(m) = << <<r.id, pkt.v6>>, pkt.saddr, n>>
    BY <2>1, <2>4 DEF MeterKey
  <2>6. \A a, b, c, d : KeyOf(<<a, b, c, d>>) = << <<a, b>>, c, d>>
    BY DEF KeyOf
  <2> QED BY <2>2, <2>3, <2>5, <2>6
<1> QED BY <1>1, <1>2, <1>3

(* A step lets nothing through that is not paid for.                       *)
LEMMA StepPaid ==
    ASSUME NestInv, AgreeInv, AllMeant, PaidInv, Step PROVE PaidInv'
<1>1. UNCHANGED <<config, pkt, granted>> /\ Walking
  BY DEF Step, Matched, Missed, Metered, ChainEnd, AtRule, Decided, GoTo, table
<1>2. \A k \in DOMAIN spent : spent[k] \in Nat
  BY BurstAssumption DEF NestInv
<1>3. PICK G : G = GrantedBy(pkt)
  OBVIOUS
<1>4. GrantedBy(pkt)' = G
  <2>1. config' = config /\ pkt' = pkt
    BY <1>1
  <2>2. GrantedBy(pkt)' = GrantedBy(pkt)
    BY ONLY <2>1 DEF GrantedBy, LimitKey
  <2> QED BY <1>3, <2>2
<1>5. spent' = spent \/ \E y : spent' = Incremented(spent, y)
  BY DEF Step, Matched, Missed, Metered, ChainEnd, Decided
<1>6. \A x : Count(spent, x) \in Nat /\ Count(spent', x) \in Nat /\ Count(spent, x) <= Count(spent', x)
  <2>1. CASE spent' = spent
    BY <1>2, <2>1, CountMore
  <2>2. ASSUME NEW y, spent' = Incremented(spent, y)
        PROVE  \A x : Count(spent, x) \in Nat /\ Count(spent', x) \in Nat /\ Count(spent, x) <= Count(spent', x)
    BY <1>2, <2>2, CountMore
  <2> QED BY <1>5, <2>1, <2>2
<1>7. ASSUME NEW k, k \in Owed', k \notin Owed PROVE Count(spent', KeyOf(k)) = Count(spent, KeyOf(k)) + 1
  <2>1. k \in G /\ ~Due /\ Due'
    BY <1>3, <1>4, <1>7 DEF Owed
  <2>2. /\ F!Verdicts(content[config], pkt) = {"accept", "reject"}
        /\ KeyOf(k) = MeterKey(MeterOf(Decider(content[config], pkt), pkt.v6))
    BY <1>3, <2>1, GrantedIs
  <2>3. Metered
    BY <2>1, <2>2, DueCounted
  <2>4. Right(content[config], pkt, chain, Current)
    BY <2>3, RuleRight DEF Metered
  <2>5. PICK m \in Current.meter : spent' = Incremented(spent, MeterKey(m))
    BY <2>3 DEF Metered
  <2>6. m = MeterOf(Decider(content[config], pkt), pkt.v6)
    BY <2>3, <2>4, <2>5 DEF Metered, Right
  <2>7. spent' = Incremented(spent, KeyOf(k))
    BY <2>2, <2>5, <2>6
  <2> QED BY <1>2, <2>7, CountMore
<1>8. \A k : Count(granted, k) \in Nat
  BY CountMore DEF PaidInv
<1>9. ASSUME NEW k PROVE Count(granted, k) + (IF k \in Owed' THEN 1 ELSE 0) <= Count(spent', KeyOf(k))
  <2>1. Count(granted, k) + (IF k \in Owed THEN 1 ELSE 0) <= Count(spent, KeyOf(k))
    BY DEF PaidInv
  <2>2. PICK a, b, c : a = Count(granted, k) /\ b = Count(spent, KeyOf(k)) /\ c = Count(spent', KeyOf(k))
    OBVIOUS
  <2>3. a \in Nat /\ b \in Nat /\ c \in Nat /\ b <= c
    BY <1>6, <1>8, <2>2
  <2>4. k \in Owed' /\ k \notin Owed => c = b + 1
    BY <1>7, <2>2
  <2> QED BY <2>1, <2>2, <2>3, <2>4
<1>10. \A k : Count(granted, k)' = Count(granted, k) /\ Count(spent, KeyOf(k))' = Count(spent', KeyOf(k))
  BY <1>1 DEF Count, KeyOf
<1>11. granted' = granted
  BY <1>1
<1> QED BY <1>9, <1>10, <1>11 DEF PaidInv

(* Nor does anything else.                                                 *)
LEMMA NextPaid ==
    ASSUME NestInv, AgreeInv, AllMeant, PaidInv, [Next]_vars, NestInv' PROVE PaidInv'
<1>1. ASSUME granted' = Empty, spent' = Empty, ~Due' PROVE PaidInv'
  <2>1. DOMAIN Empty = {} /\ \A k : Count(Empty, k) = 0
    BY DEF Empty, Count
  <2>2. Owed' = {}
    BY <1>1 DEF Owed
  <2>3. \A k : Count(granted, k)' = 0 /\ Count(spent, KeyOf(k))' = 0
    BY <1>1, <2>1 DEF Count, KeyOf
  <2> QED BY <1>1, <2>1, <2>2, <2>3 DEF PaidInv
<1>2. CASE Apply
  BY <1>1, <1>2 DEF Apply, Due
<1>3. CASE Quiet
  BY <1>1, <1>3 DEF Quiet, Due
<1>4. CASE Arrive
  <2>1. PICK s, p, name : s = content[config] /\ p = pkt' /\ name = <<"base", p.hook>>
    OBVIOUS
  <2>2. /\ pkt = NoPacket /\ p \in Packet /\ chain' = name /\ pc' = 1
        /\ UNCHANGED <<config, ruleset, granted, spent>> /\ verdict' = Undecided
    BY <1>4, <2>1 DEF Arrive, NestInv, table
  <2>3. IsState(s) /\ Meant(s) /\ Compiles(s) /\ name \in ChainName /\ name[1] = "base"
    <3>1. IsState(s) /\ Meant(s) /\ Compiles(s)
      BY <2>1, ContentAssumption DEF NestInv, Applicable, AllMeant
    <3>2. p.hook \in Hook
      BY <2>2, Header
    <3> QED BY <2>1, <3>1, <3>2, Names
  <2>4. ruleset[name] = Chain(s, name)
    BY <2>1, <2>3 DEF NestInv, compile
  <2>5. name # Granting
    <3>1. Granting[1] = "user-limit-accept"
      BY DEF Granting
    <3> QED BY <2>3, <3>1
  <2>6. ASSUME 1 <= Len(Chain(s, name)), Grants(Chain(s, name)[1]) PROVE FALSE
    <3>1. PICK i : i = 1
      OBVIOUS
    <3>2. i - 1 \in DOMAIN Chain(s, name)
      BY <2>2, <2>3, <2>6, <3>1, GuardedRule
    <3>3. IsSeq(Chain(s, name))
      BY <2>2, <2>3, ChainPaired DEF Paired
    <3> QED BY <3>1, <3>2, <3>3 DEF IsSeq
  <2>7. ~Due'
    BY <2>2, <2>4, <2>5, <2>6 DEF Due, AtRule, Current, Undecided
  <2>8. Owed' = {}
    BY <2>7 DEF Owed
  <2>9. \A k : Count(granted, k) \in Nat /\ Count(granted, k) <= Count(spent, KeyOf(k))
    <3>1. \A k : Count(granted, k) \in Nat /\ Count(spent, KeyOf(k)) \in Nat
      <4>1. \A k \in DOMAIN spent : spent[k] \in Nat
        BY BurstAssumption DEF NestInv
      <4> QED BY <4>1, CountMore DEF PaidInv
    <3>2. \A k : Count(granted, k) + (IF k \in Owed THEN 1 ELSE 0) <= Count(spent, KeyOf(k))
      BY DEF PaidInv
    <3> QED BY <3>1, <3>2
  <2>10. \A k : Count(granted, k)' = Count(granted, k) /\ Count(spent, KeyOf(k))' = Count(spent, KeyOf(k))
    BY <2>2 DEF Count, KeyOf
  <2>11. \A k : Count(granted, k) + 0 <= Count(spent, KeyOf(k))
    BY <2>9
  <2>12. \A k \in DOMAIN granted' : granted'[k] \in Nat
    BY <2>2 DEF PaidInv
  <2> QED BY <2>8, <2>10, <2>11, <2>12 DEF PaidInv
<1>5. CASE Step
  BY <1>5, StepPaid
<1>6. CASE Leave
  <2>1. verdict # Undecided /\ pkt # NoPacket /\ pkt' = NoPacket /\ spent' = spent
    BY <1>6 DEF Leave, NestInv
  <2>2. Owed' = {}
    BY <2>1 DEF Owed, Due
  <2>3. \A k \in DOMAIN granted : granted[k] \in Nat
    BY DEF PaidInv
  <2>4. \A k : Count(granted, k) \in Nat /\ Count(spent, KeyOf(k)) \in Nat
    <3>1. \A k \in DOMAIN spent : spent[k] \in Nat
      BY BurstAssumption DEF NestInv
    <3> QED BY <2>3, <3>1, CountMore
  <2>5. \A k : Count(granted, k) + (IF k \in Owed THEN 1 ELSE 0) <= Count(spent, KeyOf(k))
    BY DEF PaidInv
  <2>6. PICK G : G = GrantedBy(pkt)
    OBVIOUS
  <2>7. CASE verdict = "accept" /\ G # {}
    <3>1. PICK k0 : G = {k0}
      BY <2>6, <2>7, GrantedIs
    <3>2. granted' = Incremented(granted, k0)
      BY <1>6, <2>6, <2>7, <3>1 DEF Leave
    <3>3. Owed = {k0}
      BY <2>1, <2>6, <2>7, <3>1 DEF Owed, Due
    <3>4. \A k : Count(granted', k) = Count(granted, k) + IF k = k0 THEN 1 ELSE 0
      BY <2>3, <3>2, CountMore
    <3>5. \A k \in DOMAIN granted' : granted'[k] \in Nat
      BY <2>3, <3>2, CountMore
    <3>6. \A k : Count(granted', k) + 0 <= Count(spent', KeyOf(k))
      BY <2>1, <2>4, <2>5, <3>3, <3>4
    <3>7. \A k : Count(granted, k)' = Count(granted', k) /\ Count(spent, KeyOf(k))' = Count(spent', KeyOf(k))
      BY DEF Count, KeyOf
    <3> QED BY <2>2, <3>5, <3>6, <3>7 DEF PaidInv
  <2>8. CASE ~(verdict = "accept" /\ G # {})
    <3>1. granted' = granted
      BY <1>6, <2>6, <2>8 DEF Leave
    <3>2. \A k : Count(granted, k) + 0 <= Count(spent, KeyOf(k))
      BY <2>4, <2>5
    <3>3. \A k : Count(granted, k)' = Count(granted, k) /\ Count(spent, KeyOf(k))' = Count(spent, KeyOf(k))
      BY <2>1, <3>1 DEF Count, KeyOf
    <3> QED BY <2>2, <2>3, <3>1, <3>2, <3>3 DEF PaidInv
  <2> QED BY <2>7, <2>8
<1>7. CASE UNCHANGED vars
  <2>1. UNCHANGED <<config, ruleset, pkt, verdict, chain, pc, stack, spent, granted>>
    BY <1>7 DEF vars, table, where
  <2>2. Owed' = Owed
    <3>1. Due' = Due
      BY <2>1 DEF Due, Walking, AtRule, Current
    <3>2. GrantedBy(pkt)' = GrantedBy(pkt)
      BY <2>1 DEF GrantedBy, LimitKey, F!Verdicts, F!UserVerdicts, F!List, F!Covering
    <3> QED BY <3>1, <3>2 DEF Owed
  <2>3. \A k : Count(granted, k)' = Count(granted, k) /\ Count(spent, KeyOf(k))' = Count(spent, KeyOf(k))
    BY <2>1 DEF Count, KeyOf
  <2> QED BY <2>1, <2>2, <2>3 DEF PaidInv
<1> QED BY <1>2, <1>3, <1>4, <1>5, <1>6, <1>7 DEF Next

(* A source opens no more than Burst connections to a port at once through *)
(* a limit rule, whatever the rules are: compileLimit's first branch       *)
(* counts what its second lets through, and both variants of a rule count  *)
(* in the one set.                                                         *)
THEOREM LimitIsHeld ==
    ASSUME \A c \in Config : Meant(content[c])
    PROVE  Spec => []LimitHeld
<1>1. AllMeant
  BY DEF AllMeant
<1>2. Init => PaidInv
  <2> SUFFICES ASSUME Init PROVE PaidInv
    OBVIOUS
  <2>1. DOMAIN Empty = {} /\ \A k : Count(Empty, k) = 0
    BY DEF Empty, Count
  <2>2. Owed = {} /\ spent = Empty /\ granted = Empty
    BY DEF Init, Owed, Due
  <2> QED BY <2>1, <2>2 DEF PaidInv
<1>3. NestInv /\ NestInv' /\ AgreeInv /\ PaidInv /\ [Next]_vars => PaidInv'
  BY <1>1, NextPaid
<1>4. NestInv /\ PaidInv => LimitHeld
  <2> SUFFICES ASSUME NestInv, PaidInv, NEW k \in DOMAIN granted PROVE granted[k] <= Burst
    BY DEF LimitHeld
  <2>1. granted[k] \in Nat /\ Count(granted, k) = granted[k]
    BY DEF PaidInv, Count
  <2>2. Count(spent, KeyOf(k)) \in 0 .. Burst
    BY BurstAssumption DEF NestInv, Count
  <2>3. granted[k] + (IF k \in Owed THEN 1 ELSE 0) <= Count(spent, KeyOf(k))
    BY <2>1 DEF PaidInv
  <2> QED BY <2>1, <2>2, <2>3, BurstAssumption
<1> QED BY <1>1, <1>2, <1>3, <1>4, NestInvHolds, AgreeInvHolds, PTL DEF Spec

=============================================================================
