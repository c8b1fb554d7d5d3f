------------------------------- MODULE Packets ------------------------------
(***************************************************************************)
(* The ruleset at work: the kernel takes a packet through the chains that  *)
(* Compile builds, one rule at a time.  Apply puts a new ruleset in place  *)
(* of the old in one batch, so no packet sees a part of each.              *)
(*                                                                         *)
(* How the kernel walks chains, limits rates and keeps dynamic sets is     *)
(* modelled from how compile.go uses it.                                   *)
(***************************************************************************)
EXTENDS Compile

CONSTANTS
    Config,         \* configurations
    content,        \* content[c]: the state in rules.json, and /etc/default
    Packet,         \* packets at one of the hooks
    Burst           \* connections a source may open at once: 5

ASSUME BurstAssumption == Burst \in Nat \ {0}

ASSUME ContentAssumption == \A c \in Config : IsState(content[c])

ASSUME HeaderAssumption ==
    Packet \subseteq [hook : Hook, v6 : BOOLEAN, in : STRING, out : STRING,
                     ct : STRING, proto : STRING, icmp : Int, saddr : Address,
                     daddr : Address, sport : Nat, dport : Nat, fib : STRING,
                     rh0 : BOOLEAN, hl : Nat]

VARIABLES
    config,         \* the configuration the kernel's ruleset was compiled from
    ruleset,        \* the chains of that table
    pkt,            \* the packet on its way, or NoPacket
    chain, pc,      \* the rule it has reached
    stack,          \* the rules it came from, to return to
    verdict,        \* accept, drop or reject, once there is one
    spent,          \* spent[k]: what is used up of the meter of key k
    granted         \* history: new connections a limit rule let through

table == <<config, ruleset>>
where == <<chain, pc, stack>>
vars == <<table, pkt, where, verdict, spent, granted>>

NoPacket == [hook |-> ""]
Undecided == ""
Nowhere == <<"", "">>
Empty == [k \in {} |-> 0]

Applicable == {c \in Config : Compiles(content[c])}
compile(c) == [name \in ChainName |-> Chain(content[c], name)]

Init ==
    /\ config \in Applicable /\ ruleset = compile(config)
    /\ pkt = NoPacket /\ verdict = Undecided
    /\ chain = Nowhere /\ pc = 0 /\ stack = <<>>
    /\ spent = Empty /\ granted = Empty

(* Backend.Apply: the table is deleted and rebuilt, dynamic sets empty.    *)
Apply ==
    /\ pkt = NoPacket
    /\ config' \in Applicable /\ ruleset' = compile(config')
    /\ spent' = Empty /\ granted' = Empty
    /\ UNCHANGED <<pkt, where, verdict>>

Arrive ==
    /\ pkt = NoPacket
    /\ pkt' \in Packet
    /\ chain' = <<"base", pkt'.hook>> /\ pc' = 1 /\ stack' = <<>>
    /\ UNCHANGED <<table, verdict, spent, granted>>

-----------------------------------------------------------------------------
Walking == pkt # NoPacket /\ verdict = Undecided
AtRule == Walking /\ pc <= Len(ruleset[chain])
Current == ruleset[chain][pc]

Passes(r, p) == \A i \in DOMAIN r.on : p[r.on[i][1]] \in r.on[i][2]

Count(f, k) == IF k \in DOMAIN f THEN f[k] ELSE 0
Incremented(f, k) == [x \in DOMAIN f \cup {k} |-> Count(f, x) + IF x = k THEN 1 ELSE 0]

(* The dynamic set is keyed by source and port, one of 0 if the rule has   *)
(* no ports to tell apart.                                                 *)
MeterKey(m) == <<m.set, pkt.saddr, IF m.ported THEN pkt.dport ELSE 0>>

Decided(v) == /\ verdict' = v
              /\ chain' = Nowhere /\ pc' = 0 /\ stack' = <<>>
              /\ UNCHANGED <<table, pkt, spent, granted>>

GoTo(c, i, s) == /\ chain' = c /\ pc' = i /\ stack' = s
                 /\ UNCHANGED <<table, pkt, verdict, granted>>

(* The rule matches, and its verdict is carried out.                       *)
Matched ==
    LET r == Current IN
    /\ AtRule /\ Passes(r, pkt)
    /\ \A m \in r.meter : Count(spent, MeterKey(m)) >= Burst
    /\ \/ r.verdict \in {"accept", "drop", "reject"} /\ Decided(r.verdict)
       \/ r.verdict = "continue" /\ GoTo(chain, pc + 1, stack) /\ UNCHANGED spent
       \/ /\ r.verdict = "jump"
          /\ GoTo(r.to, 1, Append(stack, [chain |-> chain, pc |-> pc + 1]))
          /\ UNCHANGED spent
       \/ /\ r.verdict = "return" /\ stack # <<>>
          /\ GoTo(Last(stack).chain, Last(stack).pc, Front(stack))
          /\ UNCHANGED spent

(* An expression fails, or a rate is used up that the rule is limited to.  *)
Missed ==
    /\ AtRule
    /\ Passes(Current, pkt) => Current.limited
    /\ GoTo(chain, pc + 1, stack)
    /\ UNCHANGED spent

(* update @bfw_limit_...: within the rate the packet is counted, and the   *)
(* rule does not match.                                                    *)
Metered ==
    /\ AtRule /\ Passes(Current, pkt)
    /\ \E m \in Current.meter :
          /\ Count(spent, MeterKey(m)) < Burst
          /\ spent' = Incremented(spent, MeterKey(m))
    /\ GoTo(chain, pc + 1, stack)

(* The end of a chain: back to where it was called, or the policy.         *)
ChainEnd ==
    /\ Walking /\ ~AtRule
    /\ IF stack # <<>>
       THEN GoTo(Last(stack).chain, Last(stack).pc, Front(stack)) /\ UNCHANGED spent
       ELSE Decided(BasePolicy(content[config], pkt.hook))

Step == Matched \/ Missed \/ Metered \/ ChainEnd

F == INSTANCE Firewall

(* The limit rule that decides p, the connections it tells apart.          *)
LimitKey(r, p) == <<r.id, p.v6, p.saddr,
                    IF r.sports \cup r.dports = {} /\ r.proto \notin {"tcp", "udp"}
                    THEN 0 ELSE p.dport>>
GrantedBy(p) ==
    IF F!Verdicts(content[config], p) = {"accept", "reject"}
    THEN LET s == content[config]
         IN  {LimitKey(F!List(s, p)[Min(F!Covering(s, p))], p)}
    ELSE {}

Leave ==
    /\ verdict # Undecided
    /\ pkt' = NoPacket /\ verdict' = Undecided
    /\ granted' = IF verdict = "accept" /\ GrantedBy(pkt) # {}
                  THEN Incremented(granted, CHOOSE k \in GrantedBy(pkt) : TRUE)
                  ELSE granted
    /\ UNCHANGED <<table, where, spent>>

(* Thirty seconds without a packet: the elements of dynamic sets time out. *)
(* All else takes less than the ten seconds a meter needs to give one      *)
(* packet back.                                                            *)
Quiet ==
    /\ pkt = NoPacket /\ spent # Empty
    /\ spent' = Empty /\ granted' = Empty
    /\ UNCHANGED <<table, pkt, where, verdict>>

Next == Apply \/ Arrive \/ Step \/ Leave \/ Quiet

(* The kernel does not stop in the middle of a ruleset.                    *)
Spec == Init /\ [][Next]_vars /\ WF_vars(Step)

-----------------------------------------------------------------------------
(* Type correctness; jumps nest to a depth of 3 (base, before, not-local,  *)
(* logging-deny), far from the kernel's limit of 16.                       *)
TypeOK ==
    /\ config \in Config /\ pkt \in Packet \cup {NoPacket}
    /\ verdict \in {Undecided, "accept", "drop", "reject"}
    /\ pc \in Nat /\ Len(stack) <= 3
    /\ \A k \in DOMAIN spent : spent[k] \in 1 .. Burst

(* A banned source gets nothing in or through, not even on a connection    *)
(* it had opened before: compile.go puts the bans before the fast path of  *)
(* established flows.  Only loopback is exempt.                            *)
BannedNeverAccepted ==
    verdict = "accept" /\ F!Banned(content[config], pkt) => F!Loopback(pkt)

(* compileLimit: a source opens at most Burst connections to a port at     *)
(* once through a limit rule, tcp and udp counted together.                *)
LimitHeld == \A k \in DOMAIN granted : granted[k] <= Burst

(* compileAddressSet: no two intervals of a set overlap or touch, or the   *)
(* kernel would refuse the batch and with it the whole ruleset.            *)
SetsInsertable ==
    pkt = NoPacket => \A set \in AddressSets(content[config]) : Insertable(set)

(* Every packet gets its verdict, and it is the one rules.json asks for:   *)
(* the built-in decisions, then the first rule that covers it, then the    *)
(* policy; no log level and no logging chain changes it.                   *)
FirewallSpec == F!Spec

(* The set of the bans holds every address one of them covers.             *)
BansComplete(s) ==
    \A v6 \in BOOLEAN, i \in DOMAIN s.bans :
        s.bans[i].element.v6 = v6 /\ ~s.bans[i].expired
        => Covers(s.bans[i].element) \subseteq BannedAddresses(s, v6)

(* mergeAddrIntervals: "An invalid end is +oo within the family", so an    *)
(* interval within another takes nothing from it.                          *)
SetsComplete == BansComplete(content[config])

-----------------------------------------------------------------------------
(* The bans in force.                                                      *)
LiveBans(s) == {s.bans[i].element : i \in {j \in DOMAIN s.bans : ~s.bans[j].expired}}

(* An element with the last address holds none without it.                 *)
TopHoldsTop(X) ==
    \A e, g \in X : e.v6 = g.v6 /\ Space - 1 \in Covers(e) /\ Covers(g) \subseteq Covers(e)
                    => Space - 1 \in Covers(g)

(* What a state must be for the ruleset to say what it says: no prefix up  *)
(* to the last address of its family holds another that is not, every set  *)
(* a rule names is there, and no endpoint of a rule has ports of other     *)
(* protocols only.                                                         *)
PortsMeant(r) ==
    /\ r.sports \cup r.dports # {} => r.proto \in {"any", "tcp", "udp"}
    /\ \A k \in DOMAIN protoVariants(r) :
          \A ports \in {r.sports, r.dports} :
             protoVariants(r)[k] \in {"tcp", "udp"} /\ ports # {}
             => Ranges(ports, protoVariants(r)[k]) # {}
Meant(s) ==
    /\ TopHoldsTop(LiveBans(s))
    /\ \A name \in DOMAIN s.sets : TopHoldsTop(Range(s.sets[name]))
    /\ \A list \in {s.rules4, s.rules6} : \A i \in DOMAIN list :
          /\ {list[i].src.set, list[i].dst.set} \subseteq DOMAIN s.sets \cup {NoSet}
          /\ PortsMeant(list[i])

=============================================================================
