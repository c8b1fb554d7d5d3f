----------------------------- MODULE Firewalld ------------------------------
(***************************************************************************)
(* The reader of a firewalld configuration, the administrator's files over *)
(* those of the vendor, and what firewalld itself decides by it.  An       *)
(* attribute or element the reader refuses wherever it meets it makes the  *)
(* zone, the element or the configuration `odd': a target, an inversion, a *)
(* limit, a mark, masquerading, direct rules, a policy of another shape.   *)
(***************************************************************************)
EXTENDS Readers

CONSTANTS
    Prefix,         \* the sets of addresses that are prefixes
    Protocol,       \* the services that are protocols without ports
    PolicyService,  \* what the stock policy allow-host-ipv6 accepts
    Icmp,           \* the services that are ICMP
    Zone,           \* names of zones
    zoneOrder,      \* them in the order of their files' names
    Named,          \* names of services
    definition      \* definition[n]: [parts, includes] of a service's file

ASSUME FirewalldAssumption ==
    /\ Prefix \subseteq SUBSET Addr
    /\ \A a, b \in Prefix : a \subseteq b \/ b \subseteq a \/ a \cap b = {}
    /\ IsFiniteSet(Protocol) /\ zoneOrder \in Seq(Zone) /\ Zone \subseteq Range(zoneOrder)
    /\ Protocol \cup PolicyService \cup Icmp \subseteq Service
    /\ \A n \in Named : definition[n].parts \subseteq Service /\ definition[n].includes \subseteq Named

(* A source or a binding names addresses of one family, by prefix or by    *)
(* ipset, or nothing.                                                      *)
Anywhere == [kind |-> "any", addrs |-> Addr, families |-> Family]
Source == {Anywhere}
    \cup [kind : {"address"}, addrs : Prefix, families : {{"v4"}, {"v6"}}]
    \cup [kind : {"ipset"}, addrs : SUBSET Addr, families : {{"v4"}, {"v6"}}]
Binding == [iface : Iface \cup {"any"}, source : Source]

(* <port>, <source-port>, <protocol> and <service> accept; a <rule> has a  *)
(* verdict of its own.  A service is given by its name.                    *)
Element == [rich : BOOLEAN, act : Verdict, families : SUBSET Family \ {{}}, source : Source,
            services : SUBSET Service, named : Named \cup {""}, odd : BOOLEAN]

fwZone == [bindings : Seq(Binding), elems : Seq(Element), odd : BOOLEAN]

(* vendor and etc map the basenames of zone files to zones.                *)
zonesOf(conf) == conf.etc @@ conf.vendor

-----------------------------------------------------------------------------
(* resolveService: its file and those it includes, or an error if one of   *)
(* them includes itself.                                                   *)
Reached(names) ==
    {n \in Named : \A S \in SUBSET Named :
        names \subseteq S /\ (\A m \in S : definition[m].includes \subseteq S) => n \in S}
Cyclic(n) == n \in Reached(definition[n].includes)

resolveService ==
    [n \in Named |-> [error |-> \E m \in Reached({n}) : Cyclic(m),
                     parts |-> UNION {definition[m].parts : m \in Reached({n})}]]

(* An element as templates for emit: one for the ports of a service and    *)
(* one for each protocol; in a rich rule there is room for one of them.    *)
parts(e) == IF e.named = "" THEN e.services ELSE resolveService[e.named].parts

templates(e) ==
    LET ports == parts(e) \ Protocol
    IN  IF e.named = "" THEN <<e.services>>
        ELSE (IF ports = {} THEN <<>> ELSE <<ports>>)
             \o SetToSeq({{p} : p \in parts(e) \cap Protocol})

oddElement(e) ==
    \/ e.odd
    \/ e.named # "" /\ (resolveService[e.named].error \/ parts(e) = {})
    \/ e.rich /\ e.named # "" /\ Len(templates(e)) > 1

-----------------------------------------------------------------------------
(* A bug: an interface and a source are taken to be apart.                 *)
bindingsOverlapKind(a, b) ==
    \/ a.iface # "any" /\ a.iface = b.iface
    \/ /\ a.iface = "any" /\ b.iface = "any"
       /\ a.source.families \cap b.source.families # {}
       /\ "ipset" \in {a.source.kind, b.source.kind}
          \/ a.source.addrs \cap b.source.addrs # {}

(* bindingsOverlap                                                         *)
bindingsOverlap(a, b) ==
    CASE a.iface # "any" /\ b.iface # "any" -> a.iface = b.iface
      [] (a.iface # "any") # (b.iface # "any") -> TRUE
      [] a.source.families \cap b.source.families = {} -> FALSE
      [] a.source.kind = "address" /\ b.source.kind = "address" ->
            a.source.addrs \cap b.source.addrs # {}
      [] OTHER -> TRUE

(* emitZones: the zones that may get packets.  The default zone is bound   *)
(* to everything while nothing is bound.                                   *)
Bound(zones) == {z \in DOMAIN zones : zones[z].bindings # <<>>}
activeZones(conf) ==
    LET zones == zonesOf(conf)
    IN  IF Bound(zones) = {} THEN {conf.defaultZone} ELSE Bound(zones)
bindings(conf, z) ==
    IF zonesOf(conf)[z].bindings = <<>> THEN <<[iface |-> "any", source |-> Anywhere]>>
    ELSE zonesOf(conf)[z].bindings

checkZoneOverlap(conf) ==
    \E y, z \in activeZones(conf) : y # z /\
        \E i \in DOMAIN bindings(conf, y), j \in DOMAIN bindings(conf, z) :
            bindingsOverlap(bindings(conf, y)[i], bindings(conf, z)[j])

(* fwNormProto: the families a template can be of.                         *)
carried(services) == UNION {ofFamily[s] : s \in services}

(* emit, for one binding: the source of the rule within that of the zone.  *)
(* Prefixes contain one another or are disjoint; ipsets cannot be compared.*)
(* A template left without a family is an error, an ICMPv6 one for a zone  *)
(* of IPv4 sources too.                                                    *)
emit(b, e, services) ==
    LET from == e.source  zone == b.source
        both == carried(services) \cap e.families \cap from.families \cap zone.families
        dead == /\ zone.kind = "address" /\ from.kind = "address"
                /\ \/ zone.addrs \cap from.addrs = {}
                   \/ zone.families \cap from.families = {}
        mixed == /\ zone.kind # "any" /\ from.kind # "any"
                 /\ "ipset" \in {zone.kind, from.kind} /\ zone # from
        src == IF zone.kind # "any" /\ zone.addrs \subseteq from.addrs THEN zone ELSE from
        rule == [dir |-> "in", iface |-> b.iface, src |-> src.addrs, bySet |-> src.kind = "ipset",
                 services |-> services, act |-> e.act, policy |-> FALSE]
    IN  [error |-> mixed \/ (~dead /\ both = {}),
         rules |-> [f \in Family |-> IF f \in both /\ ~dead THEN <<rule>> ELSE <<>>]]

(* zoneElem and richRule: every template of the element for every binding. *)
zoneElem(bs, e, f) ==
    LET ts == templates(e)
    IN  FlattenSeq([t \in DOMAIN ts |->
            FlattenSeq([i \in DOMAIN bs |-> emit(bs[i], e, ts[t]).rules[f]])])

emitError(bs, e) ==
    \E i \in DOMAIN bs, services \in Range(templates(e)) : emit(bs[i], e, services).error

zoneRules(conf, z, f) ==
    LET elems == zonesOf(conf)[z].elems
        bs == bindings(conf, z)
    IN  FlattenSeq([i \in DOMAIN elems |-> zoneElem(bs, elems[i], f)])

emitZones(conf, f) ==
    LET active == activeZones(conf)
    IN  FlattenSeq([i \in DOMAIN zoneOrder |->
            IF zoneOrder[i] \in active THEN zoneRules(conf, zoneOrder[i], f) ELSE <<>>])

(* emitPolicies: ahead of every zone, as its priority is.                  *)
policyRules(conf, f) ==
    IF f = "v6" /\ conf.policy
    THEN <<[dir |-> "in", iface |-> "any", src |-> Addr, bySet |-> FALSE,
            services |-> PolicyService, act |-> "allow", policy |-> FALSE]>>
    ELSE <<>>

(* ImportFirewalld: an error, or the state with the rules merged in.       *)
Refused(conf) ==
    LET zones == zonesOf(conf)
    IN  \/ conf.odd \/ conf.defaultZone \notin DOMAIN zones
        \/ \E z \in DOMAIN zones : zones[z].odd
        \/ Bound(zones) # {} /\ conf.defaultZone \notin Bound(zones)
        \/ checkZoneOverlap(conf)
        \/ \E z \in activeZones(conf) : \E e \in Range(zones[z].elems) :
                oddElement(e) \/ emitError(bindings(conf, z), e)

FirewalldRules(conf, f) == policyRules(conf, f) \o emitZones(conf, f)

ImportFirewalld(conf, st, failed) ==
    IF Refused(conf) THEN failed
    ELSE [st EXCEPT !.rules = [f \in Family |-> mergeRules(@[f], FirewalldRules(conf, f))],
                    !.ipv6 = TRUE]

-----------------------------------------------------------------------------
(* firewalld itself: the stock policy, then the zone that a binding gives  *)
(* the packet to or else the default zone, and in a zone what denies       *)
(* before what accepts.  The default target of a zone accepts ICMP.        *)
Captures(b, p) ==
    /\ b.iface \in {"any", p.iface}
    /\ p.family \in b.source.families /\ p.src \in b.source.addrs

ZonesFor(conf, p) ==
    {z \in activeZones(conf) :
        \E i \in DOMAIN bindings(conf, z) : Captures(bindings(conf, z)[i], p)}

Catches(e, p) ==
    /\ p.family \in e.families \cap e.source.families /\ p.src \in e.source.addrs
    /\ p.service \in parts(e)

ZoneOf(conf, p) ==
    LET zs == ZonesFor(conf, p)
    IN  IF zs = {} THEN conf.defaultZone ELSE CHOOSE y \in zs : TRUE

(* Some element that catches the packet has one of the verdicts.           *)
Hit(conf, p, verdicts) ==
    \E e \in Range(zonesOf(conf)[ZoneOf(conf, p)].elems) : Catches(e, p) /\ e.act \in verdicts

Denied(conf, p) == Hit(conf, p, Verdict \ {"allow"})

FwStates(conf, p) ==
    \/ p.family = "v6" /\ conf.policy /\ p.service \in PolicyService
    \/ Hit(conf, p, {"allow"}) /\ ~Denied(conf, p)

FwAccepts(conf, p) == FwStates(conf, p) \/ (p.service \in Icmp /\ ~Denied(conf, p))
=============================================================================
