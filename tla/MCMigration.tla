---------------------------- MODULE MCMigration -----------------------------
(* Small instances of Migration for TLC. *)
EXTENDS Migration

MCZoneOrder == <<"public", "work">>

(* ICMPv6 but for the echo request, which both families have. *)
MCOfFamily == [s \in Service |-> IF s = "icmp6" THEN {"v6"} ELSE Family]

(* bfw accepts an echo request in and through, and out if it is ICMPv6. *)
MCBefore == {p \in Packet : p.service = "ping" /\ (p.dir # "out" \/ p.family = "v6")}

(* No file, one with policies bfw does not know, and one that says otherwise. *)
Policies(in, out, routed) ==
    [d \in Dir |-> CASE d = "in" -> in [] d = "out" -> out [] d = "routed" -> routed]
MCEtcFile ==
    {[policies |-> Policies("deny", "allow", "deny"), ipv6 |-> TRUE],
     [policies |-> Policies("keep", "keep", "keep"), ipv6 |-> TRUE],
     [policies |-> Policies("allow", "deny", "keep"), ipv6 |-> FALSE]}

(* Takeovers and imports of saved files, with and without --replace. *)
MCGiven == {[from |-> "auto", dir |-> "etc", replace |-> r, takeover |-> TRUE] : r \in BOOLEAN}
      \cup {[from |-> m, dir |-> "saved", replace |-> r, takeover |-> FALSE] :
                r \in BOOLEAN, m \in {"iptables", "firewalld"}}

(* Before: a rule of each family and a lax policy for what comes in. *)
OldRule(f) == [dir |-> "in", iface |-> "any", src |-> {2}, bySet |-> FALSE,
               services |-> {"web"}, act |-> "deny", policy |-> FALSE]
Old == [rules |-> [f \in Family |-> <<OldRule(f)>>],
        policies |-> [d \in Dir |-> "allow"], ipv6 |-> TRUE]
MCPrior == {Old}

-----------------------------------------------------------------------------
(* Dumps: up to two lines, each shape the reader tells apart. *)
SpecOf(iface, from, services, state, odd, target) ==
    [iface |-> iface, src |-> from, services |-> services, state |-> state, odd |-> odd,
     target |-> target]
Simple(from, services, target) == SpecOf("any", from, services, "any", FALSE, target)
In(spec) == [chain |-> "INPUT", at |-> 0, spec |-> spec]
Ahead(spec) == [chain |-> "INPUT", at |-> 1, spec |-> spec]
All(target) == In(Simple(Addr, Service, target))

Lines ==
    {In(Simple({1}, Service, "DROP")), In(Simple(Addr, {"ssh"}, "ACCEPT")),
     Ahead(Simple(Addr, {"ssh"}, "ACCEPT")), In(Simple({1}, {"ssh", "web"}, "REJECT")),
     In(SpecOf("e0", Addr, Service, "any", FALSE, "ACCEPT")),
     All("DROP"), All("ACCEPT"), All("RETURN"), All(""),
     In(SpecOf("any", Addr, Service, "established", FALSE, "ACCEPT")),
     [chain |-> "FORWARD", at |-> 0, spec |-> Simple({2}, {"web"}, "ACCEPT")],
     [chain |-> "user", at |-> 0, spec |-> Simple(Addr, Service, "ACCEPT")]}
Refusals ==
    {In(Simple({1}, {"ssh"}, "LOG")), In(Simple({1}, {"ssh"}, "user")),
     In(SpecOf("any", {1}, {"ssh"}, "any", TRUE, "ACCEPT")),
     In(SpecOf("any", Addr, {"ssh"}, "other", FALSE, "ACCEPT")),
     In(Simple({1}, Service, "RETURN")),
     [chain |-> "INPUT", at |-> 3, spec |-> Simple({1}, Service, "DROP")]}

PolicyOf(input) == [INPUT |-> input, FORWARD |-> "ACCEPT", OUTPUT |-> "-"]
Dump(lines, input) ==
    [lines |-> lines, policy |-> PolicyOf(input), filter |-> TRUE, otherTables |-> FALSE]
Dumps(v4, v6) == [manager |-> "iptables", dumps |-> [f \in Family |-> IF f = "v4" THEN v4 ELSE v6]]

Two == {<<>>} \cup {<<x>> : x \in Lines \cup Refusals}
       \cup {<<x, y>> : x, y \in Lines}
       \cup {<<All("RETURN"), y>> : y \in Refusals}
       \cup {<<y, All("ACCEPT")>> : y \in Refusals}
Bare == Dump(<<>>, "ACCEPT")
IptConfigs ==
    {Dumps(Dump(ls, "DROP"), NoDump) : ls \in Two}
    \cup {Dumps(Dump(<<x>>, p), six) : x \in Lines, p \in {"ACCEPT", "DROP", "-"},
            six \in {NoDump, Bare, Dump(<<In(Simple({2}, {"web"}, "ACCEPT"))>>, "DROP"),
                     Dump(<<>>, "-"), [Bare EXCEPT !.filter = FALSE]}}
    \cup {Dumps(NoDump, Dump(<<x>>, p)) : x \in Lines, p \in {"ACCEPT", "DROP"}}
    \cup {Dumps(NoDump, NoDump), Dumps([Bare EXCEPT !.otherTables = TRUE], NoDump)}

-----------------------------------------------------------------------------
(* Zones: the default zone "public" and a second one. *)
Address(a, f) == [kind |-> "address", addrs |-> a, families |-> {f}]
Ipset(a) == [kind |-> "ipset", addrs |-> a, families |-> {"v4"}]
Accept(services) == [rich |-> FALSE, act |-> "allow", families |-> Family, source |-> Anywhere,
                     services |-> services, named |-> "", odd |-> FALSE]
Rich(from, services, act) ==
    [Accept(services) EXCEPT !.rich = TRUE, !.source = from, !.act = act]
NamedService(n) == [Accept({}) EXCEPT !.named = n]

MCDefinition ==
    [both |-> [parts |-> {"ssh", "icmp6"}, includes |-> {}],
     more |-> [parts |-> {"web"}, includes |-> {"both"}],
     loop |-> [parts |-> {"web"}, includes |-> {"loop"}]]

Elements ==
    {Accept({"ssh"}), NamedService("more"), NamedService("loop"),
     Rich(Address({1}, "v4"), {"ssh"}, "deny"), Rich(Anywhere, Service, "reject"),
     Rich(Address({1}, "v4"), Service, "allow"), Rich(Ipset({2}), {"web"}, "allow"),
     [Accept({"web"}) EXCEPT !.odd = TRUE],
     [NamedService("both") EXCEPT !.rich = TRUE]}

E(i) == [iface |-> i, source |-> Anywhere]
From(s) == [iface |-> "any", source |-> s]
BindingLists ==
    {<<>>, <<E("e0")>>, <<E("e0"), E("e1")>>, <<From(Address({1}, "v4"))>>,
     <<From(Address(Addr, "v4")), From(Address({2}, "v6"))>>, <<From(Ipset({2}))>>}

ZoneWith(bs, elems) == [bindings |-> bs, elems |-> elems, odd |-> FALSE]
Conf(zones) == [manager |-> "firewalld",
                conf |-> [vendor |-> [public |-> ZoneWith(<<>>, <<Accept({"ssh"})>>)],
                          etc |-> zones, defaultZone |-> "public", policy |-> FALSE,
                          odd |-> FALSE]]
Both(a, b) == [z \in {"public", "work"} |-> IF z = "public" THEN a ELSE b]
Only(a) == [z \in {"public"} |-> a]

FwConfigs ==
    {Conf(Only(ZoneWith(bs, <<x>>))) : bs \in BindingLists, x \in Elements}
    \cup {Conf(Only(ZoneWith(bs, <<x, y>>))) : bs \in {<<>>, <<E("e0"), E("e1")>>},
                                             x, y \in Elements}
    \cup {Conf(Both(ZoneWith(bs, <<x>>), ZoneWith(cs, <<Accept({"web"})>>))) :
            bs, cs \in BindingLists,
            x \in {Accept({"ssh"}), Rich(Address({1}, "v4"), {"web"}, "deny")}}
    \cup {[Conf(Only(ZoneWith(<<>>, <<Accept({"web"})>>))) EXCEPT !.conf.policy = TRUE],
          [Conf(<<>>) EXCEPT !.conf.odd = TRUE], [Conf(<<>>) EXCEPT !.conf.defaultZone = "work"],
          Conf(<<>>), Conf(Only([ZoneWith(<<>>, <<>>) EXCEPT !.odd = TRUE]))}

MCConfig == IptConfigs \cup FwConfigs

(* A takeover's course depends little on what is imported. *)
MCHolds ==
    [dir \in {"etc", "saved"} |->
        IF dir = "saved" THEN Config
        ELSE Config \cap {Dumps(Dump(<<All("DROP")>>, "ACCEPT"), NoDump), Dumps(NoDump, NoDump),
                          Conf(Only(ZoneWith(<<>>, <<Accept({"ssh"})>>))), Conf(<<>>)}]
=============================================================================
