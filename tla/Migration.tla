----------------------------- MODULE Migration ------------------------------
(***************************************************************************)
(* bfw migrate from iptables-persistent and from firewalld: Takeover with  *)
(* the two readers, and what the packets of the host are told before and   *)
(* after.                                                                  *)
(***************************************************************************)
EXTENDS Takeover, Iptables, Firewalld

(* importSystemFirewall; a configuration is [manager, dumps] or            *)
(* [manager, conf].                                                        *)
importSystemFirewall(c, base) ==
    IF c.manager = "iptables" THEN ImportIPTables(c.dumps, base, Failed)
    ELSE ImportFirewalld(c.conf, base, Failed)

(* Takeover's parameters as they are here.                                 *)
ASSUME MigrationAssumption ==
    /\ NoDump \notin iptSaveFile /\ Default = Defaults /\ Prior \subseteq State
    /\ \A c \in Config : c.manager = "iptables" => c.dumps \in [Family -> iptSaveFile \cup {NoDump}]
    /\ \A c \in Config : c.manager = "firewalld" =>
          \A z \in DOMAIN zonesOf(c.conf) : z \in Zone /\ zonesOf(c.conf)[z] \in fwZone
    /\ \A c \in Config, b \in Prior \cup {Default} : Read(c, b) = importSystemFirewall(c, b)

Imported(manager) == pc = "imported" /\ config.manager = manager
Base == IF opts.replace THEN Default ELSE previous

-----------------------------------------------------------------------------
(* ImportIPTables, "abort rather than silently dropping or broadening":    *)
(* after an import into the defaults bfw decides each new connection that  *)
(* its rules are asked about as a line of the dump did, and as the dump's  *)
(* policy or else the default one where no line does.  The policies hold   *)
(* only while /etc/default says the same: compile puts its policies over   *)
(* those imported, and no migration writes it.  And not so for rules that  *)
(* contradict each other, of which mergeRules takes the last.              *)
IptablesKept ==
    Imported("iptables") /\ opts.replace =>
        \A f \in Family :
            LET dump == config.dumps[f]
            IN  dump # NoDump /\ ~Contradictory(iptImportStream(dump).rules) =>
                   \A p \in Packet : p.family = f =>
                       LET said == IptDecides(dump, p)
                           meant == IF said = "old" THEN Default.policies[p.dir] ELSE said
                           byLine == dump.filter /\ IptStates(dump, p) # "none"
                       IN  \A etc \in EtcFile :
                              ~Aside(etc, p) /\ (byLine \/ Honoured(merged, etc, p.dir))
                                 => Decide(merged, etc, p) = meant

(* "Nothing is widened or narrowed for the undeclared side": a family that *)
(* no dump was given for decides as before, whatever policy was imported,  *)
(* where the policy stored before was the one in force.                    *)
UndeclaredKept ==
    Imported("iptables") =>
        \A f \in Family : config.dumps[f] = NoDump /\ (f = "v6" => Base.ipv6) =>
            \A p \in Packet, etc \in EtcFile :
                p.family = f /\ Honoured(Base, etc, p.dir)
                   => Decide(merged, etc, p) = Decide(Base, etc, p)

(* An incoming connection that bfw allows is one firewalld accepted.  What *)
(* bfw's own before chains accept, and all it accepts where the policy in  *)
(* force is to allow, it accepts for no rule of firewalld's.               *)
Narrow(c, st) ==
    \A p \in Packet, etc \in EtcFile :
        p.dir = "in" /\ ~Aside(etc, p) /\ InForce(st, etc).policies["in"] # "allow"
          /\ Decide(st, etc, p) = "allow"
          => FwAccepts(c, p)

(* Within the bindings of the zones, bfw allows what they accept; not what *)
(* firewalld accepts as ICMP alone.                                        *)
Wide(c, st) ==
    \A p \in Packet, etc \in EtcFile :
        p.dir = "in" /\ ~Aside(etc, p) /\ ZonesFor(c, p) # {} /\ FwStates(c, p)
           => Decide(st, etc, p) = "allow"

(* emit keeps the order of the file, so this asks that what denies comes   *)
(* before what accepts, as it does in firewalld whatever the file's order. *)
DeniesFirst(c) ==
    \A z \in activeZones(c) : LET elems == zonesOf(c)[z].elems IN
        \A i, j \in DOMAIN elems : i < j /\ elems[i].act = "allow" => elems[j].act = "allow"

FirewalldKept ==
    Imported("firewalld") /\ opts.replace /\ DeniesFirst(config.conf)
      /\ (\A f \in Family : ~Contradictory(FirewalldRules(config.conf, f)))
        => Narrow(config.conf, merged) /\ Wide(config.conf, merged)

(* firewalld.go: semantics without a model are "rejected with an           *)
(* actionable error instead of being silently dropped or broadened".       *)
NeverBroadened ==
    Imported("firewalld") /\ opts.replace => Narrow(config.conf, merged)
=============================================================================
