------------------------------ MODULE StoreOps ------------------------------
(***************************************************************************)
(* The data every bfw command works on: rules.json (store.State), the      *)
(* tables the nft backend keeps in the kernel, and what each command does  *)
(* to a state it has loaded.                                               *)
(*                                                                         *)
(* An Item is anything one command adds to, removes from or replaces in    *)
(* rules.json: a rule (with its IPv6 twin or the others of its application *)
(* profile), an element of a named set, a NAT rule or a threat ban,        *)
(* together with its expiry time, so the time of an Item passes at most    *)
(* once.                                                                   *)
(***************************************************************************)
EXTENDS Naturals

CONSTANTS
    Item,       \* rules, set elements, NAT rules and bans
    NatItem,    \* the NAT rules among them
    BadItem,    \* the items compile() rejects with an error
    Policy      \* allow, deny and reject

ASSUME ItemAssumption == NatItem \subseteq Item /\ BadItem \subseteq Item
ASSUME PolicyAssumption == "deny" \in Policy

(* store.State: the part of rules.json the commands change. *)
State == [items : SUBSET Item, panic : BOOLEAN, policy : Policy]

(* A wrong Defaults, for the runs' mutants: the policies left at Go's zero. *)
DefaultsZero == [items |-> {}, panic |-> FALSE, policy |-> ""]

(* store.Defaults, also what Load returns when rules.json is missing. *)
Defaults == [items |-> {}, panic |-> FALSE, policy |-> "deny"]

(* The tables the backend manages: the inet filter table and the two NAT   *)
(* tables, which are only ever created together.                           *)
Kernel == [loaded : BOOLEAN, panic : BOOLEAN, items : SUBSET Item,
           policy : Policy, nat : SUBSET Item]

(* Flush deletes every managed table. *)
NoTables == [loaded |-> FALSE, panic |-> FALSE, items |-> {},
             policy |-> "deny", nat |-> {}]

(* compile() succeeds: panic mode returns before any item is looked at,    *)
(* and an item whose time has passed is skipped before it is compiled.     *)
Compiles(s, gone) == s.panic \/ (s.items \ gone) \cap BadItem = {}

(* Apply: one netlink batch that deletes and rebuilds the filter table and *)
(* those NAT tables the new ruleset has.  A ruleset without NAT rules, and *)
(* panic mode, have none, so tables of an earlier ruleset stay.            *)
(* /etc/default's policy e always overrides the stored one.                *)
Apply(k, s, e, gone) ==
    LET nat == s.items \cap NatItem IN
    [loaded |-> TRUE,
     panic  |-> s.panic,
     items  |-> IF s.panic THEN {} ELSE (s.items \ NatItem) \ gone,
     policy |-> IF s.panic THEN "deny" ELSE e,
     nat    |-> IF s.panic \/ nat = {} THEN k.nat ELSE nat]

(* The filter table k is the one state s asks for, up to the items whose   *)
(* time has passed since it was compiled.                                  *)
Shows(k, s, e, gone) ==
    /\ k.loaded
    /\ k.panic = s.panic
    /\ ~s.panic => /\ k.policy = e
                   /\ k.items \ gone = (s.items \ NatItem) \ gone

-----------------------------------------------------------------------------
(* The commands. *)

\* Commands that take the flock before they read anything.
LockFirst == {"ext", "sweep", "default", "logging", "import", "panicOn",
              "panicOff", "enable", "disable", "reload", "reset",
              "bootLoad", "bootUnload"}

\* Rule commands: Load and number the rules (and, for delete NUM, prompt)
\* before they take the flock.
LoadFirst == {"rule"}

\* Application commands, which never take it.
Lockless == {"app", "appDefault"}

Op == LockFirst \cup LoadFirst \cup Lockless \cup {"none"}

(* r is s with an item added, removed or replaced by another; none that is *)
(* added has expired.                                                      *)
ItemChange(s, r, gone) ==
    \/ \E i \in Item \ gone : r = [s EXCEPT !.items = @ \cup {i}]
    \/ \E i \in s.items :
          \E new \in {{}} \cup {{j} : j \in Item \ gone} :
             r = [s EXCEPT !.items = (@ \ {i}) \cup new]

(* r is s merged with, or replaced by, a document: it brings items and may *)
(* bring a policy and a panic flag, or (replacing) leave them out.         *)
Imported(s, r) ==
    \E doc \in SUBSET Item : r.items \in {s.items \cup doc, doc}

(* What commands of kind o may make of a loaded state s, before            *)
(* commitState sweeps it.  "ext" stands for set, nat and rule              *)
(* enable|disable commands and for the bans of bfw protect.                *)
Results(o, s, gone) ==
    {r \in State :
        \/ o \in {"ext", "rule", "app"} /\ ItemChange(s, r, gone)
        \/ o = "import" /\ Imported(s, r)
        \/ o = "default" /\ r = [s EXCEPT !.policy = r.policy]
        \/ o = "panicOn" /\ r = [s EXCEPT !.panic = TRUE]
        \/ o = "panicOff" /\ r = [s EXCEPT !.panic = FALSE]
        \/ o = "reset" /\ r = Defaults
        \/ /\ o \in {"sweep", "logging", "appDefault", "enable", "disable",
                     "reload", "bootLoad", "bootUnload"}
           /\ r = s}

(* A wrong sweep: it builds a new state from the items that stay.          *)
SweepRebuilds(s, gone) == [Defaults EXCEPT !.items = s.items \ gone]

(* sweepExpired: drop the items whose time has passed. *)
Sweep(s, gone) == [s EXCEPT !.items = @ \ gone]

=============================================================================
