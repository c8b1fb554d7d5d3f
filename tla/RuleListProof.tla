--------------------------- MODULE RuleListProof ----------------------------
(***************************************************************************)
(* Proofs about RuleList, for lists, groups, profiles and commands of any  *)
(* number.  The commands come down to four loops over lists - of           *)
(* setRuleEngine, of DeleteApp, of mergeRules and of updateAppRule - and   *)
(* to the loop of runRuleOp around the first two.  Of each a lemma says    *)
(* that it is a fold (...Fold), and one, by induction over the list, what  *)
(* it keeps; Kept is what they all keep.  OfKeys, by which OthersKept is   *)
(* stated, is a fold itself.                                               *)
(*                                                                         *)
(* For the order of the rules two descriptions of a step of the loop are   *)
(* enough: what puts no new rule in leaves a list Within the one before,   *)
(* and a new rule is Put in the Place that its position leads to.  A new   *)
(* group is then a Stretch that its next rule joins (GroupsKept), and the  *)
(* halves of a rule come to the same place in two equal lists (TwinOrder). *)
(***************************************************************************)
EXTENDS RuleList, ListLemmas

(* OfKeys goes through a list rule by rule.                                *)
LEMMA OfKeysFold ==
    ASSUME NEW keys
    PROVE  /\ OfKeys(<<>>, keys) = <<>>
           /\ \A s \in Seq(Rule), r \in Rule :
                 OfKeys(Append(s, r), keys) = IF r.key \in keys THEN Append(OfKeys(s, keys), r)
                                              ELSE OfKeys(s, keys)
           /\ \A s \in Seq(Rule) : OfKeys(s, keys) \in Seq(Rule)
<1> DEFINE A == Seq(Rule)
           Op(a, r) == IF r.key \in keys THEN Append(a, r) ELSE a
           G == [x \in A \X Rule |-> Op(x[1], x[2])]
           P == [s \in Seq(Rule) |-> OfKeys(s, keys)]
<1>1. G \in [A \X Rule -> A] /\ <<>> \in A
  OBVIOUS
<1>2. ASSUME NEW s \in Seq(Rule)
      PROVE  \E it : /\ P[s] = it[DOMAIN s]
                     /\ it[{}] = <<>>
                     /\ \A t \in SUBSET DOMAIN s :
                           t # {} /\ it[t \ {Max(t)}] \in A
                           => it[t] = G[<<it[t \ {Max(t)}], s[Max(t)]>>]
  <2> DEFINE Rec(it) == it = [t \in SUBSET DOMAIN s |->
                                IF t = {} THEN <<>> ELSE Op(it[t \ {Max(t)}], s[Max(t)])]
  <2>1. OfKeys(s, keys) = (CHOOSE it : Rec(it))[DOMAIN s]
    BY Zenon DEF OfKeys, FoldLeft, MapThenFoldSet
  <2>2. \A t \in SUBSET DOMAIN s : t # {} => Max(t) \in DOMAIN s /\ s[Max(t)] \in Rule
    <3>1. DOMAIN s = 1 .. Len(s) /\ Len(s) \in Nat
      OBVIOUS
    <3>2. \A t \in SUBSET DOMAIN s : t # {} => Max(t) \in t
      BY <3>1, Greatest
    <3> QED BY <3>2
  <2>3. PICK g \in [SUBSET DOMAIN s -> A] : Recursion(g, <<>>, G, s)
    <3> HIDE DEF G
    <3> QED BY <1>1, RecursionExists
  <2>4. Rec(g)
    BY <2>2, <2>3, Zenon DEF Recursion
  <2> DEFINE it == CHOOSE it : Rec(it)
  <2>5. Rec(it)
    <3> HIDE DEF Rec
    <3> QED BY <2>4
  <2>6. P[s] = it[DOMAIN s]
    BY <2>1
  <2> HIDE DEF it
  <2>7. it[{}] = <<>>
    BY <2>5
  <2>8. ASSUME NEW t \in SUBSET DOMAIN s, t # {}, it[t \ {Max(t)}] \in A
        PROVE  it[t] = G[<<it[t \ {Max(t)}], s[Max(t)]>>]
    <3>1. it[t] = Op(it[t \ {Max(t)}], s[Max(t)])
      BY <2>5, <2>8
    <3>2. <<it[t \ {Max(t)}], s[Max(t)]>> \in A \X Rule
      BY <2>2, <2>8
    <3> QED BY <3>1, <3>2
  <2> QED BY <2>6, <2>7, <2>8
<1>3. /\ P[<<>>] = <<>>
      /\ \A s \in Seq(Rule), e \in Rule : P[Append(s, e)] = G[<<P[s], e>>]
      /\ \A s \in Seq(Rule) : P[s] \in A
  <2>1. Folds(P, Rule, A, <<>>, G)
    BY <1>2 DEF Folds
  <2> HIDE DEF G, P, A
  <2> QED BY <1>1, <2>1, ListFold
<1>4. <<>> \in Seq(Rule) /\ \A s \in Seq(Rule), r \in Rule : Append(s, r) \in Seq(Rule)
  OBVIOUS
<1>5. \A s \in Seq(Rule) : OfKeys(s, keys) = P[s]
  OBVIOUS
<1>6. \A a \in A, r \in Rule : G[<<a, r>>] = IF r.key \in keys THEN Append(a, r) ELSE a
  OBVIOUS
<1> HIDE DEF P, G
<1>7. OfKeys(<<>>, keys) = <<>>
  BY <1>3, <1>4, <1>5
<1>8. ASSUME NEW s \in Seq(Rule) PROVE OfKeys(s, keys) \in Seq(Rule)
  BY <1>3, <1>5
<1>9. ASSUME NEW s \in Seq(Rule), NEW r \in Rule
      PROVE  OfKeys(Append(s, r), keys) = IF r.key \in keys THEN Append(OfKeys(s, keys), r)
                                          ELSE OfKeys(s, keys)
  <2>1. P[Append(s, r)] = G[<<P[s], r>>] /\ P[s] \in A
    BY <1>3
  <2>2. G[<<P[s], r>>] = IF r.key \in keys THEN Append(P[s], r) ELSE P[s]
    BY <1>6, <2>1
  <2>3. OfKeys(s, keys) = P[s] /\ OfKeys(Append(s, r), keys) = P[Append(s, r)]
    BY <1>4, <1>5
  <2> QED BY ONLY <2>1, <2>2, <2>3
<1> QED BY <1>7, <1>8, <1>9

(* It filters two lists put together one after the other.                  *)
LEMMA OfKeysConcat ==
    ASSUME NEW keys, NEW s \in Seq(Rule), NEW t \in Seq(Rule)
    PROVE  OfKeys(s \o t, keys) = OfKeys(s, keys) \o OfKeys(t, keys)
<1> DEFINE T == {u \in Seq(Rule) : OfKeys(s \o u, keys) = OfKeys(s, keys) \o OfKeys(u, keys)}
<1>0. OfKeys(s, keys) \in Seq(Rule)
  BY OfKeysFold
<1>1. <<>> \in T
  <2>1. OfKeys(<<>>, keys) = <<>>
    BY OfKeysFold
  <2> QED BY <1>0, <2>1
<1>2. ASSUME NEW u \in Seq(Rule), NEW r \in Rule, u \in T PROVE Append(u, r) \in T
  <2>1. /\ s \o Append(u, r) = Append(s \o u, r)
        /\ s \o u \in Seq(Rule) /\ Append(u, r) \in Seq(Rule)
    OBVIOUS
  <2>2. OfKeys(Append(s \o u, r), keys)
        = IF r.key \in keys THEN Append(OfKeys(s \o u, keys), r) ELSE OfKeys(s \o u, keys)
    BY <2>1, OfKeysFold
  <2>3. OfKeys(Append(u, r), keys)
        = IF r.key \in keys THEN Append(OfKeys(u, keys), r) ELSE OfKeys(u, keys)
    BY OfKeysFold
  <2>4. OfKeys(u, keys) \in Seq(Rule)
    BY OfKeysFold
  <2>5. OfKeys(s, keys) \o Append(OfKeys(u, keys), r)
        = Append(OfKeys(s, keys) \o OfKeys(u, keys), r)
    BY <1>0, <2>4
  <2>6. OfKeys(s \o u, keys) = OfKeys(s, keys) \o OfKeys(u, keys)
    BY <1>2
  <2>7. OfKeys(s \o Append(u, r), keys) = OfKeys(s, keys) \o OfKeys(Append(u, r), keys)
    BY ONLY <2>1, <2>2, <2>3, <2>5, <2>6
  <2> QED BY <2>1, <2>7
<1>3. Seq(Rule) \subseteq T
  <2> HIDE DEF T
  <2> QED BY <1>1, <1>2, ListInduction
<1> QED BY <1>3

(* It tells no difference between lists that differ in other keys only.    *)
LEMMA OfKeysSame ==
    ASSUME NEW keys, NEW s \in Seq(Rule), NEW t \in Seq(Rule), Len(s) = Len(t),
           \A i \in DOMAIN s : s[i] = t[i] \/ (s[i].key \notin keys /\ t[i].key \notin keys)
    PROVE  OfKeys(s, keys) = OfKeys(t, keys)
<1> DEFINE Alike(u, v) ==
              /\ Len(u) = Len(v)
              /\ \A i \in DOMAIN u : u[i] = v[i] \/ (u[i].key \notin keys /\ v[i].key \notin keys)
           T == {u \in Seq(Rule) : \A v \in Seq(Rule) :
                     Alike(u, v) => OfKeys(u, keys) = OfKeys(v, keys)}
<1>1. <<>> \in T
  <2>1. \A v \in Seq(Rule) : Len(v) = Len(<<>>) => v = <<>>
    OBVIOUS
  <2> QED BY <2>1
<1>2. ASSUME NEW u \in Seq(Rule), NEW r \in Rule, u \in T PROVE Append(u, r) \in T
  <2> SUFFICES ASSUME NEW v \in Seq(Rule), Alike(Append(u, r), v)
               PROVE  OfKeys(Append(u, r), keys) = OfKeys(v, keys)
    BY Append(u, r) \in Seq(Rule)
  <2> DEFINE w == SubSeq(v, 1, Len(u))
             x == v[Len(u) + 1]
  <2>0. Len(v) = Len(u) + 1
    BY Len(Append(u, r)) = Len(u) + 1
  <2>1. w \in Seq(Rule) /\ x \in Rule /\ v = Append(w, x) /\ Len(w) = Len(u)
        /\ \A i \in 1 .. Len(u) : w[i] = v[i]
    BY <2>0
  <2>2. Alike(u, w)
    <3>1. \A i \in DOMAIN u : i \in DOMAIN Append(u, r) /\ Append(u, r)[i] = u[i] /\ i \in 1 .. Len(u)
      OBVIOUS
    <3> HIDE DEF w
    <3> QED BY <2>1, <3>1
  <2>3. r = x \/ (r.key \notin keys /\ x.key \notin keys)
    <3>1. Len(u) + 1 \in DOMAIN Append(u, r) /\ Append(u, r)[Len(u) + 1] = r
      OBVIOUS
    <3> QED BY <3>1
  <2>4. OfKeys(u, keys) = OfKeys(w, keys)
    <3> HIDE DEF w, Alike
    <3> QED BY <1>2, <2>1, <2>2
  <2>5. OfKeys(Append(u, r), keys)
        = IF r.key \in keys THEN Append(OfKeys(u, keys), r) ELSE OfKeys(u, keys)
    BY OfKeysFold
  <2> HIDE DEF w, x, Alike, T
  <2>6. OfKeys(v, keys)
        = IF x.key \in keys THEN Append(OfKeys(w, keys), x) ELSE OfKeys(w, keys)
    BY <2>1, OfKeysFold
  <2> QED BY ONLY <2>3, <2>4, <2>5, <2>6
<1>3. Seq(Rule) \subseteq T
  <2> HIDE DEF T
  <2> QED BY <1>1, <1>2, ListInduction
<1> QED BY <1>3

(* It finds nothing in a list with none of the keys.                       *)
LEMMA OfKeysNone ==
    ASSUME NEW keys, NEW s \in Seq(Rule), \A i \in DOMAIN s : s[i].key \notin keys
    PROVE  OfKeys(s, keys) = <<>>
<1> DEFINE T == {u \in Seq(Rule) : (\A i \in DOMAIN u : u[i].key \notin keys)
                                   => OfKeys(u, keys) = <<>>}
<1>1. <<>> \in T
  BY OfKeysFold
<1>2. ASSUME NEW u \in Seq(Rule), NEW r \in Rule, u \in T PROVE Append(u, r) \in T
  <2> SUFFICES ASSUME \A i \in DOMAIN Append(u, r) : Append(u, r)[i].key \notin keys
               PROVE  OfKeys(Append(u, r), keys) = <<>>
    BY Append(u, r) \in Seq(Rule)
  <2>1. \A i \in DOMAIN u : i \in DOMAIN Append(u, r) /\ Append(u, r)[i] = u[i]
    OBVIOUS
  <2>2. Len(u) + 1 \in DOMAIN Append(u, r) /\ Append(u, r)[Len(u) + 1] = r
    OBVIOUS
  <2>3. r.key \notin keys /\ OfKeys(u, keys) = <<>>
    BY <1>2, <2>1, <2>2
  <2> QED BY <2>3, OfKeysFold
<1>3. Seq(Rule) \subseteq T
  <2> HIDE DEF T
  <2> QED BY <1>1, <1>2, ListInduction
<1> QED BY <1>3

(* What Match compares first: the key and the item of a rule.              *)
Slot(r) == <<r.key, r.item>>
Slots(list) == {Slot(list[i]) : i \in DOMAIN list}

(* Rule.Match finds two rules alike exactly when they share a slot.        *)
LEMMA MatchSlot ==
    ASSUME NEW r, NEW o
    PROVE  Match(r, o) # "none" <=> Slot(r) = Slot(o)
BY DEF Match, Slot

(* The slots of a list one longer,                                         *)
LEMMA SlotsAppend ==
    ASSUME NEW s \in Seq(Rule), NEW r \in Rule
    PROVE  Slots(Append(s, r)) = Slots(s) \cup {Slot(r)}
<1>1. /\ DOMAIN Append(s, r) = DOMAIN s \cup {Len(s) + 1}
      /\ \A i \in DOMAIN s : Append(s, r)[i] = s[i]
      /\ Append(s, r)[Len(s) + 1] = r
  BY AppendDomain
<1>2. ASSUME NEW x PROVE x \in Slots(Append(s, r)) <=> x \in Slots(s) \cup {Slot(r)}
  BY <1>1 DEF Slots
<1> QED BY <1>2

(* and when it has none twice.                                             *)
LEMMA DistinctAppend ==
    ASSUME NEW s \in Seq(Rule), NEW r \in Rule
    PROVE  Distinct(Append(s, r)) <=> Distinct(s) /\ Slot(r) \notin Slots(s)
<1>1. /\ DOMAIN Append(s, r) = DOMAIN s \cup {Len(s) + 1}
      /\ \A i \in DOMAIN s : Append(s, r)[i] = s[i]
      /\ Append(s, r)[Len(s) + 1] = r /\ Len(s) + 1 \notin DOMAIN s
  BY AppendDomain
<1>2. \A x, y : Match(x, y) # "none" <=> Slot(x) = Slot(y)
  BY MatchSlot
<1>3. ASSUME Distinct(Append(s, r)) PROVE Distinct(s) /\ Slot(r) \notin Slots(s)
  BY <1>1, <1>2, <1>3 DEF Distinct, Slots
<1>4. ASSUME Distinct(s), Slot(r) \notin Slots(s) PROVE Distinct(Append(s, r))
  BY <1>1, <1>2, <1>4 DEF Distinct, Slots
<1> QED BY <1>3, <1>4

(* A part of a list without doubles has none.                              *)
LEMMA DistinctPart ==
    ASSUME NEW s \in Seq(Rule), NEW keys
    PROVE  /\ Slots(OfKeys(s, keys)) \subseteq Slots(s)
           /\ Distinct(s) => Distinct(OfKeys(s, keys))
<1> DEFINE P(u) == /\ Slots(OfKeys(u, keys)) \subseteq Slots(u)
                   /\ Distinct(u) => Distinct(OfKeys(u, keys))
           T == {u \in Seq(Rule) : P(u)}
<1>1. P(<<>>)
  BY OfKeysFold
<1>2. ASSUME NEW u \in Seq(Rule), NEW r \in Rule, P(u) PROVE P(Append(u, r))
  <2>1. OfKeys(u, keys) \in Seq(Rule)
    BY OfKeysFold
  <2>2. /\ Slots(Append(u, r)) = Slots(u) \cup {Slot(r)}
        /\ Distinct(Append(u, r)) <=> Distinct(u) /\ Slot(r) \notin Slots(u)
    BY SlotsAppend, DistinctAppend
  <2>3. CASE r.key \in keys
    <3>1. OfKeys(Append(u, r), keys) = Append(OfKeys(u, keys), r)
      BY <2>3, OfKeysFold
    <3>2. /\ Slots(Append(OfKeys(u, keys), r)) = Slots(OfKeys(u, keys)) \cup {Slot(r)}
          /\ Distinct(Append(OfKeys(u, keys), r))
             <=> Distinct(OfKeys(u, keys)) /\ Slot(r) \notin Slots(OfKeys(u, keys))
      BY <2>1, SlotsAppend, DistinctAppend
    <3> QED BY <1>2, <2>2, <3>1, <3>2, Zenon
  <2>4. CASE r.key \notin keys
    <3>1. OfKeys(Append(u, r), keys) = OfKeys(u, keys)
      BY <2>4, OfKeysFold
    <3> QED BY <1>2, <2>2, <3>1, Zenon
  <2> QED BY <2>3, <2>4
<1>3. Seq(Rule) \subseteq T
  <2>1. <<>> \in T
    BY <1>1
  <2>2. ASSUME NEW u \in Seq(Rule), NEW r \in Rule, u \in T PROVE Append(u, r) \in T
    <3>1. Append(u, r) \in Seq(Rule)
      OBVIOUS
    <3> HIDE DEF P
    <3> QED BY <1>2, <2>2, <3>1
  <2> HIDE DEF T
  <2> QED BY <2>1, <2>2, ListInduction
<1>4. P(s)
  <2> HIDE DEF P
  <2> QED BY <1>3
<1> QED BY <1>4

(* The key of a slot is a key of the list.                                 *)
LEMMA KeysOfSlots ==
    ASSUME NEW list \in Seq(Rule)
    PROVE  /\ \A z \in Slots(list) : z[1] \in Keys(list)
           /\ \A r \in Rule : Keys(Append(list, r)) = Keys(list) \cup {r.key}
<1>1. \A z \in Slots(list) : z[1] \in Keys(list)
  BY DEF Slots, Slot, Keys
<1>2. ASSUME NEW r \in Rule PROVE Keys(Append(list, r)) = Keys(list) \cup {r.key}
  <2>1. /\ DOMAIN Append(list, r) = DOMAIN list \cup {Len(list) + 1}
        /\ \A i \in DOMAIN list : Append(list, r)[i] = list[i]
        /\ Append(list, r)[Len(list) + 1] = r
    BY AppendDomain
  <2>2. \A k : k \in Keys(Append(list, r)) <=> k \in Keys(list) \cup {r.key}
    BY <2>1 DEF Keys
  <2> QED BY <2>2
<1> QED BY <1>1, <1>2

(* OfKeys finds something in a list with the key.                          *)
LEMMA OfKeysSome ==
    ASSUME NEW list \in Seq(Rule), NEW k \in Keys(list)
    PROVE  OfKeys(list, {k}) # <<>>
<1> DEFINE P(s) == k \in Keys(s) => OfKeys(s, {k}) # <<>>
           T == {s \in Seq(Rule) : P(s)}
<1>1. P(<<>>)
  BY DEF Keys
<1>2. ASSUME NEW s \in Seq(Rule), NEW r \in Rule, P(s) PROVE P(Append(s, r))
  <2>1. Keys(Append(s, r)) = Keys(s) \cup {r.key}
    BY KeysOfSlots
  <2>2. /\ OfKeys(Append(s, r), {k}) = IF r.key \in {k} THEN Append(OfKeys(s, {k}), r)
                                       ELSE OfKeys(s, {k})
        /\ OfKeys(s, {k}) \in Seq(Rule)
    BY OfKeysFold
  <2>3. Append(OfKeys(s, {k}), r) # <<>>
    BY <2>2
  <2> QED BY <1>2, <2>1, <2>2, <2>3
<1>3. Seq(Rule) \subseteq T
  <2>1. <<>> \in T
    BY <1>1
  <2>2. ASSUME NEW s \in Seq(Rule), NEW r \in Rule, s \in T PROVE Append(s, r) \in T
    <3>1. Append(s, r) \in Seq(Rule)
      OBVIOUS
    <3> HIDE DEF P
    <3> QED BY <1>2, <2>2, <3>1
  <2> HIDE DEF T
  <2> QED BY <2>1, <2>2, ListInduction
<1>4. P(list)
  <2> HIDE DEF P
  <2> QED BY <1>3
<1> QED BY <1>4

(* The states of setRuleEngine's loop, the initial one and what a fold     *)
(* lemma says of it.                                                       *)
WalkStates(nr) ==
    [new : Seq(Rule \cup {nr}), pos : Nat, count : Nat, last : Profile \cup {NoApp},
     inserted : BOOLEAN, found : BOOLEAN, modified : BOOLEAN, matched : BOOLEAN]

(* App is the profile of a rule, or none.                                  *)
LEMMA AppTyping ==
    ASSUME NEW r \in Rule
    PROVE  App(r) \in Profile \cup {NoApp}
BY DEF App, IsApp, Profile

(* Walk keeps to the states of the loop.                                   *)
LEMMA WalkTyping ==
    ASSUME NEW nr, NEW remove, NEW a \in WalkStates(nr), NEW r \in Rule
    PROVE  Walk(nr, remove, a, r) \in WalkStates(nr)
<1> DEFINE R == Rule \cup {nr}
<1>1. <<>> \in Seq(R) /\ <<nr>> \in Seq(R) /\ <<r>> \in Seq(R)
  <2>1. r \in R /\ nr \in R
    OBVIOUS
  <2> HIDE DEF R
  <2> QED BY <2>1
<1>2. App(r) \in Profile \cup {NoApp}
  BY AppTyping
<1>3. a.new \in Seq(Rule \cup {nr}) /\ a.pos \in Nat /\ a.count \in Nat
  BY DEF WalkStates
<1>4. \A t, u \in {<<>>, <<nr>>, <<r>>} : a.new \o t \o u \in Seq(Rule \cup {nr})
  <2>1. a.new \in Seq(R)
    BY <1>3
  <2> HIDE DEF R
  <2>2. \A t, u \in Seq(R) : a.new \o t \o u \in Seq(R)
    BY <2>1
  <2> QED BY <1>1, <2>2 DEF R
<1> DEFINE w == Walk(nr, remove, a, r)
<1>5. w.new \in Seq(Rule \cup {nr})
  BY <1>4 DEF Walk
<1>6. w.pos \in Nat /\ w.count \in Nat /\ w.last \in Profile \cup {NoApp}
  BY <1>2, <1>3 DEF Walk
<1>7. /\ w.inserted \in BOOLEAN /\ w.found \in BOOLEAN
      /\ w.modified \in BOOLEAN /\ w.matched \in BOOLEAN
  BY Zenon DEF Walk
<1>8. w = [new |-> w.new, pos |-> w.pos, count |-> w.count, last |-> w.last,
           inserted |-> w.inserted, found |-> w.found, modified |-> w.modified,
           matched |-> w.matched]
  BY Zenon DEF Walk
<1> HIDE DEF w
<1> QED BY <1>5, <1>6, <1>7, <1>8 DEF WalkStates, w

WalkStart(pos) ==
    [new |-> <<>>, pos |-> pos, count |-> 1, last |-> NoApp, inserted |-> FALSE,
     found |-> FALSE, modified |-> FALSE, matched |-> FALSE]

WalkedRight(l, nr, pos, remove) ==
    /\ Walked(<<>>, nr, pos, remove) = WalkStart(pos)
    /\ Walked(l, nr, pos, remove) \in WalkStates(nr)
    /\ \A r \in Rule : Walked(Append(l, r), nr, pos, remove)
                        = Walk(nr, remove, Walked(l, nr, pos, remove), r)

(* Walked goes through the list with Walk.                                 *)
LEMMA WalkedFold ==
    ASSUME NEW nr, NEW pos \in Nat, NEW remove, NEW l \in Seq(Rule)
    PROVE  WalkedRight(l, nr, pos, remove)
<1> DEFINE A == WalkStates(nr)
           start == WalkStart(pos)
           Op(a, r) == Walk(nr, remove, a, r)
           G == [x \in A \X Rule |-> Op(x[1], x[2])]
           P == [s \in Seq(Rule) |-> Walked(s, nr, pos, remove)]
<1>1. G \in [A \X Rule -> A] /\ start \in A
  <2>1. \A a \in A, r \in Rule : Op(a, r) \in A
    BY WalkTyping
  <2>2. start \in A
    BY DEF WalkStates, WalkStart
  <2> HIDE DEF Op, A
  <2> QED BY <2>1, <2>2
<1>2. ASSUME NEW s \in Seq(Rule)
      PROVE  \E it : /\ P[s] = it[DOMAIN s]
                     /\ it[{}] = start
                     /\ \A t \in SUBSET DOMAIN s :
                           t # {} /\ it[t \ {Max(t)}] \in A
                           => it[t] = G[<<it[t \ {Max(t)}], s[Max(t)]>>]
  <2> DEFINE Rec(it) == it = [t \in SUBSET DOMAIN s |->
                                IF t = {} THEN start ELSE Op(it[t \ {Max(t)}], s[Max(t)])]
  <2>1. Walked(s, nr, pos, remove) = (CHOOSE it : Rec(it))[DOMAIN s]
    BY Zenon DEF Walked, FoldLeft, MapThenFoldSet, WalkStart
  <2> HIDE DEF start
  <2>2. \A t \in SUBSET DOMAIN s : t # {} => Max(t) \in DOMAIN s /\ s[Max(t)] \in Rule
    <3>1. DOMAIN s = 1 .. Len(s) /\ Len(s) \in Nat
      OBVIOUS
    <3>2. \A t \in SUBSET DOMAIN s : t # {} => Max(t) \in t
      BY <3>1, Greatest
    <3> QED BY <3>2
  <2>3. PICK g \in [SUBSET DOMAIN s -> A] : Recursion(g, start, G, s)
    <3> HIDE DEF G, A
    <3> QED BY <1>1, RecursionExists
  <2>4. Rec(g)
    <3> HIDE DEF Op
    <3> QED BY <2>2, <2>3, Zenon DEF Recursion
  <2> DEFINE it == CHOOSE it : Rec(it)
  <2>5. Rec(it)
    <3> HIDE DEF Rec
    <3> QED BY <2>4
  <2>6. P[s] = it[DOMAIN s]
    BY <2>1
  <2> HIDE DEF it, Op, A
  <2>7. it[{}] = start
    BY <2>5
  <2>8. ASSUME NEW t \in SUBSET DOMAIN s, t # {}, it[t \ {Max(t)}] \in A
        PROVE  it[t] = G[<<it[t \ {Max(t)}], s[Max(t)]>>]
    <3>1. it[t] = Op(it[t \ {Max(t)}], s[Max(t)])
      BY <2>5, <2>8
    <3>2. <<it[t \ {Max(t)}], s[Max(t)]>> \in A \X Rule
      BY <2>2, <2>8
    <3> QED BY <3>1, <3>2
  <2> QED BY <2>6, <2>7, <2>8
<1>3. /\ P[<<>>] = start
      /\ \A s \in Seq(Rule), r \in Rule : P[Append(s, r)] = G[<<P[s], r>>]
      /\ \A s \in Seq(Rule) : P[s] \in A
  <2>1. Folds(P, Rule, A, start, G)
    BY <1>2 DEF Folds
  <2> HIDE DEF G, P, A, start
  <2> QED BY <1>1, <2>1, ListFold
<1>4. /\ <<>> \in Seq(Rule)
      /\ \A s \in Seq(Rule), r \in Rule : Append(s, r) \in Seq(Rule)
  OBVIOUS
<1>5. \A s \in Seq(Rule) : Walked(s, nr, pos, remove) = P[s]
  OBVIOUS
<1>6. \A a \in A, r \in Rule : G[<<a, r>>] = Walk(nr, remove, a, r)
  OBVIOUS
<1> HIDE DEF P, G
<1>7. Walked(<<>>, nr, pos, remove) = start
  BY <1>3, <1>4, <1>5
<1>8. ASSUME NEW s \in Seq(Rule) PROVE Walked(s, nr, pos, remove) \in A
  BY <1>3, <1>5
<1>9. ASSUME NEW s \in Seq(Rule), NEW r \in Rule
      PROVE  Walked(Append(s, r), nr, pos, remove) = Walk(nr, remove, Walked(s, nr, pos, remove), r)
  <2>1. P[Append(s, r)] = G[<<P[s], r>>] /\ P[s] \in A
    BY <1>3
  <2>2. G[<<P[s], r>>] = Walk(nr, remove, P[s], r)
    BY <1>6, <2>1
  <2>3. /\ Walked(s, nr, pos, remove) = P[s]
        /\ Walked(Append(s, r), nr, pos, remove) = P[Append(s, r)]
    BY <1>4, <1>5
  <2> QED BY ONLY <2>1, <2>2, <2>3
<1> QED BY <1>7, <1>8, <1>9 DEF WalkedRight

(* One turn: the rule goes in or not, and then the rule of the list stays, *)
(* is replaced by its like or left out.                                    *)
WalkStep(a, w, nr, remove, r) ==
    \E mid :
        /\ \/ mid = a.new /\ (w.inserted <=> a.inserted) /\ (a.count = a.pos => w.pos = a.pos + 1)
           \/ mid = Append(a.new, nr) /\ w.inserted /\ a.count = a.pos /\ w.pos = a.pos
        /\ \/ w.new = mid /\ Slot(r) = Slot(nr)
           \/ w.new = Append(mid, nr) /\ Slot(r) = Slot(nr) /\ ~remove
           \/ w.new = Append(mid, r)

(* What one turn of the loop does to the new list.                         *)
LEMMA WalkShape ==
    ASSUME NEW nr, NEW remove, NEW a \in WalkStates(nr), NEW r \in Rule
    PROVE  WalkStep(a, Walk(nr, remove, a, r), nr, remove, r)
<1> DEFINE R == Rule \cup {nr}
           splits == IsApp(r) /\ a.last = App(r)
           insert == a.count = a.pos /\ ~splits
           mid == IF insert THEN Append(a.new, nr) ELSE a.new
           ret == Match(r, nr)
           inserted == a.inserted \/ insert
           replaced == ret \in {"comment", "action"} /\ ~remove /\ ~inserted
           removed == \/ ret = "exact" /\ ~a.found /\ ~inserted /\ remove
                      \/ ret = "comment" /\ remove /\ nr.act.comment = ""
           same == ret = "exact" /\ ~a.found /\ ~inserted
           tail == IF removed THEN <<>> ELSE IF replaced \/ same THEN <<nr>> ELSE <<r>>
           w == Walk(nr, remove, a, r)
<1>1. a.new \in Seq(R) /\ nr \in R /\ r \in R
  BY DEF WalkStates
<1>2. w.new = a.new \o (IF insert THEN <<nr>> ELSE <<>>) \o tail
  BY Zenon DEF Walk
<1>3. /\ w.inserted <=> inserted
      /\ w.pos = IF a.count = a.pos /\ splits THEN a.pos + 1 ELSE a.pos
  BY Zenon DEF Walk
<1>4. Slot(r) = Slot(nr) \/ tail = <<r>>
  BY MatchSlot
<1>5. tail = <<>> \/ (tail = <<nr>> /\ ~remove) \/ tail = <<r>>
  OBVIOUS
<1> HIDE DEF tail, inserted, R, w
<1>6. mid = a.new \o (IF insert THEN <<nr>> ELSE <<>>) /\ mid \in Seq(R)
  <2>1. \A s \in Seq(R), x \in R : s \o <<x>> = Append(s, x) /\ s \o <<>> = s /\ Append(s, x) \in Seq(R)
    OBVIOUS
  <2> QED BY <1>1, <2>1
<1>7. w.new = mid \o tail
  BY <1>2, <1>6
<1>8. mid \o <<>> = mid /\ mid \o <<nr>> = Append(mid, nr) /\ mid \o <<r>> = Append(mid, r)
  <2>1. \A s \in Seq(R), x \in R : s \o <<x>> = Append(s, x) /\ s \o <<>> = s
    OBVIOUS
  <2> HIDE DEF mid
  <2> QED BY <1>1, <1>6, <2>1
<1>9. \/ mid = a.new /\ (w.inserted <=> a.inserted) /\ (a.count = a.pos => w.pos = a.pos + 1)
      \/ mid = Append(a.new, nr) /\ w.inserted /\ a.count = a.pos /\ w.pos = a.pos
  BY <1>3, Zenon DEF inserted
<1>10. \/ w.new = mid /\ Slot(r) = Slot(nr)
       \/ w.new = Append(mid, nr) /\ Slot(r) = Slot(nr) /\ ~remove
       \/ w.new = Append(mid, r)
  <2> HIDE DEF mid
  <2> QED BY <1>4, <1>5, <1>7, <1>8
<1> HIDE DEF mid
<1> QED BY <1>9, <1>10 DEF WalkStep, w

(* The same of the walk through a list one longer.                         *)
LEMMA WalkedStep ==
    ASSUME NEW nr, NEW pos \in Nat, NEW remove, NEW l \in Seq(Rule), NEW r \in Rule
    PROVE  /\ Walked(l, nr, pos, remove) \in WalkStates(nr)
           /\ Walked(Append(l, r), nr, pos, remove)
              = Walk(nr, remove, Walked(l, nr, pos, remove), r)
           /\ WalkStep(Walked(l, nr, pos, remove), Walked(Append(l, r), nr, pos, remove),
                       nr, remove, r)
<1>1. WalkedRight(l, nr, pos, remove)
  BY WalkedFold
<1>2. /\ Walked(l, nr, pos, remove) \in WalkStates(nr)
      /\ Walked(Append(l, r), nr, pos, remove)
         = Walk(nr, remove, Walked(l, nr, pos, remove), r)
  BY <1>1 DEF WalkedRight
<1>3. WalkStep(Walked(l, nr, pos, remove), Walk(nr, remove, Walked(l, nr, pos, remove), r),
               nr, remove, r)
  BY <1>2, WalkShape
<1> QED BY <1>2, <1>3

(* The engine is given a rule, or only deletes one.                        *)
Proper(nr, pos, remove) == nr \in Rule \/ (remove /\ pos = 0)

(* The counters and flags.                                                 *)
WalkBasics(s, w, nr, pos, remove) ==
    /\ w.count = Len(s) + 1
    /\ w.inserted => w.pos < w.count
    /\ pos = 0 => w.pos = 0 /\ ~w.inserted
    /\ w.matched <=> Slot(nr) \in Slots(s)
    /\ ~w.inserted /\ ~remove /\ w.matched => w.found

(* The counters and flags of the loop after any list.                      *)
LEMMA WalkedBasics ==
    ASSUME NEW nr, NEW pos \in Nat, NEW remove, NEW s \in Seq(Rule)
    PROVE  WalkBasics(s, Walked(s, nr, pos, remove), nr, pos, remove)
<1> DEFINE P(u) == WalkBasics(u, Walked(u, nr, pos, remove), nr, pos, remove)
           T == {u \in Seq(Rule) : P(u)}
<1>1. P(<<>>)
  <2>1. Slots(<<>>) = {}
    BY DEF Slots
  <2>2. Walked(<<>>, nr, pos, remove) = WalkStart(pos)
    BY <<>> \in Seq(Rule), WalkedFold DEF WalkedRight
  <2>3. /\ WalkStart(pos).count = 1 /\ WalkStart(pos).pos = pos
        /\ ~WalkStart(pos).inserted /\ ~WalkStart(pos).matched
    BY Zenon DEF WalkStart
  <2> QED BY <2>1, <2>2, <2>3 DEF WalkBasics
<1>2. ASSUME NEW u \in Seq(Rule), NEW r \in Rule, P(u) PROVE P(Append(u, r))
  <2> DEFINE a == Walked(u, nr, pos, remove)
             w == Walked(Append(u, r), nr, pos, remove)
  <2>1. /\ w = Walk(nr, remove, a, r) /\ a \in WalkStates(nr)
        /\ WalkStep(a, w, nr, remove, r)
    BY WalkedStep
  <2> HIDE DEF a, w
  <2>2. a.pos \in Nat /\ a.count \in Nat /\ a.count = Len(u) + 1 /\ Len(Append(u, r)) = Len(u) + 1
    BY <1>2, <2>1 DEF WalkStates, WalkBasics, a
  <2>3. PICK mid :
             /\ \/ mid = a.new /\ (w.inserted <=> a.inserted) /\ (a.count = a.pos => w.pos = a.pos + 1)
                \/ mid = Append(a.new, nr) /\ w.inserted /\ a.count = a.pos /\ w.pos = a.pos
             /\ \/ w.new = mid /\ Slot(r) = Slot(nr)
                \/ w.new = Append(mid, nr) /\ Slot(r) = Slot(nr) /\ ~remove
                \/ w.new = Append(mid, r)
    BY <2>1, Zenon DEF WalkStep
  <2>4. w.count = a.count + 1 /\ (a.count # a.pos => w.pos = a.pos)
    BY <2>1, Zenon DEF Walk
  <2>5. w.matched <=> a.matched \/ Slot(r) = Slot(nr)
    <3>1. w.matched <=> a.matched \/ Match(r, nr) # "none"
      BY <2>1, Zenon DEF Walk
    <3> QED BY <3>1, MatchSlot
  <2>6. ~w.inserted /\ ~remove /\ w.matched => w.found
    <3> SUFFICES ASSUME ~w.inserted, ~remove, w.matched PROVE w.found
      OBVIOUS
    <3>1. a.matched => a.found
      <4>1. ~a.inserted
        BY <2>3
      <4> QED BY <1>2, <4>1 DEF WalkBasics, a
    <3>2. Match(r, nr) # "none" => w.found
      <4>1. Match(r, nr) \in {"none", "exact", "comment", "action"}
        BY DEF Match
      <4> QED BY <2>1, <4>1, Zenon DEF Walk
    <3>3. a.found => w.found
      BY <2>1, Zenon DEF Walk
    <3> QED BY <2>5, <3>1, <3>2, <3>3, MatchSlot
  <2>7. Slots(Append(u, r)) = Slots(u) \cup {Slot(r)}
    BY SlotsAppend
  <2>8. w.matched <=> Slot(nr) \in Slots(Append(u, r))
    BY <1>2, <2>5, <2>7 DEF WalkBasics, a
  <2>9. w.inserted => w.pos < w.count
    BY <1>2, <2>2, <2>3, <2>4 DEF WalkBasics, a
  <2>10. pos = 0 => w.pos = 0 /\ ~w.inserted
    BY <1>2, <2>2, <2>3, <2>4 DEF WalkBasics, a
  <2> QED BY <2>2, <2>4, <2>6, <2>8, <2>9, <2>10 DEF WalkBasics, w
<1>3. Seq(Rule) \subseteq T
  <2>1. <<>> \in T
    BY <1>1
  <2>2. ASSUME NEW u \in Seq(Rule), NEW r \in Rule, u \in T PROVE Append(u, r) \in T
    <3>1. Append(u, r) \in Seq(Rule)
      OBVIOUS
    <3> HIDE DEF P
    <3> QED BY <1>2, <2>2, <3>1
  <2> HIDE DEF T
  <2> QED BY <2>1, <2>2, ListInduction
<1> HIDE DEF P
<1>4. P(s)
  BY <1>3
<1> QED BY <1>4 DEF P

(* The new list.                                                           *)
WalkList(s, w, nr) ==
    /\ w.new \in Seq(Rule)
    /\ Slots(w.new) \subseteq Slots(s) \cup {Slot(nr)}
    /\ ~w.inserted => Slots(w.new) \subseteq Slots(s)
    /\ Distinct(s) /\ (w.inserted => Slot(nr) \notin Slots(s)) => Distinct(w.new)
    /\ \A keys : nr.key \notin keys => OfKeys(w.new, keys) = OfKeys(s, keys)

(* The list that the loop has built after any list: nothing but the rules  *)
(* of the key has changed, and what it holds twice was there twice.        *)
LEMMA WalkedList ==
    ASSUME NEW nr, NEW pos \in Nat, NEW remove, Proper(nr, pos, remove), NEW s \in Seq(Rule)
    PROVE  WalkList(s, Walked(s, nr, pos, remove), nr)
<1> DEFINE P(u) == WalkList(u, Walked(u, nr, pos, remove), nr)
           T == {u \in Seq(Rule) : P(u)}
<1>1. P(<<>>)
  <2>1. Walked(<<>>, nr, pos, remove) = WalkStart(pos)
    BY <<>> \in Seq(Rule), WalkedFold DEF WalkedRight
  <2>2. WalkStart(pos).new = <<>> /\ ~WalkStart(pos).inserted
    BY Zenon DEF WalkStart
  <2>3. Distinct(<<>>)
    BY DEF Distinct
  <2> DEFINE w == Walked(<<>>, nr, pos, remove)
  <2>4. w.new = <<>> /\ ~w.inserted /\ <<>> \in Seq(Rule)
    BY <2>1, <2>2
  <2> HIDE DEF w
  <2> QED BY <2>3, <2>4 DEF WalkList, w
<1>2. ASSUME NEW u \in Seq(Rule), NEW r \in Rule, P(u) PROVE P(Append(u, r))
  <2> DEFINE a == Walked(u, nr, pos, remove)
             w == Walked(Append(u, r), nr, pos, remove)
  <2>0. Append(u, r) \in Seq(Rule)
    OBVIOUS
  <2>1. a \in WalkStates(nr) /\ WalkStep(a, w, nr, remove, r)
    BY WalkedStep
  <2>2. WalkBasics(u, a, nr, pos, remove) /\ WalkBasics(Append(u, r), w, nr, pos, remove)
    BY <2>0, WalkedBasics
  <2>3. WalkList(u, a, nr)
    BY <1>2
  <2> HIDE DEF a, w
  <2>4. a.pos \in Nat /\ a.count \in Nat
    BY <2>1 DEF WalkStates
  <2>5. PICK mid :
             /\ \/ mid = a.new /\ (w.inserted <=> a.inserted) /\ (a.count = a.pos => w.pos = a.pos + 1)
                \/ mid = Append(a.new, nr) /\ w.inserted /\ a.count = a.pos /\ w.pos = a.pos
             /\ \/ w.new = mid /\ Slot(r) = Slot(nr)
                \/ w.new = Append(mid, nr) /\ Slot(r) = Slot(nr) /\ ~remove
                \/ w.new = Append(mid, r)
    BY <2>1, Zenon DEF WalkStep
  <2> DEFINE Good(list, S) ==
                /\ list \in Seq(Rule)
                /\ Slots(list) \subseteq S \cup {Slot(nr)}
                /\ ~w.inserted => Slots(list) \subseteq S
  <2>6. /\ mid \in Seq(Rule)
        /\ Slots(mid) \subseteq Slots(u) \cup {Slot(nr)}
        /\ ~w.inserted => Slots(mid) \subseteq Slots(u)
        /\ Distinct(u) /\ (w.inserted => Slot(nr) \notin Slots(u)) => Distinct(mid)
        /\ \A keys : nr.key \notin keys => OfKeys(mid, keys) = OfKeys(u, keys)
    <3>1. CASE mid = a.new /\ (w.inserted <=> a.inserted)
      BY <2>3, <3>1 DEF WalkList
    <3>2. CASE mid = Append(a.new, nr) /\ w.inserted /\ a.count = a.pos
      <4>1. nr \in Rule
        BY <2>2, <3>2 DEF Proper, WalkBasics
      <4>2. ~a.inserted
        BY <2>2, <2>4, <3>2 DEF WalkBasics
      <4>3. a.new \in Seq(Rule) /\ Slots(a.new) \subseteq Slots(u)
        BY <2>3, <4>2 DEF WalkList
      <4>4. /\ Slots(mid) = Slots(a.new) \cup {Slot(nr)}
            /\ Distinct(mid) <=> Distinct(a.new) /\ Slot(nr) \notin Slots(a.new)
        BY <3>2, <4>1, <4>3, SlotsAppend, DistinctAppend
      <4>5. ASSUME NEW keys, nr.key \notin keys PROVE OfKeys(mid, keys) = OfKeys(u, keys)
        <5>1. OfKeys(mid, keys) = OfKeys(a.new, keys)
          BY <3>2, <4>1, <4>3, <4>5, OfKeysFold
        <5> QED BY <2>3, <4>5, <5>1 DEF WalkList
      <4>6. mid \in Seq(Rule)
        BY <3>2, <4>1, <4>3
      <4>7. Distinct(u) /\ Slot(nr) \notin Slots(u) => Distinct(mid)
        BY <2>3, <4>2, <4>3, <4>4 DEF WalkList
      <4> QED BY <3>2, <4>3, <4>4, <4>5, <4>6, <4>7
    <3> QED BY <2>5, <3>1, <3>2
  <2>7. /\ Slots(Append(u, r)) = Slots(u) \cup {Slot(r)}
        /\ Distinct(Append(u, r)) <=> Distinct(u) /\ Slot(r) \notin Slots(u)
    BY SlotsAppend, DistinctAppend
  <2>8. \A keys : OfKeys(Append(u, r), keys) = IF r.key \in keys THEN Append(OfKeys(u, keys), r)
                                              ELSE OfKeys(u, keys)
    BY OfKeysFold
  <2>9. CASE w.new = mid /\ Slot(r) = Slot(nr)
    <3>1. r.key = nr.key
      BY <2>9 DEF Slot
    <3>2. \A keys : nr.key \notin keys => OfKeys(w.new, keys) = OfKeys(Append(u, r), keys)
      BY <2>6, <2>8, <2>9, <3>1
    <3>3. Distinct(Append(u, r)) /\ (w.inserted => Slot(nr) \notin Slots(Append(u, r)))
          => Distinct(w.new)
      BY <2>6, <2>7, <2>9
    <3> QED BY <2>6, <2>7, <2>9, <3>2, <3>3 DEF WalkList, w
  <2>10. ASSUME NEW x \in Rule, w.new = Append(mid, x), Slot(x) = Slot(r), x \in {r, nr}
         PROVE  P(Append(u, r))
    <3>1. /\ Slots(w.new) = Slots(mid) \cup {Slot(x)}
          /\ Distinct(w.new) <=> Distinct(mid) /\ Slot(x) \notin Slots(mid)
      BY <2>6, <2>10, SlotsAppend, DistinctAppend
    <3>2. Distinct(Append(u, r)) /\ (w.inserted => Slot(nr) \notin Slots(Append(u, r)))
          => Distinct(w.new)
      BY <2>6, <2>7, <2>10, <3>1
    <3>3. ASSUME NEW keys
          PROVE  OfKeys(w.new, keys) = IF x.key \in keys THEN Append(OfKeys(mid, keys), x)
                                       ELSE OfKeys(mid, keys)
      <4>1. mid \in Seq(Rule) /\ w.new = Append(mid, x)
        BY <2>6, <2>10
      <4>2. OfKeys(Append(mid, x), keys) = IF x.key \in keys THEN Append(OfKeys(mid, keys), x)
                                          ELSE OfKeys(mid, keys)
        BY <4>1, OfKeysFold
      <4> QED BY <4>1, <4>2
    <3>4. w.new \in Seq(Rule)
      BY <2>6, <2>10
    <3>5. x.key = r.key
      BY <2>10 DEF Slot
    <3>6. (x = r \/ x = nr) => \A keys : nr.key \notin keys => OfKeys(w.new, keys) = OfKeys(Append(u, r), keys)
      BY <2>6, <2>8, <3>3, <3>5
    <3> QED BY <2>6, <2>7, <2>10, <3>1, <3>2, <3>4, <3>6 DEF WalkList, w
  <2>11. CASE w.new = Append(mid, nr) /\ Slot(r) = Slot(nr) /\ ~remove
    BY <2>10, <2>11 DEF Proper
  <2>12. CASE w.new = Append(mid, r)
    BY <2>10, <2>12
  <2> QED BY <2>5, <2>9, <2>11, <2>12
<1>3. Seq(Rule) \subseteq T
  <2>1. <<>> \in T
    BY <1>1
  <2>2. ASSUME NEW u \in Seq(Rule), NEW r \in Rule, u \in T PROVE Append(u, r) \in T
    <3>1. Append(u, r) \in Seq(Rule)
      OBVIOUS
    <3> HIDE DEF P
    <3> QED BY <1>2, <2>2, <3>1
  <2> HIDE DEF T
  <2> QED BY <2>1, <2>2, ListInduction
<1> HIDE DEF P
<1>4. P(s)
  BY <1>3
<1> QED BY <1>4 DEF P

(* The outcomes of a half.                                                 *)
Outcomes == {"", "skipped", "inserted", "deleted", "notFound", "updated", "added", "error"}

(* What becomes of a list under a command with one key: no doubles unless  *)
(* there were some, all other rules as they were and in order, no other    *)
(* keys.                                                                   *)
Kept(list, new, k) ==
    /\ new \in Seq(Rule)
    /\ Distinct(list) => Distinct(new)
    /\ \A keys : k \notin keys => OfKeys(new, keys) = OfKeys(list, keys)
    /\ Keys(new) \subseteq Keys(list) \cup {k}

(* A list is kept by doing nothing,                                        *)
LEMMA KeptItself ==
    ASSUME NEW list \in Seq(Rule), NEW k
    PROVE  Kept(list, list, k)
BY DEF Kept

(* and by two steps that each keep it.                                     *)
LEMMA KeptTwice ==
    ASSUME NEW list, NEW mid, NEW new, NEW k, Kept(list, mid, k), Kept(mid, new, k)
    PROVE  Kept(list, new, k)
<1>1. /\ new \in Seq(Rule)
      /\ Keys(new) \subseteq Keys(list) \cup {k}
  BY DEF Kept
<1>2. Distinct(list) => Distinct(new)
  BY DEF Kept
<1>3. \A keys : k \notin keys => OfKeys(new, keys) = OfKeys(list, keys)
  BY DEF Kept
<1> QED BY <1>1, <1>2, <1>3 DEF Kept

(* No new slots, no new keys.                                              *)
LEMMA SlotKeys ==
    ASSUME NEW list, NEW new, NEW r, Slots(new) \subseteq Slots(list) \cup {Slot(r)}
    PROVE  Keys(new) \subseteq Keys(list) \cup {r.key}
<1> SUFFICES ASSUME NEW i \in DOMAIN new PROVE new[i].key \in Keys(list) \cup {r.key}
  BY DEF Keys
<1>1. Slot(new[i]) \in Slots(list) \cup {Slot(r)}
  BY DEF Slots
<1>2. CASE Slot(new[i]) = Slot(r)
  BY <1>2 DEF Slot
<1>3. CASE Slot(new[i]) \in Slots(list)
  <2>1. PICK j \in DOMAIN list : Slot(new[i]) = Slot(list[j])
    BY <1>3 DEF Slots
  <2>2. new[i].key = list[j].key
    BY <2>1 DEF Slot
  <2> QED BY <2>2 DEF Keys
<1> QED BY <1>1, <1>2, <1>3

(* The lists that setRuleEngine may return.                                *)
ConcludedList(list, nr, remove, end, c) ==
    \/ c.list = list
    \/ c.list = end.new /\ (end.inserted => ~end.matched)
    \/ c.list = Append(end.new, nr) /\ ~end.inserted /\ ~remove /\ ~end.found

(* What setRuleEngine returns after the loop.                              *)
LEMMA ConcludedShape ==
    ASSUME NEW list, NEW nr, NEW remove, NEW end, NEW c, c = Concluded(list, nr, remove, end)
    PROVE  c.outcome \in Outcomes \ {"error", ""} /\ ConcludedList(list, nr, remove, end, c)
<1>1. CASE end.inserted
  <2>1. c = IF end.matched THEN Outcome(list, "skipped") ELSE Outcome(end.new, "inserted")
    BY <1>1 DEF Concluded
  <2> QED BY <1>1, <2>1 DEF Outcome, Outcomes, ConcludedList
<1>2. CASE ~end.inserted /\ remove
  <2>1. c = IF end.found THEN Outcome(end.new, "deleted") ELSE Outcome(list, "notFound")
    BY <1>2 DEF Concluded
  <2>2. \/ c.list = list /\ c.outcome = "notFound"
        \/ c.list = end.new /\ c.outcome = "deleted"
    BY ONLY <2>1 DEF Outcome
  <2> QED BY <1>2, <2>2, Zenon DEF Outcomes, ConcludedList
<1>3. CASE ~end.inserted /\ ~remove /\ end.found
  <2>1. c = IF end.modified THEN Outcome(end.new, "updated") ELSE Outcome(list, "skipped")
    BY <1>3 DEF Concluded
  <2> QED BY <1>3, <2>1 DEF Outcome, Outcomes, ConcludedList
<1>4. CASE ~end.inserted /\ ~remove /\ ~end.found
  <2>1. c = Outcome(Append(end.new, nr), "added")
    BY <1>4 DEF Concluded
  <2> QED BY <1>4, <2>1 DEF Outcome, Outcomes, ConcludedList
<1> QED BY <1>1, <1>2, <1>3, <1>4

(* setRuleEngine changes the rules of one key only, whatever the position, *)
(* and makes none double.                                                  *)
LEMMA EngineKept ==
    ASSUME NEW list \in Seq(Rule), NEW nr, NEW pos \in Nat, NEW remove, Proper(nr, pos, remove)
    PROVE  /\ Kept(list, setRuleEngine(list, nr, pos, remove).list, nr.key)
           /\ setRuleEngine(list, nr, pos, remove).outcome \in Outcomes \ {"error", ""}
<1> DEFINE end == Walked(list, nr, pos, remove)
           c == setRuleEngine(list, nr, pos, remove)
           new == c.list
<1>1. WalkList(list, end, nr) /\ WalkBasics(list, end, nr, pos, remove)
  BY WalkedList, WalkedBasics
<1>2. c.outcome \in Outcomes \ {"error", ""} /\ ConcludedList(list, nr, remove, end, c)
  <2>1. c = Concluded(list, nr, remove, end)
    BY DEF setRuleEngine
  <2> HIDE DEF c, end
  <2> QED BY <2>1, ConcludedShape
<1> HIDE DEF end, c
<1>3. ASSUME new = list PROVE Kept(list, new, nr.key)
  BY <1>3, KeptItself
<1>4. ASSUME new = end.new, end.inserted => ~end.matched PROVE Kept(list, new, nr.key)
  <2>1. Keys(new) \subseteq Keys(list) \cup {nr.key}
    BY <1>1, <1>4, SlotKeys DEF WalkList
  <2>2. Distinct(list) => Distinct(new)
    BY <1>1, <1>4 DEF WalkList, WalkBasics
  <2>3. \A keys : nr.key \notin keys => OfKeys(new, keys) = OfKeys(list, keys)
    BY <1>1, <1>4 DEF WalkList
  <2> QED BY <1>1, <1>4, <2>1, <2>2, <2>3 DEF WalkList, Kept
<1>5. ASSUME new = Append(end.new, nr), ~end.inserted, ~remove, ~end.found
      PROVE  Kept(list, new, nr.key)
  <2>1. nr \in Rule /\ end.new \in Seq(Rule) /\ ~end.matched
    BY <1>1, <1>5 DEF Proper, WalkList, WalkBasics
  <2>2. Slots(new) = Slots(end.new) \cup {Slot(nr)}
    BY <1>5, <2>1, SlotsAppend
  <2>3. Keys(new) \subseteq Keys(list) \cup {nr.key}
    BY <1>1, <2>2, SlotKeys DEF WalkList
  <2>4. Distinct(list) => Distinct(new)
    <3>1. Distinct(new) <=> Distinct(end.new) /\ Slot(nr) \notin Slots(end.new)
      BY <1>5, <2>1, DistinctAppend
    <3>2. Slot(nr) \notin Slots(list) /\ Slots(end.new) \subseteq Slots(list)
      BY <1>1, <1>5, <2>1 DEF WalkList, WalkBasics
    <3>3. Distinct(list) => Distinct(end.new)
      BY <1>1, <1>5 DEF WalkList
    <3> QED BY <3>1, <3>2, <3>3
  <2>5. ASSUME NEW keys, nr.key \notin keys PROVE OfKeys(new, keys) = OfKeys(list, keys)
    <3>1. OfKeys(Append(end.new, nr), keys) = OfKeys(end.new, keys)
      BY <2>1, <2>5, OfKeysFold
    <3> QED BY <1>1, <1>5, <2>5, <3>1 DEF WalkList
  <2>6. new \in Seq(Rule)
    BY <1>5, <2>1
  <2> QED BY <2>3, <2>4, <2>5, <2>6 DEF Kept
<1>6. Kept(list, new, nr.key)
  BY <1>2, <1>3, <1>4, <1>5 DEF ConcludedList
<1> QED BY <1>2, <1>6 DEF c

(* What applyHalf returns.                                                 *)
Halves == [list : Seq(Rule), outcome : Outcomes]

(* Nor does one deletion of the members of an application,                 *)
LEMMA DeleteMemberKept ==
    ASSUME NEW a \in Halves, NEW r \in Rule, NEW nr
    PROVE  /\ Kept(a.list, DeleteMember(a, r, nr).list, r.key)
           /\ DeleteMember(a, r, nr) \in Halves
<1>0. a.list \in Seq(Rule)
  BY DEF Halves
<1>1. CASE a.outcome = "notFound"
  BY <1>0, <1>1, KeptItself DEF DeleteMember
<1>2. CASE a.outcome # "notFound"
  <2> DEFINE x == [r EXCEPT !.act.verdict = nr.act.verdict]
             c == DeleteMember(a, r, nr)
  <2>1. PICK t : t = TRUE
    OBVIOUS
  <2>2. c = setRuleEngine(a.list, x, 0, t)
    BY <1>2, <2>1, Zenon DEF DeleteMember
  <2>3. Proper(x, 0, t)
    BY <2>1 DEF Proper
  <2>4. x.key = r.key
    BY DEF Rule
  <2> HIDE DEF x, c
  <2>5. Kept(a.list, c.list, r.key) /\ c.outcome \in Outcomes
    BY <1>0, <2>2, <2>3, <2>4, EngineKept
  <2>6. c = [list |-> c.list, outcome |-> c.outcome]
    BY <2>2, Zenon DEF setRuleEngine, Concluded, Outcome
  <2> QED BY <2>5, <2>6 DEF Halves, Kept, c
<1> QED BY <1>1, <1>2

(* The fold of DeleteApp, and the members it goes through.                 *)
Deleted(start, nr, members) == FoldLeft(LAMBDA a, r : DeleteMember(a, r, nr), start, members)
Named(k) == {r \in Rule : r.key = k}

DeletedRight(l, start, nr, k) ==
    /\ Deleted(start, nr, <<>>) = start
    /\ Deleted(start, nr, l) \in Halves
    /\ \A r \in Named(k) : Deleted(start, nr, Append(l, r))
                 = DeleteMember(Deleted(start, nr, l), r, nr)

(* the deletions being made one by one,                                    *)
LEMMA DeletedFold ==
    ASSUME NEW start \in Halves, NEW nr, NEW k, NEW l \in Seq(Named(k))
    PROVE  DeletedRight(l, start, nr, k)
<1> DEFINE A == Halves
           E == Named(k)
           Op(a, x) == DeleteMember(a, x, nr)
           G == [y \in A \X E |-> Op(y[1], y[2])]
           P == [s \in Seq(E) |-> Deleted(start, nr, s)]
<1>1. G \in [A \X E -> A] /\ start \in A
  <2>1. \A a \in A, x \in E : Op(a, x) \in A
    BY DeleteMemberKept DEF Named
  <2> HIDE DEF Op, A, E
  <2> QED BY <2>1 DEF A
<1>2. Folds(P, E, A, start, G)
  <2> SUFFICES ASSUME NEW s \in Seq(E)
               PROVE  \E it : /\ P[s] = it[DOMAIN s]
                              /\ it[{}] = start
                              /\ \A t \in SUBSET DOMAIN s :
                                    t # {} /\ it[t \ {Max(t)}] \in A
                                    => it[t] = G[<<it[t \ {Max(t)}], s[Max(t)]>>]
    BY DEF Folds
  <2> DEFINE Rec(it) == it = [t \in SUBSET DOMAIN s |->
                                IF t = {} THEN start ELSE Op(it[t \ {Max(t)}], s[Max(t)])]
  <2>1. Deleted(start, nr, s) = (CHOOSE it : Rec(it))[DOMAIN s]
    BY Zenon DEF Deleted, FoldLeft, MapThenFoldSet
  <2>2. \A t \in SUBSET DOMAIN s : t # {} => Max(t) \in DOMAIN s /\ s[Max(t)] \in E
    BY MaxOfDomain
  <2>3. PICK g \in [SUBSET DOMAIN s -> A] : Recursion(g, start, G, s)
    <3> HIDE DEF G, A, E
    <3> QED BY <1>1, RecursionExists
  <2>4. Rec(g)
    <3> HIDE DEF Op
    <3> QED BY <2>2, <2>3, Zenon DEF Recursion
  <2> DEFINE it == CHOOSE it : Rec(it)
  <2>5. Rec(it)
    <3> HIDE DEF Rec
    <3> QED BY <2>4
  <2>6. P[s] = it[DOMAIN s]
    BY <2>1
  <2> HIDE DEF it, Op, A, E
  <2>7. it[{}] = start
    BY <2>5
  <2>8. ASSUME NEW t \in SUBSET DOMAIN s, t # {}, it[t \ {Max(t)}] \in A
        PROVE  it[t] = G[<<it[t \ {Max(t)}], s[Max(t)]>>]
    <3>1. it[t] = Op(it[t \ {Max(t)}], s[Max(t)])
      BY <2>5, <2>8
    <3>2. <<it[t \ {Max(t)}], s[Max(t)]>> \in A \X E
      BY <2>2, <2>8
    <3> QED BY <3>1, <3>2
  <2> QED BY <2>6, <2>7, <2>8
<1>3. /\ P[<<>>] = start
      /\ \A s \in Seq(E), x \in E : P[Append(s, x)] = G[<<P[s], x>>]
      /\ \A s \in Seq(E) : P[s] \in A
  <2> HIDE DEF G, P, A, E
  <2> QED BY <1>1, <1>2, ListFold
<1>4. <<>> \in Seq(E) /\ \A x \in E : Append(l, x) \in Seq(E)
  OBVIOUS
<1>5. \A s \in Seq(E) : Deleted(start, nr, s) = P[s]
  OBVIOUS
<1>6. \A a \in A, x \in E : G[<<a, x>>] = DeleteMember(a, x, nr)
  OBVIOUS
<1> HIDE DEF P, G, A, E
<1>7. Deleted(start, nr, <<>>) = start
  BY <1>3, <1>4, <1>5
<1>8. Deleted(start, nr, l) \in A
  BY <1>3, <1>5 DEF E
<1>9. ASSUME NEW x \in E
      PROVE  Deleted(start, nr, Append(l, x))
             = DeleteMember(Deleted(start, nr, l), x, nr)
  <2>1. P[Append(l, x)] = G[<<P[l], x>>] /\ P[l] \in A
    BY <1>3 DEF E
  <2>2. G[<<P[l], x>>] = DeleteMember(P[l], x, nr)
    BY <1>6, <2>1
  <2>3. Deleted(start, nr, l) = P[l] /\ Deleted(start, nr, Append(l, x)) = P[Append(l, x)]
    BY <1>4, <1>5 DEF E
  <2> QED BY ONLY <2>1, <2>2, <2>3
<1> QED BY <1>7, <1>8, <1>9 DEF DeletedRight, A, E

(* nor do all of them together.                                            *)
LEMMA DeletedKept ==
    ASSUME NEW start \in Halves, NEW nr, NEW k, NEW members \in Seq(Named(k))
    PROVE  /\ Deleted(start, nr, members) \in Halves
           /\ Kept(start.list, Deleted(start, nr, members).list, k)
<1> DEFINE D(s) == Deleted(start, nr, s)
           P(s) == Kept(start.list, D(s).list, k)
           T == {s \in Seq(Named(k)) : P(s)}
<1>0. start.list \in Seq(Rule)
  BY DEF Halves
<1>1. P(<<>>)
  <2>1. D(<<>>) = start
    BY <<>> \in Seq(Named(k)), DeletedFold DEF DeletedRight
  <2> HIDE DEF D
  <2> QED BY <1>0, <2>1, KeptItself
<1>2. ASSUME NEW s \in Seq(Named(k)), NEW r \in Named(k), P(s) PROVE P(Append(s, r))
  <2>1. DeletedRight(s, start, nr, k)
    BY DeletedFold
  <2>2. D(Append(s, r)) = DeleteMember(D(s), r, nr) /\ D(s) \in Halves
    BY <2>1 DEF DeletedRight
  <2>3. r \in Rule /\ r.key = k
    BY DEF Named
  <2> HIDE DEF D
  <2>4. Kept(D(s).list, D(Append(s, r)).list, k)
    BY <2>2, <2>3, DeleteMemberKept
  <2> QED BY <1>2, <2>4, KeptTwice
<1>3. Seq(Named(k)) \subseteq T
  <2>1. <<>> \in T
    BY <1>1
  <2>2. ASSUME NEW s \in Seq(Named(k)), NEW r \in Named(k), s \in T PROVE Append(s, r) \in T
    <3>1. Append(s, r) \in Seq(Named(k))
      OBVIOUS
    <3> HIDE DEF P
    <3> QED BY <1>2, <2>2, <3>1
  <2> HIDE DEF T
  <2> QED BY <2>1, <2>2, ListInduction
<1>4. D(members) \in Halves
  BY DeletedFold DEF DeletedRight
<1>5. P(members)
  <2> HIDE DEF P
  <2> QED BY <1>3
<1> QED BY <1>4, <1>5

(* The members of a group have its key.                                    *)
LEMMA OfKeysNamed ==
    ASSUME NEW list \in Seq(Rule), NEW k
    PROVE  OfKeys(list, {k}) \in Seq(Named(k))
<1> DEFINE P(s) == OfKeys(s, {k}) \in Seq(Named(k))
           T == {s \in Seq(Rule) : P(s)}
<1>1. <<>> \in T
  <2>1. OfKeys(<<>>, {k}) = <<>>
    BY OfKeysFold
  <2>2. <<>> \in Seq(Named(k))
    OBVIOUS
  <2>3. OfKeys(<<>>, {k}) \in Seq(Named(k))
    BY ONLY <2>1, <2>2, Zenon
  <2> QED BY <2>3, <<>> \in Seq(Rule)
<1>2. ASSUME NEW s \in Seq(Rule), NEW r \in Rule, s \in T PROVE Append(s, r) \in T
  <2>1. OfKeys(Append(s, r), {k}) = IF r.key \in {k} THEN Append(OfKeys(s, {k}), r)
                                    ELSE OfKeys(s, {k})
    BY OfKeysFold
  <2>2. OfKeys(s, {k}) \in Seq(Named(k)) /\ Append(s, r) \in Seq(Rule)
    BY <1>2
  <2>3. CASE r.key = k
    <3>1. r \in Named(k)
      BY <2>3 DEF Named
    <3>2. Append(OfKeys(s, {k}), r) \in Seq(Named(k))
      BY <2>2, <3>1
    <3> QED BY <2>1, <2>2, <2>3, <3>2
  <2>4. CASE r.key # k
    BY <2>1, <2>2, <2>4
  <2> QED BY <2>3, <2>4
<1>3. Seq(Rule) \subseteq T
  <2> HIDE DEF T
  <2> QED BY <1>1, <1>2, ListInduction
<1> QED BY <1>3

(* applyHalf, with any outcome, keeps the other rules of the list.         *)
LEMMA HalfKept ==
    ASSUME NEW list \in Seq(Rule), NEW nr, NEW pos \in Int, NEW remove, nr \in Rule \/ remove
    PROVE  /\ Kept(list, applyHalf(list, nr, pos, remove).list, nr.key)
           /\ applyHalf(list, nr, pos, remove) \in Halves
<1> DEFINE c == applyHalf(list, nr, pos, remove)
<1> SUFFICES Kept(list, c.list, nr.key) /\ c \in Halves
  OBVIOUS
<1>1. CASE (pos < 0 \/ pos > Len(list)) \/ (pos > 0 /\ remove)
  <2>1. c = Outcome(list, "error")
    BY <1>1 DEF applyHalf
  <2> QED BY <2>1, KeptItself DEF Outcome, Outcomes, Halves
<1>2. CASE ~(pos < 0 \/ pos > Len(list)) /\ ~(pos > 0 /\ remove) /\ remove /\ IsApp(nr)
  <2> DEFINE members == OfKeys(list, {nr.key})
             start == Outcome(list, IF members = <<>> THEN "notFound" ELSE "")
  <2>1. c = Deleted(start, nr, members)
    BY <1>2, Zenon DEF applyHalf, DeleteApp, Deleted
  <2>2. start \in Halves /\ start.list = list
    BY DEF Outcome, Outcomes, Halves
  <2>3. members \in Seq(Named(nr.key))
    BY OfKeysNamed
  <2> HIDE DEF start, members, c
  <2> QED BY <2>1, <2>2, <2>3, DeletedKept
<1>3. CASE ~(pos < 0 \/ pos > Len(list)) /\ ~(pos > 0 /\ remove) /\ ~(remove /\ IsApp(nr))
  <2>1. c = setRuleEngine(list, nr, pos, remove)
    BY <1>3, Zenon DEF applyHalf
  <2>2. Proper(nr, pos, remove) /\ pos \in Nat
    BY <1>3 DEF Proper
  <2> HIDE DEF c
  <2>3. Kept(list, c.list, nr.key) /\ c.outcome \in Outcomes
    BY <2>1, <2>2, EngineKept
  <2>4. c = [list |-> c.list, outcome |-> c.outcome]
    BY <2>1, Zenon DEF setRuleEngine, Concluded, Outcome
  <2> QED BY <2>3, <2>4 DEF Halves, Kept
<1> QED BY <1>1, <1>2, <1>3

(* The states of runRuleOp, and both lists kept.                           *)
Runs == [lists : [Family -> Seq(Rule)], numV4 : Nat, outcome : Outcomes]
BothKept(lists, new, k) == \A f \in Family : Kept(lists[f], new[f], k)

(* The number that status shows is a number.                               *)
LEMMA CountTyping ==
    ASSUME NEW E, NEW list \in Seq(E)
    PROVE  IsFiniteSet(Shown(list)) /\ dedupedCount(list) \in Nat
<1>1. DOMAIN list = 1 .. Len(list) /\ Len(list) \in Nat
  OBVIOUS
<1>2. IsFiniteSet(1 .. Len(list))
  BY <1>1, FS_Interval
<1>3. Shown(list) \subseteq 1 .. Len(list)
  BY <1>1 DEF Shown
<1> QED BY <1>2, <1>3, FS_Subset, FS_CardinalityType DEF dedupedCount

(* findOtherPosition returns a position or 0.                              *)
LEMMA FindTyping ==
    ASSUME NEW src, NEW other \in Seq(Rule), NEW position
    PROVE  findOtherPosition(src, other, position) \in Nat
<1>1. DOMAIN other \subseteq Nat
  OBVIOUS
<1>2. ASSUME NEW S \in SUBSET DOMAIN other, S # {} PROVE Min(S) \in Nat
  BY <1>1, <1>2, Least
<1> DEFINE idx == position + Cardinality((1 .. position) \ Shown(src))
           twins == {i \in DOMAIN other : Match(other[i], src[idx]) = "exact"}
           v == findOtherPosition(src, other, position)
<1>3. v = 0 \/ (twins # {} /\ v = Min(twins))
  BY Zenon DEF findOtherPosition
<1>4. twins \in SUBSET DOMAIN other
  OBVIOUS
<1> HIDE DEF v, twins
<1> QED BY <1>2, <1>3, <1>4 DEF v

(* The position of a half is a whole number,                               *)
LEMMA PositionTyping ==
    ASSUME NEW pos \in Int, NEW count \in Nat, NEW numV4 \in Nat, NEW numV6 \in Nat
    PROVE  /\ v4Position(pos, count, numV4) \in Int
           /\ v6Position(pos, count, numV4, numV6) \in Int
BY DEF v4Position, v6Position, PrependPosition

(* and so are those of the two halves of a dual rule.                      *)
LEMMA DualTyping ==
    ASSUME NEW s \in Runs, NEW v4 \in Seq(Rule), NEW userPos \in Int, NEW next \in Int,
           NEW numV4 \in Nat, NEW count \in Nat, NEW numV6 \in Nat, NEW remove
    PROVE  /\ DualPosition4(s, userPos, count, remove) \in Int
           /\ DualPosition6(v4, s.lists["v6"], numV4, next, userPos, count, numV6, remove) \in Int
<1>1. s.lists["v4"] \in Seq(Rule) /\ s.lists["v6"] \in Seq(Rule) /\ s.numV4 \in Nat
  BY DEF Runs, Family
<1>2. PrependPosition(count, s.numV4) \in Int /\ PrependPosition(count, numV6) \in Int
  BY DEF PrependPosition
<1> DEFINE find4 == findOtherPosition(s.lists["v6"], s.lists["v4"], userPos - s.numV4 + count)
           near == NearTwin(findOtherPosition(v4, s.lists["v6"], next), count)
<1>3. find4 \in Int
  BY <1>1, FindTyping
<1>4. near \in Int
  <2>1. findOtherPosition(v4, s.lists["v6"], next) \in Nat
    BY <1>1, FindTyping
  <2> QED BY <2>1 DEF NearTwin
<1>5. DualPosition4(s, userPos, count, remove) \in {PrependPosition(count, s.numV4), find4, userPos}
  BY Zenon DEF DualPosition4
<1>6. DualPosition6(v4, s.lists["v6"], numV4, next, userPos, count, numV6, remove)
      \in {PrependPosition(count, numV6), next, near - numV4, near, next - numV4}
  BY Zenon DEF DualPosition6
<1> HIDE DEF find4, near
<1>7. near - numV4 \in Int /\ next - numV4 \in Int
  BY <1>4
<1> QED BY <1>2, <1>3, <1>4, <1>5, <1>6, <1>7

(* The second half of a dual rule keeps the other rules of its list,       *)
LEMMA SecondHalfKept ==
    ASSUME NEW s \in Runs, NEW nr, NEW pos4 \in Int, NEW userPos \in Int, NEW count \in Nat,
           NEW numV6 \in Nat, NEW remove, nr \in Rule \/ remove,
           NEW v4, Kept(s.lists["v4"], v4, nr.key)
    PROVE  /\ SecondHalf(s, v4, nr, pos4, userPos, count, numV6, remove) \in Runs
           /\ BothKept(s.lists, SecondHalf(s, v4, nr, pos4, userPos, count, numV6, remove).lists, nr.key)
<1> DEFINE readjust == ~remove /\ userPos > 0
           numV4 == IF readjust THEN dedupedCount(v4) ELSE s.numV4
           next == IF readjust THEN userPos + 1 ELSE pos4
           pos6 == DualPosition6(v4, s.lists["v6"], numV4, next, userPos, count, numV6, remove)
           half6 == applyHalf(s.lists["v6"], nr, pos6, remove)
           c == SecondHalf(s, v4, nr, pos4, userPos, count, numV6, remove)
<1>1. s.lists["v4"] \in Seq(Rule) /\ s.lists["v6"] \in Seq(Rule) /\ s.numV4 \in Nat
  BY DEF Runs, Family
<1>2. v4 \in Seq(Rule)
  BY DEF Kept
<1>3. numV4 \in Nat /\ next \in Int
  BY <1>1, <1>2, CountTyping
<1> HIDE DEF numV4, next
<1>4. pos6 \in Int
  BY <1>2, <1>3, DualTyping
<1> HIDE DEF pos6
<1>5. Kept(s.lists["v6"], half6.list, nr.key) /\ half6 \in Halves
  BY <1>1, <1>4, HalfKept
<1> HIDE DEF half6
<1>6. c = [lists |-> [v4 |-> v4, v6 |-> half6.list], numV4 |-> numV4, outcome |-> half6.outcome]
  BY Zenon DEF SecondHalf, half6, pos6, next, numV4
<1> HIDE DEF c
<1>7. half6.list \in Seq(Rule) /\ half6.outcome \in Outcomes
  BY <1>5 DEF Halves
<1>8. c \in Runs
  BY <1>2, <1>3, <1>6, <1>7 DEF Runs, Family
<1>9. c.lists["v4"] = v4 /\ c.lists["v6"] = half6.list
  BY <1>6
<1>10. BothKept(s.lists, c.lists, nr.key)
  BY <1>5, <1>9 DEF BothKept, Family
<1> QED BY <1>8, <1>10 DEF c

(* as applyDual does of both,                                              *)
LEMMA DualKept ==
    ASSUME NEW s \in Runs, NEW nr, NEW userPos \in Int, NEW count \in Nat,
           NEW numV6 \in Nat, NEW remove, nr \in Rule \/ remove
    PROVE  /\ applyDual(s, nr, userPos, count, numV6, remove) \in Runs
           /\ BothKept(s.lists, applyDual(s, nr, userPos, count, numV6, remove).lists, nr.key)
<1> DEFINE pos4 == DualPosition4(s, userPos, count, remove)
           half4 == applyHalf(s.lists["v4"], nr, pos4, remove)
           c == applyDual(s, nr, userPos, count, numV6, remove)
<1>1. s.lists["v4"] \in Seq(Rule) /\ s.lists["v6"] \in Seq(Rule) /\ s.numV4 \in Nat
  BY DEF Runs, Family
<1>2. pos4 \in Int
  BY <1>1, DualTyping
<1> HIDE DEF pos4
<1>3. Kept(s.lists["v4"], half4.list, nr.key)
  BY <1>1, <1>2, HalfKept
<1>4. \/ c = [s EXCEPT !.outcome = "error"]
      \/ c = SecondHalf(s, half4.list, nr, pos4, userPos, count, numV6, remove)
  BY Zenon DEF applyDual, pos4
<1> HIDE DEF half4, c
<1>5. ASSUME c = [s EXCEPT !.outcome = "error"] PROVE c \in Runs /\ BothKept(s.lists, c.lists, nr.key)
  <2>1. c.lists = s.lists /\ c \in Runs
    BY <1>5 DEF Runs, Outcomes
  <2>2. \A f \in Family : s.lists[f] \in Seq(Rule)
    BY DEF Runs
  <2> QED BY <2>1, <2>2, KeptItself DEF BothKept
<1>6. ASSUME c = SecondHalf(s, half4.list, nr, pos4, userPos, count, numV6, remove)
      PROVE  c \in Runs /\ BothKept(s.lists, c.lists, nr.key)
  BY <1>2, <1>3, <1>6, SecondHalfKept
<1> QED BY <1>4, <1>5, <1>6 DEF c

(* and a rule of one family of its own,                                    *)
LEMMA OneHalfKept ==
    ASSUME NEW s \in Runs, NEW nr, NEW f \in Family, NEW pos \in Int, NEW remove,
           nr \in Rule \/ remove, NEW half, half = applyHalf(s.lists[f], nr, pos, remove),
           NEW c, c = [s EXCEPT !.lists[f] = half.list, !.outcome = half.outcome]
    PROVE  c \in Runs /\ BothKept(s.lists, c.lists, nr.key)
<1>1. s.lists \in [Family -> Seq(Rule)]
  BY DEF Runs
<1>2. Kept(s.lists[f], half.list, nr.key) /\ half \in Halves
  BY <1>1, HalfKept
<1>3. half.list \in Seq(Rule) /\ half.outcome \in Outcomes
  BY <1>2 DEF Halves
<1>4. c.lists = [s.lists EXCEPT ![f] = half.list]
  BY DEF Runs
<1>5. c \in Runs
  BY <1>1, <1>3 DEF Runs
<1>6. ASSUME NEW g \in Family PROVE Kept(s.lists[g], c.lists[g], nr.key)
  <2>1. CASE g = f
    BY <1>1, <1>2, <1>4, <2>1
  <2>2. CASE g # f
    <3>1. c.lists[g] = s.lists[g]
      BY <1>1, <1>4, <2>2
    <3> QED BY <1>1, <3>1, KeptItself
  <2> QED BY <2>1, <2>2
<1> QED BY <1>5, <1>6 DEF BothKept

(* so that applyRule keeps them,                                           *)
LEMMA RuleKept ==
    ASSUME NEW s \in Runs, NEW nr, NEW userPos \in Int, NEW count \in Nat,
           NEW numV6 \in Nat, NEW remove, nr \in Rule \/ remove
    PROVE  /\ applyRule(s, nr, userPos, count, numV6, remove) \in Runs
           /\ BothKept(s.lists, applyRule(s, nr, userPos, count, numV6, remove).lists, nr.key)
<1> DEFINE c == applyRule(s, nr, userPos, count, numV6, remove)
           One(f, pos) == [s EXCEPT !.lists[f] = applyHalf(s.lists[f], nr, pos, remove).list,
                                    !.outcome = applyHalf(s.lists[f], nr, pos, remove).outcome]
           p4 == v4Position(userPos, count, s.numV4)
           p6 == v6Position(userPos, count, s.numV4, numV6)
<1>1. \/ c = s
      \/ c = One("v4", p4)
      \/ c = One("v6", p6)
      \/ c = applyDual(s, nr, userPos, count, numV6, remove)
  <2>1. CASE s.outcome = "error"
    BY <2>1 DEF applyRule
  <2>2. CASE s.outcome # "error" /\ families[nr.key] = {"v4"}
    BY <2>2 DEF applyRule
  <2>3. CASE s.outcome # "error" /\ families[nr.key] # {"v4"} /\ families[nr.key] = {"v6"}
    BY <2>3 DEF applyRule
  <2>4. CASE s.outcome # "error" /\ families[nr.key] # {"v4"} /\ families[nr.key] # {"v6"}
    BY <2>4 DEF applyRule
  <2> QED BY <2>1, <2>2, <2>3, <2>4
<1>2. s.numV4 \in Nat
  BY DEF Runs
<1>3. p4 \in Int /\ p6 \in Int
  BY <1>2, PositionTyping
<1> HIDE DEF p4, p6, c
<1>4. ASSUME c = s PROVE c \in Runs /\ BothKept(s.lists, c.lists, nr.key)
  <2>1. \A f \in Family : s.lists[f] \in Seq(Rule)
    BY DEF Runs
  <2> QED BY <1>4, <2>1, KeptItself DEF BothKept
<1>5. ASSUME NEW f \in Family, NEW pos \in Int, c = One(f, pos)
      PROVE  c \in Runs /\ BothKept(s.lists, c.lists, nr.key)
  BY <1>5, OneHalfKept
<1> HIDE DEF One
<1> QED BY <1>1, <1>3, <1>4, <1>5, DualKept DEF Family, c

(* What a command with a key is to do.                                     *)
ToDo(todo, k, kind) ==
    \A i \in DOMAIN todo : /\ i \in Nat \ {0}
                           /\ todo[i].key = k
                           /\ kind = "delete" \/ todo[i] \in Rule

(* and each of the rules a command stands for.                             *)
LEMMA OneKept ==
    ASSUME NEW todo, NEW k, NEW kind, ToDo(todo, k, kind), NEW num \in Int, NEW numV6 \in Nat,
           NEW s \in Runs, NEW i \in DOMAIN todo
    PROVE  /\ ApplyOne(s, i, todo, kind, num, numV6) \in Runs
           /\ BothKept(s.lists, ApplyOne(s, i, todo, kind, num, numV6).lists, k)
<1>1. PICK remove : remove = (kind = "delete")
  OBVIOUS
<1> DEFINE c == ApplyOne(s, i, todo, kind, num, numV6)
           pos == IF kind = "prepend" THEN -1 ELSE num
           nr == todo[i]
<1>2. \/ c = [s EXCEPT !.outcome = "error"]
      \/ c = applyRule(s, nr, pos, i - 1, numV6, remove)
  BY <1>1, Zenon DEF ApplyOne
<1>3. pos \in Int /\ i - 1 \in Nat /\ nr.key = k
  BY DEF ToDo
<1>4. nr \in Rule \/ remove
  BY <1>1 DEF ToDo
<1> HIDE DEF pos, nr, c
<1>5. ASSUME c = [s EXCEPT !.outcome = "error"] PROVE c \in Runs /\ BothKept(s.lists, c.lists, k)
  <2>1. c.lists = s.lists /\ c \in Runs
    BY <1>5 DEF Runs, Outcomes
  <2>2. \A f \in Family : s.lists[f] \in Seq(Rule)
    BY DEF Runs
  <2> QED BY <2>1, <2>2, KeptItself DEF BothKept
<1>6. ASSUME c = applyRule(s, nr, pos, i - 1, numV6, remove)
      PROVE  c \in Runs /\ BothKept(s.lists, c.lists, k)
  BY <1>3, <1>4, <1>6, RuleKept
<1> QED BY <1>2, <1>5, <1>6 DEF c

(* The fold of runRuleOp.                                                  *)
Applied(start, todo, kind, num, numV6, done) ==
    FoldLeft(LAMBDA s, i : ApplyOne(s, i, todo, kind, num, numV6), start, done)

AppliedRight(l, start, todo, kind, num, numV6) ==
    /\ Applied(start, todo, kind, num, numV6, <<>>) = start
    /\ Applied(start, todo, kind, num, numV6, l) \in Runs
    /\ \A i \in DOMAIN todo : Applied(start, todo, kind, num, numV6, Append(l, i))
                 = ApplyOne(Applied(start, todo, kind, num, numV6, l), i, todo, kind, num, numV6)

(* runRuleOp takes these one after the other.                              *)
LEMMA AppliedFold ==
    ASSUME NEW todo, NEW k, NEW kind, ToDo(todo, k, kind), NEW num \in Int, NEW numV6 \in Nat,
           NEW start \in Runs, NEW l \in Seq(DOMAIN todo)
    PROVE  AppliedRight(l, start, todo, kind, num, numV6)
<1> DEFINE A == Runs
           E == DOMAIN todo
           Op(a, x) == ApplyOne(a, x, todo, kind, num, numV6)
           G == [y \in A \X E |-> Op(y[1], y[2])]
           P == [s \in Seq(E) |-> Applied(start, todo, kind, num, numV6, s)]
<1>1. G \in [A \X E -> A] /\ start \in A
  <2>1. \A a \in A, x \in E : Op(a, x) \in A
    BY OneKept
  <2> HIDE DEF Op, A, E
  <2> QED BY <2>1 DEF A
<1>2. Folds(P, E, A, start, G)
  <2> SUFFICES ASSUME NEW s \in Seq(E)
               PROVE  \E it : /\ P[s] = it[DOMAIN s]
                              /\ it[{}] = start
                              /\ \A t \in SUBSET DOMAIN s :
                                    t # {} /\ it[t \ {Max(t)}] \in A
                                    => it[t] = G[<<it[t \ {Max(t)}], s[Max(t)]>>]
    BY DEF Folds
  <2> DEFINE Rec(it) == it = [t \in SUBSET DOMAIN s |->
                                IF t = {} THEN start ELSE Op(it[t \ {Max(t)}], s[Max(t)])]
  <2>1. Applied(start, todo, kind, num, numV6, s) = (CHOOSE it : Rec(it))[DOMAIN s]
    BY Zenon DEF Applied, FoldLeft, MapThenFoldSet
  <2>2. \A t \in SUBSET DOMAIN s : t # {} => Max(t) \in DOMAIN s /\ s[Max(t)] \in E
    BY MaxOfDomain
  <2>3. PICK g \in [SUBSET DOMAIN s -> A] : Recursion(g, start, G, s)
    <3> HIDE DEF G, A, E
    <3> QED BY <1>1, RecursionExists
  <2>4. Rec(g)
    <3> HIDE DEF Op
    <3> QED BY <2>2, <2>3, Zenon DEF Recursion
  <2> DEFINE it == CHOOSE it : Rec(it)
  <2>5. Rec(it)
    <3> HIDE DEF Rec
    <3> QED BY <2>4
  <2>6. P[s] = it[DOMAIN s]
    BY <2>1
  <2> HIDE DEF it, Op, A, E
  <2>7. it[{}] = start
    BY <2>5
  <2>8. ASSUME NEW t \in SUBSET DOMAIN s, t # {}, it[t \ {Max(t)}] \in A
        PROVE  it[t] = G[<<it[t \ {Max(t)}], s[Max(t)]>>]
    <3>1. it[t] = Op(it[t \ {Max(t)}], s[Max(t)])
      BY <2>5, <2>8
    <3>2. <<it[t \ {Max(t)}], s[Max(t)]>> \in A \X E
      BY <2>2, <2>8
    <3> QED BY <3>1, <3>2
  <2> QED BY <2>6, <2>7, <2>8
<1>3. /\ P[<<>>] = start
      /\ \A s \in Seq(E), x \in E : P[Append(s, x)] = G[<<P[s], x>>]
      /\ \A s \in Seq(E) : P[s] \in A
  <2> HIDE DEF G, P, A, E
  <2> QED BY <1>1, <1>2, ListFold
<1>4. <<>> \in Seq(E) /\ \A x \in E : Append(l, x) \in Seq(E)
  OBVIOUS
<1>5. \A s \in Seq(E) : Applied(start, todo, kind, num, numV6, s) = P[s]
  OBVIOUS
<1>6. \A a \in A, x \in E : G[<<a, x>>] = ApplyOne(a, x, todo, kind, num, numV6)
  OBVIOUS
<1> HIDE DEF P, G, A, E
<1>7. Applied(start, todo, kind, num, numV6, <<>>) = start
  BY <1>3, <1>4, <1>5
<1>8. Applied(start, todo, kind, num, numV6, l) \in A
  BY <1>3, <1>5 DEF E
<1>9. ASSUME NEW x \in E
      PROVE  Applied(start, todo, kind, num, numV6, Append(l, x))
             = ApplyOne(Applied(start, todo, kind, num, numV6, l), x, todo, kind, num, numV6)
  <2>1. P[Append(l, x)] = G[<<P[l], x>>] /\ P[l] \in A
    BY <1>3 DEF E
  <2>2. G[<<P[l], x>>] = ApplyOne(P[l], x, todo, kind, num, numV6)
    BY <1>6, <2>1
  <2>3. Applied(start, todo, kind, num, numV6, l) = P[l] /\ Applied(start, todo, kind, num, numV6, Append(l, x)) = P[Append(l, x)]
    BY <1>4, <1>5 DEF E
  <2> QED BY ONLY <2>1, <2>2, <2>3
<1> QED BY <1>7, <1>8, <1>9 DEF AppliedRight, A, E

(* So the run of any number of them keeps the other rules.                 *)
LEMMA AppliedKept ==
    ASSUME NEW todo, NEW k, NEW kind, ToDo(todo, k, kind), NEW num \in Int, NEW numV6 \in Nat,
           NEW start \in Runs, NEW done \in Seq(DOMAIN todo)
    PROVE  /\ Applied(start, todo, kind, num, numV6, done) \in Runs
           /\ BothKept(start.lists, Applied(start, todo, kind, num, numV6, done).lists, k)
<1> DEFINE D(s) == Applied(start, todo, kind, num, numV6, s)
           E == DOMAIN todo
           P(s) == BothKept(start.lists, D(s).lists, k)
           T == {s \in Seq(E) : P(s)}
<1>1. P(<<>>)
  <2>1. D(<<>>) = start
    BY <<>> \in Seq(E), AppliedFold DEF AppliedRight
  <2>2. \A f \in Family : start.lists[f] \in Seq(Rule)
    BY DEF Runs
  <2> HIDE DEF D
  <2> QED BY <2>1, <2>2, KeptItself DEF BothKept
<1>2. ASSUME NEW s \in Seq(E), NEW i \in E, P(s) PROVE P(Append(s, i))
  <2>1. AppliedRight(s, start, todo, kind, num, numV6)
    BY AppliedFold
  <2>2. D(Append(s, i)) = ApplyOne(D(s), i, todo, kind, num, numV6) /\ D(s) \in Runs
    BY <2>1 DEF AppliedRight
  <2> HIDE DEF D
  <2>3. BothKept(D(s).lists, D(Append(s, i)).lists, k)
    BY <2>2, OneKept
  <2> QED BY <1>2, <2>3, KeptTwice DEF BothKept
<1>3. Seq(E) \subseteq T
  <2>1. <<>> \in T
    BY <1>1
  <2>2. ASSUME NEW s \in Seq(E), NEW i \in E, s \in T PROVE Append(s, i) \in T
    <3>1. Append(s, i) \in Seq(E)
      OBVIOUS
    <3> HIDE DEF P
    <3> QED BY <1>2, <2>2, <3>1
  <2> HIDE DEF T, E
  <2> QED BY <2>1, <2>2, ListInduction
<1>4. D(done) \in Runs
  BY AppliedFold DEF AppliedRight
<1>5. P(done)
  <2> HIDE DEF P
  <2> QED BY <1>3
<1> QED BY <1>4, <1>5

(* What a command stands for are rules of its key.                         *)
LEMMA ExpandedToDo ==
    ASSUME RuleListAssumption, TypeOK, NEW w \in Wanted, NEW kind
    PROVE  /\ ToDo(Expanded(w.key, w.act, kind), w.key, kind)
           /\ DOMAIN Expanded(w.key, w.act, kind) \subseteq Nat \ {0}
           /\ [i \in DOMAIN Expanded(w.key, w.act, kind) |-> i]
              \in Seq(DOMAIN Expanded(w.key, w.act, kind))
<1> DEFINE k == w.key
           n == IF k \in Group /\ kind # "delete" THEN size[profileOf[k]] ELSE 1
           item(i) == IF k \in Plain \/ kind = "delete" THEN 0
                      ELSE IF kind \in {"insert", "prepend"} THEN n + 1 - i ELSE i
           todo == Expanded(w.key, w.act, kind)
<1>1. k \in Plain \cup Group /\ w.act \in Act
  BY DEF RuleListAssumption, Key
<1>2. n \in Nat /\ (k \in Group /\ kind # "delete" => 1 .. n \subseteq Item)
  <2>1. k \in Group => profileOf[k] \in Profile
    BY DEF Profile
  <2>2. size \in [Profile -> ProfileSizes]
    BY DEF TypeOK
  <2> QED BY <2>1, <2>2 DEF RuleListAssumption
<1>3. todo = [i \in 1 .. n |-> [key |-> k, item |-> item(i), act |-> w.act]]
  BY DEF Expanded
<1> HIDE DEF n, todo
<1>4. DOMAIN todo = 1 .. n
  BY <1>3
<1>5. ASSUME NEW i \in 1 .. n
      PROVE  i \in Nat \ {0} /\ todo[i].key = k /\ (kind = "delete" \/ todo[i] \in Rule)
  <2>1. todo[i] = [key |-> k, item |-> item(i), act |-> w.act]
    BY <1>3
  <2>2. ASSUME kind # "delete" PROVE todo[i] \in Rule
    <3>1. CASE k \in Plain
      BY <1>1, <2>1, <3>1 DEF Rule
    <3>2. CASE k \notin Plain
      <4>1. i \in 1 .. n /\ n + 1 - i \in 1 .. n
        BY <1>2
      <4>2. item(i) \in Item
        BY <1>1, <1>2, <2>2, <3>2, <4>1
      <4> QED BY <1>1, <2>1, <3>2, <4>2 DEF Rule
    <3> QED BY <3>1, <3>2
  <2> QED BY <1>2, <2>1, <2>2
<1>6. ToDo(todo, k, kind)
  BY <1>4, <1>5 DEF ToDo
<1>7. [i \in DOMAIN todo |-> i] \in Seq(DOMAIN todo)
  BY <1>2, <1>4
<1> QED BY <1>2, <1>4, <1>6, <1>7 DEF todo

(* runRuleOp keeps every rule but those of its key, in both lists.         *)
LEMMA RunKept ==
    ASSUME RuleListAssumption, TypeOK, NEW w \in Wanted, NEW kind, NEW num \in Int
    PROVE  /\ runRuleOp(w.key, w.act, kind, num) \in Runs
           /\ BothKept(rules, runRuleOp(w.key, w.act, kind, num).lists, w.key)
<1> DEFINE todo == Expanded(w.key, w.act, kind)
           start == [lists |-> rules, numV4 |-> dedupedCount(rules["v4"]), outcome |-> ""]
           numV6 == dedupedCount(rules["v6"])
           done == [i \in DOMAIN todo |-> i]
<1>1. rules \in [Family -> Seq(Rule)] /\ rules["v4"] \in Seq(Rule) /\ rules["v6"] \in Seq(Rule)
  BY DEF TypeOK, Family
<1>2. dedupedCount(rules["v4"]) \in Nat /\ numV6 \in Nat
  BY <1>1, CountTyping
<1>3. start \in Runs
  BY <1>1, <1>2 DEF Runs, Outcomes
<1>4. runRuleOp(w.key, w.act, kind, num) = Applied(start, todo, kind, num, numV6, done)
  BY Zenon DEF runRuleOp, Applied
<1>5. ToDo(todo, w.key, kind) /\ done \in Seq(DOMAIN todo)
  BY ExpandedToDo
<1>6. start.lists = rules
  OBVIOUS
<1> HIDE DEF todo, start, numV6, done
<1>7. /\ Applied(start, todo, kind, num, numV6, done) \in Runs
      /\ BothKept(start.lists, Applied(start, todo, kind, num, numV6, done).lists, w.key)
  BY <1>2, <1>3, <1>5, AppliedKept
<1> QED BY <1>4, <1>6, <1>7

(* ruleByNumber finds the rule of every number that status shows.          *)
LEMMA ShownTyping ==
    ASSUME NEW list \in Seq(Rule), NEW n \in 1 .. dedupedCount(list)
    PROVE  ShownAt(list, n) \in Shown(list) /\ Shown(list) \subseteq DOMAIN list
<1>1. Shown(list) \subseteq 1 .. Len(list) /\ Len(list) \in Nat /\ Shown(list) \subseteq DOMAIN list
  BY DEF Shown
<1> HIDE DEF dedupedCount
<1>2. \E i \in Shown(list) : Cardinality({j \in Shown(list) : j <= i}) = n
  <2> DEFINE S == Shown(list)
             m == Len(list)
  <2>1. S \subseteq 1 .. m /\ m \in Nat /\ n \in 1 .. Cardinality(S)
    BY <1>1 DEF dedupedCount
  <2> HIDE DEF S, m
  <2>2. \E i \in S : Cardinality(UpTo(S, i)) = n
    BY ONLY <2>1, NthMember
  <2> QED BY ONLY <2>2, Zenon DEF S, UpTo
<1> QED BY <1>1, <1>2 DEF ShownAt

(* Leaving a key out changes nothing in the others.                        *)
LEMMA OfKeysTwice ==
    ASSUME NEW k, NEW keys, k \notin keys, NEW list \in Seq(Rule)
    PROVE  OfKeys(OfKeys(list, Key \ {k}), keys) = OfKeys(list, keys)
<1> DEFINE O(s) == OfKeys(s, Key \ {k})
           P(s) == OfKeys(O(s), keys) = OfKeys(s, keys)
           T == {s \in Seq(Rule) : P(s)}
<1>1. P(<<>>)
  <2>1. \A K : OfKeys(<<>>, K) = <<>>
    BY OfKeysFold
  <2> QED BY <2>1
<1>2. ASSUME NEW s \in Seq(Rule), NEW r \in Rule, P(s) PROVE P(Append(s, r))
  <2>1. O(Append(s, r)) = IF r.key \in Key \ {k} THEN Append(O(s), r) ELSE O(s)
    BY OfKeysFold
  <2>2. O(s) \in Seq(Rule)
    BY OfKeysFold
  <2> HIDE DEF O
  <2>3. OfKeys(Append(s, r), keys) = IF r.key \in keys THEN Append(OfKeys(s, keys), r)
                                     ELSE OfKeys(s, keys)
    BY OfKeysFold
  <2>4. OfKeys(Append(O(s), r), keys) = IF r.key \in keys THEN Append(OfKeys(O(s), keys), r)
                                        ELSE OfKeys(O(s), keys)
    BY <2>2, OfKeysFold
  <2>5. r.key \in Key
    BY DEF Rule, Key
  <2>6. CASE r.key = k
    BY ONLY <1>2, <2>1, <2>3, <2>6, k \notin keys
  <2>7. CASE r.key # k
    <3>1. O(Append(s, r)) = Append(O(s), r)
      BY ONLY <2>1, <2>5, <2>7
    <3>2. OfKeys(O(s), keys) = OfKeys(s, keys)
      BY ONLY <1>2
    <3> QED BY ONLY <2>3, <2>4, <3>1, <3>2
  <2> QED BY <2>6, <2>7
<1>3. Seq(Rule) \subseteq T
  <2>1. <<>> \in T
    BY <1>1
  <2>2. ASSUME NEW s \in Seq(Rule), NEW r \in Rule, s \in T PROVE Append(s, r) \in T
    <3>1. Append(s, r) \in Seq(Rule)
      OBVIOUS
    <3> HIDE DEF P
    <3> QED BY <1>2, <2>2, <3>1
  <2> HIDE DEF T
  <2> QED BY <2>1, <2>2, ListInduction
<1>4. P(list)
  <2> HIDE DEF P
  <2> QED BY <1>3
<1> QED BY <1>4

(* Deleting a group by number keeps all but its rules,                     *)
LEMMA OthersOfKey ==
    ASSUME NEW list \in Seq(Rule), NEW k
    PROVE  Kept(list, OfKeys(list, Key \ {k}), k)
<1> DEFINE new == OfKeys(list, Key \ {k})
<1>1. new \in Seq(Rule)
  BY OfKeysFold
<1>2. Slots(new) \subseteq Slots(list) /\ (Distinct(list) => Distinct(new))
  BY DistinctPart
<1>3. ASSUME NEW keys, k \notin keys PROVE OfKeys(new, keys) = OfKeys(list, keys)
  BY <1>3, OfKeysTwice
<1>4. Keys(new) \subseteq Keys(list) \cup {k}
  <2> HIDE DEF new
  <2> SUFFICES ASSUME NEW i \in DOMAIN new PROVE new[i].key \in Keys(list)
    BY DEF Keys
  <2>1. Slot(new[i]) \in Slots(list)
    BY <1>2 DEF Slots
  <2>2. PICK j \in DOMAIN list : Slot(new[i]) = Slot(list[j])
    BY <2>1 DEF Slots
  <2>3. new[i].key = list[j].key
    BY <2>2 DEF Slot
  <2> QED BY <2>3 DEF Keys
<1> QED BY <1>1, <1>2, <1>3, <1>4 DEF Kept

(* and deleting one rule all but that rule.                                *)
LEMMA WithoutOne ==
    ASSUME NEW list \in Seq(Rule), NEW i \in DOMAIN list
    PROVE  Kept(list, SubSeq(list, 1, i - 1) \o SubSeq(list, i + 1, Len(list)), list[i].key)
<1> DEFINE left == SubSeq(list, 1, i - 1)
           right == SubSeq(list, i + 1, Len(list))
           new == left \o right
           k == list[i].key
<1>1. i \in 1 .. Len(list) /\ Len(list) \in Nat /\ list[i] \in Rule
  OBVIOUS
<1>2. /\ left \in Seq(Rule) /\ Len(left) = i - 1
      /\ \A j \in 1 .. i - 1 : left[j] = list[j]
  BY <1>1
<1>3. /\ right \in Seq(Rule) /\ Len(right) = Len(list) - i
      /\ \A j \in 1 .. Len(list) - i : right[j] = list[i + j]
  BY <1>1
<1> HIDE DEF left, right
<1>4. list = Append(left, list[i]) \o right
  <2> DEFINE front == Append(left, list[i])
  <2>1. /\ front \in Seq(Rule) /\ Len(front) = i
        /\ \A j \in 1 .. i : front[j] = list[j]
    BY <1>1, <1>2
  <2> HIDE DEF front
  <2>2. /\ front \o right \in Seq(Rule) /\ Len(front \o right) = Len(front) + Len(right)
        /\ \A j \in 1 .. Len(front) : (front \o right)[j] = front[j]
        /\ \A j \in 1 .. Len(right) : (front \o right)[Len(front) + j] = right[j]
    <3>1. front \in Seq(Rule) /\ right \in Seq(Rule)
      BY ONLY <1>3, <2>1
    <3> QED BY ONLY <3>1, ConcatAt
  <2> DEFINE whole == front \o right
  <2> HIDE DEF whole
  <2>3. ASSUME NEW j \in 1 .. Len(list) PROVE whole[j] = list[j]
    <3>1. CASE j <= i
      <4>1. whole[j] = front[j]
        BY <1>1, <2>1, <2>2, <3>1 DEF whole
      <4> QED BY <1>1, <2>1, <3>1, <4>1
    <3>2. CASE j > i
      <4>1. j - i \in 1 .. Len(list) - i /\ i + (j - i) = j
        BY <1>1, <3>2
      <4>2. whole[i + (j - i)] = right[j - i]
        BY <1>3, <2>1, <2>2, <4>1 DEF whole
      <4>3. right[j - i] = list[i + (j - i)]
        BY <1>3, <4>1
      <4> QED BY ONLY <4>1, <4>2, <4>3
    <3> QED BY <1>1, <3>1, <3>2
  <2>4. whole \in Seq(Rule) /\ Len(whole) = Len(list)
    <3>1. Len(front) = i /\ Len(right) = Len(list) - i /\ i \in Nat /\ Len(list) \in Nat
      BY ONLY <1>1, <1>3, <2>1
    <3>2. whole \in Seq(Rule) /\ Len(whole) = Len(front) + Len(right)
      BY ONLY <2>2 DEF whole
    <3> QED BY ONLY <3>1, <3>2
  <2>5. whole = list
    BY <2>3, <2>4, ListsEqual
  <2> QED BY ONLY <2>5 DEF whole, front
<1>5. new \in Seq(Rule) /\ Append(left, list[i]) \in Seq(Rule)
  BY <1>1, <1>2, <1>3
<1>6. Len(new) = Len(list) - 1
  BY <1>1, <1>2, <1>3
<1>7. \A j \in 1 .. Len(list) - 1 : new[j] = IF j < i THEN list[j] ELSE list[j + 1]
  BY <1>1, <1>2, <1>3
<1>8. ASSUME NEW keys, k \notin keys PROVE OfKeys(new, keys) = OfKeys(list, keys)
  <2>1. OfKeys(new, keys) = OfKeys(left, keys) \o OfKeys(right, keys)
    BY <1>2, <1>3, OfKeysConcat
  <2>2. OfKeys(Append(left, list[i]) \o right, keys)
        = OfKeys(Append(left, list[i]), keys) \o OfKeys(right, keys)
    BY ONLY <1>3, <1>5, OfKeysConcat
  <2>3. OfKeys(Append(left, list[i]), keys) = OfKeys(left, keys)
    BY <1>1, <1>2, <1>8, OfKeysFold
  <2> QED BY ONLY <1>4, <2>1, <2>2, <2>3
<1> HIDE DEF new
<1>9. DOMAIN new = 1 .. Len(list) - 1 /\ DOMAIN list = 1 .. Len(list)
  BY <1>5, <1>6
<1>10. Keys(new) \subseteq Keys(list) \cup {k}
  <2> SUFFICES ASSUME NEW j \in 1 .. Len(list) - 1 PROVE new[j].key \in Keys(list)
    BY <1>9 DEF Keys
  <2>1. \E x \in DOMAIN list : new[j] = list[x]
    BY <1>1, <1>7, <1>9
  <2> QED BY <2>1 DEF Keys
<1>11. ASSUME Distinct(list) PROVE Distinct(new)
  <2> SUFFICES ASSUME NEW a \in 1 .. Len(list) - 1, NEW b \in 1 .. Len(list) - 1,
                      Match(new[a], new[b]) # "none"
               PROVE  a = b
    BY <1>9 DEF Distinct
  <2> DEFINE at(j) == IF j < i THEN j ELSE j + 1
  <2>1. new[a] = list[at(a)] /\ new[b] = list[at(b)]
    BY <1>7
  <2>2. at(a) \in DOMAIN list /\ at(b) \in DOMAIN list
    BY <1>1, <1>9
  <2>3. at(a) = at(b)
    <3> HIDE DEF at
    <3> QED BY <1>11, <2>1, <2>2 DEF Distinct
  <2> QED BY <1>1, <2>3
<1> QED BY <1>5, <1>8, <1>10, <1>11 DEF Kept, new, left, right

(* deleteByNumber keeps all rules but those of one key.                    *)
LEMMA NumberKept ==
    ASSUME RuleListAssumption, TypeOK, NEW num \in Nat, deleteByNumber(num)
    PROVE  \E k : op'.keys = {k} /\ BothKept(rules, rules', k)
<1> DEFINE numV4 == dedupedCount(rules["v4"])
           numV6 == dedupedCount(rules["v6"])
           f == IF num <= numV4 THEN "v4" ELSE "v6"
           n == IF f = "v4" THEN num ELSE num - numV4
           i == ShownAt(rules[f], n)
           k == rules[f][i].key
           new == IF k \in Group THEN OfKeys(rules[f], Key \ {k})
                  ELSE SubSeq(rules[f], 1, i - 1) \o SubSeq(rules[f], i + 1, Len(rules[f]))
<1>1. /\ rules \in [Family -> Seq(Rule)] /\ f \in Family /\ rules[f] \in Seq(Rule)
      /\ rules["v4"] \in Seq(Rule) /\ rules["v6"] \in Seq(Rule)
  BY DEF TypeOK, Family
<1>2. numV4 \in Nat /\ numV6 \in Nat
  BY <1>1, CountTyping
<1>3. num \in 1 .. numV4 + numV6
  BY DEF deleteByNumber
<1>4. n \in 1 .. dedupedCount(rules[f])
  BY <1>2, <1>3
<1>5. op'.keys = {k} /\ rules' = [rules EXCEPT ![f] = new]
  BY Zenon DEF deleteByNumber, Commit
<1> HIDE DEF f, n
<1>6. i \in DOMAIN rules[f]
  BY <1>1, <1>4, ShownTyping
<1> HIDE DEF i
<1>7. Kept(rules[f], new, k)
  BY <1>1, <1>6, OthersOfKey, WithoutOne
<1> HIDE DEF k, new
<1>8. ASSUME NEW g \in Family PROVE Kept(rules[g], rules'[g], k)
  <2>1. CASE g = f
    BY <1>1, <1>5, <1>7, <2>1
  <2>2. CASE g # f
    <3>1. rules'[g] = rules[g] /\ rules[g] \in Seq(Rule)
      BY <1>1, <1>5, <2>2
    <3> QED BY <3>1, KeptItself
  <2> QED BY <2>1, <2>2
<1> QED BY <1>5, <1>8 DEF BothKept

(* mergeRules replaces a rule in its slot or appends it,                   *)
LEMMA MergeKept ==
    ASSUME NEW list \in Seq(Rule), NEW nr \in Rule
    PROVE  Kept(list, MergeRule(list, nr), nr.key)
<1> DEFINE old == {i \in DOMAIN list : Match(nr, list[i]) # "none"}
           new == MergeRule(list, nr)
<1>1. CASE old # {}
  <2> DEFINE m == Min(old)
  <2>1. m \in old /\ DOMAIN list \subseteq Nat
    <3>1. DOMAIN list \subseteq Nat /\ old \in SUBSET DOMAIN list
      OBVIOUS
    <3> HIDE DEF old
    <3>2. old \subseteq Nat
      BY <3>1
    <3> QED BY <1>1, <3>1, <3>2, Least
  <2>2. new = [list EXCEPT ![m] = nr]
    BY <1>1, Zenon DEF MergeRule
  <2>3. m \in DOMAIN list /\ Slot(nr) = Slot(list[m])
    BY <2>1, MatchSlot
  <2> HIDE DEF m, new, old
  <2>4. /\ new \in Seq(Rule) /\ Len(new) = Len(list) /\ DOMAIN new = DOMAIN list
        /\ new[m] = nr /\ \A i \in DOMAIN list : i # m => new[i] = list[i]
    BY <2>2, <2>3
  <2>5. \A i \in DOMAIN list : Slot(new[i]) = Slot(list[i])
    BY <2>3, <2>4
  <2>6. Distinct(list) => Distinct(new)
    BY <2>4, <2>5, MatchSlot DEF Distinct
  <2>7. nr.key = list[m].key
    BY <2>3 DEF Slot
  <2>8. ASSUME NEW keys, nr.key \notin keys PROVE OfKeys(new, keys) = OfKeys(list, keys)
    <3>1. \A i \in DOMAIN new : new[i] = list[i] \/ (new[i].key \notin keys /\ list[i].key \notin keys)
      BY <2>4, <2>7, <2>8
    <3> QED BY <2>4, <3>1, OfKeysSame
  <2>9. Keys(new) \subseteq Keys(list) \cup {nr.key}
    BY <2>4 DEF Keys
  <2> QED BY <2>4, <2>6, <2>8, <2>9 DEF Kept, new
<1>2. CASE old = {}
  <2>1. new = Append(list, nr)
    BY <1>2, Zenon DEF MergeRule
  <2>2. \A i \in DOMAIN list : Match(nr, list[i]) = "none"
    BY <1>2
  <2>3. Slot(nr) \notin Slots(list)
    BY <2>2, MatchSlot DEF Slots
  <2> HIDE DEF new, old
  <2>4. Distinct(list) => Distinct(new)
    BY <2>1, <2>3, DistinctAppend
  <2>5. Slots(new) = Slots(list) \cup {Slot(nr)}
    BY <2>1, SlotsAppend
  <2>6. Keys(new) \subseteq Keys(list) \cup {nr.key}
    BY <2>5, SlotKeys
  <2>7. ASSUME NEW keys, nr.key \notin keys PROVE OfKeys(new, keys) = OfKeys(list, keys)
    BY <2>1, <2>7, OfKeysFold
  <2> QED BY <2>1, <2>4, <2>6, <2>7 DEF Kept, new
<1> QED BY <1>1, <1>2

(* The same of several keys.                                               *)
KeptApart(list, new, K) ==
    /\ new \in Seq(Rule)
    /\ Distinct(list) => Distinct(new)
    /\ \A keys : keys \cap K = {} => OfKeys(new, keys) = OfKeys(list, keys)

Lists == Seq(Rule)

MergedRight(l, dst) ==
    /\ mergeRules(dst, <<>>) = dst
    /\ mergeRules(dst, l) \in Lists
    /\ \A r \in Rule : mergeRules(dst, Append(l, r))
                 = MergeRule(mergeRules(dst, l), r)

(* rule by rule of the imported list,                                      *)
LEMMA MergedFold ==
    ASSUME NEW dst \in Lists, NEW l \in Seq(Rule)
    PROVE  MergedRight(l, dst)
<1> DEFINE A == Lists
           E == Rule
           start == dst
           Op(a, x) == MergeRule(a, x)
           G == [y \in A \X E |-> Op(y[1], y[2])]
           P == [s \in Seq(E) |-> mergeRules(dst, s)]
<1>1. G \in [A \X E -> A] /\ start \in A
  <2>1. \A a \in A, x \in E : Op(a, x) \in A
    BY MergeKept DEF Lists, Kept
  <2> HIDE DEF Op, A, E
  <2> QED BY <2>1 DEF A
<1>2. Folds(P, E, A, start, G)
  <2> SUFFICES ASSUME NEW s \in Seq(E)
               PROVE  \E it : /\ P[s] = it[DOMAIN s]
                              /\ it[{}] = start
                              /\ \A t \in SUBSET DOMAIN s :
                                    t # {} /\ it[t \ {Max(t)}] \in A
                                    => it[t] = G[<<it[t \ {Max(t)}], s[Max(t)]>>]
    BY DEF Folds
  <2> DEFINE Rec(it) == it = [t \in SUBSET DOMAIN s |->
                                IF t = {} THEN start ELSE Op(it[t \ {Max(t)}], s[Max(t)])]
  <2>1. mergeRules(dst, s) = (CHOOSE it : Rec(it))[DOMAIN s]
    BY Zenon DEF mergeRules, FoldLeft, MapThenFoldSet
  <2> HIDE DEF start
  <2>2. \A t \in SUBSET DOMAIN s : t # {} => Max(t) \in DOMAIN s /\ s[Max(t)] \in E
    BY MaxOfDomain
  <2>3. PICK g \in [SUBSET DOMAIN s -> A] : Recursion(g, start, G, s)
    <3> HIDE DEF G, A, E
    <3> QED BY <1>1, RecursionExists
  <2>4. Rec(g)
    <3> HIDE DEF Op
    <3> QED BY <2>2, <2>3, Zenon DEF Recursion
  <2> DEFINE it == CHOOSE it : Rec(it)
  <2>5. Rec(it)
    <3> HIDE DEF Rec
    <3> QED BY <2>4
  <2>6. P[s] = it[DOMAIN s]
    BY <2>1
  <2> HIDE DEF it, Op, A, E
  <2>7. it[{}] = start
    BY <2>5
  <2>8. ASSUME NEW t \in SUBSET DOMAIN s, t # {}, it[t \ {Max(t)}] \in A
        PROVE  it[t] = G[<<it[t \ {Max(t)}], s[Max(t)]>>]
    <3>1. it[t] = Op(it[t \ {Max(t)}], s[Max(t)])
      BY <2>5, <2>8
    <3>2. <<it[t \ {Max(t)}], s[Max(t)]>> \in A \X E
      BY <2>2, <2>8
    <3> QED BY <3>1, <3>2
  <2> QED BY <2>6, <2>7, <2>8
<1>3. /\ P[<<>>] = start
      /\ \A s \in Seq(E), x \in E : P[Append(s, x)] = G[<<P[s], x>>]
      /\ \A s \in Seq(E) : P[s] \in A
  <2> HIDE DEF G, P, A, E, start
  <2> QED BY <1>1, <1>2, ListFold
<1>4. <<>> \in Seq(E) /\ \A x \in E : Append(l, x) \in Seq(E)
  OBVIOUS
<1>5. \A s \in Seq(E) : mergeRules(dst, s) = P[s]
  OBVIOUS
<1>6. \A a \in A, x \in E : G[<<a, x>>] = MergeRule(a, x)
  OBVIOUS
<1> HIDE DEF P, G, A, E
<1>7. mergeRules(dst, <<>>) = start
  BY <1>3, <1>4, <1>5
<1>8. mergeRules(dst, l) \in A
  BY <1>3, <1>5 DEF E
<1>9. ASSUME NEW x \in E
      PROVE  mergeRules(dst, Append(l, x))
             = MergeRule(mergeRules(dst, l), x)
  <2>1. P[Append(l, x)] = G[<<P[l], x>>] /\ P[l] \in A
    BY <1>3 DEF E
  <2>2. G[<<P[l], x>>] = MergeRule(P[l], x)
    BY <1>6, <2>1
  <2>3. mergeRules(dst, l) = P[l] /\ mergeRules(dst, Append(l, x)) = P[Append(l, x)]
    BY <1>4, <1>5 DEF E
  <2> QED BY ONLY <2>1, <2>2, <2>3
<1> QED BY <1>7, <1>8, <1>9 DEF MergedRight, A, E

(* so that it keeps the rules whose keys are not in that list.             *)
LEMMA MergedKept ==
    ASSUME NEW dst \in Seq(Rule), NEW src \in Seq(Rule)
    PROVE  KeptApart(dst, mergeRules(dst, src), Keys(src))
<1> DEFINE D(s) == mergeRules(dst, s)
           P(s) == KeptApart(dst, D(s), Keys(s))
           T == {s \in Seq(Rule) : P(s)}
<1>0. ASSUME NEW s \in Seq(Rule) PROVE MergedRight(s, dst)
  BY MergedFold DEF Lists
<1>1. P(<<>>)
  <2>1. D(<<>>) = dst
    BY <<>> \in Seq(Rule), <1>0 DEF MergedRight
  <2> HIDE DEF D
  <2> QED BY <2>1 DEF KeptApart
<1>2. ASSUME NEW s \in Seq(Rule), NEW r \in Rule, P(s) PROVE P(Append(s, r))
  <2>1. D(Append(s, r)) = MergeRule(D(s), r) /\ D(s) \in Seq(Rule)
    BY <1>0 DEF MergedRight, Lists
  <2>2. Keys(Append(s, r)) = Keys(s) \cup {r.key}
    <3>1. /\ DOMAIN Append(s, r) = DOMAIN s \cup {Len(s) + 1}
          /\ \A i \in DOMAIN s : Append(s, r)[i] = s[i]
          /\ Append(s, r)[Len(s) + 1] = r
      BY AppendDomain
    <3>2. \A k : k \in Keys(Append(s, r)) <=> k \in Keys(s) \cup {r.key}
      BY <3>1 DEF Keys
    <3> QED BY <3>2
  <2> HIDE DEF D
  <2>3. Kept(D(s), D(Append(s, r)), r.key)
    BY <2>1, MergeKept
  <2>4. ASSUME NEW keys, keys \cap Keys(Append(s, r)) = {}
        PROVE  OfKeys(D(Append(s, r)), keys) = OfKeys(dst, keys)
    <3>1. keys \cap Keys(s) = {} /\ r.key \notin keys
      BY <2>2, <2>4
    <3>2. OfKeys(D(s), keys) = OfKeys(dst, keys)
      BY <1>2, <3>1 DEF KeptApart
    <3>3. OfKeys(D(Append(s, r)), keys) = OfKeys(D(s), keys)
      BY <2>3, <3>1 DEF Kept
    <3> QED BY <3>2, <3>3
  <2>5. D(Append(s, r)) \in Seq(Rule) /\ (Distinct(dst) => Distinct(D(Append(s, r))))
    BY <1>2, <2>3 DEF Kept, KeptApart
  <2> QED BY <2>4, <2>5 DEF KeptApart
<1>3. Seq(Rule) \subseteq T
  <2>1. <<>> \in T
    BY <1>1
  <2>2. ASSUME NEW s \in Seq(Rule), NEW r \in Rule, s \in T PROVE Append(s, r) \in T
    <3>1. Append(s, r) \in Seq(Rule)
      OBVIOUS
    <3> HIDE DEF P
    <3> QED BY <1>2, <2>2, <3>1
  <2> HIDE DEF T
  <2> QED BY <2>1, <2>2, ListInduction
<1>4. P(src)
  <2> HIDE DEF P
  <2> QED BY <1>3
<1> QED BY <1>4

(* An import keeps all rules whose keys it does not bring.                 *)
LEMMA ImportKept ==
    ASSUME RuleListAssumption, TypeOK, NEW doc \in Documents, Import(doc)
    PROVE  \A f \in Family : KeptApart(rules[f], rules'[f], op'.keys)
<1>1. rules \in [Family -> Seq(Rule)] /\ doc \in [Family -> Seq(Rule)]
  BY DEF TypeOK, RuleListAssumption
<1>2. /\ rules' = [f \in Family |-> mergeRules(rules[f], doc[f])]
      /\ op'.keys = {doc["v4"][i].key : i \in DOMAIN doc["v4"]}
                    \cup {doc["v6"][i].key : i \in DOMAIN doc["v6"]}
  BY Zenon DEF Import, Commit
<1>3. op'.keys = Keys(doc["v4"]) \cup Keys(doc["v6"])
  BY <1>2, Zenon DEF Keys
<1> SUFFICES ASSUME NEW f \in Family PROVE KeptApart(rules[f], rules'[f], op'.keys)
  OBVIOUS
<1>4. KeptApart(rules[f], mergeRules(rules[f], doc[f]), Keys(doc[f]))
  BY <1>1, MergedKept
<1>5. Keys(doc[f]) \subseteq op'.keys
  BY <1>3 DEF Family
<1>6. rules'[f] = mergeRules(rules[f], doc[f])
  BY <1>2
<1>7. \A keys : keys \cap op'.keys = {} => keys \cap Keys(doc[f]) = {}
  BY <1>5
<1> QED BY <1>4, <1>6, <1>7 DEF KeptApart

(* The groups of a profile, and the fold of updateAppRule.                 *)
GroupsOf(profile) == {g \in Group : profileOf[g] = profile}
Updates == [new : Seq(Rule), last : Key \cup {NoApp}]
NothingYet == [new |-> <<>>, last |-> NoApp]
Updated(list, profile, n) ==
    FoldLeft(LAMBDA a, r : UpdateRule(a, r, profile, n), NothingYet, list)

(* The rules of a profile are those with one of its groups.                *)
LEMMA AppOf ==
    ASSUME RuleListAssumption, NEW profile \in Profile, NEW r \in Rule
    PROVE  App(r) = profile <=> r.key \in GroupsOf(profile)
BY DEF RuleListAssumption, App, IsApp, GroupsOf

(* A group made again is a list of rules,                                  *)
LEMMA RegeneratedTyping ==
    ASSUME NEW r \in Rule, r.key \in Group, NEW n \in Nat, 1 .. n \subseteq Item
    PROVE  /\ Regenerated(r, n) \in Seq(Rule)
           /\ Len(Regenerated(r, n)) = n
           /\ \A i \in 1 .. n : Regenerated(r, n)[i] = [key |-> r.key, item |-> i, act |-> r.act]
<1>1. r.act \in Act
  BY DEF Rule
<1>2. ASSUME NEW i \in 1 .. n PROVE [key |-> r.key, item |-> i, act |-> r.act] \in Rule
  <2>1. i \in Item
    OBVIOUS
  <2> QED BY <1>1, <2>1 DEF Rule
<1> QED BY <1>2 DEF Regenerated

(* and updateAppRule's loop keeps to its states.                           *)
LEMMA UpdateTyping ==
    ASSUME RuleListAssumption, NEW a \in Updates, NEW r \in Rule, NEW profile \in Profile,
           NEW n \in Nat, 1 .. n \subseteq Item
    PROVE  UpdateRule(a, r, profile, n) \in Updates
<1>0. a.new \in Seq(Rule) /\ a.last \in Key \cup {NoApp} /\ r.key \in Key
  BY DEF Updates, Rule, Key
<1>1. CASE App(r) # profile
  <2>1. UpdateRule(a, r, profile, n) = [new |-> Append(a.new, r), last |-> a.last]
    BY <1>1 DEF UpdateRule, Updates
  <2>2. Append(a.new, r) \in Seq(Rule)
    BY <1>0
  <2> QED BY <1>0, <2>1, <2>2 DEF Updates
<1>2. CASE App(r) = profile /\ r.key = a.last
  BY <1>2 DEF UpdateRule
<1>3. CASE App(r) = profile /\ r.key # a.last
  <2>1. UpdateRule(a, r, profile, n) = [new |-> a.new \o Regenerated(r, n), last |-> r.key]
    BY <1>3 DEF UpdateRule
  <2>2. r.key \in Group
    BY <1>3, AppOf DEF GroupsOf
  <2>3. Regenerated(r, n) \in Seq(Rule)
    BY <2>2, RegeneratedTyping
  <2>4. a.new \o Regenerated(r, n) \in Seq(Rule)
    BY <1>0, <2>3
  <2> QED BY <1>0, <2>1, <2>4 DEF Updates
<1> QED BY <1>1, <1>2, <1>3

UpdatedRight(l, profile, n) ==
    /\ Updated(<<>>, profile, n) = NothingYet
    /\ Updated(l, profile, n) \in Updates
    /\ \A r \in Rule : Updated(Append(l, r), profile, n)
                 = UpdateRule(Updated(l, profile, n), r, profile, n)

(* updateAppRule goes through the list with UpdateRule.                    *)
LEMMA UpdatedFold ==
    ASSUME RuleListAssumption, NEW profile \in Profile, NEW n \in Nat, 1 .. n \subseteq Item, NEW l \in Seq(Rule)
    PROVE  UpdatedRight(l, profile, n)
<1> DEFINE A == Updates
           E == Rule
           start == NothingYet
           Op(a, x) == UpdateRule(a, x, profile, n)
           G == [y \in A \X E |-> Op(y[1], y[2])]
           P == [s \in Seq(E) |-> Updated(s, profile, n)]
<1>1. G \in [A \X E -> A] /\ start \in A
  <2>1. \A a \in A, x \in E : Op(a, x) \in A
    BY UpdateTyping
  <2>2. start \in A
    BY DEF NothingYet, Updates
  <2> HIDE DEF Op, A, E
  <2> QED BY <2>1, <2>2
<1>2. Folds(P, E, A, start, G)
  <2> SUFFICES ASSUME NEW s \in Seq(E)
               PROVE  \E it : /\ P[s] = it[DOMAIN s]
                              /\ it[{}] = start
                              /\ \A t \in SUBSET DOMAIN s :
                                    t # {} /\ it[t \ {Max(t)}] \in A
                                    => it[t] = G[<<it[t \ {Max(t)}], s[Max(t)]>>]
    BY DEF Folds
  <2> DEFINE Rec(it) == it = [t \in SUBSET DOMAIN s |->
                                IF t = {} THEN start ELSE Op(it[t \ {Max(t)}], s[Max(t)])]
  <2>1. Updated(s, profile, n) = (CHOOSE it : Rec(it))[DOMAIN s]
    BY Zenon DEF Updated, FoldLeft, MapThenFoldSet
  <2> HIDE DEF start
  <2>2. \A t \in SUBSET DOMAIN s : t # {} => Max(t) \in DOMAIN s /\ s[Max(t)] \in E
    BY MaxOfDomain
  <2>3. PICK g \in [SUBSET DOMAIN s -> A] : Recursion(g, start, G, s)
    <3> HIDE DEF G, A, E
    <3> QED BY <1>1, RecursionExists
  <2>4. Rec(g)
    <3> HIDE DEF Op
    <3> QED BY <2>2, <2>3, Zenon DEF Recursion
  <2> DEFINE it == CHOOSE it : Rec(it)
  <2>5. Rec(it)
    <3> HIDE DEF Rec
    <3> QED BY <2>4
  <2>6. P[s] = it[DOMAIN s]
    BY <2>1
  <2> HIDE DEF it, Op, A, E
  <2>7. it[{}] = start
    BY <2>5
  <2>8. ASSUME NEW t \in SUBSET DOMAIN s, t # {}, it[t \ {Max(t)}] \in A
        PROVE  it[t] = G[<<it[t \ {Max(t)}], s[Max(t)]>>]
    <3>1. it[t] = Op(it[t \ {Max(t)}], s[Max(t)])
      BY <2>5, <2>8
    <3>2. <<it[t \ {Max(t)}], s[Max(t)]>> \in A \X E
      BY <2>2, <2>8
    <3> QED BY <3>1, <3>2
  <2> QED BY <2>6, <2>7, <2>8
<1>3. /\ P[<<>>] = start
      /\ \A s \in Seq(E), x \in E : P[Append(s, x)] = G[<<P[s], x>>]
      /\ \A s \in Seq(E) : P[s] \in A
  <2> HIDE DEF G, P, A, E, start
  <2> QED BY <1>1, <1>2, ListFold
<1>4. <<>> \in Seq(E) /\ \A x \in E : Append(l, x) \in Seq(E)
  OBVIOUS
<1>5. \A s \in Seq(E) : Updated(s, profile, n) = P[s]
  OBVIOUS
<1>6. \A a \in A, x \in E : G[<<a, x>>] = UpdateRule(a, x, profile, n)
  OBVIOUS
<1> HIDE DEF P, G, A, E
<1>7. Updated(<<>>, profile, n) = start
  BY <1>3, <1>4, <1>5
<1>8. Updated(l, profile, n) \in A
  BY <1>3, <1>5 DEF E
<1>9. ASSUME NEW x \in E
      PROVE  Updated(Append(l, x), profile, n)
             = UpdateRule(Updated(l, profile, n), x, profile, n)
  <2>1. P[Append(l, x)] = G[<<P[l], x>>] /\ P[l] \in A
    BY <1>3 DEF E
  <2>2. G[<<P[l], x>>] = UpdateRule(P[l], x, profile, n)
    BY <1>6, <2>1
  <2>3. Updated(l, profile, n) = P[l] /\ Updated(Append(l, x), profile, n) = P[Append(l, x)]
    BY <1>4, <1>5 DEF E
  <2> QED BY ONLY <2>1, <2>2, <2>3
<1> QED BY <1>7, <1>8, <1>9 DEF UpdatedRight, A, E

(* The slots of two lists put together, and when none is double.           *)
LEMMA ConcatSlots ==
    ASSUME NEW s \in Seq(Rule), NEW t \in Seq(Rule)
    PROVE  /\ Slots(s \o t) = Slots(s) \cup Slots(t)
           /\ Distinct(s) /\ Distinct(t) /\ Slots(s) \cap Slots(t) = {} => Distinct(s \o t)
<1> DEFINE P(u) == /\ Slots(s \o u) = Slots(s) \cup Slots(u)
                   /\ Distinct(s) /\ Distinct(u) /\ Slots(s) \cap Slots(u) = {}
                      => Distinct(s \o u)
           T == {u \in Seq(Rule) : P(u)}
<1>1. P(<<>>)
  <2>1. s \o <<>> = s /\ Slots(<<>>) = {}
    BY DEF Slots
  <2> QED BY <2>1
<1>2. ASSUME NEW u \in Seq(Rule), NEW r \in Rule, P(u) PROVE P(Append(u, r))
  <2>1. s \o Append(u, r) = Append(s \o u, r) /\ s \o u \in Seq(Rule)
    OBVIOUS
  <2>2. /\ Slots(Append(s \o u, r)) = Slots(s \o u) \cup {Slot(r)}
        /\ Distinct(Append(s \o u, r)) <=> Distinct(s \o u) /\ Slot(r) \notin Slots(s \o u)
    BY <2>1, SlotsAppend, DistinctAppend
  <2>3. /\ Slots(Append(u, r)) = Slots(u) \cup {Slot(r)}
        /\ Distinct(Append(u, r)) <=> Distinct(u) /\ Slot(r) \notin Slots(u)
    BY SlotsAppend, DistinctAppend
  <2>4. Slots(s \o u) = Slots(s) \cup Slots(u)
    BY <1>2
  <2>5. Slots(s \o Append(u, r)) = Slots(s) \cup Slots(Append(u, r))
    BY <2>1, <2>2, <2>3, <2>4
  <2>6. ASSUME Distinct(s), Distinct(Append(u, r)), Slots(s) \cap Slots(Append(u, r)) = {}
        PROVE  Distinct(Append(s \o u, r))
    <3>1. Distinct(u) /\ Slot(r) \notin Slots(u) /\ Slots(s) \cap Slots(u) = {} /\ Slot(r) \notin Slots(s)
      BY <2>3, <2>6
    <3>2. Distinct(s \o u)
      BY <1>2, <2>6, <3>1
    <3> QED BY <2>2, <2>4, <3>1, <3>2
  <2> QED BY <2>1, <2>5, <2>6
<1>3. Seq(Rule) \subseteq T
  <2>1. <<>> \in T
    BY <1>1
  <2>2. ASSUME NEW u \in Seq(Rule), NEW r \in Rule, u \in T PROVE Append(u, r) \in T
    <3>1. Append(u, r) \in Seq(Rule)
      OBVIOUS
    <3> HIDE DEF P
    <3> QED BY <1>2, <2>2, <3>1
  <2> HIDE DEF T
  <2> QED BY <2>1, <2>2, ListInduction
<1>4. P(t)
  <2> HIDE DEF P
  <2> QED BY <1>3
<1> QED BY <1>4

(* A group made again has one rule for each item.                          *)
LEMMA RegeneratedSlots ==
    ASSUME NEW r \in Rule, r.key \in Group, NEW n \in Nat, 1 .. n \subseteq Item
    PROVE  /\ Distinct(Regenerated(r, n))
           /\ Slots(Regenerated(r, n)) = {<<r.key, i>> : i \in 1 .. n}
           /\ \A keys : r.key \notin keys => OfKeys(Regenerated(r, n), keys) = <<>>
<1> DEFINE g == Regenerated(r, n)
<1>1. g \in Seq(Rule) /\ DOMAIN g = 1 .. n
      /\ \A i \in 1 .. n : g[i].key = r.key /\ g[i].item = i
  <2>1. g \in Seq(Rule) /\ Len(g) = n
        /\ \A i \in 1 .. n : g[i] = [key |-> r.key, item |-> i, act |-> r.act]
    BY RegeneratedTyping
  <2> HIDE DEF g
  <2> QED BY <2>1
<1> HIDE DEF g
<1>2. \A i \in 1 .. n : Slot(g[i]) = <<r.key, i>>
  BY <1>1 DEF Slot
<1>3. Slots(g) = {<<r.key, i>> : i \in 1 .. n}
  BY <1>1, <1>2 DEF Slots
<1>4. Distinct(g)
  BY <1>1, <1>2, MatchSlot DEF Distinct
<1>5. ASSUME NEW keys, r.key \notin keys PROVE OfKeys(g, keys) = <<>>
  BY <1>1, <1>5, OfKeysNone
<1> QED BY <1>3, <1>4, <1>5 DEF g

(* What updateAppRule's loop has built after the rules s.                  *)
UpdateGood(s, a, profile) ==
    /\ Distinct(a.new)
    /\ \A z \in Slots(a.new) : z \in Slots(s) \/ z[1] \in Keys(s) \cap GroupsOf(profile)
    /\ s # <<>> /\ s[Len(s)].key \in GroupsOf(profile) => a.last = s[Len(s)].key

(* As long as the groups are whole, the list that updateAppRule builds has *)
(* no doubles: a group it meets again is the one it met last.              *)
LEMMA UpdateStep ==
    ASSUME RuleListAssumption, NEW profile \in Profile, NEW n \in Nat, 1 .. n \subseteq Item,
           NEW s \in Seq(Rule), NEW r \in Rule, NEW a \in Updates, UpdateGood(s, a, profile),
           Distinct(Append(s, r)), Whole(Append(s, r))
    PROVE  UpdateGood(Append(s, r), UpdateRule(a, r, profile, n), profile)
<1> DEFINE t == Append(s, r)
           b == UpdateRule(a, r, profile, n)
<1>1. /\ t \in Seq(Rule) /\ t # <<>> /\ Len(t) = Len(s) + 1 /\ t[Len(t)] = r
      /\ DOMAIN t = 1 .. Len(s) + 1 /\ \A i \in DOMAIN s : t[i] = s[i]
      /\ DOMAIN s = 1 .. Len(s) /\ Len(s) \in Nat
  OBVIOUS
<1>2. /\ Slots(t) = Slots(s) \cup {Slot(r)} /\ Slot(r) \notin Slots(s)
      /\ Keys(t) = Keys(s) \cup {r.key}
  BY SlotsAppend, DistinctAppend, KeysOfSlots
<1>3. App(r) = profile <=> r.key \in GroupsOf(profile)
  BY AppOf
<1>4. a.new \in Seq(Rule)
  BY DEF Updates
<1>5. Slot(r)[1] = r.key
  BY DEF Slot
<1>6. CASE App(r) # profile
  <2>1. b.new = Append(a.new, r)
    BY <1>6 DEF UpdateRule, Updates
  <2>2. Slots(b.new) = Slots(a.new) \cup {Slot(r)}
    BY <1>4, <2>1, SlotsAppend
  <2>3. Slot(r) \notin Slots(a.new)
    BY <1>2, <1>3, <1>5, <1>6 DEF UpdateGood
  <2>4. Distinct(b.new)
    BY <1>4, <2>1, <2>3, DistinctAppend DEF UpdateGood
  <2> HIDE DEF t, b
  <2> QED BY <1>1, <1>2, <1>3, <1>6, <2>2, <2>4 DEF UpdateGood, t, b
<1>7. CASE App(r) = profile /\ r.key = a.last
  <2>1. b = a
    BY <1>7 DEF UpdateRule
  <2> HIDE DEF t, b
  <2> QED BY <1>1, <1>2, <1>7, <2>1 DEF UpdateGood, t, b
<1>8. CASE App(r) = profile /\ r.key # a.last
  <2>1. b.new = a.new \o Regenerated(r, n) /\ b.last = r.key
    BY <1>8 DEF UpdateRule
  <2>2. r.key \in Group /\ r.key \in GroupsOf(profile)
    BY <1>3, <1>8 DEF GroupsOf
  <2>3. /\ Regenerated(r, n) \in Seq(Rule) /\ Distinct(Regenerated(r, n))
        /\ Slots(Regenerated(r, n)) = {<<r.key, i>> : i \in 1 .. n}
    BY <2>2, RegeneratedTyping, RegeneratedSlots
  <2>4. r.key \notin Keys(s)
    <3> SUFFICES ASSUME NEW j \in DOMAIN s, s[j].key = r.key PROVE FALSE
      BY DEF Keys
    <3>1. /\ j \in DOMAIN t /\ Len(s) + 1 \in DOMAIN t /\ j < Len(s) + 1
          /\ Len(s) \in j .. Len(s) + 1 /\ Len(s) \in DOMAIN s
      BY <1>1
    <3>2. t[j].key = r.key /\ t[Len(s) + 1] = r /\ IsApp(t[j])
      BY <1>1, <2>2 DEF IsApp
    <3>3. \A m \in j .. Len(s) + 1 : t[m].key = r.key
      <4> HIDE DEF t
      <4> QED BY <3>1, <3>2 DEF Whole, t
    <3>4. s[Len(s)].key = r.key
      <4> HIDE DEF t
      <4> QED BY <1>1, <3>1, <3>3
    <3>5. s # <<>>
      BY <3>1
    <3> QED BY <1>8, <2>2, <3>4, <3>5 DEF UpdateGood
  <2>5. Slots(a.new) \cap Slots(Regenerated(r, n)) = {}
    <3>1. \A z \in Slots(a.new) : z[1] \in Keys(s)
      BY KeysOfSlots DEF UpdateGood
    <3> QED BY <2>3, <2>4, <3>1
  <2>6. Slots(b.new) = Slots(a.new) \cup Slots(Regenerated(r, n)) /\ Distinct(b.new)
    BY <1>4, <2>1, <2>3, <2>5, ConcatSlots DEF UpdateGood
  <2>7. \A z \in Slots(Regenerated(r, n)) : z[1] = r.key
    BY <2>3
  <2>8. \A z \in Slots(a.new) : z \in Slots(s) \/ z[1] \in Keys(s) \cap GroupsOf(profile)
    BY DEF UpdateGood
  <2>9. \A z \in Slots(b.new) : z \in Slots(t) \/ z[1] \in Keys(t) \cap GroupsOf(profile)
    BY ONLY <1>2, <2>2, <2>6, <2>7, <2>8
  <2>10. b.last = t[Len(t)].key
    BY ONLY <1>1, <2>1
  <2> HIDE DEF t, b
  <2>11. UpdateGood(t, b, profile)
    BY ONLY <2>6, <2>9, <2>10 DEF UpdateGood
  <2> QED BY ONLY <2>11 DEF t, b
<1> QED BY <1>6, <1>7, <1>8

(* updateAppRule keeps the rules of other profiles.                        *)
LEMMA UpdatedKept ==
    ASSUME RuleListAssumption, NEW profile \in Profile, NEW n \in Nat, 1 .. n \subseteq Item,
           NEW list \in Seq(Rule)
    PROVE  /\ updateAppRule(list, profile, n) \in Seq(Rule)
           /\ \A keys : keys \cap GroupsOf(profile) = {}
                        => OfKeys(updateAppRule(list, profile, n), keys) = OfKeys(list, keys)
<1> DEFINE D(s) == Updated(s, profile, n)
           P(s) == \A keys : keys \cap GroupsOf(profile) = {}
                             => OfKeys(D(s).new, keys) = OfKeys(s, keys)
           T == {s \in Seq(Rule) : P(s)}
<1>0. ASSUME NEW s \in Seq(Rule) PROVE UpdatedRight(s, profile, n)
  BY UpdatedFold
<1>1. P(<<>>)
  <2>1. D(<<>>) = NothingYet
    BY <<>> \in Seq(Rule), <1>0 DEF UpdatedRight
  <2>2. D(<<>>).new = <<>>
    BY <2>1 DEF NothingYet
  <2> QED BY <2>2
<1>2. ASSUME NEW s \in Seq(Rule), NEW r \in Rule, P(s) PROVE P(Append(s, r))
  <2>1. D(Append(s, r)) = UpdateRule(D(s), r, profile, n) /\ D(s) \in Updates
    BY <1>0 DEF UpdatedRight
  <2>2. App(r) = profile <=> r.key \in GroupsOf(profile)
    BY AppOf
  <2> SUFFICES ASSUME NEW keys, keys \cap GroupsOf(profile) = {}
               PROVE  OfKeys(D(Append(s, r)).new, keys) = OfKeys(Append(s, r), keys)
    OBVIOUS
  <2>3. OfKeys(D(s).new, keys) = OfKeys(s, keys)
    BY <1>2
  <2> HIDE DEF D
  <2> DEFINE a == D(s)
             b == D(Append(s, r))
  <2>4. a \in Updates /\ b = UpdateRule(a, r, profile, n) /\ a.new \in Seq(Rule)
    BY <2>1 DEF Updates
  <2>5. OfKeys(Append(s, r), keys) = IF r.key \in keys THEN Append(OfKeys(s, keys), r)
                                     ELSE OfKeys(s, keys)
    BY OfKeysFold
  <2> HIDE DEF a, b
  <2>6. CASE App(r) # profile
    <3>1. b.new = Append(a.new, r)
      BY <2>4, <2>6 DEF UpdateRule, Updates
    <3>2. OfKeys(b.new, keys) = IF r.key \in keys THEN Append(OfKeys(a.new, keys), r)
                                ELSE OfKeys(a.new, keys)
      <4>1. a.new \in Seq(Rule)
        BY ONLY <2>4
      <4>2. OfKeys(Append(a.new, r), keys) = IF r.key \in keys THEN Append(OfKeys(a.new, keys), r)
                                             ELSE OfKeys(a.new, keys)
        BY <4>1, OfKeysFold
      <4> QED BY ONLY <3>1, <4>2
    <3> QED BY <2>3, <2>5, <3>2 DEF a, b
  <2>7. CASE App(r) = profile /\ r.key = a.last
    <3>1. b = a /\ r.key \notin keys
      BY <2>2, <2>4, <2>7 DEF UpdateRule
    <3> QED BY <2>3, <2>5, <3>1 DEF a, b
  <2>8. CASE App(r) = profile /\ r.key # a.last
    <3>1. b.new = a.new \o Regenerated(r, n)
      BY <2>4, <2>8 DEF UpdateRule
    <3>2. r.key \notin keys /\ r.key \in Group
      BY <2>2, <2>8 DEF GroupsOf
    <3>3. Regenerated(r, n) \in Seq(Rule) /\ OfKeys(Regenerated(r, n), keys) = <<>>
      BY <3>2, RegeneratedTyping, RegeneratedSlots
    <3>4. OfKeys(b.new, keys) = OfKeys(a.new, keys) \o <<>>
      <4>1. a.new \in Seq(Rule)
        BY ONLY <2>4
      <4>2. OfKeys(a.new \o Regenerated(r, n), keys)
            = OfKeys(a.new, keys) \o OfKeys(Regenerated(r, n), keys)
        BY <3>3, <4>1, OfKeysConcat
      <4> QED BY ONLY <3>1, <3>3, <4>2
    <3>5. OfKeys(a.new, keys) \in Seq(Rule)
      BY <2>4, OfKeysFold
    <3>6. OfKeys(a.new, keys) \o <<>> = OfKeys(a.new, keys)
      BY <3>5
    <3> QED BY <2>3, <2>5, <3>2, <3>4, <3>6 DEF a, b
  <2> QED BY <2>6, <2>7, <2>8
<1>3. Seq(Rule) \subseteq T
  <2>1. <<>> \in T
    BY <1>1
  <2>2. ASSUME NEW s \in Seq(Rule), NEW r \in Rule, s \in T PROVE Append(s, r) \in T
    <3>1. Append(s, r) \in Seq(Rule)
      OBVIOUS
    <3> HIDE DEF P
    <3> QED BY <1>2, <2>2, <3>1
  <2> HIDE DEF T
  <2> QED BY <2>1, <2>2, ListInduction
<1>4. updateAppRule(list, profile, n) = D(list).new
  BY Zenon DEF updateAppRule, Updated, NothingYet
<1>5. D(list).new \in Seq(Rule)
  BY <1>0 DEF UpdatedRight, Updates
<1>6. P(list)
  <2> HIDE DEF P
  <2> QED BY <1>3
<1> QED BY <1>4, <1>5, <1>6

(* From a list with whole groups and no doubles it makes one without.      *)
LEMMA UpdatedDistinct ==
    ASSUME RuleListAssumption, NEW profile \in Profile, NEW n \in Nat, 1 .. n \subseteq Item,
           NEW list \in Seq(Rule), Distinct(list), Whole(list)
    PROVE  Distinct(updateAppRule(list, profile, n))
<1> DEFINE D(s) == Updated(s, profile, n)
           P(s) == Distinct(s) /\ Whole(s) => UpdateGood(s, D(s), profile)
           T == {s \in Seq(Rule) : P(s)}
<1>0. ASSUME NEW s \in Seq(Rule) PROVE UpdatedRight(s, profile, n)
  BY UpdatedFold
<1>1. P(<<>>)
  <2>1. D(<<>>) = NothingYet
    BY <<>> \in Seq(Rule), <1>0 DEF UpdatedRight
  <2>2. D(<<>>).new = <<>>
    BY <2>1 DEF NothingYet
  <2> QED BY <2>2 DEF UpdateGood, Distinct, Slots
<1>2. ASSUME NEW s \in Seq(Rule), NEW r \in Rule, P(s) PROVE P(Append(s, r))
  <2>1. D(Append(s, r)) = UpdateRule(D(s), r, profile, n) /\ D(s) \in Updates
    BY <1>0 DEF UpdatedRight
  <2> SUFFICES ASSUME Distinct(Append(s, r)), Whole(Append(s, r))
               PROVE  UpdateGood(Append(s, r), D(Append(s, r)), profile)
    OBVIOUS
  <2> HIDE DEF D
  <2>2. Distinct(s)
    BY DistinctAppend
  <2>3. Whole(s)
    <3>1. /\ DOMAIN Append(s, r) = DOMAIN s \cup {Len(s) + 1}
          /\ \A i \in DOMAIN s : Append(s, r)[i] = s[i]
          /\ DOMAIN s = 1 .. Len(s) /\ Len(s) \in Nat
      BY AppendDomain
    <3> SUFFICES ASSUME NEW i \in DOMAIN s, NEW j \in DOMAIN s, i < j, IsApp(s[i]),
                        s[i].key = s[j].key, NEW m \in i .. j
                 PROVE  s[m].key = s[i].key
      BY DEF Whole
    <3>2. m \in DOMAIN s
      BY <3>1
    <3> DEFINE t == Append(s, r)
    <3>3. t[i] = s[i] /\ t[j] = s[j] /\ t[m] = s[m] /\ i \in DOMAIN t /\ j \in DOMAIN t
      BY <3>1, <3>2
    <3> HIDE DEF t
    <3>4. t[m].key = t[i].key
      BY <3>3 DEF Whole, t
    <3> QED BY <3>3, <3>4
  <2> QED BY <1>2, <2>1, <2>2, <2>3, UpdateStep
<1>3. Seq(Rule) \subseteq T
  <2>1. <<>> \in T
    BY <1>1
  <2>2. ASSUME NEW s \in Seq(Rule), NEW r \in Rule, s \in T PROVE Append(s, r) \in T
    <3>1. Append(s, r) \in Seq(Rule)
      OBVIOUS
    <3> HIDE DEF P
    <3> QED BY <1>2, <2>2, <3>1
  <2> HIDE DEF T
  <2> QED BY <2>1, <2>2, ListInduction
<1>4. updateAppRule(list, profile, n) = D(list).new
  BY Zenon DEF updateAppRule, Updated, NothingYet
<1>6. P(list)
  <2> HIDE DEF P
  <2> QED BY <1>3
<1> QED BY <1>4, <1>6 DEF UpdateGood

(* The same of both lists.                                                 *)
LEMMA AppUpdateKept ==
    ASSUME RuleListAssumption, TypeOK, NEW profile \in Profile, AppUpdate(profile)
    PROVE  /\ rules' \in [Family -> Seq(Rule)]
           /\ op'.keys = GroupsOf(profile) /\ op'.kind = "appUpdate"
           /\ \A f \in Family :
                 /\ \A keys : keys \cap GroupsOf(profile) = {}
                              => OfKeys(rules'[f], keys) = OfKeys(rules[f], keys)
                 /\ Distinct(rules[f]) /\ Whole(rules[f]) => Distinct(rules'[f])
<1> DEFINE n == size[profile]
<1>1. rules \in [Family -> Seq(Rule)] /\ n \in Nat /\ 1 .. n \subseteq Item
  BY DEF TypeOK, RuleListAssumption
<1>2. /\ rules' = [f \in Family |-> updateAppRule(rules[f], profile, n)]
      /\ op' = [kind |-> "appUpdate", keys |-> GroupsOf(profile), num |-> 0]
  BY Zenon DEF AppUpdate, Commit, GroupsOf
<1> HIDE DEF n
<1>3. ASSUME NEW f \in Family
      PROVE  /\ updateAppRule(rules[f], profile, n) \in Seq(Rule)
             /\ \A keys : keys \cap GroupsOf(profile) = {}
                          => OfKeys(updateAppRule(rules[f], profile, n), keys) = OfKeys(rules[f], keys)
             /\ Distinct(rules[f]) /\ Whole(rules[f])
                => Distinct(updateAppRule(rules[f], profile, n))
  <2>1. rules[f] \in Seq(Rule)
    BY <1>1
  <2> QED BY <1>1, <2>1, UpdatedKept, UpdatedDistinct
<1>4. rules' \in [Family -> Seq(Rule)]
  BY <1>2, <1>3
<1>5. \A f \in Family : rules'[f] = updateAppRule(rules[f], profile, n)
  BY <1>2
<1> QED BY <1>2, <1>3, <1>4, <1>5

(* What every step does.                                                   *)
StepKept ==
    /\ rules' \in [Family -> Seq(Rule)]
    /\ size' \in [Profile -> ProfileSizes]
    /\ \A f \in Family : /\ \A keys : keys \cap op'.keys = {}
                                      => OfKeys(rules'[f], keys) = OfKeys(rules[f], keys)
                         /\ Distinct(rules[f]) /\ (op'.kind = "appUpdate" => Whole(rules[f]))
                            => Distinct(rules'[f])

(* A step on one key does what StepKept says.                              *)
LEMMA OneKeyStep ==
    ASSUME RuleListAssumption, TypeOK, NEW k, op'.keys = {k}, BothKept(rules, rules', k),
           rules' \in [Family -> Seq(Rule)], size' = size
    PROVE  StepKept
<1>1. size' \in [Profile -> ProfileSizes]
  BY DEF TypeOK
<1>2. \A f \in Family : Kept(rules[f], rules'[f], k)
  BY DEF BothKept
<1>3. \A keys : keys \cap op'.keys = {} => k \notin keys
  OBVIOUS
<1> QED BY <1>1, <1>2, <1>3 DEF StepKept, Kept

(* Every step does.                                                        *)
LEMMA NextKept ==
    ASSUME RuleListAssumption, TypeOK, Next
    PROVE  StepKept
<1>0. rules \in [Family -> Seq(Rule)] /\ size \in [Profile -> ProfileSizes]
  BY DEF TypeOK
<1>1. ASSUME NEW w \in Wanted, NEW kind, NEW num \in Int, RuleOp(w.key, w.act, kind, num)
      PROVE  StepKept
  <2> DEFINE result == runRuleOp(w.key, w.act, kind, num)
  <2>1. rules' = result.lists /\ size' = size /\ op' = [kind |-> kind, keys |-> {w.key}, num |-> num]
    BY <1>1, Zenon DEF RuleOp, Commit
  <2>2. result \in Runs /\ BothKept(rules, result.lists, w.key)
    BY RunKept
  <2> HIDE DEF result
  <2>3. rules' \in [Family -> Seq(Rule)]
    BY <2>1, <2>2 DEF Runs
  <2>4. op'.keys = {w.key}
    BY <2>1
  <2> QED BY <2>1, <2>2, <2>3, <2>4, OneKeyStep
<1>2. ASSUME NEW num \in Nat, deleteByNumber(num) PROVE StepKept
  <2>1. PICK k : op'.keys = {k} /\ BothKept(rules, rules', k)
    BY <1>2, NumberKept
  <2>2. size' = size
    BY <1>2, Zenon DEF deleteByNumber, Commit
  <2>3. \E f, x : rules' = [rules EXCEPT ![f] = x]
    BY <1>2, Zenon DEF deleteByNumber, Commit
  <2>4. \A f \in Family : rules'[f] \in Seq(Rule)
    BY <2>1 DEF BothKept, Kept
  <2>5. rules' \in [Family -> Seq(Rule)]
    <3>1. PICK f, x : rules' = [rules EXCEPT ![f] = x]
      BY <2>3
    <3>2. DOMAIN rules' = Family /\ rules' = [g \in Family |-> rules'[g]]
      BY <1>0, <3>1
    <3> QED BY <2>4, <3>2
  <2> QED BY <2>1, <2>2, <2>5, OneKeyStep
<1>3. ASSUME NEW doc \in Documents, Import(doc) PROVE StepKept
  <2>1. \A f \in Family : KeptApart(rules[f], rules'[f], op'.keys)
    BY <1>3, ImportKept
  <2>2. size' = size /\ rules' = [f \in Family |-> mergeRules(rules[f], doc[f])]
    BY <1>3, Zenon DEF Import, Commit
  <2>3. \A f \in Family : mergeRules(rules[f], doc[f]) \in Seq(Rule)
    BY <2>1, <2>2 DEF KeptApart
  <2> QED BY <1>0, <2>1, <2>2, <2>3 DEF StepKept, KeptApart
<1>4. ASSUME NEW profile \in Profile, AppUpdate(profile) PROVE StepKept
  <2>1. size' = size
    BY <1>4, Zenon DEF AppUpdate, Commit
  <2> QED BY <1>0, <1>4, <2>1, AppUpdateKept DEF StepKept
<1>5. ASSUME NEW profile \in Profile, EditProfile(profile) PROVE StepKept
  <2>1. rules' = rules /\ size' \in [Profile -> ProfileSizes]
    BY <1>5, Zenon DEF EditProfile
  <2>2. \A f \in Family : Distinct(rules[f]) => Distinct(rules'[f])
    BY <2>1
  <2> QED BY ONLY <1>0, <2>1, <2>2 DEF StepKept
<1>6. \A num \in 1 .. 2 * MaxLen : num \in Nat
  BY DEF RuleListAssumption
<1>7. CASE \E w \in Wanted :
              \/ \E kind \in {"add", "prepend", "delete"} : RuleOp(w.key, w.act, kind, 0)
              \/ \E num \in 1 .. 2 * MaxLen : RuleOp(w.key, w.act, "insert", num)
  <2>1. PICK w \in Wanted :
              \/ \E kind \in {"add", "prepend", "delete"} : RuleOp(w.key, w.act, kind, 0)
              \/ \E num \in 1 .. 2 * MaxLen : RuleOp(w.key, w.act, "insert", num)
    BY <1>7
  <2>2. ASSUME NEW kind, RuleOp(w.key, w.act, kind, 0) PROVE StepKept
    <3>1. 0 \in Int
      OBVIOUS
    <3> QED BY ONLY <1>1, <2>2, <3>1, Zenon
  <2>3. \A num \in 1 .. 2 * MaxLen : RuleOp(w.key, w.act, "insert", num) => StepKept
    BY <1>1, <1>6
  <2> QED BY ONLY <2>1, <2>2, <2>3
<1>8. CASE \E num \in 1 .. 2 * MaxLen : deleteByNumber(num)
  BY <1>2, <1>6, <1>8
<1>9. CASE \E p \in Profile : AppUpdate(p) \/ EditProfile(p)
  BY <1>4, <1>5, <1>9
<1> QED BY <1>3, <1>7, <1>8, <1>9 DEF Next

(* The lists stay lists of rules of their families, and the profiles have a *)
(* size they may have.                                                     *)
THEOREM RuleListTyping == Spec => []TypeOK
<1>1. Init => TypeOK
  BY DEF Init, TypeOK, Family
<1>2. TypeOK /\ [Next]_vars => TypeOK'
  <2> SUFFICES ASSUME TypeOK, [Next]_vars PROVE TypeOK'
    OBVIOUS
  <2>1. CASE Next
    BY <2>1, RuleListAssumption, NextKept DEF StepKept, TypeOK
  <2>2. CASE UNCHANGED vars
    BY <2>2 DEF vars, TypeOK
  <2> QED BY <2>1, <2>2
<1> QED BY <1>1, <1>2, PTL DEF Spec

(* No command makes lists without doubles double, updateAppRule so long as *)
(* the groups are whole.                                                   *)
THEOREM NothingIsDoubled == Spec => NoneDoubled
<1>1. TypeOK /\ [Next]_vars
      => [NoDuplicates /\ (op'.kind = "appUpdate" => GroupsWhole) => NoDuplicates']_vars
  <2> SUFFICES ASSUME TypeOK, Next, NoDuplicates, op'.kind = "appUpdate" => GroupsWhole
               PROVE  NoDuplicates'
    BY DEF vars
  <2>1. StepKept
    BY RuleListAssumption, NextKept
  <2>2. op'.kind = "appUpdate" => \A f \in Family : Whole(rules[f])
    BY Zenon DEF GroupsWhole, Whole
  <2> QED BY <2>1, <2>2 DEF StepKept, NoDuplicates, Distinct
<1> QED BY <1>1, RuleListTyping, PTL DEF Spec, NoneDoubled

(* No command touches or reorders rules that it does not name.             *)
THEOREM OthersStay == Spec => OthersKept
<1>1. TypeOK /\ [Next]_vars
      => [\A f \in Family :
            OfKeys(rules'[f], Key \ op'.keys) = OfKeys(rules[f], Key \ op'.keys)]_vars
  <2> SUFFICES ASSUME TypeOK, Next, NEW f \in Family
               PROVE  OfKeys(rules'[f], Key \ op'.keys) = OfKeys(rules[f], Key \ op'.keys)
    BY DEF vars
  <2>1. StepKept
    BY RuleListAssumption, NextKept
  <2> QED BY <2>1 DEF StepKept
<1> QED BY <1>1, RuleListTyping, PTL DEF Spec, OthersKept

(* The rule is first as soon as the loop has turned once.                  *)
PutFirst(s, w, nr) == s # <<>> => w.inserted /\ w.new # <<>> /\ w.new[1] = nr

(* With position 1 the loop puts the rule before all others.               *)
LEMMA WalkedFirst ==
    ASSUME RuleListAssumption, NEW nr \in Rule, NEW remove, NEW s \in Seq(Rule)
    PROVE  PutFirst(s, Walked(s, nr, 1, remove), nr)
<1> DEFINE P(u) == PutFirst(u, Walked(u, nr, 1, remove), nr)
           T == {u \in Seq(Rule) : P(u)}
<1>1. P(<<>>)
  BY DEF PutFirst
<1>2. ASSUME NEW u \in Seq(Rule), NEW r \in Rule, P(u) PROVE P(Append(u, r))
  <2> DEFINE a == Walked(u, nr, 1, remove)
             w == Walked(Append(u, r), nr, 1, remove)
  <2>1. w = Walk(nr, remove, a, r) /\ a \in WalkStates(nr) /\ WalkStep(a, w, nr, remove, r)
    BY WalkedStep
  <2>2. u = <<>> => a = WalkStart(1)
    <3>1. Walked(<<>>, nr, 1, remove) = WalkStart(1)
      BY <<>> \in Seq(Rule), 1 \in Nat, WalkedFold DEF WalkedRight
    <3> QED BY ONLY <3>1
  <2>3. u # <<>> => a.inserted /\ a.new # <<>> /\ a.new[1] = nr
    BY <1>2 DEF PutFirst
  <2> HIDE DEF a, w
  <2>4. PICK mid :
             /\ \/ mid = a.new /\ (w.inserted <=> a.inserted) /\ (a.count = a.pos => w.pos = a.pos + 1)
                \/ mid = Append(a.new, nr) /\ w.inserted /\ a.count = a.pos /\ w.pos = a.pos
             /\ \/ w.new = mid /\ Slot(r) = Slot(nr)
                \/ w.new = Append(mid, nr) /\ Slot(r) = Slot(nr) /\ ~remove
                \/ w.new = Append(mid, r)
    BY <2>1, Zenon DEF WalkStep
  <2>5. a.new \in Seq(Rule)
    BY <2>1 DEF WalkStates
  <2>6. mid \in Seq(Rule) /\ mid # <<>> /\ mid[1] = nr /\ w.inserted
    <3>1. CASE u # <<>>
      <4>1. a.inserted /\ a.new # <<>> /\ a.new[1] = nr
        BY <2>3, <3>1
      <4>2. mid = a.new \/ mid = Append(a.new, nr)
        BY ONLY <2>4
      <4>3. w.inserted
        BY ONLY <2>4, <4>1
      <4>4. Append(a.new, nr) \in Seq(Rule) /\ Append(a.new, nr) # <<>> /\ Append(a.new, nr)[1] = nr
        BY <2>5, <4>1
      <4> QED BY ONLY <2>5, <4>1, <4>2, <4>3, <4>4
    <3>2. CASE u = <<>>
      <4>1. /\ a.count = 1 /\ a.pos = 1 /\ a.last = NoApp /\ ~a.inserted /\ a.new = <<>>
        <5>1. /\ WalkStart(1).count = 1 /\ WalkStart(1).pos = 1 /\ WalkStart(1).last = NoApp
              /\ ~WalkStart(1).inserted /\ WalkStart(1).new = <<>>
          BY Zenon DEF WalkStart
        <5> QED BY ONLY <2>2, <3>2, <5>1
      <4>2. w.inserted <=> a.inserted \/ (a.count = a.pos /\ ~(IsApp(r) /\ a.last = App(r)))
        BY <2>1, Zenon DEF Walk
      <4>3. ~(IsApp(r) /\ NoApp = App(r))
        BY DEF RuleListAssumption, App, IsApp, Profile
      <4>4. w.inserted
        BY <4>1, <4>2, <4>3
      <4>5. mid = Append(<<>>, nr)
        BY ONLY <2>4, <4>1, <4>4
      <4>6. Append(<<>>, nr) \in Seq(Rule) /\ Append(<<>>, nr) # <<>> /\ Append(<<>>, nr)[1] = nr
        OBVIOUS
      <4> QED BY ONLY <4>4, <4>5, <4>6
    <3> QED BY <3>1, <3>2
  <2>7. \A x \in Rule : Append(mid, x) # <<>> /\ Append(mid, x)[1] = nr
    BY <2>6
  <2>8. w.new = mid \/ w.new = Append(mid, nr) \/ w.new = Append(mid, r)
    BY ONLY <2>4
  <2>9. w.new # <<>> /\ w.new[1] = nr
    <3>1. /\ Append(mid, nr) # <<>> /\ Append(mid, nr)[1] = nr
          /\ Append(mid, r) # <<>> /\ Append(mid, r)[1] = nr
      BY <2>7
    <3> QED BY ONLY <2>6, <2>8, <3>1
  <2> QED BY <2>6, <2>9 DEF PutFirst, w
<1>3. Seq(Rule) \subseteq T
  <2>1. <<>> \in T
    BY <1>1
  <2>2. ASSUME NEW u \in Seq(Rule), NEW r \in Rule, u \in T PROVE Append(u, r) \in T
    <3>1. Append(u, r) \in Seq(Rule)
      OBVIOUS
    <3> HIDE DEF P
    <3> QED BY <1>2, <2>2, <3>1
  <2> HIDE DEF T
  <2> QED BY <2>1, <2>2, ListInduction
<1>4. P(s)
  <2> HIDE DEF P
  <2> QED BY <1>3
<1> QED BY <1>4

(* applyHalf, asked for the front, changes nothing or puts the rule there. *)
LEMMA HalfFirst ==
    ASSUME RuleListAssumption, NEW list \in Seq(Rule), NEW nr \in Rule, NEW pos \in {0, 1},
           pos = 0 => list = <<>>, NEW remove, ~remove
    PROVE  LET new == applyHalf(list, nr, pos, remove).list
           IN  new = list \/ new[1].key = nr.key
<1> DEFINE c == applyHalf(list, nr, pos, remove)
           end == Walked(list, nr, pos, remove)
<1> SUFFICES c.list = list \/ c.list[1].key = nr.key
  OBVIOUS
<1>1. c = Outcome(list, "error") \/ c = setRuleEngine(list, nr, pos, remove)
  BY Zenon DEF applyHalf
<1>2. ASSUME c = setRuleEngine(list, nr, pos, remove) PROVE c.list = list \/ c.list[1].key = nr.key
  <2>1. c = Concluded(list, nr, remove, end)
    BY <1>2 DEF setRuleEngine
  <2> HIDE DEF c, end
  <2>2. ConcludedList(list, nr, remove, end, c)
    BY <2>1, ConcludedShape
  <2>3. CASE list = <<>>
    <3>1. end = WalkStart(pos)
      BY <2>3, pos \in Nat, WalkedFold DEF WalkedRight, end
    <3>2. end.new = <<>>
      BY <3>1 DEF WalkStart
    <3>3. Append(<<>>, nr)[1] = nr
      OBVIOUS
    <3>4. c.list = list \/ c.list = <<>> \/ c.list = Append(<<>>, nr)
      BY ONLY <2>2, <3>2 DEF ConcludedList
    <3> QED BY ONLY <2>3, <3>3, <3>4
  <2>4. CASE list # <<>>
    <3>1. pos = 1
      BY <2>4
    <3>2. end.inserted /\ end.new[1] = nr
      BY <2>4, <3>1, WalkedFirst DEF PutFirst, end
    <3>3. c.list = list \/ c.list = end.new
      BY ONLY <2>2, <3>2 DEF ConcludedList
    <3> QED BY ONLY <3>2, <3>3
  <2> QED BY <2>3, <2>4
<1>3. ASSUME c = Outcome(list, "error") PROVE c.list = list
  BY ONLY <1>3 DEF Outcome
<1> QED BY <1>1, <1>2, <1>3

(* Status shows no rule of an empty list only.                             *)
LEMMA EmptyCount ==
    ASSUME NEW list \in Seq(Rule), dedupedCount(list) = 0
    PROVE  list = <<>>
<1> SUFFICES ASSUME list # <<>> PROVE FALSE
  OBVIOUS
<1>1. 1 \in DOMAIN list /\ \A j \in 1 .. 1 - 1 : FALSE
  OBVIOUS
<1>2. 1 \in Shown(list)
  BY <1>1 DEF Shown
<1>3. IsFiniteSet(Shown(list))
  BY CountTyping
<1>4. Cardinality(Shown(list)) # 0
  BY <1>2, <1>3, FS_EmptySet
<1> QED BY <1>4 DEF dedupedCount

(* Before the rule with some index of a prepended command is put in.       *)
Prepending(s, start, numV6, i) ==
    /\ s \in Runs /\ start \in Runs
    /\ s.numV4 = start.numV4
    /\ start.numV4 = dedupedCount(start.lists["v4"])
    /\ numV6 = dedupedCount(start.lists["v6"])
    /\ i = 1 => s.lists = start.lists

(* What a rule of a prepend may change.                                    *)
PutInFront(s, c, k) ==
    /\ c.numV4 = s.numV4
    /\ \A f \in Family : c.lists[f] = s.lists[f] \/ c.lists[f][1].key = k

(* PrependPosition asks for the front of a list that has one.              *)
LEMMA PrependPlace ==
    ASSUME NEW i \in Nat \ {0}, NEW list \in Seq(Rule), NEW begin \in Seq(Rule),
           i = 1 => list = begin
    PROVE  /\ PrependPosition(i - 1, dedupedCount(begin)) \in {0, 1}
           /\ PrependPosition(i - 1, dedupedCount(begin)) = 0 => list = <<>>
<1> DEFINE n == dedupedCount(begin)
<1>1. n = 0 => begin = <<>>
  BY EmptyCount
<1> HIDE DEF n
<1>2. PrependPosition(i - 1, n) = IF i - 1 = 0 /\ n = 0 THEN 0 ELSE 1
  BY DEF PrependPosition
<1> QED BY <1>1, <1>2 DEF n

(* Each rule a prepend stands for goes to the front in each family.        *)
LEMMA PrependStep ==
    ASSUME RuleListAssumption, NEW s, NEW start, NEW numV6, NEW todo, NEW k, NEW kind,
           kind = "prepend", ToDo(todo, k, kind), NEW i \in DOMAIN todo,
           Prepending(s, start, numV6, i)
    PROVE  PutInFront(s, ApplyOne(s, i, todo, kind, 0, numV6), k)
<1>1. PICK remove : remove = (kind = "delete")
  OBVIOUS
<1> DEFINE c == ApplyOne(s, i, todo, kind, 0, numV6)
           nr == todo[i]
           p4 == PrependPosition(i - 1, s.numV4)
           p6 == PrependPosition(i - 1, numV6)
           half(f, pos) == applyHalf(s.lists[f], nr, pos, remove)
           Good(x) == /\ x.numV4 = s.numV4
                      /\ \A f \in Family : x.lists[f] = s.lists[f] \/ x.lists[f][1].key = k
<1> SUFFICES Good(c)
  BY Zenon DEF PutInFront
<1>2. ~remove /\ nr \in Rule /\ nr.key = k /\ i \in Nat \ {0}
  BY <1>1 DEF ToDo
<1>3. /\ s.lists \in [Family -> Seq(Rule)] /\ start.lists \in [Family -> Seq(Rule)]
      /\ s = [lists |-> s.lists, numV4 |-> s.numV4, outcome |-> s.outcome]
  BY DEF Prepending, Runs
<1>4. /\ p4 \in {0, 1} /\ (p4 = 0 => s.lists["v4"] = <<>>)
      /\ p6 \in {0, 1} /\ (p6 = 0 => s.lists["v6"] = <<>>)
  <2>1. /\ s.lists["v4"] \in Seq(Rule) /\ start.lists["v4"] \in Seq(Rule)
        /\ s.lists["v6"] \in Seq(Rule) /\ start.lists["v6"] \in Seq(Rule)
    BY <1>3 DEF Family
  <2>2. i = 1 => s.lists["v4"] = start.lists["v4"] /\ s.lists["v6"] = start.lists["v6"]
    BY DEF Prepending
  <2>3. s.numV4 = dedupedCount(start.lists["v4"]) /\ numV6 = dedupedCount(start.lists["v6"])
    BY DEF Prepending
  <2> QED BY <1>2, <2>1, <2>2, <2>3, PrependPlace
<1>5. \A new : new = half("v4", p4).list => new = s.lists["v4"] \/ new[1].key = k
  <2>1. s.lists["v4"] \in Seq(Rule)
    BY <1>3 DEF Family
  <2> HIDE DEF nr, p4, p6
  <2> QED BY <1>2, <1>4, <2>1, HalfFirst
<1>6. \A new : new = half("v6", p6).list => new = s.lists["v6"] \/ new[1].key = k
  <2>1. s.lists["v6"] \in Seq(Rule)
    BY <1>3 DEF Family
  <2> HIDE DEF nr, p4, p6
  <2> DEFINE list == s.lists["v6"]
             new == applyHalf(list, nr, p6, remove).list
  <2>2. list \in Seq(Rule) /\ p6 \in {0, 1} /\ (p6 = 0 => list = <<>>)
    BY <1>4, <2>1
  <2> HIDE DEF list
  <2>3. new = list \/ new[1].key = k
    BY <1>2, <2>2, HalfFirst
  <2> QED BY ONLY <2>3 DEF list
<1> DEFINE One(f, pos) == [s EXCEPT !.lists[f] = half(f, pos).list, !.outcome = half(f, pos).outcome]
<1>7. \/ c = s
      \/ c = One("v4", p4)
      \/ c = One("v6", p6)
      \/ c = applyDual(s, nr, -1, i - 1, numV6, remove)
  <2>1. c = applyRule(s, nr, -1, i - 1, numV6, remove)
    BY <1>1, Zenon DEF ApplyOne
  <2>2. v4Position(-1, i - 1, s.numV4) = p4 /\ v6Position(-1, i - 1, s.numV4, numV6) = p6
    BY DEF v4Position, v6Position
  <2> HIDE DEF c, nr, p4, p6
  <2>3. CASE s.outcome = "error"
    BY <2>1, <2>3 DEF applyRule
  <2>4. CASE s.outcome # "error" /\ families[nr.key] = {"v4"}
    BY <2>1, <2>2, <2>4 DEF applyRule
  <2>5. CASE s.outcome # "error" /\ families[nr.key] # {"v4"} /\ families[nr.key] = {"v6"}
    BY <2>1, <2>2, <2>5 DEF applyRule
  <2>6. CASE s.outcome # "error" /\ families[nr.key] # {"v4"} /\ families[nr.key] # {"v6"}
    BY <2>1, <2>6 DEF applyRule
  <2> QED BY <2>3, <2>4, <2>5, <2>6
<1>8. ASSUME c = applyDual(s, nr, -1, i - 1, numV6, remove) PROVE Good(c)
  <2> DEFINE h4 == half("v4", p4)
             h6 == half("v6", p6)
  <2>1. DualPosition4(s, -1, i - 1, remove) = p4
    BY DEF DualPosition4
  <2>2. \A v4, n, next : DualPosition6(v4, s.lists["v6"], n, next, -1, i - 1, numV6, remove) = p6
    BY DEF DualPosition6
  <2>3. ~(-1 > 0)
    OBVIOUS
  <2>4. \/ c = [s EXCEPT !.outcome = "error"]
        \/ c = SecondHalf(s, h4.list, nr, p4, -1, i - 1, numV6, remove)
    BY <1>8, <2>1, Zenon DEF applyDual
  <2>5. SecondHalf(s, h4.list, nr, p4, -1, i - 1, numV6, remove)
        = [lists |-> [v4 |-> h4.list, v6 |-> h6.list], numV4 |-> s.numV4, outcome |-> h6.outcome]
    <3>1. ~(~remove /\ -1 > 0)
      BY <2>3
    <3> HIDE DEF p4, p6, nr, c
    <3> QED BY <2>2, <3>1, Zenon DEF SecondHalf
  <2> HIDE DEF h4, h6, c, nr, p4, p6
  <2>6. ASSUME c = [s EXCEPT !.outcome = "error"] PROVE Good(c)
    <3>1. c.lists = s.lists /\ c.numV4 = s.numV4
      BY <1>3, <2>6
    <3> QED BY <3>1
  <2>7. ASSUME c = [lists |-> [v4 |-> h4.list, v6 |-> h6.list], numV4 |-> s.numV4,
                    outcome |-> h6.outcome]
        PROVE  Good(c)
    <3>1. c.numV4 = s.numV4 /\ c.lists["v4"] = h4.list /\ c.lists["v6"] = h6.list
      BY <2>7
    <3> QED BY <1>5, <1>6, <3>1 DEF Family, h4, h6
  <2> QED BY ONLY <2>4, <2>5, <2>6, <2>7
<1>9. ASSUME NEW f \in Family, NEW pos, c = One(f, pos),
             half(f, pos).list = s.lists[f] \/ half(f, pos).list[1].key = k
      PROVE  Good(c)
  <2> DEFINE new == half(f, pos).list
  <2> HIDE DEF c, new, half
  <2>1. c.numV4 = s.numV4 /\ c.lists = [s.lists EXCEPT ![f] = new]
    BY <1>3, <1>9 DEF new
  <2>2. new = s.lists[f] \/ new[1].key = k
    BY <1>9 DEF new
  <2>3. c.lists[f] = new /\ \A g \in Family \ {f} : c.lists[g] = s.lists[g]
    BY <1>3, <2>1
  <2> QED BY ONLY <2>1, <2>2, <2>3
<1>10. ASSUME c = s PROVE Good(c)
  BY ONLY <1>10
<1> HIDE DEF c, One, Good, half, p4, p6, nr
<1>11. "v4" \in Family /\ "v6" \in Family
  BY DEF Family
<1> QED BY <1>5, <1>6, <1>7, <1>8, <1>9, <1>10, <1>11

(* A key that is new in a list is its first.                               *)
Firsts(lists, new, k) ==
    \A f \in Family : k \in Keys(lists[f]) \/ k \notin Keys(new[f]) \/ new[f][1].key = k

Ascending(done) == \A j \in DOMAIN done : done[j] = j

(* So do all of them.                                                      *)
LEMMA PrependedFirst ==
    ASSUME RuleListAssumption, NEW todo, NEW k, NEW kind, kind = "prepend", ToDo(todo, k, kind),
           NEW start \in Runs, start.numV4 = dedupedCount(start.lists["v4"]),
           NEW numV6, numV6 = dedupedCount(start.lists["v6"]),
           NEW done \in Seq(DOMAIN todo), Ascending(done)
    PROVE  Firsts(start.lists, Applied(start, todo, kind, 0, numV6, done).lists, k)
<1> DEFINE D(s) == Applied(start, todo, kind, 0, numV6, s)
           E == DOMAIN todo
           P(s) == Ascending(s) => /\ D(s).numV4 = start.numV4
                                   /\ Firsts(start.lists, D(s).lists, k)
           T == {s \in Seq(E) : P(s)}
<1>0. ASSUME NEW s \in Seq(E) PROVE AppliedRight(s, start, todo, kind, 0, numV6)
  <2>1. numV6 \in Nat /\ 0 \in Int
    <3>1. start.lists["v6"] \in Seq(Rule)
      BY DEF Runs, Family
    <3> QED BY <3>1, CountTyping
  <2> QED BY <2>1, AppliedFold
<1>1. D(<<>>) = start
  BY <<>> \in Seq(E), <1>0 DEF AppliedRight
<1>2. P(<<>>)
  <2> HIDE DEF D
  <2> QED BY <1>1 DEF Firsts
<1>3. ASSUME NEW s \in Seq(E), NEW i \in E, P(s) PROVE P(Append(s, i))
  <2>1. D(Append(s, i)) = ApplyOne(D(s), i, todo, kind, 0, numV6) /\ D(s) \in Runs
    BY <1>0 DEF AppliedRight
  <2> SUFFICES ASSUME Ascending(Append(s, i))
               PROVE  /\ D(Append(s, i)).numV4 = start.numV4
                      /\ Firsts(start.lists, D(Append(s, i)).lists, k)
    OBVIOUS
  <2> HIDE DEF D
  <2>2. /\ DOMAIN Append(s, i) = DOMAIN s \cup {Len(s) + 1}
        /\ \A j \in DOMAIN s : Append(s, i)[j] = s[j]
        /\ Append(s, i)[Len(s) + 1] = i /\ Len(s) \in Nat
    BY AppendDomain
  <2>3. Ascending(s) /\ i = Len(s) + 1
    BY <2>2 DEF Ascending
  <2>4. i = 1 => s = <<>>
    BY <2>2, <2>3
  <2>5. D(s).numV4 = start.numV4 /\ Firsts(start.lists, D(s).lists, k)
    BY <1>3, <2>3
  <2>6. Prepending(D(s), start, numV6, i)
    BY <1>1, <2>1, <2>4, <2>5 DEF Prepending
  <2> DEFINE c == ApplyOne(D(s), i, todo, kind, 0, numV6)
  <2>7. /\ c.numV4 = D(s).numV4
        /\ \A f \in Family : c.lists[f] = D(s).lists[f] \/ c.lists[f][1].key = k
    <3>1. PutInFront(D(s), ApplyOne(D(s), i, todo, kind, 0, numV6), k)
      BY <2>6, PrependStep
    <3> QED BY <3>1, Zenon DEF PutInFront
  <2> HIDE DEF c
  <2>8. c.numV4 = start.numV4 /\ Firsts(start.lists, c.lists, k)
    BY <2>5, <2>7 DEF Firsts
  <2> QED BY <2>1, <2>8 DEF c
<1>4. Seq(E) \subseteq T
  <2>1. <<>> \in T
    BY <1>2
  <2>2. ASSUME NEW s \in Seq(E), NEW i \in E, s \in T PROVE Append(s, i) \in T
    <3>1. Append(s, i) \in Seq(E)
      OBVIOUS
    <3> HIDE DEF P
    <3> QED BY <1>3, <2>2, <3>1
  <2> HIDE DEF T, E
  <2> QED BY <2>1, <2>2, ListInduction
<1>5. P(done)
  <2> HIDE DEF P
  <2> QED BY <1>4
<1> QED BY <1>5

(* What is prepended is first in both families, if it was not there.       *)
THEOREM PrependedIsFirst == Spec => PrependFirst
<1>1. ASSUME RuleListAssumption, TypeOK, NEW w \in Wanted, NEW kind, kind = "prepend",
             RuleOp(w.key, w.act, kind, 0)
      PROVE  Firsts(rules, rules', w.key)
  <2> DEFINE todo == Expanded(w.key, w.act, kind)
             start == [lists |-> rules, numV4 |-> dedupedCount(rules["v4"]), outcome |-> ""]
             numV6 == dedupedCount(rules["v6"])
             done == [i \in DOMAIN todo |-> i]
  <2>1. rules \in [Family -> Seq(Rule)] /\ rules["v4"] \in Seq(Rule) /\ rules["v6"] \in Seq(Rule)
    BY <1>1 DEF TypeOK, Family
  <2>2. dedupedCount(rules["v4"]) \in Nat /\ numV6 \in Nat
    BY <2>1, CountTyping
  <2>3. start \in Runs
    BY <2>1, <2>2 DEF Runs, Outcomes
  <2>4. rules' = Applied(start, todo, kind, 0, numV6, done).lists
    BY <1>1, Zenon DEF RuleOp, Commit, runRuleOp, Applied
  <2>5. ToDo(todo, w.key, kind) /\ done \in Seq(DOMAIN todo)
    BY <1>1, ExpandedToDo
  <2>6. Ascending(done)
    BY DEF Ascending
  <2>7. /\ start.lists = rules /\ start.numV4 = dedupedCount(start.lists["v4"])
        /\ numV6 = dedupedCount(start.lists["v6"])
    OBVIOUS
  <2> HIDE DEF todo, start, numV6, done
  <2>8. Firsts(start.lists, Applied(start, todo, kind, 0, numV6, done).lists, w.key)
    BY <1>1, <2>3, <2>5, <2>6, <2>7, PrependedFirst
  <2> QED BY <2>4, <2>7, <2>8
<1>2. ASSUME TypeOK, Next, op'.kind = "prepend"
      PROVE  \E k : op'.keys = {k} /\ Firsts(rules, rules', k)
  <2>1. ASSUME NEW w \in Wanted, NEW kind, NEW num, RuleOp(w.key, w.act, kind, num)
        PROVE  op'.kind = kind /\ op'.keys = {w.key}
    BY <2>1 DEF RuleOp, Commit
  <2>2. ASSUME NEW num, deleteByNumber(num) PROVE FALSE
    <3>1. \E keys : op' = [kind |-> "deleteNumber", keys |-> keys, num |-> num]
      BY <2>2, Zenon DEF deleteByNumber, Commit
    <3> QED BY <1>2, <3>1
  <2>3. ASSUME NEW doc, Import(doc) PROVE FALSE
    BY <1>2, <2>3 DEF Import, Commit
  <2>4. ASSUME NEW p, AppUpdate(p) PROVE FALSE
    BY <1>2, <2>4 DEF AppUpdate, Commit
  <2>5. ASSUME NEW p, EditProfile(p) PROVE FALSE
    BY <1>2, <2>5 DEF EditProfile
  <2>6. PICK w \in Wanted :
            \/ \E kind \in {"add", "prepend", "delete"} : RuleOp(w.key, w.act, kind, 0)
            \/ \E num \in 1 .. 2 * MaxLen : RuleOp(w.key, w.act, "insert", num)
    BY <1>2, <2>2, <2>3, <2>4, <2>5, Zenon DEF Next
  <2>7. \A num : RuleOp(w.key, w.act, "insert", num) => op'.kind = "insert"
    BY <2>1, Zenon
  <2>8. PICK kind \in {"add", "prepend", "delete"} : RuleOp(w.key, w.act, kind, 0)
    BY <1>2, <2>6, <2>7
  <2>9. op'.kind = kind /\ op'.keys = {w.key}
    BY <2>1, <2>8, Zenon
  <2>10. Firsts(rules, rules', w.key)
    BY <1>1, <1>2, <2>8, <2>9, RuleListAssumption
  <2> QED BY <2>9, <2>10
<1>3. TypeOK /\ [Next]_vars
      => [op'.kind = "prepend"
          => \A f \in Family : \A k \in Keys(rules'[f]) \ Keys(rules[f]) : rules'[f][1].key = k]_vars
  <2> SUFFICES ASSUME TypeOK, Next, op'.kind = "prepend", NEW f \in Family,
                      NEW k \in Keys(rules'[f]) \ Keys(rules[f])
               PROVE  rules'[f][1].key = k
    BY DEF vars
  <2>1. PICK x : op'.keys = {x} /\ Firsts(rules, rules', x)
    BY <1>2
  <2>2. k = x
    <3> DEFINE old == rules[f]
               new == rules'[f]
    <3>1. StepKept
      BY RuleListAssumption, NextKept
    <3>2. k \notin {x} => FALSE
      <4> SUFFICES ASSUME k # x PROVE FALSE
        OBVIOUS
      <4>1. old \in Seq(Rule) /\ new \in Seq(Rule)
        BY <3>1 DEF StepKept, TypeOK
      <4>2. OfKeys(new, {k}) = OfKeys(old, {k})
        BY <2>1, <3>1 DEF StepKept
      <4>3. OfKeys(old, {k}) = <<>>
        <5>1. \A i \in DOMAIN old : old[i].key \notin {k}
          BY DEF Keys
        <5> HIDE DEF old
        <5> QED BY <4>1, <5>1, OfKeysNone
      <4>4. OfKeys(new, {k}) # <<>>
        <5>1. k \in Keys(new)
          OBVIOUS
        <5> HIDE DEF new
        <5> QED BY <4>1, <5>1, OfKeysSome
      <4> QED BY <4>2, <4>3, <4>4
    <3> QED BY <3>2
  <2> QED BY <2>1, <2>2 DEF Firsts
<1> QED BY <1>3, RuleListTyping, PTL DEF Spec, PrependFirst

(* A list has only places of another, in order: it was got by leaving      *)
(* rules out of it and by replacing rules by others that match them.       *)
Embeds(e, new, list) ==
    /\ e \in [DOMAIN new -> DOMAIN list]
    /\ \A i, j \in DOMAIN new : i < j => e[i] < e[j]
    /\ \A i \in DOMAIN new : Slot(new[i]) = Slot(list[e[i]])
Within(new, list) == \E e : Embeds(e, new, list)

(* A list is within itself,                                                *)
LEMMA WithinItself ==
    ASSUME NEW list
    PROVE  Within(list, list)
<1> DEFINE e == [i \in DOMAIN list |-> i]
<1>1. Embeds(e, list, list)
  BY DEF Embeds
<1> HIDE DEF e
<1> QED BY <1>1 DEF Within

(* within what a list is within that it is within,                         *)
LEMMA WithinTwice ==
    ASSUME NEW list, NEW mid, NEW new, Within(mid, list), Within(new, mid),
           DOMAIN mid \subseteq Nat
    PROVE  Within(new, list)
<1>1. PICK e : Embeds(e, mid, list)
  BY DEF Within
<1>2. PICK g : Embeds(g, new, mid)
  BY DEF Within
<1> DEFINE h == [i \in DOMAIN new |-> e[g[i]]]
<1>3. Embeds(h, new, list)
  BY <1>1, <1>2 DEF Embeds
<1> HIDE DEF h
<1> QED BY <1>3 DEF Within

(* within a longer one,                                                    *)
LEMMA WithinLonger ==
    ASSUME NEW s \in Seq(Rule), NEW r \in Rule, NEW new \in Seq(Rule), Within(new, s)
    PROVE  Within(new, Append(s, r))
<1>1. PICK e : Embeds(e, new, s)
  BY DEF Within
<1>2. DOMAIN s \subseteq DOMAIN Append(s, r) /\ \A i \in DOMAIN s : Append(s, r)[i] = s[i]
  OBVIOUS
<1>3. Embeds(e, new, Append(s, r))
  <2> PICK t : t = Append(s, r)
    OBVIOUS
  <2>1. e \in [DOMAIN new -> DOMAIN t]
    BY <1>1, <1>2 DEF Embeds
  <2>2. \A i \in DOMAIN new : t[e[i]] = s[e[i]]
    BY <1>1, <1>2 DEF Embeds
  <2> QED BY <1>1, <2>1, <2>2 DEF Embeds
<1> QED BY <1>3 DEF Within

(* and stays so if a rule of the same slot is appended to both.            *)
LEMMA WithinAppend ==
    ASSUME NEW s \in Seq(Rule), NEW r \in Rule, NEW new \in Seq(Rule), NEW o \in Rule,
           Within(new, s), Slot(o) = Slot(r)
    PROVE  Within(Append(new, o), Append(s, r))
<1>1. PICK e : Embeds(e, new, s)
  BY DEF Within
<1> DEFINE m == Len(new) + 1
           n == Len(s) + 1
<1>2. PICK t : t = Append(s, r)
  OBVIOUS
<1>3. PICK u : u = Append(new, o)
  OBVIOUS
<1>4. /\ DOMAIN t = 1 .. n /\ DOMAIN s = 1 .. n - 1 /\ t[n] = r /\ \A i \in DOMAIN s : t[i] = s[i]
      /\ n \in Nat \ {0}
  BY <1>2
<1>5. /\ DOMAIN u = 1 .. m /\ DOMAIN new = 1 .. m - 1 /\ u[m] = o /\ \A i \in DOMAIN new : u[i] = new[i]
      /\ m \in Nat \ {0}
  BY <1>3
<1> HIDE DEF m, n
<1> DEFINE h == [i \in 1 .. m |-> IF i = m THEN n ELSE e[i]]
<1>6. \A i \in 1 .. m : i = m \/ i \in 1 .. m - 1
  BY <1>5
<1>7. \A i \in 1 .. m - 1 : e[i] \in 1 .. n - 1 /\ e[i] \in 1 .. n /\ e[i] < n /\ i # m /\ h[i] = e[i]
  BY <1>1, <1>4, <1>5 DEF Embeds
<1>8. h[m] = n /\ n \in 1 .. n /\ DOMAIN h = 1 .. m
  BY <1>4, <1>5
<1> HIDE DEF h
<1>9. h \in [DOMAIN u -> DOMAIN t]
  <2>1. \A i \in 1 .. m : h[i] \in 1 .. n
    BY <1>6, <1>7, <1>8
  <2>2. h = [i \in 1 .. m |-> h[i]]
    BY DEF h
  <2> QED BY <1>4, <1>5, <2>1, <2>2
<1>10. ASSUME NEW i \in DOMAIN u, NEW j \in DOMAIN u, i < j PROVE h[i] < h[j]
  <2>1. i \in 1 .. m - 1
    BY <1>5, <1>10
  <2>2. CASE j = m
    BY <1>7, <1>8, <2>1, <2>2
  <2>3. CASE j \in 1 .. m - 1
    BY <1>1, <1>5, <1>7, <1>10, <2>1, <2>3 DEF Embeds
  <2> QED BY <1>5, <1>6, <2>2, <2>3
<1>11. ASSUME NEW i \in DOMAIN u PROVE Slot(u[i]) = Slot(t[h[i]])
  <2>1. CASE i = m
    BY <1>4, <1>5, <1>8, <2>1
  <2>2. CASE i \in 1 .. m - 1
    <3>1. u[i] = new[i] /\ t[h[i]] = s[e[i]]
      BY <1>4, <1>5, <1>7, <2>2
    <3> QED BY <1>1, <1>5, <2>2, <3>1 DEF Embeds
  <2> QED BY <1>5, <1>6, <2>1, <2>2
<1>12. Embeds(h, u, t)
  BY <1>9, <1>10, <1>11 DEF Embeds
<1> QED BY <1>2, <1>3, <1>12 DEF Within

(* A group that is whole is whole in what is left of it.                   *)
LEMMA WithinWhole ==
    ASSUME NEW list \in Seq(Rule), NEW new \in Seq(Rule), Within(new, list), Whole(list)
    PROVE  Whole(new) /\ Keys(new) \subseteq Keys(list)
<1>1. PICK e : Embeds(e, new, list)
  BY DEF Within
<1>2. \A i \in DOMAIN new : e[i] \in DOMAIN list /\ new[i].key = list[e[i]].key
  BY <1>1 DEF Embeds, Slot
<1>3. Keys(new) \subseteq Keys(list)
  BY <1>2 DEF Keys
<1>4. ASSUME NEW i \in DOMAIN new, NEW j \in DOMAIN new, i < j, IsApp(new[i]), new[i].key = new[j].key,
             NEW m \in i .. j
      PROVE  new[m].key = new[i].key
  <2>1. m \in DOMAIN new
    OBVIOUS
  <2>2. e[i] < e[j] /\ e[m] \in e[i] .. e[j]
    <3>1. i = m \/ i < m
      OBVIOUS
    <3>2. m = j \/ m < j
      OBVIOUS
    <3>3. e[i] \in Int /\ e[j] \in Int /\ e[m] \in Int
      BY <1>2, <2>1
    <3> QED BY <1>1, <1>4, <2>1, <3>1, <3>2, <3>3 DEF Embeds
  <2>3. IsApp(list[e[i]]) /\ list[e[i]].key = list[e[j]].key
    BY <1>2, <1>4 DEF IsApp
  <2>4. list[e[m]].key = list[e[i]].key
    BY <1>2, <1>4, <2>2, <2>3 DEF Whole
  <2> QED BY <1>2, <2>1, <2>4
<1>5. Whole(new)
  BY <1>4 DEF Whole
<1> QED BY <1>3, <1>5

(* Two lists within one without doubles have their twins in one order.     *)
LEMMA WithinOrdered ==
    ASSUME NEW list \in Seq(Rule), Distinct(list), NEW lists,
           lists["v4"] \in Seq(Rule), lists["v6"] \in Seq(Rule),
           Within(lists["v4"], list), Within(lists["v6"], list)
    PROVE  Ordered(lists)
<1>1. PICK v : v = lists["v4"]
  OBVIOUS
<1>2. PICK w : w = lists["v6"]
  OBVIOUS
<1>3. PICK e : Embeds(e, v, list)
  BY <1>1 DEF Within
<1>4. PICK g : Embeds(g, w, list)
  BY <1>2 DEF Within
<1>5. v \in Seq(Rule) /\ w \in Seq(Rule)
  BY <1>1, <1>2
<1>6. ASSUME NEW i \in DOMAIN v, NEW m \in DOMAIN w, Match(v[i], w[m]) # "none" PROVE e[i] = g[m]
  <2>1. Slot(v[i]) = Slot(w[m])
    BY <1>6, MatchSlot
  <2>2. Slot(list[e[i]]) = Slot(list[g[m]]) /\ e[i] \in DOMAIN list /\ g[m] \in DOMAIN list
    BY <1>3, <1>4, <2>1 DEF Embeds
  <2>3. Match(list[e[i]], list[g[m]]) # "none"
    BY <2>2, MatchSlot
  <2> QED BY <2>2, <2>3 DEF Distinct
<1>7. ASSUME NEW i \in DOMAIN v, NEW j \in DOMAIN v, NEW m \in DOMAIN w, NEW n \in DOMAIN w, i < j,
             Match(v[i], w[m]) # "none", Match(v[j], w[n]) # "none"
      PROVE  m < n
  <2>1. e[i] < e[j] /\ e[i] = g[m] /\ e[j] = g[n]
    BY <1>3, <1>6, <1>7 DEF Embeds
  <2>2. g[m] < g[n] /\ g[m] \in Int /\ g[n] \in Int
    BY <1>4, <2>1 DEF Embeds
  <2>3. ~(n < m) /\ n # m
    BY <1>4, <2>2 DEF Embeds
  <2> QED BY <1>5, <2>3
<1> QED BY <1>1, <1>2, <1>7 DEF Ordered

(* A list of whole groups stays one when a rule of none of its groups, or  *)
(* of its last rule's, is appended.                                        *)
LEMMA WholeAppend ==
    ASSUME NEW s \in Seq(Rule), NEW r \in Rule, Whole(s),
           IsApp(r) /\ r.key \in Keys(s) => s # <<>> /\ s[Len(s)].key = r.key
    PROVE  Whole(Append(s, r))
<1>1. PICK t : t = Append(s, r)
  OBVIOUS
<1>2. PICK n \in Nat : n = Len(s)
  OBVIOUS
<1>3. /\ DOMAIN t = 1 .. n + 1 /\ DOMAIN s = 1 .. n /\ t[n + 1] = r
      /\ \A i \in 1 .. n : t[i] = s[i]
  BY <1>1, <1>2
<1>4. ASSUME NEW i \in DOMAIN t, NEW j \in DOMAIN t, i < j, IsApp(t[i]), t[i].key = t[j].key,
             NEW m \in i .. j
      PROVE  t[m].key = t[i].key
  <2>1. i \in 1 .. n /\ t[i] = s[i]
    BY <1>3, <1>4
  <2>2. CASE j \in 1 .. n
    BY <1>3, <1>4, <2>1, <2>2 DEF Whole
  <2>3. CASE j = n + 1
    <3>1. IsApp(r) /\ r.key \in Keys(s) /\ r.key = s[i].key
      BY <1>3, <1>4, <2>1, <2>3 DEF IsApp, Keys
    <3>2. n \in 1 .. n /\ s[n].key = r.key
      BY <1>2, <2>1, <3>1
    <3>3. CASE m = n + 1
      BY <1>3, <2>1, <3>1, <3>3
    <3>4. CASE m \in 1 .. n /\ i = n
      BY <1>4, <3>4
    <3>5. CASE m \in 1 .. n /\ i < n
      <4>1. m \in i .. n /\ t[m] = s[m]
        BY <1>3, <3>5, <1>4
      <4>2. s[m].key = s[i].key
        BY <1>3, <1>4, <2>1, <3>1, <3>2, <3>5, <4>1 DEF Whole
      <4> QED BY <2>1, <4>1, <4>2
    <3>6. m \in 1 .. n + 1
      BY <1>3, <1>4
    <3> QED BY <2>1, <3>3, <3>4, <3>5, <3>6
  <2> QED BY <1>3, <2>2, <2>3
<1>5. Whole(t)
  BY <1>4 DEF Whole
<1> QED BY <1>1, <1>5

(* A list with a rule put before the one at a place.                       *)
Put(list, nr, q) ==
    [i \in 1 .. Len(list) + 1 |-> IF i < q THEN list[i] ELSE IF i = q THEN nr ELSE list[i - 1]]

PutRight(list, nr, q, p) ==
    /\ p \in Seq(Rule)
    /\ Len(p) = Len(list) + 1
    /\ DOMAIN p = 1 .. Len(list) + 1
    /\ p[q] = nr
    /\ \A i \in 1 .. q - 1 : i \in DOMAIN list /\ p[i] = list[i]
    /\ \A i \in q + 1 .. Len(list) + 1 : i - 1 \in DOMAIN list /\ p[i] = list[i - 1]

(* A rule put in a place of a list pushes the later ones on.               *)
LEMMA PutTyping ==
    ASSUME NEW list \in Seq(Rule), NEW nr \in Rule, NEW q \in 1 .. Len(list) + 1
    PROVE  PutRight(list, nr, q, Put(list, nr, q))
<1>1. PICK n \in Nat : n = Len(list) /\ DOMAIN list = 1 .. n
  OBVIOUS
<1>2. PICK p : p = Put(list, nr, q)
  OBVIOUS
<1>3. p = [i \in 1 .. n + 1 |-> IF i < q THEN list[i] ELSE IF i = q THEN nr ELSE list[i - 1]]
  BY <1>1, <1>2 DEF Put
<1>4. \A i \in 1 .. n + 1 : p[i] \in Rule
  <2> SUFFICES ASSUME NEW i \in 1 .. n + 1 PROVE p[i] \in Rule
    OBVIOUS
  <2>1. i < q => i \in 1 .. n
    BY <1>1
  <2>2. i > q => i - 1 \in 1 .. n
    BY <1>1
  <2>3. \A j \in 1 .. n : list[j] \in Rule
    BY <1>1
  <2> QED BY <1>1, <1>3, <2>1, <2>2, <2>3
<1>5. DOMAIN p = 1 .. n + 1 /\ p \in Seq(Rule) /\ Len(p) = n + 1
  BY <1>3, <1>4
<1>6. p[q] = nr
  BY <1>1, <1>3
<1>7. \A i \in 1 .. q - 1 : i \in DOMAIN list /\ p[i] = list[i]
  BY <1>1, <1>3
<1>8. \A i \in q + 1 .. n + 1 : i - 1 \in DOMAIN list /\ p[i] = list[i - 1]
  BY <1>1, <1>3
<1> QED BY <1>1, <1>2, <1>5, <1>6, <1>7, <1>8 DEF PutRight

(* The slots and keys of the list are then those it had and the rule's.    *)
LEMMA PutSlots ==
    ASSUME NEW list \in Seq(Rule), NEW nr \in Rule, NEW q \in 1 .. Len(list) + 1
    PROVE  /\ Slots(Put(list, nr, q)) = Slots(list) \cup {Slot(nr)}
           /\ Keys(Put(list, nr, q)) = Keys(list) \cup {nr.key}
<1>1. PICK n \in Nat : n = Len(list) /\ DOMAIN list = 1 .. n
  OBVIOUS
<1>2. PICK p : p = Put(list, nr, q)
  OBVIOUS
<1>3. /\ DOMAIN p = 1 .. n + 1 /\ p[q] = nr /\ q \in 1 .. n + 1
      /\ \A i \in 1 .. q - 1 : i \in DOMAIN list /\ p[i] = list[i]
      /\ \A i \in q + 1 .. n + 1 : i - 1 \in DOMAIN list /\ p[i] = list[i - 1]
  <2>1. /\ DOMAIN p = 1 .. Len(list) + 1 /\ p[q] = nr
        /\ \A i \in 1 .. q - 1 : i \in DOMAIN list /\ p[i] = list[i]
        /\ \A i \in q + 1 .. Len(list) + 1 : i - 1 \in DOMAIN list /\ p[i] = list[i - 1]
    BY <1>2, PutTyping DEF PutRight
  <2> QED BY <1>1, <2>1
<1>4. \A i \in 1 .. n + 1 : i \in 1 .. q - 1 \/ i = q \/ i \in q + 1 .. n + 1
  BY <1>3
<1>5. \A i \in 1 .. n + 1 : p[i] = nr \/ \E j \in DOMAIN list : p[i] = list[j]
  BY <1>3, <1>4
<1>6. \A j \in 1 .. n : \E i \in 1 .. n + 1 : p[i] = list[j]
  <2> SUFFICES ASSUME NEW j \in 1 .. n PROVE \E i \in 1 .. n + 1 : p[i] = list[j]
    OBVIOUS
  <2>1. CASE j < q
    <3>1. j \in 1 .. q - 1 /\ j \in 1 .. n + 1
      BY <1>3, <2>1
    <3> QED BY <1>3, <3>1
  <2>2. CASE ~(j < q)
    <3>1. j + 1 \in q + 1 .. n + 1 /\ j + 1 - 1 = j /\ j + 1 \in 1 .. n + 1
      BY <1>3, <2>2
    <3>2. p[j + 1] = list[j]
      BY <1>3, <3>1
    <3> QED BY <3>1, <3>2
  <2> QED BY <2>1, <2>2
<1>7. Slots(p) = Slots(list) \cup {Slot(nr)}
  <2>1. ASSUME NEW z \in Slots(p) PROVE z \in Slots(list) \cup {Slot(nr)}
    <3>1. PICK i \in 1 .. n + 1 : z = Slot(p[i])
      BY <1>3 DEF Slots
    <3> QED BY <1>5, <3>1 DEF Slots
  <2>2. ASSUME NEW z \in Slots(list) PROVE z \in Slots(p)
    <3>1. PICK j \in 1 .. n : z = Slot(list[j])
      BY <1>1 DEF Slots
    <3>2. PICK i \in 1 .. n + 1 : p[i] = list[j]
      BY <1>6
    <3> QED BY <1>3, <3>1, <3>2 DEF Slots
  <2>3. Slot(nr) \in Slots(p)
    BY <1>3 DEF Slots
  <2> QED BY <2>1, <2>2, <2>3
<1>8. Keys(p) = Keys(list) \cup {nr.key}
  <2>1. ASSUME NEW z \in Keys(p) PROVE z \in Keys(list) \cup {nr.key}
    <3>1. PICK i \in 1 .. n + 1 : z = p[i].key
      BY <1>3 DEF Keys
    <3> QED BY <1>5, <3>1 DEF Keys
  <2>2. ASSUME NEW z \in Keys(list) PROVE z \in Keys(p)
    <3>1. PICK j \in 1 .. n : z = list[j].key
      BY <1>1 DEF Keys
    <3>2. PICK i \in 1 .. n + 1 : p[i] = list[j]
      BY <1>6
    <3> QED BY <1>3, <3>1, <3>2 DEF Keys
  <2>3. nr.key \in Keys(p)
    BY <1>3 DEF Keys
  <2> QED BY <2>1, <2>2, <2>3
<1> QED BY <1>2, <1>7, <1>8

(* A rule put into a list of whole groups leaves them whole where none but *)
(* its own lies to both sides, and if it has one that is next to it.       *)
LEMMA PutWhole ==
    ASSUME NEW list \in Seq(Rule), NEW nr \in Rule, NEW q \in 1 .. Len(list) + 1, Whole(list),
           \A i \in 1 .. q - 1, j \in q .. Len(list) :
              IsApp(list[i]) /\ list[i].key = list[j].key => list[i].key = nr.key,
           IsApp(nr) /\ nr.key \in Keys(list)
           => \/ q > 1 /\ list[q - 1].key = nr.key
              \/ q <= Len(list) /\ list[q].key = nr.key
    PROVE  Whole(Put(list, nr, q))
<1>1. PICK n \in Nat : n = Len(list) /\ DOMAIN list = 1 .. n
  OBVIOUS
<1>2. PICK p : p = Put(list, nr, q)
  OBVIOUS
<1>3. /\ DOMAIN p = 1 .. n + 1 /\ p[q] = nr /\ q \in 1 .. n + 1
      /\ \A i \in 1 .. q - 1 : i \in DOMAIN list /\ p[i] = list[i]
      /\ \A i \in q + 1 .. n + 1 : i - 1 \in DOMAIN list /\ p[i] = list[i - 1]
  <2>1. PutRight(list, nr, q, p)
    BY <1>2, PutTyping
  <2> QED BY <1>1, <2>1 DEF PutRight
<1>4. \A i \in 1 .. n + 1 : i \in 1 .. q - 1 \/ i = q \/ i \in q + 1 .. n + 1
  BY <1>3
<1>5. \A a, b \in 1 .. n : \A m \in a .. b : IsApp(list[a]) /\ list[a].key = list[b].key => list[m].key = list[a].key
  <2> SUFFICES ASSUME NEW a \in 1 .. n, NEW b \in 1 .. n, NEW m \in a .. b, IsApp(list[a]), list[a].key = list[b].key
               PROVE  list[m].key = list[a].key
    OBVIOUS
  <2>1. CASE a < b
    BY <1>1, <2>1 DEF Whole
  <2>2. CASE ~(a < b)
    <3>1. m = a
      BY <2>2
    <3> QED BY <3>1
  <2> QED BY <2>1, <2>2
<1>6. ASSUME NEW i \in 1 .. n + 1, NEW j \in 1 .. n + 1, i < j, IsApp(p[i]), p[i].key = p[j].key,
             NEW m \in i .. j
      PROVE  p[m].key = p[i].key
  <2>1. m \in 1 .. n + 1 /\ i \in Int /\ j \in Int /\ q \in Int /\ m \in Int
    BY <1>3
  <2>2. CASE i = q
    <3>1. j \in q + 1 .. n + 1 /\ p[j] = list[j - 1] /\ j - 1 \in q .. n /\ j - 1 \in 1 .. n
      BY <1>3, <1>6, <2>1, <2>2
    <3>2. IsApp(nr) /\ list[j - 1].key = nr.key /\ nr.key \in Keys(list)
      BY <1>1, <1>3, <1>6, <2>2, <3>1 DEF Keys
    <3>3. CASE m = q
      BY <2>2, <3>3
    <3>4. CASE m # q
      <4>1. m \in q + 1 .. n + 1 /\ p[m] = list[m - 1] /\ m - 1 \in q .. j - 1
        BY <1>3, <1>6, <2>1, <2>2, <3>1, <3>4
      <4>2. CASE q > 1 /\ list[q - 1].key = nr.key
        <5>1. q - 1 \in 1 .. n /\ m - 1 \in q - 1 .. j - 1
          BY <1>3, <3>1, <4>1, <4>2
        <5>2. list[m - 1].key = nr.key
          BY <1>5, <3>1, <3>2, <4>2, <5>1 DEF IsApp
        <5> QED BY <1>3, <2>2, <4>1, <5>2
      <4>3. CASE q <= n /\ list[q].key = nr.key
        <5>1. q \in 1 .. n
          BY <1>3, <4>3
        <5>2. list[m - 1].key = nr.key
          BY <1>5, <3>1, <3>2, <4>1, <4>3, <5>1 DEF IsApp
        <5> QED BY <1>3, <2>2, <4>1, <5>2
      <4> QED BY <1>1, <3>2, <4>2, <4>3
    <3> QED BY <3>3, <3>4
  <2>3. CASE j = q
    <3>1. i \in 1 .. q - 1 /\ p[i] = list[i] /\ i \in 1 .. n
      BY <1>1, <1>3, <1>6, <2>1, <2>3
    <3>2. IsApp(nr) /\ list[i].key = nr.key /\ nr.key \in Keys(list)
      BY <1>1, <1>3, <1>6, <2>3, <3>1 DEF Keys, IsApp
    <3>3. CASE m = q
      BY <1>6, <2>3, <3>3
    <3>4. CASE m # q
      <4>1. m \in 1 .. q - 1 /\ p[m] = list[m] /\ m \in i .. q - 1
        BY <1>3, <1>6, <2>1, <2>3, <3>1, <3>4
      <4>2. CASE q > 1 /\ list[q - 1].key = nr.key
        <5>1. q - 1 \in 1 .. n
          BY <1>3, <4>2
        <5>2. list[m].key = nr.key
          BY <1>5, <3>1, <3>2, <4>1, <4>2, <5>1 DEF IsApp
        <5> QED BY <3>1, <3>2, <4>1, <5>2
      <4>3. CASE q <= n /\ list[q].key = nr.key
        <5>1. q \in 1 .. n /\ m \in i .. q
          BY <1>3, <3>1, <4>1, <4>3
        <5>2. list[m].key = nr.key
          BY <1>5, <3>1, <3>2, <4>1, <4>3, <5>1 DEF IsApp
        <5> QED BY <3>1, <3>2, <4>1, <5>2
      <4> QED BY <1>1, <3>2, <4>2, <4>3
    <3> QED BY <3>3, <3>4
  <2>4. CASE i < q /\ j > q
    <3>1. /\ i \in 1 .. q - 1 /\ p[i] = list[i] /\ i \in 1 .. n
          /\ j \in q + 1 .. n + 1 /\ p[j] = list[j - 1] /\ j - 1 \in q .. n /\ j - 1 \in 1 .. n
      BY <1>1, <1>3, <1>6, <2>1, <2>4
    <3>2. IsApp(list[i]) /\ list[i].key = list[j - 1].key
      BY <1>6, <3>1
    <3>3. CASE m = q
      <4>1. list[i].key = nr.key
        BY <1>1, <3>1, <3>2
      <4> QED BY <1>3, <3>1, <3>3, <4>1
    <3>4. CASE m < q
      <4>1. m \in 1 .. q - 1 /\ p[m] = list[m] /\ m \in i .. j - 1
        BY <1>3, <1>6, <2>1, <3>1, <3>4
      <4> QED BY <1>5, <3>1, <3>2, <4>1
    <3>5. CASE m > q
      <4>1. m \in q + 1 .. n + 1 /\ p[m] = list[m - 1] /\ m - 1 \in i .. j - 1
        BY <1>3, <1>6, <2>1, <3>1, <3>5
      <4> QED BY <1>5, <3>1, <3>2, <4>1
    <3> QED BY <2>1, <3>3, <3>4, <3>5
  <2>5. CASE j < q
    <3>1. /\ i \in 1 .. q - 1 /\ p[i] = list[i] /\ i \in 1 .. n
          /\ j \in 1 .. q - 1 /\ p[j] = list[j] /\ j \in 1 .. n
          /\ m \in 1 .. q - 1 /\ p[m] = list[m]
      BY <1>1, <1>3, <1>6, <2>1, <2>5
    <3> QED BY <1>5, <1>6, <3>1
  <2>6. CASE i > q
    <3>1. /\ i \in q + 1 .. n + 1 /\ p[i] = list[i - 1] /\ i - 1 \in 1 .. n
          /\ j \in q + 1 .. n + 1 /\ p[j] = list[j - 1] /\ j - 1 \in 1 .. n
          /\ m \in q + 1 .. n + 1 /\ p[m] = list[m - 1] /\ m - 1 \in i - 1 .. j - 1
      BY <1>1, <1>3, <1>6, <2>1, <2>6
    <3> QED BY <1>5, <1>6, <3>1
  <2> QED BY <1>6, <2>1, <2>2, <2>3, <2>4, <2>5, <2>6
<1>7. Whole(p)
  BY <1>3, <1>6 DEF Whole
<1> QED BY <1>2, <1>7

(* What is appended to a list comes after what is put into it.             *)
LEMMA PutLonger ==
    ASSUME NEW u \in Seq(Rule), NEW r \in Rule, NEW nr \in Rule
    PROVE  /\ Append(u, nr) = Put(u, nr, Len(u) + 1)
           /\ \A q \in 1 .. Len(u) + 1 : Append(Put(u, nr, q), r) = Put(Append(u, r), nr, q)
<1>1. PICK n \in Nat : n = Len(u) /\ DOMAIN u = 1 .. n
  OBVIOUS
<1>2. Append(u, nr) = Put(u, nr, Len(u) + 1)
  <2>1. PICK s : s = Append(u, nr)
    OBVIOUS
  <2>2. s \in Seq(Rule) /\ Len(s) = n + 1 /\ s[n + 1] = nr /\ \A i \in 1 .. n : s[i] = u[i]
    BY <1>1, <2>1
  <2>3. PICK p : p = Put(u, nr, n + 1)
    OBVIOUS
  <2>4. n + 1 \in 1 .. Len(u) + 1
    BY <1>1
  <2>5. p \in Seq(Rule) /\ Len(p) = Len(u) + 1 /\ p[n + 1] = nr /\ \A i \in 1 .. n + 1 - 1 : p[i] = u[i]
    <3> PICK q : q = n + 1
      OBVIOUS
    <3>1. q \in 1 .. Len(u) + 1 /\ p = Put(u, nr, q)
      BY <2>3, <2>4
    <3>2. PutRight(u, nr, q, p)
      BY <3>1, PutTyping
    <3> QED BY <3>2 DEF PutRight
  <2>6. Len(p) = n + 1 /\ \A i \in 1 .. n : p[i] = u[i]
    BY <1>1, <2>5
  <2>7. \A i \in 1 .. n + 1 : s[i] = p[i]
    BY <2>2, <2>5, <2>6
  <2>8. s = p
    BY <2>2, <2>5, <2>6, <2>7, ListsEqual
  <2> QED BY <1>1, <2>1, <2>3, <2>8
<1>3. ASSUME NEW q \in 1 .. Len(u) + 1 PROVE Append(Put(u, nr, q), r) = Put(Append(u, r), nr, q)
  <2>1. PICK p : p = Put(u, nr, q)
    OBVIOUS
  <2>2. /\ p \in Seq(Rule) /\ Len(p) = Len(u) + 1 /\ p[q] = nr
        /\ \A i \in 1 .. q - 1 : p[i] = u[i]
        /\ \A i \in q + 1 .. Len(u) + 1 : p[i] = u[i - 1]
    <3>1. PutRight(u, nr, q, p)
      BY <2>1, PutTyping
    <3> QED BY <3>1 DEF PutRight
  <2>3. PICK s : s = Append(p, r)
    OBVIOUS
  <2>4. s \in Seq(Rule) /\ Len(s) = n + 2 /\ s[n + 2] = r /\ \A i \in 1 .. n + 1 : s[i] = p[i]
    BY <1>1, <2>2, <2>3
  <2>5. PICK v : v = Append(u, r)
    OBVIOUS
  <2>6. v \in Seq(Rule) /\ Len(v) = n + 1 /\ v[n + 1] = r /\ \A i \in 1 .. n : v[i] = u[i]
    BY <1>1, <2>5
  <2>7. PICK t : t = Put(v, nr, q)
    OBVIOUS
  <2>8. q \in 1 .. Len(v) + 1 /\ q \in 1 .. n + 1
    BY <1>1, <2>6
  <2>9. /\ t \in Seq(Rule) /\ Len(t) = Len(v) + 1 /\ t[q] = nr
        /\ \A i \in 1 .. q - 1 : t[i] = v[i]
        /\ \A i \in q + 1 .. Len(v) + 1 : t[i] = v[i - 1]
    <3>1. PutRight(v, nr, q, t)
      BY <2>6, <2>7, <2>8, PutTyping
    <3> QED BY <3>1 DEF PutRight
  <2>10. ASSUME NEW i \in 1 .. n + 2 PROVE s[i] = t[i]
    <3>1. CASE i < q
      <4>1. i \in 1 .. q - 1 /\ i \in 1 .. n /\ i \in 1 .. n + 1
        BY <2>8, <3>1
      <4> QED BY <2>2, <2>4, <2>6, <2>9, <4>1
    <3>2. CASE i = q
      <4>1. i \in 1 .. n + 1
        BY <2>8, <3>2
      <4> QED BY <2>2, <2>4, <2>9, <3>2, <4>1
    <3>3. CASE i > q /\ i < n + 2
      <4>1. /\ i \in q + 1 .. Len(u) + 1 /\ i \in 1 .. n + 1 /\ i - 1 \in 1 .. n
            /\ i \in q + 1 .. Len(v) + 1
        BY <1>1, <2>6, <2>8, <3>3
      <4> QED BY <2>2, <2>4, <2>6, <2>9, <4>1
    <3>4. CASE i = n + 2
      <4>1. i \in q + 1 .. Len(v) + 1 /\ i - 1 = n + 1
        BY <1>1, <2>6, <2>8, <3>4
      <4> QED BY <2>4, <2>6, <2>9, <3>4, <4>1
    <3>5. i \in Int /\ q \in Int
      BY <2>8
    <3> QED BY <3>1, <3>2, <3>3, <3>4, <3>5
  <2>11. Len(t) = n + 2
    BY <2>6, <2>9
  <2>12. s = t
    BY <2>4, <2>9, <2>10, <2>11, ListsEqual
  <2> QED BY <2>1, <2>3, <2>5, <2>7, <2>12
<1> QED BY <1>2, <1>3

(* A place at which a rule would part two of one application.              *)
Split(list, i) == i > 1 /\ IsApp(list[i]) /\ App(list[i - 1]) = App(list[i])

(* The loop for a rule that is not there: where it goes.                   *)
WalkPlace(u, w, nr, pos) ==
    /\ w.last = IF u = <<>> THEN NoApp ELSE App(u[Len(u)])
    /\ ~w.found /\ ~w.matched
    /\ w.inserted => /\ w.new = Put(u, nr, w.pos)
                     /\ pos > 0 /\ w.pos \in pos .. Len(u) /\ ~Split(u, w.pos)
                     /\ \A i \in pos .. w.pos - 1 : Split(u, i)
    /\ ~w.inserted => /\ w.new = u
                      /\ pos > 0 => /\ \A i \in pos .. Len(u) : Split(u, i)
                                    /\ w.pos = IF pos > Len(u) THEN pos ELSE Len(u) + 1

(* The loop, at a rule of another slot than the one it is to put in.       *)
LEMMA WalkApart ==
    ASSUME NEW nr \in Rule, NEW remove, NEW a \in WalkStates(nr), NEW r \in Rule, Slot(r) # Slot(nr),
           NEW w, w = Walk(nr, remove, a, r),
           NEW splits, splits = (IsApp(r) /\ a.last = App(r))
    PROVE  /\ w.new = IF a.count = a.pos /\ ~splits THEN Append(Append(a.new, nr), r) ELSE Append(a.new, r)
           /\ w.pos = IF a.count = a.pos /\ splits THEN a.pos + 1 ELSE a.pos
           /\ w.last = App(r)
           /\ w.inserted <=> a.inserted \/ (a.count = a.pos /\ ~splits)
           /\ w.found <=> a.found
           /\ w.matched <=> a.matched
<1>1. Match(r, nr) = "none"
  BY MatchSlot
<1>2. PICK insert : insert = (a.count = a.pos /\ ~splits)
  OBVIOUS
<1>3. /\ w.new = a.new \o (IF insert THEN <<nr>> ELSE <<>>) \o <<r>>
      /\ w.pos = IF a.count = a.pos /\ splits THEN a.pos + 1 ELSE a.pos
      /\ w.last = App(r)
      /\ w.inserted <=> a.inserted \/ (a.count = a.pos /\ ~splits)
      /\ w.found <=> a.found
      /\ w.matched <=> a.matched
  BY <1>1, <1>2, Zenon DEF Walk
<1>4. a.new \in Seq(Rule)
  <2>1. Rule \cup {nr} = Rule
    OBVIOUS
  <2> QED BY <2>1 DEF WalkStates
<1>5. a.new \o <<nr>> \o <<r>> = Append(Append(a.new, nr), r) /\ a.new \o <<>> \o <<r>> = Append(a.new, r)
  BY <1>4
<1> QED BY <1>2, <1>3, <1>5

(* A place of a list is one of a longer list.                              *)
LEMMA SplitLonger ==
    ASSUME NEW u \in Seq(Rule), NEW r \in Rule
    PROVE  /\ \A i \in 1 .. Len(u) : Split(Append(u, r), i) <=> Split(u, i)
           /\ u # <<>> => (Split(Append(u, r), Len(u) + 1) <=> IsApp(r) /\ App(u[Len(u)]) = App(r))
<1>1. PICK n \in Nat : n = Len(u)
  OBVIOUS
<1>2. PICK v : v = Append(u, r)
  OBVIOUS
<1>3. v[n + 1] = r /\ \A i \in 1 .. n : v[i] = u[i]
  BY <1>1, <1>2
<1>4. ASSUME NEW i \in 1 .. n PROVE Split(v, i) <=> Split(u, i)
  <2>1. i > 1 => i - 1 \in 1 .. n
    OBVIOUS
  <2> QED BY <1>3, <2>1 DEF Split
<1>5. ASSUME u # <<>> PROVE Split(v, n + 1) <=> IsApp(r) /\ App(u[n]) = App(r)
  <2>1. n \in 1 .. n /\ n + 1 > 1 /\ n + 1 - 1 = n
    BY <1>1, <1>5
  <2> QED BY <1>3, <2>1 DEF Split
<1> QED BY <1>1, <1>2, <1>4, <1>5

(* By induction over the list, the loop puts a rule that is not there at   *)
(* the first place from its position that splits no application.           *)
LEMMA WalkedPlace ==
    ASSUME RuleListAssumption, NEW nr \in Rule, NEW pos \in Nat, NEW remove, NEW s \in Seq(Rule),
           Slot(nr) \notin Slots(s)
    PROVE  WalkPlace(s, Walked(s, nr, pos, remove), nr, pos)
<1> DEFINE P(u) == Slot(nr) \notin Slots(u) => WalkPlace(u, Walked(u, nr, pos, remove), nr, pos)
           T == {u \in Seq(Rule) : P(u)}
<1>1. P(<<>>)
  <2>1. Walked(<<>>, nr, pos, remove) = WalkStart(pos)
    BY <<>> \in Seq(Rule), WalkedFold DEF WalkedRight
  <2>2. PICK w : w = WalkStart(pos)
    OBVIOUS
  <2>3. w.pos = pos /\ ~w.inserted /\ ~w.matched /\ ~w.found /\ w.last = NoApp /\ w.new = <<>>
    BY <2>2, Zenon DEF WalkStart
  <2>4. pos > 0 => pos > Len(<<>>) /\ \A i \in pos .. Len(<<>>) : FALSE
    OBVIOUS
  <2> QED BY <2>1, <2>2, <2>3, <2>4 DEF WalkPlace
<1>2. ASSUME NEW u \in Seq(Rule), NEW r \in Rule, P(u) PROVE P(Append(u, r))
  <2> SUFFICES ASSUME Slot(nr) \notin Slots(Append(u, r))
               PROVE  WalkPlace(Append(u, r), Walked(Append(u, r), nr, pos, remove), nr, pos)
    OBVIOUS
  <2>1. PICK v : v = Append(u, r)
    OBVIOUS
  <2>2. PICK a : a = Walked(u, nr, pos, remove)
    OBVIOUS
  <2>3. PICK w : w = Walked(v, nr, pos, remove)
    OBVIOUS
  <2>4. PICK n \in Nat : n = Len(u)
    OBVIOUS
  <2>5. Len(v) = n + 1 /\ v # <<>> /\ v[n + 1] = r
    BY <2>1, <2>4
  <2>6. Slot(r) # Slot(nr) /\ Slot(nr) \notin Slots(u)
    BY SlotsAppend
  <2>7. a \in WalkStates(nr) /\ w = Walk(nr, remove, a, r)
    BY <2>1, <2>2, <2>3, WalkedStep
  <2>8. WalkBasics(u, a, nr, pos, remove)
    BY <2>2, WalkedBasics
  <2>9. WalkPlace(u, a, nr, pos)
    BY <1>2, <2>2, <2>6
  <2>10. a.pos \in Nat /\ a.count = n + 1
    BY <2>4, <2>7, <2>8 DEF WalkStates, WalkBasics
  <2>11. PICK splits : splits = (IsApp(r) /\ a.last = App(r))
    OBVIOUS
  <2>12. /\ w.new = IF a.count = a.pos /\ ~splits THEN Append(Append(a.new, nr), r) ELSE Append(a.new, r)
         /\ w.pos = IF a.count = a.pos /\ splits THEN a.pos + 1 ELSE a.pos
         /\ w.last = App(r)
         /\ w.inserted <=> a.inserted \/ (a.count = a.pos /\ ~splits)
         /\ w.found <=> a.found
         /\ w.matched <=> a.matched
    BY <2>6, <2>7, <2>11, WalkApart
  <2>13. splits <=> Split(v, n + 1)
    <3>1. CASE u = <<>>
      <4>1. a.last = NoApp
        BY <2>9, <3>1 DEF WalkPlace
      <4>2. ~splits
        <5>1. IsApp(r) => App(r) \in Profile
          BY DEF App, Profile, IsApp
        <5> QED BY <2>11, <4>1, <5>1 DEF RuleListAssumption
      <4>3. ~Split(v, n + 1)
        BY <2>4, <3>1 DEF Split
      <4> QED BY <4>2, <4>3
    <3>2. CASE u # <<>>
      <4>1. a.last = App(u[n])
        BY <2>4, <2>9, <3>2 DEF WalkPlace
      <4>2. Split(v, n + 1) <=> IsApp(r) /\ App(u[n]) = App(r)
        BY <2>1, <2>4, <3>2, SplitLonger
      <4> QED BY <2>11, <4>1, <4>2
    <3> QED BY <3>1, <3>2
  <2>14. \A i \in 1 .. n : Split(v, i) <=> Split(u, i)
    BY <2>1, <2>4, SplitLonger
  <2>15. ~w.found /\ ~w.matched /\ w.last = IF v = <<>> THEN NoApp ELSE App(v[Len(v)])
    BY <2>5, <2>9, <2>12 DEF WalkPlace
  <2>16. ASSUME a.inserted PROVE WalkPlace(v, w, nr, pos)
    <3>1. /\ a.new = Put(u, nr, a.pos)
          /\ pos > 0 /\ a.pos \in pos .. n /\ ~Split(u, a.pos)
          /\ \A i \in pos .. a.pos - 1 : Split(u, i)
      BY <2>4, <2>9, <2>16 DEF WalkPlace
    <3>2. a.pos # a.count /\ a.pos \in 1 .. n + 1 /\ a.pos \in 1 .. n
      BY <2>10, <3>1
    <3>3. w.inserted /\ w.pos = a.pos /\ w.new = Append(a.new, r)
      BY <2>12, <2>16, <3>2
    <3>4. w.new = Put(v, nr, w.pos)
      BY <2>1, <2>4, <3>1, <3>2, <3>3, PutLonger
    <3>5. \A i \in pos .. a.pos - 1 : Split(v, i)
      <4>1. \A i \in pos .. a.pos - 1 : i \in 1 .. n
        BY <3>1, <3>2
      <4> QED BY <2>14, <3>1, <4>1
    <3>6. ~Split(v, w.pos) /\ w.pos \in pos .. n + 1
      BY <2>14, <3>1, <3>2, <3>3
    <3> QED BY <2>5, <2>15, <3>1, <3>3, <3>4, <3>5, <3>6 DEF WalkPlace
  <2>17. ASSUME ~a.inserted /\ a.count = a.pos /\ ~splits PROVE WalkPlace(v, w, nr, pos)
    <3>1. a.new = u /\ pos > 0 /\ a.pos = n + 1
      <4>1. pos = 0 => a.pos = 0
        BY <2>8 DEF WalkBasics
      <4> QED BY <2>9, <2>10, <2>17, <4>1 DEF WalkPlace
    <3>2. pos <= n + 1 /\ \A i \in pos .. n : Split(u, i)
      BY <2>4, <2>9, <2>17, <3>1 DEF WalkPlace
    <3>3. w.inserted /\ w.pos = n + 1 /\ w.new = Append(Append(u, nr), r)
      BY <2>10, <2>12, <2>17, <3>1
    <3>4. w.new = Put(v, nr, n + 1)
      <4>1. Append(u, nr) = Put(u, nr, n + 1) /\ n + 1 \in 1 .. n + 1
        BY <2>4, PutLonger
      <4> QED BY <2>1, <2>4, <3>3, <4>1, PutLonger
    <3>5. \A i \in pos .. n + 1 - 1 : Split(v, i)
      <4>1. \A i \in pos .. n + 1 - 1 : i \in 1 .. n /\ i \in pos .. n
        BY <3>1
      <4> QED BY <2>14, <3>2, <4>1
    <3>6. ~Split(v, n + 1) /\ n + 1 \in pos .. n + 1
      BY <2>13, <2>17, <3>2
    <3> QED BY <2>5, <2>15, <3>1, <3>3, <3>4, <3>5, <3>6 DEF WalkPlace
  <2>18. ASSUME ~a.inserted /\ ~(a.count = a.pos /\ ~splits) PROVE WalkPlace(v, w, nr, pos)
    <3>1. ~w.inserted /\ w.new = Append(a.new, r) /\ a.new = u
      BY <2>9, <2>12, <2>18 DEF WalkPlace
    <3>2. ASSUME pos > 0
          PROVE  /\ \A i \in pos .. n + 1 : Split(v, i)
                 /\ w.pos = IF pos > n + 1 THEN pos ELSE n + 2
      <4>1. /\ \A i \in pos .. n : Split(u, i)
            /\ a.pos = IF pos > n THEN pos ELSE n + 1
        BY <2>4, <2>9, <2>18, <3>2 DEF WalkPlace
      <4>2. \A i \in pos .. n : Split(v, i)
        <5>1. \A i \in pos .. n : i \in 1 .. n
          BY <3>2
        <5> QED BY <2>14, <4>1, <5>1
      <4>3. CASE pos > n + 1
        <5>1. w.pos = pos
          BY <2>10, <2>12, <4>1, <4>3
        <5> QED BY <4>3, <5>1
      <4>4. CASE ~(pos > n + 1)
        <5>1. a.pos = n + 1 /\ a.count = a.pos
          BY <2>10, <4>1, <4>4
        <5>2. Split(v, n + 1) /\ w.pos = n + 2
          BY <2>12, <2>13, <2>18, <5>1
        <5> QED BY <4>2, <4>4, <5>2
      <4> QED BY <4>3, <4>4
    <3>3. w.new = v
      BY <2>1, <3>1
    <3>4. pos > 0 => /\ \A i \in pos .. Len(v) : Split(v, i)
                     /\ w.pos = IF pos > Len(v) THEN pos ELSE Len(v) + 1
      <4>1. n + 1 + 1 = n + 2
        OBVIOUS
      <4> QED BY ONLY <2>5, <3>2, <4>1
    <3> QED BY ONLY <2>15, <3>1, <3>3, <3>4 DEF WalkPlace
  <2>19. WalkPlace(v, w, nr, pos)
    BY <2>16, <2>17, <2>18
  <2> QED BY <2>1, <2>3, <2>19
<1>3. Seq(Rule) \subseteq T
  <2>1. <<>> \in T
    BY <1>1
  <2>2. ASSUME NEW u \in Seq(Rule), NEW r \in Rule, u \in T PROVE Append(u, r) \in T
    <3>1. Append(u, r) \in Seq(Rule)
      OBVIOUS
    <3> HIDE DEF P
    <3> QED BY <1>2, <2>2, <3>1
  <2> HIDE DEF T
  <2> QED BY <2>1, <2>2, ListInduction
<1> HIDE DEF P
<1>4. P(s)
  BY <1>3
<1> QED BY <1>4 DEF P

(* The place that a rule takes that setRuleEngine puts at a position.      *)
Place(list, pos, q) ==
    /\ q \in 1 .. Len(list) + 1
    /\ pos = 0 => q = Len(list) + 1
    /\ pos > 0 => /\ \A i \in pos .. q - 1 : Split(list, i)
                  /\ q <= Len(list) => q >= pos /\ ~Split(list, q)

(* So setRuleEngine puts it in that place, at the end if there is none.    *)
LEMMA EnginePut ==
    ASSUME RuleListAssumption, NEW list \in Seq(Rule), NEW nr \in Rule, NEW pos \in 0 .. Len(list),
           Slot(nr) \notin Slots(list)
    PROVE  \E q : Place(list, pos, q) /\ setRuleEngine(list, nr, pos, FALSE).list = Put(list, nr, q)
<1>1. PICK end : end = Walked(list, nr, pos, FALSE)
  OBVIOUS
<1>2. PICK c : c = setRuleEngine(list, nr, pos, FALSE)
  OBVIOUS
<1>3. PICK n \in Nat : n = Len(list)
  OBVIOUS
<1>4. pos \in Nat /\ pos <= n
  BY <1>3
<1>5. WalkPlace(list, end, nr, pos)
  BY <1>1, <1>4, WalkedPlace
<1>6. WalkBasics(list, end, nr, pos, FALSE)
  BY <1>1, <1>4, WalkedBasics
<1>7. c = Concluded(list, nr, FALSE, end)
  BY <1>1, <1>2 DEF setRuleEngine
<1>8. CASE end.inserted
  <2>1. c = Outcome(end.new, "inserted")
    BY <1>5, <1>7, <1>8 DEF Concluded, WalkPlace
  <2>2. c.list = Put(list, nr, end.pos)
    BY <1>5, <1>8, <2>1 DEF WalkPlace, Outcome
  <2>3. Place(list, pos, end.pos)
    BY <1>3, <1>4, <1>5, <1>8 DEF WalkPlace, Place
  <2> QED BY <1>2, <2>2, <2>3
<1>9. CASE ~end.inserted
  <2>1. c = Outcome(Append(end.new, nr), "added") /\ end.new = list
    BY <1>5, <1>7, <1>9 DEF Concluded, WalkPlace
  <2>2. c.list = Put(list, nr, n + 1)
    <3>1. Append(list, nr) = Put(list, nr, n + 1)
      BY <1>3, PutLonger
    <3> QED BY <2>1, <3>1 DEF Outcome
  <2>3. Place(list, pos, n + 1)
    <3>1. pos > 0 => \A i \in pos .. n + 1 - 1 : Split(list, i)
      BY <1>3, <1>5, <1>9 DEF WalkPlace
    <3> QED BY <1>3, <3>1 DEF Place
  <2> QED BY <1>2, <2>2, <2>3
<1> QED BY <1>8, <1>9

(* What the loop makes of a list into which it puts nothing is within it.  *)
LEMMA WalkedWithin ==
    ASSUME NEW nr, NEW pos \in Nat, NEW remove, Proper(nr, pos, remove), NEW s \in Seq(Rule)
    PROVE  LET w == Walked(s, nr, pos, remove)
           IN  w.inserted \/ Within(w.new, s)
<1> DEFINE W(u) == Walked(u, nr, pos, remove)
           P(u) == W(u).inserted \/ Within(W(u).new, u)
           T == {u \in Seq(Rule) : P(u)}
<1>1. P(<<>>)
  <2>1. W(<<>>) = WalkStart(pos)
    BY <<>> \in Seq(Rule), WalkedFold DEF WalkedRight
  <2>3. PICK b : b = WalkStart(pos)
    OBVIOUS
  <2>4. b.new = <<>>
    BY <2>3, Zenon DEF WalkStart
  <2>2. W(<<>>).new = <<>>
    BY <2>1, <2>3, <2>4
  <2> HIDE DEF W
  <2> QED BY <2>2, WithinItself
<1>2. ASSUME NEW u \in Seq(Rule), NEW r \in Rule, P(u) PROVE P(Append(u, r))
  <2>1. PICK a : a = W(u)
    OBVIOUS
  <2>2. PICK w : w = W(Append(u, r))
    OBVIOUS
  <2>3. WalkStep(a, w, nr, remove, r)
    BY <2>1, <2>2, WalkedStep
  <2>4. a.new \in Seq(Rule)
    BY <2>1, WalkedList DEF WalkList
  <2> HIDE DEF W
  <2> SUFFICES ASSUME ~w.inserted PROVE Within(w.new, Append(u, r))
    BY <2>2
  <2>5. PICK mid :
             /\ \/ mid = a.new /\ (w.inserted <=> a.inserted) /\ (a.count = a.pos => w.pos = a.pos + 1)
                \/ mid = Append(a.new, nr) /\ w.inserted /\ a.count = a.pos /\ w.pos = a.pos
             /\ \/ w.new = mid /\ Slot(r) = Slot(nr)
                \/ w.new = Append(mid, nr) /\ Slot(r) = Slot(nr) /\ ~remove
                \/ w.new = Append(mid, r)
    BY <2>3, Zenon DEF WalkStep
  <2>6. mid = a.new /\ ~a.inserted
    BY <2>5
  <2>7. Within(a.new, u)
    BY <1>2, <2>1, <2>6
  <2>8. CASE w.new = mid
    BY <2>4, <2>6, <2>7, <2>8, WithinLonger
  <2>9. CASE w.new = Append(mid, nr) /\ Slot(r) = Slot(nr) /\ ~remove
    <3>1. nr \in Rule
      BY <2>9 DEF Proper
    <3> QED BY <2>4, <2>6, <2>7, <2>9, <3>1, WithinAppend
  <2>10. CASE w.new = Append(mid, r)
    BY <2>4, <2>6, <2>7, <2>10, WithinAppend
  <2> QED BY <2>5, <2>8, <2>9, <2>10
<1>3. Seq(Rule) \subseteq T
  <2>1. <<>> \in T
    BY <1>1
  <2>2. ASSUME NEW u \in Seq(Rule), NEW r \in Rule, u \in T PROVE Append(u, r) \in T
    <3>1. Append(u, r) \in Seq(Rule)
      OBVIOUS
    <3> HIDE DEF P
    <3> QED BY <1>2, <2>2, <3>1
  <2> HIDE DEF T
  <2> QED BY <2>1, <2>2, ListInduction
<1> HIDE DEF P
<1>4. P(s)
  BY <1>3
<1> QED BY <1>4 DEF P

(* A rule that is there, or is to be deleted, brings no place.             *)
LEMMA EngineWithin ==
    ASSUME NEW list \in Seq(Rule), NEW nr, NEW pos \in Nat, NEW remove, Proper(nr, pos, remove),
           (remove /\ pos = 0) \/ (~remove /\ Slot(nr) \in Slots(list))
    PROVE  Within(setRuleEngine(list, nr, pos, remove).list, list)
<1>1. PICK end : end = Walked(list, nr, pos, remove)
  OBVIOUS
<1>2. PICK c : c = setRuleEngine(list, nr, pos, remove)
  OBVIOUS
<1>3. WalkBasics(list, end, nr, pos, remove)
  BY <1>1, WalkedBasics
<1>4. end.inserted \/ Within(end.new, list)
  BY <1>1, WalkedWithin
<1>5. c = Concluded(list, nr, remove, end)
  BY <1>1, <1>2 DEF setRuleEngine
<1>6. ConcludedList(list, nr, remove, end, c)
  BY <1>5, ConcludedShape
<1>7. ASSUME c.list = end.new /\ (end.inserted => ~end.matched) PROVE Within(c.list, list)
  BY <1>3, <1>4, <1>7 DEF WalkBasics
<1>8. ~(c.list = Append(end.new, nr) /\ ~end.inserted /\ ~remove /\ ~end.found)
  BY <1>3 DEF WalkBasics
<1>9. Within(c.list, list)
  BY <1>6, <1>7, <1>8, WithinItself DEF ConcludedList
<1> QED BY <1>2, <1>9

(* Nor does the deletion of an application.                                *)
LEMMA DeletedWithin ==
    ASSUME NEW start \in Halves, NEW nr, NEW k, NEW members \in Seq(Named(k))
    PROVE  Within(Deleted(start, nr, members).list, start.list)
<1> DEFINE D(s) == Deleted(start, nr, s)
           P(s) == Within(D(s).list, start.list)
           T == {s \in Seq(Named(k)) : P(s)}
<1>0. start.list \in Seq(Rule)
  BY DEF Halves
<1>1. P(<<>>)
  <2>1. D(<<>>) = start
    BY <<>> \in Seq(Named(k)), DeletedFold DEF DeletedRight
  <2> HIDE DEF D
  <2> QED BY <2>1, WithinItself
<1>2. ASSUME NEW s \in Seq(Named(k)), NEW r \in Named(k), P(s) PROVE P(Append(s, r))
  <2>1. DeletedRight(s, start, nr, k)
    BY DeletedFold
  <2>2. PICK a : a = D(s)
    OBVIOUS
  <2>3. D(Append(s, r)) = DeleteMember(a, r, nr) /\ a \in Halves
    BY <2>1, <2>2 DEF DeletedRight
  <2> HIDE DEF D
  <2>4. a.list \in Seq(Rule) /\ Within(a.list, start.list)
    BY <1>2, <2>2, <2>3 DEF Halves
  <2>5. CASE a.outcome = "notFound"
    <3>1. DeleteMember(a, r, nr) = a
      BY <2>5 DEF DeleteMember
    <3> QED BY <2>3, <2>4, <3>1
  <2>6. CASE a.outcome # "notFound"
    <3>1. PICK x : x = [r EXCEPT !.act.verdict = nr.act.verdict]
      OBVIOUS
    <3>2. PICK t : t = TRUE
      OBVIOUS
    <3>3. DeleteMember(a, r, nr) = setRuleEngine(a.list, x, 0, t)
      BY <2>6, <3>1, <3>2, Zenon DEF DeleteMember
    <3>4. Proper(x, 0, t)
      BY <3>2 DEF Proper
    <3>5. PICK new : new = DeleteMember(a, r, nr).list
      OBVIOUS
    <3>6. Within(new, a.list)
      BY <2>4, <3>2, <3>3, <3>4, <3>5, EngineWithin
    <3>7. Within(new, start.list)
      BY <2>4, <3>6, WithinTwice
    <3> QED BY <2>3, <3>5, <3>7
  <2> QED BY <2>5, <2>6
<1>3. Seq(Named(k)) \subseteq T
  <2>1. <<>> \in T
    BY <1>1
  <2>2. ASSUME NEW s \in Seq(Named(k)), NEW r \in Named(k), s \in T PROVE Append(s, r) \in T
    <3>1. Append(s, r) \in Seq(Named(k))
      OBVIOUS
    <3> HIDE DEF P
    <3> QED BY <1>2, <2>2, <3>1
  <2> HIDE DEF T
  <2> QED BY <2>1, <2>2, ListInduction
<1>5. P(members)
  <2> HIDE DEF P
  <2> QED BY <1>3
<1> QED BY <1>5

(* So it is for applyHalf,                                                 *)
LEMMA HalfWithin ==
    ASSUME NEW list \in Seq(Rule), NEW nr, NEW pos \in Int, NEW remove \in BOOLEAN,
           remove \/ (nr \in Rule /\ Slot(nr) \in Slots(list))
    PROVE  Within(applyHalf(list, nr, pos, remove).list, list)
<1> DEFINE c == applyHalf(list, nr, pos, remove)
<1> SUFFICES Within(c.list, list)
  OBVIOUS
<1>1. CASE (pos < 0 \/ pos > Len(list)) \/ (pos > 0 /\ remove)
  <2>1. c = Outcome(list, "error")
    BY <1>1 DEF applyHalf
  <2> QED BY <2>1, WithinItself DEF Outcome
<1>2. CASE ~(pos < 0 \/ pos > Len(list)) /\ ~(pos > 0 /\ remove) /\ remove /\ IsApp(nr)
  <2> DEFINE members == OfKeys(list, {nr.key})
             start == Outcome(list, IF members = <<>> THEN "notFound" ELSE "")
  <2>1. c = Deleted(start, nr, members)
    BY <1>2, Zenon DEF applyHalf, DeleteApp, Deleted
  <2>2. start \in Halves /\ start.list = list
    BY DEF Outcome, Outcomes, Halves
  <2>3. members \in Seq(Named(nr.key))
    BY OfKeysNamed
  <2> HIDE DEF start, members, c
  <2> QED BY <2>1, <2>2, <2>3, DeletedWithin
<1>3. CASE ~(pos < 0 \/ pos > Len(list)) /\ ~(pos > 0 /\ remove) /\ ~(remove /\ IsApp(nr))
  <2>1. c = setRuleEngine(list, nr, pos, remove)
    BY <1>3, Zenon DEF applyHalf
  <2>2. Proper(nr, pos, remove) /\ pos \in Nat /\ (remove => pos = 0)
    BY <1>3 DEF Proper
  <2> HIDE DEF c
  <2> QED BY <2>1, <2>2, EngineWithin
<1> QED BY <1>1, <1>2, <1>3

(* which puts a rule that is not there in one place.                       *)
HalfPlaced(list, nr, pos, c) ==
    \/ c.outcome = "error" /\ c.list = list /\ pos \notin 0 .. Len(list)
    \/ pos \in 0 .. Len(list) /\ \E q : Place(list, pos, q) /\ c.list = Put(list, nr, q)

(* A half either fails for its position or does that.                      *)
LEMMA HalfPut ==
    ASSUME RuleListAssumption, NEW list \in Seq(Rule), NEW nr \in Rule, NEW pos \in Int,
           Slot(nr) \notin Slots(list), NEW c, NEW remove, remove = FALSE,
           c = applyHalf(list, nr, pos, remove)
    PROVE  HalfPlaced(list, nr, pos, c)
<1>1. CASE pos < 0 \/ pos > Len(list)
  <2>1. c = Outcome(list, "error")
    BY <1>1 DEF applyHalf
  <2>2. c.outcome = "error" /\ c.list = list
    BY ONLY <2>1 DEF Outcome
  <2>3. pos \notin 0 .. Len(list)
    BY <1>1
  <2> QED BY <2>2, <2>3 DEF HalfPlaced
<1>2. CASE ~(pos < 0 \/ pos > Len(list))
  <2>1. c = setRuleEngine(list, nr, pos, FALSE)
    <3>1. c = setRuleEngine(list, nr, pos, remove)
      BY <1>2, Zenon DEF applyHalf
    <3> QED BY <3>1
  <2>2. pos \in 0 .. Len(list)
    BY <1>2
  <2>3. \E q : Place(list, pos, q) /\ setRuleEngine(list, nr, pos, FALSE).list = Put(list, nr, q)
    BY <2>2, EnginePut
  <2>4. \E q : Place(list, pos, q) /\ c.list = Put(list, nr, q)
    BY <2>1, <2>3
  <2> QED BY <2>2, <2>4 DEF HalfPlaced
<1> QED BY <1>1, <1>2

(* In its place a rule parts no application.                               *)
LEMMA PlaceWhole ==
    ASSUME NEW list \in Seq(Rule), Whole(list), NEW pos \in Nat, NEW q, Place(list, pos, q),
           NEW i \in 1 .. q - 1, NEW j \in q .. Len(list), IsApp(list[i])
    PROVE  list[i].key # list[j].key
<1> SUFFICES ASSUME list[i].key = list[j].key PROVE FALSE
  OBVIOUS
<1>1. PICK n \in Nat : n = Len(list) /\ DOMAIN list = 1 .. n
  OBVIOUS
<1>2. q \in 1 .. n + 1 /\ q <= n /\ pos > 0 /\ ~Split(list, q)
  BY <1>1 DEF Place
<1>3. i \in 1 .. n /\ j \in 1 .. n /\ i < j /\ q \in i .. j /\ q - 1 \in i .. j /\ q > 1
  BY <1>1, <1>2
<1>4. list[q].key = list[i].key /\ list[q - 1].key = list[i].key
  BY <1>1, <1>3 DEF Whole
<1>5. Split(list, q)
  BY <1>3, <1>4 DEF Split, IsApp, App
<1> QED BY <1>2, <1>5

(* A half leaves whole groups whole, unless there are rules of the group   *)
(* of the rule that it puts there.                                         *)
LEMMA HalfWhole ==
    ASSUME RuleListAssumption, NEW list \in Seq(Rule), Whole(list), NEW nr, NEW pos \in Int,
           NEW remove \in BOOLEAN, remove \/ nr \in Rule,
           ~remove /\ IsApp(nr) => nr.key \notin Keys(list)
    PROVE  Whole(applyHalf(list, nr, pos, remove).list)
<1>1. PICK c : c = applyHalf(list, nr, pos, remove)
  OBVIOUS
<1>2. c.list \in Seq(Rule)
  <2>1. c \in Halves
    BY <1>1, HalfKept
  <2> QED BY <2>1 DEF Halves
<1>3. CASE remove \/ Slot(nr) \in Slots(list)
  <2>1. Within(c.list, list)
    BY <1>1, <1>3, HalfWithin
  <2> QED BY <1>1, <1>2, <2>1, WithinWhole
<1>4. CASE ~remove /\ Slot(nr) \notin Slots(list)
  <2>1. nr \in Rule /\ remove = FALSE
    BY <1>4
  <2>2. CASE c.list = list
    BY <1>1, <2>2
  <2>3. ASSUME NEW q, pos \in 0 .. Len(list), Place(list, pos, q), c.list = Put(list, nr, q)
        PROVE  Whole(c.list)
    <3>1. nr \in Rule /\ q \in 1 .. Len(list) + 1
      BY <1>4, <2>3 DEF Place
    <3>2. \A i \in 1 .. q - 1, j \in q .. Len(list) :
              IsApp(list[i]) /\ list[i].key = list[j].key => list[i].key = nr.key
      <4>1. pos \in Nat
        BY <2>3
      <4>2. ASSUME NEW i \in 1 .. q - 1, NEW j \in q .. Len(list), IsApp(list[i])
            PROVE  list[i].key # list[j].key
        BY ONLY <2>3, <4>1, <4>2, PlaceWhole, list \in Seq(Rule), Whole(list)
      <4> QED BY ONLY <4>2
    <3>3. IsApp(nr) => nr.key \notin Keys(list)
      BY <1>4
    <3> QED BY <2>3, <3>1, <3>2, <3>3, PutWhole
  <2>4. HalfPlaced(list, nr, pos, c)
    BY <1>1, <1>4, <2>1, HalfPut
  <2> QED BY <1>1, <2>2, <2>3, <2>4 DEF HalfPlaced
<1> QED BY <1>3, <1>4

(* The rules of a group are all between two places, and what was put at a  *)
(* position comes next to them: what is between is split already.          *)
IsStretch(list, k, pos, b, e) ==
    /\ b \in 1 .. e /\ e \in 1 .. Len(list)
    /\ \A i \in 1 .. Len(list) : list[i].key = k <=> i \in b .. e
    /\ pos = 0 => e = Len(list)
    /\ pos > 0 => /\ pos <= b
                  /\ \A i \in pos .. b - 1 : Split(list, i)
                  /\ ~(b > 1 /\ e < Len(list)
                       /\ App(list[b - 1]) = profileOf[k] /\ App(list[e + 1]) = profileOf[k])
Stretch(list, k, pos) == \E b, e : IsStretch(list, k, pos, b, e)

(* The first rule of a group is a stretch of one,                          *)
LEMMA FirstStretch ==
    ASSUME RuleListAssumption, NEW list \in Seq(Rule), NEW nr \in Rule, IsApp(nr),
           nr.key \notin Keys(list), NEW pos \in 0 .. Len(list) + 1, NEW q, Place(list, pos, q)
    PROVE  Stretch(Put(list, nr, q), nr.key, pos)
<1>1. PICK n \in Nat : n = Len(list) /\ DOMAIN list = 1 .. n
  OBVIOUS
<1>2. PICK p : p = Put(list, nr, q)
  OBVIOUS
<1>3. q \in 1 .. n + 1 /\ q \in 1 .. Len(list) + 1
  BY <1>1 DEF Place
<1>4. PutRight(list, nr, q, p)
  BY <1>2, <1>3, PutTyping
<1>5. /\ Len(p) = n + 1 /\ p[q] = nr
      /\ \A i \in 1 .. q - 1 : i \in 1 .. n /\ p[i] = list[i]
      /\ \A i \in q + 1 .. n + 1 : i - 1 \in 1 .. n /\ p[i] = list[i - 1]
  BY <1>1, <1>4 DEF PutRight
<1>6. \A i \in 1 .. n : list[i].key # nr.key
  BY <1>1 DEF Keys
<1>7. \A i \in 1 .. n + 1 : p[i].key = nr.key <=> i \in q .. q
  <2> SUFFICES ASSUME NEW i \in 1 .. n + 1 PROVE p[i].key = nr.key <=> i = q
    BY <1>3
  <2>1. i \in 1 .. q - 1 \/ i = q \/ i \in q + 1 .. n + 1
    BY <1>3
  <2> QED BY <1>3, <1>5, <1>6, <2>1
<1>8. ASSUME pos > 0
      PROVE  /\ pos <= q
             /\ \A i \in pos .. q - 1 : Split(p, i)
             /\ ~(q > 1 /\ q < n + 1
                  /\ App(p[q - 1]) = profileOf[nr.key] /\ App(p[q + 1]) = profileOf[nr.key])
  <2>1. pos <= q
    BY <1>1, <1>3, <1>8 DEF Place
  <2>2. ASSUME NEW i \in pos .. q - 1 PROVE Split(p, i)
    <3>1. Split(list, i)
      BY <1>8, <2>2 DEF Place
    <3>2. i > 1 /\ i \in 1 .. q - 1 /\ i - 1 \in 1 .. q - 1
      BY <1>3, <1>8, <3>1 DEF Split
    <3>3. p[i] = list[i] /\ p[i - 1] = list[i - 1]
      BY <1>5, <3>2
    <3> QED BY <3>1, <3>3 DEF Split
  <2>3. ASSUME q > 1, q < n + 1, App(p[q - 1]) = profileOf[nr.key], App(p[q + 1]) = profileOf[nr.key]
        PROVE  FALSE
    <3>1. q - 1 \in 1 .. q - 1 /\ q + 1 \in q + 1 .. n + 1 /\ q + 1 - 1 = q
      BY <1>3, <2>3
    <3>2. p[q - 1] = list[q - 1] /\ p[q + 1] = list[q]
      <4>1. PICK m : m = q + 1
        OBVIOUS
      <4>2. m \in q + 1 .. n + 1 /\ m - 1 = q
        BY <1>3, <2>3, <4>1
      <4>3. p[m] = list[m - 1]
        BY <1>5, <4>2
      <4>4. p[q - 1] = list[q - 1]
        BY <1>5, <3>1
      <4> QED BY <4>1, <4>2, <4>3, <4>4
    <3>3. IsApp(list[q])
      <4>1. profileOf[nr.key] # NoApp
        BY DEF RuleListAssumption, IsApp, Profile
      <4> QED BY <2>3, <3>2, <4>1 DEF App
    <3>4. Split(list, q)
      BY <2>3, <3>2, <3>3 DEF Split
    <3> QED BY <1>1, <1>3, <1>8, <2>3, <3>4 DEF Place
  <2> QED BY <2>1, <2>2, <2>3
<1>9. pos = 0 => q = n + 1
  BY <1>1 DEF Place
<1>10. IsStretch(p, nr.key, pos, q, q)
  BY <1>3, <1>5, <1>7, <1>8, <1>9 DEF IsStretch
<1> QED BY <1>2, <1>10 DEF Stretch

(* and another one makes the stretch longer.                               *)
LEMMA NextStretch ==
    ASSUME RuleListAssumption, NEW list \in Seq(Rule), NEW nr \in Rule, IsApp(nr), Whole(list),
           NEW pos \in Nat, NEW q, Place(list, pos, q), Stretch(list, nr.key, pos)
    PROVE  Whole(Put(list, nr, q)) /\ Stretch(Put(list, nr, q), nr.key, pos)
<1>1. PICK n \in Nat : n = Len(list) /\ DOMAIN list = 1 .. n
  OBVIOUS
<1>2. PICK p : p = Put(list, nr, q)
  OBVIOUS
<1>3. q \in 1 .. n + 1 /\ q \in 1 .. Len(list) + 1
  BY <1>1 DEF Place
<1>4. PutRight(list, nr, q, p)
  BY <1>2, <1>3, PutTyping
<1>5. /\ Len(p) = n + 1 /\ p[q] = nr
      /\ \A i \in 1 .. q - 1 : i \in 1 .. n /\ p[i] = list[i]
      /\ \A i \in q + 1 .. n + 1 : i - 1 \in 1 .. n /\ p[i] = list[i - 1]
  BY <1>1, <1>4 DEF PutRight
<1>6. PICK k : k = nr.key
  OBVIOUS
<1>7. PICK b, e : IsStretch(list, k, pos, b, e)
  BY <1>6 DEF Stretch
<1>8. /\ b \in 1 .. e /\ e \in 1 .. n
      /\ \A i \in 1 .. n : list[i].key = k <=> i \in b .. e
      /\ pos = 0 => e = n
  BY <1>1, <1>7 DEF IsStretch
<1>9. \A i \in b .. e : i \in 1 .. n /\ IsApp(list[i]) /\ App(list[i]) = profileOf[k]
  <2>1. \A i \in b .. e : i \in 1 .. n
    BY <1>8
  <2> QED BY <1>6, <1>8, <2>1 DEF IsApp, App
<1>10. ASSUME pos > 0
       PROVE  /\ pos <= b /\ \A i \in pos .. b - 1 : Split(list, i)
              /\ ~(b > 1 /\ e < n /\ App(list[b - 1]) = profileOf[k] /\ App(list[e + 1]) = profileOf[k])
              /\ \A i \in pos .. q - 1 : Split(list, i)
              /\ q <= n => q >= pos /\ ~Split(list, q)
  <2>1. /\ pos <= b /\ \A i \in pos .. b - 1 : Split(list, i)
        /\ ~(b > 1 /\ e < n /\ App(list[b - 1]) = profileOf[k] /\ App(list[e + 1]) = profileOf[k])
    BY <1>1, <1>7, <1>10 DEF IsStretch
  <2>2. /\ \A i \in pos .. q - 1 : Split(list, i)
        /\ q <= n => q >= pos /\ ~Split(list, q)
    BY <1>1, <1>10 DEF Place
  <2> QED BY <2>1, <2>2
<1>11. q = b \/ q = e + 1
  <2>1. CASE pos = 0
    BY <1>1, <1>8, <2>1 DEF Place
  <2>2. CASE pos > 0
    <3>1. ~(q < b)
      <4> SUFFICES ASSUME q < b PROVE FALSE
        OBVIOUS
      <4>1. q <= n /\ q \in pos .. b - 1
        BY <1>3, <1>8, <1>10, <2>2
      <4> QED BY <1>10, <2>2, <4>1
    <3>2. ~(q \in b + 1 .. e)
      <4> SUFFICES ASSUME q \in b + 1 .. e PROVE FALSE
        OBVIOUS
      <4>1. q \in b .. e /\ q - 1 \in b .. e /\ q <= n /\ q > 1
        BY <1>8
      <4>2. Split(list, q)
        BY <1>9, <4>1 DEF Split
      <4> QED BY <1>10, <2>2, <4>1, <4>2
    <3>3. ~(q > e + 1)
      <4> SUFFICES ASSUME q > e + 1 PROVE FALSE
        OBVIOUS
      <4>1. e + 1 \in pos .. q - 1 /\ b \in pos .. q - 1 /\ e < n /\ b \in b .. e /\ e \in b .. e /\ e + 1 - 1 = e
        BY <1>3, <1>8, <1>10, <2>2
      <4>2. Split(list, e + 1) /\ Split(list, b)
        BY <1>10, <2>2, <4>1
      <4>3. App(list[e]) = profileOf[k] /\ App(list[b]) = profileOf[k]
        BY <1>9, <4>1
      <4>4. b > 1 /\ App(list[b - 1]) = profileOf[k] /\ App(list[e + 1]) = profileOf[k]
        BY <4>1, <4>2, <4>3 DEF Split
      <4> QED BY <1>10, <2>2, <4>1, <4>4
    <3> QED BY <1>3, <1>8, <3>1, <3>2, <3>3
  <2> QED BY <2>1, <2>2
<1>12. Whole(p)
  <2>1. \A i \in 1 .. q - 1, j \in q .. Len(list) :
            IsApp(list[i]) /\ list[i].key = list[j].key => list[i].key = nr.key
    BY PlaceWhole
  <2>2. \/ q > 1 /\ list[q - 1].key = nr.key
        \/ q <= Len(list) /\ list[q].key = nr.key
    <3>1. list[b].key = k /\ list[e].key = k /\ b <= n /\ e + 1 > 1 /\ e + 1 - 1 = e
      <4>1. b \in 1 .. n /\ b \in b .. e /\ e \in b .. e
        BY <1>8
      <4> QED BY <1>8, <4>1
    <3>2. CASE q = b
      BY <1>1, <1>6, <3>1, <3>2
    <3>3. CASE q = e + 1
      <4>1. q - 1 = e /\ q > 1
        BY <1>8, <3>3
      <4> QED BY <1>6, <3>1, <4>1
    <3> QED BY <1>11, <3>2, <3>3
  <2> QED BY <1>2, <1>3, <2>1, <2>2, PutWhole
<1>13. ASSUME NEW i \in 1 .. n + 1 PROVE p[i].key = k <=> i \in b .. e + 1
  <2>1. i \in 1 .. q - 1 \/ i = q \/ i \in q + 1 .. n + 1
    BY <1>3
  <2>2. CASE i \in 1 .. q - 1
    BY <1>5, <1>8, <1>11, <2>2
  <2>3. CASE i = q
    BY <1>5, <1>6, <1>8, <1>11, <2>3
  <2>4. CASE i \in q + 1 .. n + 1
    <3>1. p[i].key = k <=> i - 1 \in b .. e
      BY <1>5, <1>8, <2>4
    <3> QED BY <1>8, <1>11, <2>4, <3>1
  <2> QED BY <2>1, <2>2, <2>3, <2>4
<1>14. ASSUME pos > 0
       PROVE  /\ \A i \in pos .. b - 1 : Split(p, i)
              /\ ~(b > 1 /\ e + 1 < n + 1 /\ App(p[b - 1]) = profileOf[k] /\ App(p[e + 2]) = profileOf[k])
  <2>1. ASSUME NEW i \in pos .. b - 1 PROVE Split(p, i)
    <3>1. Split(list, i)
      BY <1>10, <1>14, <2>1
    <3>2. i > 1 /\ i \in 1 .. q - 1 /\ i - 1 \in 1 .. q - 1
      BY <1>8, <1>11, <1>14, <3>1 DEF Split
    <3>3. p[i] = list[i] /\ p[i - 1] = list[i - 1]
      BY <1>5, <3>2
    <3> QED BY <3>1, <3>3 DEF Split
  <2>2. ASSUME b > 1, e + 1 < n + 1 PROVE p[b - 1] = list[b - 1] /\ p[e + 2] = list[e + 1]
    <3>1. PICK m : m = e + 2
      OBVIOUS
    <3>2. b - 1 \in 1 .. q - 1 /\ m \in q + 1 .. n + 1 /\ m - 1 = e + 1
      BY <1>8, <1>11, <2>2, <3>1
    <3>3. p[m] = list[m - 1] /\ p[b - 1] = list[b - 1]
      BY <1>5, <3>2
    <3> QED BY <3>1, <3>2, <3>3
  <2>3. e + 1 < n + 1 => e < n
    BY <1>8
  <2> QED BY <1>10, <1>14, <2>1, <2>2, <2>3
<1>15. IsStretch(p, k, pos, b, e + 1)
  <2>1. b \in 1 .. e + 1 /\ e + 1 \in 1 .. n + 1 /\ e + 1 + 1 = e + 2
    BY <1>8
  <2>2. pos = 0 => e + 1 = n + 1
    BY <1>8
  <2>3. pos > 0 => pos <= b
    BY <1>10
  <2> QED BY <1>5, <1>13, <1>14, <2>1, <2>2, <2>3 DEF IsStretch
<1> QED BY <1>2, <1>6, <1>12, <1>15 DEF Stretch

(* The position in the list of a family that applyRule takes for a rule of *)
(* one family, and for one of both without a number.                       *)
Position(f, userPos, count, numV4, numV6) ==
    IF f = "v4" THEN v4Position(userPos, count, numV4)
    ELSE v6Position(userPos, count, numV4, numV6)

(* That position is a whole number.                                        *)
LEMMA PositionType ==
    ASSUME NEW f, NEW userPos \in Int, NEW count \in Nat, NEW numV4 \in Nat, NEW numV6 \in Nat
    PROVE  Position(f, userPos, count, numV4, numV6) \in Int
BY PositionTyping DEF Position

(* What applyRule does to a list with a half at a position.                *)
Halved(s, c, nr, remove, f, pos) ==
    LET half == applyHalf(s.lists[f], nr, pos, remove)
    IN  c.lists[f] = half.list /\ half.outcome # "error"

HalvedAlike(s, c, nr, remove, userPos, count, numV6) ==
    /\ c.numV4 = s.numV4
    /\ \A f \in Family :
          IF f \in families[nr.key]
          THEN Halved(s, c, nr, remove, f, Position(f, userPos, count, s.numV4, numV6))
          ELSE c.lists[f] = s.lists[f]

(* One half of one family, the other list stays.                           *)
OneHalf(s, nr, f, pos, remove) ==
    [s EXCEPT !.lists[f] = applyHalf(s.lists[f], nr, pos, remove).list,
              !.outcome = applyHalf(s.lists[f], nr, pos, remove).outcome]
OnlyHalved(s, c, nr, remove, f, pos) ==
    /\ c.numV4 = s.numV4 /\ Halved(s, c, nr, remove, f, pos)
    /\ \A g \in Family \ {f} : c.lists[g] = s.lists[g]

(* A rule of one family has one half, and the other list stays.            *)
LEMMA OneHalved ==
    ASSUME NEW s \in Runs, NEW nr, NEW f \in Family, NEW pos, NEW remove,
           NEW c, c = OneHalf(s, nr, f, pos, remove), c.outcome # "error"
    PROVE  OnlyHalved(s, c, nr, remove, f, pos)
<1>0. PICK half : half = applyHalf(s.lists[f], nr, pos, remove)
  OBVIOUS
<1>1. s.lists \in [Family -> Seq(Rule)] /\ s = [lists |-> s.lists, numV4 |-> s.numV4, outcome |-> s.outcome]
  BY DEF Runs
<1>2. c.lists = [s.lists EXCEPT ![f] = half.list] /\ c.numV4 = s.numV4 /\ c.outcome = half.outcome
  BY ONLY <1>0, <1>1, c = OneHalf(s, nr, f, pos, remove) DEF OneHalf
<1>3. c.lists[f] = half.list /\ \A g \in Family \ {f} : c.lists[g] = s.lists[g]
  BY <1>1, <1>2
<1> QED BY <1>0, <1>2, <1>3 DEF Halved, OnlyHalved

(* The two halves of a rule without a number have positions of their own.  *)
LEMMA BothHalved ==
    ASSUME NEW s \in Runs, NEW nr, NEW userPos \in {-1, 0}, NEW count, NEW numV6,
           NEW remove \in BOOLEAN,
           NEW c, c = applyDual(s, nr, userPos, count, numV6, remove), c.outcome # "error"
    PROVE  /\ c.numV4 = s.numV4
           /\ \A f \in Family : Halved(s, c, nr, remove, f, Position(f, userPos, count, s.numV4, numV6))
<1>1. PICK p4 : p4 = DualPosition4(s, userPos, count, remove)
  OBVIOUS
<1>2. PICK h4 : h4 = applyHalf(s.lists["v4"], nr, p4, remove)
  OBVIOUS
<1>3. PICK v4 : v4 = h4.list
  OBVIOUS
<1>4. s.numV4 \in Nat
  BY DEF Runs
<1>5. p4 = Position("v4", userPos, count, s.numV4, numV6)
  BY <1>1, <1>4 DEF DualPosition4, Position, v4Position
<1>6. h4.outcome # "error" /\ c = SecondHalf(s, v4, nr, p4, userPos, count, numV6, remove)
  <2>1. \/ h4.outcome = "error" /\ c = [s EXCEPT !.outcome = "error"]
        \/ h4.outcome # "error" /\ c = SecondHalf(s, v4, nr, p4, userPos, count, numV6, remove)
    BY <1>1, <1>2, <1>3, Zenon DEF applyDual
  <2>2. [s EXCEPT !.outcome = "error"].outcome = "error"
    BY DEF Runs
  <2> QED BY <2>1, <2>2
<1>7. PICK p6 : p6 = DualPosition6(v4, s.lists["v6"], s.numV4, p4, userPos, count, numV6, remove)
  OBVIOUS
<1>8. p6 = Position("v6", userPos, count, s.numV4, numV6)
  <2>1. CASE userPos = -1
    BY <1>7, <2>1 DEF DualPosition6, Position, v6Position
  <2>2. CASE userPos = 0
    <3>1. p4 = 0
      BY <1>4, <1>5, <2>2 DEF Position, v4Position
    <3>2. p6 = 0
      BY <1>7, <2>2, <3>1 DEF DualPosition6
    <3>3. Position("v6", userPos, count, s.numV4, numV6) = 0
      BY <1>4, <2>2 DEF Position, v6Position
    <3> QED BY <3>2, <3>3
  <2> QED BY <2>1, <2>2
<1>9. PICK h6 : h6 = applyHalf(s.lists["v6"], nr, p6, remove)
  OBVIOUS
<1>10. c = [lists |-> [v4 |-> v4, v6 |-> h6.list], numV4 |-> s.numV4, outcome |-> h6.outcome]
  <2>1. ~(~remove /\ userPos > 0)
    OBVIOUS
  <2> QED BY <1>6, <1>7, <1>9, <2>1, Zenon DEF SecondHalf
<1>11. c.lists["v4"] = h4.list /\ c.lists["v6"] = h6.list /\ c.numV4 = s.numV4 /\ h6.outcome # "error"
  BY <1>3, <1>10
<1>12. Halved(s, c, nr, remove, "v4", Position("v4", userPos, count, s.numV4, numV6))
  BY <1>2, <1>5, <1>6, <1>11, Zenon DEF Halved
<1>13. Halved(s, c, nr, remove, "v6", Position("v6", userPos, count, s.numV4, numV6))
  BY <1>8, <1>9, <1>11, Zenon DEF Halved
<1> QED BY <1>11, <1>12, <1>13 DEF Family

(* A rule without a number, or of one family, is as many halves as it has  *)
(* families, each with its position.                                       *)
LEMMA RuleHalved ==
    ASSUME NEW s \in Runs, NEW nr, families[nr.key] \in {Family, {"v4"}, {"v6"}},
           NEW userPos \in Int, NEW count \in Nat, NEW numV6 \in Nat, NEW remove \in BOOLEAN,
           userPos \in {-1, 0} \/ families[nr.key] # Family,
           NEW c, c = applyRule(s, nr, userPos, count, numV6, remove), c.outcome # "error"
    PROVE  HalvedAlike(s, c, nr, remove, userPos, count, numV6)
<1>1. families[nr.key] \in {Family, {"v4"}, {"v6"}}
  OBVIOUS
<1>2. s.outcome # "error"
  BY DEF applyRule
<1>3. CASE families[nr.key] = {"v4"}
  <2>1. PICK pos : pos = v4Position(userPos, count, s.numV4)
    OBVIOUS
  <2>2. c = OneHalf(s, nr, "v4", pos, remove)
    BY <1>2, <1>3, <2>1, Zenon DEF applyRule, OneHalf
  <2>3. OnlyHalved(s, c, nr, remove, "v4", pos)
    BY <2>2, OneHalved, "v4" \in Family DEF Family
  <2>4. pos = Position("v4", userPos, count, s.numV4, numV6)
    BY <2>1 DEF Position
  <2> QED BY <1>3, <2>3, <2>4 DEF OnlyHalved, HalvedAlike, Family
<1>4. CASE families[nr.key] = {"v6"}
  <2>1. PICK pos : pos = v6Position(userPos, count, s.numV4, numV6)
    OBVIOUS
  <2>2. c = OneHalf(s, nr, "v6", pos, remove)
    <3>1. families[nr.key] # {"v4"}
      BY <1>4
    <3> QED BY <1>2, <1>4, <2>1, <3>1, Zenon DEF applyRule, OneHalf
  <2>3. OnlyHalved(s, c, nr, remove, "v6", pos)
    BY <2>2, OneHalved, "v6" \in Family DEF Family
  <2>4. pos = Position("v6", userPos, count, s.numV4, numV6)
    BY <2>1 DEF Position
  <2> QED BY <1>4, <2>3, <2>4 DEF OnlyHalved, HalvedAlike, Family
<1>5. CASE families[nr.key] = Family
  <2>1. families[nr.key] # {"v4"} /\ families[nr.key] # {"v6"}
    <3>1. "v6" \in families[nr.key] /\ "v4" \in families[nr.key] /\ "v6" # "v4"
      BY <1>5 DEF Family
    <3> QED BY ONLY <3>1
  <2>2. c = applyDual(s, nr, userPos, count, numV6, remove)
    BY <1>2, <2>1 DEF applyRule
  <2>3. /\ c.numV4 = s.numV4
        /\ \A f \in Family : Halved(s, c, nr, remove, f, Position(f, userPos, count, s.numV4, numV6))
    <3>1. userPos \in {-1, 0}
      BY <1>5
    <3> QED BY <2>2, <3>1, BothHalved
  <2> QED BY <1>5, <2>3 DEF HalvedAlike
<1> QED BY <1>1, <1>3, <1>4, <1>5

(* Whatever the position, a list of applyRule is one of applyHalf, if it   *)
(* is not the list of before.                                              *)
Listed(list, new, nr, remove) ==
    new = list \/ \E pos \in Int : new = applyHalf(list, nr, pos, remove).list

(* Whatever the rule, a list is left alone or got by a half at some        *)
(* position.                                                               *)
LEMMA RuleListed ==
    ASSUME NEW s \in Runs, NEW nr, NEW userPos \in Int, NEW count \in Nat,
           NEW numV6 \in Nat, NEW remove \in BOOLEAN, remove \/ nr \in Rule, NEW f \in Family,
           NEW c, c = applyRule(s, nr, userPos, count, numV6, remove)
    PROVE  Listed(s.lists[f], c.lists[f], nr, remove)
<1>0. s.lists \in [Family -> Seq(Rule)] /\ s.numV4 \in Nat
      /\ s = [lists |-> s.lists, numV4 |-> s.numV4, outcome |-> s.outcome]
  BY DEF Runs
<1> DEFINE One(g, pos) == [s EXCEPT !.lists[g] = applyHalf(s.lists[g], nr, pos, remove).list,
                                    !.outcome = applyHalf(s.lists[g], nr, pos, remove).outcome]
           Good == c.lists[f] = s.lists[f] \/ \E pos \in Int : c.lists[f] = applyHalf(s.lists[f], nr, pos, remove).list
<1>1. \/ c = s
      \/ \E pos \in Int, g \in Family : c = One(g, pos)
      \/ c = applyDual(s, nr, userPos, count, numV6, remove)
  <2>1. v4Position(userPos, count, s.numV4) \in Int /\ v6Position(userPos, count, s.numV4, numV6) \in Int
    BY <1>0, PositionTyping
  <2>2. CASE s.outcome = "error"
    BY <2>2 DEF applyRule
  <2>3. CASE s.outcome # "error" /\ families[nr.key] = {"v4"}
    <3>1. c = One("v4", v4Position(userPos, count, s.numV4))
      BY <2>3 DEF applyRule
    <3> HIDE DEF One
    <3> QED BY <2>1, <3>1 DEF Family
  <2>4. CASE s.outcome # "error" /\ families[nr.key] # {"v4"} /\ families[nr.key] = {"v6"}
    <3>1. c = One("v6", v6Position(userPos, count, s.numV4, numV6))
      BY <2>4 DEF applyRule
    <3> HIDE DEF One
    <3> QED BY <2>1, <3>1 DEF Family
  <2>5. CASE s.outcome # "error" /\ families[nr.key] # {"v4"} /\ families[nr.key] # {"v6"}
    BY <2>5 DEF applyRule
  <2> QED BY <2>2, <2>3, <2>4, <2>5
<1>2. ASSUME c = s PROVE Good
  BY <1>2
<1>3. ASSUME NEW pos \in Int, NEW g \in Family, c = One(g, pos) PROVE Good
  <2>1. PICK new : new = applyHalf(s.lists[g], nr, pos, remove).list
    OBVIOUS
  <2>2. c.lists = [s.lists EXCEPT ![g] = new]
    BY <1>0, <1>3, <2>1
  <2>3. c.lists[g] = new /\ (f # g => c.lists[f] = s.lists[f])
    BY <1>0, <2>2
  <2> QED BY <2>1, <2>3
<1>4. ASSUME c = applyDual(s, nr, userPos, count, numV6, remove) PROVE Good
  <2>1. PICK p4 : p4 = DualPosition4(s, userPos, count, remove)
    OBVIOUS
  <2>2. PICK h4 : h4 = applyHalf(s.lists["v4"], nr, p4, remove)
    OBVIOUS
  <2>3. PICK v4 : v4 = h4.list
    OBVIOUS
  <2>4. \/ c = [s EXCEPT !.outcome = "error"]
        \/ c = SecondHalf(s, v4, nr, p4, userPos, count, numV6, remove)
    BY <1>4, <2>1, <2>2, <2>3, Zenon DEF applyDual
  <2>5. CASE c = [s EXCEPT !.outcome = "error"]
    BY <1>0, <2>5
  <2>6. CASE c = SecondHalf(s, v4, nr, p4, userPos, count, numV6, remove)
    <3>1. PICK readjust \in BOOLEAN : readjust = (~remove /\ userPos > 0)
      OBVIOUS
    <3>2. PICK numV4 : numV4 = IF readjust THEN dedupedCount(v4) ELSE s.numV4
      OBVIOUS
    <3>3. PICK next : next = IF readjust THEN userPos + 1 ELSE p4
      OBVIOUS
    <3>4. PICK p6 : p6 = DualPosition6(v4, s.lists["v6"], numV4, next, userPos, count, numV6, remove)
      OBVIOUS
    <3>5. PICK h6 : h6 = applyHalf(s.lists["v6"], nr, p6, remove)
      OBVIOUS
    <3>6. c.lists = [v4 |-> v4, v6 |-> h6.list]
      <4>1. c = [lists |-> [v4 |-> v4, v6 |-> h6.list], numV4 |-> numV4, outcome |-> h6.outcome]
        BY <2>6, <3>1, <3>2, <3>3, <3>4, <3>5, Zenon DEF SecondHalf
      <4> QED BY <4>1
    <3>7. s.lists["v4"] \in Seq(Rule) /\ s.lists["v6"] \in Seq(Rule)
      BY <1>0 DEF Family
    <3>8. p4 \in Int
      BY <1>0, <2>1, <3>7, DualTyping
    <3>9. v4 \in Seq(Rule)
      <4>1. h4 \in Halves
        BY <2>2, <3>7, <3>8, HalfKept
      <4> QED BY <2>3, <4>1 DEF Halves
    <3>10. numV4 \in Nat /\ next \in Int
      BY <1>0, <3>1, <3>2, <3>3, <3>8, <3>9, CountTyping
    <3>11. p6 \in Int
      BY <3>4, <3>9, <3>10, DualTyping
    <3>12. CASE f = "v4"
      <4>1. c.lists[f] = applyHalf(s.lists[f], nr, p4, remove).list
        BY <2>2, <2>3, <3>6, <3>12
      <4> QED BY <3>8, <4>1
    <3>13. CASE f = "v6"
      <4>1. c.lists[f] = applyHalf(s.lists[f], nr, p6, remove).list
        BY <3>5, <3>6, <3>13
      <4> QED BY <3>11, <4>1
    <3> QED BY <3>12, <3>13 DEF Family
  <2> QED BY <2>4, <2>5, <2>6
<1> HIDE DEF Good, One
<1>5. Good
  BY <1>1, <1>2, <1>3, <1>4
<1> QED BY <1>5 DEF Good, Listed

(* The position in a list that a command aims at with each of its rules:   *)
(* PrependPosition takes 0 for it while the list is empty.                 *)
Aim(f, userPos, numV4, numV6) ==
    IF userPos = -1 THEN 1 ELSE Position(f, userPos, 1, numV4, numV6)

Aimed(list, pos, aim) == pos = aim \/ (pos = 0 /\ aim = 1 /\ list = <<>>)
ShownIn(f, list, numV4, numV6) == dedupedCount(list) = IF f = "v4" THEN numV4 ELSE numV6

(* So a rule of the command has the aimed position, or 0 in an empty list. *)
LEMMA AimPlace ==
    ASSUME NEW f \in Family, NEW userPos \in Int, NEW i \in Nat \ {0},
           NEW start \in Seq(Rule), NEW list \in Seq(Rule), i = 1 => list = start,
           NEW numV4 \in Nat, NEW numV6 \in Nat,
           ShownIn(f, start, numV4, numV6),
           NEW pos, pos = Position(f, userPos, i - 1, numV4, numV6)
    PROVE  Aimed(list, pos, Aim(f, userPos, numV4, numV6))
<1>1. CASE userPos # -1
  BY <1>1 DEF Aimed, Aim, Position, v4Position, v6Position
<1>2. CASE userPos = -1
  <2>1. PICK n : n = dedupedCount(start)
    OBVIOUS
  <2>2. pos = PrependPosition(i - 1, n)
    <3>1. CASE f = "v4"
      BY <1>2, <2>1, <3>1 DEF ShownIn, Position, v4Position
    <3>2. CASE f = "v6"
      BY <1>2, <2>1, <3>2 DEF ShownIn, Position, v6Position
    <3> QED BY <3>1, <3>2 DEF Family
  <2>3. pos \in {0, 1} /\ (pos = 0 => list = <<>>)
    BY <2>1, <2>2, PrependPlace
  <2>4. Aim(f, userPos, numV4, numV6) = 1
    BY <1>2 DEF Aim
  <2> QED BY <2>3, <2>4 DEF Aimed
<1> QED BY <1>1, <1>2

(* A rule of a new group, put where the command aims: the first as well as *)
(* any later one, next to those that are there.                            *)
Grown(list, new, nr, aim) ==
    /\ Whole(new) /\ Stretch(new, nr.key, aim)
    /\ Slots(new) = Slots(list) \cup {Slot(nr)}

(* The first rule of a new group begins a stretch, the next joins it.      *)
LEMMA GrowStep ==
    ASSUME RuleListAssumption, NEW list \in Seq(Rule), NEW nr \in Rule, IsApp(nr), Whole(list),
           Slot(nr) \notin Slots(list), NEW pos \in Int, NEW aim \in Int,
           Aimed(list, pos, aim),
           nr.key \notin Keys(list) \/ Stretch(list, nr.key, aim),
           NEW remove, remove = FALSE,
           NEW c, c = applyHalf(list, nr, pos, remove), c.outcome # "error"
    PROVE  Grown(list, c.list, nr, aim)
<1>1. HalfPlaced(list, nr, pos, c)
  BY HalfPut
<1>2. PICK q : pos \in 0 .. Len(list) /\ Place(list, pos, q) /\ c.list = Put(list, nr, q)
  BY <1>1 DEF HalfPlaced
<1>3. q \in 1 .. Len(list) + 1 /\ Len(list) \in Nat
  BY <1>2 DEF Place
<1>4. aim \in 0 .. Len(list) + 1 /\ Place(list, aim, q)
  <2>1. CASE pos = aim
    BY <1>2, <1>3, <2>1
  <2>2. CASE pos = 0 /\ aim = 1 /\ list = <<>>
    <3>1. Len(list) = 0
      BY <2>2
    <3>2. q = 1
      BY <1>3, <3>1
    <3> QED BY ONLY <2>2, <3>1, <3>2 DEF Place
  <2> QED BY <2>1, <2>2 DEF Aimed
<1>5. Slots(c.list) = Slots(list) \cup {Slot(nr)}
  BY <1>2, <1>3, PutSlots
<1>6. CASE nr.key \notin Keys(list)
  <2>1. Stretch(c.list, nr.key, aim)
    BY <1>2, <1>4, <1>6, FirstStretch
  <2>2. Whole(c.list)
    BY <1>6, HalfWhole
  <2> QED BY <1>5, <2>1, <2>2 DEF Grown
<1>7. CASE Stretch(list, nr.key, aim)
  <2>1. Whole(c.list) /\ Stretch(c.list, nr.key, aim)
    BY <1>2, <1>4, <1>7, NextStretch
  <2> QED BY <1>5, <2>1 DEF Grown
<1> QED BY <1>6, <1>7

(* What the rules of a new group that are done have made of the lists.     *)
Growing(s, start, todo, k, userPos, numV6, m) ==
    s.outcome # "error"
    => /\ s.numV4 = start.numV4
       /\ \A f \in Family :
             /\ Whole(s.lists[f])
             /\ Slots(s.lists[f]) \subseteq Slots(start.lists[f]) \cup {Slot(todo[j]) : j \in 1 .. m}
             /\ IF f \in families[k] /\ m > 0
                THEN Stretch(s.lists[f], k, Aim(f, userPos, start.numV4, numV6))
                ELSE s.lists[f] = start.lists[f]

NewGroup(start, todo, k, numV6) ==
    /\ start \in Runs /\ k \in Group /\ families[k] \in {Family, {"v4"}, {"v6"}}
    /\ \A f \in Family : k \notin Keys(start.lists[f]) /\ Whole(start.lists[f])
    /\ start.numV4 = dedupedCount(start.lists["v4"])
    /\ numV6 = dedupedCount(start.lists["v6"])
    /\ \A i, j \in DOMAIN todo : Slot(todo[i]) = Slot(todo[j]) => i = j

(* The list of one family, by the next rule.                               *)
LEMMA GrowingList ==
    ASSUME RuleListAssumption, NEW s \in Runs, NEW start, NEW todo, NEW k, NEW kind,
           ToDo(todo, k, kind), kind # "delete",
           NEW userPos \in Int, NEW numV6 \in Nat, NEW m \in Nat, m + 1 \in DOMAIN todo,
           1 .. m \subseteq DOMAIN todo, NewGroup(start, todo, k, numV6),
           Growing(s, start, todo, k, userPos, numV6, m), s.outcome # "error",
           NEW f \in families[k], NEW remove, remove = FALSE, NEW c,
           Halved(s, c, todo[m + 1], remove, f, Position(f, userPos, m, s.numV4, numV6))
    PROVE  Grown(s.lists[f], c.lists[f], todo[m + 1], Aim(f, userPos, start.numV4, numV6))
<1>1. PICK nr : nr = todo[m + 1]
  OBVIOUS
<1>2. nr \in Rule /\ nr.key = k /\ IsApp(nr)
  BY <1>1 DEF ToDo, NewGroup, IsApp
<1>3. f \in Family
  BY DEF NewGroup, Family
<1>4. /\ s.lists[f] \in Seq(Rule) /\ start.lists[f] \in Seq(Rule) /\ start.numV4 \in Nat
      /\ s.numV4 = start.numV4
  BY <1>3 DEF Runs, NewGroup, Growing
<1>5. PICK list : list = s.lists[f]
  OBVIOUS
<1>6. PICK base : base = start.lists[f]
  OBVIOUS
<1>7. /\ Whole(list) /\ Slots(list) \subseteq Slots(base) \cup {Slot(todo[j]) : j \in 1 .. m}
      /\ IF m > 0 THEN Stretch(list, k, Aim(f, userPos, start.numV4, numV6)) ELSE list = base
  BY <1>3, <1>5, <1>6 DEF Growing
<1>8. k \notin Keys(base)
  BY <1>3, <1>6 DEF NewGroup
<1>9. Slot(nr) \notin Slots(list)
  <2>1. Slot(nr) \notin Slots(base)
    <3>1. Slot(nr)[1] = k
      BY <1>2 DEF Slot
    <3> QED BY <1>4, <1>6, <1>8, <3>1, KeysOfSlots
  <2>2. ASSUME NEW j \in 1 .. m PROVE Slot(nr) # Slot(todo[j])
    <3>1. j # m + 1 /\ j \in DOMAIN todo
      OBVIOUS
    <3> QED BY <1>1, <3>1 DEF NewGroup
  <2> QED BY <1>7, <2>1, <2>2
<1>10. PICK pos : pos = Position(f, userPos, m, s.numV4, numV6)
  OBVIOUS
<1>11. PICK aim : aim = Aim(f, userPos, start.numV4, numV6)
  OBVIOUS
<1>12. pos \in Int /\ aim \in Int
  <2>1. \A count \in Nat : Position(f, userPos, count, start.numV4, numV6) \in Int
    BY <1>4, PositionType
  <2> QED BY <1>4, <1>10, <1>11, <2>1 DEF Aim
<1>13. Aimed(list, pos, aim)
  <2>1. ShownIn(f, base, start.numV4, numV6)
    BY <1>3, <1>6 DEF NewGroup, Family, ShownIn
  <2>2. m + 1 = 1 => list = base
    BY <1>7
  <2>3. PICK i : i = m + 1
    OBVIOUS
  <2>4. i \in Nat \ {0} /\ i - 1 = m /\ (i = 1 => list = base)
    BY <2>2, <2>3
  <2>5. pos = Position(f, userPos, i - 1, start.numV4, numV6)
    BY <1>4, <1>10, <2>4
  <2>6. list \in Seq(Rule) /\ base \in Seq(Rule) /\ start.numV4 \in Nat /\ numV6 \in Nat /\ userPos \in Int
    BY <1>4, <1>5, <1>6
  <2> QED BY ONLY <1>3, <1>11, <2>1, <2>4, <2>5, <2>6, AimPlace
<1>14. nr.key \notin Keys(list) \/ Stretch(list, nr.key, aim)
  BY <1>2, <1>7, <1>8, <1>11
<1>15. PICK h : h = applyHalf(list, nr, pos, remove)
  OBVIOUS
<1>16. c.lists[f] = h.list /\ h.outcome # "error"
  BY <1>1, <1>5, <1>10, <1>15, Zenon DEF Halved
<1>17. Grown(list, h.list, nr, aim)
  <2>1. list \in Seq(Rule) /\ Whole(list)
    BY <1>4, <1>5, <1>7
  <2> QED BY <1>2, <1>9, <1>12, <1>13, <1>14, <1>15, <1>16, <2>1, GrowStep
<1> QED BY <1>1, <1>5, <1>11, <1>16, <1>17

(* How the rules of a new group come to stay together: they are of one     *)
(* family, or of both and not inserted at a number.                        *)
Apart(k, kind, num, userPos) ==
    /\ kind \in {"add", "prepend", "insert"} /\ num \in Nat
    /\ userPos = (IF kind = "prepend" THEN -1 ELSE num)
    /\ kind = "insert" \/ num = 0
    /\ kind = "insert" => families[k] # Family

(* The next rule of the command keeps the group and the others whole,      *)
LEMMA GrowingStep ==
    ASSUME RuleListAssumption, NEW s \in Runs, NEW start, NEW todo, NEW k, NEW kind,
           ToDo(todo, k, kind), NEW num, NEW userPos, Apart(k, kind, num, userPos),
           NEW numV6 \in Nat, NEW m \in Nat, m + 1 \in DOMAIN todo,
           1 .. m \subseteq DOMAIN todo, NewGroup(start, todo, k, numV6),
           Growing(s, start, todo, k, userPos, numV6, m),
           NEW c, c = ApplyOne(s, m + 1, todo, kind, num, numV6)
    PROVE  Growing(c, start, todo, k, userPos, numV6, m + 1)
<1> SUFFICES ASSUME c.outcome # "error"
             PROVE  Growing(c, start, todo, k, userPos, numV6, m + 1)
  BY DEF Growing
<1>1. PICK remove : remove = (kind = "delete")
  OBVIOUS
<1>2. PICK nr : nr = todo[m + 1]
  OBVIOUS
<1>3. remove = FALSE /\ remove \in BOOLEAN /\ userPos \in Int /\ kind # "delete"
  <2>1. kind # "delete" /\ num \in Nat /\ (userPos = -1 \/ userPos = num)
    BY DEF Apart
  <2>2. userPos \in Int
    BY ONLY <2>1
  <2>3. remove = FALSE
    BY ONLY <1>1, <2>1, Zenon
  <2> QED BY <2>1, <2>2, <2>3
<1>4. c = applyRule(s, nr, userPos, m, numV6, remove)
  <2>1. PICK i : i = m + 1
    OBVIOUS
  <2>2. i - 1 = m
    BY <2>1
  <2>3. \/ c = [s EXCEPT !.outcome = "error"]
        \/ c = applyRule(s, todo[i], IF kind = "prepend" THEN -1 ELSE num, i - 1, numV6, remove)
    BY <1>1, <2>1, Zenon DEF ApplyOne
  <2>4. c # [s EXCEPT !.outcome = "error"]
    BY DEF Runs
  <2>5. userPos = IF kind = "prepend" THEN -1 ELSE num
    BY Zenon DEF Apart
  <2> QED BY ONLY <1>2, <2>1, <2>2, <2>3, <2>4, <2>5, Zenon
<1>5. s.outcome # "error"
  BY <1>4 DEF applyRule
<1>6. nr.key = k
  BY <1>2 DEF ToDo
<1>7. HalvedAlike(s, c, nr, remove, userPos, m, numV6)
  <2>1. families[nr.key] \in {Family, {"v4"}, {"v6"}}
    BY <1>6 DEF NewGroup
  <2>2. userPos \in {-1, 0} \/ families[nr.key] # Family
    BY <1>6 DEF Apart
  <2> QED BY ONLY <1>3, <1>4, <2>1, <2>2, s \in Runs, m \in Nat, numV6 \in Nat,
             c.outcome # "error", RuleHalved
<1>8. s.numV4 = start.numV4 /\ c.numV4 = s.numV4
  BY <1>5, <1>7 DEF Growing, HalvedAlike
<1> DEFINE Done(j) == {Slot(todo[i]) : i \in 1 .. j}
           Good(f) == /\ Whole(c.lists[f])
                      /\ Slots(c.lists[f]) \subseteq Slots(start.lists[f]) \cup Done(m + 1)
                      /\ IF f \in families[k]
                         THEN Stretch(c.lists[f], k, Aim(f, userPos, start.numV4, numV6))
                         ELSE c.lists[f] = start.lists[f]
<1>9. Done(m + 1) = Done(m) \cup {Slot(nr)}
  <2>1. 1 .. m + 1 = (1 .. m) \cup {m + 1}
    OBVIOUS
  <2> QED BY <1>2, <2>1
<1>10. ASSUME NEW f \in families[k], f \in Family PROVE Good(f)
  <2>1. Halved(s, c, nr, remove, f, Position(f, userPos, m, s.numV4, numV6))
    BY <1>6, <1>7, <1>10 DEF HalvedAlike
  <2>2. Grown(s.lists[f], c.lists[f], nr, Aim(f, userPos, start.numV4, numV6))
    BY <1>2, <1>3, <1>5, <2>1, GrowingList
  <2>3. Slots(s.lists[f]) \subseteq Slots(start.lists[f]) \cup Done(m)
    BY <1>5, <1>10 DEF Growing
  <2>4. Slots(c.lists[f]) \subseteq Slots(start.lists[f]) \cup Done(m + 1)
    BY <1>9, <2>2, <2>3 DEF Grown
  <2> HIDE DEF Done
  <2> QED BY <1>6, <2>2, <2>4 DEF Grown
<1>11. ASSUME NEW f \in Family, f \notin families[k] PROVE Good(f)
  <2>1. c.lists[f] = s.lists[f]
    BY <1>6, <1>7, <1>11 DEF HalvedAlike
  <2>2. Whole(s.lists[f]) /\ s.lists[f] = start.lists[f]
    BY <1>5, <1>11 DEF Growing
  <2> QED BY <1>11, <2>1, <2>2
<1>12. m + 1 > 0
  OBVIOUS
<1>13. \A f \in Family : Good(f)
  <2> HIDE DEF Good
  <2> QED BY <1>10, <1>11
<1> QED BY <1>8, <1>12, <1>13 DEF Growing

(* So the whole run does.                                                  *)
LEMMA GrowingRun ==
    ASSUME RuleListAssumption, NEW start, NEW todo, NEW k, NEW kind,
           ToDo(todo, k, kind), NEW num, NEW userPos, Apart(k, kind, num, userPos),
           NEW numV6 \in Nat, NewGroup(start, todo, k, numV6),
           NEW n \in Nat, DOMAIN todo = 1 .. n,
           NEW done \in Seq(DOMAIN todo), \A j \in 1 .. Len(done) : done[j] = j
    PROVE  Growing(Applied(start, todo, kind, num, numV6, done), start, todo, k, userPos, numV6, Len(done))
<1> DEFINE E == DOMAIN todo
           D(s) == Applied(start, todo, kind, num, numV6, s)
           InOrder(s) == \A j \in 1 .. Len(s) : s[j] = j
           P(s) == InOrder(s) => Growing(D(s), start, todo, k, userPos, numV6, Len(s))
           T == {s \in Seq(E) : P(s)}
<1>0. start \in Runs /\ num \in Int
  BY DEF NewGroup, Apart
<1>1. ASSUME NEW s \in Seq(E) PROVE AppliedRight(s, start, todo, kind, num, numV6)
  BY <1>0, <1>1, AppliedFold
<1>2. P(<<>>)
  <2>1. D(<<>>) = start
    BY <<>> \in Seq(E), <1>1 DEF AppliedRight
  <2>2. Len(<<>>) = 0 /\ Slots(<<>>) = {}
    BY DEF Slots
  <2>3. Growing(start, start, todo, k, userPos, numV6, 0)
    BY DEF Growing, NewGroup
  <2> HIDE DEF D
  <2> QED BY <2>1, <2>2, <2>3
<1>3. ASSUME NEW s \in Seq(E), NEW i \in E, P(s) PROVE P(Append(s, i))
  <2> SUFFICES ASSUME InOrder(Append(s, i))
               PROVE  Growing(D(Append(s, i)), start, todo, k, userPos, numV6, Len(Append(s, i)))
    OBVIOUS
  <2>1. PICK m : m = Len(s)
    OBVIOUS
  <2>2. m \in Nat /\ Len(Append(s, i)) = m + 1 /\ i = m + 1
    BY <2>1
  <2>3. InOrder(s)
    <3>1. \A j \in 1 .. Len(s) : Append(s, i)[j] = s[j] /\ j \in 1 .. Len(Append(s, i))
      OBVIOUS
    <3> QED BY <3>1
  <2>4. D(Append(s, i)) = ApplyOne(D(s), i, todo, kind, num, numV6) /\ D(s) \in Runs
    BY <1>1 DEF AppliedRight
  <2>5. 1 .. m \subseteq DOMAIN todo /\ m + 1 \in DOMAIN todo
    BY <2>2
  <2>6. Growing(D(s), start, todo, k, userPos, numV6, m)
    BY <1>3, <2>1, <2>3
  <2> HIDE DEF D
  <2>7. Growing(D(Append(s, i)), start, todo, k, userPos, numV6, m + 1)
    BY <2>2, <2>4, <2>5, <2>6, GrowingStep
  <2> QED BY <2>2, <2>7
<1>4. Seq(E) \subseteq T
  <2>1. <<>> \in T
    BY <1>2
  <2>2. ASSUME NEW s \in Seq(E), NEW i \in E, s \in T PROVE Append(s, i) \in T
    <3>1. Append(s, i) \in Seq(E)
      OBVIOUS
    <3> HIDE DEF P
    <3> QED BY <1>3, <2>2, <3>1
  <2> HIDE DEF T, E
  <2> QED BY <2>1, <2>2, ListInduction
<1>5. P(done)
  <2> HIDE DEF P
  <2> QED BY <1>4
<1> QED BY <1>5

(* How many rules a command stands for, each with an item of its own.      *)
Items(todo, k, kind, n) ==
    /\ n \in Nat /\ DOMAIN todo = 1 .. n
    /\ k \notin Group \/ kind = "delete" => n = 1
    /\ k \in Group /\ kind # "delete"
       => /\ n = size[profileOf[k]]
          /\ \A i, j \in 1 .. n : Slot(todo[i]) = Slot(todo[j]) => i = j

(* So Expanded makes them.                                                 *)
LEMMA ExpandedItems ==
    ASSUME RuleListAssumption, TypeOK, NEW w \in Wanted, NEW kind
    PROVE  \E n : Items(Expanded(w.key, w.act, kind), w.key, kind, n)
<1> DEFINE k == w.key
           n == IF k \in Group /\ kind # "delete" THEN size[profileOf[k]] ELSE 1
           item(i) == IF k \in Plain \/ kind = "delete" THEN 0
                      ELSE IF kind \in {"insert", "prepend"} THEN n + 1 - i ELSE i
           todo == Expanded(w.key, w.act, kind)
<1>1. k \in Plain \cup Group /\ Plain \cap Group = {}
  BY DEF RuleListAssumption, Key
<1>2. n \in Nat
  <2>1. k \in Group => profileOf[k] \in Profile
    BY DEF Profile
  <2>2. size \in [Profile -> ProfileSizes] /\ \A x \in ProfileSizes : x \in Nat
    BY DEF TypeOK, RuleListAssumption
  <2> QED BY <2>1, <2>2
<1>3. todo = [i \in 1 .. n |-> [key |-> k, item |-> item(i), act |-> w.act]]
  BY DEF Expanded
<1>4. /\ k \notin Group \/ kind = "delete" => n = 1
      /\ k \in Group /\ kind # "delete" => n = size[profileOf[k]]
  OBVIOUS
<1> HIDE DEF n, todo
<1>5. DOMAIN todo = 1 .. n
  BY <1>3
<1>6. ASSUME k \in Group, kind # "delete", NEW i \in 1 .. n, NEW j \in 1 .. n,
             Slot(todo[i]) = Slot(todo[j])
      PROVE  i = j
  <2>1. todo[i].item = item(i) /\ todo[j].item = item(j)
    BY <1>3
  <2>2. item(i) = item(j)
    BY <1>6, <2>1 DEF Slot
  <2>3. k \notin Plain
    BY <1>1, <1>6
  <2>4. i \in Nat /\ j \in Nat
    BY <1>2
  <2> QED BY <1>2, <1>6, <2>2, <2>3, <2>4
<1>7. Items(todo, k, kind, n)
  BY <1>2, <1>4, <1>5, <1>6 DEF Items
<1> QED BY <1>7 DEF todo

(* A command that stands for one rule keeps every group whole.             *)
LEMMA OneRuleWhole ==
    ASSUME RuleListAssumption, NEW s \in Runs, NEW todo, NEW k, NEW kind, ToDo(todo, k, kind),
           NEW num \in Int, NEW numV6 \in Nat, NEW i \in DOMAIN todo,
           NEW f \in Family, Whole(s.lists[f]),
           kind # "delete" /\ k \in Group => k \notin Keys(s.lists[f]),
           NEW c, c = ApplyOne(s, i, todo, kind, num, numV6)
    PROVE  Whole(c.lists[f])
<1>1. PICK remove : remove = (kind = "delete")
  OBVIOUS
<1>2. PICK nr : nr = todo[i]
  OBVIOUS
<1>3. PICK pos : pos = IF kind = "prepend" THEN -1 ELSE num
  OBVIOUS
<1>4. \/ c = [s EXCEPT !.outcome = "error"]
      \/ c = applyRule(s, nr, pos, i - 1, numV6, remove)
  BY <1>1, <1>2, <1>3, Zenon DEF ApplyOne
<1>5. pos \in Int
  BY <1>3
<1>6. i - 1 \in Nat /\ nr.key = k /\ remove \in BOOLEAN /\ (remove \/ nr \in Rule)
  <2>1. i \in Nat \ {0} /\ nr.key = k /\ (kind = "delete" \/ nr \in Rule)
    BY <1>2 DEF ToDo
  <2>2. i - 1 \in Nat
    BY <2>1
  <2> QED BY ONLY <1>1, <2>1, <2>2
<1>7. PICK list : list = s.lists[f]
  OBVIOUS
<1>8. list \in Seq(Rule) /\ Whole(list)
  BY <1>7 DEF Runs
<1>9. Listed(list, c.lists[f], nr, remove)
  <2>1. ASSUME c = [s EXCEPT !.outcome = "error"] PROVE Listed(list, c.lists[f], nr, remove)
    <3>1. c.lists[f] = list
      BY <1>7, <2>1 DEF Runs
    <3> QED BY ONLY <3>1 DEF Listed
  <2>2. ASSUME c = applyRule(s, nr, pos, i - 1, numV6, remove)
        PROVE  Listed(list, c.lists[f], nr, remove)
    BY ONLY <1>5, <1>6, <1>7, <2>2, s \in Runs, numV6 \in Nat, f \in Family, RuleListed
  <2> QED BY <1>4, <2>1, <2>2
<1>10. ~remove /\ IsApp(nr) => nr.key \notin Keys(list)
  BY <1>1, <1>6, <1>7 DEF IsApp
<1>11. ASSUME NEW p \in Int PROVE Whole(applyHalf(list, nr, p, remove).list)
  BY <1>6, <1>8, <1>10, HalfWhole
<1> QED BY <1>8, <1>9, <1>11 DEF Listed

(* What keeps the groups whole in a run of a command.                      *)
KeepsWhole(k, kind) ==
    /\ kind # "delete" /\ k \in Group => \A f \in Family : k \notin Keys(rules[f])
    /\ kind = "insert" /\ k \in Group => families[k] # Family \/ size[profileOf[k]] = 1

(* A command keeps every group whole.                                      *)
LEMMA RunWhole ==
    ASSUME RuleListAssumption, TypeOK, GroupsWhole, NEW w \in Wanted,
           NEW kind \in {"add", "prepend", "delete", "insert"}, NEW num \in Nat,
           kind = "insert" \/ num = 0, KeepsWhole(w.key, kind),
           NEW c, c = runRuleOp(w.key, w.act, kind, num), c.outcome # "error"
    PROVE  \A f \in Family : Whole(c.lists[f])
<1>1. PICK todo : todo = Expanded(w.key, w.act, kind)
  OBVIOUS
<1>2. PICK k : k = w.key
  OBVIOUS
<1>3. PICK start : start = [lists |-> rules, numV4 |-> dedupedCount(rules["v4"]), outcome |-> ""]
  OBVIOUS
<1>4. PICK numV6 : numV6 = dedupedCount(rules["v6"])
  OBVIOUS
<1>5. PICK done : done = [i \in DOMAIN todo |-> i]
  OBVIOUS
<1>6. rules \in [Family -> Seq(Rule)] /\ rules["v4"] \in Seq(Rule) /\ rules["v6"] \in Seq(Rule)
  BY DEF TypeOK, Family
<1>7. dedupedCount(rules["v4"]) \in Nat /\ numV6 \in Nat /\ num \in Int
  BY <1>4, <1>6, CountTyping
<1>8. start \in Runs /\ start.lists = rules /\ start.numV4 = dedupedCount(rules["v4"])
  BY <1>3, <1>6, <1>7 DEF Runs, Outcomes
<1>9. c = Applied(start, todo, kind, num, numV6, done)
  <2> DEFINE all == Expanded(w.key, w.act, kind)
             first == [lists |-> rules, numV4 |-> dedupedCount(rules["v4"]), outcome |-> ""]
  <2>1. c = Applied(first, all, kind, num, dedupedCount(rules["v6"]), [i \in DOMAIN all |-> i])
    BY Zenon DEF runRuleOp, Applied
  <2> HIDE DEF all
  <2> QED BY <1>1, <1>3, <1>4, <1>5, <2>1, Zenon DEF all
<1>10. ToDo(todo, k, kind) /\ done \in Seq(DOMAIN todo)
  BY <1>1, <1>2, <1>5, ExpandedToDo
<1>11. PICK n : Items(todo, k, kind, n)
  BY <1>1, <1>2, ExpandedItems
<1>12. \A f \in Family : Whole(rules[f])
  BY Zenon DEF GroupsWhole
<1>13. n \in Nat /\ DOMAIN todo = 1 .. n
  BY <1>11 DEF Items
<1>14. Len(done) = n /\ \A j \in 1 .. Len(done) : done[j] = j
  BY <1>5, <1>13
<1>15. CASE n = 0
  <2>1. done = <<>>
    BY <1>10, <1>14, <1>15
  <2>2. AppliedRight(done, start, todo, kind, num, numV6)
    BY <1>7, <1>8, <1>10, AppliedFold
  <2>3. c = start
    BY <1>9, <2>1, <2>2 DEF AppliedRight
  <2> QED BY <1>8, <1>12, <2>3
<1>16. CASE n = 1
  <2>1. PICK i : i = 1
    OBVIOUS
  <2>2. i \in DOMAIN todo /\ <<>> \in Seq(DOMAIN todo)
    BY <1>13, <1>16, <2>1
  <2>3. done = Append(<<>>, i)
    BY <1>5, <1>13, <1>16, <2>1
  <2>4. AppliedRight(<<>>, start, todo, kind, num, numV6)
    BY <1>7, <1>8, <1>10, <2>2, AppliedFold
  <2>5. c = ApplyOne(start, i, todo, kind, num, numV6)
    BY <1>9, <2>2, <2>3, <2>4 DEF AppliedRight
  <2>6. ASSUME NEW f \in Family PROVE Whole(c.lists[f])
    <3>1. Whole(start.lists[f]) /\ (kind # "delete" /\ k \in Group => k \notin Keys(start.lists[f]))
      BY <1>2, <1>8, <1>12 DEF KeepsWhole
    <3> QED BY ONLY RuleListAssumption, <1>7, <1>8, <1>10, <2>2, <2>5, <2>6, <3>1, OneRuleWhole
  <2> QED BY <2>6
<1>17. CASE n \notin {0, 1}
  <2>1. k \in Group /\ kind # "delete" /\ n = size[profileOf[k]]
    BY <1>11, <1>17 DEF Items
  <2>2. NewGroup(start, todo, k, numV6)
    <3>1. families[k] \in {Family, {"v4"}, {"v6"}}
      BY <2>1 DEF RuleListAssumption, Key
    <3>2. \A i, j \in DOMAIN todo : Slot(todo[i]) = Slot(todo[j]) => i = j
      BY <1>11, <2>1 DEF Items
    <3>3. \A f \in Family : k \notin Keys(start.lists[f]) /\ Whole(start.lists[f])
      BY <1>2, <1>8, <1>12, <2>1 DEF KeepsWhole
    <3> QED BY <1>4, <1>8, <2>1, <3>1, <3>2, <3>3 DEF NewGroup
  <2>3. PICK userPos : userPos = IF kind = "prepend" THEN -1 ELSE num
    OBVIOUS
  <2>4. Apart(k, kind, num, userPos)
    <3>1. kind \in {"add", "prepend", "insert"} /\ (kind = "insert" => families[k] # Family)
      BY <1>2, <1>17, <2>1 DEF KeepsWhole
    <3> QED BY ONLY <2>3, <3>1, num \in Nat, kind = "insert" \/ num = 0, Zenon DEF Apart
  <2>5. Growing(c, start, todo, k, userPos, numV6, n)
    BY <1>7, <1>9, <1>10, <1>13, <1>14, <2>2, <2>4, GrowingRun
  <2> QED BY <2>5 DEF Growing
<1> QED BY <1>15, <1>16, <1>17

(* Rules of some keys are within their list,                               *)
LEMMA OfKeysWithin ==
    ASSUME NEW list \in Seq(Rule), NEW keys
    PROVE  Within(OfKeys(list, keys), list)
<1> DEFINE P(s) == Within(OfKeys(s, keys), s)
           T == {s \in Seq(Rule) : P(s)}
<1>1. P(<<>>)
  <2>1. OfKeys(<<>>, keys) = <<>>
    BY OfKeysFold
  <2>2. Within(<<>>, <<>>)
    BY WithinItself
  <2> QED BY <2>1, <2>2
<1>2. ASSUME NEW s \in Seq(Rule), NEW r \in Rule, P(s) PROVE P(Append(s, r))
  <2>1. PICK new : new = OfKeys(s, keys)
    OBVIOUS
  <2>2. new \in Seq(Rule) /\ Within(new, s)
    BY <1>2, <2>1, OfKeysFold
  <2>3. OfKeys(Append(s, r), keys) = IF r.key \in keys THEN Append(new, r) ELSE new
    BY <2>1, OfKeysFold
  <2>4. Within(new, Append(s, r)) /\ Within(Append(new, r), Append(s, r))
    BY <2>2, WithinLonger, WithinAppend
  <2> QED BY <2>3, <2>4
<1>3. Seq(Rule) \subseteq T
  <2>1. <<>> \in T
    BY <1>1
  <2>2. ASSUME NEW s \in Seq(Rule), NEW r \in Rule, s \in T PROVE Append(s, r) \in T
    <3>1. Append(s, r) \in Seq(Rule)
      OBVIOUS
    <3> HIDE DEF P
    <3> QED BY <1>2, <2>2, <3>1
  <2> HIDE DEF T
  <2> QED BY <2>1, <2>2, ListInduction
<1>4. P(list)
  <2> HIDE DEF P
  <2> QED BY <1>3
<1> QED BY <1>4

(* and so are all of its rules but one.                                    *)
LEMMA WithoutOneWithin ==
    ASSUME NEW list \in Seq(Rule), NEW i \in DOMAIN list
    PROVE  Within(SubSeq(list, 1, i - 1) \o SubSeq(list, i + 1, Len(list)), list)
<1> DEFINE left == SubSeq(list, 1, i - 1)
           right == SubSeq(list, i + 1, Len(list))
           new == left \o right
           at(j) == IF j < i THEN j ELSE j + 1
<1>1. i \in 1 .. Len(list) /\ Len(list) \in Nat
  OBVIOUS
<1>2. /\ left \in Seq(Rule) /\ Len(left) = i - 1
      /\ \A j \in 1 .. i - 1 : left[j] = list[j]
  BY <1>1
<1>3. /\ right \in Seq(Rule) /\ Len(right) = Len(list) - i
      /\ \A j \in 1 .. Len(list) - i : right[j] = list[i + j]
  BY <1>1
<1> HIDE DEF left, right
<1>4. new \in Seq(Rule) /\ Len(new) = Len(list) - 1
  BY <1>1, <1>2, <1>3
<1>5. \A j \in 1 .. Len(list) - 1 : new[j] = list[at(j)]
  BY <1>1, <1>2, <1>3
<1> HIDE DEF new
<1>6. DOMAIN new = 1 .. Len(list) - 1 /\ DOMAIN list = 1 .. Len(list)
  BY <1>4
<1>7. PICK e : e = [j \in DOMAIN new |-> at(j)]
  OBVIOUS
<1>8. Embeds(e, new, list)
  <2>1. \A j \in 1 .. Len(list) - 1 : e[j] = at(j) /\ at(j) \in 1 .. Len(list)
    BY <1>1, <1>6, <1>7
  <2>2. e \in [DOMAIN new -> DOMAIN list]
    BY <1>6, <1>7, <2>1
  <2>3. \A x, y \in 1 .. Len(list) - 1 : x < y => at(x) < at(y)
    BY <1>1
  <2>4. \A j \in 1 .. Len(list) - 1 : Slot(new[j]) = Slot(list[e[j]])
    <3> HIDE DEF at
    <3> QED BY <1>5, <2>1
  <2> HIDE DEF at
  <2> QED BY <1>6, <2>1, <2>2, <2>3, <2>4 DEF Embeds
<1>9. Within(new, list)
  BY <1>8 DEF Within
<1> QED BY <1>9 DEF new, left, right

(* deleteByNumber takes rules away only.                                   *)
LEMMA NumberWithin ==
    ASSUME RuleListAssumption, TypeOK, NEW num \in Nat, deleteByNumber(num)
    PROVE  \A f \in Family : Within(rules'[f], rules[f])
<1> DEFINE numV4 == dedupedCount(rules["v4"])
           numV6 == dedupedCount(rules["v6"])
           f == IF num <= numV4 THEN "v4" ELSE "v6"
           n == IF f = "v4" THEN num ELSE num - numV4
           i == ShownAt(rules[f], n)
           k == rules[f][i].key
           new == IF k \in Group THEN OfKeys(rules[f], Key \ {k})
                  ELSE SubSeq(rules[f], 1, i - 1) \o SubSeq(rules[f], i + 1, Len(rules[f]))
<1>1. /\ rules \in [Family -> Seq(Rule)] /\ f \in Family /\ rules[f] \in Seq(Rule)
      /\ rules["v4"] \in Seq(Rule) /\ rules["v6"] \in Seq(Rule)
  BY DEF TypeOK, Family
<1>2. numV4 \in Nat /\ numV6 \in Nat
  BY <1>1, CountTyping
<1>3. num \in 1 .. numV4 + numV6
  BY DEF deleteByNumber
<1>4. n \in 1 .. dedupedCount(rules[f])
  BY <1>2, <1>3
<1>5. rules' = [rules EXCEPT ![f] = new]
  BY Zenon DEF deleteByNumber, Commit
<1> HIDE DEF f, n
<1>6. i \in DOMAIN rules[f]
  BY <1>1, <1>4, ShownTyping
<1> HIDE DEF i
<1>7. Within(new, rules[f])
  BY <1>1, <1>6, OfKeysWithin, WithoutOneWithin
<1> HIDE DEF k, new
<1> SUFFICES ASSUME NEW g \in Family PROVE Within(rules'[g], rules[g])
  OBVIOUS
<1>8. CASE g = f
  BY <1>1, <1>5, <1>7, <1>8
<1>9. CASE g # f
  <2>1. rules'[g] = rules[g]
    BY <1>1, <1>5, <1>9
  <2> QED BY <2>1, WithinItself
<1> QED BY <1>8, <1>9

(* The last rule of a list has a key.                                      *)
LastKey(s, k) == s # <<>> /\ s[Len(s)].key = k

(* The rules of a whole list but the last are whole, and an application of *)
(* the last one that has others has one right before.                      *)
LEMMA WholeLonger ==
    ASSUME NEW s \in Seq(Rule), NEW r \in Rule, Whole(Append(s, r))
    PROVE  /\ Whole(s)
           /\ IsApp(r) /\ r.key \in Keys(s) => LastKey(s, r.key)
<1> DEFINE t == Append(s, r)
<1>1. /\ DOMAIN t = DOMAIN s \cup {Len(s) + 1}
      /\ \A i \in DOMAIN s : t[i] = s[i]
      /\ t[Len(s) + 1] = r
      /\ DOMAIN s = 1 .. Len(s) /\ Len(s) \in Nat
  BY AppendDomain
<1> HIDE DEF t
<1>2. Whole(s)
  <2> SUFFICES ASSUME NEW i \in DOMAIN s, NEW j \in DOMAIN s, i < j, IsApp(s[i]),
                      s[i].key = s[j].key, NEW m \in i .. j
               PROVE  s[m].key = s[i].key
    BY DEF Whole
  <2>1. m \in DOMAIN s
    BY <1>1
  <2>2. t[i] = s[i] /\ t[j] = s[j] /\ t[m] = s[m] /\ i \in DOMAIN t /\ j \in DOMAIN t
    BY <1>1, <2>1
  <2>3. t[m].key = t[i].key
    BY <2>2 DEF Whole, t
  <2> QED BY <2>2, <2>3
<1>3. ASSUME IsApp(r), r.key \in Keys(s) PROVE LastKey(s, r.key)
  <2>1. PICK i \in DOMAIN s : s[i].key = r.key
    BY <1>3 DEF Keys
  <2>2. /\ i \in DOMAIN t /\ Len(s) + 1 \in DOMAIN t /\ i < Len(s) + 1
        /\ Len(s) \in i .. Len(s) + 1 /\ Len(s) \in DOMAIN s
    BY <1>1
  <2>3. t[i].key = t[Len(s) + 1].key /\ IsApp(t[i])
    BY <1>1, <1>3, <2>1 DEF IsApp
  <2>4. t[Len(s)].key = t[i].key
    BY <2>2, <2>3 DEF Whole, t
  <2>5. s[Len(s)].key = r.key
    BY <1>1, <2>1, <2>2, <2>4
  <2> QED BY <2>2, <2>5 DEF LastKey
<1> QED BY <1>2, <1>3

(* A list is as whole as its keys are.                                     *)
LEMMA SameKeysWhole ==
    ASSUME NEW list \in Seq(Rule), NEW new \in Seq(Rule), Len(new) = Len(list),
           \A i \in DOMAIN list : new[i].key = list[i].key, Whole(list)
    PROVE  Whole(new) /\ Keys(new) = Keys(list)
<1>1. DOMAIN new = DOMAIN list /\ DOMAIN list = 1 .. Len(list)
  OBVIOUS
<1>2. Whole(new)
  <2> SUFFICES ASSUME NEW i \in DOMAIN list, NEW j \in DOMAIN list, i < j, IsApp(new[i]),
                      new[i].key = new[j].key, NEW m \in i .. j
               PROVE  new[m].key = new[i].key
    BY <1>1 DEF Whole
  <2>1. m \in DOMAIN list
    BY <1>1
  <2>2. IsApp(list[i]) /\ list[i].key = list[j].key
    BY DEF IsApp
  <2>3. list[m].key = list[i].key
    BY <2>2 DEF Whole
  <2> QED BY <2>1, <2>3
<1>3. Keys(new) = Keys(list)
  BY <1>1 DEF Keys
<1> QED BY <1>2, <1>3

(* What mergeRules has made after the rules s of an import.                *)
Merging(dst, s, new) ==
    /\ new \in Seq(Rule) /\ Whole(new)
    /\ Keys(new) \subseteq Keys(dst) \cup Keys(s)
    /\ \A k \in Group : LastKey(s, k) => LastKey(new, k)

(* The next rule of a document, when those before it are merged in.        *)
LEMMA MergingStep ==
    ASSUME NEW dst \in Seq(Rule), NEW s \in Seq(Rule), NEW r \in Rule, NEW new,
           Merging(dst, s, new), Whole(Append(s, r)), IsApp(r) => r.key \notin Keys(dst)
    PROVE  Merging(dst, Append(s, r), MergeRule(new, r))
<1>1. new \in Seq(Rule) /\ Whole(new) /\ Keys(new) \subseteq Keys(dst) \cup Keys(s)
  BY DEF Merging
<1>2. IsApp(r) /\ r.key \in Keys(new) => LastKey(new, r.key)
  <2>1. IsApp(r) /\ r.key \in Keys(s) => LastKey(s, r.key)
    BY WholeLonger
  <2> QED BY <1>1, <2>1 DEF Merging, IsApp
<1>3. Keys(Append(s, r)) = Keys(s) \cup {r.key}
  BY KeysOfSlots
<1>4. \A k : LastKey(Append(s, r), k) <=> k = r.key
  <2>1. Append(s, r) # <<>> /\ Append(s, r)[Len(Append(s, r))] = r
    OBVIOUS
  <2> QED BY <2>1 DEF LastKey
<1> DEFINE old == {i \in DOMAIN new : Match(r, new[i]) # "none"}
<1>5. PICK c : c = MergeRule(new, r)
  OBVIOUS
<1>6. CASE old # {}
  <2> DEFINE m == Min(old)
  <2>1. m \in old /\ DOMAIN new \subseteq Nat
    <3>1. DOMAIN new \subseteq Nat /\ old \in SUBSET DOMAIN new
      BY <1>1
    <3> HIDE DEF old
    <3>2. old \subseteq Nat
      BY <3>1
    <3> QED BY <1>6, <3>1, <3>2, Least
  <2>2. c = [new EXCEPT ![m] = r]
    BY <1>5, <1>6, Zenon DEF MergeRule
  <2>3. m \in DOMAIN new /\ Slot(r) = Slot(new[m])
    BY <2>1, MatchSlot
  <2> HIDE DEF m, old
  <2>4. /\ c \in Seq(Rule) /\ Len(c) = Len(new)
        /\ c[m] = r /\ \A i \in DOMAIN new : i # m => c[i] = new[i]
    BY <1>1, <2>2, <2>3
  <2>5. r.key = new[m].key
    BY <2>3 DEF Slot
  <2>6. \A i \in DOMAIN new : c[i].key = new[i].key
    BY <2>4, <2>5
  <2>7. Whole(c) /\ Keys(c) = Keys(new)
    BY <1>1, <2>4, <2>6, SameKeysWhole
  <2>8. ASSUME r.key \in Group PROVE LastKey(c, r.key)
    <3>1. LastKey(new, r.key)
      BY <1>2, <2>3, <2>5, <2>8 DEF Keys, IsApp
    <3>2. new # <<>> /\ Len(new) \in DOMAIN new /\ new[Len(new)].key = r.key
      BY <1>1, <3>1 DEF LastKey
    <3>3. c # <<>> /\ c[Len(c)].key = r.key
      BY <1>1, <2>4, <2>6, <3>2
    <3> QED BY <3>3 DEF LastKey
  <2>9. Keys(c) \subseteq Keys(dst) \cup Keys(Append(s, r))
    BY <1>1, <1>3, <2>7
  <2> QED BY <1>4, <1>5, <2>4, <2>7, <2>8, <2>9 DEF Merging
<1>7. CASE old = {}
  <2>1. c = Append(new, r)
    BY <1>5, <1>7, Zenon DEF MergeRule
  <2> HIDE DEF old
  <2>2. Whole(Append(new, r))
    BY <1>1, <1>2, WholeAppend DEF LastKey
  <2>3. Keys(Append(new, r)) = Keys(new) \cup {r.key}
    BY <1>1, KeysOfSlots
  <2>4. Append(new, r) \in Seq(Rule) /\ LastKey(Append(new, r), r.key)
    <3>1. \A x \in Seq(Rule) : /\ Append(x, r) \in Seq(Rule) /\ Append(x, r) # <<>>
                              /\ Append(x, r)[Len(Append(x, r))] = r
      OBVIOUS
    <3> QED BY <1>1, <3>1 DEF LastKey
  <2>5. Keys(Append(new, r)) \subseteq Keys(dst) \cup Keys(Append(s, r))
    BY <1>1, <1>3, <2>3
  <2> QED BY <1>4, <1>5, <2>1, <2>2, <2>4, <2>5 DEF Merging
<1> QED BY <1>6, <1>7

(* An import of whole lists, with no application that is there, keeps the  *)
(* groups whole.                                                           *)
LEMMA MergedWhole ==
    ASSUME NEW dst \in Seq(Rule), NEW src \in Seq(Rule), Whole(dst), Whole(src),
           \A k \in Keys(src) \cap Group : k \notin Keys(dst)
    PROVE  Whole(mergeRules(dst, src))
<1> DEFINE D(s) == mergeRules(dst, s)
           Fit(s) == Whole(s) /\ \A k \in Keys(s) \cap Group : k \notin Keys(dst)
           P(s) == Fit(s) => Merging(dst, s, D(s))
           T == {s \in Seq(Rule) : P(s)}
<1>0. ASSUME NEW s \in Seq(Rule) PROVE MergedRight(s, dst)
  BY MergedFold DEF Lists
<1>1. P(<<>>)
  <2>1. D(<<>>) = dst
    BY <<>> \in Seq(Rule), <1>0 DEF MergedRight
  <2>2. \A k : ~LastKey(<<>>, k)
    BY DEF LastKey
  <2> HIDE DEF D
  <2> QED BY <2>1, <2>2 DEF Merging
<1>2. ASSUME NEW s \in Seq(Rule), NEW r \in Rule, P(s) PROVE P(Append(s, r))
  <2> SUFFICES ASSUME Fit(Append(s, r)) PROVE Merging(dst, Append(s, r), D(Append(s, r)))
    OBVIOUS
  <2>1. D(Append(s, r)) = MergeRule(D(s), r)
    BY <1>0 DEF MergedRight
  <2>2. Keys(Append(s, r)) = Keys(s) \cup {r.key}
    BY KeysOfSlots
  <2>3. Fit(s) /\ (IsApp(r) => r.key \notin Keys(dst))
    BY <2>2, WholeLonger DEF IsApp
  <2>4. Merging(dst, s, D(s))
    BY <1>2, <2>3
  <2> HIDE DEF D
  <2> QED BY <2>1, <2>3, <2>4, MergingStep
<1>3. Seq(Rule) \subseteq T
  <2>1. <<>> \in T
    BY <1>1
  <2>2. ASSUME NEW s \in Seq(Rule), NEW r \in Rule, s \in T PROVE Append(s, r) \in T
    <3>1. Append(s, r) \in Seq(Rule)
      OBVIOUS
    <3> HIDE DEF P
    <3> QED BY <1>2, <2>2, <3>1
  <2> HIDE DEF T
  <2> QED BY <2>1, <2>2, ListInduction
<1>4. P(src)
  <2> HIDE DEF P
  <2> QED BY <1>3
<1> QED BY <1>4 DEF Merging

(* A new group after others.                                               *)
LEMMA ConcatWhole ==
    ASSUME NEW s \in Seq(Rule), NEW t \in Seq(Rule), Whole(s), NEW k, k \notin Keys(s),
           \A i \in DOMAIN t : t[i].key = k
    PROVE  Whole(s \o t) /\ Keys(s \o t) \subseteq Keys(s) \cup {k}
<1> DEFINE c == s \o t
<1>1. /\ c \in Seq(Rule) /\ Len(c) = Len(s) + Len(t)
      /\ \A j \in 1 .. Len(s) : c[j] = s[j]
      /\ \A j \in 1 .. Len(t) : c[Len(s) + j] = t[j]
  BY ConcatAt
<1> HIDE DEF c
<1>2. Len(s) \in Nat /\ Len(t) \in Nat /\ DOMAIN c = 1 .. Len(s) + Len(t)
      /\ DOMAIN s = 1 .. Len(s) /\ DOMAIN t = 1 .. Len(t)
  BY <1>1
<1>3. ASSUME NEW i \in DOMAIN c, i > Len(s) PROVE c[i].key = k
  <2>1. PICK j : j = i - Len(s)
    OBVIOUS
  <2>2. j \in 1 .. Len(t) /\ i = Len(s) + j
    BY <1>2, <1>3, <2>1
  <2>3. c[i] = t[j]
    BY <1>1, <2>2
  <2> QED BY <1>2, <2>2, <2>3
<1>4. ASSUME NEW i \in DOMAIN c, i <= Len(s) PROVE c[i] = s[i] /\ i \in DOMAIN s /\ s[i].key # k
  <2>1. i \in 1 .. Len(s)
    BY <1>2, <1>4
  <2> QED BY <1>1, <1>2, <2>1 DEF Keys
<1>5. Whole(c)
  <2> SUFFICES ASSUME NEW i \in DOMAIN c, NEW j \in DOMAIN c, i < j, IsApp(c[i]),
                      c[i].key = c[j].key, NEW m \in i .. j
               PROVE  c[m].key = c[i].key
    BY DEF Whole
  <2>1. m \in DOMAIN c /\ i \in Nat /\ j \in Nat /\ m \in Nat
    BY <1>2
  <2>2. CASE i > Len(s)
    <3>1. m > Len(s)
      BY <1>2, <2>1, <2>2
    <3> QED BY <1>3, <2>1, <2>2, <3>1
  <2>3. CASE i <= Len(s)
    <3>1. c[i] = s[i] /\ s[i].key # k /\ i \in DOMAIN s
      BY <1>4, <2>3
    <3>2. j <= Len(s)
      BY <1>2, <1>3, <2>1, <3>1
    <3>3. m <= Len(s)
      BY <1>2, <2>1, <3>2
    <3>4. c[j] = s[j] /\ c[m] = s[m] /\ j \in DOMAIN s
      BY <1>4, <2>1, <3>2, <3>3
    <3> QED BY <3>1, <3>4 DEF Whole
  <2> QED BY <1>2, <2>1, <2>2, <2>3
<1>6. Keys(c) \subseteq Keys(s) \cup {k}
  <2> SUFFICES ASSUME NEW i \in DOMAIN c PROVE c[i].key \in Keys(s) \cup {k}
    BY DEF Keys
  <2>1. i \in Nat
    BY <1>2
  <2>2. CASE i > Len(s)
    BY <1>3, <2>2
  <2>3. CASE i <= Len(s)
    BY <1>4, <2>3 DEF Keys
  <2> QED BY <1>2, <2>1, <2>2, <2>3
<1> QED BY <1>5, <1>6 DEF c

(* What updateAppRule's loop has made of the groups after the rules s.     *)
Updating(s, a, profile) ==
    /\ Whole(a.new) /\ Keys(a.new) \subseteq Keys(s)
    /\ \A k \in GroupsOf(profile) : LastKey(s, k) => a.last = k
    /\ \A k \in Group \ GroupsOf(profile) : LastKey(s, k) => LastKey(a.new, k)

(* The next rule of a list whose groups are made again.                    *)
LEMMA UpdatingStep ==
    ASSUME RuleListAssumption, NEW profile \in Profile, NEW n \in Nat, 1 .. n \subseteq Item,
           NEW s \in Seq(Rule), NEW r \in Rule, NEW a \in Updates, Updating(s, a, profile),
           Whole(Append(s, r)), NEW b, b = UpdateRule(a, r, profile, n)
    PROVE  Updating(Append(s, r), b, profile)
<1>1. IsApp(r) /\ r.key \in Keys(s) => LastKey(s, r.key)
  BY WholeLonger
<1>2. Keys(Append(s, r)) = Keys(s) \cup {r.key}
  BY KeysOfSlots
<1>3. \A x \in Seq(Rule) : /\ Append(x, r) \in Seq(Rule) /\ Append(x, r) # <<>>
                            /\ Append(x, r)[Len(Append(x, r))] = r
  OBVIOUS
<1>4. \A k : LastKey(Append(s, r), k) <=> k = r.key
  BY <1>3 DEF LastKey
<1>5. App(r) = profile <=> r.key \in GroupsOf(profile)
  BY AppOf
<1>6. a.new \in Seq(Rule) /\ Whole(a.new) /\ Keys(a.new) \subseteq Keys(s)
  BY DEF Updates, Updating
<1>7. CASE App(r) # profile
  <2>1. b.new = Append(a.new, r)
    BY <1>7 DEF UpdateRule, Updates
  <2>2. IsApp(r) /\ r.key \in Keys(a.new) => LastKey(a.new, r.key)
    BY <1>1, <1>5, <1>6, <1>7 DEF Updating, IsApp
  <2>3. Whole(Append(a.new, r))
    BY <1>6, <2>2, WholeAppend DEF LastKey
  <2>4. Keys(Append(a.new, r)) = Keys(a.new) \cup {r.key}
    BY <1>6, KeysOfSlots
  <2>5. LastKey(Append(a.new, r), r.key)
    BY <1>3, <1>6 DEF LastKey
  <2>6. Keys(b.new) \subseteq Keys(Append(s, r))
    BY <1>2, <1>6, <2>1, <2>4
  <2> QED BY ONLY <1>4, <1>5, <1>7, <2>1, <2>3, <2>5, <2>6 DEF Updating
<1>8. CASE App(r) = profile /\ r.key = a.last
  <2>1. b = a
    BY <1>8 DEF UpdateRule
  <2>2. r.key \in GroupsOf(profile)
    BY <1>5, <1>8
  <2>3. Keys(b.new) \subseteq Keys(Append(s, r))
    BY <1>2, <1>6, <2>1
  <2> QED BY ONLY <1>4, <1>6, <1>8, <2>1, <2>2, <2>3 DEF Updating
<1>9. CASE App(r) = profile /\ r.key # a.last
  <2>1. b.new = a.new \o Regenerated(r, n) /\ b.last = r.key
    BY <1>9 DEF UpdateRule
  <2>2. r.key \in Group /\ r.key \in GroupsOf(profile)
    BY <1>5, <1>9 DEF GroupsOf
  <2>3. r.key \notin Keys(s)
    BY <1>1, <1>9, <2>2 DEF Updating, IsApp
  <2>4. PICK t : t = Regenerated(r, n)
    OBVIOUS
  <2>5. t \in Seq(Rule) /\ Len(t) = n
        /\ \A i \in 1 .. n : t[i] = [key |-> r.key, item |-> i, act |-> r.act]
    BY <2>2, <2>4, RegeneratedTyping
  <2>6. \A i \in DOMAIN t : t[i].key = r.key
    BY <2>5
  <2>7. Whole(a.new \o t) /\ Keys(a.new \o t) \subseteq Keys(a.new) \cup {r.key}
    <3>1. r.key \notin Keys(a.new)
      BY <1>6, <2>3
    <3> QED BY <1>6, <2>5, <2>6, <3>1, ConcatWhole
  <2>8. Keys(b.new) \subseteq Keys(Append(s, r)) /\ Whole(b.new)
    BY <1>2, <1>6, <2>1, <2>4, <2>7
  <2> QED BY ONLY <1>4, <2>1, <2>2, <2>8 DEF Updating
<1> QED BY <1>7, <1>8, <1>9

(* updateAppRule keeps whole groups whole.                                 *)
LEMMA UpdatedWhole ==
    ASSUME RuleListAssumption, NEW profile \in Profile, NEW n \in Nat, 1 .. n \subseteq Item,
           NEW list \in Seq(Rule), Whole(list)
    PROVE  Whole(updateAppRule(list, profile, n))
<1> DEFINE D(s) == Updated(s, profile, n)
           P(s) == Whole(s) => Updating(s, D(s), profile)
           T == {s \in Seq(Rule) : P(s)}
<1>0. ASSUME NEW s \in Seq(Rule) PROVE UpdatedRight(s, profile, n)
  BY UpdatedFold
<1>1. P(<<>>)
  <2>1. D(<<>>) = NothingYet
    BY <<>> \in Seq(Rule), <1>0 DEF UpdatedRight
  <2>2. D(<<>>).new = <<>> /\ \A k : ~LastKey(<<>>, k)
    BY <2>1 DEF NothingYet, LastKey
  <2> HIDE DEF D
  <2> QED BY <2>2 DEF Updating
<1>2. ASSUME NEW s \in Seq(Rule), NEW r \in Rule, P(s) PROVE P(Append(s, r))
  <2> SUFFICES ASSUME Whole(Append(s, r)) PROVE Updating(Append(s, r), D(Append(s, r)), profile)
    OBVIOUS
  <2>1. D(Append(s, r)) = UpdateRule(D(s), r, profile, n) /\ D(s) \in Updates
    BY <1>0 DEF UpdatedRight
  <2>2. Whole(s)
    BY WholeLonger
  <2> HIDE DEF D
  <2> QED BY <1>2, <2>1, <2>2, UpdatingStep
<1>3. Seq(Rule) \subseteq T
  <2>1. <<>> \in T
    BY <1>1
  <2>2. ASSUME NEW s \in Seq(Rule), NEW r \in Rule, s \in T PROVE Append(s, r) \in T
    <3>1. Append(s, r) \in Seq(Rule)
      OBVIOUS
    <3> HIDE DEF P
    <3> QED BY <1>2, <2>2, <3>1
  <2> HIDE DEF T
  <2> QED BY <2>1, <2>2, ListInduction
<1>4. updateAppRule(list, profile, n) = D(list).new
  BY Zenon DEF updateAppRule, Updated, NothingYet
<1>5. P(list)
  <2> HIDE DEF P
  <2> QED BY <1>3
<1> QED BY <1>4, <1>5 DEF Updating

(* A rule command, when it neither meets its application in the lists nor  *)
(* inserts one of several rules for both families, keeps the groups whole. *)
LEMMA RuleOpWhole ==
    ASSUME RuleListAssumption, TypeOK, GroupsWhole, NEW w \in Wanted,
           NEW kind \in {"add", "prepend", "delete", "insert"}, NEW num \in Nat,
           kind = "insert" \/ num = 0, RuleOp(w.key, w.act, kind, num), ~AppIsThere, InPlace
    PROVE  GroupsWhole'
<1>1. PICK c : c = runRuleOp(w.key, w.act, kind, num)
  OBVIOUS
<1>2. c.outcome # "error" /\ rules' = c.lists /\ op' = [kind |-> kind, keys |-> {w.key}, num |-> num]
  BY <1>1, Zenon DEF RuleOp, Commit
<1>3. KeepsWhole(w.key, kind)
  <2>1. ASSUME kind # "delete", w.key \in Group, NEW f \in Family PROVE w.key \notin Keys(rules[f])
    <3>1. op'.kind \in {"add", "prepend", "insert", "import"} /\ op'.keys = {w.key}
      BY <1>2, <2>1
    <3>2. w.key \notin Keys(rules["v4"]) \cup Keys(rules["v6"])
      BY <2>1, <3>1 DEF AppIsThere
    <3> QED BY <3>2 DEF Family
  <2>2. ASSUME kind = "insert", w.key \in Group
        PROVE  families[w.key] # Family \/ size[profileOf[w.key]] = 1
    <3>1. op'.kind = "insert" /\ op'.keys = {w.key}
      BY <1>2, <2>2
    <3> QED BY <2>2, <3>1 DEF InPlace
  <2> QED BY <2>1, <2>2 DEF KeepsWhole
<1>4. \A f \in Family : Whole(c.lists[f])
  BY <1>1, <1>2, <1>3, RunWhole
<1>5. \A f \in Family : Whole(rules'[f])
  BY <1>2, <1>4
<1> QED BY <1>5, Zenon DEF GroupsWhole, Whole

(* So does every step.                                                     *)
LEMMA NextWhole ==
    ASSUME RuleListAssumption, TypeOK, Next, GroupsWhole, ~AppIsThere, InPlace, FromWhole
    PROVE  GroupsWhole'
<1>0. rules \in [Family -> Seq(Rule)] /\ \A f \in Family : Whole(rules[f])
  BY Zenon DEF TypeOK, GroupsWhole
<1>00. (\A f \in Family : Whole(rules'[f])) => GroupsWhole'
  BY Zenon DEF GroupsWhole, Whole
<1>1. \A num \in 1 .. 2 * MaxLen : num \in Nat
  BY DEF RuleListAssumption
<1>2. ASSUME NEW num \in Nat, deleteByNumber(num) PROVE GroupsWhole'
  <2>1. \A f \in Family : Within(rules'[f], rules[f])
    BY <1>2, NumberWithin
  <2>2. PICK k : BothKept(rules, rules', k)
    BY <1>2, NumberKept
  <2>3. \A f \in Family : rules'[f] \in Seq(Rule)
    BY <2>2 DEF BothKept, Kept
  <2>4. \A f \in Family : Whole(rules'[f])
    BY <1>0, <2>1, <2>3, WithinWhole
  <2> QED BY <1>00, <2>4
<1>3. ASSUME NEW doc \in Documents, Import(doc) PROVE GroupsWhole'
  <2>1. /\ rules' = [f \in Family |-> mergeRules(rules[f], doc[f])]
        /\ op'.kind = "import"
        /\ op'.keys = {doc["v4"][i].key : i \in DOMAIN doc["v4"]}
                      \cup {doc["v6"][i].key : i \in DOMAIN doc["v6"]}
    BY <1>3, Zenon DEF Import, Commit
  <2>2. op'.keys = Keys(doc["v4"]) \cup Keys(doc["v6"])
    BY <2>1, Zenon DEF Keys
  <2>3. ASSUME NEW f \in Family PROVE Whole(rules'[f])
    <3>1. doc[f] \in Seq(Rule) /\ rules[f] \in Seq(Rule) /\ Whole(rules[f])
      BY <1>0 DEF RuleListAssumption
    <3>2. Whole(doc[f])
      BY <2>1 DEF FromWhole
    <3>3. \A k \in Keys(doc[f]) \cap Group : k \notin Keys(rules[f])
      <4>1. op'.keys \cap Group \cap (Keys(rules["v4"]) \cup Keys(rules["v6"])) = {}
        BY <2>1 DEF AppIsThere
      <4> QED BY <2>2, <4>1 DEF Family
    <3>4. Whole(mergeRules(rules[f], doc[f]))
      BY <3>1, <3>2, <3>3, MergedWhole
    <3> QED BY <2>1, <3>4
  <2> QED BY <1>00, <2>3
<1>4. ASSUME NEW profile \in Profile, AppUpdate(profile) PROVE GroupsWhole'
  <2>1. PICK n : n = size[profile]
    OBVIOUS
  <2>2. n \in Nat /\ 1 .. n \subseteq Item
    BY <2>1 DEF TypeOK, RuleListAssumption
  <2>3. rules' = [f \in Family |-> updateAppRule(rules[f], profile, n)]
    BY <1>4, <2>1, Zenon DEF AppUpdate, Commit
  <2>4. ASSUME NEW f \in Family PROVE Whole(rules'[f])
    <3>1. rules[f] \in Seq(Rule) /\ Whole(rules[f])
      BY <1>0
    <3>2. Whole(updateAppRule(rules[f], profile, n))
      BY <2>2, <3>1, UpdatedWhole
    <3> QED BY <2>3, <3>2
  <2> QED BY <1>00, <2>4
<1>5. ASSUME NEW profile \in Profile, EditProfile(profile) PROVE GroupsWhole'
  <2>1. rules' = rules
    BY <1>5, Zenon DEF EditProfile
  <2> QED BY <1>0, <1>00, <2>1
<1>6. CASE \E w \in Wanted :
              \/ \E kind \in {"add", "prepend", "delete"} : RuleOp(w.key, w.act, kind, 0)
              \/ \E num \in 1 .. 2 * MaxLen : RuleOp(w.key, w.act, "insert", num)
  <2>1. PICK w \in Wanted :
              \/ \E kind \in {"add", "prepend", "delete"} : RuleOp(w.key, w.act, kind, 0)
              \/ \E num \in 1 .. 2 * MaxLen : RuleOp(w.key, w.act, "insert", num)
    BY <1>6
  <2>2. ASSUME NEW kind \in {"add", "prepend", "delete"}, RuleOp(w.key, w.act, kind, 0)
        PROVE  GroupsWhole'
    <3>1. 0 \in Nat /\ kind \in {"add", "prepend", "delete", "insert"}
      OBVIOUS
    <3> QED BY <2>2, <3>1, RuleOpWhole
  <2>3. ASSUME NEW num \in Nat, RuleOp(w.key, w.act, "insert", num) PROVE GroupsWhole'
    BY <2>3, RuleOpWhole
  <2> QED BY <1>1, <2>1, <2>2, <2>3
<1>7. CASE \E num \in 1 .. 2 * MaxLen : deleteByNumber(num)
  BY <1>1, <1>2, <1>7
<1>8. CASE \E p \in Profile : AppUpdate(p) \/ EditProfile(p)
  BY <1>4, <1>5, <1>8
<1> QED BY <1>3, <1>6, <1>7, <1>8 DEF Next

(* No command splits an application group that is whole: not the one it    *)
(* puts in, of however many rules, nor one it puts a rule next to; but for *)
(* the cases that AppIsThere, InPlace and FromWhole name.                  *)
THEOREM GroupsAreKept == Spec => GroupsKept
<1>1. TypeOK /\ [Next]_vars
      => [GroupsWhole /\ ~AppIsThere /\ InPlace /\ FromWhole => GroupsWhole']_vars
  <2> SUFFICES ASSUME TypeOK, Next, GroupsWhole, ~AppIsThere, InPlace, FromWhole
               PROVE  GroupsWhole'
    BY DEF vars
  <2> QED BY RuleListAssumption, NextWhole
<1> QED BY <1>1, RuleListTyping, PTL DEF Spec, GroupsKept

(* Two lists that are the same decide in the same order.                   *)
LEMMA SameOrdered ==
    ASSUME NEW lists, lists["v4"] \in Seq(Rule), lists["v6"] = lists["v4"], Distinct(lists["v4"])
    PROVE  Ordered(lists)
<1>1. PICK list : list = lists["v4"]
  OBVIOUS
<1>2. Within(list, list) /\ list \in Seq(Rule) /\ Distinct(list)
  BY <1>1, WithinItself
<1>3. lists["v4"] \in Seq(Rule) /\ lists["v6"] \in Seq(Rule)
      /\ Within(lists["v4"], list) /\ Within(lists["v6"], list)
  BY <1>1, <1>2
<1> QED BY ONLY <1>2, <1>3, WithinOrdered

(* What a rule for both families without a number makes of the same lists  *)
(* are the same lists.                                                     *)
Alike(s, numV6) ==
    s.outcome # "error" => s.lists["v4"] = s.lists["v6"] /\ s.numV4 = numV6

(* One of the command's rules keeps them the same,                         *)
LEMMA AlikeStep ==
    ASSUME NEW s \in Runs, NEW todo, NEW k, NEW kind, ToDo(todo, k, kind), families[k] = Family,
           kind \in {"add", "prepend", "delete"}, NEW numV6 \in Nat, NEW i \in DOMAIN todo,
           Alike(s, numV6), NEW num, num = 0, NEW c, c = ApplyOne(s, i, todo, kind, num, numV6)
    PROVE  Alike(c, numV6)
<1> SUFFICES ASSUME c.outcome # "error" PROVE Alike(c, numV6)
  BY DEF Alike
<1>1. PICK remove : remove = (kind = "delete")
  OBVIOUS
<1>2. PICK nr : nr = todo[i]
  OBVIOUS
<1>3. PICK userPos : userPos = IF kind = "prepend" THEN -1 ELSE num
  OBVIOUS
<1>4. c = applyRule(s, nr, userPos, i - 1, numV6, remove)
  <2>1. \/ c = [s EXCEPT !.outcome = "error"]
        \/ c = applyRule(s, nr, userPos, i - 1, numV6, remove)
    BY <1>1, <1>2, <1>3, Zenon DEF ApplyOne
  <2>2. c # [s EXCEPT !.outcome = "error"]
    BY DEF Runs
  <2> QED BY ONLY <2>1, <2>2
<1>5. userPos \in {-1, 0}
  BY <1>3
<1>6. i - 1 \in Nat /\ nr.key = k /\ remove \in BOOLEAN
  <2>1. i \in Nat \ {0} /\ nr.key = k
    BY <1>2 DEF ToDo
  <2>2. i - 1 \in Nat
    BY <2>1
  <2> QED BY <1>1, <2>1, <2>2
<1>7. s.outcome # "error"
  BY <1>4 DEF applyRule
<1>8. HalvedAlike(s, c, nr, remove, userPos, i - 1, numV6)
  <2>1. families[nr.key] \in {Family, {"v4"}, {"v6"}} /\ userPos \in Int
    BY <1>5, <1>6
  <2> QED BY ONLY <1>4, <1>5, <1>6, <2>1, s \in Runs, numV6 \in Nat, c.outcome # "error", RuleHalved
<1>9. s.lists["v4"] = s.lists["v6"] /\ s.numV4 = numV6
  BY <1>7 DEF Alike
<1>10. PICK pos : pos = Position("v4", userPos, i - 1, s.numV4, numV6)
  OBVIOUS
<1>11. pos = Position("v6", userPos, i - 1, s.numV4, numV6)
  BY <1>5, <1>9, <1>10 DEF Position, v4Position, v6Position
<1>12. /\ c.numV4 = s.numV4
       /\ Halved(s, c, nr, remove, "v4", pos) /\ Halved(s, c, nr, remove, "v6", pos)
  <2>1. "v4" \in Family /\ "v6" \in Family /\ families[nr.key] = Family
    BY <1>6 DEF Family
  <2> QED BY <1>8, <1>10, <1>11, <2>1 DEF HalvedAlike
<1>13. c.lists["v4"] = c.lists["v6"]
  BY <1>9, <1>12, Zenon DEF Halved
<1> QED BY <1>9, <1>12, <1>13 DEF Alike

(* and so do all of them.                                                  *)
LEMMA AlikeRun ==
    ASSUME NEW start \in Runs, NEW todo, NEW k, NEW kind, ToDo(todo, k, kind),
           families[k] = Family, kind \in {"add", "prepend", "delete"},
           NEW numV6 \in Nat, Alike(start, numV6), NEW done \in Seq(DOMAIN todo), NEW num, num = 0
    PROVE  Alike(Applied(start, todo, kind, num, numV6, done), numV6)
<1> DEFINE E == DOMAIN todo
           D(s) == Applied(start, todo, kind, num, numV6, s)
           P(s) == Alike(D(s), numV6)
           T == {s \in Seq(E) : P(s)}
<1>0. ASSUME NEW s \in Seq(E) PROVE AppliedRight(s, start, todo, kind, num, numV6)
  BY <1>0, AppliedFold
<1>1. P(<<>>)
  <2>1. D(<<>>) = start
    BY <<>> \in Seq(E), <1>0 DEF AppliedRight
  <2> HIDE DEF D
  <2> QED BY <2>1
<1>2. ASSUME NEW s \in Seq(E), NEW i \in E, P(s) PROVE P(Append(s, i))
  <2>1. D(Append(s, i)) = ApplyOne(D(s), i, todo, kind, num, numV6) /\ D(s) \in Runs
    BY <1>0 DEF AppliedRight
  <2> HIDE DEF D
  <2> QED BY <1>2, <2>1, AlikeStep
<1>3. Seq(E) \subseteq T
  <2>1. <<>> \in T
    BY <1>1
  <2>2. ASSUME NEW s \in Seq(E), NEW i \in E, s \in T PROVE Append(s, i) \in T
    <3>1. Append(s, i) \in Seq(E)
      OBVIOUS
    <3> HIDE DEF P
    <3> QED BY <1>2, <2>2, <3>1
  <2> HIDE DEF T, E
  <2> QED BY <2>1, <2>2, ListInduction
<1>4. P(done)
  <2> HIDE DEF P
  <2> QED BY <1>3
<1> QED BY <1>4

(* So is it for a command without a number.                                *)
LEMMA CommandAlike ==
    ASSUME RuleListAssumption, TypeOK, rules["v4"] = rules["v6"], NEW w \in Wanted,
           NEW kind \in {"add", "prepend", "delete"}, families[w.key] = Family,
           NEW num, num = 0,
           NEW c, c = runRuleOp(w.key, w.act, kind, num), c.outcome # "error"
    PROVE  c.lists["v4"] = c.lists["v6"]
<1> DEFINE all == Expanded(w.key, w.act, kind)
           first == [lists |-> rules, numV4 |-> dedupedCount(rules["v4"]), outcome |-> ""]
           count == dedupedCount(rules["v6"])
           order == [i \in DOMAIN all |-> i]
<1>1. rules \in [Family -> Seq(Rule)] /\ rules["v4"] \in Seq(Rule) /\ rules["v6"] \in Seq(Rule)
  BY DEF TypeOK, Family
<1>2. dedupedCount(rules["v4"]) \in Nat /\ count \in Nat
  BY <1>1, CountTyping
<1>3. first \in Runs /\ Alike(first, count)
  BY <1>1, <1>2 DEF Runs, Outcomes, Alike
<1>4. c = Applied(first, all, kind, num, count, order)
  BY Zenon DEF runRuleOp, Applied
<1>5. ToDo(all, w.key, kind) /\ order \in Seq(DOMAIN all)
  BY ExpandedToDo
<1> HIDE DEF all, first, count, order
<1>6. Alike(c, count)
  BY <1>2, <1>3, <1>4, <1>5, AlikeRun
<1> QED BY <1>6 DEF Alike

(* The first rules of a list, when each is counted, are as many numbers.   *)
LEMMA FirstShown ==
    ASSUME NEW list \in Seq(Rule), NEW n \in Nat, 1 .. n \subseteq Shown(list)
    PROVE  n <= dedupedCount(list)
<1>1. IsFiniteSet(Shown(list))
  BY CountTyping
<1>2. Cardinality(1 .. n) = n
  BY FS_Interval
<1>3. Cardinality(1 .. n) <= Cardinality(Shown(list))
  BY <1>1, FS_Subset
<1> QED BY <1>2, <1>3 DEF dedupedCount

(* A number that is a place is the number of that rule.                    *)
LEMMA PlaceIsNumber ==
    ASSUME NEW list \in Seq(Rule), NEW num, NumberIsPlace(list, num)
    PROVE  /\ num \in 1 .. Len(list) /\ 1 .. num \subseteq Shown(list)
           /\ num <= dedupedCount(list) /\ ~Split(list, num)
<1>1. num \in 1 .. Len(list) /\ num \in Nat
  <2>1. num \in DOMAIN list
    BY DEF NumberIsPlace
  <2> QED BY <2>1
<1>2. ASSUME NEW i \in 1 .. num, IsApp(list[i]), NEW j \in 1 .. i - 1
      PROVE  list[j].key # list[i].key
  <2>1. j \in 1 .. num /\ i # j
    BY <1>1
  <2>2. App(list[i]) # App(list[j])
    BY <1>2, <2>1 DEF NumberIsPlace
  <2> QED BY <2>2 DEF App, IsApp
<1>3. 1 .. num \subseteq Shown(list)
  <2>1. ASSUME NEW i \in 1 .. num PROVE i \in DOMAIN list
    BY <1>1
  <2> QED BY <1>2, <2>1 DEF Shown
<1>4. num <= dedupedCount(list)
  BY <1>1, <1>3, FirstShown
<1>5. ~Split(list, num)
  <2> SUFFICES ASSUME Split(list, num) PROVE FALSE
    OBVIOUS
  <2>1. num > 1 /\ IsApp(list[num]) /\ App(list[num - 1]) = App(list[num])
    BY DEF Split
  <2>2. num \in 1 .. num /\ num - 1 \in 1 .. num /\ num # num - 1
    BY <1>1, <2>1
  <2>3. App(list[num]) # App(list[num - 1])
    BY <2>1, <2>2 DEF NumberIsPlace
  <2> QED BY <2>1, <2>3
<1> QED BY <1>1, <1>3, <1>4, <1>5

(* So are the numbers up to the next when a rule is put there.             *)
LEMMA PutShown ==
    ASSUME NEW list \in Seq(Rule), NEW nr \in Rule, NEW num, NumberIsPlace(list, num),
           IsApp(nr) => nr.key \notin Keys(list), NEW p, p = Put(list, nr, num)
    PROVE  /\ p \in Seq(Rule) /\ Len(p) = Len(list) + 1 /\ p[num + 1] = list[num]
           /\ 1 .. num + 1 \subseteq Shown(p) /\ num + 1 <= dedupedCount(p)
<1>1. num \in 1 .. Len(list) /\ num \in Nat /\ 1 .. num \subseteq Shown(list)
  BY PlaceIsNumber
<1>2. PutRight(list, nr, num, p)
  BY <1>1, PutTyping
<1>3. p \in Seq(Rule) /\ Len(p) = Len(list) + 1 /\ DOMAIN p = 1 .. Len(list) + 1 /\ p[num] = nr
  BY <1>2 DEF PutRight
<1>4. \A i \in 1 .. num - 1 : p[i] = list[i]
  BY <1>2 DEF PutRight
<1>5. p[num + 1] = list[num]
  <2>1. PICK m : m = num + 1
    OBVIOUS
  <2>2. m \in num + 1 .. Len(list) + 1 /\ m - 1 = num
    BY <1>1, <2>1
  <2>3. p[m] = list[m - 1]
    BY <1>2, <2>2 DEF PutRight
  <2> QED BY <2>1, <2>2, <2>3
<1>6. \A i \in 1 .. num, j \in 1 .. num : j < i /\ IsApp(list[i]) => list[j].key # list[i].key
  <2>1. ASSUME NEW i \in 1 .. num, NEW j \in 1 .. num, j < i, IsApp(list[i])
        PROVE  list[j].key # list[i].key
    <3>1. j \in 1 .. i - 1
      BY <1>1, <2>1
    <3> QED BY <1>1, <2>1, <3>1 DEF Shown
  <2> QED BY <2>1
<1>7. \A i \in 1 .. num : IsApp(list[i]) \/ IsApp(nr) => list[i].key # nr.key
  <2>1. \A i \in 1 .. num : list[i].key \in Keys(list)
    BY <1>1 DEF Keys
  <2> QED BY <2>1 DEF IsApp
<1>8. ASSUME NEW i \in 1 .. num + 1, IsApp(p[i]), NEW j \in 1 .. i - 1
      PROVE  p[j].key # p[i].key
  <2>1. CASE i < num
    <3>1. i \in 1 .. num - 1 /\ j \in 1 .. num - 1 /\ j < i /\ i \in 1 .. num /\ j \in 1 .. num
      BY <1>1, <2>1
    <3> QED BY <1>4, <1>6, <1>8, <3>1
  <2>2. CASE i = num
    <3>1. j \in 1 .. num - 1 /\ j \in 1 .. num
      BY <1>1, <2>2
    <3> QED BY <1>3, <1>4, <1>7, <1>8, <2>2, <3>1
  <2>3. CASE i = num + 1
    <3>1. p[i] = list[num] /\ num \in 1 .. num
      BY <1>1, <1>5, <2>3
    <3>2. CASE j = num
      BY <1>3, <1>7, <1>8, <3>1, <3>2
    <3>3. CASE j # num
      <4>1. j \in 1 .. num - 1 /\ j \in 1 .. num /\ j < num
        BY <1>1, <2>3, <3>3
      <4> QED BY <1>4, <1>6, <1>8, <3>1, <4>1
    <3> QED BY <3>2, <3>3
  <2> QED BY <1>1, <2>1, <2>2, <2>3
<1>9. 1 .. num + 1 \subseteq Shown(p)
  <2>1. ASSUME NEW i \in 1 .. num + 1 PROVE i \in DOMAIN p
    BY <1>1, <1>3
  <2> QED BY <1>8, <2>1 DEF Shown
<1>10. num + 1 <= dedupedCount(p)
  <2>1. PICK m : m = num + 1
    OBVIOUS
  <2>2. m \in Nat /\ 1 .. m \subseteq Shown(p)
    BY <1>1, <1>9, <2>1
  <2>3. m <= dedupedCount(p)
    BY <1>3, <2>2, FirstShown
  <2> QED BY <2>1, <2>3
<1> QED BY <1>3, <1>5, <1>9, <1>10

(* The rule that stands behind the one put in has its twin at that place.  *)
LEMMA TwinFound ==
    ASSUME NEW list \in Seq(Rule), Distinct(list), NEW p \in Seq(Rule), NEW num \in 1 .. Len(list),
           Len(p) = Len(list) + 1, p[num + 1] = list[num], 1 .. num + 1 \subseteq Shown(p)
    PROVE  findOtherPosition(p, list, num + 1) = num
<1>0. PICK position : position = num + 1
  OBVIOUS
<1>1. num \in Nat /\ position \in Nat /\ ~(position < 1 \/ position > Len(p))
  BY <1>0
<1>2. position + Cardinality((1 .. position) \ Shown(p)) = position
  <2>1. (1 .. position) \ Shown(p) = {}
    BY <1>0
  <2>2. Cardinality({}) = 0
    BY FS_EmptySet
  <2>3. Cardinality((1 .. position) \ Shown(p)) = 0
    BY ONLY <2>1, <2>2
  <2>4. position + 0 = position
    BY <1>1
  <2> QED BY ONLY <2>3, <2>4
<1>3. PICK twins : twins = {i \in DOMAIN list : Match(list[i], p[position]) = "exact"}
  OBVIOUS
<1>4. twins = {num}
  <2>1. num \in DOMAIN list /\ p[position] = list[num]
    BY <1>0
  <2>2. Match(list[num], list[num]) = "exact"
    BY DEF Match
  <2>3. ASSUME NEW i \in DOMAIN list, Match(list[i], list[num]) = "exact" PROVE i = num
    BY <2>1, <2>3 DEF Distinct
  <2> QED BY <1>3, <2>1, <2>2, <2>3
<1>5. Min(twins) = num
  <2>1. \A x \in {num} : \A y \in {num} : x <= y
    BY <1>1
  <2> QED BY <1>1, <1>4, <2>1 DEF Min
<1>6. findOtherPosition(p, list, position) = num
  <2>1. findOtherPosition(p, list, position)
        = IF position > Len(p) \/ twins = {} THEN 0 ELSE Min(twins)
    BY <1>1, <1>2, <1>3, Zenon DEF findOtherPosition
  <2> QED BY <1>1, <1>4, <1>5, <2>1
<1> QED BY <1>0, <1>6

(* A rule of which there is nothing in a list, and a run of which both     *)
(* lists are that one.                                                     *)
NewHere(list, nr) ==
    nr \in Rule /\ Slot(nr) \notin Slots(list) /\ (IsApp(nr) => nr.key \notin Keys(list))
BothSame(s, list) ==
    s.lists["v4"] = list /\ s.lists["v6"] = list /\ s.numV4 = dedupedCount(list)
CameAlike(c) == c.lists["v4"] = c.lists["v6"]

(* Put in at a place of them, the rule comes to the same place in both,    *)
(* for its second half is put before the twin of the rule that its first   *)
(* was put before.                                                         *)
LEMMA DualAlike ==
    ASSUME RuleListAssumption, NEW list \in Seq(Rule), Distinct(list), NEW nr, NewHere(list, nr),
           NEW num, NumberIsPlace(list, num), NEW s \in Runs, BothSame(s, list),
           NEW count, count = 0, NEW numV6 \in Nat, NEW remove, remove = FALSE,
           NEW c, c = applyDual(s, nr, num, count, numV6, remove), c.outcome # "error"
    PROVE  CameAlike(c)
<1>0. /\ nr \in Rule /\ Slot(nr) \notin Slots(list) /\ (IsApp(nr) => nr.key \notin Keys(list))
      /\ s.lists["v4"] = list /\ s.lists["v6"] = list /\ s.numV4 = dedupedCount(list)
  BY DEF NewHere, BothSame
<1>1. /\ num \in 1 .. Len(list) /\ num <= dedupedCount(list) /\ ~Split(list, num)
      /\ num \in Nat /\ dedupedCount(list) \in Nat
  BY PlaceIsNumber, CountTyping
<1>2. PICK pos4 : pos4 = DualPosition4(s, num, count, remove)
  OBVIOUS
<1>3. pos4 = num
  BY <1>0, <1>1, <1>2 DEF DualPosition4
<1>4. PICK h : h = applyHalf(list, nr, num, remove)
  OBVIOUS
<1>5. PICK v4 : v4 = h.list
  OBVIOUS
<1>6. c = SecondHalf(s, v4, nr, pos4, num, count, numV6, remove)
  <2>1. \/ c = [s EXCEPT !.outcome = "error"]
        \/ c = SecondHalf(s, v4, nr, pos4, num, count, numV6, remove)
    BY <1>0, <1>2, <1>3, <1>4, <1>5, Zenon DEF applyDual
  <2>2. [s EXCEPT !.outcome = "error"].outcome = "error"
    BY DEF Runs
  <2> QED BY ONLY <2>1, <2>2, c.outcome # "error"
<1>7. v4 = Put(list, nr, num)
  <2>1. HalfPlaced(list, nr, num, h)
    <3>1. num \in Int
      BY <1>1
    <3> QED BY <1>0, <1>4, <3>1, HalfPut
  <2>2. num \in 0 .. Len(list)
    BY <1>1
  <2>3. PICK q : Place(list, num, q) /\ v4 = Put(list, nr, q)
    BY <1>5, <2>1, <2>2 DEF HalfPlaced
  <2>4. q = num
    <3>1. q \in 1 .. Len(list) + 1 /\ \A i \in num .. q - 1 : Split(list, i)
      BY <1>1, <2>3 DEF Place
    <3>2. q <= Len(list) => q >= num
      BY <1>1, <2>3 DEF Place
    <3>3. ~(num \in num .. q - 1)
      BY <1>1, <3>1
    <3> QED BY <1>1, <3>1, <3>2, <3>3
  <2> QED BY <2>3, <2>4
<1>8. v4 \in Seq(Rule) /\ findOtherPosition(v4, list, num + 1) = num /\ num + 1 <= dedupedCount(v4)
  <2>1. /\ v4 \in Seq(Rule) /\ Len(v4) = Len(list) + 1 /\ v4[num + 1] = list[num]
        /\ 1 .. num + 1 \subseteq Shown(v4) /\ num + 1 <= dedupedCount(v4)
    BY ONLY <1>0, <1>7, PutShown, list \in Seq(Rule), NumberIsPlace(list, num)
  <2> QED BY <1>1, <2>1, TwinFound
<1>9. dedupedCount(v4) \in Nat
  BY <1>8, CountTyping
<1>10. PICK pos6 : pos6 = DualPosition6(v4, s.lists["v6"], dedupedCount(v4), num + 1, num, count, numV6, remove)
  OBVIOUS
<1>11. pos6 = num
  <2>1. NearTwin(findOtherPosition(v4, list, num + 1), count) = num
    BY <1>1, <1>8 DEF NearTwin
  <2>2. num # -1 /\ ~(remove \/ num + 1 <= 0) /\ ~(num > dedupedCount(v4))
    BY <1>1, <1>8, <1>9
  <2>3. pos6 = DualPosition6(v4, list, dedupedCount(v4), num + 1, num, count, numV6, remove)
    BY <1>0, <1>10
  <2> QED BY <1>8, <2>1, <2>2, <2>3, Zenon DEF DualPosition6
<1>12. PICK h6 : h6 = applyHalf(s.lists["v6"], nr, pos6, remove)
  OBVIOUS
<1>13. c = [lists |-> [v4 |-> v4, v6 |-> h6.list], numV4 |-> dedupedCount(v4), outcome |-> h6.outcome]
  <2>1. ~remove /\ num > 0
    BY <1>1
  <2> QED BY <1>6, <1>10, <1>12, <2>1, Zenon DEF SecondHalf
<1>14. c.lists["v4"] = v4 /\ c.lists["v6"] = h6.list
  BY ONLY <1>13
<1>15. h6 = h
  BY <1>0, <1>4, <1>11, <1>12
<1>16. h6.list = v4
  BY ONLY <1>5, <1>15
<1>17. c.lists["v4"] = c.lists["v6"]
  BY ONLY <1>14, <1>16
<1> QED BY ONLY <1>17 DEF CameAlike

(* A rule for both families that is there already changes no order.        *)
LEMMA DualWithin ==
    ASSUME NEW list \in Seq(Rule), NEW nr \in Rule, Slot(nr) \in Slots(list),
           NEW num \in Int, NEW s \in Runs, s.lists["v4"] = list, s.lists["v6"] = list,
           NEW count \in Nat, NEW numV6 \in Nat, NEW remove, remove = FALSE,
           NEW c, c = applyDual(s, nr, num, count, numV6, remove), c.outcome # "error"
    PROVE  Within(c.lists["v4"], list) /\ Within(c.lists["v6"], list)
<1>0. remove \in BOOLEAN
  OBVIOUS
<1>1. PICK pos4 : pos4 = DualPosition4(s, num, count, remove)
  OBVIOUS
<1>2. PICK h : h = applyHalf(list, nr, pos4, remove)
  OBVIOUS
<1>3. PICK v4 : v4 = h.list
  OBVIOUS
<1>4. c = SecondHalf(s, v4, nr, pos4, num, count, numV6, remove)
  <2>1. \/ c = [s EXCEPT !.outcome = "error"]
        \/ c = SecondHalf(s, v4, nr, pos4, num, count, numV6, remove)
    BY <1>1, <1>2, <1>3, Zenon DEF applyDual
  <2>2. [s EXCEPT !.outcome = "error"].outcome = "error"
    BY DEF Runs
  <2> QED BY ONLY <2>1, <2>2, c.outcome # "error"
<1>5. pos4 \in Int
  BY <1>1, DualTyping
<1>6. Within(v4, list) /\ v4 \in Seq(Rule)
  <2>1. Within(v4, list)
    BY <1>0, <1>2, <1>3, <1>5, HalfWithin
  <2>2. v4 \in Seq(Rule)
    <3>1. Kept(list, h.list, nr.key)
      BY <1>2, <1>5, HalfKept
    <3> QED BY <1>3, <3>1 DEF Kept
  <2> QED BY <2>1, <2>2
<1>7. PICK n4 : n4 = IF ~remove /\ num > 0 THEN dedupedCount(v4) ELSE s.numV4
  OBVIOUS
<1>8. PICK next : next = IF ~remove /\ num > 0 THEN num + 1 ELSE pos4
  OBVIOUS
<1>9. PICK pos6 : pos6 = DualPosition6(v4, s.lists["v6"], n4, next, num, count, numV6, remove)
  OBVIOUS
<1>10. PICK h6 : h6 = applyHalf(s.lists["v6"], nr, pos6, remove)
  OBVIOUS
<1>11. c = [lists |-> [v4 |-> v4, v6 |-> h6.list], numV4 |-> n4, outcome |-> h6.outcome]
  BY <1>4, <1>7, <1>8, <1>9, <1>10, Zenon DEF SecondHalf
<1>12. c.lists["v4"] = v4 /\ c.lists["v6"] = h6.list
  BY ONLY <1>11
<1>13. pos6 \in Int
  <2>1. n4 \in Nat /\ next \in Int
    <3>1. s.numV4 \in Nat /\ dedupedCount(v4) \in Nat
      BY <1>6, CountTyping DEF Runs
    <3> QED BY <1>5, <1>7, <1>8, <3>1
  <2> QED BY <1>6, <1>9, <2>1, DualTyping
<1>14. Within(h6.list, list)
  BY <1>0, <1>10, <1>13, HalfWithin
<1> QED BY <1>6, <1>12, <1>14

(* One rule inserted for both families into lists that are the same.       *)
LEMMA InsertOne ==
    ASSUME RuleListAssumption, NEW list \in Seq(Rule), Distinct(list),
           NEW s \in Runs, s.lists["v4"] = list, s.lists["v6"] = list,
           s.numV4 = dedupedCount(list), s.outcome # "error",
           NEW todo, NEW k, NEW kind, kind = "insert", ToDo(todo, k, kind), families[k] = Family,
           k \in Group => k \notin Keys(list),
           NEW num, NumberIsPlace(list, num), NEW numV6 \in Nat,
           NEW i \in DOMAIN todo, i = 1,
           NEW c, c = ApplyOne(s, i, todo, kind, num, numV6), c.outcome # "error",
           c.lists["v4"] \in Seq(Rule), c.lists["v6"] \in Seq(Rule), Distinct(c.lists["v4"])
    PROVE  Ordered(c.lists)
<1>1. PICK remove : remove = FALSE
  OBVIOUS
<1>2. PICK nr : nr = todo[i]
  OBVIOUS
<1>3. PICK count : count = i - 1
  OBVIOUS
<1>4. c = applyRule(s, nr, num, count, numV6, remove)
  <2>1. (kind = "delete") = remove /\ kind # "prepend"
    BY <1>1
  <2>2. \/ c = [s EXCEPT !.outcome = "error"]
        \/ c = applyRule(s, nr, num, count, numV6, remove)
    BY <1>2, <1>3, <2>1, Zenon DEF ApplyOne
  <2>3. c # [s EXCEPT !.outcome = "error"]
    BY DEF Runs
  <2> QED BY ONLY <2>2, <2>3
<1>5. nr.key = k /\ nr \in Rule /\ count = 0 /\ num \in Nat
  <2>1. nr.key = k /\ nr \in Rule
    BY <1>2 DEF ToDo
  <2>2. num \in Nat
    BY PlaceIsNumber
  <2> QED BY <1>3, <2>1, <2>2
<1>6. c = applyDual(s, nr, num, count, numV6, remove)
  <2>1. families[nr.key] # {"v4"} /\ families[nr.key] # {"v6"}
    <3>1. families[nr.key] = Family
      BY <1>5
    <3>2. "v4" \in Family /\ "v6" \in Family
      BY ONLY DEF Family
    <3>3. "v6" \notin {"v4"} /\ "v4" \notin {"v6"}
      OBVIOUS
    <3> QED BY ONLY <3>1, <3>2, <3>3
  <2> QED BY <1>4, <2>1, Zenon DEF applyRule
<1>7. CASE Slot(nr) \in Slots(list)
  <2>1. num \in Int /\ count \in Nat
    BY <1>5
  <2>2. Within(c.lists["v4"], list) /\ Within(c.lists["v6"], list)
    BY ONLY <1>1, <1>5, <1>6, <1>7, <2>1, DualWithin, list \in Seq(Rule), s \in Runs,
            s.lists["v4"] = list, s.lists["v6"] = list, numV6 \in Nat, c.outcome # "error"
  <2> QED BY ONLY <2>2, WithinOrdered, list \in Seq(Rule), Distinct(list),
                  c.lists["v4"] \in Seq(Rule), c.lists["v6"] \in Seq(Rule)
<1>8. CASE Slot(nr) \notin Slots(list)
  <2>1. NewHere(list, nr) /\ BothSame(s, list)
    BY <1>5, <1>8 DEF IsApp, NewHere, BothSame
  <2>2. c.lists["v4"] = c.lists["v6"]
    <3>1. CameAlike(c)
      BY ONLY <1>1, <1>5, <1>6, <2>1, DualAlike, RuleListAssumption, list \in Seq(Rule),
              Distinct(list), NumberIsPlace(list, num), s \in Runs, numV6 \in Nat,
              c.outcome # "error"
    <3> QED BY <3>1 DEF CameAlike
  <2>3. PICK lists : lists = c.lists
    OBVIOUS
  <2>4. lists["v4"] \in Seq(Rule) /\ lists["v6"] = lists["v4"] /\ Distinct(lists["v4"])
    BY ONLY <2>2, <2>3, c.lists["v4"] \in Seq(Rule), Distinct(c.lists["v4"])
  <2>5. Ordered(lists)
    BY ONLY <2>4, SameOrdered
  <2> QED BY ONLY <2>3, <2>5
<1> QED BY <1>7, <1>8

(* So is an insert command whose number is a place.                        *)
LEMMA InsertOrdered ==
    ASSUME RuleListAssumption, TypeOK, rules["v4"] = rules["v6"], Distinct(rules["v4"]),
           NEW w \in Wanted, NEW kind, kind = "insert", families[w.key] = Family,
           KeepsWhole(w.key, kind), NEW num, NumberIsPlace(rules["v4"], num),
           NEW c, c = runRuleOp(w.key, w.act, kind, num), c.outcome # "error",
           c.lists["v4"] \in Seq(Rule), c.lists["v6"] \in Seq(Rule), Distinct(c.lists["v4"])
    PROVE  Ordered(c.lists)
<1>1. PICK todo : todo = Expanded(w.key, w.act, kind)
  OBVIOUS
<1>2. PICK k : k = w.key
  OBVIOUS
<1>3. PICK start : start = [lists |-> rules, numV4 |-> dedupedCount(rules["v4"]), outcome |-> ""]
  OBVIOUS
<1>4. PICK numV6 : numV6 = dedupedCount(rules["v6"])
  OBVIOUS
<1>5. PICK done : done = [i \in DOMAIN todo |-> i]
  OBVIOUS
<1>6. PICK list : list = rules["v4"]
  OBVIOUS
<1>7. rules \in [Family -> Seq(Rule)] /\ list \in Seq(Rule) /\ rules["v6"] \in Seq(Rule)
  BY <1>6 DEF TypeOK, Family
<1>8. dedupedCount(list) \in Nat /\ numV6 \in Nat /\ num \in Nat /\ num \in Int
  <2>1. num \in Nat
    BY <1>6, <1>7, PlaceIsNumber
  <2> QED BY <1>4, <1>7, <2>1, CountTyping
<1>9. /\ start \in Runs /\ start.numV4 = dedupedCount(list) /\ start.outcome # "error"
      /\ start.lists["v4"] = list /\ start.lists["v6"] = list
  BY <1>3, <1>6, <1>7, <1>8 DEF Runs, Outcomes
<1>10. c = Applied(start, todo, kind, num, numV6, done)
  <2> DEFINE all == Expanded(w.key, w.act, kind)
             first == [lists |-> rules, numV4 |-> dedupedCount(rules["v4"]), outcome |-> ""]
  <2>1. c = Applied(first, all, kind, num, dedupedCount(rules["v6"]), [i \in DOMAIN all |-> i])
    BY Zenon DEF runRuleOp, Applied
  <2> HIDE DEF all
  <2> QED BY <1>1, <1>3, <1>4, <1>5, <2>1, Zenon DEF all
<1>11. ToDo(todo, k, kind) /\ done \in Seq(DOMAIN todo)
  BY <1>1, <1>2, <1>5, ExpandedToDo
<1>12. PICK n : Items(todo, k, kind, n)
  BY <1>1, <1>2, ExpandedItems
<1>13. n = 1 /\ DOMAIN todo = 1 .. n
  <2>1. k \in Group => size[profileOf[k]] = 1
    BY <1>2 DEF KeepsWhole
  <2>2. kind # "delete"
    OBVIOUS
  <2> QED BY <1>12, <2>1, <2>2 DEF Items
<1>14. PICK i : i = 1
  OBVIOUS
<1>15. i \in DOMAIN todo /\ <<>> \in Seq(DOMAIN todo) /\ done = Append(<<>>, i)
  BY <1>5, <1>13, <1>14
<1>16. AppliedRight(<<>>, start, todo, kind, num, numV6)
  BY <1>8, <1>9, <1>11, <1>15, AppliedFold
<1>17. c = ApplyOne(start, i, todo, kind, num, numV6)
  BY <1>10, <1>15, <1>16 DEF AppliedRight
<1>18. k \in Group => k \notin Keys(list)
  <2>1. "v4" \in Family /\ kind # "delete"
    BY DEF Family
  <2> QED BY <1>2, <1>6, <2>1 DEF KeepsWhole
<1>19. Distinct(list) /\ NumberIsPlace(list, num) /\ families[k] = Family
  BY <1>2, <1>6
<1> QED BY ONLY RuleListAssumption, <1>7, <1>8, <1>9, <1>11, <1>14, <1>15, <1>17, <1>18, <1>19,
                InsertOne, kind = "insert", c.outcome # "error",
                c.lists["v4"] \in Seq(Rule), c.lists["v6"] \in Seq(Rule), Distinct(c.lists["v4"])

(* What TwinOrder asks of a step.                                          *)
InTwinOrder ==
    /\ rules["v4"] = rules["v6"] /\ NoDuplicates
    /\ GroupsWhole /\ ~AppIsThere /\ InPlace
    /\ \A k \in op'.keys : families[k] = Family
    /\ op'.kind # "import"
    /\ op'.kind = "insert" => NumberIsPlace(rules["v4"], op'.num)

(* A rule command keeps that order,                                        *)
LEMMA RuleOpOrdered ==
    ASSUME RuleListAssumption, TypeOK, InTwinOrder, NoDuplicates',
           rules' \in [Family -> Seq(Rule)], NEW w \in Wanted,
           NEW kind \in {"add", "prepend", "delete", "insert"}, NEW num,
           kind = "insert" \/ num = 0, RuleOp(w.key, w.act, kind, num)
    PROVE  Ordered(rules')
<1>1. PICK c : c = runRuleOp(w.key, w.act, kind, num)
  OBVIOUS
<1>2. c.outcome # "error" /\ rules' = c.lists /\ op' = [kind |-> kind, keys |-> {w.key}, num |-> num]
  BY <1>1, Zenon DEF RuleOp, Commit
<1>3. PICK new : new = rules'
  OBVIOUS
<1>4. new["v4"] \in Seq(Rule) /\ new["v6"] \in Seq(Rule) /\ Distinct(new["v4"])
  <2>1. "v4" \in Family /\ "v6" \in Family
    BY DEF Family
  <2>2. Distinct(rules'["v4"])
    BY <2>1 DEF NoDuplicates, Distinct
  <2> QED BY <1>3, <2>1, <2>2
<1>5. c.lists = new /\ c.outcome # "error"
  BY <1>2, <1>3
<1>6. op'.kind = kind /\ op'.keys = {w.key} /\ op'.num = num
  BY <1>2
<1>7. families[w.key] = Family /\ rules["v4"] = rules["v6"]
  BY <1>6 DEF InTwinOrder
<1>8. CASE kind # "insert"
  <2>1. kind \in {"add", "prepend", "delete"} /\ num = 0
    BY <1>8
  <2>2. new["v4"] = new["v6"]
    BY ONLY <1>1, <1>5, <1>7, <2>1, CommandAlike, RuleListAssumption, TypeOK, w \in Wanted
  <2>3. new["v4"] \in Seq(Rule) /\ new["v6"] = new["v4"] /\ Distinct(new["v4"])
    BY ONLY <1>4, <2>2
  <2>4. Ordered(new)
    BY ONLY <2>3, SameOrdered
  <2> QED BY ONLY <1>3, <2>4
<1>9. CASE kind = "insert"
  <2>1. NumberIsPlace(rules["v4"], num)
    BY <1>6, <1>9 DEF InTwinOrder
  <2>2. Distinct(rules["v4"])
    <3>1. "v4" \in Family
      BY DEF Family
    <3> QED BY <3>1 DEF InTwinOrder, NoDuplicates
  <2>3. KeepsWhole(w.key, kind)
    <3>1. ASSUME w.key \in Group, NEW f \in Family PROVE w.key \notin Keys(rules[f])
      <4>1. op'.kind \in {"add", "prepend", "insert", "import"} /\ op'.keys = {w.key}
        BY <1>6, <1>9
      <4>2. ~AppIsThere
        BY DEF InTwinOrder
      <4>3. w.key \notin Keys(rules["v4"]) \cup Keys(rules["v6"])
        BY <3>1, <4>1, <4>2 DEF AppIsThere
      <4> QED BY <4>3 DEF Family
    <3>2. ASSUME w.key \in Group
          PROVE  families[w.key] # Family \/ size[profileOf[w.key]] = 1
      <4>1. InPlace /\ op'.kind = "insert" /\ op'.keys = {w.key}
        BY <1>6, <1>9 DEF InTwinOrder
      <4> QED BY <3>2, <4>1 DEF InPlace
    <3> QED BY <3>1, <3>2 DEF KeepsWhole
  <2>4. c.lists["v4"] \in Seq(Rule) /\ c.lists["v6"] \in Seq(Rule) /\ Distinct(c.lists["v4"])
    BY ONLY <1>4, <1>5
  <2>5. Ordered(c.lists)
    BY ONLY <1>1, <1>5, <1>7, <1>9, <2>1, <2>2, <2>3, <2>4, InsertOrdered, RuleListAssumption,
            TypeOK, w \in Wanted
  <2> QED BY ONLY <1>3, <1>5, <2>5
<1> QED BY <1>8, <1>9

(* and so does every other step.                                           *)
LEMMA NextOrdered ==
    ASSUME RuleListAssumption, TypeOK, Next, InTwinOrder
    PROVE  Ordered(rules')
<1>1. StepKept
  BY NextKept
<1>2. rules' \in [Family -> Seq(Rule)]
  BY <1>1 DEF StepKept
<1>3. NoDuplicates /\ \A f \in Family : Whole(rules[f])
  BY Zenon DEF InTwinOrder, GroupsWhole, Whole
<1>4. NoDuplicates'
  BY <1>1, <1>3 DEF StepKept, NoDuplicates, Distinct
<1>5. /\ rules["v4"] \in Seq(Rule) /\ rules["v6"] \in Seq(Rule) /\ rules["v6"] = rules["v4"]
      /\ rules'["v4"] \in Seq(Rule) /\ rules'["v6"] \in Seq(Rule)
      /\ Distinct(rules["v4"]) /\ Distinct(rules'["v4"])
      /\ DOMAIN rules = Family
  <2>1. "v4" \in Family /\ "v6" \in Family
    BY DEF Family
  <2>2. Distinct(rules'["v4"])
    BY <1>4, <2>1 DEF NoDuplicates, Distinct
  <2> QED BY <1>2, <1>3, <2>1, <2>2 DEF TypeOK, InTwinOrder, NoDuplicates
<1>6. ASSUME rules'["v6"] = rules'["v4"] PROVE Ordered(rules')
  <2>1. PICK new : new = rules'
    OBVIOUS
  <2>2. new["v4"] \in Seq(Rule) /\ new["v6"] = new["v4"] /\ Distinct(new["v4"])
    BY ONLY <1>5, <1>6, <2>1
  <2>3. Ordered(new)
    BY ONLY <2>2, SameOrdered
  <2> QED BY ONLY <2>1, <2>3
<1>7. ASSUME NEW num \in Nat, deleteByNumber(num) PROVE Ordered(rules')
  <2>1. \A f \in Family : Within(rules'[f], rules[f])
    BY <1>7, NumberWithin
  <2>2. PICK new : new = rules'
    OBVIOUS
  <2>3. PICK list : list = rules["v4"]
    OBVIOUS
  <2>4. Within(new["v4"], list) /\ Within(new["v6"], list)
    BY <1>5, <2>1, <2>2, <2>3 DEF Family
  <2>5. list \in Seq(Rule) /\ Distinct(list) /\ new["v4"] \in Seq(Rule) /\ new["v6"] \in Seq(Rule)
    BY ONLY <1>5, <2>2, <2>3
  <2>6. Ordered(new)
    BY ONLY <2>4, <2>5, WithinOrdered
  <2> QED BY ONLY <2>2, <2>6
<1>8. ASSUME NEW doc \in Documents, Import(doc) PROVE FALSE
  <2>1. op'.kind = "import"
    BY <1>8, Zenon DEF Import, Commit
  <2> QED BY <2>1 DEF InTwinOrder
<1>9. ASSUME NEW profile \in Profile, AppUpdate(profile) PROVE Ordered(rules')
  <2>1. rules' = [f \in Family |-> updateAppRule(rules[f], profile, size[profile])]
    BY <1>9, Zenon DEF AppUpdate, Commit
  <2>2. rules'["v6"] = rules'["v4"]
    BY <1>5, <2>1 DEF Family
  <2> QED BY <1>6, <2>2
<1>10. ASSUME NEW profile \in Profile, EditProfile(profile) PROVE Ordered(rules')
  <2>1. rules' = rules
    BY <1>10, Zenon DEF EditProfile
  <2> QED BY <1>5, <1>6, <2>1
<1>11. CASE \E w \in Wanted :
              \/ \E kind \in {"add", "prepend", "delete"} : RuleOp(w.key, w.act, kind, 0)
              \/ \E num \in 1 .. 2 * MaxLen : RuleOp(w.key, w.act, "insert", num)
  <2>1. PICK w \in Wanted :
              \/ \E kind \in {"add", "prepend", "delete"} : RuleOp(w.key, w.act, kind, 0)
              \/ \E num \in 1 .. 2 * MaxLen : RuleOp(w.key, w.act, "insert", num)
    BY <1>11
  <2>2. ASSUME NEW kind \in {"add", "prepend", "delete"}, RuleOp(w.key, w.act, kind, 0)
        PROVE  Ordered(rules')
    <3>1. kind \in {"add", "prepend", "delete", "insert"}
      OBVIOUS
    <3>2. PICK num : num = 0
      OBVIOUS
    <3>3. RuleOp(w.key, w.act, kind, num) /\ (kind = "insert" \/ num = 0)
      BY <2>2, <3>2
    <3> QED BY ONLY <1>2, <1>4, <3>1, <3>3, RuleOpOrdered, RuleListAssumption, TypeOK, InTwinOrder,
                    w \in Wanted
  <2>3. ASSUME NEW num, RuleOp(w.key, w.act, "insert", num) PROVE Ordered(rules')
    <3>1. PICK kind : kind = "insert"
      OBVIOUS
    <3>2. /\ kind \in {"add", "prepend", "delete", "insert"} /\ (kind = "insert" \/ num = 0)
          /\ RuleOp(w.key, w.act, kind, num)
      BY <2>3, <3>1
    <3> QED BY ONLY <1>2, <1>4, <3>2, RuleOpOrdered, RuleListAssumption, TypeOK, InTwinOrder,
                    w \in Wanted
  <2> QED BY <2>1, <2>2, <2>3
<1>12. \A num \in 1 .. 2 * MaxLen : num \in Nat
  BY DEF RuleListAssumption
<1>13. CASE \E num \in 1 .. 2 * MaxLen : deleteByNumber(num)
  BY <1>7, <1>12, <1>13
<1>14. CASE \E p \in Profile : AppUpdate(p) \/ EditProfile(p)
  BY <1>9, <1>10, <1>14
<1> QED BY <1>8, <1>11, <1>13, <1>14 DEF Next

(* From lists that are the same for both families every command leaves the *)
(* rules that have a half in each in one order, an insert where its number *)
(* is the place of a rule and it stands for one: applyDual finds the twin  *)
(* of the rule that it put the first half before.                          *)
THEOREM TwinsInOrder == Spec => TwinOrder
<1>1. TypeOK /\ [Next]_vars => [InTwinOrder => Ordered(rules')]_vars
  <2> SUFFICES ASSUME TypeOK, Next, InTwinOrder PROVE Ordered(rules')
    BY DEF vars
  <2> QED BY RuleListAssumption, NextOrdered
<1>2. [InTwinOrder => Ordered(rules')]_vars
      => [/\ rules["v4"] = rules["v6"] /\ NoDuplicates
          /\ GroupsWhole /\ ~AppIsThere /\ InPlace
          /\ \A k \in op'.keys : families[k] = Family
          /\ op'.kind # "import"
          /\ op'.kind = "insert" => NumberIsPlace(rules["v4"], op'.num)
          => Ordered(rules')]_vars
  BY Zenon DEF InTwinOrder
<1> QED BY <1>1, <1>2, RuleListTyping, PTL DEF Spec, TwinOrder

=============================================================================
