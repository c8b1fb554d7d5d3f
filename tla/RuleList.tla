------------------------------ MODULE RuleList ------------------------------
(***************************************************************************)
(* The two rule lists of rules.json and what the rule commands do to them: *)
(* positions, duplicates, application groups and the IPv4 and IPv6 halves  *)
(* of a rule.  A command is one step (Commands says what its lock leaves   *)
(* open).                                                                  *)
(*                                                                         *)
(* What Match() compares is the key of a rule and, for the rules of an     *)
(* application profile, the port item it stands for; addresses, ports and  *)
(* interfaces are behind the key.  Ids and times of expiry are left out.   *)
(***************************************************************************)
EXTENDS Integers, Sequences, FiniteSets, SequencesExt

CONSTANTS
    Plain,          \* keys of rules given by ports and addresses
    Group,          \* keys of application rules: a profile with its direction
    profileOf,      \* profileOf[g]: the profile of a group
    Item,           \* port items of profiles
    families,       \* families[k]: those a command with key k writes to
    Act,            \* [verdict, comment] of rules
    Wanted,         \* the [key, act] of the commands given
    Documents,      \* exported rule lists that may be imported
    ProfileSizes,   \* how many items a profile may have
    MaxLen          \* bound on the length of a list

Family == {"v4", "v6"}
Key == Plain \cup Group

Rule == [key : Plain, item : {0}, act : Act] \cup [key : Group, item : Item, act : Act]
Profile == {profileOf[g] : g \in Group}
NoApp == ""

(* Rule.Match compares the verdict and the comment apart; a profile has a  *)
(* name, for AppTuple takes none for a rule without an application.        *)
ASSUME RuleListAssumption ==
    /\ Plain \cap Group = {} /\ Item \subseteq Nat \ {0} /\ NoApp \notin Profile
    /\ \A n \in ProfileSizes : n \in Nat /\ 1 .. n \subseteq Item
    /\ \A k \in Key : families[k] \in {Family, {"v4"}, {"v6"}}
    /\ Wanted \subseteq [key : Key, act : Act] /\ MaxLen \in Nat
    /\ Documents \subseteq [Family -> Seq(Rule)]

VARIABLES
    rules,          \* rules[f]: Rules4 and Rules6
    size,           \* size[p]: the items of profile p are 1 .. size[p]
    op              \* history: the last command and what came of it

vars == <<rules, size, op>>

(* AppTuple without the family, which the list tells.                      *)
IsApp(r) == r.key \in Group
App(r) == IF IsApp(r) THEN profileOf[r.key] ELSE NoApp

-----------------------------------------------------------------------------
(* Rule.Match                                                              *)
Match(r, o) ==
    IF r.key # o.key \/ r.item # o.item THEN "none"
    ELSE IF r.act = o.act THEN "exact"
    ELSE IF r.act.verdict = o.act.verdict THEN "comment"
    ELSE "action"

(* The rules at which a group begins: what status numbered counts.         *)
Shown(list) == {i \in DOMAIN list :
                  IsApp(list[i]) => \A j \in 1 .. i - 1 : list[j].key # list[i].key}
Keys(list) == {list[i].key : i \in DOMAIN list}
dedupedCount(list) == Cardinality(Shown(list))

(* ruleByNumber within a list.                                             *)
ShownAt(list, n) == CHOOSE i \in Shown(list) :
                      Cardinality({j \in Shown(list) : j <= i}) = n

(* The rules of a list whose keys are among some.                          *)
OfKeys(list, keys) ==
    FoldLeft(LAMBDA a, r : IF r.key \in keys THEN Append(a, r) ELSE a, <<>>, list)

-----------------------------------------------------------------------------
(* Mutant: an application group does not push the position on.             *)
WalkSplitting(nr, remove, a, r) ==
    LET insert == a.count = a.pos
        inserted == a.inserted \/ insert
        ret == Match(r, nr)
        same == ret = "exact" /\ ~a.found /\ ~inserted
    IN  [a EXCEPT !.new = @ \o (IF insert THEN <<nr>> ELSE <<>>)
                          \o (IF same /\ remove THEN <<>> ELSE <<r>>),
                  !.count = @ + 1, !.inserted = inserted, !.found = @ \/ same,
                  !.matched = @ \/ ret # "none"]

(* setRuleEngine walks the list once.                                      *)
Walk(nr, remove, a, r) ==
    LET here == a.count = a.pos
        splits == IsApp(r) /\ a.last = App(r)
        insert == here /\ ~splits
        inserted == a.inserted \/ insert
        ret == Match(r, nr)
        replaced == /\ ret \in {"comment", "action"}
                    /\ ~remove /\ ~inserted
        removed == \/ ret = "exact" /\ ~a.found /\ ~inserted /\ remove
                   \/ ret = "comment" /\ remove /\ nr.act.comment = ""
        same == ret = "exact" /\ ~a.found /\ ~inserted
    IN  [new      |-> a.new \o (IF insert THEN <<nr>> ELSE <<>>)
                      \o (IF removed THEN <<>> ELSE IF replaced \/ same THEN <<nr>> ELSE <<r>>),
         pos      |-> IF here /\ splits THEN a.pos + 1 ELSE a.pos,
         count    |-> a.count + 1,
         last     |-> App(r),
         inserted |-> inserted,
         found    |-> a.found \/ same \/ replaced \/ removed,
         modified |-> a.modified \/ replaced,
         matched  |-> a.matched \/ ret # "none"]

Outcome(list, outcome) == [list |-> list, outcome |-> outcome]

(* What setRuleEngine makes of the walk.                                   *)
Concluded(list, nr, remove, end) ==
    CASE end.inserted ->
           IF end.matched THEN Outcome(list, "skipped") ELSE Outcome(end.new, "inserted")
      [] ~end.inserted /\ remove ->
           IF end.found THEN Outcome(end.new, "deleted") ELSE Outcome(list, "notFound")
      [] ~end.inserted /\ ~remove /\ end.found ->
           IF end.modified THEN Outcome(end.new, "updated") ELSE Outcome(list, "skipped")
      [] OTHER -> Outcome(Append(end.new, nr), "added")

Walked(list, nr, pos, remove) ==
    LET start == [new |-> <<>>, pos |-> pos, count |-> 1, last |-> NoApp,
                  inserted |-> FALSE, found |-> FALSE, modified |-> FALSE,
                  matched |-> FALSE]
    IN  FoldLeft(LAMBDA a, r : Walk(nr, remove, a, r), start, list)

setRuleEngine(list, nr, pos, remove) ==
    Concluded(list, nr, remove, Walked(list, nr, pos, remove))

-----------------------------------------------------------------------------
(* applyHalf, for a list of one family.  An application is deleted rule by *)
(* rule, each taken for one with the command's verdict; the first that is  *)
(* not found ends it.                                                      *)
DeleteMember(a, r, nr) ==
    IF a.outcome = "notFound" THEN a
    ELSE setRuleEngine(a.list, [r EXCEPT !.act.verdict = nr.act.verdict], 0, TRUE)

DeleteApp(list, nr, members) ==
    FoldLeft(LAMBDA a, r : DeleteMember(a, r, nr),
             Outcome(list, IF members = <<>> THEN "notFound" ELSE ""), members)

applyHalf(list, nr, pos, remove) ==
    IF pos < 0 \/ pos > Len(list) THEN Outcome(list, "error")
    ELSE IF pos > 0 /\ remove THEN Outcome(list, "error")
    ELSE IF remove /\ IsApp(nr) THEN DeleteApp(list, nr, OfKeys(list, {nr.key}))
    ELSE setRuleEngine(list, nr, pos, remove)

(* Where a prepended rule goes: into an empty list, or before its first.   *)
PrependPosition(count, n) == IF count = 0 /\ n = 0 THEN 0 ELSE 1

(* Mutant: the boundary of an empty list is off by one.                    *)
v4PositionOffByOne(pos, count, numV4) ==
    IF pos = -1 THEN IF count = 0 /\ numV4 <= 1 THEN 0 ELSE 1
    ELSE IF pos > numV4 THEN -1 ELSE pos

v4Position(pos, count, numV4) ==
    IF pos = -1 THEN PrependPosition(count, numV4)
    ELSE IF pos > numV4 THEN -1 ELSE pos

v6Position(pos, count, numV4, numV6) ==
    IF pos = -1 THEN PrependPosition(count, numV6)
    ELSE IF pos > numV4 THEN pos - numV4
    ELSE IF pos # 0 THEN -1 ELSE 0

(* findOtherPosition: where the rule at a position of one list has its     *)
(* twin in the other, 0 if it has none.                                    *)
findOtherPosition(src, other, position) ==
    IF position < 1 \/ position > Len(src) THEN 0
    ELSE LET idx == position + Cardinality((1 .. position) \ Shown(src))
             twins == {i \in DOMAIN other : Match(other[i], src[idx]) = "exact"}
         IN  IF idx > Len(src) \/ twins = {} THEN 0 ELSE Min(twins)

(* applyDual: the IPv4 half, then the IPv6 half next to the twin of the    *)
(* rule it was put before.  s is [lists, numV4, outcome].                  *)
DualPosition4(s, userPos, count, remove) ==
    IF userPos = -1 THEN PrependPosition(count, s.numV4)
    ELSE IF ~remove /\ userPos > s.numV4
    THEN findOtherPosition(s.lists["v6"], s.lists["v4"], userPos - s.numV4 + count)
    ELSE userPos

NearTwin(twin, count) == IF twin > 0 THEN twin - count ELSE 0

DualPosition6(v4, v6, numV4, next, userPos, count, numV6, remove) ==
    IF userPos = -1 THEN PrependPosition(count, numV6)
    ELSE IF remove \/ next <= 0 THEN next
    ELSE IF next <= numV4
    THEN LET near == NearTwin(findOtherPosition(v4, v6, next), count)
         IN  IF near > numV4 THEN near - numV4 ELSE near
    ELSE next - numV4

(* Mutant: the IPv4 rules are not counted again.                           *)
SecondHalfNotCounted(s, v4, nr, pos4, userPos, count, numV6, remove) ==
    LET next == IF ~remove /\ userPos > 0 THEN userPos + 1 ELSE pos4
        pos6 == DualPosition6(v4, s.lists["v6"], s.numV4, next, userPos, count, numV6, remove)
        half6 == applyHalf(s.lists["v6"], nr, pos6, remove)
    IN  [s EXCEPT !.lists = [v4 |-> v4, v6 |-> half6.list], !.outcome = half6.outcome]

SecondHalf(s, v4, nr, pos4, userPos, count, numV6, remove) ==
    LET readjust == ~remove /\ userPos > 0
        numV4 == IF readjust THEN dedupedCount(v4) ELSE s.numV4
        next == IF readjust THEN userPos + 1 ELSE pos4
        pos6 == DualPosition6(v4, s.lists["v6"], numV4, next, userPos, count, numV6, remove)
        half6 == applyHalf(s.lists["v6"], nr, pos6, remove)
    IN  [lists   |-> [v4 |-> v4, v6 |-> half6.list],
         numV4   |-> numV4,
         outcome |-> half6.outcome]

applyDual(s, nr, userPos, count, numV6, remove) ==
    LET pos4 == DualPosition4(s, userPos, count, remove)
        half4 == applyHalf(s.lists["v4"], nr, pos4, remove)
    IN  IF half4.outcome = "error" THEN [s EXCEPT !.outcome = "error"]
        ELSE SecondHalf(s, half4.list, nr, pos4, userPos, count, numV6, remove)

(* runRuleOp for one of the rules the command expands to.                  *)
applyRule(s, nr, userPos, count, numV6, remove) ==
    LET One(f, pos) ==
            LET half == applyHalf(s.lists[f], nr, pos, remove)
            IN  [s EXCEPT !.lists[f] = half.list, !.outcome = half.outcome]
    IN  IF s.outcome = "error" THEN s
        ELSE CASE families[nr.key] = {"v4"} ->
                    One("v4", v4Position(userPos, count, s.numV4))
               [] families[nr.key] = {"v6"} ->
                    One("v6", v6Position(userPos, count, s.numV4, numV6))
               [] OTHER -> applyDual(s, nr, userPos, count, numV6, remove)

(* Mutant: the items of a reversed group are counted from zero.            *)
ExpandedFromZero(k, act, kind) ==
    LET n == IF k \in Group /\ kind # "delete" THEN size[profileOf[k]] ELSE 1
        item(i) == IF k \in Plain \/ kind = "delete" THEN 0
                   ELSE IF kind \in {"insert", "prepend"} THEN n - i ELSE i
    IN  [i \in 1 .. n |-> [key |-> k, item |-> item(i), act |-> act]]

(* The rules of a command: one for each item of a profile, the last first  *)
(* when they are put before others, so that they land in order.            *)
Expanded(k, act, kind) ==
    LET n == IF k \in Group /\ kind # "delete" THEN size[profileOf[k]] ELSE 1
        item(i) == IF k \in Plain \/ kind = "delete" THEN 0
                   ELSE IF kind \in {"insert", "prepend"} THEN n + 1 - i ELSE i
    IN  [i \in 1 .. n |-> [key |-> k, item |-> item(i), act |-> act]]

ApplyOne(s, i, todo, kind, num, numV6) ==
    IF kind = "insert" /\ num > s.numV4 + numV6 THEN [s EXCEPT !.outcome = "error"]
    ELSE applyRule(s, todo[i], IF kind = "prepend" THEN -1 ELSE num, i - 1, numV6,
                   kind = "delete")

runRuleOp(k, act, kind, num) ==
    LET todo == Expanded(k, act, kind)
        start == [lists |-> rules, numV4 |-> dedupedCount(rules["v4"]), outcome |-> ""]
    IN  FoldLeft(LAMBDA s, i : ApplyOne(s, i, todo, kind, num, dedupedCount(rules["v6"])),
                 start, [i \in DOMAIN todo |-> i])

-----------------------------------------------------------------------------
Init == /\ rules = [f \in Family |-> <<>>]
        /\ size \in [Profile -> ProfileSizes]
        /\ op = [kind |-> "none", keys |-> {}, num |-> 0]

Commit(lists, kind, keys, num) ==
    /\ \A f \in Family : Len(lists[f]) <= MaxLen
    /\ rules' = lists
    /\ op' = [kind |-> kind, keys |-> keys, num |-> num]
    /\ UNCHANGED size

(* bfw allow|deny ..., with insert NUM, prepend or delete before it.  An   *)
(* error leaves rules.json alone.                                          *)
RuleOp(k, act, kind, num) ==
    LET result == runRuleOp(k, act, kind, num)
    IN  /\ result.outcome # "error"
        /\ Commit(result.lists, kind, {k}, num)

(* Mutant: the shown number is taken for an index of the list.             *)
deleteByNumberRaw(num) ==
    LET numV4 == dedupedCount(rules["v4"])
        f == IF num <= numV4 THEN "v4" ELSE "v6"
        i == IF f = "v4" THEN num ELSE num - numV4
        k == rules[f][i].key
        shown == rules[f][ShownAt(rules[f], i)].key
    IN  /\ num \in 1 .. numV4 + dedupedCount(rules["v6"])
        /\ Commit([rules EXCEPT ![f] =
                      IF k \in Group THEN OfKeys(@, Key \ {k})
                      ELSE SubSeq(@, 1, i - 1) \o SubSeq(@, i + 1, Len(@))],
                  "deleteNumber", {shown}, num)

(* bfw delete NUM: one family's half, or the whole group in that family.   *)
deleteByNumber(num) ==
    LET numV4 == dedupedCount(rules["v4"])
        f == IF num <= numV4 THEN "v4" ELSE "v6"
        i == ShownAt(rules[f], IF f = "v4" THEN num ELSE num - numV4)
        k == rules[f][i].key
    IN  /\ num \in 1 .. numV4 + dedupedCount(rules["v6"])
        /\ Commit([rules EXCEPT ![f] =
                      IF k \in Group THEN OfKeys(@, Key \ {k})
                      ELSE SubSeq(@, 1, i - 1) \o SubSeq(@, i + 1, Len(@))],
                  "deleteNumber", {k}, num)

(* Mutant: only the same rule counts as there, not one with other verdict. *)
mergeRulesExact(dst, src) ==
    LET Merge(list, nr) ==
            IF \E i \in DOMAIN list : Match(nr, list[i]) = "exact" THEN list
            ELSE Append(list, nr)
    IN  FoldLeft(Merge, dst, src)

(* mergeRules: a rule that is there is replaced, another is appended.      *)
MergeRule(list, nr) ==
    LET old == {i \in DOMAIN list : Match(nr, list[i]) # "none"}
    IN  IF old # {} THEN [list EXCEPT ![Min(old)] = nr] ELSE Append(list, nr)

mergeRules(dst, src) ==
    FoldLeft(MergeRule, dst, src)

Import(doc) ==
    Commit([f \in Family |-> mergeRules(rules[f], doc[f])], "import",
           {doc["v4"][i].key : i \in DOMAIN doc["v4"]}
           \cup {doc["v6"][i].key : i \in DOMAIN doc["v6"]}, 0)

(* updateAppRule: every group of the profile is made again, in the place   *)
(* of its first rule, from that rule and the profile's items.              *)
Regenerated(r, n) == [i \in 1 .. n |-> [key |-> r.key, item |-> i, act |-> r.act]]
UpdateRule(a, r, profile, n) ==
    IF App(r) # profile THEN [a EXCEPT !.new = Append(@, r)]
    ELSE IF r.key = a.last THEN a
    ELSE [new |-> a.new \o Regenerated(r, n), last |-> r.key]

updateAppRule(list, profile, n) ==
    FoldLeft(LAMBDA a, r : UpdateRule(a, r, profile, n),
             [new |-> <<>>, last |-> NoApp], list).new

AppUpdate(profile) ==
    Commit([f \in Family |-> updateAppRule(rules[f], profile, size[profile])],
           "appUpdate", {g \in Group : profileOf[g] = profile}, 0)

(* The file of a profile is edited.                                        *)
EditProfile(profile) ==
    /\ size' \in [Profile -> ProfileSizes]
    /\ \A p \in Profile \ {profile} : size'[p] = size[p]
    /\ op' = [kind |-> "none", keys |-> {}, num |-> 0]
    /\ UNCHANGED rules

Next ==
    \/ \E w \in Wanted :
          \/ \E kind \in {"add", "prepend", "delete"} : RuleOp(w.key, w.act, kind, 0)
          \/ \E num \in 1 .. 2 * MaxLen : RuleOp(w.key, w.act, "insert", num)
    \/ \E num \in 1 .. 2 * MaxLen : deleteByNumber(num)
    \/ \E doc \in Documents : Import(doc)
    \/ \E p \in Profile : AppUpdate(p) \/ EditProfile(p)

Spec == Init /\ [][Next]_vars

-----------------------------------------------------------------------------
TypeOK == /\ rules \in [Family -> Seq(Rule)]
          /\ size \in [Profile -> ProfileSizes]

(* setRuleEngine: "app groups are never split", wherever a rule is put.    *)
Whole(list) ==
    \A i, j \in DOMAIN list :
        i < j /\ IsApp(list[i]) /\ list[i].key = list[j].key
        => \A m \in i .. j : list[m].key = list[i].key

GroupsWhole == \A f \in Family : Whole(rules[f])

(* setRuleEngine and mergeRules find the rule a command names, so no list  *)
(* comes to hold two rules that match each other, of which a delete would  *)
(* leave the second.  Only updateAppRule, when the rules of another group  *)
(* of the profile stand between those of one, makes that one twice.        *)
Distinct(list) ==
    \A i, j \in DOMAIN list : Match(list[i], list[j]) # "none" => i = j

NoDuplicates == \A f \in Family : Distinct(rules[f])

NoneDoubled ==
    [][NoDuplicates /\ (op'.kind = "appUpdate" => GroupsWhole) => NoDuplicates']_vars

(* The command names an application of which rules are there already.      *)
AppIsThere ==
    /\ op'.kind \in {"add", "prepend", "insert", "import"}
    /\ op'.keys \cap Group \cap (Keys(rules["v4"]) \cup Keys(rules["v6"])) # {}

(* Of the rules of an application inserted for both families each takes    *)
(* its place in the IPv6 list anew, by the twin of another rule: only one  *)
(* of a single rule stays together.                                        *)
InPlace ==
    op'.kind = "insert"
    => \A g \in op'.keys \cap Group : families[g] # Family \/ size[profileOf[g]] = 1

(* Nor can what is imported be in more order than the document is.         *)
FromWhole ==
    op'.kind = "import" => \A doc \in Documents : \A f \in Family : Whole(doc[f])

(* Short of these cases no command splits a group that is whole, its own   *)
(* or one it puts a rule next to.                                          *)
GroupsKept ==
    [][GroupsWhole /\ ~AppIsThere /\ InPlace /\ FromWhole => GroupsWhole']_vars

(* A command leaves the rules it does not name as they were, and in order. *)
OthersKept ==
    [][\A f \in Family :
        OfKeys(rules'[f], Key \ op'.keys) = OfKeys(rules[f], Key \ op'.keys)]_vars

(* What is put first is the first to decide, in both families.             *)
PrependFirst ==
    [][op'.kind = "prepend"
       => \A f \in Family : \A k \in Keys(rules'[f]) \ Keys(rules[f]) :
             rules'[f][1].key = k]_vars

(* Two rules that both have a half in each family decide in the same order *)
(* in both: applyDual places the second half by the twin of the rule the   *)
(* first was put before.  So it is from lists that are the same.           *)
Ordered(lists) ==
    \A i, j \in DOMAIN lists["v4"], m, n \in DOMAIN lists["v6"] :
        /\ i < j
        /\ Match(lists["v4"][i], lists["v6"][m]) # "none"
        /\ Match(lists["v4"][j], lists["v6"][n]) # "none"
        => m < n

(* setRuleEngine counts the rules of a list, but findOtherPosition, like   *)
(* status numbered, takes a group for one.  They agree on a number up to   *)
(* which no profile has two rules.                                         *)
NumberIsPlace(list, num) ==
    /\ num \in DOMAIN list
    /\ \A i, j \in 1 .. num : i # j /\ IsApp(list[i]) => App(list[i]) # App(list[j])

TwinOrder ==
    [][/\ rules["v4"] = rules["v6"] /\ NoDuplicates
       /\ GroupsWhole /\ ~AppIsThere /\ InPlace
       /\ \A k \in op'.keys : families[k] = Family
       /\ op'.kind # "import"
       /\ op'.kind = "insert" => NumberIsPlace(rules["v4"], op'.num)
       => Ordered(rules')]_vars

=============================================================================
