---------------------------- MODULE MCRuleList ------------------------------
(* Small instances of RuleList for TLC. *)
EXTENDS RuleList

MCProfileOf == [g \in Group |-> "web"]
MCFamilies == [k \in Key |-> IF k \in {"only4", "app4"} THEN {"v4"}
                             ELSE IF k \in {"only6", "app6"} THEN {"v6"} ELSE Family]
Allow == [verdict |-> "allow", comment |-> ""]
Deny == [verdict |-> "deny", comment |-> ""]
Why == [verdict |-> "allow", comment |-> "why"]
MCAct == {Allow, Deny, Why}
MCWanted == {[key |-> k, act |-> Allow] : k \in Key}

(* A rule that is there with another verdict or comment, and one exported  *)
(* with an application of two items behind it.                             *)
Exported(a) == <<[key |-> "ssh", item |-> 0, act |-> a]>>
WithApp == [i \in 1 .. 3 |-> IF i = 1 THEN Exported(Deny)[1]
                             ELSE [key |-> "app", item |-> i - 1, act |-> Allow]]
MCDocuments == {[f \in Family |-> Exported(a)] : a \in {Deny, Why}}
               \cup {[f \in Family |-> WithApp]}

(* What the last command was makes no difference to the next. *)
WithoutOp == <<rules, size>>
=============================================================================
