------------------------------ MODULE MCProtect ------------------------------
(* Small instances of Protect: d1 and d2 ban the same address. *)
EXTENDS Protect, TLC
MCAddress == [d \in Decision |-> "a"]
MCLifetimes == [d \in Decision |-> CASE d = "d1" -> {1, 3}
                                      [] d = "d2" -> {3}
                                      [] OTHER -> {1}]
MCBanTime == [j \in Jail |-> 2]
=============================================================================
