----------------------------- MODULE SerialStore -----------------------------
(***************************************************************************)
(* What the mutating-command lock promises about rules.json: commands take *)
(* effect one at a time, each on the state the previous one left.  Between *)
(* its invocation and its return a command changes the state, if at all,   *)
(* in one step, into what that very command makes of the current state     *)
(* (possibly without items whose time has passed).                         *)
(***************************************************************************)
EXTENDS StoreOps

CONSTANT Proc   \* the processes that run bfw commands

VARIABLES
    db,         \* the content of rules.json
    expired,    \* the items whose time has passed
    op          \* op[p] is the command p is running, or "none"

Init ==
    /\ db = Defaults
    /\ expired = {}
    /\ op = [p \in Proc |-> "none"]

Invoke(p) ==
    /\ op[p] = "none"
    /\ \E o \in Op : op' = [op EXCEPT ![p] = o]
    /\ UNCHANGED <<db, expired>>

(* The command of p takes effect. *)
Effect(p) ==
    /\ \E dropped \in SUBSET expired :
          \E r \in Results(op[p], db, {}) : db' = Sweep(r, dropped)
    /\ UNCHANGED <<expired, op>>

(* The commands of the processes in Q return, or die: together in a reboot. *)
Return(Q) ==
    /\ op' = [p \in Proc |-> IF p \in Q THEN "none" ELSE op[p]]
    /\ UNCHANGED <<db, expired>>

(* The time of an item passes. *)
Expire ==
    /\ \E i \in Item \ (NatItem \cup expired) : expired' = expired \cup {i}
    /\ UNCHANGED <<db, op>>

Next ==
    \/ \E p \in Proc : Invoke(p) \/ Effect(p)
    \/ \E Q \in SUBSET Proc : Return(Q)
    \/ Expire

Spec == Init /\ [][Next]_<<db, expired, op>>

=============================================================================
