---------------------------- MODULE FailureWindow ----------------------------
(***************************************************************************)
(* What the login protection of bfw promises (README.md, Login             *)
(* protection): an address is reported the moment a jail has counted       *)
(* maxRetries failures of it within findTime, and at no other moment.      *)
(* Nothing is ever forgotten here but by a report or a restart.            *)
(***************************************************************************)
EXTENDS Integers, FiniteSets

CONSTANTS
    Jail,           \* the configured jails
    Addr,           \* source addresses
    Ignored,        \* the jail and address pairs an ignore_ips entry covers
    findTime,       \* findTime[j], in ticks
    maxRetries      \* maxRetries[j]

Key == Jail \X Addr

VARIABLES
    now,            \* the clock
    line,           \* the number of journal records read
    log,            \* log[k]: the failures of k since the start or last report
    todo            \* the keys just reported

(* A failure: the record that told of it and when it was read. *)
Failure == [line : Nat, at : Nat]

(* The failures of f that are within the window of k at time t. *)
Recent(f, k, t) == {x \in f : x.at + findTime[k[1]] >= t}

(* The keys of those failing that reach their limit, given the failures    *)
(* counted before.                                                         *)
Reaching(f, failing, t) ==
    {k \in failing :
        Cardinality(Recent(f[k], k, t)) + 1 >= maxRetries[k[1]]}

Init ==
    /\ now = 0
    /\ line = 0
    /\ log = [k \in Key |-> {}]
    /\ todo = {}

(* A record that tells of a failure of each key in failing. *)
Fail(failing) ==
    /\ todo = {}
    /\ line' = line + 1
    /\ todo' = Reaching(log, failing, now)
    /\ log' = [k \in Key |->
                 IF k \in Reaching(log, failing, now) THEN {}
                 ELSE IF k \in failing
                      THEN log[k] \cup {[line |-> line, at |-> now]}
                      ELSE log[k]]
    /\ UNCHANGED now

(* One of the keys reported has been dealt with. *)
Done(k) == todo' = todo \ {k} /\ UNCHANGED <<now, line, log>>

Restart ==
    /\ log' = [k \in Key |-> {}]
    /\ todo' = {}
    /\ UNCHANGED <<now, line>>

Tick == now' = now + 1 /\ UNCHANGED <<line, log, todo>>

Next ==
    \/ \E failing \in SUBSET (Key \ Ignored) : Fail(failing)
    \/ \E k \in todo : Done(k)
    \/ Restart
    \/ Tick

Spec == Init /\ [][Next]_<<now, line, log, todo>>

(* No jail has ever seen, since it last reported an address, maxRetries    *)
(* failures of it within one findTime: none is overdue.                    *)
NoneOverdue ==
    \A k \in Key : \A x \in log[k] :
        Cardinality({y \in log[k] : y.line <= x.line
                                    /\ y.at + findTime[k[1]] >= x.at})
          < maxRetries[k[1]]

=============================================================================
