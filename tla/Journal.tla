------------------------------- MODULE Journal -------------------------------
(***************************************************************************)
(* The journal reader of bfw protect: ScanJournal hands each record to     *)
(* Detector.Observe, which counts failures per jail and address, and       *)
(* applies the bans Observe returns one by one before it reads on.  The    *)
(* detector's maps hold a key only while it has failures, so a key without *)
(* any stands for one that is absent.                                      *)
(*                                                                         *)
(* The times compared are time.Now()'s monotonic readings, so the clock    *)
(* never goes back.                                                        *)
(***************************************************************************)
EXTENDS Integers, FiniteSets

CONSTANTS
    Jail, Addr, Ignored, findTime, maxRetries,  \* as in FailureWindow
    banTime,        \* banTime[j], in ticks
    NoAddr,         \* a record in which a jail finds no failure
    PruneEvery,     \* a minute
    Faults,         \* what can go wrong: "lock", a ban fails; "restart"
    MaxTime,        \* bound of the clock
    MaxLine         \* bound of the records read

VARIABLES
    now,            \* the clock
    line,           \* records read (tells failures of one tick apart)
    failures,       \* Detector.failures
    nextPrune,      \* Detector.nextPrune, 0 for the zero time
    todo,           \* bans Observe returned that are not applied yet
    banned,         \* banned[k]: expiry of the ban of k in rules.json, or 0
    seen,           \* history: the failures since the start or last report
    reached         \* history: expiry of the last ban Observe returned, or 0

counters == <<failures, nextPrune, seen>>
vars == <<now, line, failures, nextPrune, todo, banned, seen, reached>>

Window == INSTANCE FailureWindow WITH log <- seen, todo <- {b.key : b \in todo}

Key == Window!Key
Recent(f, k, t) == Window!Recent(f, k, t)

ASSUME JournalAssumption ==
    /\ findTime \in [Jail -> Nat \ {0}]
    /\ maxRetries \in [Jail -> Nat \ {0}]
    /\ banTime \in [Jail -> Nat \ {0}]
    /\ NoAddr \notin Addr
    /\ PruneEvery \in Nat \ {0}
    /\ MaxTime \in Nat /\ MaxLine \in Nat

(* A store.ThreatBan of a jail. *)
Ban == [key : Key, expires : Nat]

TypeOK ==
    /\ now \in Nat
    /\ line \in Nat
    /\ failures \in [Key -> SUBSET Window!Failure]
    /\ nextPrune \in Nat
    /\ todo \in SUBSET Ban
    /\ banned \in [Key -> Nat]
    /\ seen \in [Key -> SUBSET Window!Failure]
    /\ reached \in [Key -> Nat]

(* A wrong NewDetector: the first pruning is set before the start.         *)
InitPruneDue ==
    /\ now = 0
    /\ line = 0
    /\ failures = [k \in Key |-> {}]
    /\ nextPrune = -PruneEvery
    /\ todo = {}
    /\ banned = [k \in Key |-> 0]
    /\ seen = [k \in Key |-> {}]
    /\ reached = [k \in Key |-> 0]

(* NewDetector: no counters survive a start of the service. *)
Init ==
    /\ now = 0
    /\ line = 0
    /\ failures = [k \in Key |-> {}]
    /\ nextPrune = 0
    /\ todo = {}
    /\ banned = [k \in Key |-> 0]
    /\ seen = [k \in Key |-> {}]
    /\ reached = [k \in Key |-> 0]

-----------------------------------------------------------------------------
(* The detector. *)

(* A wrong prune: it leaves no failure of the key when one is too old.     *)
PruneKeyWhole ==
    [k \in Key |-> IF now < nextPrune THEN failures[k]
                   ELSE IF Recent(failures[k], k, now) = failures[k]
                        THEN failures[k] ELSE {}]

(* prune: once a minute, drop the failures outside their jail's window.    *)
Pruned ==
    [k \in Key |-> IF now < nextPrune THEN failures[k]
                   ELSE Recent(failures[k], k, now)]

(* The failures a record tells of: reading[j] is the address jail j's      *)
(* identifiers and patterns find in it.                                    *)
Failing(reading) ==
    {k \in Key \ Ignored : reading[k[1]] = k[2]}

(* A wrong count: the failure at hand is left out of it.                   *)
ReachedLate(failing) ==
    {k \in failing :
        Cardinality(Recent(Pruned[k], k, now)) >= maxRetries[k[1]]}

(* The keys whose failures, this one included, reach maxRetries. *)
Reached(failing) ==
    {k \in failing :
        Cardinality(Recent(Pruned[k], k, now)) + 1 >= maxRetries[k[1]]}

(* The failures f of a key and the one at hand. *)
Counted(f) == f \cup {[line |-> line, at |-> now]}

Observe(reading) ==
    LET failing == Failing(reading)
        reports == Reached(failing)
    IN
    /\ todo = {}
    /\ line < MaxLine
    /\ line' = line + 1
    /\ nextPrune' = IF now < nextPrune THEN nextPrune ELSE now + PruneEvery
    /\ failures' = [k \in Key |->
                      IF k \in reports THEN {}
                      ELSE IF k \in failing
                           THEN Counted(Recent(Pruned[k], k, now))
                           ELSE Pruned[k]]
    /\ seen' = [k \in Key |->
                      IF k \in reports THEN {}
                      ELSE IF k \in failing THEN Counted(seen[k])
                           ELSE seen[k]]
    /\ todo' = {[key |-> k, expires |-> now + banTime[k[1]]] : k \in reports}
    /\ reached' = [k \in Key |-> IF k \in reports THEN now + banTime[k[1]]
                                 ELSE reached[k]]
    /\ UNCHANGED <<now, banned>>

-----------------------------------------------------------------------------
(* ScanJournal's loop over the bans. *)

(* A wrong applyThreatUpdate: an address that has a ban keeps it.          *)
ApplyBanOnce(b) ==
    /\ b \in todo
    /\ b.expires > now
    /\ banned' = IF banned[b.key] = 0
                 THEN [banned EXCEPT ![b.key] = b.expires] ELSE banned
    /\ todo' = todo \ {b}
    /\ UNCHANGED <<now, line, counters, reached>>

(* applyThreatUpdate succeeds: a ban of the same source and address is     *)
(* replaced.                                                               *)
ApplyBan(b) ==
    /\ b \in todo
    /\ b.expires > now
    /\ banned' = [banned EXCEPT ![b.key] = b.expires]
    /\ todo' = todo \ {b}
    /\ UNCHANGED <<now, line, counters, reached>>

(* applyThreatUpdate fails, because the lock is taken, the commit fails or *)
(* the ban has expired by now: a warning, and the loop goes on.            *)
BanFails(b) ==
    /\ b \in todo
    /\ "lock" \in Faults \/ b.expires <= now
    /\ todo' = todo \ {b}
    /\ UNCHANGED <<now, line, counters, banned, reached>>

(* The service is restarted: the counters are gone, the bans stay.  A ban  *)
(* not applied yet is lost, so reached forgets it.                         *)
Restart ==
    /\ "restart" \in Faults
    /\ failures' = [k \in Key |-> {}]
    /\ seen' = [k \in Key |-> {}]
    /\ nextPrune' = 0
    /\ todo' = {}
    /\ reached' = [k \in Key |-> 0]
    /\ UNCHANGED <<now, line, banned>>

Tick ==
    /\ now < MaxTime
    /\ now' = now + 1
    /\ UNCHANGED <<line, counters, todo, banned, reached>>

Next ==
    \/ \E reading \in [Jail -> Addr \cup {NoAddr}] : Observe(reading)
    \/ \E b \in todo : ApplyBan(b)
    \/ \E b \in todo : BanFails(b)
    \/ Restart
    \/ Tick

Spec == Init /\ [][Next]_vars

-----------------------------------------------------------------------------
(* Properties. *)

(* The detector, which prunes its counters once a minute and cuts them at  *)
(* each failure, reports exactly what a detector that forgets nothing      *)
(* would: detector.go:68-130 implements FailureWindow.                     *)
WindowSpec == Window!Spec

(* An attacker never has maxRetries failures within findTime unreported,   *)
(* however they fall on the minutes of the pruning (detector.go:83-104).   *)
NoneOverdue == Window!NoneOverdue

(* A reported address is banned, for banTime from the failure that         *)
(* completed the count, when the reader goes on to the next record         *)
(* (journal.go:46-50; README.md:55).                                       *)
ReportsAreBans ==
    todo = {} =>
        \A k \in Key : reached[k] > now => banned[k] >= reached[k]

=============================================================================
