---------------------------- MODULE JournalProof ----------------------------
(***************************************************************************)
(* Theorems about Journal, for any jails, addresses, windows and limits:   *)
(* the detector that prunes reports what one that forgets nothing would.   *)
(***************************************************************************)
EXTENDS Journal, FiniteSetTheorems, TLAPS

(* The counters of a key are failures that happened, and hold all of those *)
(* still within its window: what pruning and cutting must preserve.        *)
CountersInv ==
    \A k \in Key : /\ failures[k] \subseteq seen[k]
                   /\ Recent(seen[k], k, now) \subseteq failures[k]

(* Every failure was told of by a record read before. *)
LinesInv ==
    \A k \in Key : /\ IsFiniteSet(seen[k])
                   /\ \A x \in seen[k] : x.line < line /\ x.at <= now

(* Key is the product of jails and addresses. *)
LEMMA KeyJail == ASSUME NEW k \in Key PROVE k[1] \in Jail
BY DEF Key, Window!Key

(* TypeOK holds: each step keeps each variable in its set. *)
LEMMA TypeInit == Init => TypeOK
BY DEF Init, TypeOK

(* Pruning and cutting keep only failures. *)
LEMMA PrunedType ==
    ASSUME TypeOK, NEW k \in Key
    PROVE  /\ Pruned[k] \in SUBSET Window!Failure
           /\ Recent(Pruned[k], k, now) \in SUBSET Window!Failure
BY DEF TypeOK, Pruned, Recent, Window!Recent

(* The reports of a record are keys. *)
LEMMA ReportsAreKeys ==
    ASSUME NEW reading PROVE Reached(Failing(reading)) \subseteq Key
BY DEF Reached, Failing

(* A record read keeps the types. *)
LEMMA TypeObserve ==
    ASSUME TypeOK, NEW reading \in [Jail -> Addr \cup {NoAddr}],
           Observe(reading)
    PROVE  TypeOK'
<1> DEFINE failing == Failing(reading)
           reports == Reached(failing)
<1>1. [line |-> line, at |-> now] \in Window!Failure
  BY DEF TypeOK, Window!Failure
<1>2. ASSUME NEW k \in Key PROVE now + banTime[k[1]] \in Nat
  BY KeyJail, JournalAssumption DEF TypeOK
<1>3. todo' \in SUBSET Ban
  BY <1>2, ReportsAreKeys DEF Observe, Ban
<1>4. failures' \in [Key -> SUBSET Window!Failure]
  BY <1>1, PrunedType DEF Observe, Counted
<1>5. seen' \in [Key -> SUBSET Window!Failure]
  BY <1>1 DEF Observe, Counted, TypeOK
<1>6. reached' \in [Key -> Nat]
  BY <1>2 DEF Observe, TypeOK
<1>7. nextPrune' \in Nat /\ line' \in Nat
  BY JournalAssumption DEF Observe, TypeOK
<1> QED BY <1>3, <1>4, <1>5, <1>6, <1>7 DEF TypeOK, Observe

(* Every step keeps the types. *)
LEMMA TypeStep == TypeOK /\ [Next]_vars => TypeOK'
<1> SUFFICES ASSUME TypeOK, [Next]_vars PROVE TypeOK'
  OBVIOUS
<1>1. CASE \E reading \in [Jail -> Addr \cup {NoAddr}] : Observe(reading)
  BY <1>1, TypeObserve
<1>2. CASE \E b \in todo : ApplyBan(b)
  BY <1>2 DEF ApplyBan, TypeOK, Ban, counters
<1>3. CASE \E b \in todo : BanFails(b)
  BY <1>3 DEF BanFails, TypeOK, counters
<1>4. CASE Restart
  BY <1>4 DEF Restart, TypeOK
<1>5. CASE Tick
  BY <1>5 DEF Tick, TypeOK, counters
<1>6. CASE UNCHANGED vars
  BY <1>6 DEF vars, TypeOK
<1> QED BY <1>1, <1>2, <1>3, <1>4, <1>5, <1>6 DEF Next

(* Every reachable state of the journal reader is well typed. *)
THEOREM JournalTyping == Spec => []TypeOK
BY TypeInit, TypeStep, PTL DEF Spec

-----------------------------------------------------------------------------
(* The counters suffice. *)

(* What Observe counts in the pruned counters is what there is to count.   *)
LEMMA SameWindow ==
    ASSUME TypeOK, CountersInv, NEW k \in Key
    PROVE  Recent(Pruned[k], k, now) = Recent(seen[k], k, now)
<1>1. Pruned[k] \in {failures[k], Recent(failures[k], k, now)}
  BY DEF Pruned
<1>2. Recent(failures[k], k, now) = Recent(seen[k], k, now)
  BY DEF CountersInv, Recent, Window!Recent
<1>3. Recent(Recent(failures[k], k, now), k, now) = Recent(failures[k], k, now)
  BY DEF Recent, Window!Recent
<1> QED BY <1>1, <1>2, <1>3

(* Both modules count with the same operator. *)
LEMMA SameCardinality == \A S : Window!Cardinality(S) = Cardinality(S)
BY DEF Cardinality, Window!Cardinality

(* So it reports the keys a detector that forgets nothing would.           *)
LEMMA SameReports ==
    ASSUME TypeOK, CountersInv, NEW failing \in SUBSET Key
    PROVE  Reached(failing) = Window!Reaching(seen, failing, now)
<1>1. ASSUME NEW k \in failing
      PROVE  Recent(Pruned[k], k, now) = Window!Recent(seen[k], k, now)
  BY SameWindow DEF Recent
<1> QED BY <1>1, SameCardinality DEF Reached, Window!Reaching

(* A record read keeps the counters right. *)
LEMMA CountersObserve ==
    ASSUME TypeOK, CountersInv, NEW reading, Observe(reading)
    PROVE  CountersInv'
<1> SUFFICES ASSUME NEW k \in Key
             PROVE  /\ failures'[k] \subseteq seen'[k]
                    /\ Recent(seen'[k], k, now) \subseteq failures'[k]
  BY DEF CountersInv, Observe, Recent, Window!Recent
<1> DEFINE failing == Failing(reading)
<1>1. CASE k \in Reached(failing)
  <2>1. failures'[k] = {} /\ seen'[k] = {}
    BY <1>1 DEF Observe
  <2> QED BY <2>1 DEF Recent, Window!Recent
<1>2. CASE k \notin Reached(failing) /\ k \in failing
  <2>1. failures'[k] = Counted(Recent(seen[k], k, now))
    BY <1>2, SameWindow DEF Observe
  <2>2. seen'[k] = Counted(seen[k])
    BY <1>2 DEF Observe
  <2> QED BY <2>1, <2>2 DEF Counted, Recent, Window!Recent
<1>3. CASE k \notin Reached(failing) /\ k \notin failing
  <2>1. failures'[k] = Pruned[k] /\ seen'[k] = seen[k]
    BY <1>3 DEF Observe
  <2>2. Pruned[k] \in {failures[k], Recent(failures[k], k, now)}
    BY DEF Pruned
  <2> QED BY <2>1, <2>2 DEF CountersInv, Recent, Window!Recent
<1> QED BY <1>1, <1>2, <1>3

(* As time passes a window loses failures and gains none. *)
LEMMA CountersTick ==
    ASSUME TypeOK, CountersInv, Tick PROVE CountersInv'
<1> SUFFICES ASSUME NEW k \in Key
             PROVE  Recent(seen[k], k, now + 1) \subseteq failures[k]
  BY DEF CountersInv, Tick, counters, Recent, Window!Recent
<1>1. findTime[k[1]] \in Nat
  BY KeyJail, JournalAssumption
<1>2. Recent(seen[k], k, now + 1) \subseteq Recent(seen[k], k, now)
  BY <1>1 DEF TypeOK, Recent, Window!Recent, Window!Failure
<1> QED BY <1>2 DEF CountersInv

(* Every step keeps the counters right. *)
LEMMA CountersStep ==
    ASSUME TypeOK, CountersInv, [Next]_vars PROVE CountersInv'
<1>1. CASE \E reading \in [Jail -> Addr \cup {NoAddr}] : Observe(reading)
  BY <1>1, CountersObserve
<1>2. CASE \E b \in todo : ApplyBan(b) \/ BanFails(b)
  BY <1>2 DEF ApplyBan, BanFails, CountersInv, counters, Recent, Window!Recent
<1>3. CASE Restart
  BY <1>3 DEF Restart, CountersInv, Recent, Window!Recent
<1>4. CASE Tick
  BY <1>4, CountersTick
<1>5. CASE UNCHANGED vars
  BY <1>5 DEF vars, CountersInv, Recent, Window!Recent
<1> QED BY <1>1, <1>2, <1>3, <1>4, <1>5 DEF Next

(* Nothing is counted before the first record. *)
LEMMA CountersInit == Init => CountersInv
BY DEF Init, CountersInv, Recent, Window!Recent

(* The counters always hold what is within the windows.                    *)
THEOREM CountersAreRight == Spec => []CountersInv
BY JournalTyping, CountersInit, CountersStep, PTL DEF Spec

-----------------------------------------------------------------------------
(* The detector implements FailureWindow. *)

(* The failures of a record are of keys that are not ignored. *)
LEMMA FailingKeys ==
    ASSUME NEW reading PROVE Failing(reading) \in SUBSET (Key \ Ignored)
BY DEF Failing

(* Reading a record is the same step of FailureWindow.                     *)
LEMMA ObserveIsFail ==
    ASSUME TypeOK, CountersInv, NEW reading, Observe(reading)
    PROVE  Window!Fail(Failing(reading))
<1> DEFINE failing == Failing(reading)
<1>1. Reached(failing) = Window!Reaching(seen, failing, now)
  BY FailingKeys, SameReports
<1>2. {b.key : b \in todo} = {}
  BY DEF Observe
<1>3. {b.key : b \in todo'} = Reached(failing)
  <2>1. todo' = {[key |-> k, expires |-> now + banTime[k[1]]] :
                   k \in Reached(failing)}
    BY DEF Observe
  <2>2. ASSUME NEW k \in Reached(failing)
        PROVE  k \in {b.key : b \in todo'}
    <3>1. [key |-> k, expires |-> now + banTime[k[1]]] \in todo'
      BY <2>1
    <3> QED BY <3>1
  <2>3. ASSUME NEW b \in todo' PROVE b.key \in Reached(failing)
    BY <2>1
  <2> HIDE DEF failing
  <2> QED BY <2>2, <2>3
<1>4. seen' = [k \in Key |->
                 IF k \in Reached(failing) THEN {}
                 ELSE IF k \in failing
                      THEN seen[k] \cup {[line |-> line, at |-> now]}
                      ELSE seen[k]]
  BY DEF Observe, Counted
<1>5. line' = line + 1 /\ now' = now
  BY DEF Observe
<1> QED BY <1>1, <1>2, <1>3, <1>4, <1>5 DEF Window!Fail, Key

(* Dealing with a ban takes its key from those reported, as no two bans    *)
(* of one report have the same key.                                        *)
OneBanPerKey == \A b, c \in todo : b.key = c.key => b = c

(* A report has one ban for each key. *)
LEMMA OneBanStep ==
    ASSUME OneBanPerKey, [Next]_vars PROVE OneBanPerKey'
<1>1. CASE \E reading \in [Jail -> Addr \cup {NoAddr}] : Observe(reading)
  BY <1>1 DEF Observe, OneBanPerKey
<1>2. CASE \E b \in todo : ApplyBan(b) \/ BanFails(b)
  BY <1>2 DEF ApplyBan, BanFails, OneBanPerKey
<1>3. CASE Restart
  BY <1>3 DEF Restart, OneBanPerKey
<1>4. CASE Tick \/ UNCHANGED vars
  BY <1>4 DEF Tick, vars, OneBanPerKey
<1> QED BY <1>1, <1>2, <1>3, <1>4 DEF Next

(* The detector is the one the README promises: whatever the jails, the    *)
(* windows and the pruning interval, it implements FailureWindow.          *)
THEOREM DetectorRefinement == Spec => WindowSpec
<1>1. Init => Window!Init
  BY DEF Init, Window!Init, Key
<1>2. Init => OneBanPerKey
  BY DEF Init, OneBanPerKey
<1>3. TypeOK /\ CountersInv /\ OneBanPerKey /\ [Next]_vars =>
        [Window!Next]_<<now, line, seen, {b.key : b \in todo}>>
  <2> SUFFICES ASSUME TypeOK, CountersInv, OneBanPerKey, [Next]_vars
               PROVE  \/ Window!Next
                      \/ UNCHANGED <<now, line, seen, {b.key : b \in todo}>>
    OBVIOUS
  <2>1. CASE \E reading \in [Jail -> Addr \cup {NoAddr}] : Observe(reading)
    BY <2>1, ObserveIsFail, FailingKeys DEF Window!Next, Key
  <2>2. CASE \E b \in todo : ApplyBan(b) \/ BanFails(b)
    <3>1. PICK b \in todo : ApplyBan(b) \/ BanFails(b)
      BY <2>2
    <3>2. todo' = todo \ {b} /\ UNCHANGED <<now, line, seen>>
      BY <3>1 DEF ApplyBan, BanFails, counters
    <3>3. {c.key : c \in todo'} = {c.key : c \in todo} \ {b.key}
      BY <3>1, <3>2 DEF OneBanPerKey
    <3>4. Window!Done(b.key)
      BY <3>2, <3>3 DEF Window!Done
    <3> QED BY <3>1, <3>4 DEF Window!Next
  <2>3. CASE Restart
    BY <2>3 DEF Restart, Window!Next, Window!Restart, Key
  <2>4. CASE Tick
    BY <2>4 DEF Tick, counters, Window!Next, Window!Tick
  <2>5. CASE UNCHANGED vars
    BY <2>5 DEF vars
  <2> QED BY <2>1, <2>2, <2>3, <2>4, <2>5 DEF Next
<1> QED BY <1>1, <1>2, <1>3, OneBanStep, JournalTyping, CountersAreRight, PTL
        DEF Spec, WindowSpec, Window!Spec

-----------------------------------------------------------------------------
(* No jail is overdue. *)

(* The records are numbered and the failures of a key are finitely many.   *)
THEOREM RecordsAreNumbered == Spec => []LinesInv
<1>1. Init => LinesInv
  BY FS_EmptySet DEF Init, LinesInv
<1>2. TypeOK /\ LinesInv /\ [Next]_vars => LinesInv'
  <2> SUFFICES ASSUME TypeOK, LinesInv, [Next]_vars, NEW k \in Key
               PROVE  /\ IsFiniteSet(seen'[k])
                      /\ \A x \in seen'[k] : x.line < line' /\ x.at <= now'
    BY DEF LinesInv
  <2>1. seen[k] \subseteq Window!Failure /\ now \in Nat /\ line \in Nat
    BY DEF TypeOK
  <2>2. CASE \E reading \in [Jail -> Addr \cup {NoAddr}] : Observe(reading)
    <3>1. seen'[k] \in {{}, seen[k], Counted(seen[k])}
      BY <2>2 DEF Observe
    <3>2. line' = line + 1 /\ now' = now
      BY <2>2 DEF Observe
    <3>3. IsFiniteSet(Counted(seen[k]))
      BY FS_AddElement DEF LinesInv, Counted
    <3>4. \A x \in seen'[k] : x \in seen[k] \/ x = [line |-> line, at |-> now]
      BY <3>1 DEF Counted
    <3>5. \A x \in seen'[k] : x.line < line' /\ x.at <= now'
      BY <2>1, <3>2, <3>4 DEF LinesInv, Window!Failure
    <3> QED BY <3>1, <3>3, <3>5, FS_EmptySet DEF LinesInv
  <2>3. CASE Restart
    BY <2>3, FS_EmptySet DEF Restart
  <2>4. CASE Tick
    BY <2>1, <2>4 DEF Tick, counters, LinesInv, Window!Failure
  <2>5. CASE \/ \E b \in todo : ApplyBan(b) \/ BanFails(b)
             \/ UNCHANGED vars
    BY <2>5 DEF ApplyBan, BanFails, vars, counters, LinesInv
  <2> QED BY <2>2, <2>3, <2>4, <2>5 DEF Next
<1> QED BY <1>1, <1>2, JournalTyping, PTL DEF Spec

(* The failures of f that count for x: those of its window before it.      *)
Before(f, k, x) == {y \in f : y.line <= x.line /\ y.at + findTime[k[1]] >= x.at}

(* NoneOverdue, in terms of Before. *)
LEMMA OverdueDef ==
    NoneOverdue <=> \A k \in Key : \A x \in seen[k] :
                       Cardinality(Before(seen[k], k, x)) < maxRetries[k[1]]
BY SameCardinality DEF NoneOverdue, Window!NoneOverdue, Before, Key

(* A failure that is counted and does not reach the limit makes no key     *)
(* overdue: for the earlier failures nothing changes, and the window of    *)
(* the new one is the one the detector has just counted.                   *)
LEMMA CountedIsNotOverdue ==
    ASSUME TypeOK, CountersInv, LinesInv, NoneOverdue,
           NEW failing \in SUBSET Key, NEW k \in failing,
           k \notin Reached(failing), NEW x \in Counted(seen[k])
    PROVE  Cardinality(Before(Counted(seen[k]), k, x)) < maxRetries[k[1]]
<1> DEFINE new == [line |-> line, at |-> now]
<1>1. /\ seen[k] \subseteq Window!Failure /\ IsFiniteSet(seen[k])
      /\ \A y \in seen[k] : y.line < line
      /\ now \in Nat /\ line \in Nat
      /\ findTime[k[1]] \in Nat /\ maxRetries[k[1]] \in Nat
  BY KeyJail, JournalAssumption DEF TypeOK, LinesInv
<1>2. CASE x \in seen[k]
  <2>1. new \notin Before(Counted(seen[k]), k, x)
    BY <1>1, <1>2 DEF Before, Window!Failure
  <2>2. Before(Counted(seen[k]), k, x) = Before(seen[k], k, x)
    BY <2>1 DEF Before, Counted
  <2> QED BY <1>2, <2>2, OverdueDef
<1>3. CASE x = new
  <2>1. Before(Counted(seen[k]), k, x) = Recent(seen[k], k, now) \cup {new}
    BY <1>1, <1>3 DEF Before, Counted, Recent, Window!Recent, Window!Failure
  <2>2. IsFiniteSet(Recent(seen[k], k, now))
    BY <1>1, FS_Subset DEF Recent, Window!Recent
  <2>3. new \notin Recent(seen[k], k, now)
    BY <1>1 DEF Recent, Window!Recent
  <2>4. Cardinality(Recent(seen[k], k, now) \cup {new})
          = Cardinality(Recent(seen[k], k, now)) + 1
    BY <2>2, <2>3, FS_AddElement
  <2>5. ~(Cardinality(Recent(seen[k], k, now)) + 1 >= maxRetries[k[1]])
    BY SameWindow DEF Reached
  <2>6. Cardinality(Recent(seen[k], k, now)) \in Nat
    BY <2>2, FS_CardinalityType
  <2> HIDE DEF new
  <2> QED BY <1>1, <2>1, <2>4, <2>5, <2>6
<1> QED BY <1>2, <1>3 DEF Counted

(* No attacker stays unreported with maxRetries failures within findTime,  *)
(* for any number of jails and addresses and any windows and limits.       *)
THEOREM NoJailIsOverdue == Spec => []NoneOverdue
<1>1. Init => NoneOverdue
  BY OverdueDef DEF Init
<1>2. /\ TypeOK /\ CountersInv /\ LinesInv /\ NoneOverdue /\ [Next]_vars
      => NoneOverdue'
  <2> SUFFICES ASSUME TypeOK, CountersInv, LinesInv, NoneOverdue, [Next]_vars
               PROVE  NoneOverdue'
    OBVIOUS
  <2>1. NoneOverdue' <=> \A k \in Key : \A x \in seen'[k] :
                  Cardinality(Before(seen'[k], k, x)) < maxRetries[k[1]]
    BY SameCardinality DEF NoneOverdue, Window!NoneOverdue, Before, Key
  <2>2. CASE \E reading \in [Jail -> Addr \cup {NoAddr}] : Observe(reading)
    <3>1. PICK reading : Observe(reading)
      BY <2>2
    <3>2. ASSUME NEW k \in Key, NEW x \in seen'[k]
          PROVE  Cardinality(Before(seen'[k], k, x)) < maxRetries[k[1]]
      <4>1. \/ seen'[k] = {}
            \/ seen'[k] = seen[k]
            \/ /\ seen'[k] = Counted(seen[k])
               /\ k \in Failing(reading) \ Reached(Failing(reading))
        BY <3>1 DEF Observe
      <4> QED BY <3>2, <4>1, FailingKeys, OverdueDef, CountedIsNotOverdue
    <3> QED BY <2>1, <3>2
  <2>3. CASE Restart
    BY <2>1, <2>3 DEF Restart
  <2>4. CASE \/ Tick \/ UNCHANGED vars
             \/ \E b \in todo : ApplyBan(b) \/ BanFails(b)
    <3>1. seen' = seen
      BY <2>4 DEF Tick, vars, ApplyBan, BanFails, counters
    <3> QED BY <2>1, <3>1, OverdueDef
  <2> QED BY <2>2, <2>3, <2>4 DEF Next
<1> QED BY <1>1, <1>2, JournalTyping, CountersAreRight, RecordsAreNumbered, PTL
        DEF Spec

-----------------------------------------------------------------------------
(* Reports become bans. *)

(* A report that is not a ban yet is still to be applied. *)
PendingInv ==
    /\ \A b \in todo : b.expires = reached[b.key]
    /\ \A k \in Key : reached[k] > now =>
          \/ banned[k] >= reached[k]
          \/ \E b \in todo : b.key = k

(* Each step keeps every report either applied or to be applied. *)
LEMMA PendingStep ==
    ASSUME TypeOK, PendingInv, OneBanPerKey, [Next]_vars, "lock" \notin Faults
    PROVE  PendingInv'
<1>1. CASE \E reading \in [Jail -> Addr \cup {NoAddr}] : Observe(reading)
  <2>1. PICK reading : Observe(reading)
    BY <1>1
  <2> DEFINE reports == Reached(Failing(reading))
  <2>2. reached' = [k \in Key |-> IF k \in reports THEN now + banTime[k[1]]
                                  ELSE reached[k]]
    BY <2>1 DEF Observe
  <2>3. todo' = {[key |-> k, expires |-> now + banTime[k[1]]] : k \in reports}
    BY <2>1 DEF Observe
  <2>4. todo = {} /\ banned' = banned /\ now' = now
    BY <2>1 DEF Observe
  <2>5. reports \subseteq Key
    BY ReportsAreKeys
  <2> HIDE DEF reports
  <2>6. \A b \in todo' : b.expires = reached'[b.key]
    BY <2>2, <2>3, <2>5
  <2>7. ASSUME NEW k \in Key, reached'[k] > now'
        PROVE  banned'[k] >= reached'[k] \/ \E b \in todo' : b.key = k
    <3>1. CASE k \in reports
      <4>1. [key |-> k, expires |-> now + banTime[k[1]]] \in todo'
        BY <2>3, <3>1
      <4> QED BY <4>1
    <3>2. CASE k \notin reports
      BY <2>2, <2>4, <2>7, <3>2 DEF PendingInv
    <3> QED BY <3>1, <3>2
  <2> QED BY <2>6, <2>7 DEF PendingInv
<1>2. CASE \E b \in todo : ApplyBan(b)
  <2>1. PICK b \in todo : ApplyBan(b)
    BY <1>2
  <2>2. /\ banned' = [banned EXCEPT ![b.key] = b.expires]
        /\ todo' = todo \ {b} /\ now' = now /\ reached' = reached
    BY <2>1 DEF ApplyBan
  <2>3. b \in Ban /\ banned \in [Key -> Nat] /\ reached \in [Key -> Nat]
    BY <2>1 DEF TypeOK
  <2>4. b.key \in Key /\ b.expires \in Nat
    BY <2>3 DEF Ban
  <2>5. ASSUME NEW k \in Key, reached[k] > now
        PROVE  banned'[k] >= reached[k] \/ \E c \in todo' : c.key = k
    <3>1. CASE k = b.key
      BY <2>1, <2>2, <2>3, <2>4, <3>1 DEF PendingInv
    <3>2. CASE k # b.key
      BY <2>2, <2>3, <2>5, <3>2 DEF PendingInv
    <3> QED BY <3>1, <3>2
  <2> QED BY <2>2, <2>5 DEF PendingInv
<1>3. CASE \E b \in todo : BanFails(b)
  <2>1. PICK b \in todo : BanFails(b)
    BY <1>3
  <2>2. /\ b.expires <= now /\ todo' = todo \ {b}
        /\ now' = now /\ banned' = banned /\ reached' = reached
    BY <2>1 DEF BanFails
  <2>3. ASSUME NEW k \in Key, reached[k] > now
        PROVE  banned[k] >= reached[k] \/ \E c \in todo' : c.key = k
    <3>1. reached[k] \in Nat /\ now \in Nat
      BY DEF TypeOK
    <3>2. ASSUME b.key = k PROVE FALSE
      BY <2>1, <2>2, <2>3, <3>1, <3>2 DEF PendingInv
    <3> QED BY <2>2, <2>3, <3>2 DEF PendingInv
  <2> QED BY <2>2, <2>3 DEF PendingInv
<1>4. CASE Restart
  <2>1. todo' = {} /\ reached' = [k \in Key |-> 0] /\ now' = now
    BY <1>4 DEF Restart
  <2>2. now \in Nat
    BY DEF TypeOK
  <2> QED BY <2>1, <2>2 DEF PendingInv
<1>5. CASE Tick
  BY <1>5 DEF Tick, TypeOK, PendingInv
<1>6. CASE UNCHANGED vars
  BY <1>6 DEF vars, PendingInv
<1> QED BY <1>1, <1>2, <1>3, <1>4, <1>5, <1>6 DEF Next

(* If the lock is free and commits succeed whenever a ban is applied, an   *)
(* address that was reported is banned for all of its banTime.             *)
THEOREM ReportsBecomeBans ==
    ASSUME "lock" \notin Faults PROVE Spec => []ReportsAreBans
<1>1. Init => PendingInv /\ OneBanPerKey
  BY DEF Init, PendingInv, OneBanPerKey
<1>2. TypeOK /\ PendingInv /\ OneBanPerKey /\ [Next]_vars
        => PendingInv' /\ OneBanPerKey'
  BY PendingStep, OneBanStep
<1>3. PendingInv => ReportsAreBans
  BY DEF PendingInv, ReportsAreBans
<1> QED BY <1>1, <1>2, <1>3, JournalTyping, PTL DEF Spec

=============================================================================
