--------------------------- MODULE MigrationProof ---------------------------
(***************************************************************************)
(* What bfw migrate promises whatever the managers, the configurations and *)
(* the reader: proved from an invariant (IInv) that says, for each point   *)
(* of the command, what it has done so far.                                *)
(*                                                                         *)
(* Then what a takeover imports, for configurations, states and packets    *)
(* of any kind.  Said is the verdict of the first rule that a packet       *)
(* meets; every step of the import is about it, and DecideSaid about what  *)
(* /etc/default and the before chains make of it.  Reading a chain         *)
(* (ReadRight) and a dump (StreamRead), merging the rules in (MergedSaid)  *)
(* and the three calls of mergePolicy (PolicyMerged) come together in      *)
(* ImportDecides; ImportKnown says that what a takeover has imported comes *)
(* of it, whatever happens between.  For firewalld, a rule emitted has the *)
(* narrower of two sources (EmitSaid), an element all its bindings and     *)
(* templates (ElemSaid), a zone its elements in their order (ZoneSaid),    *)
(* and one zone at most captures a packet (OneZone).                       *)
(***************************************************************************)
EXTENDS Migration, ListLemmas, TLAPS

-----------------------------------------------------------------------------
(* The command.                                                            *)

FileBefore == IF existed THEN previous ELSE None

(* Until the save, nothing of the host has changed that was not changed by *)
(* the administrator.                                                      *)
Untouched ==
    /\ pc \in {"idle", "resolved", "locked", "loaded", "imported"} =>
          file \in Prior \cup {None} /\ warned = {} /\ boots = active /\ rc = "none"
    /\ pc \in {"idle", "resolved", "locked"} => previous = None
    /\ pc \in {"loaded", "imported"} => previous # None /\ file = FileBefore

(* Until it is started, the table is the one of before or none; afterwards *)
(* it is taken down.  Or there is a warning.                               *)
TableKnown ==
    /\ pc \notin {"started", "stop", "done", "killed"} =>
          table \in Prior \cup {None} \/ {"fragment", "table"} \cap warned # {}
    /\ pc = "started" => table = merged

(* What the takeover has in its hands.                                     *)
InHand ==
    /\ pc \notin {"idle", "done", "killed"} => source \in Manager
    /\ pc \in {"locked", "loaded", "imported", "saved"} /\ opts.takeover =>
          active \subseteq {source} \cup touched
    /\ pc \in {"saved", "stopped", "started"} => file = merged
    /\ pc \in {"stopped", "started"} => active \subseteq touched
    /\ pc = "undo" => \/ source \in active \cup touched /\ source \in boots \cup touched
                     \/ "source" \in warned

IInv == TypeOK /\ Untouched /\ TableKnown /\ InHand /\ NeverBare /\ OneFirewall /\ Undone

-----------------------------------------------------------------------------
(* It holds of a host nobody has touched. *)
LEMMA InitInv == Init => IInv
BY TakeoverAssumption DEF Init, IInv, TypeOK, Options, Steps, Warnings, Untouched, FileBefore, TableKnown,
   InHand, NeverBare, OneFirewall, Undone

(* Settling on a source, or refusing, touches nothing. *)
LEMMA InvResolve ==
    ASSUME IInv, Resolve PROVE IInv'
<1> USE DEF IInv, Resolve, Refuse, End, host, command
<1>1. TypeOK'
  BY TakeoverAssumption DEF TypeOK, Options, Steps, Warnings, Untouched, InHand
<1>2. Untouched'
  BY TakeoverAssumption DEF TypeOK, Untouched, FileBefore
<1>3. TableKnown'
  BY DEF TableKnown, InHand, Untouched
<1>4. InHand'
  BY DEF TypeOK, InHand, Untouched
<1>5. NeverBare' /\ OneFirewall' /\ Undone'
  BY TakeoverAssumption DEF TypeOK, Untouched, FileBefore, TableKnown, InHand, NeverBare, OneFirewall, Undone
<1> QED BY <1>1, <1>2, <1>3, <1>4, <1>5

(* The administrator changes what runs and what starts with the system     *)
(* alike, and is remembered.                                               *)
LEMMA InvAdminister ==
    ASSUME IInv, NEW m \in Manager, Administer(m) PROVE IInv'
<1> USE DEF IInv, Administer, host, command
<1>1. TypeOK'
  BY TakeoverAssumption DEF TypeOK, Options, Steps, Warnings, Untouched, InHand
<1>2. Untouched'
  BY TakeoverAssumption DEF TypeOK, Untouched, FileBefore
<1>3. TableKnown'
  BY DEF TableKnown, InHand, Untouched
<1>4. InHand'
  BY DEF TypeOK, InHand, Untouched
<1>5. NeverBare' /\ OneFirewall' /\ Undone'
  BY TakeoverAssumption DEF TypeOK, Untouched, FileBefore, TableKnown, InHand, NeverBare, OneFirewall, Undone
<1> QED BY <1>1, <1>2, <1>3, <1>4, <1>5

(* Under the lock the active manager is the source of a takeover. *)
LEMMA InvLock ==
    ASSUME IInv, Lock PROVE IInv'
<1> USE DEF IInv, Lock, Refuse, End, Detected, host, command
<1>1. TypeOK'
  BY TakeoverAssumption DEF TypeOK, Options, Steps, Warnings, Untouched, InHand
<1>2. Untouched'
  BY TakeoverAssumption DEF TypeOK, Untouched, FileBefore
<1>3. TableKnown'
  BY DEF TableKnown, InHand, Untouched
<1>4. InHand'
  BY DEF TypeOK, InHand, Untouched
<1>5. NeverBare' /\ OneFirewall' /\ Undone'
  BY TakeoverAssumption DEF TypeOK, Untouched, FileBefore, TableKnown, InHand, NeverBare, OneFirewall, Undone
<1> QED BY <1>1, <1>2, <1>3, <1>4, <1>5

(* What is loaded is what the file holds, or stands in for none. *)
LEMMA InvLoad ==
    ASSUME IInv, Load PROVE IInv'
<1> USE DEF IInv, Load, Refuse, End, host, command
<1>1. TypeOK'
  BY TakeoverAssumption DEF TypeOK, Options, Steps, Warnings, Untouched, InHand
<1>2. Untouched'
  BY TakeoverAssumption DEF TypeOK, Untouched, FileBefore
<1>3. TableKnown'
  BY DEF TableKnown, InHand, Untouched
<1>4. InHand'
  BY DEF TypeOK, InHand, Untouched
<1>5. NeverBare' /\ OneFirewall' /\ Undone'
  BY TakeoverAssumption DEF TypeOK, Untouched, FileBefore, TableKnown, InHand, NeverBare, OneFirewall, Undone
<1> QED BY <1>1, <1>2, <1>3, <1>4, <1>5

(* The reader is given a state, and what it gives back is one or a failure. *)
LEMMA InvImport ==
    ASSUME IInv, NEW c \in Config, Import(c) PROVE IInv'
<1> USE DEF IInv, Import, Refuse, End, host, command
<1> DEFINE base == IF opts.replace THEN Default ELSE previous
           result == Read(c, base)
<1>1. TypeOK'
  <2>1. base \in Prior \cup {Default}
    BY DEF TypeOK, Untouched
  <2>2. result \in Content \cup {Failed}
    BY <2>1, TakeoverAssumption
  <2>3. CASE result = Failed
    BY <2>3 DEF TypeOK, Steps, Warnings
  <2>4. CASE result # Failed
    BY <2>2, <2>4 DEF TypeOK, Steps, Warnings
  <2> QED BY <2>3, <2>4
<1>2. Untouched'
  BY TakeoverAssumption DEF TypeOK, Untouched, FileBefore
<1>3. TableKnown'
  BY DEF TableKnown, InHand, Untouched
<1>4. InHand'
  BY DEF TypeOK, InHand, Untouched
<1>5. NeverBare' /\ OneFirewall' /\ Undone'
  BY TakeoverAssumption DEF TypeOK, Untouched, FileBefore, TableKnown, InHand, NeverBare, OneFirewall, Undone
<1> QED BY <1>1, <1>2, <1>3, <1>4, <1>5

(* A no leaves the host as it was. *)
LEMMA InvDecline ==
    ASSUME IInv, Decline PROVE IInv'
<1> USE DEF IInv, Decline, Refuse, End, host, command
<1>1. TypeOK'
  BY TakeoverAssumption DEF TypeOK, Options, Steps, Warnings, Untouched, InHand
<1>2. Untouched'
  BY TakeoverAssumption DEF TypeOK, Untouched, FileBefore
<1>3. TableKnown'
  BY DEF TableKnown, InHand, Untouched
<1>4. InHand'
  BY DEF TypeOK, InHand, Untouched
<1>5. NeverBare' /\ OneFirewall' /\ Undone'
  BY TakeoverAssumption DEF TypeOK, Untouched, FileBefore, TableKnown, InHand, NeverBare, OneFirewall, Undone
<1> QED BY <1>1, <1>2, <1>3, <1>4, <1>5

(* From here on rules.json is what was imported. *)
LEMMA InvSave ==
    ASSUME IInv, Save PROVE IInv'
<1> USE DEF IInv, Save, Refuse, End, host, command
<1>1. TypeOK'
  BY TakeoverAssumption DEF TypeOK, Options, Steps, Warnings, Untouched, InHand
<1>2. Untouched'
  BY TakeoverAssumption DEF TypeOK, Untouched, FileBefore
<1>3. TableKnown'
  BY DEF TableKnown, InHand, Untouched
<1>4. InHand'
  BY DEF TypeOK, InHand, Untouched
<1>5. NeverBare' /\ OneFirewall' /\ Undone'
  BY TakeoverAssumption DEF TypeOK, Untouched, FileBefore, TableKnown, InHand, NeverBare, OneFirewall, Undone
<1> QED BY <1>1, <1>2, <1>3, <1>4, <1>5

(* Without a takeover nothing is promised of the host. *)
LEMMA InvApply ==
    ASSUME IInv, Apply PROVE IInv'
<1> USE DEF IInv, Apply, ApplyFails, End, host, command
<1>1. TypeOK'
  BY TakeoverAssumption DEF TypeOK, Options, Steps, Warnings, Untouched, InHand
<1>2. Untouched'
  BY TakeoverAssumption DEF TypeOK, Untouched, FileBefore
<1>3. TableKnown'
  BY DEF TableKnown, InHand, Untouched
<1>4. InHand'
  BY DEF TypeOK, InHand, Untouched
<1>5. NeverBare' /\ OneFirewall' /\ Undone'
  BY TakeoverAssumption DEF TypeOK, Untouched, FileBefore, TableKnown, InHand, NeverBare, OneFirewall, Undone
<1> QED BY <1>1, <1>2, <1>3, <1>4, <1>5

(* Stopping the source leaves nothing active but what the administrator    *)
(* started, or goes on to restoring it.                                    *)
LEMMA InvStopSource ==
    ASSUME IInv, StopSource PROVE IInv'
<1> USE DEF IInv, StopSource, host, command
<1>1. TypeOK'
  BY TakeoverAssumption DEF TypeOK, Options, Steps, Warnings, Untouched, InHand
<1>2. Untouched'
  BY TakeoverAssumption DEF TypeOK, Untouched, FileBefore
<1>3. TableKnown'
  BY DEF TableKnown, InHand, Untouched
<1>4. InHand'
  BY DEF TypeOK, InHand, Untouched
<1>5. NeverBare' /\ OneFirewall' /\ Undone'
  BY TakeoverAssumption DEF TypeOK, Untouched, FileBefore, TableKnown, InHand, NeverBare, OneFirewall, Undone
<1> QED BY <1>1, <1>2, <1>3, <1>4, <1>5

(* The table is made from what was imported. *)
LEMMA InvStartFirewall ==
    ASSUME IInv, StartFirewall PROVE IInv'
<1> USE DEF IInv, StartFirewall, ApplyFails, host, command
<1>1. TypeOK'
  <2>1. table' \in Content \cup {None} /\ warned' \subseteq Warnings /\ pc' \in Steps
    BY DEF TypeOK, Steps, Warnings
  <2> QED BY <2>1 DEF TypeOK
<1>2. Untouched'
  BY TakeoverAssumption DEF TypeOK, Untouched, FileBefore
<1>3. TableKnown'
  BY DEF TableKnown, InHand, Untouched
<1>4. InHand'
  BY DEF TypeOK, InHand, Untouched
<1>5. NeverBare' /\ OneFirewall' /\ Undone'
  BY TakeoverAssumption DEF TypeOK, Untouched, FileBefore, TableKnown, InHand, NeverBare, OneFirewall, Undone
<1> QED BY <1>1, <1>2, <1>3, <1>4, <1>5

(* The takeover is done, or bfw is taken down again. *)
LEMMA InvPersistEnabled ==
    ASSUME IInv, PersistEnabled PROVE IInv'
<1> USE DEF IInv, PersistEnabled, End, host, command
<1>1. TypeOK'
  <2>1. /\ boots' \subseteq Manager \cup {"bfw"} /\ warned' \subseteq Warnings
        /\ pc' \in Steps /\ enabled' \in BOOLEAN
        /\ rc' \in {"none", "ok", "refused", "failed"}
    BY DEF TypeOK, Steps, Warnings
  <2> QED BY <2>1 DEF TypeOK
<1>2. Untouched'
  BY TakeoverAssumption DEF TypeOK, Untouched, FileBefore
<1>3. TableKnown'
  BY DEF TableKnown, InHand, Untouched
<1>4. InHand'
  BY DEF TypeOK, InHand, Untouched
<1>5. NeverBare' /\ OneFirewall' /\ Undone'
  BY TakeoverAssumption DEF TypeOK, Untouched, FileBefore, TableKnown, InHand, NeverBare, OneFirewall, Undone
<1> QED BY <1>1, <1>2, <1>3, <1>4, <1>5

(* No table of the import stays, or there is a warning. *)
LEMMA InvStopFirewall ==
    ASSUME IInv, StopFirewall PROVE IInv'
<1> USE DEF IInv, StopFirewall, host, command
<1>1. TypeOK'
  BY TakeoverAssumption DEF TypeOK, Options, Steps, Warnings, Untouched, InHand
<1>2. Untouched'
  BY TakeoverAssumption DEF TypeOK, Untouched, FileBefore
<1>3. TableKnown'
  BY DEF TableKnown, InHand, Untouched
<1>4. InHand'
  BY DEF TypeOK, InHand, Untouched
<1>5. NeverBare' /\ OneFirewall' /\ Undone'
  BY TakeoverAssumption DEF TypeOK, Untouched, FileBefore, TableKnown, InHand, NeverBare, OneFirewall, Undone
<1> QED BY <1>1, <1>2, <1>3, <1>4, <1>5

(* The source runs again, or there is a warning. *)
LEMMA InvRestoreSource ==
    ASSUME IInv, RestoreSource PROVE IInv'
<1> USE DEF IInv, RestoreSource, host, command
<1>1. TypeOK'
  <2>1. source \in Manager
    BY DEF InHand
  <2>2. active' \subseteq Manager /\ boots' \subseteq Manager \cup {"bfw"}
    BY <2>1 DEF TypeOK
  <2>3. warned' \subseteq Warnings
    BY DEF TypeOK, Warnings
  <2> QED BY <2>2, <2>3 DEF TypeOK, Steps, Warnings
<1>2. Untouched'
  BY TakeoverAssumption DEF TypeOK, Untouched, FileBefore
<1>3. TableKnown'
  BY DEF TableKnown, InHand, Untouched
<1>4. InHand'
  BY DEF TypeOK, InHand, Untouched
<1>5. NeverBare' /\ OneFirewall' /\ Undone'
  BY TakeoverAssumption DEF TypeOK, Untouched, FileBefore, TableKnown, InHand, NeverBare, OneFirewall, Undone
<1> QED BY <1>1, <1>2, <1>3, <1>4, <1>5

(* rules.json is as before, or there is a warning. *)
LEMMA InvRestoreState ==
    ASSUME IInv, RestoreState PROVE IInv'
<1> USE DEF IInv, RestoreState, End, host, command
<1>1. TypeOK'
  BY TakeoverAssumption DEF TypeOK, Options, Steps, Warnings, Untouched, InHand
<1>2. Untouched'
  BY TakeoverAssumption DEF TypeOK, Untouched, FileBefore
<1>3. TableKnown'
  BY DEF TableKnown, InHand, Untouched
<1>4. InHand'
  BY DEF TypeOK, InHand, Untouched
<1>5. NeverBare' /\ OneFirewall' /\ Undone'
  BY TakeoverAssumption DEF TypeOK, Untouched, FileBefore, TableKnown, InHand, NeverBare, OneFirewall, Undone
<1> QED BY <1>1, <1>2, <1>3, <1>4, <1>5

(* Nothing is promised of a killed migration. *)
LEMMA InvKill ==
    ASSUME IInv, Kill PROVE IInv'
<1> USE DEF IInv, Kill, host, command
<1>1. TypeOK'
  BY TakeoverAssumption DEF TypeOK, Options, Steps, Warnings, Untouched, InHand
<1>2. Untouched'
  BY TakeoverAssumption DEF TypeOK, Untouched, FileBefore
<1>3. TableKnown'
  BY DEF TableKnown, InHand, Untouched
<1>4. InHand'
  BY DEF TypeOK, InHand, Untouched
<1>5. NeverBare' /\ OneFirewall' /\ Undone'
  BY TakeoverAssumption DEF TypeOK, Untouched, FileBefore, TableKnown, InHand, NeverBare, OneFirewall, Undone
<1> QED BY <1>1, <1>2, <1>3, <1>4, <1>5

(* Every step keeps the invariant. *)
LEMMA NextInv == IInv /\ [Next]_vars => IInv'
<1> SUFFICES ASSUME IInv, [Next]_vars PROVE IInv'
  OBVIOUS
<1>1. CASE UNCHANGED vars
  BY <1>1 DEF vars, host, command, IInv, TypeOK, Untouched, FileBefore, TableKnown, InHand,
     NeverBare, OneFirewall, Undone
<1>2. CASE Next
  BY <1>2, InvResolve, InvAdminister, InvLock, InvLoad, InvImport, InvDecline, InvSave,
     InvApply, InvStopSource, InvStartFirewall, InvPersistEnabled, InvStopFirewall,
     InvRestoreSource, InvRestoreState, InvKill DEF Next, Handover
<1> QED BY <1>1, <1>2

(* So it holds throughout. *)
THEOREM Inv == Spec => []IInv
BY InitInv, NextInv, PTL DEF Spec

-----------------------------------------------------------------------------
(* What follows from it.                                                   *)

(* Type correctness, whatever the reader makes of a configuration.         *)
THEOREM TakeoverTyping == Spec => []TypeOK
BY Inv, PTL DEF IInv

(* A takeover that came to its end left a firewall on the host, or said    *)
(* what it could not restore.                                              *)
THEOREM SomeFirewallRuns == Spec => []NeverBare
BY Inv, PTL DEF IInv

(* A takeover that worked left bfw enabled, with what it imported, and no  *)
(* manager beside it but those the administrator started after the         *)
(* migration had looked under the lock.                                    *)
THEOREM OnlyBfwRuns == Spec => []OneFirewall
BY Inv, PTL DEF IInv

(* One that failed left rules.json as it was, and the kernel without it.   *)
THEOREM FailureUndoes == Spec => []Undone
BY Inv, PTL DEF IInv

-----------------------------------------------------------------------------
(* What is imported.                                                       *)

(* The verdict of the first rule that a packet meets.                      *)
Said(list, p) == IF Hits(list, p) = {} THEN "none" ELSE list[Min(Hits(list, p))].act

(* An element beyond the others is not their least.                        *)
LEMMA MinKept ==
    ASSUME NEW n \in Nat, NEW S, S \subseteq 1 .. n, S # {}
    PROVE  Min(S \cup {n + 1}) = Min(S) /\ Min(S) \in S
<1> DEFINE T == S \cup {n + 1}
<1>0. S \subseteq Nat /\ T \subseteq Nat /\ T # {} /\ S \subseteq T
  OBVIOUS
<1>1. PICK m : m = Min(S)
  OBVIOUS
<1>2. PICK k : k = Min(T)
  OBVIOUS
<1>3. m \in S /\ \A x \in S : m <= x
  BY <1>0, <1>1, Least
<1>4. k \in T /\ \A x \in T : k <= x
  <2> HIDE DEF T
  <2> QED BY <1>0, <1>2, Least
<1>5. m \in Nat /\ m <= n /\ m \in T
  BY <1>0, <1>3
<1>6. k <= m
  BY <1>4, <1>5
<1>7. k \in S
  <2>1. k # n + 1
    BY <1>5, <1>6
  <2> QED BY <1>4, <2>1
<1>8. m <= k /\ k \in Nat
  BY <1>0, <1>3, <1>7
<1>9. k = m
  BY <1>5, <1>6, <1>8
<1> QED BY <1>1, <1>2, <1>3, <1>9

(* The least of one number.                                                *)
LEMMA MinOne ==
    ASSUME NEW n \in Nat
    PROVE  Min({n + 1}) = n + 1
<1>1. Min({n + 1}) \in {n + 1}
  BY Least
<1> QED BY <1>1

(* No rule, no verdict.                                                    *)
LEMMA SaidEmpty ==
    ASSUME NEW p PROVE Said(<<>>, p) = "none"
BY DEF Said, Hits

(* A rule at the end of a list decides what no rule before it does.        *)
LEMMA SaidAppend ==
    ASSUME NEW list \in Seq(Rule), NEW r \in Rule, NEW p
    PROVE  Said(Append(list, r), p) =
              IF Said(list, p) # "none" THEN Said(list, p)
              ELSE IF r.dir = p.dir /\ Matches(r, p) THEN r.act ELSE "none"
<1> DEFINE n == Len(list)
           H == Hits(list, p)
           K == Hits(Append(list, r), p)
           hit == r.dir = p.dir /\ Matches(r, p)
<1>1. /\ DOMAIN Append(list, r) = DOMAIN list \cup {n + 1}
      /\ \A i \in DOMAIN list : Append(list, r)[i] = list[i]
      /\ Append(list, r)[n + 1] = r
      /\ DOMAIN list = 1 .. n /\ n \in Nat
  BY AppendDomain
<1>2. H \subseteq 1 .. n
  BY <1>1 DEF Hits
<1>3. K = H \cup (IF hit THEN {n + 1} ELSE {})
  <2>1. \A i : i \in K <=> i \in H \/ (i = n + 1 /\ hit)
    <3> HIDE DEF n
    <3> QED BY <1>1, Zenon DEF Hits
  <2> HIDE DEF K, H, hit
  <2> QED BY <2>1
<1>4. \A i \in H : list[i].act \in Verdict
  <2>1. \A r2 \in Rule : r2.act \in Verdict
    BY DEF Rule
  <2>2. \A i \in H : list[i] \in Rule
    BY <1>1, <1>2
  <2> HIDE DEF H
  <2> QED BY <2>1, <2>2
<1>5. "none" \notin Verdict
  BY DEF Verdict
<1>6. /\ Said(list, p) = IF H = {} THEN "none" ELSE list[Min(H)].act
      /\ Said(Append(list, r), p) = IF K = {} THEN "none" ELSE Append(list, r)[Min(K)].act
  BY DEF Said
<1> HIDE DEF n, H, K
<1>7. CASE H # {}
  <2>1. Min(H) \in H /\ Min(K) = Min(H)
    <3>1. Min(H \cup {n + 1}) = Min(H) /\ Min(H) \in H
      BY <1>1, <1>2, <1>7, MinKept
    <3> QED BY <1>3, <3>1
  <2>2. Said(list, p) = list[Min(H)].act /\ Said(list, p) # "none"
    BY <1>4, <1>5, <1>6, <1>7, <2>1
  <2>3. K # {} /\ Min(H) \in DOMAIN list
    BY <1>1, <1>2, <1>3, <1>7, <2>1
  <2> QED BY <1>1, <1>6, <2>1, <2>2, <2>3
<1>8. CASE H = {} /\ hit
  <2>1. K = {n + 1} /\ Min(K) = n + 1
    BY <1>1, <1>3, <1>8, MinOne
  <2> HIDE DEF hit
  <2> QED BY <1>1, <1>6, <1>8, <2>1 DEF hit
<1>9. CASE H = {} /\ ~hit
  <2>1. K = {}
    BY <1>3, <1>9
  <2> QED BY <1>6, <1>9, <2>1
<1> QED BY <1>7, <1>8, <1>9

(* A verdict, or none.                                                     *)
LEMMA SaidTyping ==
    ASSUME NEW list \in Seq(Rule), NEW p
    PROVE  Said(list, p) \in Verdict \cup {"none"}
<1>1. CASE Hits(list, p) = {}
  BY <1>1 DEF Said
<1>2. CASE Hits(list, p) # {}
  <2>1. Hits(list, p) \subseteq 1 .. Len(list) /\ Len(list) \in Nat
    BY DEF Hits
  <2>2. Min(Hits(list, p)) \in Hits(list, p)
    BY <1>2, <2>1, Least
  <2>3. list[Min(Hits(list, p))] \in Rule
    BY <2>1, <2>2
  <2> QED BY <1>2, <2>3 DEF Said, Rule
<1> QED BY <1>1, <1>2

(* Two lists one after the other: the second says what the first does not. *)
LEMMA SaidConcat ==
    ASSUME NEW s \in Seq(Rule), NEW t \in Seq(Rule), NEW p
    PROVE  Said(s \o t, p) = IF Said(s, p) # "none" THEN Said(s, p) ELSE Said(t, p)
<1> DEFINE T == {u \in Seq(Rule) :
                   Said(s \o u, p) = IF Said(s, p) # "none" THEN Said(s, p) ELSE Said(u, p)}
<1>1. <<>> \in T
  <2>1. s \o <<>> = s
    OBVIOUS
  <2> QED BY <2>1, SaidEmpty
<1>2. ASSUME NEW u \in Seq(Rule), NEW r \in Rule, u \in T PROVE Append(u, r) \in T
  <2>1. /\ s \o Append(u, r) = Append(s \o u, r)
        /\ s \o u \in Seq(Rule) /\ Append(u, r) \in Seq(Rule)
    OBVIOUS
  <2>2. Said(Append(s \o u, r), p) =
              IF Said(s \o u, p) # "none" THEN Said(s \o u, p)
              ELSE IF r.dir = p.dir /\ Matches(r, p) THEN r.act ELSE "none"
    BY <2>1, SaidAppend
  <2>3. Said(Append(u, r), p) =
              IF Said(u, p) # "none" THEN Said(u, p)
              ELSE IF r.dir = p.dir /\ Matches(r, p) THEN r.act ELSE "none"
    BY SaidAppend
  <2>4. Said(s \o u, p) = IF Said(s, p) # "none" THEN Said(s, p) ELSE Said(u, p)
    BY <1>2
  <2>5. Said(Append(s \o u, r), p)
        = IF Said(s, p) # "none" THEN Said(s, p) ELSE Said(Append(u, r), p)
    BY ONLY <2>2, <2>3, <2>4
  <2> QED BY <2>1, <2>5
<1>3. Seq(Rule) \subseteq T
  <2> HIDE DEF T
  <2> QED BY <1>1, <1>2, ListInduction
<1> QED BY <1>3

(* Rules that agree in their tuples meet the same packets.                 *)
LEMMA TupleMatches ==
    ASSUME NEW r \in Rule, NEW o \in Rule, SameTuple(r, o), NEW p
    PROVE  r.dir = o.dir /\ (Matches(r, p) <=> Matches(o, p))
<1>1. /\ r.dir = o.dir /\ r.iface = o.iface /\ r.src = o.src /\ r.services = o.services
  BY DEF SameTuple, Rule
<1> QED BY <1>1 DEF Matches

(* A rule may take the place of one with its tuple and verdict.            *)
LEMMA SaidReplaced ==
    ASSUME NEW list \in Seq(Rule), NEW i \in DOMAIN list, NEW r \in Rule,
           SameTuple(list[i], r), list[i].act = r.act, NEW p
    PROVE  Said([list EXCEPT ![i] = r], p) = Said(list, p)
<1> DEFINE new == [list EXCEPT ![i] = r]
<1>1. /\ DOMAIN new = DOMAIN list /\ new[i] = r /\ list[i] \in Rule
      /\ \A j \in DOMAIN list : j # i => new[j] = list[j]
  OBVIOUS
<1>2. r.dir = list[i].dir /\ (Matches(r, p) <=> Matches(list[i], p))
  BY <1>1, TupleMatches
<1> HIDE DEF new
<1>3. Hits(new, p) = Hits(list, p)
  <2>1. \A j \in DOMAIN list : (new[j].dir = p.dir /\ Matches(new[j], p))
                              <=> (list[j].dir = p.dir /\ Matches(list[j], p))
    <3>1. ASSUME NEW j \in DOMAIN list
          PROVE  (new[j].dir = p.dir /\ Matches(new[j], p))
                 <=> (list[j].dir = p.dir /\ Matches(list[j], p))
      <4>1. CASE j = i
        BY <1>1, <1>2, <4>1
      <4>2. CASE j # i
        BY <1>1, <4>2
      <4> QED BY <4>1, <4>2
    <3> QED BY <3>1
  <2> QED BY <1>1, <2>1 DEF Hits
<1>4. \A j \in DOMAIN list : new[j].act = list[j].act
  BY <1>1
<1>5. CASE Hits(list, p) # {}
  <2>1. Hits(list, p) \subseteq 1 .. Len(list) /\ Len(list) \in Nat
    BY DEF Hits
  <2>2. Min(Hits(list, p)) \in Hits(list, p)
    BY <1>5, <2>1, Least
  <2>3. Min(Hits(list, p)) \in DOMAIN list
    BY <2>2 DEF Hits
  <2> QED BY <1>3, <1>4, <2>3 DEF Said, new
<1>6. CASE Hits(list, p) = {}
  BY <1>3, <1>6 DEF Said, new
<1> QED BY <1>5, <1>6

(* Merging a rule in leaves a list of rules.                               *)
LEMMA MergeTyping ==
    ASSUME NEW list \in Seq(Rule), NEW r \in Rule
    PROVE  MergeRule(list, r) \in Seq(Rule)
<1> DEFINE old == {i \in DOMAIN list : SameTuple(list[i], r)}
<1>1. CASE old = {}
  BY <1>1 DEF MergeRule
<1>2. CASE old # {}
  <2>1. MergeRule(list, r) = [list EXCEPT ![Min(old)] = r]
    BY <1>2 DEF MergeRule
  <2>2. PICK m : m = Min(old)
    OBVIOUS
  <2>3. m \in DOMAIN list
    <3>1. old \subseteq Nat
      OBVIOUS
    <3>2. Min(old) \in old
      <4> HIDE DEF old
      <4> QED BY <1>2, <3>1, Least
    <3> QED BY <2>2, <3>2
  <2>4. [list EXCEPT ![m] = r] \in Seq(Rule)
    BY <2>3
  <2> QED BY ONLY <2>1, <2>2, <2>4
<1> QED BY <1>1, <1>2

(* What it is to merge the rules of a list one by one.                     *)
MergedRight(l, dst) ==
    /\ mergeRules(dst, <<>>) = dst
    /\ mergeRules(dst, l) \in Seq(Rule)
    /\ \A r \in Rule : mergeRules(dst, Append(l, r))
                 = MergeRule(mergeRules(dst, l), r)

(* mergeRules does: its fold has these equations.                          *)
LEMMA MergedFold ==
    ASSUME NEW dst \in Seq(Rule), NEW l \in Seq(Rule)
    PROVE  MergedRight(l, dst)
<1> DEFINE A == Seq(Rule)
           E == Rule
           start == dst
           Op(a, x) == MergeRule(a, x)
           G == [y \in A \X E |-> Op(y[1], y[2])]
           P == [s \in Seq(E) |-> mergeRules(dst, s)]
<1>1. G \in [A \X E -> A] /\ start \in A
  <2>1. \A a \in A, x \in E : Op(a, x) \in A
    BY MergeTyping
  <2> HIDE DEF A, Op
  <2> QED BY <2>1 DEF A
<1>2. Folds(P, E, A, start, G)
  <2> SUFFICES ASSUME NEW s \in Seq(E)
               PROVE  \E it : /\ P[s] = it[DOMAIN s]
                              /\ it[{}] = start
                              /\ \A t \in SUBSET DOMAIN s :
                                    t # {} /\ it[t \ {Max(t)}] \in A
                                    => it[t] = G[<<it[t \ {Max(t)}], s[Max(t)]>>]
    BY DEF Folds
  <2> DEFINE Rec(it) == it = [t \in SUBSET DOMAIN s |->
                                IF t = {} THEN start ELSE Op(it[t \ {Max(t)}], s[Max(t)])]
  <2>1. mergeRules(dst, s) = (CHOOSE it : Rec(it))[DOMAIN s]
    BY Zenon DEF mergeRules, FoldLeft, MapThenFoldSet
  <2> HIDE DEF start
  <2>2. \A t \in SUBSET DOMAIN s : t # {} => Max(t) \in DOMAIN s /\ s[Max(t)] \in E
    BY MaxOfDomain
  <2>3. PICK g \in [SUBSET DOMAIN s -> A] : Recursion(g, start, G, s)
    <3> HIDE DEF G, A, E
    <3> QED BY <1>1, RecursionExists
  <2>4. Rec(g)
    <3> HIDE DEF Op
    <3> QED BY <2>2, <2>3, Zenon DEF Recursion
  <2> DEFINE it == CHOOSE it : Rec(it)
  <2>5. Rec(it)
    <3> HIDE DEF Rec
    <3> QED BY <2>4
  <2>6. P[s] = it[DOMAIN s]
    BY <2>1
  <2> HIDE DEF it, Op, A, E
  <2>7. it[{}] = start
    BY <2>5
  <2>8. ASSUME NEW t \in SUBSET DOMAIN s, t # {}, it[t \ {Max(t)}] \in A
        PROVE  it[t] = G[<<it[t \ {Max(t)}], s[Max(t)]>>]
    <3>1. it[t] = Op(it[t \ {Max(t)}], s[Max(t)])
      BY <2>5, <2>8
    <3>2. <<it[t \ {Max(t)}], s[Max(t)]>> \in A \X E
      BY <2>2, <2>8
    <3> QED BY <3>1, <3>2
  <2> QED BY <2>6, <2>7, <2>8
<1>3. /\ P[<<>>] = start
      /\ \A s \in Seq(E), x \in E : P[Append(s, x)] = G[<<P[s], x>>]
      /\ \A s \in Seq(E) : P[s] \in A
  <2> HIDE DEF G, P, A, E, start
  <2> QED BY <1>1, <1>2, ListFold
<1>4. <<>> \in Seq(E) /\ \A x \in E : Append(l, x) \in Seq(E)
  OBVIOUS
<1>5. \A s \in Seq(E) : mergeRules(dst, s) = P[s]
  OBVIOUS
<1>6. \A a \in A, x \in E : G[<<a, x>>] = MergeRule(a, x)
  OBVIOUS
<1> HIDE DEF P, G, A, E
<1>7. mergeRules(dst, <<>>) = start
  BY <1>3, <1>4, <1>5
<1>8. mergeRules(dst, l) \in A
  BY <1>3, <1>5 DEF E
<1>9. ASSUME NEW x \in E
      PROVE  mergeRules(dst, Append(l, x))
             = MergeRule(mergeRules(dst, l), x)
  <2>1. P[Append(l, x)] = G[<<P[l], x>>] /\ P[l] \in A
    BY <1>3 DEF E
  <2>2. G[<<P[l], x>>] = MergeRule(P[l], x)
    BY <1>6, <2>1
  <2>3. mergeRules(dst, l) = P[l] /\ mergeRules(dst, Append(l, x)) = P[Append(l, x)]
    BY <1>4, <1>5 DEF E
  <2> QED BY ONLY <2>1, <2>2, <2>3
<1> QED BY <1>7, <1>8, <1>9 DEF MergedRight, A, E

(* A list with a rule that a packet meets has a verdict for it.            *)
LEMMA SaidNone ==
    ASSUME NEW list \in Seq(Rule), NEW p, NEW i \in DOMAIN list,
           list[i].dir = p.dir, Matches(list[i], p)
    PROVE  Said(list, p) # "none"
<1>1. i \in Hits(list, p)
  BY DEF Hits
<1>2. Hits(list, p) \subseteq 1 .. Len(list) /\ Len(list) \in Nat
  BY DEF Hits
<1>3. Min(Hits(list, p)) \in Hits(list, p)
  BY <1>1, <1>2, Least
<1>4. list[Min(Hits(list, p))] \in Rule
  BY <1>2, <1>3
<1>5. \A r \in Rule : r.act # "none"
  BY DEF Rule, Verdict
<1> QED BY <1>1, <1>4, <1>5 DEF Said

(* A state decides by its rules, and by its policy where they say nothing. *)
LEMMA RuledSaid ==
    ASSUME NEW st, NEW p, st.rules[p.family] \in Seq(Rule)
    PROVE  Ruled(st, p) = IF Said(st.rules[p.family], p) = "none" THEN st.policies[p.dir]
                           ELSE Said(st.rules[p.family], p)
<1> DEFINE list == st.rules[p.family]
<1>1. CASE Hits(list, p) = {}
  BY <1>1 DEF Ruled, Said
<1>2. CASE Hits(list, p) # {}
  <2>1. PICK i \in Hits(list, p) : TRUE
    BY <1>2
  <2>2. i \in DOMAIN list /\ list[i].dir = p.dir /\ Matches(list[i], p)
    BY <2>1 DEF Hits
  <2>3. Said(list, p) # "none"
    <3> HIDE DEF list
    <3> QED BY <2>2, SaidNone DEF list
  <2> QED BY <1>2, <2>3 DEF Ruled, Said
<1> QED BY <1>1, <1>2

(* What is asked of the rules is decided by them, and by the policy in     *)
(* force where they say nothing.                                           *)
LEMMA DecideSaid ==
    ASSUME NEW st, st = [rules |-> st.rules, policies |-> st.policies, ipv6 |-> st.ipv6],
           NEW p \in Packet, st.rules[p.family] \in Seq(Rule), NEW etc, ~Aside(etc, p)
    PROVE  /\ Decide(st, etc, p) =
                 IF Said(st.rules[p.family], p) = "none" THEN InForce(st, etc).policies[p.dir]
                 ELSE Said(st.rules[p.family], p)
           /\ InForce(st, etc).policies[p.dir]
              = overridePolicy(st.policies[p.dir], etc.policies[p.dir])
<1> DEFINE new == [d \in Dir |-> overridePolicy(st.policies[d], etc.policies[d])]
           now == InForce(st, etc)
<1>1. Decide(st, etc, p) = Ruled(now, p)
  BY DEF Decide, Aside
<1>2. now = [st EXCEPT !.policies = new]
  BY Zenon DEF InForce
<1>3. p.dir \in Dir
  BY DEF Packet
<1>4. new[p.dir] = overridePolicy(st.policies[p.dir], etc.policies[p.dir])
  BY <1>3
<1> HIDE DEF new, now
<1>5. now.policies = new /\ now.rules = st.rules
  BY <1>2
<1>6. now.rules[p.family] \in Seq(Rule)
  BY <1>5
<1>7. Ruled(now, p) = IF Said(now.rules[p.family], p) = "none" THEN now.policies[p.dir]
                      ELSE Said(now.rules[p.family], p)
  BY <1>6, RuledSaid
<1> QED BY <1>1, <1>4, <1>5, <1>7 DEF now

(* Each rule of a list comes from one of another.                          *)
From(list, src) ==
    \A i \in DOMAIN list : \E j \in DOMAIN src :
        SameTuple(list[i], src[j]) /\ list[i].act = src[j].act

(* One more rule, which no rule of the list contradicts, is merged in.     *)
LEMMA MergeStep ==
    ASSUME NEW s \in Seq(Rule), NEW r \in Rule, NEW list \in Seq(Rule), NEW p,
           ~Contradictory(Append(s, r)), From(list, s), Said(list, p) = Said(s, p)
    PROVE  /\ From(MergeRule(list, r), Append(s, r))
           /\ Said(MergeRule(list, r), p) = Said(Append(s, r), p)
<1> DEFINE q == Append(s, r)
           n == Len(s)
           old == {i \in DOMAIN list : SameTuple(list[i], r)}
           new == MergeRule(list, r)
<1>1. /\ DOMAIN q = DOMAIN s \cup {n + 1} /\ q[n + 1] = r
      /\ \A i \in DOMAIN s : q[i] = s[i]
  BY AppendDomain
<1>2. Said(q, p) = IF Said(s, p) # "none" THEN Said(s, p)
                   ELSE IF r.dir = p.dir /\ Matches(r, p) THEN r.act ELSE "none"
  BY SaidAppend
<1>3. \A i, j \in DOMAIN q : SameTuple(q[i], q[j]) => q[i].act = q[j].act
  BY DEF Contradictory
<1>4. SameTuple(r, r)
  BY DEF SameTuple
<1>5. ASSUME NEW x, NEW i \in DOMAIN s, SameTuple(x, s[i]), x.act = s[i].act
      PROVE  \E j \in DOMAIN q : SameTuple(x, q[j]) /\ x.act = q[j].act
  BY <1>1, <1>5
<1>6. CASE old = {}
  <2>1. new = Append(list, r)
    BY <1>6 DEF MergeRule
  <2>2. /\ DOMAIN new = DOMAIN list \cup {Len(list) + 1} /\ new[Len(list) + 1] = r
        /\ \A i \in DOMAIN list : new[i] = list[i]
    BY <2>1, AppendDomain
  <2>3. Said(new, p) = Said(q, p)
    <3>1. Said(new, p) = IF Said(list, p) # "none" THEN Said(list, p)
                   ELSE IF r.dir = p.dir /\ Matches(r, p) THEN r.act ELSE "none"
      BY <2>1, SaidAppend
    <3> HIDE DEF new, q
    <3> QED BY <1>2, <3>1
  <2>4. ASSUME NEW i \in DOMAIN new
        PROVE  \E j \in DOMAIN q : SameTuple(new[i], q[j]) /\ new[i].act = q[j].act
    <3> HIDE DEF new, q
    <3>1. CASE i = Len(list) + 1
      BY <1>1, <1>4, <2>2, <3>1
    <3>2. CASE i \in DOMAIN list
      <4>1. PICK j \in DOMAIN s : SameTuple(list[i], s[j]) /\ list[i].act = s[j].act
        BY <3>2 DEF From
      <4> QED BY <1>5, <2>2, <3>2, <4>1
    <3> QED BY <2>2, <3>1, <3>2
  <2> QED BY <2>3, <2>4 DEF From
<1>7. CASE old # {}
  <2>1. PICK m : m = Min(old)
    OBVIOUS
  <2>2. m \in DOMAIN list /\ SameTuple(list[m], r)
    <3>1. old \subseteq Nat
      OBVIOUS
    <3>2. Min(old) \in old
      <4> HIDE DEF old
      <4> QED BY <1>7, <3>1, Least
    <3> QED BY <2>1, <3>2
  <2>3. new = [list EXCEPT ![m] = r]
    BY <1>7, <2>1 DEF MergeRule
  <2>4. PICK j \in DOMAIN s : SameTuple(list[m], s[j]) /\ list[m].act = s[j].act
    BY <2>2 DEF From
  <2>5. SameTuple(s[j], r)
    BY <2>2, <2>4 DEF SameTuple
  <2>6. list[m].act = r.act
    <3>1. SameTuple(q[j], q[n + 1]) /\ j \in DOMAIN q /\ n + 1 \in DOMAIN q
      BY <1>1, <2>5
    <3>2. q[j].act = q[n + 1].act
      <4> HIDE DEF q
      <4> QED BY <1>3, <3>1
    <3> QED BY <1>1, <2>4, <3>2
  <2>7. Said(new, p) = Said(list, p)
    <3>1. Said([list EXCEPT ![m] = r], p) = Said(list, p)
      BY <2>2, <2>6, SaidReplaced
    <3> QED BY ONLY <2>3, <3>1
  <2>8. Said(q, p) = Said(s, p)
    <3>1. SUFFICES ASSUME r.dir = p.dir, Matches(r, p) PROVE Said(list, p) # "none"
      <4> HIDE DEF q
      <4> QED BY <1>2
    <3>2. list[m].dir = p.dir /\ Matches(list[m], p)
      <4>1. list[m] \in Rule
        BY <2>2
      <4> QED BY <2>2, <3>1, <4>1, TupleMatches
    <3> QED BY <2>2, <3>2, SaidNone
  <2>9. /\ DOMAIN new = DOMAIN list /\ new[m] = r
        /\ \A i \in DOMAIN list : i # m => new[i] = list[i]
    BY <2>2, <2>3
  <2>10. ASSUME NEW i \in DOMAIN new
         PROVE  \E k \in DOMAIN q : SameTuple(new[i], q[k]) /\ new[i].act = q[k].act
    <3> HIDE DEF new, q
    <3>1. CASE i = m
      BY <1>1, <1>4, <2>9, <3>1
    <3>2. CASE i # m
      <4>1. PICK k \in DOMAIN s : SameTuple(list[i], s[k]) /\ list[i].act = s[k].act
        BY <2>9 DEF From
      <4> QED BY <1>5, <2>9, <3>2, <4>1
    <3> QED BY <3>1, <3>2
  <2> HIDE DEF new, q
  <2>11. From(new, q)
    BY <2>10 DEF From
  <2> QED BY <2>7, <2>8, <2>11 DEF new, q
<1> QED BY <1>6, <1>7

(* A list that does not contradict itself decides the same merged: of      *)
(* rules with one tuple the last is kept, in the first one's place.        *)
LEMMA MergedSaid ==
    ASSUME NEW src \in Seq(Rule), ~Contradictory(src), NEW p
    PROVE  Said(mergeRules(<<>>, src), p) = Said(src, p)
<1> DEFINE M(s) == mergeRules(<<>>, s)
           Good(s) == ~Contradictory(s) => From(M(s), s) /\ Said(M(s), p) = Said(s, p)
           T == {s \in Seq(Rule) : Good(s)}
<1>0. <<>> \in Seq(Rule)
  OBVIOUS
<1>1. <<>> \in T
  <2>1. M(<<>>) = <<>>
    BY <1>0, MergedFold DEF MergedRight
  <2>2. From(<<>>, <<>>)
    BY DEF From
  <2> HIDE DEF M
  <2> QED BY <1>0, <2>1, <2>2
<1>2. ASSUME NEW s \in Seq(Rule), NEW r \in Rule, s \in T PROVE Append(s, r) \in T
  <2>1. M(s) \in Seq(Rule) /\ M(Append(s, r)) = MergeRule(M(s), r)
    BY <1>0, MergedFold DEF MergedRight
  <2> HIDE DEF M
  <2>2. Append(s, r) \in Seq(Rule)
    OBVIOUS
  <2>3. ASSUME ~Contradictory(Append(s, r)) PROVE ~Contradictory(s)
    <3>1. /\ DOMAIN s \subseteq DOMAIN Append(s, r)
          /\ \A i \in DOMAIN s : Append(s, r)[i] = s[i]
      BY AppendDomain
    <3>2. \A i, j \in DOMAIN Append(s, r) :
             SameTuple(Append(s, r)[i], Append(s, r)[j])
             => Append(s, r)[i].act = Append(s, r)[j].act
      BY <2>3 DEF Contradictory
    <3>3. ASSUME NEW i \in DOMAIN s, NEW j \in DOMAIN s, SameTuple(s[i], s[j])
          PROVE  s[i].act = s[j].act
      <4> DEFINE q == Append(s, r)
      <4>1. i \in DOMAIN q /\ j \in DOMAIN q /\ q[i] = s[i] /\ q[j] = s[j]
        BY <3>1
      <4> HIDE DEF q
      <4> QED BY <3>2, <3>3, <4>1 DEF q
    <3> QED BY <3>3 DEF Contradictory
  <2>4. ASSUME ~Contradictory(Append(s, r))
        PROVE  From(M(Append(s, r)), Append(s, r)) /\ Said(M(Append(s, r)), p) = Said(Append(s, r), p)
    <3>1. From(M(s), s) /\ Said(M(s), p) = Said(s, p)
      BY <1>2, <2>3, <2>4
    <3>2. /\ From(MergeRule(M(s), r), Append(s, r))
          /\ Said(MergeRule(M(s), r), p) = Said(Append(s, r), p)
      BY <2>1, <2>4, <3>1, MergeStep
    <3> QED BY <2>1, <3>2
  <2> QED BY <2>2, <2>4
<1>3. Seq(Rule) \subseteq T
  <2> HIDE DEF T
  <2> QED BY <1>1, <1>2, ListInduction
<1> QED BY <1>3

(* A catch-all rule decides what the rules of its direction do not.        *)
LEMMA CatchallSaid ==
    ASSUME NEW list \in Seq(Rule), NEW dir \in Dir, NEW act \in Verdict
    PROVE  LET new == iptAppendPolicyCatchall(list, dir, act)
           IN  /\ new \in Seq(Rule)
               /\ \A p \in Packet : Said(new, p) =
                     IF Said(list, p) = "none" /\ p.dir = dir THEN act ELSE Said(list, p)
<1> DEFINE c == [dir |-> dir, iface |-> "any", src |-> Addr, bySet |-> FALSE,
                 services |-> Service, act |-> act, policy |-> TRUE]
           own == {i \in DOMAIN list : list[i].dir = dir}
           new == iptAppendPolicyCatchall(list, dir, act)
<1>1. c \in Rule
  BY DEF Rule
<1>2. ASSUME NEW p \in Packet PROVE Matches(c, p)
  BY DEF Matches, Packet
<1>3. c.dir = dir /\ c.act = act
  OBVIOUS
<1>4. new = IF own # {} /\ list[Max(own)] = c THEN list ELSE Append(list, c)
  BY DEF iptAppendPolicyCatchall
<1> HIDE DEF c, new
<1>5. CASE own # {} /\ list[Max(own)] = c
  <2>1. own \subseteq 1 .. Len(list) /\ Len(list) \in Nat /\ own # {}
    BY <1>5
  <2>2. Max(own) \in own
    <3> HIDE DEF own
    <3> QED BY <2>1, Greatest
  <2>3. PICK m \in DOMAIN list : list[m] = c
    BY <1>5, <2>2
  <2>4. ASSUME NEW p \in Packet, p.dir = dir PROVE Said(list, p) # "none"
    BY <1>2, <1>3, <2>3, <2>4, SaidNone
  <2> QED BY <1>4, <1>5, <2>4 DEF new
<1>6. CASE ~(own # {} /\ list[Max(own)] = c)
  <2>1. new = Append(list, c)
    BY <1>4, <1>6
  <2>2. ASSUME NEW p \in Packet
        PROVE  Said(new, p) = IF Said(list, p) = "none" /\ p.dir = dir THEN act ELSE Said(list, p)
    <3>1. Said(new, p) = IF Said(list, p) # "none" THEN Said(list, p)
                         ELSE IF c.dir = p.dir /\ Matches(c, p) THEN c.act ELSE "none"
      BY <1>1, <2>1, SaidAppend
    <3> QED BY <1>2, <1>3, <3>1
  <2>3. new \in Seq(Rule)
    BY <1>1, <2>1
  <2> QED BY <2>2, <2>3 DEF new
<1> QED BY <1>5, <1>6

(* A chain's policy, or bfw's own, is a verdict.                           *)
LEMMA EffectiveTyping ==
    ASSUME NEW dump, dump = NoDump \/ dump \in iptSaveFile, NEW chain \in Builtin,
           NEW old \in Verdict
    PROVE  effective(dump, chain, old) \in Verdict
<1>1. CASE Declares(dump, chain)
  <2>1. dump.policy[chain] \in {"ACCEPT", "DROP", "REJECT"}
    BY <1>1 DEF Declares, iptSaveFile
  <2> QED BY <1>1, <2>1 DEF effective, Verdicts, Verdict
<1>2. CASE ~Declares(dump, chain)
  BY <1>2 DEF effective
<1> QED BY <1>1, <1>2

(* What mergePolicy does to a family that is on.                           *)
LEMMA PolicyMerged ==
    ASSUME NEW st \in State, NEW dumps \in [Family -> iptSaveFile \cup {NoDump}],
           NEW chain \in Builtin
    PROVE  LET new == mergePolicy(st, dumps, chain)
               dir == iptBuiltinDir[chain]
           IN  /\ new \in State /\ new.ipv6 = st.ipv6
               /\ \A f \in Family : (f = "v6" => st.ipv6) => \A p \in Packet : p.family = f =>
                     /\ p.dir # dir => /\ Said(new.rules[f], p) = Said(st.rules[f], p)
                                       /\ new.policies[p.dir] = st.policies[p.dir]
                     /\ p.dir = dir =>
                           /\ Ruled(new, p) =
                                 IF Said(st.rules[f], p) = "none"
                                 THEN effective(dumps[f], chain, st.policies[dir])
                                 ELSE Said(st.rules[f], p)
                           /\ Said(new.rules[f], p) \in {Ruled(new, p), Said(st.rules[f], p)}
<1> DEFINE dir == iptBuiltinDir[chain]
           eff == [f \in Family |-> effective(dumps[f], chain, st.policies[dir])]
           strictest == IF st.ipv6 /\ iptPolicyRank[eff["v6"]] > iptPolicyRank[eff["v4"]]
                        THEN eff["v6"] ELSE eff["v4"]
           lax(f) == eff[f] # strictest /\ (f = "v6" => st.ipv6)
           new == mergePolicy(st, dumps, chain)
<1>1. dir \in Dir
  BY DEF Builtin, iptBuiltinDir, Dir
<1>2. /\ st.rules \in [Family -> Seq(Rule)] /\ st.policies \in [Dir -> Verdict]
      /\ st.ipv6 \in BOOLEAN
  BY DEF State
<1>3. eff \in [Family -> Verdict]
  <2>1. ASSUME NEW f \in Family PROVE effective(dumps[f], chain, st.policies[dir]) \in Verdict
    <3>1. dumps[f] = NoDump \/ dumps[f] \in iptSaveFile
      OBVIOUS
    <3>2. st.policies[dir] \in Verdict
      BY <1>1, <1>2
    <3> QED BY <3>1, <3>2, EffectiveTyping
  <2> QED BY <2>1
<1>4. \A f \in Family : eff[f] = effective(dumps[f], chain, st.policies[dir])
  OBVIOUS
<1>5. new = [st EXCEPT !.policies[dir] = strictest,
                       !.rules = [f \in Family |->
                          IF lax(f) THEN iptAppendPolicyCatchall(@[f], dir, eff[f]) ELSE @[f]]]
  BY Zenon DEF mergePolicy
<1> HIDE DEF eff, new, dir
<1>6. strictest \in Verdict
  BY <1>3 DEF Family
<1> HIDE DEF strictest, lax
<1>7. ASSUME NEW f \in Family
      PROVE  /\ iptAppendPolicyCatchall(st.rules[f], dir, eff[f]) \in Seq(Rule)
             /\ \A p \in Packet : Said(iptAppendPolicyCatchall(st.rules[f], dir, eff[f]), p) =
                   IF Said(st.rules[f], p) = "none" /\ p.dir = dir THEN eff[f]
                   ELSE Said(st.rules[f], p)
  <2>1. st.rules[f] \in Seq(Rule) /\ eff[f] \in Verdict
    BY <1>2, <1>3
  <2> QED BY <1>1, <2>1, CatchallSaid
<1>8. /\ new.ipv6 = st.ipv6
      /\ new.policies = [st.policies EXCEPT ![dir] = strictest]
      /\ new.rules = [f \in Family |->
             IF lax(f) THEN iptAppendPolicyCatchall(st.rules[f], dir, eff[f]) ELSE st.rules[f]]
  BY <1>5 DEF State
<1>9. new \in State
  <2>1. new = [rules |-> new.rules, policies |-> new.policies, ipv6 |-> new.ipv6]
    BY <1>5 DEF State
  <2>2. new.rules \in [Family -> Seq(Rule)]
    BY <1>2, <1>7, <1>8
  <2>3. new.policies \in [Dir -> Verdict]
    BY <1>1, <1>2, <1>6, <1>8
  <2> QED BY <1>2, <1>8, <2>1, <2>2, <2>3 DEF State
<1>10. ASSUME NEW f \in Family, f = "v6" => st.ipv6, NEW p \in Packet, p.family = f
       PROVE  /\ p.dir # dir => /\ Said(new.rules[f], p) = Said(st.rules[f], p)
                                /\ new.policies[p.dir] = st.policies[p.dir]
              /\ p.dir = dir =>
                    /\ Ruled(new, p) = IF Said(st.rules[f], p) = "none" THEN eff[f]
                                       ELSE Said(st.rules[f], p)
                    /\ Said(new.rules[f], p) \in {Ruled(new, p), Said(st.rules[f], p)}
  <2>1. new.rules[f] = IF lax(f) THEN iptAppendPolicyCatchall(st.rules[f], dir, eff[f])
                       ELSE st.rules[f]
    BY <1>8
  <2>2. p.dir \in Dir
    BY DEF Packet
  <2>3. ASSUME p.dir # dir
        PROVE  /\ Said(new.rules[f], p) = Said(st.rules[f], p)
               /\ new.policies[p.dir] = st.policies[p.dir]
    BY <1>2, <1>7, <1>8, <2>1, <2>2, <2>3
  <2>4. ASSUME p.dir = dir
        PROVE  /\ Ruled(new, p) = IF Said(st.rules[f], p) = "none" THEN eff[f]
                                  ELSE Said(st.rules[f], p)
               /\ Said(new.rules[f], p) \in {Ruled(new, p), Said(st.rules[f], p)}
    <3>1. new.policies[dir] = strictest
      BY <1>1, <1>2, <1>8
    <3>2. new.rules[p.family] \in Seq(Rule)
      BY <1>9, <1>10 DEF State
    <3>3. Ruled(new, p) = IF Said(new.rules[f], p) = "none" THEN strictest
                           ELSE Said(new.rules[f], p)
      BY <1>10, <2>4, <3>1, <3>2, RuledSaid
    <3>4. eff[f] # "none"
      BY <1>3 DEF Verdict
    <3>5. ~lax(f) => eff[f] = strictest
      BY <1>10 DEF lax
    <3> QED BY <1>7, <2>1, <2>4, <3>3, <3>4, <3>5
  <2> QED BY <2>3, <2>4
<1> QED BY <1>4, <1>8, <1>9, <1>10 DEF new, dir

(* What iptParseSave returns.                                              *)
ReadChains == [chains : [Chains -> Seq(RuleSpec)], error : BOOLEAN]

(* A line inserted leaves a list of lines.                                 *)
LEMMA InsertTyping ==
    ASSUME NEW s \in Seq(RuleSpec), NEW i \in 1 .. Len(s) + 1, NEW e \in RuleSpec
    PROVE  InsertAt(s, i, e) \in Seq(RuleSpec)
<1>1. SubSeq(s, 1, i - 1) \in Seq(RuleSpec)
  OBVIOUS
<1>2. SubSeq(s, i, Len(s)) \in Seq(RuleSpec)
  OBVIOUS
<1>3. <<e>> \in Seq(RuleSpec)
  OBVIOUS
<1> QED BY <1>1, <1>2, <1>3 DEF InsertAt

(* So does a line of the dump.                                             *)
LEMMA PutTyping ==
    ASSUME NEW read \in ReadChains, NEW l \in Line
    PROVE  PutLine(read, l) \in ReadChains
<1> DEFINE specs == read.chains[l.chain]
<1>1. /\ l.chain \in Chains /\ l.at \in Nat /\ l.spec \in RuleSpec
  BY DEF Line
<1>2. specs \in Seq(RuleSpec) /\ Len(specs) \in Nat
  BY <1>1 DEF ReadChains
<1>3. CASE l.at > Len(specs) + 1
  BY <1>3 DEF PutLine, ReadChains
<1>4. CASE l.at <= Len(specs) + 1
  <2> DEFINE put == IF l.at = 0 THEN Append(specs, l.spec) ELSE InsertAt(specs, l.at, l.spec)
  <2>1. put \in Seq(RuleSpec)
    <3>1. CASE l.at = 0
      BY <1>1, <1>2, <3>1
    <3>2. CASE l.at # 0
      <4>1. l.at \in 1 .. Len(specs) + 1
        BY <1>1, <1>2, <1>4, <3>2
      <4>2. InsertAt(specs, l.at, l.spec) \in Seq(RuleSpec)
        <5> HIDE DEF specs
        <5> QED BY <1>1, <1>2, <4>1, InsertTyping
      <4> QED BY <3>2, <4>2
    <3> QED BY <3>1, <3>2
  <2>2. ~(l.at > Len(specs) + 1)
    BY <1>1, <1>2, <1>4
  <2>3. PutLine(read, l) = [read EXCEPT !.chains[l.chain] = put]
    BY <2>2, Zenon DEF PutLine
  <2> HIDE DEF put
  <2> QED BY <1>1, <2>1, <2>3 DEF ReadChains
<1> QED BY <1>1, <1>2, <1>3, <1>4

(* What it is to read a dump line by line.                                 *)
ParsedRight(l) ==
    /\ iptParseSave(<<>>) = [chains |-> [c \in Chains |-> <<>>], error |-> FALSE]
    /\ iptParseSave(l) \in ReadChains
    /\ \A r \in Line : iptParseSave(Append(l, r))
                 = PutLine(iptParseSave(l), r)

(* iptParseSave does.                                                      *)
LEMMA ParsedFold ==
    ASSUME NEW l \in Seq(Line)
    PROVE  ParsedRight(l)
<1> DEFINE A == ReadChains
           E == Line
           start == [chains |-> [c \in Chains |-> <<>>], error |-> FALSE]
           Op(a, x) == PutLine(a, x)
           G == [y \in A \X E |-> Op(y[1], y[2])]
           P == [s \in Seq(E) |-> iptParseSave(s)]
<1>1. G \in [A \X E -> A] /\ start \in A
  <2>1. \A a \in A, x \in E : Op(a, x) \in A
    BY PutTyping
  <2>2. start \in A
    BY DEF ReadChains
  <2> HIDE DEF A, Op, start
  <2> QED BY <2>1, <2>2
<1>2. Folds(P, E, A, start, G)
  <2> SUFFICES ASSUME NEW s \in Seq(E)
               PROVE  \E it : /\ P[s] = it[DOMAIN s]
                              /\ it[{}] = start
                              /\ \A t \in SUBSET DOMAIN s :
                                    t # {} /\ it[t \ {Max(t)}] \in A
                                    => it[t] = G[<<it[t \ {Max(t)}], s[Max(t)]>>]
    BY DEF Folds
  <2> DEFINE Rec(it) == it = [t \in SUBSET DOMAIN s |->
                                IF t = {} THEN start ELSE Op(it[t \ {Max(t)}], s[Max(t)])]
  <2>1. iptParseSave(s) = (CHOOSE it : Rec(it))[DOMAIN s]
    BY Zenon DEF iptParseSave, FoldLeft, MapThenFoldSet
  <2> HIDE DEF start
  <2>2. \A t \in SUBSET DOMAIN s : t # {} => Max(t) \in DOMAIN s /\ s[Max(t)] \in E
    BY MaxOfDomain
  <2>3. PICK g \in [SUBSET DOMAIN s -> A] : Recursion(g, start, G, s)
    <3> HIDE DEF G, A, E
    <3> QED BY <1>1, RecursionExists
  <2>4. Rec(g)
    <3> HIDE DEF Op
    <3> QED BY <2>2, <2>3, Zenon DEF Recursion
  <2> DEFINE it == CHOOSE it : Rec(it)
  <2>5. Rec(it)
    <3> HIDE DEF Rec
    <3> QED BY <2>4
  <2>6. P[s] = it[DOMAIN s]
    BY <2>1
  <2> HIDE DEF it, Op, A, E
  <2>7. it[{}] = start
    BY <2>5
  <2>8. ASSUME NEW t \in SUBSET DOMAIN s, t # {}, it[t \ {Max(t)}] \in A
        PROVE  it[t] = G[<<it[t \ {Max(t)}], s[Max(t)]>>]
    <3>1. it[t] = Op(it[t \ {Max(t)}], s[Max(t)])
      BY <2>5, <2>8
    <3>2. <<it[t \ {Max(t)}], s[Max(t)]>> \in A \X E
      BY <2>2, <2>8
    <3> QED BY <3>1, <3>2
  <2> QED BY <2>6, <2>7, <2>8
<1>3. /\ P[<<>>] = start
      /\ \A s \in Seq(E), x \in E : P[Append(s, x)] = G[<<P[s], x>>]
      /\ \A s \in Seq(E) : P[s] \in A
  <2> HIDE DEF G, P, A, E, start
  <2> QED BY <1>1, <1>2, ListFold
<1>4. <<>> \in Seq(E) /\ \A x \in E : Append(l, x) \in Seq(E)
  OBVIOUS
<1>5. \A s \in Seq(E) : iptParseSave(s) = P[s]
  OBVIOUS
<1>6. \A a \in A, x \in E : G[<<a, x>>] = PutLine(a, x)
  OBVIOUS
<1> HIDE DEF P, G, A, E
<1>7. iptParseSave(<<>>) = start
  BY <1>3, <1>4, <1>5
<1>8. iptParseSave(l) \in A
  BY <1>3, <1>5 DEF E
<1>9. ASSUME NEW x \in E
      PROVE  iptParseSave(Append(l, x))
             = PutLine(iptParseSave(l), x)
  <2>1. P[Append(l, x)] = G[<<P[l], x>>] /\ P[l] \in A
    BY <1>3 DEF E
  <2>2. G[<<P[l], x>>] = PutLine(P[l], x)
    BY <1>6, <2>1
  <2>3. iptParseSave(l) = P[l] /\ iptParseSave(Append(l, x)) = P[Append(l, x)]
    BY <1>4, <1>5 DEF E
  <2> QED BY ONLY <2>1, <2>2, <2>3
<1> QED BY <1>7, <1>8, <1>9 DEF ParsedRight, A, E

(* It returns chains of lines.                                             *)
LEMMA ParsedTyping ==
    ASSUME NEW lines \in Seq(Line)
    PROVE  iptParseSave(lines) \in ReadChains
BY ParsedFold DEF ParsedRight

(* What chainRules returns.                                                *)
Readings == [rules : Seq(Rule), truncated : BOOLEAN, error : BOOLEAN]

(* What the reader takes a line for.                                       *)
LEMMA SpecKinds ==
    ASSUME NEW chain, NEW s \in RuleSpec, NEW first \in BOOLEAN
    PROVE  LET kind == iptParseSpec(chain, s, first)
           IN  /\ kind \in {"error", "skip", "return", "rule"}
               /\ kind = "skip" => s.state = "established" \/ s.target = ""
               /\ kind = "return" => s.state = "any" /\ s.target = "RETURN" /\ ~Matched(s)
               /\ kind = "rule" => s.state = "any" /\ s.target \in {"ACCEPT", "DROP", "REJECT"}
BY DEF iptParseSpec, RuleSpec

(* The rule of a line is one.                                              *)
LEMMA RuleOfTyping ==
    ASSUME NEW chain \in Builtin, NEW s \in RuleSpec, s.target \in {"ACCEPT", "DROP", "REJECT"}
    PROVE  ruleOf(chain, s) \in Rule
<1>1. iptBuiltinDir[chain] \in Dir
  BY DEF Builtin, iptBuiltinDir, Dir
<1>2. Verdicts[s.target] \in Verdict
  BY DEF Verdicts, Verdict
<1>3. s.iface \in Iface \cup {"any"} /\ s.src \in SUBSET Addr /\ s.services \in SUBSET Service
  BY DEF RuleSpec
<1> QED BY <1>1, <1>2, <1>3 DEF ruleOf, Rule

(* One line of a chain: nothing follows an unconditional RETURN, and a     *)
(* line is refused, ends the chain, is left out or becomes a rule.         *)
LEMMA TakeCases ==
    ASSUME NEW chain \in Builtin, NEW a \in Readings, NEW s \in RuleSpec
    PROVE  LET new == TakeSpec(chain, a, s)
               kind == iptParseSpec(chain, s, a.rules = <<>>)
           IN  /\ new \in Readings
               /\ \/ a.truncated /\ new = a
                  \/ ~a.truncated /\ kind = "error" /\ new = [a EXCEPT !.error = TRUE]
                  \/ ~a.truncated /\ kind = "return" /\ new = [a EXCEPT !.truncated = TRUE]
                  \/ ~a.truncated /\ kind = "skip" /\ new = a
                  \/ ~a.truncated /\ kind = "rule"
                     /\ new = [a EXCEPT !.rules = Append(@, ruleOf(chain, s))]
                     /\ ruleOf(chain, s) \in Rule
<1> DEFINE first == (a.rules = <<>>)
           kind == iptParseSpec(chain, s, first)
           new == TakeSpec(chain, a, s)
<1>1. PICK t \in BOOLEAN : t = first
  OBVIOUS
<1>2. kind \in {"error", "skip", "return", "rule"}
      /\ (kind = "rule" => s.target \in {"ACCEPT", "DROP", "REJECT"})
  <2>1. LET k == iptParseSpec(chain, s, t)
        IN  k \in {"error", "skip", "return", "rule"} /\ (k = "rule" => s.target \in {"ACCEPT", "DROP", "REJECT"})
    BY SpecKinds
  <2> QED BY <1>1, <2>1
<1>3. new = IF a.truncated THEN a
        ELSE CASE kind = "error" -> [a EXCEPT !.error = TRUE]
               [] kind = "return" -> [a EXCEPT !.truncated = TRUE]
               [] kind = "skip" -> a
               [] kind = "rule" -> [a EXCEPT !.rules = Append(@, ruleOf(chain, s))]
  BY Zenon DEF TakeSpec
<1>4. kind = "rule" => ruleOf(chain, s) \in Rule
  BY <1>2, RuleOfTyping
<1> HIDE DEF kind, new
<1>5.    \/ a.truncated /\ new = a
         \/ ~a.truncated /\ kind = "error" /\ new = [a EXCEPT !.error = TRUE]
         \/ ~a.truncated /\ kind = "return" /\ new = [a EXCEPT !.truncated = TRUE]
         \/ ~a.truncated /\ kind = "skip" /\ new = a
         \/ ~a.truncated /\ kind = "rule" /\ new = [a EXCEPT !.rules = Append(@, ruleOf(chain, s))]
  BY <1>2, <1>3
<1>6. new \in Readings
  <2>1. ASSUME NEW r \in Rule PROVE [a EXCEPT !.rules = Append(@, r)] \in Readings
    BY DEF Readings
  <2>2. [a EXCEPT !.error = TRUE] \in Readings /\ [a EXCEPT !.truncated = TRUE] \in Readings
    BY DEF Readings
  <2>3. PICK r : r = ruleOf(chain, s)
    OBVIOUS
  <2> QED BY <1>4, <1>5, <2>1, <2>2, <2>3
<1> QED BY <1>4, <1>5, <1>6 DEF kind, new

(* What it is to read a chain line by line.                                *)
ChainRight(l, chain) ==
    /\ chainRules(chain, <<>>) = [rules |-> <<>>, truncated |-> FALSE, error |-> FALSE]
    /\ chainRules(chain, l) \in Readings
    /\ \A s \in RuleSpec : chainRules(chain, Append(l, s))
                 = TakeSpec(chain, chainRules(chain, l), s)

(* chainRules does.                                                        *)
LEMMA ChainFold ==
    ASSUME NEW chain \in Builtin, NEW l \in Seq(RuleSpec)
    PROVE  ChainRight(l, chain)
<1> DEFINE A == Readings
           E == RuleSpec
           start == [rules |-> <<>>, truncated |-> FALSE, error |-> FALSE]
           Op(a, x) == TakeSpec(chain, a, x)
           G == [y \in A \X E |-> Op(y[1], y[2])]
           P == [s \in Seq(E) |-> chainRules(chain, s)]
<1>1. G \in [A \X E -> A] /\ start \in A
  <2>1. \A a \in A, x \in E : Op(a, x) \in A
    BY TakeCases
  <2>2. start \in A
    BY DEF Readings
  <2> HIDE DEF A, Op, start
  <2> QED BY <2>1, <2>2
<1>2. Folds(P, E, A, start, G)
  <2> SUFFICES ASSUME NEW s \in Seq(E)
               PROVE  \E it : /\ P[s] = it[DOMAIN s]
                              /\ it[{}] = start
                              /\ \A t \in SUBSET DOMAIN s :
                                    t # {} /\ it[t \ {Max(t)}] \in A
                                    => it[t] = G[<<it[t \ {Max(t)}], s[Max(t)]>>]
    BY DEF Folds
  <2> DEFINE Rec(it) == it = [t \in SUBSET DOMAIN s |->
                                IF t = {} THEN start ELSE Op(it[t \ {Max(t)}], s[Max(t)])]
  <2>1. chainRules(chain, s) = (CHOOSE it : Rec(it))[DOMAIN s]
    BY Zenon DEF chainRules, FoldLeft, MapThenFoldSet
  <2> HIDE DEF start
  <2>2. \A t \in SUBSET DOMAIN s : t # {} => Max(t) \in DOMAIN s /\ s[Max(t)] \in E
    BY MaxOfDomain
  <2>3. PICK g \in [SUBSET DOMAIN s -> A] : Recursion(g, start, G, s)
    <3> HIDE DEF G, A, E
    <3> QED BY <1>1, RecursionExists
  <2>4. Rec(g)
    <3> HIDE DEF Op
    <3> QED BY <2>2, <2>3, Zenon DEF Recursion
  <2> DEFINE it == CHOOSE it : Rec(it)
  <2>5. Rec(it)
    <3> HIDE DEF Rec
    <3> QED BY <2>4
  <2>6. P[s] = it[DOMAIN s]
    BY <2>1
  <2> HIDE DEF it, Op, A, E
  <2>7. it[{}] = start
    BY <2>5
  <2>8. ASSUME NEW t \in SUBSET DOMAIN s, t # {}, it[t \ {Max(t)}] \in A
        PROVE  it[t] = G[<<it[t \ {Max(t)}], s[Max(t)]>>]
    <3>1. it[t] = Op(it[t \ {Max(t)}], s[Max(t)])
      BY <2>5, <2>8
    <3>2. <<it[t \ {Max(t)}], s[Max(t)]>> \in A \X E
      BY <2>2, <2>8
    <3> QED BY <3>1, <3>2
  <2> QED BY <2>6, <2>7, <2>8
<1>3. /\ P[<<>>] = start
      /\ \A s \in Seq(E), x \in E : P[Append(s, x)] = G[<<P[s], x>>]
      /\ \A s \in Seq(E) : P[s] \in A
  <2> HIDE DEF G, P, A, E, start
  <2> QED BY <1>1, <1>2, ListFold
<1>4. <<>> \in Seq(E) /\ \A x \in E : Append(l, x) \in Seq(E)
  OBVIOUS
<1>5. \A s \in Seq(E) : chainRules(chain, s) = P[s]
  OBVIOUS
<1>6. \A a \in A, x \in E : G[<<a, x>>] = TakeSpec(chain, a, x)
  OBVIOUS
<1> HIDE DEF P, G, A, E
<1>7. chainRules(chain, <<>>) = start
  BY <1>3, <1>4, <1>5
<1>8. chainRules(chain, l) \in A
  BY <1>3, <1>5 DEF E
<1>9. ASSUME NEW x \in E
      PROVE  chainRules(chain, Append(l, x))
             = TakeSpec(chain, chainRules(chain, l), x)
  <2>1. P[Append(l, x)] = G[<<P[l], x>>] /\ P[l] \in A
    BY <1>3 DEF E
  <2>2. G[<<P[l], x>>] = TakeSpec(chain, P[l], x)
    BY <1>6, <2>1
  <2>3. chainRules(chain, l) = P[l] /\ chainRules(chain, Append(l, x)) = P[Append(l, x)]
    BY <1>4, <1>5 DEF E
  <2> QED BY ONLY <2>1, <2>2, <2>3
<1> QED BY <1>7, <1>8, <1>9 DEF ChainRight, A, E

(* A packet meets a line that decides.                                     *)
Meets(s, p) == /\ s.state # "established"
               /\ s.target \in DOMAIN Verdicts \cup {"RETURN"}
               /\ Matches(s, p)

(* A line at the end of a chain decides what no line before it does.       *)
LEMMA StatedAppend ==
    ASSUME NEW specs \in Seq(RuleSpec), NEW s \in RuleSpec, NEW p
    PROVE  LET new == Append(specs, s)
           IN  /\ Deciding(specs, p) # {} => /\ Deciding(new, p) # {}
                                             /\ Stated(new, p) = Stated(specs, p)
               /\ Deciding(specs, p) = {} /\ Meets(s, p) =>
                     /\ Deciding(new, p) # {}
                     /\ Stated(new, p) = IF s.target = "RETURN" THEN "none" ELSE Verdicts[s.target]
               /\ Deciding(specs, p) = {} /\ ~Meets(s, p) =>
                     Deciding(new, p) = {} /\ Stated(new, p) = "none"
<1> DEFINE new == Append(specs, s)
           n == Len(specs)
           H == Deciding(specs, p)
           K == Deciding(new, p)
<1>1. /\ DOMAIN new = DOMAIN specs \cup {n + 1}
      /\ \A i \in DOMAIN specs : new[i] = specs[i]
      /\ new[n + 1] = s
      /\ DOMAIN specs = 1 .. n /\ n \in Nat
  BY AppendDomain
<1>2. H \subseteq 1 .. n
  BY <1>1 DEF Deciding
<1>3. \A i : i \in K <=> i \in H \/ (i = n + 1 /\ Meets(s, p))
  <2> HIDE DEF n, new
  <2> QED BY <1>1, Zenon DEF Deciding, Meets
<1>4. Stated(specs, p) = IF H = {} \/ specs[Min(H)].target = "RETURN" THEN "none"
                         ELSE Verdicts[specs[Min(H)].target]
  BY DEF Stated
<1>5. Stated(new, p) = IF K = {} \/ new[Min(K)].target = "RETURN" THEN "none"
                       ELSE Verdicts[new[Min(K)].target]
  BY DEF Stated
<1> HIDE DEF new, n, H, K
<1>6. CASE H # {}
  <2>1. Min(H \cup {n + 1}) = Min(H) /\ Min(H) \in H
    BY <1>1, <1>2, <1>6, MinKept
  <2>2. K = H \/ K = H \cup {n + 1}
    BY <1>3
  <2>3. Min(K) = Min(H) /\ K # {} /\ Min(H) \in DOMAIN specs
    BY <1>1, <1>2, <1>6, <2>1, <2>2
  <2>4. new[Min(K)] = specs[Min(H)]
    BY <1>1, <2>3
  <2> QED BY <1>4, <1>5, <1>6, <2>3, <2>4 DEF new, H, K
<1>7. CASE H = {} /\ Meets(s, p)
  <2>1. K = {n + 1}
    BY <1>3, <1>7
  <2>2. Min(K) = n + 1
    BY <1>1, <2>1, MinOne
  <2>3. new[Min(K)] = s /\ K # {}
    BY <1>1, <2>1, <2>2
  <2> QED BY <1>5, <1>7, <2>3 DEF new, H, K
<1>8. CASE H = {} /\ ~Meets(s, p)
  <2>1. K = {}
    BY <1>3, <1>8
  <2> QED BY <1>5, <1>8, <2>1 DEF new, H, K
<1> QED BY <1>6, <1>7, <1>8 DEF new, H, K

(* What the reader has taken of a chain decides as its lines do.           *)
ReadRight(a, specs, chain) ==
    ~a.error =>
       /\ \A i \in DOMAIN a.rules : a.rules[i].dir = iptBuiltinDir[chain]
       /\ \A p \in Packet : p.dir = iptBuiltinDir[chain] =>
            /\ Said(a.rules, p) = Stated(specs, p)
            /\ Stated(specs, p) = "none" => (a.truncated <=> Deciding(specs, p) # {})
            /\ a.truncated => Deciding(specs, p) # {}

(* One more line keeps that.                                               *)
LEMMA ReadStep ==
    ASSUME NEW chain \in Builtin, NEW a \in Readings, NEW specs \in Seq(RuleSpec),
           NEW s \in RuleSpec, ReadRight(a, specs, chain)
    PROVE  ReadRight(TakeSpec(chain, a, s), Append(specs, s), chain)
<1> DEFINE new == TakeSpec(chain, a, s)
           q == Append(specs, s)
           dir == iptBuiltinDir[chain]
           kind == iptParseSpec(chain, s, a.rules = <<>>)
<1>1. /\ new \in Readings
      /\ \/ a.truncated /\ new = a
         \/ ~a.truncated /\ kind = "error" /\ new = [a EXCEPT !.error = TRUE]
         \/ ~a.truncated /\ kind = "return" /\ new = [a EXCEPT !.truncated = TRUE]
         \/ ~a.truncated /\ kind = "skip" /\ new = a
         \/ ~a.truncated /\ kind = "rule"
            /\ new = [a EXCEPT !.rules = Append(@, ruleOf(chain, s))]
            /\ ruleOf(chain, s) \in Rule
  BY TakeCases
<1>2. /\ kind = "skip" => s.state = "established" \/ s.target = ""
      /\ kind = "return" => s.state = "any" /\ s.target = "RETURN" /\ ~Matched(s)
      /\ kind = "rule" => s.state = "any" /\ s.target \in {"ACCEPT", "DROP", "REJECT"}
  <2>1. PICK t \in BOOLEAN : t = (a.rules = <<>>)
    OBVIOUS
  <2>2. LET k == iptParseSpec(chain, s, t)
        IN  /\ k = "skip" => s.state = "established" \/ s.target = ""
            /\ k = "return" => s.state = "any" /\ s.target = "RETURN" /\ ~Matched(s)
            /\ k = "rule" => s.state = "any" /\ s.target \in {"ACCEPT", "DROP", "REJECT"}
    BY SpecKinds
  <2> QED BY <2>1, <2>2
<1> HIDE DEF new, q, dir, kind
<1>3. SUFFICES ASSUME ~new.error PROVE
         /\ \A i \in DOMAIN new.rules : new.rules[i].dir = dir
         /\ \A p \in Packet : p.dir = dir =>
               /\ Said(new.rules, p) = Stated(q, p)
               /\ Stated(q, p) = "none" => (new.truncated <=> Deciding(q, p) # {})
               /\ new.truncated => Deciding(q, p) # {}
  BY DEF ReadRight, new, q, dir
<1>4. a.error = FALSE /\ (kind # "error" \/ a.truncated)
  BY <1>1, <1>3 DEF Readings
<1>5. /\ \A i \in DOMAIN a.rules : a.rules[i].dir = dir
      /\ \A p \in Packet : p.dir = dir =>
            /\ Said(a.rules, p) = Stated(specs, p)
            /\ Stated(specs, p) = "none" => (a.truncated <=> Deciding(specs, p) # {})
            /\ a.truncated => Deciding(specs, p) # {}
  BY <1>4 DEF ReadRight, dir
<1>6. ASSUME NEW p \in Packet
      PROVE  /\ Deciding(specs, p) # {} => Deciding(q, p) # {} /\ Stated(q, p) = Stated(specs, p)
             /\ Deciding(specs, p) = {} /\ Meets(s, p) =>
                     /\ Deciding(q, p) # {}
                     /\ Stated(q, p) = IF s.target = "RETURN" THEN "none" ELSE Verdicts[s.target]
             /\ Deciding(specs, p) = {} /\ ~Meets(s, p) =>
                     Deciding(q, p) = {} /\ Stated(q, p) = "none"
  BY StatedAppend DEF q
<1>7. ASSUME NEW p, Deciding(specs, p) = {} PROVE Stated(specs, p) = "none"
  BY <1>7 DEF Stated
<1>8. CASE a.truncated
  <2>1. new = a
    BY <1>1, <1>8
  <2> QED BY <1>5, <1>6, <1>8, <2>1
<1>9. CASE ~a.truncated /\ kind = "return"
  <2>1. new.rules = a.rules
    BY <1>1, <1>9 DEF Readings
  <2>2. ASSUME NEW p \in Packet PROVE Meets(s, p)
    BY <1>2, <1>9, <2>2 DEF Meets, Matches, Matched, Packet
  <2>3. new.truncated
    BY <1>1, <1>9 DEF Readings
  <2>4. ASSUME NEW p \in Packet
        PROVE  Deciding(q, p) # {} /\ Stated(q, p) = Stated(specs, p)
    <3>1. s.target = "RETURN"
      BY <1>2, <1>9
    <3> QED BY <1>6, <1>7, <2>2, <3>1
  <2> QED BY <1>5, <2>1, <2>3, <2>4
<1>10. CASE ~a.truncated /\ kind = "skip"
  <2>1. new = a
    BY <1>1, <1>10
  <2>2. "" \notin DOMAIN Verdicts \cup {"RETURN"}
    BY DEF Verdicts
  <2>3. ASSUME NEW p PROVE ~Meets(s, p)
    BY <1>2, <1>10, <2>2 DEF Meets
  <2> QED BY <1>5, <1>6, <1>7, <1>10, <2>1, <2>3
<1>11. CASE ~a.truncated /\ kind = "rule"
  <2> DEFINE r == ruleOf(chain, s)
  <2>1. /\ new.rules = Append(a.rules, r) /\ r \in Rule /\ new.truncated = FALSE
        /\ a.rules \in Seq(Rule)
    BY <1>1, <1>11 DEF Readings
  <2>2. r.dir = dir /\ r.act = Verdicts[s.target] /\ r.act # "none"
    BY <1>2, <1>11 DEF ruleOf, dir, Verdicts
  <2>3. ASSUME NEW p PROVE Meets(s, p) <=> Matches(r, p)
    BY <1>2, <1>11 DEF Meets, Matches, ruleOf, Verdicts
  <2>4. s.target # "RETURN"
    BY <1>2, <1>11
  <2> HIDE DEF r
  <2>5. ASSUME NEW p \in Packet, p.dir = dir PROVE Said(new.rules, p) = Stated(q, p)
    <3>1. Said(new.rules, p) =
              IF Said(a.rules, p) # "none" THEN Said(a.rules, p)
              ELSE IF r.dir = p.dir /\ Matches(r, p) THEN r.act ELSE "none"
      BY <2>1, SaidAppend
    <3>2. Said(a.rules, p) = Stated(specs, p)
      BY <1>5, <2>5
    <3>3. CASE Deciding(specs, p) = {}
      BY <1>6, <1>7, <2>2, <2>3, <2>4, <2>5, <3>1, <3>2, <3>3
    <3>4. CASE Deciding(specs, p) # {}
      <4>1. Stated(q, p) = Stated(specs, p)
        BY <1>6, <3>4
      <4>2. Stated(specs, p) # "none"
        BY <1>5, <1>11, <2>5, <3>4
      <4> QED BY <3>1, <3>2, <4>1, <4>2
    <3> QED BY <3>3, <3>4
  <2>7. ASSUME NEW p \in Packet, p.dir = dir, Stated(q, p) = "none" PROVE Deciding(q, p) = {}
    <3>1. CASE Deciding(specs, p) = {}
      BY <1>6, <2>2, <2>4, <2>7, <3>1
    <3>2. CASE Deciding(specs, p) # {}
      BY <1>5, <1>6, <1>11, <2>7, <3>2
    <3> QED BY <3>1, <3>2
  <2>6. ASSUME NEW i \in DOMAIN new.rules PROVE new.rules[i].dir = dir
    <3>1. /\ DOMAIN new.rules = DOMAIN a.rules \cup {Len(a.rules) + 1}
          /\ \A j \in DOMAIN a.rules : new.rules[j] = a.rules[j]
          /\ new.rules[Len(a.rules) + 1] = r
      BY <2>1, AppendDomain
    <3> QED BY <1>5, <2>2, <3>1
  <2> QED BY <2>1, <2>5, <2>6, <2>7
<1>12. a.truncated \/ kind \in {"return", "skip", "rule"}
  BY <1>1, <1>4
<1> QED BY <1>8, <1>9, <1>10, <1>11, <1>12

(* So the rules read of a chain decide as its lines do.                    *)
LEMMA ChainRead ==
    ASSUME NEW chain \in Builtin, NEW specs \in Seq(RuleSpec)
    PROVE  chainRules(chain, specs) \in Readings /\ ReadRight(chainRules(chain, specs), specs, chain)
<1> DEFINE T == {l \in Seq(RuleSpec) : ReadRight(chainRules(chain, l), l, chain)}
<1>0. <<>> \in Seq(RuleSpec)
  OBVIOUS
<1>1. <<>> \in T
  <2>1. chainRules(chain, <<>>) = [rules |-> <<>>, truncated |-> FALSE, error |-> FALSE]
    BY <1>0, ChainFold DEF ChainRight
  <2>2. ASSUME NEW p PROVE Said(<<>>, p) = "none" /\ Stated(<<>>, p) = "none" /\ Deciding(<<>>, p) = {}
    <3>1. Deciding(<<>>, p) = {}
      BY DEF Deciding
    <3> QED BY <3>1, SaidEmpty DEF Stated
  <2>3. ReadRight([rules |-> <<>>, truncated |-> FALSE, error |-> FALSE], <<>>, chain)
    BY <2>2 DEF ReadRight
  <2> QED BY <1>0, <2>1, <2>3
<1>2. ASSUME NEW l \in Seq(RuleSpec), NEW s \in RuleSpec, l \in T PROVE Append(l, s) \in T
  <2>1. /\ chainRules(chain, l) \in Readings
        /\ chainRules(chain, Append(l, s)) = TakeSpec(chain, chainRules(chain, l), s)
    BY ChainFold DEF ChainRight
  <2>2. ReadRight(TakeSpec(chain, chainRules(chain, l), s), Append(l, s), chain)
    BY <1>2, <2>1, ReadStep
  <2>3. Append(l, s) \in Seq(RuleSpec)
    OBVIOUS
  <2> QED BY <2>1, <2>2, <2>3
<1>3. Seq(RuleSpec) \subseteq T
  <2> HIDE DEF T
  <2> QED BY <1>1, <1>2, ListInduction
<1>4. chainRules(chain, specs) \in Readings
  BY ChainFold DEF ChainRight
<1> QED BY <1>3, <1>4

(* Rules of other directions have nothing to say.                          *)
LEMMA SaidElsewhere ==
    ASSUME NEW list \in Seq(Rule), NEW p, \A i \in DOMAIN list : list[i].dir # p.dir
    PROVE  Said(list, p) = "none"
<1>1. Hits(list, p) = {}
  BY DEF Hits
<1> QED BY <1>1 DEF Said

(* The chain of a direction's packets.                                     *)
(* There is one for each.                                                  *)
LEMMA ChainOf ==
    ASSUME NEW dir \in Dir
    PROVE  /\ chainOf(dir) \in Builtin /\ iptBuiltinDir[chainOf(dir)] = dir
           /\ dir = "in" => chainOf(dir) = "INPUT"
           /\ dir = "out" => chainOf(dir) = "OUTPUT"
           /\ dir = "routed" => chainOf(dir) = "FORWARD"
<1>1. \E c \in Builtin : iptBuiltinDir[c] = dir
  BY DEF Builtin, iptBuiltinDir, Dir
<1>2. chainOf(dir) \in Builtin /\ iptBuiltinDir[chainOf(dir)] = dir
  BY <1>1 DEF chainOf
<1> HIDE DEF chainOf
<1> QED BY <1>2 DEF Builtin, iptBuiltinDir, Dir

(* What is read of a dump: rules that decide as its lines do.              *)
LEMMA StreamRead ==
    ASSUME NEW dump \in iptSaveFile
    PROVE  LET read == iptImportStream(dump)
           IN  /\ read.rules \in Seq(Rule)
               /\ ~read.error /\ dump.filter => \A p \in Packet :
                     Said(read.rules, p)
                     = Stated(iptParseSave(dump.lines).chains[chainOf(p.dir)], p)
               /\ ~read.error /\ ~dump.filter => read.rules = <<>>
<1> DEFINE chains == iptParseSave(dump.lines).chains
           part == [c \in Builtin |-> chainRules(c, chains[c])]
           all == part["INPUT"].rules \o part["OUTPUT"].rules \o part["FORWARD"].rules
           error == \E c \in Builtin : part[c].error
           read == iptImportStream(dump)
<1>1. \A c \in Builtin : chains[c] \in Seq(RuleSpec)
  <2>1. iptParseSave(dump.lines) \in ReadChains
    BY ParsedTyping DEF iptSaveFile
  <2> QED BY <2>1 DEF ReadChains, Chains
<1>2. \A c \in Builtin : part[c] \in Readings /\ ReadRight(part[c], chains[c], c)
  <2>1. ASSUME NEW c \in Builtin PROVE part[c] \in Readings /\ ReadRight(part[c], chains[c], c)
    <3>1. part[c] = chainRules(c, chains[c])
      OBVIOUS
    <3> HIDE DEF part, chains
    <3> QED BY <1>1, <3>1, ChainRead
  <2> QED BY <2>1
<1>3. \/ read = [rules |-> <<>>, error |-> TRUE]
      \/ ~dump.filter /\ read = [rules |-> <<>>, error |-> FALSE]
      \/ dump.filter /\ read = [rules |-> all, error |-> error]
  BY Zenon DEF iptImportStream
<1> HIDE DEF part, chains, read
<1>4. /\ "INPUT" \in Builtin /\ "OUTPUT" \in Builtin /\ "FORWARD" \in Builtin
      /\ \A c \in Builtin : part[c].rules \in Seq(Rule)
  BY <1>2 DEF Builtin, Readings
<1>5. all \in Seq(Rule)
  BY <1>4
<1>6. ASSUME ~error, NEW p \in Packet PROVE Said(all, p) = Stated(chains[chainOf(p.dir)], p)
  <2>1. /\ part["INPUT"].rules \in Seq(Rule) /\ part["OUTPUT"].rules \in Seq(Rule)
        /\ part["FORWARD"].rules \in Seq(Rule)
        /\ part["INPUT"].rules \o part["OUTPUT"].rules \in Seq(Rule)
    BY <1>4
  <2>2. Said(all, p) =
          IF Said(part["INPUT"].rules, p) # "none" THEN Said(part["INPUT"].rules, p)
          ELSE IF Said(part["OUTPUT"].rules, p) # "none" THEN Said(part["OUTPUT"].rules, p)
          ELSE Said(part["FORWARD"].rules, p)
    <3>1. Said(part["INPUT"].rules \o part["OUTPUT"].rules, p) =
          IF Said(part["INPUT"].rules, p) # "none" THEN Said(part["INPUT"].rules, p)
          ELSE Said(part["OUTPUT"].rules, p)
      BY <2>1, SaidConcat
    <3>2. Said(all, p) =
          IF Said(part["INPUT"].rules \o part["OUTPUT"].rules, p) # "none"
          THEN Said(part["INPUT"].rules \o part["OUTPUT"].rules, p)
          ELSE Said(part["FORWARD"].rules, p)
      BY <2>1, SaidConcat
    <3> QED BY ONLY <3>1, <3>2
  <2>3. ASSUME NEW c \in Builtin
        PROVE  Said(part[c].rules, p) = IF iptBuiltinDir[c] = p.dir THEN Stated(chains[c], p) ELSE "none"
    <3>1. ReadRight(part[c], chains[c], c) /\ ~part[c].error /\ part[c].rules \in Seq(Rule)
      BY <1>2, <1>4, <1>6
    <3>2. CASE iptBuiltinDir[c] = p.dir
      BY <3>1, <3>2 DEF ReadRight
    <3>3. CASE iptBuiltinDir[c] # p.dir
      <4>1. \A i \in DOMAIN part[c].rules : part[c].rules[i].dir # p.dir
        BY <3>1, <3>3 DEF ReadRight
      <4> QED BY <3>1, <3>3, <4>1, SaidElsewhere
    <3> QED BY <3>2, <3>3
  <2>4. p.dir \in Dir
    BY DEF Packet
  <2>5. /\ iptBuiltinDir["INPUT"] = "in" /\ iptBuiltinDir["OUTPUT"] = "out"
        /\ iptBuiltinDir["FORWARD"] = "routed"
    BY DEF iptBuiltinDir
  <2>6. p.dir = "in" \/ p.dir = "out" \/ p.dir = "routed"
    BY <2>4 DEF Dir
  <2> HIDE DEF all, error
  <2>7. CASE p.dir = "in"
    BY <1>4, <2>2, <2>3, <2>4, <2>5, <2>7, ChainOf
  <2>8. CASE p.dir = "out"
    BY <1>4, <2>2, <2>3, <2>4, <2>5, <2>8, ChainOf
  <2>9. CASE p.dir = "routed"
    BY <1>4, <2>2, <2>3, <2>4, <2>5, <2>9, ChainOf
  <2> QED BY <2>6, <2>7, <2>8, <2>9
<1> HIDE DEF all, error
<1>7. <<>> \in Seq(Rule)
  OBVIOUS
<1>8. CASE read = [rules |-> <<>>, error |-> TRUE]
  BY <1>7, <1>8 DEF read
<1>9. CASE ~dump.filter /\ read = [rules |-> <<>>, error |-> FALSE]
  BY <1>7, <1>9 DEF read
<1>10. CASE dump.filter /\ read = [rules |-> all, error |-> error]
  <2>1. read.rules = all /\ read.error = error
    BY <1>10
  <2> QED BY <1>5, <1>6, <1>10, <2>1 DEF read, chains
<1> QED BY <1>3, <1>8, <1>9, <1>10

(* The dumps of an iptables configuration.                                 *)
Dumps == [Family -> iptSaveFile \cup {NoDump}]

(* The rules of a family once a dump's are merged in.                      *)
MergedRules(st, dumps, f) ==
    IF dumps[f] = NoDump THEN st.rules[f]
    ELSE mergeRules(st.rules[f], iptImportStream(dumps[f]).rules)

(* What an import decides where a family is on: by the merged rules, and   *)
(* where they say nothing by the dump's policy, or bfw's own.  The three   *)
(* calls of mergePolicy follow one another; none undoes another.           *)
LEMMA ImportDecides ==
    ASSUME NEW st \in State, NEW dumps \in Dumps, NoDump \notin iptSaveFile,
           NEW failed, ImportIPTables(dumps, st, failed) # failed
    PROVE  LET new == ImportIPTables(dumps, st, failed)
           IN  /\ new \in State
               /\ \A f \in Family : dumps[f] # NoDump => ~iptImportStream(dumps[f]).error
               /\ \A f \in Family : (f = "v6" => st.ipv6 \/ dumps[f] # NoDump) =>
                     /\ MergedRules(st, dumps, f) \in Seq(Rule)
                     /\ \A p \in Packet : p.family = f =>
                           /\ Ruled(new, p) =
                                 IF Said(MergedRules(st, dumps, f), p) = "none"
                                 THEN effective(dumps[f], chainOf(p.dir), st.policies[p.dir])
                                 ELSE Said(MergedRules(st, dumps, f), p)
                           /\ Said(new.rules[f], p)
                              \in {Ruled(new, p), Said(MergedRules(st, dumps, f), p)}
<1> DEFINE given == {f \in Family : dumps[f] # NoDump}
           read == [f \in given |-> iptImportStream(dumps[f])]
           empty(f) == /\ read[f].rules = <<>>
                       /\ \A c \in Builtin : ~Declares(dumps[f], c)
           rules == [st EXCEPT
                    !.rules = [f \in Family |->
                        IF f \in given THEN mergeRules(@[f], read[f].rules) ELSE @[f]],
                    !.ipv6 = @ \/ "v6" \in given]
           input == mergePolicy(rules, dumps, "INPUT")
           output == mergePolicy(input, dumps, "OUTPUT")
           new == mergePolicy(output, dumps, "FORWARD")
           bad == given = {} \/ (\E f \in given : read[f].error) \/ (\A f \in given : empty(f))
<1>1. ImportIPTables(dumps, st, failed) = IF bad THEN failed ELSE new
  BY Zenon DEF ImportIPTables
<1>2. ~bad /\ ImportIPTables(dumps, st, failed) = new
  <2> HIDE DEF bad, new
  <2> QED BY <1>1
<1>3. \A f \in given : ~read[f].error
  BY <1>2
<1>4. \A f \in given : read[f] = iptImportStream(dumps[f]) /\ dumps[f] \in iptSaveFile
  BY DEF Dumps
<1> HIDE DEF read, empty
<1>5. \A f \in given : iptImportStream(dumps[f]).rules \in Seq(Rule)
  BY <1>4, StreamRead
<1>6. /\ st.rules \in [Family -> Seq(Rule)] /\ st.policies \in [Dir -> Verdict]
      /\ st.ipv6 \in BOOLEAN /\ st = [rules |-> st.rules, policies |-> st.policies, ipv6 |-> st.ipv6]
  BY DEF State
<1>7. \A f \in Family : MergedRules(st, dumps, f) \in Seq(Rule)
  <2>1. ASSUME NEW f \in Family PROVE MergedRules(st, dumps, f) \in Seq(Rule)
    <3>1. st.rules[f] \in Seq(Rule)
      BY <1>6
    <3>2. CASE dumps[f] = NoDump
      BY <3>1, <3>2 DEF MergedRules
    <3>3. CASE dumps[f] # NoDump
      <4>1. mergeRules(st.rules[f], iptImportStream(dumps[f]).rules) \in Seq(Rule)
        BY <1>5, <3>1, <3>3, MergedFold DEF MergedRight
      <4> QED BY <3>3, <4>1 DEF MergedRules
    <3> QED BY <3>2, <3>3
  <2> QED BY <2>1
<1>8. /\ rules.policies = st.policies /\ rules.ipv6 = (st.ipv6 \/ "v6" \in given)
      /\ rules.rules = [f \in Family |->
             IF f \in given THEN mergeRules(st.rules[f], read[f].rules) ELSE st.rules[f]]
      /\ rules = [rules |-> rules.rules, policies |-> rules.policies, ipv6 |-> rules.ipv6]
  <2> DEFINE R == [f \in Family |->
                     IF f \in given THEN mergeRules(st.rules[f], read[f].rules) ELSE st.rules[f]]
             six == st.ipv6 \/ "v6" \in given
  <2>1. rules = [rules |-> R, policies |-> st.policies, ipv6 |-> six]
    <3>1. rules = [st EXCEPT !.rules = R, !.ipv6 = six]
      <4>1. st.rules = st["rules"]
        OBVIOUS
      <4> QED BY <1>6, <4>1
    <3> HIDE DEF rules, R, six
    <3> QED BY <3>1 DEF State
  <2> HIDE DEF R, six, rules
  <2>2. rules.rules = R /\ rules.policies = st.policies /\ rules.ipv6 = six
    BY <2>1
  <2> QED BY <2>1, <2>2 DEF R, six
<1>9. \A f \in Family : rules.rules[f] = MergedRules(st, dumps, f)
  <2> HIDE DEF rules
  <2> QED BY <1>4, <1>8 DEF MergedRules
<1> HIDE DEF rules
<1>10. rules \in State
  <2>1. rules.rules \in [Family -> Seq(Rule)]
    <3>1. \A f \in Family : rules.rules[f] \in Seq(Rule)
      BY <1>7, <1>9
    <3>2. rules.rules = [f \in Family |-> rules.rules[f]]
      BY <1>8
    <3> QED BY <3>1, <3>2
  <2>2. rules.ipv6 \in BOOLEAN
    BY <1>6, <1>8
  <2> QED BY <1>6, <1>8, <2>1, <2>2 DEF State
<1>11. "INPUT" \in Builtin /\ "OUTPUT" \in Builtin /\ "FORWARD" \in Builtin
  BY DEF Builtin
<1>12. /\ iptBuiltinDir["INPUT"] = "in" /\ iptBuiltinDir["OUTPUT"] = "out"
       /\ iptBuiltinDir["FORWARD"] = "routed"
  BY DEF iptBuiltinDir
<1> DEFINE After(a, b, c, d) ==
       /\ b \in State /\ b.ipv6 = a.ipv6
       /\ \A f \in Family : (f = "v6" => a.ipv6) => \A p \in Packet : p.family = f =>
             /\ p.dir # d => /\ Said(b.rules[f], p) = Said(a.rules[f], p)
                             /\ b.policies[p.dir] = a.policies[p.dir]
             /\ p.dir = d =>
                   /\ Ruled(b, p) = IF Said(a.rules[f], p) = "none"
                                    THEN effective(dumps[f], c, a.policies[d])
                                    ELSE Said(a.rules[f], p)
                   /\ Said(b.rules[f], p) \in {Ruled(b, p), Said(a.rules[f], p)}
<1>13. ASSUME NEW a \in State, NEW c \in Builtin
       PROVE  After(a, mergePolicy(a, dumps, c), c, iptBuiltinDir[c])
  BY <1>13, PolicyMerged DEF Dumps
<1> HIDE DEF After
<1>14. After(rules, input, "INPUT", "in")
  BY <1>10, <1>11, <1>12, <1>13
<1>15. After(input, output, "OUTPUT", "out")
  <2>1. input \in State
    BY <1>14 DEF After
  <2> QED BY <1>11, <1>12, <1>13, <2>1
<1>16. After(output, new, "FORWARD", "routed")
  <2>1. output \in State
    BY <1>15 DEF After
  <2> QED BY <1>11, <1>12, <1>13, <2>1
<1> USE DEF After
<1> HIDE DEF input, output, new
<1>17. ASSUME NEW f \in Family, f = "v6" => st.ipv6 \/ dumps[f] # NoDump,
              NEW p \in Packet, p.family = f
       PROVE  /\ Ruled(new, p) = IF Said(MergedRules(st, dumps, f), p) = "none"
                                 THEN effective(dumps[f], chainOf(p.dir), st.policies[p.dir])
                                 ELSE Said(MergedRules(st, dumps, f), p)
              /\ Said(new.rules[f], p) \in {Ruled(new, p), Said(MergedRules(st, dumps, f), p)}
  <2>1. f = "v6" => rules.ipv6
    BY <1>8, <1>17
  <2>2. p.dir \in Dir /\ (p.dir = "in" \/ p.dir = "out" \/ p.dir = "routed")
    BY DEF Packet, Dir
  <2>3. rules.rules[f] = MergedRules(st, dumps, f) /\ rules.policies = st.policies
    BY <1>8, <1>9
  <2>4. ASSUME NEW b \in State
        PROVE  Ruled(b, p) = IF Said(b.rules[f], p) = "none" THEN b.policies[p.dir]
                              ELSE Said(b.rules[f], p)
    <3>1. b.rules[p.family] \in Seq(Rule)
      BY <1>17, <2>4 DEF State
    <3> QED BY <1>17, <3>1, RuledSaid
  <2>5. CASE p.dir = "in"
    <3>1. /\ Ruled(input, p) = IF Said(rules.rules[f], p) = "none"
                                THEN effective(dumps[f], "INPUT", rules.policies["in"])
                                ELSE Said(rules.rules[f], p)
          /\ Said(input.rules[f], p) \in {Ruled(input, p), Said(rules.rules[f], p)}
      BY <1>14, <1>17, <2>1, <2>5
    <3>2. /\ Ruled(output, p) = Ruled(input, p)
          /\ Said(output.rules[f], p) = Said(input.rules[f], p)
      BY <1>14, <1>15, <1>17, <2>1, <2>4, <2>5
    <3>3. Ruled(new, p) = Ruled(output, p) /\ Said(new.rules[f], p) = Said(output.rules[f], p)
      BY <1>14, <1>15, <1>16, <1>17, <2>1, <2>4, <2>5
    <3>4. chainOf(p.dir) = "INPUT"
      BY <2>2, <2>5, ChainOf
    <3> QED BY <2>3, <2>5, <3>1, <3>2, <3>3, <3>4
  <2>6. CASE p.dir = "out"
    <3>1. Said(input.rules[f], p) = Said(rules.rules[f], p) /\ input.policies["out"] = rules.policies["out"]
      BY <1>14, <1>17, <2>1, <2>6
    <3>2. /\ Ruled(output, p) = IF Said(input.rules[f], p) = "none"
                                 THEN effective(dumps[f], "OUTPUT", input.policies["out"])
                                 ELSE Said(input.rules[f], p)
          /\ Said(output.rules[f], p) \in {Ruled(output, p), Said(input.rules[f], p)}
      BY <1>14, <1>15, <1>17, <2>1, <2>6
    <3>3. Ruled(new, p) = Ruled(output, p) /\ Said(new.rules[f], p) = Said(output.rules[f], p)
      BY <1>14, <1>15, <1>16, <1>17, <2>1, <2>4, <2>6
    <3>4. chainOf(p.dir) = "OUTPUT"
      BY <2>2, <2>6, ChainOf
    <3> QED BY <2>3, <2>6, <3>1, <3>2, <3>3, <3>4
  <2>7. CASE p.dir = "routed"
    <3>1. /\ Said(input.rules[f], p) = Said(rules.rules[f], p)
          /\ input.policies["routed"] = rules.policies["routed"]
      BY <1>14, <1>17, <2>1, <2>7
    <3>2. /\ Said(output.rules[f], p) = Said(input.rules[f], p)
          /\ output.policies["routed"] = input.policies["routed"]
      BY <1>14, <1>15, <1>17, <2>1, <2>7
    <3>3. /\ Ruled(new, p) = IF Said(output.rules[f], p) = "none"
                              THEN effective(dumps[f], "FORWARD", output.policies["routed"])
                              ELSE Said(output.rules[f], p)
          /\ Said(new.rules[f], p) \in {Ruled(new, p), Said(output.rules[f], p)}
      BY <1>14, <1>15, <1>16, <1>17, <2>1, <2>7
    <3>4. chainOf(p.dir) = "FORWARD"
      BY <2>2, <2>7, ChainOf
    <3> QED BY <2>3, <2>7, <3>1, <3>2, <3>3, <3>4
  <2> QED BY <2>2, <2>5, <2>6, <2>7
<1>18. \A f \in Family : dumps[f] # NoDump => ~iptImportStream(dumps[f]).error
  BY <1>3, <1>4
<1>19. new \in State
  BY <1>16
<1> QED BY <1>2, <1>7, <1>17, <1>18, <1>19

(* What a migration has imported is what its reader made of a              *)
(* configuration and the state it loaded.                                  *)
ImportKnown ==
    pc = "imported" =>
        /\ config \in Config /\ Base \in Prior \cup {Default}
        /\ merged = Read(config, Base) /\ merged # Failed

(* No other step than Import makes or changes what is imported.            *)
LEMMA KnownStep == IInv /\ ImportKnown /\ [Next]_vars => ImportKnown'
<1> SUFFICES ASSUME IInv, ImportKnown, [Next]_vars, pc' = "imported"
             PROVE  /\ config' \in Config /\ Base' \in Prior \cup {Default}
                    /\ merged' = Read(config', Base') /\ merged' # Failed
  BY DEF ImportKnown
<1>1. CASE UNCHANGED vars
  BY <1>1 DEF vars, host, command, ImportKnown, Base
<1>2. CASE \E c \in Config : Import(c)
  <2>1. PICK c \in Config : Import(c)
    BY <1>2
  <2>2. previous \in Prior \cup {Default}
    BY <2>1, TakeoverAssumption DEF IInv, Untouched, TypeOK, Import
  <2>3. Base \in Prior \cup {Default}
    BY <2>2 DEF Base
  <2>4. Base' = Base
    BY <2>1 DEF Base, Import, Refuse, End
  <2>5. config' = c /\ merged' = Read(c, Base) /\ Read(c, Base) # Failed
    BY <2>1 DEF Base, Import, Refuse, End
  <2> QED BY <2>1, <2>3, <2>4, <2>5
<1>3. CASE \E m \in Manager : Administer(m)
  BY <1>3 DEF Administer, command, ImportKnown, Base
<1>4. CASE Next /\ (~\E c \in Config : Import(c)) /\ ~\E m \in Manager : Administer(m)
  <2>1. FALSE
    BY <1>4 DEF Next, Resolve, Lock, Load, Decline, Save, Apply, Handover, Kill,
       StopSource, StartFirewall, PersistEnabled, StopFirewall, RestoreSource, RestoreState,
       Refuse, End, host, command
  <2> QED BY <2>1
<1> QED BY <1>1, <1>2, <1>3, <1>4

(* So it is in every behaviour.                                            *)
LEMMA Known == Spec => []ImportKnown
<1>1. Init => ImportKnown
  BY DEF Init, ImportKnown
<1> QED BY <1>1, KnownStep, Inv, PTL DEF Spec

(* A migration from iptables imported by ImportIPTables.                   *)
LEMMA ImportedState ==
    ASSUME ImportKnown, Imported("iptables")
    PROVE  /\ config.dumps \in Dumps /\ Base \in State
           /\ merged = ImportIPTables(config.dumps, Base, Failed) /\ merged # Failed
<1>1. /\ config \in Config /\ Base \in Prior \cup {Default} /\ config.manager = "iptables"
      /\ merged = Read(config, Base) /\ merged # Failed
  BY DEF ImportKnown, Imported
<1>2. Read(config, Base) = ImportIPTables(config.dumps, Base, Failed)
  BY <1>1, MigrationAssumption DEF importSystemFirewall
<1>3. Default \in State
  <2>1. Defaults \in State
    BY DEF Defaults, State, Family, Dir, Verdict
  <2> QED BY <2>1, MigrationAssumption
<1> QED BY <1>1, <1>2, <1>3, MigrationAssumption DEF Dumps

(* A state is made of its fields.                                          *)
LEMMA StateFields ==
    ASSUME NEW st \in State
    PROVE  /\ st = [rules |-> st.rules, policies |-> st.policies, ipv6 |-> st.ipv6]
           /\ \A p \in Packet : st.rules[p.family] \in Seq(Rule)
BY DEF State, Packet

(* Then a family without a dump is as it was,                              *)
LEMMA UndeclaredNow == ImportKnown => UndeclaredKept
<1> SUFFICES ASSUME ImportKnown, Imported("iptables"), NEW f \in Family,
                    config.dumps[f] = NoDump, f = "v6" => Base.ipv6,
                    NEW p \in Packet, NEW etc \in EtcFile, p.family = f,
                    Honoured(Base, etc, p.dir)
             PROVE  Decide(merged, etc, p) = Decide(Base, etc, p)
  BY DEF UndeclaredKept
<1> DEFINE old == Base.policies[p.dir]
           own == Said(Base.rules[f], p)
           new == Said(merged.rules[f], p)
<1>1. /\ config.dumps \in Dumps /\ Base \in State
      /\ merged = ImportIPTables(config.dumps, Base, Failed) /\ merged # Failed
  BY ImportedState
<1>2. MergedRules(Base, config.dumps, f) = Base.rules[f] /\ Base.rules[f] \in Seq(Rule)
  BY <1>1 DEF MergedRules, State
<1>3. /\ merged \in State /\ new \in {Ruled(merged, p), own}
      /\ Ruled(merged, p) = IF own = "none" THEN effective(NoDump, chainOf(p.dir), old) ELSE own
  BY <1>1, <1>2, ImportDecides, MigrationAssumption
<1>4. effective(NoDump, chainOf(p.dir), old) = old
  BY DEF effective, Declares
<1>5. Ruled(merged, p) = IF new = "none" THEN merged.policies[p.dir] ELSE new
  BY <1>3, StateFields, RuledSaid
<1>6. CASE Aside(etc, p)
  BY <1>6 DEF Aside, Decide
<1>7. CASE ~Aside(etc, p)
  <2>1. /\ Decide(merged, etc, p)
           = IF new = "none" THEN overridePolicy(merged.policies[p.dir], etc.policies[p.dir])
             ELSE new
        /\ Decide(Base, etc, p)
           = IF own = "none" THEN overridePolicy(old, etc.policies[p.dir]) ELSE own
        /\ overridePolicy(old, etc.policies[p.dir]) = old
    BY <1>1, <1>3, <1>7, StateFields, DecideSaid DEF Honoured
  <2> HIDE DEF old, own, new
  <2> QED BY <1>3, <1>4, <1>5, <2>1 DEF overridePolicy
<1> QED BY <1>6, <1>7

(* Whatever a takeover imports from iptables, a family without a dump of   *)
(* its own decides every packet as it did in the state loaded, provided    *)
(* that the stored policy of its direction was the one in force.           *)
THEOREM UndeclaredStays == Spec => []UndeclaredKept
BY Known, UndeclaredNow, PTL

(* And a family with a dump decides as the dump does.                      *)
LEMMA IptablesNow == ImportKnown => IptablesKept
<1> SUFFICES ASSUME ImportKnown, Imported("iptables"), opts.replace, NEW f \in Family,
                    config.dumps[f] # NoDump,
                    ~Contradictory(iptImportStream(config.dumps[f]).rules),
                    NEW p \in Packet, p.family = f, NEW etc \in EtcFile, ~Aside(etc, p),
                    LET dump == config.dumps[f]
                    IN  \/ dump.filter /\ IptStates(dump, p) # "none"
                        \/ Honoured(merged, etc, p.dir)
             PROVE  LET said == IptDecides(config.dumps[f], p)
                    IN  Decide(merged, etc, p)
                        = IF said = "old" THEN Default.policies[p.dir] ELSE said
  BY Zenon DEF IptablesKept
<1> DEFINE dump == config.dumps[f]
           src == iptImportStream(dump).rules
           chain == chainOf(p.dir)
           specs == iptParseSave(dump.lines).chains[chain]
           stated == Stated(specs, p)
           now == Said(merged.rules[f], p)
           last == IF dump.policy[chain] = "-" THEN "old" ELSE Verdicts[dump.policy[chain]]
<1>1. /\ config.dumps \in Dumps /\ Base \in State /\ Base = Defaults
      /\ merged = ImportIPTables(config.dumps, Base, Failed) /\ merged # Failed
  BY ImportedState, MigrationAssumption DEF Base
<1>2. dump \in iptSaveFile
  BY <1>1 DEF Dumps
<1>3. /\ src \in Seq(Rule) /\ ~iptImportStream(dump).error
      /\ dump.filter => Said(src, p) = stated
      /\ ~dump.filter => src = <<>>
  <2>1. ~iptImportStream(dump).error
    BY <1>1, ImportDecides, MigrationAssumption
  <2> HIDE DEF dump
  <2> QED BY <1>2, <2>1, StreamRead
<1>4. Base.rules[f] = <<>> /\ Base.policies = Default.policies
  BY <1>1, MigrationAssumption DEF Defaults
<1>5. MergedRules(Base, config.dumps, f) = mergeRules(<<>>, src)
  BY <1>4 DEF MergedRules
<1>6. Said(mergeRules(<<>>, src), p) = Said(src, p)
  BY <1>3, MergedSaid
<1>7. /\ merged \in State /\ now \in {Ruled(merged, p), Said(src, p)}
      /\ Ruled(merged, p) = IF Said(src, p) = "none"
                            THEN effective(dump, chain, Default.policies[p.dir])
                            ELSE Said(src, p)
  BY <1>1, <1>4, <1>5, <1>6, ImportDecides, MigrationAssumption
<1>8. chain \in Builtin
  BY ChainOf DEF Packet
<1>9. /\ IptStates(dump, p) = stated
      /\ IptDecides(dump, p) = IF ~dump.filter THEN "old" ELSE IF stated # "none" THEN stated
                               ELSE last
  <2>1. IptStates(dump, p) = stated
    BY DEF IptStates
  <2>2. last = IF dump.policy[chainOf(p.dir)] = "-" THEN "old"
               ELSE Verdicts[dump.policy[chainOf(p.dir)]]
    OBVIOUS
  <2> HIDE DEF stated, dump, last
  <2>3. ASSUME ~dump.filter PROVE IptDecides(dump, p) = "old"
    BY <2>3 DEF IptDecides
  <2>4. ASSUME dump.filter, stated # "none" PROVE IptDecides(dump, p) = stated
    BY <2>1, <2>4 DEF IptDecides
  <2>5. ASSUME dump.filter, stated = "none" PROVE IptDecides(dump, p) = last
    BY <2>1, <2>2, <2>5 DEF IptDecides
  <2> QED BY <2>1, <2>3, <2>4, <2>5
<1> HIDE DEF src, specs, chain, stated, now, last
<1>10. /\ Decide(merged, etc, p)
          = IF now = "none" THEN InForce(merged, etc).policies[p.dir] ELSE now
       /\ Ruled(merged, p) = IF now = "none" THEN merged.policies[p.dir] ELSE now
  BY <1>7, StateFields, DecideSaid, RuledSaid DEF now
<1>11. \/ dump.filter /\ stated # "none"
       \/ Decide(merged, etc, p) = Ruled(merged, p)
  <2>1. (dump.filter /\ IptStates(dump, p) # "none") \/ Honoured(merged, etc, p.dir)
    OBVIOUS
  <2> QED BY <1>9, <1>10, <2>1 DEF Honoured
<1>13. CASE ~dump.filter
  <2>1. Said(src, p) = "none"
    BY <1>3, <1>13, SaidEmpty
  <2>2. effective(dump, chain, Default.policies[p.dir]) = Default.policies[p.dir]
    BY <1>13 DEF effective, Declares
  <2> QED BY <1>7, <1>9, <1>11, <1>13, <2>1, <2>2
<1>14. CASE dump.filter /\ stated # "none"
  <2>1. stated # "old"
    BY <1>3, <1>14, SaidTyping DEF Verdict
  <2>2. now = stated
    BY <1>3, <1>7, <1>14
  <2> QED BY <1>9, <1>10, <1>14, <2>1, <2>2
<1>15. CASE dump.filter /\ stated = "none"
  <2>1. effective(dump, chain, Default.policies[p.dir])
        = IF dump.policy[chain] = "-" THEN Default.policies[p.dir]
          ELSE Verdicts[dump.policy[chain]]
    BY <1>15 DEF effective, Declares
  <2>2. dump.policy[chain] # "-" => Verdicts[dump.policy[chain]] # "old"
    <3>1. dump.policy[chain] \in {"-", "ACCEPT", "DROP", "REJECT"}
      BY <1>2, <1>8 DEF iptSaveFile
    <3> QED BY <3>1 DEF Verdicts
  <2> QED BY <1>3, <1>7, <1>9, <1>11, <1>15, <2>1, <2>2 DEF last
<1> QED BY <1>13, <1>14, <1>15

(* Whatever a takeover that replaces the old rules imports from iptables,  *)
(* each packet asked of the rules is decided as the dump decides it, where *)
(* its rules do not contradict one another: by a line of the dump for any  *)
(* /etc/default, by a policy where that says the same.                     *)
THEOREM IptablesAgrees == Spec => []IptablesKept
BY Known, IptablesNow, PTL

-----------------------------------------------------------------------------
(* v is what the lists say one after the other.                            *)
FirstSaid(ss, p, v) ==
    IF v = "none" THEN \A i \in DOMAIN ss : Said(ss[i], p) = "none"
    ELSE \E k \in DOMAIN ss : /\ Said(ss[k], p) = v
                              /\ \A j \in DOMAIN ss : j < k => Said(ss[j], p) = "none"

(* So a list of lists is asked.                                            *)
LEMMA FlatSaid ==
    ASSUME NEW ss \in Seq(Seq(Rule)), NEW p
    PROVE  FlattenSeq(ss) \in Seq(Rule) /\ FirstSaid(ss, p, Said(FlattenSeq(ss), p))
<1> DEFINE L == Seq(Rule)
           T == {q \in Seq(L) : FirstSaid(q, p, Said(FlattenSeq(q), p))}
<1>1. <<>> \in T
  <2>1. <<>> \in Seq(L) /\ FlattenSeq(<<>>) = <<>> /\ Said(<<>>, p) = "none"
    BY SaidEmpty DEF FlattenSeq
  <2>2. FirstSaid(<<>>, p, "none")
    BY DEF FirstSaid
  <2> QED BY <2>1, <2>2
<1>2. ASSUME NEW q \in Seq(L), NEW s \in L, q \in T PROVE Append(q, s) \in T
  <2> DEFINE new == Append(q, s)
             v == Said(FlattenSeq(q), p)
             w == Said(FlattenSeq(new), p)
             n == Len(q)
  <2>1. /\ new \in Seq(L) /\ DOMAIN new = DOMAIN q \cup {n + 1} /\ new[n + 1] = s
        /\ \A i \in DOMAIN q : new[i] = q[i] /\ i < n + 1
        /\ n + 1 \notin DOMAIN q
    OBVIOUS
  <2>2. w = IF v # "none" THEN v ELSE Said(s, p)
    <3>1. FlattenSeq(q) \in Seq(Rule) /\ FlattenSeq(new) = FlattenSeq(q) \o s
      BY FlattenSteps
    <3> HIDE DEF new
    <3> QED BY <3>1, SaidConcat
  <2>3. FirstSaid(q, p, v)
    BY <1>2
  <2>4. \A i \in DOMAIN q : ~(n + 1 < i)
    OBVIOUS
  <2>5. \A i \in DOMAIN q : i \in Nat
    OBVIOUS
  <2>6. ~(n + 1 < n + 1)
    OBVIOUS
  <2> HIDE DEF new, v, w, n, L
  <2>7. FirstSaid(new, p, w)
    <3>1. CASE v # "none"
      <4>1. PICK k \in DOMAIN q : /\ Said(q[k], p) = v
                                  /\ \A j \in DOMAIN q : j < k => Said(q[j], p) = "none"
        BY <2>3, <3>1 DEF FirstSaid
      <4>2. /\ k \in DOMAIN new /\ Said(new[k], p) = w
            /\ \A j \in DOMAIN new : j < k => Said(new[j], p) = "none"
        BY <2>1, <2>2, <2>4, <3>1, <4>1
      <4> QED BY <2>2, <3>1, <4>2 DEF FirstSaid
    <3>2. CASE v = "none"
      <4>1. \A i \in DOMAIN q : Said(new[i], p) = "none"
        BY <2>1, <2>3, <3>2 DEF FirstSaid
      <4>2. Said(new[n + 1], p) = w /\ n + 1 \in DOMAIN new
        BY <2>1, <2>2, <3>2
      <4>3. CASE w = "none"
        BY <2>1, <4>1, <4>2, <4>3 DEF FirstSaid
      <4>4. CASE w # "none"
        <5>1. \A j \in DOMAIN new : j < n + 1 => Said(new[j], p) = "none"
          BY <2>1, <2>6, <4>1
        <5> QED BY <4>2, <4>4, <5>1 DEF FirstSaid
      <4> QED BY <4>3, <4>4
    <3> QED BY <3>1, <3>2
  <2> QED BY <2>1, <2>7 DEF new, w
<1>3. Seq(L) \subseteq T
  <2> HIDE DEF T
  <2> QED BY <1>1, <1>2, ListInduction
<1>4. FlattenSeq(ss) \in Seq(Rule)
  BY FlattenSteps
<1> QED BY <1>3, <1>4

(* Lists that say the same where they say anything.                        *)
LEMMA FlatOne ==
    ASSUME NEW ss \in Seq(Seq(Rule)), NEW p, NEW v, NEW S, v # "none",
           \A i \in DOMAIN ss : Said(ss[i], p) = IF i \in S THEN v ELSE "none"
    PROVE  /\ FlattenSeq(ss) \in Seq(Rule)
           /\ Said(FlattenSeq(ss), p) = IF \E i \in DOMAIN ss : i \in S THEN v ELSE "none"
<1> DEFINE w == Said(FlattenSeq(ss), p)
<1>1. FlattenSeq(ss) \in Seq(Rule) /\ FirstSaid(ss, p, w)
  BY FlatSaid
<1> HIDE DEF w
<1>2. CASE w = "none"
  BY <1>1, <1>2 DEF FirstSaid, w
<1>3. CASE w # "none"
  BY <1>1, <1>3 DEF FirstSaid, w
<1> QED BY <1>2, <1>3

(* A packet of a source: of its family and from one of its addresses.      *)
InSource(s, p) == p.family \in s.families /\ p.src \in s.addrs

(* The rule that emit makes of a template meets what the binding captures  *)
(* and the element means: prefixes are nested or apart, so the narrower    *)
(* source is both.                                                         *)
LEMMA EmitSaid ==
    ASSUME NEW b \in Binding, NEW e \in Element, NEW services \in SUBSET Service,
           ~emit(b, e, services).error, NEW p \in Packet, p.dir = "in"
    PROVE  LET rules == emit(b, e, services).rules[p.family]
           IN  /\ rules \in Seq(Rule)
               /\ Said(rules, p) =
                     IF /\ Captures(b, p) /\ p.family \in e.families /\ InSource(e.source, p)
                        /\ p.service \in services
                     THEN e.act ELSE "none"
<1> DEFINE from == e.source
           zone == b.source
           both == carried(services) \cap e.families \cap from.families \cap zone.families
           dead == /\ zone.kind = "address" /\ from.kind = "address"
                   /\ \/ zone.addrs \cap from.addrs = {}
                      \/ zone.families \cap from.families = {}
           mixed == /\ zone.kind # "any" /\ from.kind # "any"
                    /\ "ipset" \in {zone.kind, from.kind} /\ zone # from
           src == IF zone.kind # "any" /\ zone.addrs \subseteq from.addrs THEN zone ELSE from
           rule == [dir |-> "in", iface |-> b.iface, src |-> src.addrs, bySet |-> src.kind = "ipset",
                    services |-> services, act |-> e.act, policy |-> FALSE]
           rules == [f \in Family |-> IF f \in both /\ ~dead THEN <<rule>> ELSE <<>>]
           f == p.family
<1>1. emit(b, e, services) = [error |-> mixed \/ (~dead /\ both = {}), rules |-> rules]
  BY Zenon DEF emit
<1>2. f \in Family /\ p.src \in Addr
  BY DEF Packet
<1>3. /\ zone \in Source /\ from \in Source /\ b.iface \in Iface \cup {"any"}
      /\ e.act \in Verdict /\ e.families \subseteq Family
  BY DEF Binding, Element
<1>4. ASSUME NEW s \in Source
      PROVE  /\ s.kind \in {"any", "address", "ipset"} /\ s.addrs \subseteq Addr
             /\ s.kind = "any" => s.addrs = Addr /\ s.families = Family
             /\ s.kind = "address" => s.addrs \in Prefix
  BY <1>4, FirewalldAssumption DEF Source, Anywhere
<1>5. emit(b, e, services).rules[f] = IF f \in both /\ ~dead THEN <<rule>> ELSE <<>>
  BY <1>1, <1>2
<1>6. ~mixed
  <2> PICK t \in BOOLEAN : t = (mixed \/ (~dead /\ both = {}))
    OBVIOUS
  <2> HIDE DEF mixed, dead, both, rules
  <2>1. emit(b, e, services) = [error |-> t, rules |-> rules]
    BY <1>1
  <2>2. emit(b, e, services).error = t
    BY <2>1
  <2> QED BY <2>2
<1> HIDE DEF from, zone
<1>7. ~dead /\ f \in both => (p.src \in src.addrs <=> p.src \in zone.addrs /\ p.src \in from.addrs)
  <2> SUFFICES ASSUME ~dead, f \in both
               PROVE  p.src \in src.addrs <=> p.src \in zone.addrs /\ p.src \in from.addrs
    OBVIOUS
  <2>1. CASE zone.kind = "any"
    BY <1>2, <1>3, <1>4, <2>1
  <2>2. CASE zone.kind # "any" /\ from.kind = "any"
    BY <1>2, <1>3, <1>4, <2>2
  <2>3. CASE zone.kind = "address" /\ from.kind = "address"
    <3>1. zone.addrs \in Prefix /\ from.addrs \in Prefix
      BY <1>3, <1>4, <2>3
    <3>2. zone.addrs \cap from.addrs # {}
      BY <2>3
    <3>3. zone.addrs \subseteq from.addrs \/ from.addrs \subseteq zone.addrs
      BY <3>1, <3>2, FirewalldAssumption
    <3> QED BY <2>3, <3>3
  <2>4. CASE zone.kind # "any" /\ from.kind # "any" /\ ~(zone.kind = "address" /\ from.kind = "address")
    <3>1. zone = from
      <4>1. "ipset" \in {zone.kind, from.kind}
        BY <1>3, <1>4, <2>4
      <4> QED BY <1>6, <2>4, <4>1
    <3> QED BY <3>1
  <2> QED BY <2>1, <2>2, <2>3, <2>4
<1>8. dead \/ f \notin both =>
         ~(Captures(b, p) /\ f \in e.families /\ InSource(from, p) /\ p.service \in services)
  <2>1. p.service \in services => f \in carried(services)
    BY DEF carried, Packet
  <2> QED BY <2>1 DEF Captures, InSource, zone
<1>9. rule \in Rule
  <2>1. src \in Source
    BY <1>3
  <2>2. src.addrs \in SUBSET Addr /\ (src.kind = "ipset") \in BOOLEAN
    BY <1>4, <2>1
  <2> HIDE DEF src
  <2> QED BY <1>3, <2>2 DEF Rule, Dir
<1>10. Matches(rule, p) <=> /\ b.iface \in {"any", p.iface} /\ p.src \in src.addrs
                            /\ p.service \in services
  BY DEF Matches
<1>11. rule.dir = p.dir /\ rule.act = e.act
  OBVIOUS
<1> HIDE DEF both, dead, mixed, src, rule
<1>12. CASE f \in both /\ ~dead
  <2>1. Matches(rule, p) <=> /\ Captures(b, p) /\ f \in e.families /\ InSource(from, p)
                             /\ p.service \in services
    BY <1>7, <1>10, <1>12 DEF Captures, InSource, zone, both
  <2>2. emit(b, e, services).rules[f] = Append(<<>>, rule) /\ <<>> \in Seq(Rule)
    BY <1>5, <1>12
  <2>3. Said(Append(<<>>, rule), p) = IF Matches(rule, p) THEN e.act ELSE "none"
    <3>1. Said(Append(<<>>, rule), p) =
              IF Said(<<>>, p) # "none" THEN Said(<<>>, p)
              ELSE IF rule.dir = p.dir /\ Matches(rule, p) THEN rule.act ELSE "none"
      BY <1>9, <2>2, SaidAppend
    <3> QED BY <1>11, <3>1, SaidEmpty
  <2>4. Append(<<>>, rule) \in Seq(Rule)
    BY <1>9
  <2> QED BY <2>1, <2>2, <2>3, <2>4 DEF from
<1>13. CASE ~(f \in both /\ ~dead)
  <2>1. emit(b, e, services).rules[f] = <<>> /\ <<>> \in Seq(Rule)
    BY <1>5, <1>13
  <2> QED BY <1>8, <1>13, <2>1, SaidEmpty DEF from
<1> QED BY <1>12, <1>13

(* The templates of an element are lists of services that make its parts.  *)
LEMMA TemplatesCover ==
    ASSUME NEW e \in Element
    PROVE  /\ templates(e) \in Seq(SUBSET Service)
           /\ \A s : s \in parts(e) <=> \E t \in DOMAIN templates(e) : s \in templates(e)[t]
<1>1. parts(e) \subseteq Service
  <2>1. e.services \subseteq Service /\ (e.named = "" \/ e.named \in Named)
    BY DEF Element
  <2>2. ASSUME NEW n \in Named PROVE resolveService[n].parts \subseteq Service
    <3>1. resolveService[n].parts = UNION {definition[m].parts : m \in Reached({n})}
      <4> PICK error, union : /\ error = (\E m \in Reached({n}) : Cyclic(m))
                              /\ union = UNION {definition[m].parts : m \in Reached({n})}
        OBVIOUS
      <4>1. resolveService[n] = [error |-> error, parts |-> union]
        BY Zenon DEF resolveService
      <4> QED BY <4>1
    <3>2. Reached({n}) \subseteq Named
      BY DEF Reached
    <3>3. \A m \in Named : definition[m].parts \subseteq Service
      BY FirewalldAssumption
    <3>4. UNION {definition[m].parts : m \in Reached({n})} \subseteq Service
      BY <3>2, <3>3, Zenon
    <3> QED BY <3>1, <3>4
  <2> QED BY <2>1, <2>2 DEF parts
<1>2. CASE e.named = ""
  <2>1. templates(e) = <<e.services>> /\ parts(e) = e.services
    BY <1>2 DEF templates, parts
  <2> QED BY <1>1, <2>1
<1>3. CASE e.named # ""
  <2> DEFINE ports == parts(e) \ Protocol
             own == parts(e) \cap Protocol
             single == {{p} : p \in own}
             one == IF ports = {} THEN <<>> ELSE <<ports>>
  <2>1. templates(e) = one \o SetToSeq(single)
    BY <1>3 DEF templates
  <2>2. IsFiniteSet(single)
    <3>1. IsFiniteSet(own)
      BY FirewalldAssumption, FS_Subset
    <3>2. [x \in own |-> {x}] \in Surjection(own, single)
      BY DEF Surjection
    <3> HIDE DEF own, single
    <3> QED BY <3>1, <3>2, FS_Surjection
  <2>3. SetToSeq(single) \in Seq(single) /\ \A x \in single : \E i \in DOMAIN SetToSeq(single) : SetToSeq(single)[i] = x
    <3> HIDE DEF single
    <3> QED BY <2>2, SetListed
  <2> DEFINE q == SetToSeq(single)
             L == SUBSET Service
  <2>4. single \subseteq L
    BY <1>1
  <2>5. q \in Seq(L)
    BY <2>3, <2>4
  <2>6. one \in Seq(L)
    <3>1. ports \in L
      BY <1>1
    <3> HIDE DEF ports, L
    <3> QED BY <3>1
  <2>7. \A x : x \in parts(e) <=> x \in ports \/ x \in own
    OBVIOUS
  <2>8. \A x : x \in own <=> \E t \in DOMAIN q : x \in q[t]
    <3>1. \A x \in own : \E t \in DOMAIN q : x \in q[t]
      <4>1. \A x \in own : {x} \in single /\ x \in {x}
        OBVIOUS
      <4> HIDE DEF single, own, q
      <4> QED BY <2>3, <4>1 DEF q
    <3>2. \A t \in DOMAIN q : q[t] \in single
      <4> HIDE DEF single
      <4> QED BY <2>3
    <3>3. \A u \in single : u \subseteq own
      OBVIOUS
    <3> HIDE DEF single, own, q
    <3> QED BY <3>1, <3>2, <3>3
  <2>9. \A x : x \in ports <=> \E t \in DOMAIN one : x \in one[t]
    OBVIOUS
  <2> HIDE DEF q, one, ports, own, L
  <2>10. /\ one \o q \in Seq(L) /\ DOMAIN one = 1 .. Len(one) /\ DOMAIN q = 1 .. Len(q)
         /\ Len(one) \in Nat /\ Len(q) \in Nat /\ DOMAIN (one \o q) = 1 .. Len(one) + Len(q)
         /\ \A j \in 1 .. Len(one) : (one \o q)[j] = one[j]
         /\ \A j \in 1 .. Len(q) : (one \o q)[Len(one) + j] = q[j]
    BY <2>5, <2>6, ConcatAt
  <2>11. ASSUME NEW x
         PROVE  (\E t \in DOMAIN (one \o q) : x \in (one \o q)[t])
                <=> \/ \E t \in DOMAIN one : x \in one[t]
                    \/ \E t \in DOMAIN q : x \in q[t]
    <3>1. \A t \in DOMAIN (one \o q) : t \in DOMAIN one \/ \E j \in DOMAIN q : t = Len(one) + j
      <4>1. ASSUME NEW t \in DOMAIN (one \o q), t \notin DOMAIN one
            PROVE  \E j \in DOMAIN q : t = Len(one) + j
        <5>1. t - Len(one) \in DOMAIN q /\ t = Len(one) + (t - Len(one))
          BY <2>10, <4>1
        <5> QED BY <5>1
      <4> QED BY <4>1
    <3>2. /\ \A t \in DOMAIN one : t \in DOMAIN (one \o q)
          /\ \A j \in DOMAIN q : Len(one) + j \in DOMAIN (one \o q)
      BY <2>10
    <3> QED BY <2>10, <3>1, <3>2
  <2> QED BY <2>1, <2>7, <2>8, <2>9, <2>10, <2>11 DEF q, L
<1> QED BY <1>2, <1>3

(* Some binding of the list captures the packet.                           *)
CapturedBy(bs, p) == \E i \in DOMAIN bs : Captures(bs[i], p)

(* The rules of an element meet what the bindings capture and it means.    *)
LEMMA ElemSaid ==
    ASSUME NEW bs \in Seq(Binding), NEW e \in Element, ~emitError(bs, e),
           NEW p \in Packet, p.dir = "in"
    PROVE  /\ zoneElem(bs, e, p.family) \in Seq(Rule)
           /\ Said(zoneElem(bs, e, p.family), p) =
                 IF CapturedBy(bs, p) /\ Catches(e, p) THEN e.act ELSE "none"
<1> DEFINE f == p.family
           ts == templates(e)
           meant == f \in e.families /\ InSource(e.source, p)
           own(t, i) == emit(bs[i], e, ts[t]).rules[f]
           template(t) == [i \in DOMAIN bs |-> own(t, i)]
           outer == [t \in DOMAIN ts |-> FlattenSeq(template(t))]
           Met == {t \in DOMAIN ts : CapturedBy(bs, p) /\ meant /\ p.service \in ts[t]}
<1>1. e.act # "none" /\ e.act \in Verdict
  BY DEF Element, Verdict
<1>2. /\ ts \in Seq(SUBSET Service)
      /\ \A s : s \in parts(e) <=> \E t \in DOMAIN ts : s \in ts[t]
  BY TemplatesCover
<1>3. /\ DOMAIN bs = 1 .. Len(bs) /\ Len(bs) \in Nat /\ DOMAIN ts = 1 .. Len(ts) /\ Len(ts) \in Nat
      /\ (\A i \in DOMAIN bs : bs[i] \in Binding) /\ \A t \in DOMAIN ts : ts[t] \in SUBSET Service
  BY <1>2
<1>4. zoneElem(bs, e, f) = FlattenSeq(outer)
  BY Zenon DEF zoneElem
<1> HIDE DEF ts
<1>5. ASSUME NEW t \in DOMAIN ts, NEW i \in DOMAIN bs
      PROVE  /\ own(t, i) \in Seq(Rule)
             /\ Said(own(t, i), p) =
                   IF Captures(bs[i], p) /\ meant /\ p.service \in ts[t] THEN e.act ELSE "none"
  <2>1. ts[t] \in SUBSET Service /\ bs[i] \in Binding
    BY <1>3
  <2>2. ~emit(bs[i], e, ts[t]).error
    BY <1>3 DEF emitError, ts, Range
  <2>3. LET rules == emit(bs[i], e, ts[t]).rules[p.family]
           IN  /\ rules \in Seq(Rule)
               /\ Said(rules, p) =
                     IF /\ Captures(bs[i], p) /\ p.family \in e.families /\ InSource(e.source, p)
                        /\ p.service \in ts[t]
                     THEN e.act ELSE "none"
    BY <2>1, <2>2, EmitSaid
  <2> QED BY <2>3
<1> HIDE DEF own, meant
<1>6. ASSUME NEW t \in DOMAIN ts
      PROVE  /\ FlattenSeq(template(t)) \in Seq(Rule)
             /\ Said(FlattenSeq(template(t)), p) = IF t \in Met THEN e.act ELSE "none"
  <2> DEFINE q == template(t)
             S == {i \in DOMAIN bs : Captures(bs[i], p) /\ meant /\ p.service \in ts[t]}
  <2>1. q \in Seq(Seq(Rule)) /\ DOMAIN q = DOMAIN bs /\ \A i \in DOMAIN bs : q[i] = own(t, i)
    BY <1>3, <1>5
  <2>2. \A i \in DOMAIN q : Said(q[i], p) = IF i \in S THEN e.act ELSE "none"
    BY <1>5, <2>1
  <2> HIDE DEF q
  <2>3. /\ FlattenSeq(q) \in Seq(Rule)
        /\ Said(FlattenSeq(q), p) = IF \E i \in DOMAIN q : i \in S THEN e.act ELSE "none"
    <3> HIDE DEF S
    <3> QED BY <1>1, <2>1, <2>2, FlatOne
  <2>4. (\E i \in DOMAIN q : i \in S) <=> t \in Met
    BY <2>1 DEF CapturedBy
  <2> QED BY <2>3, <2>4 DEF q
<1>7. /\ outer \in Seq(Seq(Rule)) /\ DOMAIN outer = DOMAIN ts
      /\ \A t \in DOMAIN outer : Said(outer[t], p) = IF t \in Met THEN e.act ELSE "none"
  <2> HIDE DEF template, Met
  <2> QED BY <1>3, <1>6
<1> HIDE DEF outer
<1>8. /\ FlattenSeq(outer) \in Seq(Rule)
      /\ Said(FlattenSeq(outer), p) = IF \E t \in DOMAIN outer : t \in Met THEN e.act ELSE "none"
  <2> HIDE DEF Met
  <2> QED BY <1>1, <1>7, FlatOne
<1>9. (\E t \in DOMAIN outer : t \in Met) <=> CapturedBy(bs, p) /\ Catches(e, p)
  BY <1>2, <1>7 DEF Catches, meant, InSource
<1> QED BY <1>4, <1>8, <1>9

(* The rules of a zone whose elements that deny come first decide as       *)
(* firewalld, which asks those first wherever they are.                    *)
LEMMA ZoneSaid ==
    ASSUME NEW bs \in Seq(Binding), NEW elems \in Seq(Element),
           \A i \in DOMAIN elems : ~emitError(bs, elems[i]),
           \A i, j \in DOMAIN elems : i < j /\ elems[i].act = "allow" => elems[j].act = "allow",
           NEW p \in Packet, p.dir = "in"
    PROVE  LET rules == FlattenSeq([i \in DOMAIN elems |-> zoneElem(bs, elems[i], p.family)])
               hit(i) == Catches(elems[i], p)
           IN  /\ rules \in Seq(Rule)
               /\ ~CapturedBy(bs, p) => Said(rules, p) = "none"
               /\ CapturedBy(bs, p) =>
                     (Said(rules, p) = "allow"
                      <=> /\ \E i \in DOMAIN elems : hit(i) /\ elems[i].act = "allow"
                          /\ ~\E i \in DOMAIN elems : hit(i) /\ elems[i].act # "allow")
<1> DEFINE ss == [i \in DOMAIN elems |-> zoneElem(bs, elems[i], p.family)]
           rules == FlattenSeq(ss)
           hit(i) == Catches(elems[i], p)
           v == Said(rules, p)
<1>1. /\ DOMAIN elems = 1 .. Len(elems) /\ Len(elems) \in Nat
      /\ \A i \in DOMAIN elems : elems[i] \in Element
  OBVIOUS
<1>2. ASSUME NEW i \in DOMAIN elems
      PROVE  /\ ss[i] \in Seq(Rule) /\ elems[i].act # "none"
             /\ Said(ss[i], p) = IF CapturedBy(bs, p) /\ hit(i) THEN elems[i].act ELSE "none"
  <2>1. elems[i] \in Element /\ ~emitError(bs, elems[i]) /\ elems[i].act # "none"
    BY <1>1 DEF Element, Verdict
  <2>2. ss[i] = zoneElem(bs, elems[i], p.family)
    OBVIOUS
  <2> HIDE DEF ss
  <2> QED BY <2>1, <2>2, ElemSaid
<1>3. ss \in Seq(Seq(Rule)) /\ DOMAIN ss = DOMAIN elems
  BY <1>1, <1>2
<1> HIDE DEF ss
<1>4. rules \in Seq(Rule) /\ FirstSaid(ss, p, v)
  BY <1>3, FlatSaid
<1> HIDE DEF rules, v, hit
<1>5. CASE v = "none"
  <2>1. \A i \in DOMAIN elems : Said(ss[i], p) = "none"
    BY <1>3, <1>4, <1>5 DEF FirstSaid
  <2>2. CapturedBy(bs, p) => \A i \in DOMAIN elems : ~hit(i)
    BY <1>2, <2>1
  <2> QED BY <1>4, <1>5, <2>2 DEF v, rules, ss, hit
<1>6. CASE v # "none"
  <2>1. PICK k \in DOMAIN elems : /\ Said(ss[k], p) = v
                                  /\ \A j \in DOMAIN elems : j < k => Said(ss[j], p) = "none"
    BY <1>3, <1>4, <1>6 DEF FirstSaid
  <2>2. CapturedBy(bs, p) /\ hit(k) /\ v = elems[k].act
    BY <1>2, <1>6, <2>1
  <2>3. \A j \in DOMAIN elems : j < k => ~hit(j)
    BY <1>2, <2>1, <2>2
  <2>4. \A j \in DOMAIN elems : j < k \/ j = k \/ k < j
    BY <1>1
  <2>5. v = "allow" <=> /\ \E i \in DOMAIN elems : hit(i) /\ elems[i].act = "allow"
                        /\ ~\E i \in DOMAIN elems : hit(i) /\ elems[i].act # "allow"
    BY <2>2, <2>3, <2>4
  <2> QED BY <1>4, <2>2, <2>5 DEF v, rules, ss, hit
<1> QED BY <1>5, <1>6

(* Two bindings that capture one packet overlap.                           *)
LEMMA CapturedOverlap ==
    ASSUME NEW a \in Binding, NEW b \in Binding, NEW p \in Packet, Captures(a, p), Captures(b, p)
    PROVE  bindingsOverlap(a, b)
<1>1. /\ a.iface \in {"any", p.iface} /\ b.iface \in {"any", p.iface}
      /\ a.source.families \cap b.source.families # {}
      /\ a.source.addrs \cap b.source.addrs # {}
  BY DEF Captures
<1> QED BY <1>1 DEF bindingsOverlap

(* A configuration whose zones are of their types.                         *)
ZonesTyped(conf) ==
    \A z \in DOMAIN zonesOf(conf) : z \in Zone /\ zonesOf(conf)[z] \in fwZone

(* The bindings of a zone, and the one to everything.                      *)
LEMMA BindingsTyping ==
    ASSUME NEW conf, ZonesTyped(conf), NEW z \in DOMAIN zonesOf(conf)
    PROVE  bindings(conf, z) \in Seq(Binding)
<1>1. zonesOf(conf)[z] \in fwZone
  BY DEF ZonesTyped
<1>2. zonesOf(conf)[z].bindings \in Seq(Binding)
  BY <1>1 DEF fwZone
<1>3. [iface |-> "any", source |-> Anywhere] \in Binding
  BY DEF Binding, Source
<1>4. <<[iface |-> "any", source |-> Anywhere]>> \in Seq(Binding)
  BY <1>3
<1> QED BY <1>2, <1>4, Zenon DEF bindings

(* What a configuration that is not refused is like.                       *)
LEMMA NotRefused ==
    ASSUME NEW conf, ~Refused(conf)
    PROVE  /\ activeZones(conf) \subseteq DOMAIN zonesOf(conf)
           /\ ~checkZoneOverlap(conf)
           /\ \A z \in activeZones(conf) : \A e \in Range(zonesOf(conf)[z].elems) :
                 ~emitError(bindings(conf, z), e)
<1>1. /\ conf.defaultZone \in DOMAIN zonesOf(conf) /\ ~checkZoneOverlap(conf)
      /\ \A z \in activeZones(conf) : \A e \in Range(zonesOf(conf)[z].elems) :
            ~emitError(bindings(conf, z), e)
  BY Zenon DEF Refused
<1>2. Bound(zonesOf(conf)) \subseteq DOMAIN zonesOf(conf)
  BY DEF Bound
<1>3. activeZones(conf) \in {{conf.defaultZone}, Bound(zonesOf(conf))}
  BY Zenon DEF activeZones
<1> QED BY <1>1, <1>2, <1>3

(* At most one zone captures a packet.                                     *)
LEMMA OneZone ==
    ASSUME NEW conf, ZonesTyped(conf), ~Refused(conf), NEW p \in Packet,
           NEW y \in ZonesFor(conf, p), NEW z \in ZonesFor(conf, p)
    PROVE  y = z
<1>1. /\ y \in activeZones(conf) /\ z \in activeZones(conf)
      /\ activeZones(conf) \subseteq DOMAIN zonesOf(conf)
  BY NotRefused DEF ZonesFor
<1>2. bindings(conf, y) \in Seq(Binding) /\ bindings(conf, z) \in Seq(Binding)
  BY <1>1, BindingsTyping
<1>3. PICK i \in DOMAIN bindings(conf, y) : Captures(bindings(conf, y)[i], p)
  BY DEF ZonesFor
<1>4. PICK j \in DOMAIN bindings(conf, z) : Captures(bindings(conf, z)[j], p)
  BY DEF ZonesFor
<1>5. bindings(conf, y)[i] \in Binding /\ bindings(conf, z)[j] \in Binding
  BY <1>2
<1>6. bindingsOverlap(bindings(conf, y)[i], bindings(conf, z)[j])
  BY <1>3, <1>4, <1>5, CapturedOverlap
<1>7. ~checkZoneOverlap(conf)
  BY NotRefused
<1> QED BY <1>1, <1>6, <1>7, Zenon DEF checkZoneOverlap

(* The rules of one zone decide of what it captures as firewalld does.     *)
LEMMA ZoneRulesSaid ==
    ASSUME NEW conf, ZonesTyped(conf), ~Refused(conf), NEW p \in Packet, p.dir = "in",
           NEW z \in activeZones(conf),
           LET elems == zonesOf(conf)[z].elems
           IN  \A i, j \in DOMAIN elems : i < j /\ elems[i].act = "allow" => elems[j].act = "allow"
    PROVE  LET rules == zoneRules(conf, z, p.family)
               elems == zonesOf(conf)[z].elems
               hit(i) == Catches(elems[i], p)
           IN  /\ rules \in Seq(Rule)
               /\ z \notin ZonesFor(conf, p) => Said(rules, p) = "none"
               /\ z \in ZonesFor(conf, p) =>
                     (Said(rules, p) = "allow"
                      <=> /\ \E i \in DOMAIN elems : hit(i) /\ elems[i].act = "allow"
                          /\ ~\E i \in DOMAIN elems : hit(i) /\ elems[i].act # "allow")
<1> DEFINE elems == zonesOf(conf)[z].elems
           bs == bindings(conf, z)
<1>1. z \in DOMAIN zonesOf(conf)
  BY NotRefused
<1>2. bs \in Seq(Binding)
  BY <1>1, BindingsTyping
<1>3. elems \in Seq(Element)
  <2>1. zonesOf(conf)[z] \in fwZone
    BY <1>1 DEF ZonesTyped
  <2> QED BY <2>1 DEF fwZone
<1>4. \A i \in DOMAIN elems : ~emitError(bs, elems[i])
  <2>1. \A e \in Range(elems) : ~emitError(bs, e)
    BY NotRefused
  <2> HIDE DEF elems, bs
  <2> QED BY <2>1 DEF Range
<1>5. z \in ZonesFor(conf, p) <=> CapturedBy(bs, p)
  BY DEF ZonesFor, CapturedBy
<1>6. \A i, j \in DOMAIN elems : i < j /\ elems[i].act = "allow" => elems[j].act = "allow"
  OBVIOUS
<1>7. zoneRules(conf, z, p.family)
      = FlattenSeq([i \in DOMAIN elems |-> zoneElem(bs, elems[i], p.family)])
  BY Zenon DEF zoneRules
<1> HIDE DEF elems, bs
<1>8. LET rules == FlattenSeq([i \in DOMAIN elems |-> zoneElem(bs, elems[i], p.family)])
               hit(i) == Catches(elems[i], p)
           IN  /\ rules \in Seq(Rule)
               /\ ~CapturedBy(bs, p) => Said(rules, p) = "none"
               /\ CapturedBy(bs, p) =>
                     (Said(rules, p) = "allow"
                      <=> /\ \E i \in DOMAIN elems : hit(i) /\ elems[i].act = "allow"
                          /\ ~\E i \in DOMAIN elems : hit(i) /\ elems[i].act # "allow")
  BY <1>2, <1>3, <1>4, <1>6, ZoneSaid
<1> QED BY <1>5, <1>7, <1>8 DEF elems

(* The rules of all zones, one after the other, say what those of the one  *)
(* zone do that captures the packet.                                       *)
LEMMA ZonesSaid ==
    ASSUME NEW conf, ZonesTyped(conf), ~Refused(conf), DeniesFirst(conf),
           NEW p \in Packet, p.dir = "in"
    PROVE  /\ emitZones(conf, p.family) \in Seq(Rule)
           /\ ZonesFor(conf, p) = {} => Said(emitZones(conf, p.family), p) = "none"
           /\ \A z \in ZonesFor(conf, p) :
                 (Said(emitZones(conf, p.family), p) = "allow"
                  <=> Said(zoneRules(conf, z, p.family), p) = "allow")
<1> DEFINE shown == activeZones(conf)
           own(z) == zoneRules(conf, z, p.family)
           ss == [i \in DOMAIN zoneOrder |-> IF zoneOrder[i] \in shown THEN own(zoneOrder[i]) ELSE <<>>]
           rules == FlattenSeq(ss)
           v == Said(rules, p)
           For == ZonesFor(conf, p)
<1>1. emitZones(conf, p.family) = rules
  BY Zenon DEF emitZones
<1>2. ASSUME NEW z \in shown
      PROVE  own(z) \in Seq(Rule) /\ (z \notin For => Said(own(z), p) = "none")
  <2>1. LET elems == zonesOf(conf)[z].elems
        IN  \A i, j \in DOMAIN elems : i < j /\ elems[i].act = "allow" => elems[j].act = "allow"
    BY Zenon DEF DeniesFirst
  <2> QED BY <2>1, ZoneRulesSaid
<1>3. For \subseteq shown /\ shown \subseteq Zone
  BY NotRefused DEF ZonesFor, ZonesTyped
<1>4. /\ DOMAIN zoneOrder = 1 .. Len(zoneOrder) /\ Len(zoneOrder) \in Nat
      /\ \A z \in Zone : \E i \in DOMAIN zoneOrder : zoneOrder[i] = z
  BY FirewalldAssumption DEF Range
<1> HIDE DEF own, For, shown
<1>5. /\ ss \in Seq(Seq(Rule)) /\ DOMAIN ss = DOMAIN zoneOrder
      /\ \A i \in DOMAIN ss :
            Said(ss[i], p) = IF zoneOrder[i] \in For THEN Said(own(zoneOrder[i]), p) ELSE "none"
  <2>1. \A i \in DOMAIN zoneOrder :
           /\ ss[i] \in Seq(Rule)
           /\ Said(ss[i], p) = IF zoneOrder[i] \in For THEN Said(own(zoneOrder[i]), p) ELSE "none"
    BY <1>2, <1>3, SaidEmpty
  <2>2. DOMAIN ss = DOMAIN zoneOrder /\ ss = [i \in 1 .. Len(zoneOrder) |-> ss[i]]
    BY <1>4
  <2> HIDE DEF ss
  <2> QED BY <1>4, <2>1, <2>2
<1> HIDE DEF ss
<1>6. rules \in Seq(Rule) /\ FirstSaid(ss, p, v)
  BY <1>5, FlatSaid
<1> HIDE DEF rules, v
<1>7. For = {} => v = "none"
  BY <1>5, <1>6 DEF FirstSaid
<1>8. ASSUME NEW z \in For PROVE v = Said(own(z), p)
  <2>1. \A y \in For : y = z
    BY NotRefused, OneZone DEF For
  <2>2. PICK k \in DOMAIN zoneOrder : zoneOrder[k] = z
    BY <1>3, <1>4
  <2>3. CASE v = "none"
    BY <1>5, <1>6, <2>2, <2>3 DEF FirstSaid
  <2>4. CASE v # "none"
    <3>1. PICK i \in DOMAIN ss : Said(ss[i], p) = v
      BY <1>6, <2>4 DEF FirstSaid
    <3>2. zoneOrder[i] \in For /\ v = Said(own(zoneOrder[i]), p)
      BY <1>5, <2>4, <3>1
    <3> QED BY <2>1, <3>2
  <2> QED BY <2>3, <2>4
<1> QED BY <1>1, <1>6, <1>7, <1>8 DEF own, For, v

(* A migration from firewalld into the defaults.                           *)
LEMMA FirewalldImported ==
    ASSUME ImportKnown, Imported("firewalld"), opts.replace
    PROVE  /\ ZonesTyped(config.conf) /\ ~Refused(config.conf)
           /\ \A f \in Family :
                 merged.rules[f] = mergeRules(<<>>, FirewalldRules(config.conf, f))
           /\ merged = [rules |-> merged.rules, policies |-> merged.policies, ipv6 |-> merged.ipv6]
<1>1. /\ config \in Config /\ config.manager = "firewalld" /\ Base = Default
      /\ merged = Read(config, Base) /\ merged # Failed /\ Base \in Prior \cup {Default}
  BY DEF ImportKnown, Imported, Base
<1>2. ZonesTyped(config.conf)
  BY <1>1, MigrationAssumption DEF ZonesTyped
<1>3. merged = ImportFirewalld(config.conf, Defaults, Failed)
  BY <1>1, MigrationAssumption DEF importSystemFirewall
<1>4. ~Refused(config.conf)
  BY <1>1, <1>3 DEF ImportFirewalld
<1> DEFINE list(f) == FirewalldRules(config.conf, f)
<1>5. merged = [Defaults EXCEPT !.rules = [f \in Family |-> mergeRules(@[f], list(f))],
                                !.ipv6 = TRUE]
  BY <1>3, <1>4, Zenon DEF ImportFirewalld
<1>6. /\ \A f \in Family : Defaults.rules[f] = <<>>
      /\ Defaults \in State
  BY DEF Defaults, State, Dir, Verdict, Family
<1> HIDE DEF list
<1>7. /\ \A f \in Family : merged.rules[f] = mergeRules(<<>>, list(f))
      /\ merged = [rules |-> merged.rules, policies |-> merged.policies, ipv6 |-> merged.ipv6]
  BY <1>5, <1>6 DEF State
<1> QED BY <1>2, <1>4, <1>7 DEF list

(* What firewalld's elements say of a packet.                              *)
LEMMA HitElement ==
    ASSUME NEW conf, ZonesTyped(conf), NEW p, ZoneOf(conf, p) \in DOMAIN zonesOf(conf)
    PROVE  LET elems == zonesOf(conf)[ZoneOf(conf, p)].elems
               hit(i) == Catches(elems[i], p)
           IN  Hit(conf, p, {"allow"}) /\ ~Denied(conf, p)
               <=> /\ \E i \in DOMAIN elems : hit(i) /\ elems[i].act = "allow"
                   /\ ~\E i \in DOMAIN elems : hit(i) /\ elems[i].act # "allow"
<1> DEFINE elems == zonesOf(conf)[ZoneOf(conf, p)].elems
<1>1. elems \in Seq(Element)
  BY DEF ZonesTyped, fwZone
<1>2. \A i \in DOMAIN elems : elems[i].act \in Verdict
  <2>1. \A i \in DOMAIN elems : elems[i] \in Element
    BY <1>1
  <2> HIDE DEF elems
  <2> QED BY <2>1 DEF Element
<1>3. ASSUME NEW S
      PROVE  Hit(conf, p, S) <=> \E i \in DOMAIN elems : Catches(elems[i], p) /\ elems[i].act \in S
  BY Zenon DEF Hit, Range
<1> HIDE DEF elems
<1>4. /\ Hit(conf, p, {"allow"})
         <=> \E i \in DOMAIN elems : Catches(elems[i], p) /\ elems[i].act = "allow"
      /\ Denied(conf, p)
         <=> \E i \in DOMAIN elems : Catches(elems[i], p) /\ elems[i].act # "allow"
  BY <1>2, <1>3 DEF Denied
<1> QED BY <1>4 DEF elems

(* It decides as firewalld did.                                            *)
LEMMA FirewalldNow == ImportKnown => FirewalldKept
<1> SUFFICES ASSUME ImportKnown, Imported("firewalld"), opts.replace, DeniesFirst(config.conf),
                    \A f \in Family : ~Contradictory(FirewalldRules(config.conf, f)),
                    NEW p \in Packet, NEW etc \in EtcFile, p.dir = "in", ~Aside(etc, p)
             PROVE  /\ InForce(merged, etc).policies["in"] # "allow"
                         /\ Decide(merged, etc, p) = "allow"
                       => FwAccepts(config.conf, p)
                    /\ ZonesFor(config.conf, p) # {} /\ FwStates(config.conf, p)
                       => Decide(merged, etc, p) = "allow"
  BY Zenon DEF FirewalldKept, Narrow, Wide
<1> DEFINE conf == config.conf
           f == p.family
           stock == f = "v6" /\ conf.policy /\ p.service \in PolicyService
           zs == ZonesFor(conf, p)
           v == Said(emitZones(conf, f), p)
<1>1. /\ ZonesTyped(conf) /\ ~Refused(conf) /\ f \in Family
      /\ merged.rules[f] = mergeRules(<<>>, FirewalldRules(conf, f))
      /\ merged = [rules |-> merged.rules, policies |-> merged.policies, ipv6 |-> merged.ipv6]
  BY FirewalldImported DEF Packet
<1>2. /\ emitZones(conf, f) \in Seq(Rule)
      /\ zs = {} => v = "none"
      /\ \A z \in zs : v = "allow" <=> Said(zoneRules(conf, z, f), p) = "allow"
  BY <1>1, ZonesSaid
<1>3. /\ policyRules(conf, f) \in Seq(Rule)
      /\ Said(policyRules(conf, f), p) = IF stock THEN "allow" ELSE "none"
  <2> DEFINE r == [dir |-> "in", iface |-> "any", src |-> Addr, bySet |-> FALSE,
                   services |-> PolicyService, act |-> "allow", policy |-> FALSE]
  <2>1. r \in Rule
    BY FirewalldAssumption DEF Rule, Dir, Verdict
  <2>2. Matches(r, p) <=> p.service \in PolicyService
    BY DEF Matches, Packet
  <2>3. r.dir = p.dir /\ r.act = "allow"
    OBVIOUS
  <2>4. policyRules(conf, f) = IF f = "v6" /\ conf.policy THEN Append(<<>>, r) ELSE <<>>
    BY DEF policyRules
  <2> HIDE DEF r
  <2>5. Said(Append(<<>>, r), p) = IF p.service \in PolicyService THEN "allow" ELSE "none"
    <3>1. <<>> \in Seq(Rule)
      OBVIOUS
    <3>2. Said(Append(<<>>, r), p) =
              IF Said(<<>>, p) # "none" THEN Said(<<>>, p)
              ELSE IF r.dir = p.dir /\ Matches(r, p) THEN r.act ELSE "none"
      BY <2>1, <3>1, SaidAppend
    <3> QED BY <2>2, <2>3, <3>2, SaidEmpty
  <2>6. Append(<<>>, r) \in Seq(Rule) /\ <<>> \in Seq(Rule)
    BY <2>1
  <2> HIDE DEF conf, f
  <2>7. CASE f = "v6" /\ conf.policy
    BY <2>4, <2>5, <2>6, <2>7
  <2>8. CASE ~(f = "v6" /\ conf.policy)
    BY <2>4, <2>6, <2>8, SaidEmpty
  <2> QED BY <2>7, <2>8
<1>4. /\ FirewalldRules(conf, f) \in Seq(Rule)
      /\ Said(FirewalldRules(conf, f), p) = IF stock THEN "allow" ELSE v
  <2>1. FirewalldRules(conf, f) = policyRules(conf, f) \o emitZones(conf, f)
    BY DEF FirewalldRules
  <2> HIDE DEF stock
  <2> QED BY <1>2, <1>3, <2>1, SaidConcat
<1>5. Said(merged.rules[f], p) = IF stock THEN "allow" ELSE v
  BY <1>1, <1>4, MergedSaid
<1>6. Decide(merged, etc, p) = IF stock THEN "allow" ELSE IF v # "none" THEN v
                               ELSE InForce(merged, etc).policies["in"]
  <2>1. merged.rules[f] \in Seq(Rule)
    <3>1. <<>> \in Seq(Rule)
      OBVIOUS
    <3>2. MergedRight(FirewalldRules(conf, f), <<>>)
      BY <1>4, <3>1, MergedFold
    <3> QED BY <1>1, <3>2 DEF MergedRight
  <2>2. Decide(merged, etc, p) = IF Said(merged.rules[f], p) = "none"
                                 THEN InForce(merged, etc).policies[p.dir]
                                 ELSE Said(merged.rules[f], p)
    BY <1>1, <2>1, DecideSaid
  <2> HIDE DEF stock, v
  <2> QED BY <1>5, <2>2
<1>7. stock => FwStates(conf, p)
  BY DEF FwStates
<1>8. ASSUME zs # {} PROVE v = "allow" /\ ~stock <=> FwStates(conf, p) /\ ~stock
  <2> DEFINE z == ZoneOf(conf, p)
             elems == zonesOf(conf)[z].elems
             meant == /\ \E i \in DOMAIN elems : Catches(elems[i], p) /\ elems[i].act = "allow"
                      /\ ~\E i \in DOMAIN elems : Catches(elems[i], p) /\ elems[i].act # "allow"
  <2>1. z \in zs
    <3>1. z = CHOOSE y \in zs : TRUE
      BY <1>8 DEF ZoneOf
    <3> HIDE DEF zs, z
    <3> QED BY <1>8, <3>1
  <2>2. z \in activeZones(conf)
    BY <2>1 DEF ZonesFor
  <2>3. z \in DOMAIN zonesOf(conf)
    BY <1>1, <2>2, NotRefused
  <2>4. FwStates(conf, p) <=> stock \/ meant
    <3>1. Hit(conf, p, {"allow"}) /\ ~Denied(conf, p) <=> meant
      BY <1>1, <2>3, HitElement
    <3> HIDE DEF meant
    <3> QED BY <3>1 DEF FwStates
  <2>5. LET es == zonesOf(conf)[z].elems
        IN  \A i, j \in DOMAIN es : i < j /\ es[i].act = "allow" => es[j].act = "allow"
    BY <2>2, Zenon DEF DeniesFirst
  <2>6. Said(zoneRules(conf, z, f), p) = "allow" <=> meant
    <3> HIDE DEF z, conf
    <3> QED BY <1>1, <2>1, <2>2, <2>5, ZoneRulesSaid
  <2>7. v = "allow" <=> Said(zoneRules(conf, z, f), p) = "allow"
    BY <1>2, <2>1
  <2> QED BY <2>4, <2>6, <2>7
<1>9. FwStates(conf, p) => FwAccepts(conf, p)
  BY DEF FwAccepts
<1> HIDE DEF v, stock
<1>10. zs = {} => v = "none"
  BY <1>2
<1> HIDE DEF zs
<1> QED BY <1>6, <1>7, <1>8, <1>9, <1>10 DEF zs

(* Whatever a takeover that replaces the old rules imports from firewalld, *)
(* an incoming connection asked of the rules is allowed where an element   *)
(* of firewalld's accepted it, for the bindings of its zones, and only     *)
(* where firewalld did while the policy in force is not to allow: provided *)
(* that no rules of one family contradict each other and what denies       *)
(* stands first in a zone.                                                 *)
THEOREM FirewalldAgrees == Spec => []FirewalldKept
BY Known, FirewalldNow, PTL

=============================================================================
