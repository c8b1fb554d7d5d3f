---------------------------- MODULE CommandsProof ----------------------------
(***************************************************************************)
(* Proofs about Commands for any number of processes and items.            *)
(***************************************************************************)
EXTENDS Commands, TLAPS

(* Which command can be at which point. *)
ControlInv == \A p \in Proc : op[p] \in OpsAt[pc[p]]

(* The defaults are a state. *)
LEMMA DefaultsType == Defaults \in State
  BY PolicyAssumption DEF Defaults, State

(* Flushed tables are a kernel. *)
LEMMA NoTablesType == NoTables \in Kernel
  BY PolicyAssumption DEF NoTables, Kernel

(* A command turns a state into states. *)
LEMMA ResultsType ==
    ASSUME NEW o \in Op, NEW s \in State, NEW gone \in SUBSET Item,
           NEW r \in Results(o, s, gone)
    PROVE  r \in State
  BY DEF Results

(* Sweeping keeps the type. *)
LEMMA SweepType ==
    ASSUME NEW s \in State, NEW gone
    PROVE  Sweep(s, gone) \in State
  BY DEF Sweep, State

(* Apply turns a kernel into a kernel. *)
LEMMA ApplyType ==
    ASSUME NEW k \in Kernel, NEW s \in State, NEW e \in Policy, NEW gone
    PROVE  Apply(k, s, e, gone) \in Kernel
  BY ItemAssumption, PolicyAssumption DEF Apply, Kernel, State

(* The control points, listed. *)
LEMMA PointType ==
    Point = {"idle", "lock", "load", "commit", "start", "apply", "frag", "save",
             "etc", "etc2", "etc3", "live", "stop", "wipe", "yes", "yes2", "no", "clear",
             "ok", "end"}
  BY DEF Point, OpsAt

(* Type correctness: in every reachable state, for any number of processes *)
(* and items, the files hold well-formed values and no command is at a     *)
(* point, or holds a state, that does not exist.                           *)
THEOREM Typing == Spec => []TypeOK
<1>1. Init => TypeOK
  <2>2. "none" \in Op /\ "idle" \in Point
    BY PointType DEF Op
  <2> SUFFICES ASSUME Init PROVE TypeOK
    OBVIOUS
  <2>3. rules \in State /\ st \in [Proc -> State]
    BY DefaultsType DEF Init
  <2>4. pc \in [Proc -> Point] /\ op \in [Proc -> Op]
    BY <2>2 DEF Init
  <2>5. etc \in Policy /\ conf \in BOOLEAN /\ kernel \in Kernel /\ stray \in BOOLEAN
    BY NoTablesType, PolicyAssumption DEF Init
  <2>6. lock \in Proc \cup {Nobody} /\ expired \in SUBSET Item
    BY DEF Init
  <2>7. QED
    BY <2>3, <2>4, <2>5, <2>6 DEF TypeOK
<1>2. TypeOK /\ [Next]_vars => TypeOK'
  <2> SUFFICES ASSUME TypeOK, [Next]_vars PROVE TypeOK'
    OBVIOUS
  <2> USE PointType DEF TypeOK, Goto, shared
  <2>e. \A p \in Proc : Exit(p) => pc' \in [Proc -> Point] /\ op' \in [Proc -> Op]
                                   /\ st' \in [Proc -> State]
    BY DefaultsType DEF Exit, Op
  <2>1. ASSUME NEW p \in Proc, Invoke(p) PROVE TypeOK'
    BY <2>1, CmdsAssumption DEF Invoke
  <2>2. ASSUME NEW p \in Proc, AcquireLock(p) PROVE TypeOK'
    BY <2>2 DEF AcquireLock
  <2>3. ASSUME NEW p \in Proc, LockBusy(p) \/ GiveUp(p) \/ Release(p) \/ Crash(p)
        PROVE TypeOK'
    BY <2>3, <2>e DEF LockBusy, GiveUp, Release, Crash
  <2>4. ASSUME NEW p \in Proc, LoadState(p) PROVE TypeOK'
    BY <2>4, ResultsType DEF LoadState, AfterLoad
  <2>5. ASSUME NEW p \in Proc, Dispatch(p) \/ Refuse(p) PROVE TypeOK'
    BY <2>5 DEF Dispatch, Refuse
  <2>6. ASSUME NEW p \in Proc, Commit(p) PROVE TypeOK'
    BY <2>6, SweepType DEF Commit
  <2>7. ASSUME NEW p \in Proc, StartFirewall(p) PROVE TypeOK'
    BY <2>7 DEF StartFirewall
  <2>8. ASSUME NEW p \in Proc, ApplyRuleset(p) PROVE TypeOK'
    BY <2>8, ApplyType DEF ApplyRuleset
  <2>9. ASSUME NEW p \in Proc, ApplyFails(p) \/ Fragments(p) \/ SaveFails(p)
                               \/ Live(p) \/ StopFails(p)
        PROVE TypeOK'
    BY <2>9 DEF ApplyFails, Fragments, SaveFails, Live, StopFails, AfterApply
  <2>10. ASSUME NEW p \in Proc, FragmentFails(p) \/ ClearPanic(p) \/ StopFirewall(p)
         PROVE TypeOK'
    BY <2>10, NoTablesType DEF FragmentFails, ClearPanic, StopFirewall
  <2>11. ASSUME NEW p \in Proc, Save(p) \/ Wipe(p) PROVE TypeOK'
    BY <2>11, DefaultsType DEF Save, Wipe, AfterSave
  <2>12. ASSUME NEW p \in Proc, ReadEtc(p) \/ TruncateEtc(p) \/ WriteEtc(p) PROVE TypeOK'
    BY <2>12, PolicyAssumption DEF ReadEtc, TruncateEtc, WriteEtc, State
  <2>13. ASSUME NEW p \in Proc, TruncateConf(p) \/ WriteConf(p) PROVE TypeOK'
    BY <2>13 DEF TruncateConf, WriteConf, AfterConf
  <2>14. CASE Reboot
    BY <2>14, DefaultsType, NoTablesType DEF Reboot, Op
  <2>15. CASE Expire
    BY <2>15 DEF Expire
  <2>16. CASE UNCHANGED vars
    BY <2>16 DEF vars
  <2>17. QED
    BY <2>1, <2>2, <2>3, <2>4, <2>5, <2>6, <2>7, <2>8, <2>9, <2>10, <2>11, <2>12,
       <2>13, <2>14, <2>15, <2>16 DEF Next, Step
<1>3. QED
  BY <1>1, <1>2, PTL DEF Spec

-----------------------------------------------------------------------------
(* The control flow: no command strays to a point of another, and the      *)
(* flock is held exactly between acquireLock and release.                  *)

ControlLock == TypeOK /\ ControlInv /\ LockInv

(* Both hold initially. *)
LEMMA ControlInit == Init => ControlInv /\ LockInv
<1> SUFFICES ASSUME Init PROVE ControlInv /\ LockInv
  OBVIOUS
<1>1. ControlInv
  BY DEF Init, ControlInv, OpsAt
<1>2. LockInv
  BY ProcAssumption DEF Init, LockInv, Holds
<1>3. QED
  BY <1>1, <1>2

(* Every step keeps them. *)
LEMMA ControlStep ==
    ASSUME TypeOK, ControlInv, LockInv, [Next]_vars
    PROVE  ControlInv' /\ LockInv'
<1> USE DEF TypeOK, ControlInv, LockInv, OpsAt, Holds, Goto, shared,
            CommitOps, SaveFirst, Starters, LockFirst, LoadFirst, Lockless
<1>1. ASSUME NEW p \in Proc, Invoke(p) PROVE ControlInv' /\ LockInv'
  BY <1>1, CmdsAssumption DEF Invoke, Op
<1>2. ASSUME NEW p \in Proc, AcquireLock(p) PROVE ControlInv' /\ LockInv'
  BY <1>2, ProcAssumption DEF AcquireLock, Op
<1>3. ASSUME NEW p \in Proc, LockBusy(p) \/ GiveUp(p) \/ Release(p) \/ Crash(p)
      PROVE ControlInv' /\ LockInv'
  <2>1. /\ pc' = [pc EXCEPT ![p] = "idle"] /\ op' = [op EXCEPT ![p] = "none"]
        /\ lock' = IF lock = p THEN Nobody ELSE lock
    BY <1>3, ProcAssumption DEF LockBusy, GiveUp, Release, Crash, Exit
  <2>2. ControlInv'
    BY <2>1 DEF Op
  <2>3. LockInv'
    BY <2>1, ProcAssumption DEF Op
  <2>4. QED
    BY <2>2, <2>3
<1>4. ASSUME NEW p \in Proc, LoadState(p) PROVE ControlInv' /\ LockInv'
  BY <1>4 DEF LoadState, AfterLoad, Op
<1>5. ASSUME NEW p \in Proc, Dispatch(p) \/ Refuse(p) PROVE ControlInv' /\ LockInv'
  BY <1>5 DEF Dispatch, Refuse, Op
<1>6. ASSUME NEW p \in Proc, Commit(p) \/ StartFirewall(p)
      PROVE ControlInv' /\ LockInv'
  <2>1. CASE Commit(p)
    BY <2>1 DEF Commit, Op
  <2>2. CASE StartFirewall(p)
    BY <2>2 DEF StartFirewall, Op
  <2>3. QED
    BY <1>6, <2>1, <2>2
<1>7. ASSUME NEW p \in Proc, ApplyRuleset(p) \/ ApplyFails(p)
      PROVE ControlInv' /\ LockInv'
  BY <1>7 DEF ApplyRuleset, ApplyFails, Op
<1>8. ASSUME NEW p \in Proc, Fragments(p) \/ FragmentFails(p)
      PROVE ControlInv' /\ LockInv'
  BY <1>8 DEF Fragments, FragmentFails, AfterApply, Op
<1>9. ASSUME NEW p \in Proc, Save(p) \/ SaveFails(p) \/ Wipe(p)
      PROVE ControlInv' /\ LockInv'
  BY <1>9 DEF Save, SaveFails, Wipe, AfterSave, Op
<1>10. ASSUME NEW p \in Proc, ReadEtc(p) \/ TruncateEtc(p) \/ WriteEtc(p) \/ TruncateConf(p)
                              \/ WriteConf(p)
       PROVE ControlInv' /\ LockInv'
  BY <1>10 DEF ReadEtc, TruncateEtc, WriteEtc, TruncateConf, WriteConf, AfterConf, Op
<1>11. ASSUME NEW p \in Proc, Live(p) \/ ClearPanic(p)
       PROVE ControlInv' /\ LockInv'
  BY <1>11 DEF Live, ClearPanic, Op
<1>12. ASSUME NEW p \in Proc, StopFirewall(p) \/ StopFails(p)
       PROVE ControlInv' /\ LockInv'
  BY <1>12 DEF StopFirewall, StopFails, Op
<1>13. CASE Reboot
  BY <1>13, ProcAssumption DEF Reboot
<1>14. CASE Expire \/ UNCHANGED vars
  BY <1>14 DEF Expire, vars
<1>15. QED
  BY <1>1, <1>2, <1>3, <1>4, <1>5, <1>6, <1>7, <1>8, <1>9, <1>10, <1>11, <1>12,
     <1>13, <1>14 DEF Next, Step

(* At most one process at a time is between acquireLock and its release,   *)
(* whatever commands run and whatever fails, crashes or reboots.           *)
THEOREM MutualExclusion == Spec => []LockInv
<1>1. TypeOK /\ ControlInv /\ LockInv /\ [Next]_vars => ControlInv' /\ LockInv'
  BY ControlStep
<1>2. QED
  BY <1>1, ControlInit, Typing, PTL DEF Spec
-----------------------------------------------------------------------------
(* A command that loads under the lock saves a change of the current state. *)

NoLockless == \A p \in Proc : op[p] \notin Lockless

(* What a command may do late it may do early: expiry only takes away.     *)
LEMMA ResultsAnyTime ==
    ASSUME NEW o, NEW s \in State, NEW gone \in SUBSET Item,
           NEW r \in Results(o, s, gone)
    PROVE  r \in Results(o, s, {})
  BY DEF Results, ItemChange, Imported

(* Nothing expired, nothing swept. *)
LEMMA SweepNothing ==
    ASSUME NEW s \in State
    PROVE  Sweep(s, {}) = s
  BY DEF Sweep, State

(* Two sweeps are one. *)
LEMMA SweepTwice ==
    ASSUME NEW s \in State, NEW a, NEW b
    PROVE  Sweep(Sweep(s, a), b) = Sweep(s, a \cup b)
  BY DEF Sweep, State

(* The flock keeps the others from writing rules.json while p has its new  *)
(* state in memory.                                                        *)
LEMMA OneUnsaved ==
    ASSUME LockInv, ControlInv, NEW p \in Proc, NEW q \in Proc,
           op[q] \in LockFirst, Unsaved(q), Holds(p)
    PROVE  p = q
<1>1. Holds(q)
  BY DEF Unsaved, Holds, LockFirst, LoadFirst, Lockless
<1>2. QED
  BY <1>1 DEF LockInv

(* Every step keeps HolderSeesCurrent: a step of p by cases on q = p; the  *)
(* writes of rules.json by OneUnsaved.                                     *)
LEMMA CurrentStep ==
    ASSUME TypeOK, ControlInv, LockInv, NoLockless, HolderSeesCurrent, [Next]_vars
    PROVE  HolderSeesCurrent'
<1> SUFFICES ASSUME NEW q \in Proc, op'[q] \in LockFirst, Unsaved(q)'
             PROVE  st'[q] \in Updates(op[q], rules)' /\ op'[q] = op[q]
  BY DEF HolderSeesCurrent, Updates
<1> USE DEF TypeOK, Goto, shared
<1>s. ASSUME UNCHANGED <<rules, st, op>>, expired \subseteq expired', Unsaved(q)
      PROVE  st'[q] \in Updates(op[q], rules)' /\ op'[q] = op[q]
  BY <1>s DEF HolderSeesCurrent, Updates
<1>1. ASSUME NEW p \in Proc, Invoke(p) \/ AcquireLock(p)
      PROVE  st'[q] \in Updates(op[q], rules)' /\ op'[q] = op[q]
  <2>1. Unsaved(q) /\ UNCHANGED <<rules, st, expired>> /\ op'[q] = op[q]
    BY <1>1 DEF Invoke, AcquireLock, Unsaved, LockFirst, LoadFirst
  <2>2. QED
    BY <2>1 DEF HolderSeesCurrent, Updates
<1>2. ASSUME NEW p \in Proc, LockBusy(p) \/ GiveUp(p) \/ Release(p) \/ Crash(p)
      PROVE  st'[q] \in Updates(op[q], rules)' /\ op'[q] = op[q]
  <2>1. q # p /\ Unsaved(q) /\ UNCHANGED <<rules, expired>>
        /\ st'[q] = st[q] /\ op'[q] = op[q]
    BY <1>2 DEF LockBusy, GiveUp, Release, Crash, Exit, Unsaved
  <2>2. QED
    BY <2>1 DEF HolderSeesCurrent, Updates
<1>3. ASSUME NEW p \in Proc, LoadState(p)
      PROVE  st'[q] \in Updates(op[q], rules)' /\ op'[q] = op[q]
  <2>1. CASE q = p
    <3>1. PICK r \in Results(op[p], rules, expired) : st' = [st EXCEPT ![p] = r]
      BY <1>3 DEF LoadState
    <3>2. r \in Results(op[p], rules, {})
      BY <3>1, ResultsAnyTime
    <3>3. r = Sweep(r, {})
      BY <3>1, ResultsType, SweepNothing
    <3>4. r \in Updates(op[p], rules)
      BY <3>2, <3>3 DEF Updates
    <3>5. UNCHANGED <<rules, expired, op>> /\ st'[q] = r
      BY <1>3, <2>1, <3>1 DEF LoadState
    <3>6. QED
      BY <2>1, <3>4, <3>5 DEF Updates
  <2>2. CASE q # p
    <3>1. Unsaved(q) /\ UNCHANGED <<rules, expired, op>> /\ st'[q] = st[q]
      BY <1>3, <2>2 DEF LoadState, Unsaved
    <3>2. QED
      BY <3>1 DEF HolderSeesCurrent, Updates
  <2>3. QED
    BY <2>1, <2>2
<1>4. ASSUME NEW p \in Proc, Commit(p)
      PROVE  st'[q] \in Updates(op[q], rules)' /\ op'[q] = op[q]
  <2>1. UNCHANGED <<rules, expired, op>>
    BY <1>4 DEF Commit
  <2>2. Unsaved(q)
    BY <1>4 DEF Commit, Unsaved
  <2>3. PICK r \in Results(op[q], rules, {}), d \in SUBSET expired : st[q] = Sweep(r, d)
    BY <2>1, <2>2 DEF HolderSeesCurrent, Updates
  <2>4. CASE q = p
    <3>1. st'[q] = Sweep(st[q], expired)
      BY <1>4, <2>4 DEF Commit
    <3>2. r \in State
      BY <2>3 DEF Results
    <3>3. st'[q] = Sweep(r, d \cup expired)
      BY <2>3, <3>1, <3>2, SweepTwice
    <3>4. QED
      BY <2>1, <2>3, <3>3 DEF Updates
  <2>5. CASE q # p
    BY <1>4, <2>1, <2>3, <2>5 DEF Commit, Updates
  <2>6. QED
    BY <2>4, <2>5
<1>5. ASSUME NEW p \in Proc, StartFirewall(p)
      PROVE  st'[q] \in Updates(op[q], rules)' /\ op'[q] = op[q]
  <2>1. q # p
    BY <1>5 DEF StartFirewall, Unsaved, ControlInv, OpsAt, Starters, CommitOps
  <2>2. Unsaved(q) /\ UNCHANGED <<rules, expired, op>> /\ st'[q] = st[q]
    BY <1>5, <2>1 DEF StartFirewall, Unsaved
  <2>3. QED
    BY <2>2 DEF HolderSeesCurrent, Updates
<1>6. ASSUME NEW p \in Proc, Dispatch(p) \/ Refuse(p) \/ ApplyRuleset(p)
                             \/ ApplyFails(p) \/ SaveFails(p) \/ FragmentFails(p)
      PROVE  st'[q] \in Updates(op[q], rules)' /\ op'[q] = op[q]
  <2>1. Unsaved(q) /\ UNCHANGED <<rules, expired, op, st>>
    BY <1>6 DEF Dispatch, Refuse, ApplyRuleset, ApplyFails, SaveFails, FragmentFails,
                Unsaved
  <2>2. QED
    BY <1>s, <2>1
<1>7. ASSUME NEW p \in Proc, Fragments(p)
      PROVE  st'[q] \in Updates(op[q], rules)' /\ op'[q] = op[q]
  <2>1. Unsaved(q) /\ UNCHANGED <<rules, expired, op, st>>
    BY <1>7 DEF Fragments, AfterApply, Unsaved
  <2>2. QED
    BY <1>s, <2>1
<1>8. ASSUME NEW p \in Proc, Save(p) \/ Wipe(p)
      PROVE  st'[q] \in Updates(op[q], rules)' /\ op'[q] = op[q]
  <2>1. Holds(p) /\ op' = op
    BY <1>8 DEF Save, Wipe, Holds, NoLockless
  <2>2. q # p
    BY <1>8 DEF Save, Wipe, AfterSave, Unsaved
  <2>3. Unsaved(q)
    BY <1>8, <2>2 DEF Save, Wipe, Unsaved
  <2>4. FALSE
    BY <2>1, <2>2, <2>3, OneUnsaved
  <2>5. QED
    BY <2>4
<1>9. ASSUME NEW p \in Proc, ReadEtc(p) \/ TruncateEtc(p) \/ WriteEtc(p) \/ TruncateConf(p)
                             \/ WriteConf(p)
      PROVE  st'[q] \in Updates(op[q], rules)' /\ op'[q] = op[q]
  <2>1. Unsaved(q) /\ UNCHANGED <<rules, expired, op>>
    BY <1>9 DEF ReadEtc, TruncateEtc, WriteEtc, TruncateConf, WriteConf, AfterConf, Unsaved
  <2>2. UNCHANGED st
    BY <1>9 DEF ReadEtc, TruncateEtc, WriteEtc, TruncateConf, WriteConf, NoLockless, Lockless
  <2>3. QED
    BY <1>s, <2>1, <2>2
<1>10. ASSUME NEW p \in Proc, Live(p) \/ ClearPanic(p) \/ StopFirewall(p) \/ StopFails(p)
       PROVE  st'[q] \in Updates(op[q], rules)' /\ op'[q] = op[q]
  <2>1. UNCHANGED <<rules, expired, op, st>>
    BY <1>10 DEF Live, ClearPanic, StopFirewall, StopFails
  <2>2. Unsaved(q)
    BY <1>10 DEF Live, ClearPanic, StopFirewall, StopFails, Unsaved, ControlInv,
                 OpsAt, SaveFirst, CommitOps
  <2>3. QED
    BY <1>s, <2>1, <2>2
<1>11. CASE Reboot
  BY <1>11 DEF Reboot, LockFirst
<1>12. CASE Expire \/ UNCHANGED vars
  <2>1. Unsaved(q) /\ UNCHANGED <<rules, op, st>> /\ expired \subseteq expired'
    BY <1>12 DEF Expire, vars, Unsaved
  <2>2. QED
    BY <1>s, <2>1
<1>13. QED
  BY <1>1, <1>2, <1>3, <1>4, <1>5, <1>6, <1>7, <1>8, <1>9, <1>10, <1>11, <1>12
     DEF Next, Step

(* HolderSeesCurrent holds initially. *)
LEMMA CurrentInit == Init => HolderSeesCurrent
  BY DEF Init, HolderSeesCurrent, Unsaved

(* Without application commands in Cmds no process ever runs one. *)
LEMMA NoLocklessStep ==
    ASSUME Cmds \cap Lockless = {}, TypeOK, NoLockless, [Next]_vars
    PROVE  NoLockless'
<1> USE DEF TypeOK, NoLockless
<1>1. ASSUME NEW p \in Proc, Invoke(p) PROVE NoLockless'
  BY <1>1 DEF Invoke
<1>2. ASSUME NEW p \in Proc, LockBusy(p) \/ GiveUp(p) \/ Release(p) \/ Crash(p)
      PROVE NoLockless'
  BY <1>2 DEF LockBusy, GiveUp, Release, Crash, Exit, Lockless
<1>3. CASE Reboot
  BY <1>3 DEF Reboot, Lockless
<1>4. CASE op' = op
  BY <1>4
<1>5. ASSUME NEW p \in Proc, Step(p)
      PROVE LockBusy(p) \/ GiveUp(p) \/ Release(p) \/ op' = op
  BY <1>5 DEF Step, AcquireLock, LoadState, Dispatch, Refuse, Commit, StartFirewall,
     ApplyRuleset, ApplyFails, Fragments, FragmentFails, Save, SaveFails, Wipe,
     ReadEtc, TruncateEtc, WriteEtc, TruncateConf, WriteConf, Live, ClearPanic, StopFirewall,
     StopFails
<1>6. CASE Expire \/ UNCHANGED vars
  BY <1>4, <1>6 DEF Expire, vars
<1>7. QED
  BY <1>1, <1>2, <1>3, <1>4, <1>5, <1>6 DEF Next

(* Without application commands, which take no lock, a command that loads  *)
(* under the lock saves a change of what rules.json holds at that moment,  *)
(* also next to rule commands, which load before it.                       *)
THEOREM LockedSavesAreCurrent ==
    ASSUME Cmds \cap Lockless = {}
    PROVE  Spec => []HolderSeesCurrent
<1>1. Init => NoLockless
  BY DEF Init, NoLockless, Lockless
<1>2. TypeOK /\ ControlInv /\ LockInv /\ NoLockless /\ HolderSeesCurrent /\ [Next]_vars
      => ControlInv' /\ LockInv' /\ NoLockless' /\ HolderSeesCurrent'
  BY ControlStep, NoLocklessStep, CurrentStep
<1>3. QED
  BY <1>1, <1>2, ControlInit, CurrentInit, Typing, PTL DEF Spec

-----------------------------------------------------------------------------
(* Commands that all load under the lock implement the serial store.       *)

OnlyLockFirst == \A p \in Proc : op[p] \in LockFirst \cup {"none"}

(* With only lock-first commands in Cmds every process runs only those. *)
LEMMA OnlyLockFirstStep ==
    ASSUME Cmds \subseteq LockFirst, TypeOK, OnlyLockFirst, [Next]_vars
    PROVE  OnlyLockFirst'
<1> USE DEF TypeOK, OnlyLockFirst
<1>1. ASSUME NEW p \in Proc, Invoke(p) PROVE OnlyLockFirst'
  BY <1>1 DEF Invoke
<1>2. ASSUME NEW p \in Proc, LockBusy(p) \/ GiveUp(p) \/ Release(p) \/ Crash(p)
      PROVE OnlyLockFirst'
  BY <1>2 DEF LockBusy, GiveUp, Release, Crash, Exit
<1>3. CASE Reboot
  BY <1>3 DEF Reboot
<1>4. CASE op' = op
  BY <1>4
<1>5. ASSUME NEW p \in Proc, Step(p)
      PROVE LockBusy(p) \/ GiveUp(p) \/ Release(p) \/ op' = op
  BY <1>5 DEF Step, AcquireLock, LoadState, Dispatch, Refuse, Commit, StartFirewall,
     ApplyRuleset, ApplyFails, Fragments, FragmentFails, Save, SaveFails, Wipe,
     ReadEtc, TruncateEtc, WriteEtc, TruncateConf, WriteConf, Live, ClearPanic, StopFirewall,
     StopFails
<1>6. CASE Expire \/ UNCHANGED vars
  BY <1>4, <1>6 DEF Expire, vars
<1>7. QED
  BY <1>1, <1>2, <1>3, <1>4, <1>5, <1>6 DEF Next

(* A step that writes rules.json is the effect of the command of the       *)
(* process that takes it.                                                  *)
LEMMA WriteIsEffect ==
    ASSUME TypeOK, ControlInv, HolderSeesCurrent, OnlyLockFirst,
           NEW p \in Proc, Save(p) \/ Wipe(p)
    PROVE  Serial!Effect(p)
<1>1. UNCHANGED <<expired, op>>
  BY DEF Save, Wipe
<1>2. CASE Save(p)
  <2>1. op[p] \in LockFirst /\ Unsaved(p)
    BY <1>2 DEF Save, Unsaved, OnlyLockFirst, ControlInv, OpsAt, CommitOps, SaveFirst
  <2>2. PICK r \in Results(op[p], rules, {}), d \in SUBSET expired : st[p] = Sweep(r, d)
    BY <2>1 DEF HolderSeesCurrent, Updates
  <2>3. rules' = Sweep(r, d)
    BY <1>2, <2>2 DEF Save
  <2>4. QED
    BY <1>1, <2>2, <2>3 DEF Serial!Effect, Serial!Results, Serial!ItemChange,
                            Serial!Imported, Serial!Sweep, Serial!State,
                            Serial!Defaults, Results, ItemChange, Imported, Sweep, State, Defaults
<1>3. CASE Wipe(p)
  <2>1. op[p] = "reset" /\ rules' = Defaults
    BY <1>3 DEF Wipe, ControlInv, OpsAt
  <2>2. Defaults \in Results(op[p], rules, {}) /\ Defaults = Sweep(Defaults, {})
    BY <2>1, DefaultsType, SweepNothing DEF Results
  <2>3. QED
    BY <1>1, <2>1, <2>2 DEF Serial!Effect, Serial!Results, Serial!ItemChange,
                            Serial!Imported, Serial!Sweep, Serial!State,
                            Serial!Defaults, Results, ItemChange, Imported, Sweep, State, Defaults
<1>4. QED
  BY <1>2, <1>3

(* Every step is one of the serial store, or leaves it alone. *)
LEMMA SerialStep ==
    ASSUME TypeOK, ControlInv, HolderSeesCurrent, OnlyLockFirst, [Next]_vars
    PROVE  [Serial!Next]_<<rules, expired, op>>
<1> USE DEF TypeOK
<1>1. ASSUME NEW p \in Proc, Invoke(p) PROVE Serial!Invoke(p)
  <2>1. op[p] = "none"
    BY <1>1 DEF Invoke, ControlInv, OpsAt
  <2>2. PICK o \in Cmds : op' = [op EXCEPT ![p] = o]
    BY <1>1 DEF Invoke
  <2>3. o \in Serial!Op
    BY <2>2, CmdsAssumption DEF Serial!Op, Serial!LockFirst, Serial!LoadFirst,
       Serial!Lockless, Op, LockFirst, LoadFirst, Lockless
  <2>4. UNCHANGED <<rules, expired>>
    BY <1>1 DEF Invoke, shared
  <2>5. QED
    BY <2>1, <2>2, <2>3, <2>4 DEF Serial!Invoke
<1>2. ASSUME NEW p \in Proc, LockBusy(p) \/ GiveUp(p) \/ Release(p) \/ Crash(p)
      PROVE Serial!Return({p})
  <2>1. op' = [op EXCEPT ![p] = "none"] /\ UNCHANGED <<rules, expired>>
    BY <1>2 DEF LockBusy, GiveUp, Release, Crash, Exit, shared
  <2>2. op' = [q \in Proc |-> IF q \in {p} THEN "none" ELSE op[q]]
    BY <2>1
  <2>3. QED
    BY <2>1, <2>2 DEF Serial!Return
<1>3. CASE Reboot
  <2>1. op' = [q \in Proc |-> IF q \in Proc THEN "none" ELSE op[q]]
        /\ UNCHANGED <<rules, expired>>
    BY <1>3 DEF Reboot
  <2>2. Serial!Return(Proc)
    BY <2>1 DEF Serial!Return
  <2>3. QED
    BY <2>2 DEF Serial!Next
<1>4. CASE Expire
  <2>1. Serial!Expire
    BY <1>4 DEF Expire, Serial!Expire, shared
  <2>2. QED
    BY <2>1 DEF Serial!Next
<1>5. ASSUME NEW p \in Proc, Save(p) \/ Wipe(p) PROVE Serial!Effect(p)
  BY <1>5, WriteIsEffect
<1>6. ASSUME NEW p \in Proc, Step(p)
      PROVE \/ LockBusy(p) \/ GiveUp(p) \/ Release(p) \/ Save(p) \/ Wipe(p)
            \/ UNCHANGED <<rules, expired, op>>
  BY <1>6 DEF Step, AcquireLock, LoadState, Dispatch, Refuse, Commit, StartFirewall,
     ApplyRuleset, ApplyFails, Fragments, FragmentFails, SaveFails,
     ReadEtc, TruncateEtc, WriteEtc, TruncateConf, WriteConf, Live, ClearPanic, StopFirewall,
     StopFails, shared
<1>7. ASSUME NEW p \in Proc, Step(p) \/ Invoke(p) \/ Crash(p)
      PROVE  [Serial!Next]_<<rules, expired, op>>
  <2>1. Serial!Invoke(p) \/ Serial!Effect(p) => Serial!Next
    BY DEF Serial!Next
  <2>2. Serial!Return({p}) => Serial!Next
    BY DEF Serial!Next
  <2>3. QED
    BY <1>1, <1>2, <1>5, <1>6, <1>7, <2>1, <2>2
<1>8. CASE UNCHANGED vars
  BY <1>8 DEF vars
<1>9. QED
  BY <1>3, <1>4, <1>7, <1>8 DEF Next

(* Commands that all load under the lock implement the serial store: what  *)
(* rules.json goes through is what it would go through if the commands ran *)
(* one at a time.                                                          *)
THEOREM SerialRefinement ==
    ASSUME Cmds \subseteq LockFirst
    PROVE  Spec => SerialSpec
<1>1. Init => Serial!Init /\ OnlyLockFirst /\ NoLockless
  BY DEF Init, Serial!Init, Defaults, Serial!Defaults, OnlyLockFirst, NoLockless, Lockless
<1>2. Cmds \cap Lockless = {}
  BY DEF LockFirst, Lockless
<1>3. TypeOK /\ ControlInv /\ LockInv /\ NoLockless /\ HolderSeesCurrent
      /\ OnlyLockFirst /\ [Next]_vars
      => /\ ControlInv' /\ LockInv' /\ NoLockless' /\ HolderSeesCurrent' /\ OnlyLockFirst'
         /\ [Serial!Next]_<<rules, expired, op>>
  BY <1>2, ControlStep, NoLocklessStep, CurrentStep, OnlyLockFirstStep, SerialStep
<1>4. QED
  BY <1>1, <1>3, ControlInit, CurrentInit, Typing, PTL DEF Spec, SerialSpec, Serial!Spec

(* Panic mode leaves rules.json only by a command that says so.            *)
LEMMA PanicStep ==
    ASSUME TypeOK, ControlInv, LockInv, NoLockless, HolderSeesCurrent, OnlyLockFirst,
           [Next]_vars, rules.panic, ~rules'.panic
    PROVE  \E p \in Proc : lock = p /\ op[p] \in {"panicOff", "reset", "import"}
<1>1. PICK p \in Proc : Save(p) \/ Wipe(p)
  BY DEF TypeOK, Next, Step, Invoke, Reboot, Expire, vars, Crash,
     LockBusy, GiveUp, Release, AcquireLock, LoadState, Dispatch, Refuse, Commit,
     StartFirewall, ApplyRuleset, ApplyFails, Fragments, FragmentFails, SaveFails,
     ReadEtc, TruncateEtc, WriteEtc, TruncateConf, WriteConf, Live, ClearPanic, StopFirewall,
     StopFails, shared
<1>2. Holds(p)
  BY <1>1 DEF Save, Wipe, Holds, NoLockless
<1>3. lock = p
  BY <1>2 DEF LockInv
<1>4. CASE Save(p)
  <2>1. op[p] \in LockFirst /\ Unsaved(p)
    BY <1>4 DEF Save, Unsaved, OnlyLockFirst, ControlInv, OpsAt, CommitOps, SaveFirst
  <2>2. PICK r \in Results(op[p], rules, {}), d \in SUBSET expired : st[p] = Sweep(r, d)
    BY <2>1 DEF HolderSeesCurrent, Updates
  <2>3. r \in State /\ ~r.panic
    BY <1>4, <2>2 DEF Save, Sweep, State, Results
  <2>4. op[p] \in {"panicOff", "reset", "import"}
    BY <2>2, <2>3 DEF TypeOK, State, Results, ItemChange
  <2>5. QED
    BY <1>3, <2>4
<1>5. CASE Wipe(p)
  BY <1>3, <1>5 DEF Wipe, ControlInv, OpsAt
<1>6. QED
  BY <1>1, <1>4, <1>5

(* With commands that load under the lock, panic mode leaves rules.json    *)
(* only by panic off, reset or import, run by the holder of the lock.      *)
THEOREM PanicStays ==
    ASSUME Cmds \subseteq LockFirst
    PROVE  Spec => PanicSticky
<1>1. Init => OnlyLockFirst /\ NoLockless
  BY DEF Init, OnlyLockFirst, NoLockless, Lockless
<1>2. Cmds \cap Lockless = {}
  BY DEF LockFirst, Lockless
<1>3. TypeOK /\ ControlInv /\ LockInv /\ NoLockless /\ HolderSeesCurrent
      /\ OnlyLockFirst /\ [Next]_vars
      => /\ ControlInv' /\ LockInv' /\ NoLockless' /\ HolderSeesCurrent' /\ OnlyLockFirst'
         /\ [rules.panic /\ ~rules'.panic =>
               \E p \in Proc : lock = p /\ op[p] \in {"panicOff", "reset", "import"}]_rules
  BY <1>2, ControlStep, NoLocklessStep, CurrentStep, OnlyLockFirstStep, PanicStep
<1>4. QED
  BY <1>1, <1>3, ControlInit, CurrentInit, Typing, PTL DEF Spec, PanicSticky

-----------------------------------------------------------------------------
(* Commands that apply before they save never leave rules.json ahead of    *)
(* the kernel.                                                             *)

ApplyFirst == CommitOps \cup {"enable", "disable", "reload", "bootLoad", "bootUnload"}

OnlyApplyFirst == \A p \in Proc : op[p] \in ApplyFirst \cup {"none"}

(* What a table shows it still shows when more items have expired.         *)
LEMMA ShowsLater ==
    ASSUME NEW k, NEW s, NEW e, NEW gone, NEW later, gone \subseteq later,
           Shows(k, s, e, gone)
    PROVE  Shows(k, s, e, later)
  BY DEF Shows

(* Apply leaves the table showing the state it was given.                  *)
LEMMA ApplyShows ==
    ASSUME NEW k \in Kernel, NEW s \in State, NEW e \in Policy, NEW gone
    PROVE  Shows(Apply(k, s, e, gone), s, e, gone)
  BY DEF Shows, Apply, State

(* A command of the set stays one of the set.                              *)
LEMMA OnlyApplyFirstStep ==
    ASSUME Cmds \subseteq ApplyFirst, TypeOK, OnlyApplyFirst, [Next]_vars
    PROVE  OnlyApplyFirst'
<1> USE DEF TypeOK, OnlyApplyFirst
<1>1. ASSUME NEW p \in Proc, Invoke(p) PROVE OnlyApplyFirst'
  BY <1>1 DEF Invoke
<1>2. ASSUME NEW p \in Proc, LockBusy(p) \/ GiveUp(p) \/ Release(p) \/ Crash(p)
      PROVE OnlyApplyFirst'
  BY <1>2 DEF LockBusy, GiveUp, Release, Crash, Exit
<1>3. CASE Reboot
  BY <1>3 DEF Reboot
<1>4. CASE op' = op
  BY <1>4
<1>5. ASSUME NEW p \in Proc, Step(p)
      PROVE LockBusy(p) \/ GiveUp(p) \/ Release(p) \/ op' = op
  BY <1>5 DEF Step, AcquireLock, LoadState, Dispatch, Refuse, Commit, StartFirewall,
     ApplyRuleset, ApplyFails, Fragments, FragmentFails, Save, SaveFails, Wipe,
     ReadEtc, TruncateEtc, WriteEtc, TruncateConf, WriteConf, Live, ClearPanic, StopFirewall,
     StopFails
<1>6. CASE Expire \/ UNCHANGED vars
  BY <1>4, <1>6 DEF Expire, vars
<1>7. QED
  BY <1>1, <1>2, <1>3, <1>4, <1>5, <1>6 DEF Next

(* A step of p outside the lock disturbs no holder of it.                  *)
LEMMA Frame ==
    ASSUME TypeOK, KernelInv, NEW q \in Proc, Holds(q), UNCHANGED shared,
           expired \subseteq expired',
           pc'[q] = pc[q], op'[q] = op[q], st'[q] = st[q]
    PROVE  HolderKnows(q)'
<1>1. HolderKnows(q)
  BY DEF KernelInv
<1>2. \A s : Shows(kernel, s, etc, expired) => Shows(kernel, s, etc, expired)'
  BY ShowsLater DEF shared
<1>3. AtRest => AtRest'
  BY <1>2 DEF AtRest, shared
<1>4. QED
  BY <1>1, <1>2, <1>3 DEF HolderKnows, shared

(* Only the holder of the lock is beyond acquireLock, so a step of p there *)
(* leaves p alone to keep the invariant.                                   *)
LEMMA OneHolder ==
    ASSUME TypeOK, LockInv, NEW p \in Proc, Holds(p), NEW q \in Proc, q # p,
           pc'[q] = pc[q], op'[q] = op[q]
    PROVE  ~Holds(q)'
  BY DEF LockInv, Holds

(* A step of the holder of the lock: what it knows afterwards, and that it *)
(* leaves the firewall at rest when it releases the lock.                  *)
LEMMA HolderStep ==
    ASSUME TypeOK, ControlInv, LockInv, OnlyApplyFirst, KernelInv,
           Faults \cap {"save", "crash"} = {},
           NEW p \in Proc, Step(p), Holds(p)
    PROVE  (Holds(p)' => HolderKnows(p)') /\ (lock' = Nobody => AtRest')
<1> USE DEF TypeOK, Goto, shared
<1>k. HolderKnows(p) /\ lock = p /\ lock # Nobody
  BY ProcAssumption DEF KernelInv, LockInv
<1>o. op[p] \in ApplyFirst /\ op[p] \in OpsAt[pc[p]]
  <2>1. op[p] # "none"
    BY PointType DEF ControlInv, Holds, OpsAt, Op, CommitOps, SaveFirst, Starters
  <2>2. QED
    BY <2>1 DEF OnlyApplyFirst, ControlInv
<1> USE DEF ApplyFirst, CommitOps, Starters, SaveFirst
<1>1. CASE Release(p)
  BY <1>1, <1>k DEF Release, Exit, HolderKnows, AtRest, Holds
<1>2. CASE LoadState(p)
  BY <1>2, <1>k, <1>o DEF LoadState, AfterLoad, HolderKnows, AtRest, Holds
<1>3. CASE Dispatch(p) \/ Refuse(p)
  BY <1>3, <1>k, <1>o DEF Dispatch, Refuse, HolderKnows, AtRest
<1>4. CASE Commit(p)
  BY <1>4, <1>k, <1>o DEF Commit, HolderKnows, AtRest, OpsAt
<1>5. CASE StartFirewall(p)
  BY <1>5, <1>k, <1>o DEF StartFirewall, HolderKnows, AtRest
<1>6. CASE ApplyRuleset(p)
  <2>1. Shows(kernel, st[p], etc, expired)'
    BY <1>6, ApplyShows DEF ApplyRuleset
  <2>2. QED
    BY <1>6, <2>1, <1>k DEF ApplyRuleset, HolderKnows
<1>7. CASE ApplyFails(p)
  BY <1>7, <1>k DEF ApplyFails, HolderKnows, AtRest
<1>8. CASE Fragments(p)
  BY <1>8, <1>k, <1>o DEF Fragments, AfterApply, HolderKnows, AtRest, OpsAt
<1>9. CASE FragmentFails(p) \/ StopFirewall(p)
  BY <1>9, <1>k DEF FragmentFails, StopFirewall, HolderKnows, AtRest, NoTables
<1>10. CASE Save(p)
  BY <1>10, <1>k, <1>o DEF Save, AfterSave, HolderKnows, AtRest, OpsAt
<1>11. CASE TruncateConf(p) \/ WriteConf(p)
  BY <1>11, <1>k, <1>o DEF TruncateConf, WriteConf, AfterConf, HolderKnows, AtRest, OpsAt
<1>12. CASE StopFails(p)
  BY <1>12, <1>k DEF StopFails, HolderKnows, AtRest
<1>13. ~ (AcquireLock(p) \/ LockBusy(p) \/ GiveUp(p) \/ SaveFails(p) \/ Wipe(p)
          \/ ReadEtc(p) \/ TruncateEtc(p) \/ WriteEtc(p) \/ Live(p) \/ ClearPanic(p))
  BY <1>o DEF AcquireLock, LockBusy, GiveUp, SaveFails, Wipe, ReadEtc, TruncateEtc, WriteEtc, Live,
     ClearPanic, OpsAt, Holds
<1>14. QED
  BY <1>1, <1>2, <1>3, <1>4, <1>5, <1>6, <1>7, <1>8, <1>9, <1>10, <1>11, <1>12, <1>13
     DEF Step

(* A step of p before it has the lock changes nothing that is shared; the  *)
(* one that takes it finds the firewall at rest.                           *)
LEMMA OutsiderStep ==
    ASSUME TypeOK, ControlInv, LockInv, OnlyApplyFirst, KernelInv,
           NEW p \in Proc, Step(p) \/ Invoke(p), ~Holds(p)
    PROVE  /\ UNCHANGED <<shared, expired>>
           /\ Holds(p)' => HolderKnows(p)'
           /\ lock' = Nobody => lock = Nobody
<1> USE DEF TypeOK, Goto, ApplyFirst, CommitOps, Starters, SaveFirst, Lockless, LoadFirst
<1>o. op[p] \in ApplyFirst \cup {"none"} /\ op[p] \in OpsAt[pc[p]] /\ lock # p
  BY DEF OnlyApplyFirst, ControlInv, LockInv
<1>l. pc[p] \in {"idle", "lock"} \/ (op[p] = "rule" /\ pc[p] = "load")
  BY <1>o DEF Holds, ApplyFirst
<1>1. CASE AcquireLock(p)
  BY <1>1, <1>o, ProcAssumption DEF AcquireLock, KernelInv, HolderKnows, AtRest, shared
<1>2. CASE LockBusy(p) \/ GiveUp(p)
  BY <1>2 DEF LockBusy, GiveUp, Exit, Holds
<1>3. CASE LoadState(p)
  BY <1>3, <1>l DEF LoadState, AfterLoad, Holds
<1>4. CASE Invoke(p)
  BY <1>4, CmdsAssumption DEF Invoke, Holds, LockFirst, Op
<1>5. ~ (Release(p) \/ Dispatch(p) \/ Refuse(p) \/ Commit(p) \/ StartFirewall(p)
         \/ ApplyRuleset(p) \/ ApplyFails(p) \/ Fragments(p) \/ FragmentFails(p)
         \/ Save(p) \/ SaveFails(p) \/ Wipe(p) \/ ReadEtc(p) \/ TruncateEtc(p) \/ WriteEtc(p)
         \/ TruncateConf(p) \/ WriteConf(p) \/ Live(p) \/ ClearPanic(p)
         \/ StopFirewall(p) \/ StopFails(p))
  BY <1>l DEF Release, Dispatch, Refuse, Commit, StartFirewall, ApplyRuleset, ApplyFails,
     Fragments, FragmentFails, Save, SaveFails, Wipe, ReadEtc, TruncateEtc, WriteEtc, TruncateConf,
     WriteConf, Live, ClearPanic, StopFirewall, StopFails
<1>6. QED
  BY <1>1, <1>2, <1>3, <1>4, <1>5 DEF Step

(* Every step keeps the invariant: a step of the holder by HolderStep, a   *)
(* step of another process by OutsiderStep, and Frame for the processes    *)
(* that do not move.                                                       *)
LEMMA KernelStep ==
    ASSUME TypeOK, ControlInv, LockInv, OnlyApplyFirst, KernelInv,
           Faults \cap {"save", "crash"} = {}, [Next]_vars
    PROVE  KernelInv'
<1>1. ASSUME NEW p \in Proc, Step(p) \/ Invoke(p) PROVE KernelInv'
  <2>1. \A q \in Proc \ {p} : pc'[q] = pc[q] /\ op'[q] = op[q] /\ st'[q] = st[q]
    BY <1>1 DEF TypeOK, Step, Invoke, Goto, Exit, AcquireLock, LockBusy, GiveUp, Release,
       LoadState, Dispatch, Refuse, Commit, StartFirewall, ApplyRuleset, ApplyFails,
       Fragments, FragmentFails, Save, SaveFails, Wipe, ReadEtc, TruncateEtc, WriteEtc,
       TruncateConf, WriteConf, Live, ClearPanic, StopFirewall, StopFails
  <2>2. CASE Holds(p)
    <3>1. Step(p)
      BY <1>1, <2>2 DEF Invoke, Holds
    <3>2. \A q \in Proc \ {p} : ~Holds(q)'
      BY <2>1, <2>2, OneHolder
    <3>3. QED
      BY <2>2, <3>1, <3>2, HolderStep DEF KernelInv
  <2>3. CASE ~Holds(p)
    <3>1. UNCHANGED <<shared, expired>> /\ (Holds(p)' => HolderKnows(p)')
          /\ (lock' = Nobody => lock = Nobody)
      BY <1>1, <2>3, OutsiderStep
    <3>2. ASSUME NEW q \in Proc \ {p}, Holds(q)' PROVE HolderKnows(q)'
      <4>1. Holds(q)
        BY <2>1, <3>2 DEF Holds
      <4>2. QED
        BY <2>1, <3>1, <4>1, Frame
    <3>3. lock' = Nobody => AtRest'
      BY <3>1 DEF KernelInv, AtRest, shared
    <3>4. QED
      BY <3>1, <3>2, <3>3 DEF KernelInv
  <2>4. QED
    BY <2>2, <2>3
<1>2. CASE Reboot
  BY <1>2 DEF Reboot, KernelInv, AtRest, Holds, NoTables
<1>3. CASE Expire \/ UNCHANGED vars
  <2>1. UNCHANGED <<shared, lock, pc, op, st>> /\ expired \subseteq expired'
    BY <1>3 DEF Expire, vars, shared
  <2>2. ASSUME NEW q \in Proc, Holds(q)' PROVE HolderKnows(q)'
    <3>1. Holds(q)
      BY <2>1, <2>2 DEF Holds
    <3>2. QED
      BY <2>1, <3>1, Frame
  <2>3. AtRest => AtRest'
    BY <2>1, ShowsLater DEF AtRest, shared
  <2>4. QED
    BY <2>1, <2>2, <2>3 DEF KernelInv
<1>4. ~ \E p \in Proc : Crash(p)
  BY DEF Crash
<1>5. QED
  BY <1>1, <1>2, <1>3, <1>4 DEF Next

(* For commands that apply before they save, with failing applies, hooks,  *)
(* fragments and flushes and with reboots, but without a failing Save or a *)
(* killed process: between commands a loaded table shows rules.json, and   *)
(* the holder of the lock saves nothing but what the kernel has.           *)
THEOREM KernelIsKnown ==
    ASSUME Cmds \subseteq ApplyFirst, Faults \cap {"save", "crash"} = {}
    PROVE  Spec => []KernelInv
<1>1. Init => OnlyApplyFirst /\ KernelInv
  BY DEF Init, OnlyApplyFirst, KernelInv, AtRest, Holds, NoTables
<1>2. TypeOK /\ ControlInv /\ LockInv /\ OnlyApplyFirst /\ KernelInv /\ [Next]_vars
      => ControlInv' /\ LockInv' /\ OnlyApplyFirst' /\ KernelInv'
  BY ControlStep, OnlyApplyFirstStep, KernelStep
<1>3. QED
  BY <1>1, <1>2, ControlInit, Typing, PTL DEF Spec

(* Then rules.json is never ahead of the kernel.                           *)
THEOREM KernelNotBehind ==
    ASSUME Cmds \subseteq ApplyFirst, Faults \cap {"save", "crash"} = {}
    PROVE  Spec => []NotAhead
<1>1. KernelInv => NotAhead
  BY DEF KernelInv, AtRest, NotAhead
<1>2. QED
  BY <1>1, KernelIsKnown, PTL

-----------------------------------------------------------------------------
(* A command that returns 0 on an enabled firewall has applied what it     *)
(* saved.                                                                  *)

(* The commands AppliedOnSuccess speaks of. *)
Appliers == CommitOps \cup {"default", "logging", "import", "reload", "bootLoad"}

(* What the holder of the lock knows on its way there.                     *)
HolderApplied(p) ==
    /\ \/ pc[p] \in {"etc", "etc2", "etc3", "live"}
       \/ pc[p] \in {"yes", "yes2", "no"} /\ op[p] = "logging"
       \/ pc[p] \in {"apply", "frag"} /\ op[p] \in SaveFirst \cup Starters
       => st[p] = rules
    /\ pc[p] = "frag" => Shows(kernel, st[p], etc, expired)
    /\ pc[p] = "save" /\ op[p] \in CommitOps /\ conf => Shows(kernel, st[p], etc, expired)
    /\ pc[p] \in {"yes", "yes2"} /\ op[p] = "reload" => Shows(kernel, rules, etc, expired)
    /\ pc[p] = "ok" /\ op[p] \in Appliers /\ conf => Shows(kernel, rules, etc, expired)

SuccessInv == \A p \in Proc : Holds(p) => HolderApplied(p)

(* What the holder of the lock knows after its own step.                   *)
LEMMA AppliedHolderStep ==
    ASSUME TypeOK, ControlInv, LockInv, NoLockless, SuccessInv,
           NEW p \in Proc, Step(p), Holds(p), Holds(p)'
    PROVE  HolderApplied(p)'
<1> USE DEF TypeOK, Goto, shared
<1>k. HolderApplied(p) /\ op[p] \in OpsAt[pc[p]]
  BY DEF SuccessInv, ControlInv
<1> USE DEF Appliers, CommitOps, Starters, SaveFirst
<1>1. CASE LoadState(p)
  BY <1>1, <1>k DEF LoadState, AfterLoad, HolderApplied
<1>2. CASE Dispatch(p) \/ Refuse(p)
  BY <1>2, <1>k DEF Dispatch, Refuse, HolderApplied
<1>3. CASE Commit(p)
  BY <1>3, <1>k DEF Commit, HolderApplied, OpsAt
<1>4. CASE StartFirewall(p)
  BY <1>4, <1>k DEF StartFirewall, HolderApplied
<1>5. CASE ApplyRuleset(p)
  <2>1. Shows(kernel, st[p], etc, expired)'
    BY <1>5, ApplyShows DEF ApplyRuleset
  <2>2. QED
    BY <1>5, <2>1, <1>k DEF ApplyRuleset, HolderApplied
<1>6. CASE ApplyFails(p) \/ FragmentFails(p) \/ SaveFails(p) \/ StopFails(p)
  BY <1>6 DEF ApplyFails, FragmentFails, SaveFails, StopFails, HolderApplied
<1>7. CASE Fragments(p)
  BY <1>7, <1>k DEF Fragments, AfterApply, HolderApplied, OpsAt
<1>8. CASE Save(p)
  BY <1>8, <1>k DEF Save, AfterSave, HolderApplied, OpsAt
<1>9. CASE Wipe(p) \/ ReadEtc(p) \/ TruncateEtc(p) \/ WriteEtc(p)
  <2>1. op[p] # "appDefault"
    BY DEF NoLockless, Lockless
  <2>2. QED
    BY <1>9, <1>k, <2>1 DEF Wipe, ReadEtc, TruncateEtc, WriteEtc, HolderApplied, OpsAt
<1>10. CASE TruncateConf(p) \/ WriteConf(p)
  BY <1>10, <1>k DEF TruncateConf, WriteConf, AfterConf, HolderApplied, OpsAt
<1>11. CASE Live(p) \/ ClearPanic(p)
  BY <1>11, <1>k DEF Live, ClearPanic, HolderApplied, OpsAt
<1>12. CASE StopFirewall(p)
  BY <1>12, <1>k DEF StopFirewall, HolderApplied
<1>13. ~ (AcquireLock(p) \/ LockBusy(p) \/ GiveUp(p) \/ Release(p))
  BY DEF AcquireLock, LockBusy, GiveUp, Release, Exit, Holds
<1>14. QED
  BY <1>1, <1>2, <1>3, <1>4, <1>5, <1>6, <1>7, <1>8, <1>9, <1>10, <1>11, <1>12, <1>13
     DEF Step

(* A step of a process that does not hold the lock disturbs no holder, and *)
(* taking it brings the process to no point with a claim.                  *)
LEMMA AppliedOutsiderStep ==
    ASSUME TypeOK, ControlInv, NoLockless, NEW p \in Proc,
           Step(p) \/ Invoke(p) \/ Crash(p), ~Holds(p)
    PROVE  UNCHANGED <<shared, expired>> /\ (Holds(p)' => HolderApplied(p)')
<1> USE DEF TypeOK, Goto, CommitOps, Starters, SaveFirst, Lockless, LoadFirst
<1>l. pc[p] \in {"idle", "lock"} \/ (op[p] = "rule" /\ pc[p] = "load")
  BY DEF Holds, NoLockless
<1>1. CASE AcquireLock(p)
  BY <1>1 DEF AcquireLock, HolderApplied, shared
<1>2. CASE LockBusy(p) \/ GiveUp(p) \/ Crash(p)
  BY <1>2 DEF LockBusy, GiveUp, Crash, Exit, Holds
<1>3. CASE LoadState(p)
  BY <1>3, <1>l DEF LoadState, AfterLoad, Holds
<1>4. CASE Invoke(p)
  BY <1>4 DEF Invoke, HolderApplied, Holds
<1>5. ~ (Release(p) \/ Dispatch(p) \/ Refuse(p) \/ Commit(p) \/ StartFirewall(p)
         \/ ApplyRuleset(p) \/ ApplyFails(p) \/ Fragments(p) \/ FragmentFails(p)
         \/ Save(p) \/ SaveFails(p) \/ Wipe(p) \/ ReadEtc(p) \/ TruncateEtc(p) \/ WriteEtc(p)
         \/ TruncateConf(p) \/ WriteConf(p) \/ Live(p) \/ ClearPanic(p)
         \/ StopFirewall(p) \/ StopFails(p))
  BY <1>l DEF Release, Dispatch, Refuse, Commit, StartFirewall, ApplyRuleset, ApplyFails,
     Fragments, FragmentFails, Save, SaveFails, Wipe, ReadEtc, TruncateEtc, WriteEtc, TruncateConf,
     WriteConf, Live, ClearPanic, StopFirewall, StopFails
<1>6. QED
  BY <1>1, <1>2, <1>3, <1>4, <1>5 DEF Step

(* A process that does not move keeps its knowledge when nothing shared    *)
(* changes but the time.                                                   *)
LEMMA AppliedFrame ==
    ASSUME SuccessInv, NEW q \in Proc, Holds(q), UNCHANGED shared,
           expired \subseteq expired',
           pc'[q] = pc[q], op'[q] = op[q], st'[q] = st[q]
    PROVE  HolderApplied(q)'
<1>1. HolderApplied(q)
  BY DEF SuccessInv
<1>2. \A s : Shows(kernel, s, etc, expired) => Shows(kernel, s, etc, expired)'
  BY ShowsLater DEF shared
<1>3. QED
  BY <1>1, <1>2 DEF HolderApplied, shared

(* Every step keeps SuccessInv. *)
LEMMA SuccessStep ==
    ASSUME TypeOK, ControlInv, LockInv, NoLockless, SuccessInv, [Next]_vars
    PROVE  SuccessInv'
<1>1. ASSUME NEW p \in Proc, Step(p) \/ Invoke(p) \/ Crash(p) PROVE SuccessInv'
  <2>1. \A q \in Proc \ {p} : pc'[q] = pc[q] /\ op'[q] = op[q] /\ st'[q] = st[q]
    <3>1. CASE ReadEtc(p)
      BY <3>1 DEF TypeOK, ReadEtc, Goto
    <3>2. CASE ~ReadEtc(p)
      BY <1>1, <3>2 DEF TypeOK, Step, Invoke, Crash, Goto, Exit, AcquireLock, LockBusy,
         GiveUp, Release, LoadState, Dispatch, Refuse, Commit, StartFirewall,
         ApplyRuleset, ApplyFails, Fragments, FragmentFails, Save, SaveFails, Wipe,
         TruncateEtc, WriteEtc, TruncateConf, WriteConf, Live, ClearPanic,
         StopFirewall, StopFails
    <3>3. QED
      BY <3>1, <3>2
  <2>2. CASE Holds(p)
    <3>1. \A q \in Proc \ {p} : ~Holds(q)'
      BY <2>1, <2>2, OneHolder
    <3>2. Holds(p)' => Step(p)
      BY <1>1, <2>2 DEF TypeOK, Invoke, Crash, Exit, Holds
    <3>3. QED
      BY <2>2, <3>1, <3>2, AppliedHolderStep DEF SuccessInv
  <2>3. CASE ~Holds(p)
    <3>1. UNCHANGED <<shared, expired>> /\ (Holds(p)' => HolderApplied(p)')
      BY <1>1, <2>3, AppliedOutsiderStep
    <3>2. ASSUME NEW q \in Proc \ {p}, Holds(q)' PROVE HolderApplied(q)'
      <4>1. Holds(q)
        BY <2>1, <3>2 DEF Holds
      <4>2. QED
        BY <2>1, <3>1, <4>1, AppliedFrame
    <3>3. QED
      BY <3>1, <3>2 DEF SuccessInv
  <2>4. QED
    BY <2>2, <2>3
<1>2. CASE Reboot
  BY <1>2 DEF Reboot, SuccessInv, Holds
<1>3. CASE Expire \/ UNCHANGED vars
  <2>1. UNCHANGED <<shared, lock, pc, op, st>> /\ expired \subseteq expired'
    BY <1>3 DEF Expire, vars, shared
  <2>2. ASSUME NEW q \in Proc, Holds(q)' PROVE HolderApplied(q)'
    <3>1. Holds(q)
      BY <2>1, <2>2 DEF Holds
    <3>2. QED
      BY <2>1, <3>1, AppliedFrame
  <2>3. QED
    BY <2>2 DEF SuccessInv
<1>4. QED
  BY <1>1, <1>2, <1>3 DEF Next

(* Without application commands, which take no lock, a mutating command    *)
(* that returns 0 on an enabled firewall leaves the kernel showing         *)
(* rules.json, whatever failed, was killed or rebooted before it.          *)
THEOREM SuccessMeansApplied ==
    ASSUME Cmds \cap Lockless = {}
    PROVE  Spec => []AppliedOnSuccess
<1>1. Init => NoLockless /\ SuccessInv
  BY DEF Init, NoLockless, Lockless, SuccessInv, Holds
<1>2. TypeOK /\ ControlInv /\ LockInv /\ NoLockless /\ SuccessInv /\ [Next]_vars
      => ControlInv' /\ LockInv' /\ NoLockless' /\ SuccessInv'
  BY ControlStep, NoLocklessStep, SuccessStep
<1>3. NoLockless /\ SuccessInv => AppliedOnSuccess
  BY DEF NoLockless, SuccessInv, AppliedOnSuccess, HolderApplied, Appliers, Holds
<1>4. QED
  BY <1>1, <1>2, <1>3, ControlInit, Typing, PTL DEF Spec

(* A ruleset applied over a panic drops everything as well: what a command *)
(* that applies first has in memory comes from the current rules.json, and *)
(* the others have saved what they apply.                                  *)
LEMMA PanicApplyStep ==
    ASSUME TypeOK, ControlInv, LockInv, NoLockless, HolderSeesCurrent, OnlyLockFirst,
           SuccessInv, [Next]_vars, kernel.panic, rules.panic, kernel'.loaded, ~kernel'.panic
    PROVE  FALSE
<1>1. PICK p \in Proc : ApplyRuleset(p)
  BY DEF TypeOK, Next, Step, Invoke, Reboot, Expire, vars, Crash, Save, Wipe,
     LockBusy, GiveUp, Release, AcquireLock, LoadState, Dispatch, Refuse, Commit,
     StartFirewall, ApplyFails, Fragments, FragmentFails, SaveFails,
     ReadEtc, TruncateEtc, WriteEtc, TruncateConf, WriteConf, Live, ClearPanic, StopFirewall,
     StopFails, shared, NoTables
<1>2. Holds(p) /\ ~st[p].panic
  BY <1>1 DEF ApplyRuleset, Apply, Holds, NoLockless
<1>3. st[p] # rules
  BY <1>2
<1>4. op[p] \in (CommitOps \cup {"panicOn"}) \cap LockFirst
  <2>1. pc[p] = "apply" /\ op[p] \in OpsAt[pc[p]]
    BY <1>1 DEF ApplyRuleset, ControlInv
  <2>2. op[p] \in CommitOps \cup SaveFirst \cup Starters \cup {"panicOn"}
    BY <2>1 DEF OpsAt
  <2>3. HolderApplied(p)
    BY <1>2 DEF SuccessInv
  <2>4. op[p] \notin SaveFirst \cup Starters
    BY <1>3, <2>1, <2>3 DEF HolderApplied
  <2>5. op[p] \in LockFirst
    BY <2>2 DEF OnlyLockFirst, CommitOps, SaveFirst, Starters
  <2>6. QED
    BY <2>2, <2>4, <2>5
<1>5. PICK r \in Results(op[p], rules, {}), d \in SUBSET expired : st[p] = Sweep(r, d)
  BY <1>1, <1>4 DEF ApplyRuleset, Unsaved, HolderSeesCurrent, Updates
<1>6. r \in State /\ ~r.panic
  BY <1>2, <1>5 DEF Sweep, State, Results
<1>7. QED
  BY <1>4, <1>5, <1>6 DEF TypeOK, State, Results, ItemChange, CommitOps, LockFirst

(* With commands that load under the lock, nothing but a flush ends a      *)
(* panic in the kernel while rules.json asks for it.                       *)
THEOREM PanicInKernel ==
    ASSUME Cmds \subseteq LockFirst
    PROVE  Spec => PanicHeld
<1>1. Init => OnlyLockFirst /\ NoLockless /\ SuccessInv
  BY DEF Init, OnlyLockFirst, NoLockless, Lockless, SuccessInv, Holds
<1>2. Cmds \cap Lockless = {}
  BY DEF LockFirst, Lockless
<1>3. TypeOK /\ ControlInv /\ LockInv /\ NoLockless /\ HolderSeesCurrent
      /\ OnlyLockFirst /\ SuccessInv /\ [Next]_vars
      => /\ ControlInv' /\ LockInv' /\ NoLockless' /\ HolderSeesCurrent' /\ OnlyLockFirst'
         /\ SuccessInv'
         /\ [kernel.panic /\ rules.panic /\ kernel'.loaded => kernel'.panic]_kernel
  BY <1>2, ControlStep, NoLocklessStep, CurrentStep, OnlyLockFirstStep, SuccessStep,
     PanicApplyStep
<1>4. QED
  BY <1>1, <1>3, ControlInit, CurrentInit, Typing, PTL DEF Spec, PanicHeld

=============================================================================
