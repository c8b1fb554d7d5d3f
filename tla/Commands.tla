------------------------------ MODULE Commands ------------------------------
(***************************************************************************)
(* Concurrent bfw commands over the state they share: rules.json,          *)
(* better-firewall.conf, /etc/default/better-firewall, the kernel tables   *)
(* and the flock.  A process is a shell, the sweep timer, the boot service *)
(* or a goroutine of bfw protect: it runs one command after the other.     *)
(*                                                                         *)
(* The steps are the points where another process, or a crash, can come    *)
(* between: each read or write of a shared file, each netlink transaction, *)
(* each fragment run, the lock and its release.  Dry runs change nothing   *)
(* and are left out.                                                       *)
(***************************************************************************)
EXTENDS StoreOps

CONSTANTS
    Proc,       \* the processes that run bfw commands
    Nobody,     \* the value of lock when no process holds the flock
    Cmds,       \* the commands the processes run
    Faults      \* what can go wrong, a subset of AllFaults

AllFaults == {"apply", "hook", "frag", "flush", "save", "crash", "reboot"}

ASSUME ProcAssumption == Nobody \notin Proc
ASSUME CmdsAssumption == Cmds \subseteq Op \ {"none"}
ASSUME FaultsAssumption == Faults \subseteq AllFaults

VARIABLES
    rules,      \* rules.json
    conf,       \* ENABLED in better-firewall.conf
    etc,        \* DEFAULT_INPUT_POLICY in /etc/default/better-firewall
    kernel,     \* the managed nftables tables
    stray,      \* history: they are a failed command's, which could not flush them
    lock,       \* the holder of the flock
    expired,    \* the items whose time has passed
    pc,         \* pc[p] is the point the command of p has reached
    op,         \* op[p] is the command p runs
    st          \* st[p] is the store.State it has loaded and changed

shared == <<rules, conf, etc, kernel, stray>>
vars == <<rules, conf, etc, kernel, stray, lock, expired, pc, op, st>>

-----------------------------------------------------------------------------
(* Control points. *)

CommitOps == {"ext", "rule", "sweep"}                 \* end in commitState
SaveFirst == {"default", "logging", "import", "app", "panicOff"}
Starters  == {"enable", "reload", "bootLoad"}         \* call startFirewall

\* OpsAt[l] are the commands that can be at point l.
OpsAt ==
    [idle  |-> {"none"},
     lock  |-> LockFirst \cup LoadFirst,              \* acquireLock
     load  |-> Op \ {"none"},                         \* Load, LoadConf, Loaded
     commit|-> CommitOps,                             \* commitState: live()?
     start |-> Starters,                              \* startFirewall: Load
     apply |-> CommitOps \cup SaveFirst \cup Starters \cup {"panicOn"},
     frag  |-> CommitOps \cup SaveFirst \cup Starters \cup {"panicOn"},
     save  |-> CommitOps \cup SaveFirst \cup {"panicOn", "appDefault"},
     etc   |-> {"default", "appDefault"},             \* WriteEtcDefault
     etc2  |-> {"default", "appDefault"},
     etc3  |-> {"default", "appDefault"},
     live  |-> SaveFirst,                             \* apply if enabled
     stop  |-> {"disable", "reload", "reset", "bootUnload"},
     wipe  |-> {"reset"},                             \* Save(Defaults())
     yes   |-> {"enable", "reload", "logging"},       \* SaveConf, ENABLED=yes
     yes2  |-> {"enable", "reload", "logging"},
     no    |-> {"disable", "reset", "logging"},       \* SaveConf, ENABLED=no
     clear |-> {"panicOff"},                          \* Flush when disabled
     ok    |-> Op \ {"none"},                         \* returns 0
     end   |-> Op \ {"none"}]                         \* aborted or failed

Point == DOMAIN OpsAt

(* The process is between acquireLock and its release. *)
Holds(p) ==
    /\ pc[p] \notin {"idle", "lock"}
    /\ op[p] \notin Lockless
    /\ ~(op[p] \in LoadFirst /\ pc[p] = "load")

TypeOK ==
    /\ rules \in State
    /\ conf \in BOOLEAN
    /\ etc \in Policy
    /\ kernel \in Kernel
    /\ stray \in BOOLEAN
    /\ lock \in Proc \cup {Nobody}
    /\ expired \in SUBSET Item
    /\ pc \in [Proc -> Point]
    /\ op \in [Proc -> Op]
    /\ st \in [Proc -> State]

Init ==
    /\ rules = Defaults
    /\ conf = FALSE
    /\ etc = "deny"
    /\ kernel = NoTables
    /\ stray = FALSE
    /\ lock = Nobody
    /\ expired = {}
    /\ pc = [p \in Proc |-> "idle"]
    /\ op = [p \in Proc |-> "none"]
    /\ st = [p \in Proc |-> Defaults]

Goto(p, l) == pc' = [pc EXCEPT ![p] = l]

(* The process exits: its memory is gone and its flock with it. *)
Exit(p) ==
    /\ pc' = [pc EXCEPT ![p] = "idle"]
    /\ op' = [op EXCEPT ![p] = "none"]
    /\ st' = [st EXCEPT ![p] = Defaults]

-----------------------------------------------------------------------------
(* Starting a command and the lock. *)

Invoke(p) ==
    /\ pc[p] = "idle"
    /\ \E o \in Cmds :
          /\ op' = [op EXCEPT ![p] = o]
          /\ Goto(p, IF o \in LockFirst THEN "lock"
                     ELSE IF o = "appDefault" THEN "etc" ELSE "load")
    /\ UNCHANGED <<shared, lock, expired, st>>

(* A wrong acquireLock: a shared flock, or one on a file of its own.       *)
AcquireShared(p) ==
    /\ pc[p] = "lock"
    /\ lock' = p
    /\ Goto(p, IF op[p] \in LoadFirst THEN "commit" ELSE "load")
    /\ UNCHANGED <<shared, expired, op, st>>

(* acquireLock: a non-blocking exclusive flock. *)
AcquireLock(p) ==
    /\ pc[p] = "lock"
    /\ lock = Nobody
    /\ lock' = p
    /\ Goto(p, IF op[p] \in LoadFirst THEN "commit" ELSE "load")
    /\ UNCHANGED <<shared, expired, op, st>>

(* A wrong acquireLock: it waits for the lock.                             *)
LockWaits(p) ==
    /\ pc[p] = "lock"
    /\ lock # Nobody
    /\ UNCHANGED vars

(* The flock is taken: the command fails at once, it never waits.          *)
LockBusy(p) ==
    /\ pc[p] = "lock"
    /\ lock # Nobody
    /\ Exit(p)
    /\ UNCHANGED <<shared, lock, expired>>

(* A rule command gives up before it takes the lock: delete NUM finds no   *)
(* such rule, or the operator answers n to its prompt.                     *)
GiveUp(p) ==
    /\ pc[p] \in {"load", "lock"}
    /\ op[p] \in LoadFirst
    /\ Exit(p)
    /\ UNCHANGED <<shared, lock, expired>>

(* A wrong release: it removes the lock, whoever holds it.                 *)
ReleaseAny(p) ==
    /\ pc[p] \in {"ok", "end"}
    /\ lock' = Nobody
    /\ Exit(p)
    /\ UNCHANGED <<shared, expired>>

(* release(), deferred by every command, and the exit of the process. *)
Release(p) ==
    /\ pc[p] \in {"ok", "end"}
    /\ lock' = IF lock = p THEN Nobody ELSE lock
    /\ Exit(p)
    /\ UNCHANGED <<shared, expired>>

-----------------------------------------------------------------------------
(* Reading the state. *)

(* Where a command that changes rules.json goes once it has loaded it. *)
AfterLoad(o, s) ==
    IF o = "rule" THEN "lock"
    ELSE IF o = "sweep" /\ s.items \cap expired = {} THEN "end"
    ELSE IF o \in {"ext", "sweep"} THEN "commit"
    ELSE IF o = "panicOn" THEN IF s.panic THEN "ok" ELSE "apply"
    ELSE IF o = "panicOff" /\ ~s.panic THEN "ok"
    ELSE "save"

(* Load, and the change the command makes to the state in memory. *)
LoadState(p) ==
    /\ pc[p] = "load"
    /\ op[p] \in CommitOps \cup SaveFirst \cup {"panicOn", "appDefault"}
    /\ \E s \in Results(op[p], rules, expired) : st' = [st EXCEPT ![p] = s]
    /\ Goto(p, AfterLoad(op[p], rules))
    /\ UNCHANGED <<shared, lock, expired, op>>

(* A lifecycle command looks at ENABLED, or enable at the kernel. *)
Dispatch(p) ==
    /\ pc[p] = "load"
    /\ \/ op[p] = "enable"   /\ Goto(p, IF kernel.loaded THEN "yes" ELSE "start")
       \/ op[p] = "reload"   /\ Goto(p, IF conf THEN "stop" ELSE "end")
       \/ op[p] = "bootLoad" /\ Goto(p, IF conf THEN "start" ELSE "end")
       \/ op[p] = "reset"    /\ Goto(p, IF conf THEN "stop" ELSE "wipe")
       \/ op[p] \in {"disable", "bootUnload"} /\ Goto(p, "stop")
    /\ UNCHANGED <<shared, lock, expired, op, st>>

(* The command refuses its arguments, or the operator answers n. *)
Refuse(p) ==
    /\ \/ pc[p] = "load" /\ op[p] \in {"ext", "import", "app", "enable", "reset",
                                       "panicOn"}
       \/ pc[p] = "commit" /\ op[p] = "rule"
    /\ Goto(p, "end")
    /\ UNCHANGED <<shared, lock, expired, op, st>>

-----------------------------------------------------------------------------
(* commitState, startFirewall, applyRuleset and reloadRuleset. *)

Commit(p) ==
    /\ pc[p] = "commit"
    /\ st' = [st EXCEPT ![p] = Sweep(@, expired)]
    /\ Goto(p, IF conf THEN "apply" ELSE "save")
    /\ UNCHANGED <<shared, lock, expired, op>>

StartFirewall(p) ==
    /\ pc[p] = "start"
    /\ st' = [st EXCEPT ![p] = rules]
    /\ Goto(p, "apply")
    /\ UNCHANGED <<shared, lock, expired, op>>

ApplyRuleset(p) ==
    /\ pc[p] = "apply"
    /\ Compiles(st[p], expired)
    /\ kernel' = Apply(kernel, st[p], etc, expired)
    /\ stray' = FALSE
    /\ Goto(p, "frag")
    /\ UNCHANGED <<rules, conf, etc, lock, expired, op, st>>

AfterApply(o) ==
    IF o \in CommitOps \cup {"panicOn"} THEN "save"
    ELSE IF o \in {"enable", "reload"} THEN "yes" ELSE "ok"

(* A wrong error path: the apply error is reported, then it goes on.       *)
ApplyErrorIgnored(p) ==
    /\ pc[p] = "apply"
    /\ ~Compiles(st[p], expired) \/ "apply" \in Faults
    /\ Goto(p, AfterApply(op[p]))
    /\ UNCHANGED <<shared, lock, expired, op, st>>

(* compile or netlink fails, or before.init does (reloadRuleset, of        *)
(* commitState, runs no hook): nothing was changed.                        *)
ApplyFails(p) ==
    /\ pc[p] = "apply"
    /\ \/ ~Compiles(st[p], expired)
       \/ "apply" \in Faults
       \/ "hook" \in Faults /\ op[p] \notin CommitOps
    /\ Goto(p, "end")
    /\ UNCHANGED <<shared, lock, expired, op, st>>

(* A wrong fragment error path: nothing flushes the ruleset.               *)
FragmentErrorKeeps(p) ==
    /\ pc[p] = "frag"
    /\ "frag" \in Faults
    /\ Goto(p, "end")
    /\ UNCHANGED <<shared, lock, expired, op, st>>

(* The before and after fragments, each its own nft transaction. *)
Fragments(p) ==
    /\ pc[p] = "frag"
    /\ Goto(p, AfterApply(op[p]))
    /\ UNCHANGED <<shared, lock, expired, op, st>>

(* A fragment fails: the ruleset just applied is flushed.  Nobody looks at *)
(* the error of that Flush, so it may as well stay.                        *)
FragmentFails(p) ==
    /\ pc[p] = "frag"
    /\ "frag" \in Faults
    /\ \/ kernel' = NoTables /\ stray' = FALSE
       \/ "flush" \in Faults /\ stray' = TRUE /\ UNCHANGED kernel
    /\ Goto(p, "end")
    /\ UNCHANGED <<rules, conf, etc, lock, expired, op, st>>

-----------------------------------------------------------------------------
(* Writing rules.json, /etc/default and better-firewall.conf. *)

AfterSave(o) ==
    IF o \in CommitOps \cup {"panicOn", "appDefault"} THEN "ok"
    ELSE IF o = "default" THEN "etc"
    ELSE IF o = "logging" THEN IF conf THEN "yes" ELSE "no"
    ELSE "live"

(* Save renames a complete file into place. *)
Save(p) ==
    /\ pc[p] = "save"
    /\ rules' = st[p]
    /\ Goto(p, AfterSave(op[p]))
    /\ UNCHANGED <<conf, etc, kernel, stray, lock, expired, op, st>>

(* A wrong Save: it truncates rules.json itself, then cannot write.        *)
SaveTorn(p) ==
    /\ pc[p] \in {"save", "wipe"}
    /\ "save" \in Faults
    /\ rules' = Defaults
    /\ Goto(p, "end")
    /\ UNCHANGED <<conf, etc, kernel, stray, lock, expired, op, st>>

(* The write or the rename fails (for reset: a backup of that name exists). *)
(* A failing write of the other two files leaves what a crash there leaves. *)
SaveFails(p) ==
    /\ pc[p] \in {"save", "wipe"}
    /\ "save" \in Faults
    /\ Goto(p, "end")
    /\ UNCHANGED <<shared, lock, expired, op, st>>

(* Reset moves rules.json away, which Load reads as the defaults, and then *)
(* saves them, unless that fails.                                          *)
Wipe(p) ==
    /\ pc[p] = "wipe"
    /\ rules' = Defaults
    /\ Goto(p, "no") \/ ("save" \in Faults /\ Goto(p, "end"))
    /\ UNCHANGED <<conf, etc, kernel, stray, lock, expired, op, st>>

(* WriteEtcDefault reads the file: app default, which sets another key,    *)
(* writes back the policy it has read ...                                  *)
ReadEtc(p) ==
    /\ pc[p] = "etc"
    /\ st' = IF op[p] = "appDefault" THEN [st EXCEPT ![p].policy = etc] ELSE st
    /\ Goto(p, "etc2")
    /\ UNCHANGED <<shared, lock, expired, op>>

(* ... truncates it (an empty file means DROP) ... *)
TruncateEtc(p) ==
    /\ pc[p] = "etc2"
    /\ etc' = "deny"
    /\ Goto(p, "etc3")
    /\ UNCHANGED <<rules, conf, kernel, stray, lock, expired, op, st>>

(* ... and writes it. *)
WriteEtc(p) ==
    /\ pc[p] = "etc3"
    /\ etc' = st[p].policy
    /\ Goto(p, IF op[p] = "default" THEN "live" ELSE "load")
    /\ UNCHANGED <<rules, conf, kernel, stray, lock, expired, op, st>>

(* SaveConf truncates better-firewall.conf (an empty file means disabled). *)
TruncateConf(p) ==
    /\ pc[p] = "yes"
    /\ conf' = FALSE
    /\ Goto(p, "yes2")
    /\ UNCHANGED <<rules, etc, kernel, stray, lock, expired, op, st>>

AfterConf(o) == IF o = "logging" THEN "live" ELSE "ok"

WriteConf(p) ==
    /\ \/ pc[p] = "yes2" /\ conf' = TRUE
       \/ pc[p] = "no"   /\ conf' = FALSE
    /\ Goto(p, AfterConf(op[p]))
    /\ UNCHANGED <<rules, etc, kernel, stray, lock, expired, op, st>>

(* A wrong test of "is the firewall on": the kernel instead of ENABLED.    *)
LiveIfLoaded(p) ==
    /\ pc[p] = "live"
    /\ \/ kernel.loaded  /\ Goto(p, "apply")
       \/ kernel.loaded  /\ op[p] = "app" /\ Goto(p, "ok")
       \/ ~kernel.loaded /\ Goto(p, IF op[p] = "panicOff" THEN "clear" ELSE "ok")
    /\ UNCHANGED <<shared, lock, expired, op, st>>

(* A command that saved first applies when the firewall is enabled.  App    *)
(* update does not while it runs under ssh; panic off, when disabled,       *)
(* removes the table panic left.                                            *)
Live(p) ==
    /\ pc[p] = "live"
    /\ \/ conf  /\ Goto(p, "apply")
       \/ conf  /\ op[p] = "app" /\ Goto(p, "ok")
       \/ ~conf /\ Goto(p, IF op[p] = "panicOff" THEN "clear" ELSE "ok")
    /\ UNCHANGED <<shared, lock, expired, op, st>>

ClearPanic(p) ==
    /\ pc[p] = "clear"
    /\ \/ kernel' = NoTables /\ stray' = FALSE
       \/ "flush" \in Faults /\ UNCHANGED <<kernel, stray>>    \* the error is ignored
    /\ Goto(p, "ok")
    /\ UNCHANGED <<rules, conf, etc, lock, expired, op, st>>

(* stopFirewall. *)
StopFirewall(p) ==
    /\ pc[p] = "stop"
    /\ kernel' = NoTables
    /\ stray' = FALSE
    /\ \/ op[p] = "disable"    /\ Goto(p, "no")
       \/ op[p] = "reload"     /\ Goto(p, "start")
       \/ op[p] = "reset"      /\ Goto(p, "wipe")
       \/ op[p] = "bootUnload" /\ Goto(p, "ok")
    /\ UNCHANGED <<rules, conf, etc, lock, expired, op, st>>

StopFails(p) ==
    /\ pc[p] = "stop"
    /\ "flush" \in Faults
    /\ Goto(p, "end")
    /\ UNCHANGED <<shared, lock, expired, op, st>>

-----------------------------------------------------------------------------
(* The environment. *)

(* The process is killed; the kernel drops its flock. *)
Crash(p) ==
    /\ "crash" \in Faults
    /\ pc[p] # "idle"
    /\ lock' = IF lock = p THEN Nobody ELSE lock
    /\ Exit(p)
    /\ UNCHANGED <<shared, expired>>

(* The machine restarts: processes, flock and kernel tables are gone, the  *)
(* files stay.                                                             *)
Reboot ==
    /\ "reboot" \in Faults
    /\ kernel' = NoTables
    /\ stray' = FALSE
    /\ lock' = Nobody
    /\ pc' = [p \in Proc |-> "idle"]
    /\ op' = [p \in Proc |-> "none"]
    /\ st' = [p \in Proc |-> Defaults]
    /\ UNCHANGED <<rules, conf, etc, expired>>

(* Only rules and bans can have an expiry time. *)
Expire ==
    /\ \E i \in Item \ (NatItem \cup expired) : expired' = expired \cup {i}
    /\ UNCHANGED <<shared, lock, pc, op, st>>

-----------------------------------------------------------------------------

(* The steps a process takes once it runs a command. *)
Step(p) ==
    \/ AcquireLock(p) \/ LockBusy(p) \/ GiveUp(p) \/ Release(p)
    \/ LoadState(p) \/ Dispatch(p) \/ Refuse(p)
    \/ Commit(p) \/ StartFirewall(p) \/ ApplyRuleset(p) \/ ApplyFails(p)
    \/ Fragments(p) \/ FragmentFails(p)
    \/ Save(p) \/ SaveFails(p) \/ Wipe(p)
    \/ ReadEtc(p) \/ TruncateEtc(p) \/ WriteEtc(p)
    \/ TruncateConf(p) \/ WriteConf(p)
    \/ Live(p) \/ ClearPanic(p) \/ StopFirewall(p) \/ StopFails(p)

Next ==
    \/ \E p \in Proc : Invoke(p) \/ Step(p) \/ Crash(p)
    \/ Reboot
    \/ Expire

Spec == Init /\ [][Next]_vars

(* The command waits for the operator: delete NUM before the lock, enable  *)
(* (under ssh) and reset while they hold it.                               *)
Prompting(p) ==
    \/ pc[p] = "lock" /\ op[p] = "rule"
    \/ pc[p] = "load" /\ op[p] \in {"enable", "reset"}

(* A running command is scheduled unless it waits for the operator.        *)
FairSpec == Spec /\ \A p \in Proc : WF_vars(~Prompting(p) /\ Step(p))

-----------------------------------------------------------------------------
(* Properties. *)

(* acquireLock and release: the flock is held by p exactly while p is      *)
(* between the two, so at most one command is.                             *)
LockInv == \A p \in Proc : Holds(p) <=> lock = p

(* The points at which a command has made its new state but not saved it.  *)
Unsaved(p) ==
    \/ pc[p] \in {"commit", "save"}
    \/ pc[p] \in {"apply", "frag"} /\ op[p] \in CommitOps \cup {"panicOn"}

(* What command o may leave in rules.json when it runs on state s: its     *)
(* result, without some of the items whose time has passed.                *)
Updates(o, s) ==
    {Sweep(r, dropped) : r \in Results(o, s, {}), dropped \in SUBSET expired}

(* A command that loads under the lock (all but rule and app commands)     *)
(* saves a change of what rules.json holds at that moment: nobody has      *)
(* written it since it was read.  Commands that load before the lock may   *)
(* run beside it.                                                          *)
HolderSeesCurrent ==
    \A p \in Proc : op[p] \in LockFirst /\ Unsaved(p) =>
                        st[p] \in Updates(op[p], rules)

(* A mutating command that returns 0 while the firewall is enabled leaves  *)
(* the kernel showing rules.json, whatever failed, crashed or rebooted     *)
(* before it.  (enable and panic are excepted: when they find the work     *)
(* already done they return 0 without applying anything.)                  *)
AppliedOnSuccess ==
    \A p \in Proc :
        /\ pc[p] = "ok" /\ conf
        /\ op[p] \in CommitOps \cup {"default", "logging", "import", "reload", "bootLoad"}
        => Shows(kernel, rules, etc, expired)

(* commitState applies before it saves so that an error cannot leave       *)
(* rules.json ahead of the kernel: between commands, an enabled firewall   *)
(* whose table is loaded shows rules.json.  There is one exception: the    *)
(* flush that was to take back a command's ruleset after a failed fragment *)
(* failed as well; it ends with the next apply or flush that works.        *)
NotAhead ==
    lock = Nobody /\ conf /\ kernel.loaded /\ ~stray => Shows(kernel, rules, etc, expired)

(* Why NotAhead holds.  Whenever no command is half way, a loaded table    *)
(* that is not stray means an enabled firewall that shows rules.json ...   *)
AtRest == kernel.loaded /\ ~stray => conf /\ Shows(kernel, rules, etc, expired)

(* ... and this is what the holder of the lock knows at each point.        *)
HolderKnows(p) ==
    /\ pc[p] \in {"load", "commit", "start", "apply", "stop", "ok", "end"} => AtRest
    /\ pc[p] = "start" /\ op[p] # "bootLoad" => ~kernel.loaded
    /\ pc[p] \in {"start", "apply", "frag"} /\ op[p] \in CommitOps \cup {"bootLoad"}
          => conf
    /\ pc[p] \in {"apply", "frag"} /\ op[p] \in Starters => st[p] = rules
    /\ pc[p] = "frag" => Shows(kernel, st[p], etc, expired)
    /\ pc[p] = "save" /\ kernel.loaded /\ ~stray =>
          conf /\ Shows(kernel, st[p], etc, expired)
    /\ pc[p] \in {"yes", "yes2"} => stray \/ Shows(kernel, rules, etc, expired)
    /\ pc[p] = "no" => ~kernel.loaded

KernelInv ==
    /\ lock = Nobody => AtRest
    /\ \A p \in Proc : Holds(p) => HolderKnows(p)

(* Panic mode ends only by panic off, reset or the import of a document    *)
(* that says so: no other command takes it out of rules.json.              *)
PanicSticky ==
    [][rules.panic /\ ~rules'.panic =>
         \E p \in Proc : lock = p /\ op[p] \in {"panicOff", "reset", "import"}]_rules

(* Nor does a command apply a ruleset that does not drop everything over   *)
(* one that does, as long as rules.json says it should: what ends a panic  *)
(* saves before it applies.                                                *)
PanicHeld ==
    [][kernel.panic /\ rules.panic /\ kernel'.loaded => kernel'.panic]_kernel

(* The lock never makes anyone wait: a command runs to its end, or to a    *)
(* prompt, whatever the other processes do.                                *)
CommandsEnd ==
    \A p \in Proc :
        (pc[p] # "idle") ~> (pc[p] = "idle" \/ Prompting(p))

(* rules.json changes only as if commands ran one at a time. *)
Serial == INSTANCE SerialStore WITH db <- rules
SerialSpec == Serial!Spec

=============================================================================
