# better-firewall in TLA+

A formal model of `bfw`, the nftables firewall manager under `src/`: what its
commands do to the files and kernel tables they share when several of them run
at once, fail half way, are killed, or the machine restarts; how rule lists are
numbered, merged and compiled, and what the compiled chains do with packets; how
its protection service turns failed logins and CrowdSec decisions into bans; and
how it takes over from another firewall manager. TLC checks small
instances; TLAPS proves the main results for any number of processes, items,
commands, jails, decisions, managers, rules and faults, and for rule lists and dumps
of any length.

## The system

`bfw` is a command-line program without a resident server. Every command is a
process that reads some files, changes them, and replaces nftables tables. They
share five things:

| State | Where | Written by |
|---|---|---|
| `rules.json` (`store.State`: rules, sets, NAT, bans, policies, panic flag) | `internal/store` `Load`, `Save` (temporary file and rename) | every mutating command |
| `better-firewall.conf` (`ENABLED`, `LOGLEVEL`) | `LoadConf`, `SaveConf` (truncate and write) | enable, disable, reload, reset, logging |
| `/etc/default/better-firewall` (policies that override the stored ones) | `EtcDefaults`, `WriteEtcDefault` (truncate and write) | default, app default |
| the kernel tables `better-firewall` and `better-firewall-nat` | `backend/nft` `Apply`, `Flush`, `Loaded`, `ApplyFragments` | every command that applies |
| the flock `/run/better-firewall.lock` | `acquireLock`, `sysstate.LockFile` | every mutating command but `app` |

The concurrent actors are shells, the boot service (`boot-load`,
`boot-unload`), the minutely sweep timer, and the goroutines of `bfw protect`
(a journal reader and a CrowdSec poller), whose bans are ordinary state changes.
The service has memory of its own: the detector's failure windows, the batch
the poller still has to apply, and whether it asks for a snapshot. The CrowdSec
server keeps a record of what it has told this client.

### Components

| Component (source) | State and operations | What makes it correct |
|---|---|---|
| Lifecycle (`cli/commands_lifecycle.go`) | enable, disable, reload, reset, default, logging, boot-load, boot-unload over all five | the answer is true: success on an enabled firewall means the kernel shows the stored state |
| Store (`store/store.go`) | the three files | no update is lost, no file is torn |
| Rule commands (`cli/commands_rules.go`) | load, number, (prompt,) lock, change, commit | the change is made to the current state; positions are those shown |
| Set, NAT, rule toggle, panic, sweep (`cli/commands_ext.go`) | lock, load, change, commit | apply before save; panic is lifted by nobody else |
| Application profiles (`cli/commands_app.go`, `appprof`) | load, change, save, apply, without the lock | as above |
| Import (`cli/commands_impexp.go`, `impexp/impexp.go`) | merge or replace, save, apply | merged once, no duplicates, bans keep their identity |
| Backend (`backend/nft/apply.go`) | Apply, Flush, fragments | Apply replaces the managed tables |
| Compiler (`backend/nft/compile.go`) | a pure function from state to tables | bans before accepts, first match, panic drops all, intervals cover exactly the set |
| Protection (`cli/commands_protect.go`, `protect/`) | failure windows, pending batch, bans | bans follow the configured rule, the CrowdSec set is reconciled, expiry works |
| Takeover (`cli/commands_migrate.go`) | stop the old manager, enable bfw, undo | the machine is never left without either, nor with both |
| Foreign readers (`impexp/iptables.go`, `impexp/firewalld.go`, `impexp/nftjson.go`) | pure functions from other managers' files to rules | bfw decides as the source did, or refuses the import |
| Rule model (`rule/rule.go`), numbering (`cli/status.go`) | matching, numbers shown | one rule for one tuple; a number means the rule it stands beside |
| Parser, show, report, rendering, dispatcher, defaults | text in, text out | covered by table tests; not modelled |

What is hard here is concurrency (load before the lock, commands without the
lock, operator prompts under the lock), ordering (apply before save or after),
failure half way (a fragment that fails after the core ruleset was applied, a
reload that stops and cannot start, torn files), and state that outlives what
it describes (the panic flag, NAT tables, an expired ban). `PROJECT.json` lists
every such hazard at its line with the property that covers it.

## The modules

| Module | What it is |
|---|---|
| `StoreOps` | The data: `State`, `Kernel`, what `compile` and `Apply` make of a state (`Compiles`, `Apply`), what each command makes of one (`Results`), `Sweep`. No variables. |
| `SerialStore` | The abstract specification of `rules.json`: commands take effect one at a time, each in one step on the state the last one left. |
| `Commands` | The detailed system: processes that run commands over the files, the kernel and the lock. |
| `MCCommands` | Small instances for TLC. |
| `CommandsProof` | The theorems about `Commands`. |
| `FailureWindow` | The abstract specification of the login protection: a detector that forgets nothing. |
| `Journal` | The detector as coded, with pruning, and `ScanJournal`'s loop over the bans it returns. |
| `Protect` | The bans of `rules.json` under the CrowdSec poller, the journal reader and sweeps; the server as the poller uses it. |
| `MCJournal`, `MCProtect` | Small instances for TLC. |
| `JournalProof`, `ProtectProof` | The theorems about `Journal` and `Protect`. |
| `Intervals` | Address sets: prefixes, intervals, their merging, lookups. |
| `Compile` | The compiler: each chain of the table `better-firewall` as a sequence of rules over packet fields. |
| `Firewall` | The abstract specification of the ruleset: the verdict of a packet read off `rules.json`, without chains, jumps, logging or sets. |
| `Packets` | The kernel at work on the compiled chains, rule by rule, with dynamic sets and rulesets that are replaced between packets. |
| `RuleList` | Rules4 and Rules6 under add, insert, prepend, delete, import and application updates. |
| `Readers`, `Iptables`, `Firewalld` | What the readers of two managers make of their files, and what those managers decide by them. |
| `Takeover` | `bfw migrate` step by step; how a configuration is read is a parameter. |
| `Migration` | `Takeover` with the two readers. |
| `MCPackets`, `MCRuleList`, `MCMigration` | Small instances for TLC. |
| `PacketsProof` | The theorems about `Packets`: sets, chains, bans. |
| `FirewallProof` | That `Packets` implements `Firewall` and limits hold. |
| `ListLemmas` | Induction over lists, what a fold over one computes, positions, insertion and removal, lists one after the other. |
| `RuleListProof` | The theorems about `RuleList`. |
| `MigrationProof` | The theorems about `Takeover` and about what `Migration` imports. |

`Commands` says when an update under the lock may be taken as one step, and
`Protect` and `RuleList` take it so; `Journal` says when a jail bans an address, and
`Protect` lets a jail ban any address at any time (`BanLocal`). What `StoreOps`
calls an item is in `Compile` a rule or a ban with all that decides whether a packet
meets it.

### How Commands corresponds to the code

A process `p` runs one command `op[p]` and is at a point `pc[p]` of it; `st[p]`
is the `store.State` it holds in memory. Points are the places where another
process, a crash or a reboot can come between: each access to a shared file,
each netlink transaction, the fragment runs, the lock and its release.
`OpsAt` says which command passes which point.

* `lock`: `acquireLock`. A busy lock fails the command (`LockBusy`); nobody waits.
* `load`: `Load` and the change in memory (`LoadState`), or the decision of a
  lifecycle command (`Dispatch`). A `rule` command loads first and takes the lock
  after it; `app` and `appDefault` never take it.
* `commit`: `commitState` sweeps and asks `live()`.
* `start`: `startFirewall`. `apply`, `frag`: `applyRuleset` or `reloadRuleset`,
  whose fragments are a second transaction; when one fails everything is flushed, and
  nobody asks whether that worked. `stray` is history: a flush that did not, of tables
  that a failed command applied, until they are flushed or replaced.
* `save`, `wipe`: writes of `rules.json`. `etc`..`etc3`: read, truncate, write
  of `/etc/default`. `yes`, `yes2`, `no`: truncate and write of the conf file.
* `live`: a save-first command applies if the firewall is enabled. `stop`:
  `stopFirewall`. `clear`: panic off while disabled.
* `ok`, `end`: the command returns 0 with its work done, or gave up; `Release`
  ends the process.

An `Item` is whatever one command adds, removes or replaces, with its expiry time; the set
`expired` only grows. `BadItem` are those `compile` rejects, `NatItem` the NAT rules.
`Policy` stands for the default policy of one direction. `EtcDefaults` is read together
with the netlink batch that uses it; a truncated file gives the same ruleset either way.
An error in `SaveConf` or `WriteEtcDefault` leaves what a crash at that point leaves, so
it is not an action of its own.

`Faults` switches on what may go wrong: `apply` (netlink), `hook` (before.init),
`frag`, `flush`, `save`, `crash` (a killed process, whose flock the kernel drops)
and `reboot` (processes and tables gone, files kept).

### How Journal corresponds to the code

`Observe` is `Detector.Observe` for one journal record: `reading[j]` is the
address that jail `j`'s identifiers and patterns find in it (or `NoAddr`), so one
record may count in several jails. It prunes when the minute (`PruneEvery`) is
over, cuts the window of the key, counts, and returns the bans (`todo`).
`ApplyBan` and `BanFails` are one turn each of the loop that applies them; the
next record is read when the loop is done, and other commands and the clock come
in between. `seen` and `reached` are history: the failures since the last report, and
the end of the last ban reported. The times compared carry Go's monotonic
reading, so the clock never goes back. `Restart` keeps the bans and loses the counters.

### How Protect corresponds to the code

| Action | Code |
|---|---|
| `Stream` | the request of `pollCrowdSec`, up to the server's answer |
| `StreamFails` | an answer that is lost, cut off, too long or cannot be decoded |
| `Receive` | `crowdSecUpdate`: the batch, or a fresh snapshot asked for when it is invalid |
| `Apply`, `ApplyFails` | `applyThreatUpdate` of the pending batch |
| `Retry` | the next tick with a batch still pending |
| `Restart` | the service ends, for whatever reason, and starts again |
| `BanLocal` | the callback given to `ScanJournal` |
| `Sweep` | what `commitState` of any other command does to the bans |
| `Decide`, `Revoke` | the server's own changes; a deleted decision ends now |

A batch that meets a taken lock, a failing commit (fault `lock`) or an expired ban
(`Refused`) changes nothing and is tried again at the next tick. `until[d]` is the end of
decision `d`; an answer carries what is left of it (`Remaining`), and the client adds that
to its own clock. `Captcha` are decisions of another type than ban, `Unreadable` bans
whose scope or value `crowdSecAddress` rejects. What the server is taken to do is what the
client counts on (`docs/crowdsec-lapi-research.md`, section 4): a startup request gets all
active decisions, another one what changed since the last answer, deletions may be
repeated. The request does not say `dedup=false`, so of the decisions on one address the
server tells the longest (`Longest`; section 1 of that document). What it leaves out is
`passed`: it is not looked at again until a startup request, not even if the longer one is
deleted. It advances its record (`told`) when it answers: an answer that is lost on the
way is not given again, and `missed` remembers that (the server holds the record back only
when its own write fails).

### How Compile and Packets correspond to the code

`Chain(st, name)` is the chain `compile` builds: the base chains of the three hooks,
`before`, `after`, the logging chains, `reject`, `track`, `user` and the limit
chains. A rule is a sequence of field tests (`on`), a set it updates (`meter`),
whether a rate may keep it from matching (`limited`), and a verdict. One operator
stands for each helper that builds expressions (`iif`, `ctState`, `fibAddrType`).
`compileRule`'s split of a rule into protocol variants, the log rules put before it,
and `compileLimit`'s dynamic set with its id per rule and family are kept; rates of
logging and counters are not. `Refused` are the rules a compile error comes from.

`Packets` has a packet at one point at a time: `Matched`, `Missed`, `Metered` and
`ChainEnd` are what nf_tables does with one rule (external, as compile.go uses it).
`spent` holds the elements of the dynamic sets, and `Quiet` their time out. These sets
have no bound here; the code's have 65535 elements, and one that is full lets through
what it cannot count.
`Apply` replaces the ruleset between two packets, which a netlink batch guarantees.

### How RuleList corresponds to the code

| Action | Code |
|---|---|
| `RuleOp` | `runRuleOp`: expand the application, then for each item `applyDual` or one `applyHalf` with `v4Position`, `v6Position`, `findOtherPosition` |
| `deleteByNumber` | the function of that name with `ruleByNumber` |
| `Import` | `mergeRules` for each family |
| `AppUpdate`, `EditProfile` | `appUpdate` with `updateAppRule`; the profile's file changes before |

`setRuleEngine` walks a list once, as the code does, with its `pos` that moves past a
group, and `outcome` is the message it answers. What `Match` compares is a key (and a
profile's item), so addresses and ports are behind it. Positions are recomputed where
the code does, also where this leads to the split of `group_split`.

### How Takeover, Iptables and Firewalld correspond to the code

`pc` is the point `cmdMigrate` has reached; an action ends at each change outside the
process. `StopSource`, `RestoreSource` are one `systemctl` or `ufw` call each, and one
that fails may have done part of its work. `ApplyFails` is `applyRuleset` with an
error: nothing changed, or a fragment failed and `Flush`, whose error nobody reads,
worked or not. A failed `PersistEnabled` leaves anything in the conf file. `warned` is
what the operator was told. `Lock` is `acquireLock` and the second look at the managers:
a lock that is taken ends the migration, it is not waited for. `Administer` starts or
stops a manager at any time of a takeover, above all while it prompts, which is after that
look; `touched` is history, the managers so changed since. `opts.dir` is the directory
the files are read from.

`iptParseSpec` sorts a line into a rule, a line to skip, a RETURN or an error. A line
has an interface, a source, services (ports, or protocols without) and a state; `odd`
stands for every option refused by itself. `chainRules` stops at a RETURN,
`mergePolicy` makes one policy of two families' with a catchall for the laxer one.
`Firewalld` has zones of the vendor and of `/etc`, bindings, `checkZoneOverlap`,
services that include others (`resolveService`), and `emit`, which intersects a rule's
source with the zone's: `Prefix` is the sets of addresses that are prefixes, which
contain one another or are apart. A template has the families its services have
(`carried`): one of ICMPv6 is of IPv6 alone, and an error where only IPv4 is left.

How bfw decides by what was imported is `Decide`. `compile` does not decide by the stored
state alone: the policies and the IPv6 switch of `/etc/default/better-firewall` take
the place of the stored ones (`InForce`), IPv6 is dropped where it is off (`Off`), and the
before chains accept some packets before any rule (`Before`). `EtcFile` is a set of
such files, and a migration writes none. `IptDecides` is iptables by a line
(`IptStates`) or else by the policy of the chain; `FwAccepts` is firewalld, which denies
before it accepts, by an element of the zone (`FwStates`) or as ICMP, which the
default target accepts.

## The runs

Every run of `Commands` has two processes, which is what every property here needs to be
broken: one that is overtaken and one that overtakes it.

| Run | Instance | Shows |
|---|---|---|
| `commands` | rule, app, app default, panic, enable, reset; fragments may fail; one item | `TypeOK`, `LockInv`, and `CommandsEnd`: every command ends or waits at a prompt |
| `commit` | everything that applies before it saves, and the lifecycle commands; one good and one bad item; all faults but failing saves and kills | `HolderSeesCurrent`, `NotAhead` and the invariant `KernelInv` behind it |
| `serial` | every command that loads under the lock; every fault; one item, two policies | `SerialSpec` (refinement of `SerialStore`), `PanicSticky`, `PanicHeld`, `AppliedOnSuccess` |
| `panic_lost` | rule, panic, enable; no faults | counterexample to `PanicHeld`: a rule command loads, on an enabled firewall, a ruleset without panic over a panic |
| `journal` | two jails, two addresses, one pair ignored; four records, five ticks; restarts | `TypeOK`, `NoneOverdue`, `ReportsAreBans`, `WindowSpec` (refinement of `FailureWindow`) |
| `protect` | a decision with the address a jail bans, a second like it, and one the client cannot use; lifetimes 1 and 3, two ticks; lost answers, taken locks and restarts | `TypeOK`, `OneBan`, `Reconciled`, `LocalBansKept`, `DecisionsTakeEffect` |
| `packets` | some sixty configurations, forty packets, addresses of 3 bits, a burst of 2 | `TypeOK`, `BannedNeverAccepted`, `LimitHeld`, `SetsInsertable`, `FirewallSpec` (refinement of `Firewall`) |
| `set_top` | a ban on the upper half of the addresses and one in it | counterexample: a banned address is not in the set |
| `rulelist` | two rules of both families, one profile of one or two items in two groups, one of both families and one of IPv4 alone; lists of at most 3 | `TypeOK`, `NoneDoubled`, `OthersKept`, `PrependFirst`, `GroupsKept`, `TwinOrder` |
| `group_split` | a rule and an application of three items, both of both families; lists of at most 4 | counterexample: an inserted application is split |
| `migrate` | several hundred iptables and firewalld configurations, a state of before, three `/etc/default` files, failures everywhere, kills, an administrator | `TypeOK`, `NeverBare`, `OneFirewall`, `Undone`, `HandedOver`, and of the readers `IptablesKept`, `UndeclaredKept`, `FirewalldKept` |
| `broadened` | the firewalld configurations alone | counterexample: an accept ahead of a deny |

One item that compiles and one that does not give every outcome of `compile`;
two policies tell a kept policy from a changed one. Processes are unbounded in
the number of commands they run, so sequences of any length are covered; the
only bounds are the sizes of `Proc`, `Item` and `Policy`. `serial` uses the
symmetry of the processes (it checks no liveness property).

`journal` has limits 3 and 2, windows of 2 and 1 ticks and a pruning every 3,
so that failures fall out of a window between prunings, at one, and exactly at
its edge; four records are enough for a report and a failure before and after it.
`protect` lets a decision of one tick expire at every point of the poll, and one of
three outlast the run (`Lasting`); `d1` and `d2` ban the address the jail bans too,
so that one may be told of in the other's place, and a batch with `bad` is invalid.

Three bits (`Width`) are enough for prefixes that are apart, touch, contain one another,
and reach the first and the last address. The packets meet every built-in rule and its
neighbours on each side; the rules of the pool overlap, so each pair in each order says
who is first. The burst of 2 is used up within a run, with tcp and udp. The lists of
`RuleList` hold a group of two and a rule beside it, or rules of two groups in each
other's midst: enough for a twin missing on either side, a group at each end and a group
split by another. What groups of three do (`group_split`) they cannot show;
`GroupsAreKept` and `TwinsInOrder` are about groups of any size. Dumps have up to two
lines (one may hide, contradict or precede the other), zones up to two elements and two
bindings. The services are two ports, echo requests and another ICMPv6 type, which tell a
built-in accept, firewalld's ICMP and a rule apart; the three `/etc/default` files repeat
the defaults, say nothing, and say the contrary with IPv6 off. The state of a migration
before is one or none; imports read every configuration, takeovers, whose course depends
little on it, four of them. `VIEW` in `rulelist` leaves out the history of the last
command, which no action reads. `migrate` stops where a migration ends.

**Fairness.** `FairSpec` asks weak fairness of the steps of each running
command, which the operating system's scheduler gives. It does not cover a
command that waits for its operator (`Prompting`): a delete or a reset may stay
at its prompt for ever, the latter with the lock in hand. New commands, faults
and the passing of time are not fair.

In `Protect` the poll loop goes on: its ticker fires, so `Stream` and `Retry` are weakly
fair. `Receive` is strongly fair: if the server is asked again and again an answer arrives
in the end (each request has a time limit, so a hung one fails and is repeated). So
is `Apply \/ ApplyFails`, because a batch is tried as soon as it is there, and
restarts cannot always come before that. Only that it is tried is assumed, never
that a try gets the lock. So `DecisionsTakeEffect` excepts tries that go on failing
(`poller = "retry"`, again and again), beside answers that are lost and decisions passed
over for a longer one. Restarts, lost answers, jails, sweeps and the server's
decisions are not fair.

In `Packets` the steps of the kernel through a ruleset are weakly fair (`Step`); that
packets arrive is not. In `Takeover` the steps after the save are (`Handover`): none
of them waits for a prompt or a lock. That the lock is free is not assumed.

### What the counterexamples say

* **Lost update.** `runRuleOp` and `deleteByNumber` call `Load` before
  `acquireLock`. A panic, ban or any other change saved in between is written
  over. On an enabled firewall it is undone in the kernel first: a panic that had just
  dropped all traffic gives way to the rules of before it, which the run shows. On one
  that is not, only `rules.json` is written over.
* **Endless intervals end.** `mergeAddrIntervals` takes an interval up to the last
  address to contain the next one, and then takes over the next one's end. A ban
  or set with such a prefix (`128.0.0.0/1`) and a second inside it loses what lies
  behind the second. `packets` has no such pair, and there sets are complete.
* **Split groups.** `applyDual` counts the IPv4 rules again after each item of an
  application, but keeps the number the user gave and subtracts the count of items,
  so in the second family each item is placed by the twin of another rule. Of
  three items inserted at number 1, before a rule, IPv6 has the first behind
  that rule. `GroupsKept` holds for all but such inserts (`InPlace`), applications of
  which rules are there already (`AppIsThere`), and imports of documents that
  are split themselves (`FromWhole`). What is split stays so, and
  `updateAppRule` emits a group once for
  each run of its rules it meets: two groups of one profile in each other's midst are
  doubled by `app update`. So `NoneDoubled` asks that the groups were whole.
* **Deny after accept.** firewalld's order is not that of its files. `FirewalldKept`
  holds of zones that list what denies first.

Behaviours the models show that no run of their own is kept for: `panic` answers from its
flag, so after `disable` a second panic drops nothing. NAT tables outlive their last rule,
since `Apply` deletes only tables the new ruleset has. import, default, logging, app
update and panic off save before they apply, which `commitState` was changed not to do.
`Observe` forgets the failures it reports, and a ban that meets a taken lock is only
warned of. A CrowdSec batch that waits until one of its decisions has expired is refused
from then on. When the longest of several decisions on an address is deleted, the others
are not enforced until the next snapshot. When the flush after a failed fragment fails
too, whose error is ignored although the comment there says "roll back the core ruleset"
(`commands_lifecycle.go:117`), a ruleset that was refused stays in the kernel and
`rules.json` never hears of it. Of two lines of a dump that match the same packets,
`mergeRules` puts the last verdict in the first one's place. A number given to `insert` is
an index to `setRuleEngine` and a count of shown rules to `findOtherPosition`: behind a
group of two, `insert 3` of a plain rule goes before one rule in IPv4 and before the next
one in IPv6, so the families come to decide in different order, though a comment says the
second half is placed by the twin of the rule displaced (`TwinOrder` holds for numbers of
which the two readings agree, `NumberIsPlace`). A failed takeover restores neither the
table of before nor `ENABLED`, and one that is killed after it stopped the source leaves
no firewall; a manager started at its prompt runs beside bfw in the end. `appendPortExprs`
takes of a rule's port ranges those of the protocol variant at hand; a rule for a protocol
of which none of its ranges is, as `appRulesFromSpecs` can make of a profile, compiles
without a port test and meets every port (the states of `packets` have no such rule).

An import puts the policies it reads into `rules.json`, where `/etc/default/better-firewall`
overrides them. So a dump with `INPUT ACCEPT` ends in `DROP` under the usual file, and one
with `OUTPUT DROP` in `ACCEPT`, although `impexp/iptables.go:9` speaks of "an actionable
error rather than silently dropping or broadening semantics". And `mergePolicy`'s
catchall for the family without a dump is made from the stored policy: where that one
was "allow" and not in force, the catchall opens the family, although
`impexp/iptables.go:43` says "nothing is widened or narrowed for the undeclared side".
`IptablesKept` and `UndeclaredKept` are about the directions whose stored policy is the one
in force (`Honoured`), and, for what a line of the dump decides, about all.

## The proofs

`CommandsProof` proves, for every value of the constants that meets the stated
assumptions:

1. `Typing`: `TypeOK` is inductive by itself.
2. `MutualExclusion`: `LockInv` with `ControlInv` (`op[p]` is one of
   `OpsAt[pc[p]]`), which is needed because a load-first command at `load` does
   not hold the lock while another command there does.
3. `LockedSavesAreCurrent`, if no command is lockless: `HolderSeesCurrent` is
   inductive given 1 and 2. A save of one process would break it for another,
   but both would hold the lock (`OneUnsaved`).
4. `SerialRefinement`, if all commands load under the lock: each save is an
   `Effect` of `SerialStore` by 3, a crash or a release a `Return`, a reboot
   the `Return` of all; everything else is a stutter.
5. `PanicStays`: the save that clears the flag is, by 3, what its command makes
   of a state with the flag, and only panic off, reset and import clear it.
   `PanicInKernel` (`PanicHeld`): a command that applies first has a change of the
   current state in memory, by 3, and the others have saved what they apply, by 7.
6. `KernelIsKnown`, if the commands apply before they save, `Save` does not fail and no
   process is killed: `KernelInv` is inductive. `NotAhead` alone is not, since a holder of
   the lock is often half way; `HolderKnows` says what it knows at each point. All three
   except what is `stray`: tables of a failed command that a flush could not take away
   either. `HolderStep` is its own step, `OutsiderStep` a step without the lock, `Frame`
   the processes that stand still. `KernelNotBehind` (`NotAhead`) follows.
7. `SuccessMeansApplied`, if no command is lockless, under all faults: the
   same scheme with `HolderApplied`.

`JournalProof`:

8. `CountersAreRight`: the counters of a key are failures seen, and contain
   all those still in its window (`CountersInv`). Pruning and cutting keep that,
   so they change no count; it is what makes
9. `DetectorRefinement` go through: each `Observe` is a `Fail` of `FailureWindow`
   with the same reports (`SameReports`).
10. `NoJailIsOverdue`: by 8 and the numbering of the records
    (`RecordsAreNumbered`), a failure counted without a report had fewer than
    `maxRetries` in the window before it, and nothing older changes that.
11. `ReportsBecomeBans`, if no apply meets the lock: a report not banned yet is
    still in the loop (`PendingInv`).

`ProtectProof`:

12. `BansAreReconciled`: `Reconciled` says nothing while a batch is on its way, so
    `PollInv` does: the batch adds only decisions told of, to their end
    (`BatchInv`); what is told of is enforced or in the batch (`CoverInv`);
    what was taken back is gone or deleted by the batch (`RestInv`).
13. `OneBanEach`, with 12, since a batch has one ban for a decision.
14. `JailBansLast`: the poller's batches hold CrowdSec's bans alone (`SourceInv`),
    and a jail's ban is only replaced by a later one (`LocalInv`).

`MigrationProof`, of the command, from `TakeoverAssumption` alone (whatever the managers,
the configurations and the reader):

15. `TakeoverTyping`, `SomeFirewallRuns`, `OnlyBfwRuns`, `FailureUndoes`: one
    inductive invariant, `IInv`. `NeverBare`, `OneFirewall` and `Undone` speak of the
    end, so it adds what has been done at each point: nothing before the save
    (`Untouched`), what the table was made from (`TableKnown`), and which managers run
    and whether the source is back (`InHand`). One lemma for each action.

`PacketsProof`, for all rules, named sets, bans, policies and log levels, from
`ContentAssumption` (every configuration is a `rules.json`), `HeaderAssumption` (a
packet has the fields of one) and `WidthAssumption`; the length of an address is any:

16. `SetsAreInsertable`: inserting one by one leaves the intervals in order
    (`InsertOrdered`) with all that were there (`InsertKeeps`), and each step of the
    merge leaves its result apart and the last interval not behind what comes
    (`MergedStep`, by `ListFold`). `SetOf` adds that a merged set covers no address its
    elements do not, and all that they do unless an element reaches the last address of
    its family and holds one that does not (`TopHoldsTop`).
17. `PacketsTyping`: jumps go deeper only. `Depth` ranks the chains (a base chain, the
    chains it jumps to, those of limits and logs), `Nests` says of a chain that its jumps
    go to deeper ones, and each chain of the compiler has it (`ChainNests`). So the
    stack, whose chains get deeper (`NestInv`), never holds more than three.
18. `BansHold`, if the bans in force are `TopHoldsTop`: `BannedNeverAccepted`. `set_top`
    shows a configuration that is not, and what becomes of it. A banned packet
    is in the base chain up to the jump to `before`, in the logging chain that
    was called from there, or in `before` up to the rule of its family's bans
    (`BanInv`); until then only loopback is accepted. `BaseShape`, `BeforeShape`
    and `LogShape` say how the chains begin, `StepKeeps` goes through their rules,
    `LiveBansComplete` says of the set which that rule looks up that it holds all bans.

`FirewallProof`, from the same assumptions and from `Meant` of every configuration,
which TLC evaluates for those of `packets` (`StatesMeant`):

19. `RulesetDecides`: `Packets` implements `Firewall`, up to fairness. The order of the
    chains, the jumps, the log levels, the protocol variants, the meters and the merged
    sets come to the verdict that the list at the top of compile.go and the first
    covering rule give. `Meant` has what it takes: the bans and the named sets are
    `TopHoldsTop`; a rule names sets that there are (the kernel refuses a lookup in
    another); and a rule with ports is for a protocol that has ports, and no end of a
    rule has only ports of another protocol than one of its variants (the finding
    on `appendPortExprs` is what happens otherwise).

    `Stage` numbers what Firewall decides in the order of the chains: the eighteen
    built-in decisions, then each rule of the packet's family. A list of rules is
    `Good` from a stage to another if a packet in the first meets nothing
    but rules that do to it what Firewall says, and is in the second when none of them
    settles it. That composes (`GoodCat`), so each rule needs its own lemma only:
    `HeaderRule` and `BanRule` to `NotLocalJump` for the built-in ones, `OneRuleGood` for
    the variants of a rule of the user, whose tests together are what Firewall means by
    covering (`AddrTests`, `PortTests`, `MatchTests`, `VariantsCover`), then
    `BeforeGood` and `UserGood` for the chains. Logging chains and logging rules settle
    nothing (`StillRules`).

    A chain that is `Closed` for a packet settles it if it gets there, so a jump to one
    never comes back (`EndOpen`). `AgreeInv` says that a packet on its way stands in a
    chain it may be in (`Entry`), behind rules that do not settle it, and that the same
    holds of every chain on the stack up to its jump (`Called`). It is not inductive
    without the stack: a packet that comes back to a chain is past the rules before the
    jump only because it was when it left. `RuleRight`, `AgreeNext`, `AgreeJump`,
    `AgreeReturn` and `AgreePolicy` are its steps.
20. `LimitIsHeld` (`LimitHeld`), for any burst. A connection is counted when a packet
    meets the first of the two rules of `compileLimit` and let through by the second, so
    the numbers differ in between: `PaidInv` adds to what was granted the connection a
    packet is about to open (`Owed`), and says that the meter has counted them all. Hence
    every way to the second rule must be shown to lead over the first within its rate.
    Wherever a rule jumps to `user-limit-accept`, the one before it counts, and matches
    every new packet the second matches (`Paired`, of each chain by `ChainPaired`). So a
    packet that goes on from the first was counted, unless the first missed it, which it
    cannot (`DueAfter`: what a limit rule decides is new, `LimitedNew`); no jump leads
    behind the first (`DueInside`); and nothing comes back there, since `user-limit`
    settles what it gets (`DueBack`, by `AgreeInv`). The meter it is counted in is that
    of the rule that decides it, whichever variant matches (`MeterOf`), so both variants
    of a rule count in one.

`RuleListProof`, for lists of any length, any keys, profiles and documents:

21. `RuleListTyping`. Every operation is a fold over a list, and induction over data
    is out of the provers' reach in the form the library has it, so `ListLemmas` has
    it in another: `ListInduction` speaks of a *set* of lists that contains the
    empty one and is closed under `Append`, `ListFold` says that a fold takes one
    step more for a list with one element more. Each fold of the model has a lemma
    (`WalkedFold`, `DeletedFold`, `AppliedFold`, `MergedFold`, `UpdatedFold`) that an
    invariant of its step is one of its result.
22. `NothingIsDoubled` (`NoneDoubled`) and `OthersStay` (`OthersKept`) share the
    relation `Kept(old, new, k)`: a change of the key `k` keeps the rules of other keys
    as they were, and makes no double. It composes (`KeptTwice`), and holds of a walk
    (`EngineKept`), of a half, of both halves and of a whole command (`RunKept`). For
    the walk `WalkShape` says what its accumulator holds of the list walked so
    far. An update of a profile takes each rule of a whole group once
    (`UpdatedDistinct`).
23. `PrependedIsFirst`: `WalkedFirst` for position 1, `PrependPlace` for what the
    counts are before each item, the last item first.

24. `GroupsAreKept` (`GroupsKept`). A step of `setRuleEngine` that puts nothing new in
    leaves a list `Within` the one before: the same slots in the same order, some left
    out, so that a whole group stays whole (`WithinWhole`). A rule that is not there is
    put in the `Place` that its position leads to, the next that does not part two rules
    of one application (`WalkedPlace`, by induction over the list; `EnginePut`), so no
    other group is split (`PlaceWhole`). The group of the command itself needs more: that
    its rules stand in one `Stretch` that begins where the next one, put at the aimed
    position, joins it (`FirstStretch`, `NextStretch`). That is the invariant of the loop
    of `runRuleOp` (`Growing`), whose positions stay where they were aimed (`AimPlace`);
    for an insert in both families `applyDual` looks for the IPv6 position of each rule
    anew, hence `InPlace`. `MergedWhole` and `UpdatedWhole` are the folds of import and
    application update; the last rule of each list so far tells both which group may go on
    (`LastKey`).
25. `TwinsInOrder` (`TwinOrder`). From equal lists without doubles the lists stay equal
    after everything but two kinds of step (`CommandAlike`, with `Alike` as the invariant
    of the loop): a deletion by number leaves both `Within` the list of before, as does a
    rule that is there already, and twins in two such lists are in one order
    (`WithinOrdered`); and an insert, whose second half goes where `findOtherPosition`
    finds the twin of the rule behind the first half. `PlaceIsNumber` and `PutShown` show
    that with the list counted again, up to a number that is a place, that rule is the one
    of that number, and `TwinFound` that its twin is at the same place (`DualAlike`).
    Without the second count the place behind the last IPv4 rule would be taken for the
    first of the IPv6 rules.

`MigrationProof`, of what it imports, for dumps, zones, states and packets of any kind, from
`MigrationAssumption` (the dumps are dumps, the zones zones, the state of before is a
state, and `Takeover`'s `Read` is the reader) and `FirewalldAssumption` (two prefixes
are nested or apart, every zone has its place in `zoneOrder`):

26. `IptablesAgrees`, for any set of `/etc/default` files and of packets that the before
    chains accept. What bfw decides is the override of the policies, what is aside, and
    `RuledSaid`: `Said` or the policy in force (`DecideSaid`). `Said` is the verdict of
    the first rule that a packet meets, or none. The rules read of a chain say what its
    lines say (`ReadRight`, by induction over the chain), and so do those of a dump
    (`StreamRead`); merged into an empty list they still do, unless two of them contradict
    each other (`MergedSaid`, by induction over the list; `From` says that every rule kept
    has the tuple and the verdict of one read). Each call of `mergePolicy` settles the
    packets of one direction and leaves the others as they were (`PolicyMerged`), which
    gives `ImportDecides`. `ImportKnown` says that what a takeover has in hand was
    imported so from the configuration and the state it loaded; `IInv` of 15 is needed for
    that.
27. `UndeclaredStays`, of the same lemmas, with any rules loaded.
28. `FirewalldAgrees`. The rule `emit` makes of a binding and an element meets what the
    binding captures and the element means, for the narrower of two nested prefixes is
    both of them (`EmitSaid`); its templates make up a service (`TemplatesCover`). So an
    element says its verdict of what the zone captures and it catches (`ElemSaid`), and a
    zone with its denials first accepts what the elements of firewalld's do (`FwStates`),
    which looks for denials everywhere (`ZoneSaid`). Nothing else is allowed unless the
    policy in force allows it; firewalld's ICMP makes it accept more, never less. A
    configuration whose bindings do not overlap has one zone for a packet (`OneZone`), so
    the zones before it say nothing (`ZonesSaid`); the stock policy and `MergedSaid`
    complete it. The two conditions of `FirewalldKept` are needed: `broadened` shows one
    to be, and contradictory rules are merged into one.

The assumptions are those of the code: `Nobody` is no process, NAT and bad
items are items, `deny` is a policy; times and limits are positive (`Validate`),
and no jail's source is `crowdsec`. The restrictions on `Cmds` are not
conveniences: `panic_lost` shows what happens without the first, and commands that
save first break `NotAhead`.

Only model-checked: `CommandsEnd`, `DecisionsTakeEffect` and `HandedOver`, liveness
properties under fairness, and that every packet gets its verdict, which `FirewallSpec`
adds to `RulesetDecides`. They are out of the prover's reach.

## Not modelled

Sysctl files, modules, after hooks and systemctl calls of the lifecycle commands
(warnings only, never read back); log levels in `Commands` and the policies of the
other two directions there; dry runs (no state change); the command line parser, rendering,
read-back, show, report and the default files (text conversion without state of its
own); the NAT table's chains; nftjson.go and `ImportUFW`, which read other formats
into the same merge; a service's destinations in firewalld; the merge of sets,
NAT rules and bans on import; the staging file `rules.json.tmp`, which two saves at once
share (a save is one step); `check`, whose report changes nothing; the text of journal
records and answers, the key file and the URL of the server; the size of a limit rule's
dynamic set; in the import of iptables and firewalld, ICMP codes and NAT. A reset or
an import that replaces the bans under a running poller is not in `Protect` (`PROJECT.json`
lists it as a hazard), and the kernel's side of a ban is that of any item in
`Commands`. `enable` and `panic` are left out of `AppliedOnSuccess`: finding the work
done they return 0 without applying.

## Plan

1. `SaveFile`: `rules.json.tmp` as a shared file under two saves and a reader.
2. `Merge`: import's merge of sets, NAT and bans, with `nftjson.go`.
3. `Check`: shadowing reports against packet semantics.
4. `Nat`: the chains of `better-firewall-nat` beside those of the filter table.
