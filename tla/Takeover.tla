------------------------------ MODULE Takeover ------------------------------
(***************************************************************************)
(* bfw migrate, with and without --takeover: read the configuration of the *)
(* active firewall manager, save what it says as rules.json and, for a     *)
(* takeover, stop that manager and start bfw in its place.  Every step     *)
(* outside the process may fail, and nothing is written down that a killed *)
(* migration could be finished from.                                       *)
(*                                                                         *)
(* How a configuration is read is a parameter: Iptables and Firewalld      *)
(* define it for two of the managers.                                      *)
(***************************************************************************)
CONSTANTS
    Manager,        \* the firewall managers that can be taken over
    Given,          \* the options given
    Directory,      \* where such files are read from
    Config,         \* what they may hold
    holds,          \* holds[dir]: what those of a directory may hold
    Content,        \* what rules.json may hold
    Prior,          \* what it may hold before
    Default,        \* store.Defaults()
    Failed,         \* Read's answer to what it cannot represent
    None,           \* no file, no table in the kernel
    Read(_, _)      \* Read(c, base): the import of c into base

Options == [from : Manager \cup {"auto"}, dir : Directory, replace : BOOLEAN,
            takeover : BOOLEAN]

ASSUME TakeoverAssumption ==
    /\ Given \subseteq Options /\ Prior \subseteq Content /\ Default \in Content
    /\ Failed \notin Content /\ None \notin Content
    /\ holds \in [Directory -> SUBSET Config]
    /\ None \notin Manager /\ "bfw" \notin Manager /\ "auto" \notin Manager
    /\ \A c \in Config, b \in Prior \cup {Default} : Read(c, b) \in Content \cup {Failed}

VARIABLES
    active,         \* the managers that run
    boots,          \* the firewalls that start with the system
    file,           \* rules.json
    table,          \* what the kernel's table of bfw was made from
    enabled,        \* ENABLED in bfw.conf
    pc,             \* where the migration is
    opts,           \* its options
    source,         \* opts.from once it is resolved
    config,         \* what it read
    previous,       \* the state it loaded
    existed,        \* stateFileExists
    merged,         \* the state it imported
    warned,         \* what it has warned of
    rc,             \* how it ended
    touched         \* history: the managers the administrator started or
                    \* stopped since the migration looked last

host == <<active, boots, file, table, enabled, touched>>
command == <<opts, source, config, previous, existed, merged, warned, rc>>
vars == <<host, pc, command>>

Steps == {"idle", "resolved", "locked", "loaded", "imported", "saved", "stopped",
          "started", "stop", "restore", "undo", "done", "killed"}
Warnings == {"fragment", "boot", "table", "source", "state"}

Init ==
    /\ active \in SUBSET Manager /\ boots = active
    /\ file \in Prior \cup {None}
    /\ enabled \in BOOLEAN
    /\ table = IF enabled /\ file # None THEN file ELSE None
    /\ pc = "idle" /\ opts \in Given
    /\ source = None /\ config = None /\ previous = None /\ existed = FALSE
    /\ merged = None /\ warned = {} /\ rc = "none" /\ touched = {}

-----------------------------------------------------------------------------
End(code) == /\ pc' = "done" /\ rc' = code
Refuse == End("refused") /\ UNCHANGED <<host, opts, source, config, previous, existed, merged, warned>>

(* detectMigrationSource: the only manager that is active, if only one is. *)
Detected(m) == active = {m}

(* A bug: the source stays "auto", as it was given.                        *)
ResolveByName ==
    /\ pc = "idle"
    /\ \E m \in Manager : opts.from \in {"auto", m} /\ Detected(m)
    /\ source' = opts.from /\ pc' = "resolved"
    /\ UNCHANGED <<host, opts, config, previous, existed, merged, warned, rc>>

(* Up to the lock. *)
Resolve ==
    /\ pc = "idle"
    /\ \/ \E m \in Manager :
             /\ IF opts.from = "auto" THEN Detected(m)
                ELSE m = opts.from /\ (opts.takeover => Detected(m))
             /\ source' = m /\ pc' = "resolved"
             /\ UNCHANGED <<host, opts, config, previous, existed, merged, warned, rc>>
       \/ /\ opts.from = "auto" \/ opts.takeover
          /\ \A m \in Manager : Detected(m) => opts.from \notin {"auto", m}
          /\ Refuse

(* The administrator starts or stops a manager at any time of a takeover,  *)
(* not least at its prompt.  Other imports have nothing to do with them.   *)
Administer(m) ==
    /\ pc \notin {"idle", "done", "killed"} /\ opts.takeover
    /\ active' = IF m \in active THEN active \ {m} ELSE active \cup {m}
    /\ boots' = IF m \in active THEN boots \ {m} ELSE boots \cup {m}
    /\ touched' = touched \cup {m}
    /\ UNCHANGED <<file, table, enabled, pc, command>>

(* A bug: what was active before the lock is taken to be active still.     *)
LockUnchecked ==
    /\ pc = "resolved" /\ pc' = "locked" /\ touched' = {}
    /\ UNCHANGED <<active, boots, file, table, enabled, command>>

(* A lock that is taken is not waited for; under the lock a takeover looks *)
(* again at what is active.                                                *)
Lock ==
    /\ pc = "resolved"
    /\ \/ Refuse
       \/ /\ opts.takeover => Detected(source)
          /\ pc' = "locked" /\ touched' = {}
          /\ UNCHANGED <<active, boots, file, table, enabled, command>>

Load ==
    /\ pc = "locked"
    /\ \/ Refuse
       \/ /\ previous' = IF file = None THEN Default ELSE file
          /\ existed' = (file # None)
          /\ pc' = "loaded"
          /\ UNCHANGED <<host, opts, source, config, merged, warned, rc>>

Import(c) ==
    /\ pc = "loaded" /\ c \in holds[opts.dir] /\ c.manager = source
    /\ LET result == Read(c, IF opts.replace THEN Default ELSE previous)
       IN  IF result = Failed THEN Refuse
           ELSE /\ merged' = result /\ config' = c
                /\ pc' = "imported"
                /\ UNCHANGED <<host, opts, source, previous, existed, warned, rc>>

(* A dry run ends here, and so does a "no" to a takeover.                  *)
Decline == pc = "imported" /\ Refuse

Save ==
    /\ pc = "imported"
    /\ \/ Refuse
       \/ /\ file' = merged
          /\ pc' = "saved"
          /\ UNCHANGED <<active, boots, table, enabled, touched, command>>

(* A failing applyRuleset: the table stays as it was or, when it is one of *)
(* the fragments that fails, is flushed; nobody asks if that worked.       *)
ApplyFails(st) ==
    \/ UNCHANGED <<table, warned>>
    \/ table' \in {None, st} /\ warned' = warned \cup {"fragment"}

(* applyImportedState                                                      *)
Apply ==
    /\ pc = "saved" /\ ~opts.takeover
    /\ \/ ~enabled /\ End("ok") /\ UNCHANGED <<table, warned>>
       \/ enabled /\ End("ok") /\ table' = merged /\ UNCHANGED warned
       \/ End("failed") /\ UNCHANGED <<table, warned>>
       \/ enabled /\ End("failed") /\ ApplyFails(merged)
    /\ UNCHANGED <<active, boots, file, enabled, touched, opts, source, config, previous, existed,
                   merged>>

(* A bug: a source that could not be stopped is taken to run on.           *)
StopSourceOrLeave ==
    /\ pc = "saved" /\ opts.takeover
    /\ \/ active' = active \ {source} /\ boots' = boots \ {source} /\ pc' = "stopped"
       \/ /\ active' \in {active, active \ {source}} /\ boots' \in {boots, boots \ {source}}
          /\ pc' = "undo"
    /\ UNCHANGED <<file, table, enabled, touched, command>>

(* stopMigrationSource: what failed may have been done in part.            *)
StopSource ==
    /\ pc = "saved" /\ opts.takeover
    /\ \/ /\ active' = active \ {source} /\ boots' = boots \ {source}
          /\ pc' = "stopped"
       \/ /\ active' \in {active, active \ {source}} /\ boots' \in {boots, boots \ {source}}
          /\ pc' = "restore"
    /\ UNCHANGED <<file, table, enabled, touched, command>>

(* enableMigratedFirewall: startFirewall, persistEnabled, stopFirewall.    *)
StartFirewall ==
    /\ pc = "stopped"
    /\ \/ table' = file /\ pc' = "started" /\ UNCHANGED warned
       \/ pc' = "restore" /\ ApplyFails(file)
    /\ UNCHANGED <<active, boots, file, enabled, touched, opts, source, config, previous, existed,
                   merged, rc>>

(* A conf file that could not be written may hold anything.                *)
PersistEnabled ==
    /\ pc = "started"
    /\ \/ /\ enabled' = TRUE /\ End("ok")
          /\ \/ boots' = boots \cup {"bfw"} /\ UNCHANGED warned
             \/ warned' = warned \cup {"boot"} /\ UNCHANGED boots
       \/ pc' = "stop" /\ enabled' \in BOOLEAN /\ UNCHANGED <<boots, warned, rc>>
    /\ UNCHANGED <<active, file, table, touched, opts, source, config, previous, existed, merged>>

(* A bug: bfw is taken down and the source is not put back.                *)
StopFirewallOnly ==
    /\ pc = "stop" /\ pc' = "undo" /\ table' = None
    /\ UNCHANGED <<active, boots, file, enabled, touched, opts, source, config, previous, existed,
                   merged, warned, rc>>

StopFirewall ==
    /\ pc = "stop" /\ pc' = "restore"
    /\ \/ table' = None /\ UNCHANGED warned
       \/ warned' = warned \cup {"table"} /\ UNCHANGED table
    /\ UNCHANGED <<active, boots, file, enabled, touched, opts, source, config, previous, existed,
                   merged, rc>>

(* restoreMigrationSource                                                  *)
RestoreSource ==
    /\ pc = "restore" /\ pc' = "undo"
    /\ \/ /\ active' = active \cup {source} /\ boots' = boots \cup {source}
          /\ UNCHANGED warned
       \/ /\ active' \in {active, active \cup {source}} /\ boots' \in {boots, boots \cup {source}}
          /\ warned' = warned \cup {"source"}
    /\ UNCHANGED <<file, table, enabled, touched, opts, source, config, previous, existed, merged, rc>>

(* A bug: the defaults that stood in for no file are written to one.       *)
RestoreLoaded ==
    /\ pc = "undo" /\ End("failed") /\ file' = previous
    /\ UNCHANGED <<active, boots, table, enabled, touched, opts, source, config, previous, existed,
                   merged, warned>>

(* restoreMigrationState                                                   *)
RestoreState ==
    /\ pc = "undo" /\ End("failed")
    /\ \/ file' = (IF existed THEN previous ELSE None) /\ UNCHANGED warned
       \/ warned' = warned \cup {"state"} /\ UNCHANGED file
    /\ UNCHANGED <<active, boots, table, enabled, touched, opts, source, config, previous, existed, merged>>

Kill == /\ pc \notin {"idle", "done", "killed"} /\ pc' = "killed"
        /\ UNCHANGED <<host, command>>

Handover == \/ StopSource \/ StartFirewall \/ PersistEnabled \/ StopFirewall
            \/ RestoreSource \/ RestoreState

Next == \/ Resolve \/ Lock \/ Load \/ (\E c \in Config : Import(c)) \/ Decline \/ Save
        \/ Apply \/ Handover \/ Kill \/ \E m \in Manager : Administer(m)

(* The process runs on: once it has saved it waits for nobody.             *)
Spec == Init /\ [][Next]_vars /\ WF_vars(Handover)

-----------------------------------------------------------------------------
TypeOK ==
    /\ active \subseteq Manager /\ boots \subseteq Manager \cup {"bfw"}
    /\ file \in Content \cup {None} /\ table \in Content \cup {None}
    /\ enabled \in BOOLEAN /\ pc \in Steps /\ opts \in Given
    /\ source \in Manager \cup {None} /\ config \in Config \cup {None}
    /\ previous \in Prior \cup {Default, None} /\ existed \in BOOLEAN
    /\ merged \in Content \cup {None}
    /\ warned \subseteq Warnings
    /\ rc \in {"none", "ok", "refused", "failed"} /\ touched \subseteq Manager

(* A takeover that ended has left a firewall running and one that starts   *)
(* with the system, the source or bfw, or has said what it could not do;   *)
(* what the administrator did to the source meanwhile is not its doing.    *)
NeverBare ==
    pc = "done" /\ opts.takeover /\ rc \in {"ok", "failed"} =>
        /\ source \in active \cup touched \/ table = merged \/ "source" \in warned
        /\ \/ source \in boots \cup touched \/ "bfw" \in boots
           \/ {"source", "boot"} \cap warned # {}

(* A takeover that worked leaves one firewall: what the kernel has is what *)
(* was imported, and beside bfw only a manager runs that the administrator *)
(* started after the migration had looked under the lock.                  *)
OneFirewall ==
    pc = "done" /\ opts.takeover /\ rc = "ok" =>
        active \subseteq touched /\ table = file /\ file = merged /\ enabled

(* A takeover that failed leaves rules.json as it was, absent if there was *)
(* none, and nothing of what it imported in the kernel, or has given a     *)
(* warning.                                                                *)
Undone ==
    pc = "done" /\ opts.takeover /\ rc # "ok" =>
        /\ previous # None /\ "state" \notin warned =>
              file = IF existed THEN previous ELSE None
        /\ merged # None /\ table = merged =>
              {"fragment", "table"} \cap warned # {} \/ merged \in Prior

(* A host without its firewall gets one again, unless nobody is left to    *)
(* see to it or the restoring failed.                                      *)
HandedOver ==
    pc \in {"stopped", "restore"} ~>
        \/ pc = "killed" \/ "source" \in warned
        \/ source \in active \/ (table = merged /\ enabled)
=============================================================================
