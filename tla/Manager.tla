------------------------------- MODULE Manager -------------------------------
(***************************************************************************)
(* The persistent integration of data protection (manage.py): the systemd     *)
(* unit and udev rules, the command link, the versioned program directories,    *)
(* the installation receipt and the directory that each upgrade leaves behind.  *)
(* Commands hold one lock and are sequences of durable steps, each of which may *)
(* raise before or after its effect; only the upgrade rolls back.  PID 1 runs   *)
(* the preparation and starts controllers without that lock.                   *)
(*                                                                         *)
(* Bounds: MaxVersions, MaxUpgrades, MaxFaults, MaxCrashes, MaxEdits.        *)
(***************************************************************************)
EXTENDS Naturals, Sequences

CONSTANTS
    Map,               \* names of data maps
    MaxVersions,       \* packages, one program directory each
    MaxUpgrades,       \* upgrade attempts that reach their backup
    MaxFaults,         \* steps that raise
    MaxCrashes,        \* deaths of a command
    MaxEdits,          \* files edited independently
    NoFile,            \* a file that does not exist
    Foreign            \* content that no receipt describes

ASSUME ManagerAssumption ==
    /\ MaxVersions \in Nat \ {0}
    /\ {MaxUpgrades, MaxFaults, MaxCrashes, MaxEdits} \subseteq Nat

VARIABLES
    unit,              \* the units, which name a program (UNIT; CONTROLLER and SLICE go with it)
    rule,              \* the maps that the udev rules describe
    entry,             \* the program that the command link names
    receipt,           \* install.json
    versions,          \* the program directories below VERSIONS
    backups,           \* the upgrade-* directories, in order of creation
    registry,          \* the registered maps
    ram,               \* this boot's runtime and its copies of registrations
    live,              \* the data maps that exist
    active,            \* the maps whose controller is not inactive
    proc,              \* the command that holds the control lock
    budget             \* faults, crashes and edits still allowed

integration == <<unit, rule, entry, receipt>>
disk == <<integration, versions, backups, registry>>
boot == <<ram, live, active>>
managerVars == <<disk, boot, proc, budget>>

Version == 1 .. MaxVersions
Program == Version \cup {NoFile, Foreign}
Rules   == (SUBSET Map) \cup {NoFile, Foreign}

\* "none": the state directory without a receipt.
Receipt == [state : {"none", "installing", "installed", "upgrading", "upgrade_failed", "uninstalled"},
            program : Version, maps : SUBSET Map]
ASSUME FilesAssumption ==
    NoFile \notin Version /\ Foreign \notin Version /\ NoFile \notin Receipt /\ NoFile # Foreign

Files  == [unit : Program, rule : Rules, entry : Program, receipt : Receipt \cup {NoFile}]
Backup == [state : {"staging", "applying", "complete", "rolled_back", "rollback_failed"},
           old : Files, program : Version]

Integration == [unit |-> unit, rule |-> rule, entry |-> entry, receipt |-> receipt]

InstallPc   == {"i_mkdir", "i_copy", "i_directory", "i_receipt", "i_unit", "i_rule", "i_entry",
                "i_enable", "i_installed", "i_activate"}
RegisterPc  == {"r_record", "r_check", "r_rule", "r_receipt", "r_prepare", "r_activate"}
UpgradePc   == {"u_backup", "u_mkdir", "u_copy", "u_applying", "u_quiet", "u_pending", "u_unit",
                "u_entry", "u_installed", "u_complete"}
UndoPc      == {"b_unit", "b_rule", "b_entry", "b_reload", "b_receipt", "b_verdict"}
UninstallPc == {"x_disable", "x_unit", "x_rule", "x_entry", "x_receipt"}

\* What a command keeps: the program of its package, the registrations and files it read
\* when it began, the maps whose controllers it will start, and whether a step of its
\* rollback failed.
Proc == [pc : {"idle"} \cup InstallPc \cup RegisterPc \cup UpgradePc \cup UndoPc \cup UninstallPc,
         program : Version, entries : SUBSET Map, starts : SUBSET Map, seen : Files, failures : BOOLEAN]

ManagerTypeOK ==
    /\ unit \in Program /\ entry \in Program /\ rule \in Rules
    /\ receipt \in Receipt \cup {NoFile}
    /\ versions \in [Version -> {"absent", "partial", "complete"}]
    /\ backups \in Seq(Backup) /\ Len(backups) <= MaxUpgrades
    /\ registry \in SUBSET Map /\ live \in SUBSET Map /\ active \in SUBSET registry
    /\ ram \in [program : Version \cup {NoFile}, entries : SUBSET registry]
    /\ proc \in Proc
    /\ budget \in [faults : 0 .. MaxFaults, crashes : 0 .. MaxCrashes, edits : 0 .. MaxEdits]

\* No command runs.
Idle == [pc |-> "idle", program |-> 1, entries |-> {}, starts |-> {}, failures |-> FALSE,
         seen |-> [unit |-> NoFile, rule |-> NoFile, entry |-> NoFile, receipt |-> NoFile]]

NoRuntime == [program |-> NoFile, entries |-> {}]

ManagerInit ==
    /\ unit = NoFile /\ rule = NoFile /\ entry = NoFile /\ receipt = NoFile
    /\ versions = [v \in Version |-> "absent"] /\ backups = <<>> /\ registry = {}
    /\ ram = NoRuntime /\ live = {} /\ active = {}
    /\ proc = Idle
    /\ budget = [faults |-> MaxFaults, crashes |-> MaxCrashes, edits |-> MaxEdits]

-----------------------------------------------------------------------------
(* Steps of a command. *)

At(pc) == proc.pc = pc
Goto(pc) == proc' = IF pc = "idle" THEN Idle ELSE [proc EXCEPT !.pc = pc]

\* exclusive_control(): a command that does not get the lock at once is refused.
\* proc.seen is what it reads before its first write.
Begin(pc, v) ==
    /\ At("idle")
    /\ proc' = [pc |-> pc, program |-> v, entries |-> registry, starts |-> registry,
                seen |-> Integration, failures |-> FALSE]
    /\ UNCHANGED <<disk, boot, budget>>

Fault == /\ budget.faults > 0
         /\ budget' = [budget EXCEPT !.faults = @ - 1]

\* One durable step, which may also raise before or after its effect.
Attempt(pc, Effect, next, handler) ==
    /\ At(pc)
    /\ \/ Effect /\ Goto(next) /\ UNCHANGED budget
       \/ Fault /\ (Effect \/ UNCHANGED <<disk, boot>>) /\ Goto(handler)

Require(pc, condition, next, handler) ==
    /\ At(pc)
    /\ Goto(IF condition THEN next ELSE handler)
    /\ UNCHANGED <<disk, boot, budget>>

Durable(e) == e /\ UNCHANGED boot
SetUnit(v)    == Durable(unit' = v    /\ UNCHANGED <<rule, entry, receipt, versions, backups, registry>>)
SetRule(v)    == Durable(rule' = v    /\ UNCHANGED <<unit, entry, receipt, versions, backups, registry>>)
SetEntry(v)   == Durable(entry' = v   /\ UNCHANGED <<unit, rule, receipt, versions, backups, registry>>)
SetReceipt(v) == Durable(receipt' = v /\ UNCHANGED <<unit, rule, entry, versions, backups, registry>>)
SetVersion(v) == Durable(versions' = [versions EXCEPT ![proc.program] = v]
                         /\ UNCHANGED <<integration, backups, registry>>)
Latest == Len(backups)
Record(state) == Durable(backups' = [backups EXCEPT ![Latest].state = state]
                         /\ UNCHANGED <<integration, versions, registry>>)

\* The integration is what its receipt says.
Matches(r) == unit = r.program /\ rule = r.maps /\ entry = r.program
Installed == receipt # NoFile /\ receipt.state = "installed"

-----------------------------------------------------------------------------
(* Program directories and the preparation of this boot. *)

\* Mutant: an existing directory is used without comparing its content.
SourcesBegin_Unverified(pc, copy, next, handler) ==
    \/ /\ versions[proc.program] = "absent"
       /\ Attempt(pc, SetVersion("partial"), copy, handler)
    \/ /\ versions[proc.program] # "absent"
       /\ Require(pc, TRUE, next, handler)

\* install_sources(): a directory that exists is reused only when it is complete.
SourcesBegin(pc, copy, next, handler) ==
    \/ /\ versions[proc.program] = "absent"
       /\ Attempt(pc, SetVersion("partial"), copy, handler)
    \/ /\ versions[proc.program] # "absent"
       /\ Require(pc, versions[proc.program] = "complete", next, handler)

SourcesCopy(pc, next, handler) == Attempt(pc, SetVersion("complete"), next, handler)

\* prepare() by program v: it never replaces the runtime or a registration of this boot.
Prepares(v) == ram.program \in {NoFile, v}
Prepared(v) == /\ ram' = [program |-> v, entries |-> ram.entries \cup registry]
               /\ UNCHANGED <<disk, live, active>>

\* A controller needs the preparation and this boot's copy of its registration.
CanStart(maps) == {m \in maps : m \in live /\ m \in ram.entries}
Activates(maps) == /\ active' = active \cup CanStart(maps)
                   /\ UNCHANGED <<disk, ram, live>>

-----------------------------------------------------------------------------
(* install(): no step is undone when a later one fails. *)

InstallBegin ==
    /\ unit = NoFile /\ rule = NoFile /\ entry = NoFile /\ receipt = NoFile
    /\ \E v \in Version : Prepares(v) /\ Begin("i_mkdir", v)

InstallReceiptOf(state) == [state |-> state, program |-> proc.program, maps |-> proc.entries]

InstallMkdir     == SourcesBegin("i_mkdir", "i_copy", "i_directory", "idle")
InstallCopy      == SourcesCopy("i_copy", "i_directory", "idle")
InstallDirectory == Attempt("i_directory", SetReceipt(InstallReceiptOf("none")), "i_receipt", "idle")
InstallReceipt   == Attempt("i_receipt", SetReceipt(InstallReceiptOf("installing")), "i_unit", "idle")
InstallUnit      == Attempt("i_unit", SetUnit(proc.program), "i_rule", "idle")
InstallRule      == Attempt("i_rule", SetRule(proc.entries), "i_entry", "idle")
InstallEntry     == Attempt("i_entry", SetEntry(proc.program), "i_enable", "idle")
InstallEnable    == Prepares(proc.program) /\ Attempt("i_enable", Prepared(proc.program), "i_installed", "idle")
InstallDone      == Attempt("i_installed", SetReceipt(InstallReceiptOf("installed")), "i_activate", "idle")
InstallActivate  == Attempt("i_activate", Activates(proc.starts), "idle", "idle")

Install == \/ InstallBegin \/ InstallMkdir \/ InstallCopy \/ InstallDirectory \/ InstallReceipt
           \/ InstallUnit \/ InstallRule \/ InstallEntry \/ InstallEnable \/ InstallDone
           \/ InstallActivate

-----------------------------------------------------------------------------
(* register(): the registration of a live map; proc.entries is the registry with it. *)

RegisterBegin ==
    /\ At("idle")
    /\ \E m \in live, v \in Version :
          proc' = [pc |-> "r_record", program |-> v, entries |-> registry \cup {m},
                   starts |-> {m}, seen |-> Integration, failures |-> FALSE]
    /\ UNCHANGED <<disk, boot, budget>>

\* The registration is written first, whatever becomes of the rest.
RegisterRecord ==
    Attempt("r_record",
            Durable(registry' = proc.entries /\ UNCHANGED <<integration, versions, backups>>),
            IF receipt = NoFile \/ receipt.state = "none" THEN "idle" ELSE "r_check", "idle")

\* save_rules()
RegisterCheck   == Require("r_check", Installed /\ rule = receipt.maps, "r_rule", "idle")
RegisterRule    == Attempt("r_rule", SetRule(proc.entries), "r_receipt", "idle")
RegisterReceipt == Attempt("r_receipt", SetReceipt([receipt EXCEPT !.maps = proc.entries]),
                           "r_prepare", "idle")
RegisterPrepare == \/ Prepares(proc.program)
                      /\ Attempt("r_prepare", Prepared(proc.program), "r_activate", "idle")
                   \/ ~ Prepares(proc.program) /\ Require("r_prepare", FALSE, "r_activate", "idle")
RegisterActivate == Attempt("r_activate", Activates(proc.starts), "idle", "idle")

Register == \/ RegisterBegin \/ RegisterRecord \/ RegisterCheck \/ RegisterRule
            \/ RegisterReceipt \/ RegisterPrepare \/ RegisterActivate

-----------------------------------------------------------------------------
(* upgrade() *)

\* require_quiescent_data_scope()
Quiescent == live = {} /\ active = {}

\* Mutant: files that differ from the receipt are backed up and upgraded.
UpgradeBegin_Unmatched ==
    /\ Installed /\ rule = registry
    /\ Quiescent /\ Latest < MaxUpgrades
    /\ \E v \in Version : Begin("u_backup", v)

UpgradeBegin ==
    /\ Installed /\ Matches(receipt) /\ rule = registry
    /\ Quiescent /\ Latest < MaxUpgrades
    /\ \E v \in Version : Begin("u_backup", v)

\* The backup directory: the old files and a journal that says "staging".
UpgradeBackup ==
    Attempt("u_backup",
            Durable(/\ backups' = Append(backups, [state |-> "staging", old |-> proc.seen,
                                                   program |-> proc.program])
                    /\ UNCHANGED <<integration, versions, registry>>),
            "u_mkdir", "idle")

UpgradeMkdir    == SourcesBegin("u_mkdir", "u_copy", "u_applying", "b_verdict")
UpgradeCopy     == SourcesCopy("u_copy", "u_applying", "b_verdict")
UpgradeApplying == Attempt("u_applying", Record("applying"), "u_quiet", "b_verdict")
UpgradeQuiet    == Require("u_quiet", Quiescent /\ registry = proc.entries, "u_pending", "b_verdict")

Pending == [proc.seen.receipt EXCEPT !.state = "upgrading"]
NextReceipt == [state |-> "installed", program |-> proc.program, maps |-> proc.entries]

\* Mutant: the failure of this write is not rolled back.
UpgradePending_FlagAfterWrite == Attempt("u_pending", SetReceipt(Pending), "u_unit", "b_verdict")

\* `changed` is set before the write, which may raise after it took effect.
UpgradePending == Attempt("u_pending", SetReceipt(Pending), "u_unit", "b_unit")

\* The rules are those of the same registry and are not written again.
UpgradeUnit ==
    \/ proc.program # proc.seen.unit /\ Attempt("u_unit", SetUnit(proc.program), "u_entry", "b_unit")
    \/ proc.program = proc.seen.unit /\ Require("u_unit", TRUE, "u_entry", "b_unit")
UpgradeEntry    == Attempt("u_entry", SetEntry(proc.program), "u_installed", "b_unit")
UpgradeDone     == Attempt("u_installed", SetReceipt(NextReceipt), "u_complete", "b_unit")
UpgradeComplete == Attempt("u_complete", Record("complete"), "idle", "b_unit")

\* One step of the rollback: a failure is noted and the next step is tried all the same.
Undo(pc, allowed, Effect, next) ==
    /\ At(pc)
    /\ \/ allowed /\ Effect /\ Goto(next) /\ UNCHANGED budget
       \/ /\ \/ ~ allowed /\ UNCHANGED <<disk, boot, budget>>
             \/ allowed /\ Fault /\ (Effect \/ UNCHANGED <<disk, boot>>)
          /\ proc' = [proc EXCEPT !.pc = next, !.failures = TRUE]

UndoUnit  == Undo("b_unit", unit \in {proc.seen.unit, proc.program}, SetUnit(proc.seen.unit), "b_rule")
UndoRule  == Undo("b_rule", rule = proc.seen.rule, SetRule(proc.seen.rule), "b_entry")

UndoEntry == Undo("b_entry", entry \in {proc.seen.entry, proc.program}, SetEntry(proc.seen.entry),
                  "b_reload")
UndoReload == Undo("b_reload", TRUE, UNCHANGED <<disk, boot>>, "b_receipt")
UndoReceipt ==
    Undo("b_receipt", receipt \in {proc.seen.receipt, Pending, NextReceipt},
         SetReceipt(IF proc.failures THEN [Pending EXCEPT !.state = "upgrade_failed"]
                    ELSE proc.seen.receipt),
         "b_verdict")
UndoVerdict ==
    Attempt("b_verdict", Record(IF proc.failures THEN "rollback_failed" ELSE "rolled_back"),
            "idle", "idle")

Upgrade == \/ UpgradeBegin \/ UpgradeBackup \/ UpgradeMkdir \/ UpgradeCopy \/ UpgradeApplying
           \/ UpgradeQuiet \/ UpgradePending \/ UpgradeUnit \/ UpgradeEntry \/ UpgradeDone
           \/ UpgradeComplete
           \/ UndoUnit \/ UndoRule \/ UndoEntry \/ UndoReload \/ UndoReceipt \/ UndoVerdict

-----------------------------------------------------------------------------
(* uninstall(): the registrations stay, and no step is undone. *)

UninstallBegin ==
    /\ Installed /\ Matches(receipt)
    /\ live \cap registry = {}
    /\ \E v \in Version : Begin("x_disable", v)

\* disable --now: the controllers require the manager's unit and stop with it.
UninstallDisable == Attempt("x_disable", active' = {} /\ UNCHANGED <<disk, ram, live>>,
                            "x_unit", "idle")
UninstallUnit    == Attempt("x_unit", SetUnit(NoFile), "x_rule", "idle")
UninstallRule    == Attempt("x_rule", SetRule(NoFile), "x_entry", "idle")
UninstallEntry   == Attempt("x_entry", SetEntry(NoFile), "x_receipt", "idle")
UninstallDone    == Attempt("x_receipt", SetReceipt([proc.seen.receipt EXCEPT !.state = "uninstalled"]),
                            "idle", "idle")

Uninstall == \/ UninstallBegin \/ UninstallDisable \/ UninstallUnit \/ UninstallRule
             \/ UninstallEntry \/ UninstallDone

-----------------------------------------------------------------------------
(* The environment. *)

\* PID 1 runs the installed program's prepare(), which takes no lock.
Prepare ==
    /\ unit \in Version
    /\ Prepares(unit) /\ Prepared(unit)
    /\ UNCHANGED <<proc, budget>>

\* The udev rules start the controller of a map that appeared.
StartController ==
    /\ unit \in Version /\ rule \notin {NoFile, Foreign}
    /\ \E m \in rule \ active : CanStart({m}) = {m} /\ Activates({m})
    /\ UNCHANGED <<proc, budget>>

ControllerEnds ==
    /\ \E m \in active : active' = active \ {m}
    /\ UNCHANGED <<disk, ram, live, proc, budget>>

MapAppears == /\ \E m \in Map \ live : live' = live \cup {m}
              /\ UNCHANGED <<disk, ram, active, proc, budget>>
MapRetired == /\ \E m \in live \ active : live' = live \ {m}
              /\ UNCHANGED <<disk, ram, active, proc, budget>>

\* The command dies, or the machine does.
Crash ==
    /\ ~ At("idle") /\ budget.crashes > 0
    /\ budget' = [budget EXCEPT !.crashes = @ - 1]
    /\ Goto("idle")
    /\ UNCHANGED <<disk, boot>>

Reboot ==
    /\ At("idle")
    /\ ram' = NoRuntime /\ live' = {} /\ active' = {}
    /\ UNCHANGED <<disk, proc, budget>>

Edit ==
    /\ budget.edits > 0
    /\ budget' = [budget EXCEPT !.edits = @ - 1]
    /\ \/ unit \in Version /\ unit' = Foreign /\ UNCHANGED <<rule, entry>>
       \/ rule \notin {NoFile, Foreign} /\ rule' = Foreign /\ UNCHANGED <<unit, entry>>
       \/ entry \in Version /\ entry' = Foreign /\ UNCHANGED <<unit, rule>>
    /\ UNCHANGED <<receipt, versions, backups, registry, boot, proc>>

ManagerNext ==
    \/ Install \/ Register \/ Upgrade \/ Uninstall
    \/ Prepare \/ StartController \/ ControllerEnds \/ MapAppears \/ MapRetired
    \/ Crash \/ Reboot \/ Edit

ManagerSpec == ManagerInit /\ [][ManagerNext]_managerVars

-----------------------------------------------------------------------------
(* Properties. *)

\* An upgrade that records "rolled_back" has put back every file as it found it, or
\* left alone what somebody edited meanwhile.
RolledBackRestores ==
    [][\A i \in 1 .. Latest :
          backups'[i].state # backups[i].state /\ backups'[i].state = "rolled_back" =>
              /\ unit \in {backups[i].old.unit, Foreign}
              /\ rule \in {backups[i].old.rule, Foreign}
              /\ entry \in {backups[i].old.entry, Foreign}
              /\ receipt = backups[i].old.receipt]_managerVars

\* Whatever was cut short: when no command runs and the receipt says "installed", the
\* units and the command link are those of its program, edited by somebody, or gone with
\* an uninstallation that was cut short; otherwise the backup of the last upgrade holds
\* the matching set of before, and each file that was not edited is the old or the new
\* one.  (The journal of that upgrade may even say "complete": its write raised after
\* its effect and the rollback that followed was cut short.)
InstalledIsCoherent ==
    At("idle") /\ Installed =>
        \/ {unit, entry} \subseteq {receipt.program, NoFile, Foreign}
        \/ /\ Latest > 0 /\ backups[Latest].state \notin {"staging", "rolled_back"}
           /\ LET backup == backups[Latest] IN
                 /\ backup.old.unit = backup.old.receipt.program
                 /\ backup.old.entry = backup.old.receipt.program
                 /\ {unit, entry} \subseteq {backup.old.receipt.program, backup.program, Foreign}

\* The command link and the units never name a program directory that is incomplete,
\* also when an earlier attempt died while it copied the program.
EntryIsComplete ==
    \A v \in {unit, entry} \cap Version : versions[v] = "complete"
=============================================================================
