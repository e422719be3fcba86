---------------------------- MODULE DeviceLifecycle ----------------------------
(***************************************************************************)
(* The life cycle of the protected data devices (lifecycle.py): enroll, enable,  *)
(* stop, disable, remove, the start of the enabled devices at boot, and the       *)
(* check before the package is removed.  Configuration, receipts and the boot      *)
(* unit survive a reboot; maps, units, rules, run-time records and tools do not.    *)
(* One command runs at a time (exclusive_control); a step may raise before or        *)
(* after its effect, a command may die between two steps, disks come and go and        *)
(* consumers open and close the maps.                                            *)
(*                                                                         *)
(* The native owner, specified in DataLifecycle, is a unit here: it opens its         *)
(* journal, queues, and is followed by a takeover that ends the queueing or fails.       *)
(* Identity, admission, plans and release acceptance decide whether a command         *)
(* begins at all.                                                            *)
(* Bounds: the fields of Budget.                                             *)
(***************************************************************************)
EXTENDS RamTools, FiniteSets

CONSTANTS
    Device,            \* the names of the maps
    Budget             \* faults, crashes, edits and reboots

ASSUME BudgetAssumption ==
    /\ Budget \in [{"faults", "crashes", "edits", "reboots"} -> Nat]
    /\ IsFiniteSet(Device)

VARIABLES
    conf,              \* the device's configuration file
    journal,           \* its receipt; now: written in this boot
    integration,       \* the boot unit: absent, written or enabled
    map,               \* the stable map
    rule,              \* the automount exclusion in /run/udev
    run,               \* /run/ram-rescue-data/<name>: record, state directory, native journal
    unit,              \* the owner's unit
    disk,              \* the enrolled disk is plugged
    proc,              \* the command that holds the lock
    result,            \* what the last check for the package removal said
    late               \* devices of which a command began in this boot while the start job of
                       \* a command that was killed still waited in systemd

saved   == <<conf, journal, integration>>
runtime == <<map, rule, run, unit>>
tools   == <<ram, prep>>
answers == <<result, late>>
vars    == <<saved, runtime, tools, disk, proc, answers, budget>>

Idle == [cmd |-> "none", dev |-> "none", pc |-> "idle", item |-> FALSE, mode |-> "first", todo |-> {}]

Phase == {"none", "enrolling", "disabled", "enabling", "enable_incomplete", "active",
          "disable_pending", "stopped", "removing", "removed"}
Command == {"none", "enroll", "enable", "stop", "disable", "remove", "boot", "uninstall",
            "package-remove"}
NoRun == [record |-> FALSE, dir |-> FALSE, native |-> "none"]
NoMap == [present |-> FALSE, open |-> FALSE, queue |-> FALSE, adopted |-> FALSE]

StartPc == {"check", "active", "idle1", "rearm", "ram", "enabling", "rule", "exclude", "create",
            "idle3", "record", "dir", "unit", "start", "wait", "incomplete", "ready", "confirm"}
Pc == StartPc \cup
      {"idle", "enrolling", "conf", "disabled", "boot_unit", "boot_enable", "consent", "pending",
       "incomplete2", "revoke", "revoked", "ask", "stopped", "require_idle", "removing", "dmremove",
       "unlink", "removed", "next", "u_conf", "u_maps", "u_receipt", "u_state", "u_boot", "u_unlink",
       "u_done"}

TypeOK ==
    /\ ToolsTypeOK
    /\ budget \in [{"faults", "crashes", "edits", "reboots"} -> Nat]
    /\ conf \in [Device -> {"none", "disabled", "enabled"}]
    /\ journal \in [Device -> [phase : Phase, now : BOOLEAN]]
    /\ integration \in {"none", "written", "enabled"}
    /\ map \in [Device -> [present : BOOLEAN, open : BOOLEAN, queue : BOOLEAN, adopted : BOOLEAN]]
    /\ rule \in [Device -> BOOLEAN]
    /\ run \in [Device -> [record : BOOLEAN, dir : BOOLEAN,
                           native : {"none", "live", "safe_stopped", "interrupted"}]]
    /\ unit \in [Device -> [st : {"none", "inactive", "queued", "starting", "active", "takeover"},
                            mode : {"first", "rearm"}]]
    /\ disk \in [Device -> BOOLEAN]
    /\ proc \in [cmd : Command, dev : Device \cup {"none"}, pc : Pc, item : BOOLEAN,
                 mode : {"first", "rearm"}, todo : SUBSET Device]
    /\ result \in {"none", "removable", "uninstalled"} /\ late \subseteq Device

\* A map may exist before the first enrollment, and may queue already.
Init ==
    /\ ram = NoTools /\ prep = NoPrep /\ budget = Budget
    /\ conf = [d \in Device |-> "none"]
    /\ journal = [d \in Device |-> [phase |-> "none", now |-> FALSE]]
    /\ integration = "none"
    /\ \E existing \in SUBSET Device : \E adopted \in SUBSET existing :
          map = [d \in Device |-> [present |-> d \in existing, open |-> FALSE,
                                   queue |-> d \in adopted, adopted |-> d \in adopted]]
    /\ rule = [d \in Device |-> FALSE]
    /\ run = [d \in Device |-> NoRun]
    /\ unit = [d \in Device |-> [st |-> "none", mode |-> "first"]]
    /\ disk = [d \in Device |-> TRUE]
    /\ proc = Idle /\ result = "none" /\ late = {}

-----------------------------------------------------------------------------
(* Steps of the command that holds the lock; dev is its device. *)

dev == proc.dev

\* The command ends; the start of the devices at boot goes on after a success only.
After(next) ==
    IF next = "end" THEN (IF proc.cmd = "boot" THEN [proc EXCEPT !.pc = "next"] ELSE Idle)
    ELSE IF next = "raise" THEN Idle
    ELSE [proc EXCEPT !.pc = next]
Goto(next) == proc' = After(next)

\* An exception in start(): enable() notes it in the receipt, boot() ends.
Raise == IF proc.cmd = "enable" THEN "incomplete2" ELSE "raise"

\* One step: the effect and the next step, or an exception before or after the effect.
Attempt(at, Effect, next, handler) ==
    /\ proc.pc = at
    /\ \/ Effect /\ Goto(next) /\ UNCHANGED budget
       \/ Fault /\ (Effect \/ UNCHANGED <<saved, runtime>>) /\ Goto(handler)
    /\ UNCHANGED <<tools, disk, answers>>

Require(at, condition, next, handler) ==
    /\ proc.pc = at
    /\ Goto(IF condition THEN next ELSE handler)
    /\ UNCHANGED <<saved, runtime, tools, disk, answers, budget>>

Conf(v)  == conf' = [conf EXCEPT ![dev] = v] /\ UNCHANGED <<journal, integration, runtime>>
Phases(v) == /\ journal' = [journal EXCEPT ![dev] = [phase |-> v, now |-> TRUE]]
             /\ UNCHANGED <<conf, integration, runtime>>
Runs(r)  == run' = [run EXCEPT ![dev] = r] /\ UNCHANGED <<saved, map, rule, unit>>
Units(u) == unit' = [unit EXCEPT ![dev] = u] /\ UNCHANGED <<saved, map, rule, run>>

UnitRuns(x) == unit[x].st \in {"queued", "starting", "active", "takeover"}

\* A command gets the lock only while no other one holds it; a start job may outlive the
\* command that asked for it.
BeginAs(p) ==
    /\ proc = Idle
    /\ proc' = p
    /\ result' = "none"
    /\ late' = late \cup {x \in Device : x = p.dev /\ unit[x].st = "queued"}
    /\ UNCHANGED <<saved, runtime, tools, disk, budget>>

Begin(cmd, x, pc) == BeginAs([Idle EXCEPT !.cmd = cmd, !.dev = x, !.pc = pc])

-----------------------------------------------------------------------------
(* enroll(): the receipt, the disabled configuration, the receipt. *)

EnrollBegin(x) ==
    /\ conf[x] = "none"
    /\ journal[x].phase = "none" \/ (journal[x].phase = "removed" /\ ~ journal[x].now)
    /\ run[x] = NoRun
    /\ disk[x]
    /\ Begin("enroll", x, "enrolling")

EnrollReceipt  == Attempt("enrolling", Phases("enrolling"), "conf", "raise")
EnrollConf     == Attempt("conf", Conf("disabled"), "disabled", "raise")
EnrollDisabled == Attempt("disabled", Phases("disabled"), "end", "raise")

-----------------------------------------------------------------------------
(* enable(): the boot unit, the saved consent, then start(). *)

\* Mutant: the consent is saved before the boot unit is there.
EnableBegin_ConsentFirst(x) ==
    /\ conf[x] # "none"
    /\ proc = Idle
    /\ proc' = [Idle EXCEPT !.cmd = "enable", !.dev = x, !.pc = "boot_unit"]
    /\ conf' = [conf EXCEPT ![x] = "enabled"]
    /\ result' = "none"
    /\ UNCHANGED <<journal, integration, runtime, tools, disk, late, budget>>

EnableBegin(x) == conf[x] # "none" /\ Begin("enable", x, "boot_unit")

Integrates(v) == integration' = v /\ UNCHANGED <<conf, journal, runtime>>

EnableUnit    == Attempt("boot_unit", Integrates(IF integration = "none" THEN "written" ELSE integration),
                         "boot_enable", "raise")
EnableEnable  == Attempt("boot_enable", Integrates("enabled"), "consent", "raise")
EnableConsent == Attempt("consent", Conf("enabled"), "pending", "raise")
EnablePending == Attempt("pending", Phases("enabling"), "check", "raise")
EnableRaised  == Attempt("incomplete2", Phases("enable_incomplete"), "raise", "raise")

-----------------------------------------------------------------------------
(* start(), of enable() and boot(). *)

\* current_node() admits the disk; the map is looked up once.
StartCheck ==
    /\ proc.pc = "check"
    /\ proc' = IF disk[dev] THEN [proc EXCEPT !.pc = "active", !.item = map[dev].present] ELSE After(Raise)
    /\ UNCHANGED <<saved, runtime, tools, disk, answers, budget>>

StartActive ==
    Require("active", unit[dev].st \in {"none", "inactive", "active"},
            IF unit[dev].st = "active" THEN "confirm" ELSE "idle1", Raise)

\* require_idle(): the map that was found still exists, and nobody uses it.
RequireIdle == disk[dev] /\ (proc.item => map[dev].present /\ ~ map[dev].open)

StartIdle1 == Require("idle1", RequireIdle, "rearm", Raise)

\* A native journal means a rearm, for which the last stop must have been safe.
StartRearm ==
    /\ proc.pc = "rearm"
    /\ proc' = IF run[dev].native = "none" THEN [proc EXCEPT !.pc = "ram", !.mode = "first"]
               ELSE IF proc.item /\ run[dev].native = "safe_stopped"
                    THEN [proc EXCEPT !.pc = "ram", !.mode = "rearm"]
               ELSE After(Raise)
    /\ UNCHANGED <<saved, runtime, tools, disk, answers, budget>>

StartRam ==
    /\ proc.pc = "ram"
    /\ \/ prep.pc = "off" /\ PrepGoto("check") /\ UNCHANGED proc
       \/ prep.pc = "done" /\ prep' = NoPrep /\ Goto("enabling")
       \/ prep.pc = "failed" /\ prep' = NoPrep /\ Goto(Raise)
    /\ UNCHANGED <<saved, runtime, ram, disk, answers, budget>>

StartReceipt == Attempt("enabling", Phases("enabling"), "rule", Raise)
StartRule    == Attempt("rule", rule' = [rule EXCEPT ![dev] = TRUE] /\ UNCHANGED <<saved, map, run, unit>>,
                        "exclude", Raise)

\* The exclusion reached the raw disk, which is still the admitted one.
StartExclude == Require("exclude", rule[dev] /\ RequireIdle, IF proc.item THEN "record" ELSE "create", Raise)

\* dmsetup create refuses a name that exists; the table does not queue.
StartCreate ==
    /\ proc.pc = "create"
    /\ IF map[dev].present \/ ~ disk[dev] THEN Require("create", FALSE, "idle3", Raise)
       ELSE Attempt("create",
                    map' = [map EXCEPT ![dev].present = TRUE] /\ UNCHANGED <<saved, rule, run, unit>>,
                    "idle3", Raise)

StartIdle3   == Require("idle3", map[dev].present /\ ~ map[dev].open /\ disk[dev], "record", Raise)
StartRecord  == Attempt("record", Runs([run[dev] EXCEPT !.record = TRUE]), "dir", Raise)
StartDir     == Attempt("dir", Runs([run[dev] EXCEPT !.dir = TRUE]), "unit", Raise)
\* Mutant: the receipt says "active" when the unit has been written.
StartUnit_Active ==
    Attempt("unit",
            /\ unit' = [unit EXCEPT ![dev] = [st |-> "inactive", mode |-> proc.mode]]
            /\ journal' = [journal EXCEPT ![dev] = [phase |-> "active", now |-> TRUE]]
            /\ UNCHANGED <<conf, integration, map, rule, run>>, "start", Raise)

StartUnit    == Attempt("unit", Units([st |-> "inactive", mode |-> proc.mode]), "start", Raise)

\* systemctl start returns when the unit is active or has failed, or gives up before.
StartStart   == Attempt("start", Units([unit[dev] EXCEPT !.st = "queued"]), "wait", "incomplete")

StartWait ==
    \/ /\ proc.pc = "wait" /\ unit[dev].st \in {"active", "inactive"}
       /\ Require("wait", unit[dev].st = "active", "ready", "incomplete")
    \/ /\ proc.pc = "wait" /\ unit[dev].st # "queued" /\ Fault /\ Goto("incomplete")
       /\ UNCHANGED <<saved, runtime, tools, disk, answers>>

StartIncomplete == Attempt("incomplete", Phases("enable_incomplete"), Raise, Raise)

\* The published state is "ready" only while the disk is there.
StartReady   == Require("ready", unit[dev].st = "active" /\ disk[dev], "confirm", Raise)

StartConfirm == Attempt("confirm", Phases("active"), "end", Raise)

Start == \/ StartCheck \/ StartActive \/ StartIdle1 \/ StartRearm \/ StartRam \/ StartReceipt
         \/ StartRule \/ StartExclude \/ StartCreate \/ StartIdle3 \/ StartRecord \/ StartDir
         \/ StartUnit \/ StartStart \/ StartWait \/ StartIncomplete \/ StartReady \/ StartConfirm

-----------------------------------------------------------------------------
(* stop() and disable(): disable revokes the consent before it asks the owner. *)

StopBegin(x)    == conf[x] # "none" /\ Begin("stop", x, "ask")
DisableBegin(x) == conf[x] # "none" /\ Begin("disable", x, "revoke")

DisableConf    == Attempt("revoke", Conf("disabled"), "revoked", "raise")
DisableReceipt == Attempt("revoked", Phases("disable_pending"), "ask", "raise")

\* What the owner, or the client in its place, confirms about a stop.
Stoppable == unit[dev].st = "active" /\ map[dev].present /\ ~ map[dev].open /\ disk[dev]

\* Mutant: an inactive unit is taken for a stopped owner.
Stopped_UnitOnly == unit[dev].st \in {"inactive", "queued"}

Stopped   == unit[dev].st \in {"inactive", "queued"} /\ run[dev].native = "safe_stopped"

AfterAsk == IF proc.cmd = "remove" THEN "require_idle" ELSE "stopped"

\* Mutant: without a map the owner is taken for stopped.
Untouched_MapOnly == ~ map[dev].present

\* There was no owner in this boot: neither a map nor a state directory.
Untouched == ~ map[dev].present /\ ~ run[dev].dir

\* stop_owner(): the native safe stop; a client that gives up may still have stopped it.
StopAsk ==
    /\ proc.pc = "ask"
    /\ IF Untouched \/ (run[dev].record /\ Stopped) THEN Require("ask", TRUE, AfterAsk, "raise")
       ELSE IF ~ run[dev].record \/ ~ Stoppable THEN Require("ask", FALSE, AfterAsk, "raise")
       ELSE Attempt("ask",
                    /\ unit' = [unit EXCEPT ![dev].st = "inactive"]
                    /\ map' = [map EXCEPT ![dev].queue = FALSE]
                    /\ run' = [run EXCEPT ![dev].native = "safe_stopped"]
                    /\ UNCHANGED <<saved, rule>>,
                    AfterAsk, "raise")

StopReceipt == Attempt("stopped", Phases(IF proc.cmd = "disable" THEN "disabled" ELSE "stopped"),
                       "end", "raise")

-----------------------------------------------------------------------------
(* remove(): of a disabled device, after its owner has confirmed the stop. *)

RemoveBegin(x) ==
    /\ conf[x] = "disabled"
    /\ BeginAs([Idle EXCEPT !.cmd = "remove", !.dev = x, !.pc = "ask", !.item = map[x].present])

RemoveIdle    == Require("require_idle", proc.item => RequireIdle,
                         IF proc.item THEN "removing" ELSE "unlink", "raise")
RemoveReceipt == Attempt("removing", Phases("removing"), "dmremove", "raise")

\* dmsetup remove refuses a map that is open or gone.
RemoveMap ==
    /\ proc.pc = "dmremove"
    /\ IF map[dev].present /\ ~ map[dev].open
       THEN Attempt("dmremove",
                    map' = [map EXCEPT ![dev] = NoMap] /\ UNCHANGED <<saved, rule, run, unit>>,
                    "unlink", "raise")
       ELSE Require("dmremove", FALSE, "unlink", "raise")

RemoveUnlink  == Attempt("unlink", Conf("none"), "removed", "raise")
RemoveRemoved == Attempt("removed", Phases("removed"), "end", "raise")

-----------------------------------------------------------------------------
(* boot(): every enabled device, one after the other, until one fails. *)

BootBegin ==
    /\ integration = "enabled" /\ budget.reboots < Budget.reboots
    /\ BeginAs([Idle EXCEPT !.cmd = "boot", !.pc = "next",
                            !.todo = {x \in Device : conf[x] = "enabled"}])

BootNext ==
    /\ proc.pc = "next"
    /\ \/ proc.todo = {} /\ proc' = Idle
       \/ \E x \in proc.todo : proc' = [proc EXCEPT !.dev = x, !.pc = "check", !.item = FALSE,
                                                    !.mode = "first", !.todo = @ \ {x}]
    /\ UNCHANGED <<saved, runtime, tools, disk, answers, budget>>

-----------------------------------------------------------------------------
(* uninstall(), and its check alone before the package manager removes the files. *)

UninstallBegin == \E cmd \in {"uninstall", "package-remove"} : Begin(cmd, "none", "u_conf")

UninstallConf == Require("u_conf", \A x \in Device : conf[x] = "none", "u_maps", "raise")

UninstallMaps == Require("u_maps", \A x \in Device : ~ map[x].present, "u_receipt", "raise")

UninstallReceipt == Require("u_receipt", ~ ram.receipt, "u_state", "raise")

UninstallState == Require("u_state", \A x \in Device : journal[x].phase \in {"none", "removed"},
                          IF integration = "none" THEN "u_done" ELSE "u_boot", "raise")

UninstallBoot ==
    IF proc.cmd = "package-remove" THEN Require("u_boot", FALSE, "u_unlink", "raise")
    ELSE Attempt("u_boot", Integrates("written"), "u_unlink", "raise")
UninstallUnlink == Attempt("u_unlink", Integrates("none"), "u_done", "raise")

UninstallDone ==
    /\ proc.pc = "u_done"
    /\ result' = IF proc.cmd = "uninstall" THEN "uninstalled" ELSE "removable"
    /\ proc' = Idle
    /\ UNCHANGED <<saved, runtime, tools, disk, late, budget>>

-----------------------------------------------------------------------------
(* The native owner and systemd. *)

UnitLocks(x) ==
    /\ unit[x].st = "queued"
    /\ unit' = [unit EXCEPT ![x].st = "starting"]
    /\ UNCHANGED <<saved, map, rule, run, tools, disk, proc, answers, budget>>

\* The owner's journal; a first enable finds none, a rearm the one of a safe stop.
UnitBegins(x) ==
    /\ unit[x].st = "starting"
    /\ map[x].present /\ ~ map[x].open /\ disk[x]
    /\ run[x].native = IF unit[x].mode = "first" THEN "none" ELSE "safe_stopped"
    /\ run' = [run EXCEPT ![x].native = "live"]
    /\ UNCHANGED <<saved, map, rule, unit, tools, disk, proc, answers, budget>>

UnitQueues(x) ==
    /\ unit[x].st = "starting" /\ run[x].native = "live"
    /\ map[x].present /\ ~ map[x].open
    /\ map' = [map EXCEPT ![x].queue = TRUE]
    /\ UNCHANGED <<saved, rule, run, unit, tools, disk, proc, answers, budget>>

UnitUp(x) ==
    /\ unit[x].st = "starting" /\ run[x].native = "live"
    /\ map[x].queue /\ disk[x]
    /\ unit' = [unit EXCEPT ![x].st = "active"]
    /\ UNCHANGED <<saved, map, rule, run, tools, disk, proc, answers, budget>>

\* It ends with an error or dies, before it wrote its journal or after.
UnitFails(x) ==
    /\ unit[x].st \in {"starting", "active"}
    /\ unit' = [unit EXCEPT ![x].st = "takeover"]
    /\ UNCHANGED <<saved, map, rule, run, tools, disk, proc, answers, budget>>

\* reconcile(): queueing off, then the end of the transaction, unless it is killed before.
Reconciles(x) ==
    /\ run[x].native = "live" /\ map[x].present
    /\ map' = [map EXCEPT ![x].queue = FALSE]
    /\ run' = [run EXCEPT ![x].native = "interrupted"] \/ run' = run

\* The takeover; it has nothing to do for an owner without a journal, leaves what it does not
\* know to a manual diagnosis, and is killed when it takes too long.
UnitTakeover(x) ==
    /\ unit[x].st = "takeover"
    /\ unit' = [unit EXCEPT ![x].st = "inactive"]
    /\ Reconciles(x) \/ UNCHANGED <<map, run>>
    /\ UNCHANGED <<saved, rule, tools, disk, proc, answers, budget>>

Native(x) == \/ UnitLocks(x) \/ UnitBegins(x) \/ UnitQueues(x) \/ UnitUp(x)
             \/ UnitFails(x) \/ UnitTakeover(x)

-----------------------------------------------------------------------------
(* The environment. *)

Consumer(x) ==
    /\ map[x].present
    /\ map' = [map EXCEPT ![x].open = ~ @]
    /\ UNCHANGED <<saved, rule, run, unit, tools, disk, proc, answers, budget>>

Plug(x) ==
    /\ disk' = [disk EXCEPT ![x] = ~ @]
    /\ UNCHANGED <<saved, runtime, tools, proc, answers, budget>>

\* An administrator removes a map behind the tool's back.
Edit ==
    /\ budget.edits > 0
    /\ budget' = [budget EXCEPT !.edits = @ - 1]
    /\ \E x \in Device : /\ map[x].present /\ ~ map[x].open
                         /\ map' = [map EXCEPT ![x] = NoMap]
    /\ UNCHANGED <<saved, rule, run, unit, tools, disk, proc, answers>>

Crash ==
    /\ proc # Idle /\ budget.crashes > 0
    /\ budget' = [budget EXCEPT !.crashes = @ - 1]
    /\ proc' = Idle /\ prep' = NoPrep
    /\ UNCHANGED <<saved, runtime, ram, disk, answers>>

Reboot ==
    /\ proc = Idle /\ budget.reboots > 0
    /\ budget' = [budget EXCEPT !.reboots = @ - 1]
    /\ ram' = NoTools /\ prep' = NoPrep
    /\ map' = [x \in Device |-> NoMap] /\ rule' = [x \in Device |-> FALSE]
    /\ run' = [x \in Device |-> NoRun]
    /\ unit' = [x \in Device |-> [st |-> "none", mode |-> "first"]]
    /\ journal' = [x \in Device |-> [journal[x] EXCEPT !.now = FALSE]]
    /\ result' = "none" /\ late' = {}
    /\ UNCHANGED <<conf, integration, disk, proc>>

-----------------------------------------------------------------------------

Enroll == (\E x \in Device : EnrollBegin(x)) \/ EnrollReceipt \/ EnrollConf \/ EnrollDisabled

Enable == \/ \E x \in Device : EnableBegin(x)
          \/ EnableUnit \/ EnableEnable \/ EnableConsent \/ EnablePending \/ EnableRaised

Stop == \/ \E x \in Device : StopBegin(x) \/ DisableBegin(x)
        \/ DisableConf \/ DisableReceipt \/ StopAsk \/ StopReceipt

Remove == \/ \E x \in Device : RemoveBegin(x)
          \/ RemoveIdle \/ RemoveReceipt \/ RemoveMap \/ RemoveUnlink \/ RemoveRemoved

Boot == BootBegin \/ BootNext

Uninstall == \/ UninstallBegin \/ UninstallConf \/ UninstallMaps \/ UninstallReceipt \/ UninstallState
             \/ UninstallBoot \/ UninstallUnlink \/ UninstallDone

PrepareTools == Prepare /\ UNCHANGED <<saved, runtime, disk, proc, answers>>

Next == \/ Enroll \/ Enable \/ Start \/ Stop \/ Remove \/ Boot \/ Uninstall \/ PrepareTools
        \/ (\E x \in Device : Native(x) \/ Consumer(x) \/ Plug(x))
        \/ Edit \/ Crash \/ Reboot

Spec == Init /\ [][Next]_vars

-----------------------------------------------------------------------------
(* Properties. *)

\* The consent to protect a device at every boot is saved only while the boot unit
\* that acts on it is there and enabled; the removal of the boot unit refuses a
\* configured device.
ConsentHasIntegration == \A x \in Device : conf[x] = "enabled" => integration = "enabled"

\* A configuration is not removed under an owner that may still act on the map, even
\* when the map is missing; unless the removal, or another command of the device, began
\* while the start job of a killed command still waited.
ConfigOutlivesOwner == \A x \in Device \ late : UnitRuns(x) => conf[x] # "none"

\* I/O to a map without a disk is queued only on a map that was adopted as it queued and has
\* had no owner, and under an owner's journal that is still open.  Then no receipt of this
\* boot calls the device stopped or disabled, also when the owner is gone, its takeover
\* failed and nobody ends the queueing; but for the late start jobs.
QueueIsAccounted ==
    \A x \in Device : map[x].queue =>
        \/ map[x].adopted /\ run[x].native = "none"
        \/ /\ run[x].native = "live"
           /\ journal[x].now /\ journal[x].phase \in {"stopped", "disabled"} => x \in late

\* A receipt "active" of this boot means that an owner took the device over in this
\* boot, under the recorded registration and behind the automount exclusion.
ActiveIsTrue ==
    \A x \in Device : journal[x].phase = "active" /\ journal[x].now =>
                         run[x].record /\ rule[x] /\ run[x].native # "none"

\* The removal of the package is refused while the RAM environment of this boot is
\* there (docs/USAGE.md).  Violated: only the receipt is looked at, and an environment
\* whose receipt could not be written is used all the same.
RemovalSeesTools == result # "none" => ~ ram.alias
=============================================================================
