------------------------------- MODULE EfiMount -------------------------------
(***************************************************************************)
(* The EFI mount integration (efi_mount.py): a udev rule, a path unit, a drop-in *)
(* for the file system check and the link that enables the unit, withdrawn      *)
(* together when a step of the installation fails or on request.  A step may     *)
(* raise before or after its effect, a command may die, and an administrator      *)
(* may edit the files.  Only the installation takes a lock (dpkg's), so a removal may   *)
(* run beside it; of two removals at once nothing is said here.                  *)
(*                                                                         *)
(* Bounds: MaxFaults, MaxCrashes, MaxEdits.                                *)
(***************************************************************************)
EXTENDS Naturals

CONSTANTS
    MaxFaults,         \* steps that raise
    MaxCrashes,        \* deaths of a command
    MaxEdits           \* files edited by an administrator

ASSUME BoundsAssumption == {MaxFaults, MaxCrashes, MaxEdits} \subseteq Nat

VARIABLES
    file,              \* the rule, the path unit, the drop-in and the enabling link
    record,            \* the state in install.json; the directory is made before it
    dropinLoaded,      \* systemd uses the drop-in: a check is not remembered as done
    monitor,           \* the path unit is active
    mount,             \* the ordinary EFI mount; "failed": it was asked for and did not start
    pc,                \* the step of each command
    beside,            \* a removal and an installation have run at the same time
    budget             \* faults, crashes and edits still allowed

disk == <<file, record>>
live == <<dropinLoaded, monitor, mount>>
vars == <<disk, live, pc, beside, budget>>

Command == {"install", "remove"}
Files   == {"rule", "path", "dropin", "link"}
Pending == {"preparing", "removal_pending_reload", "failed_pending_reload"}
State   == Pending \cup {"none", "directory", "installed", "failed_removed", "removed"}

InstallPc  == {"record", "rule", "path", "dropin", "reload", "stop", "start", "start_raise",
               "cached", "enable", "confirm", "installed", "rollback"}
WithdrawPc == {"pending", "verify", "w_stop", "w_link", "w_rule", "w_path", "w_dropin", "w_reload",
               "final"}

TypeOK ==
    /\ file \in [Files -> {"none", "ours", "edited"}]
    /\ record \in State
    /\ dropinLoaded \in BOOLEAN /\ monitor \in BOOLEAN
    /\ mount \in {"mounted", "stopped", "failed"}
    /\ pc \in [Command -> {"idle"} \cup InstallPc \cup WithdrawPc]
    /\ beside \in BOOLEAN
    /\ budget \in [faults : 0 .. MaxFaults, crashes : 0 .. MaxCrashes, edits : 0 .. MaxEdits]

Init ==
    /\ file = [f \in Files |-> "none"] /\ record = "none"
    /\ dropinLoaded = FALSE /\ monitor = FALSE /\ mount = "mounted"
    /\ pc = [c \in Command |-> "idle"] /\ beside = FALSE
    /\ budget = [faults |-> MaxFaults, crashes |-> MaxCrashes, edits |-> MaxEdits]

-----------------------------------------------------------------------------
(* Steps. *)

Goto(c, next) == pc' = [pc EXCEPT ![c] = next] /\ UNCHANGED beside
Fault == /\ budget.faults > 0
         /\ budget' = [budget EXCEPT !.faults = @ - 1]

\* One step of c, which may also raise before or after its effect.
Attempt(c, at, Effect, next, handler) ==
    /\ pc[c] = at
    /\ \/ Effect /\ Goto(c, next) /\ UNCHANGED budget
       \/ Fault /\ (Effect \/ UNCHANGED <<disk, live>>) /\ Goto(c, handler)

Require(c, at, condition, next, handler) ==
    /\ pc[c] = at
    /\ Goto(c, IF condition THEN next ELSE handler)
    /\ UNCHANGED <<disk, live, budget>>

SetFile(f, v) == file' = [file EXCEPT ![f] = v] /\ UNCHANGED <<record, live>>
SetRecord(v)  == record' = v /\ UNCHANGED <<file, live>>
Reloads       == dropinLoaded' = (file["dropin"] = "ours")

\* A command starts, also while the other one runs.
Begins(c, at) ==
    /\ pc[c] = "idle" /\ pc' = [pc EXCEPT ![c] = at]
    /\ beside' = (beside \/ \E d \in Command : pc[d] # "idle")

-----------------------------------------------------------------------------
(* install() *)

Install == "install"

InstallBegin ==
    /\ record = "none" /\ \A f \in Files : file[f] = "none"
    /\ record' = "directory"
    /\ Begins(Install, "record")
    /\ UNCHANGED <<file, live, budget>>

InstallRecord  == Attempt(Install, "record", SetRecord("preparing"), "rule", "idle")
InstallRule    == Attempt(Install, "rule", SetFile("rule", "ours"), "path", "rollback")
InstallPath    == Attempt(Install, "path", SetFile("path", "ours"), "dropin", "rollback")
InstallDropin  == Attempt(Install, "dropin", SetFile("dropin", "ours"), "reload", "rollback")
InstallReload  == Attempt(Install, "reload", Reloads /\ UNCHANGED <<disk, monitor, mount>>,
                          "stop", "rollback")

\* Mutant: the mount is started again only when both stops succeeded.
InstallStop_NoFinally ==
    Attempt(Install, "stop", mount' = "stopped" /\ UNCHANGED <<disk, dropinLoaded, monitor>>,
            "start", "rollback")

\* reset_fsck_cache(): unmount and forget the last check; the mount is started again
\* whatever happened.
InstallStop  == Attempt(Install, "stop", mount' = "stopped" /\ UNCHANGED <<disk, dropinLoaded, monitor>>,
                        "start", "start_raise")

Mounts(v) == mount' = v /\ UNCHANGED <<disk, dropinLoaded, monitor>>
InstallStart ==
    /\ pc[Install] \in {"start", "start_raise"}
    /\ \/ /\ Mounts("mounted") /\ UNCHANGED budget
          /\ Goto(Install, IF pc[Install] = "start" THEN "cached" ELSE "rollback")
       \/ Fault /\ (Mounts("mounted") \/ Mounts("failed")) /\ Goto(Install, "rollback")

InstallCached  == Require(Install, "cached", dropinLoaded /\ mount = "mounted", "enable", "rollback")
InstallEnable  == Attempt(Install, "enable",
                          /\ file' = [file EXCEPT !["link"] = "ours"] /\ monitor' = TRUE
                          /\ UNCHANGED <<record, dropinLoaded, mount>>,
                          "confirm", "rollback")
InstallConfirm == Require(Install, "confirm", file["link"] = "ours" /\ monitor, "installed", "rollback")
InstallDone    == Attempt(Install, "installed", SetRecord("installed"), "idle", "rollback")

\* rollback_install(): the record first, then withdraw().
InstallRollback == Attempt(Install, "rollback", SetRecord("failed_pending_reload"), "verify", "idle")

-----------------------------------------------------------------------------
(* remove() *)

Remove == "remove"

\* verify_ownership(): what exists is as the installation wrote it.
Owned    == \A f \in Files : file[f] # "edited"
Complete == \A f \in Files : file[f] = "ours"

\* Mutant: only a complete installation is accepted for removal.
CanRemove_InstalledOnly == record \in {"installed", "removal_pending_reload"} /\ Complete

\* A removal of this record is accepted.
CanRemove == \/ record \in Pending /\ Owned
             \/ record = "installed" /\ Complete

RemoveBegin ==
    /\ CanRemove
    /\ Begins(Remove, "pending")
    /\ UNCHANGED <<disk, live, budget>>

RemovePending == Attempt(Remove, "pending", SetRecord("removal_pending_reload"), "verify", "idle")

-----------------------------------------------------------------------------
(* withdraw(), of either command. *)

WithdrawVerify(c) == Require(c, "verify", Owned, "w_stop", "idle")

\* Reload first, so that a unit that was never loaded can be stopped by its name.
WithdrawStop(c) ==
    Attempt(c, "w_stop",
            IF file["path"] # "none"
            THEN Reloads /\ monitor' = FALSE /\ UNCHANGED <<disk, mount>>
            ELSE UNCHANGED <<disk, live>>,
            "w_link", "idle")
WithdrawLink(c)   == Attempt(c, "w_link", SetFile("link", "none"), "w_rule", "idle")
WithdrawRule(c)   == Attempt(c, "w_rule", SetFile("rule", "none"), "w_path", "idle")
WithdrawPath(c)   == Attempt(c, "w_path", SetFile("path", "none"), "w_dropin", "idle")
WithdrawDropin(c) == Attempt(c, "w_dropin", SetFile("dropin", "none"), "w_reload", "idle")

\* Mutant: the last reload is not part of the removal.
WithdrawReload_Skipped(c) == Require(c, "w_reload", TRUE, "final", "idle")

WithdrawReload(c) == Attempt(c, "w_reload", Reloads /\ UNCHANGED <<disk, monitor, mount>>,
                             "final", "idle")

WithdrawFinal(c) ==
    Attempt(c, "final", SetRecord(IF c = Install THEN "failed_removed" ELSE "removed"), "idle", "idle")

Withdraw(c) == \/ WithdrawVerify(c) \/ WithdrawStop(c) \/ WithdrawLink(c) \/ WithdrawRule(c)
               \/ WithdrawPath(c) \/ WithdrawDropin(c) \/ WithdrawReload(c) \/ WithdrawFinal(c)

-----------------------------------------------------------------------------
(* The environment. *)

\* A command dies between two steps.
Crash ==
    /\ budget.crashes > 0
    /\ \E c \in Command : pc[c] # "idle" /\ Goto(c, "idle")
    /\ budget' = [budget EXCEPT !.crashes = @ - 1]
    /\ UNCHANGED <<disk, live>>

\* The next boot mounts EFI and reads the files.
Reboot ==
    /\ \A c \in Command : pc[c] = "idle"
    /\ Reloads /\ mount' = "mounted"
    /\ monitor' = (file["link"] = "ours" /\ file["path"] = "ours")
    /\ UNCHANGED <<disk, pc, beside, budget>>

Edit ==
    /\ budget.edits > 0
    /\ budget' = [budget EXCEPT !.edits = @ - 1]
    /\ \E f \in Files : file[f] = "ours" /\ file' = [file EXCEPT ![f] = "edited"]
    /\ UNCHANGED <<record, live, pc, beside>>

InstallStep == \/ InstallBegin \/ InstallRecord \/ InstallRule \/ InstallPath \/ InstallDropin
               \/ InstallReload \/ InstallStop \/ InstallStart \/ InstallCached \/ InstallEnable
               \/ InstallConfirm \/ InstallDone \/ InstallRollback

Next == \/ InstallStep \/ RemoveBegin \/ RemovePending
        \/ (\E c \in Command : Withdraw(c))
        \/ Crash \/ Reboot \/ Edit

Spec == Init /\ [][Next]_vars

-----------------------------------------------------------------------------
(* Properties. *)

Idle == \A c \in Command : pc[c] = "idle"

\* However an installation, its rollback or a removal ended: while a file of this
\* installation is left and none was edited, a removal is accepted and finds it; as long as
\* no removal has run beside an installation.
Withdrawable == ~ beside /\ Idle /\ Owned /\ (\E f \in Files : file[f] = "ours") => CanRemove

\* The record never promises more than is there, as long as no removal has run beside an
\* installation.  "installed": the four files are in place and a check is not remembered,
\* unless a file was edited.  "removed" and "failed_removed": no file is left and systemd has
\* forgotten the drop-in and stopped watching.
RecordIsTrue ==
    /\ ~ beside /\ record = "installed" /\ Owned => Complete /\ dropinLoaded
    /\ ~ beside /\ record \in {"removed", "failed_removed"} =>
          (\A f \in Files : file[f] = "none") /\ ~ dropinLoaded /\ ~ monitor

\* An installation that was not killed leaves EFI mounted, or has tried to mount it.
MountComesBack ==
    [][pc[Install] # "idle" /\ pc'[Install] = "idle" /\ budget'.crashes = budget.crashes =>
          mount' # "stopped"]_vars
=============================================================================
