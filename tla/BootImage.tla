------------------------------ MODULE BootImage ------------------------------
(***************************************************************************)
(* The optional boot entry for root protection: first installation and its   *)
(* removal (install.py) and the upgrade of its image (upgrade.py).  A command  *)
(* is a sequence of durable steps.  Any step may raise before or after it took *)
(* effect (host_files.atomic), the process may die between two steps, and      *)
(* other programs regenerate the menu or edit the files.                       *)
(*                                                                         *)
(* Bounds: MaxVersions, MaxUpgrades, MaxFaults, MaxCrashes, MaxEdits.        *)
(***************************************************************************)
EXTENDS Naturals, Sequences

CONSTANTS
    MaxVersions,       \* builds of the protection image
    MaxUpgrades,       \* upgrade attempts, one evidence directory each
    MaxFaults,         \* steps that raise
    MaxCrashes,        \* deaths of a command
    MaxEdits,          \* files edited independently
    NoFile,            \* a file that does not exist
    Foreign            \* content that no receipt describes

ASSUME BoundsAssumption ==
    /\ MaxVersions \in Nat \ {0}
    /\ {MaxUpgrades, MaxFaults, MaxCrashes, MaxEdits} \subseteq Nat

VARIABLES
    image,             \* /boot/initrd.img-<release>-ram-rescue
    hook,              \* /etc/grub.d/42_ram_rescue_guard
    grub,              \* the generated menu
    store,             \* the state directory and its copy of the menu
    receipt,           \* install.json
    evidence,          \* the directories below upgrades/, in order of creation
    proc,              \* the command that holds the deployment lock
    budget             \* faults, crashes and edits still allowed

files == <<image, hook, grub, store, receipt>>
vars  == <<files, evidence, proc, budget>>

Version == 1 .. MaxVersions
Image   == Version \cup {NoFile, Foreign}
Hook    == {NoFile, Foreign, "ours"}

\* "original": the menu without the entry.  "protected": the menu that the
\* installation generated.  "updated": that of a later grub-mkconfig with the hook.
\* "raced": one written while a deployment ran or the hook was not ours; nothing is
\* known about its content.
Menu == {"original", "protected", "updated", "raced"}
HasEntry(menu) == menu \in {"protected", "updated"}

Receipt == [state : {"preparing", "installed", "failed_rolled_back", "removed", "upgrading"},
            image : Version, upgrade : 0 .. MaxUpgrades]

ASSUME FilesAssumption ==
    /\ NoFile \notin Version /\ NoFile \notin Receipt /\ NoFile \notin {"ours", Foreign}
    /\ Foreign \notin Version /\ Foreign # "ours"

Final == {"installed", "failed_rolled_back", "failed_no_changes"}
RecordState == Final \cup {"none", "preparing", "rollback_failed"}
Evidence == [state : RecordState, image : Image, receipt : Receipt \cup {NoFile}]

InstallPc == {"menu_backup", "receipt", "image", "hook", "generate", "grub", "installed"}
CleanupPc == {"menu_restore", "hook_remove", "image_remove", "failed_receipt"}
RemovePc  == {"remove_entry", "remove_hook", "remove_image", "removed"}
UpgradePc == {"evidence", "record", "image_backup", "receipt_backup", "unchanged", "upgrading",
              "replace", "verify", "updated", "complete"}
UndoPc    == {"check", "image_undo", "receipt_undo", "verdict"}

\* What the command knows: the image it installs, the files as its preflight read them,
\* and the state it will record when it ends.
Proc == [pc : {"idle"} \cup InstallPc \cup CleanupPc \cup RemovePc \cup UpgradePc \cup UndoPc,
         target : Version,
         seen : [image : Image, hook : Hook, grub : Menu, receipt : Receipt \cup {NoFile}],
         verdict : RecordState]

TypeOK ==
    /\ image \in Image
    /\ hook \in Hook
    /\ grub \in Menu
    /\ store \in {"absent", "empty", "menu"}
    /\ receipt \in Receipt \cup {NoFile}
    /\ evidence \in Seq(Evidence) /\ Len(evidence) <= MaxUpgrades
    /\ proc \in Proc
    /\ budget \in [faults : 0 .. MaxFaults, crashes : 0 .. MaxCrashes, edits : 0 .. MaxEdits]

Snapshot == [image |-> image, hook |-> hook, grub |-> grub, receipt |-> receipt]

Init ==
    /\ image = NoFile /\ hook = NoFile /\ grub = "original"
    /\ store = "absent" /\ receipt = NoFile /\ evidence = <<>>
    /\ proc = [pc |-> "idle", target |-> 1, seen |-> Snapshot, verdict |-> "none"]
    /\ budget = [faults |-> MaxFaults, crashes |-> MaxCrashes, edits |-> MaxEdits]

-----------------------------------------------------------------------------
(* Steps. *)

At(pc) == proc.pc = pc
Goto(pc) == proc' = [proc EXCEPT !.pc = pc]

\* One durable step.  It may raise without effect, and also after its effect: atomic()
\* replaces the file before it syncs the directory.
Attempt(pc, Effect, next, handler) ==
    /\ At(pc)
    /\ \/ Effect /\ Goto(next) /\ UNCHANGED budget
       \/ /\ budget.faults > 0
          /\ budget' = [budget EXCEPT !.faults = @ - 1]
          /\ Effect \/ UNCHANGED <<files, evidence>>
          /\ Goto(handler)

Writes(e) == e /\ UNCHANGED evidence
SetImage(v)   == Writes(image' = v   /\ UNCHANGED <<hook, grub, store, receipt>>)
SetHook(v)    == Writes(hook' = v    /\ UNCHANGED <<image, grub, store, receipt>>)
SetGrub(v)    == Writes(grub' = v    /\ UNCHANGED <<image, hook, store, receipt>>)
SetStore(v)   == Writes(store' = v   /\ UNCHANGED <<image, hook, grub, receipt>>)
SetReceipt(v) == Writes(receipt' = v /\ UNCHANGED <<image, hook, grub, store>>)

\* A check of what is on disk; a mismatch raises.
Require(pc, condition, next, handler) ==
    /\ At(pc)
    /\ Goto(IF condition THEN next ELSE handler)
    /\ UNCHANGED <<files, evidence, budget>>

-----------------------------------------------------------------------------
(* install() *)

\* The checks that precede any write; the directory is created exclusively and
\* then locked.
InstallBegin ==
    /\ At("idle")
    /\ store = "absent" /\ hook = NoFile /\ image = NoFile
    /\ store' = "empty"
    /\ \E v \in Version :
          proc' = [proc EXCEPT !.pc = "menu_backup", !.target = v, !.seen = Snapshot]
    /\ UNCHANGED <<image, hook, grub, receipt, evidence, budget>>

InstallReceiptOf(state) == [state |-> state, image |-> proc.target, upgrade |-> 0]

InstallMenuBackup == Attempt("menu_backup", SetStore("menu"), "receipt", "idle")
InstallReceipt == Attempt("receipt", SetReceipt(InstallReceiptOf("preparing")), "image", "idle")
InstallImage   == Attempt("image", SetImage(proc.target), "hook", "menu_restore")

\* The image is hashed again before the hook that will name it is written.
InstallHook ==
    \/ image = proc.target /\ Attempt("hook", SetHook("ours"), "generate", "menu_restore")
    \/ image # proc.target /\ Require("hook", FALSE, "generate", "menu_restore")

\* grub-mkconfig, its checks and the receipt that names the generated menu.
InstallGenerate ==
    \/ Require("generate", hook = "ours", "grub", "menu_restore")
    \/ At("generate") /\ budget.faults > 0 /\ Goto("menu_restore")
       /\ budget' = [budget EXCEPT !.faults = @ - 1] /\ UNCHANGED <<files, evidence>>

InstallGrub == Attempt("grub", SetGrub("protected"), "installed", "menu_restore")
InstallDone == Attempt("installed", SetReceipt(InstallReceiptOf("installed")), "idle", "menu_restore")

\* Mutant: restore the menu only when the receipt says that it was installed.
CleanupMenu_TrustsReceipt ==
    Attempt("menu_restore", SetGrub(IF receipt.state = "installed" THEN "original" ELSE grub),
            "hook_remove", "idle")

\* The handler looks at what is on disk, as a step may have raised after its effect.
CleanupMenu  == Attempt("menu_restore", SetGrub(IF grub = "protected" THEN "original" ELSE grub),
                        "hook_remove", "idle")
CleanupHook  == Attempt("hook_remove", SetHook(IF hook = "ours" THEN NoFile ELSE hook),
                        "image_remove", "idle")
CleanupImage == Attempt("image_remove", SetImage(IF image = proc.target THEN NoFile ELSE image),
                        "failed_receipt", "idle")
CleanupReceipt == Attempt("failed_receipt", SetReceipt(InstallReceiptOf("failed_rolled_back")),
                          "idle", "idle")

Install == \/ InstallBegin \/ InstallMenuBackup \/ InstallReceipt \/ InstallImage
           \/ InstallHook \/ InstallGenerate \/ InstallGrub \/ InstallDone
           \/ CleanupMenu \/ CleanupHook \/ CleanupImage \/ CleanupReceipt

-----------------------------------------------------------------------------
(* rollback(), the removal of an installation. *)

RemoveBegin ==
    /\ At("idle")
    /\ receipt # NoFile
    /\ receipt.state = "installed" /\ image = receipt.image
    /\ grub = "protected" /\ hook = "ours" /\ store = "menu"
    /\ proc' = [proc EXCEPT !.pc = "remove_entry", !.target = receipt.image]
    /\ UNCHANGED <<files, evidence, budget>>

RemoveEntry == Attempt("remove_entry", SetGrub("original"), "remove_hook", "idle")
RemoveHook  == Attempt("remove_hook", SetHook(NoFile), "remove_image", "idle")
RemoveImage == Attempt("remove_image", SetImage(NoFile), "removed", "idle")
RemoveDone  == Attempt("removed", SetReceipt([receipt EXCEPT !.state = "removed"]), "idle", "idle")

Remove == RemoveBegin \/ RemoveEntry \/ RemoveHook \/ RemoveImage \/ RemoveDone

-----------------------------------------------------------------------------
(* upgrade() *)

Latest == Len(evidence)
Record(field, v) == /\ evidence' = [evidence EXCEPT ![Latest] = [@ EXCEPT ![field] = v]]
                    /\ UNCHANGED files

\* Every earlier upgrade must have recorded that it is complete or withdrawn.
NoIncompleteUpgrade == \A i \in 1 .. Latest : evidence[i].state \in Final

\* preflight(); the comparison with the running system can also refuse.
UpgradeBegin ==
    /\ At("idle")
    /\ NoIncompleteUpgrade /\ Latest < MaxUpgrades
    /\ receipt # NoFile
    /\ receipt.state = "installed" /\ image = receipt.image
    /\ hook = "ours" /\ grub # "original" /\ store = "menu"
    /\ \E v \in Version :
          proc' = [proc EXCEPT !.pc = "evidence", !.target = v, !.seen = Snapshot,
                               !.verdict = "failed_no_changes"]
    /\ UNCHANGED <<files, evidence, budget>>

UpgradeEvidence ==
    Attempt("evidence",
            /\ evidence' = Append(evidence, [state |-> "none", image |-> NoFile, receipt |-> NoFile])
            /\ UNCHANGED files,
            "record", "idle")

UpgradeRecord == Attempt("record", Record("state", "preparing"), "image_backup", "verdict")

\* atomic_copy() hashes what it streams and leaves the destination alone on a mismatch.
UpgradeImageBackup ==
    \/ image = proc.seen.image
       /\ Attempt("image_backup", Record("image", image), "receipt_backup", "verdict")
    \/ image # proc.seen.image /\ Require("image_backup", FALSE, "receipt_backup", "verdict")

\* Mutant: the old receipt is not kept.
UpgradeReceiptBackup_Skipped == Require("receipt_backup", TRUE, "unchanged", "verdict")

UpgradeReceiptBackup ==
    Attempt("receipt_backup", Record("receipt", proc.seen.receipt), "unchanged", "verdict")

UpgradeUnchanged == Require("unchanged", Snapshot = proc.seen, "upgrading", "verdict")

\* Mutant: the failure of the write itself does not restore.
UpgradeReceipt_FlagAfterWrite ==
    Attempt("upgrading",
            SetReceipt([proc.seen.receipt EXCEPT !.state = "upgrading", !.upgrade = Latest]),
            "replace", "verdict")

\* From here on a failure must restore: mutated is set before the write.
UpgradeReceipt ==
    Attempt("upgrading",
            SetReceipt([proc.seen.receipt EXCEPT !.state = "upgrading", !.upgrade = Latest]),
            "replace", "check")

UpgradeImage == Attempt("replace", SetImage(proc.target), "verify", "check")

UpgradeVerify ==
    Require("verify", image = proc.target /\ hook = proc.seen.hook /\ grub = proc.seen.grub,
            "updated", "check")

UpgradeCommit ==
    Attempt("updated",
            SetReceipt([state |-> "installed", image |-> proc.target, upgrade |-> Latest]),
            "complete", "check")

UpgradeComplete == Attempt("complete", Record("state", "installed"), "idle", "check")

Undo(pc, Effect, next, verdict) ==
    /\ At(pc)
    /\ \/ /\ Effect
          /\ proc' = [proc EXCEPT !.pc = next, !.verdict = verdict]
          /\ UNCHANGED budget
       \/ /\ budget.faults > 0
          /\ budget' = [budget EXCEPT !.faults = @ - 1]
          /\ Effect \/ UNCHANGED <<files, evidence>>
          /\ proc' = [proc EXCEPT !.pc = "verdict", !.verdict = "rollback_failed"]

\* An image that is neither the old nor the new one is not overwritten.
UndoCheck ==
    /\ At("check")
    /\ IF image \in {proc.seen.image, proc.target}
       THEN Goto("image_undo")
       ELSE proc' = [proc EXCEPT !.pc = "verdict", !.verdict = "rollback_failed"]
    /\ UNCHANGED <<files, evidence, budget>>

UndoImage   == Undo("image_undo", SetImage(evidence[Latest].image), "receipt_undo", "failed_no_changes")
UndoReceipt == Undo("receipt_undo", SetReceipt(proc.seen.receipt), "verdict", "failed_rolled_back")
UndoVerdict == Attempt("verdict", Record("state", proc.verdict), "idle", "idle")

Upgrade == \/ UpgradeBegin \/ UpgradeEvidence \/ UpgradeRecord \/ UpgradeImageBackup
           \/ UpgradeReceiptBackup \/ UpgradeUnchanged \/ UpgradeReceipt \/ UpgradeImage
           \/ UpgradeVerify \/ UpgradeCommit \/ UpgradeComplete
           \/ UndoCheck \/ UndoImage \/ UndoReceipt \/ UndoVerdict

-----------------------------------------------------------------------------
(* The environment. *)

\* The command dies; its lock goes with it.
Crash ==
    /\ proc.pc # "idle" /\ budget.crashes > 0
    /\ budget' = [budget EXCEPT !.crashes = @ - 1]
    /\ Goto("idle")
    /\ UNCHANGED <<files, evidence>>

\* grub-mkconfig, run by a package: it takes no part in the deployment lock.
UpdateGrub ==
    /\ grub' \in IF ~ At("idle") \/ hook = Foreign THEN {"raced"}
                 ELSE IF hook = "ours" THEN {"protected", "updated"} ELSE {"original"}
    /\ UNCHANGED <<image, hook, store, receipt, evidence, proc, budget>>

Edit ==
    /\ budget.edits > 0
    /\ budget' = [budget EXCEPT !.edits = @ - 1]
    /\ \/ image # NoFile /\ image' = Foreign /\ UNCHANGED hook
       \/ hook # NoFile /\ hook' = Foreign /\ UNCHANGED image
    /\ UNCHANGED <<grub, store, receipt, evidence, proc>>

Next == Install \/ Remove \/ Upgrade \/ Crash \/ UpdateGrub \/ Edit

Spec == Init /\ [][Next]_vars

-----------------------------------------------------------------------------
(* Properties. *)

\* Neither the menu nor the hook that the next grub-mkconfig will run names an image
\* that is gone, whatever step of an installation, its cleanup or a removal is cut
\* short.  (Nothing is claimed of a menu that was regenerated during a deployment.)
MenuNeverDangles == hook = "ours" \/ HasEntry(grub) => image # NoFile

\* When receipt and image do not agree, and nobody edited the image, an evidence
\* directory holds the old image together with the receipt that describes it.
Backed == \E i \in 1 .. Latest :
             /\ evidence[i].image # NoFile
             /\ evidence[i].receipt # NoFile
             /\ evidence[i].receipt.state = "installed"
             /\ evidence[i].receipt.image = evidence[i].image
Restorable ==
    receipt # NoFile /\ image # Foreign =>
        /\ receipt.state = "upgrading" => Backed
        /\ receipt.state = "installed" /\ image # receipt.image =>
              Backed \/ (~ HasEntry(grub) /\ hook # "ours")

\* What an upgrade records when it ends is what it left behind: nothing changed, the
\* old image and receipt are back, or the new ones are in place.
RecordsTellTheTruth ==
    [][\A i \in 1 .. Latest :
          evidence'[i].state # evidence[i].state /\ evidence'[i].state \in Final =>
              LET expected == IF evidence'[i].state = "installed"
                              THEN [state |-> "installed", image |-> proc.target, upgrade |-> i]
                              ELSE proc.seen.receipt
              IN  /\ receipt = expected
                  /\ image \in {expected.image, Foreign}]_vars
=============================================================================
