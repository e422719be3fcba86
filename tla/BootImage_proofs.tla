--------------------------- MODULE BootImage_proofs ---------------------------
(***************************************************************************)
(* The boot entry, for any number of builds, upgrades, steps that raise, deaths and  *)
(* edits.  Each effect may be followed by the death of its command, so the invariant  *)
(* is about the order of the steps: what names a file is written after it and taken    *)
(* away before it, and an upgrade overwrites nothing that its evidence does not hold.   *)
(***************************************************************************)
EXTENDS BootImage, TLAPS

-----------------------------------------------------------------------------
(* The invariant. *)

\* A removal and a cleanup take the entry from the menu, then the hook, then the image.
WithdrawOK ==
    /\ proc.pc \in {"hook_remove", "remove_hook"} => ~ HasEntry(grub)
    /\ proc.pc \in {"image_remove", "failed_receipt", "remove_image", "removed"} =>
          ~ HasEntry(grub) /\ hook # "ours"
    /\ proc.pc \in RemovePc => receipt # NoFile /\ receipt.state = "installed"

\* A first installation starts from nothing and writes the image before what names it.
InstallOK ==
    /\ store = "absent" => receipt = NoFile /\ proc.pc = "idle"
    /\ proc.pc \in {"menu_backup", "receipt"} => receipt = NoFile
    /\ proc.pc \in {"image", "hook", "generate", "grub", "installed"} =>
          receipt # NoFile /\ receipt.state = "preparing"
    /\ proc.pc \in {"menu_backup", "receipt", "image", "hook", "generate", "grub"} => ~ HasEntry(grub)
    /\ proc.pc \in {"hook", "generate", "grub", "installed"} => image \in {proc.target, Foreign}
    /\ proc.pc \in {"installed", "menu_restore"} => grub # "updated"

\* The steps of an upgrade before the first write, those after the backup of the image,
\* and those after the backup of the receipt.
Preparing == {"evidence", "record", "image_backup", "receipt_backup", "unchanged", "upgrading"}
Covered   == {"unchanged", "upgrading", "replace", "verify", "updated", "complete", "check",
              "image_undo", "receipt_undo"}

\* The old image and receipt are as the preflight saw them, in the files or in the
\* evidence of this upgrade.
Unchanged == receipt = proc.seen.receipt /\ image \in {proc.seen.image, Foreign}
UpgradeOK ==
    /\ proc.verdict # "installed"
    /\ proc.pc \in UpgradePc \cup UndoPc =>
          /\ proc.seen.receipt # NoFile /\ proc.seen.receipt.state = "installed"
          /\ proc.seen.image = proc.seen.receipt.image
    /\ proc.pc = "evidence" => Latest < MaxUpgrades
    /\ proc.pc \in (UpgradePc \cup UndoPc) \ {"evidence"} => Latest > 0
    /\ proc.pc \in {"record", "image_backup", "receipt_backup"} => evidence[Latest].receipt = NoFile
    /\ proc.pc \in Covered \cup {"receipt_backup"} => evidence[Latest].image = proc.seen.image
    /\ proc.pc \in Covered => evidence[Latest].receipt = proc.seen.receipt
    /\ proc.pc \in Preparing => Unchanged
    /\ proc.pc \in {"updated", "complete"} => image \in {proc.target, Foreign}
    /\ proc.pc = "complete" =>
          receipt = [state |-> "installed", image |-> proc.target, upgrade |-> Latest]
    /\ proc.pc = "receipt_undo" => image \in {proc.seen.image, Foreign}
    /\ proc.pc = "verdict" /\ proc.verdict \in Final => Unchanged

BInv == TypeOK /\ WithdrawOK /\ InstallOK /\ UpgradeOK /\ MenuNeverDangles /\ Restorable

-----------------------------------------------------------------------------
(* What every step does to the command, its budget and the evidence. *)

Pc == {"idle"} \cup InstallPc \cup CleanupPc \cup RemovePc \cup UpgradePc \cup UndoPc
Budget == [faults : 0 .. MaxFaults, crashes : 0 .. MaxCrashes, edits : 0 .. MaxEdits]

\* The command goes on with what it knows.
Moves(p) == /\ proc' \in Proc /\ proc'.pc = p
            /\ proc'.target = proc.target /\ proc'.seen = proc.seen /\ proc'.verdict = proc.verdict

LEMMA GotoMoves ==
  ASSUME TypeOK, NEW p \in Pc, Goto(p)
  PROVE  Moves(p)
BY DEF TypeOK, Goto, Moves, Pc, Proc

LEMMA FaultPays ==
  ASSUME TypeOK, budget.faults > 0, budget' = [budget EXCEPT !.faults = @ - 1]
  PROVE  budget' \in Budget
BY BoundsAssumption DEF TypeOK, Budget

\* A step that succeeds, and one that raises with or without its effect.
LEMMA AttemptMoves ==
  ASSUME TypeOK, NEW p, NEW next \in Pc, NEW handler \in Pc, NEW ACTION Effect,
         Attempt(p, Effect, next, handler)
  PROVE  /\ proc.pc = p /\ budget' \in Budget
         /\ \/ Effect /\ Moves(next)
            \/ (Effect \/ UNCHANGED <<files, evidence>>) /\ Moves(handler)
<1>1. UNCHANGED budget => budget' \in Budget  BY DEF TypeOK, Budget
<1> QED  BY <1>1, GotoMoves, FaultPays DEF Attempt, At

LEMMA RequireMoves ==
  ASSUME TypeOK, NEW p, NEW condition \in BOOLEAN, NEW next \in Pc, NEW handler \in Pc,
         Require(p, condition, next, handler)
  PROVE  /\ proc.pc = p /\ budget' \in Budget /\ UNCHANGED <<files, evidence>>
         /\ \/ condition /\ Moves(next)
            \/ ~ condition /\ Moves(handler)
<1>1. UNCHANGED budget => budget' \in Budget  BY DEF TypeOK, Budget
<1> QED  BY <1>1, GotoMoves DEF Require, At

\* The same for the steps that put things back, which set the verdict too.
Judges(p, v) == /\ proc' \in Proc /\ proc'.pc = p /\ proc'.verdict = v
                /\ proc'.target = proc.target /\ proc'.seen = proc.seen

LEMMA VerdictMoves ==
  ASSUME TypeOK, NEW p \in Pc, NEW v \in RecordState, proc' = [proc EXCEPT !.pc = p, !.verdict = v]
  PROVE  Judges(p, v)
BY DEF TypeOK, Judges, Pc, Proc

LEMMA UndoMoves ==
  ASSUME TypeOK, NEW p, NEW next \in Pc, NEW v \in RecordState, NEW ACTION Effect,
         Undo(p, Effect, next, v)
  PROVE  /\ proc.pc = p /\ budget' \in Budget
         /\ \/ Effect /\ Judges(next, v)
            \/ (Effect \/ UNCHANGED <<files, evidence>>) /\ Judges("verdict", "rollback_failed")
<1>1. UNCHANGED budget => budget' \in Budget  BY DEF TypeOK, Budget
<1>2. "verdict" \in Pc /\ "rollback_failed" \in RecordState  BY DEF Pc, UndoPc, RecordState
<1> QED  BY <1>1, <1>2, VerdictMoves, FaultPays DEF Undo, At

\* The latest record gets a field.
LEMMA Recorded ==
  ASSUME TypeOK, Latest > 0, NEW field \in {"state", "image", "receipt"}, NEW v, Record(field, v),
         field = "state" => v \in RecordState,
         field = "image" => v \in Image,
         field = "receipt" => v \in Receipt \cup {NoFile}
  PROVE  /\ UNCHANGED files
         /\ evidence' \in Seq(Evidence) /\ Len(evidence') = Latest
         /\ \A i \in 1 .. Latest : i # Latest => evidence'[i] = evidence[i]
         /\ \A f \in {"state", "image", "receipt"} \ {field} : evidence'[Latest][f] = evidence[Latest][f]
         /\ evidence'[Latest][field] = v
<1> DEFINE m == [evidence[Latest] EXCEPT ![field] = v]
<1>1. Latest \in 1 .. Len(evidence) /\ evidence[Latest] \in Evidence  BY DEF TypeOK, Latest
<1>2. m \in Evidence /\ m[field] = v /\ \A f \in {"state", "image", "receipt"} \ {field} : m[f] = evidence[Latest][f]
  BY <1>1 DEF Evidence
<1>3. evidence' = [evidence EXCEPT ![Latest] = m]  BY DEF Record
<1> HIDE DEF m
<1>4. evidence' \in Seq(Evidence) /\ Len(evidence') = Len(evidence) /\ evidence'[Latest] = m
      /\ \A i \in 1 .. Len(evidence) : i # Latest => evidence'[i] = evidence[i]
  BY <1>1, <1>2, <1>3 DEF TypeOK
<1> QED  BY <1>2, <1>4 DEF Record, Latest

\* A complete backup stays one.
LEMMA BackedStays ==
  ASSUME Backed, Latest \in Nat, Latest' \in Nat, Latest' >= Latest,
         \A i \in 1 .. Latest : evidence[i].image # NoFile /\ evidence[i].receipt # NoFile =>
            evidence'[i].image = evidence[i].image /\ evidence'[i].receipt = evidence[i].receipt
  PROVE  Backed'
<1> PICK i \in 1 .. Latest :
       /\ evidence[i].image # NoFile /\ evidence[i].receipt # NoFile
       /\ evidence[i].receipt.state = "installed"
       /\ evidence[i].receipt.image = evidence[i].image
  BY DEF Backed
<1>1. evidence'[i].image = evidence[i].image /\ evidence'[i].receipt = evidence[i].receipt  OBVIOUS
<1>2. i \in 1 .. Latest'  OBVIOUS
<1> QED  BY <1>1, <1>2 DEF Backed

LEMMA BackedSame ==
  ASSUME UNCHANGED evidence
  PROVE  Backed' = Backed
BY DEF Backed, Latest

\* Once the receipt is backed up, the upgrade's own evidence is a complete backup.
LEMMA CoveredBacked ==
  ASSUME TypeOK, UpgradeOK, proc.pc \in Covered
  PROVE  Backed
<1>1. /\ proc.pc \in (UpgradePc \cup UndoPc) \ {"evidence"}
      /\ Latest \in Nat
  BY DEF Covered, UpgradePc, UndoPc, TypeOK, Latest
<1>2. /\ proc.seen.receipt # NoFile /\ proc.seen.receipt.state = "installed"
      /\ proc.seen.image = proc.seen.receipt.image /\ Latest > 0
      /\ evidence[Latest].image = proc.seen.image /\ evidence[Latest].receipt = proc.seen.receipt
  BY <1>1 DEF UpgradeOK
<1>3. proc.seen.receipt \in Receipt  BY <1>2 DEF TypeOK, Proc
<1>4. proc.seen.image # NoFile  BY <1>2, <1>3, FilesAssumption DEF Receipt
<1> QED  BY <1>1, <1>2, <1>4 DEF Backed

\* The receipts that are written.
LEMMA WrittenReceipts ==
  ASSUME TypeOK
  PROVE  /\ \A s \in {"preparing", "installed", "failed_rolled_back"} :
               /\ InstallReceiptOf(s) \in Receipt
               /\ InstallReceiptOf(s).state = s /\ InstallReceiptOf(s).image = proc.target
         /\ \A r \in Receipt :
               /\ [r EXCEPT !.state = "removed"] \in Receipt
               /\ [r EXCEPT !.state = "removed"].state = "removed"
         /\ \A r \in Receipt, i \in 0 .. MaxUpgrades :
               /\ [r EXCEPT !.state = "upgrading", !.upgrade = i] \in Receipt
               /\ [r EXCEPT !.state = "upgrading", !.upgrade = i].state = "upgrading"
<1>1. 0 \in 0 .. MaxUpgrades /\ proc.target \in Version  BY BoundsAssumption DEF TypeOK, Proc
<1>2. ASSUME NEW s \in {"preparing", "installed", "failed_rolled_back"}
      PROVE  /\ InstallReceiptOf(s) \in Receipt
             /\ InstallReceiptOf(s).state = s /\ InstallReceiptOf(s).image = proc.target
  BY <1>1 DEF InstallReceiptOf, Receipt
<1>3. ASSUME NEW r \in Receipt
      PROVE  /\ [r EXCEPT !.state = "removed"] \in Receipt
             /\ [r EXCEPT !.state = "removed"].state = "removed"
  BY DEF Receipt
<1>4. ASSUME NEW r \in Receipt, NEW i \in 0 .. MaxUpgrades
      PROVE  /\ [r EXCEPT !.state = "upgrading", !.upgrade = i] \in Receipt
             /\ [r EXCEPT !.state = "upgrading", !.upgrade = i].state = "upgrading"
  BY DEF Receipt
<1> QED  BY <1>2, <1>3, <1>4

\* A new evidence directory.
LEMMA Appended ==
  ASSUME TypeOK, Latest < MaxUpgrades,
         evidence' = Append(evidence, [state |-> "none", image |-> NoFile, receipt |-> NoFile])
  PROVE  /\ evidence' \in Seq(Evidence) /\ Len(evidence') = Latest + 1 /\ Len(evidence') <= MaxUpgrades
         /\ \A i \in 1 .. Latest : evidence'[i] = evidence[i]
         /\ evidence'[Latest + 1].receipt = NoFile
<1>1. [state |-> "none", image |-> NoFile, receipt |-> NoFile] \in Evidence
  BY DEF Evidence, RecordState, Image
<1> QED  BY <1>1, BoundsAssumption DEF TypeOK, Latest

\* A command that begins.
LEMMA BeginMoves ==
  ASSUME TypeOK, NEW p \in Pc, NEW v \in Version,
         proc' = [proc EXCEPT !.pc = p, !.target = v, !.seen = Snapshot]
  PROVE  proc' \in Proc /\ proc'.pc = p /\ proc'.verdict = proc.verdict
<1>1. Snapshot \in [image : Image, hook : Hook, grub : Menu, receipt : Receipt \cup {NoFile}]
  BY DEF Snapshot, TypeOK
<1> QED  BY <1>1 DEF TypeOK, Proc, Pc

LEMMA UpgradeBegins ==
  ASSUME TypeOK, NEW v \in Version,
         proc' = [proc EXCEPT !.pc = "evidence", !.target = v, !.seen = Snapshot,
                              !.verdict = "failed_no_changes"]
  PROVE  /\ proc' \in Proc /\ proc'.pc = "evidence" /\ proc'.verdict = "failed_no_changes"
         /\ proc'.seen.image = image /\ proc'.seen.receipt = receipt
<1>1. Snapshot \in [image : Image, hook : Hook, grub : Menu, receipt : Receipt \cup {NoFile}]
      /\ Snapshot.image = image /\ Snapshot.receipt = receipt
  BY DEF Snapshot, TypeOK
<1> QED  BY <1>1 DEF TypeOK, Proc, UpgradePc, RecordState, Final

LEMMA BootStep ==
  ASSUME BInv, [Next]_vars
  PROVE  BInv'
<1> TypeOK /\ WithdrawOK /\ InstallOK /\ UpgradeOK /\ MenuNeverDangles /\ Restorable  BY DEF BInv
<1>1. ASSUME InstallBegin PROVE BInv'
  <2>1. /\ store = "absent" /\ store' = "empty" /\ hook = NoFile /\ image = NoFile
        /\ UNCHANGED <<image, hook, grub, receipt, evidence, budget>>
        /\ proc' \in Proc /\ proc'.pc = "menu_backup" /\ proc'.verdict = proc.verdict
    BY <1>1, BeginMoves DEF InstallBegin, At, Pc, InstallPc
  <2>4. TypeOK'  BY <2>1 DEF TypeOK, Budget
  <2>5. (WithdrawOK /\ InstallOK /\ MenuNeverDangles)'
    BY <2>1 DEF WithdrawOK, InstallOK, MenuNeverDangles, HasEntry, RemovePc
  <2>6. UpgradeOK'  BY <2>1 DEF UpgradeOK, Preparing, Covered, Latest, UpgradePc, UndoPc
  <2>7. Restorable'  BY <2>1, BackedSame DEF Restorable
  <2> QED  BY <2>4, <2>5, <2>6, <2>7 DEF BInv
<1>2. ASSUME InstallMenuBackup PROVE BInv'
  <2>1. /\ proc.pc = "menu_backup" /\ budget' \in Budget
        /\ UNCHANGED <<image, hook, grub, receipt, evidence>>
        /\ \/ store' = "menu" /\ Moves("receipt")
           \/ store' \in {"menu", store} /\ Moves("idle")
    BY <1>2, AttemptMoves DEF InstallMenuBackup, SetStore, Writes, files, Pc, InstallPc, CleanupPc
  <2>4. TypeOK'  BY <2>1 DEF TypeOK, Moves, Budget, files
  <2>5. (WithdrawOK /\ InstallOK /\ MenuNeverDangles)'
    BY <2>1 DEF WithdrawOK, InstallOK, MenuNeverDangles, HasEntry, RemovePc, Moves, files
  <2>6. UpgradeOK'
    BY <2>1 DEF UpgradeOK, Preparing, Covered, Latest, UpgradePc, UndoPc, Moves, files
  <2>7. Restorable'  BY <2>1, BackedSame DEF Restorable, files
  <2> QED  BY <2>4, <2>5, <2>6, <2>7 DEF BInv
<1>3. ASSUME InstallReceipt PROVE BInv'
  <2>1. /\ proc.pc = "receipt" /\ budget' \in Budget
        /\ UNCHANGED <<image, hook, grub, store, evidence>>
        /\ \/ receipt' = InstallReceiptOf("preparing") /\ Moves("image")
           \/ receipt' \in {InstallReceiptOf("preparing"), receipt} /\ Moves("idle")
    BY <1>3, AttemptMoves DEF InstallReceipt, SetReceipt, Writes, files, Pc, InstallPc, CleanupPc
  <2>2. /\ InstallReceiptOf("preparing") \in Receipt
        /\ InstallReceiptOf("preparing").state = "preparing"
    BY WrittenReceipts
  <2>4. TypeOK'  BY <2>1, <2>2 DEF TypeOK, Moves, Budget, files
  <2>5. WithdrawOK'  BY <2>1, <2>2 DEF WithdrawOK, Moves, Judges, RemovePc
  <2>8. InstallOK'  BY <2>1, <2>2, FilesAssumption DEF InstallOK, Moves, Judges
  <2>9. MenuNeverDangles'  BY <2>1, <2>2 DEF MenuNeverDangles
  <2>6. UpgradeOK'
    BY <2>1, <2>2 DEF UpgradeOK, Preparing, Covered, Latest, UpgradePc, UndoPc, Moves, files
  <2>7. Restorable'  BY <2>1, <2>2, BackedSame DEF Restorable, files
  <2> QED  BY <2>4, <2>5, <2>6, <2>7, <2>8, <2>9 DEF BInv
<1>4. ASSUME InstallImage PROVE BInv'
  <2>1. /\ proc.pc = "image" /\ budget' \in Budget
        /\ UNCHANGED <<hook, grub, store, receipt, evidence>>
        /\ \/ image' = proc.target /\ Moves("hook")
           \/ image' \in {proc.target, image} /\ Moves("menu_restore")
    BY <1>4, AttemptMoves DEF InstallImage, SetImage, Writes, files, Pc, InstallPc, CleanupPc
  <2>4. TypeOK'  BY <2>1 DEF TypeOK, Moves, Budget, files, Proc, Image, Hook, Menu
  <2>5. (WithdrawOK /\ InstallOK /\ MenuNeverDangles)'
    BY <2>1, FilesAssumption DEF WithdrawOK, InstallOK, MenuNeverDangles, UpgradeOK, Covered,
       Moves, files, HasEntry, RemovePc, TypeOK, Proc, Version, Latest
  <2>6. UpgradeOK'
    BY <2>1 DEF UpgradeOK, Preparing, Covered, Latest, UpgradePc, UndoPc, Moves, files
  <2>7. Restorable'  BY <2>1, BackedSame, FilesAssumption DEF Restorable, InstallOK, files
  <2> QED  BY <2>4, <2>5, <2>6, <2>7 DEF BInv
<1>5. ASSUME InstallHook PROVE BInv'
  <2>1. /\ proc.pc = "hook" /\ budget' \in Budget
        /\ UNCHANGED <<image, grub, store, receipt, evidence>>
        /\ \/ image = proc.target /\ hook' = "ours" /\ Moves("generate")
           \/ image = proc.target /\ hook' \in {"ours", hook} /\ Moves("menu_restore")
           \/ hook' = hook /\ Moves("menu_restore")
    BY <1>5, AttemptMoves, RequireMoves DEF InstallHook, SetHook, Writes, files, Pc, InstallPc,
       CleanupPc
  <2>4. TypeOK'  BY <2>1 DEF TypeOK, Moves, Budget, files, Proc, Image, Hook, Menu
  <2>5. (WithdrawOK /\ InstallOK /\ MenuNeverDangles)'
    BY <2>1, FilesAssumption DEF WithdrawOK, InstallOK, MenuNeverDangles, UpgradeOK, Covered,
       Moves, files, HasEntry, RemovePc, TypeOK, Proc, Version, Latest
  <2>6. UpgradeOK'
    BY <2>1 DEF UpgradeOK, Preparing, Covered, Latest, UpgradePc, UndoPc, Moves, files
  <2>7. Restorable'  BY <2>1, BackedSame, FilesAssumption DEF Restorable, InstallOK, files
  <2> QED  BY <2>4, <2>5, <2>6, <2>7 DEF BInv
<1>6. ASSUME InstallGenerate PROVE BInv'
  <2>1. /\ proc.pc = "generate" /\ budget' \in Budget
        /\ UNCHANGED <<files, evidence>>
        /\ Moves("grub") \/ Moves("menu_restore")
    BY <1>6, RequireMoves, GotoMoves, FaultPays DEF InstallGenerate, At, Pc, InstallPc, CleanupPc
  <2>4. TypeOK'  BY <2>1 DEF TypeOK, Moves, Budget, files
  <2>5. (WithdrawOK /\ InstallOK /\ MenuNeverDangles)'
    BY <2>1 DEF WithdrawOK, InstallOK, MenuNeverDangles, HasEntry, RemovePc, Moves, files
  <2>6. UpgradeOK'
    BY <2>1 DEF UpgradeOK, Preparing, Covered, Latest, UpgradePc, UndoPc, Moves, files
  <2>7. Restorable'  BY <2>1, BackedSame DEF Restorable, files
  <2> QED  BY <2>4, <2>5, <2>6, <2>7 DEF BInv
<1>7. ASSUME InstallGrub PROVE BInv'
  <2>1. /\ proc.pc = "grub" /\ budget' \in Budget
        /\ UNCHANGED <<image, hook, store, receipt, evidence>>
        /\ \/ grub' = "protected" /\ Moves("installed")
           \/ grub' \in {"protected", grub} /\ Moves("menu_restore")
    BY <1>7, AttemptMoves DEF InstallGrub, SetGrub, Writes, files, Pc, InstallPc, CleanupPc
  <2>4. TypeOK'  BY <2>1 DEF TypeOK, Moves, Budget, files, Proc, Image, Hook, Menu
  <2>5. (WithdrawOK /\ InstallOK /\ MenuNeverDangles)'
    BY <2>1, FilesAssumption DEF WithdrawOK, InstallOK, MenuNeverDangles, UpgradeOK, Covered,
       Moves, files, HasEntry, RemovePc, TypeOK, Proc, Version, Latest
  <2>6. UpgradeOK'
    BY <2>1 DEF UpgradeOK, Preparing, Covered, Latest, UpgradePc, UndoPc, Moves, files
  <2>7. Restorable'  BY <2>1, BackedSame, FilesAssumption DEF Restorable, InstallOK, files
  <2> QED  BY <2>4, <2>5, <2>6, <2>7 DEF BInv
<1>8. ASSUME InstallDone PROVE BInv'
  <2>1. /\ proc.pc = "installed" /\ budget' \in Budget
        /\ UNCHANGED <<image, hook, grub, store, evidence>>
        /\ \/ receipt' = InstallReceiptOf("installed") /\ Moves("idle")
           \/ receipt' \in {InstallReceiptOf("installed"), receipt} /\ Moves("menu_restore")
    BY <1>8, AttemptMoves DEF InstallDone, SetReceipt, Writes, files, Pc, InstallPc, CleanupPc
  <2>2. /\ InstallReceiptOf("installed") \in Receipt
        /\ InstallReceiptOf("installed").state = "installed" /\ InstallReceiptOf("installed").image = proc.target
    BY WrittenReceipts
  <2>4. TypeOK'  BY <2>1, <2>2 DEF TypeOK, Moves, Budget, files
  <2>5. (WithdrawOK /\ InstallOK /\ MenuNeverDangles)'
    BY <2>1, <2>2 DEF WithdrawOK, InstallOK, MenuNeverDangles, HasEntry, RemovePc, Moves, files
  <2>6. UpgradeOK'
    BY <2>1, <2>2 DEF UpgradeOK, Preparing, Covered, Latest, UpgradePc, UndoPc, Moves, files
  <2>7. Restorable'  BY <2>1, <2>2, BackedSame, FilesAssumption DEF Restorable, InstallOK, files
  <2> QED  BY <2>4, <2>5, <2>6, <2>7 DEF BInv
<1>9. ASSUME CleanupMenu PROVE BInv'
  <2>1. /\ proc.pc = "menu_restore" /\ budget' \in Budget
        /\ UNCHANGED <<image, hook, store, receipt, evidence>>
        /\ \/ grub' = (IF grub = "protected" THEN "original" ELSE grub) /\ Moves("hook_remove")
           \/ grub' \in {(IF grub = "protected" THEN "original" ELSE grub), grub} /\ Moves("idle")
    BY <1>9, AttemptMoves DEF CleanupMenu, SetGrub, Writes, files, Pc, InstallPc, CleanupPc
  <2>4. TypeOK'  BY <2>1 DEF TypeOK, Moves, Budget, files, Proc, Image, Hook, Menu
  <2>5. (WithdrawOK /\ InstallOK /\ MenuNeverDangles)'
    BY <2>1 DEF WithdrawOK, InstallOK, MenuNeverDangles, HasEntry, RemovePc, Moves, files
  <2>6. UpgradeOK'
    BY <2>1 DEF UpgradeOK, Preparing, Covered, Latest, UpgradePc, UndoPc, Moves, files
  <2>7. Restorable'  BY <2>1, BackedSame DEF Restorable, HasEntry, files
  <2> QED  BY <2>4, <2>5, <2>6, <2>7 DEF BInv
<1>10. ASSUME CleanupHook PROVE BInv'
  <2>1. /\ proc.pc = "hook_remove" /\ budget' \in Budget
        /\ UNCHANGED <<image, grub, store, receipt, evidence>>
        /\ \/ hook' = (IF hook = "ours" THEN NoFile ELSE hook) /\ Moves("image_remove")
           \/ hook' \in {(IF hook = "ours" THEN NoFile ELSE hook), hook} /\ Moves("idle")
    BY <1>10, AttemptMoves DEF CleanupHook, SetHook, Writes, files, Pc, InstallPc, CleanupPc
  <2>4. TypeOK'  BY <2>1 DEF TypeOK, Moves, Budget, files, Proc, Image, Hook, Menu
  <2>5. (WithdrawOK /\ InstallOK /\ MenuNeverDangles)'
    BY <2>1, FilesAssumption DEF WithdrawOK, InstallOK, MenuNeverDangles, UpgradeOK, HasEntry,
       RemovePc, Moves, files
  <2>6. UpgradeOK'
    BY <2>1 DEF UpgradeOK, Preparing, Covered, Latest, UpgradePc, UndoPc, Moves, files
  <2>7. Restorable'  BY <2>1, BackedSame DEF Restorable, files
  <2> QED  BY <2>4, <2>5, <2>6, <2>7 DEF BInv
<1>11. ASSUME CleanupImage PROVE BInv'
  <2>1. /\ proc.pc = "image_remove" /\ budget' \in Budget
        /\ UNCHANGED <<hook, grub, store, receipt, evidence>>
        /\ \/ image' = (IF image = proc.target THEN NoFile ELSE image) /\ Moves("failed_receipt")
           \/ image' \in {(IF image = proc.target THEN NoFile ELSE image), image} /\ Moves("idle")
    BY <1>11, AttemptMoves DEF CleanupImage, SetImage, Writes, files, Pc, InstallPc, CleanupPc
  <2>4. TypeOK'  BY <2>1 DEF TypeOK, Moves, Budget, files, Proc, Image, Hook, Menu
  <2>5. (WithdrawOK /\ InstallOK /\ MenuNeverDangles)'
    BY <2>1 DEF WithdrawOK, InstallOK, MenuNeverDangles, HasEntry, RemovePc, Moves, files
  <2>6. UpgradeOK'
    BY <2>1 DEF UpgradeOK, Preparing, Covered, Latest, UpgradePc, UndoPc, Moves, files
  <2>7. Restorable'
    <3>1. ~ HasEntry(grub') /\ hook' # "ours"  BY <2>1 DEF WithdrawOK
    <3>2. image' # Foreign => image # Foreign  BY <2>1, FilesAssumption DEF TypeOK, Proc
    <3> QED  BY <2>1, <3>1, <3>2, BackedSame DEF Restorable
  <2> QED  BY <2>4, <2>5, <2>6, <2>7 DEF BInv
<1>12. ASSUME CleanupReceipt PROVE BInv'
  <2>1. /\ proc.pc = "failed_receipt" /\ budget' \in Budget
        /\ UNCHANGED <<image, hook, grub, store, evidence>>
        /\ receipt' \in {InstallReceiptOf("failed_rolled_back"), receipt} /\ Moves("idle")
    BY <1>12, AttemptMoves DEF CleanupReceipt, SetReceipt, Writes, files, Pc, InstallPc, CleanupPc
  <2>2. /\ InstallReceiptOf("failed_rolled_back") \in Receipt
        /\ InstallReceiptOf("failed_rolled_back").state = "failed_rolled_back"
    BY WrittenReceipts
  <2>4. TypeOK'  BY <2>1, <2>2 DEF TypeOK, Moves, Budget, files
  <2>5. WithdrawOK'  BY <2>1, <2>2 DEF WithdrawOK, Moves, Judges, RemovePc
  <2>8. InstallOK'  BY <2>1, <2>2, FilesAssumption DEF InstallOK, Moves, Judges
  <2>9. MenuNeverDangles'  BY <2>1, <2>2 DEF MenuNeverDangles
  <2>6. UpgradeOK'
    BY <2>1, <2>2 DEF UpgradeOK, Preparing, Covered, Latest, UpgradePc, UndoPc, Moves, files
  <2>7. Restorable'  BY <2>1, <2>2, BackedSame DEF Restorable, files
  <2> QED  BY <2>4, <2>5, <2>6, <2>7, <2>8, <2>9 DEF BInv
<1>13. ASSUME RemoveBegin PROVE BInv'
  <2>1. /\ receipt # NoFile /\ receipt.state = "installed" /\ store = "menu"
        /\ UNCHANGED <<files, evidence, budget>>
        /\ proc' \in Proc /\ proc'.pc = "remove_entry" /\ proc'.verdict = proc.verdict
    BY <1>13 DEF RemoveBegin, At, TypeOK, Proc, Receipt, RemovePc
  <2>4. TypeOK'  BY <2>1 DEF TypeOK, Budget, files
  <2>5. (WithdrawOK /\ InstallOK /\ MenuNeverDangles)'
    BY <2>1 DEF WithdrawOK, InstallOK, MenuNeverDangles, files
  <2>6. UpgradeOK'  BY <2>1 DEF UpgradeOK, Preparing, Covered, Latest, UpgradePc, UndoPc, files
  <2>7. Restorable'  BY <2>1, BackedSame DEF Restorable, files
  <2> QED  BY <2>4, <2>5, <2>6, <2>7 DEF BInv
<1>14. ASSUME RemoveEntry PROVE BInv'
  <2>1. /\ proc.pc = "remove_entry" /\ budget' \in Budget
        /\ UNCHANGED <<image, hook, store, receipt, evidence>>
        /\ \/ grub' = "original" /\ Moves("remove_hook")
           \/ grub' \in {"original", grub} /\ Moves("idle")
    BY <1>14, AttemptMoves DEF RemoveEntry, SetGrub, Writes, files, Pc, RemovePc
  <2>4. TypeOK'  BY <2>1 DEF TypeOK, Moves, Budget, files, Proc, Image, Hook, Menu
  <2>5. (WithdrawOK /\ InstallOK /\ MenuNeverDangles)'
    BY <2>1 DEF WithdrawOK, InstallOK, MenuNeverDangles, HasEntry, RemovePc, Moves, files
  <2>6. UpgradeOK'
    BY <2>1 DEF UpgradeOK, Preparing, Covered, Latest, UpgradePc, UndoPc, Moves, files
  <2>7. Restorable'  BY <2>1, BackedSame DEF Restorable, HasEntry, files
  <2> QED  BY <2>4, <2>5, <2>6, <2>7 DEF BInv
<1>15. ASSUME RemoveHook PROVE BInv'
  <2>1. /\ proc.pc = "remove_hook" /\ budget' \in Budget
        /\ UNCHANGED <<image, grub, store, receipt, evidence>>
        /\ \/ hook' = NoFile /\ Moves("remove_image")
           \/ hook' \in {NoFile, hook} /\ Moves("idle")
    BY <1>15, AttemptMoves DEF RemoveHook, SetHook, Writes, files, Pc, RemovePc
  <2>4. TypeOK'  BY <2>1 DEF TypeOK, Moves, Budget, files, Proc, Image, Hook, Menu
  <2>5. (WithdrawOK /\ InstallOK /\ MenuNeverDangles)'
    BY <2>1, FilesAssumption DEF WithdrawOK, InstallOK, MenuNeverDangles, UpgradeOK, HasEntry,
       RemovePc, Moves, files
  <2>6. UpgradeOK'
    BY <2>1 DEF UpgradeOK, Preparing, Covered, Latest, UpgradePc, UndoPc, Moves, files
  <2>7. Restorable'  BY <2>1, BackedSame, FilesAssumption DEF Restorable, InstallOK, files
  <2> QED  BY <2>4, <2>5, <2>6, <2>7 DEF BInv
<1>16. ASSUME RemoveImage PROVE BInv'
  <2>1. /\ proc.pc = "remove_image" /\ budget' \in Budget
        /\ UNCHANGED <<hook, grub, store, receipt, evidence>>
        /\ \/ image' = NoFile /\ Moves("removed")
           \/ image' \in {NoFile, image} /\ Moves("idle")
    BY <1>16, AttemptMoves DEF RemoveImage, SetImage, Writes, files, Pc, RemovePc
  <2>4. TypeOK'  BY <2>1 DEF TypeOK, Moves, Budget, files, Proc, Image, Hook, Menu
  <2>5. (WithdrawOK /\ InstallOK /\ MenuNeverDangles)'
    BY <2>1 DEF WithdrawOK, InstallOK, MenuNeverDangles, HasEntry, RemovePc, Moves, files
  <2>6. UpgradeOK'
    BY <2>1 DEF UpgradeOK, Preparing, Covered, Latest, UpgradePc, UndoPc, Moves, files
  <2>7. Restorable'  BY <2>1, BackedSame DEF Restorable, WithdrawOK, HasEntry, RemovePc, files
  <2> QED  BY <2>4, <2>5, <2>6, <2>7 DEF BInv
<1>17. ASSUME RemoveDone PROVE BInv'
  <2>1. /\ proc.pc = "removed" /\ budget' \in Budget
        /\ UNCHANGED <<image, hook, grub, store, evidence>>
        /\ receipt' \in {[receipt EXCEPT !.state = "removed"], receipt} /\ Moves("idle")
    BY <1>17, AttemptMoves DEF RemoveDone, SetReceipt, Writes, files, Pc, RemovePc
  <2>2. PICK r \in Receipt : r = [receipt EXCEPT !.state = "removed"] /\ r.state = "removed"
    BY <2>1, WrittenReceipts DEF WithdrawOK, RemovePc, TypeOK
  <2>3. receipt' \in {r, receipt} /\ proc.pc = "removed" /\ budget' \in Budget /\ Moves("idle")
        /\ UNCHANGED <<image, hook, grub, store, evidence>>
    BY <2>1, <2>2
  <2>4. TypeOK'  BY <2>2, <2>3 DEF TypeOK, Moves, Budget, files
  <2>5. (WithdrawOK /\ InstallOK /\ MenuNeverDangles)'
    BY <2>2, <2>3 DEF WithdrawOK, InstallOK, MenuNeverDangles, HasEntry, RemovePc, Moves, files
  <2>6. UpgradeOK'
    BY <2>2, <2>3 DEF UpgradeOK, Preparing, Covered, Latest, UpgradePc, UndoPc, Moves, files
  <2>7. Restorable'  BY <2>2, <2>3, BackedSame DEF Restorable, files
  <2> QED  BY <2>4, <2>5, <2>6, <2>7 DEF BInv
<1>18. ASSUME UpgradeBegin PROVE BInv'
  <2>1. /\ receipt # NoFile /\ receipt.state = "installed" /\ image = receipt.image /\ Latest < MaxUpgrades /\ store = "menu"
        /\ UNCHANGED <<files, evidence, budget>>
        /\ proc' \in Proc /\ proc'.pc = "evidence" /\ proc'.verdict = "failed_no_changes" /\ proc'.seen.image = image /\ proc'.seen.receipt = receipt
    BY <1>18, UpgradeBegins DEF UpgradeBegin, At
  <2>4. TypeOK'  BY <2>1 DEF TypeOK, Budget, files
  <2>5. (WithdrawOK /\ InstallOK /\ MenuNeverDangles)'
    BY <2>1 DEF WithdrawOK, InstallOK, MenuNeverDangles, files
  <2>6. UpgradeOK'
    BY <2>1 DEF UpgradeOK, Unchanged, Preparing, Covered, Latest, UpgradePc, UndoPc, files
  <2>7. Restorable'  BY <2>1, BackedSame DEF Restorable, files
  <2> QED  BY <2>4, <2>5, <2>6, <2>7 DEF BInv
<1>19. ASSUME UpgradeEvidence PROVE BInv'
  <2>1. /\ proc.pc = "evidence" /\ budget' \in Budget
        /\ UNCHANGED files
        /\ \/ evidence' = Append(evidence, [state |-> "none", image |-> NoFile, receipt |-> NoFile]) /\ Moves("record")
           \/ evidence' = Append(evidence, [state |-> "none", image |-> NoFile, receipt |-> NoFile]) /\ Moves("idle")
           \/ evidence' = evidence /\ Moves("idle")
    BY <1>19, AttemptMoves DEF UpgradeEvidence, files, Pc, UpgradePc, UndoPc
  <2>2. Latest < MaxUpgrades /\ Latest \in Nat  BY <2>1 DEF UpgradeOK, TypeOK, Latest
  <2>3. /\ proc.pc = "evidence" /\ budget' \in Budget /\ UNCHANGED files
        /\ evidence' \in Seq(Evidence) /\ Latest' >= Latest /\ Latest' <= MaxUpgrades /\ Latest' \in Nat
        /\ \A i \in 1 .. Latest : evidence'[i] = evidence[i]
        /\ \/ Moves("record") /\ Latest' = Latest + 1 /\ evidence'[Latest'].receipt = NoFile
           \/ Moves("idle")
    <3>1. CASE evidence' = evidence /\ Moves("idle")
      BY <3>1, <2>1, <2>2, BoundsAssumption DEF Latest, TypeOK
    <3>2. CASE /\ evidence' = Append(evidence, [state |-> "none", image |-> NoFile, receipt |-> NoFile])
               /\ Moves("record") \/ Moves("idle")
      <4>1. /\ evidence' \in Seq(Evidence) /\ Latest' = Latest + 1 /\ Latest' <= MaxUpgrades
            /\ \A i \in 1 .. Latest : evidence'[i] = evidence[i]
            /\ evidence'[Latest'].receipt = NoFile
        BY <2>2, <3>2, Appended DEF Latest
      <4>2. Latest' \in Nat /\ Latest' >= Latest  BY <2>2, <4>1
      <4> QED  BY <2>1, <3>2, <4>1, <4>2
    <3> QED  BY <2>1, <3>1, <3>2
  <2>4. TypeOK'  BY <2>3 DEF TypeOK, Moves, Budget, files, Latest
  <2>5. (WithdrawOK /\ InstallOK /\ MenuNeverDangles)'
    BY <2>2, <2>3 DEF WithdrawOK, InstallOK, MenuNeverDangles, HasEntry, RemovePc, Moves, files
  <2>6. UpgradeOK'
    BY <2>2, <2>3 DEF UpgradeOK, Unchanged, Preparing, Covered, Latest, UpgradePc, UndoPc,
       Moves, files
  <2>8. Backed => Backed'
    BY <2>2, <2>3, BackedStays
  <2>7. Restorable'  BY <2>3, <2>8 DEF Restorable, files
  <2> QED  BY <2>4, <2>5, <2>6, <2>7 DEF BInv
<1>20. ASSUME UpgradeRecord PROVE BInv'
  <2>1. /\ proc.pc = "record" /\ budget' \in Budget
        /\ \/ Record("state", "preparing") /\ Moves("image_backup")
           \/ (Record("state", "preparing") \/ UNCHANGED <<files, evidence>>) /\ Moves("verdict")
    BY <1>20, AttemptMoves DEF UpgradeRecord, Pc, UpgradePc, UndoPc
  <2>2. Latest > 0 /\ Latest \in Nat
    BY <2>1 DEF UpgradeOK, UpgradePc, UndoPc, TypeOK, Latest
  <2>3. /\ UNCHANGED files
        /\ evidence' \in Seq(Evidence) /\ Len(evidence') = Latest
        /\ \A i \in 1 .. Latest : i # Latest => evidence'[i] = evidence[i]
        /\ \A f \in {"state", "image", "receipt"} \ {"state"} : evidence'[Latest][f] = evidence[Latest][f]
    BY <2>1, <2>2, Recorded DEF RecordState, Final, TypeOK, Proc, files, Latest
  <2>4. TypeOK'  BY <2>1, <2>2, <2>3 DEF TypeOK, Moves, Budget, files, Latest
  <2>5. (WithdrawOK /\ InstallOK /\ MenuNeverDangles)'
    BY <2>1, <2>2, <2>3 DEF WithdrawOK, InstallOK, MenuNeverDangles, HasEntry, RemovePc, Moves,
       files
  <2>6. UpgradeOK'
    BY <2>1, <2>2, <2>3 DEF UpgradeOK, Unchanged, Preparing, Covered, Latest, UpgradePc, UndoPc,
       Moves, files
  <2>8. Backed => Backed'
    <3>1. \A i \in 1 .. Latest : evidence'[i].image = evidence[i].image /\ evidence'[i].receipt = evidence[i].receipt
      BY <2>3
    <3> QED  BY <2>2, <2>3, <3>1, BackedStays DEF Latest
  <2>7. Restorable'  BY <2>3, <2>1, <2>8 DEF Restorable, files
  <2> QED  BY <2>4, <2>5, <2>6, <2>7 DEF BInv
<1>21. ASSUME UpgradeImageBackup PROVE BInv'
  <2>1. /\ proc.pc = "image_backup" /\ budget' \in Budget
        /\ \/ image = proc.seen.image /\ Record("image", image) /\ Moves("receipt_backup")
           \/ image = proc.seen.image /\ Record("image", image) /\ Moves("verdict")
           \/ UNCHANGED <<files, evidence>> /\ Moves("verdict")
    <3>1. CASE image = proc.seen.image /\ Attempt("image_backup", Record("image", image), "receipt_backup", "verdict")
      BY <3>1, AttemptMoves DEF Pc, UpgradePc, UndoPc
    <3>2. CASE Require("image_backup", FALSE, "receipt_backup", "verdict")
      BY <3>2, RequireMoves DEF Pc, UpgradePc, UndoPc
    <3> QED  BY <1>21, <3>1, <3>2 DEF UpgradeImageBackup
  <2>2. Latest > 0 /\ Latest \in Nat
    BY <2>1 DEF UpgradeOK, UpgradePc, UndoPc, TypeOK, Latest
  <2>3. /\ UNCHANGED files
        /\ evidence' \in Seq(Evidence) /\ Len(evidence') = Latest
        /\ \A i \in 1 .. Latest : i # Latest => evidence'[i] = evidence[i]
        /\ \A f \in {"state", "image", "receipt"} \ {"image"} : evidence'[Latest][f] = evidence[Latest][f]
    BY <2>1, <2>2, Recorded DEF RecordState, Final, TypeOK, Proc, files, Latest
  <2>4. TypeOK'  BY <2>1, <2>2, <2>3 DEF TypeOK, Moves, Budget, files, Latest
  <2>5. (WithdrawOK /\ InstallOK /\ MenuNeverDangles)'
    BY <2>1, <2>2, <2>3 DEF WithdrawOK, InstallOK, MenuNeverDangles, HasEntry, RemovePc, Moves,
       files
  <2>6. UpgradeOK'
    <3>1. Latest' = Latest  BY <2>3 DEF Latest
    <3>2. Moves("receipt_backup") => evidence'[Latest].image = proc.seen.image
      BY <2>1, <2>2, Recorded DEF TypeOK, Proc, Moves
    <3> QED
      BY <2>1, <2>2, <2>3, <3>1, <3>2 DEF UpgradeOK, Unchanged, Covered, Preparing, Moves, files,
         UpgradePc, UndoPc, Final
  <2>8. Backed => Backed'
    <3>1. \A i \in 1 .. Latest : evidence[i].receipt # NoFile => i # Latest
      BY <2>1 DEF UpgradeOK
    <3> QED  BY <2>1, <2>2, <2>3, <3>1, BackedSame, BackedStays DEF Latest
  <2>7. Restorable'  BY <2>3, <2>1, <2>8 DEF Restorable, files
  <2> QED  BY <2>4, <2>5, <2>6, <2>7 DEF BInv
<1>22. ASSUME UpgradeReceiptBackup PROVE BInv'
  <2>1. /\ proc.pc = "receipt_backup" /\ budget' \in Budget
        /\ \/ Record("receipt", proc.seen.receipt) /\ Moves("unchanged")
           \/ (Record("receipt", proc.seen.receipt) \/ UNCHANGED <<files, evidence>>) /\ Moves("verdict")
    BY <1>22, AttemptMoves DEF UpgradeReceiptBackup, Pc, UpgradePc, UndoPc
  <2>2. Latest > 0 /\ Latest \in Nat
    BY <2>1 DEF UpgradeOK, UpgradePc, UndoPc, TypeOK, Latest
  <2>3. /\ UNCHANGED files
        /\ evidence' \in Seq(Evidence) /\ Len(evidence') = Latest
        /\ \A i \in 1 .. Latest : i # Latest => evidence'[i] = evidence[i]
        /\ \A f \in {"state", "image", "receipt"} \ {"receipt"} : evidence'[Latest][f] = evidence[Latest][f]
    BY <2>1, <2>2, Recorded DEF RecordState, Final, TypeOK, Proc, files, Latest
  <2>4. TypeOK'  BY <2>1, <2>2, <2>3 DEF TypeOK, Moves, Budget, files, Latest
  <2>5. (WithdrawOK /\ InstallOK /\ MenuNeverDangles)'
    BY <2>1, <2>2, <2>3 DEF WithdrawOK, InstallOK, MenuNeverDangles, HasEntry, RemovePc, Moves,
       files
  <2>6. UpgradeOK'
    <3>1. Latest' = Latest  BY <2>3 DEF Latest
    <3>2. Moves("unchanged") => evidence'[Latest].receipt = proc.seen.receipt
      BY <2>1, <2>2, Recorded DEF TypeOK, Proc, Moves
    <3> QED
      BY <2>1, <2>2, <2>3, <3>1, <3>2 DEF UpgradeOK, Unchanged, Covered, Preparing, Moves, files,
         UpgradePc, UndoPc, Final
  <2>8. Backed => Backed'
    <3>1. \A i \in 1 .. Latest : evidence[i].receipt # NoFile => i # Latest
      BY <2>1 DEF UpgradeOK
    <3> QED  BY <2>1, <2>2, <2>3, <3>1, BackedSame, BackedStays DEF Latest
  <2>7. Restorable'  BY <2>3, <2>1, <2>8 DEF Restorable, files
  <2> QED  BY <2>4, <2>5, <2>6, <2>7 DEF BInv
<1>23. ASSUME UpgradeUnchanged PROVE BInv'
  <2>1. /\ proc.pc = "unchanged" /\ budget' \in Budget
        /\ UNCHANGED <<files, evidence>>
        /\ Moves("upgrading") \/ Moves("verdict")
    BY <1>23, RequireMoves DEF UpgradeUnchanged, Pc, UpgradePc, UndoPc
  <2>4. TypeOK'  BY <2>1 DEF TypeOK, Moves, Budget, files
  <2>5. (WithdrawOK /\ InstallOK /\ MenuNeverDangles)'
    BY <2>1 DEF WithdrawOK, InstallOK, MenuNeverDangles, HasEntry, RemovePc, Moves, files
  <2>6. UpgradeOK'
    BY <2>1 DEF UpgradeOK, Unchanged, Preparing, Covered, Latest, UpgradePc, UndoPc, Moves,
       files
  <2>7. Restorable'  BY <2>1, BackedSame DEF Restorable, files
  <2> QED  BY <2>4, <2>5, <2>6, <2>7 DEF BInv
<1>24. ASSUME UpgradeReceipt PROVE BInv'
  <2>1. /\ proc.pc = "upgrading" /\ budget' \in Budget
        /\ UNCHANGED <<image, hook, grub, store, evidence>>
        /\ \/ receipt' = [proc.seen.receipt EXCEPT !.state = "upgrading", !.upgrade = Latest] /\ Moves("replace")
           \/ receipt' \in {[proc.seen.receipt EXCEPT !.state = "upgrading", !.upgrade = Latest], receipt} /\ Moves("check")
    BY <1>24, AttemptMoves DEF UpgradeReceipt, SetReceipt, Writes, files, Pc, UpgradePc, UndoPc
  <2>2. PICK r \in Receipt : r = [proc.seen.receipt EXCEPT !.state = "upgrading", !.upgrade = Latest]
                             /\ r.state = "upgrading"
    <3>1. proc.seen.receipt \in Receipt  BY <2>1 DEF UpgradeOK, UpgradePc, TypeOK, Proc
    <3>2. Latest \in 0 .. MaxUpgrades  BY DEF Latest, TypeOK
    <3>3. \A q \in Receipt, i \in 0 .. MaxUpgrades :
             /\ [q EXCEPT !.state = "upgrading", !.upgrade = i] \in Receipt
             /\ [q EXCEPT !.state = "upgrading", !.upgrade = i].state = "upgrading"
      BY WrittenReceipts
    <3>4. /\ [proc.seen.receipt EXCEPT !.state = "upgrading", !.upgrade = Latest] \in Receipt
          /\ [proc.seen.receipt EXCEPT !.state = "upgrading", !.upgrade = Latest].state = "upgrading"
      BY <3>1, <3>2, <3>3
    <3> QED  BY <3>4
  <2>3. /\ proc.pc = "upgrading" /\ budget' \in Budget /\ UNCHANGED <<image, hook, grub, store, evidence>>
        /\ \/ receipt' = r /\ Moves("replace")
           \/ receipt' \in {r, receipt} /\ Moves("check")
    BY <2>1, <2>2
  <2>4. TypeOK'  BY <2>2, <2>3 DEF TypeOK, Moves, Budget, files
  <2>5. WithdrawOK'  BY <2>2, <2>3 DEF WithdrawOK, Moves, Judges, RemovePc
  <2>8. InstallOK'  BY <2>2, <2>3, FilesAssumption DEF InstallOK, Moves, Judges
  <2>9. MenuNeverDangles'  BY <2>2, <2>3 DEF MenuNeverDangles
  <2>6. UpgradeOK'
    BY <2>2, <2>3 DEF UpgradeOK, Preparing, Covered, Latest, UpgradePc, UndoPc, Moves, files
  <2>7. Restorable'  BY <2>2, <2>3, BackedSame, CoveredBacked DEF Restorable, Covered, files
  <2> QED  BY <2>4, <2>5, <2>6, <2>7, <2>8, <2>9 DEF BInv
<1>25. ASSUME UpgradeImage PROVE BInv'
  <2>1. /\ proc.pc = "replace" /\ budget' \in Budget
        /\ UNCHANGED <<hook, grub, store, receipt, evidence>>
        /\ \/ image' = proc.target /\ Moves("verify")
           \/ image' \in {proc.target, image} /\ Moves("check")
    BY <1>25, AttemptMoves DEF UpgradeImage, SetImage, Writes, files, Pc, UpgradePc, UndoPc
  <2>4. TypeOK'  BY <2>1 DEF TypeOK, Moves, Budget, files, Proc, Image, Hook, Menu
  <2>5. (WithdrawOK /\ InstallOK /\ MenuNeverDangles)'
    BY <2>1, FilesAssumption DEF WithdrawOK, InstallOK, MenuNeverDangles, UpgradeOK, Covered,
       Moves, files, HasEntry, RemovePc, TypeOK, Proc, Version, Latest
  <2>6. UpgradeOK'
    BY <2>1 DEF UpgradeOK, Preparing, Covered, Latest, UpgradePc, UndoPc, Moves, files
  <2>7. Restorable'  BY <2>1, BackedSame, CoveredBacked DEF Restorable, Covered, files
  <2> QED  BY <2>4, <2>5, <2>6, <2>7 DEF BInv
<1>26. ASSUME UpgradeVerify PROVE BInv'
  <2>1. /\ proc.pc = "verify" /\ budget' \in Budget
        /\ UNCHANGED <<files, evidence>>
        /\ \/ image = proc.target /\ Moves("updated")
           \/ Moves("check")
    BY <1>26, RequireMoves DEF UpgradeVerify, Pc, UpgradePc, UndoPc
  <2>4. TypeOK'  BY <2>1 DEF TypeOK, Moves, Budget, files
  <2>5. (WithdrawOK /\ InstallOK /\ MenuNeverDangles)'
    BY <2>1 DEF WithdrawOK, InstallOK, MenuNeverDangles, HasEntry, RemovePc, Moves, files
  <2>6. UpgradeOK'
    BY <2>1 DEF UpgradeOK, Preparing, Covered, Latest, UpgradePc, UndoPc, Moves, files
  <2>7. Restorable'  BY <2>1, BackedSame DEF Restorable, files
  <2> QED  BY <2>4, <2>5, <2>6, <2>7 DEF BInv
<1>27. ASSUME UpgradeCommit PROVE BInv'
  <2>1. /\ proc.pc = "updated" /\ budget' \in Budget
        /\ UNCHANGED <<image, hook, grub, store, evidence>>
        /\ \/ receipt' = [state |-> "installed", image |-> proc.target, upgrade |-> Latest] /\ Moves("complete")
           \/ receipt' \in {[state |-> "installed", image |-> proc.target, upgrade |-> Latest], receipt} /\ Moves("check")
    BY <1>27, AttemptMoves DEF UpgradeCommit, SetReceipt, Writes, files, Pc, UpgradePc, UndoPc
  <2>2. PICK r \in Receipt : r = [state |-> "installed", image |-> proc.target, upgrade |-> Latest]
                             /\ r.state = "installed" /\ r.image = proc.target
    <3>1. proc.target \in Version /\ Latest \in 0 .. MaxUpgrades
      BY BoundsAssumption DEF TypeOK, Proc, Latest
    <3>2. [state |-> "installed", image |-> proc.target, upgrade |-> Latest] \in Receipt
      BY <3>1 DEF Receipt
    <3> QED  BY <3>2
  <2>3. /\ proc.pc = "updated" /\ budget' \in Budget /\ UNCHANGED <<image, hook, grub, store, evidence>>
        /\ \/ receipt' = r /\ Moves("complete")
           \/ receipt' \in {r, receipt} /\ Moves("check")
    BY <2>1, <2>2
  <2>4. TypeOK'  BY <2>2, <2>3 DEF TypeOK, Moves, Budget, files
  <2>5. WithdrawOK'  BY <2>2, <2>3 DEF WithdrawOK, Moves, Judges, RemovePc
  <2>8. InstallOK'  BY <2>2, <2>3, FilesAssumption DEF InstallOK, Moves, Judges
  <2>9. MenuNeverDangles'  BY <2>2, <2>3 DEF MenuNeverDangles
  <2>6. UpgradeOK'
    BY <2>2, <2>3 DEF UpgradeOK, Preparing, Covered, Latest, UpgradePc, UndoPc, Moves, files
  <2>7. Restorable'  BY <2>2, <2>3, BackedSame, CoveredBacked DEF Restorable, Covered, files
  <2> QED  BY <2>4, <2>5, <2>6, <2>7, <2>8, <2>9 DEF BInv
<1>28. ASSUME UpgradeComplete PROVE BInv'
  <2>1. /\ proc.pc = "complete" /\ budget' \in Budget
        /\ \/ Record("state", "installed") /\ Moves("idle")
           \/ (Record("state", "installed") \/ UNCHANGED <<files, evidence>>) /\ Moves("check")
    BY <1>28, AttemptMoves DEF UpgradeComplete, Pc, UpgradePc, UndoPc
  <2>2. Latest > 0 /\ Latest \in Nat
    BY <2>1 DEF UpgradeOK, UpgradePc, UndoPc, TypeOK, Latest
  <2>3. /\ UNCHANGED files
        /\ evidence' \in Seq(Evidence) /\ Len(evidence') = Latest
        /\ \A i \in 1 .. Latest : i # Latest => evidence'[i] = evidence[i]
        /\ \A f \in {"state", "image", "receipt"} \ {"state"} : evidence'[Latest][f] = evidence[Latest][f]
    BY <2>1, <2>2, Recorded DEF RecordState, Final, TypeOK, Proc, files, Latest
  <2>4. TypeOK'  BY <2>1, <2>2, <2>3 DEF TypeOK, Moves, Budget, files, Latest
  <2>5. (WithdrawOK /\ InstallOK /\ MenuNeverDangles)'
    BY <2>1, <2>2, <2>3 DEF WithdrawOK, InstallOK, MenuNeverDangles, HasEntry, RemovePc, Moves,
       files
  <2>6. UpgradeOK'
    BY <2>1, <2>2, <2>3 DEF UpgradeOK, Preparing, Covered, Latest, UpgradePc, UndoPc, Moves,
       files
  <2>8. Backed => Backed'
    <3>1. \A i \in 1 .. Latest : evidence'[i].image = evidence[i].image /\ evidence'[i].receipt = evidence[i].receipt
      BY <2>3
    <3> QED  BY <2>2, <2>3, <3>1, BackedStays DEF Latest
  <2>7. Restorable'  BY <2>3, <2>1, <2>8 DEF Restorable, files
  <2> QED  BY <2>4, <2>5, <2>6, <2>7 DEF BInv
<1>29. ASSUME UndoCheck PROVE BInv'
  <2>1. /\ proc.pc = "check" /\ budget' \in Budget
        /\ UNCHANGED <<files, evidence>>
        /\ Moves("image_undo") \/ Judges("verdict", "rollback_failed")
    BY <1>29, GotoMoves, VerdictMoves DEF UndoCheck, At, TypeOK, Budget, RecordState, Pc, UndoPc
  <2>4. TypeOK'  BY <2>1 DEF TypeOK, Moves, Judges, Budget, files
  <2>5. (WithdrawOK /\ InstallOK /\ MenuNeverDangles)'
    BY <2>1 DEF WithdrawOK, InstallOK, MenuNeverDangles, HasEntry, RemovePc, Moves, Judges,
       files
  <2>6. UpgradeOK'
    BY <2>1, FilesAssumption DEF UpgradeOK, Unchanged, Preparing, Covered, Latest, UpgradePc,
       UndoPc, Final, Moves, Judges, files
  <2>7. Restorable'  BY <2>1, BackedSame DEF Restorable, files
  <2> QED  BY <2>4, <2>5, <2>6, <2>7 DEF BInv
<1>30. ASSUME UndoImage PROVE BInv'
  <2>1. /\ proc.pc = "image_undo" /\ budget' \in Budget
        /\ UNCHANGED <<hook, grub, store, receipt, evidence>>
        /\ \/ image' = evidence[Latest].image /\ Judges("receipt_undo", "failed_no_changes")
           \/ image' \in {evidence[Latest].image, image} /\ Judges("verdict", "rollback_failed")
    BY <1>30, UndoMoves DEF UndoImage, SetImage, Writes, files, RecordState, Final, Pc, UndoPc
  <2>2. evidence[Latest].image = proc.seen.image /\ proc.seen.image \in Version
    BY <2>1 DEF UpgradeOK, Covered, UndoPc, TypeOK, Proc, Receipt
  <2>4. TypeOK'  BY <2>1, <2>2 DEF TypeOK, Judges, Budget, files, Proc, Image, Hook, Menu
  <2>5. (WithdrawOK /\ InstallOK /\ MenuNeverDangles)'
    BY <2>1, <2>2, FilesAssumption DEF WithdrawOK, InstallOK, MenuNeverDangles, UpgradeOK,
       HasEntry, RemovePc, Judges, files
  <2>6. UpgradeOK'
    BY <2>1, <2>2, FilesAssumption DEF UpgradeOK, Unchanged, Preparing, Covered, Latest,
       UpgradePc, UndoPc, Final, Judges, files
  <2>7. Restorable'  BY <2>1, <2>2, BackedSame, CoveredBacked DEF Restorable, Covered, files
  <2> QED  BY <2>4, <2>5, <2>6, <2>7 DEF BInv
<1>31. ASSUME UndoReceipt PROVE BInv'
  <2>1. /\ proc.pc = "receipt_undo" /\ budget' \in Budget
        /\ UNCHANGED <<image, hook, grub, store, evidence>>
        /\ \/ receipt' = proc.seen.receipt /\ Judges("verdict", "failed_rolled_back")
           \/ receipt' \in {proc.seen.receipt, receipt} /\ Judges("verdict", "rollback_failed")
    BY <1>31, UndoMoves DEF UndoReceipt, SetReceipt, Writes, files, RecordState, Final, Pc, UndoPc
  <2>2. proc.seen.receipt \in Receipt /\ proc.seen.receipt.state = "installed"
    BY <2>1 DEF UpgradeOK, UndoPc, TypeOK, Proc
  <2>4. TypeOK'  BY <2>1, <2>2 DEF TypeOK, Judges, Budget, files
  <2>5. WithdrawOK'  BY <2>1, <2>2 DEF WithdrawOK, Moves, Judges, RemovePc
  <2>8. InstallOK'  BY <2>1, <2>2, FilesAssumption DEF InstallOK, Moves, Judges
  <2>9. MenuNeverDangles'  BY <2>1, <2>2 DEF MenuNeverDangles
  <2>6. UpgradeOK'
    BY <2>1, <2>2, FilesAssumption DEF UpgradeOK, Unchanged, Preparing, Covered, Latest,
       UpgradePc, UndoPc, Final, Judges, files
  <2>7. Restorable'  BY <2>1, <2>2, BackedSame, CoveredBacked DEF Restorable, Covered, files
  <2> QED  BY <2>4, <2>5, <2>6, <2>7, <2>8, <2>9 DEF BInv
<1>32. ASSUME UndoVerdict PROVE BInv'
  <2>1. /\ proc.pc = "verdict" /\ budget' \in Budget
        /\ Record("state", proc.verdict) \/ UNCHANGED <<files, evidence>>
        /\ Moves("idle")
    <3>1. Attempt("verdict", Record("state", proc.verdict), "idle", "idle")
      BY <1>32 DEF UndoVerdict
    <3>2. /\ proc.pc = "verdict" /\ budget' \in Budget
          /\ \/ Record("state", proc.verdict) /\ Moves("idle")
             \/ (Record("state", proc.verdict) \/ UNCHANGED <<files, evidence>>) /\ Moves("idle")
      BY <3>1, AttemptMoves DEF Pc, UndoPc
    <3> QED  BY <3>2
  <2>2. Latest > 0 /\ Latest \in Nat
    BY <2>1 DEF UpgradeOK, UpgradePc, UndoPc, TypeOK, Latest
  <2>3. /\ UNCHANGED files
        /\ evidence' \in Seq(Evidence) /\ Len(evidence') = Latest
        /\ \A i \in 1 .. Latest : i # Latest => evidence'[i] = evidence[i]
        /\ \A f \in {"state", "image", "receipt"} \ {"state"} : evidence'[Latest][f] = evidence[Latest][f]
    BY <2>1, <2>2, Recorded DEF RecordState, Final, TypeOK, Proc, files, Latest
  <2>4. TypeOK'  BY <2>1, <2>2, <2>3 DEF TypeOK, Moves, Budget, files, Latest
  <2>5. (WithdrawOK /\ InstallOK /\ MenuNeverDangles)'
    BY <2>1, <2>2, <2>3 DEF WithdrawOK, InstallOK, MenuNeverDangles, HasEntry, RemovePc, Moves,
       files
  <2>6. UpgradeOK'
    BY <2>1, <2>2, <2>3 DEF UpgradeOK, Preparing, Covered, Latest, UpgradePc, UndoPc, Moves,
       files
  <2>8. Backed => Backed'
    <3>1. \A i \in 1 .. Latest : evidence'[i].image = evidence[i].image /\ evidence'[i].receipt = evidence[i].receipt
      BY <2>3
    <3> QED  BY <2>2, <2>3, <3>1, BackedStays DEF Latest
  <2>7. Restorable'  BY <2>3, <2>1, <2>8 DEF Restorable, files
  <2> QED  BY <2>4, <2>5, <2>6, <2>7 DEF BInv
<1>33. ASSUME Crash PROVE BInv'
  <2>2. budget' \in Budget
    <3>1. budget \in Budget /\ budget.crashes > 0 /\ budget' = [budget EXCEPT !.crashes = @ - 1]
      BY <1>33 DEF Crash, TypeOK, Budget
    <3>2. budget.crashes - 1 \in 0 .. MaxCrashes  BY <3>1, BoundsAssumption DEF Budget
    <3> QED  BY <3>1, <3>2 DEF Budget
  <2>3. UNCHANGED <<files, evidence>> /\ Goto("idle")  BY <1>33 DEF Crash
  <2>1. UNCHANGED <<files, evidence>> /\ budget' \in Budget /\ Moves("idle")
    BY <2>2, <2>3, GotoMoves DEF Pc
  <2>4. TypeOK'  BY <2>1 DEF TypeOK, Moves, Budget, files
  <2>5. (WithdrawOK /\ InstallOK /\ MenuNeverDangles)'
    BY <2>1 DEF WithdrawOK, InstallOK, MenuNeverDangles, HasEntry, RemovePc, Moves, files
  <2>6. UpgradeOK'
    BY <2>1 DEF UpgradeOK, Preparing, Covered, Latest, UpgradePc, UndoPc, Moves, files
  <2>7. Restorable'  BY <2>1, BackedSame DEF Restorable, files
  <2> QED  BY <2>4, <2>5, <2>6, <2>7 DEF BInv
<1>34. ASSUME UpdateGrub PROVE BInv'
  <2>1. /\ UNCHANGED <<image, hook, store, receipt, evidence, proc, budget>>
        /\ grub' \in Menu
        /\ HasEntry(grub') => proc.pc = "idle" /\ hook = "ours"
        /\ proc.pc # "idle" => grub' = "raced"
    <3>1. UNCHANGED <<image, hook, store, receipt, evidence, proc, budget>>  BY <1>34 DEF UpdateGrub
    <3>2. \/ (proc.pc # "idle" \/ hook = Foreign) /\ grub' = "raced"
          \/ proc.pc = "idle" /\ hook = "ours" /\ grub' \in {"protected", "updated"}
          \/ proc.pc = "idle" /\ grub' = "original"
      BY <1>34 DEF UpdateGrub, At
    <3> QED  BY <3>1, <3>2 DEF Menu, HasEntry
  <2>4. TypeOK'  BY <2>1 DEF TypeOK, Budget
  <2>5. (WithdrawOK /\ InstallOK /\ MenuNeverDangles)'
    BY <2>1 DEF WithdrawOK, InstallOK, MenuNeverDangles
  <2>6. UpgradeOK'  BY <2>1 DEF UpgradeOK, Unchanged, Latest
  <2>7. Restorable'  BY <2>1, BackedSame DEF Restorable
  <2> QED  BY <2>4, <2>5, <2>6, <2>7 DEF BInv
<1>35. ASSUME Edit PROVE BInv'
  <2>1. /\ UNCHANGED <<grub, store, receipt, evidence, proc>> /\ budget' \in Budget
        /\ \/ image # NoFile /\ image' = Foreign /\ hook' = hook
           \/ hook # NoFile /\ hook' = Foreign /\ image' = image
    <3>1. budget \in Budget /\ budget.edits > 0 /\ budget' = [budget EXCEPT !.edits = @ - 1]
      BY <1>35 DEF Edit, TypeOK, Budget
    <3>2. budget.edits - 1 \in 0 .. MaxEdits  BY <3>1, BoundsAssumption DEF Budget
    <3>3. budget' \in Budget  BY <3>1, <3>2 DEF Budget
    <3> QED  BY <1>35, <3>3 DEF Edit
  <2>4. TypeOK'  BY <2>1 DEF TypeOK, Budget, Proc, Image, Hook, Menu
  <2>5. (WithdrawOK /\ InstallOK /\ MenuNeverDangles)'
    BY <2>1, FilesAssumption DEF WithdrawOK, InstallOK, MenuNeverDangles, HasEntry, TypeOK, Proc
  <2>6. UpgradeOK'  BY <2>1 DEF UpgradeOK, Unchanged, Latest
  <2>7. Restorable'  BY <2>1, BackedSame, FilesAssumption DEF Restorable, InstallOK
  <2> QED  BY <2>4, <2>5, <2>6, <2>7 DEF BInv
<1>36. CASE UNCHANGED vars
  <2>1. UNCHANGED <<image, hook, grub, store, receipt, evidence, proc, budget>>
    BY <1>36 DEF vars, files
  <2>2. TypeOK' /\ UpgradeOK'  BY <2>1 DEF TypeOK, UpgradeOK, Unchanged, Latest
  <2>3. (WithdrawOK /\ InstallOK /\ MenuNeverDangles)'
    BY <2>1 DEF WithdrawOK, InstallOK, MenuNeverDangles
  <2>4. Restorable'  BY <2>1, BackedSame DEF Restorable
  <2> QED  BY <2>2, <2>3, <2>4 DEF BInv
<1>37. CASE Install
  BY <1>37, <1>1, <1>2, <1>3, <1>4, <1>5, <1>6, <1>7, <1>8, <1>9, <1>10, <1>11, <1>12 DEF Install
<1>38. CASE Remove
  BY <1>38, <1>13, <1>14, <1>15, <1>16, <1>17 DEF Remove
<1>39. CASE Upgrade
  BY <1>39, <1>18, <1>19, <1>20, <1>21, <1>22, <1>23, <1>24, <1>25, <1>26, <1>27, <1>28, <1>29,
     <1>30, <1>31, <1>32 DEF Upgrade
<1> QED  BY <1>33, <1>34, <1>35, <1>36, <1>37, <1>38, <1>39 DEF Next

LEMMA BootInit == Init => BInv
<1> SUFFICES ASSUME Init PROVE BInv  OBVIOUS
<1>1. /\ image = NoFile /\ hook = NoFile /\ grub = "original" /\ store = "absent"
      /\ receipt = NoFile /\ evidence = <<>> /\ proc.pc = "idle" /\ proc.verdict = "none"
  BY DEF Init
<1>2. proc \in Proc
  <2>1. Snapshot \in [image : Image, hook : Hook, grub : Menu, receipt : Receipt \cup {NoFile}]
    BY <1>1 DEF Snapshot, Image, Hook, Menu
  <2>2. proc = [pc |-> "idle", target |-> 1, seen |-> Snapshot, verdict |-> "none"]  BY DEF Init
  <2>3. 1 \in Version /\ "none" \in RecordState  BY BoundsAssumption DEF Version, RecordState
  <2> QED  BY <2>1, <2>2, <2>3 DEF Proc
<1>3. budget \in Budget  BY BoundsAssumption DEF Init, Budget
<1>4. evidence \in Seq(Evidence) /\ Len(evidence) <= MaxUpgrades  BY <1>1, BoundsAssumption
<1>5. TypeOK  BY <1>1, <1>2, <1>3, <1>4 DEF TypeOK, Image, Hook, Menu, Budget
<1>6. WithdrawOK /\ InstallOK /\ UpgradeOK
  BY <1>1 DEF WithdrawOK, InstallOK, UpgradeOK, Preparing, Covered, RemovePc, UpgradePc, UndoPc
<1>7. MenuNeverDangles /\ Restorable
  BY <1>1, FilesAssumption DEF MenuNeverDangles, Restorable, HasEntry
<1> QED  BY <1>5, <1>6, <1>7 DEF BInv

LEMMA BootInvariance == Spec => []BInv
BY BootInit, BootStep, PTL DEF Spec

-----------------------------------------------------------------------------
(* What follows. *)

\* Values of every file, receipt and evidence directory.
THEOREM BootTypeOK == Spec => []TypeOK
<1>1. BInv => TypeOK  BY DEF BInv
<1> QED  BY <1>1, BootInvariance, PTL

\* Whatever step of install(), its cleanup or rollback() is cut short, neither the menu
\* nor the hook of the next grub-mkconfig names an image that is gone.
THEOREM BootMenuNeverDangles == Spec => []MenuNeverDangles
<1>1. BInv => MenuNeverDangles  BY DEF BInv
<1> QED  BY <1>1, BootInvariance, PTL

\* An upgrade that is cut short leaves the old image with its receipt in an evidence
\* directory, from before the first write until both agree again.
THEOREM BootRestorable == Spec => []Restorable
<1>1. BInv => Restorable  BY DEF BInv
<1> QED  BY <1>1, BootInvariance, PTL

\* What upgrade() records when it ends is what it left behind.
THEOREM BootRecordsTellTheTruth == Spec => RecordsTellTheTruth
<1> DEFINE Truth ==
      \A i \in 1 .. Latest :
          evidence'[i].state # evidence[i].state /\ evidence'[i].state \in Final =>
              LET expected == IF evidence'[i].state = "installed"
                              THEN [state |-> "installed", image |-> proc.target, upgrade |-> i]
                              ELSE proc.seen.receipt
              IN  /\ receipt = expected
                  /\ image \in {expected.image, Foreign}
<1>1. BInv /\ [Next]_vars => [Truth]_vars
  <2> SUFFICES ASSUME BInv, Next, NEW i \in 1 .. Latest,
                      evidence'[i].state # evidence[i].state, evidence'[i].state \in Final
               PROVE  LET expected == IF evidence'[i].state = "installed"
                                      THEN [state |-> "installed", image |-> proc.target, upgrade |-> i]
                                      ELSE proc.seen.receipt
                      IN  /\ receipt = expected
                          /\ image \in {expected.image, Foreign}
    OBVIOUS
  <2> TypeOK /\ UpgradeOK  BY DEF BInv
  <2>1. Latest \in Nat /\ Latest > 0  BY DEF TypeOK, Latest
  <2>2. CASE UpgradeEvidence
    <3>1. /\ proc.pc = "evidence"
          /\ \/ evidence' = evidence
             \/ evidence' = Append(evidence, [state |-> "none", image |-> NoFile, receipt |-> NoFile])
      BY <2>2, AttemptMoves DEF UpgradeEvidence, Pc, UpgradePc
    <3>2. Latest < MaxUpgrades  BY <3>1 DEF UpgradeOK
    <3>3. evidence'[i] = evidence[i]  BY <3>1, <3>2, Appended
    <3> QED  BY <3>3
  <2>3. CASE UpgradeRecord
    <3>1. Record("state", "preparing") \/ evidence' = evidence
      BY <2>3, AttemptMoves DEF UpgradeRecord, Pc, UpgradePc, UndoPc
    <3>2. evidence'[i] = evidence[i] \/ evidence'[i].state = "preparing"
      BY <3>1, <2>1, Recorded DEF RecordState
    <3> QED  BY <3>2 DEF Final
  <2>4. CASE UpgradeImageBackup \/ UpgradeReceiptBackup
    <3>1. \/ Record("image", image) \/ Record("receipt", proc.seen.receipt) \/ evidence' = evidence
      <4>1. CASE UpgradeReceiptBackup
        BY <4>1, AttemptMoves DEF UpgradeReceiptBackup, Pc, UpgradePc, UndoPc
      <4>2. CASE Attempt("image_backup", Record("image", image), "receipt_backup", "verdict")
        BY <4>2, AttemptMoves DEF Pc, UpgradePc, UndoPc
      <4>3. CASE Require("image_backup", FALSE, "receipt_backup", "verdict")
        BY <4>3, RequireMoves DEF Pc, UpgradePc, UndoPc
      <4> QED  BY <2>4, <4>1, <4>2, <4>3 DEF UpgradeImageBackup
    <3>2. evidence'[i].state = evidence[i].state
      <4>1. image \in Image /\ proc.seen.receipt \in Receipt \cup {NoFile}  BY DEF TypeOK, Proc
      <4> QED  BY <3>1, <4>1, <2>1, Recorded
    <3> QED  BY <3>2
  <2>5. CASE UpgradeComplete
    <3>1. proc.pc = "complete" /\ (Record("state", "installed") \/ evidence' = evidence)
      BY <2>5, AttemptMoves DEF UpgradeComplete, Pc, UpgradePc, UndoPc
    <3>2. i = Latest /\ evidence'[i].state = "installed"
      BY <3>1, <2>1, Recorded DEF RecordState, Final
    <3>3. /\ receipt = [state |-> "installed", image |-> proc.target, upgrade |-> Latest]
          /\ image \in {proc.target, Foreign}
      BY <3>1 DEF UpgradeOK
    <3> QED  BY <3>2, <3>3
  <2>6. CASE UndoVerdict
    <3>1. Attempt("verdict", Record("state", proc.verdict), "idle", "idle")  BY <2>6 DEF UndoVerdict
    <3>2. proc.pc = "verdict" /\ (Record("state", proc.verdict) \/ evidence' = evidence)
      BY <3>1, AttemptMoves DEF Pc
    <3>3. proc.verdict \in RecordState  BY DEF TypeOK, Proc
    <3>4. i = Latest /\ evidence'[i].state = proc.verdict
      BY <3>2, <3>3, <2>1, Recorded
    <3>5. proc.verdict # "installed" /\ Unchanged /\ proc.seen.image = proc.seen.receipt.image
      BY <3>2, <3>4 DEF UpgradeOK, UndoPc
    <3> QED  BY <3>4, <3>5 DEF Unchanged
  <2>7. evidence' = evidence \/ UpgradeEvidence \/ UpgradeRecord \/ UpgradeImageBackup
        \/ UpgradeReceiptBackup \/ UpgradeComplete \/ UndoVerdict
    <3>1. ASSUME Install PROVE evidence' = evidence
      BY <3>1 DEF Install, InstallBegin, InstallMenuBackup, InstallReceipt, InstallImage, InstallHook,
         InstallGenerate, InstallGrub, InstallDone, CleanupMenu, CleanupHook, CleanupImage, CleanupReceipt,
         Attempt, Require, SetStore, SetReceipt, SetImage, SetHook, SetGrub, Writes
    <3>2. ASSUME Remove PROVE evidence' = evidence
      BY <3>2 DEF Remove, RemoveBegin, RemoveEntry, RemoveHook, RemoveImage, RemoveDone,
         Attempt, SetReceipt, SetImage, SetHook, SetGrub, Writes
    <3>3. ASSUME UpgradeBegin \/ UpgradeUnchanged \/ UpgradeReceipt \/ UpgradeImage \/ UpgradeVerify
                 \/ UpgradeCommit \/ UndoCheck \/ UndoImage \/ UndoReceipt
          PROVE  evidence' = evidence
      BY <3>3 DEF UpgradeBegin, UpgradeUnchanged, UpgradeReceipt, UpgradeImage, UpgradeVerify,
         UpgradeCommit, UndoCheck, UndoImage, UndoReceipt, Attempt, Require, Undo, SetReceipt, SetImage, Writes
    <3>4. ASSUME Crash \/ UpdateGrub \/ Edit PROVE evidence' = evidence
      BY <3>4 DEF Crash, UpdateGrub, Edit
    <3> QED  BY <3>1, <3>2, <3>3, <3>4 DEF Next, Upgrade
  <2> QED  BY <2>2, <2>3, <2>4, <2>5, <2>6, <2>7
<1> QED  BY <1>1, BootInvariance, PTL DEF Spec, RecordsTellTheTruth
=============================================================================
