---------------------------- MODULE EfiMount_proofs ----------------------------
(***************************************************************************)
(* The EFI mount integration, for any number of steps that raise, deaths and edits.   *)
(* A record is written before what it promises to withdraw; that a mount comes back    *)
(* holds beside a removal too, the rest as long as none has run beside an installation.   *)
(***************************************************************************)
EXTENDS EfiMount, TLAPS

-----------------------------------------------------------------------------
(* The mount. *)

\* Once the record was begun, the mount is stopped only between a stop and the start
\* that follows it whatever happened, or after a death.
MountInv ==
    /\ pc[Install] # "idle" => record # "none"
    /\ record = "none" => mount # "stopped"
    /\ pc[Install] \notin {"idle", "start", "start_raise"} => mount # "stopped"

-----------------------------------------------------------------------------
(* As long as no removal has run beside an installation. *)

\* The steps of an installation from the point where its three files were written.
Written == {"reload", "stop", "start", "start_raise", "cached", "enable", "confirm", "installed"}

Alone == \/ pc[Install] = "idle"
         \/ pc[Remove] = "idle"

\* What the record says at each step of a command.
RecordOK ==
    /\ pc[Install] # "pending"
    /\ pc[Remove] \in WithdrawPc \cup {"idle"}
    /\ pc[Install] = "record" => record = "directory"
    /\ pc[Install] \in {"rule", "path", "dropin"} \cup Written => record = "preparing"
    /\ pc[Install] = "rollback" => record \in {"preparing", "installed"}
    /\ pc[Install] \in WithdrawPc => record = "failed_pending_reload"
    /\ pc[Remove] = "pending" => record \in Pending \cup {"installed"}
    /\ pc[Remove] \in WithdrawPc \ {"pending"} => record = "removal_pending_reload"

Absent(fs) == \A f \in fs : file[f] = "none"
Loaded     == file["dropin"] = "ours" => dropinLoaded

\* What an installation has written by the step it is at.
BuiltOK ==
    /\ pc[Install] \in {"path", "dropin"} \cup Written => file["rule"] # "none"
    /\ pc[Install] \in {"dropin"} \cup Written => file["path"] # "none"
    /\ pc[Install] \in Written => file["dropin"] # "none"
    /\ pc[Install] \in {"confirm", "installed"} => file["link"] # "none"
    /\ pc[Install] \in {"enable", "confirm", "installed"} => Loaded

\* What a withdrawal has taken away by the step it is at.
TakenOK ==
    \A c \in Command :
        /\ pc[c] \in {"w_link", "w_rule", "w_path", "w_dropin", "w_reload", "final"} => ~ monitor
        /\ pc[c] \in {"w_rule", "w_path", "w_dropin", "w_reload", "final"} => file["link"] = "none"
        /\ pc[c] \in {"w_path", "w_dropin", "w_reload", "final"} => file["rule"] = "none"
        /\ pc[c] \in {"w_dropin", "w_reload", "final"} => file["path"] = "none"
        /\ pc[c] \in {"w_reload", "final"} => file["dropin"] = "none"
        /\ pc[c] = "final" => ~ dropinLoaded

\* What each record says of the files and of systemd.
StateOK ==
    /\ record \in {"none", "directory"} => Absent(Files)
    /\ record = "installed" => Loaded /\ \A f \in Files : file[f] # "none"
    /\ record \in {"removed", "failed_removed"} => Absent(Files) /\ ~ dropinLoaded /\ ~ monitor
    /\ file["path"] = "none" => ~ monitor

EAlone == Alone /\ RecordOK /\ BuiltOK /\ TakenOK /\ StateOK
EInv   == TypeOK /\ (beside \/ EAlone)

-----------------------------------------------------------------------------
(* Types, and the mount: for commands that run together too. *)

\* A reload leaves systemd with the drop-in or without it.
LEMMA ReloadTypes ==
  ASSUME Reloads
  PROVE  dropinLoaded' \in BOOLEAN
BY DEF Reloads

\* Whether another command runs is known when one starts.
LEMMA BeginsTypes ==
  ASSUME NEW c, NEW at, Begins(c, at)
  PROVE  beside' \in BOOLEAN
BY DEF Begins

LEMMA EfiTypes ==
  ASSUME TypeOK, [Next]_vars
  PROVE  TypeOK'
<1> USE BoundsAssumption
    DEF TypeOK, Install, Remove, Command, Files, Pending, State, InstallPc, WithdrawPc, disk, live,
        Attempt, Require, Fault, Goto
<1>1. ASSUME InstallStep PROVE TypeOK'
  <2>1. CASE InstallBegin
    <3>1. beside' \in BOOLEAN
      BY <2>1, BeginsTypes DEF InstallBegin
    <3> QED BY <2>1, <3>1 DEF InstallBegin, Begins
  <2>2. CASE InstallRecord  BY <2>2 DEF InstallRecord, SetRecord
  <2>3. CASE InstallRule  BY <2>3 DEF InstallRule, SetFile
  <2>4. CASE InstallPath  BY <2>4 DEF InstallPath, SetFile
  <2>5. CASE InstallDropin  BY <2>5 DEF InstallDropin, SetFile
  <2>6. CASE InstallReload  BY <2>6, ReloadTypes DEF InstallReload
  <2>7. CASE InstallStop  BY <2>7 DEF InstallStop
  <2>8. CASE InstallStart  BY <2>8 DEF InstallStart, Mounts
  <2>9. CASE InstallCached  BY <2>9 DEF InstallCached
  <2>10. CASE InstallEnable
    <3>1. UNCHANGED <<live, file>> \/ (monitor' = TRUE /\ UNCHANGED <<dropinLoaded, mount>>)
      BY <2>10 DEF InstallEnable
    <3>2. dropinLoaded' \in BOOLEAN /\ monitor' \in BOOLEAN /\ mount' \in {"mounted", "stopped", "failed"}
      BY <3>1, Zenon DEF live, TypeOK
    <3> QED  BY <2>10, <3>2 DEF InstallEnable
  <2>11. CASE InstallConfirm  BY <2>11 DEF InstallConfirm
  <2>12. CASE InstallDone  BY <2>12 DEF InstallDone, SetRecord
  <2>13. CASE InstallRollback  BY <2>13 DEF InstallRollback, SetRecord
  <2> QED  BY <1>1, <2>1, <2>2, <2>3, <2>4, <2>5, <2>6, <2>7, <2>8, <2>9, <2>10, <2>11, <2>12, <2>13 DEF InstallStep
<1>2. ASSUME RemoveBegin \/ RemovePending PROVE TypeOK'
  <2>1. CASE RemoveBegin
    <3>1. beside' \in BOOLEAN
      BY <2>1, BeginsTypes DEF RemoveBegin
    <3> QED BY <2>1, <3>1 DEF RemoveBegin, Begins
  <2>2. CASE RemovePending
    BY <2>2 DEF RemovePending, SetRecord
  <2> QED BY <1>2, <2>1, <2>2
<1>3. ASSUME NEW c \in Command, Withdraw(c) PROVE TypeOK'
  <2>1. CASE WithdrawVerify(c)  BY <2>1 DEF WithdrawVerify
  <2>2. CASE WithdrawStop(c)
    <3>1. \/ UNCHANGED <<dropinLoaded, monitor, mount>>
          \/ Reloads /\ monitor' = FALSE /\ UNCHANGED mount
      BY <2>2 DEF WithdrawStop
    <3>2. dropinLoaded' \in BOOLEAN /\ monitor' \in BOOLEAN /\ mount' \in {"mounted", "stopped", "failed"}
      BY <3>1, ReloadTypes, Zenon DEF TypeOK
    <3> QED  BY <2>2, <3>2 DEF WithdrawStop
  <2>3. CASE WithdrawLink(c)  BY <2>3 DEF WithdrawLink, SetFile
  <2>4. CASE WithdrawRule(c)  BY <2>4 DEF WithdrawRule, SetFile
  <2>5. CASE WithdrawPath(c)  BY <2>5 DEF WithdrawPath, SetFile
  <2>6. CASE WithdrawDropin(c)  BY <2>6 DEF WithdrawDropin, SetFile
  <2>7. CASE WithdrawReload(c)  BY <2>7, ReloadTypes DEF WithdrawReload
  <2>8. CASE WithdrawFinal(c)  BY <2>8 DEF WithdrawFinal, SetRecord
  <2> QED  BY <1>3, <2>1, <2>2, <2>3, <2>4, <2>5, <2>6, <2>7, <2>8 DEF Withdraw
<1>4. ASSUME Crash \/ Reboot \/ Edit PROVE TypeOK'
  <2>1. CASE Crash  BY <2>1 DEF Crash
  <2>2. CASE Reboot  BY <2>2 DEF Reboot, Reloads
  <2>3. CASE Edit  BY <2>3 DEF Edit
  <2> QED  BY <1>4, <2>1, <2>2, <2>3
<1>5. CASE UNCHANGED vars
  BY <1>5 DEF vars
<1> QED  BY <1>1, <1>2, <1>3, <1>4, <1>5 DEF Next

LEMMA MountStep ==
  ASSUME TypeOK, MountInv, [Next]_vars
  PROVE  MountInv'
<1> USE DEF TypeOK, MountInv, Install, Remove, Command, disk, live, Attempt, Require, Fault, Goto
<1>1. ASSUME InstallStep PROVE MountInv'
  <2>1. CASE InstallBegin  BY <2>1 DEF InstallBegin, Begins
  <2>2. CASE InstallRecord  BY <2>2 DEF InstallRecord, SetRecord
  <2>3. CASE InstallRule  BY <2>3 DEF InstallRule, SetFile
  <2>4. CASE InstallPath  BY <2>4 DEF InstallPath, SetFile
  <2>5. CASE InstallDropin  BY <2>5 DEF InstallDropin, SetFile
  <2>6. CASE InstallReload  BY <2>6 DEF InstallReload, Reloads
  <2>7. CASE InstallStop  BY <2>7 DEF InstallStop
  <2>8. CASE InstallStart  BY <2>8 DEF InstallStart, Mounts
  <2>9. CASE InstallCached  BY <2>9 DEF InstallCached
  <2>10. CASE InstallEnable  BY <2>10 DEF InstallEnable
  <2>11. CASE InstallConfirm  BY <2>11 DEF InstallConfirm
  <2>12. CASE InstallDone  BY <2>12 DEF InstallDone, SetRecord
  <2>13. CASE InstallRollback  BY <2>13 DEF InstallRollback, SetRecord
  <2> QED  BY <1>1, <2>1, <2>2, <2>3, <2>4, <2>5, <2>6, <2>7, <2>8, <2>9, <2>10, <2>11, <2>12, <2>13 DEF InstallStep
<1>2. ASSUME RemoveBegin \/ RemovePending PROVE MountInv'
  BY <1>2 DEF RemoveBegin, Begins, RemovePending, SetRecord
<1>3. ASSUME NEW c \in Command, Withdraw(c) PROVE MountInv'
  BY <1>3 DEF Withdraw, WithdrawVerify, WithdrawStop, WithdrawLink, WithdrawRule, WithdrawPath,
     WithdrawDropin, WithdrawReload, WithdrawFinal, SetRecord, SetFile, Reloads
<1>4. ASSUME Crash \/ Reboot \/ Edit PROVE MountInv'
  BY <1>4 DEF Crash, Reboot, Edit, Reloads
<1>5. CASE UNCHANGED vars
  BY <1>5 DEF vars
<1> QED  BY <1>1, <1>2, <1>3, <1>4, <1>5 DEF Next

\* The state of a boot in which nothing was installed.
LEMMA EfiInit ==
  ASSUME Init
  PROVE  TypeOK /\ MountInv /\ EInv
<1> USE BoundsAssumption
    DEF Init, Install, Remove, Command, Files, Pending, State, InstallPc, WithdrawPc
<1>1. MaxFaults \in Nat /\ MaxCrashes \in Nat /\ MaxEdits \in Nat  OBVIOUS
<1>5. budget \in [faults : 0 .. MaxFaults, crashes : 0 .. MaxCrashes, edits : 0 .. MaxEdits]
  BY <1>1
<1>6. file \in [Files -> {"none", "ours", "edited"}] /\ record \in State
      /\ pc \in [Command -> {"idle"} \cup InstallPc \cup WithdrawPc]
  OBVIOUS
<1>7. dropinLoaded \in BOOLEAN /\ monitor \in BOOLEAN /\ mount \in {"mounted", "stopped", "failed"}
  OBVIOUS
<1>8. TypeOK  BY <1>5, <1>6, <1>7 DEF TypeOK
<1>2. MountInv /\ Alone /\ RecordOK  BY DEF MountInv, Alone, RecordOK, Written
<1>3. BuiltOK /\ TakenOK  BY DEF BuiltOK, TakenOK, Written
<1>4. StateOK  BY DEF StateOK, Absent, Loaded
<1> QED  BY <1>2, <1>3, <1>4, <1>8 DEF EInv, EAlone

\* Values of the files, the record and the mount, whether or not two commands run at once.
THEOREM EfiTypeOK == Spec => []TypeOK
<1>1. Init => TypeOK  BY EfiInit
<1>2. TypeOK /\ [Next]_vars => TypeOK'  BY EfiTypes
<1> QED  BY <1>1, <1>2, PTL DEF Spec

\* An installation that ends without having been killed leaves the mount mounted or
\* asked for, whether or not a removal runs with it (reset_fsck_cache's finally).
THEOREM EfiMountComesBack == Spec => MountComesBack
<1>1. Init => MountInv  BY EfiInit
<1>2. TypeOK /\ MountInv /\ [Next]_vars => MountInv'  BY MountStep
<1>3. TypeOK /\ MountInv /\ [Next]_vars =>
        [pc[Install] # "idle" /\ pc'[Install] = "idle" /\ budget'.crashes = budget.crashes =>
            mount' # "stopped"]_vars
  <2> SUFFICES ASSUME TypeOK, MountInv, Next,
                      pc[Install] # "idle", pc'[Install] = "idle", budget'.crashes = budget.crashes
               PROVE  mount' # "stopped"
    OBVIOUS
  <2> USE DEF TypeOK, MountInv, Install, Remove, Command, disk, live, Attempt, Require, Fault, Goto
  <2>1. CASE InstallStep
    BY <2>1 DEF InstallStep, InstallBegin, InstallRecord, InstallRule, InstallPath, InstallDropin,
       InstallReload, InstallStop, InstallStart, InstallCached, InstallEnable, InstallConfirm,
       InstallDone, InstallRollback, Begins, SetRecord, SetFile, Reloads, Mounts
  <2>2. CASE RemoveBegin \/ RemovePending
    BY <2>2 DEF RemoveBegin, Begins, RemovePending, SetRecord
  <2>3. ASSUME NEW c \in Command, Withdraw(c) PROVE mount' # "stopped"
    BY <2>3 DEF Withdraw, WithdrawVerify, WithdrawStop, WithdrawLink, WithdrawRule, WithdrawPath,
       WithdrawDropin, WithdrawReload, WithdrawFinal, SetRecord, SetFile, Reloads
  <2>4. CASE Crash \/ Reboot \/ Edit
    BY <2>4, BoundsAssumption DEF Crash, Reboot, Edit, Reloads
  <2> QED  BY <2>1, <2>2, <2>3, <2>4 DEF Next
<1> QED  BY <1>1, <1>2, <1>3, EfiTypeOK, PTL DEF Spec, MountComesBack

-----------------------------------------------------------------------------
(* The record, the files and systemd. *)

LEMMA AloneStep ==
  ASSUME TypeOK, TypeOK', EAlone, [Next]_vars, ~ beside'
  PROVE  EAlone'
<1> USE DEF EAlone, Alone, RecordOK, BuiltOK, TakenOK, StateOK, Absent, Loaded, Written, TypeOK,
            Install, Remove, Command, Files, Pending, State, InstallPc, WithdrawPc, disk, live,
            Attempt, Require, Fault, Goto
<1>1. ASSUME InstallStep PROVE EAlone'
  <2>1. CASE InstallBegin  BY <2>1 DEF InstallBegin, Begins
  <2>2. CASE InstallRecord  BY <2>2 DEF InstallRecord, SetRecord
  <2>3. CASE InstallRule  BY <2>3 DEF InstallRule, SetFile
  <2>4. CASE InstallPath  BY <2>4 DEF InstallPath, SetFile
  <2>5. CASE InstallDropin  BY <2>5 DEF InstallDropin, SetFile
  <2>6. CASE InstallReload  BY <2>6 DEF InstallReload, Reloads
  <2>7. CASE InstallStop  BY <2>7 DEF InstallStop
  <2>8. CASE InstallStart  BY <2>8 DEF InstallStart, Mounts
  <2>9. CASE InstallCached  BY <2>9 DEF InstallCached
  <2>10. CASE InstallEnable  BY <2>10 DEF InstallEnable
  <2>11. CASE InstallConfirm  BY <2>11 DEF InstallConfirm
  <2>12. CASE InstallDone  BY <2>12 DEF InstallDone, SetRecord
  <2>13. CASE InstallRollback  BY <2>13 DEF InstallRollback, SetRecord
  <2> QED  BY <1>1, <2>1, <2>2, <2>3, <2>4, <2>5, <2>6, <2>7, <2>8, <2>9, <2>10, <2>11, <2>12, <2>13 DEF InstallStep
<1>2. CASE RemoveBegin  BY <1>2 DEF RemoveBegin, Begins, CanRemove
<1>3. CASE RemovePending  BY <1>3 DEF RemovePending, SetRecord
<1>4. ASSUME NEW c \in Command, Withdraw(c) PROVE EAlone'
  <2>1. CASE WithdrawVerify(c)  BY <2>1 DEF WithdrawVerify
  <2>2. CASE WithdrawStop(c)  BY <2>2 DEF WithdrawStop, Reloads
  <2>3. CASE WithdrawLink(c)  BY <2>3 DEF WithdrawLink, SetFile
  <2>4. CASE WithdrawRule(c)  BY <2>4 DEF WithdrawRule, SetFile
  <2>5. CASE WithdrawPath(c)  BY <2>5 DEF WithdrawPath, SetFile
  <2>6. CASE WithdrawDropin(c)  BY <2>6 DEF WithdrawDropin, SetFile
  <2>7. CASE WithdrawReload(c)  BY <2>7 DEF WithdrawReload, Reloads
  <2>8. CASE WithdrawFinal(c)  BY <2>8 DEF WithdrawFinal, SetRecord
  <2> QED  BY <1>4, <2>1, <2>2, <2>3, <2>4, <2>5, <2>6, <2>7, <2>8 DEF Withdraw
<1>5. CASE Crash  BY <1>5 DEF Crash
<1>6. CASE Reboot  BY <1>6 DEF Reboot, Reloads
<1>7. CASE Edit  BY <1>7 DEF Edit
<1>8. CASE UNCHANGED vars  BY <1>8 DEF vars
<1> QED  BY <1>1, <1>2, <1>3, <1>4, <1>5, <1>6, <1>7, <1>8 DEF Next

\* A step that leaves no removal beside an installation had none before it.
LEMMA BesideStays ==
  ASSUME TypeOK, [Next]_vars, beside
  PROVE  beside'
<1> USE DEF Attempt, Require, Goto
<1>1. CASE InstallStep
  BY <1>1 DEF InstallStep, InstallBegin, InstallRecord, InstallRule, InstallPath, InstallDropin,
     InstallReload, InstallStop, InstallStart, InstallCached, InstallEnable, InstallConfirm,
     InstallDone, InstallRollback, Begins
<1>2. CASE RemoveBegin \/ RemovePending
  BY <1>2 DEF RemoveBegin, RemovePending, Begins
<1>3. ASSUME NEW c \in Command, Withdraw(c) PROVE beside'
  BY <1>3 DEF Withdraw, WithdrawVerify, WithdrawStop, WithdrawLink, WithdrawRule, WithdrawPath,
     WithdrawDropin, WithdrawReload, WithdrawFinal
<1>4. CASE Crash \/ Reboot \/ Edit
  BY <1>4 DEF Crash, Reboot, Edit
<1>5. CASE UNCHANGED vars
  BY <1>5 DEF vars
<1> QED  BY <1>1, <1>2, <1>3, <1>4, <1>5 DEF Next

LEMMA EfiInvariance == Spec => []EInv
<1>1. Init => EInv  BY EfiInit
<1>2. EInv /\ [Next]_vars => EInv'
  <2> SUFFICES ASSUME EInv, [Next]_vars PROVE EInv'
    OBVIOUS
  <2>1. TypeOK /\ TypeOK'
    BY EfiTypes DEF EInv
  <2>2. CASE beside
    BY <2>1, <2>2, BesideStays DEF EInv
  <2>3. CASE ~ beside
    BY <2>1, <2>3, AloneStep DEF EInv
  <2> QED BY <2>2, <2>3
<1> QED  BY <1>1, <1>2, PTL DEF Spec

\* However an installation, its rollback or a removal ended, a removal is accepted while a
\* file of the installation is left (verify_ownership and the record's states agree); as long
\* as no removal has run beside an installation.
THEOREM EfiWithdrawable == Spec => []Withdrawable
<1>1. EInv => Withdrawable
  BY DEF EInv, EAlone, TypeOK, StateOK, Absent, Withdrawable, Idle, Owned, Complete, CanRemove, Files,
     State, Pending
<1> QED  BY <1>1, EfiInvariance, PTL

\* The record in install.json never promises more than the files and systemd show, as long as
\* no removal has run beside an installation.
THEOREM EfiRecordIsTrue == Spec => []RecordIsTrue
<1>1. EInv => RecordIsTrue
  BY DEF EInv, EAlone, TypeOK, StateOK, Absent, Loaded, RecordIsTrue, Owned, Complete, Files
<1> QED  BY <1>1, EfiInvariance, PTL
=============================================================================
