------------------------------- MODULE RamTools -------------------------------
(***************************************************************************)
(* The RAM tool environment of a boot (prepare() of ram_environment.py): a     *)
(* directory, a tmpfs with the unpacked tools, bind mounts of four host trees,   *)
(* the pinned fstab, the alias that makes it usable and a receipt.  The caller     *)
(* sets prep.pc to "check" and takes "done" or "failed" back.  A step may raise     *)
(* before or after its effect; only what was noted as mounted is unmounted.       *)
(* The content of the tools (versions, hashes) is not modelled.                *)
(***************************************************************************)
EXTENDS Naturals

VARIABLES
    ram,               \* what exists under /run/ram-rescue-manager
    prep,              \* the step of prepare() and the mounts it noted
    budget             \* faults, crashes, edits and reboots still allowed

Mounts == {"base", "bound", "pin"}
NoTools == [dir |-> FALSE, base |-> FALSE, bound |-> FALSE, pin |-> FALSE,
            alias |-> FALSE, receipt |-> FALSE]
NoPrep  == [pc |-> "off", mounted |-> {}]

PrepPc == {"off", "check", "repin", "dir", "base", "bind", "pin", "alias", "receipt",
           "undo_pin", "undo_bound", "undo_base", "undo_dir", "done", "failed"}

ToolsTypeOK ==
    /\ ram \in [{"dir", "base", "bound", "pin", "alias", "receipt"} -> BOOLEAN]
    /\ prep \in [pc : PrepPc, mounted : SUBSET Mounts]

Fault == /\ budget.faults > 0
         /\ budget' = [budget EXCEPT !.faults = @ - 1]

-----------------------------------------------------------------------------
(* Steps. *)

PrepGoto(next) == prep' = [prep EXCEPT !.pc = next]

\* Make one thing; raising before or after the effect goes to the handler.
Make(at, what, next, handler) ==
    /\ prep.pc = at
    /\ \/ /\ ram' = [ram EXCEPT ![what] = TRUE]
          /\ prep' = [pc |-> next, mounted |-> prep.mounted \cup ({what} \cap Mounts)]
          /\ UNCHANGED budget
       \/ /\ Fault
          /\ ram' = ram \/ ram' = [ram EXCEPT ![what] = TRUE]
          /\ PrepGoto(handler)

\* An existing alias is verified and its fstab pinned; a directory without an alias
\* is the remnant of an attempt that nobody may replace.
PrepareCheck ==
    /\ prep.pc = "check"
    /\ PrepGoto(CASE ram.alias /\ ram.base /\ ram.bound -> "repin"
                  [] ~ ram.alias /\ ~ ram.dir -> "dir"
                  [] OTHER -> "failed")
    /\ UNCHANGED <<ram, budget>>

PrepareRepin == Make("repin", "pin", "done", "failed")
PrepareDir   == Make("dir", "dir", "base", "failed")
PrepareBase  == Make("base", "base", "bind", "undo_pin")
PrepareBind  == Make("bind", "bound", "pin", "undo_pin")
PreparePin   == Make("pin", "pin", "alias", "undo_pin")

PrepareAlias   == Make("alias", "alias", "receipt", "failed")
PrepareReceipt == Make("receipt", "receipt", "done", "failed")

\* The handler unmounts what was noted, last first; a mount with another one beneath
\* it is busy, and then the rest stays.
Undo(at, what, next) ==
    LET busy == what = "base" /\ (ram.bound \/ ram.pin)
    IN  /\ prep.pc = at
        /\ \/ /\ what \notin prep.mounted
              /\ PrepGoto(next) /\ UNCHANGED <<ram, budget>>
           \/ /\ what \in prep.mounted /\ ~ busy
              /\ ram' = [ram EXCEPT ![what] = FALSE]
              /\ PrepGoto(next) /\ UNCHANGED budget
           \/ /\ what \in prep.mounted /\ busy
              /\ PrepGoto("failed") /\ UNCHANGED <<ram, budget>>
           \/ /\ what \in prep.mounted
              /\ Fault /\ PrepGoto("failed") /\ UNCHANGED ram

UndoDir == /\ prep.pc = "undo_dir"
           /\ ram' = [ram EXCEPT !.dir = ram.base]
           /\ PrepGoto("failed")
           /\ UNCHANGED budget

PrepareUndo == \/ Undo("undo_pin", "pin", "undo_bound") \/ Undo("undo_bound", "bound", "undo_base")
               \/ Undo("undo_base", "base", "undo_dir") \/ UndoDir

Prepare == \/ PrepareCheck \/ PrepareRepin \/ PrepareDir \/ PrepareBase \/ PrepareBind
           \/ PreparePin \/ PrepareAlias \/ PrepareReceipt \/ PrepareUndo
=============================================================================
