----------------------------- MODULE Takeover -----------------------------
(***************************************************************************)
(* The takeover run after the controller's process has ended (ExecStopPost): *)
(* acquire_owner() waits for the fence, reconcile() (controller.cpp) then     *)
(* compares the kernel's tables with the journal, clears an unfinished        *)
(* candidate, resumes, turns queueing off and closes the journal.             *)
(*                                                                         *)
(* Bound: MaxCrashes, how often a takeover process is killed.                 *)
(***************************************************************************)
EXTENDS PathState

CONSTANT MaxCrashes
ASSUME CrashAssumption == MaxCrashes \in Nat

VARIABLES
    tk,                \* pc of the takeover and the snapshot reconcile() took
    crashes            \* takeover processes killed so far

takeoverVars == <<tk, crashes>>

TkPc == {"off", "waiting", "owned", "clear", "resume", "message", "final",
         "done", "blocked"}
View == [active : Dev \cup {NoDev}, inactive : Dev \cup {NoDev}, suspended : BOOLEAN]
NoView == [active |-> NoDev, inactive |-> NoDev, suspended |-> FALSE]

TakeoverTypeOK ==
    /\ tk \in [pc : TkPc, view : View]
    /\ crashes \in 0 .. MaxCrashes

TakeoverInit ==
    /\ tk = [pc |-> "off", view |-> NoView]
    /\ crashes = 0

\* The takeover process holds the fence in these states.
TakeoverOwns == tk.pc \in {"owned", "clear", "resume", "message", "final"}

Goto(pc) == tk' = [tk EXCEPT !.pc = pc]
Leave(pc) == tk' = [pc |-> pc, view |-> NoView]
TkQuiet == UNCHANGED <<crashes, plugged, map, journal>>

TkStart ==
    /\ tk.pc = "off"
    /\ Goto("waiting") /\ TkQuiet /\ UNCHANGED helper

\* An operator runs the takeover of a root map once more.
TkAgain ==
    /\ tk.pc \in {"done", "blocked"}
    /\ Goto("waiting") /\ TkQuiet /\ UNCHANGED helper

\* flock succeeds once no descriptor of the old owner is open; fenceFree is
\* given by the composition.
TkAcquire(fenceFree) ==
    /\ tk.pc = "waiting" /\ fenceFree
    /\ Goto("owned")
    /\ helper' = [helper EXCEPT !["takeover"] = NoHelper]
    /\ TkQuiet

-----------------------------------------------------------------------------
(* reconcile().                                                              *)

LastPhase == IF journal.phase = "expired" THEN journal.phase_at_expiry ELSE journal.phase

CommitPhases == {"commit_intent", "committed", "probe_intent", "probing",
                 "confirming", "ready"}

\* The active digests the journal accounts for.
Known == {journal.previous, journal.snapshot} \cup
         (IF LastPhase \in CommitPhases THEN {journal.candidate_table_digest} ELSE {})

\* Wrong orders: the map is resumed before the candidate is cleared; a map with
\* no unfinished transaction is closed without turning queueing off.
FirstOp_ResumesFirst(v) == IF v.suspended THEN "resume"
                           ELSE IF v.inactive # NoDev THEN "clear" ELSE "message"
FirstOp_SkipsMessage(v) == IF v.inactive # NoDev THEN "clear"
                           ELSE IF v.suspended THEN "resume" ELSE "final"

\* The table operations a snapshot calls for, in order.
FirstOp(v) == IF v.inactive # NoDev THEN "clear"
              ELSE IF v.suspended THEN "resume" ELSE "message"
AfterClear(v) == IF v.suspended THEN "resume" ELSE "message"

TkRead ==
    /\ tk.pc = "owned"
    /\ LET v == [active |-> Digest(map.active), inactive |-> Digest(map.inactive),
                 suspended |-> map.suspended]
       IN  IF /\ v.active \in Known
              /\ v.inactive # NoDev => v.inactive = journal.candidate_table_digest
             THEN tk' = [pc |-> FirstOp(v), view |-> v]
             ELSE Leave("blocked")
    /\ TkQuiet /\ UNCHANGED helper

TkSpawn ==
    /\ tk.pc \in {"clear", "resume", "message"}
    /\ helper["takeover"].st = "none"
    /\ Spawn("takeover", tk.pc, NoDev)
    /\ UNCHANGED <<takeoverVars, plugged, map, journal>>

TkReap ==
    /\ tk.pc \in {"clear", "resume", "message"}
    /\ helper["takeover"].st \in {"ok", "error"}
    /\ IF helper["takeover"].st = "error" THEN Leave("blocked")
       ELSE Goto(CASE tk.pc = "clear"   -> AfterClear(tk.view)
                   [] tk.pc = "resume"  -> "message"
                   [] tk.pc = "message" -> "final")
    /\ helper' = [helper EXCEPT !["takeover"] = NoHelper]
    /\ TkQuiet

\* The final snapshot must show no unfinished transaction; the journal then
\* passes to this owner and says that queueing is off.
TkFinish ==
    /\ tk.pc = "final"
    /\ IF map.inactive = NoInst /\ ~map.suspended
         THEN /\ journal' = [journal EXCEPT
                    !.phase = IF journal.phase = "expired" THEN "expired" ELSE "interrupted",
                    !.snapshot = Digest(map.active),
                    !.queue_disable = "completed_by_takeover"]
              /\ Leave("done")
         ELSE Leave("blocked") /\ UNCHANGED journal
    /\ UNCHANGED <<crashes, plugged, map, helper>>

\* Reading the journal or the map, or writing a state file, throws.
TkThrows ==
    /\ tk.pc \in {"owned", "final"}
    /\ Leave("blocked") /\ TkQuiet /\ UNCHANGED helper

\* The takeover is killed (TimeoutStopSec); its helper, if any, lives on.
TkCrash ==
    /\ tk.pc = "waiting" \/ TakeoverOwns
    /\ crashes < MaxCrashes
    /\ crashes' = crashes + 1
    /\ Leave("off")
    /\ UNCHANGED <<plugged, map, helper, journal>>

TakeoverStep(fenceFree) ==
    TkStart \/ TkAcquire(fenceFree) \/ TkRead \/ TkSpawn \/ TkReap \/ TkFinish
=============================================================================
