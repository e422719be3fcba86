---------------------------- MODULE CandidateStore ----------------------------
(***************************************************************************)
(* The store of inert candidates (candidates.py) and the commands that fill and    *)
(* empty it (candidate_ui.py, manage.py).  A user confirms a plan, or the removal    *)
(* of a candidate, before the control lock is taken; under the lock the plan is        *)
(* built again, an operation directory gets four files one after the other, and the     *)
(* plan is built once more.  A command may die between two writes and leave an empty     *)
(* directory, missing files or the temporary file of a write.                      *)
(*                                                                         *)
(* File contents are hashed in the code; here a file is there or not, and a stray        *)
(* member is one that the store does not know.  One confirmed command waits at a     *)
(* time.  Bounds: MaxActive, MaxHistory, MaxChanges, MaxCrashes, MaxEdits.               *)
(***************************************************************************)
EXTENDS Planning, FiniteSets

CONSTANTS Nothing, MaxActive, MaxHistory, MaxChanges, MaxCrashes, MaxEdits

ASSUME StoreAssumption ==
    /\ {MaxActive, MaxHistory, MaxChanges, MaxCrashes, MaxEdits} \subseteq Nat
    /\ MaxActive <= MaxHistory

VARIABLES
    op,                \* the operation directories
    asked,             \* what the user has confirmed before the lock was taken
    proc,              \* the command that holds the lock
    budget             \* changes of the inputs, crashes and edits still allowed

vars == <<env, build, op, asked, proc, budget>>

Payloads == {"plan", "candidate"}
Files    == Payloads \cup {"manifest"}           \* and operation.json, the receipt
Id       == 1 .. MaxHistory + 1

NoOp == [dir |-> FALSE, receipt |-> FALSE, state |-> "preparing", cleanup |-> FALSE, files |-> {},
         plan |-> Nothing, stray |-> FALSE]
Idle == [pc |-> "idle", plan |-> Nothing, op |-> 0]
NoAsk == [stage |-> Nothing, cancel |-> 0, seen |-> NoOp]

StagePc  == {"build1", "list", "incomplete", "mkdir", "operation", "manifest", "plan", "candidate",
             "build2", "prepared", "failed"}
CancelPc == {"snapshot", "pending", "unlink_candidate", "unlink_plan", "cancelled"}

OpType == [dir : BOOLEAN, receipt : BOOLEAN,
           state : {"preparing", "prepared", "failed_needs_review", "cancelled"},
           cleanup : BOOLEAN, files : SUBSET Files, plan : Inputs \cup {Nothing},
           stray : BOOLEAN]

TypeOK ==
    /\ PlanTypeOK
    /\ op \in [Id -> OpType]
    /\ asked \in [stage : Inputs \cup {Nothing}, cancel : Id \cup {0}, seen : OpType]
    /\ proc \in [pc : {"idle"} \cup StagePc \cup CancelPc, plan : Inputs \cup {Nothing}, op : Id \cup {0}]
    /\ budget \in [changes : 0 .. MaxChanges, crashes : 0 .. MaxCrashes, edits : 0 .. MaxEdits]

Init ==
    /\ env = [i \in Input |-> First(i)] /\ build = NoBuild
    /\ op = [i \in Id |-> NoOp]
    /\ asked = NoAsk /\ proc = Idle
    /\ budget = [changes |-> MaxChanges, crashes |-> MaxCrashes, edits |-> MaxEdits]

-----------------------------------------------------------------------------
(* What load() and list() make of a directory. *)

\* load(): known members only, and those that the state promises.
Loadable(o) ==
    /\ o.receipt /\ ~ o.stray
    /\ o.state = "prepared" => o.files = Files
    /\ o.state = "cancelled" /\ ~ o.cleanup => o.files \cap Payloads = {}

Existing == {i \in Id : op[i].dir}
\* What cannot be loaded counts as active.
Active == {i \in Existing : ~ Loadable(op[i]) \/ op[i].state # "cancelled" \/ op[i].cleanup}

\* A receipt that can be read, of a directory that cannot be loaded, claims its plan.
ClaimedBy(plan) == {i \in Existing : ~ Loadable(op[i]) /\ op[i].receipt /\ op[i].plan = plan}

Reusable(plan) == {i \in Existing : Loadable(op[i]) /\ op[i].plan = plan
                                    /\ op[i].state \in {"prepared", "preparing"}}

-----------------------------------------------------------------------------
(* Steps of the command that holds the lock. *)

Goto(next) == proc' = IF next = "end" THEN Idle ELSE [proc EXCEPT !.pc = next]

Write(at, o, next) ==
    /\ proc.pc = at
    /\ op' = [op EXCEPT ![proc.op] = o]
    /\ Goto(next)
    /\ UNCHANGED <<env, asked, budget>>

\* update(): only of a directory that still loads.
Update(at, o, next) ==
    /\ proc.pc = at
    /\ IF Loadable(op[proc.op]) THEN Write(at, o, next) /\ UNCHANGED build
       ELSE Goto("end") /\ UNCHANGED <<env, build, op, asked, budget>>

this == op[proc.op]

-----------------------------------------------------------------------------
(* stage(): the user confirms the digest of a plan that was true; under the lock it  *)
(* is built again, twice.                                                   *)

ConfirmStage ==
    /\ asked = NoAsk
    /\ asked' = [asked EXCEPT !.stage = env]
    /\ UNCHANGED <<env, build, op, proc, budget>>

StageBegin ==
    /\ proc = Idle /\ asked.stage # Nothing
    /\ proc' = [Idle EXCEPT !.pc = "build1", !.plan = asked.stage]
    /\ asked' = [asked EXCEPT !.stage = Nothing]
    /\ UNCHANGED <<env, build, op, budget>>

StageBuild(at, good, bad) ==
    /\ proc.pc = at
    /\ \/ build.pc = "off" /\ BuildBegin /\ UNCHANGED proc
       \/ /\ build.pc \in {"ready", "blocked"}
          /\ Goto(IF PlanIs(proc.plan) THEN good ELSE bad)
          /\ build' = IF PlanIs(proc.plan) /\ good = "prepared" THEN build ELSE NoBuild
    /\ UNCHANGED <<env, op, asked, budget>>

StageBuild1 == StageBuild("build1", "list", "end")

\* Mutant: a remnant that claims the plan does not refuse it.
Refuses_NoClaim(plan) == Reusable(plan) = {} /\ ~ (Cardinality(Active) < MaxActive
                                                    /\ Cardinality(Existing) < MaxHistory)

\* Mutant: one more active operation than allowed.
Refuses_OffByOne(plan) ==
    \/ ClaimedBy(plan) # {}
    \/ Reusable(plan) = {} /\ ~ (Cardinality(Active) <= MaxActive
                                 /\ Cardinality(Existing) < MaxHistory)

\* The store refuses: a remnant claims the plan, or it is full.
Refuses(plan) ==
    \/ ClaimedBy(plan) # {}
    \/ Reusable(plan) = {} /\ ~ (Cardinality(Active) < MaxActive
                                 /\ Cardinality(Existing) < MaxHistory)

StageList ==
    /\ proc.pc = "list"
    /\ IF Refuses(proc.plan) THEN proc' = Idle
       ELSE \/ /\ Reusable(proc.plan) = {} /\ Goto("mkdir")
            \/ \E i \in Reusable(proc.plan) :
                  proc' = CASE op[i].files # Files -> [proc EXCEPT !.pc = "incomplete", !.op = i]
                            [] op[i].state = "prepared" -> Idle
                            [] OTHER -> [proc EXCEPT !.pc = "build2", !.op = i]
    /\ UNCHANGED <<env, build, op, asked, budget>>

StageIncomplete == Update("incomplete", [this EXCEPT !.state = "failed_needs_review"], "end")

\* The identifier is random; which free one it is makes no difference.
StageMkdir ==
    /\ proc.pc = "mkdir"
    /\ LET i == CHOOSE i \in Id \ Existing : TRUE
       IN  /\ op' = [op EXCEPT ![i].dir = TRUE]
           /\ proc' = [proc EXCEPT !.pc = "operation", !.op = i]
    /\ UNCHANGED <<env, build, asked, budget>>

StageOperation == /\ Write("operation", [this EXCEPT !.receipt = TRUE, !.plan = proc.plan], "manifest")
                  /\ UNCHANGED build
StageManifest  == /\ Write("manifest", [this EXCEPT !.files = @ \cup {"manifest"}], "plan")
                  /\ UNCHANGED build
StagePlan      == Write("plan", [this EXCEPT !.files = @ \cup {"plan"}], "candidate") /\ UNCHANGED build

StageCandidate ==
    Write("candidate", [this EXCEPT !.files = @ \cup {"candidate"}], "build2") /\ UNCHANGED build

\* finish(): "prepared" after the plan was built again.
StageBuild2   == StageBuild("build2", "prepared", "failed")
StagePrepared ==
    /\ proc.pc = "prepared"
    /\ IF Loadable(this) /\ this.files = Files
       THEN Write("prepared", [this EXCEPT !.state = "prepared"], "end")
       ELSE Goto("end") /\ UNCHANGED <<env, op, asked, budget>>
    /\ build' = NoBuild
StageFailed   == Update("failed", [this EXCEPT !.state = "failed_needs_review"], "end")

Stage == \/ ConfirmStage \/ StageBegin \/ StageBuild1 \/ StageList \/ StageIncomplete \/ StageMkdir
         \/ StageOperation \/ StageManifest \/ StagePlan \/ StageCandidate
         \/ StageBuild2 \/ StagePrepared \/ StageFailed

-----------------------------------------------------------------------------
(* cancel(): the user confirms what he was shown; the directory must still be that. *)

ConfirmCancel ==
    /\ asked = NoAsk
    /\ \E i \in Existing : Loadable(op[i]) /\ asked' = [asked EXCEPT !.cancel = i, !.seen = op[i]]
    /\ UNCHANGED <<env, build, op, proc, budget>>

CancelBegin ==
    /\ proc = Idle /\ asked.cancel # 0
    /\ proc' = [Idle EXCEPT !.pc = "snapshot", !.op = asked.cancel]
    /\ UNCHANGED <<env, build, op, asked, budget>>

\* Nothing to do when it is cancelled; no active registration has the map (this may
\* refuse at any time).
CancelSnapshot ==
    /\ proc.pc = "snapshot"
    /\ \/ /\ Loadable(this) /\ this = asked.seen /\ ~ (this.state = "cancelled" /\ ~ this.cleanup)
          /\ Goto(IF this.cleanup THEN "unlink_candidate" ELSE "pending")
       \/ proc' = Idle
    /\ asked' = [asked EXCEPT !.cancel = 0, !.seen = NoOp]
    /\ UNCHANGED <<env, build, op, budget>>

\* Mutant: the receipt does not remember that payload is still to be removed.
CancelPending_NoCleanup == Update("pending", [this EXCEPT !.state = "cancelled"], "unlink_candidate")

CancelPending == Update("pending", [this EXCEPT !.state = "cancelled", !.cleanup = TRUE],
                        "unlink_candidate")
CancelCandidate == Update("unlink_candidate", [this EXCEPT !.files = @ \ {"candidate"}], "unlink_plan")
CancelPlan      == Update("unlink_plan", [this EXCEPT !.files = @ \ {"plan"}], "cancelled")
CancelDone      == Update("cancelled", [this EXCEPT !.cleanup = FALSE], "end")

Cancel == \/ ConfirmCancel \/ CancelBegin \/ CancelSnapshot \/ CancelPending
          \/ CancelCandidate \/ CancelPlan \/ CancelDone

-----------------------------------------------------------------------------
(* The environment. *)

Writes == {"incomplete", "operation", "manifest", "plan", "candidate", "prepared", "failed",
           "pending", "cancelled"}

\* The command dies; a write it was in the middle of leaves its temporary file.
Crash ==
    /\ proc # Idle /\ budget.crashes > 0
    /\ budget' = [budget EXCEPT !.crashes = @ - 1]
    /\ proc' = Idle /\ build' = NoBuild
    /\ \/ UNCHANGED op
       \/ proc.pc \in Writes /\ op' = [op EXCEPT ![proc.op].stray = TRUE]
    /\ UNCHANGED <<env, asked>>

\* An administrator reviews a directory: removes it, or a file he does not know.
Review ==
    /\ proc = Idle /\ budget.edits > 0
    /\ budget' = [budget EXCEPT !.edits = @ - 1]
    /\ \E i \in Existing \ {asked.cancel} :
          \/ op' = [op EXCEPT ![i] = NoOp]
          \/ op[i].stray /\ op' = [op EXCEPT ![i].stray = FALSE]
    /\ UNCHANGED <<env, build, asked, proc>>

InputsChange ==
    /\ budget.changes > 0
    /\ budget' = [budget EXCEPT !.changes = @ - 1]
    /\ Change
    /\ UNCHANGED <<op, asked, proc>>

Next == \/ Stage \/ Cancel
        \/ (Build /\ UNCHANGED <<op, asked, proc, budget>>)
        \/ InputsChange
        \/ Crash \/ Review

Spec == Init /\ [][Next]_vars

-----------------------------------------------------------------------------
(* Properties. *)

\* An operation becomes prepared only on a finished build that read every input as the user
\* confirmed it, before and after the admission of the disk.  Equal readings do not catch a change that is taken back
\* (guard/MANAGER.md:42): at the admission an input may have been another only if it has
\* returned since.
PreparedWasTrue ==
    [][\A i \in Id : op[i].state # "prepared" /\ op'[i].state = "prepared" =>
          build.pc = "ready" /\ build.seen = op[i].plan /\ build.astray = {}]_vars

\* Of one plan there is at most one operation that is being prepared or prepared,
\* whatever remnants earlier attempts left.
OneLivePerPlan ==
    \A i, j \in Existing :
        /\ op[i].receipt /\ op[j].receipt /\ op[i].plan = op[j].plan
        /\ {op[i].state, op[j].state} \subseteq {"preparing", "prepared"}
        => i = j

\* A cancelled candidate without cleanup_pending has no payload left, wherever earlier
\* removals died.  (A death within a write leaves a temporary file, and then the directory
\* is not loaded and not cleaned up until it was reviewed.)
CancelledIsClean ==
    \A i \in Existing : op[i].state = "cancelled" /\ ~ op[i].cleanup => op[i].files \cap Payloads = {}

\* The store never holds more directories than its history, nor more live ones than allowed.
StoreIsBounded == Cardinality(Existing) <= MaxHistory /\ Cardinality(Active) <= MaxActive
=============================================================================
