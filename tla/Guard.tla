------------------------------- MODULE Guard -------------------------------
(***************************************************************************)
(* The path controller (class Guard, controller.cpp): its step() and         *)
(* consume() handlers, the worker that runs each blocking operation, and the *)
(* ways the process ends.  One episode runs                                  *)
(*   waiting, verifying, load_intent, loaded, commit_intent, committed,      *)
(*   probe_intent, probing, confirming, ready                                *)
(* under one deadline.  The clock appears only through that deadline.        *)
(***************************************************************************)
EXTENDS PathState

VARIABLES
    up,                \* the controller process exists
    guard,             \* its fields
    deadline,          \* Guard::deadline: "none", or "running", or "passed"
    worker             \* the OwnedOperation worker and its outcome

guardVars == <<up, guard, deadline, worker>>

Kind  == {"verify", "load", "revalidate", "commit", "preprobe", "probe", "confirm"}
State == {"ready", "waiting", "rejected", "verified", "probing", "expired", "failed"}

GuardRecord  == [state : State, pending : Kind \cup {"none"},
                 candidate : Inst \cup {NoInst}, current : Inst, stopping : BOOLEAN]
WorkerRecord == [kind : Kind \cup {"none"}, st : {"idle", "start", "cleared", "helper", "ok", "error"},
                 inst : Inst \cup {NoInst},    \* the credential the operation uses or returns
                 snapshot : Dev \cup {NoDev},  \* active digest of the returned snapshot
                 completed : BOOLEAN]          \* status of the kernel path probe

GuardTypeOK ==
    /\ up \in BOOLEAN
    /\ guard \in GuardRecord
    /\ deadline \in {"none", "running", "passed"}
    /\ worker \in WorkerRecord

Idle == [kind |-> "none", st |-> "idle", inst |-> NoInst, snapshot |-> NoDev,
         completed |-> FALSE]

GuardInit ==
    /\ up = TRUE
    /\ guard = [state |-> "ready", pending |-> "none", candidate |-> NoInst,
                current |-> First, stopping |-> FALSE]
    /\ deadline = "none"
    /\ worker = Idle

\* The event loop still calls step(): the state is not terminal.
Running == up /\ ~guard.stopping

Passed == deadline = "passed"

DeadlinePasses ==
    /\ deadline = "running"
    /\ deadline' = "passed"
    /\ UNCHANGED <<up, guard, worker, plugged, map, helper, journal>>

-----------------------------------------------------------------------------
(* Journal writes and the ways a handler ends.                               *)

Stage(j, phase) == [j EXCEPT !.phase = phase]

\* expire(): the credential moves to the cleanup callback of the executor.
Expire(g, j) ==
    /\ journal' = [j EXCEPT !.phase = "expired", !.phase_at_expiry = j.phase,
                            !.queue_disable = "deferred_to_takeover"]
    /\ guard' = [g EXCEPT !.state = "expired", !.candidate = NoInst, !.stopping = TRUE]

\* An exception in step(): event "failed", shutdown(), rethrow.
Fail(g, j) ==
    /\ journal' = j
    /\ guard' = [g EXCEPT !.state = "failed", !.candidate = NoInst, !.stopping = TRUE]

\* submit() starts the worker, finds the deadline passed, or throws.
Started(g, j, kind) ==
    /\ journal' = j
    /\ guard' = [g EXCEPT !.pending = kind]
    /\ worker' = [Idle EXCEPT !.kind = kind, !.st = "start", !.inst = g.candidate]
    /\ deadline' = "running"
SubmitLate(g, j)   == Expire(g, j) /\ deadline' = "passed" /\ worker' = Idle
SubmitThrows(g, j) == Fail(g, j) /\ deadline' = "running" /\ worker' = Idle

Submit(g, j, kind) == Started(g, j, kind) \/ SubmitLate(g, j) \/ SubmitThrows(g, j)

-----------------------------------------------------------------------------
(* step().                                                                   *)

\* Wrong: the deadline is only looked at between two operations.
StepExpires_WhenIdle ==
    /\ Running /\ Passed /\ guard.pending = "none"
    /\ Expire(guard, journal)
    /\ UNCHANGED <<up, deadline, worker, plugged, map, helper>>

StepExpires ==
    /\ Running /\ Passed
    /\ Expire(guard, journal)
    /\ UNCHANGED <<up, deadline, worker, plugged, map, helper>>

SubmitVerify(j) ==
    Submit([guard EXCEPT !.candidate = NoInst, !.state = "waiting"],
           Stage(j, "verifying"), "verify")

\* check_map() and current_present() find the healthy state broken: open an
\* episode and submit the first verification.
OpenEpisode ==
    /\ Running /\ deadline = "none" /\ guard.pending = "none"
    /\ map.failed \/ ~Present(guard.current)
    /\ \/ SubmitVerify(Stage(journal, "waiting"))
       \/ SubmitThrows(guard, Stage(journal, "waiting"))
    /\ UNCHANGED <<up, plugged, map, helper>>

\* Within an episode, with no operation pending: verify again.
RetryVerify ==
    /\ Running /\ deadline = "running" /\ guard.pending = "none"
    /\ Submit([guard EXCEPT !.candidate = NoInst], Stage(journal, "verifying"), "verify")
    /\ UNCHANGED <<up, plugged, map, helper>>

\* An exception outside consume(): the map query or the event loop throws.
LoopThrows ==
    /\ Running
    /\ \/ guard.pending = "none" /\ deadline = "none" /\ Fail(guard, journal)
       \/ /\ guard' = [guard EXCEPT !.stopping = TRUE, !.candidate = NoInst]
          /\ UNCHANGED journal
    /\ UNCHANGED <<up, deadline, worker, plugged, map, helper>>

-----------------------------------------------------------------------------
(* consume(): one handler per operation kind.                                *)

Polled == /\ Running /\ deadline = "running"
          /\ guard.pending # "none" /\ worker.st \in {"ok", "error"}
Succeeded(kind) == Polled /\ guard.pending = kind /\ worker.st = "ok"
Taken == [guard EXCEPT !.pending = "none"]
Quiet == UNCHANGED <<up, plugged, map, helper>>

Reject(g) ==
    /\ guard' = [g EXCEPT !.candidate = NoInst, !.state = "rejected"]
    /\ worker' = Idle
    /\ UNCHANGED <<journal, deadline>>

\* Wrong: a new instance is accepted under any dev_t.
ReusesActiveDev_Never(i) == FALSE

\* The table cache of the kernel is keyed by dev_t: a new instance under the
\* active dev_t cannot be bound, so it is refused.
ReusesActiveDev(i) == DevOf[i] = DevOf[guard.current] /\ i # guard.current

ConsumeVerify ==
    /\ Succeeded("verify")
    /\ LET i == worker.inst
           g == [Taken EXCEPT !.candidate = i, !.state = "verified"]
           intent == [Stage(journal, "load_intent") EXCEPT
                        !.previous = Digest(map.active),
                        !.candidate_table_digest = DevOf[i]]
       IN  IF ReusesActiveDev(i) THEN Reject(Taken)
           ELSE IF map.inactive # NoInst \/ map.suspended
                  THEN SubmitThrows(Taken, journal)
                  ELSE Submit(g, intent, "load")
    /\ Quiet

ConsumeLoad ==
    /\ Succeeded("load")
    /\ Submit(Taken, [Stage(journal, "loaded") EXCEPT !.snapshot = worker.snapshot],
              "revalidate")
    /\ Quiet

\* Wrong: the commit is submitted without a commit_intent record.
ConsumeRevalidate_NoIntent ==
    /\ Succeeded("revalidate")
    /\ Submit(Taken, journal, "commit")
    /\ Quiet

ConsumeRevalidate ==
    /\ Succeeded("revalidate")
    /\ Submit(Taken, Stage(journal, "commit_intent"), "commit")
    /\ Quiet

ConsumeCommit ==
    /\ Succeeded("commit")
    /\ Submit([Taken EXCEPT !.current = guard.candidate],
              [Stage(journal, "committed") EXCEPT !.snapshot = worker.snapshot],
              "preprobe")
    /\ Quiet

\* The probe starts before the "probing" record is written, so a failing write
\* leaves a live probe behind.
ConsumePreprobe ==
    /\ Succeeded("preprobe")
    /\ LET intent == Stage(journal, "probe_intent")
           g == [Taken EXCEPT !.state = "probing"]
       IN  \/ Started(g, Stage(intent, "probing"), "probe")
           \/ SubmitLate(Taken, intent)
           \/ SubmitThrows(Taken, intent)
           \/ \E j \in {intent, Stage(intent, "probing")} :
                /\ Fail([Taken EXCEPT !.pending = "probe"], j)
                /\ worker' = [Idle EXCEPT !.kind = "probe", !.st = "start",
                                          !.inst = guard.candidate]
                /\ UNCHANGED deadline
    /\ Quiet

PathConfirmed ==
    /\ worker.completed /\ Present(guard.current)
    /\ DevOf[map.active] = DevOf[guard.current] /\ ~map.failed

ConsumeProbe ==
    /\ Succeeded("probe")
    /\ IF PathConfirmed THEN Submit(Taken, Stage(journal, "confirming"), "confirm")
                        ELSE Reject(Taken)
    /\ Quiet

ConsumeConfirm ==
    /\ Succeeded("confirm")
    /\ journal' = [Stage(journal, "ready") EXCEPT !.snapshot = worker.snapshot]
    /\ guard' = [Taken EXCEPT !.candidate = NoInst, !.state = "ready"]
    /\ deadline' = "none"
    /\ worker' = Idle
    /\ Quiet

\* A failed verification is retried; any other failed operation ends the owner.
ConsumeError ==
    /\ Polled /\ worker.st = "error"
    /\ IF guard.pending = "verify" THEN Reject(Taken) ELSE SubmitThrows(Taken, journal)
    /\ Quiet

\* The first journal write, or the snapshot before it, throws.
ConsumeThrows ==
    /\ Polled /\ SubmitThrows(Taken, journal)
    /\ Quiet

\* The deadline passes between step() and consume(): the outcome is dropped.
ConsumeLate ==
    /\ Polled /\ SubmitLate(Taken, journal)
    /\ Quiet

-----------------------------------------------------------------------------
(* The worker thread.                                                        *)

WorkerQuiet == UNCHANGED <<up, guard, deadline, plugged, journal>>
Working(kind) == up /\ worker.kind = kind /\ worker.st = "start"
Cleared(kind) == up /\ worker.kind = kind /\ worker.st = "cleared"
Finish(st) == worker' = [worker EXCEPT !.st = st]

Candidates == {i \in Enrolled : Present(i)}

\* Admission::verify: exactly one matching disk, with the enrolled layout.
VerifyAdmits ==
    /\ Working("verify") /\ ~Passed
    /\ \E i \in Genuine : /\ Candidates = {i}
                          /\ worker' = [worker EXCEPT !.st = "ok", !.inst = i]
    /\ WorkerQuiet /\ UNCHANGED <<map, helper>>

\* Wrong: only the time budget is checked again.
Revalidated_BudgetOnly(i) == ~Passed

\* Admission::revalidate: the credential's instance is still the only match and
\* the deadline has not passed.
Revalidated(i) == Candidates = {i} /\ ~Passed

\* Wrong: an operation that lost its owner still mutates.
MayMutate_IgnoresShutdown == Revalidated(worker.inst)

\* The last checks before dmsetup: revalidate(), then mutation_budget().  The
\* owner may be told to stop between them and the start of the helper.
MayMutate == Revalidated(worker.inst) /\ ~guard.stopping

ClearMutation ==
    /\ Working("load") \/ Working("commit")
    /\ MayMutate
    /\ Finish("cleared") /\ WorkerQuiet /\ UNCHANGED <<map, helper>>

StartLoad ==
    /\ Cleared("load")
    /\ Spawn("guard", "load", DevOf[worker.inst])
    /\ Finish("helper") /\ WorkerQuiet /\ UNCHANGED map

StartCommit ==
    /\ Cleared("commit")
    /\ Spawn("guard", "resume", NoDev)
    /\ Finish("helper") /\ WorkerQuiet /\ UNCHANGED map

\* command() returned: the operation ends with a snapshot of the map.
ReapHelper ==
    /\ up /\ worker.st = "helper" /\ helper["guard"].st \in {"ok", "error"}
    /\ \/ Finish("error")
       \/ /\ helper["guard"].st = "ok"
          /\ worker' = [worker EXCEPT !.st = "ok", !.snapshot = Digest(map.active)]
    /\ helper' = [helper EXCEPT !["guard"] = NoHelper]
    /\ WorkerQuiet /\ UNCHANGED map

Recheck ==
    /\ Working("revalidate") \/ Working("preprobe")
    /\ Revalidated(worker.inst)
    /\ Finish("ok") /\ WorkerQuiet /\ UNCHANGED <<map, helper>>

\* DM_MPATH_PROBE_PATHS reads through the active path and fails it on error.
ProbePath ==
    /\ Working("probe")
    /\ \/ /\ Present(map.active) /\ ~map.failed
          /\ worker' = [worker EXCEPT !.st = "ok", !.completed = TRUE]
          /\ UNCHANGED map
       \/ Finish("ok") /\ map' = [map EXCEPT !.failed = TRUE]
       \/ Finish("ok") /\ UNCHANGED map
    /\ WorkerQuiet /\ UNCHANGED helper

Confirm ==
    /\ Working("confirm") /\ Revalidated(worker.inst)
    /\ Digest(map.active) = journal.candidate_table_digest
    /\ map.inactive = NoInst /\ ~map.suspended
    /\ worker' = [worker EXCEPT !.st = "ok", !.snapshot = Digest(map.active)]
    /\ WorkerQuiet /\ UNCHANGED <<map, helper>>

WorkerFails ==
    /\ up /\ worker.st \in {"start", "cleared"} /\ worker.kind # "probe"
    /\ Finish("error") /\ WorkerQuiet /\ UNCHANGED <<map, helper>>

-----------------------------------------------------------------------------
(* The end of the process.  Its threads die; a running helper does not.      *)

GuardDies ==
    /\ up' = FALSE /\ worker' = Idle
    /\ UNCHANGED <<guard, deadline, plugged, map, helper, journal>>

GuardExits   == up /\ guard.stopping /\ GuardDies
GuardCrashes == up /\ GuardDies

Step == \/ StepExpires \/ OpenEpisode \/ RetryVerify \/ LoopThrows
        \/ ConsumeVerify \/ ConsumeLoad \/ ConsumeRevalidate \/ ConsumeCommit
        \/ ConsumePreprobe \/ ConsumeProbe \/ ConsumeConfirm
        \/ ConsumeError \/ ConsumeThrows \/ ConsumeLate
Work == \/ VerifyAdmits \/ ClearMutation \/ StartLoad \/ StartCommit \/ ReapHelper
        \/ Recheck \/ ProbePath \/ Confirm \/ WorkerFails
=============================================================================
