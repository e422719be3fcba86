--------------------------- MODULE Recovery_proofs ---------------------------
(***************************************************************************)
(* Proofs about the recovery transaction, for any disks, device numbers and   *)
(* number of takeover crashes.                                                *)
(*                                                                         *)
(* Why JournalCovers is not inductive: it speaks of the tables and of the     *)
(* journal, but they are changed by a helper that may outlive its owner, and  *)
(* by handlers that act on an outcome the worker left behind.  The invariant  *)
(* below therefore also says                                                  *)
(*   - what a worker's outcome still tells about the map (WorkerOK),           *)
(*   - which journal phase a worker or a helper runs under (PhaseOK),          *)
(*   - that the fence separates the owner's end from the takeover (FenceOK),   *)
(*   - what the takeover has established when it reaches an operation          *)
(*     (TakeoverOK, QueueOK).                                                  *)
(***************************************************************************)
EXTENDS Recovery, TLAPS

\* The worker and the controller agree on the pending operation; a helper is
\* started only by the worker of that operation.
WorkerOK ==
    /\ worker.st # "idle" => up /\ worker.kind = guard.pending /\ worker.kind # "none"
    /\ worker.st \in {"cleared", "helper"} => worker.kind \in {"load", "commit"}
    /\ up /\ HelperRuns("guard") => worker.st = "helper"
    /\ worker.st = "helper" =>
         helper["guard"].op = IF worker.kind = "load" THEN "load" ELSE "resume"
    /\ worker.st = "ok" /\ worker.kind = "verify" => worker.inst \in Inst
    /\ worker.st = "ok" /\ worker.kind \in {"load", "commit", "confirm"} =>
         worker.snapshot = Digest(map.active)
    /\ worker.st # "idle" /\ worker.kind # "verify" =>
         /\ worker.inst \in Inst
         /\ DevOf[worker.inst] = journal.candidate_table_digest
         /\ Running => guard.candidate = worker.inst

\* The journal phases under which an operation runs.
PhasesOf(kind) ==
    CASE kind = "verify"     -> {"verifying"}
      [] kind = "load"       -> {"load_intent"}
      [] kind = "revalidate" -> {"loaded"}
      [] kind = "commit"     -> {"commit_intent"}
      [] kind = "preprobe"   -> {"committed"}
      [] kind = "probe"      -> {"probe_intent", "probing"}
      [] OTHER               -> {"confirming"}

PhaseOK ==
    /\ Running => journal.phase # "expired"
    /\ worker.st # "idle" => LastPhase \in PhasesOf(worker.kind)
    /\ Running /\ LastPhase = "commit_intent" => guard.pending = "commit"
    /\ HelperRuns("guard") =>
         \/ /\ helper["guard"].op = "load" /\ LastPhase = "load_intent"
            /\ helper["guard"].dev = journal.candidate_table_digest
         \/ helper["guard"].op = "resume" /\ LastPhase = "commit_intent"

\* The kernel's tables and the journal.
TablesOK ==
    /\ map.inactive # NoInst => DevOf[map.inactive] = journal.candidate_table_digest
    /\ \/ DevOf[map.active] = journal.snapshot
       \/ LastPhase = "commit_intent" /\ DevOf[map.active] = journal.candidate_table_digest

\* A takeover, or a helper of one, runs only after the owner and its helper; so
\* does everything that follows the takeover's journal entry.
FenceOK ==
    /\ TakeoverOwns \/ HelperRuns("takeover") => ~up /\ ~HelperRuns("guard")
    /\ journal.queue_disable = "completed_by_takeover" => ~up /\ ~HelperRuns("guard")

TakeoverOK ==
    /\ TakeoverOwns /\ helper["takeover"].st # "none" =>
         tk.pc \in {"clear", "resume", "message"} /\ helper["takeover"].op = tk.pc
    /\ HelperRuns("takeover") => helper["takeover"].op \in {"clear", "resume", "message"}
    /\ HelperRuns("takeover") /\ helper["takeover"].op = "resume" => map.inactive = NoInst
    /\ tk.pc \in {"resume", "message", "final"} => map.inactive = NoInst
    /\ tk.pc = "clear" /\ helper["takeover"].st = "ok" => map.inactive = NoInst

QueueOK ==
    /\ tk.pc = "final" => ~map.queue
    /\ tk.pc = "message" /\ helper["takeover"].st = "ok" => ~map.queue

IInv == TypeOK /\ WorkerOK /\ PhaseOK /\ TablesOK /\ FenceOK /\ TakeoverOK /\ QueueOK
        /\ TakeoverViewFresh /\ QueueClaimHolds

-----------------------------------------------------------------------------
(* The controller's thread.                                                  *)

\* A journal the controller may leave behind: it covers the kernel's tables.
JournalOK(j) ==
    /\ j \in JournalRecord
    /\ j.queue_disable # "completed_by_takeover" /\ j.phase # "expired"
    /\ map.inactive # NoInst => DevOf[map.inactive] = j.candidate_table_digest
    /\ \/ DevOf[map.active] = j.snapshot
       \/ j.phase = "commit_intent" /\ DevOf[map.active] = j.candidate_table_digest

LEMMA JournalNow == IInv /\ Running => JournalOK(journal)
BY DEF IInv, TypeOK, PathTypeOK, Running, PhaseOK, TablesOK, FenceOK, LastPhase, JournalOK

LEMMA PolledQuiet == IInv /\ Polled => up /\ Running /\ ~HelperRuns("guard")
BY DEF IInv, WorkerOK, Polled, Running

LEMMA TakenOK == IInv => Taken \in GuardRecord /\ Taken.candidate = guard.candidate
BY DEF IInv, TypeOK, GuardTypeOK, GuardRecord, Taken

\* Nothing a live controller writes itself disturbs what the fence guarantees.
LEMMA OwnerFrame ==
  ASSUME IInv, up, up', UNCHANGED <<map, helper, takeoverVars>>,
         journal'.queue_disable # "completed_by_takeover"
  PROVE  FenceOK' /\ TakeoverOK' /\ QueueOK' /\ TakeoverViewFresh' /\ QueueClaimHolds'
BY DEF IInv, FenceOK, TakeoverOK, QueueOK, TakeoverViewFresh, QueueClaimHolds, TakeoverOwns,
       HelperRuns, takeoverVars

\* submit() found the deadline passed.
LEMMA SubmitLateOK ==
  ASSUME IInv, Running, ~HelperRuns("guard"), Quiet, UNCHANGED takeoverVars,
         NEW g \in GuardRecord, NEW j, JournalOK(j), SubmitLate(g, j)
  PROVE  IInv'
<1> USE InstAssumption DEF SubmitLate, Expire, Quiet, Running
<1>1. TypeOK'
  <2>1. guard' \in GuardRecord  BY DEF GuardRecord, State
  <2>2. worker' \in WorkerRecord  BY DEF WorkerRecord, Idle
  <2>3. journal' \in JournalRecord
    <3>1. j \in JournalRecord /\ j.phase \in Phase  BY DEF JournalOK, JournalRecord
    <3> QED  BY <3>1 DEF JournalRecord, Phase
  <2>4. PathTypeOK'  BY <2>3 DEF IInv, TypeOK, PathTypeOK
  <2> QED
    BY <2>1, <2>2, <2>4 DEF IInv, TypeOK, GuardTypeOK, TakeoverTypeOK, takeoverVars
<1>2. WorkerOK'
  BY DEF IInv, WorkerOK, HelperRuns, Idle
<1>3. PhaseOK'
  BY DEF GuardRecord, PhaseOK, HelperRuns, Idle
<1>4. TablesOK'
  BY DEF TablesOK, LastPhase, JournalOK, JournalRecord
<1>5. FenceOK' /\ TakeoverOK' /\ QueueOK' /\ TakeoverViewFresh' /\ QueueClaimHolds'
  <2>1. journal'.queue_disable # "completed_by_takeover"
    BY DEF JournalOK, JournalRecord
  <2> QED  BY <2>1, OwnerFrame
<1> QED  BY <1>1, <1>2, <1>3, <1>4, <1>5 DEF IInv

\* submit() or the statements before it threw.
LEMMA SubmitThrowsOK ==
  ASSUME IInv, Running, ~HelperRuns("guard"), Quiet, UNCHANGED takeoverVars,
         NEW g \in GuardRecord, NEW j, JournalOK(j), SubmitThrows(g, j)
  PROVE  IInv'
<1> USE InstAssumption DEF SubmitThrows, Fail, Quiet, Running
<1>1. TypeOK'
  <2>1. guard' \in GuardRecord  BY DEF GuardRecord, State
  <2>2. worker' \in WorkerRecord  BY DEF WorkerRecord, Idle
  <2>3. PathTypeOK'  BY DEF IInv, TypeOK, PathTypeOK, JournalOK
  <2> QED
    BY <2>1, <2>2, <2>3 DEF IInv, TypeOK, GuardTypeOK, TakeoverTypeOK, takeoverVars
<1>2. WorkerOK'
  BY DEF IInv, WorkerOK, HelperRuns, Idle
<1>3. PhaseOK'
  BY DEF GuardRecord, PhaseOK, HelperRuns, Idle
<1>4. TablesOK'
  BY DEF TablesOK, LastPhase, JournalOK
<1>5. FenceOK' /\ TakeoverOK' /\ QueueOK' /\ TakeoverViewFresh' /\ QueueClaimHolds'
  BY OwnerFrame DEF JournalOK
<1> QED  BY <1>1, <1>2, <1>3, <1>4, <1>5 DEF IInv

\* submit() started the worker of the next operation under its phase.
LEMMA StartedOK ==
  ASSUME IInv, Running, ~HelperRuns("guard"), Quiet, UNCHANGED takeoverVars,
         NEW g \in GuardRecord, NEW j, JournalOK(j), NEW kind \in Kind,
         j.phase \in PhasesOf(kind),
         kind # "verify" => g.candidate \in Inst /\ DevOf[g.candidate] = j.candidate_table_digest,
         Started(g, j, kind)
  PROVE  IInv'
<1> USE InstAssumption DEF Started, Quiet, Running
<1>1. TypeOK'
  BY DEF IInv, TypeOK, PathTypeOK, GuardTypeOK, TakeoverTypeOK, takeoverVars, JournalOK,
         GuardRecord, WorkerRecord, Idle
<1>2. WorkerOK'
  BY DEF IInv, WorkerOK, HelperRuns, Idle, Kind, GuardRecord
<1>3. PhaseOK'
  BY DEF PhaseOK, PhasesOf, LastPhase, JournalOK, HelperRuns, Idle, GuardRecord, Kind
<1>4. TablesOK'
  BY DEF TablesOK, LastPhase, JournalOK
<1>5. FenceOK' /\ TakeoverOK' /\ QueueOK' /\ TakeoverViewFresh' /\ QueueClaimHolds'
  BY OwnerFrame DEF JournalOK
<1> QED  BY <1>1, <1>2, <1>3, <1>4, <1>5 DEF IInv

LEMMA SubmitOK ==
  ASSUME IInv, Running, ~HelperRuns("guard"), Quiet, UNCHANGED takeoverVars,
         NEW g \in GuardRecord, NEW j, JournalOK(j), NEW kind \in Kind,
         j.phase \in PhasesOf(kind),
         kind # "verify" => g.candidate \in Inst /\ DevOf[g.candidate] = j.candidate_table_digest,
         Submit(g, j, kind)
  PROVE  IInv'
BY SubmitLateOK, SubmitThrowsOK, StartedOK DEF Submit

\* reject(): the credential is dropped, the journal stays.
LEMMA RejectOK ==
  ASSUME IInv, Polled, guard.pending # "commit", Quiet, UNCHANGED takeoverVars, Reject(Taken)
  PROVE  IInv'
<1> USE InstAssumption DEF Reject, Quiet
<1>1. TypeOK'
  BY TakenOK DEF IInv, TypeOK, PathTypeOK, GuardTypeOK, TakeoverTypeOK, takeoverVars,
         GuardRecord, WorkerRecord, State, Idle
<1>2. WorkerOK'
  BY PolledQuiet DEF IInv, WorkerOK, HelperRuns, Idle
<1>3. PhaseOK'
  BY PolledQuiet, TakenOK DEF IInv, PhaseOK, LastPhase, HelperRuns, Running, Taken, GuardRecord, Idle
<1>4. TablesOK'
  BY DEF IInv, TablesOK, LastPhase
<1>5. FenceOK' /\ TakeoverOK' /\ QueueOK' /\ TakeoverViewFresh' /\ QueueClaimHolds'
  BY PolledQuiet, JournalNow, OwnerFrame DEF JournalOK
<1> QED  BY <1>1, <1>2, <1>3, <1>4, <1>5 DEF IInv

-----------------------------------------------------------------------------
(* The handlers of step() and consume().                                     *)

LEMMA StepExpiresOK == ASSUME IInv, StepExpires, UNCHANGED takeoverVars PROVE IInv'
<1> USE InstAssumption DEF StepExpires, Expire, Running
<1>1. TypeOK'
  <2>1. guard' \in GuardRecord
    BY DEF IInv, TypeOK, GuardTypeOK, GuardRecord, State
  <2>2. journal' \in JournalRecord
    <3>1. journal \in JournalRecord /\ journal.phase \in Phase
      BY DEF IInv, TypeOK, PathTypeOK, JournalRecord
    <3> QED  BY <3>1 DEF JournalRecord, Phase
  <2> QED
    BY <2>1, <2>2 DEF IInv, TypeOK, PathTypeOK, GuardTypeOK, TakeoverTypeOK, takeoverVars
<1>2. WorkerOK'
  BY DEF IInv, TypeOK, PathTypeOK, GuardTypeOK, GuardRecord, JournalRecord, WorkerOK, HelperRuns
<1>3. LastPhase' = LastPhase
  BY DEF IInv, TypeOK, PathTypeOK, JournalRecord, PhaseOK, LastPhase
<1>4. PhaseOK'
  BY <1>3 DEF IInv, TypeOK, PathTypeOK, GuardTypeOK, GuardRecord, JournalRecord, PhaseOK, HelperRuns
<1>5. TablesOK'
  BY <1>3 DEF IInv, TypeOK, PathTypeOK, JournalRecord, TablesOK
<1>6. FenceOK' /\ TakeoverOK' /\ QueueOK' /\ TakeoverViewFresh' /\ QueueClaimHolds'
  <2>1. journal'.queue_disable # "completed_by_takeover"
    BY DEF IInv, TypeOK, PathTypeOK, JournalRecord
  <2> QED  BY <2>1, OwnerFrame
<1> QED  BY <1>1, <1>2, <1>4, <1>5, <1>6 DEF IInv

\* The controller has no operation pending: no worker and no helper of its own.
LEMMA NothingPending == IInv /\ Running /\ guard.pending = "none" => ~HelperRuns("guard")
BY DEF IInv, WorkerOK, Running

\* Without a commit pending, the active table is the one of the last snapshot,
\* so that the journal may pass to any next phase.
LEMMA StageOK ==
  ASSUME IInv, Running, guard.pending # "commit", NEW phase \in Phase \ {"expired"}
  PROVE  JournalOK(Stage(journal, phase))
BY JournalNow DEF JournalOK, JournalRecord, Stage, IInv, TypeOK, PathTypeOK, PhaseOK, TablesOK,
       Running, LastPhase

LEMMA OpenEpisodeOK == ASSUME IInv, OpenEpisode, UNCHANGED takeoverVars PROVE IInv'
<1> DEFINE j == Stage(journal, "waiting")
           g == [guard EXCEPT !.candidate = NoInst, !.state = "waiting"]
<1> USE DEF OpenEpisode
<1>1. Running /\ ~HelperRuns("guard") /\ Quiet  BY NothingPending DEF Quiet
<1>2. JournalOK(j) /\ JournalOK(Stage(j, "verifying"))
  <2>1. JournalOK(j) /\ JournalOK(Stage(journal, "verifying"))
    BY <1>1, StageOK DEF Phase
  <2>2. Stage(j, "verifying") = Stage(journal, "verifying")
    BY DEF Stage, IInv, TypeOK, PathTypeOK, JournalRecord
  <2> QED  BY <2>1, <2>2
<1>3. guard \in GuardRecord /\ g \in GuardRecord
  BY DEF IInv, TypeOK, GuardTypeOK, GuardRecord, State
<1>4. CASE SubmitThrows(guard, j)  BY <1>1, <1>2, <1>3, <1>4, SubmitThrowsOK
<1>5. CASE SubmitVerify(j)
  <2>1. Stage(j, "verifying").phase = "verifying"
    BY <1>2 DEF JournalOK, JournalRecord, Stage
  <2> QED
    BY <1>1, <1>2, <1>3, <1>5, <2>1, SubmitOK DEF SubmitVerify, PhasesOf, Kind
<1> QED  BY <1>4, <1>5

LEMMA RetryVerifyOK == ASSUME IInv, RetryVerify, UNCHANGED takeoverVars PROVE IInv'
<1> USE DEF RetryVerify
<1>1. Running /\ ~HelperRuns("guard") /\ Quiet  BY NothingPending DEF Quiet
<1>2. JournalOK(Stage(journal, "verifying"))  BY <1>1, StageOK DEF Phase
<1>3. [guard EXCEPT !.candidate = NoInst] \in GuardRecord
  BY DEF IInv, TypeOK, GuardTypeOK, GuardRecord
<1>4. Stage(journal, "verifying").phase = "verifying"
  BY DEF IInv, TypeOK, PathTypeOK, JournalRecord, Stage
<1> QED  BY <1>1, <1>2, <1>3, <1>4, SubmitOK DEF PhasesOf, Kind

LEMMA LoopThrowsOK == ASSUME IInv, LoopThrows, UNCHANGED takeoverVars PROVE IInv'
<1> USE InstAssumption DEF LoopThrows, Fail, Running
<1>1. TypeOK'
  <2>1. guard' \in GuardRecord  BY DEF IInv, TypeOK, GuardTypeOK, GuardRecord, State
  <2> QED
    BY <2>1 DEF IInv, TypeOK, PathTypeOK, GuardTypeOK, TakeoverTypeOK, takeoverVars
<1>2. WorkerOK'
  BY DEF IInv, TypeOK, GuardTypeOK, GuardRecord, WorkerOK, HelperRuns
<1>3. PhaseOK'
  BY DEF IInv, TypeOK, GuardTypeOK, GuardRecord, PhaseOK, LastPhase, HelperRuns
<1>4. TablesOK'
  BY DEF IInv, TablesOK, LastPhase
<1>5. FenceOK' /\ TakeoverOK' /\ QueueOK' /\ TakeoverViewFresh' /\ QueueClaimHolds'
  BY JournalNow, OwnerFrame DEF JournalOK
<1> QED  BY <1>1, <1>2, <1>3, <1>4, <1>5 DEF IInv

\* The verified instance is written into the journal while nothing is loaded.
LEMMA ConsumeVerifyOK == ASSUME IInv, ConsumeVerify, UNCHANGED takeoverVars PROVE IInv'
<1> DEFINE i == worker.inst
           g == [Taken EXCEPT !.candidate = i, !.state = "verified"]
           intent == [Stage(journal, "load_intent") EXCEPT
                        !.previous = Digest(map.active),
                        !.candidate_table_digest = DevOf[i]]
<1>1. Polled /\ guard.pending = "verify" /\ worker.st = "ok" /\ Quiet
  BY DEF ConsumeVerify, Succeeded
<1>2. Running /\ ~HelperRuns("guard") /\ Taken \in GuardRecord
  BY <1>1, PolledQuiet, TakenOK
<1>3. worker.kind = "verify" /\ i \in Inst  BY <1>1 DEF IInv, WorkerOK
<1>4. CASE Reject(Taken)  BY <1>1, <1>4, RejectOK
<1>5. CASE SubmitThrows(Taken, journal)
  BY <1>1, <1>2, <1>5, JournalNow, SubmitThrowsOK
<1>6. CASE map.inactive = NoInst /\ Submit(g, intent, "load")
  <2>1. g \in GuardRecord /\ g.candidate = i
    BY <1>2, <1>3 DEF GuardRecord, State
  <2>2. JournalOK(Stage(journal, "load_intent"))
    BY <1>1, <1>2, StageOK DEF Phase
  <2>3. Digest(map.active) \in Dev /\ DevOf[i] \in Dev
    BY <1>3, InstAssumption DEF IInv, TypeOK, PathTypeOK, MapState, Digest
  <2>4. /\ intent \in JournalRecord /\ intent.phase = "load_intent"
        /\ intent.candidate_table_digest = DevOf[i]
        /\ intent.snapshot = Stage(journal, "load_intent").snapshot
        /\ intent.queue_disable = Stage(journal, "load_intent").queue_disable
        /\ Stage(journal, "load_intent").phase = "load_intent"
    BY <2>2, <2>3 DEF JournalOK, JournalRecord, Stage, IInv, TypeOK, PathTypeOK
  <2>5. JournalOK(intent)  BY <1>6, <2>2, <2>4 DEF JournalOK
  <2>6. "load" \in Kind /\ intent.phase \in PhasesOf("load")
    BY <2>4 DEF Kind, PhasesOf
  <2>7. g.candidate \in Inst /\ DevOf[g.candidate] = intent.candidate_table_digest
    BY <1>3, <2>1, <2>4
  <2> HIDE DEF g, intent
  <2> QED  BY <1>1, <1>2, <1>6, <2>1, <2>5, <2>6, <2>7, SubmitOK
<1> QED  BY <1>4, <1>5, <1>6 DEF ConsumeVerify

\* The operations after the load keep the credential of their predecessor.
LEMMA CandidateKept ==
  ASSUME IInv, Polled, guard.pending # "verify"
  PROVE  /\ guard.candidate \in Inst
         /\ DevOf[guard.candidate] = journal.candidate_table_digest
BY DEF IInv, Polled, Running, WorkerOK

\* Load and commit return the snapshot that they took of the map.
LEMMA SnapshotStageOK ==
  ASSUME IInv, Polled, worker.st = "ok", guard.pending \in {"load", "commit", "confirm"},
         NEW phase \in Phase \ {"expired"}
  PROVE  LET j == [Stage(journal, phase) EXCEPT !.snapshot = worker.snapshot]
         IN  JournalOK(j) /\ j.phase = phase
             /\ j.candidate_table_digest = journal.candidate_table_digest
<1>1. JournalOK(journal)  BY PolledQuiet, JournalNow
<1>2. worker.snapshot = DevOf[map.active] /\ DevOf[map.active] \in Dev
  BY InstAssumption DEF IInv, TypeOK, PathTypeOK, MapState, WorkerOK, Polled, Digest
<1> QED  BY <1>1, <1>2 DEF JournalOK, JournalRecord, Stage

LEMMA ConsumeLoadOK == ASSUME IInv, ConsumeLoad, UNCHANGED takeoverVars PROVE IInv'
<1> DEFINE j == [Stage(journal, "loaded") EXCEPT !.snapshot = worker.snapshot]
<1>1. /\ Polled /\ guard.pending = "load" /\ worker.st = "ok" /\ Quiet
      /\ Submit(Taken, j, "revalidate")
  BY DEF ConsumeLoad, Succeeded
<1>2. Running /\ ~HelperRuns("guard") /\ Taken \in GuardRecord  BY <1>1, PolledQuiet, TakenOK
<1>3. Taken.candidate \in Inst /\ DevOf[Taken.candidate] = journal.candidate_table_digest
  BY <1>1, TakenOK, CandidateKept
<1>4. /\ JournalOK(j) /\ j.phase = "loaded"
      /\ j.candidate_table_digest = journal.candidate_table_digest
  BY <1>1, SnapshotStageOK DEF Phase
<1>5. "revalidate" \in Kind /\ j.phase \in PhasesOf("revalidate")
  BY <1>4 DEF Kind, PhasesOf
<1> HIDE DEF j
<1> QED  BY <1>1, <1>2, <1>3, <1>4, <1>5, SubmitOK

LEMMA ConsumeRevalidateOK == ASSUME IInv, ConsumeRevalidate, UNCHANGED takeoverVars PROVE IInv'
<1> DEFINE j == Stage(journal, "commit_intent")
<1>1. /\ Polled /\ guard.pending = "revalidate" /\ Quiet /\ Submit(Taken, j, "commit")
  BY DEF ConsumeRevalidate, Succeeded
<1>2. Running /\ ~HelperRuns("guard") /\ Taken \in GuardRecord  BY <1>1, PolledQuiet, TakenOK
<1>3. Taken.candidate \in Inst /\ DevOf[Taken.candidate] = journal.candidate_table_digest
  BY <1>1, TakenOK, CandidateKept
<1>4. JournalOK(j)  BY <1>1, <1>2, StageOK DEF Phase
<1>5. j.phase = "commit_intent" /\ j.candidate_table_digest = journal.candidate_table_digest
  BY DEF Stage, IInv, TypeOK, PathTypeOK, JournalRecord
<1>6. "commit" \in Kind /\ j.phase \in PhasesOf("commit")  BY <1>5 DEF Kind, PhasesOf
<1> HIDE DEF j
<1> QED  BY <1>1, <1>2, <1>3, <1>4, <1>5, <1>6, SubmitOK

LEMMA ConsumeCommitOK == ASSUME IInv, ConsumeCommit, UNCHANGED takeoverVars PROVE IInv'
<1> DEFINE g == [Taken EXCEPT !.current = guard.candidate]
           j == [Stage(journal, "committed") EXCEPT !.snapshot = worker.snapshot]
<1>1. /\ Polled /\ guard.pending = "commit" /\ worker.st = "ok" /\ Quiet
      /\ Submit(g, j, "preprobe")
  BY DEF ConsumeCommit, Succeeded
<1>2. Running /\ ~HelperRuns("guard")  BY <1>1, PolledQuiet
<1>3. guard.candidate \in Inst /\ DevOf[guard.candidate] = journal.candidate_table_digest
  BY <1>1, CandidateKept
<1>4. g \in GuardRecord /\ g.candidate = guard.candidate
  BY <1>3, TakenOK DEF GuardRecord
<1>5. /\ JournalOK(j) /\ j.phase = "committed"
      /\ j.candidate_table_digest = journal.candidate_table_digest
  BY <1>1, SnapshotStageOK DEF Phase
<1>6. "preprobe" \in Kind /\ j.phase \in PhasesOf("preprobe")  BY <1>5 DEF Kind, PhasesOf
<1> HIDE DEF g, j
<1> QED  BY <1>1, <1>2, <1>3, <1>4, <1>5, <1>6, SubmitOK

LEMMA ConsumePreprobeOK == ASSUME IInv, ConsumePreprobe, UNCHANGED takeoverVars PROVE IInv'
<1> DEFINE intent == Stage(journal, "probe_intent")
           probing == Stage(intent, "probing")
           g == [Taken EXCEPT !.state = "probing"]
           dropped == [Taken EXCEPT !.pending = "probe"]
<1>1. Polled /\ guard.pending = "preprobe" /\ Quiet
  BY DEF ConsumePreprobe, Succeeded
<1>2. Running /\ ~HelperRuns("guard") /\ Taken \in GuardRecord  BY <1>1, PolledQuiet, TakenOK
<1>3. guard.candidate \in Inst /\ DevOf[guard.candidate] = journal.candidate_table_digest
  BY <1>1, CandidateKept
<1>4. /\ g \in GuardRecord /\ g.candidate = guard.candidate
      /\ dropped \in GuardRecord /\ dropped.pending = "probe"
  BY <1>2, TakenOK DEF GuardRecord, State, Kind
<1>5. JournalOK(intent) /\ JournalOK(probing)
  <2>1. JournalOK(intent) /\ JournalOK(Stage(journal, "probing"))
    BY <1>1, <1>2, StageOK DEF Phase
  <2>2. probing = Stage(journal, "probing")
    BY DEF Stage, IInv, TypeOK, PathTypeOK, JournalRecord
  <2> QED  BY <2>1, <2>2
<1>6. /\ intent.phase = "probe_intent" /\ probing.phase = "probing"
      /\ intent.candidate_table_digest = journal.candidate_table_digest
      /\ probing.candidate_table_digest = journal.candidate_table_digest
  BY DEF Stage, IInv, TypeOK, PathTypeOK, JournalRecord
<1>7. /\ "probe" \in Kind /\ probing.phase \in PhasesOf("probe")
      /\ intent.phase \in PhasesOf("probe")
  BY <1>6 DEF Kind, PhasesOf
<1>8. CASE Started(g, probing, "probe")
  <2> HIDE DEF g, probing, intent
  <2> QED  BY <1>1, <1>2, <1>3, <1>4, <1>5, <1>6, <1>7, <1>8, StartedOK
<1>9. CASE SubmitLate(Taken, intent) \/ SubmitThrows(Taken, intent)
  <2> HIDE DEF intent
  <2> QED  BY <1>1, <1>2, <1>5, <1>9, SubmitLateOK, SubmitThrowsOK
<1>10. ASSUME NEW j \in {intent, probing}, Fail(dropped, j), UNCHANGED deadline,
              worker' = [Idle EXCEPT !.kind = "probe", !.st = "start", !.inst = guard.candidate]
       PROVE  IInv'
  <2> HIDE DEF g, probing, intent, dropped
  <2> USE <1>10, InstAssumption DEF Quiet, Fail
  <2>1. TypeOK'
    <3>1. guard' \in GuardRecord  BY <1>4 DEF GuardRecord, State
    <3>2. worker' \in WorkerRecord  BY <1>3 DEF WorkerRecord, Idle, Kind
    <3>3. PathTypeOK'  BY <1>1, <1>5 DEF IInv, TypeOK, PathTypeOK, JournalOK
    <3> QED
      BY <1>1, <3>1, <3>2, <3>3 DEF IInv, TypeOK, GuardTypeOK, TakeoverTypeOK, takeoverVars
  <2>2. WorkerOK'
    BY <1>1, <1>2, <1>3, <1>4, <1>6 DEF WorkerOK, HelperRuns, Idle, GuardRecord, Running
  <2>3. PhaseOK'
    BY <1>1, <1>2, <1>4, <1>5, <1>6, <1>7
    DEF PhaseOK, LastPhase, JournalOK, HelperRuns, Idle, GuardRecord, Running
  <2>4. TablesOK'  BY <1>1, <1>5 DEF TablesOK, LastPhase, JournalOK
  <2>5. FenceOK' /\ TakeoverOK' /\ QueueOK' /\ TakeoverViewFresh' /\ QueueClaimHolds'
    BY <1>1, <1>2, <1>5, OwnerFrame DEF JournalOK, Running
  <2> QED  BY <2>1, <2>2, <2>3, <2>4, <2>5 DEF IInv
<1> QED  BY <1>8, <1>9, <1>10 DEF ConsumePreprobe

LEMMA ConsumeProbeOK == ASSUME IInv, ConsumeProbe, UNCHANGED takeoverVars PROVE IInv'
<1> DEFINE j == Stage(journal, "confirming")
<1>1. Polled /\ guard.pending = "probe" /\ Quiet
  BY DEF ConsumeProbe, Succeeded
<1>2. CASE Reject(Taken)  BY <1>1, <1>2, RejectOK
<1>3. CASE Submit(Taken, j, "confirm")
  <2>1. Running /\ ~HelperRuns("guard") /\ Taken \in GuardRecord  BY <1>1, PolledQuiet, TakenOK
  <2>2. Taken.candidate \in Inst /\ DevOf[Taken.candidate] = journal.candidate_table_digest
    BY <1>1, TakenOK, CandidateKept
  <2>3. JournalOK(j)  BY <1>1, <2>1, StageOK DEF Phase
  <2>4. j.phase = "confirming" /\ j.candidate_table_digest = journal.candidate_table_digest
    BY DEF Stage, IInv, TypeOK, PathTypeOK, JournalRecord
  <2>5. "confirm" \in Kind /\ j.phase \in PhasesOf("confirm")  BY <2>4 DEF Kind, PhasesOf
  <2> HIDE DEF j
  <2> QED  BY <1>1, <1>3, <2>1, <2>2, <2>3, <2>4, <2>5, SubmitOK
<1> QED  BY <1>2, <1>3 DEF ConsumeProbe

LEMMA ConsumeConfirmOK == ASSUME IInv, ConsumeConfirm, UNCHANGED takeoverVars PROVE IInv'
<1> DEFINE j == [Stage(journal, "ready") EXCEPT !.snapshot = worker.snapshot]
<1>1. /\ Polled /\ guard.pending = "confirm" /\ worker.st = "ok" /\ Quiet
      /\ journal' = j /\ deadline' = "none" /\ worker' = Idle
      /\ guard' = [Taken EXCEPT !.candidate = NoInst, !.state = "ready"]
  BY DEF ConsumeConfirm, Succeeded
<1>2. up /\ Running /\ ~HelperRuns("guard") /\ Taken \in GuardRecord
  BY <1>1, PolledQuiet, TakenOK
<1>3. JournalOK(j) /\ j.phase = "ready"  BY <1>1, SnapshotStageOK DEF Phase
<1> HIDE DEF j
<1> USE <1>1, <1>2 DEF Quiet
<1>4. TypeOK'
  <2>1. guard' \in GuardRecord  BY DEF GuardRecord, State
  <2>2. worker' \in WorkerRecord  BY DEF WorkerRecord, Idle
  <2>3. PathTypeOK'  BY <1>3 DEF IInv, TypeOK, PathTypeOK, JournalOK
  <2> QED
    BY <2>1, <2>2, <2>3 DEF IInv, TypeOK, GuardTypeOK, TakeoverTypeOK, takeoverVars
<1>5. WorkerOK'  BY DEF IInv, WorkerOK, HelperRuns, Idle
<1>6. PhaseOK'  BY <1>3 DEF PhaseOK, LastPhase, HelperRuns, Idle
<1>7. TablesOK'  BY <1>3 DEF TablesOK, LastPhase, JournalOK
<1>8. FenceOK' /\ TakeoverOK' /\ QueueOK' /\ TakeoverViewFresh' /\ QueueClaimHolds'
  BY <1>3, OwnerFrame DEF JournalOK
<1> QED  BY <1>4, <1>5, <1>6, <1>7, <1>8 DEF IInv

LEMMA ConsumeErrorOK == ASSUME IInv, ConsumeError, UNCHANGED takeoverVars PROVE IInv'
<1>1. Polled /\ Quiet  BY DEF ConsumeError
<1>2. Running /\ ~HelperRuns("guard") /\ Taken \in GuardRecord /\ JournalOK(journal)
  BY <1>1, PolledQuiet, TakenOK, JournalNow
<1>3. CASE guard.pending = "verify" /\ Reject(Taken)  BY <1>1, <1>3, RejectOK
<1>4. CASE SubmitThrows(Taken, journal)  BY <1>1, <1>2, <1>4, SubmitThrowsOK
<1> QED  BY <1>3, <1>4 DEF ConsumeError

LEMMA ConsumeLostOK ==
  ASSUME IInv, ConsumeThrows \/ ConsumeLate, UNCHANGED takeoverVars PROVE IInv'
<1>1. Polled /\ Quiet  BY DEF ConsumeThrows, ConsumeLate
<1>2. Running /\ ~HelperRuns("guard") /\ Taken \in GuardRecord /\ JournalOK(journal)
  BY <1>1, PolledQuiet, TakenOK, JournalNow
<1> QED  BY <1>1, <1>2, SubmitThrowsOK, SubmitLateOK DEF ConsumeThrows, ConsumeLate

LEMMA StepOK == ASSUME IInv, Step, UNCHANGED takeoverVars PROVE IInv'
BY StepExpiresOK, OpenEpisodeOK, RetryVerifyOK, LoopThrowsOK, ConsumeVerifyOK, ConsumeLoadOK,
   ConsumeRevalidateOK, ConsumeCommitOK, ConsumePreprobeOK, ConsumeProbeOK, ConsumeConfirmOK,
   ConsumeErrorOK, ConsumeLostOK DEF Step

-----------------------------------------------------------------------------
(* The worker thread and the end of the process.                             *)

\* A worker that changes only its own record and the map's failed flag.
LEMMA WorkerFrame ==
  ASSUME IInv, up, WorkerQuiet, UNCHANGED <<helper, takeoverVars>>,
         map' \in MapState, UNCHANGED <<map.active, map.inactive, map.queue>>,
         worker' \in WorkerRecord, worker.st \in {"start", "cleared"},
         worker'.kind = worker.kind, worker'.st \in {"cleared", "ok", "error"},
         worker'.st = "cleared" => worker.kind \in {"load", "commit"},
         worker.kind # "verify" => worker'.inst = worker.inst,
         worker'.st = "ok" /\ worker.kind = "verify" => worker'.inst \in Inst,
         worker'.st = "ok" /\ worker.kind \in {"load", "commit", "confirm"} =>
           worker'.snapshot = Digest(map.active)
  PROVE  IInv'
<1> USE DEF WorkerQuiet
<1>1. TypeOK'
  BY DEF IInv, TypeOK, PathTypeOK, GuardTypeOK, TakeoverTypeOK, takeoverVars
<1>2. WorkerOK'
  BY DEF IInv, WorkerOK, HelperRuns, Running, Digest
<1>3. PhaseOK'
  BY DEF IInv, PhaseOK, LastPhase, HelperRuns, Running
<1>4. TablesOK'
  BY DEF IInv, TablesOK, LastPhase
<1>5. FenceOK' /\ TakeoverOK' /\ QueueOK' /\ TakeoverViewFresh' /\ QueueClaimHolds'
  BY DEF IInv, FenceOK, TakeoverOK, QueueOK, TakeoverViewFresh, QueueClaimHolds, TakeoverOwns,
         HelperRuns, takeoverVars, Digest
<1> QED  BY <1>1, <1>2, <1>3, <1>4, <1>5 DEF IInv

LEMMA WorkerTypes ==
  IInv => /\ worker \in WorkerRecord /\ map \in MapState /\ journal \in JournalRecord
          /\ guard \in GuardRecord /\ helper \in [Role -> HelperState]
          /\ tk \in [pc : TkPc, view : View] /\ plugged \in [Inst -> {"absent", "present", "gone"}]
          /\ Digest(map.active) = DevOf[map.active] /\ DevOf[map.active] \in Dev
BY InstAssumption DEF IInv, TypeOK, PathTypeOK, GuardTypeOK, TakeoverTypeOK, MapState, Digest

LEMMA VerifyAdmitsOK == ASSUME IInv, VerifyAdmits, UNCHANGED takeoverVars PROVE IInv'
<1> USE DEF VerifyAdmits, Working
<1>1. PICK i \in Genuine : worker' = [worker EXCEPT !.st = "ok", !.inst = i]  OBVIOUS
<1>2. i \in Inst  BY InstAssumption
<1>3. /\ worker' \in WorkerRecord /\ worker'.kind = worker.kind /\ worker'.st = "ok"
      /\ worker'.inst = i
  BY <1>1, <1>2, WorkerTypes DEF WorkerRecord
<1> QED  BY <1>2, <1>3, WorkerTypes, WorkerFrame

LEMMA ClearMutationOK == ASSUME IInv, ClearMutation, UNCHANGED takeoverVars PROVE IInv'
<1> USE DEF ClearMutation, Working, Finish
<1>1. /\ worker' \in WorkerRecord /\ worker'.kind = worker.kind /\ worker'.st = "cleared"
      /\ worker'.inst = worker.inst
  BY WorkerTypes DEF WorkerRecord
<1> QED  BY <1>1, WorkerTypes, WorkerFrame

LEMMA RecheckOK == ASSUME IInv, Recheck, UNCHANGED takeoverVars PROVE IInv'
<1> USE DEF Recheck, Working, Finish
<1>1. /\ worker' \in WorkerRecord /\ worker'.kind = worker.kind /\ worker'.st = "ok"
      /\ worker'.inst = worker.inst
  BY WorkerTypes DEF WorkerRecord
<1> QED  BY <1>1, WorkerTypes, WorkerFrame

LEMMA ProbePathOK == ASSUME IInv, ProbePath, UNCHANGED takeoverVars PROVE IInv'
<1> USE DEF ProbePath, Working, Finish
<1>1. /\ worker' \in WorkerRecord /\ worker'.kind = worker.kind /\ worker'.st = "ok"
      /\ worker'.inst = worker.inst
  BY WorkerTypes DEF WorkerRecord
<1>2. map' \in MapState /\ UNCHANGED <<map.active, map.inactive, map.queue>>
  BY WorkerTypes DEF MapState
<1> QED  BY <1>1, <1>2, WorkerFrame

LEMMA ConfirmOK == ASSUME IInv, Confirm, UNCHANGED takeoverVars PROVE IInv'
<1> USE DEF Confirm, Working
<1>1. /\ worker' \in WorkerRecord /\ worker'.kind = worker.kind /\ worker'.st = "ok"
      /\ worker'.inst = worker.inst /\ worker'.snapshot = Digest(map.active)
  BY WorkerTypes DEF WorkerRecord
<1> QED  BY <1>1, WorkerTypes, WorkerFrame

LEMMA WorkerFailsOK == ASSUME IInv, WorkerFails, UNCHANGED takeoverVars PROVE IInv'
<1> USE DEF WorkerFails, Finish
<1>1. /\ worker' \in WorkerRecord /\ worker'.kind = worker.kind /\ worker'.st = "error"
      /\ worker'.inst = worker.inst
  BY WorkerTypes DEF WorkerRecord
<1> QED  BY <1>1, WorkerTypes, WorkerFrame

\* A worker starts its helper under the phase that announces it.
LEMMA StartMutationOK ==
  ASSUME IInv, StartLoad \/ StartCommit, UNCHANGED takeoverVars PROVE IInv'
<1> DEFINE op  == IF worker.kind = "load" THEN "load" ELSE "resume"
           dev == IF worker.kind = "load" THEN DevOf[worker.inst] ELSE NoDev
<1>1. /\ up /\ worker.kind \in {"load", "commit"} /\ worker.st = "cleared"
      /\ Spawn("guard", op, dev) /\ worker' = [worker EXCEPT !.st = "helper"]
      /\ UNCHANGED <<up, guard, deadline, plugged, journal, map>>
  BY DEF StartLoad, StartCommit, Cleared, Finish, WorkerQuiet
<1>2. /\ worker.inst \in Inst /\ DevOf[worker.inst] = journal.candidate_table_digest
      /\ ~HelperRuns("guard") /\ worker.kind = guard.pending
  BY <1>1 DEF IInv, WorkerOK
<1>3. op \in Op /\ dev \in Dev \cup {NoDev}  BY <1>2, InstAssumption DEF Op
<1>4. /\ worker.kind = "load" => op = "load" /\ dev = journal.candidate_table_digest
      /\ worker.kind # "load" => op = "resume"
  BY <1>2
<1> HIDE DEF op, dev
<1>5. /\ helper' \in [Role -> HelperState] /\ helper'["takeover"] = helper["takeover"]
      /\ helper'["guard"].op = op /\ helper'["guard"].dev = dev
      /\ helper'["guard"].st = "running"
  BY <1>1, <1>3, WorkerTypes DEF Role, HelperState, Spawn
<1>6. /\ worker' \in WorkerRecord /\ worker'.kind = worker.kind /\ worker'.st = "helper"
      /\ worker'.inst = worker.inst
  BY <1>1, WorkerTypes DEF WorkerRecord
<1>7. TypeOK'
  BY <1>1, <1>5, <1>6 DEF IInv, TypeOK, PathTypeOK, GuardTypeOK, TakeoverTypeOK, takeoverVars
<1>8. WorkerOK'
  BY <1>1, <1>2, <1>4, <1>5, <1>6 DEF IInv, WorkerOK, HelperRuns, Running
<1>9. PhaseOK'
  BY <1>1, <1>2, <1>4, <1>5, <1>6
  DEF IInv, WorkerOK, PhaseOK, PhasesOf, LastPhase, HelperRuns, Running
<1>10. TablesOK'
  BY <1>1 DEF IInv, TablesOK, LastPhase
<1>11. FenceOK' /\ TakeoverOK' /\ QueueOK' /\ TakeoverViewFresh' /\ QueueClaimHolds'
  BY <1>1, <1>5 DEF IInv, FenceOK, TakeoverOK, QueueOK, TakeoverViewFresh, QueueClaimHolds,
         TakeoverOwns, HelperRuns, takeoverVars, Digest
<1> QED  BY <1>7, <1>8, <1>9, <1>10, <1>11 DEF IInv

\* The helper is reaped; what it left in the kernel is what the snapshot shows.
LEMMA ReapHelperOK == ASSUME IInv, ReapHelper, UNCHANGED takeoverVars PROVE IInv'
<1> USE DEF ReapHelper, Finish, WorkerQuiet
<1>1. "guard" \in Role /\ NoHelper \in HelperState /\ NoHelper.st = "none"
  BY DEF Role, NoHelper, HelperState
<1>2. /\ helper' \in [Role -> HelperState] /\ helper'["takeover"] = helper["takeover"]
      /\ helper'["guard"].st = "none"
  BY <1>1, WorkerTypes DEF Role
<1>3. /\ worker' \in WorkerRecord /\ worker'.kind = worker.kind /\ worker'.inst = worker.inst
      /\ worker'.st \in {"ok", "error"}
      /\ worker'.st = "ok" => worker'.snapshot = Digest(map.active)
  BY WorkerTypes DEF WorkerRecord
<1>4. TypeOK'
  BY <1>2, <1>3 DEF IInv, TypeOK, PathTypeOK, GuardTypeOK, TakeoverTypeOK, takeoverVars
<1>5. WorkerOK'
  BY <1>2, <1>3 DEF IInv, WorkerOK, HelperRuns, Running, Digest
<1>6. PhaseOK'
  BY <1>2, <1>3 DEF IInv, PhaseOK, LastPhase, HelperRuns, Running
<1>7. TablesOK'
  BY DEF IInv, TablesOK, LastPhase
<1>8. FenceOK' /\ TakeoverOK' /\ QueueOK' /\ TakeoverViewFresh' /\ QueueClaimHolds'
  BY <1>2 DEF IInv, FenceOK, TakeoverOK, QueueOK, TakeoverViewFresh, QueueClaimHolds,
         TakeoverOwns, HelperRuns, takeoverVars, Digest
<1> QED  BY <1>4, <1>5, <1>6, <1>7, <1>8 DEF IInv

LEMMA WorkOK == ASSUME IInv, Work, UNCHANGED takeoverVars PROVE IInv'
BY VerifyAdmitsOK, ClearMutationOK, StartMutationOK, ReapHelperOK, RecheckOK, ProbePathOK, ConfirmOK,
   WorkerFailsOK DEF Work

LEMMA GuardDiesOK == ASSUME IInv, GuardDies, UNCHANGED takeoverVars PROVE IInv'
<1> USE DEF GuardDies
<1>1. TypeOK'
  BY DEF IInv, TypeOK, PathTypeOK, GuardTypeOK, TakeoverTypeOK, takeoverVars, Idle, WorkerRecord
<1>2. WorkerOK' /\ PhaseOK' /\ TablesOK'
  BY DEF IInv, WorkerOK, PhaseOK, TablesOK, LastPhase, HelperRuns, Running, Idle
<1>3. FenceOK' /\ TakeoverOK' /\ QueueOK' /\ TakeoverViewFresh' /\ QueueClaimHolds'
  BY DEF IInv, FenceOK, TakeoverOK, QueueOK, TakeoverViewFresh, QueueClaimHolds, TakeoverOwns,
         HelperRuns, takeoverVars, Digest
<1> QED  BY <1>1, <1>2, <1>3 DEF IInv

-----------------------------------------------------------------------------
(* Disks, helpers and the takeover.                                          *)

\* A step of the environment that spares the tables' identity.
LEMMA EnvironmentOK == ASSUME IInv, Environment PROVE IInv'
<1> USE DEF Environment, guardVars
<1>1. /\ map' \in MapState /\ UNCHANGED <<map.active, map.inactive, map.queue>>
      /\ plugged' \in [Inst -> {"absent", "present", "gone"}]
      /\ UNCHANGED <<helper, journal, up, guard, worker, takeoverVars>>
      /\ deadline' \in {"none", "running", "passed"}
  BY WorkerTypes
  DEF Plug, Unplug, PathFails, ExternalSuspend, DeadlinePasses, MapState, IInv, TypeOK,
      GuardTypeOK
<1>2. TypeOK'
  BY <1>1 DEF IInv, TypeOK, PathTypeOK, GuardTypeOK, TakeoverTypeOK, takeoverVars
<1>3. WorkerOK' /\ PhaseOK' /\ TablesOK'
  BY <1>1 DEF IInv, WorkerOK, PhaseOK, TablesOK, LastPhase, HelperRuns, Running, Digest
<1>4. FenceOK' /\ TakeoverOK' /\ QueueOK' /\ TakeoverViewFresh' /\ QueueClaimHolds'
  BY <1>1 DEF IInv, FenceOK, TakeoverOK, QueueOK, TakeoverViewFresh, QueueClaimHolds,
         TakeoverOwns, HelperRuns, takeoverVars, Digest
<1> QED  BY <1>2, <1>3, <1>4 DEF IInv

\* What an effect can do to the tables.
LEMMA EffectOn ==
  ASSUME IInv, NEW h \in HelperState, Effect(h)
  PROVE  /\ map' \in MapState
         /\ map'.active # map.active =>
              h.op = "resume" /\ map.inactive # NoInst /\ map'.active = map.inactive
         /\ map'.inactive # NoInst =>
              \/ map'.inactive = map.inactive /\ h.op # "clear" /\ h.op # "resume"
              \/ h.op = "load" /\ map'.inactive \in Inst /\ DevOf[map'.inactive] = h.dev
         /\ map'.queue /\ ~map.queue => h.op = "resume" /\ map.inactive # NoInst
         /\ h.op = "message" => ~map'.queue
<1> USE WorkerTypes, InstAssumption DEF Effect, MapState
<1>1. CASE h.op = "load" /\ LoadTable(h.dev)
  <2>1. PICK i \in Bound(h.dev) : map' = [map EXCEPT !.inactive = i]
    BY <1>1 DEF LoadTable
  <2>2. i \in Inst /\ DevOf[i] = h.dev  BY <2>1 DEF Bound
  <2> QED  BY <1>1, <2>1, <2>2
<1>2. CASE h.op = "resume" /\ SwapTables  BY <1>2 DEF SwapTables
<1>3. CASE h.op = "clear" /\ map' = [map EXCEPT !.inactive = NoInst]  BY <1>3
<1>4. CASE h.op = "message" /\ map' = [map EXCEPT !.queue = FALSE]  BY <1>4
<1> QED  BY <1>1, <1>2, <1>3, <1>4

\* The guard's helper ends, with or without its effect.
LEMMA GuardHelperOK ==
  ASSUME IInv, HelperWorks("guard") \/ HelperFails("guard"), UNCHANGED <<guardVars, takeoverVars>>
  PROVE  IInv'
<1> DEFINE h == helper["guard"]
<1>1. h \in HelperState /\ HelperRuns("guard")
  BY WorkerTypes DEF HelperWorks, HelperFails, Role
<1>2. /\ UNCHANGED <<plugged, journal, up, guard, deadline, worker, tk, crashes>>
      /\ \E st \in {"ok", "error"} : helper' = [helper EXCEPT !["guard"].st = st]
  BY DEF HelperWorks, HelperFails, Exits, guardVars, takeoverVars
<1>3. /\ helper' \in [Role -> HelperState] /\ helper'["takeover"] = helper["takeover"]
      /\ helper'["guard"].st # "running" /\ helper'["guard"].op = helper["guard"].op
  BY <1>2, WorkerTypes DEF Role, HelperState
<1>4. /\ map' \in MapState
      /\ map'.active # map.active =>
           h.op = "resume" /\ map.inactive # NoInst /\ map'.active = map.inactive
      /\ map'.inactive # NoInst =>
           \/ map'.inactive = map.inactive
           \/ h.op = "load" /\ map'.inactive \in Inst /\ DevOf[map'.inactive] = h.dev
  <2>1. CASE Effect(h)  BY <1>1, <2>1, EffectOn
  <2>2. CASE map' = map  BY <2>2, WorkerTypes
  <2>3. CASE SwapFails  BY <2>3, WorkerTypes DEF SwapFails, MapState
  <2> QED  BY <2>1, <2>2, <2>3 DEF HelperWorks, HelperFails
<1>5. ~TakeoverOwns /\ ~HelperRuns("takeover") /\ journal.queue_disable # "completed_by_takeover"
  BY <1>1 DEF IInv, FenceOK
<1>6. TypeOK'
  BY <1>2, <1>3, <1>4 DEF IInv, TypeOK, PathTypeOK, GuardTypeOK, TakeoverTypeOK
<1>7. WorkerOK'
  BY <1>1, <1>2, <1>3 DEF IInv, WorkerOK, HelperRuns, Running
<1>8. PhaseOK'
  BY <1>2, <1>3 DEF IInv, PhaseOK, LastPhase, HelperRuns, Running
<1>9. TablesOK'
  <2>1. LastPhase' = LastPhase  BY <1>2 DEF LastPhase
  <2>2. map'.active # map.active =>
          /\ LastPhase = "commit_intent"
          /\ DevOf[map'.active] = journal.candidate_table_digest
    BY <1>1, <1>4 DEF IInv, PhaseOK, TablesOK
  <2>3. map'.inactive # NoInst => DevOf[map'.inactive] = journal.candidate_table_digest
    BY <1>1, <1>4 DEF IInv, PhaseOK, TablesOK
  <2> QED  BY <1>2, <2>1, <2>2, <2>3 DEF IInv, TablesOK
<1>10. FenceOK'
  BY <1>2, <1>3 DEF IInv, FenceOK, HelperRuns, TakeoverOwns
<1>11. TakeoverOK' /\ QueueOK' /\ TakeoverViewFresh' /\ QueueClaimHolds'
  BY <1>2, <1>3, <1>5 DEF IInv, TakeoverOK, QueueOK, TakeoverViewFresh, QueueClaimHolds,
         TakeoverOwns, HelperRuns
<1> QED  BY <1>6, <1>7, <1>8, <1>9, <1>10, <1>11 DEF IInv

\* The takeover's helper ends: it neither switches nor loads anything.
LEMMA TakeoverHelperOK ==
  ASSUME IInv, HelperWorks("takeover") \/ HelperFails("takeover"),
         UNCHANGED <<guardVars, takeoverVars>>
  PROVE  IInv'
<1> DEFINE h == helper["takeover"]
<1>1. h \in HelperState /\ HelperRuns("takeover")
  BY WorkerTypes DEF HelperWorks, HelperFails, Role
<1>2. /\ UNCHANGED <<plugged, journal, up, guard, deadline, worker, tk, crashes>>
      /\ \E st \in {"ok", "error"} : helper' = [helper EXCEPT !["takeover"].st = st]
  BY DEF HelperWorks, HelperFails, Exits, guardVars, takeoverVars
<1>3. /\ helper' \in [Role -> HelperState] /\ helper'["guard"] = helper["guard"]
      /\ helper'["takeover"].st # "running" /\ helper'["takeover"].op = helper["takeover"].op
  BY <1>2, WorkerTypes DEF Role, HelperState
<1>4. /\ h.op \in {"clear", "resume", "message"}
      /\ h.op = "resume" => map.inactive = NoInst
      /\ ~up /\ ~HelperRuns("guard") /\ worker.st = "idle"
      /\ TakeoverOwns => h.op = tk.pc
  BY <1>1 DEF IInv, TakeoverOK, FenceOK, WorkerOK, HelperRuns
<1>5. /\ map' \in MapState /\ map'.active = map.active
      /\ map'.inactive \in {map.inactive, NoInst}
      /\ map'.queue => map.queue
      /\ helper'["takeover"].st = "ok" =>
           /\ h.op = "clear" => map'.inactive = NoInst
           /\ h.op = "message" => ~map'.queue
  <2>1. CASE Effect(h)
    <3>1. h.op = "clear" => map'.inactive = NoInst
      BY <1>1, <2>1, WorkerTypes DEF Effect, MapState
    <3>2. map.queue \in BOOLEAN  BY WorkerTypes DEF MapState
    <3> QED  BY <1>1, <1>4, <2>1, <3>1, <3>2, EffectOn
  <2>2. CASE HelperFails("takeover")
    <3>1. helper'["takeover"].st = "error"
      BY <2>2, WorkerTypes DEF HelperFails, Exits, Role, HelperState
    <3> QED  BY <1>4, <2>2, <3>1, WorkerTypes DEF HelperFails, SwapFails
  <2> QED  BY <2>1, <2>2 DEF HelperWorks
<1>6. TypeOK'
  BY <1>2, <1>3, <1>5 DEF IInv, TypeOK, PathTypeOK, GuardTypeOK, TakeoverTypeOK
<1>7. WorkerOK' /\ PhaseOK'
  BY <1>2, <1>3, <1>4 DEF IInv, WorkerOK, PhaseOK, LastPhase, HelperRuns, Running
<1>8. TablesOK'
  BY <1>2, <1>5 DEF IInv, TablesOK, LastPhase
<1>9. FenceOK'
  BY <1>2, <1>3, <1>4 DEF IInv, FenceOK, HelperRuns, TakeoverOwns
<1>10. TakeoverOK' /\ QueueOK'
  BY <1>2, <1>3, <1>4, <1>5 DEF IInv, TakeoverOK, QueueOK, TakeoverOwns, HelperRuns
<1>11. TakeoverViewFresh' /\ QueueClaimHolds'
  BY <1>2, <1>5, InstAssumption DEF IInv, TakeoverViewFresh, QueueClaimHolds, TakeoverOwns, Digest
<1> QED  BY <1>6, <1>7, <1>8, <1>9, <1>10, <1>11 DEF IInv

\* A takeover step that touches neither the tables nor the journal nor the
\* helpers keeps everything that is not about its own position.
LEMMA TakeoverFrame ==
  ASSUME IInv, UNCHANGED <<guardVars, plugged, map, journal>>,
         tk' \in [pc : TkPc, view : View], crashes' \in 0 .. MaxCrashes,
         helper' \in [Role -> HelperState], helper'["guard"] = helper["guard"],
         TakeoverOwns' \/ HelperRuns("takeover")' => ~up /\ ~HelperRuns("guard")
  PROVE  TypeOK' /\ WorkerOK' /\ PhaseOK' /\ TablesOK' /\ FenceOK' /\ QueueClaimHolds'
<1>1. TypeOK'
  BY DEF IInv, TypeOK, PathTypeOK, GuardTypeOK, TakeoverTypeOK, guardVars
<1>2. WorkerOK' /\ PhaseOK' /\ TablesOK'
  BY DEF IInv, WorkerOK, PhaseOK, TablesOK, LastPhase, HelperRuns, Running, Digest, guardVars
<1>3. FenceOK' /\ QueueClaimHolds'
  BY DEF IInv, FenceOK, QueueClaimHolds, HelperRuns, guardVars
<1> QED  BY <1>1, <1>2, <1>3

LEMMA NoHelperType == NoHelper \in HelperState /\ NoHelper.st = "none"
BY DEF NoHelper, HelperState

LEMMA NoViewType == NoView \in View
BY DEF NoView, View

LEMMA CrashType == IInv => crashes \in 0 .. MaxCrashes
BY DEF IInv, TypeOK, TakeoverTypeOK

\* The takeover goes to a state in which it does not hold the fence.
LEMMA TkOutside ==
  ASSUME IInv, TkStart \/ TkAgain \/ TkThrows \/ TkCrash, UNCHANGED guardVars PROVE IInv'
<1>1. /\ UNCHANGED <<plugged, map, journal, helper>>
      /\ tk' \in [pc : TkPc, view : View] /\ tk'.pc \in {"waiting", "blocked", "off"}
      /\ crashes' \in 0 .. MaxCrashes
  BY WorkerTypes, NoViewType, CrashType, CrashAssumption
  DEF TkStart, TkAgain, TkThrows, TkCrash, Goto, Leave, TkQuiet, TkPc
<1>2. ~TakeoverOwns'  BY <1>1 DEF TakeoverOwns
<1>3. TypeOK' /\ WorkerOK' /\ PhaseOK' /\ TablesOK' /\ FenceOK' /\ QueueClaimHolds'
  BY <1>1, <1>2, WorkerTypes, TakeoverFrame DEF HelperRuns, IInv, FenceOK
<1>4. TakeoverOK' /\ QueueOK' /\ TakeoverViewFresh'
  BY <1>1, <1>2 DEF IInv, TakeoverOK, QueueOK, TakeoverViewFresh, HelperRuns
<1> QED  BY <1>3, <1>4 DEF IInv

LEMMA TkAcquireOK == ASSUME IInv, TkAcquire(FenceFree), UNCHANGED guardVars PROVE IInv'
<1>1. ~up /\ ~HelperRuns("guard")  BY DEF TkAcquire, FenceFree, Role
<1>2. /\ UNCHANGED <<plugged, map, journal, crashes>>
      /\ tk' \in [pc : TkPc, view : View] /\ tk'.pc = "owned"
      /\ helper' \in [Role -> HelperState] /\ helper'["guard"] = helper["guard"]
      /\ helper'["takeover"].st = "none"
  BY WorkerTypes, NoHelperType DEF TkAcquire, Goto, TkQuiet, TkPc, Role
<1>3. TypeOK' /\ WorkerOK' /\ PhaseOK' /\ TablesOK' /\ FenceOK' /\ QueueClaimHolds'
  BY <1>1, <1>2, CrashType, TakeoverFrame
<1>4. TakeoverOK' /\ QueueOK' /\ TakeoverViewFresh'
  BY <1>2 DEF TakeoverOK, QueueOK, TakeoverViewFresh, HelperRuns
<1> QED  BY <1>3, <1>4 DEF IInv

\* The snapshot decides the first operation; it stays true because nobody else
\* may touch the tables any more.
LEMMA TkReadOK == ASSUME IInv, TkRead, UNCHANGED guardVars PROVE IInv'
<1> DEFINE v == [active |-> Digest(map.active), inactive |-> Digest(map.inactive),
                 suspended |-> map.suspended]
<1>1. TakeoverOwns /\ tk.pc = "owned"  BY DEF TkRead, TakeoverOwns
<1>2. ~up /\ ~HelperRuns("guard") /\ helper["takeover"].st = "none"
  BY <1>1 DEF IInv, FenceOK, TakeoverOK
<1>3. /\ v \in View /\ v.active = Digest(map.active) /\ v.inactive = Digest(map.inactive)
      /\ v.inactive = NoDev <=> map.inactive = NoInst
  BY WorkerTypes, InstAssumption DEF View, MapState, Digest
<1>4. /\ UNCHANGED <<plugged, map, journal, helper, crashes>>
      /\ tk' = [pc |-> FirstOp(v), view |-> v] \/ tk' = [pc |-> "blocked", view |-> NoView]
  BY DEF TkRead, TkQuiet, Leave
<1>5. /\ FirstOp(v) \in {"clear", "resume", "message"}
      /\ FirstOp(v) # "clear" => map.inactive = NoInst
  BY <1>3 DEF FirstOp
<1> HIDE DEF v
<1>6. /\ tk' \in [pc : TkPc, view : View] /\ tk'.pc \in {"clear", "resume", "message", "blocked"}
      /\ tk'.pc \in {"resume", "message"} => map.inactive = NoInst
      /\ tk'.pc # "blocked" => tk'.view = v
  BY <1>3, <1>4, <1>5, NoViewType DEF TkPc
<1>7. TypeOK' /\ WorkerOK' /\ PhaseOK' /\ TablesOK' /\ FenceOK' /\ QueueClaimHolds'
  BY <1>2, <1>4, <1>6, WorkerTypes, CrashType, TakeoverFrame
<1>8. TakeoverOK' /\ QueueOK'
  BY <1>2, <1>4, <1>6 DEF IInv, TakeoverOK, QueueOK, TakeoverOwns, HelperRuns
<1>9. TakeoverViewFresh'
  BY <1>3, <1>4, <1>6 DEF TakeoverViewFresh, TakeoverOwns, Digest
<1> QED  BY <1>7, <1>8, <1>9 DEF IInv

LEMMA TkSpawnOK == ASSUME IInv, TkSpawn, UNCHANGED guardVars PROVE IInv'
<1>1. TakeoverOwns /\ tk.pc \in {"clear", "resume", "message"}  BY DEF TkSpawn, TakeoverOwns
<1>2. ~up /\ ~HelperRuns("guard")  BY <1>1 DEF IInv, FenceOK
<1>3. /\ UNCHANGED <<plugged, map, journal, tk, crashes>>
      /\ helper' \in [Role -> HelperState] /\ helper'["guard"] = helper["guard"]
      /\ helper'["takeover"].st = "running" /\ helper'["takeover"].op = tk.pc
  BY <1>1, WorkerTypes DEF TkSpawn, Spawn, takeoverVars, Role, HelperState, Op
<1>4. TypeOK' /\ WorkerOK' /\ PhaseOK' /\ TablesOK' /\ FenceOK' /\ QueueClaimHolds'
  BY <1>2, <1>3, WorkerTypes, CrashType, TakeoverFrame
<1>5. TakeoverOK' /\ QueueOK' /\ TakeoverViewFresh'
  BY <1>1, <1>3 DEF IInv, TakeoverOK, QueueOK, TakeoverViewFresh, HelperRuns, TakeoverOwns, Digest
<1> QED  BY <1>4, <1>5 DEF IInv

\* An operation that succeeded has established what the next one relies on.
LEMMA TkReapOK == ASSUME IInv, TkReap, UNCHANGED guardVars PROVE IInv'
<1> DEFINE next == CASE tk.pc = "clear"   -> AfterClear(tk.view)
                     [] tk.pc = "resume"  -> "message"
                     [] tk.pc = "message" -> "final"
<1>1. /\ TakeoverOwns /\ tk.pc \in {"clear", "resume", "message"}
      /\ helper["takeover"].st \in {"ok", "error"}
  BY DEF TkReap, TakeoverOwns
<1>2. ~up /\ ~HelperRuns("guard")  BY <1>1 DEF IInv, FenceOK
<1>3. /\ UNCHANGED <<plugged, map, journal, crashes>>
      /\ helper' \in [Role -> HelperState] /\ helper'["guard"] = helper["guard"]
      /\ helper'["takeover"].st = "none"
  BY WorkerTypes, NoHelperType DEF TkReap, TkQuiet, Role
<1>4. \/ tk' = [pc |-> "blocked", view |-> NoView]
      \/ helper["takeover"].st = "ok" /\ tk' = [tk EXCEPT !.pc = next]
  BY <1>1 DEF TkReap, Leave, Goto
<1>5. /\ next \in {"resume", "message", "final"}
      /\ tk.pc \in {"clear", "resume"} => next # "final"
  BY <1>1 DEF AfterClear
<1> HIDE DEF next
<1>6. /\ tk' \in [pc : TkPc, view : View]
      /\ tk'.pc \in {"resume", "message", "final", "blocked"}
      /\ tk'.pc # "blocked" =>
           /\ tk'.view = tk.view /\ helper["takeover"].st = "ok"
           /\ tk'.pc = "final" => tk.pc = "message"
  BY <1>1, <1>4, <1>5, WorkerTypes, NoViewType DEF TkPc
<1>7. TypeOK' /\ WorkerOK' /\ PhaseOK' /\ TablesOK' /\ FenceOK' /\ QueueClaimHolds'
  BY <1>2, <1>3, <1>6, CrashType, TakeoverFrame
<1>8. TakeoverOK' /\ QueueOK'
  BY <1>1, <1>3, <1>6 DEF IInv, TakeoverOK, QueueOK, TakeoverOwns, HelperRuns
<1>9. TakeoverViewFresh'
  BY <1>1, <1>3, <1>6 DEF IInv, TakeoverViewFresh, TakeoverOwns, Digest
<1> QED  BY <1>7, <1>8, <1>9 DEF IInv

\* The journal is closed on tables that the takeover has settled.
LEMMA TkFinishOK == ASSUME IInv, TkFinish, UNCHANGED guardVars PROVE IInv'
<1> USE DEF guardVars
<1>1. TakeoverOwns /\ tk.pc = "final"  BY DEF TkFinish, TakeoverOwns
<1>2. /\ ~up /\ ~HelperRuns("guard") /\ map.inactive = NoInst /\ ~map.queue
      /\ helper["takeover"].st = "none" /\ worker.st = "idle"
  BY <1>1 DEF IInv, FenceOK, TakeoverOK, QueueOK, WorkerOK
<1>3. /\ UNCHANGED <<plugged, map, helper, crashes>>
      /\ tk'.pc \in {"done", "blocked"} /\ tk' \in [pc : TkPc, view : View]
  BY NoViewType DEF TkFinish, Leave, TkPc
<1>4. ~TakeoverOwns'  BY <1>3 DEF TakeoverOwns
<1>5. /\ journal' \in JournalRecord
      /\ \/ journal' = journal
         \/ journal'.snapshot = DevOf[map.active]
  <2>1. CASE journal' = journal  BY <2>1, WorkerTypes
  <2>2. CASE journal' = [journal EXCEPT
                    !.phase = IF journal.phase = "expired" THEN "expired" ELSE "interrupted",
                    !.snapshot = Digest(map.active),
                    !.queue_disable = "completed_by_takeover"]
    BY <2>2, WorkerTypes DEF JournalRecord, Phase
  <2> QED  BY <2>1, <2>2 DEF TkFinish
<1>6. TypeOK'
  BY <1>3, <1>5 DEF IInv, TypeOK, PathTypeOK, GuardTypeOK, TakeoverTypeOK
<1>7. WorkerOK' /\ PhaseOK'
  BY <1>2, <1>3 DEF WorkerOK, PhaseOK, HelperRuns, Running
<1>8. TablesOK'
  <2>1. CASE journal' = journal  BY <1>3, <2>1 DEF IInv, TablesOK, LastPhase
  <2>2. CASE journal'.snapshot = DevOf[map.active]  BY <1>2, <1>3, <2>2 DEF TablesOK
  <2> QED  BY <1>5, <2>1, <2>2
<1>9. FenceOK'  BY <1>2, <1>3, <1>4 DEF FenceOK, HelperRuns
<1>10. TakeoverOK' /\ QueueOK' /\ TakeoverViewFresh' /\ QueueClaimHolds'
  BY <1>2, <1>3, <1>4 DEF TakeoverOK, QueueOK, TakeoverViewFresh, QueueClaimHolds, HelperRuns
<1> QED  BY <1>6, <1>7, <1>8, <1>9, <1>10 DEF IInv

LEMMA StutterOK == ASSUME IInv, UNCHANGED vars PROVE IInv'
<1> USE DEF vars, guardVars, takeoverVars
<1>1. TypeOK'  BY DEF IInv, TypeOK, PathTypeOK, GuardTypeOK, TakeoverTypeOK
<1>2. WorkerOK' /\ PhaseOK' /\ TablesOK'
  BY DEF IInv, WorkerOK, PhaseOK, TablesOK, LastPhase, HelperRuns, Running, Digest
<1>3. FenceOK' /\ TakeoverOK' /\ QueueOK' /\ TakeoverViewFresh' /\ QueueClaimHolds'
  BY DEF IInv, FenceOK, TakeoverOK, QueueOK, TakeoverViewFresh, QueueClaimHolds,
         TakeoverOwns, HelperRuns, Digest
<1> QED  BY <1>1, <1>2, <1>3 DEF IInv

-----------------------------------------------------------------------------
LEMMA InitOK == Init => IInv
<1> SUFFICES ASSUME Init PROVE IInv  OBVIOUS
<1> USE InstAssumption DEF Init, PathInit, GuardInit, TakeoverInit
<1>1. First \in Inst /\ DevOf[First] \in Dev  OBVIOUS
<1>2. PathTypeOK
  <2>1. plugged \in [Inst -> {"absent", "present", "gone"}]  OBVIOUS
  <2>2. map \in MapState  BY <1>1 DEF MapState
  <2>3. helper \in [Role -> HelperState]  BY NoHelperType
  <2>4. journal \in JournalRecord  BY <1>1 DEF JournalRecord, Phase
  <2> QED  BY <2>1, <2>2, <2>3, <2>4 DEF PathTypeOK
<1>3. GuardTypeOK
  BY <1>1 DEF GuardTypeOK, GuardRecord, WorkerRecord, Idle, State
<1>4. TakeoverTypeOK
  BY NoViewType, CrashAssumption DEF TakeoverTypeOK, TkPc
<1>5. WorkerOK /\ PhaseOK /\ TablesOK
  BY NoHelperType
  DEF WorkerOK, PhaseOK, TablesOK, LastPhase, HelperRuns, Idle, Role
<1>6. FenceOK /\ TakeoverOK /\ QueueOK /\ TakeoverViewFresh /\ QueueClaimHolds
  BY NoHelperType
  DEF FenceOK, TakeoverOK, QueueOK, TakeoverViewFresh, QueueClaimHolds, TakeoverOwns,
      HelperRuns, Role
<1> QED  BY <1>2, <1>3, <1>4, <1>5, <1>6 DEF IInv, TypeOK

LEMMA NextOK == IInv /\ [Next]_vars => IInv'
<1> SUFFICES ASSUME IInv, [Next]_vars PROVE IInv'  OBVIOUS
<1>1. CASE Environment  BY <1>1, EnvironmentOK
<1>2. CASE Helpers
  <2>1. PICK r \in Role : (HelperWorks(r) \/ HelperFails(r)) /\ UNCHANGED <<guardVars, takeoverVars>>
    BY <1>2 DEF Helpers
  <2>2. CASE r = "guard"     BY <2>1, <2>2, GuardHelperOK
  <2>3. CASE r = "takeover"  BY <2>1, <2>3, TakeoverHelperOK
  <2> QED  BY <2>2, <2>3 DEF Role
<1>3. CASE Controller
  BY <1>3, StepOK, WorkOK, GuardDiesOK DEF Controller, GuardExits, GuardCrashes
<1>4. CASE Supervisor
  BY <1>4, TkOutside, TkAcquireOK, TkReadOK, TkSpawnOK, TkReapOK, TkFinishOK
  DEF Supervisor, TakeoverStep
<1>5. CASE UNCHANGED vars  BY <1>5, StutterOK
<1> QED  BY <1>1, <1>2, <1>3, <1>4, <1>5 DEF Next

-----------------------------------------------------------------------------
(* Theorems.                                                                 *)

\* The inductive invariant holds in every reachable state.
THEOREM Invariance == Spec => []IInv
BY InitOK, NextOK, PTL DEF Spec

\* Every variable of the composed transaction keeps its type.
THEOREM TypeCorrect == Spec => []TypeOK
<1>1. IInv => TypeOK  BY DEF IInv
<1> QED  BY <1>1, Invariance, PTL

\* Whatever instant the owner dies at, the journal it leaves accounts for the
\* kernel's active and inactive tables, so reconcile() never has to refuse them.
THEOREM JournalCoversTables == Spec => []JournalCovers
<1>1. IInv => JournalCovers
  BY WorkerTypes DEF IInv, TablesOK, JournalCovers, Known, CommitPhases, Digest
<1> QED  BY <1>1, Invariance, PTL

\* What reconcile() read of the map is still true at each of its operations.
THEOREM ViewStaysFresh == Spec => []TakeoverViewFresh
<1>1. IInv => TakeoverViewFresh  BY DEF IInv
<1> QED  BY <1>1, Invariance, PTL

\* The journal's claim that queueing was disabled is never falsified.
THEOREM QueueStaysOff == Spec => []QueueClaimHolds
<1>1. IInv => QueueClaimHolds  BY DEF IInv
<1> QED  BY <1>1, Invariance, PTL

\* Every step but the end of the guard's resume leaves the active table alone;
\* in particular no takeover promotes its predecessor's candidate.
THEOREM SwitchesAreCommits == Spec => OnlyCommitSwitches
<1> DEFINE Switch == map.active' # map.active =>
             HelperRuns("guard") /\ helper["guard"].op = "resume" /\ LastPhase = "commit_intent"
<1>1. ASSUME IInv, [Next]_vars PROVE Switch
  <2>1. CASE Environment
    BY <1>1, <2>1, WorkerTypes
    DEF Environment, Plug, Unplug, PathFails, ExternalSuspend, DeadlinePasses, MapState
  <2>2. CASE Helpers
    <3>1. PICK r \in Role : HelperWorks(r) \/ HelperFails(r)  BY <2>2 DEF Helpers
    <3>2. HelperRuns(r) /\ helper[r] \in HelperState
      BY <1>1, <3>1, WorkerTypes DEF HelperWorks, HelperFails
    <3>3. map.active' # map.active => helper[r].op = "resume" /\ map.inactive # NoInst
      BY <1>1, <3>1, <3>2, EffectOn, WorkerTypes DEF HelperWorks, HelperFails, SwapFails, MapState
    <3>4. r = "takeover" => ~(helper[r].op = "resume" /\ map.inactive # NoInst)
      BY <1>1, <3>2 DEF IInv, TakeoverOK
    <3>5. r = "guard" /\ helper[r].op = "resume" => LastPhase = "commit_intent"
      BY <1>1, <3>2 DEF IInv, PhaseOK
    <3> QED  BY <3>2, <3>3, <3>4, <3>5 DEF Role
  <2>3. CASE Controller
    <3>1. CASE Step
      BY <3>1 DEF Step, StepExpires, OpenEpisode, RetryVerify, LoopThrows, ConsumeVerify,
             ConsumeLoad, ConsumeRevalidate, ConsumeCommit, ConsumePreprobe, ConsumeProbe,
             ConsumeConfirm, ConsumeError, ConsumeThrows, ConsumeLate, Quiet
    <3>2. CASE Work
      BY <1>1, <3>2, WorkerTypes
      DEF Work, VerifyAdmits, ClearMutation, StartLoad, StartCommit, ReapHelper, Recheck, ProbePath,
          Confirm, WorkerFails, MapState
    <3> QED  BY <2>3, <3>1, <3>2 DEF Controller, GuardExits, GuardCrashes, GuardDies
  <2>4. CASE Supervisor
    BY <2>4 DEF Supervisor, TakeoverStep, TkStart, TkAgain, TkAcquire, TkRead, TkSpawn,
           TkReap, TkFinish, TkThrows, TkCrash, TkQuiet
  <2>5. CASE UNCHANGED vars  BY <2>5 DEF vars
  <2> QED  BY <1>1, <2>1, <2>2, <2>3, <2>4, <2>5 DEF Next
<1>2. IInv /\ [Next]_vars => [Switch]_vars  BY <1>1
<1> QED  BY <1>2, Invariance, PTL DEF Spec, OnlyCommitSwitches

\* After the cutoff of the owner at most the operation under way completes.
THEOREM CutoffHolds == Spec => NoMutationAfterCutoff
<1> DEFINE Cut == Passed \/ guard.stopping \/ ~up => (MutationUnderWay' => MutationUnderWay)
<1>1. ASSUME IInv, [Next]_vars PROVE Cut
  <2> SUFFICES ASSUME Passed \/ guard.stopping \/ ~up, MutationUnderWay', ~MutationUnderWay
               PROVE  FALSE
    OBVIOUS
  <2>1. /\ helper \in [Role -> HelperState] /\ worker \in WorkerRecord
        /\ "guard" \in Role /\ "takeover" \in Role
    BY <1>1, WorkerTypes DEF Role
  <2> USE DEF MutationUnderWay
  <2>2. CASE Environment
    BY <2>2 DEF Environment, Plug, Unplug, PathFails, ExternalSuspend, DeadlinePasses,
           HelperRuns, guardVars
  <2>3. CASE Helpers
    <3>1. PICK r \in Role : HelperWorks(r) \/ HelperFails(r)  BY <2>3 DEF Helpers
    <3>2. PICK st \in {"ok", "error"} : helper' = [helper EXCEPT ![r].st = st]
      BY <3>1 DEF HelperWorks, HelperFails, Exits
    <3>3. ~HelperRuns("guard")'
      BY <2>1, <3>2 DEF HelperRuns, HelperState
    <3> QED  BY <2>3, <3>3 DEF Helpers, guardVars
  <2>4. CASE Step /\ Controller
    <3>1. up /\ Running /\ UNCHANGED helper
      BY <2>4 DEF Step, StepExpires, OpenEpisode, RetryVerify, LoopThrows, ConsumeVerify,
             ConsumeLoad, ConsumeRevalidate, ConsumeCommit, ConsumePreprobe, ConsumeProbe,
             ConsumeConfirm, ConsumeError, ConsumeThrows, ConsumeLate, Quiet, Running,
             Polled, Succeeded
    <3>2. Passed  BY <3>1 DEF Running
    <3>3. CASE StepExpires \/ LoopThrows
      BY <3>1, <3>3 DEF StepExpires, LoopThrows, HelperRuns
    <3>4. CASE ~(StepExpires \/ LoopThrows)
      BY <2>4, <3>2, <3>4
      DEF Step, OpenEpisode, RetryVerify, ConsumeVerify, ConsumeLoad, ConsumeRevalidate,
          ConsumeCommit, ConsumePreprobe, ConsumeProbe, ConsumeConfirm, ConsumeError,
          ConsumeThrows, ConsumeLate, Passed, Polled, Succeeded
    <3> QED  BY <3>3, <3>4
  <2>5. CASE Work /\ Controller
    <3>1. CASE ClearMutation
      BY <3>1 DEF ClearMutation, Working, MayMutate, Revalidated
    <3>2. CASE StartLoad \/ StartCommit
      BY <3>2 DEF StartLoad, StartCommit, Cleared
    <3>3. CASE ReapHelper
      BY <2>1, <3>3 DEF ReapHelper, Finish, NoHelper, HelperRuns, WorkerRecord
    <3>4. CASE VerifyAdmits \/ Recheck \/ ProbePath \/ Confirm \/ WorkerFails
      BY <2>1, <3>4 DEF VerifyAdmits, Recheck, ProbePath, Confirm, WorkerFails, Finish,
             HelperRuns, WorkerRecord
    <3> QED  BY <2>5, <3>1, <3>2, <3>3, <3>4 DEF Work
  <2>6. CASE GuardDies
    BY <2>6 DEF GuardDies, Idle, HelperRuns
  <2>7. CASE Supervisor
    BY <2>1, <2>7
    DEF Supervisor, TakeoverStep, TkStart, TkAgain, TkAcquire, TkRead, TkSpawn, Spawn,
        TkReap, TkFinish, TkThrows, TkCrash, HelperRuns, guardVars
  <2>8. CASE UNCHANGED vars  BY <2>8 DEF vars, HelperRuns, guardVars
  <2> QED
    BY <1>1, <2>2, <2>3, <2>4, <2>5, <2>6, <2>7, <2>8
    DEF Next, Controller, GuardExits, GuardCrashes
<1>2. IInv /\ [Next]_vars => [Cut]_vars  BY <1>1
<1> QED  BY <1>2, Invariance, PTL DEF Spec, NoMutationAfterCutoff

-----------------------------------------------------------------------------
(***************************************************************************)
(* Which disk the stable map is bound to, proved for any disks, device         *)
(* numbers and number of takeover crashes; and the contract of the map.        *)
(*                                                                         *)
(* The invariant above speaks of device numbers only, because                   *)
(* that is all the journal and the tables name.  A clone may take over a        *)
(* number between a check and the kernel's use of it, so more is needed to      *)
(* know the instance.  The argument: an instance that passed the verification   *)
(* was plugged, so once gone it never returns.  If it is there at the last      *)
(* check of the commit it was there when its table was loaded, and no other     *)
(* present disk had its number then; the table that the kernel may have had     *)
(* in its cache under that number was refused.                                  *)
(***************************************************************************)

\* One dev_t names one present disk at a time.
DistinctDevices ==
    \A i, j \in Inst : Present(i) /\ Present(j) /\ DevOf[i] = DevOf[j] => i = j

\* An operation after the verification, or the outcome of one, carries an instance that
\* passed it: it was plugged before and so never returns once it is gone.
CredentialOK ==
    worker.st # "idle" /\ (worker.kind # "verify" \/ worker.st = "ok") =>
        worker.inst \in Genuine /\ plugged[worker.inst] # "absent"

\* What ReusesActiveDev refused stays refused until the commit.
NewDeviceOK ==
    Running /\ worker.st # "idle" /\ worker.kind \in {"load", "revalidate", "commit"} =>
        ~ReusesActiveDev(worker.inst)

\* dmsetup has done the table operation of the worker.
Mutated == worker.st = "ok" \/ (worker.st = "helper" /\ helper["guard"].st = "ok")

\* The candidate is loaded, and the commit has not yet begun.
CandidateLoaded ==
    \/ worker.kind = "load" /\ Mutated
    \/ worker.kind = "revalidate" /\ worker.st # "idle"
    \/ worker.kind = "commit" /\ worker.st \in {"start", "cleared"}

\* A loaded table may be bound to a clone, but only if the instance is gone.
LoadedOK ==
    Running /\ CandidateLoaded /\ Present(worker.inst) => map.inactive = worker.inst

\* From the last check of a commit on, the inactive table is the verified instance.
CommitOK ==
    /\ worker.kind = "commit" /\ worker.st = "cleared" => map.inactive = worker.inst
    /\ HelperRuns("guard") /\ helper["guard"].op = "resume" =>
         /\ map.inactive \in Genuine
         /\ up => map.inactive = worker.inst
    /\ worker.kind = "commit" /\ Mutated => map.active = worker.inst

BindInv == DistinctDevices /\ CredentialOK /\ NewDeviceOK /\ LoadedOK /\ CommitOK
           /\ ActiveIsAdmitted /\ ControllerTracksKernel

-----------------------------------------------------------------------------
(* Frames.                                                                   *)

LEMMA GenuineIsInst == Genuine \subseteq Inst /\ First \in Genuine /\ NoInst \notin Inst
BY InstAssumption

\* The controller has stopped: what remains to be known is the operation under way.
LEMMA StoppedBind ==
  ASSUME IInv, BindInv, Quiet, guard'.stopping,
         \/ worker' = worker
         \/ worker' = Idle /\ ~HelperRuns("guard")
         \/ /\ worker'.kind = "probe" /\ worker'.st = "start" /\ ~HelperRuns("guard")
            /\ worker'.inst \in Genuine /\ plugged[worker'.inst] # "absent"
  PROVE  BindInv'
<1> USE DEF BindInv, Quiet
<1>1. DistinctDevices' /\ ActiveIsAdmitted'
  BY DEF DistinctDevices, ActiveIsAdmitted, Present
<1>2. CredentialOK'  BY DEF CredentialOK, Idle
<1>3. NewDeviceOK' /\ LoadedOK' /\ ControllerTracksKernel'
  BY DEF NewDeviceOK, LoadedOK, ControllerTracksKernel, Running
<1>4. CommitOK'  BY DEF CommitOK, Mutated, HelperRuns, Idle
<1> QED  BY <1>1, <1>2, <1>3, <1>4

\* The controller takes an outcome and starts nothing.
LEMMA IdleBind ==
  ASSUME IInv, BindInv, Quiet, ~HelperRuns("guard"), worker' = Idle,
         guard'.current = guard.current, map.active = guard.current
  PROVE  BindInv'
<1> USE DEF BindInv, Quiet
<1>1. DistinctDevices' /\ ActiveIsAdmitted'
  BY DEF DistinctDevices, ActiveIsAdmitted, Present
<1>2. CredentialOK' /\ NewDeviceOK' /\ LoadedOK' /\ CommitOK'
  BY DEF CredentialOK, NewDeviceOK, LoadedOK, CandidateLoaded, CommitOK, Mutated, HelperRuns, Idle
<1>3. ControllerTracksKernel'  BY DEF ControllerTracksKernel
<1> QED  BY <1>1, <1>2, <1>3

\* What the controller must know of its credential to start an operation with it.
Fit(g, kind) ==
    /\ kind # "verify" => g.candidate \in Genuine /\ plugged[g.candidate] # "absent"
    /\ kind \in {"load", "revalidate", "commit"} /\ DevOf[g.candidate] = DevOf[g.current] =>
         g.candidate = g.current
    /\ kind \in {"revalidate", "commit"} /\ Present(g.candidate) => map.inactive = g.candidate
    /\ kind = "commit" \/ map.active = g.current

LEMMA StartedBind ==
  ASSUME IInv, BindInv, Quiet, ~HelperRuns("guard"),
         NEW g \in GuardRecord, NEW j, NEW kind \in Kind, Fit(g, kind), Started(g, j, kind)
  PROVE  BindInv'
<1> USE DEF BindInv, Quiet, Started, Fit
<1>0. /\ worker'.kind = kind /\ worker'.st = "start" /\ worker'.inst = g.candidate
      /\ guard'.pending = kind /\ guard'.current = g.current
  BY DEF Idle, GuardRecord
<1>1. DistinctDevices' /\ ActiveIsAdmitted'
  BY DEF DistinctDevices, ActiveIsAdmitted, Present
<1>2. CredentialOK'  BY <1>0 DEF CredentialOK
<1>3. NewDeviceOK'  BY <1>0 DEF NewDeviceOK, ReusesActiveDev
<1>4. LoadedOK'  BY <1>0 DEF LoadedOK, CandidateLoaded, Mutated, Present
<1>5. CommitOK'  BY <1>0 DEF CommitOK, Mutated, HelperRuns
<1>6. ControllerTracksKernel'  BY <1>0 DEF ControllerTracksKernel
<1> QED  BY <1>1, <1>2, <1>3, <1>4, <1>5, <1>6

LEMMA SubmitBind ==
  ASSUME IInv, BindInv, Quiet, ~HelperRuns("guard"),
         NEW g \in GuardRecord, NEW j, NEW kind \in Kind, Fit(g, kind), Submit(g, j, kind)
  PROVE  BindInv'
<1>1. CASE Started(g, j, kind)  BY <1>1, StartedBind
<1>2. CASE SubmitLate(g, j) \/ SubmitThrows(g, j)
  <2>1. guard'.stopping /\ worker' = Idle
    BY <1>2 DEF SubmitLate, SubmitThrows, Expire, Fail, GuardRecord
  <2> QED  BY <2>1, StoppedBind
<1> QED  BY <1>1, <1>2 DEF Submit

LEMMA ThrowsBind ==
  ASSUME IInv, BindInv, Quiet, ~HelperRuns("guard"), NEW g \in GuardRecord, NEW j,
         SubmitThrows(g, j) \/ SubmitLate(g, j)
  PROVE  BindInv'
<1>1. guard'.stopping /\ worker' = Idle
  BY DEF SubmitLate, SubmitThrows, Expire, Fail, GuardRecord
<1> QED  BY <1>1, StoppedBind

-----------------------------------------------------------------------------
(* The handlers of step() and consume().                                     *)

LEMMA TakenFields ==
  ASSUME IInv PROVE Taken \in GuardRecord /\ Taken.candidate = guard.candidate
                    /\ Taken.current = guard.current
BY DEF IInv, TypeOK, GuardTypeOK, GuardRecord, Taken

\* Taking the outcome of a successful operation other than a verification.
LEMMA OutcomeKnown ==
  ASSUME IInv, BindInv, NEW kind \in Kind, Succeeded(kind)
  PROVE  /\ Running /\ ~HelperRuns("guard") /\ worker.kind = kind /\ guard.pending = kind
         /\ worker.inst \in Genuine /\ plugged[worker.inst] # "absent"
         /\ kind # "verify" => guard.candidate = worker.inst
         /\ kind # "commit" => map.active = guard.current
<1>1. Polled /\ guard.pending = kind /\ worker.st = "ok"  BY DEF Succeeded
<1>2. Running /\ ~HelperRuns("guard")  BY <1>1, PolledQuiet
<1>3. worker.kind = kind  BY <1>1 DEF IInv, WorkerOK
<1> QED
  BY <1>1, <1>2, <1>3 DEF IInv, WorkerOK, BindInv, CredentialOK, ControllerTracksKernel

LEMMA OpenBind == ASSUME IInv, BindInv, OpenEpisode \/ RetryVerify PROVE BindInv'
<1>1. Running /\ guard.pending = "none" /\ Quiet  BY DEF OpenEpisode, RetryVerify, Quiet
<1>2. ~HelperRuns("guard") /\ map.active = guard.current
  BY <1>1, NothingPending DEF BindInv, ControllerTracksKernel
<1>3. guard \in GuardRecord  BY DEF IInv, TypeOK, GuardTypeOK
<1>4. CASE OpenEpisode /\ SubmitThrows(guard, Stage(journal, "waiting"))
  BY <1>1, <1>2, <1>3, <1>4, ThrowsBind
<1>5. CASE OpenEpisode /\ SubmitVerify(Stage(journal, "waiting"))
  <2> DEFINE g == [guard EXCEPT !.candidate = NoInst, !.state = "waiting"]
             j == Stage(Stage(journal, "waiting"), "verifying")
  <2>1. g \in GuardRecord /\ g.current = guard.current  BY <1>3 DEF GuardRecord, State
  <2>2. Submit(g, j, "verify")  BY <1>5 DEF SubmitVerify
  <2>3. Fit(g, "verify")  BY <1>2, <2>1 DEF Fit
  <2> HIDE DEF g, j
  <2> QED  BY <1>1, <1>2, <2>1, <2>2, <2>3, SubmitBind DEF Kind
<1>6. CASE RetryVerify
  <2> DEFINE g == [guard EXCEPT !.candidate = NoInst]
             j == Stage(journal, "verifying")
  <2>1. g \in GuardRecord /\ g.current = guard.current  BY <1>3 DEF GuardRecord
  <2>2. Submit(g, j, "verify")  BY <1>6 DEF RetryVerify
  <2>3. Fit(g, "verify")  BY <1>2, <2>1 DEF Fit
  <2> HIDE DEF g, j
  <2> QED  BY <1>1, <1>2, <2>1, <2>2, <2>3, SubmitBind DEF Kind
<1> QED  BY <1>4, <1>5, <1>6 DEF OpenEpisode

LEMMA StopBind == ASSUME IInv, BindInv, StepExpires \/ LoopThrows PROVE BindInv'
<1>1. guard'.stopping /\ worker' = worker /\ Quiet
  BY DEF StepExpires, LoopThrows, Expire, Fail, Quiet, IInv, TypeOK, GuardTypeOK, GuardRecord
<1> QED  BY <1>1, StoppedBind
\* The verified instance is not the one under the active number, and present ones differ.
LEMMA ConsumeVerifyBind == ASSUME IInv, BindInv, ConsumeVerify PROVE BindInv'
<1> DEFINE i == worker.inst
           g == [Taken EXCEPT !.candidate = i, !.state = "verified"]
           intent == [Stage(journal, "load_intent") EXCEPT
                        !.previous = Digest(map.active),
                        !.candidate_table_digest = DevOf[i]]
<1>1. Succeeded("verify") /\ Quiet  BY DEF ConsumeVerify
<1>2. /\ Running /\ ~HelperRuns("guard") /\ i \in Genuine /\ plugged[i] # "absent"
      /\ map.active = guard.current
  BY <1>1, OutcomeKnown DEF Kind
<1>3. Taken \in GuardRecord /\ Taken.current = guard.current  BY TakenFields
<1>4. CASE Reject(Taken)
  <2>1. worker' = Idle /\ guard'.current = guard.current
    BY <1>3, <1>4 DEF Reject, GuardRecord
  <2> QED  BY <1>1, <1>2, <2>1, IdleBind
<1>5. CASE SubmitThrows(Taken, journal)  BY <1>1, <1>2, <1>3, <1>5, ThrowsBind
<1>6. CASE ~ReusesActiveDev(i) /\ Submit(g, intent, "load")
  <2>1. g \in GuardRecord /\ g.current = guard.current /\ g.candidate = i
    BY <1>2, <1>3, GenuineIsInst DEF GuardRecord, State
  <2>2. Fit(g, "load")  BY <1>2, <1>6, <2>1 DEF Fit, ReusesActiveDev
  <2> HIDE DEF g, intent
  <2> QED  BY <1>1, <1>2, <1>6, <2>1, <2>2, SubmitBind DEF Kind
<1> QED  BY <1>4, <1>5, <1>6 DEF ConsumeVerify

LEMMA ConsumeLoadBind == ASSUME IInv, BindInv, ConsumeLoad PROVE BindInv'
<1> DEFINE j == [Stage(journal, "loaded") EXCEPT !.snapshot = worker.snapshot]
<1>1. Succeeded("load") /\ Quiet /\ worker.st = "ok"  BY DEF ConsumeLoad, Succeeded
<1>2. /\ Running /\ ~HelperRuns("guard") /\ worker.kind = "load"
      /\ worker.inst \in Genuine /\ plugged[worker.inst] # "absent"
      /\ guard.candidate = worker.inst /\ map.active = guard.current
  BY <1>1, OutcomeKnown DEF Kind
<1>3. Taken \in GuardRecord /\ Taken.current = guard.current /\ Taken.candidate = worker.inst
  BY <1>2, TakenFields
<1>4. Fit(Taken, "revalidate")
  BY <1>1, <1>2, <1>3 DEF Fit, BindInv, NewDeviceOK, ReusesActiveDev, LoadedOK, CandidateLoaded,
         Mutated
<1>5. Submit(Taken, j, "revalidate")  BY DEF ConsumeLoad
<1> HIDE DEF j
<1> QED  BY <1>1, <1>2, <1>3, <1>4, <1>5, SubmitBind DEF Kind

LEMMA ConsumeRevalidateBind == ASSUME IInv, BindInv, ConsumeRevalidate PROVE BindInv'
<1> DEFINE j == Stage(journal, "commit_intent")
<1>1. Succeeded("revalidate") /\ Quiet /\ worker.st = "ok"
  BY DEF ConsumeRevalidate, Succeeded
<1>2. /\ Running /\ ~HelperRuns("guard") /\ worker.kind = "revalidate"
      /\ worker.inst \in Genuine /\ plugged[worker.inst] # "absent"
      /\ guard.candidate = worker.inst
  BY <1>1, OutcomeKnown DEF Kind
<1>3. Taken \in GuardRecord /\ Taken.current = guard.current /\ Taken.candidate = worker.inst
  BY <1>2, TakenFields
<1>4. Fit(Taken, "commit")
  BY <1>1, <1>2, <1>3 DEF Fit, BindInv, NewDeviceOK, ReusesActiveDev, LoadedOK, CandidateLoaded
<1>5. Submit(Taken, j, "commit")  BY DEF ConsumeRevalidate
<1> HIDE DEF j
<1> QED  BY <1>1, <1>2, <1>3, <1>4, <1>5, SubmitBind DEF Kind

\* The commit has bound the map to the candidate, which becomes the current instance.
LEMMA ConsumeCommitBind == ASSUME IInv, BindInv, ConsumeCommit PROVE BindInv'
<1> DEFINE g == [Taken EXCEPT !.current = guard.candidate]
           j == [Stage(journal, "committed") EXCEPT !.snapshot = worker.snapshot]
<1>1. Succeeded("commit") /\ Quiet /\ worker.st = "ok"  BY DEF ConsumeCommit, Succeeded
<1>2. /\ Running /\ ~HelperRuns("guard") /\ worker.kind = "commit"
      /\ worker.inst \in Genuine /\ plugged[worker.inst] # "absent"
      /\ guard.candidate = worker.inst
  BY <1>1, OutcomeKnown DEF Kind
<1>3. /\ g \in GuardRecord /\ g.current = worker.inst /\ g.candidate = worker.inst
  BY <1>2, TakenFields, GenuineIsInst DEF GuardRecord
<1>4. map.active = worker.inst  BY <1>1, <1>2 DEF BindInv, CommitOK, Mutated
<1>5. Fit(g, "preprobe")  BY <1>2, <1>3, <1>4 DEF Fit
<1>6. Submit(g, j, "preprobe")  BY DEF ConsumeCommit
<1> HIDE DEF g, j
<1> QED  BY <1>1, <1>2, <1>3, <1>5, <1>6, SubmitBind DEF Kind

LEMMA ConsumePreprobeBind == ASSUME IInv, BindInv, ConsumePreprobe PROVE BindInv'
<1> DEFINE intent == Stage(journal, "probe_intent")
           g == [Taken EXCEPT !.state = "probing"]
           p == [Taken EXCEPT !.pending = "probe"]
<1>1. Succeeded("preprobe") /\ Quiet  BY DEF ConsumePreprobe
<1>2. /\ Running /\ ~HelperRuns("guard") /\ guard.candidate = worker.inst
      /\ worker.inst \in Genuine /\ plugged[worker.inst] # "absent"
      /\ map.active = guard.current
  BY <1>1, OutcomeKnown DEF Kind
<1>3. /\ Taken \in GuardRecord
      /\ g \in GuardRecord /\ g.current = guard.current /\ g.candidate = worker.inst
      /\ p \in GuardRecord
  BY <1>2, TakenFields DEF GuardRecord, State, Kind
<1>4. CASE Started(g, Stage(intent, "probing"), "probe")
  <2>1. Fit(g, "probe")  BY <1>2, <1>3 DEF Fit
  <2> HIDE DEF g, intent
  <2> QED  BY <1>1, <1>2, <1>3, <1>4, <2>1, StartedBind DEF Kind
<1>5. CASE SubmitLate(Taken, intent) \/ SubmitThrows(Taken, intent)
  BY <1>1, <1>2, <1>3, <1>5, ThrowsBind
<1>6. CASE \E j \in {intent, Stage(intent, "probing")} :
             /\ Fail(p, j)
             /\ worker' = [Idle EXCEPT !.kind = "probe", !.st = "start", !.inst = guard.candidate]
  <2>1. guard'.stopping  BY <1>3, <1>6 DEF Fail, GuardRecord
  <2>2. worker'.kind = "probe" /\ worker'.st = "start" /\ worker'.inst = worker.inst
    BY <1>2, <1>6 DEF Idle
  <2> QED  BY <1>1, <1>2, <2>1, <2>2, StoppedBind
<1> QED  BY <1>4, <1>5, <1>6 DEF ConsumePreprobe

LEMMA ConsumeProbeBind == ASSUME IInv, BindInv, ConsumeProbe PROVE BindInv'
<1> DEFINE j == Stage(journal, "confirming")
<1>1. Succeeded("probe") /\ Quiet  BY DEF ConsumeProbe
<1>2. /\ Running /\ ~HelperRuns("guard") /\ guard.candidate = worker.inst
      /\ worker.inst \in Genuine /\ plugged[worker.inst] # "absent"
      /\ map.active = guard.current
  BY <1>1, OutcomeKnown DEF Kind
<1>3. Taken \in GuardRecord /\ Taken.current = guard.current /\ Taken.candidate = worker.inst
  BY <1>2, TakenFields
<1>4. CASE Reject(Taken)
  <2>1. worker' = Idle /\ guard'.current = guard.current
    BY <1>3, <1>4 DEF Reject, GuardRecord
  <2> QED  BY <1>1, <1>2, <2>1, IdleBind
<1>5. CASE Submit(Taken, j, "confirm")
  <2>1. Fit(Taken, "confirm")  BY <1>2, <1>3 DEF Fit
  <2> HIDE DEF j
  <2> QED  BY <1>1, <1>2, <1>3, <1>5, <2>1, SubmitBind DEF Kind
<1> QED  BY <1>4, <1>5 DEF ConsumeProbe

LEMMA ConsumeConfirmBind == ASSUME IInv, BindInv, ConsumeConfirm PROVE BindInv'
<1>1. Succeeded("confirm") /\ Quiet  BY DEF ConsumeConfirm
<1>2. ~HelperRuns("guard") /\ map.active = guard.current
  BY <1>1, OutcomeKnown DEF Kind
<1>3. worker' = Idle /\ guard'.current = guard.current
  BY TakenFields DEF ConsumeConfirm, GuardRecord
<1> QED  BY <1>1, <1>2, <1>3, IdleBind

\* An operation failed, or its outcome came too late or could not be handled.
LEMMA ConsumeLostBind ==
  ASSUME IInv, BindInv, ConsumeError \/ ConsumeThrows \/ ConsumeLate PROVE BindInv'
<1>1. Polled /\ Quiet  BY DEF ConsumeError, ConsumeThrows, ConsumeLate
<1>2. ~HelperRuns("guard") /\ Running  BY <1>1, PolledQuiet
<1>3. Taken \in GuardRecord /\ Taken.current = guard.current  BY TakenFields
<1>4. CASE SubmitThrows(Taken, journal) \/ SubmitLate(Taken, journal)
  BY <1>1, <1>2, <1>3, <1>4, ThrowsBind
<1>5. CASE guard.pending = "verify" /\ Reject(Taken)
  <2>1. worker' = Idle /\ guard'.current = guard.current
    BY <1>3, <1>5 DEF Reject, GuardRecord
  <2>2. map.active = guard.current  BY <1>2, <1>5 DEF BindInv, ControllerTracksKernel
  <2> QED  BY <1>1, <1>2, <2>1, <2>2, IdleBind
<1> QED  BY <1>4, <1>5 DEF ConsumeError, ConsumeThrows, ConsumeLate

LEMMA StepBind == ASSUME IInv, BindInv, Step PROVE BindInv'
BY OpenBind, StopBind, ConsumeVerifyBind, ConsumeLoadBind, ConsumeRevalidateBind,
   ConsumeCommitBind, ConsumePreprobeBind, ConsumeProbeBind, ConsumeConfirmBind, ConsumeLostBind
DEF Step

-----------------------------------------------------------------------------
(* The worker thread.                                                        *)

\* A stage that ends before any table operation.
LEMMA StageBind ==
  ASSUME IInv, BindInv, UNCHANGED <<up, guard, plugged, helper>>,
         map'.active = map.active, map'.inactive = map.inactive,
         worker.st # "idle", worker'.kind = worker.kind, ~HelperRuns("guard"),
         worker.kind # "verify" => worker'.inst = worker.inst,
         \/ worker'.st = "error"
         \/ worker'.st = "ok" /\ worker.kind \notin {"verify", "load", "commit"}
         \/ /\ worker'.st = "ok" /\ worker.kind = "verify"
            /\ worker'.inst \in Genuine /\ Present(worker'.inst)
         \/ worker'.st = "cleared" /\ worker.st = "start" /\ worker.kind # "verify"
            /\ Present(worker.inst) /\ Running
  PROVE  BindInv'
<1> USE DEF BindInv
<1>1. DistinctDevices' /\ ActiveIsAdmitted'
  BY DEF DistinctDevices, ActiveIsAdmitted, Present
<1>2. CredentialOK'  BY DEF CredentialOK, Present
<1>3. NewDeviceOK'  BY DEF NewDeviceOK, ReusesActiveDev, Running
<1>4. LoadedOK'
  BY DEF LoadedOK, CandidateLoaded, Mutated, Running, Present
<1>5. CommitOK'
  BY DEF CommitOK, LoadedOK, CandidateLoaded, Mutated, HelperRuns
<1>6. ControllerTracksKernel'  BY DEF ControllerTracksKernel, Running
<1> QED  BY <1>1, <1>2, <1>3, <1>4, <1>5, <1>6

LEMMA StagesBind ==
  ASSUME IInv, BindInv, VerifyAdmits \/ ClearMutation \/ Recheck \/ ProbePath \/ Confirm \/ WorkerFails
  PROVE  BindInv'
<1>1. /\ UNCHANGED <<up, guard, plugged, helper>> /\ up
      /\ worker.st \in {"start", "cleared"}
  BY DEF VerifyAdmits, ClearMutation, Recheck, ProbePath, Confirm, WorkerFails, WorkerQuiet,
         Working
<1>2. ~HelperRuns("guard")  BY <1>1 DEF IInv, WorkerOK
<1>3. worker \in WorkerRecord /\ map \in MapState  BY WorkerTypes
<1>4. map'.active = map.active /\ map'.inactive = map.inactive
  BY <1>3 DEF VerifyAdmits, ClearMutation, Recheck, ProbePath, Confirm, WorkerFails, MapState
<1>5. CASE VerifyAdmits
  <2>1. PICK i \in Genuine : Candidates = {i} /\ worker' = [worker EXCEPT !.st = "ok", !.inst = i]
    BY <1>5 DEF VerifyAdmits
  <2>2. i \in Candidates  BY <2>1
  <2>3. Present(i)  BY <2>2 DEF Candidates
  <2>4. worker'.st = "ok" /\ worker'.kind = "verify" /\ worker.kind = "verify" /\ worker'.inst = i
    BY <1>3, <1>5, <2>1 DEF VerifyAdmits, Working, WorkerRecord
  <2> QED  BY <1>1, <1>2, <1>4, <2>1, <2>3, <2>4, StageBind
<1>6. CASE ClearMutation
  <2>1. Candidates = {worker.inst} /\ Running
    BY <1>1, <1>6 DEF ClearMutation, MayMutate, Revalidated, Running
  <2>2. worker.inst \in Candidates  BY <2>1
  <2>3. Present(worker.inst)  BY <2>2 DEF Candidates
  <2>4. /\ worker.kind # "verify" /\ worker.st = "start"
        /\ worker'.st = "cleared" /\ worker'.kind = worker.kind /\ worker'.inst = worker.inst
    BY <1>3, <1>6 DEF ClearMutation, Working, Finish, WorkerRecord
  <2> QED  BY <1>1, <1>2, <1>4, <2>1, <2>3, <2>4, StageBind
<1>7. CASE Recheck \/ ProbePath \/ Confirm
  <2>1. /\ worker.kind \in {"revalidate", "preprobe", "probe", "confirm"}
        /\ worker'.st = "ok" /\ worker'.kind = worker.kind /\ worker'.inst = worker.inst
    BY <1>3, <1>7 DEF Recheck, ProbePath, Confirm, Working, Finish, WorkerRecord
  <2> QED  BY <1>1, <1>2, <1>4, <2>1, StageBind
<1>8. CASE WorkerFails
  <2>1. worker'.st = "error" /\ worker'.kind = worker.kind /\ worker'.inst = worker.inst
    BY <1>3, <1>8 DEF WorkerFails, Finish, WorkerRecord
  <2> QED  BY <1>1, <1>2, <1>4, <2>1, StageBind
<1> QED  BY <1>5, <1>6, <1>7, <1>8

LEMMA StartBind == ASSUME IInv, BindInv, StartLoad \/ StartCommit PROVE BindInv'
<1> USE DEF BindInv
<1>1. /\ UNCHANGED <<up, guard, plugged, map>> /\ up /\ worker.st = "cleared"
      /\ \/ worker.kind = "load" /\ helper'["guard"].op = "load"
         \/ worker.kind = "commit" /\ helper'["guard"].op = "resume"
      /\ helper'["guard"].st = "running"
      /\ worker'.st = "helper" /\ worker'.kind = worker.kind /\ worker'.inst = worker.inst
  <2>1. worker \in WorkerRecord /\ helper \in [Role -> HelperState] /\ "guard" \in Role
    BY WorkerTypes DEF Role
  <2> QED
    BY <2>1 DEF StartLoad, StartCommit, Cleared, Spawn, Finish, WorkerQuiet, WorkerRecord
<1>2. DistinctDevices' /\ ActiveIsAdmitted' /\ CredentialOK' /\ NewDeviceOK'
  BY <1>1 DEF DistinctDevices, ActiveIsAdmitted, Present, CredentialOK, NewDeviceOK,
     ReusesActiveDev, Running
<1>3. LoadedOK'  BY <1>1 DEF LoadedOK, CandidateLoaded, Mutated
<1>4. CommitOK'  BY <1>1 DEF CommitOK, CredentialOK, Mutated, HelperRuns
<1>5. ControllerTracksKernel'  BY <1>1 DEF ControllerTracksKernel, Running
<1> QED  BY <1>2, <1>3, <1>4, <1>5

LEMMA ReapBind == ASSUME IInv, BindInv, ReapHelper PROVE BindInv'
<1> USE DEF BindInv
<1>1. /\ UNCHANGED <<up, guard, plugged, map>> /\ up /\ worker.st = "helper"
      /\ worker.kind # "verify"
      /\ worker'.kind = worker.kind /\ worker'.inst = worker.inst
      /\ worker'.st = "error" \/ (worker'.st = "ok" /\ Mutated)
      /\ ~HelperRuns("guard")'
  <2>1. worker \in WorkerRecord /\ helper \in [Role -> HelperState] /\ "guard" \in Role
    BY WorkerTypes DEF Role
  <2> QED
    BY <2>1 DEF ReapHelper, Finish, WorkerQuiet, WorkerRecord, HelperRuns, NoHelper, Mutated, IInv,
           WorkerOK
<1>2. DistinctDevices' /\ ActiveIsAdmitted' /\ CredentialOK' /\ NewDeviceOK'
  BY <1>1 DEF DistinctDevices, ActiveIsAdmitted, Present, CredentialOK, NewDeviceOK,
     ReusesActiveDev, Running
<1>3. LoadedOK'  BY <1>1 DEF LoadedOK, CandidateLoaded, Mutated, Running, Present
<1>4. CommitOK'  BY <1>1 DEF CommitOK, Mutated
<1>5. ControllerTracksKernel'  BY <1>1 DEF ControllerTracksKernel, Running
<1> QED  BY <1>2, <1>3, <1>4, <1>5

LEMMA WorkBind == ASSUME IInv, BindInv, Work PROVE BindInv'
BY StagesBind, StartBind, ReapBind DEF Work
-----------------------------------------------------------------------------
(* Disks, helpers and the end of the owner.                                  *)

LEMMA DisksBind == ASSUME IInv, BindInv, Environment PROVE BindInv'
<1> USE DEF BindInv
<1>1. plugged \in [Inst -> {"absent", "present", "gone"}] /\ map \in MapState
  BY WorkerTypes DEF IInv, TypeOK, PathTypeOK
<1>2. /\ UNCHANGED <<map.active, map.inactive, helper, up, guard, worker>>
  BY <1>1 DEF Environment, Plug, Unplug, PathFails, ExternalSuspend, DeadlinePasses, guardVars, MapState
<1>3. \A i \in Inst : /\ plugged[i] # "absent" => plugged'[i] # "absent"
                      /\ Present(i)' => Present(i) \/ plugged[i] = "absent"
  BY <1>1 DEF Environment, Plug, Unplug, PathFails, ExternalSuspend, DeadlinePasses, Present
<1>4. DistinctDevices'
  <2>1. CASE \E i \in Inst : Plug(i)
    BY <1>1, <2>1 DEF DistinctDevices, Plug, Present
  <2>2. CASE ~\E i \in Inst : Plug(i)
    <3>1. \A i \in Inst : Present(i)' => Present(i)
      BY <1>1, <2>2 DEF Environment, Unplug, PathFails, ExternalSuspend, DeadlinePasses, Present
    <3> QED  BY <3>1 DEF DistinctDevices
  <2> QED  BY <2>1, <2>2
<1>5. CredentialOK'
  BY <1>2, <1>3, GenuineIsInst DEF CredentialOK
<1>6. NewDeviceOK' /\ ActiveIsAdmitted' /\ ControllerTracksKernel'
  BY <1>2 DEF NewDeviceOK, ReusesActiveDev, ActiveIsAdmitted, ControllerTracksKernel, Running
<1>7. LoadedOK'
  <2>1. CandidateLoaded => worker.inst \in Inst /\ plugged[worker.inst] # "absent"
    BY GenuineIsInst DEF CandidateLoaded, Mutated, CredentialOK
  <2>2. CandidateLoaded' = CandidateLoaded /\ Running' = Running /\ worker'.inst = worker.inst
    BY <1>2 DEF CandidateLoaded, Mutated, Running
  <2>3. CandidateLoaded /\ Present(worker.inst)' => Present(worker.inst)
    BY <1>2, <1>3, <2>1 DEF Present
  <2> QED  BY <1>2, <2>2, <2>3 DEF LoadedOK, Present
<1>8. CommitOK'  BY <1>2 DEF CommitOK, Mutated, HelperRuns
<1> QED  BY <1>4, <1>5, <1>6, <1>7, <1>8

\* The table is loaded for the number of an instance that is present or gone.
LEMMA LoadBinds ==
  ASSUME IInv, BindInv, HelperRuns("guard"), helper["guard"].op = "load",
         LoadTable(helper["guard"].dev), Running, Present(worker.inst)
  PROVE  map'.inactive = worker.inst
<1>1. worker.st = "helper" /\ up  BY DEF IInv, WorkerOK, Running
<1>2. worker.kind = "load"  BY <1>1 DEF IInv, WorkerOK
<1>3. DevOf[worker.inst] = helper["guard"].dev /\ worker.inst \in Inst
  BY <1>1, <1>2 DEF IInv, WorkerOK, PhaseOK
<1>4. map.active = guard.current
  BY <1>1, <1>2 DEF IInv, WorkerOK, BindInv, ControllerTracksKernel
<1>5. PICK i \in Bound(helper["guard"].dev) : map' = [map EXCEPT !.inactive = i]
  BY DEF LoadTable
<1>6. i = worker.inst
  <2>1. CASE DevOf[map.active] = helper["guard"].dev
    <3>1. ~ReusesActiveDev(worker.inst)  BY <1>1, <1>2 DEF BindInv, NewDeviceOK
    <3> QED  BY <1>3, <1>4, <1>5, <2>1, <3>1 DEF Bound, ReusesActiveDev
  <2>2. CASE DevOf[map.active] # helper["guard"].dev
    <3>1. i \in Inst /\ Present(i) /\ DevOf[i] = DevOf[worker.inst]
      BY <1>3, <1>5, <2>2 DEF Bound
    <3> QED  BY <1>3, <3>1 DEF BindInv, DistinctDevices
  <2> QED  BY <2>1, <2>2
<1> QED  BY <1>5, <1>6, WorkerTypes DEF MapState

LEMMA GuardHelperBind ==
  ASSUME IInv, BindInv, HelperWorks("guard") \/ HelperFails("guard"),
         UNCHANGED <<guardVars, takeoverVars>>
  PROVE  BindInv'
<1> USE DEF BindInv
<1> DEFINE h == helper["guard"]
<1>1. HelperRuns("guard") /\ map \in MapState /\ helper \in [Role -> HelperState] /\ h \in HelperState
  BY WorkerTypes DEF HelperWorks, HelperFails, Role
<1>2. /\ UNCHANGED <<up, guard, worker, plugged>>
      /\ ~HelperRuns("guard")'
      /\ helper'["guard"].st = "ok" => Effect(h)
  BY <1>1 DEF HelperWorks, HelperFails, Exits, guardVars, HelperRuns, Role, HelperState
<1>3. h.op = "load" \/ h.op = "resume"  BY <1>1 DEF IInv, PhaseOK
<1>4. /\ up => worker.st = "helper"
      /\ worker.st # "idle" => up
      /\ worker.st = "helper" => h.op = IF worker.kind = "load" THEN "load" ELSE "resume"
      /\ worker.st = "helper" => worker.kind \in {"load", "commit"}
      /\ worker.st # "idle" => worker.kind = guard.pending
  BY <1>1 DEF IInv, WorkerOK
<1>5. h.op = "load" => map'.active = map.active
  BY <1>1 DEF HelperWorks, HelperFails, Effect, LoadTable, MapState
<1>6. h.op = "resume" => /\ map.inactive \in Genuine
                         /\ map'.active \in {map.active, map.inactive}
                         /\ Effect(h) => map'.active = map.inactive
  <2> SUFFICES ASSUME h.op = "resume"
               PROVE  /\ map.inactive \in Genuine
                      /\ map'.active \in {map.active, map.inactive}
                      /\ Effect(h) => map'.active = map.inactive
    OBVIOUS
  <2>1. map.inactive \in Genuine /\ map.inactive # NoInst
    BY <1>1, GenuineIsInst DEF CommitOK
  <2>2. Effect(h) => map'.active = map.inactive  BY <2>1 DEF Effect, SwapTables
  <2>3. Effect(h) \/ map' = map \/ map'.active = map.active
    BY <1>1 DEF HelperWorks, HelperFails, SwapFails, MapState
  <2> QED  BY <2>1, <2>2, <2>3
<1>7. DistinctDevices' /\ CredentialOK' /\ NewDeviceOK'
  BY <1>2 DEF DistinctDevices, Present, CredentialOK, NewDeviceOK, ReusesActiveDev, Running
<1>8. ActiveIsAdmitted'  BY <1>3, <1>5, <1>6 DEF ActiveIsAdmitted
<1>9. LoadedOK'
  <2> SUFFICES ASSUME Running', CandidateLoaded', Present(worker.inst)'
               PROVE  map'.inactive = worker'.inst
    BY DEF LoadedOK, Present
  <2>1. Running /\ Present(worker.inst) /\ up  BY <1>2 DEF Running, Present
  <2>2. worker.kind = "load" /\ helper'["guard"].st = "ok"
    BY <1>2, <1>4, <2>1 DEF CandidateLoaded, Mutated
  <2>3. h.op = "load" /\ LoadTable(h.dev)
    BY <1>2, <1>4, <2>1, <2>2 DEF Effect
  <2> QED  BY <1>1, <1>2, <2>1, <2>3, LoadBinds
<1>10. CommitOK'
  <2>1. worker.st # "cleared"  BY <1>4
  <2>2. worker.kind = "commit" /\ Mutated' => map'.active = worker.inst
    <3> SUFFICES ASSUME worker.kind = "commit", Mutated' PROVE map'.active = worker.inst
      OBVIOUS
    <3>1. worker.st = "helper" /\ up /\ helper'["guard"].st = "ok"
      BY <1>2, <1>4 DEF Mutated
    <3>2. h.op = "resume"  BY <1>4, <3>1
    <3>3. map.inactive = worker.inst  BY <1>1, <3>1, <3>2 DEF CommitOK
    <3> QED  BY <1>2, <1>6, <3>1, <3>2, <3>3
  <2> QED  BY <1>2, <2>1, <2>2 DEF CommitOK
<1>11. ControllerTracksKernel'
  <2> SUFFICES ASSUME Running', guard'.pending # "commit" PROVE map'.active = guard'.current
    BY DEF ControllerTracksKernel
  <2>1. Running /\ up /\ guard.pending # "commit"  BY <1>2 DEF Running
  <2>2. h.op = "load"  BY <1>4, <2>1
  <2> QED  BY <1>2, <1>5, <2>1, <2>2 DEF ControllerTracksKernel
<1> QED  BY <1>7, <1>8, <1>9, <1>10, <1>11

\* After the owner's end only the takeover acts, and it never switches.
LEMMA EndedBind ==
  ASSUME IInv, BindInv, UNCHANGED plugged, ~up', worker'.st = "idle", map'.active = map.active,
         HelperRuns("guard")' => HelperRuns("guard") /\ helper'["guard"].op = helper["guard"].op
                                 /\ map'.inactive = map.inactive
  PROVE  BindInv'
<1> USE DEF BindInv
<1>1. DistinctDevices' /\ ActiveIsAdmitted' /\ CredentialOK' /\ NewDeviceOK'
  BY DEF DistinctDevices, Present, ActiveIsAdmitted, CredentialOK, NewDeviceOK
<1>2. LoadedOK' /\ ControllerTracksKernel'
  BY DEF LoadedOK, ControllerTracksKernel, Running
<1>3. CommitOK'  BY DEF CommitOK, Mutated
<1> QED  BY <1>1, <1>2, <1>3

LEMMA TakeoverHelperBind ==
  ASSUME IInv, BindInv, HelperWorks("takeover") \/ HelperFails("takeover"),
         UNCHANGED <<guardVars, takeoverVars>>
  PROVE  BindInv'
<1> DEFINE h == helper["takeover"]
<1>1. /\ HelperRuns("takeover") /\ h \in HelperState
      /\ helper' \in [Role -> HelperState] /\ helper'["guard"] = helper["guard"]
      /\ UNCHANGED <<plugged, up, worker>>
  BY WorkerTypes DEF HelperWorks, HelperFails, Exits, Role, HelperState, guardVars
<1>2. /\ ~up /\ worker.st = "idle" /\ ~HelperRuns("guard")
      /\ h.op \in {"clear", "resume", "message"} /\ (h.op = "resume" => map.inactive = NoInst)
  BY <1>1 DEF IInv, FenceOK, TakeoverOK, WorkerOK
<1>3. map'.active = map.active
  BY <1>1, <1>2, WorkerTypes
  DEF HelperWorks, HelperFails, Effect, SwapTables, SwapFails, MapState
<1> QED  BY <1>1, <1>2, <1>3, EndedBind DEF HelperRuns

LEMMA SupervisorBind == ASSUME IInv, BindInv, Supervisor PROVE BindInv'
<1>1. UNCHANGED <<up, guard, worker, plugged, map>> /\ helper'["guard"] = helper["guard"]
  BY WorkerTypes
  DEF Supervisor, TakeoverStep, TkStart, TkAgain, TkAcquire, TkRead, TkSpawn, Spawn, TkReap,
      TkFinish, TkThrows, TkCrash, TkQuiet, guardVars, Role
<1> QED
  BY <1>1 DEF BindInv, DistinctDevices, Present, ActiveIsAdmitted, CredentialOK, NewDeviceOK,
     ReusesActiveDev, Running, LoadedOK, CandidateLoaded, Mutated, CommitOK, HelperRuns,
     ControllerTracksKernel

LEMMA NextBind == ASSUME IInv, BindInv, [Next]_vars PROVE BindInv'
<1>1. CASE Environment  BY <1>1, DisksBind
<1>2. CASE Helpers  BY <1>2, GuardHelperBind, TakeoverHelperBind DEF Helpers, Role
<1>3. CASE Step \/ Work  BY <1>3, StepBind, WorkBind
<1>4. CASE GuardDies
  <2>1. ~up' /\ worker'.st = "idle" /\ UNCHANGED <<plugged, map, helper>>
    BY <1>4 DEF GuardDies, Idle
  <2> QED  BY <2>1, EndedBind DEF HelperRuns
<1>5. CASE Supervisor  BY <1>5, SupervisorBind
<1>6. CASE UNCHANGED vars
  BY <1>6 DEF vars, guardVars, BindInv, DistinctDevices, Present, ActiveIsAdmitted, CredentialOK,
     NewDeviceOK, ReusesActiveDev, Running, LoadedOK, CandidateLoaded, Mutated, CommitOK,
     HelperRuns, ControllerTracksKernel
<1> QED
  BY <1>1, <1>2, <1>3, <1>4, <1>5, <1>6 DEF Next, Controller, GuardExits, GuardCrashes

LEMMA InitBind == Init => BindInv
<1> SUFFICES ASSUME Init PROVE BindInv  OBVIOUS
<1> USE InstAssumption DEF Init, PathInit, GuardInit
<1>1. worker.st = "idle" /\ worker.kind = "none" /\ ~HelperRuns("guard")
  BY DEF Idle, NoHelper, HelperRuns, Role
<1>2. DistinctDevices  BY DEF DistinctDevices, Present
<1>3. ActiveIsAdmitted /\ ControllerTracksKernel  BY DEF ActiveIsAdmitted, ControllerTracksKernel
<1>4. CredentialOK /\ NewDeviceOK /\ LoadedOK /\ CommitOK
  BY <1>1 DEF CredentialOK, NewDeviceOK, LoadedOK, CandidateLoaded, Mutated, CommitOK
<1> QED  BY <1>2, <1>3, <1>4 DEF BindInv

-----------------------------------------------------------------------------
(* The theorems.                                                             *)

\* Which disk each table is bound to, with the digests of IInv.
THEOREM BindInvariance == Spec => [](IInv /\ BindInv)
<1>1. IInv /\ BindInv /\ [Next]_vars => (IInv /\ BindInv)'  BY NextOK, NextBind
<1>2. Init => IInv /\ BindInv  BY InitOK, InitBind
<1> QED  BY <1>1, <1>2, PTL DEF Spec

\* The users of the map never reach a disk that was not verified, although tables name a
\* dev_t only and disks come and go between a check and the kernel's use of it.
THEOREM OnlyAdmittedDisks == Spec => []ActiveIsAdmitted
<1>1. BindInv => ActiveIsAdmitted  BY DEF BindInv
<1> QED  BY <1>1, BindInvariance, PTL

\* Outside a commit, what the controller calls the current disk is the kernel's.
THEOREM ControllerKnowsTheDisk == Spec => []ControllerTracksKernel
<1>1. BindInv => ControllerTracksKernel  BY DEF BindInv
<1> QED  BY <1>1, BindInvariance, PTL

\* A step that the users of the map do not see.
LEMMA Unseen ==
  ASSUME UNCHANGED <<map.active, map.queue>>, Mode' = Mode
  PROVE  [Stable!Move]_(Stable!stableVars)
BY DEF Stable!stableVars

\* The guard's helper ends: the switch, or nothing that the users see; and the end of the
\* admission when the owner has gone before it.
LEMMA GuardHelperMaps ==
  ASSUME IInv, BindInv, HelperWorks("guard") \/ HelperFails("guard"),
         UNCHANGED <<guardVars, takeoverVars>>
  PROVE  [Stable!Move]_(Stable!stableVars)
<1> DEFINE h == helper["guard"]
<1>1. HelperRuns("guard") /\ map \in MapState /\ helper \in [Role -> HelperState] /\ h \in HelperState
  BY WorkerTypes DEF HelperWorks, HelperFails, Role
<1>2. UNCHANGED <<up, journal>> /\ ~HelperRuns("guard")'
  BY <1>1 DEF HelperWorks, HelperFails, Exits, guardVars, HelperRuns, Role, HelperState
<1>3. journal.queue_disable # "completed_by_takeover"  BY <1>1 DEF IInv, FenceOK
<1>4. Mode = "admitting" /\ Mode' = IF up THEN "admitting" ELSE "fenced"
  BY <1>1, <1>2, <1>3 DEF Mode
<1>5. \/ UNCHANGED <<map.active, map.queue>>
      \/ map'.active \in Genuine /\ map'.queue = TRUE
  <2>1. h.op = "load" \/ (h.op = "resume" /\ map.inactive \in Genuine)
    BY <1>1 DEF IInv, PhaseOK, BindInv, CommitOK
  <2>2. CASE Effect(h)
    BY <1>1, <2>1, <2>2, GenuineIsInst DEF Effect, LoadTable, SwapTables, MapState
  <2>3. CASE map' = map \/ SwapFails  BY <1>1, <2>3 DEF SwapFails, MapState
  <2> QED  BY <2>2, <2>3 DEF HelperWorks, HelperFails
<1> QED
  BY <1>4, <1>5 DEF Stable!Move, Stable!Switch, Stable!EndAdmission, Stable!stableVars

LEMMA TakeoverHelperMaps ==
  ASSUME IInv, HelperWorks("takeover") \/ HelperFails("takeover"),
         UNCHANGED <<guardVars, takeoverVars>>
  PROVE  [Stable!Move]_(Stable!stableVars)
<1> DEFINE h == helper["takeover"]
<1>1. /\ HelperRuns("takeover") /\ h \in HelperState
      /\ helper' \in [Role -> HelperState] /\ helper'["guard"] = helper["guard"]
      /\ UNCHANGED <<up, journal>>
  BY WorkerTypes DEF HelperWorks, HelperFails, Exits, Role, HelperState, guardVars
<1>2. /\ ~up /\ ~HelperRuns("guard")
      /\ h.op \in {"clear", "resume", "message"} /\ (h.op = "resume" => map.inactive = NoInst)
      /\ journal.queue_disable = "completed_by_takeover" => ~map.queue
  BY <1>1 DEF IInv, FenceOK, TakeoverOK, QueueClaimHolds
<1>3. Mode' = Mode /\ Mode \in {"fenced", "closed"} /\ (Mode = "closed" => ~map.queue)
  BY <1>1, <1>2 DEF Mode, HelperRuns
<1>4. map'.active = map.active /\ (map'.queue = map.queue \/ map'.queue = FALSE)
  BY <1>1, <1>2, WorkerTypes
  DEF HelperWorks, HelperFails, Effect, SwapTables, SwapFails, MapState
<1>5. map.queue \in BOOLEAN  BY WorkerTypes DEF MapState
<1> QED
  BY <1>3, <1>4, <1>5 DEF Stable!Move, Stable!StopQueueing, Stable!stableVars

\* The takeover closes the owner's end only after it turned queueing off.
LEMMA SupervisorMaps == ASSUME IInv, Supervisor PROVE [Stable!Move]_(Stable!stableVars)
<1>1. CASE TkFinish
  <2>1. TakeoverOwns /\ ~map.queue  BY <1>1 DEF TkFinish, TakeoverOwns, IInv, QueueOK
  <2>2. ~up /\ ~HelperRuns("guard")  BY <2>1 DEF IInv, FenceOK
  <2>3. UNCHANGED <<map, helper, up>>  BY <1>1 DEF Supervisor, guardVars, TkFinish
  <2>4. journal \in JournalRecord  BY DEF IInv, TypeOK, PathTypeOK
  <2>5. UNCHANGED journal \/ journal'.queue_disable = "completed_by_takeover"
    BY <1>1, <2>4 DEF TkFinish, JournalRecord
  <2> QED
    BY <2>1, <2>2, <2>3, <2>5 DEF Mode, HelperRuns, Stable!Move, Stable!CloseOwner, Stable!stableVars
<1>2. CASE ~TkFinish
  <2>1. UNCHANGED <<map, journal, up>> /\ helper'["guard"] = helper["guard"]
    BY <1>2, WorkerTypes
    DEF Supervisor, TakeoverStep, TkStart, TkAgain, TkAcquire, TkRead, TkSpawn, Spawn, TkReap,
        TkThrows, TkCrash, TkQuiet, guardVars, Role, takeoverVars
  <2> QED  BY <2>1, Unseen DEF Mode, HelperRuns
<1> QED  BY <1>1, <1>2

LEMMA ControllerMaps ==
  ASSUME IInv, Controller PROVE [Stable!Move]_(Stable!stableVars)
<1>1. CASE up /\ GuardDies
  <2>1. up /\ ~up' /\ UNCHANGED <<map, helper, journal>>  BY <1>1 DEF GuardDies
  <2>2. journal.queue_disable # "completed_by_takeover"  BY <2>1 DEF IInv, FenceOK
  <2>3. Mode = "admitting" /\ Mode' \in {"admitting", "fenced"}
    BY <2>1, <2>2 DEF Mode
  <2> QED  BY <2>1, <2>3 DEF Stable!Move, Stable!EndAdmission, Stable!stableVars
<1>2. CASE Step
  <2>1. up /\ UNCHANGED <<up, map>>
    BY <1>2
    DEF Step, StepExpires, OpenEpisode, RetryVerify, LoopThrows, Quiet, ConsumeVerify, ConsumeLoad,
        ConsumeRevalidate, ConsumeCommit, ConsumePreprobe, ConsumeProbe, ConsumeConfirm,
        ConsumeError, ConsumeThrows, ConsumeLate, Succeeded, Polled, Running
  <2> QED  BY <2>1, Unseen DEF Mode
<1>3. CASE Work
  <2>1. up /\ UNCHANGED up
    BY <1>3
    DEF Work, VerifyAdmits, ClearMutation, StartLoad, StartCommit, ReapHelper, Recheck, ProbePath,
        Confirm, WorkerFails, WorkerQuiet, Working, Cleared
  <2>2. UNCHANGED <<map.active, map.queue>>
    BY <1>3, WorkerTypes
    DEF Work, VerifyAdmits, ClearMutation, StartLoad, StartCommit, ReapHelper, Recheck, ProbePath,
        Confirm, WorkerFails, MapState
  <2> QED  BY <2>1, <2>2, Unseen DEF Mode
<1> QED  BY <1>1, <1>2, <1>3 DEF Controller, GuardExits, GuardCrashes

LEMMA NextMaps == ASSUME IInv, BindInv, [Next]_vars PROVE [Stable!Move]_(Stable!stableVars)
<1>1. CASE Environment
  <2>1. UNCHANGED <<map.active, map.queue, helper, journal, up>>
    BY <1>1, WorkerTypes DEF Environment, Plug, Unplug, PathFails, ExternalSuspend, DeadlinePasses,
       guardVars, MapState
  <2> QED  BY <2>1, Unseen DEF Mode, HelperRuns
<1>2. CASE Helpers  BY <1>2, GuardHelperMaps, TakeoverHelperMaps DEF Helpers, Role
<1>3. CASE Controller  BY <1>3, ControllerMaps
<1>4. CASE Supervisor  BY <1>4, SupervisorMaps
<1>5. CASE UNCHANGED vars
  BY <1>5, Unseen DEF vars, guardVars, Mode, HelperRuns
<1> QED  BY <1>1, <1>2, <1>3, <1>4, <1>5 DEF Next

\* The recovery transaction keeps the contract that the map's users rely on: it moves only
\* to admitted disks and only while an owner admits, and a closed map does not queue.
THEOREM KeepsContract == Spec => ImplementsStableMap
<1>1. Init => Stable!Begin
  BY DEF Init, PathInit, GuardInit, Stable!Begin, Mode
<1>2. IInv /\ BindInv /\ [Next]_vars => [Stable!Move]_(Stable!stableVars)  BY NextMaps
<1>3. Spec => [][Stable!Move]_(Stable!stableVars)
  BY <1>2, BindInvariance, PTL DEF Spec
<1> QED  BY <1>1, <1>3, PTL DEF Spec, ImplementsStableMap, Stable!Contract
=============================================================================
