------------------------- MODULE CandidateStore_proofs -------------------------
(***************************************************************************)
(* Proofs about the store, for any bounds.                                  *)
(*                                                                         *)
(* A plan: an input that was found equal is astray only if it was changed again since      *)
(* the admission, so one that is compared after it is not (BuildInv).  The store: a          *)
(* command holds the lock from its first look at the directories to its last write, so       *)
(* what it found stays true (ProcInv), and the directory that it writes was counted as          *)
(* active before (Bounded).                                                     *)
(***************************************************************************)
EXTENDS CandidateStore, FiniteSetTheorems, TLAPS

-----------------------------------------------------------------------------
(* The invariant. *)

Later == Again \cup {"ready"}
BuildPc == Reading \cup {"off", "ready", "blocked"}

\* The inputs that were compared with their first reading.
Rechecked == [pc \in BuildPc |->
    CASE pc = "table2"     -> {"context"}
      [] pc = "inventory2" -> {"context", "table"}
      [] pc = "mounts2"    -> {"context", "table", "inventory"}
      [] pc = "config2"    -> {"context", "table", "inventory", "mounts"}
      [] pc = "support2"   -> {"context", "table", "inventory", "mounts", "config"}
      [] pc = "ready"      -> Input
      [] OTHER             -> {}]

BuildType == env \in Inputs /\ build \in [pc : BuildPc, seen : Inputs, astray : SUBSET Input]

BuildInv ==
    /\ BuildType
    /\ build.pc \in Later =>
         \A i \in build.astray : i \notin Rechecked[build.pc] /\ env[i] # build.seen[i]

States == {"preparing", "prepared", "failed_needs_review", "cancelled"}
Live   == {"preparing", "prepared"}
Op     == [dir : BOOLEAN, receipt : BOOLEAN, state : States, cleanup : BOOLEAN, files : SUBSET Files,
           plan : Inputs \cup {Nothing}, stray : BOOLEAN]

Asked  == [stage : Inputs \cup {Nothing}, cancel : Id \cup {0}, seen : Op]
Proc   == [pc : {"idle"} \cup StagePc \cup CancelPc, plan : Inputs \cup {Nothing}, op : Id \cup {0}]

StoreType ==
    /\ op \in [Id -> Op]
    /\ asked \in Asked
    /\ proc \in Proc

OpInv ==
    /\ \A i \in Id : ~ op[i].dir => op[i] = NoOp
    /\ \A i \in Id : op[i].state = "cancelled" /\ ~ op[i].cleanup => op[i].files \cap Payloads = {}
    /\ \A i, j \in Id : /\ op[i].receipt /\ op[j].receipt /\ op[i].plan = op[j].plan
                        /\ op[i].state \in Live /\ op[j].state \in Live
                        => i = j

NoneLive(p) == \A j \in Id : op[j].receipt /\ op[j].plan = p => op[j].state \notin Live

\* The steps at which the command has a directory.
Making == {"manifest", "plan", "candidate", "build2", "prepared", "failed"}
Removing == {"unlink_candidate", "unlink_plan", "cancelled"}
Busy == {"incomplete", "operation", "pending"} \cup Making \cup Removing

ProcInv ==
    /\ proc.pc \in Busy => proc.op \in Id /\ this.dir
    /\ proc.pc \in CancelPc => proc.op \in Id
    /\ proc.pc \in {"mkdir", "operation"} => NoneLive(proc.plan)
    /\ proc.pc = "incomplete" => this.state \in Live
    /\ proc.pc = "operation" => this.state = "preparing" /\ ~ this.receipt
    /\ proc.pc \in Making => this.state = "preparing" /\ this.receipt /\ this.plan = proc.plan
    /\ proc.pc = "prepared" => PlanIs(proc.plan)
    /\ proc.pc = "pending" => this.state # "cancelled"
    /\ proc.pc \in Removing => this.cleanup
    /\ proc.pc \in {"unlink_plan", "cancelled"} => "candidate" \notin this.files
    /\ proc.pc = "cancelled" => "plan" \notin this.files

Bounded ==
    /\ Cardinality(Existing) <= MaxHistory /\ Cardinality(Active) <= MaxActive
    /\ proc.pc = "mkdir" => Cardinality(Existing) < MaxHistory /\ Cardinality(Active) < MaxActive

IInv == BuildInv /\ StoreType /\ OpInv /\ ProcInv /\ Bounded

-----------------------------------------------------------------------------
(* A plan. *)

LEMMA InputRead ==
  ASSUME NEW seen \in Inputs, NEW i \in Input, NEW c \in Contents[i]
  PROVE  [seen EXCEPT ![i] = c] \in Inputs
BY SMT DEF Inputs, Input

LEMMA InputTyped == ASSUME NEW seen \in Inputs, NEW i \in Input PROVE seen[i] \in Contents[i]
BY SMT DEF Inputs, Input

LEMMA ThePlanPcs ==
  /\ {"inventory1", "mounts1", "config1", "context1", "table1", "admit", "blocked", "support1", "off"}
       \subseteq BuildPc \ Later
  /\ Later \subseteq BuildPc
  /\ Later = {"context2", "table2", "inventory2", "mounts2", "config2", "support2", "ready"}
BY DEF BuildPc, Later, Reading, Earlier, Again

LEMMA RecheckedSteps ==
  /\ Rechecked["context2"] = {} /\ Rechecked["table2"] = {"context"}
  /\ Rechecked["inventory2"] = Rechecked["table2"] \cup {"table"}
  /\ Rechecked["mounts2"] = Rechecked["inventory2"] \cup {"inventory"}
  /\ Rechecked["config2"] = Rechecked["mounts2"] \cup {"mounts"}
  /\ Rechecked["support2"] = Rechecked["config2"] \cup {"config"}
  /\ Rechecked["ready"] = Rechecked["support2"] \cup {"support"}
  /\ Rechecked["ready"] = Input
BY ThePlanPcs DEF Rechecked, Input

LEMMA GotoOK ==
  ASSUME BuildInv, NEW next \in BuildPc, BuildGoto(next), UNCHANGED env,
         next \in Later => build.pc \in Later,
         next \in Later => \A i \in Rechecked[next] : i \in Rechecked[build.pc] \/ env[i] = build.seen[i]
  PROVE  BuildInv'
<1>1. /\ build' \in [pc : BuildPc, seen : Inputs, astray : SUBSET Input]
      /\ build'.pc = next /\ build'.seen = build.seen /\ build'.astray = build.astray
  BY DEF BuildGoto, BuildInv, BuildType
<1> QED BY <1>1 DEF BuildInv, BuildType

LEMMA BuildOK == BuildInv /\ Build => BuildInv'
<1> SUFFICES ASSUME BuildInv, Build PROVE BuildInv'
  OBVIOUS
<1>0. UNCHANGED env
  BY DEF Build
<1>1. CASE SampleSupport \/ SampleDiscovery \/ SampleContext \/ SampleTable
  <2>1. PICK i \in Input, next \in {"inventory1", "mounts1", "config1", "context1", "table1", "admit"} :
          build' = [build EXCEPT !.pc = next, !.seen[i] = env[i]]
    BY <1>1 DEF SampleSupport, SampleDiscovery, SampleContext, SampleTable, Sample, Input
  <2>2. next \in BuildPc /\ next \notin Later
    BY ThePlanPcs
  <2>3. PICK seen \in Inputs : seen = [build.seen EXCEPT ![i] = env[i]]
    BY InputRead, InputTyped DEF BuildInv, BuildType
  <2>4. build' = [pc |-> next, seen |-> seen, astray |-> build.astray]
    BY <2>1, <2>3 DEF BuildInv, BuildType
  <2> QED BY <1>0, <2>2, <2>4 DEF BuildInv, BuildType
<1>2. CASE Admit
  <2>1. build' = [pc |-> "context2", seen |-> build.seen, astray |-> {i \in Input : env[i] # build.seen[i]}]
    BY <1>2 DEF Admit, BuildInv, BuildType
  <2> QED BY <1>0, <2>1, ThePlanPcs, RecheckedSteps DEF BuildInv, BuildType
<1>3. CASE RecheckInputs
  <2>1. PICK i \in Input, next \in Later :
          /\ BuildGoto(IF env[i] = build.seen[i] THEN next ELSE "blocked")
          /\ build.pc \in Later /\ Rechecked[next] = Rechecked[build.pc] \cup {i}
    BY <1>3, RecheckedSteps, ThePlanPcs DEF RecheckInputs, Recheck, Input
  <2>2. CASE env[i] = build.seen[i]
    BY <1>0, <2>1, <2>2, ThePlanPcs, GotoOK
  <2>3. CASE env[i] # build.seen[i]
    BY <1>0, <2>1, <2>3, ThePlanPcs, GotoOK
  <2> QED BY <2>2, <2>3
<1>4. CASE Block
  BY <1>0, <1>4, ThePlanPcs, GotoOK DEF Block
<1> QED BY <1>1, <1>2, <1>3, <1>4 DEF Build

\* A new build.
LEMMA NoBuildType == NoBuild \in [pc : BuildPc, seen : Inputs, astray : SUBSET Input] /\ NoBuild.pc = "off"
<1>1. \A i \in Input : First(i) \in Contents[i]
  BY ContentAssumption DEF First
<1>2. [i \in Input |-> First(i)] \in Inputs
  BY <1>1 DEF Inputs, Input
<1> QED BY <1>2, ThePlanPcs DEF NoBuild

LEMMA FreshOK ==
  ASSUME BuildInv, UNCHANGED env, build' = NoBuild \/ BuildBegin
  PROVE  BuildInv'
<1>1. /\ build' \in [pc : BuildPc, seen : Inputs, astray : SUBSET Input]
      /\ build'.pc \notin Later
  BY NoBuildType, ThePlanPcs DEF BuildBegin
<1> QED BY <1>1 DEF BuildInv, BuildType

LEMMA ChangeOK == BuildInv /\ Change => /\ BuildInv'
                                       /\ build'.pc = build.pc /\ build'.seen = build.seen
<1> SUFFICES ASSUME BuildInv, Change PROVE BuildInv' /\ build'.pc = build.pc /\ build'.seen = build.seen
  OBVIOUS
<1>1. PICK i \in Input : \E c \in Contents[i] \ {env[i]} :
        env' = [env EXCEPT ![i] = c] /\ build' = [build EXCEPT !.astray = @ \ Returned(i, c)]
  BY DEF Change
<1>0. PICK c \in Contents[i] \ {env[i]} :
        env' = [env EXCEPT ![i] = c] /\ build' = [build EXCEPT !.astray = @ \ Returned(i, c)]
  BY <1>1
<1>2. env' \in Inputs /\ env'[i] = c /\ \A j \in Input \ {i} : env'[j] = env[j]
  <2>1. env \in Inputs /\ c \in Contents[i] /\ env' = [env EXCEPT ![i] = c]
    BY <1>0 DEF BuildInv, BuildType
  <2>2. env' \in Inputs
    BY <2>1, InputRead
  <2>3. env'[i] = c /\ \A j \in Input \ {i} : env'[j] = env[j]
    BY <2>1, SMT DEF Inputs, Input
  <2> QED BY <2>2, <2>3
<1>3. /\ build' = [pc |-> build.pc, seen |-> build.seen, astray |-> build.astray \ Returned(i, c)]
  BY <1>0 DEF BuildInv, BuildType
<1>4. BuildType'
  BY <1>2, <1>3 DEF BuildInv, BuildType
<1>5. ASSUME build.pc \in Later, NEW j \in build'.astray
      PROVE  j \notin Rechecked[build.pc] /\ env'[j] # build.seen[j]
  <2>1. j \in build.astray /\ j \in Input /\ j \notin Returned(i, c)
    BY <1>3, <1>5 DEF BuildInv, BuildType
  <2>2. CASE j = i
    BY <1>2, <1>5, <2>1, <2>2 DEF BuildInv, Returned, Later
  <2>3. CASE j # i
    BY <1>2, <1>5, <2>1, <2>3 DEF BuildInv
  <2> QED BY <2>2, <2>3
<1> QED BY <1>3, <1>4, <1>5 DEF BuildInv

\* Of what is ready, no input was another at the admission that has not returned.
LEMMA ReadyIsTrue == BuildInv /\ build.pc = "ready" => build.astray = {}
BY RecheckedSteps DEF BuildInv, BuildType, Later

-----------------------------------------------------------------------------
(* The store. *)

LEMMA TheStates == NoOp \in Op /\ NoOp.state = "preparing" /\ NoOp.files = {} /\ ~ NoOp.receipt /\ ~ NoOp.dir
BY DEF NoOp, Op, States

\* A directory is written.
LEMMA OpWritten ==
  ASSUME StoreType, OpInv, NEW k \in Id, NEW o \in Op, op' = [op EXCEPT ![k] = o],
         ~ o.dir => o = NoOp,
         o.state = "cancelled" /\ ~ o.cleanup => o.files \cap Payloads = {},
         o.receipt /\ o.state \in Live =>
            \/ op[k].receipt /\ op[k].plan = o.plan /\ op[k].state \in Live
            \/ NoneLive(o.plan)
  PROVE  OpInv' /\ op' \in [Id -> Op]
<1>1. op' \in [Id -> Op] /\ op'[k] = o /\ \A j \in Id \ {k} : op'[j] = op[j]
  BY DEF StoreType
<1>2. \A j \in Id \ {k} : o.receipt /\ op[j].receipt /\ op[j].plan = o.plan /\ o.state \in Live
                          => op[j].state \notin Live
  BY DEF OpInv, NoneLive
<1>3. \A i, j \in Id : /\ op'[i].receipt /\ op'[j].receipt /\ op'[i].plan = op'[j].plan
                       /\ op'[i].state \in Live /\ op'[j].state \in Live
                       => i = j
  <2> SUFFICES ASSUME NEW i \in Id, NEW j \in Id, op'[i].receipt, op'[j].receipt, op'[i].plan = op'[j].plan,
                      op'[i].state \in Live, op'[j].state \in Live, i # j
               PROVE  FALSE
    OBVIOUS
  <2>1. CASE i = k
    BY <1>1, <1>2, <2>1
  <2>2. CASE j = k
    BY <1>1, <1>2, <2>2
  <2>3. CASE i # k /\ j # k
    BY <1>1, <2>3 DEF OpInv
  <2> QED BY <2>1, <2>2, <2>3
<1>4. \A i \in Id : ~ op'[i].dir => op'[i] = NoOp
  BY <1>1 DEF OpInv
<1>5. \A i \in Id : op'[i].state = "cancelled" /\ ~ op'[i].cleanup => op'[i].files \cap Payloads = {}
  BY <1>1 DEF OpInv
<1> QED BY <1>1, <1>3, <1>4, <1>5 DEF OpInv

LEMMA FiniteId == IsFiniteSet(Id) /\ IsFiniteSet(Existing) /\ IsFiniteSet(Active)
                  /\ Cardinality(Existing) \in Nat /\ Cardinality(Active) \in Nat
<1>1. IsFiniteSet(Id)
  BY StoreAssumption, FS_Interval DEF Id
<1>2. Existing \subseteq Id /\ Active \subseteq Id
  BY DEF Existing, Active
<1> QED BY <1>1, <1>2, FS_Subset, FS_CardinalityType

\* Nothing new becomes active.
LEMMA FewerOK ==
  ASSUME Bounded, Existing' \subseteq Existing, Active' \subseteq Active,
         proc'.pc = "mkdir" => Cardinality(Existing) < MaxHistory /\ Cardinality(Active) < MaxActive
  PROVE  Bounded'
<1>1. /\ Cardinality(Existing') <= Cardinality(Existing) /\ Cardinality(Existing') \in Nat
      /\ Cardinality(Active') <= Cardinality(Active) /\ Cardinality(Active') \in Nat
  BY FiniteId, FS_Subset, FS_CardinalityType
<1> QED BY <1>1, FiniteId, StoreAssumption DEF Bounded

LEMMA SameBounded ==
  ASSUME Bounded, UNCHANGED op,
         proc'.pc = "mkdir" => Cardinality(Existing) < MaxHistory /\ Cardinality(Active) < MaxActive
  PROVE  Bounded'
<1>1. Existing' = Existing /\ Active' = Active
  BY DEF Existing, Active
<1> QED BY <1>1, FewerOK

\* One directory is written that was active, or is not now.
LEMMA OneBounded ==
  ASSUME Bounded, StoreType, NEW k \in Id, NEW o \in Op, op' = [op EXCEPT ![k] = o], op[k].dir,
         k \in Active \/ ~ o.dir, proc'.pc # "mkdir"
  PROVE  Bounded'
<1>1. op'[k] = o /\ \A j \in Id \ {k} : op'[j] = op[j]
  BY DEF StoreType
<1>2. Existing' \subseteq Existing
  BY <1>1 DEF Existing
<1>3. Active' \subseteq Active
  BY <1>1 DEF Active, Existing
<1> QED BY <1>2, <1>3, FewerOK

\* What the command writes was active.
LEMMA BusyIsActive ==
  ASSUME StoreType, ProcInv, proc.pc \in Busy
  PROVE  proc.op \in Active
<1>1. proc.op \in Id /\ this.dir
  BY DEF ProcInv
<1>2. CASE proc.pc = "operation"
  BY <1>1, <1>2 DEF ProcInv, Active, Existing, Loadable, this
<1>3. CASE proc.pc \in Making \cup {"incomplete", "pending"}
  <2>1. this.state # "cancelled"
    BY <1>3 DEF ProcInv, Live
  <2> QED BY <1>1, <2>1 DEF Active, Existing, this
<1>4. CASE proc.pc \in Removing
  BY <1>1, <1>4 DEF ProcInv, Active, Existing, this
<1> QED BY <1>2, <1>3, <1>4 DEF Busy

-----------------------------------------------------------------------------
(* Steps of the command. *)

LEMMA Ids == 0 \notin Id /\ Id \subseteq Nat
BY DEF Id

LEMMA ThePcs ==
  /\ Busy \subseteq StagePc \cup CancelPc
  /\ Making = {"manifest", "plan", "candidate", "build2", "prepared", "failed"}
  /\ Removing = {"unlink_candidate", "unlink_plan", "cancelled"}
  /\ Busy \cap {"idle", "end", "build1", "list", "mkdir", "snapshot"} = {}
BY DEF Busy, Making, Removing, StagePc, CancelPc

LEMMA IdleOK == Idle \in Proc /\ Idle.pc = "idle" /\ Idle.plan = Nothing /\ Idle.op = 0
BY DEF Idle, Proc

LEMMA GotoSteps ==
  ASSUME proc \in Proc, NEW next \in {"end"} \cup StagePc \cup CancelPc, Goto(next)
  PROVE  /\ proc' \in Proc
         /\ next = "end" => proc' = Idle
         /\ next # "end" => proc'.pc = next /\ proc'.plan = proc.plan /\ proc'.op = proc.op
<1>1. "end" \notin StagePc \cup CancelPc
  BY DEF StagePc, CancelPc
<1> QED BY <1>1, IdleOK DEF Goto, Proc

\* Nobody holds the lock.
LEMMA AtRest == proc'.pc = "idle" => ProcInv'
BY ThePcs DEF ProcInv, CancelPc

\* The directories stay as they are.
LEMMA Reads ==
  ASSUME IInv, UNCHANGED op, BuildInv', asked' \in Asked, proc' \in Proc, ProcInv',
         proc'.pc = "mkdir" => Cardinality(Existing) < MaxHistory /\ Cardinality(Active) < MaxActive
  PROVE  IInv'
<1>1. Bounded'
  BY SameBounded DEF IInv
<1>2. OpInv' /\ StoreType'
  BY DEF IInv, OpInv, StoreType
<1> QED BY <1>1, <1>2 DEF IInv

LEMMA Ends ==
  ASSUME IInv, UNCHANGED op, BuildInv', asked' \in Asked, proc' = Idle
  PROVE  IInv'
BY Reads, IdleOK, AtRest

\* A write of the directory that the command has.
LEMMA WriteOK ==
  ASSUME IInv, BuildInv', NEW at \in Busy, NEW next \in {"end"} \cup Busy, NEW o \in Op, Write(at, o, next), o.dir,
         o.state = "cancelled" /\ ~ o.cleanup => o.files \cap Payloads = {},
         o.receipt /\ o.state \in Live =>
            \/ this.receipt /\ this.plan = o.plan /\ this.state \in Live
            \/ NoneLive(o.plan),
         next # "end" /\ proc' = [proc EXCEPT !.pc = next] /\ op'[proc.op] = o => ProcInv'
  PROVE  IInv'
<1>1. proc.pc = at /\ op' = [op EXCEPT ![proc.op] = o] /\ Goto(next) /\ asked' = asked
  BY DEF Write
<1>2. proc.op \in Id /\ op[proc.op].dir /\ proc.op \in Active
  BY <1>1, BusyIsActive DEF IInv, ProcInv, this
<1>3. proc' \in Proc /\ proc'.pc # "mkdir"
  BY <1>1, ThePcs, GotoSteps, IdleOK DEF IInv, StoreType
<1>4. OpInv' /\ op' \in [Id -> Op]
  BY <1>1, <1>2, OpWritten DEF IInv, this
<1>5. Bounded'
  BY <1>1, <1>2, <1>3, OneBounded DEF IInv
<1>6. op'[proc.op] = o
  BY <1>1, <1>2 DEF IInv, StoreType
<1>7. ProcInv'
  <2>1. CASE next = "end"
    BY <1>1, <2>1, AtRest, IdleOK DEF Goto
  <2>2. CASE next # "end"
    BY <1>1, <1>6, <2>2 DEF Goto
  <2> QED BY <2>1, <2>2
<1> QED BY <1>1, <1>3, <1>4, <1>5, <1>7 DEF IInv, StoreType

-----------------------------------------------------------------------------
(* stage(). *)

LEMMA FieldsOK ==
  ASSUME IInv, proc.pc \in Busy
  PROVE  proc.op \in Id /\ this \in Op /\ this.dir
BY DEF IInv, StoreType, ProcInv, this

LEMMA StageBeginOK == IInv /\ (ConfirmStage \/ StageBegin) => IInv'
<1> SUFFICES ASSUME IInv, ConfirmStage \/ StageBegin PROVE IInv'
  OBVIOUS
<1>1. UNCHANGED <<env, build, op>> /\ BuildInv'
  BY DEF ConfirmStage, StageBegin, IInv, BuildInv, BuildType
<1>2. CASE ConfirmStage
  <2>1. asked' \in Asked /\ proc' = proc
    BY <1>2 DEF ConfirmStage, Asked, IInv, StoreType, BuildInv, BuildType
  <2>2. ProcInv'
    BY <1>1, <2>1 DEF IInv, ProcInv, this, NoneLive, PlanIs
  <2> QED BY <1>1, <2>1, <2>2, Reads DEF IInv, StoreType, Bounded
<1>3. CASE StageBegin
  <2>1. asked.stage \in Inputs \cup {Nothing}
    BY DEF IInv, StoreType, Asked
  <2>2. asked' \in Asked /\ proc' \in Proc /\ proc'.pc = "build1"
    BY <1>3, <2>1 DEF StageBegin, Asked, Proc, IInv, StoreType, Idle, StagePc
  <2>3. ProcInv'
    BY <2>2, ThePcs DEF ProcInv, CancelPc
  <2> QED BY <1>1, <2>2, <2>3, Reads
<1> QED BY <1>2, <1>3

LEMMA StageBuildOK == IInv /\ (StageBuild1 \/ StageBuild2) => IInv'
<1> SUFFICES ASSUME IInv, StageBuild1 \/ StageBuild2 PROVE IInv'
  OBVIOUS
<1>1. UNCHANGED <<env, op, asked>> /\ asked' \in Asked /\ proc \in Proc
  BY DEF StageBuild1, StageBuild2, StageBuild, IInv, StoreType
<1>2. CASE BuildBegin /\ UNCHANGED proc /\ proc.pc \in {"build1", "build2"}
  <2>1. BuildInv'
    BY <1>1, <1>2, FreshOK DEF IInv
  <2>2. ProcInv'
    BY <1>1, <1>2 DEF IInv, ProcInv, this, NoneLive, PlanIs
  <2> QED BY <1>1, <1>2, <2>1, <2>2, Reads
<1>3. CASE build' = NoBuild /\ (Goto("list") \/ Goto("end"))
  <2>1. Goto("list") \/ Goto("end")
    BY <1>3
  <2>2. BuildInv'
    BY <1>1, <1>3, FreshOK DEF IInv
  <2>3. proc' \in Proc /\ proc'.pc \in {"list", "idle"}
    BY <1>1, <2>1, GotoSteps, IdleOK DEF StagePc
  <2>4. ProcInv'
    BY <2>3, ThePcs DEF ProcInv, CancelPc
  <2> QED BY <1>1, <2>2, <2>3, <2>4, Reads
<1>4. CASE /\ proc.pc = "build2"
           /\ Goto(IF PlanIs(proc.plan) THEN "prepared" ELSE "failed")
           /\ build' = IF PlanIs(proc.plan) THEN build ELSE NoBuild
  <2>1. /\ proc.pc = "build2"
        /\ Goto(IF PlanIs(proc.plan) THEN "prepared" ELSE "failed")
        /\ build' = IF PlanIs(proc.plan) THEN build ELSE NoBuild
    BY <1>4
  <2>2. BuildInv'
    <3>1. CASE build' = NoBuild
      BY <1>1, <3>1, FreshOK DEF IInv
    <3>2. CASE build' = build
      BY <1>1, <3>2 DEF IInv, BuildInv, BuildType
    <3> QED BY <2>1, <3>1, <3>2
  <2>3. /\ proc' \in Proc /\ proc'.pc = (IF PlanIs(proc.plan) THEN "prepared" ELSE "failed")
        /\ proc'.plan = proc.plan /\ proc'.op = proc.op
    BY <1>1, <2>1, GotoSteps DEF StagePc
  <2>4. proc.op \in Id /\ this.dir /\ this.state = "preparing" /\ this.receipt /\ this.plan = proc.plan
    BY <2>1, ThePcs DEF IInv, ProcInv, Busy
  <2>5. ProcInv'
    <3>1. this' = this
      BY <1>1, <2>3 DEF this
    <3>2. CASE PlanIs(proc.plan)
      BY <2>1, <2>3, <2>4, <3>1, <3>2, ThePcs DEF ProcInv, PlanIs
    <3>3. CASE ~ PlanIs(proc.plan)
      BY <2>3, <2>4, <3>1, <3>3, ThePcs DEF ProcInv
    <3> QED BY <3>2, <3>3
  <2> QED BY <1>1, <2>2, <2>3, <2>5, Reads
<1>5. CASE StageBuild1
  BY <1>2, <1>3, <1>5 DEF StageBuild1, StageBuild
<1>6. CASE StageBuild2
  BY <1>2, <1>4, <1>6 DEF StageBuild2, StageBuild
<1> QED BY <1>5, <1>6

LEMMA StageListOK == IInv /\ StageList => IInv'
<1> SUFFICES ASSUME IInv, StageList PROVE IInv'
  OBVIOUS
<1>1. UNCHANGED <<env, build, op, asked>> /\ asked' \in Asked /\ proc \in Proc /\ proc.pc = "list"
  BY DEF StageList, IInv, StoreType
<1>2. BuildInv'
  BY <1>1 DEF IInv, BuildInv, BuildType
<1>3. CASE proc' = Idle
  BY <1>1, <1>2, <1>3, Ends
<1>4. CASE ~ Refuses(proc.plan) /\ Reusable(proc.plan) = {} /\ Goto("mkdir")
  <2>1. Cardinality(Active) < MaxActive /\ Cardinality(Existing) < MaxHistory
    BY <1>4 DEF Refuses
  <2>2. NoneLive(proc.plan)
    <3> SUFFICES ASSUME NEW j \in Id, op[j].receipt, op[j].plan = proc.plan, op[j].state \in Live
                 PROVE  FALSE
      BY DEF NoneLive
    <3>1. j \in Existing
      BY TheStates DEF IInv, OpInv, Existing
    <3>2. Loadable(op[j])
      BY <1>4, <3>1 DEF Refuses, ClaimedBy
    <3> QED BY <1>4, <3>1, <3>2 DEF Reusable, Live
  <2>3. proc' \in Proc /\ proc'.pc = "mkdir" /\ proc'.plan = proc.plan
    BY <1>1, <1>4, GotoSteps DEF StagePc
  <2>4. ProcInv'
    BY <1>1, <2>2, <2>3, ThePcs DEF ProcInv, NoneLive, CancelPc
  <2> QED BY <1>1, <1>2, <2>1, <2>3, <2>4, Reads
<1>5. CASE \E i \in Reusable(proc.plan) : proc' \in {[proc EXCEPT !.pc = "incomplete", !.op = i],
                                                     [proc EXCEPT !.pc = "build2", !.op = i]}
           /\ op[i].state # "prepared"
  <2>1. PICK i \in Reusable(proc.plan) : proc' \in {[proc EXCEPT !.pc = "incomplete", !.op = i],
                                                    [proc EXCEPT !.pc = "build2", !.op = i]}
                                         /\ op[i].state # "prepared"
    BY <1>5
  <2>2. i \in Id /\ op[i].dir /\ op[i].receipt /\ op[i].plan = proc.plan /\ op[i].state = "preparing"
    BY <2>1 DEF Reusable, Existing, Loadable
  <2>3. proc' \in Proc /\ proc'.pc \in {"incomplete", "build2"} /\ proc'.plan = proc.plan /\ proc'.op = i
    BY <1>1, <2>1, <2>2 DEF Proc, StagePc
  <2>4. ProcInv'
    BY <1>1, <2>2, <2>3, ThePcs DEF ProcInv, this, Live, CancelPc
  <2> QED BY <1>1, <1>2, <2>3, <2>4, Reads
<1>6. CASE \E i \in Reusable(proc.plan) : proc' = [proc EXCEPT !.pc = "incomplete", !.op = i]
  <2>1. PICK i \in Reusable(proc.plan) : proc' = [proc EXCEPT !.pc = "incomplete", !.op = i]
    BY <1>6
  <2>2. i \in Id /\ op[i].dir /\ op[i].state \in Live
    BY <2>1 DEF Reusable, Existing, Live
  <2>3. proc' \in Proc /\ proc'.pc = "incomplete" /\ proc'.op = i
    BY <1>1, <2>1, <2>2 DEF Proc, StagePc
  <2>4. ProcInv'
    BY <1>1, <2>2, <2>3, ThePcs DEF ProcInv, this, Live, CancelPc
  <2> QED BY <1>1, <1>2, <2>3, <2>4, Reads
<1> QED BY <1>3, <1>4, <1>5, <1>6 DEF StageList

LEMMA StageMkdirOK == IInv /\ StageMkdir => IInv'
<1> SUFFICES ASSUME IInv, StageMkdir PROVE IInv'
  OBVIOUS
<1>1. UNCHANGED <<env, build, asked>> /\ asked' \in Asked /\ proc \in Proc /\ proc.pc = "mkdir" /\ BuildInv'
  BY DEF StageMkdir, IInv, StoreType, BuildInv, BuildType
<1>2. PICK i : /\ i = CHOOSE k \in Id \ Existing : TRUE
               /\ op' = [op EXCEPT ![i].dir = TRUE]
               /\ proc' = [proc EXCEPT !.pc = "operation", !.op = i]
  BY DEF StageMkdir
<1>3. i \in Id \ Existing
  <2>1. Cardinality(Existing) < MaxHistory
    BY <1>1 DEF IInv, Bounded
  <2>2. Cardinality(Id) = MaxHistory + 1
    <3>1. MaxHistory \in Nat /\ 1 \in Int /\ MaxHistory + 1 \in Int /\ ~ (1 > MaxHistory + 1)
      BY StoreAssumption
    <3>2. Cardinality(1 .. MaxHistory + 1) = (MaxHistory + 1) - 1 + 1
      BY <3>1, FS_Interval
    <3> QED BY <3>1, <3>2 DEF Id
  <2>3. Existing \subseteq Id /\ Existing # Id
    BY <2>1, <2>2, StoreAssumption DEF Existing
  <2> QED BY <1>2, <2>3
<1>4. op[i] = NoOp
  BY <1>3 DEF IInv, OpInv, Existing
<1> DEFINE o == [op[i] EXCEPT !.dir = TRUE]
<1>5. o \in Op /\ o.dir /\ o.state = "preparing" /\ ~ o.receipt /\ op' = [op EXCEPT ![i] = o]
  BY <1>2, <1>3, <1>4, TheStates DEF IInv, StoreType, Op
<1> HIDE DEF o
<1>6. OpInv' /\ op' \in [Id -> Op]
  BY <1>3, <1>5, OpWritten DEF IInv
<1>7. proc' \in Proc /\ proc'.pc = "operation" /\ proc'.op = i /\ proc'.plan = proc.plan
  BY <1>1, <1>2, <1>3 DEF Proc, StagePc
<1>8. op'[i] = o /\ \A j \in Id \ {i} : op'[j] = op[j]
  BY <1>3, <1>5 DEF IInv, StoreType
<1>9. ProcInv'
  <2>1. NoneLive(proc.plan)
    BY <1>1 DEF IInv, ProcInv
  <2>2. \A j \in Id : op'[j].receipt /\ op'[j].plan = proc'.plan => op'[j].state \notin Live
    BY <1>5, <1>7, <1>8, <2>1 DEF NoneLive
  <2> QED BY <1>3, <1>5, <1>7, <1>8, <2>2, ThePcs DEF ProcInv, NoneLive, this, CancelPc
<1>10. Bounded'
  <2>1. Cardinality(Existing) < MaxHistory /\ Cardinality(Active) < MaxActive
    BY <1>1 DEF IInv, Bounded
  <2>2. Existing' \subseteq Existing \cup {i} /\ Active' \subseteq Active \cup {i}
    BY <1>8 DEF Existing, Active
  <2>5. IsFiniteSet(Existing \cup {i}) /\ Cardinality(Existing \cup {i}) <= Cardinality(Existing) + 1
    <3>1. IsFiniteSet(Existing) /\ i \notin Existing /\ Cardinality(Existing) \in Nat
      BY <1>3, FiniteId DEF Active
    <3>2. IsFiniteSet(Existing \cup {i}) /\ Cardinality(Existing \cup {i}) = Cardinality(Existing) + 1
      BY <3>1, FS_AddElement
    <3> QED BY <3>1, <3>2
  <2>6. IsFiniteSet(Active \cup {i}) /\ Cardinality(Active \cup {i}) <= Cardinality(Active) + 1
    <3>1. IsFiniteSet(Active) /\ i \notin Active /\ Cardinality(Active) \in Nat
      BY <1>3, FiniteId DEF Active
    <3>2. IsFiniteSet(Active \cup {i}) /\ Cardinality(Active \cup {i}) = Cardinality(Active) + 1
      BY <3>1, FS_AddElement
    <3> QED BY <3>1, <3>2
  <2>3. /\ IsFiniteSet(Existing \cup {i}) /\ Cardinality(Existing \cup {i}) <= Cardinality(Existing) + 1
        /\ IsFiniteSet(Active \cup {i}) /\ Cardinality(Active \cup {i}) <= Cardinality(Active) + 1
    BY <2>5, <2>6
  <2>4. /\ Cardinality(Existing') <= Cardinality(Existing \cup {i}) /\ Cardinality(Existing') \in Nat
        /\ Cardinality(Active') <= Cardinality(Active \cup {i}) /\ Cardinality(Active') \in Nat
        /\ Cardinality(Existing \cup {i}) \in Nat /\ Cardinality(Active \cup {i}) \in Nat
    BY <2>2, <2>3, FS_Subset, FS_CardinalityType
  <2> QED BY <1>7, <2>1, <2>3, <2>4, FiniteId, StoreAssumption DEF Bounded
<1> QED BY <1>1, <1>6, <1>7, <1>9, <1>10 DEF IInv, StoreType

\* The directory goes on being made.
LEMMA Makes ==
  ASSUME IInv, proc.pc \in Busy, NEW next \in {"manifest", "plan", "candidate", "build2"}, NEW o,
         proc' = [proc EXCEPT !.pc = next], op'[proc.op] = o,
         o.dir, o.state = "preparing", o.receipt, o.plan = proc.plan
  PROVE  ProcInv'
<1>1. proc'.pc = next /\ proc'.op = proc.op /\ proc'.plan = proc.plan /\ proc.op \in Id
  BY FieldsOK DEF IInv, StoreType, Proc
<1>2. this' = o
  BY <1>1 DEF this
<1> QED BY <1>1, <1>2, ThePcs DEF ProcInv

LEMMA StageWritesOK == IInv /\ (StageOperation \/ StageManifest \/ StagePlan \/ StageCandidate) => IInv'
<1> SUFFICES ASSUME IInv, StageOperation \/ StageManifest \/ StagePlan \/ StageCandidate PROVE IInv'
  OBVIOUS
<1>1. BuildInv' /\ proc.plan \in Inputs \cup {Nothing}
  BY DEF StageOperation, StageManifest, StagePlan, StageCandidate, Write, IInv, BuildInv, BuildType, StoreType, Proc
<1>2. CASE StageOperation
  <2> DEFINE o == [this EXCEPT !.receipt = TRUE, !.plan = proc.plan]
  <2>1. proc.pc = "operation" /\ proc.pc \in Busy /\ Write("operation", o, "manifest")
    BY <1>2 DEF StageOperation, Write, Busy
  <2>2. this.state = "preparing" /\ NoneLive(proc.plan)
    BY <2>1 DEF IInv, ProcInv
  <2>3. o \in Op /\ o.dir /\ o.receipt /\ o.plan = proc.plan /\ o.state = "preparing"
    BY <1>1, <2>1, <2>2, FieldsOK DEF Op
  <2> HIDE DEF o
  <2>4. proc' = [proc EXCEPT !.pc = "manifest"] /\ op'[proc.op] = o => ProcInv'
    BY <2>1, <2>3, Makes
  <2> QED BY <1>1, <2>1, <2>2, <2>3, <2>4, WriteOK, ThePcs DEF Busy
<1>3. CASE StageManifest \/ StagePlan \/ StageCandidate
  <2>1. PICK at \in {"manifest", "plan", "candidate"}, next \in {"plan", "candidate", "build2"} :
          Write(at, [this EXCEPT !.files = @ \cup {at}], next)
    BY <1>3 DEF StageManifest, StagePlan, StageCandidate
  <2>2. proc.pc = at /\ proc.pc \in Making /\ proc.pc \in Busy /\ at \in Files
    BY <2>1, ThePcs DEF Write, Busy, Files, Payloads
  <2>3. this.state = "preparing" /\ this.receipt /\ this.plan = proc.plan
    BY <2>2 DEF IInv, ProcInv
  <2> DEFINE o == [this EXCEPT !.files = @ \cup {at}]
  <2>4. o \in Op /\ o.dir /\ o.receipt /\ o.plan = proc.plan /\ o.state = "preparing"
    BY <2>2, <2>3, FieldsOK DEF Op
  <2>5. Write(at, o, next)
    BY <2>1
  <2> HIDE DEF o
  <2>6. proc' = [proc EXCEPT !.pc = next] /\ op'[proc.op] = o => ProcInv'
    BY <2>2, <2>4, Makes
  <2>7. o.receipt /\ o.state \in Live => this.receipt /\ this.plan = o.plan /\ this.state \in Live
    BY <2>3, <2>4
  <2>8. next \in {"end"} \cup Busy /\ at \in Busy
    BY <2>2, ThePcs DEF Busy
  <2> QED BY <1>1, <2>4, <2>5, <2>6, <2>7, <2>8, WriteOK
<1> QED BY <1>2, <1>3

\* The last write of a command: no step follows.
LEMMA LastWrite ==
  ASSUME IInv, BuildInv', NEW at \in Busy, NEW o \in Op, Write(at, o, "end"), o.dir,
         o.state = "cancelled" /\ ~ o.cleanup => o.files \cap Payloads = {},
         o.receipt /\ o.state \in Live => this.receipt /\ this.plan = o.plan /\ this.state \in Live
  PROVE  IInv'
BY WriteOK

LEMMA StagePreparedOK == IInv /\ StagePrepared => IInv'
<1> SUFFICES ASSUME IInv, StagePrepared PROVE IInv'
  OBVIOUS
<1>1. proc.pc = "prepared" /\ build' = NoBuild /\ env' = env /\ asked' = asked
  BY DEF StagePrepared, Write
<1>2. BuildInv' /\ asked' \in Asked
  BY <1>1, FreshOK DEF IInv, StoreType
<1>3. CASE Loadable(this) /\ this.files = Files
  <2> DEFINE o == [this EXCEPT !.state = "prepared"]
  <2>1. Write("prepared", o, "end") /\ "prepared" \in Busy /\ "prepared" \in Making
    BY <1>3, ThePcs DEF StagePrepared, Busy
  <2>2. this.state = "preparing" /\ this.receipt
    BY <1>1, <2>1 DEF IInv, ProcInv
  <2>3. o \in Op /\ o.dir /\ o.receipt /\ o.plan = this.plan /\ o.state = "prepared"
    BY <1>1, <2>1, <2>2, FieldsOK DEF Op, States
  <2> HIDE DEF o
  <2> QED BY <1>2, <2>1, <2>2, <2>3, LastWrite DEF Live
<1>4. CASE ~ (Loadable(this) /\ this.files = Files)
  <2>1. proc' = Idle /\ UNCHANGED op
    BY <1>4, IdleOK DEF StagePrepared, Goto
  <2> QED BY <1>2, <2>1, Ends
<1> QED BY <1>3, <1>4

LEMMA UpdateEnds ==
  ASSUME IInv, NEW at, NEW o, NEW next, Update(at, o, next)
  PROVE  proc.pc = at /\ BuildInv' /\ asked' \in Asked /\ (Write(at, o, next) \/ IInv')
<1>1. BuildInv' /\ asked' \in Asked /\ proc.pc = at
  BY DEF Update, Write, IInv, BuildInv, BuildType, StoreType
<1>2. CASE ~ Loadable(op[proc.op])
  <2>1. proc' = Idle /\ UNCHANGED op
    BY <1>2 DEF Update, Goto
  <2> QED BY <1>1, <2>1, Ends
<1>3. CASE Loadable(op[proc.op])
  BY <1>1, <1>3 DEF Update
<1> QED BY <1>2, <1>3

LEMMA StageFailsOK == IInv /\ (StageIncomplete \/ StageFailed) => IInv'
<1> SUFFICES ASSUME IInv, StageIncomplete \/ StageFailed PROVE IInv'
  OBVIOUS
<1> DEFINE o == [this EXCEPT !.state = "failed_needs_review"]
<1>1. PICK at \in {"incomplete", "failed"} : Update(at, o, "end")
  BY DEF StageIncomplete, StageFailed
<1>2. at \in Busy
  BY ThePcs DEF Busy
<1>3. o \in Op /\ o.dir /\ o.state = "failed_needs_review"
  BY <1>1, <1>2, UpdateEnds, FieldsOK DEF Op, States
<1> HIDE DEF o
<1>4. BuildInv' /\ (Write(at, o, "end") \/ IInv')
  BY <1>1, UpdateEnds
<1> QED BY <1>2, <1>3, <1>4, LastWrite DEF Live

-----------------------------------------------------------------------------
(* cancel(). *)

\* The payload goes on being removed.
LEMMA Removes ==
  ASSUME IInv, proc.pc \in Busy, NEW next \in Removing, NEW o,
         proc' = [proc EXCEPT !.pc = next], op'[proc.op] = o, o.dir, o.cleanup,
         next \in {"unlink_plan", "cancelled"} => "candidate" \notin o.files,
         next = "cancelled" => "plan" \notin o.files
  PROVE  ProcInv'
<1>1. proc'.pc = next /\ proc'.op = proc.op /\ proc.op \in Id
  BY FieldsOK DEF IInv, StoreType, Proc
<1>2. this' = o
  BY <1>1 DEF this
<1> QED BY <1>1, <1>2, ThePcs DEF ProcInv, Busy

LEMMA CancelBeginOK == IInv /\ (ConfirmCancel \/ CancelBegin \/ CancelSnapshot) => IInv'
<1> SUFFICES ASSUME IInv, ConfirmCancel \/ CancelBegin \/ CancelSnapshot PROVE IInv'
  OBVIOUS
<1>1. UNCHANGED <<env, build, op>> /\ BuildInv' /\ proc \in Proc /\ asked \in Asked
  BY DEF ConfirmCancel, CancelBegin, CancelSnapshot, IInv, BuildInv, BuildType, StoreType
<1>2. CASE ConfirmCancel
  <2>1. PICK i \in Existing : asked' = [asked EXCEPT !.cancel = i, !.seen = op[i]]
    BY <1>2 DEF ConfirmCancel
  <2>2. i \in Id /\ op[i] \in Op
    BY <2>1 DEF Existing, IInv, StoreType
  <2>3. asked' \in Asked /\ proc' = proc
    BY <1>1, <1>2, <2>1, <2>2 DEF ConfirmCancel, Asked
  <2>4. ProcInv'
    BY <1>1, <2>3 DEF IInv, ProcInv, this, NoneLive, PlanIs
  <2> QED BY <1>1, <2>3, <2>4, Reads DEF IInv, Bounded
<1>3. CASE CancelBegin
  <2>1. asked.cancel \in Id /\ asked' = asked
    BY <1>1, <1>3 DEF CancelBegin, Asked
  <2>2. proc' \in Proc /\ proc'.pc = "snapshot" /\ proc'.op \in Id
    BY <1>3, <2>1, IdleOK DEF CancelBegin, Proc, CancelPc
  <2>3. ProcInv'
    BY <2>2, ThePcs DEF ProcInv
  <2> QED BY <1>1, <2>1, <2>2, <2>3, Reads
<1>4. CASE CancelSnapshot
  <2>1. proc.pc = "snapshot" /\ proc.op \in Id /\ asked' = [asked EXCEPT !.cancel = 0, !.seen = NoOp]
    BY <1>4 DEF CancelSnapshot, IInv, ProcInv, CancelPc
  <2>2. asked' \in Asked
    BY <1>1, <2>1, TheStates DEF Asked
  <2>3. CASE proc' = Idle
    BY <1>1, <2>2, <2>3, Ends
  <2>4. CASE /\ Loadable(this) /\ ~ (this.state = "cancelled" /\ ~ this.cleanup)
             /\ Goto(IF this.cleanup THEN "unlink_candidate" ELSE "pending")
    <3>1. this.dir
      BY <2>1, <2>4, TheStates DEF Loadable, this, IInv, OpInv
    <3>2. /\ proc' \in Proc /\ proc'.pc = (IF this.cleanup THEN "unlink_candidate" ELSE "pending")
          /\ proc'.op = proc.op
      BY <1>1, <2>4, GotoSteps DEF CancelPc
    <3>3. this' = this
      BY <1>1, <3>2 DEF this
    <3>4. this.cleanup \in BOOLEAN
      BY <2>1 DEF IInv, StoreType, Op, this
    <3>5. ProcInv'
      BY <2>1, <2>4, <3>1, <3>2, <3>3, <3>4, ThePcs DEF ProcInv, Busy
    <3> QED BY <1>1, <2>2, <3>2, <3>5, Reads
  <2> QED BY <1>4, <2>3, <2>4 DEF CancelSnapshot
<1> QED BY <1>2, <1>3, <1>4

LEMMA CancelPendingOK == IInv /\ CancelPending => IInv'
<1> SUFFICES ASSUME IInv, CancelPending PROVE IInv'
  OBVIOUS
<1> DEFINE o == [this EXCEPT !.state = "cancelled", !.cleanup = TRUE]
<1>1. Update("pending", o, "unlink_candidate") /\ "pending" \in Busy
  BY DEF CancelPending, Busy
<1>2. proc.pc = "pending"
  BY <1>1, UpdateEnds
<1>3. o \in Op /\ o.dir /\ o.state = "cancelled" /\ o.cleanup
  BY <1>1, <1>2, FieldsOK DEF Op, States
<1> HIDE DEF o
<1>4. proc' = [proc EXCEPT !.pc = "unlink_candidate"] /\ op'[proc.op] = o => ProcInv'
  BY <1>1, <1>2, <1>3, Removes DEF Removing
<1>5. BuildInv' /\ (Write("pending", o, "unlink_candidate") \/ IInv')
  BY <1>1, UpdateEnds
<1>6. "unlink_candidate" \in Busy
  BY ThePcs DEF Busy
<1> QED BY <1>1, <1>3, <1>4, <1>5, <1>6, WriteOK DEF Live

LEMMA CancelUnlinkOK == IInv /\ (CancelCandidate \/ CancelPlan) => IInv'
<1> SUFFICES ASSUME IInv, CancelCandidate \/ CancelPlan PROVE IInv'
  OBVIOUS
<1>1. PICK at \in {"unlink_candidate", "unlink_plan"}, x \in {"candidate", "plan"},
           next \in {"unlink_plan", "cancelled"} :
        /\ Update(at, [this EXCEPT !.files = @ \ {x}], next)
        /\ at = "unlink_candidate" => x = "candidate" /\ next = "unlink_plan"
        /\ at = "unlink_plan" => x = "plan" /\ next = "cancelled"
  BY DEF CancelCandidate, CancelPlan
<1>2. at \in Busy /\ next \in Busy /\ at \in Removing /\ next \in Removing
  BY ThePcs DEF Busy
<1> DEFINE o == [this EXCEPT !.files = @ \ {x}]
<1>3. Update(at, o, next)
  BY <1>1
<1>4. proc.pc = at /\ proc.op \in Id /\ this \in Op /\ this.dir
  BY <1>2, <1>3, UpdateEnds, FieldsOK
<1>5. /\ o \in Op /\ o.dir /\ o.state = this.state /\ o.cleanup = this.cleanup /\ o.plan = this.plan
      /\ o.receipt = this.receipt /\ o.files = this.files \ {x}
  BY <1>4 DEF Op
<1>6. this.cleanup /\ (at = "unlink_plan" => "candidate" \notin this.files)
  BY <1>2, <1>4 DEF IInv, ProcInv
<1> HIDE DEF o
<1>7. proc' = [proc EXCEPT !.pc = next] /\ op'[proc.op] = o => ProcInv'
  <2>1. next \in {"unlink_plan", "cancelled"} => "candidate" \notin o.files
    BY <1>1, <1>5, <1>6
  <2>2. next = "cancelled" => "plan" \notin o.files
    BY <1>1, <1>5
  <2> QED BY <1>2, <1>4, <1>5, <1>6, <2>1, <2>2, Removes
<1>8. BuildInv' /\ (Write(at, o, next) \/ IInv')
  BY <1>3, UpdateEnds
<1> QED BY <1>2, <1>5, <1>6, <1>7, <1>8, <1>4, WriteOK DEF IInv, OpInv, this

LEMMA CancelDoneOK == IInv /\ CancelDone => IInv'
<1> SUFFICES ASSUME IInv, CancelDone PROVE IInv'
  OBVIOUS
<1> DEFINE o == [this EXCEPT !.cleanup = FALSE]
<1>1. Update("cancelled", o, "end") /\ "cancelled" \in Busy /\ "cancelled" \in Removing
  BY ThePcs DEF CancelDone, Busy
<1>2. proc.pc = "cancelled" /\ proc.op \in Id /\ this \in Op /\ this.dir
  BY <1>1, UpdateEnds, FieldsOK
<1>3. /\ o \in Op /\ o.dir /\ o.state = this.state /\ o.plan = this.plan
      /\ o.receipt = this.receipt /\ o.files = this.files
  BY <1>2 DEF Op
<1>4. o.files \cap Payloads = {}
  BY <1>2, <1>3 DEF IInv, ProcInv, Payloads
<1> HIDE DEF o
<1>5. BuildInv' /\ (Write("cancelled", o, "end") \/ IInv')
  BY <1>1, UpdateEnds
<1> QED BY <1>1, <1>3, <1>4, <1>5, LastWrite

-----------------------------------------------------------------------------
(* The environment. *)

LEMMA InputsOK == IInv /\ (Build \/ Change) /\ UNCHANGED <<op, asked, proc>> => IInv'
<1> SUFFICES ASSUME IInv, Build \/ Change, UNCHANGED <<op, asked, proc>> PROVE IInv'
  OBVIOUS
<1>1. BuildInv'
  BY BuildOK, ChangeOK DEF IInv
<1>2. build.pc = "ready" => build'.pc = build.pc /\ build'.seen = build.seen
  <2>1. CASE Build
    BY <2>1 DEF Build, SampleSupport, SampleDiscovery, SampleContext, SampleTable, Sample, Admit,
                RecheckInputs, Recheck, Block, Reading, Earlier, Again
  <2> QED BY <2>1, ChangeOK DEF IInv
<1>3. ProcInv'
  BY <1>2 DEF IInv, ProcInv, this, NoneLive, PlanIs
<1> QED BY <1>1, <1>3, Reads DEF IInv, StoreType, Bounded

LEMMA CrashOK == IInv /\ Crash => IInv'
<1> SUFFICES ASSUME IInv, Crash PROVE IInv'
  OBVIOUS
<1>1. proc' = Idle /\ build' = NoBuild /\ UNCHANGED <<env, asked>>
  BY DEF Crash
<1>2. BuildInv' /\ asked' \in Asked
  BY <1>1, FreshOK DEF IInv, StoreType
<1>3. CASE UNCHANGED op
  BY <1>1, <1>2, <1>3, Ends
<1>4. CASE proc.pc \in Writes /\ op' = [op EXCEPT ![proc.op].stray = TRUE]
  <2>1. proc.pc \in Busy
    BY <1>4, ThePcs DEF Writes, Busy
  <2>2. proc.op \in Id /\ this \in Op /\ this.dir /\ proc.op \in Active
    BY <2>1, FieldsOK, BusyIsActive DEF IInv
  <2> DEFINE o == [this EXCEPT !.stray = TRUE]
  <2>3. op' = [op EXCEPT ![proc.op] = o]
    BY <1>4, <2>2 DEF this
  <2>4. /\ o \in Op /\ o.dir /\ o.state = this.state /\ o.plan = this.plan /\ o.cleanup = this.cleanup
        /\ o.receipt = this.receipt /\ o.files = this.files
    BY <2>2 DEF Op
  <2> HIDE DEF o
  <2>5. OpInv' /\ op' \in [Id -> Op]
    <3>1. this.state = "cancelled" /\ ~ this.cleanup => this.files \cap Payloads = {}
      BY <2>2 DEF IInv, OpInv, this
    <3> QED BY <2>2, <2>3, <2>4, <3>1, OpWritten DEF IInv, this
  <2>6. Bounded'
    BY <1>1, <2>2, <2>3, <2>4, IdleOK, OneBounded DEF IInv, this
  <2> QED BY <1>1, <1>2, <2>5, <2>6, IdleOK, AtRest DEF IInv, StoreType
<1> QED BY <1>3, <1>4 DEF Crash

LEMMA ReviewOK == IInv /\ Review => IInv'
<1> SUFFICES ASSUME IInv, Review PROVE IInv'
  OBVIOUS
<1>1. UNCHANGED <<env, build, asked, proc>> /\ proc = Idle
  BY DEF Review
<1>2. BuildInv' /\ asked' \in Asked /\ proc'.pc = "idle" /\ proc' \in Proc
  BY <1>1, IdleOK DEF IInv, StoreType, BuildInv, BuildType
<1>3. PICK i \in Existing : \/ op' = [op EXCEPT ![i] = NoOp]
                            \/ op[i].stray /\ op' = [op EXCEPT ![i].stray = FALSE]
  BY DEF Review
<1>4. i \in Id /\ op[i] \in Op /\ op[i].dir
  BY DEF Existing, IInv, StoreType
<1>5. CASE op' = [op EXCEPT ![i] = NoOp]
  <2>1. OpInv' /\ op' \in [Id -> Op]
    BY <1>4, <1>5, TheStates, OpWritten DEF IInv
  <2>2. Bounded'
    BY <1>2, <1>4, <1>5, TheStates, OneBounded DEF IInv
  <2> QED BY <1>2, <2>1, <2>2, AtRest DEF IInv, StoreType
<1>6. CASE op[i].stray /\ op' = [op EXCEPT ![i].stray = FALSE]
  <2> DEFINE o == [op[i] EXCEPT !.stray = FALSE]
  <2>1. op' = [op EXCEPT ![i] = o]
    BY <1>4, <1>6
  <2>2. /\ o \in Op /\ o.dir /\ o.state = op[i].state /\ o.plan = op[i].plan /\ o.cleanup = op[i].cleanup
        /\ o.receipt = op[i].receipt /\ o.files = op[i].files
    BY <1>4 DEF Op
  <2> HIDE DEF o
  <2>3. i \in Active
    BY <1>3, <1>6 DEF Active, Loadable
  <2>4. OpInv' /\ op' \in [Id -> Op]
    <3>1. op[i].state = "cancelled" /\ ~ op[i].cleanup => op[i].files \cap Payloads = {}
      BY <1>4 DEF IInv, OpInv
    <3> QED BY <1>4, <2>1, <2>2, <3>1, OpWritten DEF IInv
  <2>5. Bounded'
    BY <1>2, <1>4, <2>1, <2>2, <2>3, OneBounded DEF IInv
  <2> QED BY <1>2, <2>4, <2>5, AtRest DEF IInv, StoreType
<1> QED BY <1>3, <1>5, <1>6

-----------------------------------------------------------------------------
(* The theorems. *)

LEMMA InitOK == Init => IInv
<1> SUFFICES ASSUME Init PROVE IInv
  OBVIOUS
<1>1. BuildInv
  BY NoBuildType, ThePlanPcs DEF Init, BuildInv, BuildType, NoBuild
<1>2. StoreType /\ proc.pc = "idle"
  BY TheStates, IdleOK DEF Init, StoreType, NoAsk, Asked
<1>3. \A i \in Id : op[i] = NoOp
  BY DEF Init
<1>4. OpInv
  BY <1>3, TheStates DEF OpInv
<1>5. ProcInv
  BY <1>2, ThePcs DEF ProcInv, CancelPc
<1>6. Bounded
  <2>1. Existing = {} /\ Active = {}
    BY <1>3, TheStates DEF Existing, Active
  <2> QED BY <1>2, <2>1, FS_EmptySet, StoreAssumption DEF Bounded
<1> QED BY <1>1, <1>2, <1>4, <1>5, <1>6 DEF IInv

LEMMA NextOK == IInv /\ [Next]_vars => IInv'
<1> SUFFICES ASSUME IInv, [Next]_vars PROVE IInv'
  OBVIOUS
<1>1. CASE Stage
  BY <1>1, StageBeginOK, StageBuildOK, StageListOK, StageMkdirOK, StageWritesOK, StagePreparedOK, StageFailsOK
     DEF Stage
<1>2. CASE Cancel
  BY <1>2, CancelBeginOK, CancelPendingOK, CancelUnlinkOK, CancelDoneOK DEF Cancel
<1>3. CASE Build /\ UNCHANGED <<op, asked, proc, budget>>
  BY <1>3, InputsOK
<1>4. CASE InputsChange
  BY <1>4, InputsOK DEF InputsChange
<1>5. CASE Crash \/ Review
  BY <1>5, CrashOK, ReviewOK
<1>6. CASE UNCHANGED vars
  BY <1>6 DEF vars, IInv, BuildInv, BuildType, StoreType, OpInv, ProcInv, PlanIs, NoneLive, this, Bounded, Existing,
              Active, Loadable
<1> QED BY <1>1, <1>2, <1>3, <1>4, <1>5, <1>6 DEF Next

LEMMA Invariance == Spec => []IInv
BY InitOK, NextOK, PTL DEF Spec

\* Only the last step of finish() makes an operation prepared.
LEMMA OnlyPrepares ==
  ASSUME IInv, Next, NEW i \in Id, op[i].state # "prepared", op'[i].state = "prepared"
  PROVE  StagePrepared /\ i = proc.op
<1>0. op \in [Id -> Op]
  BY DEF IInv, StoreType
<1>1. ASSUME NEW at \in Busy, NEW o, NEW next, Write(at, o, next)
      PROVE  i = proc.op /\ o.state = "prepared" /\ this \in Op /\ this.state # "prepared"
  <2>1. proc.op \in Id /\ op' = [op EXCEPT ![proc.op] = o] /\ this \in Op
    BY <1>1, FieldsOK DEF Write, IInv
  <2> QED BY <1>0, <2>1 DEF this
<1>2. ASSUME NEW at \in Busy, NEW o, NEW next, Update(at, o, next)
      PROVE  o.state = "prepared" /\ this \in Op /\ this.state # "prepared"
  BY <1>1, <1>2 DEF Update
<1>3. ~ UNCHANGED op
  OBVIOUS
<1>4. {"incomplete", "operation", "manifest", "plan", "candidate", "prepared", "failed", "pending",
       "unlink_candidate", "unlink_plan", "cancelled"} \subseteq Busy
  BY ThePcs DEF Busy
<1>5. CASE Stage
  <2>1. ~ (ConfirmStage \/ StageBegin \/ StageBuild1 \/ StageBuild2 \/ StageList)
    BY <1>3 DEF ConfirmStage, StageBegin, StageBuild1, StageBuild2, StageBuild, StageList
  <2>2. ASSUME StageMkdir PROVE FALSE
    <3>1. PICK k : op' = [op EXCEPT ![k].dir = TRUE]
      BY <2>2 DEF StageMkdir
    <3> QED BY <1>0, <3>1 DEF Op
  <2>3. ASSUME StageIncomplete \/ StageFailed PROVE FALSE
    <3> DEFINE o == [this EXCEPT !.state = "failed_needs_review"]
    <3>1. Update("incomplete", o, "end") \/ Update("failed", o, "end")
      BY <2>3 DEF StageIncomplete, StageFailed
    <3> HIDE DEF o
    <3>2. o.state = "prepared" /\ this \in Op
      BY <1>2, <1>4, <3>1
    <3> QED BY <3>2 DEF o, Op
  <2>4. ASSUME StageOperation \/ StageManifest \/ StagePlan \/ StageCandidate PROVE FALSE
    <3>1. CASE StageOperation
      <4> DEFINE o == [this EXCEPT !.receipt = TRUE, !.plan = proc.plan]
      <4>1. Write("operation", o, "manifest")
        BY <3>1 DEF StageOperation
      <4> HIDE DEF o
      <4>2. o.state = "prepared" /\ this \in Op /\ this.state # "prepared"
        BY <1>1, <1>4, <4>1
      <4> QED BY <4>2 DEF o, Op
    <3>2. CASE StageManifest \/ StagePlan \/ StageCandidate
      <4>1. PICK at \in {"manifest", "plan", "candidate"}, next \in {"plan", "candidate", "build2"} :
              Write(at, [this EXCEPT !.files = @ \cup {at}], next)
        BY <3>2 DEF StageManifest, StagePlan, StageCandidate
      <4>2. PICK o : o = [this EXCEPT !.files = @ \cup {at}]
        OBVIOUS
      <4>3. o.state = "prepared" /\ this \in Op /\ this.state # "prepared"
        BY <1>1, <1>4, <4>1, <4>2
      <4> QED BY <4>2, <4>3 DEF Op
    <3> QED BY <2>4, <3>1, <3>2
  <2>5. ASSUME StagePrepared PROVE i = proc.op
    BY <1>1, <1>3, <1>4, <2>5 DEF StagePrepared
  <2> QED BY <1>5, <2>1, <2>2, <2>3, <2>4, <2>5 DEF Stage
<1>6. CASE Cancel
  <2>1. ~ (ConfirmCancel \/ CancelBegin \/ CancelSnapshot)
    BY <1>3 DEF ConfirmCancel, CancelBegin, CancelSnapshot
  <2>2. ASSUME CancelPending PROVE FALSE
    <3> DEFINE o == [this EXCEPT !.state = "cancelled", !.cleanup = TRUE]
    <3>1. Update("pending", o, "unlink_candidate")
      BY <2>2 DEF CancelPending
    <3> HIDE DEF o
    <3>2. o.state = "prepared" /\ this \in Op
      BY <1>2, <1>4, <3>1
    <3> QED BY <3>2 DEF o, Op
  <2>3. ASSUME CancelCandidate \/ CancelPlan PROVE FALSE
    <3>1. PICK at \in {"unlink_candidate", "unlink_plan"}, x \in {"candidate", "plan"}, next \in {"unlink_plan", "cancelled"} :
            Update(at, [this EXCEPT !.files = @ \ {x}], next)
      BY <2>3 DEF CancelCandidate, CancelPlan
    <3>2. PICK o : o = [this EXCEPT !.files = @ \ {x}]
      OBVIOUS
    <3>3. o.state = "prepared" /\ this \in Op /\ this.state # "prepared"
      BY <1>2, <1>4, <3>1, <3>2
    <3> QED BY <3>2, <3>3 DEF Op
  <2>4. ASSUME CancelDone PROVE FALSE
    <3> DEFINE o == [this EXCEPT !.cleanup = FALSE]
    <3>1. Update("cancelled", o, "end")
      BY <2>4 DEF CancelDone
    <3> HIDE DEF o
    <3>2. o.state = "prepared" /\ this \in Op /\ this.state # "prepared"
      BY <1>2, <1>4, <3>1
    <3> QED BY <3>2 DEF o, Op
  <2> QED BY <1>6, <2>1, <2>2, <2>3, <2>4 DEF Cancel
<1>7. ~ Crash
  BY <1>0, <1>3 DEF Crash, Op
<1>8. ~ Review
  BY <1>0, <1>3, TheStates DEF Review, Op
<1> QED BY <1>3, <1>5, <1>6, <1>7, <1>8 DEF Next, InputsChange

\* An operation is prepared on a build that read every input as the user confirmed it, and
\* at whose admission no input was another that has not returned since; for any contents,
\* number of directories, crashes and changes.
THEOREM PreparedHolds == Spec => PreparedWasTrue
<1>1. ASSUME IInv, Next, NEW i \in Id, op[i].state # "prepared", op'[i].state = "prepared"
      PROVE  build.pc = "ready" /\ build.seen = op[i].plan /\ build.astray = {}
  <2>1. StagePrepared /\ i = proc.op
    BY <1>1, OnlyPrepares
  <2>2. proc.pc = "prepared" /\ "prepared" \in Making
    BY <2>1, ThePcs DEF StagePrepared, Write, Goto
  <2>3. PlanIs(proc.plan) /\ op[i].plan = proc.plan
    BY <1>1, <2>1, <2>2 DEF IInv, ProcInv, this
  <2> QED BY <1>1, <2>3, ReadyIsTrue DEF PlanIs, IInv
<1>2. IInv /\ [Next]_vars =>
        [\A i \in Id : op[i].state # "prepared" /\ op'[i].state = "prepared" =>
            build.pc = "ready" /\ build.seen = op[i].plan /\ build.astray = {}]_vars
  BY <1>1
<1> QED BY <1>2, Invariance, PTL DEF Spec, PreparedWasTrue

\* One plan has at most one live directory.
THEOREM OneLiveHolds == Spec => []OneLivePerPlan
<1>1. IInv => OneLivePerPlan
  BY DEF IInv, OpInv, OneLivePerPlan, Existing, Live
<1> QED BY <1>1, Invariance, PTL

\* A candidate that is cancelled, with nothing left to clean up, has no payload.
THEOREM CancelledHolds == Spec => []CancelledIsClean
<1>1. IInv => CancelledIsClean
  BY DEF IInv, OpInv, CancelledIsClean, Existing
<1> QED BY <1>1, Invariance, PTL

\* The store stays within its two limits, whatever remnants crashes leave.
THEOREM BoundedHolds == Spec => []StoreIsBounded
<1>1. IInv => StoreIsBounded
  BY DEF IInv, Bounded, StoreIsBounded
<1> QED BY <1>1, Invariance, PTL
================================================================================
