------------------------------ MODULE Plan_proofs ------------------------------
(***************************************************************************)
(* Proofs about the plan built read by read, for any contents, nodes,              *)
(* attachments and number of changes.                                         *)
(*                                                                         *)
(* A source is astray when it was not as read at the instant between the two        *)
(* readings and has not returned since; so one that is astray is found to differ, and     *)
(* one that was compared and found equal is not (LookInv).                           *)
(***************************************************************************)
EXTENDS Plan, TLAPS

-----------------------------------------------------------------------------
(* The observation. *)

\* The sources whose second reading has been compared.
Compared == [p \in LookPc |->
    CASE p = "mounts2" -> {"inventory"}
      [] p = "maps2"   -> {"inventory", "mounts"}
      [] p = "config2" -> {"inventory", "mounts", "maps"}
      [] p = "done"    -> Observed
      [] OTHER         -> {}]

LookType ==
    /\ w \in Sources
    /\ own \in [unit : Nat, journal : Nat]
    /\ look \in [pc : LookPc \cup {"off"}, seen : Seen, service : Nat, transaction : Nat,
                 process : Nat, owner : BOOLEAN, current : BOOLEAN, stable : BOOLEAN,
                 astray : SUBSET Observed]

AstrayDiffers ==
    look.pc \in Second =>
        \A s \in look.astray : w[s] # look.seen[s] /\ (look.stable => s \notin Compared[look.pc])

LookInv ==
    /\ LookType
    /\ own.journal <= own.unit
    /\ look.service <= own.unit /\ look.transaction <= own.journal
    /\ look.owner => look.current
    /\ AstrayDiffers

LEMMA EmptyOK == \A s \in Source : Empty(s) \in Contents[s]
BY PlanAssumption DEF Empty

LEMMA SourceWritten ==
  ASSUME w \in Sources, NEW s \in Source, NEW c \in Contents[s]
  PROVE  [w EXCEPT ![s] = c] \in Sources
BY DEF Sources

LEMMA SourceRead ==
  ASSUME w \in Sources, NEW seen \in Seen, NEW s \in Observed
  PROVE  [seen EXCEPT ![s] = w[s]] \in Seen
<1>1. w[s] \in Contents[s] /\ s \in Observed
  BY DEF Sources, Source
<1> QED BY <1>1 DEF Seen

LEMMA NoLookOK ==
  /\ NoLook \in [pc : LookPc \cup {"off"}, seen : Seen, service : Nat, transaction : Nat,
                 process : Nat, owner : BOOLEAN, current : BOOLEAN, stable : BOOLEAN,
                 astray : SUBSET Observed]
  /\ NoLook.pc = "off" /\ NoLook.service = 0 /\ NoLook.transaction = 0 /\ NoLook.owner = FALSE
<1>1. [s \in Observed |-> Empty(s)] \in Seen
  BY EmptyOK DEF Seen, Source
<1> QED BY <1>1 DEF NoLook

LEMMA LookBeginOK == LookInv /\ LookBegin /\ UNCHANGED <<w, own>> => LookInv'
<1> SUFFICES ASSUME LookInv, LookBegin, UNCHANGED <<w, own>> PROVE LookInv'
  OBVIOUS
<1> USE DEF LookInv, LookType
<1>1. look' = [NoLook EXCEPT !.pc = "inventory"]
  BY DEF LookBegin
<1>2. /\ LookType' /\ look'.pc = "inventory" /\ look'.service = 0 /\ look'.transaction = 0
      /\ look'.owner = FALSE
  BY <1>1, NoLookOK DEF LookPc
<1>3. AstrayDiffers'
  BY <1>2 DEF AstrayDiffers, Second
<1> QED BY <1>2, <1>3

First == LookPc \ Second

\* A first reading.
LEMMA ReadingOK ==
  ASSUME LookInv, UNCHANGED <<w, own>>, look.pc \in First,
         NEW s \in Observed, NEW next \in First,
         look' = [look EXCEPT !.pc = next, !.seen[s] = w[s]]
  PROVE  LookInv'
<1> USE DEF LookInv, LookType
<1>1. PICK seen \in Seen : seen = [look.seen EXCEPT ![s] = w[s]]
  BY SourceRead
<1>2. look' = [look EXCEPT !.pc = next, !.seen = seen]
  BY <1>1
<1>3. LookType' /\ look'.pc = next /\ look'.service = look.service
      /\ look'.transaction = look.transaction /\ look'.owner = look.owner /\ look'.current = look.current
  BY <1>2 DEF First
<1>4. AstrayDiffers'
  BY <1>3 DEF AstrayDiffers, First
<1> QED BY <1>3, <1>4

LEMMA ComparedSteps ==
  /\ Compared["mounts2"] = Compared["inventory2"] \cup {"inventory"}
  /\ Compared["maps2"] = Compared["mounts2"] \cup {"mounts"}
  /\ Compared["config2"] = Compared["maps2"] \cup {"maps"}
  /\ Compared["done"] = Compared["config2"] \cup {"config"}
  /\ Compared["inventory2"] = {} /\ Compared["done"] = Observed
BY DEF Compared, LookPc, Observed

LEMMA LookStepOK == LookInv /\ LookStep /\ UNCHANGED <<w, own>> => LookInv'
<1> SUFFICES ASSUME LookInv, LookStep, UNCHANGED <<w, own>> PROVE LookInv'
  OBVIOUS
<1>1. CASE ReadInventory \/ ReadMounts \/ ReadConfig \/ ReadMap
  <2>1. /\ {"inventory", "mounts", "config", "maps"} = Observed
        /\ {"inventory", "mounts", "config", "map", "service", "process"} \subseteq First
    BY DEF First, Second, LookPc, Observed
  <2>2. PICK s \in Observed, next \in First : look.pc \in First /\ Observe(s, look.pc, next)
    BY <1>1, <2>1 DEF ReadInventory, ReadMounts, ReadConfig, ReadMap, Observe
  <2> QED BY <2>2, ReadingOK DEF Observe
<1>2. CASE ReadService \/ ReadTransaction \/ ReadProcess
  <2>1. LookType'
    <3>t. LookType /\ {"map", "service2", "transaction"} \subseteq LookPc
      BY DEF LookInv, LookPc
    <3>1. CASE ReadService
      BY <3>1, <3>t DEF ReadService, LookType
    <3>2. CASE ReadTransaction
      BY <3>2, <3>t DEF ReadTransaction, LookType
    <3>3. CASE ReadProcess
      <4>1. PICK n \in Nat : look' = [look EXCEPT !.pc = "service2", !.process = n]
        BY <3>3, <3>t DEF ReadProcess, LookType
      <4> QED BY <3>3, <4>1, <3>t DEF ReadProcess, LookType
    <3> QED BY <1>2, <3>1, <3>2, <3>3
  <2>2. look'.pc \notin Second
    BY <1>2 DEF ReadService, ReadTransaction, ReadProcess, LookInv, LookType, LookPc, Second
  <2>3. look'.owner = look.owner /\ look'.current = look.current
        /\ look'.service \in {look.service, own.unit}
        /\ look'.transaction \in {look.transaction, own.journal}
    BY <1>2 DEF ReadService, ReadTransaction, ReadProcess, LookInv, LookType
  <2> QED BY <2>1, <2>2, <2>3 DEF LookInv, LookType, AstrayDiffers
<1>3. CASE RereadService
  <2>1. LookType'
    BY <1>3 DEF RereadService, OwnerMatches, LookInv, LookType, LookPc
  <2>2. look'.pc \notin Second /\ look'.service = look.service /\ look'.transaction = look.transaction
    BY <1>3 DEF RereadService, LookInv, LookType, Second
  <2>3. look'.owner => look'.current
    BY <1>3 DEF RereadService, OwnerMatches, LookInv, LookType
  <2> QED BY <2>1, <2>2, <2>3 DEF LookInv, LookType, AstrayDiffers
<1>4. CASE RereadTransaction
  <2>1. LookType'
    BY <1>4 DEF RereadTransaction, LookInv, LookType, LookPc
  <2>2. /\ look'.pc = "inventory2" /\ look'.seen = look.seen /\ look'.service = look.service
        /\ look'.transaction = look.transaction
        /\ look'.owner => look'.current
    BY <1>4 DEF RereadTransaction, LookInv, LookType
  <2>3. look'.astray = {s \in Observed : w[s] # look.seen[s]}
    BY <1>4 DEF RereadTransaction, LookInv, LookType
  <2>4. AstrayDiffers'
    BY <2>2, <2>3, ComparedSteps DEF AstrayDiffers
  <2> QED BY <2>1, <2>2, <2>4 DEF LookInv
<1>5. CASE RecheckInventory \/ RecheckMounts \/ RecheckMaps
  <2>1. PICK s \in Observed, next \in Second :
          /\ Compare(s, look.pc, next) /\ look.pc \in Second
          /\ Compared[next] = Compared[look.pc] \cup {s}
    <3>1. CASE RecheckInventory
      BY <3>1, ComparedSteps DEF RecheckInventory, Compare, Observed, Second
    <3>2. CASE RecheckMounts
      BY <3>2, ComparedSteps DEF RecheckMounts, Compare, Observed, Second
    <3>3. CASE RecheckMaps
      BY <3>3, ComparedSteps DEF RecheckMaps, Compare, Observed, Second
    <3> QED BY <1>5, <3>1, <3>2, <3>3
  <2>2. /\ look'.pc = next /\ look'.stable = (look.stable /\ w[s] = look.seen[s])
        /\ look'.seen = look.seen /\ look'.astray = look.astray
        /\ look'.service = look.service /\ look'.transaction = look.transaction
        /\ look'.owner = look.owner /\ look'.current = look.current
    BY <2>1 DEF Compare, LookInv, LookType
  <2>3. LookType'
    BY <2>1 DEF Compare, LookInv, LookType, Second, LookPc
  <2>4. AstrayDiffers'
    BY <2>1, <2>2 DEF AstrayDiffers, LookInv
  <2> QED BY <2>2, <2>3, <2>4 DEF LookInv, LookType
<1>6. CASE RecheckConfig
  <2>1. /\ look.pc = "config2" /\ look'.pc = "done"
        /\ look'.stable => look.stable /\ w["config"] = look.seen["config"]
        /\ look'.seen = look.seen /\ look'.astray = look.astray
        /\ look'.service = look.service /\ look'.transaction = look.transaction
        /\ look'.owner => look.owner
        /\ look'.current = look.current
    BY <1>6 DEF RecheckConfig, LookInv, LookType
  <2>2. LookType'
    BY <1>6 DEF RecheckConfig, LookInv, LookType, LookPc
  <2>3. AstrayDiffers'
    BY <2>1, ComparedSteps DEF AstrayDiffers, LookInv, Second
  <2> QED BY <2>1, <2>2, <2>3 DEF LookInv, LookType
<1> QED BY <1>1, <1>2, <1>3, <1>4, <1>5, <1>6 DEF LookStep

\* A source changes.
LEMMA BecomesOK ==
  ASSUME LookInv, NEW s \in Source, NEW c \in Contents[s], Becomes(s, c), UNCHANGED own
  PROVE  LookInv'
<1> USE DEF LookInv, LookType
<1>1. w' = [w EXCEPT ![s] = c] /\ w' \in Sources
  BY SourceWritten DEF Becomes
<1>2. look' = [look EXCEPT !.astray = @ \ ReturnsTo(s, c)]
  BY DEF Becomes
<1>3. /\ LookType' /\ look'.pc = look.pc /\ look'.seen = look.seen /\ look'.stable = look.stable
      /\ look'.service = look.service /\ look'.transaction = look.transaction
      /\ look'.owner = look.owner /\ look'.current = look.current
      /\ look'.astray = look.astray \ ReturnsTo(s, c)
  BY <1>1, <1>2
<1>4. w'[s] = c /\ \A t \in Source \ {s} : w'[t] = w[t]
  BY <1>1 DEF Sources
<1>5. ASSUME look.pc \in Second, NEW t \in look'.astray PROVE w'[t] # look.seen[t]
  <2>1. t \in look.astray /\ t \in Observed /\ t \in Source /\ t \notin ReturnsTo(s, c)
    BY <1>3, <1>5 DEF Source
  <2>2. CASE t = s
    BY <1>4, <1>5, <2>1, <2>2 DEF ReturnsTo
  <2>3. CASE t # s
    BY <1>4, <1>5, <2>1, <2>3 DEF AstrayDiffers
  <2> QED BY <2>2, <2>3
<1>6. AstrayDiffers'
  BY <1>3, <1>5 DEF AstrayDiffers
<1> QED BY <1>3, <1>6

-----------------------------------------------------------------------------
(* The plan. *)

Stages == P!Reading \cup {"off", "ready", "blocked"}

PlanType ==
    /\ plan \in [pc : PlanPc, backing : Inst \cup {0}, as : Stages, seen : P!Inputs,
                 astray : SUBSET P!Input]
    /\ here \in [Nodes -> Inst \cup {0}] /\ table \in Nodes /\ changes \in Nat
    /\ w["inventory"] = here /\ w["table"] = table
    /\ \A n \in Nodes : here[n] <= changes + 1

\* How far the plan is for Planning, where no observation is under way, and in each of the two.
StageOf(pc) == IF pc = "attest" THEN "admit" ELSE pc
StageBefore(pc) == CASE pc = "inventory" -> "inventory1" [] pc = "mounts" -> "mounts1"
                     [] pc = "config" -> "config1" [] OTHER -> "context1"
StageAfter(pc)  == CASE pc = "inventory" -> "inventory2" [] pc = "mounts" -> "mounts2"
                     [] pc = "config" -> "config2" [] OTHER -> "support2"

\* What the observation under way has read for the plan.
ReadSoFar(pc) == CASE pc = "inventory" -> {} [] pc = "mounts" -> {"inventory"}
                   [] pc = "config" -> {"inventory", "mounts"} [] OTHER -> InputDigest

AsOK ==
    /\ plan.pc = "off" => plan = NoPlan
    /\ plan.pc \notin {"discover1", "discover2"} => plan.as = StageOf(plan.pc)
    /\ plan.pc = "discover1" => plan.as = StageBefore(look.pc)
    /\ plan.pc = "discover2" =>
         plan.as = IF \A s \in ReadSoFar(look.pc) : look.seen[s] = plan.seen[s] THEN StageAfter(look.pc)
                   ELSE "blocked"

IInv == LookInv /\ PlanType /\ AsOK

LEMMA Sets ==
  /\ P!Input \subseteq Source /\ Observed \subseteq Source /\ InputDigest \subseteq Observed
  /\ InputDigest \subseteq P!Input /\ InputDigest = {"inventory", "mounts", "config"}
BY DEF P!Input, Source, Observed, InputDigest

LEMMA TheStages ==
  /\ PlanPc \subseteq {"off", "support1", "discover1", "context1", "table1", "attest",
                       "context2", "table2", "discover2", "support2", "ready", "blocked"}
  /\ P!Reading = {"support1", "inventory1", "mounts1", "config1", "context1", "table1", "admit",
                  "context2", "table2", "inventory2", "mounts2", "config2", "support2"}
  /\ Stages = P!Reading \cup {"off", "ready", "blocked"}
BY DEF PlanPc, P!Reading, P!Earlier, P!Again, Stages

LEMMA NoPlanOK ==
  /\ P!NoBuild.seen \in P!Inputs
  /\ P!NoBuild = [pc |-> "off", seen |-> P!NoBuild.seen, astray |-> P!Input]
<1>1. \A i \in P!Input : P!First(i) \in Contents[i]
  BY PlanAssumption, Sets DEF P!First
<1>2. [i \in P!Input |-> P!First(i)] \in P!Inputs
  BY <1>1, SMT DEF P!Inputs, P!Input
<1> QED BY <1>2 DEF P!NoBuild

\* What there is, as Planning sees it.
LEMMA EnvTyped == w \in Sources => PlanEnv \in P!Inputs
BY DEF Sources, Source, Observed, PlanEnv, P!Inputs

LEMMA SeenWritten ==
  ASSUME NEW seen \in P!Inputs, w \in Sources, NEW i \in P!Input
  PROVE  [seen EXCEPT ![i] = w[i]] \in P!Inputs
<1>1. w[i] \in Contents[i]
  BY Sets DEF Sources
<1> QED BY <1>1, SMT DEF P!Inputs, P!Input

LEMMA InitOK == Init => IInv
<1> SUFFICES ASSUME Init PROVE IInv
  OBVIOUS
<1>1. here \in [Nodes -> Inst \cup {0}] /\ table \in Nodes
  BY AttestAssumption DEF Init, AttInit, Inst
<1>2. w = [s \in Source |-> CASE s = "inventory" -> here [] s = "table" -> table [] OTHER -> Empty(s)]
  BY DEF Init
<1>3. /\ \A s \in Source : w[s] \in Contents[s]
      /\ w["inventory"] = here /\ w["table"] = table /\ w \in Sources
  BY <1>1, <1>2, EmptyOK, PlanAssumption DEF Source, Observed, Sources
<1>4. LookInv
  BY <1>3, NoLookOK DEF Init, LookInit, LookInv, LookType, AstrayDiffers, Second
<1>5. PlanType
  <2>1. \A n \in Nodes : here[n] \in {0, 1}
    BY DEF Init, AttInit
  <2>2. changes = 0 /\ \A n \in Nodes : here[n] <= changes + 1
    BY <2>1 DEF Init, LookInit
  <2> QED BY <1>1, <1>3, <2>2, NoPlanOK, TheStages DEF Init, PlanType, NoPlan, PlanPc
<1>6. AsOK
  BY DEF Init, AsOK, NoPlan, StageOf
<1> QED BY <1>4, <1>5, <1>6 DEF IInv

LEMMA InitMaps == Init => P!PlanInit
<1> SUFFICES ASSUME Init PROVE P!PlanInit
  OBVIOUS
<1>1. w \in Sources
  BY InitOK DEF IInv, LookInv, LookType
<1>2. PlanBuild = [pc |-> "off", seen |-> P!NoBuild.seen, astray |-> P!Input]
  BY DEF Init, NoPlan, PlanBuild
<1> QED BY <1>1, <1>2, EnvTyped, NoPlanOK DEF P!PlanInit

\* What a change of the machine does: a source becomes another, or none does.
LEMMA ChangeIs ==
  ASSUME w \in Sources, PlanType, Change
  PROVE  \/ UNCHANGED <<w, here, table, look, plan>>
         \/ /\ \E s \in Source : \E c \in Contents[s] \ {w[s]} : Becomes(s, c)
            /\ UNCHANGED own
            /\ here' \in [Nodes -> Inst \cup {0}] /\ table' \in Nodes
            /\ w'["inventory"] = here' /\ w'["table"] = table'
<1> USE DEF PlanType, Sources
<1>1. CASE UNCHANGED <<w, here, disk, table, look, plan>>
  BY <1>1
<1>2. CASE /\ UNCHANGED <<own, here, disk, table>>
           /\ \E s \in {"support", "context", "mounts", "config", "maps"} :
                 \E c \in Contents[s] \ {w[s]} : Becomes(s, c)
  <2>1. PICK s \in {"support", "context", "mounts", "config", "maps"} :
          \E c \in Contents[s] \ {w[s]} : Becomes(s, c)
    BY <1>2
  <2>2. s \in Source /\ w'["inventory"] = w["inventory"] /\ w'["table"] = w["table"]
    <3>1. PICK c : w' = [w EXCEPT ![s] = c]
      BY <2>1 DEF Becomes
    <3> QED BY <2>1, <3>1 DEF Source, Observed
  <2> QED BY <1>2, <2>1, <2>2
<1>3. CASE /\ Counts /\ UNCHANGED <<own, table>>
           /\ \E n \in Nodes : (Detach(n) \/ Attach(n, changes + 2)) /\ Becomes("inventory", here')
  <2>1. PICK n \in Nodes : (Detach(n) \/ Attach(n, changes + 2)) /\ Becomes("inventory", here')
    BY <1>3
  <2>2. changes + 2 \in Inst /\ here[n] # changes + 2
    <3>1. here[n] \in Nat /\ here[n] <= changes + 1
      BY DEF Inst
    <3> QED BY <1>3, <3>1, PlanAssumption DEF Counts, Inst
  <2>3. PICK i \in (Inst \cup {0}) \ {here[n]} : here' = [here EXCEPT ![n] = i]
    BY <2>1, <2>2 DEF Attach, Detach
  <2>4. here' \in [Nodes -> Inst \cup {0}] /\ here' # here
    BY <2>3
  <2>5. here' \in Contents["inventory"] \ {w["inventory"]} /\ {"inventory", "table"} \subseteq Source
    BY <2>4, PlanAssumption DEF Source, Observed
  <2>6. w'["inventory"] = here' /\ w'["table"] = table'
    <3>1. w' = [w EXCEPT !["inventory"] = here']
      BY <2>1 DEF Becomes
    <3> QED BY <1>3, <2>5, <3>1
  <2> QED BY <1>3, <2>1, <2>4, <2>5, <2>6
<1>4. CASE /\ UNCHANGED <<own, here, disk>>
           /\ \E n \in Nodes \ {table} : table' = n /\ Becomes("table", n)
  <2>1. PICK n \in Nodes \ {table} : table' = n /\ Becomes("table", n)
    BY <1>4
  <2>2. n \in Contents["table"] \ {w["table"]} /\ {"inventory", "table"} \subseteq Source
    BY <2>1, PlanAssumption DEF Source, Observed
  <2>3. w'["inventory"] = here' /\ w'["table"] = table'
    <3>1. w' = [w EXCEPT !["table"] = n]
      BY <2>1 DEF Becomes
    <3> QED BY <1>4, <2>1, <2>2, <3>1
  <2> QED BY <1>4, <2>1, <2>2, <2>3
<1> QED BY <1>1, <1>2, <1>3, <1>4 DEF Change

LEMMA LookOK == IInv /\ [Next]_vars => LookInv'
<1> SUFFICES ASSUME IInv, [Next]_vars PROVE LookInv'
  OBVIOUS
<1> USE DEF IInv
<1>1. CASE SampleSupport \/ RecheckTable
  BY <1>1, LookBeginOK DEF SampleSupport, RecheckTable, world
<1>2. CASE DiscoverBefore \/ DiscoverAfter
  BY <1>2, LookStepOK DEF DiscoverBefore, DiscoverAfter, world
<1>3. CASE Change
  <2>1. CASE \E s \in Source : (\E c \in Contents[s] \ {w[s]} : Becomes(s, c)) /\ UNCHANGED own
    BY <2>1, BecomesOK
  <2>2. CASE UNCHANGED <<w, look>>
    <3>1. own' \in [unit : Nat, journal : Nat] /\ own'.journal <= own'.unit
          /\ own.unit <= own'.unit /\ own.journal <= own'.journal
      BY <1>3 DEF Change, OwnerRestarts, OwnerWrites, LookInv, LookType
    <3> QED BY <2>2, <3>1 DEF LookInv, LookType, AstrayDiffers
  <2> QED BY <1>3, <2>1, <2>2, ChangeIs DEF LookInv, LookType
<1>4. CASE UNCHANGED <<w, own, look>>
  BY <1>4 DEF LookInv, LookType, AstrayDiffers
<1>5. ASSUME Begin \/ DiscoveredBefore \/ SampleContext \/ SampleTable \/ Attesting \/ Bind
             \/ RecheckContext \/ DiscoveredAfter \/ RecheckSupport \/ Refuse \/ UNCHANGED vars
      PROVE  UNCHANGED <<w, own, look>>
  BY <1>5 DEF Begin, DiscoveredBefore, SampleContext, SampleTable, Attesting, Bind, RecheckContext,
              DiscoveredAfter, RecheckSupport, Refuse, Ended, vars, world
<1> QED BY <1>1, <1>2, <1>3, <1>4, <1>5 DEF Next, Build

LEMMA PlanTypeKept == IInv /\ [Next]_vars => PlanType'
<1> SUFFICES ASSUME IInv, [Next]_vars PROVE PlanType'
  OBVIOUS
<1> USE DEF IInv, PlanType
<1>0. w \in Sources
  BY DEF LookInv, LookType
<1>1. ASSUME UNCHANGED world, NEW pc \in PlanPc, NEW b \in Inst \cup {0}, NEW as \in Stages,
             NEW seen \in P!Inputs, NEW astray \in SUBSET P!Input,
             plan' = [pc |-> pc, backing |-> b, as |-> as, seen |-> seen, astray |-> astray]
      PROVE  PlanType'
  BY <1>1 DEF world
<1>2. ASSUME UNCHANGED world, NEW pc \in PlanPc, NEW as \in Stages, plan' = [plan EXCEPT !.pc = pc, !.as = as]
      PROVE  PlanType'
  BY <1>2 DEF world
<1>3. "blocked" \in PlanPc /\ "blocked" \in Stages
  BY TheStages DEF PlanPc
<1>4. CASE Begin \/ Refuse
  BY <1>2, <1>3, <1>4, TheStages DEF Begin, Refuse, PlanPc
<1>5. CASE SampleSupport \/ SampleContext \/ SampleTable
  <2>1. PICK i \in P!Input, next \in PlanPc, as \in Stages :
          plan' = [plan EXCEPT !.pc = next, !.as = as, !.seen[i] = w[i]] /\ UNCHANGED world
    <3> HIDE DEF IInv, PlanType
    <3>p. /\ {"support", "context", "table"} \subseteq P!Input
          /\ {"discover1", "table1", "attest"} \subseteq PlanPc
          /\ {"inventory1", "table1", "admit"} \subseteq Stages
      BY TheStages DEF P!Input, PlanPc
    <3>1. CASE SampleSupport
      BY <3>1, <3>p DEF SampleSupport, Sample
    <3>2. CASE SampleContext
      BY <3>2, <3>p DEF SampleContext, Sample
    <3>3. CASE SampleTable
      BY <3>3, <3>p DEF SampleTable, Sample
    <3> QED BY <1>5, <3>1, <3>2, <3>3
  <2>2. PICK seen \in P!Inputs : seen = [plan.seen EXCEPT ![i] = w[i]]
    BY <1>0, SeenWritten
  <2>6. DOMAIN plan = {"pc", "backing", "as", "seen", "astray"}
    BY DEF PlanType
  <2>7. plan' = [plan EXCEPT !.pc = next, !.as = as, !.seen = seen]
    BY <2>1, <2>2
  <2>3. plan' = [pc |-> next, backing |-> plan.backing, as |-> as, seen |-> seen, astray |-> plan.astray]
    BY <2>6, <2>7 DEF PlanType
  <2>4. UNCHANGED world
    BY <2>1
  <2> HIDE DEF PlanType
  <2>5. plan' \in [pc : PlanPc, backing : Inst \cup {0}, as : Stages, seen : P!Inputs, astray : SUBSET P!Input]
    BY <2>3 DEF PlanType
  <2> QED BY <2>4, <2>5 DEF world, PlanType
<1>6. CASE RecheckContext \/ RecheckTable \/ RecheckSupport
  <2>1. PICK i \in P!Input, at \in PlanPc, next \in PlanPc, as \in Stages :
          Recheck(i, at, next, as) /\ UNCHANGED world
    <3> HIDE DEF IInv, PlanType
    <3>p. /\ {"support", "context", "table"} \subseteq P!Input
          /\ {"context2", "table2", "support2", "discover2", "ready"} \subseteq PlanPc
          /\ {"table2", "inventory2", "ready"} \subseteq Stages
      BY TheStages DEF P!Input, PlanPc
    <3>1. CASE RecheckContext
      BY <3>1, <3>p DEF RecheckContext
    <3>2. CASE RecheckTable
      BY <3>2, <3>p DEF RecheckTable
    <3>3. CASE RecheckSupport
      BY <3>3, <3>p DEF RecheckSupport
    <3> QED BY <1>6, <3>1, <3>2, <3>3
  <2>2. CASE plan' = [plan EXCEPT !.pc = next, !.as = as]
    BY <1>2, <2>1, <2>2
  <2>3. CASE plan' = [plan EXCEPT !.pc = "blocked", !.as = "blocked"]
    BY <1>2, <1>3, <2>1, <2>3
  <2> QED BY <2>1, <2>2, <2>3 DEF Recheck
<1>7. CASE DiscoverBefore
  <2>1. CASE look.pc \in InputDigest
    <3>1. PICK seen \in P!Inputs : seen = [plan.seen EXCEPT ![look.pc] = w[look.pc]]
      BY <1>0, <2>1, SeenWritten, Sets
    <3>2. NextOf[look.pc] \in Stages
      BY <2>1, TheStages, Sets DEF NextOf
    <3>3. PICK b \in Inst \cup {0} : b = IF look.pc = "inventory" THEN here[Selected] ELSE plan.backing
      BY AttestAssumption
    <3>4. plan' = [pc |-> plan.pc, backing |-> b, as |-> NextOf[look.pc], seen |-> seen, astray |-> plan.astray]
      BY <1>7, <2>1, <3>1, <3>3 DEF DiscoverBefore
    <3> QED BY <1>1, <1>7, <3>2, <3>4 DEF DiscoverBefore
  <2>2. CASE look.pc \notin InputDigest
    BY <1>7, <2>2 DEF DiscoverBefore, world
  <2> QED BY <2>1, <2>2
<1>8. CASE DiscoverAfter
  <2>1. CASE look.pc \in InputDigest /\ plan.as # "blocked"
    <3>1. PICK as \in Stages : plan' = [plan EXCEPT !.as = as]
      BY <1>3, <1>8, <2>1, TheStages, Sets DEF DiscoverAfter, NextAgain
    <3> QED BY <1>8, <3>1 DEF DiscoverAfter, world
  <2>2. CASE ~ (look.pc \in InputDigest /\ plan.as # "blocked")
    BY <1>8, <2>2 DEF DiscoverAfter, world
  <2> QED BY <2>1, <2>2
<1>9. CASE DiscoveredBefore \/ DiscoveredAfter
  <2>1. PICK next \in PlanPc, as \in Stages : plan' = [plan EXCEPT !.pc = next, !.as = as] /\ UNCHANGED world
    <3>1. PICK next \in {"context1", "support2"}, good \in BOOLEAN : Ended(next, good)
      BY <1>9 DEF DiscoveredBefore, DiscoveredAfter
    <3>2. next \in PlanPc
      BY DEF PlanPc
    <3>3. CASE plan' = [plan EXCEPT !.pc = next]
      <4>1. plan' = [plan EXCEPT !.pc = next, !.as = plan.as] /\ plan.as \in Stages
        BY <3>3
      <4> QED BY <3>1, <3>2, <4>1 DEF Ended
    <3>4. CASE plan' = [plan EXCEPT !.pc = "blocked", !.as = "blocked"]
      BY <1>3, <3>1, <3>4 DEF Ended
    <3> QED BY <3>1, <3>3, <3>4 DEF Ended
  <2> QED BY <1>2, <2>1
<1>10. CASE Bind
  <2>1. "context2" \in PlanPc /\ "context2" \in Stages
    BY TheStages DEF PlanPc
  <2>2. PICK astray \in SUBSET P!Input : astray = {i \in P!Input : w[i] # plan.seen[i]}
    OBVIOUS
  <2>3. plan' = [pc |-> "context2", backing |-> plan.backing, as |-> "context2", seen |-> plan.seen,
                 astray |-> astray]
    BY <1>10, <2>2 DEF Bind
  <2> QED BY <1>10, <2>1, <2>3 DEF Bind, world
<1>11. CASE Change
  <2>1. changes' \in Nat /\ \A n \in Nodes : here'[n] <= changes' + 1
    <3>1. \A n \in Nodes : here[n] \in Nat /\ here[n] <= changes + 1
      BY DEF Inst
    <3>2. CASE UNCHANGED here
      <4>1. changes' \in {changes, changes + 1}
        BY <1>11 DEF Change, Counts
      <4> QED BY <3>1, <3>2, <4>1
    <3>3. CASE Counts /\ \E n \in Nodes : (Detach(n) \/ Attach(n, changes + 2))
      <4>1. PICK n \in Nodes, i \in {0, changes + 2} : here' = [here EXCEPT ![n] = i]
        BY <3>3 DEF Attach, Detach
      <4>2. \A m \in Nodes : here'[m] \in {here[m], 0, changes + 2}
        BY <4>1
      <4>3. changes' = changes + 1
        BY <3>3 DEF Counts
      <4> QED BY <3>1, <4>2, <4>3
    <3> QED BY <1>11, <3>2, <3>3 DEF Change
  <2>2. plan' \in [pc : PlanPc, backing : Inst \cup {0}, as : Stages, seen : P!Inputs, astray : SUBSET P!Input]
    <3>1. ASSUME NEW s, NEW c, Becomes(s, c)
          PROVE  plan' \in [pc : PlanPc, backing : Inst \cup {0}, as : Stages, seen : P!Inputs,
                            astray : SUBSET P!Input]
      <4>1. PICK r : plan' = [plan EXCEPT !.astray = @ \ r]
        BY <3>1 DEF Becomes
      <4> QED BY <4>1
    <3> QED BY <1>0, <1>11, <3>1, ChangeIs
  <2> QED BY <1>0, <1>11, <2>1, <2>2, ChangeIs
<1>12. CASE Attesting \/ UNCHANGED vars
  BY <1>12 DEF Attesting, vars, world
<1> QED BY <1>4, <1>5, <1>6, <1>7, <1>8, <1>9, <1>10, <1>11, <1>12 DEF Next, Build

\* One step of the observation: a reading, for the plan or not, or a comparison.
LEMMA LookStage ==
  ASSUME LookInv, LookStep
  PROVE  /\ look.pc \in LookPc \ {"done"}
         /\ look.pc \in InputDigest =>
              /\ look'.seen = [look.seen EXCEPT ![look.pc] = w[look.pc]]
              /\ look.pc = "inventory" => look'.pc = "mounts"
              /\ look.pc = "mounts" => look'.pc = "config"
              /\ look.pc = "config" => look'.pc = "service"
         /\ look.pc \notin InputDigest =>
              /\ look'.pc \notin InputDigest
              /\ \A s \in InputDigest : look'.seen[s] = look.seen[s]
<1> USE DEF LookInv, LookType, LookPc, InputDigest
<1>1. CASE ReadInventory \/ ReadMounts \/ ReadConfig
  <2>1. CASE ReadInventory
    BY <2>1 DEF ReadInventory, Observe
  <2>2. CASE ReadMounts
    BY <2>2 DEF ReadMounts, Observe
  <2>3. CASE ReadConfig
    BY <2>3 DEF ReadConfig, Observe
  <2> QED BY <1>1, <2>1, <2>2, <2>3
<1>2. CASE ReadMap
  <2>1. look.pc = "map" /\ look'.pc = "process" /\ look'.seen = [look.seen EXCEPT !["maps"] = w["maps"]]
    BY <1>2 DEF ReadMap, Observe
  <2> QED BY <2>1 DEF Seen
<1>3. CASE ReadService \/ ReadTransaction \/ ReadProcess
  BY <1>3 DEF ReadService, ReadTransaction, ReadProcess
<1>4. CASE RereadService \/ RereadTransaction
  BY <1>4 DEF RereadService, RereadTransaction
<1>5. CASE RecheckInventory \/ RecheckMounts \/ RecheckMaps \/ RecheckConfig
  BY <1>5 DEF RecheckInventory, RecheckMounts, RecheckMaps, Compare, RecheckConfig
<1> QED BY <1>1, <1>2, <1>3, <1>4, <1>5 DEF LookStep

LEMMA ReadSteps ==
  /\ ReadSoFar("inventory") = {} /\ ReadSoFar("mounts") = ReadSoFar("inventory") \cup {"inventory"}
  /\ ReadSoFar("config") = ReadSoFar("mounts") \cup {"mounts"}
  /\ ReadSoFar("service") = ReadSoFar("config") \cup {"config"}
  /\ \A p : p \notin InputDigest => ReadSoFar(p) = InputDigest /\ StageBefore(p) = "context1" /\ StageAfter(p) = "support2"
  /\ \A p : ReadSoFar(p) \subseteq InputDigest
BY DEF ReadSoFar, InputDigest, StageBefore, StageAfter

\* The second observation reads one part for the plan.
LEMMA ReadAgain ==
  ASSUME IInv, plan.pc = "discover2", DiscoverAfter, look.pc \in InputDigest
  PROVE  AsOK'
<1> USE DEF IInv, PlanType
<1>1. /\ look'.seen = [look.seen EXCEPT ![look.pc] = w[look.pc]] /\ look.seen \in Seen
      /\ ReadSoFar(look'.pc) = ReadSoFar(look.pc) \cup {look.pc}
      /\ look.pc \notin ReadSoFar(look.pc) /\ StageAfter(look'.pc) = NextAgain[look.pc]
      /\ StageAfter(look.pc) # "blocked" /\ look'.pc \in LookPc
  BY LookStage, ReadSteps DEF DiscoverAfter, LookInv, LookType, NextAgain, StageAfter, InputDigest, ReadSoFar, LookPc
<1>2. /\ look'.seen[look.pc] = w[look.pc]
      /\ \A s \in ReadSoFar(look.pc) : look'.seen[s] = look.seen[s]
  BY <1>1, Sets, ReadSteps DEF Seen
<1>3. plan.as = IF \A s \in ReadSoFar(look.pc) : look.seen[s] = plan.seen[s] THEN StageAfter(look.pc)
                ELSE "blocked"
  BY DEF AsOK
<1>4. plan'.pc = "discover2" /\ plan'.seen = plan.seen
  BY DEF DiscoverAfter
<1>5. plan'.as = IF \A s \in ReadSoFar(look'.pc) : look'.seen[s] = plan.seen[s] THEN StageAfter(look'.pc)
                 ELSE "blocked"
  <2>1. CASE plan.as = "blocked"
    <3>1. plan' = plan
      BY <2>1 DEF DiscoverAfter
    <3>2. PICK s \in ReadSoFar(look.pc) : look.seen[s] # plan.seen[s]
      BY <1>1, <1>3, <2>1
    <3> QED BY <1>1, <1>2, <2>1, <3>1, <3>2
  <2>2. CASE plan.as # "blocked"
    <3>1. \A s \in ReadSoFar(look.pc) : look'.seen[s] = plan.seen[s]
      BY <1>2, <1>3, <2>2
    <3>2. plan'.as = IF w[look.pc] = plan.seen[look.pc] THEN NextAgain[look.pc] ELSE "blocked"
      BY <2>2 DEF DiscoverAfter
    <3> QED BY <1>1, <1>2, <3>1, <3>2
  <2> QED BY <2>1, <2>2
<1> QED BY <1>4, <1>5 DEF AsOK

LEMMA AsKept == IInv /\ [Next]_vars => AsOK'
<1> SUFFICES ASSUME IInv, [Next]_vars PROVE AsOK'
  OBVIOUS
<1> USE DEF IInv, PlanType
<1>1. CASE Begin \/ Refuse
  BY <1>1 DEF Begin, Refuse, PlanPc, AsOK, StageOf
<1>2. CASE SampleSupport
  BY <1>2, NoLookOK DEF SampleSupport, Sample, LookBegin, AsOK, StageBefore
<1>3. CASE SampleContext \/ SampleTable
  BY <1>3 DEF SampleContext, SampleTable, Sample, AsOK, StageOf
<1>4. CASE RecheckContext \/ RecheckSupport
  <2>1. CASE RecheckContext
    BY <2>1 DEF RecheckContext, Recheck, AsOK, StageOf
  <2>2. CASE RecheckSupport
    BY <2>2 DEF RecheckSupport, Recheck, AsOK, StageOf
  <2> QED BY <1>4, <2>1, <2>2
<1>5. CASE RecheckTable
  <2>1. look'.pc = "inventory"
    BY <1>5, NoLookOK DEF RecheckTable, LookBegin
  <2>2. ReadSoFar(look'.pc) = {} /\ StageAfter(look'.pc) = "inventory2"
    BY <2>1 DEF ReadSoFar, StageAfter
  <2>3. CASE w["table"] = plan.seen["table"]
    <3>1. plan'.pc = "discover2" /\ plan'.as = "inventory2"
      BY <1>5, <2>3 DEF RecheckTable, Recheck
    <3> QED BY <2>2, <3>1 DEF AsOK
  <2>4. CASE w["table"] # plan.seen["table"]
    BY <1>5, <2>4 DEF RecheckTable, Recheck, AsOK, StageOf
  <2> QED BY <2>3, <2>4
<1>6. CASE DiscoverBefore
  <2>1. plan.pc = "discover1" /\ plan'.pc = plan.pc
    BY <1>6 DEF DiscoverBefore
  <2>2. plan'.as = StageBefore(look'.pc)
    <3>1. CASE look.pc \in InputDigest
      BY <1>6, <2>1, <3>1, LookStage DEF DiscoverBefore, NextOf, StageBefore, InputDigest
    <3>2. CASE look.pc \notin InputDigest
      BY <1>6, <2>1, <3>2, LookStage, ReadSteps DEF DiscoverBefore, AsOK
    <3> QED BY <3>1, <3>2
  <2> QED BY <2>1, <2>2 DEF AsOK
<1>7. CASE DiscoverAfter
  <2>1. CASE look.pc \in InputDigest
    BY <1>7, <2>1, ReadAgain DEF DiscoverAfter
  <2>2. CASE look.pc \notin InputDigest
    <3>1. plan' = plan /\ plan.pc = "discover2"
      BY <1>7, <2>2 DEF DiscoverAfter
    <3>2. /\ ReadSoFar(look'.pc) = ReadSoFar(look.pc) /\ StageAfter(look'.pc) = StageAfter(look.pc)
          /\ \A s \in ReadSoFar(look.pc) : look'.seen[s] = look.seen[s]
      BY <1>7, <2>2, LookStage, ReadSteps DEF DiscoverAfter
    <3> QED BY <3>1, <3>2 DEF AsOK
  <2> QED BY <2>1, <2>2
<1>8. CASE DiscoveredBefore
  BY <1>8 DEF DiscoveredBefore, Ended, AsOK, StageOf, StageBefore
<1>9. CASE DiscoveredAfter
  <2>1. look.pc = "done" /\ plan.pc = "discover2" /\ ReadSoFar("done") = InputDigest /\ StageAfter("done") = "support2"
    BY <1>9 DEF DiscoveredAfter, Ended, ReadSoFar, StageAfter
  <2>2. CASE \A s \in InputDigest : look.seen[s] = plan.seen[s]
    <3>1. plan.as = "support2"
      BY <2>1, <2>2 DEF AsOK
    <3> QED BY <1>9, <3>1 DEF DiscoveredAfter, Ended, AsOK, StageOf
  <2>3. CASE ~ \A s \in InputDigest : look.seen[s] = plan.seen[s]
    BY <1>9, <2>3 DEF DiscoveredAfter, Ended, AsOK, StageOf
  <2> QED BY <2>2, <2>3
<1>10. CASE Bind
  BY <1>10 DEF Bind, AsOK, StageOf
<1>11. CASE Change
  <2>1. ASSUME NEW s \in Source, NEW c, Becomes(s, c) PROVE AsOK'
    <3>1. plan' = [plan EXCEPT !.astray = @ \ (IF s \in P!Input THEN P!Returned(s, c) ELSE {})]
      BY <2>1 DEF Becomes
    <3>2. look'.pc = look.pc /\ look'.seen = look.seen
      BY <2>1 DEF Becomes, LookInv, LookType
    <3>3. plan'.pc = plan.pc /\ plan'.as = plan.as /\ plan'.seen = plan.seen
      BY <3>1
    <3>4. plan.pc = "off" => plan' = NoPlan
      <4> SUFFICES ASSUME plan = NoPlan, plan.pc = "off" PROVE plan' = NoPlan
        BY DEF AsOK
      <4>1. P!Returned(s, c) = {}
        BY DEF NoPlan, P!Returned, PlanBuild, P!Again
      <4> QED BY <3>1, <4>1
    <3> QED BY <3>2, <3>3, <3>4 DEF AsOK
  <2>2. CASE UNCHANGED <<look, plan>>
    BY <2>2 DEF AsOK
  <2> QED BY <1>11, <2>1, <2>2, ChangeIs DEF LookInv, LookType
<1>12. CASE Attesting \/ UNCHANGED vars
  BY <1>12 DEF Attesting, vars, world, AsOK
<1> QED BY <1>1, <1>2, <1>3, <1>4, <1>5, <1>6, <1>7, <1>8, <1>9, <1>10, <1>11, <1>12 DEF Next, Build

LEMMA Invariance == Spec => []IInv
<1>1. Init => IInv
  BY InitOK
<1>2. IInv /\ [Next]_vars => IInv'
  BY LookOK, PlanTypeKept, AsKept DEF IInv
<1> QED BY <1>1, <1>2, PTL DEF Spec

\* What a stable report says was so at the instant between its two readings, but for what was
\* changed and has returned since; and an owner that it calls matching still ran when its
\* service was read again.
THEOREM ReportTrue == Spec => []ReportIsTrue
<1>1. IInv => ReportIsTrue
  BY ComparedSteps DEF IInv, ReportIsTrue, StableReport, OwnerIsCurrent, LookInv, LookType, AstrayDiffers, Second
<1> QED BY <1>1, Invariance, PTL

-----------------------------------------------------------------------------
(* The plan implements the plan of the candidate store. *)

\* Nothing that Planning sees.
LEMMA Hidden ==
  ASSUME UNCHANGED <<plan.as, plan.seen, plan.astray, w>>
  PROVE  UNCHANGED P!planVars
BY DEF P!planVars, PlanEnv, PlanBuild

\* A build of which fields are replaced.
LEMMA BuildWith ==
  ASSUME NEW x, NEW y
  PROVE  /\ [PlanBuild EXCEPT !.pc = x, !.astray = y] = [pc |-> x, seen |-> plan.seen, astray |-> y]
         /\ [PlanBuild EXCEPT !.astray = @ \ y] = [pc |-> plan.as, seen |-> plan.seen, astray |-> plan.astray \ y]
<1>0. PICK r, a, b, c : r = PlanBuild /\ a = plan.as /\ b = plan.seen /\ c = plan.astray
  OBVIOUS
<1>1. r = [pc |-> a, seen |-> b, astray |-> c]
  BY <1>0 DEF PlanBuild
<1>2. PICK e : e = [r EXCEPT !.pc = x]
  OBVIOUS
<1>3. e = [pc |-> x, seen |-> b, astray |-> c]
  BY <1>1, <1>2
<1>4. [r EXCEPT !.pc = x, !.astray = y] = [pc |-> x, seen |-> b, astray |-> y]
  <2>1. PICK f : f = [e EXCEPT !.astray = y]
    OBVIOUS
  <2>2. f = [pc |-> x, seen |-> b, astray |-> y]
    BY <1>3, <2>1
  <2>3. f = [r EXCEPT !.pc = x, !.astray = y]
    BY <1>2, <2>1
  <2> QED BY <2>2, <2>3
<1>5. [r EXCEPT !.astray = @ \ y] = [pc |-> a, seen |-> b, astray |-> c \ y]
  BY <1>1
<1> QED BY <1>0, <1>4, <1>5

\* A sample and a comparison, seen from Planning.
LEMMA SampleMaps ==
  ASSUME PlanType, NEW i \in P!Input, NEW next,
         w' = w, plan'.as = next, plan'.seen = [plan.seen EXCEPT ![i] = w[i]],
         plan'.astray = plan.astray
  PROVE  P!Sample(i, plan.as, next) /\ UNCHANGED PlanEnv
<1>1. PlanEnv[i] = w[i]
  BY DEF PlanEnv, P!Input
<1>2. PlanBuild.pc = plan.as
  BY DEF PlanBuild
<1>4. PlanBuild' = [pc |-> next, seen |-> [plan.seen EXCEPT ![i] = PlanEnv[i]], astray |-> plan.astray]
  BY <1>1 DEF PlanBuild
<1>5. PlanBuild' = [PlanBuild EXCEPT !.pc = next, !.seen[i] = PlanEnv[i]]
  <2>1. PICK r, a, b, c, y : /\ r = PlanBuild /\ y = PlanEnv[i]
                             /\ a = plan.as /\ b = plan.seen /\ c = plan.astray
    OBVIOUS
  <2>2. r = [pc |-> a, seen |-> b, astray |-> c]
    BY <2>1 DEF PlanBuild
  <2>3. PICK e : e = [r EXCEPT !.pc = next]
    OBVIOUS
  <2>4. e = [pc |-> next, seen |-> b, astray |-> c] /\ r.seen = b
    BY <2>2, <2>3
  <2>5. PICK s : s = [b EXCEPT ![i] = y]
    OBVIOUS
  <2>6. PICK f : f = [e EXCEPT !.seen = s]
    OBVIOUS
  <2>7. f = [pc |-> next, seen |-> s, astray |-> c]
    BY <2>4, <2>6
  <2>8. f = [r EXCEPT !.pc = next, !.seen[i] = y]
    BY <2>3, <2>4, <2>5, <2>6
  <2>9. f = PlanBuild'
    BY <1>4, <2>1, <2>5, <2>7
  <2> QED BY <2>1, <2>8, <2>9
<1>6. UNCHANGED PlanEnv
  BY DEF PlanEnv
<1> QED BY <1>2, <1>5, <1>6 DEF P!Sample

LEMMA GotoMaps ==
  ASSUME NEW next, w' = w, plan'.as = next, plan'.seen = plan.seen, plan'.astray = plan.astray
  PROVE  P!BuildGoto(next) /\ UNCHANGED PlanEnv
<1>1. PlanBuild' = [PlanBuild EXCEPT !.pc = next]
  BY DEF PlanBuild
<1>2. UNCHANGED PlanEnv
  BY DEF PlanEnv
<1> QED BY <1>1, <1>2 DEF P!BuildGoto

LEMMA CompareMaps ==
  ASSUME PlanType, NEW i \in P!Input, NEW next, w' = w, plan'.seen = plan.seen, plan'.astray = plan.astray,
         plan'.as = IF w[i] = plan.seen[i] THEN next ELSE "blocked"
  PROVE  P!Recheck(i, plan.as, next) /\ UNCHANGED PlanEnv
<1>1. PlanEnv[i] = w[i]
  BY DEF PlanEnv, P!Input
<1> QED BY <1>1, GotoMaps DEF P!Recheck, PlanBuild

\* A source changes.
LEMMA ChangeMaps ==
  ASSUME LookInv, PlanType, NEW s \in Source, NEW c \in Contents[s] \ {w[s]}, Becomes(s, c)
  PROVE  [P!PlanNext]_P!planVars
<1> USE DEF PlanType
<1>1. w' = [w EXCEPT ![s] = c] /\ w'[s] = c /\ \A t \in Source \ {s} : w'[t] = w[t]
  BY DEF Becomes, LookInv, LookType, Sources
<1>2. plan' = [plan EXCEPT !.astray = @ \ (IF s \in P!Input THEN P!Returned(s, c) ELSE {})]
  BY DEF Becomes
<1>3. CASE s \in P!Input
  <2>1. PlanEnv' = [PlanEnv EXCEPT ![s] = c]
    BY <1>1, <1>3, SMT DEF PlanEnv, P!Input, Source, Observed
  <2>2. PlanEnv[s] = w[s]
    BY <1>3 DEF PlanEnv, P!Input
  <2>3. PlanBuild' = [PlanBuild EXCEPT !.astray = @ \ P!Returned(s, c)]
    <3>1. PICK r : r = P!Returned(s, c)
      OBVIOUS
    <3>2. plan'.pc = plan.pc /\ plan'.as = plan.as /\ plan'.seen = plan.seen /\ plan'.astray = plan.astray \ r
      BY <1>2, <1>3, <3>1
    <3>3. PlanBuild' = [pc |-> plan.as, seen |-> plan.seen, astray |-> plan.astray \ r]
      BY <3>2 DEF PlanBuild
    <3> QED BY <3>1, <3>3, BuildWith
  <2> QED BY <1>3, <2>1, <2>2, <2>3 DEF P!PlanNext, P!Change
<1>4. CASE s \notin P!Input
  <2>1. UNCHANGED PlanEnv
    BY <1>1, <1>4 DEF PlanEnv, P!Input, Source, Observed
  <2>2. UNCHANGED PlanBuild
    BY <1>2, <1>4 DEF PlanBuild
  <2> QED BY <2>1, <2>2 DEF P!planVars
<1> QED BY <1>3, <1>4

LEMMA StepMaps == IInv /\ [Next]_vars => [P!PlanNext]_P!planVars
<1> SUFFICES ASSUME IInv, [Next]_vars PROVE [P!PlanNext]_P!planVars
  OBVIOUS
<1> USE DEF IInv, PlanType, AsOK, StageOf
<1>1. CASE Begin
  <2>1. plan = NoPlan /\ plan' = [plan EXCEPT !.pc = "support1", !.as = "support1"] /\ w' = w
    BY <1>1 DEF Begin, world
  <2>2. plan.as = "off" /\ plan.seen = P!NoBuild.seen /\ plan.astray = P!Input
    BY <2>1 DEF NoPlan
  <2>3. PlanBuild.pc = "off" /\ PlanBuild' = [pc |-> "support1", seen |-> P!NoBuild.seen, astray |-> P!Input]
    BY <2>1, <2>2 DEF PlanBuild
  <2>4. PlanBuild' = [P!NoBuild EXCEPT !.pc = "support1"]
    BY <2>3, NoPlanOK
  <2>5. UNCHANGED PlanEnv
    BY <2>1 DEF PlanEnv
  <2> QED BY <2>3, <2>4, <2>5 DEF P!PlanNext, P!BuildBegin
<1>2. CASE SampleSupport
  <2>1. P!Sample("support", "support1", "inventory1") /\ UNCHANGED PlanEnv
    BY <1>2, SampleMaps DEF SampleSupport, Sample, world, P!Input
  <2> QED BY <2>1 DEF P!PlanNext, P!Build, P!SampleSupport
<1>3. CASE SampleContext
  <2>1. P!Sample("context", "context1", "table1") /\ UNCHANGED PlanEnv
    BY <1>3, SampleMaps DEF SampleContext, Sample, world, P!Input
  <2> QED BY <2>1 DEF P!PlanNext, P!Build, P!SampleContext
<1>4. CASE SampleTable
  <2>1. P!Sample("table", "table1", "admit") /\ UNCHANGED PlanEnv
    BY <1>4, SampleMaps DEF SampleTable, Sample, world, P!Input
  <2> QED BY <2>1 DEF P!PlanNext, P!Build, P!SampleTable
<1>5. CASE RecheckContext
  <2>1. P!Recheck("context", "context2", "table2") /\ UNCHANGED PlanEnv
    BY <1>5, CompareMaps DEF RecheckContext, Recheck, world, P!Input
  <2> QED BY <2>1 DEF P!PlanNext, P!Build, P!RecheckInputs
<1>6. CASE RecheckTable
  <2>1. P!Recheck("table", "table2", "inventory2") /\ UNCHANGED PlanEnv
    BY <1>6, CompareMaps DEF RecheckTable, Recheck, world, P!Input
  <2> QED BY <2>1 DEF P!PlanNext, P!Build, P!RecheckInputs
<1>7. CASE RecheckSupport
  <2>1. P!Recheck("support", "support2", "ready") /\ UNCHANGED PlanEnv
    BY <1>7, CompareMaps DEF RecheckSupport, Recheck, world, P!Input
  <2> QED BY <2>1 DEF P!PlanNext, P!Build, P!RecheckInputs
<1>8. CASE DiscoverBefore
  <2>0. plan.pc = "discover1" /\ plan.as = StageBefore(look.pc) /\ w' = w
    BY <1>8 DEF DiscoverBefore, world
  <2>1. CASE look.pc \in InputDigest
    <3>1. /\ plan'.as = NextOf[look.pc] /\ plan'.seen = [plan.seen EXCEPT ![look.pc] = w[look.pc]]
          /\ plan'.astray = plan.astray /\ look.pc \in P!Input
      BY <1>8, <2>1, Sets DEF DiscoverBefore
    <3>2. P!Sample(look.pc, StageBefore(look.pc), NextOf[look.pc]) /\ UNCHANGED PlanEnv
      BY <2>0, <3>1, SampleMaps
    <3> QED BY <2>1, <3>2, Sets DEF P!PlanNext, P!Build, P!SampleDiscovery, StageBefore, NextOf
  <2>2. CASE look.pc \notin InputDigest
    BY <1>8, <2>0, <2>2, Hidden DEF DiscoverBefore
  <2> QED BY <2>1, <2>2
<1>9. CASE DiscoverAfter
  <2>0. plan.pc = "discover2" /\ w' = w /\ plan.as \in {"blocked", StageAfter(look.pc)}
    BY <1>9 DEF DiscoverAfter, world
  <2>1. CASE look.pc \in InputDigest /\ plan.as # "blocked"
    <3>1. /\ plan'.as = IF w[look.pc] = plan.seen[look.pc] THEN NextAgain[look.pc] ELSE "blocked"
          /\ plan'.seen = plan.seen /\ plan'.astray = plan.astray /\ look.pc \in P!Input
      BY <1>9, <2>1, Sets DEF DiscoverAfter
    <3>2. P!Recheck(look.pc, StageAfter(look.pc), NextAgain[look.pc]) /\ UNCHANGED PlanEnv
      BY <2>0, <2>1, <3>1, CompareMaps
    <3> QED BY <2>1, <3>2, Sets DEF P!PlanNext, P!Build, P!RecheckInputs, StageAfter, NextAgain
  <2>2. CASE ~ (look.pc \in InputDigest /\ plan.as # "blocked")
    BY <1>9, <2>0, <2>2, Hidden DEF DiscoverAfter
  <2> QED BY <2>1, <2>2
<1>10. CASE DiscoveredBefore \/ DiscoveredAfter \/ Refuse
  <2>1. /\ w' = w /\ plan'.seen = plan.seen /\ plan'.astray = plan.astray
        /\ plan'.as \in {plan.as, "blocked"} /\ plan.as \in P!Reading \cup {"blocked"}
    <3>1. plan.pc \notin {"off", "ready", "blocked"}
      BY <1>10 DEF DiscoveredBefore, DiscoveredAfter, Refuse
    <3>2. plan.as \in P!Reading \cup {"blocked"}
      <4>1. StageBefore(look.pc) \in P!Reading /\ StageAfter(look.pc) \in P!Reading
        BY TheStages DEF StageBefore, StageAfter
      <4> QED BY <3>1, <4>1, TheStages
    <3>3. CASE Refuse
      BY <3>2, <3>3 DEF Refuse, world
    <3>4. CASE DiscoveredBefore \/ DiscoveredAfter
      BY <3>2, <3>4 DEF DiscoveredBefore, DiscoveredAfter, Ended, world
    <3> QED BY <1>10, <3>3, <3>4
  <2>2. CASE plan'.as = plan.as
    BY <2>1, <2>2, Hidden
  <2>3. CASE plan.as \in P!Reading /\ plan'.as = "blocked"
    <3>1. P!BuildGoto("blocked") /\ UNCHANGED PlanEnv
      BY <2>1, <2>3, GotoMaps
    <3> QED BY <2>3, <3>1 DEF P!PlanNext, P!Build, P!Block, PlanBuild
  <2> QED BY <2>1, <2>2, <2>3
<1>11. CASE Bind
  <2>1. plan.as = "admit" /\ UNCHANGED PlanEnv
    BY <1>11 DEF Bind, world, PlanEnv
  <2>2. \A i \in P!Input : PlanEnv[i] = w[i]
    BY DEF PlanEnv, P!Input
  <2>3. PlanBuild' = [pc |-> "context2", seen |-> plan.seen, astray |-> {i \in P!Input : w[i] # plan.seen[i]}]
    BY <1>11 DEF Bind, PlanBuild
  <2>4. PICK astray : astray = {i \in P!Input : PlanEnv[i] # PlanBuild.seen[i]}
    OBVIOUS
  <2>6. astray = {i \in P!Input : w[i] # plan.seen[i]}
    BY <2>2, <2>4 DEF PlanBuild
  <2>5. PlanBuild' = [PlanBuild EXCEPT !.pc = "context2", !.astray = astray]
    BY <2>3, <2>6, BuildWith
  <2> QED BY <2>1, <2>4, <2>5 DEF P!PlanNext, P!Build, P!Admit, PlanBuild
<1>12. CASE Change
  <2>1. CASE UNCHANGED <<w, plan>>
    BY <2>1, Hidden
  <2>2. CASE \E s \in Source : \E c \in Contents[s] \ {w[s]} : Becomes(s, c)
    BY <2>2, ChangeMaps
  <2> QED BY <1>12, <2>1, <2>2, ChangeIs DEF LookInv, LookType
<1>13. CASE Attesting \/ UNCHANGED vars
  BY <1>13, Hidden DEF Attesting, vars, world
<1> QED BY <1>1, <1>2, <1>3, <1>4, <1>5, <1>6, <1>7, <1>8, <1>9, <1>10, <1>11, <1>12, <1>13 DEF Next, Build

\* A plan built read by read is a plan of the candidate store: what each of its readings
\* found is what Planning's build found, for any contents and number of changes.
THEOREM Implements == Spec => ImplementsPlanning
<1>1. Spec => [][P!PlanNext]_P!planVars
  BY Invariance, StepMaps, PTL DEF Spec
<1> QED BY <1>1, InitMaps, PTL DEF Spec, ImplementsPlanning, P!PlanSpec

-----------------------------------------------------------------------------
(***************************************************************************)
(* The admission of the disk, for any nodes, attachments and number of changes.  *)
(*                                                                         *)
(* Attachments are numbered as they come.  So one that is at its node now and was   *)
(* there when the descriptor was opened was there at every read in between, and what   *)
(* those reads found at the node was its own (HeldInv).  The last reads are of the      *)
(* content, of the serial, then of the sequence number.                       *)
(***************************************************************************)

-----------------------------------------------------------------------------
(* The order of the reads. *)

What == {"blkid", "serial", "geometry", "layout", "map", "locate", "open", "seq", "size", "find", "content"}

\* A series of n reads.
Reads(s, n) == s \in Seq(What) /\ Len(s) = n

\* s, then t: the concatenation under a name of its own.
Then(s, t) == s \o t

LEMMA Join ==
  ASSUME NEW m \in Nat, NEW n \in Nat, NEW s, NEW t, Reads(s, m), Reads(t, n)
  PROVE  /\ Reads(Then(s, t), m + n)
         /\ \A i \in 1 .. m : Then(s, t)[i] = s[i]
         /\ \A i \in m + 1 .. m + n : Then(s, t)[i] = t[i - m]
BY DEF Reads, Then

LEMMA Tuples ==
  ASSUME NEW S, NEW a \in S, NEW b \in S, NEW c \in S, NEW d \in S, NEW e \in S, NEW f \in S, NEW g \in S
  PROVE  <<a>> \in Seq(S) /\ <<a, b>> \in Seq(S) /\ <<a, b, c, d, e, f, g>> \in Seq(S)
OBVIOUS

LEMMA One == ASSUME NEW x \in What PROVE Reads(<<x>>, 1) /\ <<x>>[1] = x
<1>1. <<x>> \in Seq(What)
  BY Tuples
<1> QED BY <1>1 DEF Reads

LEMMA SnapshotReads == Reads(Snapshot, 2) /\ Snapshot[1] = "seq" /\ Snapshot[2] = "size"
<1>1. Snapshot \in Seq(What)
  BY Tuples DEF Snapshot, What
<1>2. Len(Snapshot) = 2 /\ Snapshot[1] = "seq" /\ Snapshot[2] = "size"
  BY DEF Snapshot
<1> QED BY <1>1, <1>2 DEF Reads

LEMMA LayoutReads == Reads(Layout, 1) /\ Layout[1] = "content"
BY One DEF What, Layout

LEMMA SameInstanceReads ==
  Reads(SameInstance, 3) /\ SameInstance[1] = "find" /\ SameInstance[2] = "seq" /\ SameInstance[3] = "size"
<1>1. Reads(<<"find">>, 1) /\ <<"find">>[1] = "find"
  BY One DEF What
<1>2. SameInstance = Then(<<"find">>, Snapshot)
  BY DEF SameInstance, Then
<1> QED BY <1>1, <1>2, SnapshotReads, Join

LEMMA VerifyReads == Reads(Verify, 13)
<1>1. Reads(<<"find">>, 1)
  BY One DEF What
<1>2. Identity = Then(<<"find">>, Layout)
  BY DEF Identity, Then
<1>3. Verify = Then(Then(Then(Then(Then(Snapshot, Identity), SameInstance), Layout), Identity), SameInstance)
  BY DEF Verify, Then
<1>4. Reads(Identity, 2)
  BY <1>1, <1>2, LayoutReads, Join
<1> QED BY <1>3, <1>4, SnapshotReads, LayoutReads, SameInstanceReads, Join

LEMMA RevalidateReads ==
  Reads(Revalidate, 7) /\ Revalidate[4] = "content" /\ Revalidate[5] = "find" /\ Revalidate[6] = "seq"
  /\ Revalidate[7] = "size"
<1>1. Revalidate = Then(Then(SameInstance, Layout), SameInstance)
  BY DEF Revalidate, Then
<1>2. Reads(Then(SameInstance, Layout), 4) /\ Then(SameInstance, Layout)[4] = "content"
  BY SameInstanceReads, LayoutReads, Join
<1> QED BY <1>1, <1>2, SameInstanceReads, Join

\* The reads whose order the admission rests on.
LEMMA CollectReads ==
  /\ Len(Collect) = 28
  /\ Collect[7] = "open" /\ Collect[24] = "content" /\ Collect[25] = "find"
  /\ Collect[26] = "seq" /\ Collect[27] = "size" /\ Collect[28] = "map"
<1> DEFINE A == <<"blkid", "serial", "geometry", "layout", "map", "locate", "open">>
           AV == Then(A, Verify)
           AVR == Then(AV, Revalidate)
<1>1. Collect = Then(AVR, <<"map">>)
  BY DEF Collect, Then
<1>2. Reads(A, 7) /\ A[7] = "open"
  <2>1. A \in Seq(What)
    BY Tuples DEF What
  <2> QED BY <2>1 DEF Reads
<1>3. Reads(<<"map">>, 1) /\ <<"map">>[1] = "map"
  BY One DEF What
<1> HIDE DEF A
<1>4. Reads(AV, 20) /\ AV[7] = "open"
  BY <1>2, VerifyReads, Join
<1> HIDE DEF AV
<1>5. /\ Reads(AVR, 27) /\ AVR[7] = "open" /\ AVR[24] = "content" /\ AVR[25] = "find"
      /\ AVR[26] = "seq" /\ AVR[27] = "size"
  BY <1>4, RevalidateReads, Join
<1> HIDE DEF AVR
<1>6. Reads(Then(AVR, <<"map">>), 28)
  BY <1>3, <1>5, Join
<1>7. /\ Then(AVR, <<"map">>)[7] = "open" /\ Then(AVR, <<"map">>)[24] = "content"
      /\ Then(AVR, <<"map">>)[25] = "find" /\ Then(AVR, <<"map">>)[26] = "seq"
      /\ Then(AVR, <<"map">>)[27] = "size" /\ Then(AVR, <<"map">>)[28] = "map"
  BY <1>3, <1>5, Join
<1> QED BY <1>1, <1>6, <1>7 DEF Reads

-----------------------------------------------------------------------------
(* The attachment that is held. *)

Attestation == [step : Nat, node : Nodes, content : {0, 1, 2}, serial : BOOLEAN, size : {0, 1, 2},
                fd : Inst \cup {0}, unique : Inst \cup {0}]

HeldType ==
    /\ changes \in Nat
    /\ here \in [Nodes -> Inst \cup {0}]
    /\ disk \in [Inst -> Disk]
    /\ att \in Attestation

\* Still at its node, so it was there at every read since it was opened.
Held == here[att.node] = att.fd

HeldInv ==
    /\ HeldType
    /\ att.fd <= changes + 1 /\ \A n \in Nodes : here[n] <= changes + 1
    /\ att.step >= 8 => att.fd # 0
    /\ att.step >= 25 /\ Held => disk[att.fd].content = att.content
    /\ att.step >= 26 /\ Held => /\ att.unique = att.fd
                                 /\ disk[att.fd].serial = att.serial /\ disk[att.fd].size = att.size
    /\ att.step >= 27 => /\ att.unique = att.fd /\ disk[att.fd].content = att.content
                         /\ disk[att.fd].serial = att.serial /\ disk[att.fd].size = att.size

LEMMA HeldInit == Init => HeldInv
<1> SUFFICES ASSUME Init PROVE HeldInv
  OBVIOUS
<1>1. 1 \in Inst /\ Wanted \in Disk
  BY AttestAssumption DEF Inst, Wanted, Disk
<1>2. HeldType
  BY <1>1, AttestAssumption DEF Init, AttInit, LookInit, HeldType, NoAtt, Attestation
<1>3. att.step = 0 /\ att.fd = 0 /\ changes = 0 /\ \A n \in Nodes : here[n] \in {0, 1}
  BY DEF Init, AttInit, LookInit, NoAtt
<1> QED BY <1>2, <1>3 DEF HeldInv

\* A read before the last one of the content.
LEMMA HeldEarly ==
  ASSUME HeldInv, UNCHANGED <<changes, here, disk>>, HeldType', NEW what, Read(what),
         what \in {"blkid", "serial", "geometry", "layout", "locate", "open"},
         att'.step = att.step + 1, att'.fd <= changes + 1,
         what # "open" => att'.fd = att.fd, what = "open" => att'.fd # 0
  PROVE  HeldInv'
<1>1. att.step \in Nat /\ att.step \in 1 .. 28 /\ (what # "open" => att.step # 7)
  BY CollectReads DEF Read, HeldInv, HeldType, Attestation
<1>2. att.step \notin {24, 25, 26, 27, 28}
  BY CollectReads DEF Read
<1>3. att'.step <= 24 /\ (att'.step >= 8 => att'.fd # 0)
  BY <1>1, <1>2 DEF HeldInv
<1> QED BY <1>1, <1>3 DEF HeldInv

\* A later one: the attachment at the node now, when it is the held one, was there before.
LEMMA HeldLate ==
  ASSUME HeldInv, UNCHANGED <<changes, here, disk>>, HeldType', NEW what, Read(what),
         what \in {"content", "find", "seq", "size", "map"},
         att'.step = att.step + 1, att'.fd = att.fd, att'.node = att.node,
         att'.content = att.content, att'.serial = att.serial, att'.size = att.size,
         what # "find" => att'.unique = att.unique,
         what = "content" => At(att.node).content = att.content,
         what = "find" => /\ att'.unique = here[att.node] /\ At(att.node).serial = att.serial
                          /\ At(att.node).size = att.size,
         what = "seq" => Held
  PROVE  HeldInv'
<1> USE DEF HeldInv, Held, At
<1>1. att.step \in Nat /\ att.step \in 1 .. 28 /\ att.step # 7
  BY CollectReads DEF Read, HeldType, Attestation
<1>2. att'.step >= 8 => att'.fd # 0
  BY <1>1
<1>3. CASE att.step <= 23
  BY <1>1, <1>2, <1>3
<1>4. CASE att.step = 24
  <2>1. what = "content"
    BY <1>4, CollectReads DEF Read
  <2> QED BY <1>2, <1>4, <2>1
<1>5. CASE att.step = 25
  <2>1. what = "find"
    BY <1>5, CollectReads DEF Read
  <2> QED BY <1>2, <1>5, <2>1
<1>6. CASE att.step = 26
  <2>1. what = "seq"
    BY <1>6, CollectReads DEF Read
  <2> QED BY <1>2, <1>6, <2>1
<1>7. CASE att.step \in {27, 28}
  <2>1. what \in {"size", "map"}
    BY <1>7, CollectReads DEF Read
  <2> QED BY <1>2, <1>7, <2>1
<1> QED BY <1>1, <1>3, <1>4, <1>5, <1>6, <1>7

\* A read that changes a field and goes one step further.
LEMMA Kept ==
  ASSUME NEW o \in Attestation, Keep(o)
  PROVE  /\ att' \in Attestation /\ att'.step = o.step + 1 /\ att'.node = o.node /\ att'.fd = o.fd
         /\ att'.content = o.content /\ att'.serial = o.serial /\ att'.size = o.size
         /\ att'.unique = o.unique
BY DEF Attestation, Keep

LEMMA HeldStep == HeldInv /\ AttestStep /\ UNCHANGED <<changes, here, disk>> => HeldInv'
<1> SUFFICES ASSUME HeldInv, AttestStep, UNCHANGED <<changes, here, disk>> PROVE HeldInv'
  OBVIOUS
<1>0. /\ att \in Attestation
      /\ here \in [Nodes -> Inst \cup {0}] /\ \A n \in Nodes : here[n] # 0 => At(n) \in Disk
  BY DEF HeldInv, HeldType, At
<1>1. CASE ReadBlkid \/ ReadSerial \/ ReadGeometry \/ ReadLayout \/ Locate
  <2>1. PICK o \in Attestation : Keep(o) /\ o.step = att.step /\ o.fd = att.fd
    <3>1. CASE ReadBlkid
      BY <1>0, <3>1 DEF ReadBlkid, Attestation, Disk
    <3>2. CASE ReadSerial
      BY <1>0, <3>2 DEF ReadSerial, Attestation, Disk
    <3>3. CASE ReadGeometry
      BY <1>0, <3>3 DEF ReadGeometry, Attestation, Disk
    <3>4. CASE ReadLayout
      BY <1>0, <3>4 DEF ReadLayout
    <3>5. CASE Locate
      BY <1>0, <3>5 DEF Locate, Attestation
    <3> QED BY <1>1, <3>1, <3>2, <3>3, <3>4, <3>5
  <2>2. PICK what \in {"blkid", "serial", "geometry", "layout", "locate"} : Read(what)
    BY <1>1 DEF ReadBlkid, ReadSerial, ReadGeometry, ReadLayout, Locate
  <2>3. HeldType' /\ att'.step = att.step + 1 /\ att'.fd = att.fd
    BY <2>1, Kept DEF HeldInv, HeldType
  <2> QED BY <2>2, <2>3, HeldEarly DEF HeldInv
<1>2. CASE Open
  <2>1. PICK o \in Attestation : Keep(o) /\ o.step = att.step /\ o.fd = here[att.node] /\ o.fd # 0
    BY <1>0, <1>2 DEF Open, Attestation
  <2>2. HeldType' /\ att'.step = att.step + 1 /\ att'.fd = here[att.node] /\ att'.fd # 0
    BY <2>1, Kept DEF HeldInv, HeldType
  <2>3. Read("open") /\ att'.fd <= changes + 1
    BY <1>0, <1>2, <2>2 DEF Open, HeldInv, Attestation
  <2> QED BY <2>2, <2>3, HeldEarly
<1>3. CASE Find
  <2>1. here[att.node] # 0 /\ At(att.node).serial = att.serial /\ At(att.node).size = att.size /\ Read("find")
    BY <1>3 DEF Find, Found, Matches
  <2>2. PICK o \in Attestation :
          /\ Keep(o) /\ o.step = att.step /\ o.fd = att.fd /\ o.node = att.node
          /\ o.content = att.content /\ o.serial = att.serial /\ o.size = att.size
          /\ o.unique = here[att.node]
    BY <1>0, <1>3, <2>1 DEF Find, Attestation
  <2>3. /\ HeldType' /\ att'.step = att.step + 1 /\ att'.fd = att.fd /\ att'.node = att.node
        /\ att'.content = att.content /\ att'.serial = att.serial /\ att'.size = att.size
        /\ att'.unique = here[att.node]
    BY <2>2, Kept DEF HeldInv, HeldType
  <2> QED BY <2>1, <2>3, HeldLate
<1>4. CASE CheckMap \/ SeqRead \/ Size \/ Content
  <2>1. Keep(att)
    BY <1>4 DEF CheckMap, SeqRead, Size, Content
  <2>2. /\ HeldType' /\ att'.step = att.step + 1 /\ att'.fd = att.fd /\ att'.node = att.node
        /\ att'.content = att.content /\ att'.serial = att.serial /\ att'.size = att.size
        /\ att'.unique = att.unique
    BY <1>0, <2>1, Kept DEF HeldInv, HeldType
  <2>3. CASE CheckMap \/ Size
    <3>1. PICK what \in {"map", "size"} : Read(what)
      BY <2>3 DEF CheckMap, Size
    <3> QED BY <2>2, <3>1, HeldLate
  <2>4. CASE SeqRead
    <3>1. Read("seq") /\ Held
      BY <2>4 DEF SeqRead, Held
    <3> QED BY <2>2, <3>1, HeldLate
  <2>5. CASE Content
    <3>1. Read("content") /\ At(att.node).content = att.content
      BY <2>5 DEF Content
    <3> QED BY <2>2, <3>1, HeldLate
  <2> QED BY <1>4, <2>3, <2>4, <2>5
<1> QED BY <1>1, <1>2, <1>3, <1>4 DEF AttestStep

LEMMA HeldChange == HeldInv /\ Change => HeldInv'
<1> SUFFICES ASSUME HeldInv, Change PROVE HeldInv'
  OBVIOUS
<1> USE DEF HeldInv, HeldType, Held, Attestation
<1>1. UNCHANGED att
  BY DEF Change
<1>2. changes' \in Nat /\ changes <= changes'
  BY DEF Change, Counts
<1>3. CASE UNCHANGED <<here, disk>>
  <2>1. att.fd \in Nat /\ \A n \in Nodes : here[n] \in Nat
    BY DEF Inst, Attestation
  <2>4. att.fd <= changes' + 1 /\ \A n \in Nodes : here[n] <= changes' + 1
    BY <1>2, <2>1
  <2> QED BY <1>1, <1>2, <1>3, <2>4
<1>4. CASE \E n \in Nodes : Detach(n)
  <2>1. PICK n \in Nodes : Detach(n)
    BY <1>4
  <2>2. here' = [here EXCEPT ![n] = 0] /\ disk' = disk
    BY <2>1 DEF Detach
  <2>3. att.fd <= changes' + 1 /\ \A m \in Nodes : here'[m] <= changes' + 1
    BY <1>2, <2>2 DEF Inst, Attestation
  <2>4. att.step >= 8 => (Held' => Held)
    BY <1>1, <2>2
  <2>5. HeldType'
    BY <1>1, <1>2, <2>2
  <2> QED BY <1>1, <2>2, <2>3, <2>4, <2>5
<1>5. CASE Counts /\ \E n \in Nodes : Attach(n, changes + 2)
  <2> DEFINE i == changes + 2
  <2>1. PICK n \in Nodes, d \in Disk : here' = [here EXCEPT ![n] = i] /\ disk' = [disk EXCEPT ![i] = d]
    BY <1>5 DEF Attach
  <2>2. changes' = changes + 1
    BY <1>5 DEF Counts
  <2>3. i \in Inst
    BY <1>5, PlanAssumption DEF Counts, Inst
  <2>4. att.fd \in Nat /\ att.fd # i
    BY DEF Inst, Attestation
  <2> HIDE DEF i
  <2>5. disk'[att.fd] = disk[att.fd] \/ att.fd = 0
    BY <2>1, <2>4
  <2>6. Held' => Held
    BY <1>1, <2>1, <2>4
  <2>7. HeldType'
    BY <1>1, <1>2, <2>1, <2>3
  <2>8. att.fd <= changes' + 1 /\ \A m \in Nodes : here'[m] <= changes' + 1
    BY <2>1, <2>2, SMTT(20) DEF i, Inst
  <2> QED BY <1>1, <2>5, <2>6, <2>7, <2>8
<1> QED BY <1>3, <1>4, <1>5 DEF Change

LEMMA HeldOK == HeldInv /\ [Next]_vars => HeldInv'
<1> SUFFICES ASSUME HeldInv, [Next]_vars PROVE HeldInv'
  OBVIOUS
<1>1. CASE Attesting
  BY <1>1, HeldStep DEF Attesting, world
<1>2. CASE Change
  BY <1>2, HeldChange
<1>3. CASE SampleTable
  <2>1. UNCHANGED <<changes, here, disk>> /\ att' = [NoAtt EXCEPT !.step = 1]
    BY <1>3 DEF SampleTable, world
  <2>2. att'.step = 1 /\ att'.fd = 0 /\ HeldType'
    BY <2>1, AttestAssumption DEF HeldInv, HeldType, NoAtt, Attestation
  <2> QED BY <2>1, <2>2 DEF HeldInv, HeldType
<1>4. CASE UNCHANGED <<changes, here, disk, att>>
  BY <1>4 DEF HeldInv, HeldType, Held
<1>5. ASSUME Begin \/ SampleSupport \/ SampleContext \/ DiscoverBefore \/ DiscoveredBefore \/ Bind
             \/ RecheckContext \/ RecheckTable \/ DiscoverAfter \/ DiscoveredAfter \/ RecheckSupport
             \/ Refuse \/ UNCHANGED vars
      PROVE  UNCHANGED <<changes, here, disk, att>>
  BY <1>5 DEF Begin, SampleSupport, SampleContext, DiscoverBefore, DiscoveredBefore, Bind, RecheckContext,
              RecheckTable, DiscoverAfter, DiscoveredAfter, RecheckSupport, Refuse, Ended, vars, world
<1> QED BY <1>1, <1>2, <1>3, <1>4, <1>5 DEF Next, Build

\* Whatever is exchanged meanwhile, an admitted profile describes one attachment.
THEOREM AdmittedOne == Spec => []AdmittedIsOneDisk
<1>1. HeldInv => AdmittedIsOneDisk
  BY CollectReads DEF HeldInv, HeldType, Attestation, AdmittedIsOneDisk, Admitted, Disk, Inst
<1>2. Spec => []HeldInv
  BY HeldInit, HeldOK, PTL DEF Spec
<1> QED BY <1>1, <1>2, PTL
=============================================================================
