--------------------------------- MODULE Plan ---------------------------------
(***************************************************************************)
(* build() of planning.py in its parts: two observations (Discovery), the admission of   *)
(* the disk between them (Attest), and the other inputs before and after.  Planning is    *)
(* what it promises to the candidate store: it reads each part of an observation once, when  *)
(* the observation reads it first.                                                *)
(*                                                                         *)
(* Each source has its own changes: a reload of the selected map is not also a change of     *)
(* the inventory, mounts are seen by the observation only.  The code would notice some         *)
(* changes twice.                                                            *)
(***************************************************************************)
EXTENDS Discovery, Attest

\* The inventory is which attachment is at which node, the table is what it names; there are
\* enough attachments for every change.
ASSUME PlanAssumption ==
    /\ MaxChanges \in Nat /\ MaxInst = MaxChanges + 1
    /\ Contents["inventory"] = [Nodes -> Inst \cup {0}] /\ Contents["table"] = Nodes
    /\ \A s \in Source : Contents[s] # {}

VARIABLES plan         \* the plan under way

vars  == <<w, own, changes, look, here, disk, table, att, plan>>
world == <<w, own, changes, here, disk, table>>

InputDigest == {"inventory", "mounts", "config"}   \* inputs.update() of the observation

\* The inputs and the build as Planning sees them.
PlanEnv   == [support |-> w["support"], inventory |-> w["inventory"], mounts |-> w["mounts"],
              config |-> w["config"], context |-> w["context"], table |-> w["table"]]
PlanBuild == [pc |-> plan.as, seen |-> plan.seen, astray |-> plan.astray]

P == INSTANCE Planning WITH env <- PlanEnv, build <- PlanBuild

PlanPc == {"off", "support1", "discover1", "context1", "table1", "attest",
           "context2", "table2", "discover2", "support2", "ready", "blocked"}

NoPlan == [pc |-> "off", backing |-> 0, as |-> "off", seen |-> P!NoBuild.seen, astray |-> P!Input]

TypeOK ==
    /\ LookTypeOK /\ AttTypeOK
    /\ plan \in [pc : PlanPc, backing : Inst \cup {0}, as : P!Reading \cup {"off", "ready", "blocked"},
                 seen : P!Inputs, astray : SUBSET P!Input]

Init ==
    /\ LookInit /\ AttInit /\ plan = NoPlan
    /\ w = [s \in Source |-> CASE s = "inventory" -> here [] s = "table" -> table [] OTHER -> Empty(s)]

-----------------------------------------------------------------------------
(* "as" tells how far the plan is for Planning, which may know before the plan does that it *)
(* is blocked; "astray" is Planning's.                                            *)

Begin == /\ plan.pc = "off"
         /\ plan' = [plan EXCEPT !.pc = "support1", !.as = "support1"]
         /\ UNCHANGED <<world, look, att>>

Sample(input, at, next) ==
    /\ plan.pc = at
    /\ plan' = [plan EXCEPT !.pc = next, !.as = IF input = "support" THEN "inventory1"
                                                ELSE IF input = "context" THEN "table1" ELSE "admit",
                            !.seen[input] = w[input]]

SampleSupport == Sample("support", "support1", "discover1") /\ LookBegin /\ UNCHANGED <<world, att>>
SampleContext == Sample("context", "context1", "table1") /\ UNCHANGED <<world, look, att>>
SampleTable   == /\ Sample("table", "table1", "attest")
                 /\ att' = [NoAtt EXCEPT !.step = 1]
                 /\ UNCHANGED <<world, look>>

Recheck(input, at, next, as) ==
    /\ plan.pc = at
    /\ plan' = IF w[input] = plan.seen[input] THEN [plan EXCEPT !.pc = next, !.as = as]
               ELSE [plan EXCEPT !.pc = "blocked", !.as = "blocked"]

RecheckContext == Recheck("context", "context2", "table2", "table2") /\ UNCHANGED <<world, look, att>>
RecheckTable   == Recheck("table", "table2", "discover2", "inventory2") /\ LookBegin /\ UNCHANGED <<world, att>>
RecheckSupport == Recheck("support", "support2", "ready", "ready") /\ UNCHANGED <<world, look, att>>

-----------------------------------------------------------------------------
(* The two observations. *)

\* What is read first of each part is what the plan has of it.
NextOf == [inventory |-> "mounts1", mounts |-> "config1", config |-> "context1"]

DiscoverBefore ==
    /\ plan.pc = "discover1" /\ LookStep
    /\ plan' = IF look.pc \in InputDigest
               THEN [plan EXCEPT !.seen[look.pc] = w[look.pc], !.as = NextOf[look.pc],
                                 !.backing = IF look.pc = "inventory" THEN here[Selected] ELSE @]
               ELSE plan
    /\ UNCHANGED <<world, att>>

Ended(next, good) ==
    /\ look.pc = "done"
    /\ plan' = IF look.stable /\ good THEN [plan EXCEPT !.pc = next]
               ELSE [plan EXCEPT !.pc = "blocked", !.as = "blocked"]
    /\ UNCHANGED <<world, look, att>>

DiscoveredBefore == plan.pc = "discover1" /\ Ended("context1", plan.backing # 0)

NextAgain == [inventory |-> "mounts2", mounts |-> "config2", config |-> "support2"]

DiscoverAfter ==
    /\ plan.pc = "discover2" /\ LookStep
    /\ plan' = IF look.pc \in InputDigest /\ plan.as # "blocked"
               THEN [plan EXCEPT !.as = IF w[look.pc] = plan.seen[look.pc] THEN NextAgain[look.pc]
                                        ELSE "blocked"]
               ELSE plan
    /\ UNCHANGED <<world, att>>

\* Mutant: the second observation has only to be stable, not to equal the first.
DiscoveredAfter_Stable == plan.pc = "discover2" /\ Ended("support2", TRUE)

DiscoveredAfter ==
    plan.pc = "discover2" /\ Ended("support2", \A s \in InputDigest : look.seen[s] = plan.seen[s])

-----------------------------------------------------------------------------
(* The admission between them. *)

Attesting == plan.pc = "attest" /\ AttestStep /\ UNCHANGED <<world, look, plan>>

\* bind_profile(): the admitted attachment is the discovered one.
Bind ==
    /\ plan.pc = "attest" /\ Admitted
    /\ att.node = Selected /\ att.fd = plan.backing
    /\ plan' = [plan EXCEPT !.pc = "context2", !.as = "context2",
                            !.astray = {i \in P!Input : w[i] # plan.seen[i]}]
    /\ UNCHANGED <<world, look, att>>

\* Any other blocker, and whatever fails.
Refuse == /\ plan.pc \notin {"off", "ready", "blocked"}
          /\ plan' = [plan EXCEPT !.pc = "blocked", !.as = "blocked"]
          /\ UNCHANGED <<world, look, att>>

-----------------------------------------------------------------------------
(* The machine goes on. *)

Counts == changes < MaxChanges /\ changes' = changes + 1

Becomes(s, c) ==
    /\ w' = [w EXCEPT ![s] = c]
    /\ look' = [look EXCEPT !.astray = @ \ ReturnsTo(s, c)]
    /\ plan' = [plan EXCEPT !.astray = @ \ (IF s \in P!Input THEN P!Returned(s, c) ELSE {})]

Change ==
    /\ \/ /\ Counts /\ UNCHANGED <<own, here, disk, table>>
          /\ \E s \in {"support", "context", "mounts", "config", "maps"} :
                \E c \in Contents[s] \ {w[s]} : Becomes(s, c)
       \/ /\ Counts /\ UNCHANGED <<own, table>>
          /\ \E n \in Nodes : (Detach(n) \/ Attach(n, changes + 2)) /\ Becomes("inventory", here')
       \/ /\ Counts /\ UNCHANGED <<own, here, disk>>
          /\ \E n \in Nodes \ {table} : table' = n /\ Becomes("table", n)
       \/ Counts /\ OwnerRestarts /\ UNCHANGED <<w, here, disk, table, look, plan>>
       \/ OwnerWrites /\ UNCHANGED <<changes, w, here, disk, table, look, plan>>
    /\ UNCHANGED att

Build == \/ Begin \/ SampleSupport \/ DiscoverBefore \/ DiscoveredBefore \/ SampleContext \/ SampleTable
         \/ Attesting \/ Bind \/ RecheckContext \/ RecheckTable \/ DiscoverAfter \/ DiscoveredAfter
         \/ RecheckSupport \/ Refuse

Next == Build \/ Change

Spec == Init /\ [][Next]_vars

\* The plan in its parts is the plan that the candidate store relies on: a plan is ready only
\* when each input was read before the admission and again after it and had the same content
\* both times, however the two observations, their own second readings and the reads of the
\* disk are interleaved with the machine.
ImplementsPlanning == P!PlanSpec
=============================================================================
