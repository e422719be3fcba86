------------------------------- MODULE Planning -------------------------------
(***************************************************************************)
(* The read-only plan for one device (build() of planning.py).  Its inputs are    *)
(* read one after the other while the machine goes on: support evidence, what a      *)
(* discovery reads, files of the context, the map's table; then the disk is           *)
(* admitted; then everything is read again and must not have changed.  The plan's     *)
(* digest binds all of it, so here it is the inputs themselves.                 *)
(*                                                                         *)
(* An input is its content, without the counters that the code drops, and may return     *)
(* to what it was: two equal readings do not show that it was the same in between.         *)
(* What else blocks a plan (an incomplete discovery, a registered map, missing            *)
(* eligibility) may do so at any step.                                             *)
(***************************************************************************)
EXTENDS Naturals

CONSTANTS Contents      \* what each input may contain

VARIABLES
    env,               \* the inputs as they are
    build              \* a build under way: its step and what it saw

Input == {"support", "inventory", "mounts", "config", "context", "table"}

ASSUME ContentAssumption == \A i \in Input : Contents[i] # {}

Inputs == [support : Contents["support"], inventory : Contents["inventory"], mounts : Contents["mounts"],
           config : Contents["config"], context : Contents["context"], table : Contents["table"]]

First(i) == CHOOSE c \in Contents[i] : TRUE

Earlier == {"support1", "inventory1", "mounts1", "config1", "context1", "table1", "admit"}
Again   == {"context2", "table2", "inventory2", "mounts2", "config2", "support2"}
Reading == Earlier \cup Again

\* astray, for the properties: the inputs that were not as read when the disk was admitted
\* and have not returned to it since.
NoBuild == [pc |-> "off", seen |-> [i \in Input |-> First(i)], astray |-> Input]

PlanTypeOK ==
    /\ env \in Inputs
    /\ build \in [pc : Reading \cup {"off", "ready", "blocked"}, seen : Inputs, astray : SUBSET Input]

BuildGoto(next) == build' = [build EXCEPT !.pc = next]

BuildBegin == build' = [NoBuild EXCEPT !.pc = "support1"]

Sample(i, at, next) ==
    /\ build.pc = at
    /\ build' = [build EXCEPT !.pc = next, !.seen[i] = env[i]]

Recheck(i, at, next) ==
    /\ build.pc = at
    /\ BuildGoto(IF env[i] = build.seen[i] THEN next ELSE "blocked")

SampleSupport   == Sample("support", "support1", "inventory1")
SampleDiscovery == \/ Sample("inventory", "inventory1", "mounts1")
                   \/ Sample("mounts", "mounts1", "config1")
                   \/ Sample("config", "config1", "context1")
SampleContext   == Sample("context", "context1", "table1")
SampleTable     == Sample("table", "table1", "admit")

\* The full admission of the disk; one that admits another instance than the discovered
\* one (bind_profile) blocks the plan.
Admit ==
    /\ build.pc = "admit"
    /\ build' = [build EXCEPT !.pc = "context2", !.astray = {i \in Input : env[i] # build.seen[i]}]

\* Mutant: the second reading of the context is not compared with the first.
RecheckInputs_NoContext ==
                 \/ build.pc = "context2" /\ BuildGoto("table2")
                 \/ Recheck("table", "table2", "inventory2")
                 \/ Recheck("inventory", "inventory2", "mounts2")
                 \/ Recheck("mounts", "mounts2", "config2")
                 \/ Recheck("config", "config2", "support2")
                 \/ Recheck("support", "support2", "ready")

RecheckInputs == \/ Recheck("context", "context2", "table2")
                 \/ Recheck("table", "table2", "inventory2")
                 \/ Recheck("inventory", "inventory2", "mounts2")
                 \/ Recheck("mounts", "mounts2", "config2")
                 \/ Recheck("config", "config2", "support2")
                 \/ Recheck("support", "support2", "ready")

\* Any other blocker.
Block == build.pc \in Reading /\ BuildGoto("blocked")

Build == (SampleSupport \/ SampleDiscovery \/ SampleContext \/ SampleTable
          \/ Admit \/ RecheckInputs \/ Block) /\ UNCHANGED env

\* checked_plan(): the plan is ready and is the expected one.
PlanIs(expected) == build.pc = "ready" /\ build.seen = expected

\* An input that returns, after the admission, to what was read of it.
Returned(i, c) == IF build.pc \in Again \cup {"ready"} /\ c = build.seen[i] THEN {i} ELSE {}

Change ==
    \E i \in Input : \E c \in Contents[i] \ {env[i]} :
        /\ env' = [env EXCEPT ![i] = c]
        /\ build' = [build EXCEPT !.astray = @ \ Returned(i, c)]

\* One plan, for those that show that they build it.
planVars == <<env, build>>

PlanInit == env \in Inputs /\ build = NoBuild
PlanNext == \/ Build
            \/ build.pc = "off" /\ BuildBegin /\ UNCHANGED env
            \/ Change

PlanSpec == PlanInit /\ [][PlanNext]_planVars
=============================================================================
