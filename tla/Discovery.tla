------------------------------ MODULE Discovery ------------------------------
(***************************************************************************)
(* The one-shot observation (collect() of discovery.py, device() of diagnostics.py):   *)
(* the block inventory, the mounts, the trusted configuration, then the owner of a      *)
(* registered map (its service, its journal, its map, its process, and the first two     *)
(* again), and at the end everything but the owner a second time.  What changed in        *)
(* between is reported as unknown.                                             *)
(*                                                                         *)
(* A source is what is compared of it (mounts without their ids, a table without its       *)
(* counters) and may return to what it was: "an atomic snapshot or change-and-revert" is   *)
(* not detected.  An owner is a generation of the service's main process, which never      *)
(* comes back; it writes its journal some time after it has started.                      *)
(* MaxChanges bounds all changes.                                                 *)
(***************************************************************************)
EXTENDS Naturals

CONSTANTS
    Contents,          \* what each source may contain
    MaxChanges

VARIABLES
    w,                 \* source -> content
    own,               \* the service's process and the process that last wrote the journal
    changes,           \* the changes so far
    look               \* the observation under way

Observed == {"inventory", "mounts", "config", "maps"}
Source   == Observed \cup {"support", "context", "table"}
Owners   == 1 .. MaxChanges + 1

Empty(s) == CHOOSE c \in Contents[s] : TRUE

LookPc == {"inventory", "mounts", "config", "service", "transaction", "map", "process", "service2",
           "transaction2", "inventory2", "mounts2", "maps2", "config2", "done"}

\* For the properties.  current: the owner was so when it was read again; astray: the sources
\* that were not as read at the instant between the two readings and have not returned to it.
NoLook == [pc |-> "off", seen |-> [s \in Observed |-> Empty(s)], service |-> 0, transaction |-> 0,
           process |-> 0, owner |-> FALSE, current |-> FALSE, stable |-> TRUE, astray |-> Observed]

Sources == {v \in [Source -> UNION {Contents[s] : s \in Source}] : \A s \in Source : v[s] \in Contents[s]}
Seen    == {v \in [Observed -> UNION {Contents[s] : s \in Observed}] : \A s \in Observed : v[s] \in Contents[s]}

LookTypeOK ==
    /\ w \in Sources
    /\ own \in [unit : Owners, journal : Owners]
    /\ changes \in 0 .. MaxChanges
    /\ look \in [pc : LookPc \cup {"off"}, seen : Seen, service : Owners \cup {0},
                 transaction : Owners \cup {0}, process : Owners \cup {0}, owner : BOOLEAN,
                 current : BOOLEAN, stable : BOOLEAN, astray : SUBSET Observed]

LookInit ==
    /\ own = [unit |-> 1, journal |-> 1]
    /\ changes = 0
    /\ look = NoLook

-----------------------------------------------------------------------------
LookBegin == look' = [NoLook EXCEPT !.pc = "inventory"]

Observe(s, at, next) ==
    /\ look.pc = at
    /\ look' = [look EXCEPT !.pc = next, !.seen[s] = w[s]]

ReadInventory == Observe("inventory", "inventory", "mounts")
ReadMounts    == Observe("mounts", "mounts", "config")
ReadConfig    == Observe("config", "config", "service")       \* ConfigurationSnapshot.observe()

-----------------------------------------------------------------------------
(* device(): the owner of a registered map. *)

ReadService     == look.pc = "service" /\ look' = [look EXCEPT !.pc = "transaction", !.service = own.unit]
ReadTransaction == look.pc = "transaction" /\ look' = [look EXCEPT !.pc = "map", !.transaction = own.journal]
ReadMap         == Observe("maps", "map", "process")
\* Of a process that has ended there is nothing to read.
ReadProcess == /\ look.pc = "process"
               /\ look' = [look EXCEPT !.pc = "service2",
                                       !.process = IF own.unit = look.service THEN own.unit ELSE 0]

\* classify(): service, journal and process name the same owner.
OwnerMatches == look.process # 0 /\ look.service = look.transaction /\ look.transaction = look.process

RereadService ==
    /\ look.pc = "service2"
    /\ look' = [look EXCEPT !.pc = "transaction2", !.owner = OwnerMatches /\ own.unit = look.service,
                            !.current = (own.unit = own.journal)]

\* The instant between the two readings.
RereadTransaction ==
    /\ look.pc = "transaction2"
    /\ look' = [look EXCEPT !.pc = "inventory2", !.owner = @ /\ own.journal = look.transaction,
                            !.astray = {s \in Observed : w[s] # look.seen[s]}]

-----------------------------------------------------------------------------
(* The second reading. *)

Compare(s, at, next) ==
    /\ look.pc = at
    /\ look' = [look EXCEPT !.pc = next, !.stable = @ /\ w[s] = look.seen[s]]

RecheckInventory == Compare("inventory", "inventory2", "mounts2")
RecheckMounts    == Compare("mounts", "mounts2", "maps2")
RecheckMaps      == Compare("maps", "maps2", "config2")

\* Mutant: what was read of the configuration is taken as it was.
RecheckConfig_Trusted ==
    /\ look.pc = "config2"
    /\ look' = [look EXCEPT !.pc = "done", !.owner = @ /\ look.stable]

\* An unstable report claims no owner.
RecheckConfig ==
    /\ look.pc = "config2"
    /\ LET stable == look.stable /\ w["config"] = look.seen["config"]
       IN  look' = [look EXCEPT !.pc = "done", !.stable = stable, !.owner = @ /\ stable]

LookStep == \/ ReadInventory \/ ReadMounts \/ ReadConfig
            \/ ReadService \/ ReadTransaction \/ ReadMap \/ ReadProcess
            \/ RereadService \/ RereadTransaction
            \/ RecheckInventory \/ RecheckMounts \/ RecheckMaps \/ RecheckConfig

-----------------------------------------------------------------------------
\* A source that returns, after that instant, to what was read of it.
Second == {"inventory2", "mounts2", "maps2", "config2", "done"}
ReturnsTo(s, c) == IF look.pc \in Second /\ s \in Observed /\ c = look.seen[s] THEN {s} ELSE {}

OwnerRestarts == own' = [own EXCEPT !.unit = @ + 1]
OwnerWrites   == own.journal # own.unit /\ own' = [own EXCEPT !.journal = own.unit]

-----------------------------------------------------------------------------
\* What a stable report is made of was as reported at the instant between the two readings;
\* only what has returned to it since may have been otherwise.
StableReport == look.stable => look.astray = {}

\* An owner that a report calls matching still ran, and was the writer of the journal, when
\* its service was read again, however often the owner was restarted meanwhile.
OwnerIsCurrent == look.owner => look.current

\* Both, of a report that is complete.
ReportIsTrue == look.pc = "done" => StableReport /\ OwnerIsCurrent
=============================================================================
