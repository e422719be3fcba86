----------------------------- MODULE PathState -----------------------------
(***************************************************************************)
(* What the recovery controller and its takeover share: the USB disk        *)
(* instances, the kernel's stable multipath map, the owner fence with the    *)
(* dmsetup helpers that inherit it, and the transaction journal in RAM.      *)
(*                                                                         *)
(* A disk instance (a diskseq) is plugged once and never returns: a replug   *)
(* is a new instance.  Two instances may reuse one dev_t.  A table names     *)
(* only a dev_t, so a table digest is a dev_t here; the kernel object a      *)
(* table is bound to is the instance.                                        *)
(***************************************************************************)
EXTENDS Naturals, FiniteSets

CONSTANTS
    Inst,              \* disk instances
    Dev,               \* device numbers
    DevOf,             \* the dev_t each instance appears under
    Enrolled,          \* instances whose USB id, serial and capacity match the enrollment
    Genuine,           \* the enrolled ones whose partition, LVM and file-system layout match
    First,             \* the instance the map is built on when the controller starts
    NoInst, NoDev      \* null values

ASSUME InstAssumption ==
    /\ DevOf \in [Inst -> Dev]
    /\ Genuine \subseteq Enrolled /\ Enrolled \subseteq Inst
    /\ First \in Genuine
    /\ NoInst \notin Inst /\ NoDev \notin Dev

VARIABLES
    plugged,           \* each instance: "absent", "present" or "gone"
    map,               \* the device-mapper map
    helper,            \* the dmsetup process of each role
    journal            \* path-transaction.json

Phase == {"idle", "waiting", "verifying", "load_intent", "loaded", "commit_intent",
          "committed", "probe_intent", "probing", "confirming", "ready",
          "expired", "interrupted"}
Role == {"guard", "takeover"}
Op   == {"load", "resume", "clear", "message"}

MapState    == [active : Inst, inactive : Inst \cup {NoInst}, suspended : BOOLEAN,
                queue : BOOLEAN,        \* queue_if_no_path of the active table
                failed : BOOLEAN]       \* the active path is in state F
HelperState == [op : Op \cup {"none"}, dev : Dev \cup {NoDev},
                st : {"none", "running", "ok", "error"}]
JournalRecord == [phase : Phase, phase_at_expiry : Phase,
                  previous : Dev \cup {NoDev}, snapshot : Dev,
                  candidate_table_digest : Dev \cup {NoDev},
                  queue_disable : {"none", "deferred_to_takeover", "completed_by_takeover"}]

PathTypeOK ==
    /\ plugged \in [Inst -> {"absent", "present", "gone"}]
    /\ map \in MapState
    /\ helper \in [Role -> HelperState]
    /\ journal \in JournalRecord

NoHelper == [op |-> "none", dev |-> NoDev, st |-> "none"]

PathInit ==
    /\ plugged = [i \in Inst |-> IF i = First THEN "present" ELSE "absent"]
    /\ map = [active |-> First, inactive |-> NoInst, suspended |-> FALSE,
              queue |-> TRUE, failed |-> FALSE]
    /\ helper = [r \in Role |-> NoHelper]
    /\ journal = [phase |-> "idle", phase_at_expiry |-> "idle", previous |-> NoDev,
                  snapshot |-> DevOf[First], candidate_table_digest |-> NoDev,
                  queue_disable |-> "none"]

Present(i) == plugged[i] = "present"
Digest(i)  == IF i = NoInst THEN NoDev ELSE DevOf[i]

-----------------------------------------------------------------------------
(* The environment: plugging, transport faults, and an operator's suspend.   *)

\* One dev_t names one present disk at a time.
Plug(i) ==
    /\ plugged[i] = "absent"
    /\ \A j \in Inst : Present(j) => DevOf[j] # DevOf[i]
    /\ plugged' = [plugged EXCEPT ![i] = "present"]
    /\ UNCHANGED <<map, helper, journal>>

Unplug(i) ==
    /\ Present(i)
    /\ plugged' = [plugged EXCEPT ![i] = "gone"]
    /\ UNCHANGED <<map, helper, journal>>

\* An I/O error makes multipath mark the active path failed.
PathFails ==
    /\ ~map.failed
    /\ map' = [map EXCEPT !.failed = TRUE]
    /\ UNCHANGED <<plugged, helper, journal>>

\* dmsetup suspend from outside, as the laboratory's takeover experiment does.
ExternalSuspend ==
    /\ ~map.suspended
    /\ map' = [map EXCEPT !.suspended = TRUE]
    /\ UNCHANGED <<plugged, helper, journal>>

-----------------------------------------------------------------------------
(* dmsetup helpers and the kernel's table operations.                        *)

HelperRuns(r) == helper[r].st = "running"

Spawn(r, op, dev) ==
    helper' = [helper EXCEPT ![r] = [op |-> op, dev |-> dev, st |-> "running"]]

\* The kernel opens the dev_t of a new table; a device that the active table
\* already holds under this dev_t is reused instead of opening the new disk.
Bound(dev) ==
    IF DevOf[map.active] = dev THEN {map.active}
    ELSE {i \in Inst : Present(i) /\ DevOf[i] = dev}

LoadTable(dev) ==
    \E i \in Bound(dev) : map' = [map EXCEPT !.inactive = i]

\* One resume suspends if needed, swaps the inactive table in and resumes.  The
\* new table is loaded with queue_if_no_path and starts with its path active.
SwapTables ==
    map' = IF map.inactive = NoInst
             THEN [map EXCEPT !.suspended = FALSE]
             ELSE [active |-> map.inactive, inactive |-> NoInst, suspended |-> FALSE,
                   queue |-> TRUE, failed |-> FALSE]

\* A failed swap destroys the inactive table and leaves the map suspended.
SwapFails == map.inactive # NoInst
             /\ map' = [map EXCEPT !.inactive = NoInst, !.suspended = TRUE]

Effect(h) ==
    \/ h.op = "load"    /\ LoadTable(h.dev)
    \/ h.op = "resume"  /\ SwapTables
    \/ h.op = "clear"   /\ map' = [map EXCEPT !.inactive = NoInst]
    \/ h.op = "message" /\ map' = [map EXCEPT !.queue = FALSE]

Exits(r, st) ==
    /\ helper' = [helper EXCEPT ![r].st = st]
    /\ UNCHANGED <<plugged, journal>>

\* The helper did its work; a timeout or an output overflow may still make
\* command() report an error for it.
HelperWorks(r) ==
    /\ HelperRuns(r)
    /\ Effect(helper[r])
    /\ \E st \in {"ok", "error"} : Exits(r, st)

\* The ioctl failed, or the helper was killed before it.
HelperFails(r) ==
    /\ HelperRuns(r)
    /\ \/ map' = map
       \/ helper[r].op = "resume" /\ SwapFails
    /\ Exits(r, "error")
=============================================================================
