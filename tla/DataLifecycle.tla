---------------------------- MODULE DataLifecycle ----------------------------
(***************************************************************************)
(* The life cycle of a host-data owner: first enable, safe stop, rearm, the  *)
(* takeover that systemd runs as ExecStopPost, and the stop client           *)
(* (data_lifecycle.cpp; maintain(), run_owned(), safe_stop() and reconcile() *)
(* in controller.cpp).  Journal, stop receipt and manager invocation are     *)
(* separate files in RAM, written one after the other; a process may be      *)
(* killed between any two writes and its dmsetup helper lives on.            *)
(*                                                                         *)
(* The recovery of a lost disk, specified in Recovery, is two steps here.    *)
(* Bounds: MaxStarts, MaxDisks, MaxStops, MaxConfirms.                       *)
(***************************************************************************)
EXTENDS Naturals, Sequences

CONSTANTS
    MaxStarts,         \* service invocations
    MaxDisks,          \* disk instances that are ever plugged
    MaxStops,          \* stop commands
    MaxConfirms,       \* tries a stop client makes before its 15 s are over
    NoFile             \* a file that does not exist

ASSUME BoundsAssumption ==
    {MaxStarts, MaxDisks, MaxStops, MaxConfirms} \subseteq Nat \ {0}

VARIABLES
    map,               \* queue_if_no_path and open count of the map
    disk,              \* the enrolled disk: instance (diskseq) and presence
    journal,           \* path-transaction.json
    receipt,           \* safe-stop.json: the journal it was issued for
    invocation,        \* manager-invocation.json
    unit,              \* the systemd unit
    owner,             \* the owner process
    helper,            \* dmsetup message of each role
    requests,          \* stop requests waiting on the control socket
    tk,                \* pc of the takeover process
    client             \* the stop client

files == <<journal, receipt, invocation>>
env   == <<map, disk>>
vars  == <<env, files, unit, owner, helper, requests, tk, client>>

Epoch == 0 .. MaxStarts                  \* an owner's is its invocation
TakeoverEpoch == 0                       \* stands for any takeover's epoch
Disks == 1 .. MaxDisks

LivePhase == {"idle", "ready"}
Phase == LivePhase \cup {"waiting", "safe_stop_intent", "safe_stopped", "rearm_intent",
                         "interrupted"}
JournalRecord == [epoch : Epoch, phase : Phase, stopped_instance : 0 .. MaxDisks]
InvocationRecord == [id : 1 .. MaxStarts, epoch : Epoch]

ASSUME NoFileAssumption == NoFile \notin JournalRecord /\ NoFile \notin InvocationRecord

OwnerPc == {"off", "lock", "begin", "archive", "rearm_intent", "invocation", "recheck",
            "journal", "enable", "enabling", "confirm", "ready", "recovering",
            "stopping", "disabling", "stopped_journal", "stop_receipt", "stopped"}
TkPc == {"off", "check", "waiting", "read", "message", "finish"}
ClientPc == {"off", "verify", "read", "sent", "served", "confirm", "reverify"}
Role == {"owner", "takeover"}

MapRecord  == [queue : BOOLEAN, open : BOOLEAN]
DiskRecord == [seq : Disks, present : BOOLEAN]
UnitRecord == [inv : 0 .. MaxStarts, st : {"inactive", "running", "stop_post"},
               failed : BOOLEAN]         \* some takeover was killed or gave up
OwnerRecord == [pc : OwnerPc, mode : {"first", "rearm"}, inst : 0 .. MaxDisks,
                previous : Phase]        \* the phase a refused stop restores
ClientRecord == [pc : ClientPc, epoch : Epoch, calls : 0 .. MaxStops, tries : 0 .. MaxConfirms,
                 reply : {"none", "stopped", "blocked", "incomplete"}]

TypeOK ==
    /\ map \in MapRecord
    /\ disk \in DiskRecord
    /\ journal \in JournalRecord \cup {NoFile}
    /\ receipt \in JournalRecord \cup {NoFile}
    /\ invocation \in InvocationRecord \cup {NoFile}
    /\ unit \in UnitRecord
    /\ owner \in OwnerRecord
    /\ helper \in [Role -> {"none", "on", "off", "ok", "error"}]
    /\ requests \in Seq({"live", "abandoned"})
    /\ tk \in TkPc
    /\ client \in ClientRecord

\* A map created by the host tool does not queue.
Init ==
    /\ map = [queue |-> FALSE, open |-> FALSE]
    /\ disk = [seq |-> 1, present |-> TRUE]
    /\ journal = NoFile /\ receipt = NoFile /\ invocation = NoFile
    /\ unit = [inv |-> 0, st |-> "inactive", failed |-> FALSE]
    /\ owner = [pc |-> "off", mode |-> "first", inst |-> 0, previous |-> "idle"]
    /\ helper = [r \in Role |-> "none"]
    /\ requests = <<>>
    /\ tk = "off"
    /\ client = [pc |-> "off", epoch |-> 0, calls |-> 0, tries |-> 0, reply |-> "none"]

-----------------------------------------------------------------------------
(* Users of the map, the disk, helpers, and the owner fence.                 *)

OpenOrClose == map' = [map EXCEPT !.open = ~map.open] /\ UNCHANGED disk
Unplug == disk.present /\ disk' = [disk EXCEPT !.present = FALSE] /\ UNCHANGED map
Replug == /\ ~disk.present /\ disk.seq < MaxDisks
          /\ disk' = [seq |-> disk.seq + 1, present |-> TRUE] /\ UNCHANGED map

Environment == (OpenOrClose \/ Unplug \/ Replug)
               /\ UNCHANGED <<files, unit, owner, helper, requests, tk, client>>

HelperRuns(r) == helper[r] \in {"on", "off"}
Spawn(r, op) == helper' = [helper EXCEPT ![r] = op]

\* dmsetup message: it takes effect or not, and command() may report an error
\* for one that did.
HelperExits(r) ==
    /\ HelperRuns(r)
    /\ \/ /\ map' = [map EXCEPT !.queue = (helper[r] = "on")]
          /\ \E st \in {"ok", "error"} : Spawn(r, st)
       \/ Spawn(r, "error") /\ UNCHANGED map
    /\ UNCHANGED <<disk, files, unit, owner, requests, tk, client>>

\* Wrong: a takeover that waits counts as a holder of the fence.
FenceFree_WaiterHolds ==
    /\ owner.pc \in {"off", "lock"} /\ tk \in {"off", "check"}
    /\ client.pc \notin {"verify", "reverify"}
    /\ \A r \in Role : ~HelperRuns(r)

FenceFree ==
    /\ owner.pc \in {"off", "lock"}
    /\ tk \in {"off", "check", "waiting"}
    /\ client.pc \notin {"verify", "reverify"}
    /\ \A r \in Role : ~HelperRuns(r)

\* idle_data_snapshot: the instance is still there, the map is not open and
\* queues as expected.
Idle(inst, queue) == disk = [seq |-> inst, present |-> TRUE]
                     /\ ~map.open /\ map.queue = queue

\* validate_stopped: the receipt was issued for exactly this journal.
StoppedOnFile == journal # NoFile /\ journal.phase = "safe_stopped" /\ receipt = journal

-----------------------------------------------------------------------------
(* The owner process: maintain() and run_owned().                            *)

OwnerQuiet == UNCHANGED <<env, unit, requests, tk, client>>
At(pc) == owner.pc = pc
Becomes(pc) == owner' = [owner EXCEPT !.pc = pc]

\* systemctl start; a unit file may name either mode.
StartUnit ==
    /\ unit.st = "inactive" /\ unit.inv < MaxStarts
    /\ unit' = [unit EXCEPT !.inv = @ + 1, !.st = "running"]
    /\ \E m \in {"first", "rearm"} :
         owner' = [pc |-> "lock", mode |-> m, inst |-> 0, previous |-> "idle"]
    /\ helper' = [helper EXCEPT !["owner"] = IF HelperRuns("owner") THEN @ ELSE "none"]
    /\ UNCHANGED <<env, files, requests, tk, client>>

OwnerLocks == At("lock") /\ FenceFree /\ Becomes("begin")
              /\ OwnerQuiet /\ UNCHANGED <<files, helper>>

FirstAdmits ==
    /\ At("begin") /\ owner.mode = "first"
    /\ journal = NoFile /\ disk.present
    /\ owner' = [owner EXCEPT !.pc = "invocation", !.inst = disk.seq]
    /\ OwnerQuiet /\ UNCHANGED <<files, helper>>

RearmAdmits ==
    /\ At("begin") /\ owner.mode = "rearm"
    /\ StoppedOnFile /\ Idle(journal.stopped_instance, FALSE)
    /\ invocation # NoFile /\ invocation.epoch = journal.epoch
    /\ owner' = [owner EXCEPT !.pc = "archive", !.inst = journal.stopped_instance]
    /\ OwnerQuiet /\ UNCHANGED <<files, helper>>

\* begin_rearm(): the archive is evidence only.
SaveArchive ==
    /\ At("archive") /\ Idle(owner.inst, FALSE)
    /\ Becomes("rearm_intent")
    /\ OwnerQuiet /\ UNCHANGED <<files, helper>>

\* Wrong: queueing goes on before the invocation is saved.
RearmIntent_SkipsInvocation ==
    /\ At("rearm_intent")
    /\ journal' = [epoch |-> unit.inv, phase |-> "rearm_intent", stopped_instance |-> 0]
    /\ Becomes("recheck")
    /\ OwnerQuiet /\ UNCHANGED <<receipt, invocation, helper>>

RearmIntent ==
    /\ At("rearm_intent")
    /\ journal' = [epoch |-> unit.inv, phase |-> "rearm_intent", stopped_instance |-> 0]
    /\ Becomes("invocation")
    /\ OwnerQuiet /\ UNCHANGED <<receipt, invocation, helper>>

SaveInvocation ==
    /\ At("invocation")
    /\ invocation' = [id |-> unit.inv, epoch |-> unit.inv]
    /\ Becomes(IF owner.mode = "first" THEN "journal" ELSE "recheck")
    /\ OwnerQuiet /\ UNCHANGED <<journal, receipt, helper>>

\* The constructor of Guard starts a new journal.
OpenJournal ==
    /\ At("journal")
    /\ journal' = [epoch |-> unit.inv, phase |-> "idle", stopped_instance |-> 0]
    /\ Becomes(IF owner.mode = "first" THEN "enable" ELSE "confirm")
    /\ OwnerQuiet /\ UNCHANGED <<receipt, invocation, helper>>

QueueOn ==
    /\ \/ At("enable") /\ Idle(owner.inst, map.queue)
       \/ At("recheck") /\ Idle(owner.inst, FALSE)
    /\ Spawn("owner", "on") /\ Becomes("enabling")
    /\ OwnerQuiet /\ UNCHANGED files

QueueIsOn ==
    /\ At("enabling") /\ helper["owner"] = "ok" /\ Idle(owner.inst, TRUE)
    /\ Becomes(IF owner.mode = "first" THEN "confirm" ELSE "journal")
    /\ OwnerQuiet /\ UNCHANGED <<files, helper>>

Confirm ==
    /\ At("confirm") /\ disk = [seq |-> owner.inst, present |-> TRUE]
    /\ Becomes("ready")
    /\ OwnerQuiet /\ UNCHANGED <<files, helper>>

\* The recovery of a lost disk, as Recovery specifies it.
Recovering ==
    /\ At("ready") /\ disk # [seq |-> owner.inst, present |-> TRUE]
    /\ journal' = [journal EXCEPT !.phase = "waiting"]
    /\ Becomes("recovering")
    /\ OwnerQuiet /\ UNCHANGED <<receipt, invocation, helper>>
Recovered ==
    /\ At("recovering") /\ disk.present
    /\ journal' = [journal EXCEPT !.phase = "ready"]
    /\ owner' = [owner EXCEPT !.pc = "ready", !.inst = disk.seq]
    /\ OwnerQuiet /\ UNCHANGED <<receipt, invocation, helper>>

Start == \/ OwnerLocks \/ FirstAdmits \/ RearmAdmits \/ SaveArchive \/ RearmIntent
         \/ SaveInvocation \/ OpenJournal \/ QueueOn \/ QueueIsOn \/ Confirm

-----------------------------------------------------------------------------
(* safe_stop() and finish_safe_stop().                                       *)

Ends(reply) == [client EXCEPT !.pc = "off", !.reply = reply]

\* A request is taken from the socket.  Its answer reaches the client unless it
\* has stopped waiting.
TakeRequest == requests # <<>> /\ requests' = Tail(requests)
IsLive == Head(requests) = "live"

RefuseStop ==
    /\ At("ready") \/ At("recovering")
    /\ TakeRequest
    /\ client' = IF IsLive THEN Ends("blocked") ELSE client
    /\ UNCHANGED <<env, files, unit, owner, helper, tk>>

BeginStop ==
    /\ At("ready") /\ Idle(owner.inst, TRUE)
    /\ TakeRequest
    /\ journal' = [journal EXCEPT !.phase = "safe_stop_intent",
                                  !.stopped_instance = owner.inst]
    /\ owner' = [owner EXCEPT !.pc = "stopping", !.previous = journal.phase]
    /\ client' = IF IsLive THEN [client EXCEPT !.pc = "served"] ELSE client
    /\ UNCHANGED <<env, receipt, invocation, unit, helper, tk>>

StopQuiet == UNCHANGED <<env, unit, requests, tk>>

\* Wrong: the refusal leaves the intent in the journal.
WithdrawStop_KeepsIntent ==
    /\ At("stopping")
    /\ Becomes("ready")
    /\ client' = IF client.pc = "served" THEN Ends("blocked") ELSE client
    /\ StopQuiet /\ UNCHANGED <<files, helper>>

\* Nothing was changed yet: the previous journal is put back.
WithdrawStop ==
    /\ At("stopping")
    /\ journal' = [journal EXCEPT !.phase = owner.previous, !.stopped_instance = 0]
    /\ Becomes("ready")
    /\ client' = IF client.pc = "served" THEN Ends("blocked") ELSE client
    /\ StopQuiet /\ UNCHANGED <<receipt, invocation, helper>>

QueueOff ==
    /\ At("stopping") /\ Idle(owner.inst, TRUE)
    /\ Spawn("owner", "off") /\ Becomes("disabling")
    /\ StopQuiet /\ UNCHANGED <<files, client>>

QueueIsOff ==
    /\ At("disabling") /\ helper["owner"] = "ok" /\ Idle(owner.inst, FALSE)
    /\ Becomes("stopped_journal")
    /\ StopQuiet /\ UNCHANGED <<files, helper, client>>

WriteStopped ==
    /\ At("stopped_journal")
    /\ journal' = [journal EXCEPT !.phase = "safe_stopped"]
    /\ Becomes("stop_receipt")
    /\ StopQuiet /\ UNCHANGED <<receipt, invocation, helper, client>>

SaveReceipt ==
    /\ At("stop_receipt")
    /\ receipt' = journal
    /\ Becomes("stopped")
    /\ client' = [client EXCEPT !.pc = IF @ = "served" THEN "confirm" ELSE @]
    /\ StopQuiet /\ UNCHANGED <<journal, invocation, helper>>

Stop == BeginStop \/ RefuseStop \/ WithdrawStop \/ QueueOff \/ QueueIsOff
        \/ WriteStopped \/ SaveReceipt

\* The process exits, throws or is killed; systemd runs ExecStopPost.  The
\* control socket is closed: a waiting client has no outcome.
OwnerEnds ==
    /\ ~At("off")
    /\ owner' = [owner EXCEPT !.pc = "off"]
    /\ unit' = [unit EXCEPT !.st = "stop_post"]
    /\ requests' = <<>>
    /\ client' = IF client.pc \in {"sent", "served"} THEN Ends("incomplete") ELSE client
    /\ UNCHANGED <<env, files, helper, tk>>

-----------------------------------------------------------------------------
(* The takeover of an invocation: maintain(taking_over), reconcile().        *)

TkQuiet == UNCHANGED <<env, owner, requests, client>>

\* The takeover ends: the unit is inactive and may be started again.
TkEnds(failed) ==
    /\ tk' = "off"
    /\ unit' = [unit EXCEPT !.st = "inactive", !.failed = @ \/ failed]

TkStart ==
    /\ unit.st = "stop_post" /\ tk = "off"
    /\ tk' = "check"
    /\ TkQuiet /\ UNCHANGED <<files, unit, helper>>

\* This invocation saved its receipt, and there is a journal.
OfRecord == invocation # NoFile /\ invocation.id = unit.inv /\ journal # NoFile

\* The takeover will accept this invocation.
Supervised == OfRecord /\ journal.epoch = invocation.epoch

\* Nothing to do for an invocation that never became the owner of record.
TkSkips ==
    /\ tk = "check" /\ ~OfRecord
    /\ TkEnds(FALSE)
    /\ TkQuiet /\ UNCHANGED <<files, helper>>

TkAccepts ==
    /\ tk = "check" /\ Supervised
    /\ tk' = "waiting"
    /\ TkQuiet /\ UNCHANGED <<files, unit, helper>>

TkAcquire ==
    /\ tk = "waiting" /\ FenceFree
    /\ tk' = "read"
    /\ TkQuiet /\ UNCHANGED <<files, unit, helper>>

\* An explicit stop is preserved, on evidence that it is this journal's.
TkPreserves ==
    /\ tk = "read" /\ journal.phase = "safe_stopped" /\ receipt # NoFile
    /\ TkEnds(~(receipt = journal /\ ~map.open /\ ~map.queue))
    /\ TkQuiet /\ UNCHANGED <<files, helper>>

TkDisables ==
    /\ tk = "read" /\ (journal.phase # "safe_stopped" \/ receipt = NoFile)
    /\ tk' = "message" /\ Spawn("takeover", "off")
    /\ TkQuiet /\ UNCHANGED <<files, unit>>

TkReap ==
    /\ tk = "message"
    /\ \/ helper["takeover"] = "ok" /\ tk' = "finish" /\ UNCHANGED unit
       \/ helper["takeover"] = "error" /\ TkEnds(TRUE)
    /\ TkQuiet /\ UNCHANGED <<files, helper>>

TkFinish ==
    /\ tk = "finish"
    /\ journal' = [journal EXCEPT !.epoch = TakeoverEpoch, !.phase = "interrupted"]
    /\ TkEnds(FALSE)
    /\ TkQuiet /\ UNCHANGED <<receipt, invocation, helper>>

\* It throws, or systemd kills it after TimeoutStopSec; its helper lives on.
TkFails ==
    /\ tk # "off" /\ TkEnds(TRUE)
    /\ TkQuiet /\ UNCHANGED <<files, helper>>

TakeoverStep == TkStart \/ TkSkips \/ TkAccepts \/ TkAcquire \/ TkPreserves
                \/ TkDisables \/ TkReap \/ TkFinish

-----------------------------------------------------------------------------
(* The stop client: stop_data().                                             *)

ClientQuiet == UNCHANGED <<env, files, unit, owner, helper, tk>>

\* The client takes the fence itself when it is free; otherwise it reads the
\* epoch of the journal and asks the owner.
CallStop ==
    /\ client.pc = "off" /\ client.calls < MaxStops
    /\ client' = [client EXCEPT
          !.pc = IF FenceFree THEN "verify" ELSE "read",
          !.epoch = IF journal = NoFile THEN 0 ELSE journal.epoch,
          !.calls = @ + 1, !.tries = 0, !.reply = "none"]
    /\ ClientQuiet /\ UNCHANGED requests

\* Wrong: the phase of the journal is taken for the whole evidence.
StoppedNow_NoReceipt ==
    /\ journal # NoFile /\ journal.phase = "safe_stopped"
    /\ owner.pc = "off" /\ tk = "off"
    /\ Idle(journal.stopped_instance, FALSE)

\* stopped_now(), with the fence held: the receipt is valid, no process is left
\* in the owner's control group and the map is idle.
StoppedNow ==
    /\ StoppedOnFile
    /\ owner.pc = "off" /\ tk = "off"
    /\ Idle(journal.stopped_instance, FALSE)

Verify ==
    /\ client.pc = "verify"
    /\ client' = IF StoppedNow THEN [Ends("stopped") EXCEPT !.epoch = journal.epoch]
                  ELSE Ends("incomplete")
    /\ ClientQuiet /\ UNCHANGED requests

\* The control socket exists once the owner has opened its journal.
Listening ==
    \/ owner.pc \in {"confirm", "ready", "recovering", "stopping", "disabling",
                     "stopped_journal", "stop_receipt", "stopped"}
    \/ owner.mode = "first" /\ owner.pc \in {"enable", "enabling"}

\* The peer of the socket must be the process the journal names.
Connect ==
    /\ client.pc = "read"
    /\ IF Listening /\ client.epoch = unit.inv
         THEN client' = [client EXCEPT !.pc = "sent"] /\ requests' = Append(requests, "live")
         ELSE client' = Ends("incomplete") /\ UNCHANGED requests
    /\ ClientQuiet

\* Its patience ends; the request stays in the socket.
GiveUp ==
    /\ client.pc \in {"sent", "served", "confirm"}
    /\ client' = Ends("incomplete")
    /\ requests' = [k \in DOMAIN requests |-> "abandoned"]
    /\ ClientQuiet

\* The owner promised to stop: wait for its fence, verify, try again.
TakeFence ==
    /\ client.pc = "confirm" /\ FenceFree /\ client.tries < MaxConfirms
    /\ client' = [client EXCEPT !.pc = "reverify", !.tries = @ + 1]
    /\ ClientQuiet /\ UNCHANGED requests
Reverify ==
    /\ client.pc = "reverify"
    /\ client' = IF StoppedNow THEN [Ends("stopped") EXCEPT !.epoch = journal.epoch]
                  ELSE [client EXCEPT !.pc = "confirm"]
    /\ ClientQuiet /\ UNCHANGED requests

Client == CallStop \/ Verify \/ Connect \/ GiveUp \/ TakeFence \/ Reverify

-----------------------------------------------------------------------------
Next == \/ Environment \/ StartUnit \/ Start \/ Recovering \/ Recovered \/ Stop
        \/ OwnerEnds \/ TakeoverStep \/ TkFails \/ Client
        \/ \E r \in Role : HelperExits(r)

Spec == Init /\ [][Next]_vars

\* begin_rearm(): "Both the new journal and its systemd invocation are durable
\* before ON."  Whenever the map queues, or a helper is about to make it queue, a
\* takeover that will turn queueing off is still to come, unless one has failed.
QueueOnCovered ==
    map.queue \/ (\E r \in Role : helper[r] = "on") =>
        unit.failed \/ (unit.st # "inactive" /\ Supervised)

\* A refused stop leaves the owner as it was: a ready owner's map queues, its
\* journal is that of a running owner and its takeover is bound to it.
RefusedStopKeepsOwner ==
    owner.pc = "ready" => map.queue /\ Supervised /\ journal.phase \in LivePhase

\* "stopped" is true when the client says it and stays true as long as the journal
\* is the one it was said of: no owner beyond the checks of a rearm, no queueing,
\* and the authorization to rearm is on file.
StoppedIsTrue ==
    client.reply = "stopped" /\ journal.epoch = client.epoch =>
        /\ StoppedOnFile /\ ~map.queue
        /\ owner.pc \in {"off", "lock", "begin", "archive", "rearm_intent"}
        /\ \A r \in Role : helper[r] # "on"

\* A completed stop is only ever given up by an owner that rearms: takeovers,
\* failed starts and crashes all leave the journal and its receipt in place.
SafeStopPreserved ==
    [][StoppedOnFile => StoppedOnFile' \/ owner.pc = "rearm_intent"]_vars

\* Threads, helpers and processes are scheduled and ExecStopPost runs.  The
\* client holds the fence for an instant only and tries at most MaxConfirms times.
FairSpec ==
    /\ Spec
    /\ WF_vars(TakeoverStep) /\ WF_vars(\E r \in Role : HelperExits(r))
    /\ WF_vars(Verify \/ Reverify \/ GiveUp)

\* The end of an owner is always followed by the end of its takeover, after which
\* the map does not queue (or the takeover has failed).
TakeoverEnds == unit.st = "stop_post" ~> unit.st = "inactive" /\ (unit.failed \/ ~map.queue)
=============================================================================
