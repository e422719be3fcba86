------------------------ MODULE DataLifecycle_proofs ------------------------
(***************************************************************************)
(* Proofs about the life cycle of a data owner, for any number of              *)
(* invocations, disks and stop commands.                                        *)
(*                                                                         *)
(* The files are written one after the other, so no single one says that a      *)
(* takeover will act: the invariant says which of them are of the current       *)
(* invocation at each step of the owner (OwnerOK), that an epoch is never used  *)
(* twice (FilesOK), and what the fence keeps apart (FenceOK).                   *)
(***************************************************************************)
EXTENDS DataLifecycle, TLAPS

\* The owner before its first write, and the owner of record.
Pre     == {"lock", "begin", "archive", "rearm_intent"}
OfOwner == /\ journal # NoFile /\ invocation # NoFile
           /\ invocation.id = unit.inv /\ invocation.epoch = unit.inv /\ journal.epoch = unit.inv

UnitOK ==
    /\ owner.pc # "off" <=> unit.st = "running"
    /\ tk # "off" => unit.st = "stop_post"
    /\ owner.pc # "off" => unit.inv # 0

OwnerHolds  == owner.pc \notin {"off", "lock"}
TkHolds     == tk \in {"read", "message", "finish"}
ClientHolds == client.pc \in {"verify", "reverify"}

\* The fence has one holder; a helper runs for it, or after the process that started it.
FenceOK ==
    /\ ~(OwnerHolds /\ ClientHolds) /\ ~(TkHolds /\ ClientHolds)
    /\ ClientHolds => \A r \in Role : ~HelperRuns(r)
    /\ OwnerHolds \/ HelperRuns("owner") => ~HelperRuns("takeover") /\ ~TkHolds
    /\ OwnerHolds /\ HelperRuns("owner") => owner.pc \in {"enabling", "disabling"}
    /\ TkHolds /\ HelperRuns("takeover") => tk = "message"
    /\ helper["takeover"] # "on"
    /\ helper["owner"] = "on" => owner.pc \in {"enabling", "lock", "off"}

\* Epochs grow with the invocations.
FilesOK ==
    /\ invocation # NoFile => /\ invocation.id <= unit.inv
                              /\ owner.pc \in Pre \cup {"invocation"} => invocation.id < unit.inv
    /\ journal # NoFile => journal.epoch <= unit.inv
    /\ journal # NoFile /\ journal.phase = "safe_stopped" => journal.epoch # 0
    /\ client.reply = "stopped" => /\ journal # NoFile
                                   /\ client.epoch # 0 /\ client.epoch <= unit.inv
                                   /\ owner.pc \in Pre => client.epoch < unit.inv

\* What the owner has on file at each step of its start and its stop.
OwnerOK ==
    /\ owner.pc = "invocation" => IF owner.mode = "first" THEN journal = NoFile
            ELSE journal # NoFile /\ journal.epoch = unit.inv /\ journal.phase = "rearm_intent"
    /\ owner.pc = "journal" /\ owner.mode = "first" =>
            /\ journal = NoFile /\ invocation # NoFile
            /\ invocation.id = unit.inv /\ invocation.epoch = unit.inv
    /\ owner.pc = "journal" /\ owner.mode = "rearm" => map.queue
    /\ \/ owner.pc \in {"off", "invocation"} \cup Pre
       \/ owner.pc = "journal" /\ owner.mode = "first"
       \/ OfOwner
    /\ owner.pc \in {"confirm", "ready", "recovering", "stopping"} => map.queue
    /\ owner.pc \in {"recheck", "enabling", "journal"} /\ owner.mode = "rearm" =>
            journal.phase = "rearm_intent"
    /\ owner.pc \in {"enable", "enabling"} /\ owner.mode = "first" => journal.phase = "idle"
    /\ owner.pc \in {"archive", "rearm_intent"} => owner.mode = "rearm"
    /\ owner.pc = "enable" => owner.mode = "first"
    /\ owner.pc = "recheck" => owner.mode = "rearm"
    /\ owner.pc \in {"confirm", "ready"} => journal.phase \in LivePhase
    /\ owner.pc = "recovering" => journal.phase = "waiting"
    /\ owner.pc \in {"stopping", "disabling", "stopped_journal"} =>
            journal.phase = "safe_stop_intent" /\ owner.previous \in LivePhase
    /\ owner.pc \in {"stop_receipt", "stopped"} => journal.phase = "safe_stopped"

\* What the takeover knows at each of its steps.
TkOK ==
    /\ tk \in {"waiting", "read", "message", "finish"} => journal # NoFile
    /\ tk \in {"message", "finish"} => journal.phase # "safe_stopped" \/ receipt = NoFile
    /\ tk = "finish" \/ (tk = "message" /\ helper["takeover"] = "ok") => ~map.queue

LInv == TypeOK /\ UnitOK /\ FenceOK /\ FilesOK /\ OwnerOK /\ TkOK
        /\ QueueOnCovered /\ StoppedIsTrue

-----------------------------------------------------------------------------
(* Types.                                                                    *)

LEMMA Bounds == /\ MaxStarts \in Nat /\ MaxStarts # 0 /\ MaxDisks \in Nat /\ MaxDisks # 0
                /\ MaxStops \in Nat /\ MaxConfirms \in Nat
BY BoundsAssumption

LEMMA Types ==
  ASSUME LInv
  PROVE  /\ map \in MapRecord /\ disk \in DiskRecord /\ unit \in UnitRecord
         /\ owner \in OwnerRecord /\ client \in ClientRecord
         /\ journal # NoFile => journal \in JournalRecord
         /\ invocation # NoFile => invocation \in InvocationRecord
         /\ helper \in [Role -> {"none", "on", "off", "ok", "error"}]
         /\ "owner" \in Role /\ "takeover" \in Role /\ \A r \in Role : r = "owner" \/ r = "takeover"
         /\ unit.inv \in Nat /\ unit.inv \in Epoch
BY Bounds DEF LInv, TypeOK, Role, UnitRecord, Epoch

LEMMA Replies ==
  ASSUME LInv, NEW r \in {"stopped", "blocked", "incomplete"}, NEW pc \in ClientPc
  PROVE  /\ Ends(r) \in ClientRecord /\ Ends(r).reply = r /\ Ends(r).pc = "off"
         /\ [client EXCEPT !.pc = pc] \in ClientRecord
         /\ [client EXCEPT !.pc = pc].reply = client.reply
         /\ [client EXCEPT !.pc = pc].epoch = client.epoch
         /\ [client EXCEPT !.pc = pc].pc = pc
BY Types DEF ClientRecord, ClientPc, Ends

LEMMA OwnerMoves ==
  ASSUME LInv, NEW pc \in OwnerPc
  PROVE  LET o == [owner EXCEPT !.pc = pc]
         IN  o \in OwnerRecord /\ o.pc = pc /\ o.mode = owner.mode /\ o.previous = owner.previous
BY Types DEF OwnerRecord

LEMMA JournalMoves ==
  ASSUME LInv, journal # NoFile, NEW phase \in Phase
  PROVE  LET j == [journal EXCEPT !.phase = phase]
         IN  j \in JournalRecord /\ j # NoFile /\ j.phase = phase /\ j.epoch = journal.epoch
BY Types, NoFileAssumption DEF JournalRecord

\* An owner opens a new journal of its invocation.
LEMMA NewJournal ==
  ASSUME LInv, NEW phase \in Phase
  PROVE  LET j == [epoch |-> unit.inv, phase |-> phase, stopped_instance |-> 0]
         IN  j \in JournalRecord /\ j # NoFile /\ j.phase = phase /\ j.epoch = unit.inv
BY Types, Bounds, NoFileAssumption DEF JournalRecord, Epoch

-----------------------------------------------------------------------------
(* Steps that write no file.                                                 *)

LEMMA EnvironmentOK == ASSUME LInv, Environment PROVE LInv'
<1>1. /\ UNCHANGED <<journal, receipt, invocation, unit, owner, helper, requests, tk, client>>
      /\ map' \in MapRecord /\ map'.queue = map.queue /\ disk' \in DiskRecord
  <2>1. /\ UNCHANGED <<journal, receipt, invocation, unit, owner, helper, requests, tk, client>>
        /\ OpenOrClose \/ Unplug \/ Replug
    BY DEF Environment, files
  <2>2. CASE OpenOrClose  BY <2>1, <2>2, Types DEF OpenOrClose, MapRecord
  <2>3. CASE Unplug  BY <2>1, <2>3, Types DEF Unplug, DiskRecord
  <2>4. CASE Replug
    <3>1. disk.seq + 1 \in Disks  BY <2>4, Types, Bounds DEF Replug, DiskRecord, Disks
    <3> QED  BY <2>1, <2>4, <3>1, Types DEF Replug, DiskRecord
  <2> QED  BY <2>1, <2>2, <2>3, <2>4
<1>2. TypeOK'  BY <1>1 DEF LInv, TypeOK
<1>3. UnitOK' /\ FenceOK' /\ FilesOK' /\ OwnerOK' /\ TkOK'
  BY <1>1 DEF LInv, UnitOK, FenceOK, FilesOK, OwnerOK, TkOK, OfOwner, OwnerHolds, TkHolds,
     ClientHolds, HelperRuns
<1>4. QueueOnCovered' /\ StoppedIsTrue'
  BY <1>1 DEF LInv, QueueOnCovered, StoppedIsTrue, Supervised, OfRecord, StoppedOnFile
<1> QED  BY <1>2, <1>3, <1>4 DEF LInv

\* A helper of the fence's holder, or one that outlived it, ends.
LEMMA HelperExitsOK == ASSUME LInv, NEW r \in Role, HelperExits(r) PROVE LInv'
<1>1. /\ UNCHANGED <<disk, journal, receipt, invocation, unit, owner, requests, tk, client>>
      /\ HelperRuns(r) /\ map' \in MapRecord
      /\ helper' \in [Role -> {"none", "on", "off", "ok", "error"}]
      /\ helper'[r] \in {"ok", "error"} /\ \A s \in Role : s # r => helper'[s] = helper[s]
      /\ map'.queue = map.queue \/ map'.queue = (helper[r] = "on")
      /\ helper'[r] = "ok" => map'.queue = (helper[r] = "on")
  BY Types DEF HelperExits, files, HelperRuns, Spawn, MapRecord
<1>2. helper[r] = "on" => r = "owner"  BY Types DEF LInv, FenceOK
<1>3. TypeOK'  BY <1>1 DEF LInv, TypeOK
<1>4. UnitOK' /\ FilesOK'  BY <1>1 DEF LInv, UnitOK, FilesOK
<1>5. FenceOK'
  BY <1>1, Types DEF LInv, FenceOK, OwnerHolds, TkHolds, ClientHolds, HelperRuns
<1>6. OwnerOK'
  <2>1. owner.pc \in {"journal", "confirm", "ready", "recovering", "stopping"} => map'.queue = map.queue
    BY <1>1, Types DEF LInv, FenceOK, OwnerHolds
  <2> QED  BY <1>1, <2>1 DEF LInv, OwnerOK, OfOwner
<1>7. TkOK'
  BY <1>1, Types DEF LInv, TkOK, FenceOK, TkHolds, HelperRuns
<1>8. QueueOnCovered'
  <2>1. map'.queue \/ (\E s \in Role : helper'[s] = "on") =>
          map.queue \/ (\E s \in Role : helper[s] = "on")
    BY <1>1 DEF HelperRuns
  <2> QED  BY <1>1, <2>1 DEF LInv, QueueOnCovered, Supervised, OfRecord
<1>9. StoppedIsTrue'
  BY <1>1 DEF LInv, StoppedIsTrue, StoppedOnFile, HelperRuns
<1> QED  BY <1>3, <1>4, <1>5, <1>6, <1>7, <1>8, <1>9 DEF LInv

\* systemctl start: the invocation is new, so no file is of it and no stop was said of it.
LEMMA StartUnitOK == ASSUME LInv, StartUnit PROVE LInv'
<1>1. /\ UNCHANGED <<map, disk, journal, receipt, invocation, requests, tk, client>>
      /\ unit.st = "inactive" /\ owner.pc = "off" /\ tk = "off"
      /\ unit'.inv = unit.inv + 1 /\ unit'.st = "running" /\ unit'.failed = unit.failed
      /\ unit' \in UnitRecord /\ owner' \in OwnerRecord /\ owner'.pc = "lock"
  <2>1. unit.inv + 1 \in 0 .. MaxStarts  BY Types, Bounds DEF StartUnit, UnitRecord
  <2>2. unit' = [unit EXCEPT !.inv = unit.inv + 1, !.st = "running"]  BY DEF StartUnit
  <2>3. owner' \in OwnerRecord /\ owner'.pc = "lock"
    BY Types, Bounds DEF StartUnit, OwnerRecord, OwnerPc, Phase, LivePhase
  <2> QED  BY <2>1, <2>2, <2>3, Types DEF StartUnit, UnitRecord, files, env, LInv, UnitOK
<1>2. /\ helper' \in [Role -> {"none", "on", "off", "ok", "error"}]
      /\ helper'["takeover"] = helper["takeover"]
      /\ \/ helper'["owner"] = helper["owner"]
         \/ ~HelperRuns("owner") /\ helper'["owner"] = "none"
  BY Types DEF StartUnit, HelperRuns
<1>3. TypeOK'  BY <1>1, <1>2 DEF LInv, TypeOK
<1>4. UnitOK' /\ OwnerOK' /\ TkOK'
  BY <1>1, <1>2, Types DEF LInv, UnitOK, OwnerOK, TkOK, OfOwner, Pre
<1>5. FenceOK'
  BY <1>1, <1>2, Types DEF LInv, FenceOK, OwnerHolds, TkHolds, ClientHolds, HelperRuns
<1>6. FilesOK'
  BY <1>1, Types DEF LInv, FilesOK, Pre, InvocationRecord, JournalRecord, ClientRecord, Epoch
<1>7. QueueOnCovered'
  BY <1>1, <1>2, Types DEF LInv, QueueOnCovered, Supervised, OfRecord, HelperRuns
<1>8. StoppedIsTrue'
  BY <1>1, <1>2, Types DEF LInv, StoppedIsTrue, StoppedOnFile, HelperRuns
<1> QED  BY <1>3, <1>4, <1>5, <1>6, <1>7, <1>8 DEF LInv

\* The owner moves on and nothing else changes.
LEMMA OwnerFrame ==
  ASSUME LInv, UNCHANGED <<env, files, unit, helper, requests, tk, client>>,
         owner' \in OwnerRecord, owner.pc # "off", owner'.pc # "off",
         owner'.mode = owner.mode, owner'.previous = owner.previous,
         ~(OwnerHolds' /\ ~OwnerHolds) \/ FenceFree,
         OwnerHolds' /\ HelperRuns("owner") => owner'.pc \in {"enabling", "disabling"},
         helper["owner"] = "on" => owner'.pc \in {"enabling", "lock"},
         owner'.pc \in Pre \cup {"invocation"} => owner.pc \in Pre \cup {"invocation"},
         owner'.pc \in Pre => owner.pc \in Pre,
         OwnerOK',
         StoppedOnFile /\ owner.pc \in Pre => owner'.pc \in Pre \cup {"off"}
  PROVE  LInv'
<1>1. UNCHANGED <<map, disk, journal, receipt, invocation>>  BY DEF env, files
<1>2. TypeOK'  BY <1>1 DEF LInv, TypeOK
<1>3. UnitOK' /\ TkOK'  BY <1>1 DEF LInv, UnitOK, TkOK
<1>4. FenceOK'
  BY <1>1, Types DEF LInv, FenceOK, FenceFree, OwnerHolds, TkHolds, ClientHolds, HelperRuns
<1>5. FilesOK'  BY <1>1 DEF LInv, FilesOK, Pre
<1>6. QueueOnCovered'  BY <1>1 DEF LInv, QueueOnCovered, Supervised, OfRecord
<1>7. StoppedIsTrue'  BY <1>1 DEF LInv, StoppedIsTrue, StoppedOnFile, Pre
<1> QED  BY <1>2, <1>3, <1>4, <1>5, <1>6, <1>7 DEF LInv

LEMMA OwnerLocksOK == ASSUME LInv, OwnerLocks PROVE LInv'
<1>1. /\ UNCHANGED <<env, files, unit, helper, requests, tk, client>> /\ owner.pc = "lock"
      /\ owner' = [owner EXCEPT !.pc = "begin"] /\ FenceFree
  BY DEF OwnerLocks, OwnerQuiet, At, Becomes
<1>2. /\ owner' \in OwnerRecord /\ owner'.pc = "begin" /\ owner'.mode = owner.mode
      /\ owner'.previous = owner.previous
  BY <1>1, OwnerMoves DEF OwnerPc
<1>3. OwnerOK'  BY <1>2 DEF OwnerOK, Pre
<1>4. ~HelperRuns("owner") /\ helper["owner"] # "on"  BY <1>1, Types DEF FenceFree, HelperRuns
<1> QED  BY <1>1, <1>2, <1>3, <1>4, OwnerFrame DEF Pre

\* The checks before the first write: the map does not queue for this owner yet.
LEMMA AdmitsOK == ASSUME LInv, FirstAdmits \/ RearmAdmits \/ SaveArchive PROVE LInv'
<1>1. /\ UNCHANGED <<env, files, unit, helper, requests, tk, client>>
      /\ owner.pc \in {"begin", "archive"}
      /\ owner'.mode = owner.mode /\ owner'.previous = owner.previous
      /\ \/ journal = NoFile /\ owner'.pc = "invocation" /\ owner.mode = "first"
         \/ owner'.pc \in {"archive", "rearm_intent"} /\ owner.mode = "rearm"
      /\ owner' \in OwnerRecord
  <2>1. CASE FirstAdmits
    <3>1. owner' = [owner EXCEPT !.pc = "invocation", !.inst = disk.seq] /\ disk.seq \in 0 .. MaxDisks
      BY <2>1, Types, Bounds DEF FirstAdmits, DiskRecord, Disks
    <3> QED  BY <2>1, <3>1, Types DEF FirstAdmits, At, OwnerQuiet, OwnerRecord, OwnerPc, files
  <2>2. CASE RearmAdmits
    <3>1. journal \in JournalRecord  BY <2>2, Types DEF RearmAdmits, StoppedOnFile
    <3>2. owner' = [owner EXCEPT !.pc = "archive", !.inst = journal.stopped_instance]
      BY <2>2 DEF RearmAdmits
    <3> QED
      BY <2>2, <3>1, <3>2, Types DEF RearmAdmits, At, OwnerQuiet, OwnerRecord, OwnerPc, files,
         JournalRecord
  <2>3. CASE SaveArchive
    BY <2>3, Types DEF SaveArchive, At, Becomes, OwnerQuiet, OwnerRecord, OwnerPc, files, LInv, OwnerOK
  <2> QED  BY <2>1, <2>2, <2>3
<1>2. OwnerOK'  BY <1>1 DEF OwnerOK, Pre, files
<1>3. ~HelperRuns("owner") /\ helper["owner"] # "on"
  BY <1>1 DEF LInv, FenceOK, OwnerHolds, HelperRuns
<1>4. StoppedOnFile /\ owner.pc \in Pre => owner'.pc \in Pre
  BY <1>1 DEF StoppedOnFile, Pre
<1> QED  BY <1>1, <1>2, <1>3, <1>4, OwnerFrame DEF Pre, OwnerHolds

LEMMA QueueIsOnOK == ASSUME LInv, QueueIsOn \/ Confirm PROVE LInv'
<1>1. /\ UNCHANGED <<env, files, unit, helper, requests, tk, client>>
      /\ \/ owner.pc = "enabling" /\ map.queue /\ helper["owner"] = "ok"
            /\ owner'.pc = (IF owner.mode = "first" THEN "confirm" ELSE "journal")
         \/ owner.pc = "confirm" /\ owner'.pc = "ready"
      /\ owner' \in OwnerRecord /\ owner'.mode = owner.mode /\ owner'.previous = owner.previous
  BY Types DEF QueueIsOn, Confirm, At, Becomes, Idle, OwnerQuiet, OwnerRecord, OwnerPc
<1>2. OwnerOK'
  BY <1>1, Types DEF LInv, OwnerOK, OfOwner, Pre, env, files, LivePhase, OwnerRecord
<1>3. ~HelperRuns("owner") /\ helper["owner"] # "on"
  BY <1>1 DEF LInv, FenceOK, OwnerHolds, HelperRuns
<1> QED  BY <1>1, <1>2, <1>3, OwnerFrame DEF Pre, OwnerHolds

\* Queueing goes on only when journal and invocation are this owner's.
LEMMA QueueOnOK == ASSUME LInv, QueueOn PROVE LInv'
<1>1. /\ UNCHANGED <<map, disk, journal, receipt, invocation, unit, requests, tk, client>>
      /\ owner.pc = "enable" \/ owner.pc = "recheck"
      /\ helper' = [helper EXCEPT !["owner"] = "on"]
      /\ owner' = [owner EXCEPT !.pc = "enabling"]
  BY DEF QueueOn, OwnerQuiet, At, Becomes, Spawn, files, env
<1>2. /\ owner' \in OwnerRecord /\ owner'.pc = "enabling" /\ owner'.mode = owner.mode
      /\ owner'.previous = owner.previous
  BY <1>1, OwnerMoves DEF OwnerPc
<1>3. /\ helper' \in [Role -> {"none", "on", "off", "ok", "error"}]
      /\ helper'["owner"] = "on" /\ helper'["takeover"] = helper["takeover"]
  BY <1>1, Types
<1>4. OfOwner /\ owner.mode \in {"first", "rearm"}
  BY <1>1, Types DEF LInv, OwnerOK, Pre, OwnerRecord
<1>5. TypeOK'  BY <1>1, <1>2, <1>3 DEF LInv, TypeOK
<1>6. UnitOK' /\ FilesOK' /\ TkOK'
  BY <1>1, <1>2, <1>3 DEF LInv, UnitOK, FilesOK, Pre, TkOK
<1>7. FenceOK'
  BY <1>1, <1>2, <1>3, Types DEF LInv, FenceOK, OwnerHolds, TkHolds, ClientHolds, HelperRuns
<1>8. OwnerOK'  BY <1>1, <1>2, <1>4 DEF LInv, OwnerOK, OfOwner, Pre
<1>9. QueueOnCovered'
  BY <1>1, <1>4 DEF LInv, QueueOnCovered, Supervised, OfRecord, OfOwner, UnitOK
<1>10. StoppedIsTrue'
  BY <1>1, <1>2 DEF LInv, StoppedIsTrue
<1> QED  BY <1>5, <1>6, <1>7, <1>8, <1>9, <1>10 DEF LInv

-----------------------------------------------------------------------------
(* The files of a new owner, one after the other.                            *)

\* From its intent on, the journal is the new owner's: nobody was told it had stopped.
LEMMA RearmIntentOK == ASSUME LInv, RearmIntent PROVE LInv'
<1> DEFINE j == [epoch |-> unit.inv, phase |-> "rearm_intent", stopped_instance |-> 0]
<1>1. /\ UNCHANGED <<map, disk, receipt, invocation, unit, helper, requests, tk, client>>
      /\ owner.pc = "rearm_intent" /\ owner' = [owner EXCEPT !.pc = "invocation"] /\ journal' = j
  BY DEF RearmIntent, OwnerQuiet, At, Becomes, env
<1>2. /\ owner' \in OwnerRecord /\ owner'.pc = "invocation" /\ owner'.mode = owner.mode
      /\ owner'.previous = owner.previous
  BY <1>1, OwnerMoves DEF OwnerPc
<1>3. j \in JournalRecord /\ j # NoFile /\ j.phase = "rearm_intent" /\ j.epoch = unit.inv
  BY NewJournal DEF Phase
<1> HIDE DEF j
<1>4. TypeOK'  BY <1>1, <1>2, <1>3 DEF LInv, TypeOK
<1>5. UnitOK'  BY <1>1, <1>2 DEF LInv, UnitOK
<1>6. FenceOK'
  BY <1>1, <1>2, Types DEF LInv, FenceOK, OwnerHolds, TkHolds, ClientHolds, HelperRuns
<1>7. FilesOK'
  BY <1>1, <1>2, <1>3, Types DEF LInv, FilesOK, UnitOK, Pre
<1>8. OwnerOK'
  <2>1. owner.mode = "rearm"  BY <1>1 DEF LInv, OwnerOK
  <2> QED  BY <1>1, <1>2, <1>3, <2>1 DEF OwnerOK
<1>9. TkOK'  BY <1>1 DEF LInv, TkOK, UnitOK
<1>10. QueueOnCovered'
  <2>1. ~Supervised
    BY <1>1, Types DEF LInv, FilesOK, Pre, Supervised, OfRecord, InvocationRecord
  <2> QED  BY <1>1, <2>1 DEF LInv, QueueOnCovered
<1>11. StoppedIsTrue'
  <2>1. client.reply = "stopped" => client.epoch # unit.inv
    BY <1>1, Types DEF LInv, FilesOK, Pre, ClientRecord, Epoch
  <2> QED  BY <1>1, <1>3, <2>1 DEF StoppedIsTrue
<1> QED  BY <1>4, <1>5, <1>6, <1>7, <1>8, <1>9, <1>10, <1>11 DEF LInv

LEMMA SaveInvocationOK == ASSUME LInv, SaveInvocation PROVE LInv'
<1> DEFINE v == [id |-> unit.inv, epoch |-> unit.inv]
<1>1. /\ UNCHANGED <<map, disk, journal, receipt, unit, helper, requests, tk, client>>
      /\ owner.pc = "invocation" /\ invocation' = v
      /\ owner' = [owner EXCEPT !.pc = IF owner.mode = "first" THEN "journal" ELSE "recheck"]
  BY DEF SaveInvocation, OwnerQuiet, At, Becomes, env
<1>2. /\ owner' \in OwnerRecord /\ owner'.mode = owner.mode /\ owner'.previous = owner.previous
      /\ owner'.pc = IF owner.mode = "first" THEN "journal" ELSE "recheck"
      /\ owner.mode \in {"first", "rearm"}
  BY <1>1, OwnerMoves, Types DEF OwnerPc, OwnerRecord
<1>3. v \in InvocationRecord /\ v # NoFile /\ v.id = unit.inv /\ v.epoch = unit.inv
  <2>1. unit.inv \in 1 .. MaxStarts
    BY <1>1, Types, Bounds DEF LInv, UnitOK, Epoch
  <2> QED  BY <2>1, Types, NoFileAssumption DEF InvocationRecord
<1> HIDE DEF v
<1>4. TypeOK'  BY <1>1, <1>2, <1>3 DEF LInv, TypeOK
<1>5. UnitOK' /\ TkOK'  BY <1>1, <1>2 DEF LInv, UnitOK, TkOK
<1>6. FenceOK'
  BY <1>1, <1>2, Types DEF LInv, FenceOK, OwnerHolds, TkHolds, ClientHolds, HelperRuns
<1>7. FilesOK'  BY <1>1, <1>2, <1>3, Types DEF LInv, FilesOK, Pre
<1>8. OwnerOK'
  BY <1>1, <1>2, <1>3 DEF LInv, OwnerOK, OfOwner, Pre
<1>9. QueueOnCovered'
  <2>1. ~Supervised
    BY <1>1, Types DEF LInv, FilesOK, Pre, Supervised, OfRecord, InvocationRecord
  <2> QED  BY <1>1, <2>1 DEF LInv, QueueOnCovered
<1>10. StoppedIsTrue'  BY <1>1, <1>2 DEF LInv, StoppedIsTrue
<1> QED  BY <1>4, <1>5, <1>6, <1>7, <1>8, <1>9, <1>10 DEF LInv

\* The owner of record changes its journal, its receipt or the state of the map.
LEMMA RecordFrame ==
  ASSUME LInv, OfOwner, owner.pc \notin {"off", "invocation"} \cup Pre,
         UNCHANGED <<env, invocation, unit, tk>>,
         journal' \in JournalRecord, journal' # NoFile, journal'.epoch = journal.epoch,
         receipt' = receipt \/ receipt' \in JournalRecord,
         owner' \in OwnerRecord, owner'.pc \notin {"off", "invocation"} \cup Pre, OwnerOK',
         helper' \in [Role -> {"none", "on", "off", "ok", "error"}],
         helper'["takeover"] = helper["takeover"],
         helper'["owner"] = "on" => helper["owner"] = "on" /\ owner'.pc = "enabling",
         helper'["owner"] = "off" => owner'.pc = "disabling",
         requests' \in Seq({"live", "abandoned"}), client' \in ClientRecord,
         client'.pc \notin {"verify", "reverify"} \/ client'.pc = client.pc,
         client'.reply = "stopped" => client.reply = "stopped" /\ client'.epoch = client.epoch
  PROVE  LInv'
<1>1. UNCHANGED <<map, disk>> /\ OwnerHolds /\ OwnerHolds'  BY DEF env, OwnerHolds, Pre
<1>2. TypeOK'  BY <1>1 DEF LInv, TypeOK
<1>3. UnitOK' /\ TkOK' /\ tk = "off"  BY DEF LInv, UnitOK, TkOK
<1>4. FenceOK'
  BY <1>1, <1>3, Types DEF LInv, FenceOK, OwnerHolds, TkHolds, ClientHolds, HelperRuns
<1>5. FilesOK'  BY <1>1 DEF LInv, FilesOK, UnitOK, OfOwner, Pre
<1>6. QueueOnCovered'
  BY <1>1 DEF QueueOnCovered, LInv, UnitOK, Supervised, OfRecord, OfOwner
<1>7. StoppedIsTrue'  BY <1>1 DEF LInv, StoppedIsTrue, Pre
<1> QED  BY <1>2, <1>3, <1>4, <1>5, <1>6, <1>7 DEF LInv

LEMMA OpenJournalOK == ASSUME LInv, OpenJournal PROVE LInv'
<1> DEFINE j == [epoch |-> unit.inv, phase |-> "idle", stopped_instance |-> 0]
<1>1. /\ UNCHANGED <<env, receipt, invocation, unit, helper, requests, tk, client>>
      /\ owner.pc = "journal" /\ journal' = j
      /\ owner' = [owner EXCEPT !.pc = IF owner.mode = "first" THEN "enable" ELSE "confirm"]
  BY DEF OpenJournal, OwnerQuiet, At, Becomes
<1>2. /\ owner' \in OwnerRecord /\ owner'.mode = owner.mode /\ owner'.previous = owner.previous
      /\ owner'.pc = IF owner.mode = "first" THEN "enable" ELSE "confirm"
      /\ owner.mode \in {"first", "rearm"}
  BY <1>1, OwnerMoves, Types DEF OwnerPc, OwnerRecord
<1>3. j \in JournalRecord /\ j # NoFile /\ j.phase = "idle" /\ j.epoch = unit.inv
  BY NewJournal DEF Phase, LivePhase
<1> HIDE DEF j
<1>4. OwnerOK'
  BY <1>1, <1>2, <1>3 DEF LInv, OwnerOK, OfOwner, Pre, LivePhase, env
<1>5. ~HelperRuns("owner") /\ helper["owner"] \notin {"on", "off"}
  BY <1>1 DEF LInv, FenceOK, OwnerHolds, HelperRuns
<1>6. requests \in Seq({"live", "abandoned"}) /\ client \in ClientRecord
  BY DEF LInv, TypeOK
<1>7. CASE owner.mode = "rearm"
  <2>1. OfOwner  BY <1>1, <1>7 DEF LInv, OwnerOK, Pre
  <2> QED
    BY <1>1, <1>2, <1>3, <1>4, <1>5, <1>6, <1>7, <2>1, Types, RecordFrame DEF Pre, OfOwner
<1>8. CASE owner.mode = "first"
  <2>1. journal = NoFile /\ invocation # NoFile /\ invocation.id = unit.inv /\ invocation.epoch = unit.inv
    BY <1>1, <1>8 DEF LInv, OwnerOK
  <2>2. client.reply # "stopped"  BY <2>1 DEF LInv, FilesOK
  <2>3. UNCHANGED <<map, disk>>  BY <1>1 DEF env
  <2>4. TypeOK'  BY <1>1, <1>2, <1>3, <2>3 DEF LInv, TypeOK
  <2>5. UnitOK' /\ TkOK'  BY <1>1, <1>2, <1>8 DEF LInv, UnitOK, TkOK
  <2>6. FenceOK'
    BY <1>1, <1>2, <1>5, <1>8, Types DEF LInv, FenceOK, OwnerHolds, TkHolds, ClientHolds, HelperRuns
  <2>7. FilesOK'
    BY <1>1, <1>2, <1>3, <1>8, <2>2, Types DEF LInv, FilesOK, Pre
  <2>8. QueueOnCovered'
    BY <1>1, <1>3, <2>1 DEF QueueOnCovered, LInv, UnitOK, Supervised, OfRecord
  <2>9. StoppedIsTrue'  BY <1>1, <2>2 DEF StoppedIsTrue
  <2> QED  BY <1>4, <2>4, <2>5, <2>6, <2>7, <2>8, <2>9 DEF LInv
<1> QED  BY <1>2, <1>7, <1>8

-----------------------------------------------------------------------------
(* Recovery and safe stop.                                                   *)

LEMMA OfRecordNow ==
  ASSUME LInv, owner.pc \in {"ready", "recovering", "stopping", "disabling", "stopped_journal",
                             "stop_receipt"}
  PROVE  /\ OfOwner /\ journal \in JournalRecord /\ owner.pc \notin {"off", "invocation"} \cup Pre
         /\ requests \in Seq({"live", "abandoned"}) /\ client \in ClientRecord
         /\ helper["owner"] = "on" => FALSE
         /\ owner.pc # "disabling" => helper["owner"] # "off"
BY Types DEF LInv, TypeOK, OwnerOK, OfOwner, Pre, FenceOK, OwnerHolds, HelperRuns

LEMMA RecoveryOK == ASSUME LInv, Recovering \/ Recovered PROVE LInv'
<1>1. /\ UNCHANGED <<env, receipt, invocation, unit, helper, requests, tk, client>>
      /\ \/ /\ owner.pc = "ready" /\ journal' = [journal EXCEPT !.phase = "waiting"]
            /\ owner' = [owner EXCEPT !.pc = "recovering"]
         \/ /\ owner.pc = "recovering" /\ journal' = [journal EXCEPT !.phase = "ready"]
            /\ owner' = [owner EXCEPT !.pc = "ready", !.inst = disk.seq]
  BY DEF Recovering, Recovered, OwnerQuiet, At, Becomes
<1>2. /\ owner' \in OwnerRecord /\ owner'.mode = owner.mode /\ owner'.previous = owner.previous
      /\ \/ owner.pc = "ready" /\ owner'.pc = "recovering"
         \/ owner.pc = "recovering" /\ owner'.pc = "ready"
  <2>1. disk.seq \in 0 .. MaxDisks  BY Types, Bounds DEF DiskRecord, Disks
  <2> QED  BY <1>1, <2>1, Types DEF OwnerRecord, OwnerPc
<1>3. /\ OfOwner /\ journal \in JournalRecord /\ owner.pc \notin {"off", "invocation"} \cup Pre
      /\ requests' \in Seq({"live", "abandoned"}) /\ client' \in ClientRecord
      /\ helper["owner"] \notin {"on", "off"}
  BY <1>1, OfRecordNow
<1>4. /\ journal' \in JournalRecord /\ journal' # NoFile /\ journal'.epoch = journal.epoch
      /\ journal'.phase = IF owner.pc = "ready" THEN "waiting" ELSE "ready"
  <2>1. journal # NoFile /\ "waiting" \in Phase /\ "ready" \in Phase
    BY <1>3 DEF OfOwner, Phase, LivePhase
  <2>2. CASE owner.pc = "ready"
    <3>1. journal' = [journal EXCEPT !.phase = "waiting"]  BY <1>1, <2>2
    <3> QED  BY <2>1, <2>2, <3>1, JournalMoves
  <2>3. CASE owner.pc = "recovering"
    <3>1. journal' = [journal EXCEPT !.phase = "ready"]  BY <1>1, <2>3
    <3> QED  BY <2>1, <2>3, <3>1, JournalMoves
  <2> QED  BY <1>2, <2>2, <2>3
<1>5. OwnerOK'
  BY <1>1, <1>2, <1>3, <1>4 DEF LInv, OwnerOK, OfOwner, LivePhase, env
<1> QED  BY <1>1, <1>2, <1>3, <1>4, <1>5, Types, RecordFrame DEF Pre

LEMMA RequestOK == ASSUME LInv, BeginStop \/ RefuseStop PROVE LInv'
<1>1. /\ UNCHANGED <<env, receipt, invocation, unit, helper, tk>> /\ requests # <<>>
      /\ requests' = Tail(requests)
      /\ client' \in {client, Ends("blocked"), [client EXCEPT !.pc = "served"]}
      /\ \/ /\ owner.pc \in {"ready", "recovering"} /\ UNCHANGED <<owner, journal>>
         \/ /\ owner.pc = "ready"
            /\ owner' = [owner EXCEPT !.pc = "stopping", !.previous = journal.phase]
            /\ journal' = [journal EXCEPT !.phase = "safe_stop_intent", !.stopped_instance = owner.inst]
  BY DEF BeginStop, RefuseStop, TakeRequest, At, files
<1>2. /\ OfOwner /\ journal \in JournalRecord /\ owner.pc \notin {"off", "invocation"} \cup Pre
      /\ requests \in Seq({"live", "abandoned"}) /\ client \in ClientRecord
      /\ helper["owner"] \notin {"on", "off"}
  BY <1>1, OfRecordNow
<1>3. requests' \in Seq({"live", "abandoned"})  BY <1>1, <1>2
<1>4. /\ client' \in ClientRecord /\ (client'.pc \notin {"verify", "reverify"} \/ client'.pc = client.pc)
      /\ client'.reply = "stopped" => client.reply = "stopped" /\ client'.epoch = client.epoch
  <2>1. CASE client' = client  BY <1>2, <2>1
  <2>2. CASE client' = Ends("blocked")  BY <2>2, Replies DEF ClientPc
  <2>3. CASE client' = [client EXCEPT !.pc = "served"]  BY <2>3, Replies DEF ClientPc
  <2> QED  BY <1>1, <2>1, <2>2, <2>3
<1>5. /\ owner' \in OwnerRecord /\ owner'.mode = owner.mode
      /\ \/ owner'.pc = owner.pc /\ owner'.previous = owner.previous
         \/ owner.pc = "ready" /\ owner'.pc = "stopping" /\ owner'.previous = journal.phase
      /\ journal' \in JournalRecord /\ journal' # NoFile /\ journal'.epoch = journal.epoch
      /\ journal'.phase = IF owner'.pc = "stopping" THEN "safe_stop_intent" ELSE journal.phase
  <2>1. journal # NoFile /\ journal.phase \in Phase /\ "safe_stop_intent" \in Phase
        /\ owner \in OwnerRecord /\ owner.inst \in 0 .. MaxDisks
    BY <1>2, Types DEF OfOwner, Phase, JournalRecord, OwnerRecord
  <2>2. CASE owner.pc \in {"ready", "recovering"} /\ UNCHANGED <<owner, journal>>
    BY <1>2, <2>1, <2>2
  <2>3. CASE /\ owner.pc = "ready"
             /\ owner' = [owner EXCEPT !.pc = "stopping", !.previous = journal.phase]
             /\ journal' = [journal EXCEPT !.phase = "safe_stop_intent", !.stopped_instance = owner.inst]
    <3>1. /\ owner' \in OwnerRecord /\ owner'.mode = owner.mode
          /\ owner'.pc = "stopping" /\ owner'.previous = journal.phase
      BY <2>1, <2>3 DEF OwnerRecord, OwnerPc
    <3>2. journal' = [journal EXCEPT !.phase = "safe_stop_intent", !.stopped_instance = owner.inst]  BY <2>3
    <3>3. /\ journal' \in JournalRecord /\ journal'.epoch = journal.epoch
          /\ journal'.phase = "safe_stop_intent"
      BY <1>2, <2>1, <3>2 DEF JournalRecord
    <3> QED  BY <2>1, <2>3, <3>1, <3>3, NoFileAssumption
  <2> QED  BY <1>1, <2>2, <2>3
<1>6. OwnerOK'
  BY <1>1, <1>2, <1>5 DEF LInv, OwnerOK, OfOwner, env, Pre
<1> QED  BY <1>1, <1>2, <1>3, <1>4, <1>5, <1>6, Types, RecordFrame DEF Pre

LEMMA WithdrawStopOK == ASSUME LInv, WithdrawStop PROVE LInv'
<1>1. /\ UNCHANGED <<env, receipt, invocation, unit, helper, requests, tk>>
      /\ owner.pc = "stopping" /\ owner' = [owner EXCEPT !.pc = "ready"]
      /\ journal' = [journal EXCEPT !.phase = owner.previous, !.stopped_instance = 0]
      /\ client' \in {client, Ends("blocked")}
  BY DEF WithdrawStop, At, Becomes, StopQuiet
<1>2. /\ OfOwner /\ journal \in JournalRecord /\ owner.pc \notin {"off", "invocation"} \cup Pre
      /\ requests \in Seq({"live", "abandoned"}) /\ client \in ClientRecord
      /\ helper["owner"] \notin {"on", "off"} /\ owner.previous \in LivePhase
  BY <1>1, OfRecordNow DEF LInv, OwnerOK
<1>3. /\ owner' \in OwnerRecord /\ owner'.pc = "ready" /\ owner'.mode = owner.mode
      /\ owner'.previous = owner.previous
  BY <1>1, OwnerMoves DEF OwnerPc
<1>4. /\ journal' \in JournalRecord /\ journal' # NoFile /\ journal'.epoch = journal.epoch
      /\ journal'.phase = owner.previous
  <2>1. journal # NoFile /\ owner.previous \in Phase /\ 0 \in 0 .. MaxDisks
    BY <1>2, Bounds DEF OfOwner, Phase
  <2>2. journal' = [journal EXCEPT !.phase = owner.previous, !.stopped_instance = 0]  BY <1>1
  <2>3. journal' \in JournalRecord /\ journal'.epoch = journal.epoch /\ journal'.phase = owner.previous
    BY <1>2, <2>1, <2>2 DEF JournalRecord
  <2> QED  BY <2>3, NoFileAssumption
<1>5. /\ client' \in ClientRecord /\ (client'.pc \notin {"verify", "reverify"} \/ client'.pc = client.pc)
      /\ client'.reply = "stopped" => client.reply = "stopped" /\ client'.epoch = client.epoch
  <2>1. CASE client' = client  BY <1>2, <2>1
  <2>2. CASE client' = Ends("blocked")  BY <2>2, Replies DEF ClientPc
  <2> QED  BY <1>1, <2>1, <2>2
<1>6. OwnerOK'
  BY <1>1, <1>2, <1>3, <1>4 DEF LInv, OwnerOK, OfOwner, env
<1> QED  BY <1>1, <1>2, <1>3, <1>4, <1>5, <1>6, Types, RecordFrame DEF Pre

LEMMA QueueOffOK == ASSUME LInv, QueueOff \/ QueueIsOff PROVE LInv'
<1>1. /\ UNCHANGED <<env, journal, receipt, invocation, unit, requests, tk, client>>
      /\ \/ /\ owner.pc = "stopping" /\ helper' = [helper EXCEPT !["owner"] = "off"]
            /\ owner' = [owner EXCEPT !.pc = "disabling"]
         \/ /\ owner.pc = "disabling" /\ helper["owner"] = "ok" /\ UNCHANGED helper
            /\ owner' = [owner EXCEPT !.pc = "stopped_journal"]
  BY DEF QueueOff, QueueIsOff, At, Becomes, StopQuiet, Spawn, files
<1>2. /\ OfOwner /\ journal \in JournalRecord /\ owner.pc \notin {"off", "invocation"} \cup Pre
      /\ requests \in Seq({"live", "abandoned"}) /\ client \in ClientRecord
  BY <1>1, OfRecordNow
<1>3. /\ owner' \in OwnerRecord /\ owner'.mode = owner.mode /\ owner'.previous = owner.previous
      /\ \/ owner.pc = "stopping" /\ owner'.pc = "disabling"
         \/ owner.pc = "disabling" /\ owner'.pc = "stopped_journal"
  <2>1. PICK pc \in {"disabling", "stopped_journal"} :
           /\ owner' = [owner EXCEPT !.pc = pc]
           /\ owner.pc = (IF pc = "disabling" THEN "stopping" ELSE "disabling")
    BY <1>1
  <2>2. pc \in OwnerPc  BY DEF OwnerPc
  <2>3. /\ owner' \in OwnerRecord /\ owner'.pc = pc /\ owner'.mode = owner.mode
        /\ owner'.previous = owner.previous
    BY <2>1, <2>2, OwnerMoves
  <2> QED  BY <2>1, <2>3
<1>4. /\ helper' \in [Role -> {"none", "on", "off", "ok", "error"}]
      /\ helper'["takeover"] = helper["takeover"] /\ helper'["owner"] # "on"
      /\ helper'["owner"] = "off" => owner'.pc = "disabling"
  BY <1>1, <1>3, Types
<1>5. OwnerOK'
  BY <1>1, <1>2, <1>3 DEF LInv, OwnerOK, OfOwner, env
<1> QED  BY <1>1, <1>2, <1>3, <1>4, <1>5, RecordFrame DEF Pre, OfOwner

LEMMA StopWritesOK == ASSUME LInv, WriteStopped \/ SaveReceipt PROVE LInv'
<1>1. /\ UNCHANGED <<env, invocation, unit, helper, requests, tk>>
      /\ \/ /\ owner.pc = "stopped_journal" /\ journal' = [journal EXCEPT !.phase = "safe_stopped"]
            /\ owner' = [owner EXCEPT !.pc = "stop_receipt"] /\ UNCHANGED <<receipt, client>>
         \/ /\ owner.pc = "stop_receipt" /\ receipt' = journal /\ UNCHANGED journal
            /\ owner' = [owner EXCEPT !.pc = "stopped"]
            /\ client' = [client EXCEPT !.pc = IF client.pc = "served" THEN "confirm" ELSE client.pc]
  BY DEF WriteStopped, SaveReceipt, At, Becomes, StopQuiet
<1>2. /\ OfOwner /\ journal \in JournalRecord /\ owner.pc \notin {"off", "invocation"} \cup Pre
      /\ requests \in Seq({"live", "abandoned"}) /\ client \in ClientRecord
      /\ helper["owner"] \notin {"on", "off"}
  BY <1>1, OfRecordNow
<1>3. /\ owner' \in OwnerRecord /\ owner'.mode = owner.mode /\ owner'.previous = owner.previous
      /\ \/ owner.pc = "stopped_journal" /\ owner'.pc = "stop_receipt"
         \/ owner.pc = "stop_receipt" /\ owner'.pc = "stopped"
  BY <1>1, OwnerMoves DEF OwnerPc
<1>4. /\ journal' \in JournalRecord /\ journal' # NoFile /\ journal'.epoch = journal.epoch
      /\ journal'.phase = "safe_stopped"
  <2>1. CASE owner.pc = "stopped_journal"
    BY <1>1, <1>2, <2>1, JournalMoves DEF OfOwner, Phase
  <2>2. CASE owner.pc = "stop_receipt"
    BY <1>1, <1>2, <2>2 DEF OfOwner, LInv, OwnerOK
  <2> QED  BY <1>1, <2>1, <2>2
<1>5. /\ client' \in ClientRecord /\ (client'.pc \notin {"verify", "reverify"} \/ client'.pc = client.pc)
      /\ client'.reply = "stopped" => client.reply = "stopped" /\ client'.epoch = client.epoch
  <2>1. CASE client' = client  BY <1>2, <2>1
  <2>2. CASE client' = [client EXCEPT !.pc = IF client.pc = "served" THEN "confirm" ELSE client.pc]
    BY <1>2, <2>2 DEF ClientRecord, ClientPc
  <2> QED  BY <1>1, <2>1, <2>2
<1>6. OwnerOK'
  BY <1>1, <1>2, <1>3, <1>4 DEF LInv, OwnerOK, OfOwner, env
<1> QED  BY <1>1, <1>2, <1>3, <1>4, <1>5, <1>6, Types, RecordFrame DEF Pre
\* The end of an owner, however it comes: its files stay as they are.
LEMMA OwnerEndsOK == ASSUME LInv, OwnerEnds PROVE LInv'
<1>1. /\ UNCHANGED <<map, disk, journal, receipt, invocation, helper, tk>> /\ requests' = <<>>
      /\ owner.pc # "off" /\ owner' = [owner EXCEPT !.pc = "off"]
      /\ unit' = [unit EXCEPT !.st = "stop_post"] /\ client' \in {client, Ends("incomplete")}
  BY DEF OwnerEnds, At, files, env
<1>2. /\ owner' \in OwnerRecord /\ owner'.pc = "off"
      /\ unit' \in UnitRecord /\ unit'.inv = unit.inv /\ unit'.failed = unit.failed
      /\ unit'.st = "stop_post" /\ tk = "off" /\ unit.st = "running"
  BY <1>1, OwnerMoves, Types DEF OwnerPc, UnitRecord, LInv, UnitOK
<1>3. /\ client' \in ClientRecord /\ (client'.pc \notin {"verify", "reverify"} \/ client'.pc = client.pc)
      /\ client'.reply = "stopped" => client.reply = "stopped" /\ client'.epoch = client.epoch
  <2>1. CASE client' = client  BY <2>1, Types
  <2>2. CASE client' = Ends("incomplete")  BY <2>2, Replies DEF ClientPc
  <2> QED  BY <1>1, <2>1, <2>2
<1>4. requests' \in Seq({"live", "abandoned"})  BY <1>1
<1>5. TypeOK'  BY <1>1, <1>2, <1>3, <1>4 DEF LInv, TypeOK
<1>6. UnitOK' /\ OwnerOK' /\ TkOK'
  BY <1>1, <1>2 DEF LInv, UnitOK, OwnerOK, TkOK, Pre
<1>7. FenceOK'
  BY <1>1, <1>2, <1>3, Types DEF LInv, FenceOK, OwnerHolds, TkHolds, ClientHolds, HelperRuns
<1>8. FilesOK'  BY <1>1, <1>2, <1>3, Types DEF LInv, FilesOK, Pre
<1>9. QueueOnCovered'
  BY <1>1, <1>2 DEF LInv, QueueOnCovered, Supervised, OfRecord
<1>10. StoppedIsTrue'  BY <1>1, <1>2, <1>3 DEF LInv, StoppedIsTrue, StoppedOnFile
<1> QED  BY <1>5, <1>6, <1>7, <1>8, <1>9, <1>10 DEF LInv

-----------------------------------------------------------------------------
(* The takeover.                                                             *)

\* A step of the takeover that writes no file.
LEMMA TkFrame ==
  ASSUME LInv, UNCHANGED <<env, files, owner, requests, client>>,
         unit.st = "stop_post", tk' \in TkPc,
         unit' \in UnitRecord, unit'.inv = unit.inv, unit'.st \in {"stop_post", "inactive"},
         tk' # "off" => unit'.st = "stop_post",
         helper' \in [Role -> {"none", "on", "off", "ok", "error"}],
         helper'["owner"] = helper["owner"], helper'["takeover"] # "on",
         ~TkHolds' \/ TkHolds \/ FenceFree,
         TkHolds' /\ HelperRuns("takeover")' => tk' = "message",
         HelperRuns("takeover")' => HelperRuns("takeover") \/ TkHolds,
         TkOK', QueueOnCovered'
  PROVE  LInv'
<1>1. UNCHANGED <<map, disk, journal, receipt, invocation>> /\ owner.pc = "off"
  BY DEF env, files, LInv, UnitOK
<1>2. TypeOK'  BY <1>1 DEF LInv, TypeOK
<1>3. UnitOK' /\ OwnerOK' /\ FilesOK'
  BY <1>1 DEF LInv, UnitOK, OwnerOK, FilesOK, Pre
<1>4. FenceOK'
  BY <1>1, Types DEF LInv, FenceOK, FenceFree, OwnerHolds, TkHolds, ClientHolds, HelperRuns
<1>5. StoppedIsTrue'  BY <1>1, Types DEF LInv, StoppedIsTrue, StoppedOnFile
<1> QED  BY <1>2, <1>3, <1>4, <1>5 DEF LInv

LEMMA TkAdvances ==
  ASSUME LInv, TkStart \/ TkAccepts \/ TkAcquire
  PROVE  LInv'
<1>1. /\ UNCHANGED <<env, files, owner, requests, client, unit, helper>>
      /\ \/ tk' = "check" /\ unit.st = "stop_post"
         \/ tk = "check" /\ tk' = "waiting" /\ journal # NoFile
         \/ tk = "waiting" /\ FenceFree /\ tk' = "read"
  BY DEF TkStart, TkAccepts, TkAcquire, TkQuiet, Supervised, OfRecord
<1>2. unit.st = "stop_post"  BY <1>1 DEF LInv, UnitOK
<1>3. TkOK'
  BY <1>1 DEF LInv, TkOK, files
<1>4. QueueOnCovered'
  BY <1>1 DEF LInv, QueueOnCovered, Supervised, OfRecord, files, env
<1>5. /\ TkHolds' => tk' = "read" /\ FenceFree /\ ~HelperRuns("takeover")
      /\ HelperRuns("takeover")' = HelperRuns("takeover")
  BY <1>1, Types DEF TkHolds, FenceFree, HelperRuns
<1>6. helper["takeover"] # "on"  BY DEF LInv, FenceOK
<1> QED  BY <1>1, <1>2, <1>3, <1>4, <1>5, <1>6, Types, TkFrame DEF TkPc

LEMMA TkDisablesOK == ASSUME LInv, TkDisables PROVE LInv'
<1>1. /\ UNCHANGED <<env, files, owner, requests, client, unit>>
      /\ tk = "read" /\ tk' = "message" /\ helper' = [helper EXCEPT !["takeover"] = "off"]
      /\ journal.phase # "safe_stopped" \/ receipt = NoFile
  BY DEF TkDisables, TkQuiet, Spawn
<1>2. /\ helper' \in [Role -> {"none", "on", "off", "ok", "error"}]
      /\ helper'["owner"] = helper["owner"] /\ helper'["takeover"] = "off"
      /\ unit.st = "stop_post" /\ TkHolds
  BY <1>1, Types DEF LInv, UnitOK, TkHolds
<1>3. TkOK'  BY <1>1, <1>2 DEF LInv, TkOK, files
<1>4. QueueOnCovered'
  BY <1>1, <1>2, Types DEF LInv, QueueOnCovered, Supervised, OfRecord, files, env
<1> QED  BY <1>1, <1>2, <1>3, <1>4, Types, TkFrame DEF TkPc

\* However the takeover ends without writing a file, a map that queues is not left
\* behind unnoticed.
LEMMA TkEndsOK ==
  ASSUME LInv, UNCHANGED <<env, files, owner, requests, client, helper>>,
         tk # "off", NEW failed \in BOOLEAN, TkEnds(failed),
         failed \/ ~OfRecord \/ (tk = "read" /\ ~map.queue)
  PROVE  LInv'
<1>1. tk' = "off" /\ unit' = [unit EXCEPT !.st = "inactive", !.failed = (unit.failed \/ failed)]
  BY DEF TkEnds
<1>2. /\ unit' \in UnitRecord /\ unit'.inv = unit.inv /\ unit'.st = "inactive"
      /\ unit.st = "stop_post"
  <2>1. (unit.failed \/ failed) \in BOOLEAN  OBVIOUS
  <2> QED  BY <1>1, <2>1, Types DEF UnitRecord, LInv, UnitOK
<1>3. unit.failed \/ failed => unit'.failed  BY <1>1, Types DEF UnitRecord
<1>4. TkOK' /\ ~TkHolds' /\ HelperRuns("takeover")' = HelperRuns("takeover")
      /\ helper["takeover"] # "on"
  BY <1>1, Types DEF TkOK, TkHolds, HelperRuns, LInv, FenceOK
<1>5. QueueOnCovered'
  <2>1. CASE failed  BY <2>1, <1>3 DEF QueueOnCovered
  <2>2. CASE ~OfRecord
    BY <2>2, <1>3 DEF LInv, QueueOnCovered, Supervised, files, env
  <2>3. CASE tk = "read" /\ ~map.queue
    BY <2>3, Types DEF LInv, FenceOK, TkHolds, HelperRuns, QueueOnCovered, env
  <2> QED  BY <2>1, <2>2, <2>3
<1> QED  BY <1>1, <1>2, <1>4, <1>5, Types, TkFrame DEF TkPc

LEMMA TkReapOK == ASSUME LInv, TkReap PROVE LInv'
<1>1. CASE helper["takeover"] = "error"
  BY <1>1, TkEndsOK DEF TkReap, TkQuiet
<1>2. CASE helper["takeover"] # "error"
  <2>1. /\ UNCHANGED <<env, files, owner, requests, client, unit, helper>>
        /\ tk = "message" /\ tk' = "finish" /\ helper["takeover"] = "ok"
    BY <1>2 DEF TkReap, TkQuiet
  <2>2. unit.st = "stop_post" /\ TkHolds /\ ~HelperRuns("takeover")'
    BY <2>1 DEF LInv, UnitOK, TkHolds, HelperRuns
  <2>3. TkOK'  BY <2>1 DEF LInv, TkOK, files, env
  <2>4. QueueOnCovered'
    BY <2>1 DEF LInv, QueueOnCovered, Supervised, OfRecord, files, env
  <2> QED  BY <2>1, <2>2, <2>3, <2>4, Types, TkFrame DEF TkPc
<1> QED  BY <1>1, <1>2

\* The journal of a takeover is nobody's: no stop was ever said of it.
LEMMA TkFinishOK == ASSUME LInv, TkFinish PROVE LInv'
<1> DEFINE j == [journal EXCEPT !.epoch = TakeoverEpoch, !.phase = "interrupted"]
<1>1. /\ UNCHANGED <<map, disk, owner, requests, client, receipt, invocation, helper>>
      /\ tk = "finish" /\ tk' = "off" /\ journal' = j
      /\ unit' = [unit EXCEPT !.st = "inactive", !.failed = (unit.failed \/ FALSE)]
  BY DEF TkFinish, TkEnds, TkQuiet, env
<1>2. /\ journal # NoFile /\ ~map.queue /\ unit.st = "stop_post" /\ owner.pc = "off"
      /\ \A r \in Role : helper[r] # "on"
  BY <1>1, Types DEF LInv, TkOK, UnitOK, FenceOK, TkHolds, HelperRuns
<1>3. j \in JournalRecord /\ j # NoFile /\ j.phase = "interrupted" /\ j.epoch = 0
  <2>1. j \in JournalRecord /\ j.phase = "interrupted" /\ j.epoch = 0
    <3>1. 0 \in Epoch /\ "interrupted" \in Phase /\ j = [journal EXCEPT !.epoch = 0, !.phase = "interrupted"]
      BY Bounds DEF Epoch, Phase, TakeoverEpoch
    <3>2. journal \in JournalRecord  BY <1>2, Types
    <3> HIDE DEF j
    <3> QED  BY <3>1, <3>2 DEF JournalRecord
  <2> QED  BY <2>1, NoFileAssumption
<1> HIDE DEF j
<1>4. /\ unit' \in UnitRecord /\ unit'.inv = unit.inv /\ unit'.st = "inactive"
  <2>1. (unit.failed \/ FALSE) \in BOOLEAN  OBVIOUS
  <2> QED  BY <1>1, <2>1, Types DEF UnitRecord
<1>5. TypeOK'  BY <1>1, <1>3, <1>4 DEF LInv, TypeOK, TkPc
<1>6. UnitOK' /\ OwnerOK' /\ TkOK'
  BY <1>1, <1>2, <1>4 DEF LInv, UnitOK, OwnerOK, TkOK, Pre
<1>7. FenceOK'
  BY <1>1, <1>2, Types DEF LInv, FenceOK, OwnerHolds, TkHolds, ClientHolds, HelperRuns
<1>8. FilesOK'
  BY <1>1, <1>2, <1>3, <1>4, Types DEF LInv, FilesOK, Pre
<1>9. QueueOnCovered'  BY <1>1, <1>2 DEF QueueOnCovered
<1>10. StoppedIsTrue'  BY <1>1, <1>3 DEF LInv, FilesOK, StoppedIsTrue
<1> QED  BY <1>5, <1>6, <1>7, <1>8, <1>9, <1>10 DEF LInv

LEMMA TakeoverOK == ASSUME LInv, TakeoverStep \/ TkFails PROVE LInv'
<1>1. CASE TkSkips  BY <1>1, TkEndsOK DEF TkSkips, TkQuiet
<1>2. CASE TkPreserves
  <2> DEFINE failed == ~(receipt = journal /\ ~map.open /\ ~map.queue)
  <2>1. failed \in BOOLEAN /\ (failed \/ ~map.queue)  OBVIOUS
  <2>2. TkEnds(failed) /\ tk = "read" /\ UNCHANGED <<env, files, owner, requests, client, helper>>
    BY <1>2 DEF TkPreserves, TkQuiet
  <2> HIDE DEF failed
  <2> QED  BY <2>1, <2>2, TkEndsOK
<1>3. CASE TkFails  BY <1>3, TkEndsOK DEF TkFails, TkQuiet
<1> QED
  BY <1>1, <1>2, <1>3, TkAdvances, TkDisablesOK, TkReapOK, TkFinishOK DEF TakeoverStep

-----------------------------------------------------------------------------
(* The stop client.                                                          *)

\* What a client may be told, and when.
LEMMA ClientFrame ==
  ASSUME LInv, UNCHANGED <<env, files, unit, owner, helper, tk>>,
         client' \in ClientRecord, requests' \in Seq({"live", "abandoned"}),
         ~ClientHolds' \/ ClientHolds \/ FenceFree,
         client'.reply = "stopped" =>
            \/ client.reply = "stopped" /\ client'.epoch = client.epoch
            \/ ClientHolds /\ StoppedNow /\ client'.epoch = journal.epoch
  PROVE  LInv'
<1>1. UNCHANGED <<map, disk, journal, receipt, invocation>>  BY DEF env, files
<1>2. TypeOK'  BY <1>1 DEF LInv, TypeOK
<1>3. UnitOK' /\ OwnerOK' /\ TkOK'  BY <1>1 DEF LInv, UnitOK, OwnerOK, OfOwner, TkOK
<1>4. FenceOK'
  BY <1>1, Types DEF LInv, FenceOK, FenceFree, OwnerHolds, TkHolds, ClientHolds, HelperRuns
<1>5. FilesOK'
  <2>1. CASE client'.reply = "stopped" /\ StoppedNow /\ client'.epoch = journal.epoch
    BY <1>1, <2>1 DEF LInv, FilesOK, StoppedNow, StoppedOnFile, Pre
  <2>2. CASE client'.reply = "stopped" => client.reply = "stopped" /\ client'.epoch = client.epoch
    BY <1>1, <2>2 DEF LInv, FilesOK
  <2> QED  BY <2>1, <2>2
<1>6. QueueOnCovered'  BY <1>1 DEF LInv, QueueOnCovered, Supervised, OfRecord
<1>7. StoppedIsTrue'
  <2>1. CASE client'.reply = "stopped" /\ ClientHolds /\ StoppedNow
    BY <1>1, <2>1 DEF LInv, FenceOK, HelperRuns, StoppedIsTrue, StoppedNow, StoppedOnFile, Idle
  <2>2. CASE client'.reply = "stopped" => client.reply = "stopped" /\ client'.epoch = client.epoch
    BY <1>1, <2>2 DEF LInv, StoppedIsTrue, StoppedOnFile
  <2> QED  BY <2>1, <2>2
<1> QED  BY <1>2, <1>3, <1>4, <1>5, <1>6, <1>7 DEF LInv

LEMMA CallStopOK == ASSUME LInv, CallStop PROVE LInv'
<1> DEFINE epoch == IF journal = NoFile THEN 0 ELSE journal.epoch
           pc == IF FenceFree THEN "verify" ELSE "read"
<1>1. /\ UNCHANGED <<env, files, unit, owner, helper, tk, requests>> /\ client.calls < MaxStops
      /\ client' = [client EXCEPT !.pc = pc, !.epoch = epoch, !.calls = client.calls + 1,
                                  !.tries = 0, !.reply = "none"]
  BY DEF CallStop, ClientQuiet
<1>2. epoch \in Epoch /\ pc \in ClientPc /\ (pc = "verify" => FenceFree) /\ pc # "reverify"
  BY Types, Bounds DEF JournalRecord, Epoch, ClientPc
<1> HIDE DEF epoch, pc
<1>3. client.calls + 1 \in 0 .. MaxStops /\ 0 \in 0 .. MaxConfirms /\ client \in ClientRecord
  BY <1>1, Types, Bounds DEF ClientRecord
<1>4. client' \in ClientRecord /\ client'.pc = pc /\ client'.reply = "none"
  BY <1>1, <1>2, <1>3 DEF ClientRecord
<1>5. requests' \in Seq({"live", "abandoned"})  BY <1>1 DEF LInv, TypeOK
<1> QED  BY <1>1, <1>2, <1>4, <1>5, ClientFrame DEF ClientHolds

\* The client gives the fence back with its answer.
LEMMA VerifyOK == ASSUME LInv, Verify \/ Reverify PROVE LInv'
<1>1. /\ UNCHANGED <<env, files, unit, owner, helper, tk, requests>> /\ ClientHolds
      /\ \/ StoppedNow /\ client' = [Ends("stopped") EXCEPT !.epoch = journal.epoch]
         \/ client' = Ends("incomplete")
         \/ client' = [client EXCEPT !.pc = "confirm"]
  BY DEF Verify, Reverify, ClientQuiet, ClientHolds
<1>2. requests' \in Seq({"live", "abandoned"})  BY <1>1 DEF LInv, TypeOK
<1>3. CASE StoppedNow /\ client' = [Ends("stopped") EXCEPT !.epoch = journal.epoch]
  <2>1. journal.epoch \in Epoch
    BY <1>3, Types DEF StoppedNow, StoppedOnFile, JournalRecord
  <2>2. Ends("stopped") \in ClientRecord /\ Ends("stopped").pc = "off"
    BY Replies DEF ClientPc
  <2>3. client' \in ClientRecord /\ client'.epoch = journal.epoch
    BY <1>3, <2>1, <2>2 DEF ClientRecord
  <2> QED  BY <1>1, <1>2, <1>3, <2>3, ClientFrame
<1>4. CASE client' = Ends("incomplete")
  BY <1>1, <1>2, <1>4, Replies, ClientFrame DEF ClientPc
<1>5. CASE client' = [client EXCEPT !.pc = "confirm"]
  BY <1>1, <1>2, <1>5, Replies, ClientFrame DEF ClientPc
<1> QED  BY <1>1, <1>3, <1>4, <1>5

LEMMA AskOK == ASSUME LInv, Connect \/ GiveUp PROVE LInv'
<1>1. UNCHANGED <<env, files, unit, owner, helper, tk>>  BY DEF Connect, GiveUp, ClientQuiet
<1>2. requests \in Seq({"live", "abandoned"})  BY DEF LInv, TypeOK
<1>3. CASE client' = [client EXCEPT !.pc = "sent"] /\ requests' = Append(requests, "live")
  BY <1>1, <1>2, <1>3, Replies, ClientFrame DEF ClientPc, ClientHolds
<1>4. CASE client' = Ends("incomplete") /\ UNCHANGED requests
  BY <1>1, <1>2, <1>4, Replies, ClientFrame DEF ClientPc, ClientHolds
<1>5. CASE client' = Ends("incomplete") /\ requests' = [k \in DOMAIN requests |-> "abandoned"]
  <2>1. requests' \in Seq({"live", "abandoned"})  BY <1>2, <1>5
  <2> QED  BY <1>1, <1>5, <2>1, Replies, ClientFrame DEF ClientPc, ClientHolds
<1> QED  BY <1>3, <1>4, <1>5 DEF Connect, GiveUp

LEMMA TakeFenceOK == ASSUME LInv, TakeFence PROVE LInv'
<1>1. /\ UNCHANGED <<env, files, unit, owner, helper, tk, requests>> /\ FenceFree
      /\ client.tries < MaxConfirms
      /\ client' = [client EXCEPT !.pc = "reverify", !.tries = client.tries + 1]
  BY DEF TakeFence, ClientQuiet
<1>2. client.tries + 1 \in 0 .. MaxConfirms /\ client \in ClientRecord
  BY <1>1, Types, Bounds DEF ClientRecord
<1>3. client' \in ClientRecord /\ client'.reply = client.reply /\ client'.epoch = client.epoch
  BY <1>1, <1>2 DEF ClientRecord, ClientPc
<1>4. requests' \in Seq({"live", "abandoned"})  BY <1>1 DEF LInv, TypeOK
<1> QED  BY <1>1, <1>3, <1>4, ClientFrame

-----------------------------------------------------------------------------
(* The specification.                                                        *)

LEMMA InitOK == ASSUME Init PROVE LInv
<1>1. TypeOK
  BY Bounds DEF Init, TypeOK, MapRecord, DiskRecord, UnitRecord, OwnerRecord, ClientRecord,
     Disks, Epoch, Phase, LivePhase, OwnerPc, TkPc, ClientPc, Role
<1>2. UnitOK /\ FilesOK /\ OwnerOK /\ TkOK  BY Bounds DEF Init, UnitOK, FilesOK, OwnerOK, TkOK, Role
<1>3. FenceOK  BY DEF Init, FenceOK, OwnerHolds, TkHolds, ClientHolds, HelperRuns, Role
<1>4. QueueOnCovered /\ StoppedIsTrue  BY DEF Init, QueueOnCovered, StoppedIsTrue, Role
<1> QED  BY <1>1, <1>2, <1>3, <1>4 DEF LInv

LEMMA NextOK == ASSUME LInv, [Next]_vars PROVE LInv'
<1>1. CASE Start
  BY <1>1, OwnerLocksOK, AdmitsOK, RearmIntentOK, SaveInvocationOK, OpenJournalOK, QueueOnOK,
     QueueIsOnOK DEF Start
<1>2. CASE Stop  BY <1>2, RequestOK, WithdrawStopOK, QueueOffOK, StopWritesOK DEF Stop
<1>3. CASE Client  BY <1>3, CallStopOK, VerifyOK, AskOK, TakeFenceOK DEF Client
<1>4. CASE \E r \in Role : HelperExits(r)  BY <1>4, HelperExitsOK
<1>5. CASE UNCHANGED vars
  <2>1. UNCHANGED <<map, disk, journal, receipt, invocation, unit, owner, helper, requests, tk, client>>
    BY <1>5 DEF vars, env, files
  <2>2. TypeOK' /\ UnitOK' /\ FilesOK' /\ OwnerOK' /\ TkOK'
    BY <2>1 DEF LInv, TypeOK, UnitOK, FilesOK, OwnerOK, OfOwner, TkOK
  <2>3. FenceOK' /\ QueueOnCovered' /\ StoppedIsTrue'
    BY <2>1 DEF LInv, FenceOK, OwnerHolds, TkHolds, ClientHolds, HelperRuns, QueueOnCovered,
       Supervised, OfRecord, StoppedIsTrue, StoppedOnFile
  <2> QED  BY <2>2, <2>3 DEF LInv
<1> QED
  BY <1>1, <1>2, <1>3, <1>4, <1>5, EnvironmentOK, StartUnitOK, RecoveryOK, OwnerEndsOK, TakeoverOK
  DEF Next

\* Fence, files, owner and takeover fit together in every reachable state.
THEOREM LifecycleInvariance == Spec => []LInv
<1> QED  BY InitOK, NextOK, PTL DEF Spec

\* The variables have their types.
THEOREM LifecycleTypes == Spec => []TypeOK
<1>1. LInv => TypeOK  BY DEF LInv
<1> QED  BY <1>1, LifecycleInvariance, PTL

\* "Both the new journal and its systemd invocation are durable before ON"
\* (begin_rearm()): a map that queues has a takeover to come, or one has failed.
THEOREM QueueingIsSupervised == Spec => []QueueOnCovered
<1>1. LInv => QueueOnCovered  BY DEF LInv
<1> QED  BY <1>1, LifecycleInvariance, PTL

\* An owner whose safe_stop() refused is still the owner of record of a map that queues.
THEOREM RefusalIsHarmless == Spec => []RefusedStopKeepsOwner
<1>1. LInv => RefusedStopKeepsOwner
  BY DEF LInv, OwnerOK, OfOwner, Pre, RefusedStopKeepsOwner, Supervised, OfRecord
<1> QED  BY <1>1, LifecycleInvariance, PTL

\* What stop_data() reports as stopped is stopped, and stays so for that journal.
THEOREM StoppedAnswerIsTrue == Spec => []StoppedIsTrue
<1>1. LInv => StoppedIsTrue  BY DEF LInv
<1> QED  BY <1>1, LifecycleInvariance, PTL

\* No crash, takeover or failed start revokes a completed stop: only a rearm does.
THEOREM StopIsPreserved == Spec => SafeStopPreserved
<1> DEFINE Kept == StoppedOnFile => StoppedOnFile' \/ owner.pc = "rearm_intent"
<1>1. ASSUME LInv, [Next]_vars PROVE Kept
  <2>1. CASE UNCHANGED <<journal, receipt>>  BY <2>1 DEF StoppedOnFile
  <2>2. CASE RearmIntent  BY <2>2 DEF RearmIntent, At
  <2>3. CASE TkFinish
    BY <1>1, <2>3 DEF TkFinish, LInv, TkOK, StoppedOnFile
  <2>4. CASE OpenJournal
    BY <1>1, <2>4, Types DEF OpenJournal, At, LInv, OwnerOK, OwnerRecord, StoppedOnFile
  <2>5. CASE SaveReceipt
    BY <1>1, <2>5 DEF SaveReceipt, At, LInv, OwnerOK, OfOwner, Pre, StoppedOnFile
  <2>6. CASE Recovering \/ Recovered \/ BeginStop \/ WithdrawStop \/ WriteStopped
    BY <1>1, <2>6 DEF Recovering, Recovered, BeginStop, WithdrawStop, WriteStopped, At, LInv, OwnerOK,
       StoppedOnFile, LivePhase
  <2> QED
    BY <1>1, <2>1, <2>2, <2>3, <2>4, <2>5, <2>6 DEF Next, vars, files, Environment, StartUnit, Start,
       OwnerLocks, FirstAdmits, RearmAdmits, SaveArchive, SaveInvocation, QueueOn, QueueIsOn, Confirm,
       Stop, RefuseStop, QueueOff, QueueIsOff, StopQuiet, OwnerQuiet, OwnerEnds, TakeoverStep, TkStart,
       TkSkips, TkAccepts, TkAcquire, TkPreserves, TkDisables, TkReap, TkFails, Client, CallStop, Verify,
       Connect, GiveUp, TakeFence, Reverify, ClientQuiet, HelperExits
<1>2. Spec => [][Kept]_vars  BY <1>1, LifecycleInvariance, PTL DEF Spec
<1> QED  BY <1>2 DEF SafeStopPreserved
=============================================================================
