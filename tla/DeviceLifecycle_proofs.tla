------------------------ MODULE DeviceLifecycle_proofs ------------------------
(***************************************************************************)
(* Proofs about the life cycle of the protected devices, for any set of devices  *)
(* and any number of faults, crashes, edits and reboots.                        *)
(*                                                                         *)
(* One command holds the lock and works on one device.  The invariant has two     *)
(* parts: what is true of every device at any time (DevicesOK), and what the        *)
(* command has established by the step it is at (CommandOK).                     *)
(***************************************************************************)
EXTENDS DeviceLifecycle, TLAPS

Owners == [st : {"none", "inactive", "queued", "starting", "active", "takeover"},
           mode : {"first", "rearm"}]
Maps   == [present : BOOLEAN, open : BOOLEAN, queue : BOOLEAN, adopted : BOOLEAN]
RunDir == [record : BOOLEAN, dir : BOOLEAN,
           native : {"none", "live", "safe_stopped", "interrupted"}]
Proc   == [cmd : Command, dev : Device \cup {"none"}, pc : Pc, item : BOOLEAN,
           mode : {"first", "rearm"}, todo : SUBSET Device]

\* Steps of enable() and start() of a configured device.
ConfPc == StartPc \cup {"boot_unit", "boot_enable", "consent", "pending", "incomplete2"}
\* uninstall() has seen that there is no configuration.
EmptyPc == {"u_maps", "u_receipt", "u_state", "u_boot", "u_unlink", "u_done"}
\* start() has seen that no owner runs, and the steps after the receipt, the exclusion, the
\* run-time record and the state directory were written.
DirPc     == {"unit", "start"}
RecordPc  == DirPc \cup {"dir"}
RulePc    == RecordPc \cup {"exclude", "create", "idle3", "record"}
ReceiptPc == RulePc \cup {"rule"}
NoOwnerPc == ReceiptPc \cup {"idle1", "rearm", "ram", "enabling"}
\* enroll(), the request to stop, and the steps after the owner has confirmed the stop.
EnrollPc  == {"enrolling", "conf", "disabled"}
AskPc     == {"ask", "revoke", "revoked"}
StoppedPc == {"stopped", "require_idle", "removing", "dmremove", "unlink"}

TookOver(x) == rule[x] /\ run[x].record /\ run[x].native # "none"

\* But for a late start job, no start job waits, and there is neither an owner nor an
\* owner's open journal.
Unqueued(x) == x \in late \/ unit[x].st # "queued"
Ended(x)    == x \in late \/ (~ UnitRuns(x) /\ run[x].native # "live")

\* What command p has established.
CommandOK(p) ==
    /\ p.pc \notin {"idle", "next", "u_conf"} \cup EmptyPc => p.dev \in Device
    /\ p.todo # {} => p.cmd = "boot" /\ p.pc \in StartPc \cup {"next"}
    /\ \A x \in p.todo : conf[x] # "none"
    /\ p.pc \in ConfPc => conf[p.dev] # "none"
    /\ p.pc = "consent" => integration = "enabled"
    /\ p.pc \in EmptyPc => \A x \in Device : conf[x] = "none"
    /\ p.pc \in NoOwnerPc => ~ UnitRuns(p.dev)
    /\ p.pc \in ReceiptPc => journal[p.dev].phase = "enabling"
    /\ p.pc \in RulePc => rule[p.dev]
    /\ p.pc \in RecordPc => run[p.dev].record
    /\ p.pc \in DirPc => run[p.dev].dir
    /\ p.pc = "confirm" => TookOver(p.dev)
    /\ p.pc \in EnrollPc => run[p.dev] = NoRun
    /\ p.pc \in AskPc => Unqueued(p.dev)
    /\ p.pc \in StoppedPc => Ended(p.dev)

\* The receipt of this boot says that the owner has stopped.
SaysStopped(x) == journal[x].now /\ journal[x].phase \in {"stopped", "disabled"}
\* The queueing belongs to an open journal, or was there before any owner.
QueueKnown(x)  == map[x].queue => \/ run[x].native = "live"
                                  \/ run[x].native = "none" /\ map[x].adopted

\* What is true of every device.
DevicesOK ==
    /\ ConsentHasIntegration /\ ActiveIsTrue /\ ConfigOutlivesOwner
    /\ \A x \in Device : UnitRuns(x) => run[x].record /\ run[x].dir /\ rule[x]
    /\ \A x \in Device : unit[x].st = "active" => run[x].native # "none"
    /\ \A x \in Device : run[x].native # "none" => run[x].dir
    /\ \A x \in Device : QueueKnown(x)
    /\ \A x \in Device : SaysStopped(x) => Ended(x)

DInv == TypeOK /\ DevicesOK /\ CommandOK(proc)

-----------------------------------------------------------------------------
(* Types and frames.                                                         *)

LEMMA Types ==
  ASSUME DInv
  PROVE  /\ conf \in [Device -> {"none", "disabled", "enabled"}]
         /\ journal \in [Device -> [phase : Phase, now : BOOLEAN]]
         /\ integration \in {"none", "written", "enabled"}
         /\ map \in [Device -> Maps] /\ rule \in [Device -> BOOLEAN]
         /\ run \in [Device -> RunDir] /\ unit \in [Device -> Owners]
         /\ proc \in Proc /\ disk \in [Device -> BOOLEAN]
         /\ DevicesOK /\ CommandOK(proc)
BY DEF DInv, TypeOK, Maps, RunDir, Owners, Proc

\* What no step of a command or a device touches wrongly: tools, disks, the budget.
RestOK == /\ ToolsTypeOK /\ budget \in [{"faults", "crashes", "edits", "reboots"} -> Nat]
          /\ disk \in [Device -> BOOLEAN] /\ late \subseteq Device
          /\ result \in {"none", "removable", "uninstalled"}

DataOK == /\ conf \in [Device -> {"none", "disabled", "enabled"}]
          /\ journal \in [Device -> [phase : Phase, now : BOOLEAN]]
          /\ integration \in {"none", "written", "enabled"}
          /\ map \in [Device -> Maps] /\ rule \in [Device -> BOOLEAN]
          /\ run \in [Device -> RunDir] /\ unit \in [Device -> Owners]

LEMMA Parts == DInv <=> DataOK /\ RestOK /\ proc \in Proc /\ DevicesOK /\ CommandOK(proc)
BY DEF DInv, TypeOK, DataOK, RestOK, Maps, RunDir, Owners, Proc

LEMMA FaultOK == ASSUME DInv, Fault
                 PROVE  budget' \in [{"faults", "crashes", "edits", "reboots"} -> Nat]
BY DEF DInv, TypeOK, Fault

\* A step of a command leaves tools, disks and the last answer alone.
LEMMA StepRest ==
  ASSUME DInv, UNCHANGED <<tools, disk, answers>>, UNCHANGED budget \/ Fault
  PROVE  RestOK'
BY FaultOK DEF DInv, TypeOK, RestOK, tools, answers, ToolsTypeOK

LEMMA IdleOK == ASSUME proc' = Idle PROVE proc' \in Proc /\ CommandOK(proc)'
BY DEF Idle, Proc, Command, Pc, StartPc, CommandOK, ConfPc, EmptyPc, NoOwnerPc, ReceiptPc, RulePc,
   RecordPc, DirPc, EnrollPc, AskPc, StoppedPc

LEMMA Moves ==
  ASSUME DInv, NEW next \in Pc
  PROVE  LET p == [proc EXCEPT !.pc = next]
         IN  /\ After(next) = p /\ p \in Proc /\ p.pc = next /\ p.cmd = proc.cmd /\ p.dev = proc.dev
             /\ p.todo = proc.todo /\ p.item = proc.item /\ p.mode = proc.mode
<1>1. next # "end" /\ next # "raise"  BY DEF Pc, StartPc
<1> QED  BY <1>1, Types DEF After, Proc

\* Nothing but the command moves.
LEMMA QuietOK ==
  ASSUME DInv, UNCHANGED <<saved, runtime>>, late \subseteq late' \/ UNCHANGED answers, RestOK', proc' \in Proc, CommandOK(proc)'
  PROVE  DInv'
<1>1. UNCHANGED <<conf, journal, integration, map, rule, run, unit>>  BY DEF saved, runtime
<1>2. DataOK'  BY <1>1, Parts DEF DataOK
<1>l. late \subseteq late'  BY DEF answers
<1>3. DevicesOK'
  BY <1>1, <1>l, Types DEF DevicesOK, ConsentHasIntegration, ActiveIsTrue, ConfigOutlivesOwner,
     QueueKnown, SaysStopped, Ended, UnitRuns
<1> QED  BY <1>2, <1>3, Parts DEF DInv, TypeOK, DataOK, RestOK, Maps, RunDir, Owners, Proc

\* The command goes on within start(), with what its next step relies on.
LEMMA StartMovesOK ==
  ASSUME DInv, proc.pc \in StartPc, UNCHANGED conf,
         proc' \in Proc, proc'.pc \in StartPc, proc'.cmd = proc.cmd, proc'.dev = proc.dev,
         proc'.todo = proc.todo,
         proc'.pc \in NoOwnerPc => ~ UnitRuns(proc.dev)',
         proc'.pc \in ReceiptPc => journal'[proc.dev].phase = "enabling",
         proc'.pc \in RulePc => rule'[proc.dev],
         proc'.pc \in RecordPc => run'[proc.dev].record,
         proc'.pc \in DirPc => run'[proc.dev].dir,
         proc'.pc = "confirm" => TookOver(proc.dev)'
  PROVE  CommandOK(proc)'
<1>1. proc.dev \in Device /\ conf[proc.dev] # "none"
  BY Types DEF CommandOK, ConfPc, StartPc, EmptyPc
<1>2. proc'.pc \notin {"idle", "next", "u_conf", "consent"} \cup EmptyPc \cup StoppedPc
                     \cup EnrollPc \cup AskPc
  BY DEF StartPc, EmptyPc, EnrollPc, AskPc, StoppedPc
<1> QED  BY <1>1, <1>2, Types DEF CommandOK, ConfPc, UnitRuns, TookOver

\* An exception in start().
LEMMA RaiseOK ==
  ASSUME DInv, proc.pc \in StartPc, UNCHANGED conf, proc' = After(Raise)
  PROVE  proc' \in Proc /\ CommandOK(proc)'
<1>1. CASE proc.cmd # "enable"
  <2>1. proc' = Idle  BY <1>1 DEF Raise, After
  <2> QED  BY <2>1, IdleOK
<1>2. CASE proc.cmd = "enable"
  <2>1. "incomplete2" \in Pc /\ Raise = "incomplete2"  BY <1>2 DEF Pc, Raise
  <2>2. /\ proc' \in Proc /\ proc'.pc = "incomplete2" /\ proc'.cmd = "enable"
        /\ proc'.dev = proc.dev /\ proc'.todo = proc.todo
    BY <1>2, <2>1, Moves
  <2>3. proc.dev \in Device /\ conf[proc.dev] # "none" /\ proc.todo = {}
    BY <1>2, Types DEF CommandOK, ConfPc, StartPc, EmptyPc
  <2> QED
    BY <2>2, <2>3 DEF CommandOK, ConfPc, StartPc, EmptyPc, NoOwnerPc, ReceiptPc, RulePc, RecordPc, DirPc,
       EnrollPc, AskPc, StoppedPc
<1> QED  BY <1>1, <1>2

\* The start of one device ends well; boot() goes on with the next one.
LEMMA EndOK ==
  ASSUME DInv, UNCHANGED conf \/ proc.todo = {}, proc' = After("end")
  PROVE  proc' \in Proc /\ CommandOK(proc)'
<1>1. CASE proc.cmd # "boot"
  <2>1. proc' = Idle  BY <1>1 DEF After
  <2> QED  BY <2>1, IdleOK
<1>2. CASE proc.cmd = "boot"
  <2>1. proc' = [proc EXCEPT !.pc = "next"]  BY <1>2 DEF After
  <2>2. /\ proc' \in Proc /\ proc'.pc = "next" /\ proc'.cmd = "boot" /\ proc'.todo = proc.todo
    BY <1>2, <2>1, Types DEF Proc, Pc
  <2> QED
    BY <2>2, Types DEF CommandOK, ConfPc, StartPc, EmptyPc, NoOwnerPc, ReceiptPc, RulePc, RecordPc, DirPc,
       EnrollPc, AskPc, StoppedPc
<1> QED  BY <1>1, <1>2

LEMMA MoveTo ==
  ASSUME DInv, NEW next \in Pc, proc' = After(next)
  PROVE  /\ proc' \in Proc /\ proc'.pc = next /\ proc'.cmd = proc.cmd /\ proc'.dev = dev
         /\ proc'.todo = proc.todo
BY Moves DEF dev

-----------------------------------------------------------------------------
(* What the effects of a command's steps do to the devices.                    *)

LEMMA PartsNext ==
  ASSUME DataOK', RestOK', proc' \in Proc, DevicesOK', CommandOK(proc)'
  PROVE  DInv'
BY DEF DInv, TypeOK, DataOK, RestOK, Maps, RunDir, Owners, Proc

Same == UNCHANGED <<saved, runtime>>

\* A receipt may say "active" of a device that an owner has taken over, and "stopped" of one
\* whose owner has ended.
LEMMA PhasesOK ==
  ASSUME DInv, NEW v \in Phase, dev \in Device, Phases(v) \/ Same, UNCHANGED answers,
         v # "active" \/ TookOver(dev), v \notin {"stopped", "disabled"} \/ Ended(dev)
  PROVE  /\ UNCHANGED <<conf, integration, map, rule, run, unit, late>>
         /\ DataOK' /\ DevicesOK'
<1>1. UNCHANGED <<conf, integration, map, rule, run, unit, late>>
  BY DEF Phases, Same, saved, runtime, answers
<1>2. \/ journal' = journal
      \/ journal' = [journal EXCEPT ![dev] = [phase |-> v, now |-> TRUE]]
  BY DEF Phases, Same, saved, runtime
<1>r. [phase |-> v, now |-> TRUE] \in [phase : Phase, now : BOOLEAN]  OBVIOUS
<1>3. journal' \in [Device -> [phase : Phase, now : BOOLEAN]]  BY <1>2, <1>r, Types
<1>4. DataOK'  BY <1>1, <1>3, Types DEF DataOK
<1>5. \A x \in Device : journal'[x] = journal[x] \/ (x = dev /\ journal'[x].phase = v)
  BY <1>2, Types
<1>6. ActiveIsTrue'
  BY <1>1, <1>5, Types DEF ActiveIsTrue, DevicesOK, TookOver
<1>7. \A x \in Device : SaysStopped(x)' => Ended(x)'
  BY <1>1, <1>5, Types DEF DevicesOK, SaysStopped, Ended, UnitRuns
<1> QED
  BY <1>1, <1>4, <1>6, <1>7, Types DEF DevicesOK, ConsentHasIntegration, QueueKnown,
     ConfigOutlivesOwner, UnitRuns

\* A consent needs the boot unit, the removal of a configuration an owner that is gone.
LEMMA ConfOK ==
  ASSUME DInv, NEW v \in {"none", "disabled", "enabled"}, dev \in Device, Conf(v) \/ Same,
         UNCHANGED answers, v = "enabled" => integration = "enabled", v = "none" => Ended(dev)
  PROVE  /\ UNCHANGED <<journal, integration, map, rule, run, unit, late>>
         /\ \A x \in Device : conf'[x] = conf[x] \/ (x = dev /\ conf'[x] = v)
         /\ DataOK' /\ DevicesOK'
<1>1. UNCHANGED <<journal, integration, map, rule, run, unit, late>>
  BY DEF Conf, Same, saved, runtime, answers
<1>2. conf' = conf \/ conf' = [conf EXCEPT ![dev] = v]
  BY DEF Conf, Same, saved, runtime
<1>3. \A x \in Device : conf'[x] = conf[x] \/ (x = dev /\ conf'[x] = v)
  BY <1>2, Types
<1>4. DataOK'  BY <1>1, <1>2, Types DEF DataOK
<1>5. ConsentHasIntegration'
  BY <1>1, <1>3, Types DEF ConsentHasIntegration, DevicesOK
<1>6. ConfigOutlivesOwner'
  BY <1>1, <1>3, Types DEF ConfigOutlivesOwner, DevicesOK, Ended, UnitRuns
<1>7. ActiveIsTrue' /\ (\A x \in Device : QueueKnown(x)') /\ \A x \in Device : SaysStopped(x)' => Ended(x)'
  BY <1>1, Types DEF QueueKnown, SaysStopped, Ended, ActiveIsTrue, DevicesOK, UnitRuns
<1> QED  BY <1>1, <1>3, <1>4, <1>5, <1>6, <1>7, Types DEF DevicesOK, UnitRuns

\* The boot unit is taken away only when no device is configured.
LEMMA IntegratesOK ==
  ASSUME DInv, NEW v \in {"none", "written", "enabled"}, Integrates(v) \/ Same, UNCHANGED answers,
         v \in {"enabled", integration} \/ \A x \in Device : conf[x] = "none"
  PROVE  /\ UNCHANGED <<conf, journal, map, rule, run, unit, late>>
         /\ integration' \in {v, integration}
         /\ DataOK' /\ DevicesOK'
<1>1. UNCHANGED <<conf, journal, map, rule, run, unit, late>> /\ integration' \in {v, integration}
  BY DEF Integrates, Same, saved, runtime, answers
<1>2. DataOK'  BY <1>1, Types DEF DataOK
<1>3. ConsentHasIntegration'
  BY <1>1, Types DEF ConsentHasIntegration, DevicesOK
<1> QED
  BY <1>1, <1>2, <1>3, Types DEF DevicesOK, QueueKnown, SaysStopped, Ended, ActiveIsTrue,
     ConfigOutlivesOwner, UnitRuns

\* Outside start() and boot() no device is waiting for its turn.
LEMMA NoTodo == ASSUME DInv, proc.pc \notin StartPc \cup {"next"} PROVE proc.todo = {}
BY Types DEF CommandOK

\* A step outside start(), uninstall() and the end of a stop.
PlainPc == {"conf", "disabled", "boot_unit", "boot_enable", "pending", "incomplete2", "revoked", "ask",
            "removed"}

LEMMA PlainMove ==
  ASSUME DInv, NEW next \in PlainPc, proc' = After(next), proc.dev \in Device,
         proc.todo = {},
         next \in ConfPc => conf'[proc.dev] # "none",
         next \in EnrollPc => run'[proc.dev] = NoRun,
         next \in AskPc => proc.dev \in late' \/ unit'[proc.dev].st # "queued"
  PROVE  proc' \in Proc /\ CommandOK(proc)'
<1>1. next \in Pc  BY DEF PlainPc, Pc
<1>2. /\ proc' \in Proc /\ proc'.pc = next /\ proc'.cmd = proc.cmd
      /\ proc'.dev = proc.dev /\ proc'.todo = {}
  BY <1>1, Moves
<1>3. next \notin {"consent", "confirm"} \cup StartPc \cup EmptyPc \cup NoOwnerPc \cup StoppedPc
  BY DEF PlainPc, StartPc, EmptyPc, NoOwnerPc, ReceiptPc, RulePc, RecordPc, DirPc, StoppedPc
<1>4. next \notin ReceiptPc \cup RulePc \cup RecordPc \cup DirPc
  BY DEF PlainPc, ReceiptPc, RulePc, RecordPc, DirPc
<1> QED  BY <1>2, <1>3, <1>4, Types DEF CommandOK, Unqueued

LEMMA RaisedOK == ASSUME proc' = After("raise") PROVE proc' \in Proc /\ CommandOK(proc)'
<1>1. proc' = Idle  BY DEF After
<1> QED  BY <1>1, IdleOK

-----------------------------------------------------------------------------
(* enroll().                                                                 *)

LEMMA HasDevice ==
  ASSUME DInv, proc.pc \in Pc, proc.pc \notin {"idle", "next", "u_conf"} \cup EmptyPc
  PROVE  dev \in Device
BY Types DEF CommandOK, dev

LEMMA EnrollStepsOK ==
  ASSUME DInv, EnrollReceipt \/ EnrollConf \/ EnrollDisabled PROVE DInv'
<1>d. dev \in Device /\ proc.todo = {} /\ run[dev] = NoRun
  <2>1. proc.pc \in EnrollPc  BY DEF EnrollReceipt, EnrollConf, EnrollDisabled, Attempt, EnrollPc
  <2> QED  BY <2>1, HasDevice, NoTodo, Types DEF EnrollPc, Pc, EmptyPc, StartPc, CommandOK, dev
<1>e. Ended(dev)
  BY <1>d, Types DEF DevicesOK, Ended, NoRun
<1>1. CASE EnrollReceipt
  <2>1. /\ proc.pc = "enrolling" /\ UNCHANGED <<tools, disk, answers>>
        /\ (UNCHANGED budget \/ Fault) /\ (Phases("enrolling") \/ Same)
        /\ proc' = After("conf") \/ proc' = After("raise")
    BY <1>1 DEF EnrollReceipt, Attempt, Goto, Same
  <2>3. DataOK' /\ DevicesOK' /\ UNCHANGED run
    BY <2>1, <1>d, PhasesOK, "enrolling" \in Phase DEF Phase
  <2>4. proc' \in Proc /\ CommandOK(proc)'
    BY <2>1, <2>3, <1>d, PlainMove, RaisedOK, "conf" \in PlainPc, "conf" \notin ConfPc \cup AskPc
       DEF PlainPc, ConfPc, AskPc, StartPc, dev
  <2> QED  BY <2>1, <2>3, <2>4, StepRest, PartsNext
<1>2. CASE EnrollConf
  <2>1. /\ proc.pc = "conf" /\ UNCHANGED <<tools, disk, answers>>
        /\ (UNCHANGED budget \/ Fault) /\ (Conf("disabled") \/ Same)
        /\ proc' = After("disabled") \/ proc' = After("raise")
    BY <1>2 DEF EnrollConf, Attempt, Goto, Same
  <2>3. DataOK' /\ DevicesOK' /\ UNCHANGED run
    BY <2>1, <1>d, ConfOK
  <2>4. proc' \in Proc /\ CommandOK(proc)'
    BY <2>1, <2>3, <1>d, PlainMove, RaisedOK, "disabled" \in PlainPc, "disabled" \notin ConfPc \cup AskPc
       DEF PlainPc, ConfPc, AskPc, StartPc, dev
  <2> QED  BY <2>1, <2>3, <2>4, StepRest, PartsNext
<1>3. CASE EnrollDisabled
  <2>1. /\ proc.pc = "disabled" /\ UNCHANGED <<tools, disk, answers>>
        /\ (UNCHANGED budget \/ Fault) /\ (Phases("disabled") \/ Same)
        /\ proc' = After("end") \/ proc' = After("raise")
    BY <1>3 DEF EnrollDisabled, Attempt, Goto, Same
  <2>3. DataOK' /\ DevicesOK' /\ UNCHANGED <<conf, unit>>
    BY <2>1, <1>d, <1>e, PhasesOK, "disabled" \in Phase DEF Phase
  <2>4. proc' \in Proc /\ CommandOK(proc)'
    BY <2>1, <2>3, <1>d, EndOK, RaisedOK
  <2> QED  BY <2>1, <2>3, <2>4, StepRest, PartsNext
<1> QED  BY <1>1, <1>2, <1>3

-----------------------------------------------------------------------------
(* enable().                                                                 *)

LEMMA EnableStepsOK ==
  ASSUME DInv, EnableUnit \/ EnableEnable \/ EnableConsent \/ EnablePending \/ EnableRaised
  PROVE  DInv'
<1>d. /\ proc.pc \in {"boot_unit", "boot_enable", "consent", "pending", "incomplete2"}
      /\ dev \in Device /\ conf[dev] # "none" /\ proc.todo = {}
  <2>1. proc.pc \in {"boot_unit", "boot_enable", "consent", "pending", "incomplete2"}
    BY DEF EnableUnit, EnableEnable, EnableConsent, EnablePending, EnableRaised, Attempt
  <2> QED  BY <2>1, HasDevice, NoTodo, Types DEF Pc, EmptyPc, StartPc, CommandOK, ConfPc, dev
<1>1. CASE EnableUnit
  <2>1. /\ UNCHANGED <<tools, disk, answers>> /\ (UNCHANGED budget \/ Fault)
        /\ Integrates(IF integration = "none" THEN "written" ELSE integration) \/ Same
        /\ proc' = After("boot_enable") \/ proc' = After("raise")
    BY <1>1 DEF EnableUnit, Attempt, Goto, Same
  <2>2. DataOK' /\ DevicesOK' /\ UNCHANGED <<conf, unit>>
    <3>1. CASE Integrates("written") /\ integration = "none"
      <4>1. \A x \in Device : conf[x] # "enabled"
        BY <3>1, Types DEF DevicesOK, ConsentHasIntegration
      <4>2. UNCHANGED <<conf, journal, map, rule, run, unit, late>> /\ integration' = "written"
        BY <2>1, <3>1 DEF Integrates, runtime, answers
      <4>3. DataOK'  BY <4>2, Types DEF DataOK
      <4> QED
        BY <4>1, <4>2, <4>3, Types DEF DevicesOK, ConsentHasIntegration, ActiveIsTrue,
           ConfigOutlivesOwner, QueueKnown, SaysStopped, Ended, UnitRuns
    <3>2. CASE Integrates(integration) \/ Same
      BY <2>1, <3>2, IntegratesOK, Types
    <3> QED  BY <2>1, <3>1, <3>2
  <2>3. proc' \in Proc /\ CommandOK(proc)'
    BY <2>1, <2>2, <1>d, PlainMove, RaisedOK, "boot_enable" \in PlainPc,
       "boot_enable" \notin EnrollPc \cup AskPc DEF PlainPc, EnrollPc, AskPc, dev
  <2> QED  BY <2>1, <2>2, <2>3, StepRest, PartsNext
<1>2. CASE EnableEnable
  <2>1. /\ UNCHANGED <<tools, disk, answers>> /\ (UNCHANGED budget \/ Fault)
        /\ \/ Integrates("enabled") /\ proc' = After("consent")
           \/ (Integrates("enabled") \/ Same) /\ proc' = After("raise")
    BY <1>2 DEF EnableEnable, Attempt, Goto, Same
  <2>2. DataOK' /\ DevicesOK' /\ UNCHANGED <<conf, unit>>
    BY <2>1, IntegratesOK
  <2>3. CASE proc' = After("raise")
    BY <2>1, <2>2, <2>3, RaisedOK, StepRest, PartsNext
  <2>4. CASE Integrates("enabled") /\ proc' = After("consent")
    <3>1. integration' = "enabled"  BY <2>4 DEF Integrates
    <3>2. "consent" \in Pc  BY DEF Pc
    <3>3. /\ proc' \in Proc /\ proc'.pc = "consent" /\ proc'.cmd = proc.cmd
          /\ proc'.dev = dev /\ proc'.todo = {}
      BY <2>4, <3>2, Moves, <1>d DEF dev
    <3>4. CommandOK(proc)'
      BY <2>2, <3>1, <3>3, <1>d, Types DEF CommandOK, StartPc, EmptyPc, NoOwnerPc, ReceiptPc, RulePc,
         RecordPc, DirPc, EnrollPc, AskPc, StoppedPc
    <3> QED  BY <2>1, <2>2, <3>3, <3>4, StepRest, PartsNext
  <2> QED  BY <2>1, <2>3, <2>4
<1>3. CASE EnableConsent
  <2>1. /\ proc.pc = "consent" /\ UNCHANGED <<tools, disk, answers>> /\ (UNCHANGED budget \/ Fault)
        /\ Conf("enabled") \/ Same
        /\ proc' = After("pending") \/ proc' = After("raise")
    BY <1>3 DEF EnableConsent, Attempt, Goto, Same
  <2>2. integration = "enabled"  BY <2>1, Types DEF CommandOK
  <2>3. DataOK' /\ DevicesOK' /\ UNCHANGED unit /\ conf'[dev] # "none"
    BY <2>1, <2>2, <1>d, ConfOK
  <2>4. proc' \in Proc /\ CommandOK(proc)'
    BY <2>1, <2>3, <1>d, PlainMove, RaisedOK, "pending" \in PlainPc,
       "pending" \notin EnrollPc \cup AskPc DEF PlainPc, EnrollPc, AskPc, dev
  <2> QED  BY <2>1, <2>3, <2>4, StepRest, PartsNext
<1>4. CASE EnablePending
  <2>1. /\ UNCHANGED <<tools, disk, answers>> /\ (UNCHANGED budget \/ Fault)
        /\ Phases("enabling") \/ Same
        /\ proc' = After("check") \/ proc' = After("raise")
    BY <1>4 DEF EnablePending, Attempt, Goto, Same
  <2>2. DataOK' /\ DevicesOK' /\ UNCHANGED <<conf, integration, map, rule, run, unit>>
    BY <2>1, <1>d, PhasesOK, "enabling" \in Phase DEF Phase
  <2>3. CASE proc' = After("raise")
    BY <2>1, <2>2, <2>3, RaisedOK, StepRest, PartsNext
  <2>4. CASE proc' = After("check")
    <3>1. "check" \in Pc  BY DEF Pc, StartPc
    <3>2. /\ proc' \in Proc /\ proc'.pc = "check" /\ proc'.cmd = proc.cmd
          /\ proc'.dev = dev /\ proc'.todo = {}
      BY <2>4, <3>1, Moves, <1>d DEF dev
    <3>3. CommandOK(proc)'
      BY <2>2, <3>1, <3>2, <1>d, Types DEF CommandOK, StartPc, EmptyPc, NoOwnerPc, ReceiptPc, RulePc,
         RecordPc, DirPc, EnrollPc, AskPc, StoppedPc
    <3> QED  BY <2>1, <2>2, <3>2, <3>3, StepRest, PartsNext
  <2> QED  BY <2>1, <2>3, <2>4
<1>5. CASE EnableRaised
  <2>1. /\ UNCHANGED <<tools, disk, answers>> /\ (UNCHANGED budget \/ Fault)
        /\ Phases("enable_incomplete") \/ Same
        /\ proc' = After("raise")
    BY <1>5 DEF EnableRaised, Attempt, Goto, Same
  <2>2. DataOK' /\ DevicesOK'
    BY <2>1, <1>d, PhasesOK, "enable_incomplete" \in Phase DEF Phase
  <2> QED  BY <2>1, <2>2, RaisedOK, StepRest, PartsNext
<1> QED  BY <1>1, <1>2, <1>3, <1>4, <1>5

-----------------------------------------------------------------------------
(* disable() and the end of stop().                                          *)

LEMMA StopStepsOK ==
  ASSUME DInv, DisableConf \/ DisableReceipt \/ StopReceipt PROVE DInv'
<1>d. dev \in Device /\ proc.todo = {}
  <2>1. proc.pc \in {"revoke", "revoked", "stopped"}
    BY DEF DisableConf, DisableReceipt, StopReceipt, Attempt
  <2> QED  BY <2>1, HasDevice, NoTodo DEF Pc, EmptyPc, StartPc
<1>a. /\ DisableConf \/ DisableReceipt => Unqueued(dev)
      /\ StopReceipt => Ended(dev)
  BY Types DEF DisableConf, DisableReceipt, StopReceipt, Attempt, CommandOK, AskPc, StoppedPc, dev
<1>1. CASE DisableConf
  <2>1. /\ UNCHANGED <<tools, disk, answers>> /\ (UNCHANGED budget \/ Fault)
        /\ Conf("disabled") \/ Same
        /\ proc' = After("revoked") \/ proc' = After("raise")
    BY <1>1 DEF DisableConf, Attempt, Goto, Same
  <2>2. DataOK' /\ DevicesOK' /\ UNCHANGED <<unit, late>>
    BY <2>1, <1>d, ConfOK
  <2>3. proc' \in Proc /\ CommandOK(proc)'
    <3>1. dev \in late' \/ unit'[dev].st # "queued"  BY <1>1, <1>a, <2>2 DEF Unqueued
    <3> QED
      BY <2>1, <2>2, <3>1, <1>d, PlainMove, RaisedOK, "revoked" \in PlainPc, "revoked" \notin ConfPc \cup EnrollPc
         DEF PlainPc, ConfPc, EnrollPc, StartPc, dev
  <2> QED  BY <2>1, <2>2, <2>3, StepRest, PartsNext
<1>2. CASE DisableReceipt
  <2>1. /\ UNCHANGED <<tools, disk, answers>> /\ (UNCHANGED budget \/ Fault)
        /\ Phases("disable_pending") \/ Same
        /\ proc' = After("ask") \/ proc' = After("raise")
    BY <1>2 DEF DisableReceipt, Attempt, Goto, Same
  <2>2. DataOK' /\ DevicesOK' /\ UNCHANGED <<unit, late>>
    BY <2>1, <1>d, PhasesOK, "disable_pending" \in Phase DEF Phase
  <2>3. proc' \in Proc /\ CommandOK(proc)'
    <3>1. dev \in late' \/ unit'[dev].st # "queued"  BY <1>2, <1>a, <2>2 DEF Unqueued
    <3> QED
      BY <2>1, <2>2, <3>1, <1>d, PlainMove, RaisedOK, "ask" \in PlainPc, "ask" \notin ConfPc \cup EnrollPc
         DEF PlainPc, ConfPc, EnrollPc, StartPc, dev
  <2> QED  BY <2>1, <2>2, <2>3, StepRest, PartsNext
<1>3. CASE StopReceipt
  <2>1. PICK v \in {"disabled", "stopped"} :
           /\ UNCHANGED <<tools, disk, answers>> /\ (UNCHANGED budget \/ Fault)
           /\ Phases(v) \/ Same
           /\ proc' = After("end") \/ proc' = After("raise")
    <3> DEFINE w == IF proc.cmd = "disable" THEN "disabled" ELSE "stopped"
    <3>1. w \in {"disabled", "stopped"}  OBVIOUS
    <3>2. /\ UNCHANGED <<tools, disk, answers>> /\ (UNCHANGED budget \/ Fault)
          /\ Phases(w) \/ Same
          /\ proc' = After("end") \/ proc' = After("raise")
      BY <1>3 DEF StopReceipt, Attempt, Goto, Same
    <3> HIDE DEF w
    <3> QED  BY <3>1, <3>2
  <2>2. DataOK' /\ DevicesOK' /\ UNCHANGED <<conf, unit>>
    BY <2>1, <1>d, <1>a, <1>3, PhasesOK, {"disabled", "stopped"} \subseteq Phase DEF Phase
  <2>3. proc' \in Proc /\ CommandOK(proc)'
    BY <2>1, <2>2, <1>d, EndOK, RaisedOK
  <2> QED  BY <2>1, <2>2, <2>3, StepRest, PartsNext
<1> QED  BY <1>1, <1>2, <1>3

-----------------------------------------------------------------------------
(* stop_owner() and remove().                                                *)

\* The maps that changed queue no more than before.
QueuesLess == \A x \in Device : map'[x].queue => map[x].queue /\ map'[x].adopted = map[x].adopted

\* A map that loses its queueing, or is gone.
LEMMA MapOK ==
  ASSUME DInv, UNCHANGED <<conf, journal, integration, rule, run, unit>>, UNCHANGED answers,
         map' \in [Device -> Maps], QueuesLess
  PROVE  DataOK' /\ DevicesOK'
<1>1. DataOK'  BY Types DEF DataOK
<1>2. late' = late  BY DEF answers
<1>3. \A x \in Device : QueueKnown(x)'
  BY Types DEF QueuesLess, QueueKnown, DevicesOK
<1> QED
  BY <1>1, <1>2, <1>3, Types DEF DevicesOK, ConsentHasIntegration, ActiveIsTrue, ConfigOutlivesOwner,
     SaysStopped, Ended, UnitRuns

\* The owner is known to have stopped.
LEMMA StoppedMove ==
  ASSUME DInv, NEW next \in StoppedPc, proc' = After(next), dev \in Device, proc.todo = {},
         dev \in late' \/ (unit'[dev].st \in {"none", "inactive"} /\ run'[dev].native # "live")
  PROVE  proc' \in Proc /\ CommandOK(proc)'
<1>0. next \in Pc  BY DEF StoppedPc, Pc
<1>1. next \notin ConfPc \cup StartPc \cup EmptyPc \cup NoOwnerPc \cup EnrollPc \cup AskPc
               \cup {"consent", "confirm"}
  BY DEF StoppedPc, ConfPc, StartPc, EmptyPc, NoOwnerPc, ReceiptPc, RulePc, RecordPc, DirPc, EnrollPc, AskPc
<1>2. next \notin ReceiptPc \cup RulePc \cup RecordPc \cup DirPc
  BY DEF StoppedPc, ReceiptPc, RulePc, RecordPc, DirPc
<1>3. /\ proc' \in Proc /\ proc'.pc = next /\ proc'.cmd = proc.cmd
      /\ proc'.dev = proc.dev /\ proc'.todo = {}
  BY <1>0, Moves
<1>4. Ended(proc.dev)'  BY <1>3 DEF Ended, UnitRuns, dev
<1> QED  BY <1>1, <1>2, <1>3, <1>4, Types DEF CommandOK, dev

LEMMA StopAskOK == ASSUME DInv, StopAsk PROVE DInv'
<1>d. proc.pc = "ask" /\ dev \in Device /\ proc.todo = {}
  BY HasDevice, NoTodo DEF StopAsk, Pc, EmptyPc, StartPc
<1>a. AfterAsk \in StoppedPc
  BY DEF AfterAsk, StoppedPc
<1>1. CASE /\ Untouched \/ (run[dev].record /\ Stopped)
           /\ Require("ask", TRUE, AfterAsk, "raise")
  <2>1. /\ UNCHANGED <<saved, runtime, tools, disk, answers, budget>> /\ proc' = After(AfterAsk)
    BY <1>1 DEF Require, Goto
  <2>2. UNCHANGED <<unit, run, late>>  BY <2>1 DEF runtime, answers
  <2>3. Unqueued(dev)  BY <1>d, Types DEF CommandOK, AskPc, dev
  <2>4. dev \in late \/ (unit[dev].st \in {"none", "inactive"} /\ run[dev].native # "live")
    <3>1. CASE Untouched
      <4>1. ~ run[dev].dir  BY <3>1 DEF Untouched
      <4>2. ~ UnitRuns(dev) /\ run[dev].native = "none"  BY <4>1, <1>d, Types DEF DevicesOK
      <4> QED  BY <4>2, <1>d, Types DEF UnitRuns, Owners
    <3>2. CASE Stopped
      BY <3>2, <2>3 DEF Stopped, Unqueued
    <3> QED  BY <1>1, <3>1, <3>2
  <2>5. proc' \in Proc /\ CommandOK(proc)'
    BY <1>d, <1>a, <2>1, <2>2, <2>4, StoppedMove
  <2> QED  BY <2>1, <2>5, StepRest, QuietOK
<1>2. CASE Require("ask", FALSE, AfterAsk, "raise")
  BY <1>2, RaisedOK, StepRest, QuietOK DEF Require, Goto
<1>3. CASE /\ Stoppable
           /\ Attempt("ask", /\ unit' = [unit EXCEPT ![dev].st = "inactive"]
                             /\ map' = [map EXCEPT ![dev].queue = FALSE]
                             /\ run' = [run EXCEPT ![dev].native = "safe_stopped"]
                             /\ UNCHANGED <<saved, rule>>, AfterAsk, "raise")
  <2> DEFINE Effect == /\ unit' = [unit EXCEPT ![dev].st = "inactive"]
                       /\ map' = [map EXCEPT ![dev].queue = FALSE]
                       /\ run' = [run EXCEPT ![dev].native = "safe_stopped"]
                       /\ UNCHANGED <<saved, rule>>
  <2>1. /\ UNCHANGED <<tools, disk, answers>> /\ (UNCHANGED budget \/ Fault)
        /\ \/ Effect /\ proc' = After(AfterAsk)
           \/ (Effect \/ Same) /\ proc' = After("raise")
    BY <1>3 DEF Attempt, Goto, Same
  <2>2. RestOK'  BY <2>1, StepRest
  <2>3. CASE Same /\ proc' = After("raise")
    BY <2>1, <2>2, <2>3, RaisedOK, QuietOK DEF Same
  <2>4. CASE Effect
    <3>1. UNCHANGED <<conf, journal, integration, rule>>  BY <2>4 DEF saved
    <3>l. late' = late  BY <2>1 DEF answers
    <3>u. /\ unit' \in [Device -> Owners] /\ unit'[dev].st = "inactive"
          /\ \A x \in Device : x # dev => unit'[x] = unit[x]
      BY <2>4, <1>d, Types DEF Owners
    <3>m. /\ map' \in [Device -> Maps] /\ ~ map'[dev].queue
          /\ \A x \in Device : x # dev => map'[x] = map[x]
      <4>1. PICK m \in Maps : m = [map[dev] EXCEPT !.queue = FALSE]  BY <1>d, Types DEF Maps
      <4>2. ~ m.queue  BY <4>1, <1>d, Types DEF Maps
      <4>3. map' = [map EXCEPT ![dev] = m]  BY <2>4, <4>1
      <4> QED  BY <4>2, <4>3, <1>d, Types
    <3>r. /\ run' \in [Device -> RunDir] /\ run'[dev].native = "safe_stopped"
          /\ run'[dev].record = run[dev].record /\ run'[dev].dir = run[dev].dir
          /\ \A x \in Device : x # dev => run'[x] = run[x]
      BY <2>4, <1>d, Types DEF RunDir
    <3>a. UnitRuns(dev)  BY <1>3 DEF Stoppable, UnitRuns
    <3> HIDE DEF Effect
    <3>4. DataOK'  BY <3>1, <3>u, <3>m, <3>r, Types DEF DataOK
    <3>5. DevicesOK'
      <4>1. ConsentHasIntegration' /\ ActiveIsTrue'
        BY <3>1, <3>r, <1>d, Types DEF DevicesOK, ConsentHasIntegration, ActiveIsTrue
      <4>2. ConfigOutlivesOwner'
        BY <3>1, <3>l, <3>u, <1>d, Types DEF DevicesOK, ConfigOutlivesOwner, UnitRuns
      <4>3. \A x \in Device : UnitRuns(x)' => run'[x].record /\ run'[x].dir /\ rule'[x]
        BY <3>1, <3>u, <3>r, <1>d, Types DEF DevicesOK, UnitRuns
      <4>4. \A x \in Device : unit'[x].st = "active" => run'[x].native # "none"
        BY <3>1, <3>u, <3>r, <1>d, Types DEF DevicesOK
      <4>5. \A x \in Device : run'[x].native # "none" => run'[x].dir
        BY <3>a, <3>r, <1>d, Types DEF DevicesOK
      <4>6. \A x \in Device : QueueKnown(x)'
        BY <3>m, <3>r, <1>d, Types DEF DevicesOK, QueueKnown
      <4>7. \A x \in Device : SaysStopped(x)' => Ended(x)'
        BY <3>1, <3>l, <3>u, <3>r, <1>d, Types DEF DevicesOK, SaysStopped, Ended, UnitRuns
      <4> QED  BY <4>1, <4>2, <4>3, <4>4, <4>5, <4>6, <4>7 DEF DevicesOK
    <3>6. proc' \in Proc /\ CommandOK(proc)'
      <4>1. CASE proc' = After("raise")  BY <4>1, RaisedOK
      <4>2. CASE proc' = After(AfterAsk)
        BY <1>a, <1>d, <4>2, <3>u, <3>r, StoppedMove
      <4> QED  BY <2>1, <4>1, <4>2
    <3> QED  BY <2>2, <3>4, <3>5, <3>6, PartsNext
  <2> QED  BY <2>1, <2>3, <2>4
<1> QED  BY <1>1, <1>2, <1>3 DEF StopAsk

LEMMA RemoveStepsOK ==
  ASSUME DInv, RemoveIdle \/ RemoveReceipt \/ RemoveMap \/ RemoveUnlink \/ RemoveRemoved PROVE DInv'
<1>d. dev \in Device /\ proc.todo = {}
  <2>1. proc.pc \in {"require_idle", "removing", "dmremove", "unlink", "removed"}
    BY DEF RemoveIdle, RemoveReceipt, RemoveMap, RemoveUnlink, RemoveRemoved, Require, Attempt
  <2> QED  BY <2>1, HasDevice, NoTodo DEF Pc, EmptyPc, StartPc
<1>s. proc.pc \in StoppedPc =>
        Ended(dev) /\ (dev \in late \/ (unit[dev].st \in {"none", "inactive"} /\ run[dev].native # "live"))
  BY <1>d, Types DEF CommandOK, Ended, UnitRuns, Owners, dev
<1>1. CASE RemoveIdle
  <2>1. /\ proc.pc = "require_idle" /\ UNCHANGED <<saved, runtime, tools, disk, answers, budget>>
        /\ proc' = After("removing") \/ proc' = After("unlink") \/ proc' = After("raise")
    BY <1>1 DEF RemoveIdle, Require, Goto
  <2>2. UNCHANGED <<unit, run, late>>  BY <2>1 DEF runtime, answers
  <2>3. proc' \in Proc /\ CommandOK(proc)'
    BY <2>1, <2>2, <1>d, <1>s, StoppedMove, RaisedOK DEF StoppedPc
  <2> QED  BY <2>1, <2>3, StepRest, QuietOK
<1>2. CASE RemoveReceipt
  <2>1. /\ proc.pc = "removing" /\ UNCHANGED <<tools, disk, answers>> /\ (UNCHANGED budget \/ Fault)
        /\ Phases("removing") \/ Same
        /\ proc' = After("dmremove") \/ proc' = After("raise")
    BY <1>2 DEF RemoveReceipt, Attempt, Goto, Same
  <2>2. DataOK' /\ DevicesOK' /\ UNCHANGED <<unit, run, late>>
    BY <2>1, <1>d, PhasesOK, "removing" \in Phase DEF Phase
  <2>3. proc' \in Proc /\ CommandOK(proc)'
    BY <2>1, <2>2, <1>d, <1>s, StoppedMove, RaisedOK DEF StoppedPc
  <2> QED  BY <2>1, <2>2, <2>3, StepRest, PartsNext
<1>3. CASE RemoveMap
  <2>1. CASE Require("dmremove", FALSE, "unlink", "raise")
    BY <2>1, RaisedOK, StepRest, QuietOK DEF Require, Goto
  <2>2. CASE Attempt("dmremove", map' = [map EXCEPT ![dev] = NoMap] /\ UNCHANGED <<saved, rule, run, unit>>,
                     "unlink", "raise")
    <3>1. /\ proc.pc = "dmremove" /\ UNCHANGED <<tools, disk, answers>> /\ (UNCHANGED budget \/ Fault)
          /\ UNCHANGED <<conf, journal, integration, rule, run, unit>>
          /\ map' = map \/ map' = [map EXCEPT ![dev] = NoMap]
          /\ proc' = After("unlink") \/ proc' = After("raise")
      BY <2>2 DEF Attempt, Goto, saved, runtime
    <3>n. NoMap \in Maps /\ ~ NoMap.queue  BY DEF Maps, NoMap
    <3>2. map' \in [Device -> Maps] /\ QueuesLess
      BY <3>1, <3>n, <1>d, Types DEF QueuesLess
    <3>3. DataOK' /\ DevicesOK'  BY <3>1, <3>2, MapOK
    <3>l. late' = late  BY <3>1 DEF answers
    <3>4. proc' \in Proc /\ CommandOK(proc)'
      BY <3>1, <3>l, <1>d, <1>s, StoppedMove, RaisedOK DEF StoppedPc
    <3> QED  BY <3>1, <3>3, <3>4, StepRest, PartsNext
  <2> QED  BY <1>3, <2>1, <2>2 DEF RemoveMap
<1>4. CASE RemoveUnlink
  <2>1. /\ proc.pc = "unlink" /\ UNCHANGED <<tools, disk, answers>> /\ (UNCHANGED budget \/ Fault)
        /\ Conf("none") \/ Same
        /\ proc' = After("removed") \/ proc' = After("raise")
    BY <1>4 DEF RemoveUnlink, Attempt, Goto, Same
  <2>2. Ended(dev)  BY <2>1, <1>s DEF StoppedPc
  <2>3. DataOK' /\ DevicesOK' /\ UNCHANGED unit
    BY <2>1, <2>2, <1>d, ConfOK
  <2>4. proc' \in Proc /\ CommandOK(proc)'
    BY <2>1, <2>3, <1>d, PlainMove, RaisedOK, "removed" \in PlainPc, "removed" \notin ConfPc \cup EnrollPc \cup AskPc
       DEF PlainPc, ConfPc, EnrollPc, AskPc, StartPc, dev
  <2> QED  BY <2>1, <2>3, <2>4, StepRest, PartsNext
<1>5. CASE RemoveRemoved
  <2>1. /\ proc.pc = "removed" /\ UNCHANGED <<tools, disk, answers>> /\ (UNCHANGED budget \/ Fault)
        /\ Phases("removed") \/ Same
        /\ proc' = After("end") \/ proc' = After("raise")
    BY <1>5 DEF RemoveRemoved, Attempt, Goto, Same
  <2>2. DataOK' /\ DevicesOK' /\ UNCHANGED <<conf, unit>>
    BY <2>1, <1>d, PhasesOK, "removed" \in Phase DEF Phase
  <2>3. proc' \in Proc /\ CommandOK(proc)'
    BY <2>1, <2>2, <1>d, EndOK, RaisedOK
  <2> QED  BY <2>1, <2>2, <2>3, StepRest, PartsNext
<1> QED  BY <1>1, <1>2, <1>3, <1>4, <1>5

-----------------------------------------------------------------------------
(* uninstall(), boot() and the beginnings of the commands.                     *)

LEMMA EmptyMove ==
  ASSUME DInv, NEW next \in EmptyPc, proc' = After(next), \A x \in Device : conf'[x] = "none",
         proc.todo = {}, UNCHANGED unit
  PROVE  proc' \in Proc /\ CommandOK(proc)'
<1>0. next \in Pc  BY DEF EmptyPc, Pc
<1>1. next \notin ConfPc \cup StartPc \cup NoOwnerPc \cup EnrollPc \cup AskPc \cup StoppedPc
               \cup {"consent", "confirm", "idle", "next"}
  BY DEF EmptyPc, ConfPc, StartPc, NoOwnerPc, ReceiptPc, RulePc, RecordPc, DirPc, EnrollPc, AskPc, StoppedPc
<1>2. next \notin ReceiptPc \cup RulePc \cup RecordPc \cup DirPc
  BY DEF EmptyPc, ReceiptPc, RulePc, RecordPc, DirPc
<1>3. /\ proc' \in Proc /\ proc'.pc = next /\ proc'.cmd = proc.cmd
      /\ proc'.dev = proc.dev /\ proc'.todo = {}
  BY <1>0, Moves
<1> QED  BY <1>1, <1>2, <1>3, Types DEF CommandOK

LEMMA UninstallStepsOK ==
  ASSUME DInv, UninstallConf \/ UninstallMaps \/ UninstallReceipt \/ UninstallState
               \/ UninstallBoot \/ UninstallUnlink \/ UninstallDone
  PROVE  DInv'
<1>d. proc.todo = {} /\ (proc.pc \in EmptyPc => \A x \in Device : conf[x] = "none")
  <2>1. proc.pc \in {"u_conf"} \cup EmptyPc
    BY DEF UninstallConf, UninstallMaps, UninstallReceipt, UninstallState, UninstallBoot,
       UninstallUnlink, UninstallDone, Require, Attempt, EmptyPc
  <2> QED  BY <2>1, NoTodo, Types DEF EmptyPc, StartPc, CommandOK
<1>1. CASE UninstallConf \/ UninstallMaps \/ UninstallReceipt \/ UninstallState
  <2>1. /\ UNCHANGED <<saved, runtime, tools, disk, answers, budget>>
        /\ \/ proc' = After("raise")
           \/ /\ proc.pc \in EmptyPc \/ \A x \in Device : conf[x] = "none"
              /\ \/ proc' = After("u_maps") \/ proc' = After("u_receipt") \/ proc' = After("u_state")
                 \/ proc' = After("u_boot") \/ proc' = After("u_done")
    BY <1>1 DEF UninstallConf, UninstallMaps, UninstallReceipt, UninstallState, Require, Goto, EmptyPc
  <2>2. UNCHANGED <<conf, unit>>  BY <2>1 DEF saved, runtime
  <2>3. proc' \in Proc /\ CommandOK(proc)'
    <3>1. CASE proc' = After("raise")  BY <3>1, RaisedOK
    <3>2. CASE proc' # After("raise")
      <4>1. \A x \in Device : conf'[x] = "none"  BY <2>1, <2>2, <3>2, <1>d
      <4>2. {"u_maps", "u_receipt", "u_state", "u_boot", "u_done"} \subseteq EmptyPc  BY DEF EmptyPc
      <4> QED  BY <2>1, <2>2, <3>2, <4>1, <4>2, <1>d, EmptyMove
    <3> QED  BY <3>1, <3>2
  <2> QED  BY <2>1, <2>3, StepRest, QuietOK
<1>2. CASE UninstallBoot
  <2>1. CASE Require("u_boot", FALSE, "u_unlink", "raise")
    BY <2>1, RaisedOK, StepRest, QuietOK DEF Require, Goto
  <2>2. CASE Attempt("u_boot", Integrates("written"), "u_unlink", "raise")
    <3>1. /\ proc.pc = "u_boot" /\ UNCHANGED <<tools, disk, answers>> /\ (UNCHANGED budget \/ Fault)
          /\ Integrates("written") \/ Same
          /\ proc' = After("u_unlink") \/ proc' = After("raise")
      BY <2>2 DEF Attempt, Goto, Same
    <3>2. \A x \in Device : conf[x] = "none"  BY <3>1, <1>d DEF EmptyPc
    <3>3. DataOK' /\ DevicesOK' /\ UNCHANGED <<conf, unit>>
      BY <3>1, <3>2, IntegratesOK
    <3>4. proc' \in Proc /\ CommandOK(proc)'
      BY <3>1, <3>2, <3>3, <1>d, EmptyMove, RaisedOK, "u_unlink" \in EmptyPc DEF EmptyPc
    <3> QED  BY <3>1, <3>3, <3>4, StepRest, PartsNext
  <2> QED  BY <1>2, <2>1, <2>2 DEF UninstallBoot
<1>3. CASE UninstallUnlink
  <2>1. /\ proc.pc = "u_unlink" /\ UNCHANGED <<tools, disk, answers>> /\ (UNCHANGED budget \/ Fault)
        /\ Integrates("none") \/ Same
        /\ proc' = After("u_done") \/ proc' = After("raise")
    BY <1>3 DEF UninstallUnlink, Attempt, Goto, Same
  <2>2. \A x \in Device : conf[x] = "none"  BY <2>1, <1>d DEF EmptyPc
  <2>3. DataOK' /\ DevicesOK' /\ UNCHANGED <<conf, unit>>
    BY <2>1, <2>2, IntegratesOK
  <2>4. proc' \in Proc /\ CommandOK(proc)'
    BY <2>1, <2>2, <2>3, <1>d, EmptyMove, RaisedOK, "u_done" \in EmptyPc DEF EmptyPc
  <2> QED  BY <2>1, <2>3, <2>4, StepRest, PartsNext
<1>4. CASE UninstallDone
  <2>1. /\ UNCHANGED <<saved, runtime, tools, disk, late, budget>> /\ proc' = Idle
        /\ result' \in {"uninstalled", "removable"}
    BY <1>4 DEF UninstallDone
  <2>2. RestOK'  BY <2>1, Parts DEF RestOK, tools, answers, ToolsTypeOK
  <2>3. late \subseteq late'  BY <2>1
  <2> QED  BY <2>1, <2>2, <2>3, IdleOK, QuietOK
<1> QED  BY <1>1, <1>2, <1>3, <1>4

\* A command begins with nothing but its device, whose late start job is noted.
LEMMA BeginOK ==
  ASSUME DInv, NEW x \in Device \cup {"none"}, NEW pc \in Pc, NEW p \in Proc,
         p.dev = x, p.pc = pc, p.todo = {}, BeginAs(p),
         pc \in {"enrolling", "boot_unit", "ask", "revoke", "u_conf"},
         pc # "u_conf" => x \in Device,
         pc = "boot_unit" => conf[x] # "none",
         pc = "enrolling" => run[x] = NoRun
  PROVE  DInv'
<1>1. /\ proc' = p /\ result' = "none" /\ UNCHANGED <<saved, runtime, tools, disk, budget>>
      /\ late' = late \cup {y \in Device : y = x /\ unit[y].st = "queued"}
  BY DEF BeginAs
<1>2. pc \notin {"consent", "confirm"} \cup StartPc \cup EmptyPc \cup NoOwnerPc \cup StoppedPc
  BY DEF StartPc, EmptyPc, NoOwnerPc, ReceiptPc, RulePc, RecordPc, DirPc, StoppedPc
<1>3. pc \notin ReceiptPc \cup RulePc \cup RecordPc \cup DirPc
  BY DEF ReceiptPc, RulePc, RecordPc, DirPc
<1>4. /\ pc \in ConfPc => pc = "boot_unit"
      /\ pc \in EnrollPc => pc = "enrolling"
      /\ pc \in AskPc => x \in Device
  BY DEF ConfPc, StartPc, EnrollPc, AskPc
<1>5. UNCHANGED <<conf, run, unit>>  BY <1>1 DEF saved, runtime
<1>6. x \in Device => x \in late' \/ unit'[x].st # "queued"
  BY <1>1, <1>5
<1>7. CommandOK(proc)'
  BY <1>1, <1>2, <1>3, <1>4, <1>5, <1>6 DEF CommandOK, Unqueued
<1>8. RestOK'
  <2>1. late' \subseteq Device  BY <1>1, Parts DEF RestOK
  <2> QED  BY <1>1, <2>1, Parts DEF RestOK, tools, ToolsTypeOK
<1>9. late \subseteq late'  BY <1>1
<1> QED  BY <1>1, <1>7, <1>8, <1>9, QuietOK

Begins == \/ \E x \in Device : EnrollBegin(x) \/ EnableBegin(x) \/ StopBegin(x) \/ DisableBegin(x)
                                \/ RemoveBegin(x)
          \/ UninstallBegin

LEMMA BeginsOK == ASSUME DInv, Begins PROVE DInv'
<1>p. /\ {"enrolling", "boot_unit", "ask", "revoke", "u_conf"} \subseteq Pc
      /\ {"enroll", "enable", "stop", "disable", "remove", "uninstall", "package-remove"} \subseteq Command
  BY DEF Pc, Command
<1>1. ASSUME NEW x \in Device, EnrollBegin(x) \/ EnableBegin(x) \/ StopBegin(x) \/ DisableBegin(x)
      PROVE  DInv'
  <2>1. PICK cmd \in Command, pc \in {"enrolling", "boot_unit", "ask", "revoke"} :
           /\ pc = "boot_unit" => conf[x] # "none"
           /\ pc = "enrolling" => run[x] = NoRun
           /\ Begin(cmd, x, pc)
    BY <1>1, <1>p DEF EnrollBegin, EnableBegin, StopBegin, DisableBegin
  <2>2. PICK p : p = [Idle EXCEPT !.cmd = cmd, !.dev = x, !.pc = pc]  OBVIOUS
  <2>3. p \in Proc /\ p.dev = x /\ p.pc = pc /\ p.todo = {}
    BY <2>2, <1>p DEF Idle, Proc
  <2>4. BeginAs(p)  BY <2>1, <2>2 DEF Begin
  <2> QED  BY <2>1, <2>3, <2>4, <1>p, BeginOK
<1>2. ASSUME NEW x \in Device, RemoveBegin(x)
      PROVE  DInv'
  <2>1. map[x].present \in BOOLEAN  BY Types DEF Maps
  <2>2. PICK p : p = [Idle EXCEPT !.cmd = "remove", !.dev = x, !.pc = "ask", !.item = map[x].present]
    OBVIOUS
  <2>3. p \in Proc /\ p.dev = x /\ p.pc = "ask" /\ p.todo = {}
    BY <2>1, <2>2, <1>p DEF Idle, Proc
  <2>4. BeginAs(p)  BY <1>2, <2>2 DEF RemoveBegin
  <2> QED  BY <2>3, <2>4, <1>p, BeginOK
<1>3. ASSUME UninstallBegin PROVE DInv'
  <2>1. PICK cmd \in {"uninstall", "package-remove"} : Begin(cmd, "none", "u_conf")
    BY <1>3 DEF UninstallBegin
  <2>2. PICK p : p = [Idle EXCEPT !.cmd = cmd, !.dev = "none", !.pc = "u_conf"]  OBVIOUS
  <2>3. p \in Proc /\ p.dev = "none" /\ p.pc = "u_conf" /\ p.todo = {}
    BY <2>2, <1>p DEF Idle, Proc
  <2>4. BeginAs(p)  BY <2>1, <2>2 DEF Begin
  <2> QED  BY <2>3, <2>4, <1>p, BeginOK
<1> QED  BY <1>1, <1>2, <1>3 DEF Begins

LEMMA BootOK == ASSUME DInv, Boot PROVE DInv'
<1>1. CASE BootBegin
  <2>1. /\ proc' = [Idle EXCEPT !.cmd = "boot", !.pc = "next", !.todo = {x \in Device : conf[x] = "enabled"}]
        /\ result' = "none" /\ UNCHANGED <<saved, runtime, tools, disk, budget>>
        /\ late \subseteq late' /\ late' \subseteq late \cup Device
    BY <1>1 DEF BootBegin, BeginAs
  <2>2. /\ proc'.cmd = "boot" /\ proc'.pc = "next" /\ proc'.dev = "none"
        /\ proc'.todo = {x \in Device : conf[x] = "enabled"}
    BY <2>1 DEF Idle
  <2>3. proc' \in Proc  BY <2>1 DEF Proc, Idle, Command, Pc
  <2>4. UNCHANGED conf  BY <2>1 DEF saved
  <2>5. CommandOK(proc)'
    BY <2>2, <2>4 DEF CommandOK, ConfPc, StartPc, EmptyPc, NoOwnerPc, ReceiptPc, RulePc, RecordPc, DirPc,
       EnrollPc, AskPc, StoppedPc
  <2>6. RestOK'  BY <2>1, Parts DEF RestOK, tools, answers, ToolsTypeOK
  <2> QED  BY <2>1, <2>3, <2>5, <2>6, QuietOK
<1>2. CASE BootNext
  <2>1. proc.pc = "next" /\ UNCHANGED <<saved, runtime, tools, disk, answers, budget>>
    BY <1>2 DEF BootNext
  <2>2. CASE proc' = Idle
    BY <2>1, <2>2, IdleOK, StepRest, QuietOK
  <2>3. CASE \E x \in proc.todo : proc' = [proc EXCEPT !.dev = x, !.pc = "check", !.item = FALSE,
                                                      !.mode = "first", !.todo = @ \ {x}]
    <3>1. PICK x \in proc.todo : proc' = [proc EXCEPT !.dev = x, !.pc = "check", !.item = FALSE,
                                                     !.mode = "first", !.todo = proc.todo \ {x}]
      BY <2>3
    <3>2. x \in Device /\ conf[x] # "none" /\ proc.cmd = "boot"
      BY <3>1, Types DEF Proc, CommandOK
    <3>3. /\ proc'.cmd = "boot" /\ proc'.pc = "check" /\ proc'.dev = x
          /\ proc'.todo = proc.todo \ {x}
      BY <3>1, <3>2, Types DEF Proc
    <3>4. proc' \in Proc
      BY <3>1, <3>2, Types DEF Proc, Pc, StartPc
    <3>5. UNCHANGED conf  BY <2>1 DEF saved
    <3>6. \A y \in proc'.todo : conf'[y] # "none"
      BY <3>3, <3>5, Types DEF CommandOK
    <3>7. CommandOK(proc)'
      BY <3>2, <3>3, <3>5, <3>6 DEF CommandOK, ConfPc, StartPc, EmptyPc, NoOwnerPc,
         ReceiptPc, RulePc, RecordPc, DirPc, EnrollPc, AskPc, StoppedPc
    <3> QED  BY <2>1, <3>4, <3>7, StepRest, QuietOK
  <2> QED  BY <1>2, <2>2, <2>3 DEF BootNext
<1> QED  BY <1>1, <1>2 DEF Boot

-----------------------------------------------------------------------------
(* start().                                                                  *)

\* The steps of start() that only look.
LEMMA StartLooksOK ==
  ASSUME DInv, StartCheck \/ StartActive \/ StartIdle1 \/ StartRearm \/ StartExclude \/ StartIdle3
               \/ StartReady
  PROVE  DInv'
<1>1. proc.pc \in StartPc /\ UNCHANGED <<saved, runtime, tools, disk, answers, budget>>
  BY DEF StartCheck, StartActive, StartIdle1, StartRearm, StartExclude, StartIdle3, StartReady,
     Require, StartPc
<1>2. UNCHANGED <<conf, journal, map, rule, run, unit>>  BY <1>1 DEF saved, runtime
<1>d. dev \in Device  BY <1>1, HasDevice, Types DEF StartPc, Proc, EmptyPc
<1>3. CASE proc' = After(Raise)
  BY <1>1, <1>2, <1>3, RaiseOK, StepRest, QuietOK
<1>4. CASE proc' # After(Raise)
  <2>1. /\ proc' \in Proc /\ proc'.cmd = proc.cmd /\ proc'.dev = dev /\ proc'.todo = proc.todo
        /\ \/ proc.pc = "check" /\ proc'.pc = "active"
           \/ proc.pc = "active" /\ proc'.pc = "confirm" /\ unit[dev].st = "active"
           \/ proc.pc = "active" /\ proc'.pc = "idle1" /\ unit[dev].st \in {"none", "inactive"}
           \/ proc.pc = "idle1" /\ proc'.pc = "rearm"
           \/ proc.pc = "rearm" /\ proc'.pc = "ram"
           \/ proc.pc = "exclude" /\ proc'.pc \in {"record", "create"}
           \/ proc.pc = "idle3" /\ proc'.pc = "record"
           \/ proc.pc = "ready" /\ proc'.pc = "confirm" /\ unit[dev].st = "active"
    <3>p. {"active", "confirm", "idle1", "rearm", "ram", "record", "create"} \subseteq Pc
      BY DEF Pc, StartPc
    <3>1. CASE StartCheck
      <4>1. proc.pc = "check" /\ proc' = [proc EXCEPT !.pc = "active", !.item = map[dev].present]
        BY <1>4, <3>1 DEF StartCheck
      <4>2. map[dev].present \in BOOLEAN  BY <1>d, Types DEF Maps
      <4> QED  BY <4>1, <4>2, <3>p, Types DEF Proc, dev
    <3>2. CASE StartActive
      <4>1. /\ proc.pc = "active" /\ unit[dev].st \in {"none", "inactive", "active"}
            /\ proc' = After(IF unit[dev].st = "active" THEN "confirm" ELSE "idle1")
        BY <1>4, <3>2 DEF StartActive, Require, Goto
      <4>2. CASE unit[dev].st = "active"
        BY <4>1, <4>2, <3>p, MoveTo
      <4>3. CASE unit[dev].st # "active"
        BY <4>1, <4>3, <3>p, MoveTo
      <4> QED  BY <4>2, <4>3
    <3>3. CASE StartIdle1
      <4>1. proc.pc = "idle1" /\ proc' = After("rearm")
        BY <1>4, <3>3 DEF StartIdle1, Require, Goto
      <4> QED  BY <4>1, <3>p, MoveTo
    <3>4. CASE StartRearm
      <4>1. /\ proc.pc = "rearm"
            /\ \E m \in {"first", "rearm"} : proc' = [proc EXCEPT !.pc = "ram", !.mode = m]
        BY <1>4, <3>4 DEF StartRearm
      <4> QED  BY <4>1, <3>p, Types DEF Proc, dev
    <3>5. CASE StartExclude
      <4>1. proc.pc = "exclude" /\ (proc' = After("record") \/ proc' = After("create"))
        BY <1>4, <3>5 DEF StartExclude, Require, Goto
      <4> QED  BY <4>1, <3>p, MoveTo
    <3>6. CASE StartIdle3
      <4>1. proc.pc = "idle3" /\ proc' = After("record")
        BY <1>4, <3>6 DEF StartIdle3, Require, Goto
      <4> QED  BY <4>1, <3>p, MoveTo
    <3>7. CASE StartReady
      <4>1. proc.pc = "ready" /\ proc' = After("confirm") /\ unit[dev].st = "active"
        BY <1>4, <3>7 DEF StartReady, Require, Goto
      <4> QED  BY <4>1, <3>p, MoveTo
    <3> QED  BY <3>1, <3>2, <3>3, <3>4, <3>5, <3>6, <3>7
  <2>2. unit[dev].st = "active" => TookOver(dev)
    BY <1>d, Types DEF DevicesOK, TookOver, UnitRuns
  <2>3. proc.pc \in NoOwnerPc => ~ UnitRuns(dev)  BY Types DEF CommandOK, dev
  <2>4. proc.pc \in RulePc => rule[dev]  BY Types DEF CommandOK, dev
  <2>5. proc'.pc \in StartPc  BY <2>1 DEF StartPc
  <2>6. proc'.pc \notin RecordPc \cup DirPc  BY <2>1 DEF RecordPc, DirPc
  <2>7. proc'.pc \in NoOwnerPc => ~ UnitRuns(dev)
    BY <2>1, <2>3 DEF NoOwnerPc, ReceiptPc, RulePc, RecordPc, DirPc, UnitRuns
  <2>8. proc'.pc \in RulePc => rule[dev]
    BY <2>1, <2>4 DEF RulePc, RecordPc, DirPc
  <2>11. proc'.pc \in ReceiptPc => journal[dev].phase = "enabling"
    <3>1. proc.pc \in ReceiptPc => journal[dev].phase = "enabling"  BY Types DEF CommandOK, dev
    <3> QED  BY <2>1, <3>1 DEF ReceiptPc, RulePc, RecordPc, DirPc
  <2>9. proc'.pc = "confirm" => TookOver(dev)
    BY <2>1, <2>2
  <2>10. CommandOK(proc)'
    <3>1. /\ proc'.dev = proc.dev /\ proc'.cmd = proc.cmd /\ proc'.todo = proc.todo /\ proc' \in Proc
      BY <2>1 DEF dev
    <3>2. proc'.pc \in NoOwnerPc => ~ UnitRuns(proc.dev)'
      BY <2>7, <3>1, <1>2 DEF UnitRuns, dev
    <3>3. /\ proc'.pc \in RulePc => rule'[proc.dev]
          /\ proc'.pc \in ReceiptPc => journal'[proc.dev].phase = "enabling"
      BY <2>8, <2>11, <1>2 DEF dev
    <3>4. proc'.pc = "confirm" => TookOver(proc.dev)'
      BY <2>9, <3>1, <1>2 DEF TookOver, dev
    <3> QED  BY <1>1, <1>2, <2>5, <2>6, <3>1, <3>2, <3>3, <3>4, StartMovesOK
  <2> QED  BY <1>1, <2>1, <2>10, StepRest, QuietOK
<1> QED  BY <1>3, <1>4

LEMMA StartGo ==
  ASSUME DInv, proc.pc \in StartPc, UNCHANGED conf, NEW next \in StartPc, proc' = After(next),
         next \in NoOwnerPc => unit'[dev].st \in {"none", "inactive"},
         next \in ReceiptPc => journal'[dev].phase = "enabling",
         next \in RulePc => rule'[dev],
         next \in RecordPc => run'[dev].record,
         next \in DirPc => run'[dev].dir,
         next # "confirm"
  PROVE  proc' \in Proc /\ CommandOK(proc)'
<1>1. next \in Pc  BY DEF Pc
<1>2. /\ proc' \in Proc /\ proc'.pc = next /\ proc'.cmd = proc.cmd /\ proc'.dev = proc.dev
      /\ proc'.todo = proc.todo
  BY <1>1, MoveTo DEF dev
<1>3. next \in NoOwnerPc => ~ UnitRuns(proc.dev)'
  BY <1>2 DEF UnitRuns, dev
<1>4. /\ proc'.pc \in ReceiptPc => journal'[proc.dev].phase = "enabling"
      /\ proc'.pc \in RulePc => rule'[proc.dev]
      /\ proc'.pc \in RecordPc => run'[proc.dev].record
      /\ proc'.pc \in DirPc => run'[proc.dev].dir
  BY <1>2 DEF dev
<1> QED  BY <1>2, <1>3, <1>4, StartMovesOK

\* What start() has established before a step.
LEMMA StartKnows ==
  ASSUME DInv, proc.pc \in StartPc
  PROVE  /\ dev \in Device /\ conf[dev] # "none"
         /\ proc.pc \in NoOwnerPc => unit[dev].st \in {"none", "inactive"} /\ ~ UnitRuns(dev)
         /\ proc.pc \in ReceiptPc => journal[dev].phase = "enabling"
         /\ proc.pc \in RulePc => rule[dev]
         /\ proc.pc \in RecordPc => run[dev].record
         /\ proc.pc \in DirPc => run[dev].dir
         /\ proc.pc = "confirm" => TookOver(dev)
<1>1. dev \in Device  BY HasDevice, Types DEF StartPc, EmptyPc, Proc
<1>2. ~ UnitRuns(dev) => unit[dev].st \in {"none", "inactive"}
  BY <1>1, Types DEF UnitRuns, Owners
<1> QED  BY <1>1, <1>2, Types DEF CommandOK, ConfPc, dev

LEMMA StartReceiptsOK ==
  ASSUME DInv, StartReceipt \/ StartIncomplete \/ StartConfirm PROVE DInv'
<1>1. PICK v \in {"enabling", "enable_incomplete", "active"} :
         /\ proc.pc = CASE v = "enabling" -> "enabling" [] v = "active" -> "confirm" [] OTHER -> "incomplete"
         /\ UNCHANGED <<tools, disk, answers>> /\ (UNCHANGED budget \/ Fault)
         /\ Phases(v) \/ Same
         /\ \/ proc' = After(Raise)
            \/ v = "enabling" /\ Phases(v) /\ proc' = After("rule")
            \/ v = "active" /\ proc' = After("end")
  BY DEF StartReceipt, StartIncomplete, StartConfirm, Attempt, Goto, Same
<1>2. proc.pc \in StartPc  BY <1>1 DEF StartPc
<1>3. v \in Phase  BY <1>1 DEF Phase
<1>4. dev \in Device /\ (v # "active" \/ TookOver(dev))  BY <1>1, <1>2, StartKnows
<1>5. UNCHANGED <<conf, integration, map, rule, run, unit>> /\ DataOK' /\ DevicesOK'
  BY <1>1, <1>3, <1>4, PhasesOK
<1>6. proc' \in Proc /\ CommandOK(proc)'
  <2>1. CASE proc' = After(Raise)  BY <2>1, <1>2, <1>5, RaiseOK
  <2>2. CASE proc' = After("end")  BY <2>2, <1>5, EndOK
  <2>3. CASE v = "enabling" /\ Phases(v) /\ proc' = After("rule")
    <3>1. proc.pc \in NoOwnerPc  BY <1>1, <2>3 DEF NoOwnerPc
    <3>4. journal'[dev].phase = "enabling"  BY <2>3, <1>4, Types DEF Phases
    <3>2. unit'[dev].st \in {"none", "inactive"}  BY <3>1, <1>2, <1>5, StartKnows
    <3>3. "rule" \in StartPc /\ "rule" \notin RulePc \cup RecordPc \cup DirPc
      BY DEF StartPc, RulePc, RecordPc, DirPc
    <3> QED  BY <1>2, <1>5, <2>3, <3>2, <3>3, <3>4, StartGo
  <2> QED  BY <1>1, <2>1, <2>2, <2>3
<1> QED  BY <1>1, <1>5, <1>6, StepRest, PartsNext

LEMMA StartRuleOK == ASSUME DInv, StartRule PROVE DInv'
<1>1. /\ proc.pc = "rule" /\ UNCHANGED <<tools, disk, answers>> /\ (UNCHANGED budget \/ Fault)
      /\ UNCHANGED <<conf, journal, integration, map, run, unit>>
      /\ \/ rule' = [rule EXCEPT ![dev] = TRUE] /\ proc' = After("exclude")
         \/ (rule' = [rule EXCEPT ![dev] = TRUE] \/ rule' = rule) /\ proc' = After(Raise)
  BY DEF StartRule, Attempt, Goto, saved, runtime
<1>2. proc.pc \in StartPc /\ proc.pc \in NoOwnerPc /\ proc.pc \in ReceiptPc
  BY <1>1 DEF StartPc, NoOwnerPc, ReceiptPc
<1>3. /\ dev \in Device /\ unit'[dev].st \in {"none", "inactive"}
      /\ journal'[dev].phase = "enabling"
  BY <1>1, <1>2, StartKnows
<1>l. late' = late  BY <1>1 DEF answers
<1>4. rule' \in [Device -> BOOLEAN] /\ \A x \in Device : rule[x] => rule'[x]
  BY <1>1, Types
<1>5. DataOK'  BY <1>1, <1>4, Types DEF DataOK
<1>6. DevicesOK'
  BY <1>1, <1>l, <1>4, Types DEF DevicesOK, ConsentHasIntegration, ActiveIsTrue, ConfigOutlivesOwner,
     QueueKnown, SaysStopped, Ended, UnitRuns
<1>7. proc' \in Proc /\ CommandOK(proc)'
  <2>1. CASE proc' = After(Raise)  BY <1>1, <2>1, <1>2, RaiseOK
  <2>2. CASE rule' = [rule EXCEPT ![dev] = TRUE] /\ proc' = After("exclude")
    <3>1. rule'[dev]  BY <2>2, <1>3, Types
    <3>2. "exclude" \in StartPc /\ "exclude" \notin RecordPc \cup DirPc
      BY DEF StartPc, RecordPc, DirPc
    <3> QED  BY <1>1, <1>2, <1>3, <2>2, <3>1, <3>2, StartGo
  <2> QED  BY <1>1, <2>1, <2>2
<1> QED  BY <1>1, <1>5, <1>6, <1>7, StepRest, PartsNext

LEMMA StartCreateOK == ASSUME DInv, StartCreate PROVE DInv'
<1>0. proc.pc = "create"  BY DEF StartCreate
<1>2. /\ proc.pc \in StartPc /\ proc.pc \in RulePc /\ proc.pc \in ReceiptPc
      /\ proc.pc \in NoOwnerPc
  BY <1>0 DEF StartPc, RulePc, ReceiptPc, NoOwnerPc
<1>3. /\ dev \in Device /\ unit[dev].st \in {"none", "inactive"} /\ rule[dev]
      /\ journal[dev].phase = "enabling"
  BY <1>2, StartKnows
<1>a. CASE Require("create", FALSE, "idle3", Raise)
  <2>1. UNCHANGED <<saved, runtime, tools, disk, answers, budget>> /\ proc' = After(Raise)
    BY <1>a DEF Require, Goto
  <2>2. UNCHANGED conf  BY <2>1 DEF saved
  <2> QED  BY <2>1, <2>2, <1>2, RaiseOK, StepRest, QuietOK
<1>b. CASE Attempt("create", map' = [map EXCEPT ![dev].present = TRUE] /\ UNCHANGED <<saved, rule, run, unit>>,
                   "idle3", Raise)
  <2>1. /\ UNCHANGED <<tools, disk, answers>> /\ (UNCHANGED budget \/ Fault)
        /\ UNCHANGED <<conf, journal, integration, rule, run, unit>>
        /\ map' = [map EXCEPT ![dev].present = TRUE] \/ map' = map
        /\ proc' = After("idle3") \/ proc' = After(Raise)
    BY <1>b DEF Attempt, Goto, saved, runtime
  <2>2. map' \in [Device -> Maps] /\ QueuesLess
    <3>1. PICK m \in Maps : m = [map[dev] EXCEPT !.present = TRUE]
      BY <1>3, Types DEF Maps
    <3>m. map[dev] \in Maps /\ map \in [Device -> Maps]  BY <1>3, Types
    <3>2. m.queue = map[dev].queue /\ m.adopted = map[dev].adopted  BY <3>1, <3>m DEF Maps
    <3>3. map' = [map EXCEPT ![dev] = m] \/ map' = map  BY <2>1, <3>1
    <3> QED  BY <3>2, <3>3, <3>m, <1>3 DEF QueuesLess
  <2>3. DataOK' /\ DevicesOK'  BY <2>1, <2>2, MapOK
  <2>4. proc' \in Proc /\ CommandOK(proc)'
    <3>1. CASE proc' = After(Raise)  BY <2>1, <3>1, <1>2, RaiseOK
    <3>2. CASE proc' = After("idle3")
      <4>1. "idle3" \in StartPc /\ "idle3" \notin RecordPc \cup DirPc  BY DEF StartPc, RecordPc, DirPc
      <4> QED  BY <2>1, <1>2, <1>3, <3>2, <4>1, StartGo
    <3> QED  BY <2>1, <3>1, <3>2
  <2> QED  BY <2>1, <2>3, <2>4, StepRest, PartsNext
<1> QED  BY <1>a, <1>b DEF StartCreate

\* The run-time record and the state directory are only ever added.
LEMMA RunOK ==
  ASSUME DInv, UNCHANGED <<conf, journal, integration, map, rule, unit>>, UNCHANGED answers,
         run' \in [Device -> RunDir],
         \A x \in Device : /\ run'[x].native = run[x].native
                           /\ run[x].record => run'[x].record
                           /\ run[x].dir => run'[x].dir
  PROVE  DataOK' /\ DevicesOK'
<1>1. DataOK'  BY Types DEF DataOK
<1>2. late' = late  BY DEF answers
<1> QED
  BY <1>1, <1>2, Types DEF DevicesOK, ConsentHasIntegration, ActiveIsTrue, ConfigOutlivesOwner,
     QueueKnown, SaysStopped, Ended, UnitRuns

LEMMA StartRunsOK == ASSUME DInv, StartRecord \/ StartDir PROVE DInv'
<1>0. PICK r \in RunDir, next \in {"dir", "unit"} :
         /\ proc.pc = (IF next = "dir" THEN "record" ELSE "dir")
         /\ r.native = run[dev].native
         /\ r.record = (run[dev].record \/ next = "dir") /\ r.dir = (run[dev].dir \/ next = "unit")
         /\ UNCHANGED <<tools, disk, answers>> /\ (UNCHANGED budget \/ Fault)
         /\ UNCHANGED <<conf, journal, integration, map, rule, unit>>
         /\ \/ run' = [run EXCEPT ![dev] = r] /\ proc' = After(next)
            \/ (run' = [run EXCEPT ![dev] = r] \/ run' = run) /\ proc' = After(Raise)
  <2>1. CASE StartRecord
    <3>1. proc.pc = "record"  BY <2>1 DEF StartRecord, Attempt
    <3>2. dev \in Device  BY <3>1, StartKnows DEF StartPc
    <3>3. PICK r \in RunDir : r = [run[dev] EXCEPT !.record = TRUE]
      BY <3>2, Types DEF RunDir
    <3>4. r.native = run[dev].native /\ r.record /\ r.dir = run[dev].dir
      BY <3>2, <3>3, Types DEF RunDir
    <3>5. /\ UNCHANGED <<tools, disk, answers>> /\ (UNCHANGED budget \/ Fault)
          /\ UNCHANGED <<conf, journal, integration, map, rule, unit>>
          /\ \/ run' = [run EXCEPT ![dev] = r] /\ proc' = After("dir")
             \/ (run' = [run EXCEPT ![dev] = r] \/ run' = run) /\ proc' = After(Raise)
      BY <2>1, <3>3 DEF StartRecord, Attempt, Runs, Goto, saved, runtime
    <3>6. run[dev].dir \in BOOLEAN  BY <3>2, Types DEF RunDir
    <3> QED  BY <3>1, <3>4, <3>5, <3>6
  <2>2. CASE StartDir
    <3>1. proc.pc = "dir"  BY <2>2 DEF StartDir, Attempt
    <3>2. dev \in Device  BY <3>1, StartKnows DEF StartPc
    <3>3. PICK r \in RunDir : r = [run[dev] EXCEPT !.dir = TRUE]
      BY <3>2, Types DEF RunDir
    <3>4. r.native = run[dev].native /\ r.record = run[dev].record /\ r.dir
      BY <3>2, <3>3, Types DEF RunDir
    <3>5. /\ UNCHANGED <<tools, disk, answers>> /\ (UNCHANGED budget \/ Fault)
          /\ UNCHANGED <<conf, journal, integration, map, rule, unit>>
          /\ \/ run' = [run EXCEPT ![dev] = r] /\ proc' = After("unit")
             \/ (run' = [run EXCEPT ![dev] = r] \/ run' = run) /\ proc' = After(Raise)
      BY <2>2, <3>3 DEF StartDir, Attempt, Runs, Goto, saved, runtime
    <3>6. run[dev].record \in BOOLEAN  BY <3>2, Types DEF RunDir
    <3> QED  BY <3>1, <3>4, <3>5, <3>6
  <2> QED  BY <2>1, <2>2
<1>2. /\ proc.pc \in StartPc /\ proc.pc \in NoOwnerPc /\ proc.pc \in RulePc /\ proc.pc \in ReceiptPc
      /\ next = "unit" => proc.pc \in RecordPc
  BY <1>0 DEF StartPc, NoOwnerPc, ReceiptPc, RulePc, RecordPc
<1>3. /\ dev \in Device /\ unit[dev].st \in {"none", "inactive"} /\ rule[dev]
      /\ journal[dev].phase = "enabling"
      /\ next = "unit" => run[dev].record
  BY <1>2, StartKnows
<1>4. run' \in [Device -> RunDir]  BY <1>0, Types
<1>5. \A x \in Device : /\ run'[x].native = run[x].native
                        /\ run[x].record => run'[x].record
                        /\ run[x].dir => run'[x].dir
  <2> TAKE x \in Device
  <2>1. CASE run' = run  BY <2>1
  <2>2. CASE run' = [run EXCEPT ![dev] = r]
    <3>1. CASE x = dev  BY <3>1, <2>2, <1>0, Types
    <3>2. CASE x # dev  BY <3>2, <2>2, Types
    <3> QED  BY <3>1, <3>2
  <2> QED  BY <1>0, <2>1, <2>2
<1>6. DataOK' /\ DevicesOK'  BY <1>0, <1>4, <1>5, RunOK
<1>7. proc' \in Proc /\ CommandOK(proc)'
  <2>1. CASE proc' = After(Raise)  BY <1>0, <2>1, <1>2, RaiseOK
  <2>2. CASE run' = [run EXCEPT ![dev] = r] /\ proc' = After(next)
    <3>1. run'[dev] = r  BY <2>2, <1>3, Types
    <3>2. run'[dev].record /\ (next = "unit" => run'[dev].dir)
      BY <3>1, <1>0, <1>3
    <3>3. next \in StartPc /\ (next \in DirPc => next = "unit") /\ next # "confirm"
      BY <1>0 DEF StartPc, DirPc
    <3> QED  BY <1>0, <1>2, <1>3, <2>2, <3>2, <3>3, StartGo
  <2> QED  BY <1>0, <2>1, <2>2
<1> QED  BY <1>0, <1>6, <1>7, StepRest, PartsNext

-----------------------------------------------------------------------------
(* The unit of one device.                                                   *)

Running == {"queued", "starting", "active", "takeover"}

\* One owner moves: it queues I/O only under its open journal, it runs on only where it ran,
\* or where start() has prepared everything for it, and no receipt says that it has stopped.
LEMMA UnitOK ==
  ASSUME DInv, NEW d \in Device, UNCHANGED <<conf, journal, integration, rule>>, UNCHANGED answers,
         unit' \in [Device -> Owners], map' \in [Device -> Maps], run' \in [Device -> RunDir],
         \A x \in Device : x # d => unit'[x] = unit[x] /\ map'[x] = map[x] /\ run'[x] = run[x],
         SaysStopped(d) => d \in late,
         map'[d].queue => \/ run'[d].native = "live"
                          \/ run'[d].native = "none" /\ map'[d].adopted,
         run'[d].record = run[d].record, run'[d].dir = run[d].dir,
         run[d].native # "none" => run'[d].native # "none",
         run'[d].native # "none" => run'[d].dir,
         unit'[d].st = "active" => run'[d].native # "none",
         unit'[d].st \in Running => \/ unit[d].st \in Running
                                    \/ conf[d] # "none" /\ run[d].record /\ run[d].dir /\ rule[d]
  PROVE  DataOK' /\ DevicesOK'
<1>1. DataOK'  BY Types DEF DataOK
<1>l. late' = late  BY DEF answers
<1>2. \A x \in Device : UnitRuns(x)' => UnitRuns(x) \/ (conf[x] # "none" /\ run[x].record /\ run[x].dir /\ rule[x])
  BY DEF UnitRuns, Running
<1>3. \A x \in Device : /\ run'[x].record = run[x].record /\ run'[x].dir = run[x].dir
                        /\ run[x].native # "none" => run'[x].native # "none"
  OBVIOUS
<1>4. ConsentHasIntegration' /\ ActiveIsTrue'
  BY <1>3, Types DEF DevicesOK, ConsentHasIntegration, ActiveIsTrue
<1>5. \A x \in Device : QueueKnown(x)'
  BY Types DEF DevicesOK, QueueKnown
<1>6. ConfigOutlivesOwner'
  BY <1>2, <1>l, Types DEF DevicesOK, ConfigOutlivesOwner
<1>7. \A x \in Device : UnitRuns(x)' => run'[x].record /\ run'[x].dir /\ rule'[x]
  BY <1>2, <1>3, Types DEF DevicesOK
<1>8. /\ \A x \in Device : unit'[x].st = "active" => run'[x].native # "none"
      /\ \A x \in Device : run'[x].native # "none" => run'[x].dir
  BY Types DEF DevicesOK
<1>9. \A x \in Device : SaysStopped(x)' => Ended(x)'
  BY <1>l, Types DEF DevicesOK, SaysStopped, Ended, UnitRuns
<1> QED  BY <1>1, <1>4, <1>5, <1>6, <1>7, <1>8, <1>9 DEF DevicesOK

LEMMA StartUnitsOK == ASSUME DInv, StartUnit \/ StartStart PROVE DInv'
<1>0. PICK u \in Owners, next \in {"start", "wait"} :
         /\ proc.pc = (IF next = "start" THEN "unit" ELSE "start")
         /\ u.st = (IF next = "start" THEN "inactive" ELSE "queued")
         /\ UNCHANGED <<tools, disk, answers>> /\ (UNCHANGED budget \/ Fault)
         /\ UNCHANGED <<conf, journal, integration, map, rule, run>>
         /\ unit' = [unit EXCEPT ![dev] = u] \/ unit' = unit
         /\ \/ unit' = [unit EXCEPT ![dev] = u] /\ proc' = After(next)
            \/ proc' = After(Raise) \/ proc' = After("incomplete")
  <2>1. CASE StartUnit
    <3>1. proc.pc = "unit" /\ proc.mode \in {"first", "rearm"}
      BY <2>1, Types DEF StartUnit, Attempt, Proc
    <3>2. PICK u \in Owners : u = [st |-> "inactive", mode |-> proc.mode]  BY <3>1 DEF Owners
    <3> QED  BY <2>1, <3>1, <3>2 DEF StartUnit, Attempt, Units, Goto, saved, runtime
  <2>2. CASE StartStart
    <3>1. proc.pc = "start"  BY <2>2 DEF StartStart, Attempt
    <3>2. dev \in Device  BY <3>1, StartKnows DEF StartPc
    <3>3. PICK u \in Owners : u = [unit[dev] EXCEPT !.st = "queued"]  BY <3>2, Types DEF Owners
    <3>4. u.st = "queued"  BY <3>2, <3>3, Types DEF Owners
    <3> QED  BY <2>2, <3>1, <3>3, <3>4 DEF StartStart, Attempt, Units, Goto, saved, runtime
  <2> QED  BY <2>1, <2>2
<1>2. /\ proc.pc \in StartPc /\ proc.pc \in DirPc /\ proc.pc \in RecordPc /\ proc.pc \in RulePc
      /\ proc.pc \in NoOwnerPc /\ proc.pc \in ReceiptPc
  BY <1>0 DEF StartPc, NoOwnerPc, ReceiptPc, RulePc, RecordPc, DirPc
<1>3. /\ dev \in Device /\ unit[dev].st \in {"none", "inactive"} /\ rule[dev] /\ run[dev].record
      /\ conf[dev] # "none" /\ journal[dev].phase = "enabling"
  BY <1>2, StartKnows
<1>4. run[dev].dir
  BY <1>2, StartKnows
<1>5. ~ SaysStopped(dev) /\ QueueKnown(dev) /\ (run[dev].native # "none" => run[dev].dir)
  BY <1>3, Types DEF DevicesOK, SaysStopped
<1>6. /\ unit' \in [Device -> Owners] /\ (\A x \in Device : x # dev => unit'[x] = unit[x])
      /\ unit'[dev] = u \/ unit'[dev] = unit[dev]
  BY <1>0, <1>3, Types
<1>7. DataOK' /\ DevicesOK'
  <2>1. unit'[dev].st # "active"  BY <1>0, <1>3, <1>6
  <2>2. /\ map' \in [Device -> Maps] /\ run' \in [Device -> RunDir]
        /\ \A x \in Device : map'[x] = map[x] /\ run'[x] = run[x]
    BY <1>0, Types
  <2>3. map'[dev].queue => \/ run'[dev].native = "live"
                           \/ run'[dev].native = "none" /\ map'[dev].adopted
    BY <1>0, <1>5 DEF QueueKnown
  <2> QED  BY <1>0, <1>3, <1>4, <1>5, <1>6, <2>1, <2>2, <2>3, UnitOK
<1>8. proc' \in Proc /\ CommandOK(proc)'
  <2>1. CASE proc' = After(Raise)  BY <1>0, <2>1, <1>2, RaiseOK
  <2>2. CASE proc' = After("incomplete")
    <3>1. "incomplete" \in StartPc /\ "incomplete" \notin NoOwnerPc \cup ReceiptPc \cup RulePc \cup RecordPc \cup DirPc
      BY DEF StartPc, NoOwnerPc, ReceiptPc, RulePc, RecordPc, DirPc
    <3> QED  BY <1>0, <1>2, <2>2, <3>1, StartGo
  <2>3. CASE unit' = [unit EXCEPT ![dev] = u] /\ proc' = After(next)
    <3>1. CASE next = "start"
      <4>1. unit'[dev].st = "inactive"  BY <1>0, <2>3, <3>1, <1>3, Types
      <4>2. "start" \in StartPc  BY DEF StartPc
      <4> QED  BY <1>0, <1>2, <1>3, <1>4, <2>3, <3>1, <4>1, <4>2, StartGo
    <3>2. CASE next = "wait"
      <4>1. "wait" \in StartPc /\ "wait" \notin NoOwnerPc \cup ReceiptPc \cup RulePc \cup RecordPc \cup DirPc
        BY DEF StartPc, NoOwnerPc, ReceiptPc, RulePc, RecordPc, DirPc
      <4> QED  BY <1>0, <1>2, <2>3, <3>2, <4>1, StartGo
    <3> QED  BY <3>1, <3>2
  <2> QED  BY <1>0, <2>1, <2>2, <2>3
<1> QED  BY <1>0, <1>7, <1>8, StepRest, PartsNext

LEMMA StartWaitOK == ASSUME DInv, StartWait PROVE DInv'
<1>1. /\ proc.pc = "wait" /\ UNCHANGED <<saved, runtime, tools, disk, answers>>
      /\ (UNCHANGED budget \/ Fault)
      /\ proc' = After("ready") \/ proc' = After("incomplete")
  BY DEF StartWait, Require, Goto
<1>2. UNCHANGED conf /\ proc.pc \in StartPc  BY <1>1 DEF saved, StartPc
<1>3. {"ready", "incomplete"} \subseteq StartPc
      /\ {"ready", "incomplete"} \cap (NoOwnerPc \cup ReceiptPc \cup RulePc \cup RecordPc \cup DirPc) = {}
  BY DEF StartPc, NoOwnerPc, ReceiptPc, RulePc, RecordPc, DirPc
<1>4. proc' \in Proc /\ CommandOK(proc)'
  BY <1>1, <1>2, <1>3, StartGo
<1> QED  BY <1>1, <1>4, StepRest, QuietOK

LEMMA StartRamOK == ASSUME DInv, StartRam PROVE DInv'
<1>1. /\ proc.pc = "ram" /\ UNCHANGED <<saved, runtime, ram, disk, answers, budget>>
      /\ \/ PrepGoto("check") /\ UNCHANGED proc
         \/ prep' = NoPrep /\ (proc' = After("enabling") \/ proc' = After(Raise))
  BY DEF StartRam, Goto
<1>2. ToolsTypeOK'
  BY <1>1, Parts DEF RestOK, ToolsTypeOK, PrepGoto, NoPrep, PrepPc
<1>3. RestOK'  BY <1>1, <1>2, Parts DEF RestOK, answers
<1>4. UNCHANGED <<conf, journal, integration, rule, run, unit, late>>  BY <1>1 DEF saved, runtime, answers
<1>5. proc.pc \in StartPc /\ proc.pc \in NoOwnerPc  BY <1>1 DEF StartPc, NoOwnerPc
<1>6. proc' \in Proc /\ CommandOK(proc)'
  <2>1. CASE UNCHANGED proc
    BY <1>4, <2>1, Types DEF CommandOK, UnitRuns, TookOver, Unqueued, Ended
  <2>2. CASE proc' = After(Raise)  BY <1>4, <1>5, <2>2, RaiseOK
  <2>3. CASE proc' = After("enabling")
    <3>1. unit[dev].st \in {"none", "inactive"}  BY <1>5, StartKnows
    <3>2. "enabling" \in StartPc /\ "enabling" \notin ReceiptPc \cup RulePc \cup RecordPc \cup DirPc
      BY DEF StartPc, ReceiptPc, RulePc, RecordPc, DirPc
    <3> QED  BY <1>4, <1>5, <2>3, <3>1, <3>2, StartGo
  <2> QED  BY <1>1, <2>1, <2>2, <2>3
<1> QED  BY <1>1, <1>3, <1>6, QuietOK

LEMMA StartOK == ASSUME DInv, Start PROVE DInv'
BY StartLooksOK, StartReceiptsOK, StartRuleOK, StartCreateOK, StartRunsOK, StartUnitsOK, StartWaitOK,
   StartRamOK DEF Start

-----------------------------------------------------------------------------
(* The owners, the environment and the tools: no command moves.                 *)

LEMMA StillOK ==
  ASSUME DInv, UNCHANGED <<conf, journal, integration, rule, proc>>, UNCHANGED answers,
         \A x \in Device : /\ UnitRuns(x)' => UnitRuns(x)
                           /\ unit'[x].st = "queued" => unit[x].st = "queued"
                           /\ run[x].record => run'[x].record
                           /\ run[x].dir => run'[x].dir
                           /\ run[x].native # "none" => run'[x].native # "none"
                           /\ ~ UnitRuns(x) => run'[x] = run[x]
  PROVE  proc' \in Proc /\ CommandOK(proc)'
<1>1. proc.pc \in NoOwnerPc \cup ReceiptPc \cup RulePc \cup RecordPc \cup DirPc \cup EnrollPc \cup AskPc
                  \cup StoppedPc \cup {"confirm"}
         => proc.dev \in Device
  BY HasDevice, Types DEF Proc, NoOwnerPc, ReceiptPc, RulePc, RecordPc, DirPc, EnrollPc, AskPc, StoppedPc,
     EmptyPc, dev
<1>l. late' = late  BY DEF answers
<1>2. \A x \in Device : TookOver(x) => TookOver(x)'
  BY DEF TookOver
<1>n. ~ NoRun.record  BY DEF NoRun
<1>3. ASSUME NEW x \in Device, run[x] = NoRun PROVE run'[x] = NoRun
  <2>1. ~ UnitRuns(x)  BY <1>3, <1>n, Types DEF DevicesOK
  <2> QED  BY <1>3, <2>1
<1>4. \A x \in Device : Unqueued(x) => Unqueued(x)'
  BY <1>l DEF Unqueued
<1>5. \A x \in Device : Ended(x) => Ended(x)'
  BY <1>l DEF Ended, UnitRuns
<1> QED  BY <1>1, <1>2, <1>3, <1>4, <1>5, Types DEF CommandOK

\* A new state of an owner's run-time directory.
LEMMA NativeRun ==
  ASSUME DInv, NEW d \in Device, NEW v \in {"live", "interrupted"}, run' = [run EXCEPT ![d].native = v]
  PROVE  /\ run' \in [Device -> RunDir] /\ run'[d].native = v
         /\ run'[d].record = run[d].record /\ run'[d].dir = run[d].dir
         /\ \A x \in Device : x # d => run'[x] = run[x]
<1>1. PICK r \in RunDir : r = [run[d] EXCEPT !.native = v]  BY Types DEF RunDir
<1>r. run[d] \in RunDir  BY Types
<1>2. r.native = v /\ r.record = run[d].record /\ r.dir = run[d].dir
  BY <1>1, <1>r DEF RunDir
<1>3. run' = [run EXCEPT ![d] = r]  BY <1>1
<1>4. run \in [Device -> RunDir]  BY Types
<1> QED  BY <1>2, <1>3, <1>4

LEMMA NativeMap ==
  ASSUME DInv, NEW d \in Device, NEW v \in BOOLEAN, map' = [map EXCEPT ![d].queue = v]
  PROVE  /\ map' \in [Device -> Maps] /\ (map'[d].queue <=> v)
         /\ \A x \in Device : x # d => map'[x] = map[x]
<1>1. PICK m \in Maps : m = [map[d] EXCEPT !.queue = v]  BY Types DEF Maps
<1>2. m.queue = v  BY <1>1, Types DEF Maps
<1>3. map' = [map EXCEPT ![d] = m]  BY <1>1
<1> QED  BY <1>2, <1>3, Types

\* What an owner's step leaves: its journal is opened and closed by it alone, and the map
\* queues only while the journal is open.
LEMMA NativeStep ==
  ASSUME DInv, NEW d \in Device, Native(d)
  PROVE  /\ UNCHANGED <<saved, rule, tools, disk, proc, answers, budget>>
         /\ unit' \in [Device -> Owners] /\ map' \in [Device -> Maps] /\ run' \in [Device -> RunDir]
         /\ \A x \in Device : x # d => unit'[x] = unit[x] /\ map'[x] = map[x] /\ run'[x] = run[x]
         /\ unit[d].st \in Running /\ unit'[d].st # "queued"
         /\ map'[d].queue => \/ run'[d].native = "live"
                             \/ run'[d].native = "none" /\ map'[d].adopted
         /\ run'[d].record = run[d].record /\ run'[d].dir = run[d].dir
         /\ run[d].native # "none" => run'[d].native # "none"
         /\ unit'[d].st = "active" => run'[d].native # "none"
<1>q. map[d].queue => \/ run[d].native = "live"
                      \/ run[d].native = "none" /\ map[d].adopted
  BY Types DEF DevicesOK, QueueKnown
<1>u. ASSUME NEW st \in {"starting", "active", "takeover", "inactive"}, unit' = [unit EXCEPT ![d].st = st]
      PROVE  /\ unit' \in [Device -> Owners] /\ unit'[d].st = st
             /\ \A x \in Device : x # d => unit'[x] = unit[x]
  <2>1. PICK u \in Owners : u = [unit[d] EXCEPT !.st = st]  BY Types DEF Owners
  <2>2. u.st = st  BY <2>1, Types DEF Owners
  <2>3. unit' = [unit EXCEPT ![d] = u]  BY <1>u, <2>1
  <2> QED  BY <2>2, <2>3, Types
<1>1. CASE UnitLocks(d)
  <2>1. /\ unit[d].st = "queued" /\ unit' = [unit EXCEPT ![d].st = "starting"]
        /\ UNCHANGED <<saved, map, rule, run, tools, disk, proc, answers, budget>>
    BY <1>1 DEF UnitLocks
  <2> QED  BY <2>1, <1>u, <1>q, Types DEF Running
<1>2. CASE UnitBegins(d)
  <2>1. /\ unit[d].st = "starting" /\ run' = [run EXCEPT ![d].native = "live"]
        /\ UNCHANGED <<saved, map, rule, unit, tools, disk, proc, answers, budget>>
    BY <1>2 DEF UnitBegins
  <2> QED  BY <2>1, NativeRun, Types DEF Running
<1>3. CASE UnitQueues(d)
  <2>1. /\ unit[d].st = "starting" /\ run[d].native = "live" /\ map' = [map EXCEPT ![d].queue = TRUE]
        /\ UNCHANGED <<saved, rule, run, unit, tools, disk, proc, answers, budget>>
    BY <1>3 DEF UnitQueues
  <2> QED  BY <2>1, NativeMap, Types DEF Running
<1>4. CASE UnitUp(d)
  <2>1. /\ unit[d].st = "starting" /\ run[d].native = "live" /\ unit' = [unit EXCEPT ![d].st = "active"]
        /\ UNCHANGED <<saved, map, rule, run, tools, disk, proc, answers, budget>>
    BY <1>4 DEF UnitUp
  <2> QED  BY <2>1, <1>u, <1>q, Types DEF Running
<1>5. CASE UnitFails(d)
  <2>1. /\ unit[d].st \in {"starting", "active"} /\ unit' = [unit EXCEPT ![d].st = "takeover"]
        /\ UNCHANGED <<saved, map, rule, run, tools, disk, proc, answers, budget>>
    BY <1>5 DEF UnitFails
  <2> QED  BY <2>1, <1>u, <1>q, Types DEF Running
<1>6. CASE UnitTakeover(d)
  <2>1. /\ unit[d].st = "takeover" /\ unit' = [unit EXCEPT ![d].st = "inactive"]
        /\ UNCHANGED <<saved, rule, tools, disk, proc, answers, budget>>
    BY <1>6 DEF UnitTakeover
  <2>2. CASE UNCHANGED <<map, run>>
    BY <2>1, <2>2, <1>u, <1>q, Types DEF Running
  <2>3. CASE Reconciles(d)
    <3>1. /\ map' = [map EXCEPT ![d].queue = FALSE]
          /\ run' = [run EXCEPT ![d].native = "interrupted"] \/ run' = run
      BY <2>3 DEF Reconciles
    <3>2. /\ map' \in [Device -> Maps] /\ ~ map'[d].queue
          /\ \A x \in Device : x # d => map'[x] = map[x]
      BY <3>1, NativeMap
    <3>3. CASE run' = [run EXCEPT ![d].native = "interrupted"]
      BY <2>1, <3>2, <3>3, <1>u, NativeRun DEF Running
    <3>4. CASE run' = run
      BY <2>1, <3>2, <3>4, <1>u, Types DEF Running
    <3> QED  BY <3>1, <3>3, <3>4
  <2> QED  BY <1>6, <2>2, <2>3 DEF UnitTakeover
<1> QED  BY <1>1, <1>2, <1>3, <1>4, <1>5, <1>6 DEF Native

LEMMA NativeOK == ASSUME DInv, NEW d \in Device, Native(d) PROVE DInv'
<1>1. /\ UNCHANGED <<saved, rule, tools, disk, proc, answers, budget>>
      /\ unit' \in [Device -> Owners] /\ map' \in [Device -> Maps] /\ run' \in [Device -> RunDir]
      /\ \A x \in Device : x # d => unit'[x] = unit[x] /\ map'[x] = map[x] /\ run'[x] = run[x]
      /\ unit[d].st \in Running /\ unit'[d].st # "queued"
      /\ map'[d].queue => \/ run'[d].native = "live"
                          \/ run'[d].native = "none" /\ map'[d].adopted
      /\ run'[d].record = run[d].record /\ run'[d].dir = run[d].dir
      /\ run[d].native # "none" => run'[d].native # "none"
      /\ unit'[d].st = "active" => run'[d].native # "none"
  BY NativeStep
<1>2. UNCHANGED <<conf, journal, integration, rule, proc>>  BY <1>1 DEF saved
<1>3. UnitRuns(d)  BY <1>1 DEF UnitRuns, Running
<1>4. run[d].record /\ run[d].dir /\ (SaysStopped(d) => d \in late)
  BY <1>3, Types DEF DevicesOK, Ended
<1>5. DataOK' /\ DevicesOK'  BY <1>1, <1>2, <1>4, UnitOK
<1>6. \A x \in Device : /\ UnitRuns(x)' => UnitRuns(x)
                        /\ unit'[x].st = "queued" => unit[x].st = "queued"
                        /\ run[x].record => run'[x].record
                        /\ run[x].dir => run'[x].dir
                        /\ run[x].native # "none" => run'[x].native # "none"
                        /\ ~ UnitRuns(x) => run'[x] = run[x]
  BY <1>1, <1>3 DEF UnitRuns
<1>7. proc' \in Proc /\ CommandOK(proc)'  BY <1>1, <1>2, <1>6, StillOK
<1>8. RestOK'  BY <1>1, Parts DEF RestOK, tools, answers, ToolsTypeOK
<1> QED  BY <1>5, <1>7, <1>8, PartsNext

LEMMA MapStillOK ==
  ASSUME DInv, UNCHANGED <<conf, journal, integration, rule, run, unit, proc>>, UNCHANGED answers,
         map' \in [Device -> Maps], QueuesLess, RestOK'
  PROVE  DInv'
<1>1. DataOK' /\ DevicesOK'  BY MapOK
<1>2. \A x \in Device : UnitRuns(x)' => UnitRuns(x)  BY DEF UnitRuns
<1>3. proc' \in Proc /\ CommandOK(proc)'  BY <1>2, StillOK
<1> QED  BY <1>1, <1>3, PartsNext

LEMMA ConsumerOK == ASSUME DInv, NEW d \in Device, Consumer(d) PROVE DInv'
<1>1. /\ map' = [map EXCEPT ![d].open = ~ map[d].open]
      /\ UNCHANGED <<conf, journal, integration, rule, run, unit, tools, disk, proc, answers, budget>>
  BY DEF Consumer, saved
<1>2. PICK m \in Maps : m = [map[d] EXCEPT !.open = ~ map[d].open]  BY Types DEF Maps
<1>3. m.queue = map[d].queue /\ m.adopted = map[d].adopted  BY <1>2, Types DEF Maps
<1>4. map' = [map EXCEPT ![d] = m]  BY <1>1, <1>2
<1>5. map' \in [Device -> Maps] /\ QueuesLess
  BY <1>3, <1>4, Types DEF QueuesLess
<1>6. RestOK'  BY <1>1, Parts DEF RestOK, tools, answers, ToolsTypeOK
<1> QED  BY <1>1, <1>5, <1>6, MapStillOK

LEMMA EditOK == ASSUME DInv, Edit PROVE DInv'
<1>1. PICK d \in Device : map' = [map EXCEPT ![d] = NoMap]  BY DEF Edit
<1>2. /\ budget.edits > 0 /\ budget' = [budget EXCEPT !.edits = budget.edits - 1]
      /\ UNCHANGED <<conf, journal, integration, rule, run, unit, tools, disk, proc, answers>>
  BY DEF Edit, saved
<1>3. NoMap \in Maps /\ ~ NoMap.queue  BY DEF Maps, NoMap
<1>4. map' \in [Device -> Maps] /\ QueuesLess
  BY <1>1, <1>3, Types DEF QueuesLess
<1>5. budget' \in [{"faults", "crashes", "edits", "reboots"} -> Nat]
  BY <1>2, Parts DEF RestOK
<1>6. RestOK'  BY <1>2, <1>5, Parts DEF RestOK, tools, answers, ToolsTypeOK
<1> QED  BY <1>2, <1>4, <1>6, MapStillOK

LEMMA PlugOK == ASSUME DInv, NEW d \in Device, Plug(d) PROVE DInv'
<1>1. /\ disk' = [disk EXCEPT ![d] = ~ disk[d]] /\ UNCHANGED <<tools, answers, budget, saved, runtime, proc>>
  BY DEF Plug
<1>2. disk' \in [Device -> BOOLEAN]  BY <1>1, Types
<1>3. RestOK'  BY <1>1, <1>2, Parts DEF RestOK, tools, answers, ToolsTypeOK
<1>4. UNCHANGED <<conf, journal, integration, rule, run, unit, proc>>  BY <1>1 DEF saved, runtime
<1>5. \A x \in Device : UnitRuns(x)' => UnitRuns(x)  BY <1>4 DEF UnitRuns
<1>6. proc' \in Proc /\ CommandOK(proc)'  BY <1>1, <1>4, <1>5, StillOK
<1> QED  BY <1>1, <1>3, <1>6, QuietOK

LEMMA CrashOK == ASSUME DInv, Crash PROVE DInv'
<1>1. /\ budget.crashes > 0 /\ budget' = [budget EXCEPT !.crashes = budget.crashes - 1]
      /\ proc' = Idle /\ prep' = NoPrep /\ UNCHANGED <<saved, runtime, ram, disk, answers>>
  BY DEF Crash
<1>2. budget' \in [{"faults", "crashes", "edits", "reboots"} -> Nat]
  BY <1>1, Parts DEF RestOK
<1>3. ToolsTypeOK'  BY <1>1, Parts DEF RestOK, ToolsTypeOK, NoPrep, PrepPc
<1>4. RestOK'  BY <1>1, <1>2, <1>3, Parts DEF RestOK, answers
<1> QED  BY <1>1, <1>4, IdleOK, QuietOK

LEMMA NoToolsOK ==
  /\ NoTools \in [{"dir", "base", "bound", "pin", "alias", "receipt"} -> BOOLEAN]
  /\ NoPrep \in [pc : PrepPc, mounted : SUBSET Mounts]
<1>1. DOMAIN NoTools = {"dir", "base", "bound", "pin", "alias", "receipt"}  BY DEF NoTools
<1>2. /\ NoTools = [x \in DOMAIN NoTools |-> NoTools[x]]
      /\ \A x \in {"dir", "base", "bound", "pin", "alias", "receipt"} : NoTools[x] \in BOOLEAN
  BY DEF NoTools
<1>3. NoTools \in [{"dir", "base", "bound", "pin", "alias", "receipt"} -> BOOLEAN]
  BY <1>1, <1>2
<1>4. NoPrep \in [pc : PrepPc, mounted : SUBSET Mounts]  BY DEF NoPrep, PrepPc
<1> QED  BY <1>3, <1>4

\* After a reboot no receipt is of this boot, and no owner runs.
LEMMA RebootOK == ASSUME DInv, Reboot PROVE DInv'
<1>1. /\ proc = Idle /\ proc' = proc /\ UNCHANGED <<conf, integration, disk>>
      /\ budget.reboots > 0 /\ budget' = [budget EXCEPT !.reboots = budget.reboots - 1]
      /\ ram' = NoTools /\ prep' = NoPrep /\ result' = "none" /\ late' = {}
      /\ map' = [x \in Device |-> NoMap] /\ rule' = [x \in Device |-> FALSE]
      /\ run' = [x \in Device |-> NoRun]
      /\ unit' = [x \in Device |-> [st |-> "none", mode |-> "first"]]
      /\ journal' = [x \in Device |-> [journal[x] EXCEPT !.now = FALSE]]
  BY DEF Reboot
<1>2. budget' \in [{"faults", "crashes", "edits", "reboots"} -> Nat]
  BY <1>1, Parts DEF RestOK
<1>3. ToolsTypeOK'  BY <1>1, NoToolsOK DEF ToolsTypeOK
<1>4. RestOK'  BY <1>1, <1>2, <1>3, Parts DEF RestOK
<1>5. journal' \in [Device -> [phase : Phase, now : BOOLEAN]] /\ \A x \in Device : ~ journal'[x].now
  BY <1>1, Types
<1>6. NoMap \in Maps /\ ~ NoMap.queue /\ NoRun \in RunDir /\ NoRun.native = "none"
  BY DEF NoMap, Maps, NoRun, RunDir
<1>7. unit' \in [Device -> Owners] /\ \A x \in Device : unit'[x].st = "none"
  BY <1>1 DEF Owners
<1>8. DataOK'  BY <1>1, <1>5, <1>6, <1>7, Types DEF DataOK
<1>9. DevicesOK'
  BY <1>1, <1>5, <1>6, <1>7, Types DEF DevicesOK, ConsentHasIntegration, ActiveIsTrue,
     ConfigOutlivesOwner, QueueKnown, SaysStopped, Ended, UnitRuns
<1>10. proc' \in Proc /\ CommandOK(proc)'  BY <1>1, IdleOK
<1> QED  BY <1>4, <1>8, <1>9, <1>10, PartsNext

\* Preparing the tools keeps their type.
LEMMA PrepareOK == ASSUME DInv, PrepareTools PROVE DInv'
<1>1. Prepare /\ UNCHANGED <<saved, runtime, disk, proc, answers>>  BY DEF PrepareTools
<1>2. /\ ram \in [{"dir", "base", "bound", "pin", "alias", "receipt"} -> BOOLEAN]
      /\ prep \in [pc : PrepPc, mounted : SUBSET Mounts]
      /\ budget \in [{"faults", "crashes", "edits", "reboots"} -> Nat]
  BY Parts DEF RestOK, ToolsTypeOK
<1>3. ASSUME NEW next \in PrepPc, PrepGoto(next)
      PROVE  prep' \in [pc : PrepPc, mounted : SUBSET Mounts]
  BY <1>2, <1>3 DEF PrepGoto
<1>p. PrepPc = {"off", "check", "repin", "dir", "base", "bind", "pin", "alias", "receipt",
                "undo_pin", "undo_bound", "undo_base", "undo_dir", "done", "failed"}
  BY DEF PrepPc
<1>4. ASSUME NEW at, NEW what \in {"dir", "base", "bound", "pin", "alias", "receipt"},
             NEW next \in PrepPc, NEW handler \in PrepPc, Make(at, what, next, handler)
      PROVE  ToolsTypeOK' /\ budget' \in [{"faults", "crashes", "edits", "reboots"} -> Nat]
  <2>1. ram' \in [{"dir", "base", "bound", "pin", "alias", "receipt"} -> BOOLEAN]
    BY <1>2, <1>4 DEF Make
  <2>2. prep' \in [pc : PrepPc, mounted : SUBSET Mounts]
    <3>1. CASE prep' = [pc |-> next, mounted |-> prep.mounted \cup ({what} \cap Mounts)]
      <4>1. prep.mounted \in SUBSET Mounts  BY <1>2
      <4>2. prep.mounted \cup ({what} \cap Mounts) \in SUBSET Mounts  BY <4>1
      <4> QED  BY <3>1, <4>2
    <3>2. CASE PrepGoto(handler)  BY <3>2, <1>3
    <3> QED  BY <1>4, <3>1, <3>2 DEF Make
  <2>3. budget' \in [{"faults", "crashes", "edits", "reboots"} -> Nat]
    BY <1>2, <1>4 DEF Make, Fault
  <2> QED  BY <2>1, <2>2, <2>3 DEF ToolsTypeOK
<1>5. ASSUME NEW at, NEW what \in {"base", "bound", "pin"}, NEW next \in PrepPc, Undo(at, what, next)
      PROVE  ToolsTypeOK' /\ budget' \in [{"faults", "crashes", "edits", "reboots"} -> Nat]
  <2>1. ram' = ram \/ ram' = [ram EXCEPT ![what] = FALSE]  BY <1>5 DEF Undo
  <2>2. PrepGoto(next) \/ PrepGoto("failed")  BY <1>5 DEF Undo
  <2>3. budget' = budget \/ Fault  BY <1>5 DEF Undo
  <2>4. prep' \in [pc : PrepPc, mounted : SUBSET Mounts]  BY <2>2, <1>3, <1>p
  <2>5. ram' \in [{"dir", "base", "bound", "pin", "alias", "receipt"} -> BOOLEAN]
    BY <2>1, <1>2
  <2>6. budget' \in [{"faults", "crashes", "edits", "reboots"} -> Nat]
    BY <2>3, <1>2, FaultOK
  <2> QED  BY <2>4, <2>5, <2>6 DEF ToolsTypeOK
<1>6. ToolsTypeOK' /\ budget' \in [{"faults", "crashes", "edits", "reboots"} -> Nat]
  <2>1. CASE PrepareCheck
    <3>1. PICK next \in {"repin", "dir", "failed"} : PrepGoto(next)  BY <2>1 DEF PrepareCheck
    <3>2. UNCHANGED <<ram, budget>>  BY <2>1 DEF PrepareCheck
    <3> QED  BY <3>1, <3>2, <1>2, <1>3, <1>p DEF ToolsTypeOK
  <2>2. CASE PrepareRepin  BY <2>2, <1>4, <1>p DEF PrepareRepin
  <2>3. CASE PrepareDir  BY <2>3, <1>4, <1>p DEF PrepareDir
  <2>4. CASE PrepareBase  BY <2>4, <1>4, <1>p DEF PrepareBase
  <2>5. CASE PrepareBind  BY <2>5, <1>4, <1>p DEF PrepareBind
  <2>6. CASE PreparePin  BY <2>6, <1>4, <1>p DEF PreparePin
  <2>7. CASE PrepareAlias  BY <2>7, <1>4, <1>p DEF PrepareAlias
  <2>8. CASE PrepareReceipt  BY <2>8, <1>4, <1>p DEF PrepareReceipt
  <2>9. CASE PrepareUndo
    <3>1. CASE UndoDir
      <4>1. /\ ram' = [ram EXCEPT !.dir = ram.base] /\ PrepGoto("failed") /\ UNCHANGED budget
        BY <3>1 DEF UndoDir
      <4>2. ram.base \in BOOLEAN  BY <1>2
      <4>3. ram' \in [{"dir", "base", "bound", "pin", "alias", "receipt"} -> BOOLEAN]
        BY <4>1, <4>2, <1>2
      <4> QED  BY <4>1, <4>3, <1>2, <1>3, <1>p DEF ToolsTypeOK
    <3>2. CASE Undo("undo_pin", "pin", "undo_bound")  BY <3>2, <1>5, <1>p
    <3>3. CASE Undo("undo_bound", "bound", "undo_base")  BY <3>3, <1>5, <1>p
    <3>4. CASE Undo("undo_base", "base", "undo_dir")  BY <3>4, <1>5, <1>p
    <3> QED  BY <2>9, <3>1, <3>2, <3>3, <3>4 DEF PrepareUndo
  <2> QED
    BY <1>1, <2>1, <2>2, <2>3, <2>4, <2>5, <2>6, <2>7, <2>8, <2>9 DEF Prepare
<1>7. RestOK'  BY <1>1, <1>6, Parts DEF RestOK, answers
<1>8. UNCHANGED <<conf, journal, integration, rule, run, unit, proc>>  BY <1>1 DEF saved, runtime
<1>9. \A x \in Device : UnitRuns(x)' => UnitRuns(x)  BY <1>8 DEF UnitRuns
<1>10. proc' \in Proc /\ CommandOK(proc)'  BY <1>1, <1>8, <1>9, StillOK
<1> QED  BY <1>1, <1>7, <1>10, QuietOK

-----------------------------------------------------------------------------
(* The invariant.                                                            *)

LEMMA InitOK == ASSUME Init PROVE DInv
<1>1. /\ ram = NoTools /\ prep = NoPrep /\ budget = Budget
      /\ conf = [d \in Device |-> "none"]
      /\ journal = [d \in Device |-> [phase |-> "none", now |-> FALSE]]
      /\ integration = "none"
      /\ rule = [d \in Device |-> FALSE]
      /\ run = [d \in Device |-> NoRun]
      /\ unit = [d \in Device |-> [st |-> "none", mode |-> "first"]]
      /\ disk = [d \in Device |-> TRUE]
      /\ proc = Idle /\ result = "none" /\ late = {}
  BY DEF Init
<1>2. PICK existing \in SUBSET Device, adopted \in SUBSET Device :
         map = [d \in Device |-> [present |-> d \in existing, open |-> FALSE,
                                  queue |-> d \in adopted, adopted |-> d \in adopted]]
  BY DEF Init
<1>3. ASSUME NEW p \in BOOLEAN, NEW a \in BOOLEAN
      PROVE  LET m == [present |-> p, open |-> FALSE, queue |-> a, adopted |-> a]
             IN  m \in Maps /\ m.queue = a /\ m.adopted = a
  BY DEF Maps
<1>4. map \in [Device -> Maps] /\ \A d \in Device : map[d].queue => map[d].adopted
  <2>1. ASSUME NEW d \in Device PROVE map[d] \in Maps /\ (map[d].queue => map[d].adopted)
    <3>1. PICK p \in BOOLEAN, a \in BOOLEAN : (p <=> d \in existing) /\ (a <=> d \in adopted)
      OBVIOUS
    <3>2. p = (d \in existing) /\ a = (d \in adopted)  BY <3>1
    <3>3. map[d] = [present |-> p, open |-> FALSE, queue |-> a, adopted |-> a]
      BY <1>2, <3>2
    <3> QED  BY <3>3, <1>3
  <2> QED  BY <2>1, <1>2
<1>5. /\ NoRun \in RunDir /\ [st |-> "none", mode |-> "first"] \in Owners
      /\ [phase |-> "none", now |-> FALSE] \in [phase : Phase, now : BOOLEAN]
      /\ NoRun.native = "none"
  BY DEF NoRun, RunDir, Owners, Phase
<1>6. DataOK  BY <1>1, <1>4, <1>5 DEF DataOK
<1>7. RestOK  BY <1>1, NoToolsOK, BudgetAssumption DEF RestOK, ToolsTypeOK
<1>8. \A d \in Device : /\ unit[d].st = "none" /\ conf[d] = "none" /\ ~ journal[d].now
                        /\ run[d].native = "none"
  BY <1>1, <1>5
<1>9. DevicesOK
  BY <1>4, <1>8 DEF DevicesOK, ConsentHasIntegration, ActiveIsTrue, ConfigOutlivesOwner,
     QueueKnown, SaysStopped, UnitRuns
<1>10. proc \in Proc /\ CommandOK(proc)
  BY <1>1 DEF Idle, Proc, Command, Pc, CommandOK, ConfPc, StartPc, EmptyPc, NoOwnerPc, ReceiptPc, RulePc,
     RecordPc, DirPc, EnrollPc, AskPc, StoppedPc
<1> QED  BY <1>6, <1>7, <1>9, <1>10, Parts

LEMMA NextOK == ASSUME DInv, Next PROVE DInv'
<1>1. CASE Enroll
  <2>1. CASE \E x \in Device : EnrollBegin(x)  BY <2>1, BeginsOK DEF Begins
  <2> QED  BY <1>1, <2>1, EnrollStepsOK DEF Enroll
<1>2. CASE Enable
  <2>1. CASE \E x \in Device : EnableBegin(x)  BY <2>1, BeginsOK DEF Begins
  <2> QED  BY <1>2, <2>1, EnableStepsOK DEF Enable
<1>3. CASE Start  BY <1>3, StartOK
<1>4. CASE Stop
  <2>1. CASE \E x \in Device : StopBegin(x) \/ DisableBegin(x)  BY <2>1, BeginsOK DEF Begins
  <2> QED  BY <1>4, <2>1, StopStepsOK, StopAskOK DEF Stop
<1>5. CASE Remove
  <2>1. CASE \E x \in Device : RemoveBegin(x)  BY <2>1, BeginsOK DEF Begins
  <2> QED  BY <1>5, <2>1, RemoveStepsOK DEF Remove
<1>6. CASE Boot  BY <1>6, BootOK
<1>7. CASE Uninstall
  <2>1. CASE UninstallBegin  BY <2>1, BeginsOK DEF Begins
  <2> QED  BY <1>7, <2>1, UninstallStepsOK DEF Uninstall
<1>8. CASE PrepareTools  BY <1>8, PrepareOK
<1>9. CASE \E x \in Device : Native(x) \/ Consumer(x) \/ Plug(x)
  BY <1>9, NativeOK, ConsumerOK, PlugOK
<1>10. CASE Edit \/ Crash \/ Reboot  BY <1>10, EditOK, CrashOK, RebootOK
<1> QED
  BY <1>1, <1>2, <1>3, <1>4, <1>5, <1>6, <1>7, <1>8, <1>9, <1>10 DEF Next

\* The strengthened invariant holds in every reachable state, whatever fails.
THEOREM Established == Spec => []DInv
<1>1. Init => DInv  BY InitOK
<1>2. DInv /\ [Next]_vars => DInv'
  <2> SUFFICES ASSUME DInv, [Next]_vars PROVE DInv'  OBVIOUS
  <2>1. CASE Next  BY <2>1, NextOK
  <2>2. CASE UNCHANGED vars
    <3>1. UNCHANGED <<saved, runtime, tools, disk, answers, budget, proc>>  BY <2>2 DEF vars
    <3>2. UNCHANGED <<conf, journal, integration, rule, run, unit, late>>
      BY <3>1 DEF saved, runtime, answers
    <3>3. proc' \in Proc /\ CommandOK(proc)'
      BY <3>1, <3>2, Types DEF CommandOK, UnitRuns, TookOver, Unqueued, Ended
    <3> QED  BY <3>1, <3>3, StepRest, QuietOK
  <2> QED  BY <2>1, <2>2
<1> QED  BY <1>1, <1>2, PTL DEF Spec

\* Every variable keeps its type: no receipt with a phase that no reader knows.
THEOREM LifeTypes == Spec => []TypeOK
<1>1. DInv => TypeOK  BY DEF DInv
<1> QED  BY <1>1, Established, PTL

\* The consent to protect a device at boot is only ever saved with the boot unit in
\* place, for any number of devices and of failures of enable and uninstall.
THEOREM ConsentIntegrated == Spec => []ConsentHasIntegration
<1>1. DInv => ConsentHasIntegration  BY DEF DInv, DevicesOK
<1> QED  BY <1>1, Established, PTL

\* Every map that queues I/O does so under an owner's open journal, or was adopted as it
\* queued and has had no owner; and a receipt of this boot that says "stopped" or
\* "disabled" is never of an open journal, but for a late start job.
THEOREM QueueAccounted == Spec => []QueueIsAccounted
<1>1. DInv => QueueIsAccounted
  BY Types DEF DevicesOK, QueueIsAccounted, QueueKnown, SaysStopped, Ended
<1> QED  BY <1>1, Established, PTL

\* A receipt "active" of this boot means a takeover in this boot.
THEOREM ReceiptTrue == Spec => []ActiveIsTrue
<1>1. DInv => ActiveIsTrue  BY DEF DInv, DevicesOK
<1> QED  BY <1>1, Established, PTL

\* The removal of a device never takes the configuration away under its owner, for any
\* number of devices, faults, deaths and lost maps; but for the devices of which a command
\* began while the start job of a killed command still waited.
THEOREM ConfigOutlives == Spec => []ConfigOutlivesOwner
<1>1. DInv => ConfigOutlivesOwner  BY DEF DInv, DevicesOK
<1> QED  BY <1>1, Established, PTL
=============================================================================
