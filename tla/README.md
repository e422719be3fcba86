# Verification of the external-disk recovery guard

This directory holds TLA+ specifications of the recovery guard in `src/guard`,
TLC configurations that check them on small instances, and proofs checked by
TLAPS.  The guard keeps one device-mapper multipath map (the *stable map*) above
a USB disk.  When the disk drops off the bus the map queues I/O; the guard waits
a bounded time for the same disk to come back, verifies that it really is the
enrolled one, and switches the map to it.  When it gives up, crashes or is
stopped, a takeover turns queueing off so that nobody waits for ever.

## 1. Inventory

| Component | Code | State it keeps | Operations | Talks to |
|---|---|---|---|---|
| Operation executor, owner fence | `core.cpp` `Owner`, `OwnedOperation`, `command`; `core.hpp` | flock on `path-owner.lock` and its duplicated descriptors; token, pending entry, delivered outcome, worker thread, eventfd | `start`, `poll`, `abandon`, `close`, helper spawn and reap | controller (calls), worker threads (mutex, condition variable), helper processes (inherited descriptor) |
| Path controller | `controller.cpp` `Guard` | state, episode deadline, candidate credential, current instance, pending kind, stopping flag | `step`, `consume`, `submit`, `expire`, `shutdown`, `safe_stop` | executor, journal, kernel map, event loop |
| Takeover | `controller.cpp` `acquire_owner`, `reconcile` | the snapshot it decides on | wait for the fence, compare tables with the journal, clear, resume, fail_if_no_path, close the journal | journal, kernel map, fence |
| Transaction journal | `core.cpp` `Journal`, `atomic_json` | phase, snapshots, candidate digest, queue_disable, owner epoch | atomic replacement of one file in RAM | written by the controller and the takeover, read by the takeover |
| Kernel map | device mapper, via `dm`, `DeviceMapper` | active and inactive tables, suspended, queue_if_no_path, path state | load, resume (swap), clear, message, status | external |
| Admission | `admission.cpp` | a held descriptor and a snapshot of identity and layout | `verify`, `revalidate` | sysfs, block device, LVM tools |
| Data owner life cycle | `data_lifecycle.cpp`, `maintain` and `safe_stop` in `controller.cpp` | safe-stop receipt, its archive, manager invocation, control socket | safe stop, rearm, first enable, takeover by invocation | host tool, journal, map |
| Event loop, schedule | `core.cpp` `Events`, `Schedule`; `run_owned` | deferred event flag, next check times | wait, filter, defer | controller |
| Boot activation | `boot.cpp` | `boot.json` phases | create the map, activate the LVs | map, LVM |
| Device life cycle | `lifecycle.py` | configuration (`enabled`), operation journal, unit and rule files, run-time record | enroll, enable, stop, disable, remove, boot, uninstall | data owner, systemd, udev, RAM tools |
| RAM environment | `ram_environment.py` | directory, tmpfs, bind mounts, pinned fstab, alias, receipt under `/run` | prepare with undo | device life cycle |
| Discovery and diagnostics | `discovery.py`, `diagnostics.py` | none; a report of repeated readings | observe, classify | host, journals, maps |
| Administrative library | `admin/*.py` | none; a held descriptor during an admission | collect, verify, revalidate | sysfs, block device, dm |
| Planning | `planning.py`, `support.py`, `current_support.py` | none; a plan bound to its inputs | build | discovery, admission |
| Candidate store | `candidates.py`, `candidate_ui.py` | one directory per operation with four files | stage, finish, cancel, list | planning, control lock |
| Boot entry installation | `install.py` | image, hook, menu, receipt | install, cleanup and rollback, remove | boot files |
| Root upgrade | `upgrade.py` | boot image, receipt, evidence directory | apply with rollback | boot files |
| Management integration | `manage.py` | units, rules, command link, program versions, receipt, backups | install, register, upgrade with rollback, uninstall, prepare | systemd, udev |
| EFI mount integration | `efi_mount.py` | three owned files, an enabled link, a receipt | install with rollback, remove with retry | systemd, udev |
| Data protection commands | `data.py` | helper names and files of a data map | names, units, rules; temporary `run` | device life cycle |
| Enrollment, protected mounts, release acceptance, packaging, rescue terminal demo, laboratory, research | the remaining Python and scripts | files they write once | sequential commands | host |

What is hard in this code, and what makes each part correct:

* *Executor.*  Three kinds of actors (controller, worker threads, helper
  processes) share one fence.  It must stay locked while anything started under
  it can still act; each outcome must be delivered to the controller or given to
  its cleanup, exactly once; a completion must not write to a closed eventfd; and
  in the end the fence must be released, or the takeover waits for ever.
* *Controller and takeover.*  A killed controller leaves a helper that still
  changes the kernel's tables.  At any instant the journal must account for those
  tables, the takeover must decide on facts that stay true, the map must only
  move to a verified instance even though tables name a mere dev_t, and after the
  deadline no further table change may start.
* *Data owner.*  Receipts, journal and invocation are separate files written one
  after the other; every crash prefix must leave either queueing off or a takeover
  that will turn it off.
* *Admission, observation, plan.*  Reads that are spread over time must not be
  combined across a replacement of the disk, of an owner or of a source.  Two equal
  readings are no atomic snapshot: a change that is taken back between them is not
  caught, and the code says so (`discovery.py:32`, `guard/MANAGER.md:40,42`).  Nothing
  else may get past them, and no such excuse holds for the disk and for the owner, whose
  numbers are not used again.
* *Candidate store.*  A command may die between any two writes; a plan may go stale
  between the user's confirmation and the end of the staging.
* *Deployments* (boot entry, management, EFI).  A step may raise before or after it
  took effect, its rollback may raise too, the process may die anywhere; receipts
  must stay true and what is left must remain restorable or removable.
* *Device life cycle.*  Some of its state survives a reboot and some does not; the
  consent to protect a device, the boot unit, the owner and the receipts must agree
  after every interrupted command, and nobody may be left waiting on a queue.

`PROJECT.json` lists these hazards at their lines with the properties that cover
them.

## 2. Plan

1. **Core (done).** `OwnedOperation`; `PathState`, `Guard`, `Takeover` composed by
   `Recovery`; the abstract contract `StableMap`, which `Recovery` implements.
2. **Data owner (done).** `DataLifecycle`: first enable, safe stop, rearm, takeover
   by invocation and the stop client, with a crash between any two durable steps.
3. **Admission and plan (done).** `Attest` (the reads of an admission interleaved
   with replacement of the disk), `Discovery`, and `Plan`, which composes both and
   implements `Planning`.
4. **Host tools (done).** `CandidateStore` on top of `Planning`; `BootImage`,
   `Manager`, `EfiMount`; `DeviceLifecycle` with `RamTools`.
5. **Event loop (done).** `EventLoop`: the loop of the running controller, its
   netlink socket and its timers, in discrete time.
6. **Proofs (done for safety).** Every invariant and every action property that a
   passing run checks is a theorem for all values of the constants, and so are both
   refinements; no constant switches a behaviour of the code off.  Liveness stays with
   TLC.

Modules that carry theorems use no RECURSIVE operator; parameters are CONSTANTs
with named assumptions.  Every module has a type invariant `TypeOK` (or one per
part; `LoopTypeOK` and `ManagerTypeOK` in modules that are proved together with
another one); the runs spend their checks on the other properties, and the proof
modules state type correctness.

## 3. The modules

### OwnedOperation

`OwnedOperation::start`, `poll`, `abandon`, `close`, the worker thread of each
operation and the helper it runs.  An operation is its token; `MaxOps` bounds how
many are started.  `worker` follows the thread through the function, the
publication of the outcome, the wait for release, the cleanup, the destruction of
the outcome's value and the closing of its fence; `helper` follows the process
that inherited the fence, and a descendant that may keep the descriptor when
`command` has already returned.  The flock is free when no descriptor is open:
`FenceHeld`.

`MCOwnedOperation` checks three operations: enough for one in flight, one
abandoned, and a successor that must wait for both.  The properties:

| Property | What it says |
|---|---|
| `SingleFlight` | at most one operation has work in flight; a successor never overlaps an abandoned one |
| `FenceCoversWork` | function, helper and cleanup of an operation run while its own duplicate of the fence is open |
| `ExactlyOneDestiny` | an outcome is delivered or cleaned up, never both, and a finished operation had one of the two |
| `CompletionObservable` | (proved, not in the run) the eventfd is open when a worker will write it, and readable while an outcome waits |
| `FenceReleased` | after the owner closes, the fence is eventually free |

Fairness: worker threads and helpers are scheduled and their system calls return.
The laboratory notes record that an in-flight ioctl may stay in D state for as
long as the device does; under that reading the theorem says when the fence is
released once the kernel lets go.

### PathState, Guard, Takeover, Recovery

`PathState` is what the controller and the takeover share: disk instances, the
map, one dmsetup helper per role, and the journal.  A disk *instance* is a
diskseq: it is plugged once, and a replug is another instance.  A table names a
dev_t only; the kernel binds it to the instance then present under that number,
or to the one already open under it.  A table digest is therefore a dev_t here.

`Guard` has one action per branch of `step()` and `consume()`, one per stage of
the worker of each operation, and the ways the process ends.  A handler is one
action: it leaves the journal in the state that its sequence of writes produces,
and the branches `SubmitLate` and `SubmitThrows` stand for a deadline found passed
and for an exception between the writes.  The last check before a table operation
(`ClearMutation`) and the start of dmsetup (`StartLoad`, `StartCommit`) are
separate: the owner can be told to stop between them.

`Takeover` is `acquire_owner` and `reconcile`, one action per step that can be
interrupted: read and decide, start a helper, reap it, finish.  `MaxCrashes` bounds
how often a takeover is killed while its helper lives on; an operator may run it
again.

`Recovery` composes them.  The fence is free when the controller is gone, no
takeover owns it and no helper of either is running (`FenceFree`).

`StableMap` is the contract seen by the users of the map: while an owner admits,
the backing may move to an admissible instance; the end of admission is final;
once the owner's end is closed the map no longer queues.

Abstractions.  Time is only the episode deadline (none, running, passed).
Generation and token checks are in `OwnedOperation`.  Counters, evidence lines,
observations and the kernel's own queue timeout are left out: no decision reads
them.  Verification is one step; `Attest` shows why it may be.  The map is bound to instances by
how the code uses it; the kernel, the disks, a suspend from outside, kills and an
operator who repeats a takeover are external definitions.

| Property | What it says |
|---|---|
| `JournalCovers` | whenever the owner dies, the active table is one `reconcile()` recognises and the inactive one is the journal's candidate |
| `TakeoverViewFresh` | the snapshot `reconcile()` decided on is still true at each of its operations |
| `ActiveIsAdmitted` | the map is only ever bound to a genuine disk instance |
| `ControllerTracksKernel` | except during a commit, the controller's current instance is the kernel's |
| `QueueClaimHolds` | (proved, not in the run) after "completed_by_takeover" nothing turns queueing on or leaves a table loaded |
| `OnlyCommitSwitches` | (proved, not in the run) the active table changes only under a journalled commit |
| `NoMutationAfterCutoff` | after the deadline, a failure or the owner's end, at most the table operation under way completes |
| `ImplementsStableMap` | `Recovery` implements `StableMap` |
| `EpisodeEnds` | an episode ends: ready again, or given up |
| `OwnerEndStopsQueueing` | after the owner's end queueing stops, or the takeover asks for a diagnosis |

Runs.  `recovery` has four instances: the first disk under one dev_t; two replugs of
it and a clone of its USB identity with another layout, all under a second dev_t.  A
table loaded for a replug may so be bound to the clone, and the second replug comes
under the number that is then active, the case the kernel's table cache makes
dangerous.  One crash of the takeover is allowed, so two takeovers and a leftover
helper meet (2.84 million states, about a minute).  `recovery_live` checks progress
with one replug and the clone (341 thousand states), without takeover crashes: the
unit has `Restart=no`, so nothing promises that a killed takeover runs again.

Fairness in `FairSpec`: threads and processes are scheduled, the event loop wakes
at the deadline at the latest, system calls return, an owner told to stop exits,
and systemd runs `ExecStopPost`.  Nothing obliges a disk to return or a
verification to succeed.  Deadlock checking is off in all configurations because
the system may stop: the executor's life ends, or owner and takeover are done.

### DataLifecycle

The life cycle of a host-data owner, one action per durable step: `maintain` with
`--first-enable` or `--rearm`, `begin_rearm`, the constructor of `Guard`, `safe_stop`
and `finish_safe_stop`, the takeover that systemd runs as ExecStopPost, and
`stop_data`, the client.  The files are `journal`, `receipt` (safe-stop.json; its
digest is the journal it was issued for) and `invocation`
(manager-invocation.json).  An owner's epoch is the number of its service
invocation; `TakeoverEpoch` stands for any takeover's.  `OwnerEnds` is every way the
owner can end: exit, exception in any check, kill.  A dmsetup helper outlives its
process and holds the fence.  The client takes the fence too, when it verifies a
stop, so an owner that starts at that instant fails and a takeover waits.

| Property | What it says |
|---|---|
| `QueueOnCovered` | whenever the map queues, or a helper is about to make it queue, a takeover that will accept the files is still to come (or one has failed) |
| `RefusedStopKeepsOwner` | a ready owner's map queues, its journal is a running owner's and its takeover is bound to it, also after a withdrawn stop |
| `StoppedIsTrue` | "stopped" is true when said and stays true as long as the journal it was said of |
| `SafeStopPreserved` | (proved, not in the run) a completed stop is given up only by an owner that rearms: takeovers, failed starts and crashes leave it alone |
| `TakeoverEnds` | the end of an owner is followed by the end of its takeover, after which the map does not queue |

The run `data_owner` has three invocations, so that a first enable, a stop, a rearm
and a second stop meet the receipt of the first one; two disk instances, for a
replug between a stop and a rearm and for a recovery before a stop; two stop
commands, for a late request behind a client that gave up; and one confirmation
per command.  One behaviour it covers deserves a note: an owner that dies between
the `safe_stopped` record and the receipt of a *second* stop leaves the receipt of
the first on file, and the takeover then refuses (`unit.failed`) although queueing
is off; after a first stop the same crash is closed as "interrupted".

Left out: the temporary `run` path of `data.py` (a map that queues before it has an
owner), the archive's content, and the checks of `current_profile`, of which only
the instance matters here.  Fairness is that of `Recovery`, and a client holds the
fence for an instant and tries a bounded number of times (`MaxConfirms` stands for
its 15 s), so that the takeover's retries meet a free fence.

### Attest, Discovery, Plan and Planning

`Attest` is the read-only admission of the disk behind a data map: `collect`, `verify`
and `revalidate`, one action per read, while disks come, go and are replaced under
the same node.  An attachment (`Inst`) has a disk sequence number that is never used
again; node names and device numbers are reused.  Enumerating the disks with the
wanted serial is one step, and any read may fail (`Refuse`), which also stands for
the deadline and for the checks of the environment.  The native `verify` and
`revalidate` of `admission.cpp` take the same reads, so this module is also why
`Guard` may take a verification as one step.

`Discovery` is the one-shot observation (`collect` of `discovery.py`, `device` of
`diagnostics.py`): inventory, mounts, configuration, the registered owner (its
service, journal, map and process, the first two again), then everything but the
owner a second time.  A source is what the code compares of it (mounts without their
ids, a table without its counters), from the set `Contents`, and may change to any
other content and back.  An owner is a generation of the service's main process.

`Plan` composes them: an observation, the other inputs, the admission, and everything
again.  `Planning` says what the candidate store relies on: each input is read before
the admission and again after it, and a plan is ready only when both readings are
equal.  `ImplementsPlanning` is the refinement, with each part of an observation
counted as read when the observation reads it first.

What equal readings do show is stated with one more field, which no action of the code
looks at: `astray` are the sources that, at the instant between the two readings (for a
plan: at the admission), were not as read *and have not returned to it since*.  A source
leaves it only by changing back.  `astray = {}` at the end is therefore the strongest
thing that the code can promise: everything was as reported at that instant, but for
what has been changed back since.

| Property | What it says |
|---|---|
| `AdmittedIsOneDisk` | what is admitted is one attachment: the node, the descriptor, sysfs and the content were all read of the same, still present, disk |
| `ReportIsTrue` | what a stable observation reports was so at the instant between its readings, but for what has returned since (`StableReport`); and an owner that it calls matching still ran, and was the writer of the journal, when its service was read again, without exception (`OwnerIsCurrent`) |
| `ImplementsPlanning` | the reads of `build()` implement `Planning` |

The run `plan` (416 thousand states) has two nodes, three attachments, two contents of
each other source and two changes at any points: a disk can be replaced and come back
under the other node, a source can change and change back.  Two changes are enough for
that, and for one before and one after the instant between the readings.
Abstractions: each source has its own changes, although the code would notice some
of them twice; the support evidence is one sampled input.

### CandidateStore

`stage`, `finish`, `update`, `cancel` and what they use of class `Store` in
`candidates.py`, with the commands that call them (`candidate_ui.py`, `manage.py`).  A user confirms a plan or
a removal before the control lock is taken; under the lock the plan is built again
(the actions of `Planning`), an operation directory gets four files one after the
other and the plan is built once more.  A death leaves an empty directory, missing
files or the temporary file of a write.

| Property | What it says |
|---|---|
| `PreparedWasTrue` | a prepared candidate is the confirmed plan, and every input was read so before and after an admission of the disk that followed the writing of its files; an input that was another at that admission has returned since |
| `OneLivePerPlan` | of one plan at most one operation is being prepared or prepared |
| `CancelledIsClean` | a cancelled candidate without `cleanup_pending` has no payload left, wherever earlier removals died |
| `StoreIsBounded` | the limits on active candidates and on history hold |

Nothing is said of when a removal is taken up again.  A removal that died in a write
leaves a temporary file beside the receipt; `load` then refuses the directory
(`candidates.py:139`), the model's `ConfirmCancel` needs a loadable one as the code does,
and the removal waits for a review by hand.

The run `candidates` (2.58 million states, about a minute) has limits 2 and 3 instead of
16 and 256, two changes of an input, one death and one review by hand: both limits are
reached with remnants of earlier attempts in the store.  One input, the context, has two
contents: it is the one read last before the admission and first after it, and it can
change and change back between them.  The proofs hold for any contents of any input.
The content of the files is abstracted to presence.

### BootImage

`install.py` (first installation, cleanup, rollback and removal of the boot entry)
and `upgrade.py` (`preflight`, `apply_upgrade`, its rollback), one action per durable
step.  A step may raise before or after it took effect, as `host_files.atomic`
allows; the process may die between steps; other programs regenerate the menu
(`UpdateGrub`) or edit a file.

| Property | What it says |
|---|---|
| `MenuNeverDangles` | neither the menu nor its hook names an image that is gone |
| `Restorable` | when receipt and image disagree, an evidence directory holds the old pair |
| `RecordsTellTheTruth` | what an upgrade records when it ends is what it left behind |

The run `boot_image`: two builds, two upgrades, three steps that raise (the failing
step, a failing rollback and one more), two deaths, one edit.  Nothing is claimed of
a menu that was regenerated in the middle of a deployment.

### Manager

The persistent integration (`manage.py`): installation, registration of maps,
`save_rules`, upgrade with backup and rollback, removal, and the lock-free
preparation by PID 1.  `CONTROLLER` and `SLICE` go with the unit file; the rules'
text depends on the registry only; records are abstracted to the program they name.
Installation and removal have no rollback in the code, so none here.

| Property | What it says |
|---|---|
| `InstalledIsCoherent` | when nothing runs and the receipt says "installed", units and link are its program's, or the last backup holds the matching set |
| `EntryIsComplete` | link and units never name an incomplete program directory |
| `RolledBackRestores` | an upgrade that records "rolled_back" has restored every unedited file |

The run `manager`: one map, two packages, two upgrades, one step that raises, one
death and one edit, each at any point: a failing upgrade whose rollback is cut short,
followed by another upgrade.

### EfiMount

`efi_mount.py`: installation with its rollback and removal.  A check of the file
system that systemd remembers as done, the drop-in that prevents that, the path unit
and the ordinary mount are part of the state, because the code's order exists for
them.

| Property | What it says |
|---|---|
| `Withdrawable` | whatever is left unedited can be removed, as long as no removal has run beside an installation |
| `RecordIsTrue` | "installed" and "removed" promise no more than is there, as long as no removal has run beside an installation |
| `MountComesBack` | an installation that was not killed leaves EFI mounted or has tried to, also beside a removal |

The run `efi_mount` (592 thousand states): four raising steps, two deaths, two edits.
Only the installation takes a lock (`maintenance_lock`), so the model lets a removal
start and run during it, and an installation during a removal.  `beside` remembers that
this has happened.  It has to be in two of the properties: such a removal can leave files
without a record, and TLC violates both when `~ beside` is dropped from them.  No document
promises otherwise.  Two removals at once, which nothing excludes either, are not modelled.

### RamTools and DeviceLifecycle

`RamTools` is `prepare()` of `ram_environment.py`: directory, tmpfs, bind mounts,
pinned fstab, alias and receipt, with the undo of what was noted as mounted.
`DeviceLifecycle` is `lifecycle.py`: enroll, enable, stop, disable, remove, boot and
uninstall.  Configuration, receipts and the boot unit survive a reboot; maps, units,
rules, run-time records and tools do not.

The native owner is that of `DataLifecycle`, coarser: `UnitLocks`, `UnitBegins` (its
journal), `UnitQueues`, `UnitUp`, `UnitFails` and `UnitTakeover`.  The takeover ends the
queueing and closes the journal (`Reconciles`), or only the first of the two, or neither:
it returns without a journal of its invocation, refuses what it does not know, or is killed
by `TimeoutStopSec`.  The unit is inactive then and the map may still queue.  A map that
exists before its enrollment may queue already (`adopted`), since that is what the
admission of an existing map demands.

| Property | What it says |
|---|---|
| `ConsentHasIntegration` | a device is "enabled" only while the boot unit is there and enabled |
| `ConfigOutlivesOwner` | a configuration is not removed under a running owner, unless a command of the device began while the start job of a killed command still waited |
| `QueueIsAccounted` | a map queues only as it was adopted and before it had an owner, or under an owner's journal that is still open; and in the second case no receipt of this boot says "stopped" or "disabled", also when owner and takeover are gone (but for late start jobs) |
| `ActiveIsTrue` | a receipt "active" of this boot means an owner took the device over in it |
| `RemovalSeesTools` | (violated, section 6) the removal of the package is refused while the RAM environment is there |

The run `device` (1.82 million states) has one device, two raising steps, one death, a map
removed by hand and two reboots.  One device stands for all, since commands share only the
tools and the boot unit; the proofs (section 4) hold for any number of devices.
`boot()` starts the devices one after the other without a handler, so one failing
device stops the later ones; a death between the removal of a configuration and the
record "removed" leaves a receipt that must be resolved by hand.

A start job can outlive the command that asked for it: the command is killed after
`systemctl start` was sent, the lock is free, and the unit starts while the next command
runs.  The model has this behaviour, and `late` are the devices for which a command of
this boot began in that state.  For them `ConfigOutlivesOwner` and the receipt half of
`QueueIsAccounted` fail, and so the properties leave them out and no others: a removal,
for example, finds the completed stop of the owner before, goes ahead, and the new owner
starts afterwards.
That a takeover failed and left a queueing map is no such exception.  The stop commands
do not believe an inactive unit; they need the journal to say `safe_stopped`.

### EventLoop

The loop of the running controller (`run_owned`), the event socket (`Events::wait`,
`watch`, `relevant`), the times of the next check (`Schedule`) and the control socket
(`DataControl::serve`).  Events are hints: the socket overflows, and the kernel, which
reports that once, drops further events silently until its queue was empty.  Time is
discrete and passes only where the loop blocks, so every bound is net of scheduling
delays.  `Guard` appears as its step does: an episode is open or not, an operation runs
or is done.

| Property | What it says |
|---|---|
| `EventLeadsToCheck` | with a healthy path, a change that was announced is looked at as soon as the pacing allows, however many other events are queued before it: within `Gap`, a pause and a request for each batch in front, and a step and a request |
| `FallbackCheck` | any change, announced or not, is looked at within `Period` and the time the loop was away (one pause, one request, one step) |
| `TakenOnTime` | the end of an episode and the outcome of an operation are taken at once, also while events are put off; an outcome waits for two requests at most |
| `EventsArePaced` | events cause no more checks than one every `Gap`, and a socket that stays readable does not make the loop spin |

The run `event_loop` (5.97 million states, about a minute): one tick is 50 ms; `Period`
6, `Gap` 2, pauses of 2 to 4, an episode of 13, steps and requests of at most 1; one
change, two unrelated events, one request and one signal, a socket of two events read
one at a time.  The times keep the order they have in the code, so a deadline can pass
in a sleep, a pause, a step and a request, and the socket overflows.  A step that only
takes the outcome of an operation clears `pending` without looking at the path; such a
hint is left to the fallback, as `guard/DATA.md:21` says.  Ages therefore count only
while no operation is under way.

## 4. What is proved

`Controller_proofs` proves, in its first part (`OwnedOperation`), for any number of operations (`MaxOpsAssumption`),
that the invariant `IInv` is inductive, and from it `TypeOK`, `SingleFlight`,
`FenceCoversWork`, `ExactlyOneDestiny` and `CompletionObservable`.  `IInv` adds what
the properties leave implicit: which tokens may still have a live thread, that
the pending entry and the worker's stage agree, and that a descriptor is open
until its worker's last stage.

`Recovery_proofs` proves, for any set of instances, any assignment of device
numbers (`InstAssumption`) and any number of takeover crashes
(`CrashAssumption`), that its `IInv` is inductive.  Its parts: `WorkerOK` and
`PhaseOK` tie the worker's stage to the pending kind and the journal's phase;
`TablesOK` says which digests may be active or loaded in each stage; `FenceOK` says
who can hold the fence together; `TakeoverOK` and `QueueOK` say what the takeover
has already established at each of its steps.  `JournalCovers` alone is not
inductive: it survives a step of a leftover helper only because the journal's
phase fixes what the helper can be doing.  From `IInv` follow `JournalCovers`,
`TakeoverViewFresh`, `QueueClaimHolds`, and the action properties
`OnlyCommitSwitches` and `NoMutationAfterCutoff`.

The second part of `Recovery_proofs` adds which *disk* is behind those tables, for any disks and numbers:
`ActiveIsAdmitted`, `ControllerTracksKernel` and the refinement `ImplementsStableMap`.
Journal and tables name a dev_t only, so `IInv` cannot say it.  `BindInv` does: present
disks have distinct numbers, an instance that passed the verification was plugged and
so, once gone, never returns; if it is there at the last check of the commit, it was
there when its table was loaded, and that table is bound to it, because a number that
the kernel may still have had in its cache was refused (`NewDeviceOK`).

`DataLifecycle_proofs` proves, for any number of invocations, disks, stop commands and
tries (`BoundsAssumption`, `NoFileAssumption`), `TypeOK`, `QueueOnCovered`,
`RefusedStopKeepsOwner`, `StoppedIsTrue` and the action property `SafeStopPreserved`.
The files are written one after the other, so none of them alone says that a takeover
will act.  `LInv` says which of them are the current invocation's at each step of the
owner (`OwnerOK`), that no epoch is used twice, so that an old answer "stopped" never
speaks of a new journal (`FilesOK`), and who can hold the fence together (`FenceOK`).

The first part of `Plan_proofs` proves `AdmittedIsOneDisk` for any set of nodes and any number of
attachments (`AttestAssumption`).  Attachments are numbered as they come and never
reused, so an attachment that a descriptor holds and that is there now was there at
every read since it was opened (`HeldInv`); the reads' order is the lemma
`CollectReads`.

Its second part proves `ReportIsTrue` and the refinement `ImplementsPlanning` for any
contents of the sources and any number of changes (`PlanAssumption`).  A source that is
astray is not as read now either, so its second reading finds it different, unless it
returns first, and then it is no longer astray (`AstrayDiffers`, a part of `LookInv`).
Owners are numbered and never return, so the half about the owner needs no exception.
`AsOK`, the invariant of the refinement, says that the plan has seen what `Planning` has.

`CandidateStore_proofs` proves `PreparedWasTrue`, `OneLivePerPlan`, `CancelledIsClean`
and `StoreIsBounded` for any limits and any number of deaths and edits
(`StoreAssumption`) and any contents of the inputs (`ContentAssumption`).  `BuildInv`
follows the plan under way: an input that is astray differs from what was read of it and
was not yet read again.  `ProcInv` says that, while the lock is held, what a command found
is still so.

`DeviceLifecycle_proofs` proves `ConsentHasIntegration`, `ConfigOutlivesOwner`,
`QueueIsAccounted` and `ActiveIsTrue` for any finite set of devices and any number of
raising steps, deaths, edits and reboots (`BudgetAssumption`), together with `TypeOK`.
The inductive invariant `DInv` has two parts.  `DevicesOK` is true of every device: that
an owner runs only behind the run-time record, the state directory and the automount
exclusion; that a map queues only as adopted or under an open journal (`QueueKnown`); and
that a receipt "stopped" or "disabled" of this boot is written of an owner that has ended
for good, whose journal is not open (`SaysStopped`, `Ended`).  `CommandOK` says what the
command that holds the lock has established by the step it is at: that no owner runs and
the exclusion is written before the map is created, that no start job waits when the stop
is asked for, that no device is configured before the boot unit is taken away, that the
owner has confirmed the stop before the receipt is written and before the map goes.  It is
needed because each check is made several steps before the effect that relies on it.  The
facts about start jobs and ended owners leave out the devices in `late`, and nothing else.

`BootImage_proofs` proves `MenuNeverDangles`, `Restorable` and the action property
`RecordsTellTheTruth` for any number of builds, upgrades, raising steps, deaths and edits
(`BoundsAssumption`; `FilesAssumption` says that "no file" and foreign content are not
mistaken for a build or a receipt).  Any effect may be the last one of its command, so
both invariants are part of the inductive `BInv` and the rest of it is about order:
`WithdrawOK`, the entry leaves the menu before the hook and the hook before the image;
`InstallOK`, what names a file is written after it; `UpgradeOK`, nothing is overwritten
before the evidence holds it (`Covered`), and a verdict other than `rollback_failed` is
reached only with the old files back or untouched (`Unchanged`).

`EfiMount_proofs` proves `MountComesBack` from an invariant of its own (`MountInv`): it
depends on one command's steps only, whatever runs beside it.  `Withdrawable` and
`RecordIsTrue` need no assumption either, since they speak of the histories without a
removal beside an installation themselves.  `EInv` says of those that one command runs
(`Alone`), what the record says at each of its steps (`RecordOK`) and which files are then
there, gone or loaded (`StateOK`); once `beside` is true it stays so.

The second part of `Controller_proofs` (`EventLoop`) proves `EventLeadsToCheck`,
`FallbackCheck`, `TakenOnTime` and `EventsArePaced` for any socket, batch and number of
changes, unrelated events, requests and signals, and for any times in the order that the
code gives them (`EventLoopAssumption`: 0 < `Gap` <= `DelayMin` <= `DelayMax` <= `Period`
for the 100 ms, 100 ms to 800 ms and 1 s of `core.hpp` and `core.cpp`).  `AwayOK` bounds at
each place of the loop the time that has passed together with the time the loop may still
stay there; `PaceOK` that a poll which returned for an event only is followed by a wait;
`HintOK` that an announced change waits behind some number k of batches (`Behind`) and has
waited no longer than the batches already read allow (`Waiting`): each batch read, with
the request that may be served after it, turns k into k - 1, until the event is found and
only its turn is awaited (`Turn`).  The proof corrected three bounds that had been true of
the run only because it serves one request: a request can come with every batch, and two
in a row can be served before an outcome is taken.  The properties now state the bounds
that hold for any number of them, and `FallbackCheck` a smaller one than before.

Its third part (`Manager`) proves `InstalledIsCoherent`, `EntryIsComplete` and the action
property `RolledBackRestores` for any maps, packages, upgrades, raising steps, deaths and
edits (`ManagerAssumption`, `FilesAssumption`).  `Coherent` is `InstalledIsCoherent` without
its condition that no command runs: since a command may die after any effect, it must hold
at every step.  `SourcesOK` says from which step on a program directory is complete,
`SetupOK`, `RegistrationOK` and `RemovalOK` what the receipt and the files are in the
commands without rollback, `SeenOK` and `BackupOK` that the backup is the coherent set of
before and that its program is still complete, `ApplyOK` which writes of an upgrade are
done at each step, and `UndoOK` that as long as no step of the rollback failed the files
before the current step are back.  `RolledBackRestores` follows because the last step
writes `rolled_back` only then.

Only model-checked: the liveness properties (`EpisodeEnds`, `TakeoverEnds`,
`FenceReleased`, `OwnerEndStopsQueueing`), which rest on fairness and ENABLED and are out
of the prover's reach, and the violation of section 6.  The counters that bound a run
(faults, deaths, edits and the like) are constants of the theorems too, so the proofs hold
for any number of them.

## 5. Not modelled

* Parsers, canonical JSON, digests, trusted-path checks: data conversions and pure
  checks; digests appear as equality of what is digested.
* Evidence and observations: written and never read back to decide.
* Boot activation (`boot.cpp`): one sequential process of early boot (verify, revalidate,
  record the intent, create the map with the kernel's queue timeout set, revalidate,
  record, activate the volumes, revalidate, record) before any owner or user of the map
  exists; its reads are those of `Attest`.
* Protected mounts (`mounts.py`): unit text rendered from a registration and a plan that
  is checked once.  One limit of that check was noticed by hand: it considers the
  mounts a destination lies beneath and the file system a bind's source belongs to, but
  not other binds above that source, so two binds whose sources lie beneath each other's
  destination pass its check for cycles.
* Root enrollment: the reads of a data map's admission (`Attest`) and one write.
  Release acceptance: a comparison of one trusted record with sampled evidence.
* What the diagnostics say of a volume, the rules of eligibility in the support
  evidence, and menu and report wording: pure functions of what was read; a plan may
  be blocked by them at any step.
* Packaging, build, stage inputs, boot scripts: sequential, no state of their own.
* The rescue terminal demo is a separate program that keeps a console in RAM.
* The laboratory and research directories: QEMU experiments, their probes and their
  records.  They hold almost two thirds of the Python lines; they test the program and are
  not part of it.

## 6. Finding

`device_removal` checks `RemovalSeesTools`.  `docs/USAGE.md:83` says that the check
before the removal of the package refuses while a RAM environment is left.
`prepare()` makes the alias first and writes the receipt after it, outside the
handler that undoes a failed preparation.  When that write fails the environment
stays, a later `prepare()` takes the alias and writes no receipt, and `uninstall()`
looks at the receipt only.  The run shows the removal accepted with the environment
mounted.
