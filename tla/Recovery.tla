------------------------------ MODULE Recovery ------------------------------
(***************************************************************************)
(* The recovery transaction: the controller, its worker and helper, the      *)
(* kernel map, the disks and the takeover, composed.  The owner fence ties    *)
(* them together: it is held by the controller's process, by a helper that    *)
(* outlives it, and by the takeover and its helper.                           *)
(***************************************************************************)
EXTENDS Guard, Takeover

vars == <<plugged, map, helper, journal, guardVars, takeoverVars>>

TypeOK == PathTypeOK /\ GuardTypeOK /\ TakeoverTypeOK

Init == PathInit /\ GuardInit /\ TakeoverInit

\* Wrong: helpers do not inherit the descriptor of the fence.
FenceFree_IgnoresHelpers == ~up /\ ~TakeoverOwns

\* The flock is free when no process has the open file description.
FenceFree == ~up /\ ~TakeoverOwns /\ \A r \in Role : ~HelperRuns(r)

Environment ==
    \/ (\E i \in Inst : Plug(i) \/ Unplug(i)) /\ UNCHANGED <<guardVars, takeoverVars>>
    \/ PathFails /\ UNCHANGED <<guardVars, takeoverVars>>
    \/ up /\ ExternalSuspend /\ UNCHANGED <<guardVars, takeoverVars>>
    \/ DeadlinePasses /\ UNCHANGED takeoverVars
Helpers == \E r \in Role : (HelperWorks(r) \/ HelperFails(r))
                           /\ UNCHANGED <<guardVars, takeoverVars>>
Controller == (Step \/ Work \/ GuardExits \/ GuardCrashes) /\ UNCHANGED takeoverVars
Supervisor == (TakeoverStep(FenceFree) \/ TkAgain \/ TkThrows \/ TkCrash)
              /\ UNCHANGED guardVars

Next == Environment \/ Helpers \/ Controller \/ Supervisor

Spec == Init /\ [][Next]_vars

-----------------------------------------------------------------------------
(* Safety.                                                                   *)

\* The journal always accounts for the kernel's tables: whatever instant the
\* owner dies at, reconcile() recognises the active table, and an inactive one
\* is the candidate of the journal.  Automatic takeover never meets a table it
\* must refuse.
JournalCovers ==
    /\ Digest(map.active) \in Known
    /\ map.inactive # NoInst => Digest(map.inactive) = journal.candidate_table_digest

\* Between its snapshot and its last write the takeover acts on current facts:
\* the active table is the one it recognised and no other table has been loaded.
TakeoverViewFresh ==
    TakeoverOwns /\ tk.pc # "owned" =>
        /\ tk.view.active = Digest(map.active)
        /\ Digest(map.inactive) \in {NoDev, tk.view.inactive}

\* Upper layers never reach a disk that was not verified, although tables name
\* only a dev_t that a clone may take over between a check and the kernel's use.
ActiveIsAdmitted == map.active \in Genuine

\* Except while a commit is being carried out, the controller's idea of the
\* current disk instance is the instance the kernel's table is bound to.
ControllerTracksKernel ==
    Running /\ guard.pending # "commit" => map.active = guard.current

\* "queue_disable: completed_by_takeover" stays true: nothing that the dead
\* owner left behind turns queueing on again or leaves a table loaded.
QueueClaimHolds ==
    journal.queue_disable = "completed_by_takeover" =>
        ~map.queue /\ map.inactive = NoInst

\* The active table changes only by a commit whose intent is in the journal; in
\* particular a takeover never promotes the candidate of its predecessor.
OnlyCommitSwitches ==
    [][map.active' # map.active =>
         HelperRuns("guard") /\ helper["guard"].op = "resume"
         /\ LastPhase = "commit_intent"]_vars

\* A table operation of the owner that runs, or has passed its last check.
MutationUnderWay == HelperRuns("guard") \/ worker.st = "cleared"

\* After the deadline, a failure or the end of the owner, at most the table
\* operation that is then under way completes; no further one follows it.
NoMutationAfterCutoff ==
    [][Passed \/ guard.stopping \/ ~up => (MutationUnderWay' => MutationUnderWay)]_vars

-----------------------------------------------------------------------------
(* The contract of the map.                                                  *)

Mode == IF up \/ HelperRuns("guard") THEN "admitting"
        ELSE IF journal.queue_disable = "completed_by_takeover" THEN "closed"
        ELSE "fenced"

Stable == INSTANCE StableMap WITH Admissible <- Genuine, Initial <- First,
              backing <- map.active, mode <- Mode, queueing <- map.queue

\* The transaction implements the contract of the stable map.
ImplementsStableMap == Stable!Contract

-----------------------------------------------------------------------------
(* Progress.                                                                 *)

\* The event loop wakes at the deadline at the latest, threads and processes
\* are scheduled, system calls return, an owner told to stop exits, and systemd
\* runs ExecStopPost.  Nothing obliges disks to return or verification to pass.
FairSpec ==
    /\ Spec
    /\ WF_vars(DeadlinePasses /\ UNCHANGED takeoverVars)
    /\ WF_vars(StepExpires /\ UNCHANGED takeoverVars)
    /\ WF_vars(Work /\ UNCHANGED takeoverVars)
    /\ WF_vars(GuardExits /\ UNCHANGED takeoverVars)
    /\ WF_vars(Helpers)
    /\ WF_vars(TakeoverStep(FenceFree) /\ UNCHANGED guardVars)

\* An episode ends: the map is ready again or the owner gives up, even when an
\* operation never answers.
EpisodeEnds == deadline = "running" ~> (deadline = "none" \/ ~Running)

\* When the owner has ended, queueing is turned off (or the takeover asks for a
\* manual diagnosis): waiting on the fence never becomes everyone's waiting.
OwnerEndStopsQueueing == ~up ~> (~map.queue \/ tk.pc = "blocked")
=============================================================================
