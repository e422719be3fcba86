--------------------------- MODULE OwnedOperation ---------------------------
(***************************************************************************)
(* The operation executor of the guard runtime (OwnedOperation and the      *)
(* Owner fence, src/guard/native/runtime/core.cpp).                         *)
(*                                                                         *)
(* The controller hands one blocking function at a time to a detached       *)
(* worker thread.  The owner lock is a flock on an open file description:   *)
(* it stays taken while ANY duplicate of the descriptor is open.  Three     *)
(* kinds of duplicates exist: the controller's own descriptor, one per      *)
(* pending operation (its fence), and the one a helper process inherits as  *)
(* descriptor 3.  A later owner can only start when all of them are closed, *)
(* so what the executor must get right is when each one is closed.          *)
(*                                                                         *)
(* Bound: MaxOps, the number of operations started in a run.                *)
(***************************************************************************)
EXTENDS Naturals, FiniteSets

CONSTANT MaxOps        \* operations the controller starts; state_->token wraps never

ASSUME MaxOpsAssumption == MaxOps \in Nat

Token == 1 .. MaxOps
None  == 0             \* no pending operation (a null shared_ptr)

VARIABLES
    token,             \* state_->token: the last token issued
    pending,           \* state_->pending: token of the unconsumed operation, or None
    abandoned,         \* state_->abandoned
    notification,      \* state_->notification is an open eventfd
    signalled,         \* the eventfd counter is not zero
    cleanup_error,     \* state_->cleanup_error is set
    worker,            \* where the thread of each operation is
    value,             \* who holds the outcome of each operation
    released,          \* Pending::released of each operation
    gave_up,           \* Pending::abandoned of each operation
    fence,             \* operations whose Pending::fence is open
    helper,            \* operations whose running helper process inherited a fence
    descendant,        \* operations that left a descendant with the inherited fence
    owner_fd,          \* the controller's own descriptor (Owner::fd) is open
    cleaned            \* operations whose outcome went to the cleanup callback

control == <<token, pending, abandoned, notification, signalled, cleanup_error>>
threads == <<worker, value, released, gave_up, cleaned>>
fds     == <<fence, helper, descendant, owner_fd>>
vars    == <<control, threads, fds>>

\* "waiting": the outcome is published, the thread waits on Pending::release.
\* "dropping": the outcome is destroyed, the fence is not closed yet.
WorkerState == {"unborn", "running", "waiting", "cleaning", "dropping", "gone"}
ValueState  == {"none", "pending", "delivered", "destroyed"}

TypeOK ==
    /\ token \in 0 .. MaxOps
    /\ pending \in (1 .. token) \cup {None}
    /\ abandoned \in BOOLEAN /\ notification \in BOOLEAN /\ signalled \in BOOLEAN
    /\ cleanup_error \in BOOLEAN /\ owner_fd \in BOOLEAN
    /\ worker \in [Token -> WorkerState]
    /\ value \in [Token -> ValueState]
    /\ released \in [Token -> BOOLEAN]
    /\ gave_up \in [Token -> BOOLEAN]
    /\ fence \subseteq Token /\ helper \subseteq Token
    /\ descendant \subseteq Token /\ cleaned \subseteq Token

Init ==
    /\ token = 0 /\ pending = None
    /\ abandoned = FALSE /\ notification = TRUE /\ signalled = FALSE
    /\ cleanup_error = FALSE /\ owner_fd = TRUE
    /\ worker = [t \in Token |-> "unborn"]
    /\ value = [t \in Token |-> "none"]
    /\ released = [t \in Token |-> FALSE]
    /\ gave_up = [t \in Token |-> FALSE]
    /\ fence = {} /\ helper = {} /\ descendant = {} /\ cleaned = {}

\* flock(LOCK_EX) by another process fails while any duplicate is open.
FenceHeld == owner_fd \/ fence # {} \/ helper # {} \/ descendant # {}

-----------------------------------------------------------------------------
(* The controller thread.  It owns the executor while owner_fd is open.      *)

\* Wrong: start() does not refuse while the predecessor is unconsumed.
MayStart_IgnoresPending == ~abandoned

\* start() refuses an abandoned executor and an unconsumed predecessor.
MayStart == ~abandoned /\ pending = None

Start ==
    /\ owner_fd /\ MayStart /\ token < MaxOps
    /\ token' = token + 1
    /\ pending' = token + 1
    /\ worker' = [worker EXCEPT ![token + 1] = "running"]
    /\ fence' = fence \cup {token + 1}
    /\ UNCHANGED <<abandoned, notification, signalled, cleanup_error, value,
                   released, gave_up, cleaned, helper, descendant, owner_fd>>

\* fcntl or std::thread throws: the token is spent, nothing is pending.
StartFails ==
    /\ owner_fd /\ MayStart /\ token < MaxOps
    /\ token' = token + 1
    /\ UNCHANGED <<pending, abandoned, notification, signalled, cleanup_error,
                   threads, fds>>

\* poll(): the outcome moves to the controller, which still holds owner_fd.
Poll ==
    /\ owner_fd /\ ~abandoned
    /\ pending # None /\ value[pending] = "pending"
    /\ value' = [value EXCEPT ![pending] = "delivered"]
    /\ released' = [released EXCEPT ![pending] = TRUE]
    /\ fence' = fence \ {pending}
    /\ signalled' = FALSE
    /\ pending' = None
    /\ UNCHANGED <<token, abandoned, notification, cleanup_error, worker,
                   gave_up, cleaned, helper, descendant, owner_fd>>

\* Wrong variants of abandon(): it closes the fence of the running operation
\* at once; it does not wake the thread.
Abandon_ClosesFence ==
    /\ owner_fd /\ ~abandoned
    /\ abandoned' = TRUE
    /\ fence' = fence \ {pending}
    /\ gave_up' = [t \in Token |-> gave_up[t] \/ t = pending]
    /\ released' = [t \in Token |-> released[t] \/ t = pending]
    /\ notification' = (pending # None)
    /\ UNCHANGED <<token, pending, signalled, cleanup_error, worker, value,
                   cleaned, helper, descendant, owner_fd>>

Abandon_NoWakeup ==
    /\ owner_fd /\ ~abandoned
    /\ abandoned' = TRUE
    /\ gave_up' = [t \in Token |-> gave_up[t] \/ t = pending]
    /\ notification' = (pending # None)
    /\ UNCHANGED <<token, pending, signalled, cleanup_error, worker, value,
                   released, cleaned, fds>>

\* abandon(cleanup), close(cleanup) and the destructor.
Abandon ==
    /\ owner_fd /\ ~abandoned
    /\ abandoned' = TRUE
    /\ IF pending # None
         THEN /\ gave_up' = [gave_up EXCEPT ![pending] = TRUE]
              /\ released' = [released EXCEPT ![pending] = TRUE]
              /\ UNCHANGED notification
         ELSE /\ notification' = FALSE
              /\ UNCHANGED <<gave_up, released>>
    /\ UNCHANGED <<token, pending, signalled, cleanup_error, worker, value,
                   cleaned, fds>>

\* The controller's scope ends (after shutdown) and Owner::fd is closed.
CloseOwner ==
    /\ owner_fd /\ abandoned
    /\ owner_fd' = FALSE
    /\ UNCHANGED <<control, threads, fence, helper, descendant>>

-----------------------------------------------------------------------------
(* The worker thread of operation t.                                        *)

\* The function runs a command; fence_fd() hands it the pending fence.
SpawnHelper(t) ==
    /\ worker[t] = "running" /\ pending = t /\ t \in fence /\ t \notin helper
    /\ helper' = helper \cup {t}
    /\ UNCHANGED <<control, threads, fence, descendant, owner_fd>>

\* The direct child ends; what it forked may keep the inherited descriptor.
HelperExits(t) ==
    /\ t \in helper
    /\ helper' = helper \ {t}
    /\ \E survives \in BOOLEAN :
         descendant' = IF survives THEN descendant \cup {t} ELSE descendant
    /\ UNCHANGED <<control, threads, fence, owner_fd>>

DescendantExits(t) ==
    /\ t \in descendant
    /\ descendant' = descendant \ {t}
    /\ UNCHANGED <<control, threads, fence, helper, owner_fd>>

\* The function returned or threw (command() returns only once its child is
\* reaped); the outcome is published and the eventfd written under the lock.
Publish(t) ==
    /\ worker[t] = "running" /\ t \notin helper
    /\ worker' = [worker EXCEPT ![t] = "waiting"]
    /\ value' = [value EXCEPT ![t] = "pending"]
    /\ signalled' = TRUE
    /\ UNCHANGED <<token, pending, abandoned, notification, cleanup_error,
                   released, gave_up, cleaned, fds>>

\* Woken after poll(): the result belongs to the controller.
Leave(t) ==
    /\ worker[t] = "waiting" /\ released[t] /\ ~gave_up[t]
    /\ worker' = [worker EXCEPT ![t] = "gone"]
    /\ UNCHANGED <<control, value, released, gave_up, cleaned, fds>>

\* Wrong: the thread decides by the executor's flag, not by its own operation's.
Cleanup_ByExecutorFlag(t) ==
    /\ worker[t] = "waiting" /\ released[t] /\ abandoned
    /\ worker' = [worker EXCEPT ![t] = "cleaning"]
    /\ cleaned' = cleaned \cup {t}
    /\ UNCHANGED <<control, value, released, gave_up, fds>>

\* Woken after abandon(): the cleanup callback gets the outcome, unlocked.
Cleanup(t) ==
    /\ worker[t] = "waiting" /\ released[t] /\ gave_up[t]
    /\ worker' = [worker EXCEPT ![t] = "cleaning"]
    /\ cleaned' = cleaned \cup {t}
    /\ UNCHANGED <<control, value, released, gave_up, fds>>

\* The callback returned or threw; the value dies before the fence does.
DestroyValue(t) ==
    /\ worker[t] = "cleaning"
    /\ worker' = [worker EXCEPT ![t] = "dropping"]
    /\ value' = [value EXCEPT ![t] = "destroyed"]
    /\ \E throws \in BOOLEAN : cleanup_error' = (cleanup_error \/ throws)
    /\ UNCHANGED <<token, pending, abandoned, notification, signalled,
                   released, gave_up, cleaned, fds>>

DropFence(t) ==
    /\ worker[t] = "dropping"
    /\ worker' = [worker EXCEPT ![t] = "gone"]
    /\ fence' = fence \ {t}
    /\ pending' = IF pending = t THEN None ELSE pending
    /\ notification' = FALSE
    /\ UNCHANGED <<token, abandoned, signalled, cleanup_error, value, released,
                   gave_up, cleaned, helper, descendant, owner_fd>>

-----------------------------------------------------------------------------
Controller == Start \/ StartFails \/ Poll \/ Abandon \/ CloseOwner
Thread(t)  == Publish(t) \/ Leave(t) \/ Cleanup(t) \/ DestroyValue(t) \/ DropFence(t)
Process(t) == HelperExits(t) \/ DescendantExits(t)

Next == Controller \/ \E t \in Token : SpawnHelper(t) \/ Thread(t) \/ Process(t)

Spec == Init /\ [][Next]_vars

\* A runnable thread is scheduled, a helper's system call returns in the end (a
\* helper stuck for ever in the kernel rightly keeps the fence for ever), and an
\* operation is a finite list of commands, so it cannot spawn helpers for ever:
\* Publish is strongly fair.  Nothing obliges the controller to poll or stop.
FairSpec ==
    /\ Spec
    /\ \A t \in Token : /\ WF_vars(Thread(t)) /\ SF_vars(Publish(t))
                        /\ WF_vars(HelperExits(t)) /\ WF_vars(DescendantExits(t))

-----------------------------------------------------------------------------
(* Properties.                                                              *)

\* At most one operation is in flight and it is the pending one: a second
\* worker never overlaps a running function, an unconsumed outcome or a cleanup.
InFlight(t) == worker[t] \in {"running", "cleaning", "dropping"} \/ value[t] = "pending"
SingleFlight == \A t \in Token : InFlight(t) => pending = t

\* Whoever can take the owner lock finds no function running, no helper alive
\* and no outcome (which may own a candidate's open device) undestroyed: every
\* worker that still owes something keeps its own fence, whatever the order in
\* which the controller polls, abandons, closes its descriptor and goes away.
FenceCoversWork ==
    /\ \A t \in Token : InFlight(t) => t \in fence
    /\ \A t \in helper : worker[t] = "running"

\* An outcome has one destiny.  A thread that has left either delivered it to
\* the controller or passed it to cleanup, never both and never neither; an
\* outcome handed to cleanup is never also polled.
ExactlyOneDestiny ==
    \A t \in Token :
        /\ t \in cleaned => value[t] # "delivered"
        /\ worker[t] = "gone" => (value[t] = "delivered") # (t \in cleaned)

\* The event loop can always learn of a completion: while a function runs the
\* eventfd it will write is open, and an outcome that may still be polled has
\* left the eventfd readable, however many operations preceded it.
CompletionObservable ==
    \A t \in Token :
        /\ InFlight(t) => notification
        /\ value[t] = "pending" /\ ~abandoned => signalled

\* Once the controller has closed its descriptor the fence is released in the
\* end: no interleaving of poll, abandon and completion leaks a duplicate.
FenceReleased == ~owner_fd ~> ~FenceHeld
=============================================================================
