------------------------- MODULE Controller_proofs -------------------------
(***************************************************************************)
(* Proofs about the controller process and about the integration that        *)
(* installs and starts it: the operation executor, for any number of         *)
(* operations; the event loop, for any socket, batch, period and number of   *)
(* events, requests and signals; and the management integration, for any     *)
(* maps, program versions, upgrades, failing steps, deaths and edits.        *)
(*                                                                         *)
(* Part 1, OwnedOperation.  The safety properties are not inductive by       *)
(* themselves: that a thread keeps its fence depends on where the thread is, *)
(* on what it was told (released, gave_up) and on which operation is         *)
(* pending.  ThreadOK says, for one operation, which combinations occur;     *)
(* IInv adds what the controller's own fields imply.                         *)
(*                                                                         *)
(* Part 2, EventLoop.  The properties bound times, so the invariant LoopInv  *)
(* bounds, at every place of the loop, the time that passed plus the time    *)
(* the loop may still stay there (AwayOK).  An announced change waits behind *)
(* a number of batches, and each of them, with the request that may be       *)
(* served after it, leaves one batch less (HintOK).                          *)
(*                                                                         *)
(* Part 3, Manager.  A command may end after any of its steps, so Coherent   *)
(* and EntryIsComplete hold all the time; the other parts of ManagerInv say, *)
(* step by step, what a command has written and what it has not yet written, *)
(* and UndoOK what a rollback has put back when no step of it failed.        *)
(***************************************************************************)
EXTENDS OwnedOperation, EventLoop, Manager, TLAPS

-----------------------------------------------------------------------------
(* PART 1: THE OPERATION EXECUTOR *)

\* What the thread's position implies about its outcome and its fence.
Place(t) ==
    /\ worker[t] = "unborn"   => value[t] = "none" /\ t \notin cleaned
    /\ worker[t] = "running"  => value[t] = "none" /\ t \notin cleaned
    /\ worker[t] = "waiting"  => value[t] \in {"pending", "delivered"} /\ t \notin cleaned
    /\ worker[t] = "cleaning" => value[t] = "pending" /\ t \in cleaned /\ gave_up[t]
    /\ worker[t] = "dropping" => value[t] = "destroyed" /\ t \in cleaned /\ gave_up[t]
    /\ worker[t] = "gone"     => (value[t] = "delivered") # (t \in cleaned)
    /\ worker[t] = "gone"     => value[t] \in {"delivered", "destroyed"}

\* An operation in flight is the pending one and holds its fence; it is told to
\* leave only by an abandon.
Flight(t) ==
    /\ InFlight(t) => pending = t /\ t \in fence
    /\ InFlight(t) /\ released[t] => gave_up[t]
    /\ value[t] = "delivered" => released[t] /\ ~gave_up[t]

ThreadOK(t) == Place(t) /\ Flight(t)

\* The controller's fields.
ControlOK ==
    /\ pending # None => pending <= token /\ InFlight(pending)
    /\ \A t \in Token : t > token => worker[t] = "unborn" /\ ~released[t] /\ ~gave_up[t]
    /\ \A t \in Token : gave_up[t] => abandoned
    /\ ~notification => abandoned /\ pending = None
    /\ \A t \in Token : value[t] = "pending" /\ ~abandoned => signalled
    /\ \A t \in helper : worker[t] = "running"

IInv == TypeOK /\ ControlOK /\ \A t \in Token : ThreadOK(t)

-----------------------------------------------------------------------------
LEMMA InitIInv == Init => IInv
<1> SUFFICES ASSUME Init PROVE IInv  OBVIOUS
<1> USE DEF Init, Token, None
<1>1. TypeOK
  <2>1. token \in 0 .. MaxOps  BY MaxOpsAssumption
  <2>2. worker \in [Token -> WorkerState] /\ value \in [Token -> ValueState]
    BY DEF WorkerState, ValueState
  <2>3. released \in [Token -> BOOLEAN] /\ gave_up \in [Token -> BOOLEAN]
    OBVIOUS
  <2> QED  BY <2>1, <2>2, <2>3 DEF TypeOK
<1>2. ControlOK
  BY DEF ControlOK, InFlight
<1>3. \A t \in Token : ThreadOK(t)
  BY DEF ThreadOK, Place, Flight, InFlight
<1> QED  BY <1>1, <1>2, <1>3 DEF IInv

LEMMA StartStep ==
  ASSUME IInv, Start PROVE IInv'
<1> USE MaxOpsAssumption DEF IInv, Token, None, Start, MayStart, control, threads, fds
<1>1. TypeOK'
  BY DEF TypeOK, WorkerState, ValueState
<1>2. ControlOK'
  BY DEF TypeOK, ControlOK, ThreadOK, Place, Flight, InFlight, WorkerState, ValueState
<1>3. ASSUME NEW t \in Token PROVE ThreadOK(t)'
  BY <1>3 DEF TypeOK, ControlOK, ThreadOK, Place, Flight, InFlight, WorkerState, ValueState
<1> QED  BY <1>1, <1>2, <1>3

LEMMA StartFailsStep ==
  ASSUME IInv, StartFails PROVE IInv'
<1> USE MaxOpsAssumption DEF IInv, Token, None, StartFails, MayStart, control, threads, fds
<1>1. TypeOK'
  BY DEF TypeOK, WorkerState, ValueState
<1>2. ControlOK'
  BY DEF TypeOK, ControlOK, ThreadOK, Place, Flight, InFlight, WorkerState, ValueState
<1>3. ASSUME NEW t \in Token PROVE ThreadOK(t)'
  BY <1>3 DEF TypeOK, ControlOK, ThreadOK, Place, Flight, InFlight, WorkerState, ValueState
<1> QED  BY <1>1, <1>2, <1>3

LEMMA PollStep ==
  ASSUME IInv, Poll PROVE IInv'
<1> USE MaxOpsAssumption DEF IInv, Token, None, Poll, control, threads, fds
<1>1. TypeOK'
  BY DEF TypeOK, WorkerState, ValueState
<1>2. ControlOK'
  BY DEF TypeOK, ControlOK, ThreadOK, Place, Flight, InFlight, WorkerState, ValueState
<1>3. ASSUME NEW t \in Token PROVE ThreadOK(t)'
  BY <1>3 DEF TypeOK, ControlOK, ThreadOK, Place, Flight, InFlight, WorkerState, ValueState
<1> QED  BY <1>1, <1>2, <1>3

LEMMA AbandonStep ==
  ASSUME IInv, Abandon PROVE IInv'
<1> USE MaxOpsAssumption DEF IInv, Token, None, Abandon, control, threads, fds
<1>1. TypeOK'
  BY DEF TypeOK, WorkerState, ValueState
<1>2. ControlOK'
  BY DEF TypeOK, ControlOK, ThreadOK, Place, Flight, InFlight, WorkerState, ValueState
<1>3. ASSUME NEW t \in Token PROVE ThreadOK(t)'
  BY <1>3 DEF TypeOK, ControlOK, ThreadOK, Place, Flight, InFlight, WorkerState, ValueState
<1> QED  BY <1>1, <1>2, <1>3

LEMMA CloseOwnerStep ==
  ASSUME IInv, CloseOwner PROVE IInv'
<1> USE MaxOpsAssumption DEF IInv, Token, None, CloseOwner, control, threads, fds
<1>1. TypeOK'
  BY DEF TypeOK, WorkerState, ValueState
<1>2. ControlOK'
  BY DEF TypeOK, ControlOK, ThreadOK, Place, Flight, InFlight, WorkerState, ValueState
<1>3. ASSUME NEW t \in Token PROVE ThreadOK(t)'
  BY <1>3 DEF TypeOK, ControlOK, ThreadOK, Place, Flight, InFlight, WorkerState, ValueState
<1> QED  BY <1>1, <1>2, <1>3

LEMMA SpawnHelperStep ==
  ASSUME IInv, NEW u \in Token, SpawnHelper(u) PROVE IInv'
<1> USE MaxOpsAssumption DEF IInv, Token, None, SpawnHelper, control, threads, fds
<1>1. TypeOK'
  BY DEF TypeOK, WorkerState, ValueState
<1>2. ControlOK'
  BY DEF TypeOK, ControlOK, ThreadOK, Place, Flight, InFlight, WorkerState, ValueState
<1>3. ASSUME NEW t \in Token PROVE ThreadOK(t)'
  BY <1>3 DEF TypeOK, ControlOK, ThreadOK, Place, Flight, InFlight, WorkerState, ValueState
<1> QED  BY <1>1, <1>2, <1>3

LEMMA HelperExitsStep ==
  ASSUME IInv, NEW u \in Token, HelperExits(u) PROVE IInv'
<1> USE MaxOpsAssumption DEF IInv, Token, None, HelperExits, control, threads, fds
<1>1. TypeOK'
  BY DEF TypeOK, WorkerState, ValueState
<1>2. ControlOK'
  BY DEF TypeOK, ControlOK, ThreadOK, Place, Flight, InFlight, WorkerState, ValueState
<1>3. ASSUME NEW t \in Token PROVE ThreadOK(t)'
  BY <1>3 DEF TypeOK, ControlOK, ThreadOK, Place, Flight, InFlight, WorkerState, ValueState
<1> QED  BY <1>1, <1>2, <1>3

LEMMA DescendantExitsStep ==
  ASSUME IInv, NEW u \in Token, DescendantExits(u) PROVE IInv'
<1> USE MaxOpsAssumption DEF IInv, Token, None, DescendantExits, control, threads, fds
<1>1. TypeOK'
  BY DEF TypeOK, WorkerState, ValueState
<1>2. ControlOK'
  BY DEF TypeOK, ControlOK, ThreadOK, Place, Flight, InFlight, WorkerState, ValueState
<1>3. ASSUME NEW t \in Token PROVE ThreadOK(t)'
  BY <1>3 DEF TypeOK, ControlOK, ThreadOK, Place, Flight, InFlight, WorkerState, ValueState
<1> QED  BY <1>1, <1>2, <1>3

LEMMA PublishStep ==
  ASSUME IInv, NEW u \in Token, Publish(u) PROVE IInv'
<1> USE MaxOpsAssumption DEF IInv, Token, None, Publish, control, threads, fds
<1>1. TypeOK'
  BY DEF TypeOK, WorkerState, ValueState
<1>2. ControlOK'
  BY DEF TypeOK, ControlOK, ThreadOK, Place, Flight, InFlight, WorkerState, ValueState
<1>3. ASSUME NEW t \in Token PROVE ThreadOK(t)'
  BY <1>3 DEF TypeOK, ControlOK, ThreadOK, Place, Flight, InFlight, WorkerState, ValueState
<1> QED  BY <1>1, <1>2, <1>3

LEMMA LeaveStep ==
  ASSUME IInv, NEW u \in Token, Leave(u) PROVE IInv'
<1> USE MaxOpsAssumption DEF IInv, Token, None, Leave, control, threads, fds
<1>1. TypeOK'
  BY DEF TypeOK, WorkerState, ValueState
<1>2. ControlOK'
  BY DEF TypeOK, ControlOK, ThreadOK, Place, Flight, InFlight, WorkerState, ValueState
<1>3. ASSUME NEW t \in Token PROVE ThreadOK(t)'
  BY <1>3 DEF TypeOK, ControlOK, ThreadOK, Place, Flight, InFlight, WorkerState, ValueState
<1> QED  BY <1>1, <1>2, <1>3

LEMMA CleanupStep ==
  ASSUME IInv, NEW u \in Token, Cleanup(u) PROVE IInv'
<1> USE MaxOpsAssumption DEF IInv, Token, None, Cleanup, control, threads, fds
<1>1. TypeOK'
  BY DEF TypeOK, WorkerState, ValueState
<1>2. ControlOK'
  BY DEF TypeOK, ControlOK, ThreadOK, Place, Flight, InFlight, WorkerState, ValueState
<1>3. ASSUME NEW t \in Token PROVE ThreadOK(t)'
  BY <1>3 DEF TypeOK, ControlOK, ThreadOK, Place, Flight, InFlight, WorkerState, ValueState
<1> QED  BY <1>1, <1>2, <1>3

LEMMA DestroyValueStep ==
  ASSUME IInv, NEW u \in Token, DestroyValue(u) PROVE IInv'
<1> USE MaxOpsAssumption DEF IInv, Token, None, DestroyValue, control, threads, fds
<1>1. TypeOK'
  BY DEF TypeOK, WorkerState, ValueState
<1>2. ControlOK'
  BY DEF TypeOK, ControlOK, ThreadOK, Place, Flight, InFlight, WorkerState, ValueState
<1>3. ASSUME NEW t \in Token PROVE ThreadOK(t)'
  BY <1>3 DEF TypeOK, ControlOK, ThreadOK, Place, Flight, InFlight, WorkerState, ValueState
<1> QED  BY <1>1, <1>2, <1>3

LEMMA DropFenceStep ==
  ASSUME IInv, NEW u \in Token, DropFence(u) PROVE IInv'
<1> USE MaxOpsAssumption DEF IInv, Token, None, DropFence, control, threads, fds
<1>1. TypeOK'
  BY DEF TypeOK, WorkerState, ValueState
<1>2. ControlOK'
  BY DEF TypeOK, ControlOK, ThreadOK, Place, Flight, InFlight, WorkerState, ValueState
<1>3. ASSUME NEW t \in Token PROVE ThreadOK(t)'
  BY <1>3 DEF TypeOK, ControlOK, ThreadOK, Place, Flight, InFlight, WorkerState, ValueState
<1> QED  BY <1>1, <1>2, <1>3

LEMMA StutterStep ==
  ASSUME IInv, UNCHANGED vars PROVE IInv'
BY DEF IInv, TypeOK, ControlOK, ThreadOK, Place, Flight, InFlight, Token,
       vars, control, threads, fds

LEMMA NextIInv == IInv /\ [Next]_vars => IInv'
<1> SUFFICES ASSUME IInv, [Next]_vars PROVE IInv'  OBVIOUS
<1>1. CASE Start         BY <1>1, StartStep
<1>2. CASE StartFails    BY <1>2, StartFailsStep
<1>3. CASE Poll          BY <1>3, PollStep
<1>4. CASE Abandon       BY <1>4, AbandonStep
<1>5. CASE CloseOwner    BY <1>5, CloseOwnerStep
<1>6. ASSUME NEW t \in Token, SpawnHelper(t) \/ Thread(t) \/ Process(t) PROVE IInv'
  BY <1>6, SpawnHelperStep, HelperExitsStep, DescendantExitsStep, PublishStep,
     LeaveStep, CleanupStep, DestroyValueStep, DropFenceStep DEF Thread, Process
<1>7. CASE UNCHANGED vars  BY <1>7, StutterStep
<1> QED  BY <1>1, <1>2, <1>3, <1>4, <1>5, <1>6, <1>7 DEF Next, Controller

-----------------------------------------------------------------------------
(* What the invariant implies.                                              *)

\* For any number of operations, in every reachable state: the variables have
\* their types, IInv holds.
THEOREM Invariance == Spec => []IInv
BY InitIInv, NextIInv, PTL DEF Spec

\* What the controller, the threads and the fences may hold.
THEOREM TypeCorrect == Spec => []TypeOK
<1>1. IInv => TypeOK  BY DEF IInv
<1> QED  BY <1>1, Invariance, PTL

\* OwnedOperation::start never lets a second worker overlap an operation.
THEOREM SingleFlightHolds == Spec => []SingleFlight
<1>1. IInv => SingleFlight  BY DEF IInv, ThreadOK, Flight, SingleFlight
<1> QED  BY <1>1, Invariance, PTL

\* Whatever the controller does, a worker that still owes something keeps its
\* own fence, and a helper is alive only under its running worker.
THEOREM FenceCovers == Spec => []FenceCoversWork
<1>1. IInv => FenceCoversWork
  BY DEF IInv, ThreadOK, Flight, ControlOK, FenceCoversWork
<1> QED  BY <1>1, Invariance, PTL

\* An outcome is delivered or cleaned up, never both and never neither.
THEOREM OneDestiny == Spec => []ExactlyOneDestiny
<1>1. IInv => ExactlyOneDestiny
  <2> SUFFICES ASSUME IInv, NEW t \in Token
               PROVE  /\ t \in cleaned => value[t] # "delivered"
                      /\ worker[t] = "gone" => (value[t] = "delivered") # (t \in cleaned)
    BY DEF ExactlyOneDestiny
  <2>1. ThreadOK(t) /\ worker[t] \in WorkerState  BY DEF IInv, TypeOK
  <2> QED  BY <2>1 DEF ThreadOK, Place, WorkerState
<1> QED  BY <1>1, Invariance, PTL

\* A completion always reaches an open, signalled eventfd.
THEOREM CompletionIsObservable == Spec => []CompletionObservable
<1>1. IInv => CompletionObservable
  BY DEF IInv, ThreadOK, Flight, ControlOK, CompletionObservable, Token, None
<1> QED  BY <1>1, Invariance, PTL

-----------------------------------------------------------------------------
(* PART 2: THE EVENT LOOP *)

(* The invariant. *)

\* The times of the next check: an event does not wait longer than the check itself, the
\* pauses stay within their limits, and after a check events wait for Gap.
TimerOK ==
    /\ timer.delay \in DelayMin .. DelayMax /\ timer.after <= timer.next /\ timer.next <= Period
    /\ timer.after + seen.check >= Gap
    /\ ~ Open /\ loop.pc # "step" => timer.after <= Gap
    /\ Len(socket.queue) <= Socket

\* An operation runs in an episode only, and a change is not counted while it does.
EpisodeOK ==
    /\ guard.op # "none" => Open /\ seen.age = 0
    /\ guard.op # "done" => seen.outcome = 0
    /\ ~ Passed => seen.late = 0
    /\ seen.change = "none" => seen.age = 0
    /\ "ours" \in loop.watch

\* What passed since the deadline, since the end of the operation and since the change,
\* and how long the loop still stays where it is.
StepAway ==
    loop.pc = "step" => /\ seen.late + loop.rest <= StepTime
                        /\ seen.outcome + loop.rest <= StepTime
                        /\ seen.age + loop.rest <= StepTime
PollAway ==
    loop.pc \in {"wait", "poll"} =>
        /\ seen.late <= StepTime /\ seen.outcome <= Away
        /\ seen.age + timer.next <= Period + StepTime
SleepAway ==
    loop.pc = "sleep" =>
        /\ loop.rest <= Pause
        /\ seen.late + loop.rest <= StepTime + Pause
        /\ seen.age + loop.rest <= Period + StepTime + Pause
        /\ IF loop.completed THEN loop.rest = 0 /\ seen.outcome <= Away
           ELSE seen.outcome + loop.rest <= Pause
ServeAway ==
    loop.pc = "serve" =>
        /\ loop.rest <= ServeTime
        /\ seen.late + loop.rest <= Away
        /\ seen.age + loop.rest <= Period + Away
        /\ IF loop.completed THEN seen.outcome + loop.rest <= Away + ServeTime
           ELSE seen.outcome + loop.rest <= Pause + ServeTime
CheckAway ==
    loop.pc \in {"check", "over"} =>
        /\ seen.late <= Away /\ seen.age <= Period + Away /\ seen.outcome <= Away + ServeTime
        /\ loop.pc = "check" /\ ~ loop.completed => seen.outcome <= Away
NextAway ==
    loop.pc \in {"sleep", "serve", "check"} /\ timer.next > 0 =>
        seen.age + timer.next <= Period + StepTime
AwayOK == StepAway /\ PollAway /\ SleepAway /\ ServeAway /\ CheckAway /\ NextAway

\* A poll that returned for an event only is followed by a wait or by a check.
PaceOK ==
    /\ seen.idle <= 1
    /\ loop.pc \in {"step", "wait"} => seen.idle = 0
    /\ loop.pc \in {"sleep", "check"} /\ seen.idle = 1 =>
          (loop.pc = "sleep" /\ loop.rest > 0) \/ loop.pending \/ timer.next = 0 \/ Passed
    /\ loop.pc = "wait" => ~ loop.pending
    /\ loop.pc = "sleep" /\ loop.pending => loop.rest = 0
    /\ loop.pc = "poll" => /\ loop.defer = loop.pending
                           /\ loop.wait = 0 => Wake = 0
                           /\ seen.idle = 1 => loop.pending /\ Wake > 0

\* A relevant event waits in the socket, behind at most k batches.
Behind(k) ==
    \/ socket.overrun
    \/ \E i \in 1 .. Len(socket.queue) : socket.queue[i] \in loop.watch /\ i <= (k + 1) * Batch

\* The time k batches take, and the time until the event is found.
Time(k) == k * (Pause + ServeTime)
Found == StepTime + Time(Batches)

\* How long the change that the event announced has waited, and will.
Waiting(k) ==
    /\ loop.pc \in {"wait", "poll", "check"} => seen.age + Time(k) <= Found
    /\ loop.pc = "sleep" => seen.age + loop.rest + ServeTime + Time(k) <= Found
    /\ loop.pc = "serve" => seen.age + loop.rest + Time(k) <= Found

\* The event was found; the check waits for its turn.
Turn ==
    /\ timer.after > 0 => seen.age + timer.after <= Found + Gap
    /\ loop.pc \in {"poll", "sleep"} => seen.age <= Found + Gap
    /\ loop.pc = "serve" => seen.age + loop.rest <= Found + Gap + ServeTime
    /\ loop.pc = "check" => seen.age <= Found + Gap + ServeTime

HintOK ==
    ~ Open /\ seen.change = "announced" =>
        /\ loop.pc \in {"wait", "poll", "sleep", "serve", "check"} =>
              IF loop.pending THEN Turn
              ELSE \E k \in 0 .. Batches - 1 : Behind(k) /\ Waiting(k)
        /\ loop.pc = "over" => seen.age <= Found + Gap + ServeTime

LoopInv == LoopTypeOK /\ TimerOK /\ EpisodeOK /\ AwayOK /\ PaceOK /\ HintOK

-----------------------------------------------------------------------------
(* The constants. *)

LEMMA Bounds ==
  /\ Period \in Nat /\ Gap \in Nat /\ DelayMin \in Nat /\ DelayMax \in Nat /\ Pause \in Nat
  /\ Batch \in Nat /\ Socket \in Nat /\ Queue \in Nat /\ StepTime \in Nat /\ ServeTime \in Nat
  /\ MaxChanges \in Nat /\ MaxNoise \in Nat /\ MaxRequests \in Nat /\ MaxSignals \in Nat
  /\ 0 < Gap /\ Gap <= DelayMin /\ DelayMin <= DelayMax /\ DelayMax <= Period
  /\ 0 < Pause /\ 0 < Batch /\ 0 < Socket /\ 0 < Queue
BY EventLoopAssumption

LEMMA BatchesCover == Batches \in Nat /\ Batches >= 1 /\ Socket <= Batches * Batch
<1> DEFINE a == Socket + Batch - 1
           q == a \div Batch
<1>1. a \in Nat /\ Batch \in Nat /\ Batch > 0 /\ a >= Batch /\ a = Socket + Batch - 1 /\ Socket \in Nat  BY Bounds
<1>2. q \in Int /\ q * Batch <= a /\ a < q * Batch + Batch  BY <1>1, Z3
<1> QED  BY <1>1, <1>2 DEF Batches

LEMMA TimeGrows ==
  /\ Time(Batches) \in Nat /\ Time(Batches - 1) + Pause + ServeTime = Time(Batches)
  /\ \A k \in Nat : Time(k) \in Nat /\ Time(k + 1) = Time(k) + Pause + ServeTime
BY Bounds, BatchesCover DEF Time

-----------------------------------------------------------------------------
(* The types. *)

Loop == [pc : {"check", "step", "wait", "poll", "sleep", "serve", "over"}, rest : Nat, wait : Nat,
         pending : BOOLEAN, completed : BOOLEAN, control : BOOLEAN, defer : BOOLEAN,
         watch : SUBSET Event]
Timer == [next : Nat, after : Nat, delay : Nat, deadline : Nat \cup {NoDeadline}]
Buffer == [queue : Seq(Event), overrun : BOOLEAN, congested : BOOLEAN]
Seen == [change : {"none", "announced", "silent"}, age : Nat, outcome : Nat,
         late : Nat, check : 0 .. Gap, idle : Nat]
PathGuard == [broken : BOOLEAN, op : {"none", "running", "done"}, request : BOOLEAN]

LEMMA LoopTypes ==
  LoopTypeOK <=> /\ loop \in Loop /\ timer \in Timer /\ socket \in Buffer /\ guard \in PathGuard
                 /\ seen \in Seen /\ coming \in [{"changes", "noise", "requests", "signals"} -> Nat]
BY DEF LoopTypeOK, Loop, Timer, Buffer, Seen, PathGuard

LEMMA LoopTypesNext ==
  LoopTypeOK' <=> /\ loop' \in Loop /\ timer' \in Timer /\ socket' \in Buffer /\ guard' \in PathGuard
                  /\ seen' \in Seen /\ coming' \in [{"changes", "noise", "requests", "signals"} -> Nat]
BY DEF LoopTypeOK, Loop, Timer, Buffer, Seen, PathGuard

LEMMA SpendTypes ==
  ASSUME LoopTypeOK, NEW what \in {"changes", "noise", "requests", "signals"}, Spend(what)
  PROVE  coming' \in [{"changes", "noise", "requests", "signals"} -> Nat]
<1>1. /\ coming \in [{"changes", "noise", "requests", "signals"} -> Nat] /\ coming[what] > 0
      /\ coming' = [coming EXCEPT ![what] = @ - 1]
  BY DEF LoopTypeOK, Spend
<1>2. coming[what] - 1 \in Nat  BY <1>1
<1> QED  BY <1>1, <1>2

\* The loop goes on at p and stays there for r.
Moves(p, r) ==
    /\ loop' \in Loop /\ loop'.pc = p /\ loop'.rest = r /\ loop'.wait = loop.wait
    /\ loop'.pending = loop.pending /\ loop'.completed = loop.completed
    /\ loop'.control = loop.control /\ loop'.defer = loop.defer /\ loop'.watch = loop.watch

LEMMA EnterMoves ==
  ASSUME LoopTypeOK, NEW p \in {"check", "step", "over", "serve"}, NEW r \in Nat, Enter(p, r)
  PROVE  Moves(p, r)
BY LoopTypes DEF Enter, Moves, Loop

\* The kernel queues an event behind the others, or drops it.
LEMMA Delivered ==
  ASSUME LoopTypeOK, Len(socket.queue) <= Socket, NEW e \in Event, Deliver(e)
  PROVE  /\ socket' \in Buffer /\ Len(socket'.queue) <= Socket
         /\ socket.overrun => socket'.overrun
         /\ \A i \in 1 .. Len(socket.queue) :
               i \in 1 .. Len(socket'.queue) /\ socket'.queue[i] = socket.queue[i]
         /\ ~ Full => /\ Len(socket'.queue) \in 1 .. Len(socket'.queue)
                      /\ socket'.queue[Len(socket'.queue)] = e
<1>1. socket.queue \in Seq(Event) /\ socket \in Buffer  BY LoopTypes DEF Buffer
<1>2. CASE Full
  <2>1. socket' = [socket EXCEPT !.congested = TRUE, !.overrun = @ \/ ~ socket.congested]  BY <1>2 DEF Deliver
  <2>2. socket.congested \in BOOLEAN /\ socket.overrun \in BOOLEAN  BY <1>1 DEF Buffer
  <2>3. (socket.overrun \/ ~ socket.congested) \in BOOLEAN  OBVIOUS
  <2>4. /\ socket' \in Buffer /\ socket'.queue = socket.queue
        /\ socket'.overrun = (socket.overrun \/ ~ socket.congested)
    BY <1>1, <2>1, <2>3 DEF Buffer
  <2> QED  BY <1>2, <2>4
<1>3. CASE ~ Full
  <2>1. socket' = [socket EXCEPT !.queue = Append(@, e)]  BY <1>3 DEF Deliver
  <2>2. /\ Append(socket.queue, e) \in Seq(Event) /\ Len(Append(socket.queue, e)) = Len(socket.queue) + 1
        /\ Append(socket.queue, e)[Len(socket.queue) + 1] = e
        /\ \A i \in 1 .. Len(socket.queue) : Append(socket.queue, e)[i] = socket.queue[i]
    BY <1>1
  <2>3. socket' \in Buffer /\ socket'.queue = Append(socket.queue, e) /\ socket'.overrun = socket.overrun
    BY <1>1, <2>1, <2>2 DEF Buffer
  <2>4. Len(socket.queue) # Socket /\ Len(socket.queue) \in Nat /\ Socket \in Nat  BY <1>1, <1>3, Bounds DEF Full
  <2> QED  BY <2>2, <2>3, <2>4
<1> QED  BY <1>2, <1>3

\* A batch that is not relevant leaves the others in their order.
LEMMA Drained ==
  ASSUME LoopTypeOK, Len(socket.queue) <= Socket, Drain
  PROVE  /\ socket' \in Buffer /\ Len(socket'.queue) <= Socket
         /\ ~ Hint => /\ ~ socket.overrun
                      /\ \A i \in 1 .. Len(socket.queue) :
                            socket.queue[i] \in loop.watch =>
                               /\ i > Batch /\ i - Batch \in 1 .. Len(socket'.queue)
                               /\ socket'.queue[i - Batch] = socket.queue[i]
<1>1. socket.queue \in Seq(Event) /\ socket \in Buffer /\ socket.congested \in BOOLEAN  BY LoopTypes DEF Buffer
<1>2. CASE socket.overrun
  <2>1. socket' = [socket EXCEPT !.overrun = FALSE]  BY <1>2 DEF Drain
  <2>2. socket' \in Buffer /\ socket'.queue = socket.queue  BY <1>1, <2>1 DEF Buffer
  <2> QED  BY <1>2, <2>2 DEF Hint
<1>3. CASE ~ socket.overrun
  <2> DEFINE q == socket.queue
             rest == SubSeq(q, Batch + 1, Len(q))
  <2>1. socket' = [socket EXCEPT !.queue = rest, !.congested = @ /\ rest # <<>>]  BY <1>3 DEF Drain
  <2>2. Len(q) \in Nat /\ Batch \in Nat /\ Batch > 0  BY <1>1, Bounds
  <2>3. /\ rest \in Seq(Event)
        /\ Len(rest) = IF Batch < Len(q) THEN Len(q) - Batch ELSE 0
        /\ \A i \in 1 .. Len(rest) : rest[i] = q[i + Batch]
    BY <1>1, <2>2
  <2>4. (socket.congested /\ rest # <<>>) \in BOOLEAN  OBVIOUS
  <2>5. socket' \in Buffer /\ socket'.queue = rest
    BY <1>1, <2>1, <2>3, <2>4 DEF Buffer
  <2>6. ASSUME ~ Hint, NEW i \in 1 .. Len(q), q[i] \in loop.watch
        PROVE  i > Batch
    <3> DEFINE b == Least(Batch, Len(q))
               first == SubSeq(q, 1, b)
    <3>1. ASSUME i <= Batch PROVE FALSE
      <4>1. b \in Nat /\ i <= b /\ b <= Len(q)  BY <2>2, <3>1 DEF Least
      <4>2. Len(first) = b /\ first[i] = q[i]  BY <1>1, <2>2, <4>1
      <4>3. DOMAIN first = 1 .. b  BY <1>1, <2>2, <4>1
      <4>4. i \in DOMAIN first /\ first[i] \in loop.watch  BY <4>1, <4>2, <4>3, <2>6
      <4>5. Relevant(first, loop.watch)  BY <4>4 DEF Relevant
      <4> QED  BY <4>5, <2>6 DEF Hint
    <3> QED  BY <2>2, <3>1
  <2>7. Len(rest) <= Len(q)  BY <2>2, <2>3
  <2>8. ASSUME ~ Hint, NEW i \in 1 .. Len(q), q[i] \in loop.watch
        PROVE  i - Batch \in 1 .. Len(rest) /\ rest[i - Batch] = q[i]
    BY <2>2, <2>3, <2>6, <2>8
  <2> HIDE DEF rest
  <2>9. Len(socket'.queue) <= Socket  BY <2>5, <2>7, <2>2, <2>3, Bounds
  <2> QED  BY <1>3, <2>5, <2>6, <2>8, <2>9
<1> QED  BY <1>2, <1>3

-----------------------------------------------------------------------------
(* Every action keeps the invariant. *)

\* The check begins.
LEMMA StepKeeps ==
  ASSUME LoopInv, Step
  PROVE  LoopInv'
<1> USE Bounds DEF LoopInv
<1>1. socket' = socket /\ coming' = coming /\ loop.pc = "check"  BY DEF Step
<1>2. loop \in Loop /\ timer \in Timer /\ guard \in PathGuard /\ seen \in Seen  BY LoopTypes
<1>3. CASE Over
  <2>1. Moves("over", 0) /\ UNCHANGED <<timer, guard, seen>>  BY <1>3, EnterMoves DEF Over
  <2>2. LoopTypeOK'  BY <1>1, <2>1, LoopTypes, LoopTypesNext DEF Moves
  <2>3. TimerOK' /\ EpisodeOK'  BY <1>1, <2>1 DEF TimerOK, EpisodeOK, Moves, Open, Passed
  <2>4. AwayOK'
    BY <1>1, <2>1 DEF AwayOK, StepAway, PollAway, SleepAway, ServeAway, CheckAway, NextAway, Moves
  <2>5. PaceOK'  BY <1>1, <2>1 DEF PaceOK, Moves
  <2>6. HintOK'
    <3>1. \A k \in Nat : Time(k) \in Nat  BY TimeGrows
    <3>2. Time(Batches) \in Nat  BY TimeGrows
    <3>3. Found \in Nat  BY <3>2 DEF Found
    <3>4. ASSUME ~ Open, seen.change = "announced" PROVE seen.age <= Found + Gap + ServeTime
      <4>1. CASE loop.pending  BY <1>1, <3>4, <4>1 DEF HintOK, Turn
      <4>2. CASE ~ loop.pending
        <5>1. PICK k \in 0 .. Batches - 1 : Waiting(k)  BY <1>1, <3>4, <4>2 DEF HintOK
        <5> QED  BY <1>1, <1>2, <3>1, <3>3, <5>1, BatchesCover DEF Waiting, Seen
      <4> QED  BY <4>1, <4>2, <1>2 DEF Loop
    <3> QED  BY <2>1, <3>4 DEF HintOK, Moves, Open
  <2> QED  BY <2>2, <2>3, <2>4, <2>5, <2>6
<1>4. CASE ~ Passed /\ Act /\ \E time \in 0 .. StepTime : Enter("step", time)
  <2>1. PICK time \in 0 .. StepTime : Moves("step", time)  BY <1>4, EnterMoves
  <2>2. /\ guard' \in PathGuard /\ timer' \in Timer /\ timer'.deadline # 0
        /\ timer'.next = timer.next /\ timer'.after = timer.after /\ timer'.delay = timer.delay
        /\ guard'.op # "none" => timer'.deadline # NoDeadline
        /\ guard'.op # "done"
        /\ \/ seen' = Look /\ (~ Open \/ guard.op = "none")
           \/ seen' = Blind /\ guard.op # "none"
    <3> USE DEF Timer, PathGuard, Passed, Open, NoDeadline
    <3>1. /\ guard.broken \in BOOLEAN /\ timer.deadline # 0 /\ Queue # 0
          /\ [timer EXCEPT !.deadline = NoDeadline] \in Timer /\ [timer EXCEPT !.deadline = Queue] \in Timer
      BY <1>2, <1>4
    <3>2. CASE /\ Open /\ guard.op = "done" /\ seen' = Blind
               /\ \/ guard' = [guard EXCEPT !.op = "running"] /\ UNCHANGED timer
                  \/ guard' = [guard EXCEPT !.op = "none"] /\ UNCHANGED timer
                  \/ guard' = [guard EXCEPT !.op = "none"] /\ timer' = [timer EXCEPT !.deadline = NoDeadline]
      <4>1. [guard EXCEPT !.op = "running"] \in PathGuard /\ [guard EXCEPT !.op = "none"] \in PathGuard
        BY <1>2
      <4> QED  BY <1>2, <3>1, <3>2, <4>1
    <3>3. CASE Open /\ guard.op = "running" /\ seen' = Blind /\ UNCHANGED <<guard, timer>>
      BY <1>2, <3>1, <3>3
    <3>4. CASE Open /\ guard.op = "none" /\ guard' = [guard EXCEPT !.op = "running"] /\ seen' = Look /\ UNCHANGED timer
      BY <1>2, <3>1, <3>4
    <3>5. CASE /\ ~ Open /\ seen' = Look
               /\ \/ guard' = [guard EXCEPT !.op = "running"] /\ timer' = [timer EXCEPT !.deadline = Queue]
                  \/ UNCHANGED <<guard, timer>>
      BY <1>2, <3>1, <3>5 DEF EpisodeOK
    <3> QED  BY <1>4, <3>2, <3>3, <3>4, <3>5 DEF Act
  <2>3. /\ seen' \in Seen /\ seen'.late = seen.late /\ seen'.check = seen.check /\ seen'.idle = 0
        /\ seen'.outcome = 0 /\ seen'.age = 0
    <3>1. CASE seen' = Look /\ (~ Open \/ guard.op = "none")
      <4>1. seen.outcome = 0  BY <3>1 DEF EpisodeOK
      <4> QED  BY <1>2, <3>1, <4>1 DEF Look, Seen
    <3>2. CASE seen' = Blind /\ guard.op # "none"
      <4>1. seen.age = 0  BY <3>2 DEF EpisodeOK
      <4> QED  BY <1>2, <3>2, <4>1 DEF Blind, Seen
    <3> QED  BY <2>2, <3>1, <3>2
  <2>4. LoopTypeOK'  BY <1>1, <2>1, <2>2, <2>3, LoopTypes, LoopTypesNext DEF Moves
  <2>5. TimerOK'  BY <1>1, <2>1, <2>2, <2>3 DEF TimerOK, Moves
  <2>6. EpisodeOK'  BY <1>4, <2>1, <2>2, <2>3 DEF EpisodeOK, Moves, Open, Passed
  <2>7. AwayOK'
    BY <1>2, <1>4, <2>1, <2>3 DEF EpisodeOK, AwayOK, StepAway, PollAway, SleepAway, ServeAway, CheckAway, NextAway,
       Moves, Seen
  <2>8. PaceOK'  BY <2>1, <2>3 DEF PaceOK, Moves
  <2>9. HintOK'  BY <2>1 DEF HintOK, Moves
  <2> QED  BY <2>4, <2>5, <2>6, <2>7, <2>8, <2>9
<1> QED  BY <1>3, <1>4 DEF Step

\* The check ends: the times of the next one are set.
LEMMA StepEndsKeeps ==
  ASSUME LoopInv, StepEnds
  PROVE  LoopInv'
<1> USE Bounds DEF LoopInv
<1>1. /\ loop \in Loop /\ timer \in Timer /\ guard \in PathGuard /\ seen \in Seen
      /\ socket \in Buffer /\ coming \in [{"changes", "noise", "requests", "signals"} -> Nat]
  BY LoopTypes
<1>2. /\ socket' = socket /\ guard' = guard /\ coming' = coming
      /\ loop.pc = "step" /\ loop.rest = 0
  BY DEF StepEnds
<1>3. Watch \in SUBSET Event /\ "ours" \in Watch  BY DEF Watch, Event
<1>4. /\ loop' \in Loop /\ loop'.pc = "wait" /\ loop'.pending = FALSE
      /\ loop'.completed = FALSE /\ loop'.watch = Watch
  BY <1>1, <1>3 DEF StepEnds, Loop
<1>5. /\ timer' \in Timer /\ timer'.deadline = timer.deadline
      /\ timer'.delay \in DelayMin .. DelayMax /\ timer'.after <= timer'.next /\ timer'.next <= Period
      /\ Gap <= timer'.after
      /\ ~ Open => timer'.after = Gap
  <2>1. timer.delay \in DelayMin .. DelayMax /\ Completed  BY DEF StepEnds, TimerOK
  <2>2. Least(DelayMax, 2 * timer.delay) \in DelayMin .. DelayMax  BY <2>1 DEF Least
  <2>3. CASE Open
    <3>1. timer' = [timer EXCEPT !.next = timer.delay, !.after = timer.delay,
                                 !.delay = Least(DelayMax, 2 * timer.delay)]
      BY <2>1, <2>3 DEF Completed
    <3>2. timer.delay \in Nat /\ Least(DelayMax, 2 * timer.delay) \in Nat  BY <2>1, <2>2
    <3>3. /\ timer' \in Timer /\ timer'.deadline = timer.deadline /\ timer'.next = timer.delay
          /\ timer'.after = timer.delay /\ timer'.delay = Least(DelayMax, 2 * timer.delay)
      BY <1>1, <3>1, <3>2 DEF Timer
    <3> QED  BY <2>1, <2>2, <2>3, <3>2, <3>3
  <2>4. CASE ~ Open
    <3>1. timer' = [timer EXCEPT !.next = Period, !.after = Gap, !.delay = DelayMin]
      BY <2>1, <2>4 DEF Completed
    <3>2. /\ timer' \in Timer /\ timer'.deadline = timer.deadline /\ timer'.next = Period
          /\ timer'.after = Gap /\ timer'.delay = DelayMin
      BY <1>1, <3>1 DEF Timer
    <3> QED  BY <2>4, <3>2
  <2> QED  BY <2>3, <2>4
<1>6. /\ seen' \in Seen /\ seen'.check = 0 /\ seen'.age = seen.age /\ seen'.late = seen.late
      /\ seen'.outcome = seen.outcome /\ seen'.idle = seen.idle
      /\ seen.change = "none" <=> seen'.change = "none"
      /\ seen'.change = "announced" => socket.overrun \/ Relevant(socket.queue, Watch)
  <2> DEFINE lost == /\ seen.change = "announced" /\ ~ socket.overrun
                     /\ ~ Relevant(socket.queue, Watch)
  <2>1. seen' = [seen EXCEPT !.check = 0, !.change = IF lost THEN "silent" ELSE seen.change]
    BY DEF StepEnds
  <2>2. PICK c \in {"none", "announced", "silent"} :
          /\ seen' = [seen EXCEPT !.check = 0, !.change = c]
          /\ seen.change = "none" <=> c = "none"
          /\ c = "announced" => socket.overrun \/ Relevant(socket.queue, Watch)
    BY <1>1, <2>1 DEF Seen
  <2>3. 0 \in 0 .. Gap  OBVIOUS
  <2> QED  BY <1>1, <2>2, <2>3 DEF Seen
<1>7. LoopTypeOK'  BY <1>1, <1>2, <1>4, <1>5, <1>6, LoopTypesNext
<1>8. TimerOK'
  <2>2. timer'.after \in Nat  BY <1>5 DEF Timer
  <2>1. timer'.after + 0 >= Gap /\ (~ Open => timer'.after <= Gap)  BY <1>5, <2>2
  <2> QED  BY <1>2, <1>4, <1>5, <1>6, <2>1 DEF TimerOK, Open
<1>9. EpisodeOK'  BY <1>2, <1>3, <1>4, <1>5, <1>6 DEF EpisodeOK, Open, Passed
<1>10. AwayOK'
  BY <1>1, <1>2, <1>4, <1>5, <1>6
  DEF AwayOK, StepAway, PollAway, SleepAway, ServeAway, CheckAway, NextAway, Away, Seen, Timer, Loop
<1>11. PaceOK'  BY <1>2, <1>4, <1>6 DEF PaceOK
<1>12. HintOK'
  <2>1. SUFFICES ASSUME seen'.change = "announced"
                 PROVE  \E k \in 0 .. Batches - 1 : Behind(k)' /\ Waiting(k)'
    BY <1>4 DEF HintOK
  <2>2. Behind(Batches - 1)'
    <3>1. CASE socket.overrun  BY <3>1, <1>2 DEF Behind
    <3>2. CASE Relevant(socket.queue, Watch)
      <4>1. PICK i \in DOMAIN socket.queue : socket.queue[i] \in Watch  BY <3>2 DEF Relevant
      <4>2. i \in 1 .. Len(socket.queue) /\ i <= Socket  BY <1>1, <4>1 DEF Buffer, TimerOK
      <4>3. (Batches - 1) + 1 = Batches  BY BatchesCover
      <4>4. i <= ((Batches - 1) + 1) * Batch  BY <4>2, <4>3, BatchesCover
      <4> QED  BY <1>2, <1>4, <4>1, <4>2, <4>4 DEF Behind
    <3> QED  BY <2>1, <1>6, <3>1, <3>2
  <2>3. Waiting(Batches - 1)'
    <3>1. seen.age <= StepTime  BY <1>1, <1>2 DEF AwayOK, StepAway, Seen
    <3>2. Time(Batches - 1) <= Time(Batches) /\ Time(Batches - 1) \in Int
      BY TimeGrows, BatchesCover DEF Time
    <3> QED  BY <1>1, <1>4, <1>6, <3>1, <3>2, TimeGrows DEF Waiting, Found, Seen
  <2>4. Batches - 1 \in 0 .. Batches - 1  BY BatchesCover
  <2> QED  BY <2>2, <2>3, <2>4
<1> QED  BY <1>7, <1>8, <1>9, <1>10, <1>11, <1>12

\* The wait begins.
LEMMA WaitKeeps ==
  ASSUME LoopInv, Wait
  PROVE  LoopInv'
<1> USE Bounds DEF LoopInv
<1>1. /\ loop \in Loop /\ timer \in Timer /\ guard \in PathGuard /\ seen \in Seen
      /\ socket \in Buffer /\ coming \in [{"changes", "noise", "requests", "signals"} -> Nat]
  BY LoopTypes
<1>2. UNCHANGED <<timer, socket, guard, seen, coming>>  BY DEF Wait
<1>3. /\ loop.pc \in {"wait", "check"}
      /\ loop.pc = "check" => /\ ~ loop.completed /\ timer.next # 0 /\ ~ Passed
                              /\ loop.pending => timer.after # 0
  BY DEF Wait, Due
<1>4. loop' = [loop EXCEPT !.pc = "poll", !.wait = Wake, !.defer = Defer]  BY DEF Wait
<1>5. Wake \in Nat
  BY <1>1 DEF Wake, Least, Open, NoDeadline, Timer
<1>6. Defer \in BOOLEAN /\ (Defer <=> loop.pending /\ timer.after > 0)  BY DEF Defer
<1>7. /\ loop' \in Loop /\ loop'.pc = "poll" /\ loop'.wait = Wake /\ loop'.defer = Defer
      /\ loop'.rest = loop.rest /\ loop'.pending = loop.pending /\ loop'.completed = loop.completed
      /\ loop'.control = loop.control /\ loop'.watch = loop.watch
  BY <1>1, <1>4, <1>5, <1>6 DEF Loop
<1>8. LoopTypeOK'  BY <1>1, <1>2, <1>7, LoopTypesNext
<1>9. TimerOK' /\ EpisodeOK'  BY <1>2, <1>3, <1>7 DEF TimerOK, EpisodeOK, Open, Passed
<1>10. AwayOK'
  BY <1>1, <1>2, <1>3, <1>7
  DEF AwayOK, StepAway, PollAway, SleepAway, ServeAway, CheckAway, NextAway, Away, EpisodeOK, Seen, Timer
<1>11. PaceOK'
  <2>1. Wake' = Wake  BY <1>2, <1>7 DEF Wake, Open
  <2>2. loop.pending \in BOOLEAN /\ (Defer <=> loop.pending)
    BY <1>1, <1>3, <1>6 DEF PaceOK, Loop, Timer
  <2>3. ASSUME seen.idle = 1 PROVE loop.pending /\ Wake > 0
    <3>1. loop.pc = "check" /\ loop.pending  BY <1>3, <2>3 DEF PaceOK
    <3> QED  BY <1>1, <1>3, <3>1 DEF Wake, Least, Open, Passed, NoDeadline, Timer
  <2> QED  BY <1>2, <1>6, <1>7, <2>1, <2>2, <2>3 DEF PaceOK
<1>12. HintOK'
  <2>1. SUFFICES ASSUME ~ Open, seen.change = "announced"
                 PROVE  IF loop.pending THEN Turn'
                        ELSE \E k \in 0 .. Batches - 1 : Behind(k)' /\ Waiting(k)'
    BY <1>2, <1>7 DEF HintOK, Open
  <2>2. CASE loop.pending
    <3>1. Turn /\ loop.pc = "check" /\ timer.after > 0
      BY <1>1, <1>3, <2>1, <2>2 DEF HintOK, PaceOK, Timer
    <3>2. Time(Batches) \in Nat  BY TimeGrows
    <3> QED  BY <1>1, <1>2, <1>7, <2>2, <3>1, <3>2 DEF Turn, Found, Seen, Timer
  <2>3. CASE ~ loop.pending
    <3>1. PICK k \in 0 .. Batches - 1 : Behind(k) /\ Waiting(k)  BY <1>3, <2>1, <2>3 DEF HintOK
    <3> QED  BY <1>2, <1>3, <1>7, <2>3, <3>1 DEF Behind, Waiting
  <2> QED  BY <2>2, <2>3
<1> QED  BY <1>8, <1>9, <1>10, <1>11, <1>12

\* poll() was interrupted by a signal.
LEMMA InterruptedKeeps ==
  ASSUME LoopInv, Interrupted
  PROVE  LoopInv'
<1> USE Bounds DEF LoopInv
<1>1. /\ loop \in Loop /\ timer \in Timer /\ guard \in PathGuard /\ seen \in Seen
      /\ socket \in Buffer /\ coming \in [{"changes", "noise", "requests", "signals"} -> Nat]
  BY LoopTypes
<1>2. UNCHANGED <<timer, socket, guard, seen>> /\ loop.pc = "poll"  BY DEF Interrupted
<1>3. coming' \in [{"changes", "noise", "requests", "signals"} -> Nat]
  BY SpendTypes DEF Interrupted
<1>4. /\ loop' \in Loop /\ loop'.pc = "check" /\ loop'.pending = loop.pending /\ loop'.completed = FALSE
      /\ loop'.rest = loop.rest /\ loop'.watch = loop.watch
  <2>1. Remember(FALSE) = loop.pending  BY <1>1 DEF Remember, Loop
  <2>2. loop' = [loop EXCEPT !.pc = "check", !.pending = loop.pending, !.completed = FALSE]
    BY <2>1 DEF Interrupted
  <2> QED  BY <1>1, <2>2 DEF Loop
<1>8. LoopTypeOK'  BY <1>1, <1>2, <1>3, <1>4, LoopTypesNext
<1>9. TimerOK' /\ EpisodeOK'  BY <1>2, <1>4 DEF TimerOK, EpisodeOK, Open, Passed
<1>10. AwayOK'
  BY <1>1, <1>2, <1>4
  DEF AwayOK, StepAway, PollAway, SleepAway, ServeAway, CheckAway, NextAway, Away, Seen, Timer
<1>11. PaceOK'  BY <1>2, <1>4 DEF PaceOK
<1>12. HintOK'
  <2>1. SUFFICES ASSUME ~ Open, seen.change = "announced"
                 PROVE  IF loop.pending THEN Turn'
                        ELSE \E k \in 0 .. Batches - 1 : Behind(k)' /\ Waiting(k)'
    BY <1>2, <1>4 DEF HintOK, Open
  <2>2. CASE loop.pending
    <3>1. Turn  BY <1>2, <2>1, <2>2 DEF HintOK
    <3>2. Time(Batches) \in Nat  BY TimeGrows
    <3> QED  BY <1>1, <1>2, <1>4, <2>2, <3>1, <3>2 DEF Turn, Found, Seen, Timer
  <2>3. CASE ~ loop.pending
    <3>1. PICK k \in 0 .. Batches - 1 : Behind(k) /\ Waiting(k)  BY <1>2, <2>1, <2>3 DEF HintOK
    <3> QED  BY <1>2, <1>4, <2>3, <3>1 DEF Behind, Waiting
  <2> QED  BY <2>2, <2>3
<1> QED  BY <1>8, <1>9, <1>10, <1>11, <1>12

\* poll() returns: for a batch of events, the end of an operation, a request or the time.
LEMMA PollReturnsKeeps ==
  ASSUME LoopInv, PollReturns
  PROVE  LoopInv'
<1> USE Bounds DEF LoopInv
<1> DEFINE hint == SocketReady /\ Hint
           rest == IF SocketReady /\ ~ hint /\ ~ OperationReady THEN Least(Pause, loop.wait) ELSE 0
<1>1. /\ loop \in Loop /\ timer \in Timer /\ guard \in PathGuard /\ seen \in Seen
      /\ socket \in Buffer /\ coming \in [{"changes", "noise", "requests", "signals"} -> Nat]
  BY LoopTypes
<1>2. UNCHANGED <<timer, guard, coming>> /\ loop.pc = "poll" /\ (Ready \/ Wake = 0)  BY DEF PollReturns
<1>3. /\ socket' \in Buffer /\ Len(socket'.queue) <= Socket
      /\ ~ SocketReady => socket' = socket
      /\ SocketReady => Drain
  BY <1>1, Drained DEF PollReturns, TimerOK
<1>4. /\ rest \in Nat /\ rest <= Pause
      /\ OperationReady \/ hint \/ ~ SocketReady => rest = 0
      /\ rest = 0 => OperationReady \/ hint \/ ~ SocketReady \/ loop.wait = 0
  BY <1>1 DEF Least, Loop
<1>5. hint \in BOOLEAN /\ OperationReady \in BOOLEAN /\ guard.request \in BOOLEAN /\ loop.pending \in BOOLEAN
  BY <1>1 DEF SocketReady, Hint, Relevant, OperationReady, PathGuard, Loop
<1>6. PICK remembered \in BOOLEAN : remembered <=> hint \/ loop.pending  OBVIOUS
<1> HIDE DEF rest
<1>7. loop' = [loop EXCEPT !.pc = "sleep", !.rest = rest, !.pending = remembered,
                           !.completed = OperationReady, !.control = guard.request]
  BY <1>5, <1>6 DEF PollReturns, Remember, rest
<1> HIDE DEF hint
<1>8. /\ loop' \in Loop /\ loop'.pc = "sleep" /\ loop'.rest = rest /\ loop'.pending = remembered
      /\ loop'.completed = OperationReady /\ loop'.watch = loop.watch
  BY <1>1, <1>4, <1>5, <1>7 DEF Loop
<1>9. PICK n \in Nat : /\ seen' = [seen EXCEPT !.idle = n]
                       /\ n = IF OperationReady \/ guard.request THEN 0 ELSE seen.idle + 1
  <2> DEFINE idle == IF OperationReady \/ guard.request THEN 0 ELSE seen.idle + 1
  <2>1. seen' = [seen EXCEPT !.idle = idle]  BY DEF PollReturns
  <2>2. seen.idle \in Nat  BY <1>1 DEF Seen
  <2>3. idle \in Nat  BY <2>2
  <2> QED  BY <2>1, <2>3
<1>10. /\ seen' \in Seen /\ seen'.idle = n /\ seen'.change = seen.change /\ seen'.age = seen.age
       /\ seen'.outcome = seen.outcome /\ seen'.late = seen.late /\ seen'.check = seen.check
  BY <1>1, <1>9 DEF Seen
<1>11. LoopTypeOK'  BY <1>1, <1>2, <1>3, <1>8, <1>10, LoopTypesNext
<1>12. TimerOK' /\ EpisodeOK'
  BY <1>2, <1>3, <1>8, <1>10 DEF TimerOK, EpisodeOK, Open, Passed
<1>13. AwayOK'
  <2>1. seen.late <= StepTime /\ seen.outcome <= Away /\ seen.age + timer.next <= Period + StepTime
    BY <1>2 DEF AwayOK, PollAway
  <2>2. ~ OperationReady => seen.outcome = 0  BY DEF EpisodeOK, OperationReady
  <2>3. SleepAway' /\ NextAway'
    BY <1>1, <1>2, <1>4, <1>8, <1>10, <2>1, <2>2 DEF SleepAway, NextAway, Seen, Timer, Away
  <2> QED  BY <1>8, <2>3 DEF AwayOK, StepAway, PollAway, ServeAway, CheckAway
<1>14. PaceOK'
  <2>1. loop.defer = loop.pending /\ (loop.wait = 0 => Wake = 0) /\ seen.idle <= 1
        /\ (seen.idle = 1 => loop.pending /\ Wake > 0)
    BY <1>2 DEF PaceOK
  <2>2. loop.pending => ~ SocketReady  BY <2>1 DEF SocketReady
  <2>3. ASSUME ~ OperationReady, ~ guard.request PROVE seen.idle = 0
    <3>1. SocketReady \/ Wake = 0  BY <1>2, <2>3 DEF Ready
    <3>2. seen.idle # 1  BY <2>1, <2>2, <3>1
    <3> QED  BY <1>1, <2>1, <3>2 DEF Seen
  <2>4. n <= 1  BY <1>9, <2>3
  <2>5. ASSUME n = 1, rest = 0, ~ remembered PROVE timer.next = 0 \/ Passed
    <3>1. ~ OperationReady /\ ~ guard.request /\ ~ hint /\ ~ loop.pending  BY <1>6, <1>9, <2>5
    <3>2. Wake = 0  BY <1>2, <1>4, <2>1, <2>5, <3>1 DEF Ready
    <3> QED  BY <1>1, <3>1, <3>2 DEF Wake, Least, Open, Passed, Timer, NoDeadline
  <2>7. remembered => rest = 0  BY <1>4, <1>6, <2>2
  <2>6. timer' = timer  BY <1>2
  <2> QED  BY <1>4, <1>6, <1>8, <1>10, <2>4, <2>5, <2>6, <2>7 DEF PaceOK, Passed
<1>15. HintOK'
  <2>1. SUFFICES ASSUME ~ Open, seen.change = "announced"
                 PROVE  IF remembered THEN Turn'
                        ELSE \E k \in 0 .. Batches - 1 : Behind(k)' /\ Waiting(k)'
    BY <1>2, <1>6, <1>8, <1>10 DEF HintOK, Open
  <2>2. guard.op = "none" /\ ~ OperationReady  BY <2>1 DEF EpisodeOK, OperationReady
  <2>3. timer.after <= Gap /\ timer' = timer  BY <1>2, <2>1 DEF TimerOK
  <2>4. Time(Batches) \in Nat /\ Found \in Nat  BY TimeGrows DEF Found
  <2>5. loop.defer = loop.pending  BY <1>2 DEF PaceOK
  <2>6. CASE loop.pending
    <3>1. Turn  BY <1>2, <2>1, <2>6 DEF HintOK
    <3>2. rest = 0  BY <1>4, <2>5, <2>6 DEF SocketReady
    <3>3. Turn'  BY <1>1, <1>2, <1>8, <1>10, <2>3, <2>4, <3>1, <3>2 DEF Turn, Seen, Timer
    <3> QED  BY <1>6, <2>6, <3>3
  <2>7. CASE ~ loop.pending
    <3>1. PICK k \in 0 .. Batches - 1 : Behind(k) /\ Waiting(k)  BY <1>2, <2>1, <2>7 DEF HintOK
    <3>2. k \in Nat /\ Time(k) \in Nat /\ seen.age + Time(k) <= Found /\ seen.age \in Nat
      BY <1>1, <1>2, <3>1, BatchesCover, TimeGrows DEF Waiting, Seen
    <3>3. SocketReady
      <4>1. CASE socket.overrun  BY <2>5, <2>7, <4>1 DEF SocketReady
      <4>2. CASE ~ socket.overrun
        <5>1. PICK i \in 1 .. Len(socket.queue) : TRUE  BY <3>1, <4>2 DEF Behind
        <5>2. socket.queue # <<>>  BY <1>1, <5>1 DEF Buffer
        <5> QED  BY <2>5, <2>7, <5>2 DEF SocketReady
      <4> QED  BY <4>1, <4>2
    <3>4. CASE hint
      <4>1. rest = 0  BY <1>4, <3>4
      <4>2. Turn'  BY <1>1, <1>8, <1>10, <2>3, <2>4, <3>2, <4>1 DEF Turn, Timer
      <4> QED  BY <1>6, <3>4, <4>2
    <3>5. CASE ~ hint
      <4>1. /\ ~ socket.overrun
            /\ \A i \in 1 .. Len(socket.queue) :
                  socket.queue[i] \in loop.watch =>
                     /\ i > Batch /\ i - Batch \in 1 .. Len(socket'.queue)
                     /\ socket'.queue[i - Batch] = socket.queue[i]
        BY <1>3, <3>3, <3>5, Drained DEF TimerOK, hint
      <4>2. PICK i \in 1 .. Len(socket.queue) : socket.queue[i] \in loop.watch /\ i <= (k + 1) * Batch
        BY <3>1, <4>1 DEF Behind
      <4>3. i > Batch /\ i - Batch \in 1 .. Len(socket'.queue) /\ socket'.queue[i - Batch] = socket.queue[i]
        BY <4>1, <4>2
      <4>4. i \in Nat  OBVIOUS
      <4>5. k # 0  BY <4>2, <4>3, <4>4
      <4>6. (k + 1) * Batch = ((k - 1) + 1) * Batch + Batch  BY <3>2
      <4>7. ((k - 1) + 1) * Batch \in Int  BY <3>2
      <4>8. i - Batch <= ((k - 1) + 1) * Batch  BY <4>2, <4>4, <4>6, <4>7
      <4>9. Behind(k - 1)'  BY <1>8, <4>2, <4>3, <4>8 DEF Behind
      <4>10. k - 1 \in 0 .. Batches - 1 /\ k - 1 \in Nat /\ (k - 1) + 1 = k
        BY <3>1, <3>2, <4>5, BatchesCover
      <4>11. Time(k - 1) \in Nat /\ Time(k) = Time(k - 1) + Pause + ServeTime
        BY <4>10, TimeGrows
      <4>12. Waiting(k - 1)'
        <5>1. Time(k - 1)' = Time(k - 1) /\ Found' = Found  BY DEF Time, Found
        <5>2. seen.age + rest + ServeTime + Time(k - 1) <= Found
            BY <1>4, <2>4, <3>2, <4>11, SMTT(20)
        <5> QED  BY <1>8, <1>10, <5>1, <5>2 DEF Waiting
      <4> QED  BY <1>6, <2>7, <3>5, <4>9, <4>10, <4>12
    <3> QED  BY <1>5, <3>4, <3>5
  <2> QED  BY <1>5, <2>6, <2>7
<1> QED  BY <1>11, <1>12, <1>13, <1>14, <1>15

\* The wait is over; a request is served first.
LEMMA WaitEndsKeeps ==
  ASSUME LoopInv, WaitEnds
  PROVE  LoopInv'
<1> USE Bounds DEF LoopInv
<1>1. /\ loop \in Loop /\ timer \in Timer /\ guard \in PathGuard /\ seen \in Seen
      /\ socket \in Buffer /\ coming \in [{"changes", "noise", "requests", "signals"} -> Nat]
  BY LoopTypes
<1>2. UNCHANGED <<timer, socket, guard, seen, coming>> /\ loop.pc = "sleep" /\ loop.rest = 0
  BY DEF WaitEnds
<1>3. PICK p \in {"check", "serve"}, r \in 0 .. ServeTime : Moves(p, r) /\ (p = "check" => r = 0)
  BY EnterMoves DEF WaitEnds
<1>4. LoopTypeOK'  BY <1>1, <1>2, <1>3, LoopTypesNext DEF Moves
<1>5. TimerOK' /\ EpisodeOK'  BY <1>2, <1>3 DEF TimerOK, EpisodeOK, Open, Passed, Moves
<1>6. AwayOK'
  BY <1>1, <1>2, <1>3
  DEF AwayOK, StepAway, PollAway, SleepAway, ServeAway, CheckAway, NextAway, Away, Seen, Timer, Moves
<1>7. PaceOK'  BY <1>1, <1>2, <1>3 DEF PaceOK, Moves, Passed, Seen
<1>8. HintOK'
  <2>1. SUFFICES ASSUME ~ Open, seen.change = "announced"
                 PROVE  IF loop.pending THEN Turn'
                        ELSE \E k \in 0 .. Batches - 1 : Behind(k)' /\ Waiting(k)'
    BY <1>2, <1>3 DEF HintOK, Open, Moves
  <2>2. Found \in Nat /\ Found' = Found  BY TimeGrows DEF Found, Time
  <2>3. CASE loop.pending
    <3>1. Turn  BY <1>2, <2>1, <2>3 DEF HintOK
    <3> QED  BY <1>1, <1>2, <1>3, <2>2, <2>3, <3>1 DEF Turn, Seen, Timer, Moves
  <2>4. CASE ~ loop.pending
    <3>1. PICK k \in 0 .. Batches - 1 : Behind(k) /\ Waiting(k)  BY <1>2, <2>1, <2>4 DEF HintOK
    <3>2. Time(k) \in Nat /\ Time(k)' = Time(k)  BY TimeGrows DEF Time
    <3>3. Behind(k)'  BY <1>2, <1>3, <3>1 DEF Behind, Moves
    <3>4. Waiting(k)'  BY <1>1, <1>2, <1>3, <2>2, <3>1, <3>2 DEF Waiting, Moves, Seen
    <3> QED  BY <2>4, <3>3, <3>4
  <2> QED  BY <2>3, <2>4
<1> QED  BY <1>4, <1>5, <1>6, <1>7, <1>8

\* A request was served.
LEMMA ServeKeeps ==
  ASSUME LoopInv, Serve
  PROVE  LoopInv'
<1> USE Bounds DEF LoopInv
<1>1. /\ loop \in Loop /\ timer \in Timer /\ guard \in PathGuard /\ seen \in Seen
      /\ socket \in Buffer /\ coming \in [{"changes", "noise", "requests", "signals"} -> Nat]
  BY LoopTypes
<1>2. UNCHANGED <<timer, socket, coming>> /\ loop.pc = "serve" /\ loop.rest = 0  BY DEF Serve
<1>3. guard' \in PathGuard /\ guard'.op = guard.op  BY <1>1 DEF Serve, PathGuard
<1>4. /\ seen' \in Seen /\ seen'.idle = 0 /\ seen'.change = seen.change /\ seen'.age = seen.age
      /\ seen'.outcome = seen.outcome /\ seen'.late = seen.late /\ seen'.check = seen.check
  BY <1>1 DEF Serve, Seen
<1>5. PICK p \in {"check", "over"} :
        /\ loop' \in Loop /\ loop'.pc = p /\ loop'.rest = loop.rest /\ loop'.pending = loop.pending
        /\ loop'.completed = loop.completed /\ loop'.watch = loop.watch
  BY <1>1 DEF Serve, Loop
<1>6. LoopTypeOK'  BY <1>1, <1>2, <1>3, <1>4, <1>5, LoopTypesNext
<1>7. TimerOK' /\ EpisodeOK'  BY <1>2, <1>3, <1>4, <1>5 DEF TimerOK, EpisodeOK, Open, Passed
<1>8. AwayOK'
  BY <1>1, <1>2, <1>4, <1>5
  DEF AwayOK, StepAway, PollAway, SleepAway, ServeAway, CheckAway, NextAway, Away, Seen, Timer
<1>9. PaceOK'  BY <1>4, <1>5 DEF PaceOK
<1>10. HintOK'
  <2>1. SUFFICES ASSUME ~ Open, seen.change = "announced"
                 PROVE  /\ seen.age <= Found + Gap + ServeTime
                        /\ IF loop.pending THEN Turn'
                           ELSE \E k \in 0 .. Batches - 1 : Behind(k)' /\ Waiting(k)'
    <3>1. Found' = Found  BY DEF Found, Time
    <3> QED  BY <1>2, <1>4, <1>5, <2>1, <3>1 DEF HintOK, Open
  <2>2. Found \in Nat /\ Found' = Found  BY TimeGrows DEF Found, Time
  <2>3. CASE loop.pending
    <3>1. Turn  BY <1>2, <2>1, <2>3 DEF HintOK
    <3> QED  BY <1>1, <1>2, <1>4, <1>5, <2>2, <2>3, <3>1 DEF Turn, Seen, Timer
  <2>4. CASE ~ loop.pending
    <3>1. PICK k \in 0 .. Batches - 1 : Behind(k) /\ Waiting(k)  BY <1>2, <2>1, <2>4 DEF HintOK
    <3>2. Time(k) \in Nat /\ Time(k)' = Time(k)  BY TimeGrows DEF Time
    <3>3. Behind(k)'  BY <1>2, <1>5, <3>1 DEF Behind
    <3>4. seen.age + Time(k) <= Found  BY <1>1, <1>2, <3>1, <3>2 DEF Waiting, Seen
    <3>5. Waiting(k)'  BY <1>4, <1>5, <2>2, <3>2, <3>4 DEF Waiting
    <3> QED  BY <1>1, <2>2, <2>4, <3>2, <3>3, <3>4, <3>5 DEF Seen
  <2> QED  BY <2>3, <2>4
<1> QED  BY <1>6, <1>7, <1>8, <1>9, <1>10


\* Time passes while the loop is blocked.
LEMMA TickKeeps ==
  ASSUME LoopInv, Tick
  PROVE  LoopInv'
<1> USE Bounds DEF LoopInv
<1>1. /\ loop \in Loop /\ timer \in Timer /\ guard \in PathGuard /\ seen \in Seen
      /\ socket \in Buffer /\ coming \in [{"changes", "noise", "requests", "signals"} -> Nat]
  BY LoopTypes
<1>2. /\ UNCHANGED <<socket, guard, coming>>
      /\ \/ loop.pc = "poll" /\ ~ Ready /\ Wake > 0
         \/ loop.pc \in {"step", "sleep", "serve"} /\ loop.rest > 0
  BY DEF Tick
<1>3. /\ loop.rest \in Nat /\ timer.next \in Nat /\ timer.after \in Nat
      /\ timer.deadline \in Nat \cup {NoDeadline} /\ NoDeadline = -1
      /\ seen.age \in Nat /\ seen.outcome \in Nat /\ seen.late \in Nat /\ seen.check \in 0 .. Gap
      /\ seen.idle \in Nat
  BY <1>1 DEF Loop, Timer, Seen, NoDeadline
<1>4. /\ Less(loop.rest) \in Nat /\ Less(timer.next) \in Nat /\ Less(timer.after) \in Nat
      /\ Less(timer.deadline) \in Nat \cup {NoDeadline}
  BY <1>3 DEF Less
<1>5. /\ loop' \in Loop /\ loop'.pc = loop.pc /\ loop'.rest = Less(loop.rest) /\ loop'.wait = loop.wait
      /\ loop'.pending = loop.pending /\ loop'.completed = loop.completed
      /\ loop'.defer = loop.defer /\ loop'.watch = loop.watch
  BY <1>1, <1>4 DEF Tick, Loop
<1>6. /\ timer' \in Timer /\ timer'.next = Less(timer.next) /\ timer'.after = Less(timer.after)
      /\ timer'.delay = timer.delay /\ timer'.deadline = Less(timer.deadline)
  BY <1>1, <1>4 DEF Tick, Timer
<1> DEFINE age == IF seen.change # "none" /\ guard.op = "none" THEN seen.age + 1 ELSE seen.age
           outcome == IF guard.op = "done" THEN seen.outcome + 1 ELSE 0
           late == IF Passed THEN seen.late + 1 ELSE 0
           check == Least(Gap, seen.check + 1)
<1>7. age \in Nat /\ outcome \in Nat /\ late \in Nat /\ check \in 0 .. Gap
  BY <1>3 DEF Least
<1>8. seen' = [seen EXCEPT !.age = age, !.outcome = outcome, !.late = late, !.check = check, !.idle = 0]
  BY DEF Tick
<1> HIDE DEF age, outcome, late, check
<1>9. /\ seen' \in Seen /\ seen'.idle = 0 /\ seen'.change = seen.change /\ seen'.age = age
      /\ seen'.outcome = outcome /\ seen'.late = late /\ seen'.check = check
  BY <1>1, <1>7, <1>8 DEF Seen
<1>10. LoopTypeOK'  BY <1>1, <1>2, <1>5, <1>6, <1>9, LoopTypesNext
<1>11. /\ Open' <=> Open
       /\ Passed => Passed'
  BY <1>3, <1>6 DEF Open, Passed, Less
<1>12. TimerOK'
  <2>1. /\ timer.after + seen.check >= Gap /\ timer.after <= timer.next /\ timer.next <= Period
        /\ timer.delay \in DelayMin .. DelayMax /\ Len(socket.queue) <= Socket
    BY DEF TimerOK
  <2>2. ~ Open /\ loop.pc # "step" => timer.after <= Gap  BY DEF TimerOK
  <2>3. timer'.after = (IF timer.after > 0 THEN timer.after - 1 ELSE timer.after)
        /\ timer'.next = (IF timer.next > 0 THEN timer.next - 1 ELSE timer.next)
    BY <1>6 DEF Less
  <2>4. check = (IF Gap < seen.check + 1 THEN Gap ELSE seen.check + 1)  BY DEF Least, check
  <2>5. timer'.after + check >= Gap  BY <1>3, <2>1, <2>3, <2>4
  <2>6. timer'.after <= timer'.next /\ timer'.next <= Period /\ timer'.after <= timer.after
    <3>1. timer.next <= Period /\ timer.after <= timer.next /\ timer.next \in Nat /\ timer.after \in Nat
      BY <1>3, <2>1
    <3>2. timer'.next <= timer.next /\ timer'.after <= timer.after  BY <2>3, <3>1
    <3>3. timer'.after <= timer'.next  BY <2>3, <3>1
    <3>4. timer'.next \in Nat  BY <2>3, <3>1
    <3> QED  BY <3>1, <3>2, <3>3, <3>4
  <2>7. ~ Open /\ loop.pc # "step" => timer'.after <= Gap  BY <1>3, <2>2, <2>3
  <2> QED  BY <1>2, <1>5, <1>6, <1>9, <1>11, <2>1, <2>5, <2>6, <2>7 DEF TimerOK
<1>13. EpisodeOK'  BY <1>2, <1>5, <1>9, <1>11 DEF EpisodeOK, age, outcome, late
<1>14. AwayOK'
  <2>1. loop.pc = "poll" => timer.next > 0 /\ ~ OperationReady /\ ~ Passed
    BY <1>2, <1>3 DEF Ready, Wake, Least, Open, Passed
  <2>2. /\ Passed => late = seen.late + 1
        /\ ~ Passed => late = 0
        /\ age <= seen.age + 1 /\ outcome <= seen.outcome + 1
        /\ loop.pc = "poll" => outcome = 0
    BY <1>3, <2>1 DEF age, outcome, late, OperationReady
  <2>3. loop'.rest = (IF loop.rest > 0 THEN loop.rest - 1 ELSE loop.rest)
        /\ timer'.next = (IF timer.next > 0 THEN timer.next - 1 ELSE timer.next)
    BY <1>5, <1>6 DEF Less
  <2>4. StepAway'  BY <1>2, <1>3, <1>5, <1>7, <1>9, <2>2, <2>3 DEF AwayOK, StepAway
  <2>5. PollAway'  BY <1>2, <1>3, <1>5, <1>7, <1>9, <2>1, <2>2, <2>3 DEF AwayOK, PollAway, Away
  <2>6. SleepAway'  BY <1>2, <1>3, <1>5, <1>7, <1>9, <2>2, <2>3 DEF AwayOK, SleepAway
  <2>7. ServeAway'  BY <1>2, <1>3, <1>5, <1>7, <1>9, <2>2, <2>3 DEF AwayOK, ServeAway, Away
  <2>8. CheckAway' /\ NextAway'  BY <1>2, <1>3, <1>5, <1>7, <1>9, <2>2, <2>3 DEF AwayOK, CheckAway, NextAway
  <2> QED  BY <2>4, <2>5, <2>6, <2>7, <2>8 DEF AwayOK
<1>15. PaceOK'
  <2>1. loop.pc = "poll" => loop.wait # 0  BY <1>2 DEF PaceOK
  <2> QED  BY <1>2, <1>5, <1>9, <2>1 DEF PaceOK
<1>16. HintOK'
  <2>1. SUFFICES ASSUME ~ Open, seen.change = "announced"
                 PROVE  loop.pc \in {"poll", "sleep", "serve"} =>
                           IF loop.pending THEN Turn'
                           ELSE \E k \in 0 .. Batches - 1 : Behind(k)' /\ Waiting(k)'
    BY <1>2, <1>5, <1>9, <1>11 DEF HintOK
  <2>2. Found \in Nat /\ Found' = Found  BY TimeGrows DEF Found, Time
  <2>3. age <= seen.age + 1 /\ age \in Nat  BY <1>3, <1>7 DEF age
  <2>4. loop'.rest = (IF loop.rest > 0 THEN loop.rest - 1 ELSE loop.rest)
        /\ timer'.after = (IF timer.after > 0 THEN timer.after - 1 ELSE timer.after)
    BY <1>5, <1>6 DEF Less
  <2>5. ASSUME loop.pending, loop.pc \in {"poll", "sleep", "serve"} PROVE Turn'
    <3>1. Turn  BY <2>1, <2>5 DEF HintOK
    <3>2. loop.pc = "poll" => timer.after > 0  BY <1>2, <1>3, <2>5 DEF Wake, Least, Open
    <3>3. timer'.after > 0 => seen'.age + timer'.after <= Found + Gap
      BY <1>3, <1>9, <2>2, <2>3, <2>4, <3>1 DEF Turn
    <3>4. loop.pc = "poll" => seen'.age <= Found + Gap
      BY <1>3, <1>9, <2>2, <2>3, <3>1, <3>2 DEF Turn
    <3>5. loop.pc # "sleep"  BY <1>2, <2>5 DEF PaceOK
    <3>6. loop.pc = "serve" => seen'.age + loop'.rest <= Found + Gap + ServeTime
      BY <1>2, <1>3, <1>9, <2>2, <2>3, <2>4, <3>1 DEF Turn
    <3> QED  BY <1>5, <2>2, <2>5, <3>3, <3>4, <3>5, <3>6 DEF Turn
  <2>6. ASSUME ~ loop.pending, loop.pc \in {"poll", "sleep", "serve"}
        PROVE  \E k \in 0 .. Batches - 1 : Behind(k)' /\ Waiting(k)'
    <3>1. PICK k \in 0 .. Batches - 1 : Behind(k) /\ Waiting(k)  BY <2>1, <2>6 DEF HintOK
    <3>2. Time(k) \in Nat /\ Time(k)' = Time(k)  BY TimeGrows DEF Time
    <3>3. Behind(k)'  BY <1>2, <1>5, <3>1 DEF Behind
    <3>4. loop.pc # "poll"
      <4>1. ASSUME loop.pc = "poll" PROVE FALSE
        <5>1. ~ loop.defer /\ ~ SocketReady  BY <1>2, <2>6, <4>1 DEF PaceOK, Ready
        <5>2. ~ socket.overrun /\ socket.queue = <<>>  BY <5>1 DEF SocketReady
        <5>3. PICK i \in 1 .. Len(socket.queue) : TRUE  BY <3>1, <5>2 DEF Behind
        <5> QED  BY <5>2, <5>3
      <4> QED  BY <4>1
    <3>5. Waiting(k)'
      BY <1>2, <1>3, <1>5, <1>9, <2>2, <2>3, <2>4, <2>6, <3>1, <3>2, <3>4 DEF Waiting
    <3> QED  BY <3>3, <3>5
  <2> QED  BY <1>1, <2>5, <2>6 DEF Loop
<1> QED  BY <1>10, <1>12, <1>13, <1>14, <1>15, <1>16

\* An event that names the map or the current disk keeps its place.
LEMMA BehindStays ==
  ASSUME LoopInv, NEW e \in Event, Deliver(e), loop' = loop, NEW k \in Nat, Behind(k)
  PROVE  Behind(k)'
<1>1. CASE socket.overrun  BY <1>1, Delivered DEF LoopInv, TimerOK, Behind
<1>2. CASE ~ socket.overrun
  <2>1. PICK i \in 1 .. Len(socket.queue) : socket.queue[i] \in loop.watch /\ i <= (k + 1) * Batch
    BY <1>2 DEF Behind
  <2>2. i \in 1 .. Len(socket'.queue) /\ socket'.queue[i] = socket.queue[i]
    BY <2>1, Delivered DEF LoopInv, TimerOK
  <2> QED  BY <2>1, <2>2 DEF Behind
<1> QED  BY <1>1, <1>2

\* What happens outside of the loop leaves its times alone.  A change counts from now on;
\* when it is announced, its event is in the socket, behind what was there before.
Outside ==
    /\ loop' = loop /\ timer' = timer
    /\ socket' \in Buffer /\ Len(socket'.queue) <= Socket
    /\ guard' \in PathGuard /\ coming' \in [{"changes", "noise", "requests", "signals"} -> Nat]
    /\ guard'.op # "none" => guard.op # "none"
    /\ guard'.op # "done" => guard.op # "done"
    /\ \A k \in Nat : Behind(k) => Behind(k)'
    /\ \/ UNCHANGED seen
       \/ \E change \in {"announced", "silent"} :
             /\ seen' = [seen EXCEPT !.change = change, !.age = 0]
             /\ change = "announced" /\ ~ Open => Behind(Batches - 1)'

LEMMA OutsideKeeps ==
  ASSUME LoopInv, Outside
  PROVE  LoopInv'
<1> USE Bounds DEF LoopInv
<1>0. loop' = loop /\ timer' = timer  BY DEF Outside
<1>1. /\ loop \in Loop /\ timer \in Timer /\ guard \in PathGuard /\ seen \in Seen
      /\ socket \in Buffer /\ coming \in [{"changes", "noise", "requests", "signals"} -> Nat]
  BY LoopTypes
<1>2. /\ seen' \in Seen /\ seen'.outcome = seen.outcome /\ seen'.late = seen.late
      /\ seen'.check = seen.check /\ seen'.idle = seen.idle
      /\ \/ seen'.change = seen.change /\ seen'.age = seen.age
         \/ /\ seen'.change \in {"announced", "silent"} /\ seen'.age = 0
            /\ seen'.change = "announced" /\ ~ Open => Behind(Batches - 1)'
  <2>1. CASE UNCHANGED seen  BY <1>1, <2>1
  <2>2. CASE ~ UNCHANGED seen
    <3>1. PICK change \in {"announced", "silent"} :
            /\ seen' = [seen EXCEPT !.change = change, !.age = 0]
            /\ change = "announced" /\ ~ Open => Behind(Batches - 1)'
      BY <2>2 DEF Outside
    <3>2. change \in {"none", "announced", "silent"} /\ 0 \in Nat  OBVIOUS
    <3> QED  BY <1>1, <3>1, <3>2 DEF Seen
  <2> QED  BY <2>1, <2>2
<1>3. /\ loop.rest \in Nat /\ timer.next \in Nat /\ timer.after \in Nat
      /\ seen.age \in Nat /\ seen.outcome \in Nat /\ seen.late \in Nat
      /\ seen'.age <= seen.age /\ seen'.age \in Nat
  <2>1. /\ loop.rest \in Nat /\ timer.next \in Nat /\ timer.after \in Nat
        /\ seen.age \in Nat /\ seen.outcome \in Nat /\ seen.late \in Nat
    BY <1>1 DEF Loop, Timer, Seen
  <2>2. seen'.age = seen.age \/ seen'.age = 0  BY <1>2
  <2>3. seen'.age <= seen.age /\ seen'.age \in Nat  BY <2>1, <2>2
  <2> QED  BY <2>1, <2>3
<1>4. LoopTypeOK'  BY <1>0, <1>1, <1>2, LoopTypesNext DEF Outside
<1>5. TimerOK'  BY <1>0, <1>2 DEF TimerOK, Open, Outside
<1>6. EpisodeOK'
  <2>1. /\ guard'.op # "none" => guard.op # "none"
        /\ guard'.op # "done" => guard.op # "done"
    BY DEF Outside
  <2> QED  BY <1>0, <1>2, <2>1 DEF EpisodeOK, Open, Passed
<1>7. AwayOK'
  <2>1. StepAway' /\ PollAway'  BY <1>0, <1>2, <1>3 DEF AwayOK, StepAway, PollAway, Away
  <2>2. SleepAway' /\ NextAway'  BY <1>0, <1>2, <1>3 DEF AwayOK, SleepAway, NextAway
  <2>3. ServeAway'  BY <1>0, <1>2, <1>3 DEF AwayOK, ServeAway, Away
  <2>4. CheckAway'  BY <1>0, <1>2, <1>3 DEF AwayOK, CheckAway, Away
  <2> QED  BY <2>1, <2>2, <2>3, <2>4 DEF AwayOK
<1>8. PaceOK'
  <2>1. Wake' = Wake  BY <1>0 DEF Wake, Open
  <2> QED  BY <1>0, <1>2, <2>1 DEF PaceOK, Passed
<1>9. HintOK'
  <2>1. Time(Batches) \in Nat /\ Time(Batches) = Time(Batches - 1) + Pause + ServeTime
        /\ Batches - 1 \in Nat /\ Batches \in Nat
    <3>1. Batches - 1 \in Nat /\ Batches \in Nat  BY BatchesCover
    <3> QED  BY <3>1, TimeGrows
  <2>2. Time(Batches - 1) \in Nat /\ Found = StepTime + Time(Batches) /\ Found \in Nat /\ Found' = Found
    <3>1. Found' = Found  BY DEF Found, Time
    <3> QED  BY <2>1, <3>1, TimeGrows DEF Found
  <2>3. CASE seen'.change = seen.change /\ seen'.age = seen.age
    <3>1. Turn => Turn'  BY <1>0, <2>2, <2>3 DEF Turn
    <3>2. ASSUME NEW k \in 0 .. Batches - 1, Behind(k), Waiting(k) PROVE Behind(k)' /\ Waiting(k)'
      <4>1. Time(k)' = Time(k)  BY DEF Time
      <4>2. Behind(k)'  BY <3>2, BatchesCover DEF Outside
      <4> QED  BY <1>0, <2>2, <2>3, <3>2, <4>1, <4>2 DEF Waiting
    <3> QED  BY <1>0, <2>2, <2>3, <3>1, <3>2 DEF HintOK, Open
  <2>4. CASE /\ seen'.change \in {"announced", "silent"} /\ seen'.age = 0
             /\ seen'.change = "announced" /\ ~ Open => Behind(Batches - 1)'
    <3>1. SUFFICES ASSUME ~ Open, seen'.change = "announced"
                   PROVE  /\ loop.pc \in {"wait", "poll", "sleep", "serve", "check"} =>
                                IF loop.pending THEN Turn'
                                ELSE \E k \in 0 .. Batches - 1 : Behind(k)' /\ Waiting(k)'
                          /\ seen'.age <= Found + Gap + ServeTime
      BY <1>0, <2>2 DEF HintOK, Open
    <3>2. loop.rest \in Nat /\ (loop.pc = "sleep" => loop.rest <= Pause)
          /\ (loop.pc = "serve" => loop.rest <= ServeTime)
      BY <1>3 DEF AwayOK, SleepAway, ServeAway
    <3>3. ASSUME loop.pc \in {"poll", "sleep", "serve", "check"}, loop.pending PROVE Turn'
      <4>1. timer.after <= Gap  BY <3>1, <3>3 DEF TimerOK
      <4>2. loop.pc = "sleep" => loop.rest = 0  BY <3>3 DEF PaceOK
      <4>3. timer'.after > 0 => seen'.age + timer'.after <= Found + Gap
        BY <1>0, <1>3, <2>2, <2>4, <4>1
      <4>4. seen'.age <= Found + Gap  BY <2>2, <2>4
      <4>5. loop.pc = "serve" => seen'.age + loop.rest <= Found + Gap + ServeTime
        BY <2>2, <2>4, <3>2
      <4>6. seen'.age <= Found + Gap + ServeTime  BY <2>2, <2>4
      <4> QED  BY <1>0, <2>2, <4>3, <4>4, <4>5, <4>6 DEF Turn
    <3>4. Time(Batches - 1)' = Time(Batches - 1)  BY DEF Time
    <3>5. Behind(Batches - 1)'  BY <2>4, <3>1
    <3>6. Waiting(Batches - 1)'
      <4> DEFINE t == Time(Batches - 1)
      <4>1. t \in Nat /\ Found = StepTime + t + Pause + ServeTime  BY <2>1, <2>2
      <4> HIDE DEF t
      <4>2. 0 + t <= Found /\ (loop.pc = "serve" => 0 + loop.rest + t <= Found)
            /\ (loop.pc = "sleep" => 0 + loop.rest + ServeTime + t <= Found)
        BY <3>2, <4>1
      <4>3. t' = t  BY <3>4 DEF t
      <4> QED  BY <1>0, <2>2, <2>4, <4>2, <4>3 DEF Waiting, t
    <3>7. Batches - 1 \in 0 .. Batches - 1  BY <2>1
    <3>8. loop.pc = "wait" => ~ loop.pending  BY DEF PaceOK
    <3>9. seen'.age <= Found + Gap + ServeTime  BY <2>2, <2>4
    <3>10. loop.pc \in {"wait", "poll", "sleep", "serve", "check"} /\ loop.pending => Turn'
      BY <3>3, <3>8
    <3> QED  BY <3>5, <3>6, <3>7, <3>9, <3>10
  <2> QED  BY <1>2, <2>3, <2>4
<1> QED  BY <1>4, <1>5, <1>6, <1>7, <1>8, <1>9

LEMMA BreakKeeps ==
  ASSUME LoopInv, Break
  PROVE  LoopInv'
<1> USE Bounds DEF LoopInv
<1>1. /\ loop' = loop /\ timer' = timer /\ guard' = [guard EXCEPT !.broken = TRUE]
      /\ Spend("changes")
  BY DEF Break
<1>2. guard' \in PathGuard /\ guard'.op = guard.op  BY <1>1, LoopTypes DEF PathGuard
<1>3. coming' \in [{"changes", "noise", "requests", "signals"} -> Nat]  BY <1>1, SpendTypes
<1>4. CASE Deliver("ours") /\ Note(~ Full \/ socket'.overrun)
  <2>1. "ours" \in Event  BY DEF Event
  <2>2. socket' \in Buffer /\ Len(socket'.queue) <= Socket  BY <1>4, <2>1, Delivered DEF TimerOK
  <2>3. \A k \in Nat : Behind(k) => Behind(k)'  BY <1>1, <1>4, <2>1, BehindStays
  <2>4. ~ Full \/ socket'.overrun => Behind(Batches - 1)'
    <3>1. CASE socket'.overrun  BY <3>1 DEF Behind
    <3>2. CASE ~ Full
      <4> DEFINE n == Len(socket'.queue)
      <4>1. n \in 1 .. Len(socket'.queue) /\ socket'.queue[n] = "ours" /\ n <= Socket
        BY <1>4, <2>1, <3>2, Delivered DEF TimerOK
      <4>2. (Batches - 1) + 1 = Batches /\ n \in Nat  BY <4>1, BatchesCover
      <4>3. n <= ((Batches - 1) + 1) * Batch  BY <4>1, <4>2, BatchesCover
      <4>4. "ours" \in loop'.watch  BY <1>1 DEF EpisodeOK
      <4> QED  BY <4>1, <4>3, <4>4 DEF Behind
    <3> QED  BY <3>1, <3>2
  <2>5. \/ UNCHANGED seen
        \/ \E change \in {"announced", "silent"} :
              /\ seen' = [seen EXCEPT !.change = change, !.age = 0]
              /\ change = "announced" /\ ~ Open => Behind(Batches - 1)'
    <3>1. CASE UNCHANGED seen  BY <3>1
    <3>2. CASE /\ ~ Full \/ socket'.overrun
               /\ seen' = [seen EXCEPT !.change = "announced", !.age = 0]
      BY <2>4, <3>2
    <3>3. CASE seen' = [seen EXCEPT !.change = "silent", !.age = 0]  BY <3>3
    <3> QED  BY <1>4, <3>1, <3>2, <3>3 DEF Note
  <2> QED  BY <1>1, <1>2, <1>3, <2>2, <2>3, <2>5, OutsideKeeps DEF Outside
<1>5. CASE UNCHANGED socket /\ Note(FALSE)
  <2>1. socket' \in Buffer /\ Len(socket'.queue) <= Socket  BY <1>5, LoopTypes DEF TimerOK
  <2>2. \A k \in Nat : Behind(k) => Behind(k)'  BY <1>1, <1>5 DEF Behind
  <2>3. UNCHANGED seen \/ seen' = [seen EXCEPT !.change = "silent", !.age = 0]  BY <1>5 DEF Note
  <2> QED  BY <1>1, <1>2, <1>3, <2>1, <2>2, <2>3, OutsideKeeps DEF Outside
<1> QED  BY <1>4, <1>5 DEF Break

LEMMA ReturnKeeps ==
  ASSUME LoopInv, Return
  PROVE  LoopInv'
<1> USE DEF LoopInv
<1>1. /\ loop' = loop /\ timer' = timer /\ guard' = guard /\ Spend("changes") /\ Deliver("foreign")
      /\ \/ UNCHANGED seen
         \/ Open /\ \E change \in {"announced", "silent"} :
                         seen' = [seen EXCEPT !.change = change, !.age = 0]
  BY DEF Return, Note
<1>2. "foreign" \in Event  BY DEF Event
<1>3. socket' \in Buffer /\ Len(socket'.queue) <= Socket  BY <1>1, <1>2, Delivered DEF TimerOK
<1>4. \A k \in Nat : Behind(k) => Behind(k)'  BY <1>1, <1>2, BehindStays
<1>5. guard' \in PathGuard  BY <1>1, LoopTypes
<1>6. coming' \in [{"changes", "noise", "requests", "signals"} -> Nat]  BY <1>1, SpendTypes
<1> QED  BY <1>1, <1>3, <1>4, <1>5, <1>6, OutsideKeeps DEF Outside

LEMMA NoiseKeeps ==
  ASSUME LoopInv, Noise
  PROVE  LoopInv'
<1> USE DEF LoopInv
<1>1. /\ loop' = loop /\ timer' = timer /\ guard' = guard /\ Spend("noise") /\ UNCHANGED seen
      /\ \E e \in Event : Deliver(e)
  BY DEF Noise
<1>2. PICK e \in Event : Deliver(e)  BY <1>1
<1>3. socket' \in Buffer /\ Len(socket'.queue) <= Socket  BY <1>2, Delivered DEF TimerOK
<1>4. \A k \in Nat : Behind(k) => Behind(k)'  BY <1>1, <1>2, BehindStays
<1>5. guard' \in PathGuard  BY <1>1, LoopTypes
<1>6. coming' \in [{"changes", "noise", "requests", "signals"} -> Nat]  BY <1>1, SpendTypes
<1> QED  BY <1>1, <1>3, <1>4, <1>5, <1>6, OutsideKeeps DEF Outside

\* The end of an operation and a request are noticed in the poll.
LEMMA GuardKeeps ==
  ASSUME LoopInv, OperationEnds \/ Request
  PROVE  LoopInv'
<1> USE DEF LoopInv
<1>1. UNCHANGED <<loop, timer, socket, seen>>  BY DEF OperationEnds, Request
<1>2. coming' \in [{"changes", "noise", "requests", "signals"} -> Nat]
  BY SpendTypes, LoopTypes DEF OperationEnds, Request
<1>3. socket' \in Buffer /\ Len(socket'.queue) <= Socket  BY <1>1, LoopTypes DEF TimerOK
<1>4. guard \in PathGuard  BY LoopTypes
<1>5. /\ guard' \in PathGuard
      /\ guard'.op # "none" => guard.op # "none"
      /\ guard'.op # "done" => guard.op # "done"
  <2>1. CASE OperationEnds
    <3>1. PICK broken \in {guard.broken, FALSE} :
            guard' = [guard EXCEPT !.op = "done", !.broken = broken] /\ guard.op = "running"
      BY <2>1 DEF OperationEnds
    <3> QED  BY <1>4, <3>1 DEF PathGuard
  <2>2. CASE Request  BY <1>4, <2>2 DEF Request, PathGuard
  <2> QED  BY <2>1, <2>2
<1>6. \A k \in Nat : Behind(k) => Behind(k)'  BY <1>1 DEF Behind
<1> QED  BY <1>1, <1>2, <1>3, <1>5, <1>6, OutsideKeeps DEF Outside

LEMMA LoopStarts == LoopInit => LoopInv
<1> SUFFICES ASSUME LoopInit PROVE LoopInv  OBVIOUS
<1> USE Bounds DEF LoopInit
<1>1. /\ loop.pc = "check" /\ loop.rest = 0 /\ ~ loop.pending /\ ~ loop.completed /\ loop.watch = Event
      /\ timer.next = 0 /\ timer.after = 0 /\ timer.delay = DelayMin /\ timer.deadline = NoDeadline
      /\ socket.queue = <<>>
      /\ guard.op = "none" /\ seen.change # "announced" /\ seen.age = 0 /\ seen.outcome = 0
      /\ seen.late = 0 /\ seen.check = Gap /\ seen.idle = 0
  OBVIOUS
<1>2. LoopTypeOK
  <2>1. loop \in Loop  BY DEF Loop, Event
  <2>2. timer \in Timer  BY DEF Timer
  <2>3. socket \in Buffer  BY DEF Buffer
  <2>4. guard \in PathGuard  BY DEF PathGuard
  <2>5. seen \in Seen
    <3>1. Gap \in 0 .. Gap /\ 0 \in Nat  OBVIOUS
    <3> QED  BY <3>1 DEF Seen
  <2>6. coming \in [{"changes", "noise", "requests", "signals"} -> Nat]  OBVIOUS
  <2> QED  BY <2>1, <2>2, <2>3, <2>4, <2>5, <2>6, LoopTypes
<1>3. TimerOK
  <2>1. Len(socket.queue) = 0  BY <1>1
  <2> QED  BY <1>1, <2>1 DEF TimerOK
<1>4. EpisodeOK  BY <1>1 DEF EpisodeOK, Passed, Event
<1>5. AwayOK
  BY <1>1 DEF AwayOK, StepAway, PollAway, SleepAway, ServeAway, CheckAway, NextAway, Away
<1>6. PaceOK  BY <1>1 DEF PaceOK
<1>7. HintOK  BY <1>1 DEF HintOK
<1> QED  BY <1>2, <1>3, <1>4, <1>5, <1>6, <1>7 DEF LoopInv

LEMMA LoopSteps == LoopInv /\ [LoopNext]_loopVars => LoopInv'
<1> SUFFICES ASSUME LoopInv, [LoopNext]_loopVars PROVE LoopInv'  OBVIOUS
<1>1. CASE LoopNext
  BY <1>1, StepKeeps, StepEndsKeeps, WaitKeeps, PollReturnsKeeps, InterruptedKeeps, WaitEndsKeeps,
     ServeKeeps, TickKeeps, BreakKeeps, ReturnKeeps, NoiseKeeps, GuardKeeps DEF LoopNext
<1>2. CASE UNCHANGED loopVars
  <2>1. UNCHANGED <<loop, timer, socket, guard, seen, coming>>  BY <1>2 DEF loopVars
  <2>2. socket' \in Buffer /\ Len(socket'.queue) <= Socket /\ guard' \in PathGuard
        /\ coming' \in [{"changes", "noise", "requests", "signals"} -> Nat]
    BY <2>1, LoopTypes DEF LoopInv, TimerOK
  <2>3. \A k \in Nat : Behind(k) => Behind(k)'  BY <2>1 DEF Behind
  <2> QED  BY <2>1, <2>2, <2>3, OutsideKeeps DEF Outside
<1> QED  BY <1>1, <1>2

LEMMA LoopInvariance == LoopSpec => []LoopInv
BY LoopStarts, LoopSteps, PTL DEF LoopSpec

-----------------------------------------------------------------------------
(* What follows. *)

\* Values of the loop's local variables, of the timers and of the socket.
THEOREM LoopTyped == LoopSpec => []LoopTypeOK
<1>1. LoopInv => LoopTypeOK  BY DEF LoopInv
<1> QED  BY <1>1, LoopInvariance, PTL

\* A change that was announced is looked at as soon as the pacing allows, however many
\* other events, requests and signals come with it (Events::wait, Schedule::due).
THEOREM EventsLead == LoopSpec => []EventLeadsToCheck
<1>1. LoopInv => EventLeadsToCheck
  <2> SUFFICES ASSUME LoopInv, ~ Open, seen.change = "announced"
               PROVE  seen.age <= Gap + Batches * (Pause + ServeTime) + StepTime + ServeTime
    BY DEF EventLeadsToCheck
  <2> USE Bounds
  <2>1. loop \in Loop /\ seen \in Seen /\ timer \in Timer  BY LoopTypes DEF LoopInv
  <2>2. Time(Batches) \in Nat /\ Found = StepTime + Time(Batches)  BY TimeGrows DEF Found
  <2>3. seen.age <= Found + Gap + ServeTime
    <3>1. seen.age \in Nat /\ loop.rest \in Nat /\ timer.after \in Nat  BY <2>1 DEF Loop, Seen, Timer
    <3>2. CASE loop.pc = "step"  BY <2>2, <3>1, <3>2 DEF LoopInv, AwayOK, StepAway
    <3>3. CASE loop.pc = "over"  BY <3>3 DEF LoopInv, HintOK
    <3>4. CASE loop.pc \in {"wait", "poll", "sleep", "serve", "check"} /\ loop.pending
      <4>1. Turn /\ loop.pc # "wait"  BY <3>4 DEF LoopInv, HintOK, PaceOK
      <4> QED  BY <2>2, <3>1, <3>4, <4>1 DEF Turn
    <3>5. CASE loop.pc \in {"wait", "poll", "sleep", "serve", "check"} /\ ~ loop.pending
      <4>1. PICK k \in 0 .. Batches - 1 : Waiting(k)  BY <3>5 DEF LoopInv, HintOK
      <4>2. Time(k) \in Nat  BY TimeGrows
      <4> QED  BY <2>2, <3>1, <3>5, <4>1, <4>2 DEF Waiting
    <3> QED  BY <2>1, <3>2, <3>3, <3>4, <3>5 DEF Loop
  <2>4. Time(Batches) = Batches * (Pause + ServeTime)  BY DEF Time
  <2>5. seen.age \in Nat  BY <2>1 DEF Seen
  <2> QED  BY <2>2, <2>3, <2>4, <2>5
<1> QED  BY <1>1, LoopInvariance, PTL

\* Any change is looked at within the period of the fallback and the time the loop was away.
THEOREM FallbackHolds == LoopSpec => []FallbackCheck
<1>1. LoopInv => FallbackCheck
  <2> SUFFICES ASSUME LoopInv PROVE seen.age <= Period + Away  BY DEF FallbackCheck
  <2> USE Bounds
  <2>1. loop \in Loop /\ seen \in Seen /\ timer \in Timer  BY LoopTypes DEF LoopInv
  <2>2. seen.age \in Nat /\ loop.rest \in Nat /\ timer.next \in Nat  BY <2>1 DEF Loop, Seen, Timer
  <2> QED
    BY <2>1, <2>2 DEF LoopInv, AwayOK, StepAway, PollAway, SleepAway, ServeAway, CheckAway, Away, Loop
<1> QED  BY <1>1, LoopInvariance, PTL

\* The end of an episode and the outcome of an operation are taken at once, unless the
\* loop is away (Events::wait polls the completion descriptor also while it defers events).
THEOREM TakenHolds == LoopSpec => []TakenOnTime
<1>1. LoopInv => TakenOnTime
  <2> SUFFICES ASSUME LoopInv PROVE TakenOnTime  OBVIOUS
  <2> USE Bounds
  <2>1. loop \in Loop /\ seen \in Seen /\ timer \in Timer  BY LoopTypes DEF LoopInv
  <2>2. seen.late \in Nat /\ seen.outcome \in Nat /\ loop.rest \in Nat  BY <2>1 DEF Loop, Seen
  <2> QED
    BY <2>1, <2>2
    DEF LoopInv, TakenOnTime, AwayOK, StepAway, PollAway, SleepAway, ServeAway, CheckAway, Away, Loop
<1> QED  BY <1>1, LoopInvariance, PTL

\* Events cause no more checks than one every Gap, and the loop never spins on an event
\* that waits for its turn.
THEOREM Paced == LoopSpec => EventsArePaced
<1> DEFINE Pace == /\ loop.pc = "check" /\ loop'.pc = "step" /\ ~ loop.completed /\ ~ Passed =>
                         seen.check = Gap
                   /\ seen'.idle <= 1
<1>1. LoopInv /\ [LoopNext]_loopVars => [Pace]_loopVars
  <2> SUFFICES ASSUME LoopInv, LoopNext PROVE Pace
    BY DEF Pace
  <2>1. seen'.idle <= 1  BY LoopSteps DEF LoopInv, PaceOK
  <2>2. ASSUME loop.pc = "check", loop'.pc = "step", ~ loop.completed, ~ Passed PROVE seen.check = Gap
    <3>1. loop \in Loop /\ timer \in Timer /\ seen \in Seen  BY LoopTypes DEF LoopInv
    <3>2. Step
      <4>1. ~ StepEnds /\ ~ PollReturns /\ ~ Interrupted /\ ~ WaitEnds /\ ~ Serve /\ ~ Tick
        BY <2>2 DEF StepEnds, PollReturns, Interrupted, WaitEnds, Serve, Tick
      <4>2. ~ Wait  BY <2>2, <3>1 DEF Wait, Loop
      <4>3. ~ Break /\ ~ Return /\ ~ Noise /\ ~ OperationEnds /\ ~ Request
        BY <2>2 DEF Break, Return, Noise, OperationEnds, Request
      <4> QED  BY <4>1, <4>2, <4>3 DEF LoopNext
    <3>3. timer.next = 0 \/ timer.after = 0  BY <2>2, <3>2 DEF Step, Due
    <3>4. timer.after \in Nat /\ timer.next \in Nat /\ seen.check \in 0 .. Gap  BY <3>1 DEF Timer, Seen
    <3>5. timer.after <= timer.next /\ timer.after + seen.check >= Gap  BY DEF LoopInv, TimerOK
    <3> QED  BY <3>3, <3>4, <3>5, Bounds
  <2> QED  BY <2>1, <2>2 DEF Pace
<1> QED  BY <1>1, LoopInvariance, PTL DEF LoopSpec, EventsArePaced

-----------------------------------------------------------------------------
(* PART 3: THE MANAGEMENT INTEGRATION *)

\* The units and the command link name program v, or were removed or edited.
Names(v) == {unit, entry} \subseteq {v, NoFile, Foreign}

\* The last backup holds the matching set of before, and each file that was not edited is
\* the old or the new one.
Spans ==
    LET backup == backups[Latest] IN
       /\ backup.old.unit = backup.old.receipt.program
       /\ backup.old.entry = backup.old.receipt.program
       /\ {unit, entry} \subseteq {backup.old.receipt.program, backup.program, Foreign}

\* InstalledIsCoherent, also while a command runs.
Coherent ==
    Installed => \/ Names(receipt.program)
                 \/ Latest > 0 /\ backups[Latest].state \notin {"staging", "rolled_back"} /\ Spans

\* A program is named after its directory is complete.
Copied == {"i_directory", "i_receipt", "i_unit", "i_rule", "i_entry", "i_enable", "i_installed",
           "u_applying", "u_quiet", "u_pending", "u_unit", "u_entry", "u_installed", "u_complete"}
SourcesOK ==
    /\ proc.pc \in {"i_copy", "u_copy"} => versions[proc.program] = "partial"
    /\ proc.pc \in Copied => versions[proc.program] = "complete"

\* A first installation starts from nothing.
SetupOK ==
    /\ proc.pc \in InstallPc \ {"i_activate"} => ~ Installed /\ Names(proc.program)

\* A registration extends the registry, and the rules of an installed receipt.
RegistrationOK ==
    /\ proc.pc = "r_record" => registry \subseteq proc.entries
    /\ proc.pc = "r_check" => receipt # NoFile
    /\ proc.pc \in {"r_rule", "r_receipt"} => Installed

\* An uninstallation keeps the receipt until its last step.
RemovalOK ==
    proc.pc \in UninstallPc => Installed /\ receipt = proc.seen.receipt /\ Names(receipt.program)

\* An upgrade began with the files of an installed receipt, whose program is complete, and
\* keeps them in its backup.
Upgrading == UpgradePc \cup UndoPc
SeenOK ==
    proc.pc \in Upgrading =>
        /\ proc.seen.receipt # NoFile /\ proc.seen.receipt.state = "installed"
        /\ proc.seen.unit = proc.seen.receipt.program /\ proc.seen.entry = proc.seen.receipt.program
        /\ versions[proc.seen.receipt.program] = "complete"
BackupOK ==
    /\ proc.pc = "u_backup" => Latest < MaxUpgrades
    /\ proc.pc \in Upgrading \ {"u_backup"} =>
          Latest > 0 /\ backups[Latest].old = proc.seen /\ backups[Latest].program = proc.program
    /\ proc.pc \in {"u_quiet", "u_pending", "u_unit", "u_entry", "u_installed", "u_complete"}
                   \cup (UndoPc \ {"b_verdict"}) =>
          backups[Latest].state \in {"applying", "complete"}

\* File f is as the upgrade found it, or was edited; the upgrade or its rollback left it.
Kept(f, old)         == f \in {old, Foreign}
Changed(f, old, new) == f \in {old, new, Foreign}

\* The writes in their order.
ApplyOK ==
    /\ proc.pc \in Upgrading => Kept(rule, proc.seen.rule)
    /\ proc.pc \in {"u_backup", "u_mkdir", "u_copy", "u_applying", "u_quiet", "u_pending"} =>
          receipt = proc.seen.receipt /\ Kept(unit, proc.seen.unit) /\ Kept(entry, proc.seen.entry)
    /\ proc.pc \in {"u_unit", "u_entry", "u_installed"} => receipt = Pending
    /\ proc.pc = "u_unit" => Kept(unit, proc.seen.unit)
    /\ proc.pc \in {"u_unit", "u_entry"} => Kept(entry, proc.seen.entry)
    /\ proc.pc \in {"u_entry", "u_installed", "u_complete"} => Kept(unit, proc.program)
    /\ proc.pc \in {"u_installed", "u_complete"} => Kept(entry, proc.program)
    /\ proc.pc = "u_complete" => receipt = NextReceipt

\* The rollback: a step that did not fail put its file back.
UndoOK ==
    /\ proc.pc \in UpgradePc => ~ proc.failures
    /\ proc.pc \in UndoPc =>
          /\ Changed(unit, proc.seen.unit, proc.program)
          /\ Changed(entry, proc.seen.entry, proc.program)
    /\ proc.pc \in UndoPc \ {"b_verdict"} => receipt \in {proc.seen.receipt, Pending, NextReceipt}
    /\ proc.pc \in UndoPc \ {"b_unit"} /\ ~ proc.failures => Kept(unit, proc.seen.unit)
    /\ proc.pc \in UndoPc \ {"b_unit", "b_rule", "b_entry"} /\ ~ proc.failures =>
          Kept(entry, proc.seen.entry)
    /\ proc.pc = "b_verdict" /\ ~ proc.failures => receipt = proc.seen.receipt
    /\ proc.pc = "b_verdict" /\ proc.failures => backups[Latest].state \in {"applying", "complete"}

ManagerInv ==
    /\ ManagerTypeOK /\ Coherent /\ EntryIsComplete
    /\ SourcesOK /\ SetupOK /\ RegistrationOK /\ RemovalOK /\ SeenOK /\ BackupOK /\ ApplyOK /\ UndoOK

-----------------------------------------------------------------------------
(* What every step does to the command. *)

CommandPc == {"idle"} \cup InstallPc \cup RegisterPc \cup UpgradePc \cup UndoPc \cup UninstallPc
Allowance == [faults : 0 .. MaxFaults, crashes : 0 .. MaxCrashes, edits : 0 .. MaxEdits]

\* The command goes on with what it keeps, or ends.
Onward(p) ==
    /\ proc' \in Proc /\ proc'.pc = p
    /\ p # "idle" => /\ proc'.program = proc.program /\ proc'.entries = proc.entries
                     /\ proc'.starts = proc.starts /\ proc'.seen = proc.seen
                     /\ proc'.failures = proc.failures

LEMMA IdleTyped == Idle \in Proc /\ Idle.pc = "idle"
<1>1. 1 \in Version  BY ManagerAssumption DEF Version
<1>2. [unit |-> NoFile, rule |-> NoFile, entry |-> NoFile, receipt |-> NoFile] \in Files
  <2>1. NoFile \in Program /\ NoFile \in Rules /\ NoFile \in Receipt \cup {NoFile}
    BY DEF Program, Rules
  <2> QED  BY <2>1 DEF Files
<1> QED  BY <1>1, <1>2 DEF Idle, Proc

LEMMA GoOn ==
  ASSUME ManagerTypeOK, NEW p \in CommandPc, Goto(p)
  PROVE  Onward(p)
<1>1. CASE p = "idle"  BY <1>1, IdleTyped DEF Goto, Onward
<1>2. CASE p # "idle"
  <2>1. proc' = [proc EXCEPT !.pc = p] /\ proc \in Proc  BY <1>2 DEF Goto, ManagerTypeOK
  <2> QED  BY <2>1 DEF Onward, Proc, CommandPc
<1> QED  BY <1>1, <1>2

LEMMA FaultSpends ==
  ASSUME ManagerTypeOK, Fault
  PROVE  budget' \in Allowance
BY ManagerAssumption DEF ManagerTypeOK, Allowance, Fault

LEMMA SameAllowance ==
  ASSUME ManagerTypeOK, UNCHANGED budget
  PROVE  budget' \in Allowance
BY DEF ManagerTypeOK, Allowance

\* A step that succeeds, and one that raises with or without its effect.
LEMMA AttemptGoes ==
  ASSUME ManagerTypeOK, NEW p, NEW next \in CommandPc, NEW handler \in CommandPc,
         NEW ACTION Effect, Attempt(p, Effect, next, handler)
  PROVE  /\ proc.pc = p /\ budget' \in Allowance
         /\ \/ Effect /\ Onward(next)
            \/ (Effect \/ UNCHANGED <<disk, boot>>) /\ Onward(handler)
BY GoOn, FaultSpends, SameAllowance DEF Attempt, At

LEMMA RequireGoes ==
  ASSUME ManagerTypeOK, NEW p, NEW condition \in BOOLEAN, NEW next \in CommandPc,
         NEW handler \in CommandPc, Require(p, condition, next, handler)
  PROVE  /\ proc.pc = p /\ budget' \in Allowance /\ UNCHANGED <<disk, boot>>
         /\ \/ condition /\ Onward(next)
            \/ ~ condition /\ Onward(handler)
BY GoOn, SameAllowance DEF Require, At

\* The rollback goes on with its next step, and notes a failure.
Notes(p) ==
    /\ proc' \in Proc /\ proc'.pc = p /\ proc'.failures = TRUE
    /\ proc'.program = proc.program /\ proc'.entries = proc.entries
    /\ proc'.starts = proc.starts /\ proc'.seen = proc.seen

LEMMA NoteGoes ==
  ASSUME ManagerTypeOK, NEW next \in UndoPc, proc' = [proc EXCEPT !.pc = next, !.failures = TRUE]
  PROVE  Notes(next)
<1>1. next \in CommandPc  BY DEF CommandPc
<1> QED  BY <1>1 DEF Notes, Proc, CommandPc, ManagerTypeOK

LEMMA UndoGoes ==
  ASSUME ManagerTypeOK, NEW p, NEW STATE allowed, NEW ACTION Effect,
         NEW next \in UndoPc, Undo(p, allowed, Effect, next)
  PROVE  /\ proc.pc = p /\ budget' \in Allowance
         /\ \/ allowed /\ Effect /\ Onward(next)
            \/ ((allowed /\ Effect) \/ UNCHANGED <<disk, boot>>) /\ Notes(next)
<1>1. next \in CommandPc  BY DEF CommandPc
<1>2. UNCHANGED <<disk, boot, budget>> => UNCHANGED budget /\ UNCHANGED <<disk, boot>>  OBVIOUS
<1> QED  BY <1>1, <1>2, NoteGoes, GoOn, FaultSpends, SameAllowance DEF Undo, At

\* A program directory is made, or an existing one is used when it is complete.
LEMMA SourcesGoes ==
  ASSUME ManagerTypeOK, NEW p, NEW copy \in CommandPc, NEW next \in CommandPc,
         NEW handler \in CommandPc, SourcesBegin(p, copy, next, handler)
  PROVE  /\ proc.pc = p /\ budget' \in Allowance
         /\ UNCHANGED <<integration, backups, registry, boot>>
         /\ \/ /\ versions[proc.program] = "absent"
               /\ versions' = [versions EXCEPT ![proc.program] = "partial"]
               /\ Onward(copy) \/ Onward(handler)
            \/ versions' = versions /\ Onward(handler)
            \/ versions' = versions /\ versions[proc.program] = "complete" /\ Onward(next)
<1>1. (versions[proc.program] = "complete") \in BOOLEAN  OBVIOUS
<1>2. CASE /\ versions[proc.program] = "absent"
           /\ Attempt(p, SetVersion("partial"), copy, handler)
  BY <1>2, AttemptGoes DEF SetVersion, Durable, disk, boot
<1>3. CASE Require(p, versions[proc.program] = "complete", next, handler)
  BY <1>1, <1>3, RequireGoes DEF disk
<1> QED  BY <1>2, <1>3 DEF SourcesBegin

LEMMA VersionTypes ==
  ASSUME ManagerTypeOK, NEW v \in {"absent", "partial", "complete"},
         versions' = [versions EXCEPT ![proc.program] = v]
  PROVE  /\ versions' \in [Version -> {"absent", "partial", "complete"}]
         /\ versions'[proc.program] = v
         /\ \A w \in Version : w # proc.program => versions'[w] = versions[w]
BY DEF ManagerTypeOK, Proc

\* The last journal gets a state.
Noted(s) ==
    /\ backups' \in Seq(Backup) /\ Len(backups') = Latest
    /\ \A i \in 1 .. Latest : i # Latest => backups'[i] = backups[i]
    /\ backups'[Latest].state = s
    /\ backups'[Latest].old = backups[Latest].old /\ backups'[Latest].program = backups[Latest].program

LEMMA RecordNotes ==
  ASSUME ManagerTypeOK, Latest > 0,
         NEW s \in {"staging", "applying", "complete", "rolled_back", "rollback_failed"}, Record(s)
  PROVE  Noted(s) /\ UNCHANGED <<integration, versions, registry, boot>>
<1> DEFINE b == [backups[Latest] EXCEPT !.state = s]
<1>1. Latest \in 1 .. Len(backups) /\ backups[Latest] \in Backup  BY DEF ManagerTypeOK, Latest
<1>2. b \in Backup /\ b.state = s /\ b.old = backups[Latest].old /\ b.program = backups[Latest].program
  BY <1>1 DEF Backup
<1>3. backups' = [backups EXCEPT ![Latest] = b]  BY DEF Record, Durable
<1> HIDE DEF b
<1>4. backups' \in Seq(Backup) /\ Len(backups') = Len(backups) /\ backups'[Latest] = b
      /\ \A i \in 1 .. Len(backups) : i # Latest => backups'[i] = backups[i]
  BY <1>1, <1>2, <1>3 DEF ManagerTypeOK
<1> QED  BY <1>2, <1>4 DEF Noted, Record, Durable, Latest

\* A new backup directory.
LEMMA BackupAppended ==
  ASSUME ManagerTypeOK, Latest < MaxUpgrades,
         backups' = Append(backups, [state |-> "staging", old |-> proc.seen, program |-> proc.program])
  PROVE  /\ backups' \in Seq(Backup) /\ Len(backups') = Latest + 1 /\ Len(backups') <= MaxUpgrades
         /\ \A i \in 1 .. Latest : backups'[i] = backups[i]
         /\ backups'[Latest + 1].old = proc.seen /\ backups'[Latest + 1].program = proc.program
<1>1. [state |-> "staging", old |-> proc.seen, program |-> proc.program] \in Backup
  BY DEF Backup, ManagerTypeOK, Proc
<1> QED  BY <1>1, ManagerAssumption DEF ManagerTypeOK, Latest

-----------------------------------------------------------------------------
(* The receipts that are written. *)

LEMMA ReceiptKinds ==
  ASSUME ManagerTypeOK, NEW s \in {"none", "installing", "installed"}
  PROVE  /\ InstallReceiptOf(s) \in Receipt /\ InstallReceiptOf(s) # NoFile
         /\ InstallReceiptOf(s).state = s /\ InstallReceiptOf(s).program = proc.program
<1>1. proc.program \in Version /\ proc.entries \in SUBSET Map  BY DEF ManagerTypeOK, Proc
<1>2. InstallReceiptOf(s) \in Receipt  BY <1>1 DEF InstallReceiptOf, Receipt
<1> QED  BY <1>2, FilesAssumption DEF InstallReceiptOf

LEMMA UpgradeReceipts ==
  ASSUME ManagerTypeOK, SeenOK, proc.pc \in Upgrading
  PROVE  /\ proc.seen.receipt \in Receipt /\ proc.seen.unit \in Version
         /\ Pending \in Receipt /\ Pending.state = "upgrading"
         /\ NextReceipt \in Receipt /\ NextReceipt.state = "installed"
         /\ NextReceipt.program = proc.program
         /\ [Pending EXCEPT !.state = "upgrade_failed"] \in Receipt
         /\ [Pending EXCEPT !.state = "upgrade_failed"].state = "upgrade_failed"
<1>1. proc.seen.receipt \in Receipt /\ proc.program \in Version /\ proc.entries \in SUBSET Map
  BY DEF SeenOK, ManagerTypeOK, Proc, Files
<1>2. Pending \in Receipt /\ Pending.state = "upgrading"  BY <1>1 DEF Pending, Receipt
<1>3. /\ [Pending EXCEPT !.state = "upgrade_failed"] \in Receipt
      /\ [Pending EXCEPT !.state = "upgrade_failed"].state = "upgrade_failed"
  BY <1>2 DEF Receipt
<1>4. /\ NextReceipt \in Receipt /\ NextReceipt.state = "installed"
      /\ NextReceipt.program = proc.program
  BY <1>1 DEF NextReceipt, Receipt
<1>5. proc.seen.unit \in Version  BY <1>1 DEF SeenOK, Receipt
<1> QED  BY <1>1, <1>2, <1>3, <1>4, <1>5

LEMMA SameReceipts ==
  ASSUME proc'.seen = proc.seen, proc'.program = proc.program, proc'.entries = proc.entries
  PROVE  Pending' = Pending /\ NextReceipt' = NextReceipt
BY DEF Pending, NextReceipt

-----------------------------------------------------------------------------
(* The parts of the invariant that speak of other commands. *)

LEMMA NoUpgrade ==
  ASSUME proc'.pc \notin Upgrading
  PROVE  (SeenOK /\ BackupOK /\ ApplyOK /\ UndoOK)'
BY DEF SeenOK, BackupOK, ApplyOK, UndoOK, Upgrading, UpgradePc, UndoPc

LEMMA OnlyUpgrade ==
  ASSUME proc'.pc \in Upgrading \cup {"idle"}
  PROVE  (SetupOK /\ RegistrationOK /\ RemovalOK)'
BY DEF SetupOK, RegistrationOK, RemovalOK, Upgrading, UpgradePc, UndoPc, InstallPc, UninstallPc

LEMMA NoCommand ==
  ASSUME proc'.pc = "idle"
  PROVE  (SourcesOK /\ SetupOK /\ RegistrationOK /\ RemovalOK /\ SeenOK /\ BackupOK /\ ApplyOK /\ UndoOK)'
<1>1. proc'.pc \notin Upgrading /\ proc'.pc \in Upgrading \cup {"idle"}
  BY DEF Upgrading, UpgradePc, UndoPc
<1> QED  BY <1>1, NoUpgrade, OnlyUpgrade DEF SourcesOK, Copied

\* A command that begins.
LEMMA FilesRead ==
  ASSUME ManagerTypeOK
  PROVE  Integration \in Files
BY DEF ManagerTypeOK, Integration, Files

LEMMA BeginTypes ==
  ASSUME ManagerTypeOK, NEW p \in CommandPc, NEW v \in Version, Begin(p, v)
  PROVE  /\ proc.pc = "idle" /\ proc' \in Proc /\ proc'.pc = p /\ proc'.seen = Integration
         /\ proc'.program = v /\ proc'.failures = FALSE
         /\ UNCHANGED <<disk, boot, budget>>
<1>1. Integration \in Files /\ registry \in SUBSET Map  BY FilesRead DEF ManagerTypeOK
<1> QED  BY <1>1 DEF Begin, At, Proc, CommandPc

LEMMA RegisterTypes ==
  ASSUME ManagerTypeOK, RegisterBegin
  PROVE  /\ proc' \in Proc /\ proc'.pc = "r_record" /\ registry \subseteq proc'.entries
         /\ UNCHANGED <<disk, boot, budget>>
<1>1. Integration \in Files /\ registry \in SUBSET Map /\ live \in SUBSET Map
  BY FilesRead DEF ManagerTypeOK
<1>2. PICK m \in live, v \in Version :
         proc' = [pc |-> "r_record", program |-> v, entries |-> registry \cup {m},
                  starts |-> {m}, seen |-> Integration, failures |-> FALSE]
  BY DEF RegisterBegin
<1>3. registry \cup {m} \in SUBSET Map /\ {m} \in SUBSET Map  BY <1>1
<1> QED  BY <1>1, <1>2, <1>3 DEF RegisterBegin, Proc, RegisterPc

\* install().
LEMMA InstallKeeps ==
  ASSUME ManagerInv, Install
  PROVE  ManagerInv'
<1> /\ ManagerTypeOK /\ Coherent /\ EntryIsComplete /\ SourcesOK /\ SetupOK /\ RegistrationOK
    /\ RemovalOK /\ SeenOK /\ BackupOK /\ ApplyOK /\ UndoOK
  BY DEF ManagerInv
<1>1. ASSUME InstallBegin PROVE ManagerInv'
  <2>1. /\ unit = NoFile /\ entry = NoFile /\ receipt = NoFile /\ budget' \in Allowance
        /\ UNCHANGED <<unit, rule, entry, receipt, versions, backups, registry, ram, live, active>>
        /\ proc' \in Proc /\ proc'.pc = "i_mkdir"
    BY <1>1, BeginTypes, SameAllowance DEF InstallBegin, Begin, disk, integration, boot,
       InstallPc, CommandPc
  <2>11. ManagerTypeOK'
    BY <2>1 DEF ManagerTypeOK, Allowance, Onward
  <2>12. SourcesOK'
    BY <2>1 DEF SourcesOK, Copied, Onward
  <2>13. EntryIsComplete'
    BY <2>1 DEF EntryIsComplete, Onward, SourcesOK, Copied, ManagerTypeOK
  <2>14. (SetupOK /\ RegistrationOK /\ RemovalOK)'
    BY <2>1 DEF SetupOK, RegistrationOK, RemovalOK, Onward, Installed, Names, InstallPc,
       RegisterPc, UninstallPc
  <2>15. (SeenOK /\ BackupOK /\ ApplyOK /\ UndoOK)'
    BY <2>1, NoUpgrade DEF Onward, Upgrading, UpgradePc, UndoPc
  <2>16. Coherent'
    BY <2>1 DEF Coherent, Installed, Names, Spans, Latest
  <2> QED  BY <2>11, <2>12, <2>13, <2>14, <2>15, <2>16 DEF ManagerInv
<1>2. ASSUME InstallMkdir PROVE ManagerInv'
  <2>1. /\ proc.pc = "i_mkdir" /\ budget' \in Allowance
        /\ UNCHANGED <<unit, rule, entry, receipt, backups, registry, ram, live, active>>
        /\ \/ /\ versions[proc.program] = "absent"
              /\ versions' = [versions EXCEPT ![proc.program] = "partial"]
              /\ Onward("i_copy") \/ Onward("idle")
           \/ versions' = versions /\ Onward("idle")
           \/ versions' = versions /\ versions[proc.program] = "complete" /\ Onward("i_directory")
    BY <1>2, SourcesGoes DEF InstallMkdir, disk, integration, boot, CommandPc, InstallPc
  <2>2. /\ versions' \in [Version -> {"absent", "partial", "complete"}]
        /\ \A v \in Version : versions[v] = "complete" => versions'[v] = "complete"
        /\ proc'.pc = "i_copy" => versions'[proc.program] = "partial"
        /\ proc'.pc = "i_directory" => versions'[proc.program] = "complete"
    BY <2>1, VersionTypes DEF ManagerTypeOK, Onward
  <2>11. ManagerTypeOK'
    BY <2>1, <2>2 DEF ManagerTypeOK, Allowance, Onward
  <2>12. SourcesOK'
    BY <2>1, <2>2 DEF SourcesOK, Copied, Onward
  <2>13. EntryIsComplete'
    BY <2>1, <2>2 DEF EntryIsComplete, Onward, SourcesOK, Copied, ManagerTypeOK
  <2>14. (SetupOK /\ RegistrationOK /\ RemovalOK)'
    BY <2>1, <2>2 DEF SetupOK, RegistrationOK, RemovalOK, Onward, Installed, Names,
       InstallPc, RegisterPc, UninstallPc
  <2>15. (SeenOK /\ BackupOK /\ ApplyOK /\ UndoOK)'
    BY <2>1, <2>2, NoUpgrade DEF Onward, Upgrading, UpgradePc, UndoPc
  <2>16. Coherent'
    BY <2>1, <2>2 DEF Coherent, Installed, Names, Spans, Latest
  <2> QED  BY <2>11, <2>12, <2>13, <2>14, <2>15, <2>16 DEF ManagerInv
<1>3. ASSUME InstallCopy PROVE ManagerInv'
  <2>1. /\ proc.pc = "i_copy" /\ budget' \in Allowance
        /\ UNCHANGED <<unit, rule, entry, receipt, backups, registry, ram, live, active>>
        /\ \/ versions' = [versions EXCEPT ![proc.program] = "complete"] /\ Onward("i_directory")
           \/ /\ versions' = [versions EXCEPT ![proc.program] = "complete"] \/ versions' = versions
              /\ Onward("idle")
    BY <1>3, AttemptGoes DEF InstallCopy, SourcesCopy, SetVersion, Durable, disk,
       integration, boot, CommandPc, InstallPc
  <2>2. /\ versions' \in [Version -> {"absent", "partial", "complete"}]
        /\ \A v \in Version : versions[v] = "complete" => versions'[v] = "complete"
        /\ proc'.pc = "i_directory" => versions'[proc.program] = "complete"
    BY <2>1, VersionTypes DEF ManagerTypeOK, Onward
  <2>11. ManagerTypeOK'
    BY <2>1, <2>2 DEF ManagerTypeOK, Allowance, Onward
  <2>12. SourcesOK'
    BY <2>1, <2>2 DEF SourcesOK, Copied, Onward
  <2>13. EntryIsComplete'
    BY <2>1, <2>2 DEF EntryIsComplete, Onward, SourcesOK, Copied, ManagerTypeOK
  <2>14. (SetupOK /\ RegistrationOK /\ RemovalOK)'
    BY <2>1, <2>2 DEF SetupOK, RegistrationOK, RemovalOK, Onward, Installed, Names,
       InstallPc, RegisterPc, UninstallPc
  <2>15. (SeenOK /\ BackupOK /\ ApplyOK /\ UndoOK)'
    BY <2>1, <2>2, NoUpgrade DEF Onward, Upgrading, UpgradePc, UndoPc
  <2>16. Coherent'
    BY <2>1, <2>2 DEF Coherent, Installed, Names, Spans, Latest
  <2> QED  BY <2>11, <2>12, <2>13, <2>14, <2>15, <2>16 DEF ManagerInv
<1>4. ASSUME InstallDirectory PROVE ManagerInv'
  <2>1. /\ proc.pc = "i_directory" /\ budget' \in Allowance
        /\ UNCHANGED <<unit, rule, entry, versions, backups, registry, ram, live, active>>
        /\ \/ receipt' = InstallReceiptOf("none") /\ Onward("i_receipt")
           \/ receipt' \in {InstallReceiptOf("none"), receipt} /\ Onward("idle")
    BY <1>4, AttemptGoes DEF InstallDirectory, SetReceipt, Durable, disk, integration,
       boot, CommandPc, InstallPc
  <2>2. /\ InstallReceiptOf("none") \in Receipt /\ InstallReceiptOf("none") # NoFile
        /\ InstallReceiptOf("none").state = "none" /\ InstallReceiptOf("none").program = proc.program
    BY ReceiptKinds
  <2>11. ManagerTypeOK'
    BY <2>1, <2>2 DEF ManagerTypeOK, Allowance, Onward
  <2>12. SourcesOK'
    BY <2>1, <2>2 DEF SourcesOK, Copied, Onward
  <2>13. EntryIsComplete'
    BY <2>1, <2>2 DEF EntryIsComplete, Onward, SourcesOK, Copied, ManagerTypeOK
  <2>14. (SetupOK /\ RegistrationOK /\ RemovalOK)'
    BY <2>1, <2>2 DEF SetupOK, RegistrationOK, RemovalOK, Onward, Installed, Names,
       InstallPc, RegisterPc, UninstallPc
  <2>15. (SeenOK /\ BackupOK /\ ApplyOK /\ UndoOK)'
    BY <2>1, <2>2, NoUpgrade DEF Onward, Upgrading, UpgradePc, UndoPc
  <2>16. Coherent'
    BY <2>1, <2>2 DEF Coherent, Installed, Names, Spans, Latest
  <2> QED  BY <2>11, <2>12, <2>13, <2>14, <2>15, <2>16 DEF ManagerInv
<1>5. ASSUME InstallReceipt PROVE ManagerInv'
  <2>1. /\ proc.pc = "i_receipt" /\ budget' \in Allowance
        /\ UNCHANGED <<unit, rule, entry, versions, backups, registry, ram, live, active>>
        /\ \/ receipt' = InstallReceiptOf("installing") /\ Onward("i_unit")
           \/ receipt' \in {InstallReceiptOf("installing"), receipt} /\ Onward("idle")
    BY <1>5, AttemptGoes DEF InstallReceipt, SetReceipt, Durable, disk, integration,
       boot, CommandPc, InstallPc
  <2>2. /\ InstallReceiptOf("installing") \in Receipt /\ InstallReceiptOf("installing") # NoFile
        /\ InstallReceiptOf("installing").state = "installing" /\ InstallReceiptOf("installing").program = proc.program
    BY ReceiptKinds
  <2>11. ManagerTypeOK'
    BY <2>1, <2>2 DEF ManagerTypeOK, Allowance, Onward
  <2>12. SourcesOK'
    BY <2>1, <2>2 DEF SourcesOK, Copied, Onward
  <2>13. EntryIsComplete'
    BY <2>1, <2>2 DEF EntryIsComplete, Onward, SourcesOK, Copied, ManagerTypeOK
  <2>14. (SetupOK /\ RegistrationOK /\ RemovalOK)'
    BY <2>1, <2>2 DEF SetupOK, RegistrationOK, RemovalOK, Onward, Installed, Names,
       InstallPc, RegisterPc, UninstallPc
  <2>15. (SeenOK /\ BackupOK /\ ApplyOK /\ UndoOK)'
    BY <2>1, <2>2, NoUpgrade DEF Onward, Upgrading, UpgradePc, UndoPc
  <2>16. Coherent'
    BY <2>1, <2>2 DEF Coherent, Installed, Names, Spans, Latest
  <2> QED  BY <2>11, <2>12, <2>13, <2>14, <2>15, <2>16 DEF ManagerInv
<1>6. ASSUME InstallUnit PROVE ManagerInv'
  <2>1. /\ proc.pc = "i_unit" /\ budget' \in Allowance
        /\ UNCHANGED <<rule, entry, receipt, versions, backups, registry, ram, live, active>>
        /\ \/ unit' = proc.program /\ Onward("i_rule")
           \/ unit' \in {proc.program, unit} /\ Onward("idle")
    BY <1>6, AttemptGoes DEF InstallUnit, SetUnit, Durable, disk, integration, boot,
       CommandPc, InstallPc
  <2>2. proc.program \in Version /\ proc.entries \in SUBSET Map
    BY DEF ManagerTypeOK, Proc
  <2>11. ManagerTypeOK'
    BY <2>1, <2>2 DEF ManagerTypeOK, Allowance, Onward, Program
  <2>12. SourcesOK'
    BY <2>1, <2>2 DEF SourcesOK, Copied, Onward
  <2>13. EntryIsComplete'
    BY <2>1, <2>2 DEF EntryIsComplete, Onward, SourcesOK, Copied, ManagerTypeOK
  <2>14. (SetupOK /\ RegistrationOK /\ RemovalOK)'
    BY <2>1, <2>2 DEF SetupOK, RegistrationOK, RemovalOK, Onward, Installed, Names,
       InstallPc, RegisterPc, UninstallPc
  <2>15. (SeenOK /\ BackupOK /\ ApplyOK /\ UndoOK)'
    BY <2>1, <2>2, NoUpgrade DEF Onward, Upgrading, UpgradePc, UndoPc
  <2>16. Coherent'
    BY <2>1, <2>2 DEF Coherent, Installed, Names, Spans, Latest, SetupOK, InstallPc
  <2> QED  BY <2>11, <2>12, <2>13, <2>14, <2>15, <2>16 DEF ManagerInv
<1>7. ASSUME InstallRule PROVE ManagerInv'
  <2>1. /\ proc.pc = "i_rule" /\ budget' \in Allowance
        /\ UNCHANGED <<unit, entry, receipt, versions, backups, registry, ram, live, active>>
        /\ \/ rule' = proc.entries /\ Onward("i_entry")
           \/ rule' \in {proc.entries, rule} /\ Onward("idle")
    BY <1>7, AttemptGoes DEF InstallRule, SetRule, Durable, disk, integration, boot,
       CommandPc, InstallPc
  <2>2. proc.program \in Version /\ proc.entries \in SUBSET Map
    BY DEF ManagerTypeOK, Proc
  <2>11. ManagerTypeOK'
    BY <2>1, <2>2 DEF ManagerTypeOK, Allowance, Onward, Rules
  <2>12. SourcesOK'
    BY <2>1, <2>2 DEF SourcesOK, Copied, Onward
  <2>13. EntryIsComplete'
    BY <2>1, <2>2 DEF EntryIsComplete, Onward, SourcesOK, Copied, ManagerTypeOK
  <2>14. (SetupOK /\ RegistrationOK /\ RemovalOK)'
    BY <2>1, <2>2 DEF SetupOK, RegistrationOK, RemovalOK, Onward, Installed, Names,
       InstallPc, RegisterPc, UninstallPc
  <2>15. (SeenOK /\ BackupOK /\ ApplyOK /\ UndoOK)'
    BY <2>1, <2>2, NoUpgrade DEF Onward, Upgrading, UpgradePc, UndoPc
  <2>16. Coherent'
    BY <2>1, <2>2 DEF Coherent, Installed, Names, Spans, Latest
  <2> QED  BY <2>11, <2>12, <2>13, <2>14, <2>15, <2>16 DEF ManagerInv
<1>8. ASSUME InstallEntry PROVE ManagerInv'
  <2>1. /\ proc.pc = "i_entry" /\ budget' \in Allowance
        /\ UNCHANGED <<unit, rule, receipt, versions, backups, registry, ram, live, active>>
        /\ \/ entry' = proc.program /\ Onward("i_enable")
           \/ entry' \in {proc.program, entry} /\ Onward("idle")
    BY <1>8, AttemptGoes DEF InstallEntry, SetEntry, Durable, disk, integration, boot,
       CommandPc, InstallPc
  <2>2. proc.program \in Version /\ proc.entries \in SUBSET Map
    BY DEF ManagerTypeOK, Proc
  <2>11. ManagerTypeOK'
    BY <2>1, <2>2 DEF ManagerTypeOK, Allowance, Onward, Program
  <2>12. SourcesOK'
    BY <2>1, <2>2 DEF SourcesOK, Copied, Onward
  <2>13. EntryIsComplete'
    BY <2>1, <2>2 DEF EntryIsComplete, Onward, SourcesOK, Copied, ManagerTypeOK
  <2>14. (SetupOK /\ RegistrationOK /\ RemovalOK)'
    BY <2>1, <2>2 DEF SetupOK, RegistrationOK, RemovalOK, Onward, Installed, Names,
       InstallPc, RegisterPc, UninstallPc
  <2>15. (SeenOK /\ BackupOK /\ ApplyOK /\ UndoOK)'
    BY <2>1, <2>2, NoUpgrade DEF Onward, Upgrading, UpgradePc, UndoPc
  <2>16. Coherent'
    BY <2>1, <2>2 DEF Coherent, Installed, Names, Spans, Latest, SetupOK, InstallPc
  <2> QED  BY <2>11, <2>12, <2>13, <2>14, <2>15, <2>16 DEF ManagerInv
<1>9. ASSUME InstallEnable PROVE ManagerInv'
  <2>1. /\ proc.pc = "i_enable" /\ budget' \in Allowance
        /\ UNCHANGED <<unit, rule, entry, receipt, versions, backups, registry, live, active>>
        /\ ram' = ram \/ ram' = [program |-> proc.program, entries |-> ram.entries \cup registry]
        /\ Onward("i_installed") \/ Onward("idle")
    BY <1>9, AttemptGoes DEF InstallEnable, Prepared, disk, integration, boot,
       CommandPc, InstallPc
  <2>2. ram' \in [program : Version \cup {NoFile}, entries : SUBSET registry]
    BY <2>1 DEF ManagerTypeOK, Proc
  <2>11. ManagerTypeOK'
    BY <2>1, <2>2 DEF ManagerTypeOK, Allowance, Onward
  <2>12. SourcesOK'
    BY <2>1, <2>2 DEF SourcesOK, Copied, Onward
  <2>13. EntryIsComplete'
    BY <2>1, <2>2 DEF EntryIsComplete, Onward, SourcesOK, Copied, ManagerTypeOK
  <2>14. (SetupOK /\ RegistrationOK /\ RemovalOK)'
    BY <2>1, <2>2 DEF SetupOK, RegistrationOK, RemovalOK, Onward, Installed, Names,
       InstallPc, RegisterPc, UninstallPc
  <2>15. (SeenOK /\ BackupOK /\ ApplyOK /\ UndoOK)'
    BY <2>1, <2>2, NoUpgrade DEF Onward, Upgrading, UpgradePc, UndoPc
  <2>16. Coherent'
    BY <2>1, <2>2 DEF Coherent, Installed, Names, Spans, Latest
  <2> QED  BY <2>11, <2>12, <2>13, <2>14, <2>15, <2>16 DEF ManagerInv
<1>10. ASSUME InstallDone PROVE ManagerInv'
  <2>1. /\ proc.pc = "i_installed" /\ budget' \in Allowance
        /\ UNCHANGED <<unit, rule, entry, versions, backups, registry, ram, live, active>>
        /\ \/ receipt' = InstallReceiptOf("installed") /\ Onward("i_activate")
           \/ receipt' \in {InstallReceiptOf("installed"), receipt} /\ Onward("idle")
    BY <1>10, AttemptGoes DEF InstallDone, SetReceipt, Durable, disk, integration, boot,
       CommandPc, InstallPc
  <2>2. /\ InstallReceiptOf("installed") \in Receipt /\ InstallReceiptOf("installed") # NoFile
        /\ InstallReceiptOf("installed").state = "installed" /\ InstallReceiptOf("installed").program = proc.program
    BY ReceiptKinds
  <2>11. ManagerTypeOK'
    BY <2>1, <2>2 DEF ManagerTypeOK, Allowance, Onward
  <2>12. SourcesOK'
    BY <2>1, <2>2 DEF SourcesOK, Copied, Onward
  <2>13. EntryIsComplete'
    BY <2>1, <2>2 DEF EntryIsComplete, Onward, SourcesOK, Copied, ManagerTypeOK
  <2>14. (SetupOK /\ RegistrationOK /\ RemovalOK)'
    BY <2>1, <2>2 DEF SetupOK, RegistrationOK, RemovalOK, Onward, Installed, Names,
       InstallPc, RegisterPc, UninstallPc
  <2>15. (SeenOK /\ BackupOK /\ ApplyOK /\ UndoOK)'
    BY <2>1, <2>2, NoUpgrade DEF Onward, Upgrading, UpgradePc, UndoPc
  <2>16. Coherent'
    BY <2>1, <2>2 DEF Coherent, Installed, Names, Spans, Latest, SetupOK, InstallPc
  <2> QED  BY <2>11, <2>12, <2>13, <2>14, <2>15, <2>16 DEF ManagerInv
<1>11. ASSUME InstallActivate PROVE ManagerInv'
  <2>1. /\ proc.pc = "i_activate" /\ budget' \in Allowance
        /\ UNCHANGED <<unit, rule, entry, receipt, versions, backups, registry, ram, live>>
        /\ active' = active \/ active' = active \cup CanStart(proc.starts)
        /\ Onward("idle")
    BY <1>11, AttemptGoes DEF InstallActivate, Activates, disk, integration, boot,
       CommandPc, InstallPc
  <2>2. active' \in SUBSET registry
    BY <2>1 DEF ManagerTypeOK, CanStart
  <2>11. ManagerTypeOK'
    BY <2>1, <2>2 DEF ManagerTypeOK, Allowance, Onward
  <2>12. SourcesOK'
    BY <2>1, <2>2 DEF SourcesOK, Copied, Onward
  <2>13. EntryIsComplete'
    BY <2>1, <2>2 DEF EntryIsComplete, Onward, SourcesOK, Copied, ManagerTypeOK
  <2>14. (SetupOK /\ RegistrationOK /\ RemovalOK)'
    BY <2>1, <2>2 DEF SetupOK, RegistrationOK, RemovalOK, Onward, Installed, Names,
       InstallPc, RegisterPc, UninstallPc
  <2>15. (SeenOK /\ BackupOK /\ ApplyOK /\ UndoOK)'
    BY <2>1, <2>2, NoUpgrade DEF Onward, Upgrading, UpgradePc, UndoPc
  <2>16. Coherent'
    BY <2>1, <2>2 DEF Coherent, Installed, Names, Spans, Latest
  <2> QED  BY <2>11, <2>12, <2>13, <2>14, <2>15, <2>16 DEF ManagerInv
<1> QED  BY <1>1, <1>2, <1>3, <1>4, <1>5, <1>6, <1>7, <1>8, <1>9, <1>10, <1>11 DEF Install

\* register().
LEMMA RegisterKeeps ==
  ASSUME ManagerInv, Register
  PROVE  ManagerInv'
<1> /\ ManagerTypeOK /\ Coherent /\ EntryIsComplete /\ SourcesOK /\ SetupOK /\ RegistrationOK
    /\ RemovalOK /\ SeenOK /\ BackupOK /\ ApplyOK /\ UndoOK
  BY DEF ManagerInv
<1>1. ASSUME RegisterBegin PROVE ManagerInv'
  <2>1. /\ UNCHANGED <<unit, rule, entry, receipt, versions, backups, registry, ram, live, active>> /\ budget' \in Allowance
        /\ proc' \in Proc /\ proc'.pc = "r_record" /\ registry \subseteq proc'.entries
    BY <1>1, RegisterTypes, SameAllowance DEF RegisterBegin, disk, integration, boot
  <2>11. ManagerTypeOK'
    BY <2>1 DEF ManagerTypeOK, Allowance, Onward
  <2>12. SourcesOK'
    BY <2>1 DEF SourcesOK, Copied, Onward
  <2>13. EntryIsComplete'
    BY <2>1 DEF EntryIsComplete, Onward, SourcesOK, Copied, ManagerTypeOK
  <2>14. (SetupOK /\ RegistrationOK /\ RemovalOK)'
    BY <2>1 DEF SetupOK, RegistrationOK, RemovalOK, Onward, Installed, Names, InstallPc,
       RegisterPc, UninstallPc
  <2>15. (SeenOK /\ BackupOK /\ ApplyOK /\ UndoOK)'
    BY <2>1, NoUpgrade DEF Onward, Upgrading, UpgradePc, UndoPc
  <2>16. Coherent'
    BY <2>1 DEF Coherent, Installed, Names, Spans, Latest
  <2> QED  BY <2>11, <2>12, <2>13, <2>14, <2>15, <2>16 DEF ManagerInv
<1>2. ASSUME RegisterRecord PROVE ManagerInv'
  <2>1. /\ proc.pc = "r_record" /\ budget' \in Allowance
        /\ UNCHANGED <<unit, rule, entry, receipt, versions, backups, ram, live, active>>
        /\ registry' \in {registry, proc.entries}
        /\ Onward("idle") \/ (Onward("r_check") /\ receipt # NoFile)
    <3>1. /\ "idle" \in CommandPc /\ "r_check" \in CommandPc
          /\ \/ Attempt("r_record", Durable(registry' = proc.entries
                                   /\ UNCHANGED <<integration, versions, backups>>), "idle", "idle")
             \/ /\ receipt # NoFile
                /\ Attempt("r_record", Durable(registry' = proc.entries
                                   /\ UNCHANGED <<integration, versions, backups>>), "r_check", "idle")
      BY <1>2 DEF RegisterRecord, CommandPc, RegisterPc
    <3>2. CASE Attempt("r_record", Durable(registry' = proc.entries
                          /\ UNCHANGED <<integration, versions, backups>>), "idle", "idle")
      BY <3>1, <3>2, AttemptGoes DEF Durable, disk, integration, boot
    <3>3. CASE /\ receipt # NoFile
               /\ Attempt("r_record", Durable(registry' = proc.entries
                            /\ UNCHANGED <<integration, versions, backups>>), "r_check", "idle")
      BY <3>1, <3>3, AttemptGoes DEF Durable, disk, integration, boot
    <3> QED  BY <3>1, <3>2, <3>3
  <2>2. /\ registry' \in SUBSET Map /\ active \in SUBSET registry'
        /\ ram \in [program : Version \cup {NoFile}, entries : SUBSET registry']
    BY <2>1 DEF ManagerTypeOK, RegistrationOK, Proc
  <2>11. ManagerTypeOK'
    BY <2>1, <2>2 DEF ManagerTypeOK, Allowance, Onward
  <2>12. SourcesOK'
    BY <2>1, <2>2 DEF SourcesOK, Copied, Onward
  <2>13. EntryIsComplete'
    BY <2>1, <2>2 DEF EntryIsComplete, Onward, SourcesOK, Copied, ManagerTypeOK
  <2>14. (SetupOK /\ RegistrationOK /\ RemovalOK)'
    BY <2>1, <2>2 DEF SetupOK, RegistrationOK, RemovalOK, Onward, Installed, Names,
       InstallPc, RegisterPc, UninstallPc
  <2>15. (SeenOK /\ BackupOK /\ ApplyOK /\ UndoOK)'
    BY <2>1, <2>2, NoUpgrade DEF Onward, Upgrading, UpgradePc, UndoPc
  <2>16. Coherent'
    BY <2>1, <2>2 DEF Coherent, Installed, Names, Spans, Latest
  <2> QED  BY <2>11, <2>12, <2>13, <2>14, <2>15, <2>16 DEF ManagerInv
<1>3. ASSUME RegisterCheck PROVE ManagerInv'
  <2>1. /\ proc.pc = "r_check" /\ budget' \in Allowance
        /\ UNCHANGED <<unit, rule, entry, receipt, versions, backups, registry, ram, live, active>>
        /\ (Onward("r_rule") /\ Installed) \/ Onward("idle")
    BY <1>3, RequireGoes DEF RegisterCheck, Installed, disk, integration, boot,
       CommandPc, RegisterPc
  <2>11. ManagerTypeOK'
    BY <2>1 DEF ManagerTypeOK, Allowance, Onward
  <2>12. SourcesOK'
    BY <2>1 DEF SourcesOK, Copied, Onward
  <2>13. EntryIsComplete'
    BY <2>1 DEF EntryIsComplete, Onward, SourcesOK, Copied, ManagerTypeOK
  <2>14. (SetupOK /\ RegistrationOK /\ RemovalOK)'
    BY <2>1 DEF SetupOK, RegistrationOK, RemovalOK, Onward, Installed, Names, InstallPc,
       RegisterPc, UninstallPc
  <2>15. (SeenOK /\ BackupOK /\ ApplyOK /\ UndoOK)'
    BY <2>1, NoUpgrade DEF Onward, Upgrading, UpgradePc, UndoPc
  <2>16. Coherent'
    BY <2>1 DEF Coherent, Installed, Names, Spans, Latest
  <2> QED  BY <2>11, <2>12, <2>13, <2>14, <2>15, <2>16 DEF ManagerInv
<1>4. ASSUME RegisterRule PROVE ManagerInv'
  <2>1. /\ proc.pc = "r_rule" /\ budget' \in Allowance
        /\ UNCHANGED <<unit, entry, receipt, versions, backups, registry, ram, live, active>>
        /\ \/ rule' = proc.entries /\ Onward("r_receipt")
           \/ rule' \in {proc.entries, rule} /\ Onward("idle")
    BY <1>4, AttemptGoes DEF RegisterRule, SetRule, Durable, disk, integration, boot,
       CommandPc, RegisterPc
  <2>2. proc.program \in Version /\ proc.entries \in SUBSET Map
    BY DEF ManagerTypeOK, Proc
  <2>11. ManagerTypeOK'
    BY <2>1, <2>2 DEF ManagerTypeOK, Allowance, Onward, Rules
  <2>12. SourcesOK'
    BY <2>1, <2>2 DEF SourcesOK, Copied, Onward
  <2>13. EntryIsComplete'
    BY <2>1, <2>2 DEF EntryIsComplete, Onward, SourcesOK, Copied, ManagerTypeOK
  <2>14. (SetupOK /\ RegistrationOK /\ RemovalOK)'
    BY <2>1, <2>2 DEF SetupOK, RegistrationOK, RemovalOK, Onward, Installed, Names,
       InstallPc, RegisterPc, UninstallPc
  <2>15. (SeenOK /\ BackupOK /\ ApplyOK /\ UndoOK)'
    BY <2>1, <2>2, NoUpgrade DEF Onward, Upgrading, UpgradePc, UndoPc
  <2>16. Coherent'
    BY <2>1, <2>2 DEF Coherent, Installed, Names, Spans, Latest
  <2> QED  BY <2>11, <2>12, <2>13, <2>14, <2>15, <2>16 DEF ManagerInv
<1>5. ASSUME RegisterReceipt PROVE ManagerInv'
  <2>1. /\ proc.pc = "r_receipt" /\ budget' \in Allowance
        /\ UNCHANGED <<unit, rule, entry, versions, backups, registry, ram, live, active>>
        /\ receipt' \in {[receipt EXCEPT !.maps = proc.entries], receipt}
        /\ Onward("r_prepare") \/ Onward("idle")
    BY <1>5, AttemptGoes DEF RegisterReceipt, SetReceipt, Durable, disk, integration,
       boot, CommandPc, RegisterPc
  <2>2. /\ Installed /\ receipt' \in Receipt
        /\ receipt'.state = receipt.state /\ receipt'.program = receipt.program
    BY <2>1 DEF ManagerTypeOK, RegistrationOK, Installed, Receipt, Proc
  <2>3. UNCHANGED <<unit, rule, entry, versions, backups, registry, ram, live, active>>
    BY <2>1
  <2>11. ManagerTypeOK'
    BY <2>1, <2>2 DEF ManagerTypeOK, Allowance, Onward
  <2>12. SourcesOK'
    BY <2>1, <2>2 DEF SourcesOK, Copied, Onward
  <2>13. EntryIsComplete'
    BY <2>1, <2>2 DEF EntryIsComplete, Onward, SourcesOK, Copied, ManagerTypeOK
  <2>14. (SetupOK /\ RegistrationOK /\ RemovalOK)'
    BY <2>1, <2>2 DEF SetupOK, RegistrationOK, RemovalOK, Onward, Installed, Names,
       InstallPc, RegisterPc, UninstallPc
  <2>15. (SeenOK /\ BackupOK /\ ApplyOK /\ UndoOK)'
    BY <2>1, <2>2, NoUpgrade DEF Onward, Upgrading, UpgradePc, UndoPc
  <2>16. Coherent'
    BY <2>1, <2>2 DEF Coherent, Installed, Names, Spans, Latest
  <2> QED  BY <2>11, <2>12, <2>13, <2>14, <2>15, <2>16 DEF ManagerInv
<1>6. ASSUME RegisterPrepare PROVE ManagerInv'
  <2>1. /\ proc.pc = "r_prepare" /\ budget' \in Allowance
        /\ UNCHANGED <<unit, rule, entry, receipt, versions, backups, registry, live, active>>
        /\ ram' = ram \/ ram' = [program |-> proc.program, entries |-> ram.entries \cup registry]
        /\ Onward("r_activate") \/ Onward("idle")
    BY <1>6, AttemptGoes, RequireGoes DEF RegisterPrepare, Prepared, disk, integration,
       boot, CommandPc, RegisterPc
  <2>2. ram' \in [program : Version \cup {NoFile}, entries : SUBSET registry]
    BY <2>1 DEF ManagerTypeOK, Proc
  <2>11. ManagerTypeOK'
    BY <2>1, <2>2 DEF ManagerTypeOK, Allowance, Onward
  <2>12. SourcesOK'
    BY <2>1, <2>2 DEF SourcesOK, Copied, Onward
  <2>13. EntryIsComplete'
    BY <2>1, <2>2 DEF EntryIsComplete, Onward, SourcesOK, Copied, ManagerTypeOK
  <2>14. (SetupOK /\ RegistrationOK /\ RemovalOK)'
    BY <2>1, <2>2 DEF SetupOK, RegistrationOK, RemovalOK, Onward, Installed, Names,
       InstallPc, RegisterPc, UninstallPc
  <2>15. (SeenOK /\ BackupOK /\ ApplyOK /\ UndoOK)'
    BY <2>1, <2>2, NoUpgrade DEF Onward, Upgrading, UpgradePc, UndoPc
  <2>16. Coherent'
    BY <2>1, <2>2 DEF Coherent, Installed, Names, Spans, Latest
  <2> QED  BY <2>11, <2>12, <2>13, <2>14, <2>15, <2>16 DEF ManagerInv
<1>7. ASSUME RegisterActivate PROVE ManagerInv'
  <2>1. /\ proc.pc = "r_activate" /\ budget' \in Allowance
        /\ UNCHANGED <<unit, rule, entry, receipt, versions, backups, registry, ram, live>>
        /\ active' = active \/ active' = active \cup CanStart(proc.starts)
        /\ Onward("idle")
    BY <1>7, AttemptGoes DEF RegisterActivate, Activates, disk, integration, boot,
       CommandPc, RegisterPc
  <2>2. active' \in SUBSET registry
    BY <2>1 DEF ManagerTypeOK, CanStart
  <2>11. ManagerTypeOK'
    BY <2>1, <2>2 DEF ManagerTypeOK, Allowance, Onward
  <2>12. SourcesOK'
    BY <2>1, <2>2 DEF SourcesOK, Copied, Onward
  <2>13. EntryIsComplete'
    BY <2>1, <2>2 DEF EntryIsComplete, Onward, SourcesOK, Copied, ManagerTypeOK
  <2>14. (SetupOK /\ RegistrationOK /\ RemovalOK)'
    BY <2>1, <2>2 DEF SetupOK, RegistrationOK, RemovalOK, Onward, Installed, Names,
       InstallPc, RegisterPc, UninstallPc
  <2>15. (SeenOK /\ BackupOK /\ ApplyOK /\ UndoOK)'
    BY <2>1, <2>2, NoUpgrade DEF Onward, Upgrading, UpgradePc, UndoPc
  <2>16. Coherent'
    BY <2>1, <2>2 DEF Coherent, Installed, Names, Spans, Latest
  <2> QED  BY <2>11, <2>12, <2>13, <2>14, <2>15, <2>16 DEF ManagerInv
<1> QED  BY <1>1, <1>2, <1>3, <1>4, <1>5, <1>6, <1>7 DEF Register

\* upgrade() until its first failure.
LEMMA ApplyKeeps ==
  ASSUME ManagerInv, \/ UpgradeBegin \/ UpgradeBackup \/ UpgradeMkdir \/ UpgradeCopy \/ UpgradeApplying
         \/ UpgradeQuiet \/ UpgradePending \/ UpgradeUnit \/ UpgradeEntry \/ UpgradeDone
         \/ UpgradeComplete
  PROVE  ManagerInv'
<1> /\ ManagerTypeOK /\ Coherent /\ EntryIsComplete /\ SourcesOK /\ SetupOK /\ RegistrationOK
    /\ RemovalOK /\ SeenOK /\ BackupOK /\ ApplyOK /\ UndoOK
  BY DEF ManagerInv
<1>1. ASSUME UpgradeBegin PROVE ManagerInv'
  <2>1. /\ Installed /\ Matches(receipt) /\ Latest < MaxUpgrades /\ budget' \in Allowance
        /\ UNCHANGED <<unit, rule, entry, receipt, versions, backups, registry, ram, live, active>>
        /\ proc' \in Proc /\ proc'.pc = "u_backup" /\ proc'.seen = Integration /\ proc'.failures = FALSE
    BY <1>1, BeginTypes, SameAllowance DEF UpgradeBegin, disk, integration, boot,
       CommandPc, UpgradePc
  <2>2. /\ Integration.receipt = receipt /\ Integration.unit = unit /\ Integration.entry = entry
        /\ Integration.rule = rule
    BY DEF Integration
  <2>3. /\ receipt # NoFile /\ receipt.state = "installed" /\ unit = receipt.program
        /\ entry = receipt.program /\ receipt.program \in Version
    BY <2>1 DEF Installed, Matches, ManagerTypeOK, Receipt
  <2>4. versions[receipt.program] = "complete"
    BY <2>3 DEF EntryIsComplete
  <2>11. ManagerTypeOK'
    BY <2>1, <2>2, <2>3, <2>4 DEF ManagerTypeOK, Allowance, Onward, Notes
  <2>12. SourcesOK'
    BY <2>1, <2>2, <2>3, <2>4 DEF SourcesOK, Copied, Onward, Notes
  <2>13. EntryIsComplete'
    BY <2>1, <2>2, <2>3, <2>4 DEF EntryIsComplete, Onward, SourcesOK, Copied,
       ManagerTypeOK
  <2>14. (SetupOK /\ RegistrationOK /\ RemovalOK)'
    BY <2>1, <2>2, <2>3, <2>4, OnlyUpgrade DEF Onward, Notes, Upgrading, UpgradePc,
       UndoPc
  <2>15. SeenOK'
    BY <2>1, <2>2, <2>3, <2>4 DEF SeenOK, Onward, Notes, Upgrading, UpgradePc, UndoPc
  <2>16. BackupOK'
    BY <2>1, <2>2, <2>3, <2>4 DEF BackupOK, Latest, Onward, Notes, Upgrading, UpgradePc,
       UndoPc
  <2>17. ApplyOK'
    BY <2>1, <2>2, <2>3, <2>4 DEF ApplyOK, Kept, Onward, Notes, Upgrading, UpgradePc,
       UndoPc
  <2>18. UndoOK'
    BY <2>1, <2>2, <2>3, <2>4 DEF UndoOK, Kept, Changed, Onward, Notes, Upgrading,
       UpgradePc, UndoPc
  <2>19. Coherent'
    BY <2>1, <2>2, <2>3, <2>4 DEF Coherent, Installed, Names, Spans, Latest
  <2> QED
    BY <2>11, <2>12, <2>13, <2>14, <2>15, <2>16, <2>17, <2>18, <2>19 DEF ManagerInv
<1>2. ASSUME UpgradeBackup PROVE ManagerInv'
  <2>1. /\ proc.pc = "u_backup" /\ budget' \in Allowance
        /\ UNCHANGED <<unit, rule, entry, receipt, versions, registry, ram, live, active>>
        /\ \/ /\ backups' = Append(backups, [state |-> "staging", old |-> proc.seen,
                                             program |-> proc.program])
              /\ Onward("u_mkdir") \/ Onward("idle")
           \/ backups' = backups /\ Onward("idle")
    BY <1>2, AttemptGoes DEF UpgradeBackup, Durable, disk, integration, boot, CommandPc,
       UpgradePc, UndoPc
  <2>2. /\ proc.seen.receipt \in Receipt /\ proc.seen.unit \in Version
        /\ Pending \in Receipt /\ Pending.state = "upgrading"
        /\ NextReceipt \in Receipt /\ NextReceipt.state = "installed"
        /\ NextReceipt.program = proc.program
    BY <2>1, UpgradeReceipts DEF Upgrading, UpgradePc, UndoPc
  <2>3. proc'.pc # "idle" => Pending' = Pending /\ NextReceipt' = NextReceipt
    BY <2>1, SameReceipts DEF Onward, Notes
  <2>4. proc.program \in Version
    BY DEF ManagerTypeOK, Proc
  <2>5. Latest < MaxUpgrades /\ Latest \in Nat
    BY <2>1 DEF BackupOK, ManagerTypeOK, Latest
  <2>6. /\ backups' \in Seq(Backup) /\ Len(backups') <= MaxUpgrades
        /\ \/ Onward("u_mkdir") /\ Len(backups') > 0 /\ backups'[Len(backups')].old = proc.seen
              /\ backups'[Len(backups')].program = proc.program
           \/ Onward("idle")
    BY <2>1, <2>5, BackupAppended DEF ManagerTypeOK, Latest
  <2>7. proc.pc = "u_backup" /\ budget' \in Allowance /\ UNCHANGED <<unit, rule, entry, receipt, versions, registry, ram, live, active>>
    BY <2>1
  <2>11. ManagerTypeOK'
    BY <2>7, <2>2, <2>3, <2>4, <2>5, <2>6 DEF ManagerTypeOK, Allowance, Onward, Notes
  <2>12. SourcesOK'
    BY <2>7, <2>2, <2>3, <2>4, <2>5, <2>6 DEF SourcesOK, Copied, Onward, Notes
  <2>13. EntryIsComplete'
    BY <2>7, <2>2, <2>3, <2>4, <2>5, <2>6 DEF EntryIsComplete, Onward, SourcesOK,
       Copied, ManagerTypeOK
  <2>14. (SetupOK /\ RegistrationOK /\ RemovalOK)'
    BY <2>7, <2>2, <2>3, <2>4, <2>5, <2>6, OnlyUpgrade DEF Onward, Notes, Upgrading,
       UpgradePc, UndoPc
  <2>15. SeenOK'
    BY <2>7, <2>2, <2>3, <2>4, <2>5, <2>6 DEF SeenOK, Onward, Notes, Upgrading,
       UpgradePc, UndoPc
  <2>16. BackupOK'
    BY <2>7, <2>2, <2>3, <2>4, <2>5, <2>6 DEF BackupOK, Latest, Onward, Notes,
       Upgrading, UpgradePc, UndoPc
  <2>17. ApplyOK'
    BY <2>7, <2>2, <2>3, <2>4, <2>5, <2>6 DEF ApplyOK, Kept, Onward, Notes, Upgrading,
       UpgradePc, UndoPc
  <2>18. UndoOK'
    BY <2>7, <2>2, <2>3, <2>4, <2>5, <2>6 DEF UndoOK, Kept, Changed, Onward, Notes,
       Upgrading, UpgradePc, UndoPc
  <2>19. Coherent'
    BY <2>7, <2>2, <2>3, <2>4, <2>5, <2>6 DEF Coherent, Installed, Names, Spans, Latest,
       ApplyOK, SeenOK, Kept, Upgrading, UpgradePc
  <2> QED
    BY <2>11, <2>12, <2>13, <2>14, <2>15, <2>16, <2>17, <2>18, <2>19 DEF ManagerInv
<1>3. ASSUME UpgradeMkdir PROVE ManagerInv'
  <2>1. /\ proc.pc = "u_mkdir" /\ budget' \in Allowance
        /\ UNCHANGED <<unit, rule, entry, receipt, backups, registry, ram, live, active>>
        /\ \/ /\ versions[proc.program] = "absent"
              /\ versions' = [versions EXCEPT ![proc.program] = "partial"]
              /\ Onward("u_copy") \/ Onward("b_verdict")
           \/ versions' = versions /\ Onward("b_verdict")
           \/ versions' = versions /\ versions[proc.program] = "complete" /\ Onward("u_applying")
    BY <1>3, SourcesGoes DEF UpgradeMkdir, disk, integration, boot, CommandPc,
       UpgradePc, UndoPc
  <2>2. /\ proc.seen.receipt \in Receipt /\ proc.seen.unit \in Version
        /\ Pending \in Receipt /\ Pending.state = "upgrading"
        /\ NextReceipt \in Receipt /\ NextReceipt.state = "installed"
        /\ NextReceipt.program = proc.program
    BY <2>1, UpgradeReceipts DEF Upgrading, UpgradePc, UndoPc
  <2>3. proc'.pc # "idle" => Pending' = Pending /\ NextReceipt' = NextReceipt
    BY <2>1, SameReceipts DEF Onward, Notes
  <2>4. proc.program \in Version
    BY DEF ManagerTypeOK, Proc
  <2>5. /\ versions' \in [Version -> {"absent", "partial", "complete"}]
        /\ \A v \in Version : versions[v] = "complete" => versions'[v] = "complete"
        /\ proc'.pc = "u_copy" => versions'[proc.program] = "partial"
        /\ proc'.pc = "u_applying" => versions'[proc.program] = "complete"
        /\ Onward("u_copy") \/ Onward("u_applying") \/ Onward("b_verdict")
    BY <2>1, VersionTypes DEF ManagerTypeOK, Onward
  <2>6. proc.pc = "u_mkdir" /\ budget' \in Allowance /\ UNCHANGED <<unit, rule, entry, receipt, backups, registry, ram, live, active>>
    BY <2>1
  <2>11. ManagerTypeOK'
    BY <2>2, <2>3, <2>4, <2>5, <2>6 DEF ManagerTypeOK, Allowance, Onward, Notes
  <2>12. SourcesOK'
    BY <2>2, <2>3, <2>4, <2>5, <2>6 DEF SourcesOK, Copied, Onward, Notes
  <2>13. EntryIsComplete'
    BY <2>2, <2>3, <2>4, <2>5, <2>6 DEF EntryIsComplete, Onward, SourcesOK, Copied,
       ManagerTypeOK
  <2>14. (SetupOK /\ RegistrationOK /\ RemovalOK)'
    BY <2>2, <2>3, <2>4, <2>5, <2>6, OnlyUpgrade DEF Onward, Notes, Upgrading,
       UpgradePc, UndoPc
  <2>15. SeenOK'
    BY <2>2, <2>3, <2>4, <2>5, <2>6 DEF SeenOK, Onward, Notes, Upgrading, UpgradePc,
       UndoPc, Receipt
  <2>16. BackupOK'
    BY <2>2, <2>3, <2>4, <2>5, <2>6 DEF BackupOK, Latest, Onward, Notes, Upgrading,
       UpgradePc, UndoPc
  <2>17. ApplyOK'
    BY <2>2, <2>3, <2>4, <2>5, <2>6 DEF ApplyOK, Kept, Onward, Notes, Upgrading,
       UpgradePc, UndoPc
  <2>18. UndoOK'
    BY <2>2, <2>3, <2>4, <2>5, <2>6 DEF UndoOK, Kept, Changed, Onward, Notes, Upgrading,
       UpgradePc, UndoPc, ApplyOK
  <2>19. Coherent'
    BY <2>2, <2>3, <2>4, <2>5, <2>6 DEF Coherent, Installed, Names, Spans, Latest
  <2> QED
    BY <2>11, <2>12, <2>13, <2>14, <2>15, <2>16, <2>17, <2>18, <2>19 DEF ManagerInv
<1>4. ASSUME UpgradeCopy PROVE ManagerInv'
  <2>1. /\ proc.pc = "u_copy" /\ budget' \in Allowance
        /\ UNCHANGED <<unit, rule, entry, receipt, backups, registry, ram, live, active>>
        /\ \/ versions' = [versions EXCEPT ![proc.program] = "complete"] /\ Onward("u_applying")
           \/ /\ versions' = [versions EXCEPT ![proc.program] = "complete"] \/ versions' = versions
              /\ Onward("b_verdict")
    BY <1>4, AttemptGoes DEF UpgradeCopy, SourcesCopy, SetVersion, Durable, disk,
       integration, boot, CommandPc, UpgradePc, UndoPc
  <2>2. /\ proc.seen.receipt \in Receipt /\ proc.seen.unit \in Version
        /\ Pending \in Receipt /\ Pending.state = "upgrading"
        /\ NextReceipt \in Receipt /\ NextReceipt.state = "installed"
        /\ NextReceipt.program = proc.program
    BY <2>1, UpgradeReceipts DEF Upgrading, UpgradePc, UndoPc
  <2>3. proc'.pc # "idle" => Pending' = Pending /\ NextReceipt' = NextReceipt
    BY <2>1, SameReceipts DEF Onward, Notes
  <2>4. proc.program \in Version
    BY DEF ManagerTypeOK, Proc
  <2>5. /\ versions' \in [Version -> {"absent", "partial", "complete"}]
        /\ \A v \in Version : versions[v] = "complete" => versions'[v] = "complete"
        /\ proc'.pc = "u_applying" => versions'[proc.program] = "complete"
        /\ Onward("u_applying") \/ Onward("b_verdict")
    BY <2>1, VersionTypes DEF ManagerTypeOK, Onward
  <2>6. proc.pc = "u_copy" /\ budget' \in Allowance /\ UNCHANGED <<unit, rule, entry, receipt, backups, registry, ram, live, active>>
    BY <2>1
  <2>11. ManagerTypeOK'
    BY <2>2, <2>3, <2>4, <2>5, <2>6 DEF ManagerTypeOK, Allowance, Onward, Notes
  <2>12. SourcesOK'
    BY <2>2, <2>3, <2>4, <2>5, <2>6 DEF SourcesOK, Copied, Onward, Notes
  <2>13. EntryIsComplete'
    BY <2>2, <2>3, <2>4, <2>5, <2>6 DEF EntryIsComplete, Onward, SourcesOK, Copied,
       ManagerTypeOK
  <2>14. (SetupOK /\ RegistrationOK /\ RemovalOK)'
    BY <2>2, <2>3, <2>4, <2>5, <2>6, OnlyUpgrade DEF Onward, Notes, Upgrading,
       UpgradePc, UndoPc
  <2>15. SeenOK'
    BY <2>2, <2>3, <2>4, <2>5, <2>6 DEF SeenOK, Onward, Notes, Upgrading, UpgradePc,
       UndoPc, Receipt
  <2>16. BackupOK'
    BY <2>2, <2>3, <2>4, <2>5, <2>6 DEF BackupOK, Latest, Onward, Notes, Upgrading,
       UpgradePc, UndoPc
  <2>17. ApplyOK'
    BY <2>2, <2>3, <2>4, <2>5, <2>6 DEF ApplyOK, Kept, Onward, Notes, Upgrading,
       UpgradePc, UndoPc
  <2>18. UndoOK'
    BY <2>2, <2>3, <2>4, <2>5, <2>6 DEF UndoOK, Kept, Changed, Onward, Notes, Upgrading,
       UpgradePc, UndoPc, ApplyOK
  <2>19. Coherent'
    BY <2>2, <2>3, <2>4, <2>5, <2>6 DEF Coherent, Installed, Names, Spans, Latest
  <2> QED
    BY <2>11, <2>12, <2>13, <2>14, <2>15, <2>16, <2>17, <2>18, <2>19 DEF ManagerInv
<1>5. ASSUME UpgradeApplying PROVE ManagerInv'
  <2>1. /\ proc.pc = "u_applying" /\ budget' \in Allowance
        /\ UNCHANGED <<unit, rule, entry, receipt, versions, registry, ram, live, active>>
        /\ Record("applying") \/ backups' = backups
        /\ (Record("applying") /\ Onward("u_quiet")) \/ Onward("b_verdict")
    BY <1>5, AttemptGoes DEF UpgradeApplying, Record, Durable, disk, integration, boot,
       CommandPc, UpgradePc, UndoPc
  <2>2. /\ proc.seen.receipt \in Receipt /\ proc.seen.unit \in Version
        /\ Pending \in Receipt /\ Pending.state = "upgrading"
        /\ NextReceipt \in Receipt /\ NextReceipt.state = "installed"
        /\ NextReceipt.program = proc.program
    BY <2>1, UpgradeReceipts DEF Upgrading, UpgradePc, UndoPc
  <2>3. proc'.pc # "idle" => Pending' = Pending /\ NextReceipt' = NextReceipt
    BY <2>1, SameReceipts DEF Onward, Notes
  <2>4. proc.program \in Version
    BY DEF ManagerTypeOK, Proc
  <2>5. Latest > 0 /\ Latest \in Nat /\ Latest <= MaxUpgrades
    BY <2>1 DEF BackupOK, Upgrading, UpgradePc, UndoPc, ManagerTypeOK, Latest
  <2>6. /\ Noted("applying") \/ backups' = backups
        /\ (Noted("applying") /\ Onward("u_quiet")) \/ Onward("b_verdict")
    BY <2>1, <2>5, RecordNotes
  <2>7. proc.pc = "u_applying" /\ budget' \in Allowance /\ UNCHANGED <<unit, rule, entry, receipt, versions, registry, ram, live, active>>
    BY <2>1
  <2>11. ManagerTypeOK'
    BY <2>2, <2>3, <2>4, <2>5, <2>6, <2>7 DEF ManagerTypeOK, Allowance, Onward, Notes,
       Noted, Latest
  <2>12. SourcesOK'
    BY <2>2, <2>3, <2>4, <2>5, <2>6, <2>7 DEF SourcesOK, Copied, Onward, Notes
  <2>13. EntryIsComplete'
    BY <2>2, <2>3, <2>4, <2>5, <2>6, <2>7 DEF EntryIsComplete, Onward, SourcesOK,
       Copied, ManagerTypeOK
  <2>14. (SetupOK /\ RegistrationOK /\ RemovalOK)'
    BY <2>2, <2>3, <2>4, <2>5, <2>6, <2>7, OnlyUpgrade DEF Onward, Notes, Upgrading,
       UpgradePc, UndoPc
  <2>15. SeenOK'
    BY <2>2, <2>3, <2>4, <2>5, <2>6, <2>7 DEF SeenOK, Onward, Notes, Upgrading,
       UpgradePc, UndoPc
  <2>16. BackupOK'
    BY <2>2, <2>3, <2>4, <2>5, <2>6, <2>7 DEF BackupOK, Latest, Onward, Notes,
       Upgrading, UpgradePc, UndoPc, Noted
  <2>17. ApplyOK'
    BY <2>2, <2>3, <2>4, <2>5, <2>6, <2>7 DEF ApplyOK, Kept, Onward, Notes, Upgrading,
       UpgradePc, UndoPc
  <2>18. UndoOK'
    BY <2>2, <2>3, <2>4, <2>5, <2>6, <2>7 DEF UndoOK, Kept, Changed, Onward, Notes,
       Upgrading, UpgradePc, UndoPc, ApplyOK, Noted
  <2>19. Coherent'
    BY <2>2, <2>3, <2>4, <2>5, <2>6, <2>7 DEF Coherent, Installed, Names, Spans, Latest,
       ApplyOK, SeenOK, Kept, Upgrading, UpgradePc
  <2> QED
    BY <2>11, <2>12, <2>13, <2>14, <2>15, <2>16, <2>17, <2>18, <2>19 DEF ManagerInv
<1>6. ASSUME UpgradeQuiet PROVE ManagerInv'
  <2>1. /\ proc.pc = "u_quiet" /\ budget' \in Allowance
        /\ UNCHANGED <<unit, rule, entry, receipt, versions, backups, registry, ram, live, active>>
        /\ Onward("u_pending") \/ Onward("b_verdict")
    BY <1>6, RequireGoes DEF UpgradeQuiet, Quiescent, disk, integration, boot,
       CommandPc, UpgradePc, UndoPc
  <2>2. /\ proc.seen.receipt \in Receipt /\ proc.seen.unit \in Version
        /\ Pending \in Receipt /\ Pending.state = "upgrading"
        /\ NextReceipt \in Receipt /\ NextReceipt.state = "installed"
        /\ NextReceipt.program = proc.program
    BY <2>1, UpgradeReceipts DEF Upgrading, UpgradePc, UndoPc
  <2>3. proc'.pc # "idle" => Pending' = Pending /\ NextReceipt' = NextReceipt
    BY <2>1, SameReceipts DEF Onward, Notes
  <2>4. proc.program \in Version
    BY DEF ManagerTypeOK, Proc
  <2>11. ManagerTypeOK'
    BY <2>1, <2>2, <2>3, <2>4 DEF ManagerTypeOK, Allowance, Onward, Notes
  <2>12. SourcesOK'
    BY <2>1, <2>2, <2>3, <2>4 DEF SourcesOK, Copied, Onward, Notes
  <2>13. EntryIsComplete'
    BY <2>1, <2>2, <2>3, <2>4 DEF EntryIsComplete, Onward, SourcesOK, Copied,
       ManagerTypeOK
  <2>14. (SetupOK /\ RegistrationOK /\ RemovalOK)'
    BY <2>1, <2>2, <2>3, <2>4, OnlyUpgrade DEF Onward, Notes, Upgrading, UpgradePc,
       UndoPc
  <2>15. SeenOK'
    BY <2>1, <2>2, <2>3, <2>4 DEF SeenOK, Onward, Notes, Upgrading, UpgradePc, UndoPc
  <2>16. BackupOK'
    BY <2>1, <2>2, <2>3, <2>4 DEF BackupOK, Latest, Onward, Notes, Upgrading, UpgradePc,
       UndoPc
  <2>17. ApplyOK'
    BY <2>1, <2>2, <2>3, <2>4 DEF ApplyOK, Kept, Onward, Notes, Upgrading, UpgradePc,
       UndoPc
  <2>18. UndoOK'
    BY <2>1, <2>2, <2>3, <2>4 DEF UndoOK, Kept, Changed, Onward, Notes, Upgrading,
       UpgradePc, UndoPc, ApplyOK
  <2>19. Coherent'
    BY <2>1, <2>2, <2>3, <2>4 DEF Coherent, Installed, Names, Spans, Latest
  <2> QED
    BY <2>11, <2>12, <2>13, <2>14, <2>15, <2>16, <2>17, <2>18, <2>19 DEF ManagerInv
<1>7. ASSUME UpgradePending PROVE ManagerInv'
  <2>1. /\ proc.pc = "u_pending" /\ budget' \in Allowance
        /\ UNCHANGED <<unit, rule, entry, versions, backups, registry, ram, live, active>>
        /\ \/ receipt' = Pending /\ Onward("u_unit")
           \/ receipt' \in {Pending, receipt} /\ Onward("b_unit")
    BY <1>7, AttemptGoes DEF UpgradePending, SetReceipt, Durable, disk, integration,
       boot, CommandPc, UpgradePc, UndoPc
  <2>2. /\ proc.seen.receipt \in Receipt /\ proc.seen.unit \in Version
        /\ Pending \in Receipt /\ Pending.state = "upgrading"
        /\ NextReceipt \in Receipt /\ NextReceipt.state = "installed"
        /\ NextReceipt.program = proc.program
    BY <2>1, UpgradeReceipts DEF Upgrading, UpgradePc, UndoPc
  <2>3. proc'.pc # "idle" => Pending' = Pending /\ NextReceipt' = NextReceipt
    BY <2>1, SameReceipts DEF Onward, Notes
  <2>4. proc.program \in Version
    BY DEF ManagerTypeOK, Proc
  <2>11. ManagerTypeOK'
    BY <2>1, <2>2, <2>3, <2>4 DEF ManagerTypeOK, Allowance, Onward, Notes
  <2>12. SourcesOK'
    BY <2>1, <2>2, <2>3, <2>4 DEF SourcesOK, Copied, Onward, Notes
  <2>13. EntryIsComplete'
    BY <2>1, <2>2, <2>3, <2>4 DEF EntryIsComplete, Onward, SourcesOK, Copied,
       ManagerTypeOK
  <2>14. (SetupOK /\ RegistrationOK /\ RemovalOK)'
    BY <2>1, <2>2, <2>3, <2>4, OnlyUpgrade DEF Onward, Notes, Upgrading, UpgradePc,
       UndoPc
  <2>15. SeenOK'
    BY <2>1, <2>2, <2>3, <2>4 DEF SeenOK, Onward, Notes, Upgrading, UpgradePc, UndoPc
  <2>16. BackupOK'
    BY <2>1, <2>2, <2>3, <2>4 DEF BackupOK, Latest, Onward, Notes, Upgrading, UpgradePc,
       UndoPc
  <2>17. ApplyOK'
    BY <2>1, <2>2, <2>3, <2>4 DEF ApplyOK, Kept, Onward, Notes, Upgrading, UpgradePc,
       UndoPc
  <2>18. UndoOK'
    BY <2>1, <2>2, <2>3, <2>4 DEF UndoOK, Kept, Changed, Onward, Notes, Upgrading,
       UpgradePc, UndoPc, ApplyOK
  <2>19. Coherent'
    BY <2>1, <2>2, <2>3, <2>4 DEF Coherent, Installed, Names, Spans, Latest, ApplyOK,
       SeenOK, Kept, Upgrading, UpgradePc, BackupOK
  <2> QED
    BY <2>11, <2>12, <2>13, <2>14, <2>15, <2>16, <2>17, <2>18, <2>19 DEF ManagerInv
<1>8. ASSUME UpgradeUnit PROVE ManagerInv'
  <2>1. /\ proc.pc = "u_unit" /\ budget' \in Allowance
        /\ UNCHANGED <<rule, entry, receipt, versions, backups, registry, ram, live, active>>
        /\ \/ unit' = proc.program /\ Onward("u_entry")
           \/ unit' = unit /\ proc.program = proc.seen.unit /\ Onward("u_entry")
           \/ unit' \in {proc.program, unit} /\ Onward("b_unit")
    BY <1>8, AttemptGoes, RequireGoes DEF UpgradeUnit, SetUnit, Durable, disk,
       integration, boot, CommandPc, UpgradePc, UndoPc
  <2>2. /\ proc.seen.receipt \in Receipt /\ proc.seen.unit \in Version
        /\ Pending \in Receipt /\ Pending.state = "upgrading"
        /\ NextReceipt \in Receipt /\ NextReceipt.state = "installed"
        /\ NextReceipt.program = proc.program
    BY <2>1, UpgradeReceipts DEF Upgrading, UpgradePc, UndoPc
  <2>3. proc'.pc # "idle" => Pending' = Pending /\ NextReceipt' = NextReceipt
    BY <2>1, SameReceipts DEF Onward, Notes
  <2>4. proc.program \in Version
    BY DEF ManagerTypeOK, Proc
  <2>11. ManagerTypeOK'
    BY <2>1, <2>2, <2>3, <2>4 DEF ManagerTypeOK, Allowance, Onward, Notes, Program
  <2>12. SourcesOK'
    BY <2>1, <2>2, <2>3, <2>4 DEF SourcesOK, Copied, Onward, Notes
  <2>13. EntryIsComplete'
    BY <2>1, <2>2, <2>3, <2>4 DEF EntryIsComplete, Onward, SourcesOK, Copied,
       ManagerTypeOK
  <2>14. (SetupOK /\ RegistrationOK /\ RemovalOK)'
    BY <2>1, <2>2, <2>3, <2>4, OnlyUpgrade DEF Onward, Notes, Upgrading, UpgradePc,
       UndoPc
  <2>15. SeenOK'
    BY <2>1, <2>2, <2>3, <2>4 DEF SeenOK, Onward, Notes, Upgrading, UpgradePc, UndoPc
  <2>16. BackupOK'
    BY <2>1, <2>2, <2>3, <2>4 DEF BackupOK, Latest, Onward, Notes, Upgrading, UpgradePc,
       UndoPc
  <2>17. ApplyOK'
    BY <2>1, <2>2, <2>3, <2>4 DEF ApplyOK, Kept, Onward, Notes, Upgrading, UpgradePc,
       UndoPc
  <2>18. UndoOK'
    BY <2>1, <2>2, <2>3, <2>4 DEF UndoOK, Kept, Changed, Onward, Notes, Upgrading,
       UpgradePc, UndoPc, ApplyOK
  <2>19. Coherent'
    BY <2>1, <2>2, <2>3, <2>4 DEF Coherent, Installed, Names, Spans, Latest, ApplyOK
  <2> QED
    BY <2>11, <2>12, <2>13, <2>14, <2>15, <2>16, <2>17, <2>18, <2>19 DEF ManagerInv
<1>9. ASSUME UpgradeEntry PROVE ManagerInv'
  <2>1. /\ proc.pc = "u_entry" /\ budget' \in Allowance
        /\ UNCHANGED <<unit, rule, receipt, versions, backups, registry, ram, live, active>>
        /\ \/ entry' = proc.program /\ Onward("u_installed")
           \/ entry' \in {proc.program, entry} /\ Onward("b_unit")
    BY <1>9, AttemptGoes DEF UpgradeEntry, SetEntry, Durable, disk, integration, boot,
       CommandPc, UpgradePc, UndoPc
  <2>2. /\ proc.seen.receipt \in Receipt /\ proc.seen.unit \in Version
        /\ Pending \in Receipt /\ Pending.state = "upgrading"
        /\ NextReceipt \in Receipt /\ NextReceipt.state = "installed"
        /\ NextReceipt.program = proc.program
    BY <2>1, UpgradeReceipts DEF Upgrading, UpgradePc, UndoPc
  <2>3. proc'.pc # "idle" => Pending' = Pending /\ NextReceipt' = NextReceipt
    BY <2>1, SameReceipts DEF Onward, Notes
  <2>4. proc.program \in Version
    BY DEF ManagerTypeOK, Proc
  <2>11. ManagerTypeOK'
    BY <2>1, <2>2, <2>3, <2>4 DEF ManagerTypeOK, Allowance, Onward, Notes, Program
  <2>12. SourcesOK'
    BY <2>1, <2>2, <2>3, <2>4 DEF SourcesOK, Copied, Onward, Notes
  <2>13. EntryIsComplete'
    BY <2>1, <2>2, <2>3, <2>4 DEF EntryIsComplete, Onward, SourcesOK, Copied,
       ManagerTypeOK
  <2>14. (SetupOK /\ RegistrationOK /\ RemovalOK)'
    BY <2>1, <2>2, <2>3, <2>4, OnlyUpgrade DEF Onward, Notes, Upgrading, UpgradePc,
       UndoPc
  <2>15. SeenOK'
    BY <2>1, <2>2, <2>3, <2>4 DEF SeenOK, Onward, Notes, Upgrading, UpgradePc, UndoPc
  <2>16. BackupOK'
    BY <2>1, <2>2, <2>3, <2>4 DEF BackupOK, Latest, Onward, Notes, Upgrading, UpgradePc,
       UndoPc
  <2>17. ApplyOK'
    BY <2>1, <2>2, <2>3, <2>4 DEF ApplyOK, Kept, Onward, Notes, Upgrading, UpgradePc,
       UndoPc
  <2>18. UndoOK'
    BY <2>1, <2>2, <2>3, <2>4 DEF UndoOK, Kept, Changed, Onward, Notes, Upgrading,
       UpgradePc, UndoPc, ApplyOK
  <2>19. Coherent'
    BY <2>1, <2>2, <2>3, <2>4 DEF Coherent, Installed, Names, Spans, Latest, ApplyOK
  <2> QED
    BY <2>11, <2>12, <2>13, <2>14, <2>15, <2>16, <2>17, <2>18, <2>19 DEF ManagerInv
<1>10. ASSUME UpgradeDone PROVE ManagerInv'
  <2>1. /\ proc.pc = "u_installed" /\ budget' \in Allowance
        /\ UNCHANGED <<unit, rule, entry, versions, backups, registry, ram, live, active>>
        /\ \/ receipt' = NextReceipt /\ Onward("u_complete")
           \/ receipt' \in {NextReceipt, receipt} /\ Onward("b_unit")
    BY <1>10, AttemptGoes DEF UpgradeDone, SetReceipt, Durable, disk, integration, boot,
       CommandPc, UpgradePc, UndoPc
  <2>2. /\ proc.seen.receipt \in Receipt /\ proc.seen.unit \in Version
        /\ Pending \in Receipt /\ Pending.state = "upgrading"
        /\ NextReceipt \in Receipt /\ NextReceipt.state = "installed"
        /\ NextReceipt.program = proc.program
    BY <2>1, UpgradeReceipts DEF Upgrading, UpgradePc, UndoPc
  <2>3. proc'.pc # "idle" => Pending' = Pending /\ NextReceipt' = NextReceipt
    BY <2>1, SameReceipts DEF Onward, Notes
  <2>4. proc.program \in Version
    BY DEF ManagerTypeOK, Proc
  <2>11. ManagerTypeOK'
    BY <2>1, <2>2, <2>3, <2>4 DEF ManagerTypeOK, Allowance, Onward, Notes
  <2>12. SourcesOK'
    BY <2>1, <2>2, <2>3, <2>4 DEF SourcesOK, Copied, Onward, Notes
  <2>13. EntryIsComplete'
    BY <2>1, <2>2, <2>3, <2>4 DEF EntryIsComplete, Onward, SourcesOK, Copied,
       ManagerTypeOK
  <2>14. (SetupOK /\ RegistrationOK /\ RemovalOK)'
    BY <2>1, <2>2, <2>3, <2>4, OnlyUpgrade DEF Onward, Notes, Upgrading, UpgradePc,
       UndoPc
  <2>15. SeenOK'
    BY <2>1, <2>2, <2>3, <2>4 DEF SeenOK, Onward, Notes, Upgrading, UpgradePc, UndoPc
  <2>16. BackupOK'
    BY <2>1, <2>2, <2>3, <2>4 DEF BackupOK, Latest, Onward, Notes, Upgrading, UpgradePc,
       UndoPc
  <2>17. ApplyOK'
    BY <2>1, <2>2, <2>3, <2>4 DEF ApplyOK, Kept, Onward, Notes, Upgrading, UpgradePc,
       UndoPc
  <2>18. UndoOK'
    BY <2>1, <2>2, <2>3, <2>4 DEF UndoOK, Kept, Changed, Onward, Notes, Upgrading,
       UpgradePc, UndoPc, ApplyOK
  <2>19. Coherent'
    BY <2>1, <2>2, <2>3, <2>4 DEF Coherent, Installed, Names, Spans, Latest, ApplyOK,
       Kept
  <2> QED
    BY <2>11, <2>12, <2>13, <2>14, <2>15, <2>16, <2>17, <2>18, <2>19 DEF ManagerInv
<1>11. ASSUME UpgradeComplete PROVE ManagerInv'
  <2>1. /\ proc.pc = "u_complete" /\ budget' \in Allowance
        /\ UNCHANGED <<unit, rule, entry, receipt, versions, registry, ram, live, active>>
        /\ Record("complete") \/ backups' = backups
        /\ (Record("complete") /\ Onward("idle")) \/ Onward("b_unit")
    BY <1>11, AttemptGoes DEF UpgradeComplete, Record, Durable, disk, integration, boot,
       CommandPc, UpgradePc, UndoPc
  <2>2. /\ proc.seen.receipt \in Receipt /\ proc.seen.unit \in Version
        /\ Pending \in Receipt /\ Pending.state = "upgrading"
        /\ NextReceipt \in Receipt /\ NextReceipt.state = "installed"
        /\ NextReceipt.program = proc.program
    BY <2>1, UpgradeReceipts DEF Upgrading, UpgradePc, UndoPc
  <2>3. proc'.pc # "idle" => Pending' = Pending /\ NextReceipt' = NextReceipt
    BY <2>1, SameReceipts DEF Onward, Notes
  <2>4. proc.program \in Version
    BY DEF ManagerTypeOK, Proc
  <2>5. Latest > 0 /\ Latest \in Nat /\ Latest <= MaxUpgrades
    BY <2>1 DEF BackupOK, Upgrading, UpgradePc, UndoPc, ManagerTypeOK, Latest
  <2>6. /\ Noted("complete") \/ backups' = backups
        /\ (Noted("complete") /\ Onward("idle")) \/ Onward("b_unit")
    BY <2>1, <2>5, RecordNotes
  <2>7. proc.pc = "u_complete" /\ budget' \in Allowance /\ UNCHANGED <<unit, rule, entry, receipt, versions, registry, ram, live, active>>
    BY <2>1
  <2>11. ManagerTypeOK'
    BY <2>2, <2>3, <2>4, <2>5, <2>6, <2>7 DEF ManagerTypeOK, Allowance, Onward, Notes,
       Noted, Latest
  <2>12. SourcesOK'
    BY <2>2, <2>3, <2>4, <2>5, <2>6, <2>7 DEF SourcesOK, Copied, Onward, Notes
  <2>13. EntryIsComplete'
    BY <2>2, <2>3, <2>4, <2>5, <2>6, <2>7 DEF EntryIsComplete, Onward, SourcesOK,
       Copied, ManagerTypeOK
  <2>14. (SetupOK /\ RegistrationOK /\ RemovalOK)'
    BY <2>2, <2>3, <2>4, <2>5, <2>6, <2>7, OnlyUpgrade DEF Onward, Notes, Upgrading,
       UpgradePc, UndoPc
  <2>15. SeenOK'
    BY <2>2, <2>3, <2>4, <2>5, <2>6, <2>7 DEF SeenOK, Onward, Notes, Upgrading,
       UpgradePc, UndoPc
  <2>16. BackupOK'
    BY <2>2, <2>3, <2>4, <2>5, <2>6, <2>7 DEF BackupOK, Latest, Onward, Notes,
       Upgrading, UpgradePc, UndoPc, Noted
  <2>17. ApplyOK'
    BY <2>2, <2>3, <2>4, <2>5, <2>6, <2>7 DEF ApplyOK, Kept, Onward, Notes, Upgrading,
       UpgradePc, UndoPc
  <2>18. UndoOK'
    BY <2>2, <2>3, <2>4, <2>5, <2>6, <2>7 DEF UndoOK, Kept, Changed, Onward, Notes,
       Upgrading, UpgradePc, UndoPc, ApplyOK, Noted
  <2>19. Coherent'
    BY <2>2, <2>3, <2>4, <2>5, <2>6, <2>7 DEF Coherent, Installed, Names, Spans, Latest,
       ApplyOK, Kept
  <2> QED
    BY <2>11, <2>12, <2>13, <2>14, <2>15, <2>16, <2>17, <2>18, <2>19 DEF ManagerInv
<1> QED  BY <1>1, <1>2, <1>3, <1>4, <1>5, <1>6, <1>7, <1>8, <1>9, <1>10, <1>11

\* The rollback of upgrade().
LEMMA UndoKeeps ==
  ASSUME ManagerInv, \/ UndoUnit \/ UndoRule \/ UndoEntry \/ UndoReload \/ UndoReceipt \/ UndoVerdict
  PROVE  ManagerInv'
<1> /\ ManagerTypeOK /\ Coherent /\ EntryIsComplete /\ SourcesOK /\ SetupOK /\ RegistrationOK
    /\ RemovalOK /\ SeenOK /\ BackupOK /\ ApplyOK /\ UndoOK
  BY DEF ManagerInv
<1>1. ASSUME UndoUnit PROVE ManagerInv'
  <2>1. /\ proc.pc = "b_unit" /\ budget' \in Allowance
        /\ UNCHANGED <<rule, entry, receipt, versions, backups, registry, ram, live, active>>
        /\ \/ (unit \in {proc.seen.unit, proc.program}) /\ unit' = proc.seen.unit /\ Onward("b_rule")
           \/ unit' \in {proc.seen.unit, unit} /\ Notes("b_rule")
    <3>1. /\ proc.pc = "b_unit" /\ "b_rule" \in UndoPc /\ "b_rule" \in CommandPc
          /\ \/ (unit \in {proc.seen.unit, proc.program}) /\ SetUnit(proc.seen.unit) /\ Goto("b_rule") /\ UNCHANGED budget
             \/ /\ (Fault /\ (SetUnit(proc.seen.unit) \/ UNCHANGED <<disk, boot>>)) \/ UNCHANGED <<disk, boot, budget>>
                /\ proc' = [proc EXCEPT !.pc = "b_rule", !.failures = TRUE]
      BY <1>1 DEF UndoUnit, Undo, At, UndoPc, CommandPc
    <3>2. (Goto("b_rule") => Onward("b_rule")) /\ budget' \in Allowance
      BY <3>1, GoOn, FaultSpends, SameAllowance
    <3>3. proc' = [proc EXCEPT !.pc = "b_rule", !.failures = TRUE] => Notes("b_rule")
      BY <3>1, NoteGoes
    <3> QED  BY <3>1, <3>2, <3>3 DEF SetUnit, Durable, disk, integration, boot
  <2>2. /\ proc.seen.receipt \in Receipt /\ proc.seen.unit \in Version
        /\ Pending \in Receipt /\ Pending.state = "upgrading"
        /\ NextReceipt \in Receipt /\ NextReceipt.state = "installed"
        /\ NextReceipt.program = proc.program
    BY <2>1, UpgradeReceipts DEF Upgrading, UpgradePc, UndoPc
  <2>3. proc'.pc # "idle" => Pending' = Pending /\ NextReceipt' = NextReceipt
    BY <2>1, SameReceipts DEF Onward, Notes
  <2>4. proc.program \in Version
    BY DEF ManagerTypeOK, Proc
  <2>11. ManagerTypeOK'
    BY <2>1, <2>2, <2>3, <2>4 DEF ManagerTypeOK, Allowance, Onward, Notes, Program
  <2>12. SourcesOK'
    BY <2>1, <2>2, <2>3, <2>4 DEF SourcesOK, Copied, Onward, Notes, SeenOK, Upgrading,
       UndoPc
  <2>13. EntryIsComplete'
    BY <2>1, <2>2, <2>3, <2>4 DEF EntryIsComplete, Onward, SourcesOK, Copied,
       ManagerTypeOK, SeenOK, Upgrading, UndoPc
  <2>14. (SetupOK /\ RegistrationOK /\ RemovalOK)'
    BY <2>1, <2>2, <2>3, <2>4, OnlyUpgrade DEF Onward, Notes, Upgrading, UpgradePc,
       UndoPc
  <2>15. SeenOK'
    BY <2>1, <2>2, <2>3, <2>4 DEF SeenOK, Onward, Notes, Upgrading, UpgradePc, UndoPc
  <2>16. BackupOK'
    BY <2>1, <2>2, <2>3, <2>4 DEF BackupOK, Latest, Onward, Notes, Upgrading, UpgradePc,
       UndoPc
  <2>17. ApplyOK'
    BY <2>1, <2>2, <2>3, <2>4 DEF ApplyOK, Kept, Onward, Notes, Upgrading, UpgradePc,
       UndoPc
  <2>18. UndoOK'
    BY <2>1, <2>2, <2>3, <2>4 DEF UndoOK, Kept, Changed, Onward, Notes, Upgrading,
       UpgradePc, UndoPc
  <2>19. Coherent'
    BY <2>1, <2>2, <2>3, <2>4 DEF Coherent, Installed, Names, Spans, Latest, UndoOK,
       BackupOK, SeenOK, Changed, Upgrading, UndoPc
  <2> QED
    BY <2>11, <2>12, <2>13, <2>14, <2>15, <2>16, <2>17, <2>18, <2>19 DEF ManagerInv
<1>2. ASSUME UndoRule PROVE ManagerInv'
  <2>1. /\ proc.pc = "b_rule" /\ budget' \in Allowance
        /\ UNCHANGED <<unit, entry, receipt, versions, backups, registry, ram, live, active>>
        /\ \/ (rule = proc.seen.rule) /\ rule' = proc.seen.rule /\ Onward("b_entry")
           \/ rule' \in {proc.seen.rule, rule} /\ Notes("b_entry")
    <3>1. /\ proc.pc = "b_rule" /\ "b_entry" \in UndoPc /\ "b_entry" \in CommandPc
          /\ \/ (rule = proc.seen.rule) /\ SetRule(proc.seen.rule) /\ Goto("b_entry") /\ UNCHANGED budget
             \/ /\ (Fault /\ (SetRule(proc.seen.rule) \/ UNCHANGED <<disk, boot>>)) \/ UNCHANGED <<disk, boot, budget>>
                /\ proc' = [proc EXCEPT !.pc = "b_entry", !.failures = TRUE]
      BY <1>2 DEF UndoRule, Undo, At, UndoPc, CommandPc
    <3>2. (Goto("b_entry") => Onward("b_entry")) /\ budget' \in Allowance
      BY <3>1, GoOn, FaultSpends, SameAllowance
    <3>3. proc' = [proc EXCEPT !.pc = "b_entry", !.failures = TRUE] => Notes("b_entry")
      BY <3>1, NoteGoes
    <3> QED  BY <3>1, <3>2, <3>3 DEF SetRule, Durable, disk, integration, boot
  <2>2. /\ proc.seen.receipt \in Receipt /\ proc.seen.unit \in Version
        /\ Pending \in Receipt /\ Pending.state = "upgrading"
        /\ NextReceipt \in Receipt /\ NextReceipt.state = "installed"
        /\ NextReceipt.program = proc.program
    BY <2>1, UpgradeReceipts DEF Upgrading, UpgradePc, UndoPc
  <2>3. proc'.pc # "idle" => Pending' = Pending /\ NextReceipt' = NextReceipt
    BY <2>1, SameReceipts DEF Onward, Notes
  <2>4. proc.program \in Version
    BY DEF ManagerTypeOK, Proc
  <2>5. proc.seen.rule \in Rules
    BY DEF ManagerTypeOK, Proc, Files
  <2>11. ManagerTypeOK'
    BY <2>1, <2>2, <2>3, <2>4, <2>5 DEF ManagerTypeOK, Allowance, Onward, Notes
  <2>12. SourcesOK'
    BY <2>1, <2>2, <2>3, <2>4, <2>5 DEF SourcesOK, Copied, Onward, Notes
  <2>13. EntryIsComplete'
    BY <2>1, <2>2, <2>3, <2>4, <2>5 DEF EntryIsComplete, Onward, SourcesOK, Copied,
       ManagerTypeOK
  <2>14. (SetupOK /\ RegistrationOK /\ RemovalOK)'
    BY <2>1, <2>2, <2>3, <2>4, <2>5, OnlyUpgrade DEF Onward, Notes, Upgrading,
       UpgradePc, UndoPc
  <2>15. SeenOK'
    BY <2>1, <2>2, <2>3, <2>4, <2>5 DEF SeenOK, Onward, Notes, Upgrading, UpgradePc,
       UndoPc
  <2>16. BackupOK'
    BY <2>1, <2>2, <2>3, <2>4, <2>5 DEF BackupOK, Latest, Onward, Notes, Upgrading,
       UpgradePc, UndoPc
  <2>17. ApplyOK'
    BY <2>1, <2>2, <2>3, <2>4, <2>5 DEF ApplyOK, Kept, Onward, Notes, Upgrading,
       UpgradePc, UndoPc
  <2>18. UndoOK'
    BY <2>1, <2>2, <2>3, <2>4, <2>5 DEF UndoOK, Kept, Changed, Onward, Notes, Upgrading,
       UpgradePc, UndoPc
  <2>19. Coherent'
    BY <2>1, <2>2, <2>3, <2>4, <2>5 DEF Coherent, Installed, Names, Spans, Latest
  <2> QED
    BY <2>11, <2>12, <2>13, <2>14, <2>15, <2>16, <2>17, <2>18, <2>19 DEF ManagerInv
<1>3. ASSUME UndoEntry PROVE ManagerInv'
  <2>1. /\ proc.pc = "b_entry" /\ budget' \in Allowance
        /\ UNCHANGED <<unit, rule, receipt, versions, backups, registry, ram, live, active>>
        /\ \/ (entry \in {proc.seen.entry, proc.program}) /\ entry' = proc.seen.entry /\ Onward("b_reload")
           \/ entry' \in {proc.seen.entry, entry} /\ Notes("b_reload")
    <3>1. /\ proc.pc = "b_entry" /\ "b_reload" \in UndoPc /\ "b_reload" \in CommandPc
          /\ \/ (entry \in {proc.seen.entry, proc.program}) /\ SetEntry(proc.seen.entry) /\ Goto("b_reload") /\ UNCHANGED budget
             \/ /\ (Fault /\ (SetEntry(proc.seen.entry) \/ UNCHANGED <<disk, boot>>)) \/ UNCHANGED <<disk, boot, budget>>
                /\ proc' = [proc EXCEPT !.pc = "b_reload", !.failures = TRUE]
      BY <1>3 DEF UndoEntry, Undo, At, UndoPc, CommandPc
    <3>2. (Goto("b_reload") => Onward("b_reload")) /\ budget' \in Allowance
      BY <3>1, GoOn, FaultSpends, SameAllowance
    <3>3. proc' = [proc EXCEPT !.pc = "b_reload", !.failures = TRUE] => Notes("b_reload")
      BY <3>1, NoteGoes
    <3> QED  BY <3>1, <3>2, <3>3 DEF SetEntry, Durable, disk, integration, boot
  <2>2. /\ proc.seen.receipt \in Receipt /\ proc.seen.unit \in Version
        /\ Pending \in Receipt /\ Pending.state = "upgrading"
        /\ NextReceipt \in Receipt /\ NextReceipt.state = "installed"
        /\ NextReceipt.program = proc.program
    BY <2>1, UpgradeReceipts DEF Upgrading, UpgradePc, UndoPc
  <2>3. proc'.pc # "idle" => Pending' = Pending /\ NextReceipt' = NextReceipt
    BY <2>1, SameReceipts DEF Onward, Notes
  <2>4. proc.program \in Version
    BY DEF ManagerTypeOK, Proc
  <2>5. proc.seen.entry = proc.seen.unit
    BY <2>1 DEF SeenOK, Upgrading, UndoPc
  <2>11. ManagerTypeOK'
    BY <2>1, <2>2, <2>3, <2>4, <2>5 DEF ManagerTypeOK, Allowance, Onward, Notes, Program
  <2>12. SourcesOK'
    BY <2>1, <2>2, <2>3, <2>4, <2>5 DEF SourcesOK, Copied, Onward, Notes, SeenOK,
       Upgrading, UndoPc
  <2>13. EntryIsComplete'
    BY <2>1, <2>2, <2>3, <2>4, <2>5 DEF EntryIsComplete, Onward, SourcesOK, Copied,
       ManagerTypeOK, SeenOK, Upgrading, UndoPc
  <2>14. (SetupOK /\ RegistrationOK /\ RemovalOK)'
    BY <2>1, <2>2, <2>3, <2>4, <2>5, OnlyUpgrade DEF Onward, Notes, Upgrading,
       UpgradePc, UndoPc
  <2>15. SeenOK'
    BY <2>1, <2>2, <2>3, <2>4, <2>5 DEF SeenOK, Onward, Notes, Upgrading, UpgradePc,
       UndoPc
  <2>16. BackupOK'
    BY <2>1, <2>2, <2>3, <2>4, <2>5 DEF BackupOK, Latest, Onward, Notes, Upgrading,
       UpgradePc, UndoPc
  <2>17. ApplyOK'
    BY <2>1, <2>2, <2>3, <2>4, <2>5 DEF ApplyOK, Kept, Onward, Notes, Upgrading,
       UpgradePc, UndoPc
  <2>18. UndoOK'
    BY <2>1, <2>2, <2>3, <2>4, <2>5 DEF UndoOK, Kept, Changed, Onward, Notes, Upgrading,
       UpgradePc, UndoPc
  <2>19. Coherent'
    BY <2>1, <2>2, <2>3, <2>4, <2>5 DEF Coherent, Installed, Names, Spans, Latest,
       UndoOK, BackupOK, SeenOK, Changed, Upgrading, UndoPc
  <2> QED
    BY <2>11, <2>12, <2>13, <2>14, <2>15, <2>16, <2>17, <2>18, <2>19 DEF ManagerInv
<1>4. ASSUME UndoReload PROVE ManagerInv'
  <2>1. /\ proc.pc = "b_reload" /\ budget' \in Allowance
        /\ UNCHANGED <<unit, rule, entry, receipt, versions, backups, registry, ram, live, active>>
        /\ Onward("b_receipt") \/ Notes("b_receipt")
    BY <1>4, UndoGoes DEF UndoReload, disk, integration, boot, UndoPc
  <2>2. /\ proc.seen.receipt \in Receipt /\ proc.seen.unit \in Version
        /\ Pending \in Receipt /\ Pending.state = "upgrading"
        /\ NextReceipt \in Receipt /\ NextReceipt.state = "installed"
        /\ NextReceipt.program = proc.program
    BY <2>1, UpgradeReceipts DEF Upgrading, UpgradePc, UndoPc
  <2>3. proc'.pc # "idle" => Pending' = Pending /\ NextReceipt' = NextReceipt
    BY <2>1, SameReceipts DEF Onward, Notes
  <2>4. proc.program \in Version
    BY DEF ManagerTypeOK, Proc
  <2>11. ManagerTypeOK'
    BY <2>1, <2>2, <2>3, <2>4 DEF ManagerTypeOK, Allowance, Onward, Notes
  <2>12. SourcesOK'
    BY <2>1, <2>2, <2>3, <2>4 DEF SourcesOK, Copied, Onward, Notes
  <2>13. EntryIsComplete'
    BY <2>1, <2>2, <2>3, <2>4 DEF EntryIsComplete, Onward, SourcesOK, Copied,
       ManagerTypeOK
  <2>14. (SetupOK /\ RegistrationOK /\ RemovalOK)'
    BY <2>1, <2>2, <2>3, <2>4, OnlyUpgrade DEF Onward, Notes, Upgrading, UpgradePc,
       UndoPc
  <2>15. SeenOK'
    BY <2>1, <2>2, <2>3, <2>4 DEF SeenOK, Onward, Notes, Upgrading, UpgradePc, UndoPc
  <2>16. BackupOK'
    BY <2>1, <2>2, <2>3, <2>4 DEF BackupOK, Latest, Onward, Notes, Upgrading, UpgradePc,
       UndoPc
  <2>17. ApplyOK'
    BY <2>1, <2>2, <2>3, <2>4 DEF ApplyOK, Kept, Onward, Notes, Upgrading, UpgradePc,
       UndoPc
  <2>18. UndoOK'
    BY <2>1, <2>2, <2>3, <2>4 DEF UndoOK, Kept, Changed, Onward, Notes, Upgrading,
       UpgradePc, UndoPc
  <2>19. Coherent'
    BY <2>1, <2>2, <2>3, <2>4 DEF Coherent, Installed, Names, Spans, Latest
  <2> QED
    BY <2>11, <2>12, <2>13, <2>14, <2>15, <2>16, <2>17, <2>18, <2>19 DEF ManagerInv
<1>5. ASSUME UndoReceipt PROVE ManagerInv'
  <2>1. /\ proc.pc = "b_receipt" /\ budget' \in Allowance
        /\ UNCHANGED <<unit, rule, entry, versions, backups, registry, ram, live, active>>
        /\ \/ /\ receipt' = (IF proc.failures THEN [Pending EXCEPT !.state = "upgrade_failed"]
                              ELSE proc.seen.receipt)
              /\ Onward("b_verdict")
           \/ /\ receipt' \in {receipt, proc.seen.receipt, [Pending EXCEPT !.state = "upgrade_failed"]}
              /\ Notes("b_verdict")
    BY <1>5, UndoGoes DEF UndoReceipt, SetReceipt, Durable, disk, integration, boot,
       UndoPc
  <2>2. /\ proc.seen.receipt \in Receipt /\ proc.seen.unit \in Version
        /\ Pending \in Receipt /\ Pending.state = "upgrading"
        /\ NextReceipt \in Receipt /\ NextReceipt.state = "installed"
        /\ NextReceipt.program = proc.program
    BY <2>1, UpgradeReceipts DEF Upgrading, UpgradePc, UndoPc
  <2>3. proc'.pc # "idle" => Pending' = Pending /\ NextReceipt' = NextReceipt
    BY <2>1, SameReceipts DEF Onward, Notes
  <2>4. proc.program \in Version
    BY DEF ManagerTypeOK, Proc
  <2>5. PICK r \in Receipt : /\ r = [Pending EXCEPT !.state = "upgrade_failed"]
                             /\ r.state = "upgrade_failed"
    BY <2>1, UpgradeReceipts DEF Upgrading, UndoPc
  <2>6. /\ proc.pc = "b_receipt" /\ budget' \in Allowance
        /\ UNCHANGED <<unit, rule, entry, versions, backups, registry, ram, live, active>>
        /\ \/ receipt' = (IF proc.failures THEN r ELSE proc.seen.receipt) /\ Onward("b_verdict")
           \/ receipt' \in {receipt, proc.seen.receipt, r} /\ Notes("b_verdict")
    BY <2>1, <2>5
  <2>11. ManagerTypeOK'
    BY <2>2, <2>3, <2>4, <2>5, <2>6 DEF ManagerTypeOK, Allowance, Onward, Notes
  <2>12. SourcesOK'
    BY <2>2, <2>3, <2>4, <2>5, <2>6 DEF SourcesOK, Copied, Onward, Notes
  <2>13. EntryIsComplete'
    BY <2>2, <2>3, <2>4, <2>5, <2>6 DEF EntryIsComplete, Onward, SourcesOK, Copied,
       ManagerTypeOK
  <2>14. (SetupOK /\ RegistrationOK /\ RemovalOK)'
    BY <2>2, <2>3, <2>4, <2>5, <2>6, OnlyUpgrade DEF Onward, Notes, Upgrading,
       UpgradePc, UndoPc
  <2>15. SeenOK'
    BY <2>2, <2>3, <2>4, <2>5, <2>6 DEF SeenOK, Onward, Notes, Upgrading, UpgradePc,
       UndoPc
  <2>16. BackupOK'
    BY <2>2, <2>3, <2>4, <2>5, <2>6 DEF BackupOK, Latest, Onward, Notes, Upgrading,
       UpgradePc, UndoPc
  <2>17. ApplyOK'
    BY <2>2, <2>3, <2>4, <2>5, <2>6 DEF ApplyOK, Kept, Onward, Notes, Upgrading,
       UpgradePc, UndoPc
  <2>18. UndoOK'
    BY <2>2, <2>3, <2>4, <2>5, <2>6 DEF UndoOK, Kept, Changed, Onward, Notes, Upgrading,
       UpgradePc, UndoPc, BackupOK, Latest
  <2>19. Coherent'
    BY <2>2, <2>3, <2>4, <2>5, <2>6 DEF Coherent, Installed, Names, Spans, Latest,
       UndoOK, BackupOK, SeenOK, Changed, Upgrading, UndoPc
  <2> QED
    BY <2>11, <2>12, <2>13, <2>14, <2>15, <2>16, <2>17, <2>18, <2>19 DEF ManagerInv
<1>6. ASSUME UndoVerdict PROVE ManagerInv'
  <2>1. /\ proc.pc = "b_verdict" /\ budget' \in Allowance
        /\ UNCHANGED <<unit, rule, entry, receipt, versions, registry, ram, live, active>>
        /\ \/ proc.failures /\ Record("rollback_failed")
           \/ ~ proc.failures /\ Record("rolled_back")
           \/ backups' = backups
        /\ Onward("idle")
    BY <1>6, AttemptGoes DEF UndoVerdict, Record, Durable, disk, integration, boot,
       CommandPc, UpgradePc, UndoPc
  <2>2. /\ proc.seen.receipt \in Receipt /\ proc.seen.unit \in Version
        /\ Pending \in Receipt /\ Pending.state = "upgrading"
        /\ NextReceipt \in Receipt /\ NextReceipt.state = "installed"
        /\ NextReceipt.program = proc.program
    BY <2>1, UpgradeReceipts DEF Upgrading, UpgradePc, UndoPc
  <2>3. proc'.pc # "idle" => Pending' = Pending /\ NextReceipt' = NextReceipt
    BY <2>1, SameReceipts DEF Onward, Notes
  <2>4. proc.program \in Version
    BY DEF ManagerTypeOK, Proc
  <2>5. Latest > 0 /\ Latest \in Nat /\ Latest <= MaxUpgrades
    BY <2>1 DEF BackupOK, Upgrading, UndoPc, ManagerTypeOK, Latest
  <2>6. \/ proc.failures /\ Noted("rollback_failed")
        \/ ~ proc.failures /\ Noted("rolled_back")
        \/ backups' = backups
    BY <2>1, <2>5, RecordNotes
  <2>7. proc.pc = "b_verdict" /\ budget' \in Allowance /\ Onward("idle") /\ UNCHANGED <<unit, rule, entry, receipt, versions, registry, ram, live, active>>
    BY <2>1
  <2>11. ManagerTypeOK'
    BY <2>2, <2>3, <2>4, <2>5, <2>6, <2>7 DEF ManagerTypeOK, Allowance, Onward, Notes,
       Noted, Latest
  <2>12. SourcesOK'
    BY <2>2, <2>3, <2>4, <2>5, <2>6, <2>7 DEF SourcesOK, Copied, Onward, Notes
  <2>13. EntryIsComplete'
    BY <2>2, <2>3, <2>4, <2>5, <2>6, <2>7 DEF EntryIsComplete, Onward, SourcesOK,
       Copied, ManagerTypeOK
  <2>14. (SetupOK /\ RegistrationOK /\ RemovalOK)'
    BY <2>2, <2>3, <2>4, <2>5, <2>6, <2>7, OnlyUpgrade DEF Onward, Notes, Upgrading,
       UpgradePc, UndoPc
  <2>15. SeenOK'
    BY <2>2, <2>3, <2>4, <2>5, <2>6, <2>7 DEF SeenOK, Onward, Notes, Upgrading,
       UpgradePc, UndoPc
  <2>16. BackupOK'
    BY <2>2, <2>3, <2>4, <2>5, <2>6, <2>7 DEF BackupOK, Latest, Onward, Notes,
       Upgrading, UpgradePc, UndoPc
  <2>17. ApplyOK'
    BY <2>2, <2>3, <2>4, <2>5, <2>6, <2>7 DEF ApplyOK, Kept, Onward, Notes, Upgrading,
       UpgradePc, UndoPc
  <2>18. UndoOK'
    BY <2>2, <2>3, <2>4, <2>5, <2>6, <2>7 DEF UndoOK, Kept, Changed, Onward, Notes,
       Upgrading, UpgradePc, UndoPc
  <2>19. Coherent'
    BY <2>2, <2>3, <2>4, <2>5, <2>6, <2>7 DEF Coherent, Installed, Names, Spans, Latest,
       UndoOK, BackupOK, SeenOK, Changed, Kept, Noted, Upgrading, UndoPc
  <2> QED
    BY <2>11, <2>12, <2>13, <2>14, <2>15, <2>16, <2>17, <2>18, <2>19 DEF ManagerInv
<1> QED  BY <1>1, <1>2, <1>3, <1>4, <1>5, <1>6

\* uninstall().
LEMMA UninstallKeeps ==
  ASSUME ManagerInv, Uninstall
  PROVE  ManagerInv'
<1> /\ ManagerTypeOK /\ Coherent /\ EntryIsComplete /\ SourcesOK /\ SetupOK /\ RegistrationOK
    /\ RemovalOK /\ SeenOK /\ BackupOK /\ ApplyOK /\ UndoOK
  BY DEF ManagerInv
<1>1. ASSUME UninstallBegin PROVE ManagerInv'
  <2>1. /\ Installed /\ Matches(receipt) /\ budget' \in Allowance
        /\ UNCHANGED <<unit, rule, entry, receipt, versions, backups, registry, ram, live, active>>
        /\ proc' \in Proc /\ proc'.pc = "x_disable" /\ proc'.seen = Integration
    BY <1>1, BeginTypes, SameAllowance DEF UninstallBegin, disk, integration, boot,
       CommandPc, UninstallPc
  <2>2. Integration.receipt = receipt
    BY DEF Integration
  <2>11. ManagerTypeOK'
    BY <2>1, <2>2 DEF ManagerTypeOK, Allowance, Onward
  <2>12. SourcesOK'
    BY <2>1, <2>2 DEF SourcesOK, Copied, Onward
  <2>13. EntryIsComplete'
    BY <2>1, <2>2 DEF EntryIsComplete, Onward, SourcesOK, Copied, ManagerTypeOK
  <2>14. (SetupOK /\ RegistrationOK /\ RemovalOK)'
    BY <2>1, <2>2 DEF SetupOK, RegistrationOK, RemovalOK, Onward, Installed, Names,
       InstallPc, RegisterPc, UninstallPc, Matches
  <2>15. (SeenOK /\ BackupOK /\ ApplyOK /\ UndoOK)'
    BY <2>1, <2>2, NoUpgrade DEF Onward, Upgrading, UpgradePc, UndoPc
  <2>16. Coherent'
    BY <2>1, <2>2 DEF Coherent, Installed, Names, Spans, Latest
  <2> QED  BY <2>11, <2>12, <2>13, <2>14, <2>15, <2>16 DEF ManagerInv
<1>2. ASSUME UninstallDisable PROVE ManagerInv'
  <2>1. /\ proc.pc = "x_disable" /\ budget' \in Allowance
        /\ UNCHANGED <<unit, rule, entry, receipt, versions, backups, registry, ram, live>>
        /\ active' \in {active, {}}
        /\ Onward("x_unit") \/ Onward("idle")
    BY <1>2, AttemptGoes DEF UninstallDisable, disk, integration, boot, CommandPc,
       UninstallPc
  <2>11. ManagerTypeOK'
    BY <2>1 DEF ManagerTypeOK, Allowance, Onward
  <2>12. SourcesOK'
    BY <2>1 DEF SourcesOK, Copied, Onward
  <2>13. EntryIsComplete'
    BY <2>1 DEF EntryIsComplete, Onward, SourcesOK, Copied, ManagerTypeOK
  <2>14. (SetupOK /\ RegistrationOK /\ RemovalOK)'
    BY <2>1 DEF SetupOK, RegistrationOK, RemovalOK, Onward, Installed, Names, InstallPc,
       RegisterPc, UninstallPc
  <2>15. (SeenOK /\ BackupOK /\ ApplyOK /\ UndoOK)'
    BY <2>1, NoUpgrade DEF Onward, Upgrading, UpgradePc, UndoPc
  <2>16. Coherent'
    BY <2>1 DEF Coherent, Installed, Names, Spans, Latest
  <2> QED  BY <2>11, <2>12, <2>13, <2>14, <2>15, <2>16 DEF ManagerInv
<1>3. ASSUME UninstallUnit PROVE ManagerInv'
  <2>1. /\ proc.pc = "x_unit" /\ budget' \in Allowance
        /\ UNCHANGED <<rule, entry, receipt, versions, backups, registry, ram, live, active>>
        /\ \/ unit' = NoFile /\ Onward("x_rule")
           \/ unit' \in {NoFile, unit} /\ Onward("idle")
    BY <1>3, AttemptGoes DEF UninstallUnit, SetUnit, Durable, disk, integration, boot,
       CommandPc, UninstallPc
  <2>11. ManagerTypeOK'
    BY <2>1 DEF ManagerTypeOK, Allowance, Onward, Program
  <2>12. SourcesOK'
    BY <2>1, FilesAssumption DEF SourcesOK, Copied, Onward
  <2>13. EntryIsComplete'
    BY <2>1, FilesAssumption DEF EntryIsComplete, Onward, SourcesOK, Copied,
       ManagerTypeOK
  <2>14. (SetupOK /\ RegistrationOK /\ RemovalOK)'
    BY <2>1 DEF SetupOK, RegistrationOK, RemovalOK, Onward, Installed, Names, InstallPc,
       RegisterPc, UninstallPc
  <2>15. (SeenOK /\ BackupOK /\ ApplyOK /\ UndoOK)'
    BY <2>1, NoUpgrade DEF Onward, Upgrading, UpgradePc, UndoPc
  <2>16. Coherent'
    BY <2>1 DEF Coherent, Installed, Names, Spans, Latest, RemovalOK, UninstallPc
  <2> QED  BY <2>11, <2>12, <2>13, <2>14, <2>15, <2>16 DEF ManagerInv
<1>4. ASSUME UninstallRule PROVE ManagerInv'
  <2>1. /\ proc.pc = "x_rule" /\ budget' \in Allowance
        /\ UNCHANGED <<unit, entry, receipt, versions, backups, registry, ram, live, active>>
        /\ \/ rule' = NoFile /\ Onward("x_entry")
           \/ rule' \in {NoFile, rule} /\ Onward("idle")
    BY <1>4, AttemptGoes DEF UninstallRule, SetRule, Durable, disk, integration, boot,
       CommandPc, UninstallPc
  <2>11. ManagerTypeOK'
    BY <2>1 DEF ManagerTypeOK, Allowance, Onward, Rules
  <2>12. SourcesOK'
    BY <2>1 DEF SourcesOK, Copied, Onward
  <2>13. EntryIsComplete'
    BY <2>1 DEF EntryIsComplete, Onward, SourcesOK, Copied, ManagerTypeOK
  <2>14. (SetupOK /\ RegistrationOK /\ RemovalOK)'
    BY <2>1 DEF SetupOK, RegistrationOK, RemovalOK, Onward, Installed, Names, InstallPc,
       RegisterPc, UninstallPc
  <2>15. (SeenOK /\ BackupOK /\ ApplyOK /\ UndoOK)'
    BY <2>1, NoUpgrade DEF Onward, Upgrading, UpgradePc, UndoPc
  <2>16. Coherent'
    BY <2>1 DEF Coherent, Installed, Names, Spans, Latest
  <2> QED  BY <2>11, <2>12, <2>13, <2>14, <2>15, <2>16 DEF ManagerInv
<1>5. ASSUME UninstallEntry PROVE ManagerInv'
  <2>1. /\ proc.pc = "x_entry" /\ budget' \in Allowance
        /\ UNCHANGED <<unit, rule, receipt, versions, backups, registry, ram, live, active>>
        /\ \/ entry' = NoFile /\ Onward("x_receipt")
           \/ entry' \in {NoFile, entry} /\ Onward("idle")
    BY <1>5, AttemptGoes DEF UninstallEntry, SetEntry, Durable, disk, integration, boot,
       CommandPc, UninstallPc
  <2>11. ManagerTypeOK'
    BY <2>1 DEF ManagerTypeOK, Allowance, Onward, Program
  <2>12. SourcesOK'
    BY <2>1, FilesAssumption DEF SourcesOK, Copied, Onward
  <2>13. EntryIsComplete'
    BY <2>1, FilesAssumption DEF EntryIsComplete, Onward, SourcesOK, Copied,
       ManagerTypeOK
  <2>14. (SetupOK /\ RegistrationOK /\ RemovalOK)'
    BY <2>1 DEF SetupOK, RegistrationOK, RemovalOK, Onward, Installed, Names, InstallPc,
       RegisterPc, UninstallPc
  <2>15. (SeenOK /\ BackupOK /\ ApplyOK /\ UndoOK)'
    BY <2>1, NoUpgrade DEF Onward, Upgrading, UpgradePc, UndoPc
  <2>16. Coherent'
    BY <2>1 DEF Coherent, Installed, Names, Spans, Latest, RemovalOK, UninstallPc
  <2> QED  BY <2>11, <2>12, <2>13, <2>14, <2>15, <2>16 DEF ManagerInv
<1>6. ASSUME UninstallDone PROVE ManagerInv'
  <2>1. /\ proc.pc = "x_receipt" /\ budget' \in Allowance
        /\ UNCHANGED <<unit, rule, entry, versions, backups, registry, ram, live, active>>
        /\ receipt' \in {[proc.seen.receipt EXCEPT !.state = "uninstalled"], receipt}
        /\ Onward("idle")
    BY <1>6, AttemptGoes DEF UninstallDone, SetReceipt, Durable, disk, integration,
       boot, CommandPc, UninstallPc
  <2>2. PICK r \in Receipt : r = [proc.seen.receipt EXCEPT !.state = "uninstalled"] /\ r.state = "uninstalled"
    <3>1. receipt \in Receipt /\ receipt = proc.seen.receipt
      BY <2>1 DEF RemovalOK, Installed, ManagerTypeOK, UninstallPc
    <3>2. /\ [receipt EXCEPT !.state = "uninstalled"] \in Receipt
          /\ [receipt EXCEPT !.state = "uninstalled"].state = "uninstalled"
      BY <3>1 DEF Receipt
    <3> QED  BY <3>1, <3>2
  <2>3. /\ proc.pc = "x_receipt" /\ budget' \in Allowance /\ receipt' \in {r, receipt} /\ Onward("idle")
        /\ UNCHANGED <<unit, rule, entry, versions, backups, registry, ram, live, active>>
    BY <2>1, <2>2
  <2>11. ManagerTypeOK'
    BY <2>2, <2>3 DEF ManagerTypeOK, Allowance, Onward
  <2>12. SourcesOK'
    BY <2>2, <2>3 DEF SourcesOK, Copied, Onward
  <2>13. EntryIsComplete'
    BY <2>2, <2>3 DEF EntryIsComplete, Onward, SourcesOK, Copied, ManagerTypeOK
  <2>14. (SetupOK /\ RegistrationOK /\ RemovalOK)'
    BY <2>2, <2>3 DEF SetupOK, RegistrationOK, RemovalOK, Onward, Installed, Names,
       InstallPc, RegisterPc, UninstallPc
  <2>15. (SeenOK /\ BackupOK /\ ApplyOK /\ UndoOK)'
    BY <2>2, <2>3, NoUpgrade DEF Onward, Upgrading, UpgradePc, UndoPc
  <2>16. Coherent'
    BY <2>2, <2>3 DEF Coherent, Installed, Names, Spans, Latest
  <2> QED  BY <2>11, <2>12, <2>13, <2>14, <2>15, <2>16 DEF ManagerInv
<1> QED  BY <1>1, <1>2, <1>3, <1>4, <1>5, <1>6 DEF Uninstall

\* What happens around a command that stays where it is and whose files stay.
LEMMA CommandStays ==
  ASSUME ManagerInv, ManagerTypeOK', UNCHANGED <<integration, versions, backups, registry, proc>>
  PROVE  ManagerInv'
<1> /\ Coherent /\ EntryIsComplete /\ SourcesOK /\ SetupOK /\ RegistrationOK
    /\ RemovalOK /\ SeenOK /\ BackupOK /\ ApplyOK /\ UndoOK
  BY DEF ManagerInv
<1>1. UNCHANGED <<unit, rule, entry, receipt, versions, backups, registry, proc>>
  BY DEF integration
<1>2. (Coherent /\ EntryIsComplete)'
  BY <1>1 DEF Coherent, Installed, Names, Spans, Latest, EntryIsComplete
<1>3. (SourcesOK /\ SetupOK /\ RegistrationOK /\ RemovalOK)'
  BY <1>1 DEF SourcesOK, SetupOK, RegistrationOK, RemovalOK, Installed, Names
<1>4. (SeenOK /\ BackupOK)'  BY <1>1 DEF SeenOK, BackupOK, Latest
<1>5. (ApplyOK /\ UndoOK)'
  BY <1>1 DEF ApplyOK, UndoOK, Kept, Changed, Pending, NextReceipt, Latest
<1> QED  BY <1>2, <1>3, <1>4, <1>5 DEF ManagerInv

\* PID 1, the controllers, the maps, the machine and the administrator.
LEMMA SurroundingsKeep ==
  ASSUME ManagerInv, \/ Prepare \/ StartController \/ ControllerEnds \/ MapAppears \/ MapRetired
         \/ Crash \/ Reboot \/ Edit
  PROVE  ManagerInv'
<1> /\ ManagerTypeOK /\ Coherent /\ EntryIsComplete /\ SourcesOK /\ SetupOK /\ RegistrationOK
    /\ RemovalOK /\ SeenOK /\ BackupOK /\ ApplyOK /\ UndoOK
  BY DEF ManagerInv
<1>1. ASSUME Prepare PROVE ManagerInv'
  <2>1. /\ unit \in Version
        /\ UNCHANGED <<unit, rule, entry, receipt, versions, backups, registry, proc, live, active, budget>>
        /\ ram' = [program |-> unit, entries |-> ram.entries \cup registry]
    BY <1>1 DEF Prepare, Prepared, disk, integration
  <2>2. ram' \in [program : Version \cup {NoFile}, entries : SUBSET registry]
    BY <2>1 DEF ManagerTypeOK
  <2>11. ManagerTypeOK'
    BY <2>1, <2>2 DEF ManagerTypeOK, Allowance
  <2> QED  BY <2>1, <2>2, <2>11, CommandStays DEF integration
<1>2. ASSUME StartController PROVE ManagerInv'
  <2>1. /\ UNCHANGED <<unit, rule, entry, receipt, versions, backups, registry, proc, live, ram, budget>>
        /\ active' \in SUBSET registry
    BY <1>2 DEF StartController, Activates, CanStart, ManagerTypeOK, disk, integration
  <2>11. ManagerTypeOK'
    BY <2>1 DEF ManagerTypeOK, Allowance
  <2> QED  BY <2>1, <2>11, CommandStays DEF integration
<1>3. ASSUME ControllerEnds PROVE ManagerInv'
  <2>1. /\ UNCHANGED <<unit, rule, entry, receipt, versions, backups, registry, proc, live, ram, budget>>
        /\ active' \in SUBSET registry
    BY <1>3 DEF ControllerEnds, ManagerTypeOK, disk, integration
  <2>11. ManagerTypeOK'
    BY <2>1 DEF ManagerTypeOK, Allowance
  <2> QED  BY <2>1, <2>11, CommandStays DEF integration
<1>4. ASSUME MapAppears PROVE ManagerInv'
  <2>1. /\ UNCHANGED <<unit, rule, entry, receipt, versions, backups, registry, proc, active, ram, budget>>
        /\ live' \in SUBSET Map
    BY <1>4 DEF MapAppears, ManagerTypeOK, disk, integration
  <2>11. ManagerTypeOK'
    BY <2>1 DEF ManagerTypeOK, Allowance
  <2> QED  BY <2>1, <2>11, CommandStays DEF integration
<1>5. ASSUME MapRetired PROVE ManagerInv'
  <2>1. /\ UNCHANGED <<unit, rule, entry, receipt, versions, backups, registry, proc, active, ram, budget>>
        /\ live' \in SUBSET Map
    BY <1>5 DEF MapRetired, ManagerTypeOK, disk, integration
  <2>11. ManagerTypeOK'
    BY <2>1 DEF ManagerTypeOK, Allowance
  <2> QED  BY <2>1, <2>11, CommandStays DEF integration
<1>6. ASSUME Crash PROVE ManagerInv'
  <2>1. /\ UNCHANGED <<unit, rule, entry, receipt, versions, backups, registry, ram, live, active>>
        /\ budget' = [budget EXCEPT !.crashes = @ - 1] /\ budget.crashes > 0
        /\ Onward("idle")
    BY <1>6, GoOn DEF Crash, CommandPc, disk, integration, boot
  <2>2. budget' \in Allowance
    BY <2>1, ManagerAssumption DEF ManagerTypeOK, Allowance
  <2>3. /\ UNCHANGED <<unit, rule, entry, receipt, versions, backups, registry, ram, live, active>> /\ proc'.pc = "idle"
        /\ proc' \in Proc
    BY <2>1 DEF Onward
  <2>4. ManagerTypeOK'  BY <2>2, <2>3 DEF ManagerTypeOK, Allowance
  <2>5. (Coherent /\ EntryIsComplete)'
    BY <2>3 DEF Coherent, Installed, Names, Spans, Latest, EntryIsComplete
  <2> QED  BY <2>3, <2>4, <2>5, NoCommand DEF ManagerInv
<1>7. ASSUME Reboot PROVE ManagerInv'
  <2>1. /\ UNCHANGED <<unit, rule, entry, receipt, versions, backups, registry, proc, budget>>
        /\ ram' = NoRuntime /\ live' = {} /\ active' = {}
    BY <1>7 DEF Reboot, disk, integration
  <2>2. ram' \in [program : Version \cup {NoFile}, entries : SUBSET registry]
    BY <2>1 DEF NoRuntime
  <2>11. ManagerTypeOK'
    BY <2>1, <2>2 DEF ManagerTypeOK, Allowance
  <2> QED  BY <2>1, <2>2, <2>11, CommandStays DEF integration
<1>8. ASSUME Edit PROVE ManagerInv'
  <2>1. /\ UNCHANGED <<receipt, versions, backups, registry, ram, live, active, proc>>
        /\ budget' = [budget EXCEPT !.edits = @ - 1] /\ budget.edits > 0
        /\ unit' \in {unit, Foreign} /\ rule' \in {rule, Foreign} /\ entry' \in {entry, Foreign}
    BY <1>8 DEF Edit, boot
  <2>2. budget' \in Allowance
    BY <2>1, ManagerAssumption DEF ManagerTypeOK, Allowance
  <2>3. /\ UNCHANGED <<receipt, versions, backups, registry, ram, live, active, proc>>
        /\ unit' \in {unit, Foreign} /\ rule' \in {rule, Foreign} /\ entry' \in {entry, Foreign}
    BY <2>1
  <2>11. ManagerTypeOK'
    BY <2>2, <2>3 DEF ManagerTypeOK, Allowance, Program, Rules
  <2>12. SourcesOK'
    BY <2>3 DEF SourcesOK
  <2>13. EntryIsComplete'
    BY <2>3, FilesAssumption DEF EntryIsComplete
  <2>14. (SetupOK /\ RegistrationOK /\ RemovalOK)'
    BY <2>3 DEF SetupOK, RegistrationOK, RemovalOK, Installed, Names
  <2>15. (SeenOK /\ BackupOK)'
    BY <2>3 DEF SeenOK, BackupOK, Latest
  <2>16. ApplyOK'
    BY <2>3 DEF ApplyOK, Kept, Pending, NextReceipt
  <2>17. UndoOK'
    BY <2>3 DEF UndoOK, Kept, Changed, Pending, NextReceipt, Latest
  <2>18. Coherent'
    BY <2>3 DEF Coherent, Installed, Names, Spans, Latest
  <2> QED  BY <2>11, <2>12, <2>13, <2>14, <2>15, <2>16, <2>17, <2>18 DEF ManagerInv
<1> QED  BY <1>1, <1>2, <1>3, <1>4, <1>5, <1>6, <1>7, <1>8

LEMMA ManagerStarts == ManagerInit => ManagerInv
<1> SUFFICES ASSUME ManagerInit PROVE ManagerInv  OBVIOUS
<1>1. proc = Idle /\ proc.pc = "idle" /\ proc \in Proc  BY IdleTyped DEF ManagerInit
<1>2. ManagerTypeOK
  <2>1. unit \in Program /\ entry \in Program /\ rule \in Rules /\ receipt \in Receipt \cup {NoFile}
    BY DEF ManagerInit, Program, Rules
  <2>2. versions \in [Version -> {"absent", "partial", "complete"}]  BY DEF ManagerInit
  <2>3. backups \in Seq(Backup) /\ Len(backups) <= MaxUpgrades
    BY ManagerAssumption DEF ManagerInit
  <2>4. /\ registry \in SUBSET Map /\ live \in SUBSET Map /\ active \in SUBSET registry
        /\ ram \in [program : Version \cup {NoFile}, entries : SUBSET registry]
    BY DEF ManagerInit, NoRuntime
  <2>5. budget \in [faults : 0 .. MaxFaults, crashes : 0 .. MaxCrashes, edits : 0 .. MaxEdits]
    BY ManagerAssumption DEF ManagerInit
  <2> QED  BY <1>1, <2>1, <2>2, <2>3, <2>4, <2>5 DEF ManagerTypeOK
<1>3. Coherent  BY DEF ManagerInit, Coherent, Installed
<1>4. EntryIsComplete  BY FilesAssumption DEF ManagerInit, EntryIsComplete
<1>5. SourcesOK /\ SetupOK /\ RegistrationOK /\ RemovalOK
  BY <1>1 DEF SourcesOK, Copied, SetupOK, InstallPc, RegistrationOK, RemovalOK, UninstallPc
<1>6. SeenOK /\ BackupOK /\ ApplyOK /\ UndoOK
  BY <1>1 DEF SeenOK, BackupOK, ApplyOK, UndoOK, Upgrading, UpgradePc, UndoPc
<1> QED  BY <1>2, <1>3, <1>4, <1>5, <1>6 DEF ManagerInv

LEMMA ManagerSteps == ManagerInv /\ [ManagerNext]_managerVars => ManagerInv'
<1> SUFFICES ASSUME ManagerInv, [ManagerNext]_managerVars PROVE ManagerInv'  OBVIOUS
<1>1. CASE Install    BY <1>1, InstallKeeps
<1>2. CASE Register   BY <1>2, RegisterKeeps
<1>3. CASE Upgrade    BY <1>3, ApplyKeeps, UndoKeeps DEF Upgrade
<1>4. CASE Uninstall  BY <1>4, UninstallKeeps
<1>5. CASE UNCHANGED managerVars
  <2>1. ManagerTypeOK'  BY <1>5 DEF ManagerInv, ManagerTypeOK, managerVars, disk, integration, boot
  <2> QED  BY <1>5, <2>1, CommandStays DEF managerVars, disk
<1>6. CASE \/ Prepare \/ StartController \/ ControllerEnds \/ MapAppears \/ MapRetired
           \/ Crash \/ Reboot \/ Edit
  BY <1>6, SurroundingsKeep
<1> QED  BY <1>1, <1>2, <1>3, <1>4, <1>5, <1>6 DEF ManagerNext

LEMMA ManagerInvariance == ManagerSpec => []ManagerInv
BY ManagerStarts, ManagerSteps, PTL DEF ManagerSpec

-----------------------------------------------------------------------------
(* What follows. *)

\* The files, the journals and the registrations keep their types.
THEOREM ManagerTyped == ManagerSpec => []ManagerTypeOK
<1>1. ManagerInv => ManagerTypeOK  BY DEF ManagerInv
<1> QED  BY <1>1, ManagerInvariance, PTL

\* Whatever step raised or died, an installed receipt agrees with the units and the command
\* link, or the last upgrade's backup holds what they were (manage.py, upgrade).
THEOREM IntegrationCoherent == ManagerSpec => []InstalledIsCoherent
<1>1. ManagerInv => InstalledIsCoherent
  BY DEF ManagerInv, Coherent, InstalledIsCoherent, Names, Spans
<1> QED  BY <1>1, ManagerInvariance, PTL

\* The units and the command link name complete program directories only (install_sources).
THEOREM EntryComplete == ManagerSpec => []EntryIsComplete
<1>1. ManagerInv => EntryIsComplete  BY DEF ManagerInv
<1> QED  BY <1>1, ManagerInvariance, PTL

\* No step but the verdict of a rollback, after all its writes, writes "rolled_back".
LEMMA OtherJournals ==
  ASSUME ManagerInv, [ManagerNext]_managerVars, NEW i \in 1 .. Latest,
         backups'[i].state # backups[i].state, backups'[i].state = "rolled_back"
  PROVE  UndoVerdict
<1> ManagerTypeOK /\ BackupOK  BY DEF ManagerInv
<1>1. backups' # backups  OBVIOUS
<1>2. ~ Install
  BY <1>1 DEF Install, InstallBegin, InstallMkdir, InstallCopy, InstallDirectory, InstallReceipt,
     InstallUnit, InstallRule, InstallEntry, InstallEnable, InstallDone, InstallActivate, Begin,
     Attempt, Require, SourcesBegin, SourcesCopy, SetUnit, SetRule, SetEntry, SetReceipt,
     SetVersion, Durable, Prepared, Activates, disk, boot
<1>3. ~ Register
  BY <1>1 DEF Register, RegisterBegin, RegisterRecord, RegisterCheck, RegisterRule,
     RegisterReceipt, RegisterPrepare, RegisterActivate, Attempt, Require, SetRule, SetReceipt,
     Durable, Prepared, Activates, disk, boot
<1>4. ~ Uninstall
  BY <1>1 DEF Uninstall, UninstallBegin, UninstallDisable, UninstallUnit, UninstallRule,
     UninstallEntry, UninstallDone, Begin, Attempt, SetUnit, SetRule, SetEntry, SetReceipt,
     Durable, disk, boot
<1>5. ~ (\/ Prepare \/ StartController \/ ControllerEnds \/ MapAppears \/ MapRetired
         \/ Crash \/ Reboot \/ Edit)
  BY <1>1 DEF Prepare, StartController, ControllerEnds, MapAppears, MapRetired, Crash, Reboot,
     Edit, Prepared, Activates, disk
<1>6. ~ (UNCHANGED managerVars)  BY <1>1 DEF managerVars, disk
<1>7. ~ (\/ UpgradeBegin \/ UpgradeMkdir \/ UpgradeCopy \/ UpgradeQuiet \/ UpgradePending
         \/ UpgradeUnit \/ UpgradeEntry \/ UpgradeDone)
  BY <1>1 DEF UpgradeBegin, UpgradeMkdir, UpgradeCopy, UpgradeQuiet, UpgradePending, UpgradeUnit,
     UpgradeEntry, UpgradeDone, Begin, Attempt, Require, SourcesBegin, SourcesCopy, SetUnit,
     SetEntry, SetReceipt, SetVersion, Durable, disk
<1>8. ~ (UndoUnit \/ UndoRule \/ UndoEntry \/ UndoReload \/ UndoReceipt)
  BY <1>1 DEF UndoUnit, UndoRule, UndoEntry, UndoReload, UndoReceipt, Undo, SetUnit, SetRule,
     SetEntry, SetReceipt, Durable, disk
<1>9. ASSUME UpgradeBackup PROVE FALSE
  <2>1. /\ proc.pc = "u_backup"
        /\ backups' = Append(backups, [state |-> "staging", old |-> proc.seen,
                                       program |-> proc.program])
    BY <1>1, <1>9 DEF UpgradeBackup, Attempt, At, Durable, disk
  <2>2. \A j \in 1 .. Latest : backups'[j] = backups[j]
    BY <2>1, BackupAppended DEF BackupOK
  <2> QED  BY <2>2
<1>10. ASSUME UpgradeApplying \/ UpgradeComplete PROVE FALSE
  <2>1. Record("applying") \/ Record("complete")
    BY <1>1, <1>10 DEF UpgradeApplying, UpgradeComplete, Attempt, disk
  <2>2. Latest > 0  BY DEF Latest, ManagerTypeOK
  <2>3. Noted("applying") \/ Noted("complete")  BY <2>1, <2>2, RecordNotes
  <2> QED  BY <2>3 DEF Noted
<1> QED  BY <1>2, <1>3, <1>4, <1>5, <1>6, <1>7, <1>8, <1>9, <1>10 DEF ManagerNext, Upgrade

\* A recorded rollback has put back every file that nobody edited, whichever steps of it
\* raised before (upgrade's except clause in manage.py).
THEOREM RollbackRestores == ManagerSpec => RolledBackRestores
<1> DEFINE Restored(i) ==
      /\ unit \in {backups[i].old.unit, Foreign}
      /\ rule \in {backups[i].old.rule, Foreign}
      /\ entry \in {backups[i].old.entry, Foreign}
      /\ receipt = backups[i].old.receipt
    Body == \A i \in 1 .. Latest :
      backups'[i].state # backups[i].state /\ backups'[i].state = "rolled_back" => Restored(i)
<1>1. ManagerInv /\ [ManagerNext]_managerVars => Body
  <2> SUFFICES ASSUME ManagerInv, [ManagerNext]_managerVars, NEW i \in 1 .. Latest,
                      backups'[i].state # backups[i].state, backups'[i].state = "rolled_back"
               PROVE  Restored(i)
    OBVIOUS
  <2> ManagerTypeOK /\ BackupOK /\ SeenOK /\ ApplyOK /\ UndoOK  BY DEF ManagerInv
  <2>1. UndoVerdict  BY OtherJournals
  <2>2. /\ proc.pc = "b_verdict"
        /\ Record(IF proc.failures THEN "rollback_failed" ELSE "rolled_back")
    BY <2>1 DEF UndoVerdict, Attempt, At, disk
  <2>3. Latest > 0  BY DEF Latest, ManagerTypeOK
  <2>4. Noted(IF proc.failures THEN "rollback_failed" ELSE "rolled_back")
    BY <2>2, <2>3, RecordNotes
  <2>5. i = Latest /\ ~ proc.failures  BY <2>4 DEF Noted
  <2>6. backups[Latest].old = proc.seen
    BY <2>2 DEF BackupOK, Upgrading, UpgradePc, UndoPc
  <2>7. /\ Kept(unit, proc.seen.unit) /\ Kept(entry, proc.seen.entry)
        /\ Kept(rule, proc.seen.rule) /\ receipt = proc.seen.receipt
    BY <2>2, <2>5 DEF ApplyOK, UndoOK, Upgrading, UndoPc
  <2> QED  BY <2>5, <2>6, <2>7 DEF Kept
<1>2. ManagerInv /\ [ManagerNext]_managerVars => [Body]_managerVars  BY <1>1
<1> QED  BY <1>2, ManagerInvariance, PTL DEF ManagerSpec, RolledBackRestores
=============================================================================
