------------------------------ MODULE EventLoop ------------------------------
(***************************************************************************)
(* The loop of the running controller (run_owned, controller.cpp) with the      *)
(* netlink socket of block events (Events) and the times of the next check        *)
(* (Schedule, core.cpp).  An event is only a hint: the socket may overflow, and     *)
(* while an event waits for its turn the socket is not polled.  A check at the       *)
(* latest every Period is the fallback.                                        *)
(*                                                                         *)
(* One tick is 50 ms; time passes only where the loop blocks (poll, sleep, a step,    *)
(* a request on the control socket), so the bounds are net of scheduling delays.      *)
(* Timers count down to 0.  Guard is seen through its step: an episode is open,        *)
(* an operation runs or is done.                                               *)
(***************************************************************************)
EXTENDS Integers, Sequences, FiniteSets

CONSTANTS
    Period, Gap,       \* the next check, and the earliest one for an event, when healthy
    DelayMin, DelayMax,\* the pause between two checks of an episode
    Pause,             \* the sleep after a batch of unrelated events
    Batch, Socket,     \* events read at once, and held by the socket
    Queue,             \* the length of an episode (queue_seconds)
    StepTime, ServeTime,   \* what a step and a request take at most
    MaxChanges, MaxNoise, MaxRequests, MaxSignals

ASSUME EventLoopAssumption ==
    /\ {Period, Gap, DelayMin, DelayMax, Pause, Batch, Socket, Queue, StepTime, ServeTime,
        MaxChanges, MaxNoise, MaxRequests, MaxSignals} \subseteq Nat
    /\ 0 < Gap /\ Gap <= DelayMin /\ DelayMin <= DelayMax /\ DelayMax <= Period
    /\ 0 < Pause /\ 0 < Batch /\ 0 < Socket /\ 0 < Queue

VARIABLES
    loop,              \* where the loop is, and its local variables
    timer,             \* Schedule and the deadline of the episode
    socket,            \* events not yet read; ENOBUFS to report; the kernel drops events
    guard,             \* what step() reads: the path, the episode, the operation
    seen,              \* a change that no check has looked at, and times since
    coming             \* changes, noise, requests and signals to come

loopVars == <<loop, timer, socket, guard, seen, coming>>

Least(a, b) == IF a < b THEN a ELSE b

\* An event names the map or the current disk ("ours") or another block device.
Event == {"ours", "foreign"}
NoDeadline == -1

LoopTypeOK ==
    /\ loop \in [pc : {"check", "step", "wait", "poll", "sleep", "serve", "over"}, rest : Nat, wait : Nat,
                 pending : BOOLEAN, completed : BOOLEAN, control : BOOLEAN, defer : BOOLEAN,
                 watch : SUBSET Event]
    /\ timer \in [next : Nat, after : Nat, delay : Nat, deadline : Nat \cup {NoDeadline}]
    /\ socket \in [queue : Seq(Event), overrun : BOOLEAN, congested : BOOLEAN]
    /\ guard \in [broken : BOOLEAN, op : {"none", "running", "done"}, request : BOOLEAN]
    /\ seen \in [change : {"none", "announced", "silent"}, age : Nat, outcome : Nat,
                 late : Nat, check : 0 .. Gap, idle : Nat]
    /\ coming \in [{"changes", "noise", "requests", "signals"} -> Nat]

\* The first check is due at once: the path may have broken since it was looked at,
\* before the socket was opened.
LoopInit ==
    /\ loop = [pc |-> "check", rest |-> 0, wait |-> 0, pending |-> FALSE, completed |-> FALSE,
               control |-> FALSE, defer |-> FALSE, watch |-> Event]
    /\ timer = [next |-> 0, after |-> 0, delay |-> DelayMin, deadline |-> NoDeadline]
    /\ socket = [queue |-> <<>>, overrun |-> FALSE, congested |-> FALSE]
    /\ \E broken \in BOOLEAN :
          /\ guard = [broken |-> broken, op |-> "none", request |-> FALSE]
          /\ seen = [change |-> IF broken THEN "silent" ELSE "none", age |-> 0, outcome |-> 0,
                     late |-> 0, check |-> Gap, idle |-> 0]
    /\ coming = [changes |-> MaxChanges, noise |-> MaxNoise, requests |-> MaxRequests,
                 signals |-> MaxSignals]

Spend(what) == coming[what] > 0 /\ coming' = [coming EXCEPT ![what] = @ - 1]
Open   == timer.deadline # NoDeadline
Passed == timer.deadline = 0

-----------------------------------------------------------------------------
(* Outside the loop: events, operations, requests. *)

\* The kernel queues an event, or notes once that it had to drop some.  It goes on
\* dropping until the queue was empty.
Full == Len(socket.queue) = Socket \/ socket.congested
Deliver(e) ==
    socket' = IF Full THEN [socket EXCEPT !.congested = TRUE, !.overrun = @ \/ ~ socket.congested]
              ELSE [socket EXCEPT !.queue = Append(@, e)]

\* Something happens that a check would notice.  An earlier one may be followed on.
Note(announced) ==
    \/ seen' = [seen EXCEPT !.change = IF announced THEN "announced" ELSE "silent", !.age = 0]
    \/ seen.change # "none" /\ UNCHANGED seen

Break ==
    /\ Spend("changes")
    /\ guard' = [guard EXCEPT !.broken = TRUE]
    /\ \/ Deliver("ours") /\ Note(~ Full \/ socket'.overrun)
       \/ UNCHANGED socket /\ Note(FALSE)
    /\ UNCHANGED <<loop, timer>>

\* A disk comes back, as another block device: of interest in an episode only.
Return ==
    /\ Spend("changes")
    /\ Deliver("foreign")
    /\ IF Open THEN Note(~ Full \/ socket'.overrun) ELSE UNCHANGED seen
    /\ UNCHANGED <<loop, timer, guard>>

Noise ==
    /\ Spend("noise")
    /\ \E e \in Event : Deliver(e)
    /\ UNCHANGED <<loop, timer, guard, seen>>

\* An operation ends; the commit among them may have restored the path.
OperationEnds ==
    /\ guard.op = "running"
    /\ \E broken \in {guard.broken, FALSE} :
          guard' = [guard EXCEPT !.op = "done", !.broken = broken]
    /\ UNCHANGED <<loop, timer, socket, seen, coming>>

Request ==
    /\ ~ guard.request
    /\ Spend("requests")
    /\ guard' = [guard EXCEPT !.request = TRUE]
    /\ UNCHANGED <<loop, timer, socket, seen>>

-----------------------------------------------------------------------------
(* The check: manager->step() and what follows it. *)

\* Schedule::due
Due(event) == timer.next = 0 \/ (event /\ timer.after = 0)

Enter(pc, rest) == loop' = [loop EXCEPT !.pc = pc, !.rest = rest]
Over == Enter("over", 0) /\ UNCHANGED <<timer, guard, seen>>

Look == [seen EXCEPT !.change = "none", !.age = 0, !.idle = 0]
Blind == [seen EXCEPT !.outcome = 0, !.idle = 0]

\* What step() does: give up, take the outcome of an operation (and start the next one,
\* reject, or be ready again), wait for a running one, verify, or look at the path.
Act ==
    \/ /\ Open /\ guard.op = "done"
       /\ \/ guard' = [guard EXCEPT !.op = "running"] /\ UNCHANGED timer
          \/ guard' = [guard EXCEPT !.op = "none"] /\ UNCHANGED timer
          \/ /\ guard.broken => seen.change # "none"
             /\ guard' = [guard EXCEPT !.op = "none"]
             /\ timer' = [timer EXCEPT !.deadline = NoDeadline]
       /\ seen' = Blind
    \/ Open /\ guard.op = "running" /\ seen' = Blind /\ UNCHANGED <<guard, timer>>
    \/ /\ Open /\ guard.op = "none"
       /\ guard' = [guard EXCEPT !.op = "running"]
       /\ seen' = Look /\ UNCHANGED timer
    \/ /\ ~ Open
       /\ IF guard.broken
          THEN guard' = [guard EXCEPT !.op = "running"] /\ timer' = [timer EXCEPT !.deadline = Queue]
          ELSE UNCHANGED <<guard, timer>>
       /\ seen' = Look

Step ==
    /\ loop.pc = "check"
    /\ loop.completed \/ Due(loop.pending) \/ Passed
    /\ \/ Over          \* expired, or an exception
       \/ ~ Passed /\ Act /\ \E time \in 0 .. StepTime : Enter("step", time)
    /\ UNCHANGED <<socket, coming>>

\* Wrong: the pause has no limit.
Completed_Unlimited ==
    timer' = IF Open
             THEN [timer EXCEPT !.next = timer.delay, !.after = timer.delay, !.delay = 2 * timer.delay]
             ELSE [timer EXCEPT !.next = Period, !.after = Gap, !.delay = DelayMin]

\* Schedule::completed: the pause doubles up to its limit while an episode is open.
Completed ==
    timer' = IF Open
             THEN [timer EXCEPT !.next = timer.delay, !.after = timer.delay,
                                !.delay = Least(DelayMax, 2 * timer.delay)]
             ELSE [timer EXCEPT !.next = Period, !.after = Gap, !.delay = DelayMin]

\* Events::watch and Events::relevant: everything in an episode, else the map and the disk.
Watch == IF Open THEN Event ELSE {"ours"}
Relevant(events, watch) == \E i \in DOMAIN events : events[i] \in watch

\* The end of the step.  A hint that it did not look at, and that is not in the socket
\* any more, is forgotten.
StepEnds ==
    /\ loop.pc = "step" /\ loop.rest = 0
    /\ Completed
    /\ loop' = [loop EXCEPT !.pc = "wait", !.watch = Watch, !.pending = FALSE, !.completed = FALSE]
    /\ seen' = [seen EXCEPT !.check = 0,
                            !.change = IF @ = "announced" /\ ~ socket.overrun
                                          /\ ~ Relevant(socket.queue, Watch) THEN "silent" ELSE @]
    /\ UNCHANGED <<socket, guard, coming>>

-----------------------------------------------------------------------------
(* Events::wait. *)

\* Wrong: the wait does not end with the episode.
Wake_IgnoresDeadline == IF loop.pending THEN Least(timer.next, timer.after) ELSE timer.next

Wake == LET next == IF loop.pending THEN Least(timer.next, timer.after) ELSE timer.next
        IN  IF Open THEN Least(next, timer.deadline) ELSE next

\* Wrong: the socket is polled all the same.
Defer_Never == FALSE

\* An event that waits for its turn keeps the socket out of the poll.
Defer == loop.pending /\ timer.after > 0

Wait ==
    /\ \/ loop.pc = "wait"
       \/ loop.pc = "check" /\ ~ (loop.completed \/ Due(loop.pending) \/ Passed)
    /\ loop' = [loop EXCEPT !.pc = "poll", !.wait = Wake, !.defer = Defer]
    /\ UNCHANGED <<timer, socket, guard, seen, coming>>

SocketReady == ~ loop.defer /\ (socket.queue # <<>> \/ socket.overrun)

OperationReady == guard.op = "done"

Ready == SocketReady \/ OperationReady \/ guard.request

\* One batch is read; an overflow counts as an event.
Drain ==
    IF socket.overrun THEN socket' = [socket EXCEPT !.overrun = FALSE]
    ELSE LET rest == SubSeq(socket.queue, Batch + 1, Len(socket.queue))
         IN  socket' = [socket EXCEPT !.queue = rest, !.congested = @ /\ rest # <<>>]
Hint == socket.overrun \/ Relevant(SubSeq(socket.queue, 1, Least(Batch, Len(socket.queue))), loop.watch)

\* Wrong: what was put off is forgotten.
Remember_Last(hint) == hint

\* wait(...) || pending
Remember(hint) == hint \/ loop.pending

PollReturns ==
    /\ loop.pc = "poll"
    /\ Ready \/ Wake = 0
    /\ IF SocketReady THEN Drain ELSE UNCHANGED socket
    /\ LET hint == SocketReady /\ Hint
           rest == IF SocketReady /\ ~ hint /\ ~ OperationReady THEN Least(Pause, loop.wait) ELSE 0
       IN  loop' = [loop EXCEPT !.pc = "sleep", !.rest = rest, !.pending = Remember(hint),
                                !.completed = OperationReady, !.control = guard.request]
    /\ seen' = [seen EXCEPT !.idle = IF OperationReady \/ guard.request THEN 0 ELSE @ + 1]
    /\ UNCHANGED <<timer, guard, coming>>

Interrupted ==
    /\ loop.pc = "poll" /\ Spend("signals")
    /\ loop' = [loop EXCEPT !.pc = "check", !.pending = Remember(FALSE), !.completed = FALSE]
    /\ UNCHANGED <<timer, socket, guard, seen>>

WaitEnds ==
    /\ loop.pc = "sleep" /\ loop.rest = 0
    /\ \/ ~ loop.control /\ Enter("check", 0)
       \/ loop.control /\ \E time \in 0 .. ServeTime : Enter("serve", time)
    /\ UNCHANGED <<timer, socket, guard, seen, coming>>

\* DataControl::serve: a stop ends the loop; it is refused in an episode.
Serve ==
    /\ loop.pc = "serve" /\ loop.rest = 0
    /\ guard' = [guard EXCEPT !.request = FALSE]
    /\ \/ loop' = [loop EXCEPT !.pc = "check", !.control = FALSE]
       \/ ~ Open /\ loop' = [loop EXCEPT !.pc = "over", !.control = FALSE]
    /\ seen' = [seen EXCEPT !.idle = 0]
    /\ UNCHANGED <<timer, socket, coming>>

-----------------------------------------------------------------------------
Less(t) == IF t > 0 THEN t - 1 ELSE t

\* Time passes while the loop is blocked, until the first thing that unblocks it.
Tick ==
    /\ \/ loop.pc = "poll" /\ ~ Ready /\ Wake > 0
       \/ loop.pc \in {"step", "sleep", "serve"} /\ loop.rest > 0
    /\ loop' = [loop EXCEPT !.rest = Less(@)]
    /\ timer' = [timer EXCEPT !.next = Less(@), !.after = Less(@), !.deadline = Less(@)]
    /\ seen' = [seen EXCEPT !.age = IF seen.change # "none" /\ guard.op = "none" THEN @ + 1 ELSE @,
                            !.outcome = IF guard.op = "done" THEN @ + 1 ELSE 0,
                            !.late = IF Passed THEN @ + 1 ELSE 0,
                            !.check = Least(Gap, @ + 1), !.idle = 0]
    /\ UNCHANGED <<socket, guard, coming>>

LoopNext == \/ Step \/ StepEnds \/ Wait \/ PollReturns \/ Interrupted \/ WaitEnds \/ Serve \/ Tick
        \/ Break \/ Return \/ Noise \/ OperationEnds \/ Request

LoopSpec == LoopInit /\ [][LoopNext]_loopVars

-----------------------------------------------------------------------------
(* Properties. *)

\* The longest the loop stays away from its timers: a batch of unrelated events, a
\* request, a step.
Away == Pause + ServeTime + StepTime

\* A change that was announced is looked at soon: the check is put off by Gap at most,
\* behind the unrelated events that came before it and a request with each batch of them.
Batches == (Socket + Batch - 1) \div Batch
EventLeadsToCheck ==
    ~ Open /\ seen.change = "announced" =>
        seen.age <= Gap + Batches * (Pause + ServeTime) + StepTime + ServeTime

\* Any change, announced or not, is looked at within about a second (guard/DATA.md:21),
\* also in the pauses of an episode, whatever comes in between.
FallbackCheck ==
    seen.change # "none" => seen.age <= Period + Away

\* An episode whose time is up is given up at once, and the outcome of an operation is
\* taken at once, unless the loop is away - also while events are put off.  The outcome
\* may wait for two requests, the one during which the operation ended and the one that
\* came with it.
TakenOnTime == seen.late <= Away /\ seen.outcome <= Away + ServeTime

\* Events do not make the loop check more often than every Gap (100 ms), and an event
\* that is put off does not make it spin until its turn.
EventsArePaced ==
    [][/\ loop.pc = "check" /\ loop'.pc = "step" /\ ~ loop.completed /\ ~ Passed => seen.check = Gap
       /\ seen'.idle <= 1]_loopVars
=============================================================================
