------------------------------ MODULE Scheduler ------------------------------
(***************************************************************************)
(* internal/scheduler: one Scheduler, its workers, the goroutines that call *)
(* Submit and the one that calls Stop.                                      *)
(*                                                                          *)
(* A step is one access to what goroutines share: an atomic, a critical     *)
(* section of a queue, a channel operation.  The local deques are those of  *)
(* WorkDeque, which Deque is proved to implement; a steal still reads the   *)
(* oldest task in one step and takes it in a later one, so it may lose.     *)
(* The background queue's deadlines are left to SharedQueues: whether its   *)
(* oldest task has aged is a free choice here.                              *)
(***************************************************************************)
EXTENDS Integers, Sequences, FiniteSets, SequencesExt

CONSTANTS
  NumWorkers,   \* Config.Workers, after New's default
  LocalCap,     \* defaultLocalQueueCap
  MaxStandard,  \* Config.MaxStandardQueueDepth; 0 is unbounded
  MaxBackground,\* Config.MaxBackgroundQueueDepth; 0 is unbounded
  IdleSteals,   \* idleSteals
  Clients,      \* the goroutines outside the pool that call Submit
  Tasks,        \* the numbers of the tasks that may be submitted, each once
  Background,   \* those submitted with PriorityBackground
  Program,      \* Program[c]: what client c submits, in order
  Kids,         \* Kids[t]: what t's fn submits, in order
  Detached,     \* those it submits with another ctx than the one it was given
  Waits,        \* Waits[t]: the tasks whose Futures t's fn then waits for
  MayStop       \* whether somebody calls Stop

Workers == 0 .. NumWorkers - 1
Agents == Workers \cup Clients
None == 0

ASSUME SchedulerAssumption ==
  /\ NumWorkers \in Nat \ {0} /\ LocalCap \in Nat \ {0} /\ IdleSteals \in Nat \ {0}
  /\ MaxStandard \in Nat /\ MaxBackground \in Nat
  /\ Workers \cap Clients = {} /\ Tasks \subseteq Nat \ {None}
  /\ Background \subseteq Tasks /\ Detached \subseteq Tasks /\ MayStop \in BOOLEAN
  /\ Program \in [Clients -> Seq(Tasks)] /\ Kids \in [Tasks -> Seq(Tasks)]
  /\ Waits \in [Tasks -> SUBSET Tasks]

\* A task stands for one call of Submit: no two calls submit the same.
ASSUME SubmittedOnce ==
  /\ \A c, d \in Clients : \A i \in DOMAIN Program[c], j \in DOMAIN Program[d] :
       Program[c][i] = Program[d][j] => c = d /\ i = j
  /\ \A p, q \in Tasks : \A i \in DOMAIN Kids[p], j \in DOMAIN Kids[q] :
       Kids[p][i] = Kids[q][j] => p = q /\ i = j
  /\ \A c \in Clients, p \in Tasks : Range(Program[c]) \cap Range(Kids[p]) = {}

VARIABLES
  standard, background, \* s.standard, s.background: queued tasks, oldest first
  dq,                   \* dq[w]: worker w's local deque, oldest first
  wake,                 \* how many tokens s.wake buffers
  stop,                 \* how far Stop has come
  pc,                   \* where each agent is
  todo,                 \* todo[a]: what a's fn, or client a, has still to submit
  task,                 \* task[w]: the task whose fn worker w runs
  victims, pass, aim,   \* w's steal: peers left to try, pass, task read at the top
  fut,                  \* fut[t]: the state of t's Future
  runs,                 \* runs[t]: how often t's fn has been called
  stats                 \* the counters of Stats

queues == <<standard, background, dq>>
stealing == <<victims, pass, aim>>
vars == <<standard, background, dq, wake, stop, pc, todo, task, victims, pass, aim,
          fut, runs, stats>>

stopped == stop # "running"              \* s.stopped
stopClosed == stop \in {"closed", "returned"}  \* s.stop is closed
parked == {w \in Workers : pc[w] = "parked"}

Goto(a, l) == pc' = [pc EXCEPT ![a] = l]
Count(f) == stats' = [stats EXCEPT ![f] = @ + 1]
Resolve(t, r) == fut' = [fut EXCEPT ![t] = r]
Resolved(t) == fut[t] \in {"done", "stopped", "full"}

Init ==
  /\ standard = <<>> /\ background = <<>>
  /\ dq = [w \in Workers |-> <<>>]
  /\ wake = 0
  /\ stop = "running"
  /\ pc = [a \in Agents |-> IF a \in Workers THEN "local" ELSE "body"]
  /\ todo = [a \in Agents |-> IF a \in Workers THEN <<>> ELSE Program[a]]
  /\ task = [w \in Workers |-> None]
  /\ victims = [w \in Workers |-> <<>>]
  /\ pass = [w \in Workers |-> 0]
  /\ aim = [w \in Workers |-> None]
  /\ fut = [t \in Tasks |-> "none"]
  /\ runs = [t \in Tasks |-> 0]
  /\ stats = [submitted |-> 0, completed |-> 0, stolen |-> 0, aged |-> 0,
              rejectedStandard |-> 0, rejectedBackground |-> 0]
-----------------------------------------------------------------------------
(* Submit, called by a client, or by a task's fn on its worker *)

\* s.stopped is set: the Future is resolved with ErrStopped at once.
SubmitStopped(a) ==
  /\ pc[a] = "body" /\ todo[a] # <<>>
  /\ stopped
  /\ Resolve(Head(todo[a]), "stopped")
  /\ todo' = [todo EXCEPT ![a] = Tail(@)]
  /\ UNCHANGED <<queues, wake, stop, pc, task, stealing, runs, stats>>

\* workerFromContext: the ctx of this task names a's worker, and this Scheduler.
OwnContext(a, t) == a \in Workers /\ t \notin Detached

\* s.stopped is not set: on to schedule, which counts the task.
SubmitOpen(a) ==
  /\ pc[a] = "body" /\ todo[a] # <<>>
  /\ ~stopped
  /\ Resolve(Head(todo[a]), "pending")
  /\ Count("submitted")
  /\ Goto(a, IF OwnContext(a, Head(todo[a])) THEN "push" ELSE "shared")
  /\ UNCHANGED <<queues, wake, stop, todo, task, stealing, runs>>

\* Variant: returning without ringing the doorbell.
QueuedSilently(a) ==
  /\ todo' = [todo EXCEPT ![a] = Tail(@)]
  /\ Goto(a, "body")
  /\ UNCHANGED <<wake, stop, task, stealing, fut, runs, stats>>

\* The node has been queued: what is left of schedule is ringWake.
Queued(a) ==
  /\ todo' = [todo EXCEPT ![a] = Tail(@)]
  /\ Goto(a, "ring")
  /\ UNCHANGED <<wake, stop, task, stealing, fut, runs, stats>>

\* Variants: a local push that rings nobody, since the worker is awake itself; a
\* local push that goes on to the shared queues.
PushLocalSilently(w) ==
  /\ pc[w] = "push"
  /\ Len(dq[w]) < LocalCap
  /\ dq' = [dq EXCEPT ![w] = Append(@, Head(todo[w]))]
  /\ UNCHANGED <<standard, background>>
  /\ QueuedSilently(w)

PushLocalFallsThrough(w) ==
  /\ pc[w] = "push"
  /\ dq' = IF Len(dq[w]) < LocalCap THEN [dq EXCEPT ![w] = Append(@, Head(todo[w]))] ELSE dq
  /\ Goto(w, "shared")
  /\ UNCHANGED <<standard, background, wake, stop, todo, task, stealing, fut, runs, stats>>

PushLocal(w) ==
  /\ pc[w] = "push"
  /\ Len(dq[w]) < LocalCap
  /\ dq' = [dq EXCEPT ![w] = Append(@, Head(todo[w]))]
  /\ UNCHANGED <<standard, background>>
  /\ Queued(w)

Spill(w) ==
  /\ pc[w] = "push"
  /\ Len(dq[w]) >= LocalCap
  /\ Goto(w, "shared")
  /\ UNCHANGED <<queues, wake, stop, todo, task, stealing, fut, runs, stats>>

\* Variant: a cap that refuses the task that would fill the queue.
FullEarly(q, max) == max > 0 /\ Len(q) + 1 >= max

Full(q, max) == max > 0 /\ Len(q) >= max

PushStandard(a) ==
  /\ pc[a] = "shared" /\ Head(todo[a]) \notin Background
  /\ ~Full(standard, MaxStandard)
  /\ standard' = Append(standard, Head(todo[a]))
  /\ UNCHANGED <<background, dq>>
  /\ Queued(a)

PushBackground(a) ==
  /\ pc[a] = "shared" /\ Head(todo[a]) \in Background
  /\ ~Full(background, MaxBackground)
  /\ background' = Append(background, Head(todo[a]))
  /\ UNCHANGED <<standard, dq>>
  /\ Queued(a)

\* The queue is at its cap: counted, and the Future resolved with ErrQueueFull.
\* Nobody has the Future before Submit returns, so this is one step.
Rejected(a, counter) ==
  /\ Count(counter)
  /\ Resolve(Head(todo[a]), "full")
  /\ todo' = [todo EXCEPT ![a] = Tail(@)]
  /\ Goto(a, "body")
  /\ UNCHANGED <<queues, wake, stop, task, stealing, runs>>

RejectStandard(a) ==
  /\ pc[a] = "shared" /\ Head(todo[a]) \notin Background
  /\ Full(standard, MaxStandard)
  /\ Rejected(a, "rejectedStandard")

RejectBackground(a) ==
  /\ pc[a] = "shared" /\ Head(todo[a]) \in Background
  /\ Full(background, MaxBackground)
  /\ Rejected(a, "rejectedBackground")

\* ringWake.  A send on s.wake goes to a worker that waits in its select, or
\* else into the buffer, or else is dropped: the buffer holds NumWorkers tokens.
RingHandOff(a) ==
  /\ pc[a] = "ring"
  /\ \E w \in parked : pc' = [pc EXCEPT ![a] = "body", ![w] = "local"]
  /\ UNCHANGED <<queues, wake, stop, todo, task, stealing, fut, runs, stats>>

RingToken(a) ==
  /\ pc[a] = "ring" /\ parked = {}
  /\ wake' = IF wake < NumWorkers THEN wake + 1 ELSE wake
  /\ Goto(a, "body")
  /\ UNCHANGED <<queues, stop, todo, task, stealing, fut, runs, stats>>

Submit(a) ==
  \/ SubmitStopped(a) \/ SubmitOpen(a)
  \/ PushStandard(a) \/ PushBackground(a) \/ RejectStandard(a) \/ RejectBackground(a)
  \/ RingHandOff(a) \/ RingToken(a)
-----------------------------------------------------------------------------
(* worker.run and worker.findTask *)

\* findTask returns t, and run calls its fn.
Begin(w, t) ==
  /\ Goto(w, "body")
  /\ task' = [task EXCEPT ![w] = t]
  /\ todo' = [todo EXCEPT ![w] = Kids[t]]
  /\ runs' = [runs EXCEPT ![t] = @ + 1]
  /\ victims' = [victims EXCEPT ![w] = <<>>]
  /\ pass' = [pass EXCEPT ![w] = 0]
  /\ aim' = [aim EXCEPT ![w] = None]
  /\ UNCHANGED <<wake, stop, fut>>

PopLocal(w) ==
  /\ pc[w] = "local" /\ dq[w] # <<>>
  /\ Begin(w, Last(dq[w]))
  /\ dq' = [dq EXCEPT ![w] = Front(@)]
  /\ UNCHANGED <<standard, background, stats>>

\* The search goes on: nothing found where w just looked.
Search(w, from, to) ==
  /\ pc[w] = from
  /\ Goto(w, to)
  /\ UNCHANGED <<queues, wake, stop, todo, task, stealing, fut, runs, stats>>

LocalEmpty(w) == dq[w] = <<>> /\ Search(w, "local", "aged")

PopAged(w) ==
  /\ pc[w] = "aged" /\ background # <<>>
  /\ Begin(w, Head(background))
  /\ background' = Tail(background)
  /\ Count("aged")
  /\ UNCHANGED <<standard, dq>>

\* Empty, or the oldest task's deadline is still to come.
NotAged(w) == Search(w, "aged", "standard")

PopStandard(w) ==
  /\ pc[w] = "standard" /\ standard # <<>>
  /\ Begin(w, Head(standard))
  /\ standard' = Tail(standard)
  /\ UNCHANGED <<background, dq, stats>>

StandardEmpty(w) == standard = <<>> /\ Search(w, "standard", "background")

PopBackground(w) ==
  /\ pc[w] = "background" /\ background # <<>>
  /\ Begin(w, Head(background))
  /\ background' = Tail(background)
  /\ UNCHANGED <<standard, dq, stats>>

BackgroundEmpty(w) == background = <<>> /\ Search(w, "background", "pass")

\* The peers in the order steal tries them from a random start, passing over w.
Peers(w, start) ==
  [i \in 1 .. NumWorkers - 1 |->
     IF i <= (w - start) % NumWorkers THEN (start + i - 1) % NumWorkers
                                      ELSE (start + i) % NumWorkers]

BeginPass(w) ==
  /\ pc[w] = "pass" /\ pass[w] < IdleSteals
  /\ pass' = [pass EXCEPT ![w] = @ + 1]
  /\ \E start \in Workers : victims' = [victims EXCEPT ![w] = Peers(w, start)]
  /\ Goto(w, "steal")
  /\ UNCHANGED <<queues, wake, stop, todo, task, aim, fut, runs, stats>>

EndPass(w) == victims[w] = <<>> /\ Search(w, "steal", "pass")

\* findTask returns nil.
GiveUp(w) ==
  /\ pc[w] = "pass" /\ pass[w] = IdleSteals
  /\ pass' = [pass EXCEPT ![w] = 0]
  /\ Goto(w, "select")
  /\ UNCHANGED <<queues, wake, stop, todo, task, victims, aim, fut, runs, stats>>

\* popTop finds the peer's deque empty.
StealMiss(w) ==
  /\ pc[w] = "steal" /\ victims[w] # <<>>
  /\ dq[Head(victims[w])] = <<>>
  /\ victims' = [victims EXCEPT ![w] = Tail(@)]
  /\ UNCHANGED <<queues, wake, stop, pc, todo, task, pass, aim, fut, runs, stats>>

\* popTop reads the peer's oldest task.
StealAim(w) ==
  /\ pc[w] = "steal" /\ victims[w] # <<>>
  /\ dq[Head(victims[w])] # <<>>
  /\ aim' = [aim EXCEPT ![w] = Head(dq[Head(victims[w])])]
  /\ Goto(w, "cas")
  /\ UNCHANGED <<queues, wake, stop, todo, task, victims, pass, fut, runs, stats>>

\* Variant: a steal that takes whatever task it read if any is left.
StealableStale(w) == dq[Head(victims[w])] # <<>>

\* It is still the oldest: no other pop has moved top.
Stealable(w) == LET v == Head(victims[w]) IN dq[v] # <<>> /\ Head(dq[v]) = aim[w]

StealWin(w) ==
  /\ pc[w] = "cas" /\ Stealable(w)
  /\ Begin(w, aim[w])
  /\ dq' = [dq EXCEPT ![Head(victims[w])] = Tail(@)]
  /\ Count("stolen")
  /\ UNCHANGED <<standard, background>>

StealLose(w) ==
  /\ pc[w] = "cas" /\ ~Stealable(w)
  /\ victims' = [victims EXCEPT ![w] = Tail(@)]
  /\ aim' = [aim EXCEPT ![w] = None]
  /\ Goto(w, "steal")
  /\ UNCHANGED <<queues, wake, stop, todo, task, pass, fut, runs, stats>>

\* run's select: one of the channels is ready, or the worker parks.
TakeToken(w) ==
  /\ pc[w] = "select" /\ wake > 0
  /\ wake' = wake - 1
  /\ Goto(w, "local")
  /\ UNCHANGED <<queues, stop, todo, task, stealing, fut, runs, stats>>

Park(w) == wake = 0 /\ ~stopClosed /\ Search(w, "select", "parked")

Exit(w) ==
  /\ pc[w] = "leave" \/ (pc[w] = "select" /\ stopClosed)
  /\ Search(w, pc[w], "exited")

\* fn has submitted its children; if it waits for Futures they are resolved.
Ready(w) == pc[w] = "body" /\ todo[w] = <<>> /\ \A t \in Waits[task[w]] : Resolved(t)

\* Variant: closing the Future before the task is counted completed.
CompleteUncounted(w) ==
  /\ task[w] # None /\ Ready(w)
  /\ Resolve(task[w], "done")
  /\ Goto(w, "close")
  /\ UNCHANGED <<queues, wake, stop, todo, task, stealing, runs, stats>>

\* fn returns, and the node's closure counts the task completed ...
Complete(w) ==
  /\ task[w] # None /\ Ready(w)
  /\ Count("completed")
  /\ Goto(w, "close")
  /\ UNCHANGED <<queues, wake, stop, todo, task, stealing, fut, runs>>

\* Variant: a worker that looks at s.stop after every task.
CloseFutureOrLeave(w) ==
  /\ pc[w] = "close"
  /\ Resolve(task[w], "done")
  /\ task' = [task EXCEPT ![w] = None]
  /\ Goto(w, IF stopClosed THEN "leave" ELSE "local")
  /\ UNCHANGED <<queues, wake, stop, todo, stealing, runs, stats>>

\* ... and then closes the Future.
CloseFuture(w) ==
  /\ pc[w] = "close"
  /\ Resolve(task[w], "done")
  /\ task' = [task EXCEPT ![w] = None]
  /\ Goto(w, "local")
  /\ UNCHANGED <<queues, wake, stop, todo, stealing, runs, stats>>
-----------------------------------------------------------------------------
(* Stop *)

StopFlag ==
  /\ MayStop /\ stop = "running"
  /\ stop' = "flagged"
  /\ UNCHANGED <<queues, wake, pc, todo, task, stealing, fut, runs, stats>>

\* Variant: workers that wait for the doorbell only.
StopCloseUnheard ==
  /\ stop = "flagged"
  /\ stop' = "closed"
  /\ UNCHANGED <<queues, wake, pc, todo, task, stealing, fut, runs, stats>>

\* close(s.stop) readies every worker that waits in its select.
StopClose ==
  /\ stop = "flagged"
  /\ stop' = "closed"
  /\ pc' = [a \in Agents |-> IF a \in parked THEN "leave" ELSE pc[a]]
  /\ UNCHANGED <<queues, wake, todo, task, stealing, fut, runs, stats>>

StopReturn ==
  /\ stop = "closed"
  /\ \A w \in Workers : pc[w] = "exited"
  /\ stop' = "returned"
  /\ UNCHANGED <<queues, wake, pc, todo, task, stealing, fut, runs, stats>>
-----------------------------------------------------------------------------
Find(w) ==
  \/ PopLocal(w) \/ LocalEmpty(w) \/ PopAged(w) \/ NotAged(w)
  \/ PopStandard(w) \/ StandardEmpty(w) \/ PopBackground(w) \/ BackgroundEmpty(w)
  \/ BeginPass(w) \/ EndPass(w) \/ GiveUp(w)
  \/ StealMiss(w) \/ StealAim(w) \/ StealWin(w) \/ StealLose(w)

Worker(w) ==
  \/ Find(w) \/ TakeToken(w) \/ Park(w) \/ Exit(w)
  \/ Complete(w) \/ CloseFuture(w)
  \/ Submit(w) \/ PushLocal(w) \/ Spill(w)

Stopper == StopFlag \/ StopClose \/ StopReturn

Next ==
  \/ \E w \in Workers : Worker(w)
  \/ \E c \in Clients : Submit(c)
  \/ Stopper

Spec == Init /\ [][Next]_vars

\* Every goroutine that can go on does, whatever the other goroutines do.
Fairness ==
  /\ \A w \in Workers : WF_vars(Worker(w))
  /\ \A c \in Clients : WF_vars(Submit(c))
  /\ WF_vars(StopClose \/ StopReturn)

FairSpec == Spec /\ Fairness
-----------------------------------------------------------------------------
(* Properties *)

PCs == {"body", "push", "shared", "ring", "close", "local", "aged", "standard",
        "background", "pass", "steal", "cas", "select", "parked", "leave", "exited"}

\* Every variable keeps its type, the wake channel its capacity, and the two
\* shared queues and the deques their caps.
TypeOK ==
  /\ standard \in Seq(Tasks) /\ (MaxStandard > 0 => Len(standard) <= MaxStandard)
  /\ background \in Seq(Tasks) /\ (MaxBackground > 0 => Len(background) <= MaxBackground)
  /\ dq \in [Workers -> Seq(Tasks)] /\ \A w \in Workers : Len(dq[w]) <= LocalCap
  /\ wake \in 0 .. NumWorkers
  /\ stop \in {"running", "flagged", "closed", "returned"}
  /\ pc \in [Agents -> PCs]
  /\ todo \in [Agents -> Seq(Tasks)]
  /\ task \in [Workers -> Tasks \cup {None}]
  /\ victims \in [Workers -> Seq(Workers)]
  /\ pass \in [Workers -> 0 .. IdleSteals]
  /\ aim \in [Workers -> Tasks \cup {None}]
  /\ fut \in [Tasks -> {"none", "pending", "done", "stopped", "full"}]
  /\ runs \in [Tasks -> Nat]
  /\ DOMAIN stats = {"submitted", "completed", "stolen", "aged", "rejectedStandard",
                     "rejectedBackground"}
  /\ \A f \in DOMAIN stats : stats[f] \in Nat

\* Where task t is: its positions in the queues, and the workers that run it.
Places(t) ==
  {<<"standard", i>> : i \in {j \in DOMAIN standard : standard[j] = t}}
    \cup {<<"background", i>> : i \in {j \in DOMAIN background : background[j] = t}}
    \cup (UNION {{<<"local", w, i>> : i \in {j \in DOMAIN dq[w] : dq[w][j] = t}} : w \in Workers})
    \cup {<<"running", w>> : w \in {v \in Workers : task[v] = t}}

Running(t) == \E w \in Workers : task[w] = t
InShared(t) == t \in Range(standard) \cup Range(background)
Waiting(t) == InShared(t) \/ \E w \in Workers : t \in Range(dq[w])
BeingSubmitted(t) ==
  \E a \in Agents : pc[a] \in {"push", "shared"} /\ Head(todo[a]) = t

\* An accepted task is in exactly one place until its Future is resolved, however
\* it is spilled, stolen, or raced for, and its fn is called exactly once; one
\* that was rejected or stopped is nowhere and never runs.
ExactlyOnce ==
  \A t \in Tasks :
    /\ Cardinality(Places(t)) = IF fut[t] = "pending" /\ ~BeingSubmitted(t) THEN 1 ELSE 0
    /\ runs[t] = IF fut[t] = "done" \/ Running(t) THEN 1 ELSE 0

\* The counters balance: every task counted as submitted was completed or
\* rejected, or is still unfinished; and a task is counted completed before its
\* Future is closed (scheduler.go:221-226), so never too late for who waited.
StatsBalance ==
  LET closing == {w \in Workers : pc[w] = "close"}
      in(r) == {t \in Tasks : fut[t] = r}
  IN /\ stats.completed = Cardinality(in("done")) + Cardinality(closing)
     /\ stats.rejectedStandard + stats.rejectedBackground = Cardinality(in("full"))
     /\ stats.submitted = stats.completed + Cardinality(in("full"))
          + Cardinality(in("pending")) - Cardinality(closing)

\* A worker whose fn waits for a Future that is not resolved.
Blocked(w) == pc[w] = "body" /\ todo[w] = <<>> /\ ~Ready(w)

\* Who will yet look for a task, or ring for the one it has just queued.
Active(a) ==
  IF a \in Workers THEN pc[a] \notin {"parked", "leave", "exited"} /\ ~Blocked(a)
                   ELSE pc[a] = "ring"

\* Tasks wait, if at all, for what they have submitted themselves (README 376-383).
WaitsForOwnKids == \A t \in Tasks : Waits[t] \subseteq Range(Kids[t])

\* No lost wake-up: while a worker is parked no queued task is left to itself.
\* Tokens coalesce and a thief may lose its race, but some goroutine is always
\* still going to look for the task or to ring the doorbell (README 401-413), if
\* WaitsForOwnKids: MCSchedulerIdle shows what happens otherwise.
NoIdleForever ==
  parked # {} /\ (\E t \in Tasks : Waiting(t)) => \E a \in Agents : Active(a)

\* What Stop abandons was in a shared queue: a worker does not exit, or park,
\* over children in its own deque, and no fn is cut short.
AbandonsOnlyShared ==
  /\ \A w \in Workers : pc[w] \in {"parked", "leave", "exited"} => dq[w] = <<>> /\ task[w] = None
  /\ stop = "returned" =>
       \A t \in Tasks : fut[t] = "pending" => InShared(t) \/ BeingSubmitted(t)

\* The inductive invariant of the proofs: BaseInv, TaskInv and WakeInv, which
\* Scheduler_proofs shows inductive in this order.
Serving == {"body", "push", "shared", "ring", "close"}
BeyondLocal == PCs \ (Serving \cup {"local"})
Placed(t) == Waiting(t) \/ Running(t) \/ BeingSubmitted(t)

\* An agent that pushes has something to push, and clients do nothing else.
AgentInv ==
  /\ \A a \in Agents : pc[a] \in {"push", "shared"} => todo[a] # <<>>
  /\ \A c \in Clients : pc[c] \in {"body", "shared", "ring"}

\* A worker holds a task exactly from when it was found until its Future is closed,
\* and has left its own deque empty once it has gone on to look elsewhere.
WorkerInv ==
  \A w \in Workers :
    /\ task[w] # None <=> pc[w] \in Serving
    /\ pc[w] \in BeyondLocal => dq[w] = <<>>
    /\ pc[w] = "cas" => victims[w] # <<>>

\* Stop returns to a pool without workers, and no pending task has dropped out.
StopInv == stop = "returned" => \A w \in Workers : pc[w] = "exited"
NoneDropped == \A t \in Tasks : fut[t] = "pending" => Placed(t)

BaseInv == TypeOK /\ AgentInv /\ WorkerInv /\ StopInv /\ NoneDropped

\* Who may hold a task: a queue, a worker that runs it, an agent that has still to
\* submit it, or a task not begun whose fn will.
InStandard == <<"standard", 0>>
InBackground == <<"background", 0>>
InDeque(w) == <<"deque", w>>
RunBy(w) == <<"running", w>>
TodoOf(a) == <<"todo", a>>
KidOf(p) == <<"kid", p>>

Holders ==
  {InStandard, InBackground} \cup {InDeque(w) : w \in Workers} \cup {RunBy(w) : w \in Workers}
    \cup {TodoOf(a) : a \in Agents} \cup {KidOf(p) : p \in Tasks}

Held(h) ==
  CASE h[1] = "standard" -> Range(standard)
    [] h[1] = "background" -> Range(background)
    [] h[1] = "deque" -> Range(dq[h[2]])
    [] h[1] = "running" -> {task[h[2]]} \ {None}
    [] h[1] = "todo" -> Range(todo[h[2]])
    [] h[1] = "kid" -> IF runs[h[2]] = 0 THEN Range(Kids[h[2]]) ELSE {}

\* No task is held by two, nor twice by one.
OneHolder ==
  /\ \A g, h \in Holders : g # h => Held(g) \cap Held(h) = {}
  /\ IsInjective(standard) /\ IsInjective(background)
  /\ \A w \in Workers : IsInjective(dq[w])
  /\ \A a \in Agents : IsInjective(todo[a])

\* A Future is made when its task is submitted, is pending while somebody holds the
\* task, and the fn has been called when it is done, or while it runs.
Unsubmitted(t) ==
  \/ \E p \in Tasks : runs[p] = 0 /\ t \in Range(Kids[p])
  \/ \E a \in Agents : t \in Range(todo[a]) /\ ~(pc[a] \in {"push", "shared"} /\ t = Head(todo[a]))

FutureInv ==
  /\ \A t \in Tasks :
       /\ Unsubmitted(t) => fut[t] = "none"
       /\ Placed(t) => fut[t] = "pending"
       /\ runs[t] = IF fut[t] = "done" \/ Running(t) THEN 1 ELSE 0
  /\ IsFiniteSet({t \in Tasks : fut[t] # "none"})

\* A worker submits while it runs a fn, and a fn ends when all is submitted.
SubmitsInFn ==
  \A w \in Workers :
    /\ pc[w] \notin Serving \ {"close"} => todo[w] = <<>>
    /\ task[w] # None =>
         \A k \in Range(Kids[task[w]]) : fut[k] # "none" \/ k \in Range(todo[w])

TaskInv == OneHolder /\ FutureInv /\ SubmitsInFn

\* A worker whose search has left nothing queued behind it, and that will not leave
\* anything: it meets the task it aims at, or comes to every deque again.
MissedNothing(w) ==
  /\ pc[w] \in {"local", "aged", "standard", "background", "pass", "steal", "cas"}
  /\ pc[w] \in {"background", "pass", "steal", "cas"} => standard = <<>>
  /\ pc[w] \in {"pass", "steal", "cas"} => background = <<>>
  /\ pass[w] = IdleSteals =>
       \A v \in Workers : dq[v] # <<>> =>
         pc[w] # "pass" /\ (pc[w] \in {"steal", "cas"} => v \in Range(victims[w]))
  /\ pc[w] = "cas" => Stealable(w)

\* A worker whose fn has nothing pending to wait for but what it is just submitting.
Unworried(w) ==
  /\ pc[w] \in Serving
  /\ \A k \in Waits[task[w]] :
       fut[k] = "pending" => pc[w] \in {"push", "shared"} /\ k = Head(todo[w])

Queues == standard # <<>> \/ background # <<>> \/ \E w \in Workers : dq[w] # <<>>

\* Who sees to what is queued: an agent about to ring, a token, a worker that will
\* find it or is going to search again.  Nobody parks over a token, and every search
\* has all its passes before it.
WakeInv ==
  /\ parked # {} => wake = 0
  /\ \A w \in Workers : pc[w] \notin {"pass", "steal", "cas"} => pass[w] = 0
  /\ Queues => \/ wake > 0
               \/ \E a \in Agents : pc[a] = "ring"
               \/ \E w \in Workers : MissedNothing(w) \/ Unworried(w)

IInv == BaseInv /\ TaskInv /\ (WaitsForOwnKids => WakeInv)

\* Every accepted task's Future is resolved at last, also children of a task that
\* blocks its worker until they are done, unless somebody calls Stop or, for good,
\* as many tasks wait for others as there are workers (README 376-383); again, if
\* WaitsForOwnKids.
AcceptedResolves ==
  \A t \in Tasks :
    fut[t] = "pending" ~> Resolved(t) \/ stopped \/ [](\A w \in Workers : Blocked(w))

\* Stop returns, unless a fn waits for good for a Future that Stop has abandoned.
StopReturns ==
  stop = "flagged" ~> stop = "returned" \/ [](\E w \in Workers : Blocked(w))

\* The smallest depth cap in force; 0 if neither shared queue has one.
SmallestCap ==
  LET caps == {MaxStandard, MaxBackground} \ {0}
  IN IF caps = {} THEN 0 ELSE Min(caps)

AsPool == INSTANCE Pool WITH
  Cap <- SmallestCap,
  running <- {task[w] : w \in Workers} \ {None},
  stop <- CASE stop = "running" -> "running"
            [] stop \in {"flagged", "closed"} -> "stopping"
            [] OTHER -> "returned"

\* With all its queues, steals and tokens, a Scheduler is a Pool: a task runs once,
\* only in a free worker and never after Stop has returned; ErrStopped comes only
\* after Stop was called; and ErrQueueFull only with a full queue of tasks that
\* wait, themselves neither refused nor run already.
ImplementsPool == AsPool!Spec
=============================================================================
