---------------------------- MODULE SharedQueues ----------------------------
(***************************************************************************)
(* The two shared queues of a Scheduler in time: the standard queue         *)
(* (injector.go), the background queue and its deadlines (aging.go), and    *)
(* the order in which findTask tries them (worker.go).  Time passes between *)
(* any two steps, also between a goroutine's time.Now() and the lock it     *)
(* takes next: push and popAged are given a reading of the clock that may   *)
(* be old, and readings reach the queue out of order.                       *)
(***************************************************************************)
EXTENDS Integers, Sequences

CONSTANTS
  Threshold,     \* Config.AgingThreshold; not positive: aging is "disabled"
  AgingJitter,   \* Config.AgingJitter
  MaxStandard,   \* Config.MaxStandardQueueDepth; 0 is unbounded
  MaxBackground, \* Config.MaxBackgroundQueueDepth; 0 is unbounded
  Submitters,    \* the goroutines that call schedule
  Workers,       \* the workers, all with empty local deques
  MaxTime,       \* bound: when the clock stops
  MaxTasks       \* bound: how many tasks are submitted

ASSUME SharedQueuesAssumption ==
  /\ Threshold \in Int /\ AgingJitter \in Int
  /\ MaxStandard \in Nat /\ MaxBackground \in Nat
  /\ MaxTime \in Nat /\ MaxTasks \in Nat

Tasks == 1 .. MaxTasks
Nil == 0

\* Variant: New passing the jitter on without clamping it.
JitterUnclamped == AgingJitter

\* New clamps the jitter to the threshold.
Jitter == IF AgingJitter > Threshold THEN Threshold ELSE AgingJitter

VARIABLES
  now,        \* the clock
  standard,   \* s.standard.buf: tasks, oldest first
  background, \* s.background.buf: agingNodes, oldest first, with the times at
              \* which each task's schedule read the clock and it was queued
  spc, held, sclock,  \* submitters: where they are, their task, the time they read
  wpc, wclock,        \* workers: where findTask is, the time it read
  next,       \* the next task to be submitted
  aged        \* s.aged

queues == <<standard, background>>
submitterVars == <<spc, held, sclock>>
workerVars == <<wpc, wclock>>
vars == <<now, standard, background, spc, held, sclock, wpc, wclock, next, aged>>

Init ==
  /\ now = 0
  /\ standard = <<>> /\ background = <<>>
  /\ spc = [c \in Submitters |-> "idle"]
  /\ held = [c \in Submitters |-> Nil]
  /\ sclock = [c \in Submitters |-> 0]
  /\ wpc = [w \in Workers |-> "search"]
  /\ wclock = [w \in Workers |-> 0]
  /\ next = 1
  /\ aged = 0

Tick ==
  /\ now < MaxTime
  /\ now' = now + 1
  /\ UNCHANGED <<queues, submitterVars, workerVars, next, aged>>
-----------------------------------------------------------------------------
(* schedule's path to the shared queues *)

\* Variant: a cap that lets one task too many in.
FullLate(q, max) == max > 0 /\ Len(q) > max

Full(q, max) == max > 0 /\ Len(q) >= max

\* injector.push, or its refusal: the task is not queued anywhere.
SubmitStandard(c) ==
  /\ spc[c] = "idle" /\ next \in Tasks
  /\ standard' = IF Full(standard, MaxStandard) THEN standard ELSE Append(standard, next)
  /\ next' = next + 1
  /\ UNCHANGED <<now, background, submitterVars, workerVars, aged>>

\* schedule calls time.Now() before background.push takes its lock.
ReadClock(c) ==
  /\ spc[c] = "idle" /\ next \in Tasks
  /\ spc' = [spc EXCEPT ![c] = "push"]
  /\ held' = [held EXCEPT ![c] = next]
  /\ sclock' = [sclock EXCEPT ![c] = now]
  /\ next' = next + 1
  /\ UNCHANGED <<now, queues, workerVars, aged>>

Returns(c) ==
  /\ spc' = [spc EXCEPT ![c] = "idle"]
  /\ held' = [held EXCEPT ![c] = Nil]
  /\ sclock' = [sclock EXCEPT ![c] = 0]

\* What push may subtract from the deadline of one task.
Jitters == IF Jitter > 0 THEN 0 .. Jitter ELSE {0}

\* Variant: jitter that pushes a deadline back.
DeadlineLater(time, j) == time + Threshold + j

Deadline(time, j) == time + Threshold - j

PushBackground(c) ==
  /\ spc[c] = "push"
  /\ ~Full(background, MaxBackground)
  /\ \E j \in Jitters :
       background' = Append(background,
         [task |-> held[c], deadline |-> Deadline(sclock[c], j), read |-> sclock[c], at |-> now])
  /\ Returns(c)
  /\ UNCHANGED <<now, standard, workerVars, next, aged>>

RejectBackground(c) ==
  /\ spc[c] = "push"
  /\ Full(background, MaxBackground)
  /\ Returns(c)
  /\ UNCHANGED <<now, queues, workerVars, next, aged>>
-----------------------------------------------------------------------------
(* findTask, steps 2 to 4; a worker that found a task searches again later *)

\* findTask calls time.Now() before popAged takes its lock.
SearchClock(w) ==
  /\ wpc[w] = "search"
  /\ wpc' = [wpc EXCEPT ![w] = "aged"]
  /\ wclock' = [wclock EXCEPT ![w] = now]
  /\ UNCHANGED <<now, queues, submitterVars, next, aged>>

\* Where the search goes on, or ends.
Goto(w, l) ==
  /\ wpc' = [wpc EXCEPT ![w] = l]
  /\ wclock' = IF l = "search" THEN [wclock EXCEPT ![w] = 0] ELSE wclock
  /\ UNCHANGED <<now, submitterVars, next>>

\* Variant: aging one tick too late.
AgedLate(n, time) == n.deadline < time

Aged(n, time) == n.deadline <= time

PopAged(w) ==
  /\ wpc[w] = "aged"
  /\ background # <<>> /\ Aged(Head(background), wclock[w])
  /\ background' = Tail(background)
  /\ aged' = aged + 1
  /\ Goto(w, "search")
  /\ UNCHANGED standard

NotAged(w) ==
  /\ wpc[w] = "aged"
  /\ background # <<>> => ~Aged(Head(background), wclock[w])
  /\ Goto(w, "standard")
  /\ UNCHANGED <<queues, aged>>

PopStandard(w) ==
  /\ wpc[w] = "standard" /\ standard # <<>>
  /\ standard' = Tail(standard)
  /\ Goto(w, "search")
  /\ UNCHANGED <<background, aged>>

StandardEmpty(w) ==
  /\ wpc[w] = "standard" /\ standard = <<>>
  /\ Goto(w, "background")
  /\ UNCHANGED <<queues, aged>>

PopBackground(w) ==
  /\ wpc[w] = "background" /\ background # <<>>
  /\ background' = Tail(background)
  /\ Goto(w, "search")
  /\ UNCHANGED <<standard, aged>>

BackgroundEmpty(w) ==
  /\ wpc[w] = "background" /\ background = <<>>
  /\ Goto(w, "search")
  /\ UNCHANGED <<queues, aged>>
-----------------------------------------------------------------------------
Submitter(c) ==
  SubmitStandard(c) \/ ReadClock(c) \/ PushBackground(c) \/ RejectBackground(c)

Worker(w) ==
  \/ SearchClock(w) \/ PopAged(w) \/ NotAged(w) \/ PopStandard(w)
  \/ StandardEmpty(w) \/ PopBackground(w) \/ BackgroundEmpty(w)

Next ==
  \/ Tick
  \/ \E c \in Submitters : Submitter(c)
  \/ \E w \in Workers : Worker(w)

Spec == Init /\ [][Next]_vars
-----------------------------------------------------------------------------
(* Properties *)

Nodes == [task : Tasks, deadline : Int, read : Nat, at : Nat]

\* Every variable keeps its type, the queues their caps, although many
\* goroutines push at once, and nobody's clock is ahead of time.
TypeOK ==
  /\ now \in Nat /\ aged \in Nat /\ next \in 1 .. MaxTasks + 1
  /\ standard \in Seq(Tasks) /\ (MaxStandard > 0 => Len(standard) <= MaxStandard)
  /\ background \in Seq(Nodes) /\ (MaxBackground > 0 => Len(background) <= MaxBackground)
  /\ spc \in [Submitters -> {"idle", "push"}]
  /\ held \in [Submitters -> Tasks \cup {Nil}]
  /\ \A c \in Submitters : spc[c] = "push" => held[c] \in Tasks
  /\ sclock \in [Submitters -> Nat] /\ \A c \in Submitters : sclock[c] <= now
  /\ wpc \in [Workers -> {"search", "aged", "standard", "background"}]
  /\ wclock \in [Workers -> Nat] /\ \A w \in Workers : wclock[w] <= now

\* The queue in time: nodes are queued in order, each after its clock reading,
\* although the readings themselves may be out of order.
QueuedInOrder ==
  /\ \A i \in 1 .. Len(background) :
       background[i].read <= background[i].at /\ background[i].at <= now
  /\ \A i, j \in 1 .. Len(background) : i <= j => background[i].at <= background[j].at

\* A deadline lies between the time read and the threshold after it: jitter
\* neither widens the bound nor, clamped, ages a task before it is submitted.
DeadlineInBounds ==
  Threshold >= 0 =>
    \A i \in 1 .. Len(background) :
      /\ background[i].read <= background[i].deadline
      /\ background[i].deadline <= background[i].read + Threshold

\* The wait is bounded: when a background task has been queued for Threshold,
\* every task ahead of it has aged too, so popAged serves them all, whatever
\* jitter each drew and in whatever order the clock was read (aging.go:47-55).
AheadHasAged ==
  \A i, j \in 1 .. Len(background) :
    i <= j => background[i].deadline <= background[j].at + Threshold

\* A worker goes on to the standard queue only if, when it read the clock, no
\* background task had been queued for Threshold: from then on a background
\* task is overtaken by at most the one task each worker was already after.
StandardWaitsForAged ==
  Threshold > 0 =>
    \A w \in Workers : wpc[w] \in {"standard", "background"} =>
      \A j \in 1 .. Len(background) : background[j].at + Threshold > wclock[w]

\* The inductive invariant of the proofs (SharedQueues_proofs.tla).
IInv ==
  TypeOK /\ QueuedInOrder /\ DeadlineInBounds /\ AheadHasAged /\ StandardWaitsForAged

\* "<=0 disables aging: PriorityBackground tasks are then served only once the
\* Standard queue is empty, with no promotion" (scheduler.go:104-106).
DisabledMeansNoPromotion == Threshold <= 0 => aged = 0
=============================================================================
