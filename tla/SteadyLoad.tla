----------------------------- MODULE SteadyLoad -----------------------------
(***************************************************************************)
(* A Scheduler under load that never ends: tasks keep arriving in both      *)
(* shared queues, and running tasks keep submitting children.  What is left *)
(* of ageing's promise of a bounded wait then, and at whose expense is it?  *)
(*                                                                          *)
(* Times are relative, so that behaviours go on for ever in finitely many   *)
(* states: a queued background task carries how long its deadline is still  *)
(* to come.  A task's name can be submitted again once it has been served.  *)
(***************************************************************************)
EXTENDS Integers, Sequences, SequencesExt

CONSTANTS
  Standard,   \* the names of the tasks submitted with PriorityStandard
  Background, \* and of those submitted with PriorityBackground
  Workers,
  LocalCap,   \* the capacity of a worker's deque
  Threshold,  \* Config.AgingThreshold
  Jitter,     \* Config.AgingJitter, as clamped by New
  MaxLag      \* bound: ticks between a goroutine's time.Now() and its next lock

ASSUME SteadyLoadAssumption ==
  /\ LocalCap \in Nat /\ Threshold \in Nat /\ Jitter \in 0 .. Threshold /\ MaxLag \in Nat

VARIABLES
  standard,   \* s.standard.buf: tasks, oldest first
  background, \* s.background.buf: [task, left], oldest first; left is the time to
              \* the deadline, and once that has passed by MaxLag is counted no more
  local,      \* local[w]: how many tasks wait in w's deque
  pc,         \* where each worker is: in findTask, or in a task's fn
  lag         \* lag[w]: how old the time is that findTask read for popAged

vars == <<standard, background, local, pc, lag>>

Init ==
  /\ standard = <<>> /\ background = <<>>
  /\ local = [w \in Workers |-> 0]
  /\ pc = [w \in Workers |-> "local"]
  /\ lag = [w \in Workers |-> 0]

Tick ==
  /\ \A w \in Workers : pc[w] = "aged" => lag[w] < MaxLag
  /\ background' = [i \in DOMAIN background |->
                      [background[i] EXCEPT !.left = Max({@ - 1, -MaxLag})]]
  /\ lag' = [w \in Workers |-> IF pc[w] = "aged" THEN lag[w] + 1 ELSE 0]
  /\ UNCHANGED <<standard, local, pc>>
-----------------------------------------------------------------------------
(* Submit: as often and as fast as anybody likes *)

SubmitStandard(t) ==
  /\ t \notin Range(standard)
  /\ standard' = Append(standard, t)
  /\ UNCHANGED <<background, local, pc, lag>>

Queued(t) == \E i \in DOMAIN background : background[i].task = t

\* push subtracts its jitter; schedule may have read the clock a while ago.
SubmitBackground(t) ==
  /\ ~Queued(t)
  /\ \E j \in 0 .. Jitter, l \in 0 .. MaxLag :
       background' = Append(background, [task |-> t, left |-> Threshold - j - l])
  /\ UNCHANGED <<standard, local, pc, lag>>

\* The fn that w runs submits a child with its ctx.  One that finds the deque full
\* goes to a shared queue, like any other.
SubmitChild(w) ==
  /\ pc[w] = "fn" /\ local[w] < LocalCap
  /\ local' = [local EXCEPT ![w] = @ + 1]
  /\ UNCHANGED <<standard, background, pc, lag>>
-----------------------------------------------------------------------------
(* findTask, and run, which calls fn and searches again *)

Move(w, from, to) == pc[w] = from /\ pc' = [pc EXCEPT ![w] = to]
Look(w, from, to) == Move(w, from, to) /\ UNCHANGED <<standard, background, local, lag>>

PopLocal(w) ==
  /\ local[w] > 0 /\ Move(w, "local", "fn")
  /\ local' = [local EXCEPT ![w] = @ - 1]
  /\ UNCHANGED <<standard, background, lag>>

\* The clock is read for popAged.
LocalEmpty(w) == local[w] = 0 /\ Look(w, "local", "aged")

\* Variant: a deadline that must still be to come.
AgedReversed(left, l) == left + l > 0

\* Whether a task had passed its deadline l ticks ago.
Aged(left, l) == left + l <= 0

PopAged(w) ==
  /\ background # <<>> /\ Aged(Head(background).left, lag[w])
  /\ Move(w, "aged", "fn")
  /\ background' = Tail(background)
  /\ lag' = [lag EXCEPT ![w] = 0]
  /\ UNCHANGED <<standard, local>>

\* Variant: the background queue before the standard one, aged or not.
NotAgedYetServed(w) ==
  /\ Move(w, "aged", "background")
  /\ lag' = [lag EXCEPT ![w] = 0]
  /\ UNCHANGED <<standard, background, local>>

NotAged(w) ==
  /\ background # <<>> => ~Aged(Head(background).left, lag[w])
  /\ Move(w, "aged", "standard")
  /\ lag' = [lag EXCEPT ![w] = 0]
  /\ UNCHANGED <<standard, background, local>>

PopStandard(w) ==
  /\ standard # <<>> /\ Move(w, "standard", "fn")
  /\ standard' = Tail(standard)
  /\ UNCHANGED <<background, local, lag>>

StandardEmpty(w) == standard = <<>> /\ Look(w, "standard", "background")

PopBackground(w) ==
  /\ background # <<>> /\ Move(w, "background", "fn")
  /\ background' = Tail(background)
  /\ UNCHANGED <<standard, local, lag>>

BackgroundEmpty(w) == background = <<>> /\ Look(w, "background", "steal")

\* The passes over the peers' deques.
Steal(w) ==
  /\ Move(w, "steal", "fn")
  /\ \E v \in Workers \ {w} : local[v] > 0 /\ local' = [local EXCEPT ![v] = @ - 1]
  /\ UNCHANGED <<standard, background, lag>>

\* Nothing anywhere: w searches again, at once or when the doorbell rings, which
\* Scheduler shows that it does.
NothingFound(w) == (\A v \in Workers \ {w} : local[v] = 0) /\ Look(w, "steal", "local")

\* fn returns.
Return(w) == Look(w, "fn", "local")
-----------------------------------------------------------------------------
Worker(w) ==
  \/ PopLocal(w) \/ LocalEmpty(w) \/ PopAged(w) \/ NotAged(w) \/ PopStandard(w)
  \/ StandardEmpty(w) \/ PopBackground(w) \/ BackgroundEmpty(w)
  \/ Steal(w) \/ NothingFound(w) \/ Return(w)

Arrival ==
  \/ \E t \in Standard : SubmitStandard(t)
  \/ \E t \in Background : SubmitBackground(t)
  \/ \E w \in Workers : SubmitChild(w)

Next == Tick \/ Arrival \/ \E w \in Workers : Worker(w)

\* Time passes, and workers go on: fns return.  Nobody has to submit anything.
Fairness == WF_vars(Tick) /\ \A w \in Workers : WF_vars(Worker(w))

FairSpec == Init /\ [][Next]_vars /\ Fairness
-----------------------------------------------------------------------------
(* Properties *)

\* findTask returns what its worker's own deque holds before it looks at any
\* deadline (worker.go:86-88), although run's comment has it re-check popAged on
\* every iteration (worker.go:52-61): while the tasks of all workers keep
\* submitting children, nothing bounds the wait in a shared queue.
PastOwnDeque == \E w \in Workers : []<>(pc[w] = "aged")

\* Ageing works: as long as some worker gets past its own deque again and again,
\* each background task is served, however many standard tasks keep arriving
\* (scheduler.go:12-16).
BackgroundServed ==
  PastOwnDeque => \A t \in Background : Queued(t) ~> ~Queued(t)

\* Standard tasks pay for it: nothing ages them, and only if tasks are served
\* aged for ever may one wait for ever, PriorityStandard being less than safe
\* from starvation (scheduler/README.md:232-234).
StandardServed ==
  PastOwnDeque /\ ~[]<><<\E w \in Workers : PopAged(w)>>_vars =>
    \A t \in Standard : t \in Range(standard) ~> t \notin Range(standard)
=============================================================================
