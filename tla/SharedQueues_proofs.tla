------------------------- MODULE SharedQueues_proofs -------------------------
(***************************************************************************)
(* Proofs about SharedQueues for every threshold, jitter, depth cap and set *)
(* of goroutines, and for any passing of time: IInv is inductive, and the   *)
(* bound on a background task's wait is part of it.                         *)
(***************************************************************************)
EXTENDS SharedQueues, SequenceTheorems, TLAPS

USE SharedQueuesAssumption

\* The conjuncts of IInv that are about the background queue alone.
QueueInv == background \in Seq(Nodes) /\ QueuedInOrder /\ DeadlineInBounds /\ AheadHasAged

\* Jitter is never negative, nor more than a positive threshold.
LEMMA JittersInBounds ==
  /\ Jitters \subseteq Int
  /\ Threshold >= 0 => \A j \in Jitters : 0 <= j /\ j <= Threshold
  /\ \A j \in Jitters : 0 <= j
BY DEF Jitters, Jitter

\* The queues start empty.
LEMMA InitIInv == Init => IInv
BY DEF Init, IInv, TypeOK, Tasks, Nil, QueuedInOrder, DeadlineInBounds, AheadHasAged,
       StandardWaitsForAged

\* The queue's part of the invariant survives any step that leaves the queue.
LEMMA QueueUnchanged ==
  ASSUME IInv, UNCHANGED background, now' \in Nat, now <= now'
  PROVE  QueueInv'
<1> USE DEF IInv, TypeOK, QueueInv
<1>1. \A i \in 1 .. Len(background) : background[i] \in Nodes
  OBVIOUS
<1>2. QueuedInOrder'
  BY <1>1 DEF QueuedInOrder, Nodes
<1>3. DeadlineInBounds' /\ AheadHasAged'
  BY DEF DeadlineInBounds, AheadHasAged
<1> QED BY <1>2, <1>3

\* Taking the oldest node leaves the others in order.
LEMMA TailKeeps ==
  ASSUME IInv, background # <<>>, background' = Tail(background), UNCHANGED now
  PROVE  /\ QueueInv'
         /\ Len(background') = Len(background) - 1
         /\ \A i \in 1 .. Len(background') : background'[i] = background[i + 1]
<1> USE DEF IInv, TypeOK, QueueInv
<1>1. /\ background' \in Seq(Nodes) /\ Len(background') = Len(background) - 1
      /\ \A i \in 1 .. Len(background') : background'[i] = background[i + 1]
  OBVIOUS
<1>2. Len(background) \in Nat
  OBVIOUS
<1>3. \A i \in 1 .. Len(background') : i + 1 \in 1 .. Len(background)
  BY <1>1, <1>2
<1>4. QueuedInOrder'
  BY <1>1, <1>2, <1>3 DEF QueuedInOrder
<1>5. DeadlineInBounds'
  BY <1>1, <1>2, <1>3 DEF DeadlineInBounds
<1>6. AheadHasAged'
  <2> SUFFICES ASSUME NEW i \in 1 .. Len(background'), NEW k \in 1 .. Len(background'), i <= k
               PROVE background'[i].deadline <= background'[k].at + Threshold
    BY DEF AheadHasAged
  <2>1. i + 1 \in 1 .. Len(background) /\ k + 1 \in 1 .. Len(background) /\ i + 1 <= k + 1
    BY <1>1, <1>2
  <2>2. background[i + 1].deadline <= background[k + 1].at + Threshold
    BY <2>1 DEF AheadHasAged
  <2> QED BY <1>1, <2>2
<1> QED BY <1>1, <1>4, <1>5, <1>6

\* A node queued now, read from the clock earlier, keeps the queue in order.
LEMMA AppendKeeps ==
  ASSUME IInv, UNCHANGED now, NEW t \in Tasks, NEW j \in Jitters,
         NEW time \in Nat, time <= now,
         background' = Append(background,
           [task |-> t, deadline |-> Deadline(time, j), read |-> time, at |-> now])
  PROVE  /\ QueueInv'
         /\ Len(background') = Len(background) + 1
         /\ \A i \in 1 .. Len(background) : background'[i] = background[i]
         /\ background'[Len(background) + 1].at = now
<1> USE DEF IInv, TypeOK, QueueInv
<1> DEFINE n == [task |-> t, deadline |-> Deadline(time, j), read |-> time, at |-> now]
<1>1. n \in Nodes /\ n.deadline = time + Threshold - j /\ n.read = time /\ n.at = now
  BY JittersInBounds DEF Deadline, Nodes
<1> HIDE DEF n
<1>2. background' = Append(background, n)
  BY DEF n
<1>3. /\ background' \in Seq(Nodes) /\ Len(background') = Len(background) + 1
      /\ \A i \in 1 .. Len(background) : background'[i] = background[i]
      /\ background'[Len(background) + 1] = n
  BY <1>1, <1>2, AppendProperties
<1>4. Len(background) \in Nat
  OBVIOUS
<1>5. \A i \in 1 .. Len(background) : background[i] \in Nodes
  OBVIOUS
<1>6. \A i \in 1 .. Len(background') : i \in 1 .. Len(background) \/ i = Len(background) + 1
  BY <1>3, <1>4
<1>7. QueuedInOrder'
  <2>1. \A i \in 1 .. Len(background') :
          background'[i].read <= background'[i].at /\ background'[i].at <= now
    BY <1>1, <1>3, <1>6 DEF QueuedInOrder
  <2>2. ASSUME NEW i \in 1 .. Len(background'), NEW k \in 1 .. Len(background'), i <= k
        PROVE background'[i].at <= background'[k].at
    <3>1. CASE k = Len(background) + 1
      BY <2>1, <3>1, <1>1, <1>3
    <3>2. CASE k \in 1 .. Len(background)
      <4>1. i \in 1 .. Len(background)
        BY <2>2, <3>2, <1>3, <1>4
      <4> QED BY <2>2, <3>2, <4>1, <1>3 DEF QueuedInOrder
    <3> QED BY <3>1, <3>2, <1>6
  <2> QED BY <2>1, <2>2 DEF QueuedInOrder
<1>8. DeadlineInBounds'
  BY <1>1, <1>3, <1>4, <1>5, <1>6, JittersInBounds DEF DeadlineInBounds
<1>9. AheadHasAged'
  <2> SUFFICES ASSUME NEW i \in 1 .. Len(background'), NEW k \in 1 .. Len(background'), i <= k
               PROVE background'[i].deadline <= background'[k].at + Threshold
    BY DEF AheadHasAged
  <2>1. CASE k \in 1 .. Len(background)
    <3>1. i \in 1 .. Len(background)
      BY <2>1, <1>4, <1>3
    <3> QED BY <2>1, <3>1, <1>3 DEF AheadHasAged
  <2>2. CASE k = Len(background) + 1 /\ i \in 1 .. Len(background)
    <3>1. background[i].deadline <= background[i].at + Threshold
      BY <2>2 DEF AheadHasAged
    <3>2. background[i].at <= now
      BY <2>2 DEF QueuedInOrder
    <3>3. background[i].deadline \in Int /\ background[i].at \in Nat
      BY <2>2, <1>5 DEF Nodes
    <3>4. background'[i].deadline = background[i].deadline /\ background'[k].at = now
      BY <2>2, <1>1, <1>3
    <3>5. now \in Nat /\ Threshold \in Int
      OBVIOUS
    <3>6. background[i].deadline <= now + Threshold
      BY <3>1, <3>2, <3>3, <3>5, SMTT(30)
    <3> QED BY <3>4, <3>6
  <2>3. CASE k = Len(background) + 1 /\ i = Len(background) + 1
    BY <2>3, <1>1, <1>3, JittersInBounds
  <2> QED BY <2>1, <2>2, <2>3, <1>6
<1> QED BY <1>1, <1>3, <1>7, <1>8, <1>9
-----------------------------------------------------------------------------
(* Each action preserves IInv *)

\* Time passes.
LEMMA TickIInv == IInv /\ Tick => IInv'
<1> SUFFICES ASSUME IInv, Tick PROVE IInv'
  OBVIOUS
<1> USE DEF Tick, queues, submitterVars, workerVars
<1>1. TypeOK'
  BY DEF IInv, TypeOK
<1>2. QueueInv'
  BY <1>1, QueueUnchanged DEF IInv, TypeOK
<1>3. StandardWaitsForAged'
  BY DEF IInv, StandardWaitsForAged
<1> QED BY <1>1, <1>2, <1>3 DEF IInv, QueueInv

\* No step of schedule breaks the invariant.
LEMMA SubmitterIInv ==
  ASSUME IInv, NEW c \in Submitters, Submitter(c)
  PROVE  IInv'
<1> USE DEF queues, submitterVars, workerVars
<1>0. TypeOK
  BY DEF IInv
<1>1. CASE SubmitStandard(c)
  <2>1. TypeOK'
    <3>1. standard' \in Seq(Tasks)
      BY <1>0, <1>1 DEF SubmitStandard, TypeOK
    <3>2. next' \in 1 .. MaxTasks + 1
      BY <1>0, <1>1 DEF SubmitStandard, TypeOK, Tasks
    <3>3. MaxStandard > 0 => Len(standard') <= MaxStandard
      <4>1. CASE Full(standard, MaxStandard)
        BY <1>0, <1>1, <4>1 DEF SubmitStandard, TypeOK
      <4>2. CASE ~Full(standard, MaxStandard)
        <5>1. standard' = Append(standard, next)
          BY <1>1, <4>2 DEF SubmitStandard
        <5>2. Len(standard') = Len(standard) + 1 /\ Len(standard) \in Nat
          BY <1>0, <5>1 DEF TypeOK
        <5> QED BY <4>2, <5>2 DEF Full
      <4> QED BY <4>1, <4>2
    <3> QED BY <1>0, <1>1, <3>1, <3>2, <3>3 DEF SubmitStandard, TypeOK
  <2>2. QueueInv'
    BY <1>0, <1>1, QueueUnchanged DEF SubmitStandard, TypeOK
  <2>3. StandardWaitsForAged'
    BY <1>1 DEF IInv, SubmitStandard, StandardWaitsForAged
  <2> QED BY <2>1, <2>2, <2>3 DEF IInv, QueueInv
<1>2. CASE ReadClock(c)
  <2>1. TypeOK'
    BY <1>0, <1>2 DEF ReadClock, TypeOK, Tasks
  <2>2. QueueInv'
    BY <1>0, <1>2, QueueUnchanged DEF ReadClock, TypeOK
  <2>3. StandardWaitsForAged'
    BY <1>2 DEF IInv, ReadClock, StandardWaitsForAged
  <2> QED BY <2>1, <2>2, <2>3 DEF IInv, QueueInv
<1>3. CASE PushBackground(c)
  <2>1. PICK j \in Jitters : background' = Append(background,
          [task |-> held[c], deadline |-> Deadline(sclock[c], j), read |-> sclock[c], at |-> now])
    BY <1>3 DEF PushBackground
  <2>2. held[c] \in Tasks /\ sclock[c] \in Nat /\ sclock[c] <= now /\ now' = now
    BY <1>0, <1>3 DEF PushBackground, TypeOK
  <2>3. /\ QueueInv' /\ Len(background') = Len(background) + 1
        /\ \A i \in 1 .. Len(background) : background'[i] = background[i]
        /\ background'[Len(background) + 1].at = now
    BY <2>1, <2>2, AppendKeeps
  <2>4. TypeOK'
    <3>1. MaxBackground > 0 => Len(background') <= MaxBackground
      BY <1>0, <1>3, <2>3 DEF PushBackground, Full, TypeOK
    <3> QED BY <1>0, <1>3, <2>3, <3>1, SMTT(30) DEF PushBackground, Returns, TypeOK, QueueInv
  <2>5. StandardWaitsForAged'
    <3> SUFFICES ASSUME Threshold > 0, NEW w \in Workers, wpc[w] \in {"standard", "background"},
                        NEW i \in 1 .. Len(background')
                 PROVE background'[i].at + Threshold > wclock[w]
      BY <1>3 DEF PushBackground, StandardWaitsForAged
    <3>1. i \in 1 .. Len(background) \/ i = Len(background) + 1
      BY <2>3, <1>0 DEF TypeOK
    <3>2. CASE i \in 1 .. Len(background)
      BY <3>2, <2>3 DEF IInv, StandardWaitsForAged
    <3>3. CASE i = Len(background) + 1
      BY <3>3, <2>3, <1>0 DEF TypeOK
    <3> QED BY <3>1, <3>2, <3>3
  <2> QED BY <2>3, <2>4, <2>5 DEF IInv, QueueInv
<1>4. CASE RejectBackground(c)
  <2>1. TypeOK'
    BY <1>0, <1>4 DEF RejectBackground, Returns, TypeOK
  <2>2. QueueInv'
    BY <1>0, <1>4, QueueUnchanged DEF RejectBackground, TypeOK
  <2>3. StandardWaitsForAged'
    BY <1>4 DEF IInv, RejectBackground, StandardWaitsForAged
  <2> QED BY <2>1, <2>2, <2>3 DEF IInv, QueueInv
<1> QED BY <1>1, <1>2, <1>3, <1>4 DEF Submitter

\* No step of findTask breaks it.
LEMMA WorkerIInv ==
  ASSUME IInv, NEW w \in Workers, Worker(w)
  PROVE  IInv'
<1> USE DEF queues, submitterVars, workerVars
<1>0. TypeOK
  BY DEF IInv
<1>1. CASE SearchClock(w)
  <2>1. TypeOK'
    BY <1>0, <1>1 DEF SearchClock, TypeOK
  <2>2. QueueInv'
    BY <1>0, <1>1, QueueUnchanged DEF SearchClock, TypeOK
  <2>3. StandardWaitsForAged'
    BY <1>0, <1>1 DEF IInv, TypeOK, SearchClock, StandardWaitsForAged
  <2> QED BY <2>1, <2>2, <2>3 DEF IInv, QueueInv
<1>2. CASE PopAged(w) \/ PopBackground(w)
  <2>1. background # <<>> /\ background' = Tail(background) /\ now' = now
        /\ Goto(w, "search") /\ standard' = standard /\ aged' \in Nat
    BY <1>0, <1>2 DEF PopAged, PopBackground, Goto, TypeOK
  <2>2. /\ QueueInv' /\ Len(background') = Len(background) - 1
        /\ \A i \in 1 .. Len(background') : background'[i] = background[i + 1]
    BY <2>1, TailKeeps
  <2>3. TypeOK'
    BY <1>0, <2>1, <2>2 DEF Goto, TypeOK, QueueInv
  <2>4. StandardWaitsForAged'
    <3> SUFFICES ASSUME Threshold > 0, NEW v \in Workers, wpc'[v] \in {"standard", "background"},
                        NEW i \in 1 .. Len(background')
                 PROVE background'[i].at + Threshold > wclock'[v]
      BY DEF StandardWaitsForAged
    <3>1. wpc[v] \in {"standard", "background"} /\ wclock'[v] = wclock[v]
      BY <1>0, <2>1 DEF Goto, TypeOK
    <3>2. i + 1 \in 1 .. Len(background)
      BY <2>2, <1>0 DEF TypeOK
    <3> QED BY <2>2, <3>1, <3>2 DEF IInv, StandardWaitsForAged
  <2> QED BY <2>2, <2>3, <2>4 DEF IInv, QueueInv
<1>3. CASE NotAged(w)
  <2>1. TypeOK'
    BY <1>0, <1>3 DEF NotAged, Goto, TypeOK
  <2>2. QueueInv'
    BY <1>0, <1>3, QueueUnchanged DEF NotAged, Goto, TypeOK
  <2>3. StandardWaitsForAged'
    <3> SUFFICES ASSUME Threshold > 0, NEW v \in Workers, wpc'[v] \in {"standard", "background"},
                        NEW i \in 1 .. Len(background)
                 PROVE background[i].at + Threshold > wclock[v]
      BY <1>3 DEF NotAged, Goto, StandardWaitsForAged
    <3>1. CASE v # w
      BY <1>0, <1>3, <3>1 DEF IInv, NotAged, Goto, TypeOK, StandardWaitsForAged
    <3>2. CASE v = w
      <4>1. 1 \in 1 .. Len(background) /\ 1 <= i /\ background # <<>>
            /\ Head(background) = background[1]
        BY <1>0 DEF TypeOK
      <4>2. background[1].deadline <= background[i].at + Threshold
        BY <4>1 DEF IInv, AheadHasAged
      <4>3. ~(background[1].deadline <= wclock[w])
        BY <1>3, <4>1 DEF NotAged, Aged
      <4>4. background[1] \in Nodes /\ background[i] \in Nodes /\ wclock[w] \in Nat
        BY <1>0, <4>1 DEF TypeOK
      <4>5. background[1].deadline \in Int /\ background[i].at \in Nat
        BY <4>4 DEF Nodes
      <4> QED BY <3>2, <4>2, <4>3, <4>4, <4>5
    <3> QED BY <3>1, <3>2
  <2> QED BY <2>1, <2>2, <2>3 DEF IInv, QueueInv
<1>4. CASE PopStandard(w) \/ StandardEmpty(w) \/ BackgroundEmpty(w)
  <2>1. /\ wpc[w] \in {"standard", "background"} /\ now' = now /\ background' = background
        /\ \E l \in {"search", "background"} : Goto(w, l)
        /\ standard' \in Seq(Tasks) /\ Len(standard') <= Len(standard) /\ aged' = aged
    <3>1. CASE PopStandard(w)
      <4>1. standard' \in Seq(Tasks) /\ Len(standard') <= Len(standard)
        BY <1>0, <3>1 DEF PopStandard, TypeOK
      <4> QED BY <3>1, <4>1 DEF PopStandard, Goto
    <3>2. CASE StandardEmpty(w) \/ BackgroundEmpty(w)
      BY <1>0, <3>2 DEF StandardEmpty, BackgroundEmpty, Goto, TypeOK
    <3> QED BY <1>4, <3>1, <3>2
  <2>2. TypeOK'
    <3>1. MaxStandard > 0 => Len(standard') <= MaxStandard
      <4>1. Len(standard) \in Nat /\ Len(standard') \in Nat
        BY <1>0, <2>1 DEF TypeOK
      <4> QED BY <1>0, <2>1, <4>1 DEF TypeOK
    <3> QED BY <1>0, <2>1, <3>1 DEF Goto, TypeOK
  <2>3. QueueInv'
    BY <1>0, <2>1, QueueUnchanged DEF TypeOK
  <2>4. StandardWaitsForAged'
    BY <1>0, <2>1 DEF IInv, Goto, TypeOK, StandardWaitsForAged
  <2> QED BY <2>2, <2>3, <2>4 DEF IInv, QueueInv
<1> QED BY <1>1, <1>2, <1>3, <1>4 DEF Worker

\* A step of the rest of the program.
LEMMA StutterIInv == IInv /\ UNCHANGED vars => IInv'
BY DEF vars, IInv, TypeOK, QueuedInOrder, DeadlineInBounds, AheadHasAged, StandardWaitsForAged

\* The invariant of the shared queues in time.
THEOREM IInvHolds == Spec => []IInv
<1>1. IInv /\ [Next]_vars => IInv'
  BY TickIInv, SubmitterIInv, WorkerIInv, StutterIInv DEF Next
<1> QED BY InitIInv, <1>1, PTL DEF Spec

\* The types, and clock readings that are never ahead of time.
THEOREM TypeCorrect == Spec => []TypeOK
BY IInvHolds, PTL DEF IInv

\* Jitter keeps every deadline between the clock reading and the threshold.
THEOREM DeadlinesBounded == Spec => []DeadlineInBounds
BY IInvHolds, PTL DEF IInv

\* The wait behind the tasks ahead is bounded by the threshold: once a background
\* task has been queued that long, popAged serves all of them and it.
THEOREM WaitIsBounded == Spec => []AheadHasAged
BY IInvHolds, PTL DEF IInv

\* A worker passes over the background queue only if none of its tasks had been
\* queued for the threshold when it read the clock.
THEOREM AgedFirst == Spec => []StandardWaitsForAged
BY IInvHolds, PTL DEF IInv
=============================================================================
