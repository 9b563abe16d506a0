--------------------------- MODULE Bulkhead_proofs ---------------------------
(***************************************************************************)
(* Proofs about Bulkhead for every list of kinds, with any numbers of       *)
(* workers and depth caps, and every finite set of tasks.                   *)
(***************************************************************************)
EXTENDS Bulkhead, FiniteSetTheorems, TLAPS

\* Each kind has its place in the list, and each place its kind.
LEMMA Places ==
  /\ Len(AllKinds) \in Nat /\ DOMAIN AllKinds = 1 .. Len(AllKinds)
  /\ \A i \in 1 .. Len(AllKinds) : AllKinds[i] \in Kinds
  /\ \A k \in Kinds : \E i \in 1 .. Len(AllKinds) : AllKinds[i] = k
  /\ \A i, j \in 1 .. Len(AllKinds) : AllKinds[i] = AllKinds[j] => i = j
  /\ \A t \in Tasks : KindOf[t] \in Kinds
BY BulkheadAssumption DEF Kinds, Range

\* A kind that is not busy has no task running.
LEMMA Idle ==
  ASSUME running \subseteq Tasks, NEW k \in Kinds, Busy(k) = 0
  PROVE running \cap In(k) = {}
<1>1. IsFiniteSet(running \cap In(k))
  BY FS_Subset, BulkheadAssumption DEF In
<1> QED BY <1>1, FS_EmptySet DEF Busy
-----------------------------------------------------------------------------
(* The inductive invariant *)

LEMMA InitIInv == Init => IInv
BY Places DEF Init, IInv, TypeOK

\* NewBulkhead's loop fills in one pool at a time.
LEMMA NewBulkheadIInv == IInv /\ NewBulkhead => IInv'
<1> SUFFICES ASSUME IInv, NewBulkhead PROVE IInv'
  OBVIOUS
<1> USE Places
<1>1. CASE StartPool
  <2>1. NextKind \in Kinds /\ started' = started + 1 /\ started + 1 \in 1 .. Len(AllKinds)
    BY <1>1 DEF StartPool, NextKind, IInv, TypeOK
  <2>2. \A k \in Kinds : stop'[k] = IF k = NextKind THEN "running" ELSE stop[k]
    BY <1>1 DEF StartPool, IInv, TypeOK
  <2>3. \A i \in DOMAIN AllKinds : stop'[AllKinds[i]] = "none" <=> i > started'
    <3> SUFFICES ASSUME NEW i \in DOMAIN AllKinds
                 PROVE stop'[AllKinds[i]] = "none" <=> i > started'
      OBVIOUS
    <3>1. CASE i = started + 1
      BY <3>1, <2>1, <2>2 DEF NextKind
    <3>2. CASE i # started + 1
      <4>1. AllKinds[i] # NextKind
        BY <3>2, <2>1 DEF NextKind
      <4>2. stop[AllKinds[i]] = "none" <=> i > started
        BY DEF IInv, TypeOK
      <4>3. stop'[AllKinds[i]] = stop[AllKinds[i]]
        BY <4>1, <2>2
      <4>4. i \in Nat /\ started \in Nat
        <5>1. started \in 0 .. Len(AllKinds)
          BY DEF IInv, TypeOK
        <5> QED BY <5>1, Places
      <4> QED BY <4>2, <4>3, <4>4, <3>2, <2>1
    <3> QED BY <3>1, <3>2
  <2>4. TypeOK'
    BY <1>1, <2>1, <2>3 DEF StartPool, IInv, TypeOK
  <2> QED BY <1>1, <2>1, <2>2, <2>4 DEF StartPool, IInv, TypeOK
<1>2. CASE MissingConfig
  BY <1>2 DEF MissingConfig, IInv, TypeOK
<1>3. CASE AllStarted
  BY <1>3 DEF AllStarted, IInv, TypeOK
<1> QED BY <1>1, <1>2, <1>3 DEF NewBulkhead

\* Whoever has a Bulkhead has all its pools.
LEMMA AllUp ==
  IInv /\ phase \notin {"starting", "failed"} => \A k \in Kinds : stop[k] # "none"
<1> SUFFICES ASSUME IInv, phase \notin {"starting", "failed"}, NEW k \in Kinds
             PROVE stop[k] # "none"
  OBVIOUS
<1>1. PICK i \in 1 .. Len(AllKinds) : AllKinds[i] = k
  BY Places
<1>2. ~(i > started)
  BY DEF IInv
<1> QED BY <1>1, <1>2, Places DEF IInv, TypeOK

\* What happens to one task.
LEMMA TaskIInv ==
  ASSUME NEW t \in Tasks
  PROVE IInv /\ (Submit(t) \/ Reject(t) \/ Start(t) \/ Finish(t)) => IInv'
<1> SUFFICES ASSUME IInv, Submit(t) \/ Reject(t) \/ Start(t) \/ Finish(t) PROVE IInv'
  OBVIOUS
<1>0. /\ UNCHANGED <<configs, phase, started, stop, stopper>>
      /\ fut' \in [Tasks -> {"none", "pending", "done", "stopped", "full"}]
      /\ running' \subseteq Tasks
  BY DEF Submit, Reject, Start, Finish, Resolve, IInv, TypeOK
<1>1. \A u \in Tasks : u \in running' \/ fut'[u] = "pending" => stop[KindOf[u]] # "none"
  <2>1. CASE Submit(t)
    <3>1. stop[KindOf[t]] # "none"
      BY <2>1, AllUp, Places DEF Submit, HaveBulkhead
    <3> QED BY <2>1, <3>1 DEF Submit, Resolve, IInv, TypeOK
  <2>2. CASE Reject(t)
    BY <2>2 DEF Reject, Resolve, IInv, TypeOK
  <2>3. CASE Start(t)
    BY <2>3 DEF Start, Waiting, IInv, TypeOK
  <2>4. CASE Finish(t)
    BY <2>4 DEF Finish, Resolve, IInv, TypeOK
  <2> QED BY <2>1, <2>2, <2>3, <2>4
<1>2. \A u \in running' : fut'[u] = "pending" /\ stop[KindOf[u]] # "returned"
  <2>1. CASE Submit(t)
    BY <2>1 DEF Submit, Resolve, IInv, TypeOK
  <2>2. CASE Reject(t)
    BY <2>2 DEF Reject, Waiting, Resolve, IInv, TypeOK
  <2>3. CASE Start(t)
    BY <2>3 DEF Start, Waiting, IInv, TypeOK
  <2>4. CASE Finish(t)
    BY <2>4 DEF Finish, Resolve, IInv, TypeOK
  <2> QED BY <2>1, <2>2, <2>3, <2>4
<1>3. TypeOK'
  BY <1>0 DEF IInv, TypeOK
<1> QED BY <1>0, <1>1, <1>2, <1>3 DEF IInv

\* What the goroutine that stops one pool does.
LEMMA StopperIInv ==
  ASSUME NEW k \in Kinds
  PROVE IInv /\ Stopper(k) => IInv'
<1> DEFINE Moves(x, y) ==
             /\ stop' = [stop EXCEPT ![k] = x] /\ stopper' = [stopper EXCEPT ![k] = y]
             /\ UNCHANGED <<configs, phase, started, fut, running>>
<1> SUFFICES ASSUME IInv, Stopper(k) PROVE IInv'
  OBVIOUS
<1>1. PICK x, y : /\ Moves(x, y)
                  /\ <<x, y>> = <<"stopping", "waiting">> \/ <<x, y>> = <<"returned", "done">>
  BY DEF Stopper, StopPool, PoolStopped
<1>2. stopper[k] \in {"started", "waiting"} /\ stop[k] \in {"running", "stopping"}
  BY DEF Stopper, StopPool, PoolStopped, IInv
<1>3. x = "returned" => running \cap In(k) = {}
  <2>1. x = "returned" => Busy(k) = 0
    BY <1>1, <1>2 DEF Stopper, StopPool, PoolStopped, IInv, TypeOK
  <2> QED BY <2>1, Idle DEF IInv, TypeOK
<1> HIDE DEF Moves
<1>4. /\ \A j \in Kinds : stop'[j] = IF j = k THEN x ELSE stop[j]
      /\ \A j \in Kinds : stopper'[j] = IF j = k THEN y ELSE stopper[j]
      /\ UNCHANGED <<configs, phase, started, fut, running>>
  BY <1>1 DEF Moves, IInv, TypeOK
<1>5. TypeOK'
  <2>1. \A i \in DOMAIN AllKinds : stop'[AllKinds[i]] = "none" <=> i > started'
    <3> SUFFICES ASSUME NEW i \in DOMAIN AllKinds
                 PROVE stop'[AllKinds[i]] = "none" <=> i > started
      BY <1>4
    <3>1. AllKinds[i] \in Kinds
      BY Places
    <3>2. stop[AllKinds[i]] = "none" <=> i > started
      BY DEF IInv, TypeOK
    <3> QED BY <3>1, <3>2, <1>1, <1>2, <1>4
  <2> QED BY <2>1, <1>1 DEF Moves, IInv, TypeOK
<1>6. phase \notin {"starting", "failed", "ready"}
  BY <1>2 DEF IInv
<1>7. \A t \in Tasks : t \in running \/ fut[t] = "pending" => stop'[KindOf[t]] # "none"
  BY <1>1, <1>4, Places DEF IInv
<1>8. \A t \in running : fut[t] = "pending" /\ stop'[KindOf[t]] # "returned"
  <2> SUFFICES ASSUME NEW t \in running
               PROVE fut[t] = "pending" /\ stop'[KindOf[t]] # "returned"
    OBVIOUS
  <2>1. t \in Tasks /\ fut[t] = "pending" /\ stop[KindOf[t]] # "returned"
    BY DEF IInv, TypeOK
  <2>2. KindOf[t] = k => x # "returned"
    BY <2>1, <1>3 DEF In
  <2> QED BY <2>1, <2>2, <1>4, Places
<1>9. \A j \in Kinds :
        /\ stopper'[j] \in {"none", "started"} => stop'[j] \in {"none", "running"}
        /\ stopper'[j] = "started" => stop'[j] = "running"
        /\ stopper'[j] = "waiting" => stop'[j] = "stopping"
        /\ stopper'[j] = "done" => stop'[j] = "returned"
  BY <1>1, <1>4 DEF IInv
<1>10. phase = "stopped" => \A j \in Kinds : stopper'[j] = "done"
  BY <1>2, <1>4 DEF IInv
<1> QED BY <1>4, <1>5, <1>6, <1>7, <1>8, <1>9, <1>10 DEF IInv

LEMMA NextIInv == IInv /\ [Next]_vars => IInv'
<1> SUFFICES ASSUME IInv, [Next]_vars PROVE IInv'
  OBVIOUS
<1> USE Places
<1>1. CASE NewBulkhead
  BY <1>1, NewBulkheadIInv
<1>2. CASE Stop
  <2>1. \A k \in Kinds : stop[k] = "running"
    BY <1>2, AllUp DEF Stop, IInv
  <2> QED BY <1>2, <2>1 DEF Stop, IInv, TypeOK
<1>3. CASE StopReturn
  BY <1>3 DEF StopReturn, IInv, TypeOK
<1>4. CASE \E t \in Tasks : Submit(t) \/ Reject(t)
  BY <1>4, TaskIInv
<1>5. CASE \E k \in Kinds : Workers(k)
  BY <1>5, TaskIInv DEF Workers, In
<1>6. CASE \E k \in Kinds : Stopper(k)
  BY <1>6, StopperIInv
<1>7. CASE UNCHANGED vars
  BY <1>7 DEF vars, IInv, TypeOK
<1> QED BY <1>1, <1>2, <1>3, <1>4, <1>5, <1>6, <1>7 DEF Next

\* The invariant, for every list of kinds.
THEOREM IInvHolds == Spec => []IInv
<1>1. IInv /\ [Next]_vars => IInv'
  BY NextIInv
<1> QED BY InitIInv, <1>1, PTL DEF Spec

\* Every variable keeps its type, and NewBulkhead starts the pools in order.
THEOREM TypeCorrect == Spec => []TypeOK
<1>1. IInv => TypeOK
  BY DEF IInv
<1> QED BY IInvHolds, <1>1, PTL

\* Once Bulkhead.Stop has returned no task runs in any pool.
THEOREM NothingRunsAfterStop == Spec => []StopWaitsForAll
<1>1. IInv => StopWaitsForAll
  BY Places DEF IInv, TypeOK, StopWaitsForAll
<1> QED BY IInvHolds, <1>1, PTL
-----------------------------------------------------------------------------
(* Each kind's pool is a Pool *)

\* The state of k's pool, as Pool sees it.
FutOf(k) == [t \in In(k) |-> fut[t]]
RunningOf(k) == running \cap In(k)
StopOf(k) == IF stop[k] = "none" THEN "running" ELSE stop[k]

\* A Pool counts as its Bulkhead does.
LEMMA PoolCounts == \A k, S : AsPool(k)!Cardinality(S) = Cardinality(S)
BY Zenon DEF AsPool!Cardinality, Cardinality

\* A pool that NewBulkhead has not come to is one without tasks.
LEMMA InitAsPool == Init => \A k \in Kinds : AsPool(k)!Init
BY DEF Init, AsPool!Init, In

\* A step that changes nothing that k's pool is seen by.
LEMMA Unseen ==
  ASSUME NEW k \in Kinds, UNCHANGED <<FutOf(k), RunningOf(k), StopOf(k)>>
  PROVE UNCHANGED AsPool(k)!vars
BY DEF AsPool!vars, FutOf, RunningOf, StopOf

\* Starting a pool, and a caller's own steps, are no steps of a pool.
LEMMA CallerAsPools ==
  ASSUME IInv, UNCHANGED <<fut, running>>, UNCHANGED stop \/ StartPool, NEW k \in Kinds
  PROVE UNCHANGED AsPool(k)!vars
<1>1. CASE UNCHANGED stop
  BY <1>1, Unseen DEF FutOf, RunningOf, StopOf
<1>2. CASE StartPool
  <2>1. started \in Nat /\ started + 1 \in 1 .. Len(AllKinds) /\ NextKind \in Kinds
    BY <1>2, Places DEF StartPool, NextKind, IInv, TypeOK
  <2>2. stop[NextKind] = "none" /\ stop' = [stop EXCEPT ![NextKind] = "running"]
    BY <1>2, <2>1, Places DEF StartPool, NextKind, IInv, TypeOK
  <2>3. StopOf(k)' = StopOf(k)
    BY <2>1, <2>2 DEF StopOf, IInv, TypeOK
  <2> QED BY <2>3, Unseen DEF FutOf, RunningOf
<1> QED BY <1>1, <1>2

\* What happens to a task is a step of its own kind's pool, and of no other.
LEMMA TaskAsPools ==
  ASSUME IInv, NEW t \in Tasks, Submit(t) \/ Reject(t) \/ Start(t) \/ Finish(t), NEW k \in Kinds
  PROVE AsPool(k)!Next \/ UNCHANGED AsPool(k)!vars
<1>1. /\ t \in In(KindOf[t]) /\ StopOf(k)' = StopOf(k)
      /\ \A u \in Tasks \ {t} : fut'[u] = fut[u] /\ (u \in running' <=> u \in running)
      /\ running \subseteq Tasks /\ running' \subseteq Tasks
  BY DEF Submit, Reject, Start, Finish, Resolve, In, StopOf, IInv, TypeOK
<1>2. CASE KindOf[t] # k
  <2>1. FutOf(k)' = FutOf(k) /\ RunningOf(k)' = RunningOf(k)
    BY <1>1, <1>2 DEF FutOf, RunningOf, In
  <2> QED BY <1>1, <2>1, Unseen
<1>3. CASE KindOf[t] = k
  <2> DEFINE p == FutOf(k)
             out == {u \in In(k) : p[u] = "pending"} \ RunningOf(k)
  <2>1. t \in In(k) /\ p[t] = fut[t] /\ stop[k] = "none" => ~HaveBulkhead
    BY <1>1, <1>3, AllUp DEF FutOf, HaveBulkhead
  <2>6. Waiting(k) = out
    BY DEF Waiting, FutOf, RunningOf
  <2>2. CASE Submit(t)
    <3>1. FutOf(k)' = [p EXCEPT ![t] = IF stop[k] = "running" THEN "pending" ELSE "stopped"]
      BY <2>2, <1>1, <1>3 DEF Submit, Resolve, FutOf, In, IInv, TypeOK
    <3>2. AsPool(k)!Accept(t) \/ AsPool(k)!RefuseStopped(t)
      BY <1>1, <1>3, <2>1, <2>2, <3>1 DEF Submit, FutOf, RunningOf, StopOf, HaveBulkhead, In,
        AsPool!Accept, AsPool!RefuseStopped, AsPool!Resolve
    <3> QED BY <3>2, <1>1, <1>3 DEF AsPool!Next
  <2>3. CASE Reject(t)
    <3>1. t \in out /\ Cap[k] > 0 /\ Cardinality(out \ {t}) >= Cap[k]
      BY <1>3, <2>3, <2>6 DEF Reject
    <3>2. FutOf(k)' = [p EXCEPT ![t] = "full"] /\ RunningOf(k)' = RunningOf(k)
      BY <2>1, <2>3 DEF Reject, Resolve, FutOf, RunningOf, In, IInv, TypeOK
    <3>3. AsPool(k)!RefuseFull(t)
      BY <1>1, <3>1, <3>2, PoolCounts DEF FutOf, RunningOf, StopOf, In,
        AsPool!RefuseFull, AsPool!Waiting, AsPool!Resolve
    <3> QED BY <3>3, <1>1, <1>3 DEF AsPool!Next
  <2>4. CASE Start(t)
    <3>1. t \in out /\ RunningOf(k)' = RunningOf(k) \cup {t}
      BY <1>3, <2>1, <2>4, <2>6 DEF Start, RunningOf
    <3>2. Cardinality(RunningOf(k)) < NumWorkers[k]
      BY <1>3, <2>4 DEF Start, Busy, RunningOf
    <3>3. StopOf(k) # "returned" /\ FutOf(k)' = FutOf(k)
      BY <1>3, <2>4 DEF Start, StopOf, FutOf
    <3>4. AsPool(k)!Start(t)
      BY <1>1, <3>1, <3>2, <3>3, PoolCounts DEF FutOf, RunningOf, StopOf, In,
        AsPool!Start, AsPool!Waiting
    <3> QED BY <3>4, <1>1, <1>3 DEF AsPool!Next
  <2>5. CASE Finish(t)
    <3>1. t \in RunningOf(k) /\ RunningOf(k)' = RunningOf(k) \ {t}
      <4>1. t \in In(k)
        BY <1>1, <1>3
      <4>2. t \in running /\ running' = running \ {t}
        BY <2>5, Zenon DEF Finish
      <4> QED BY <4>1, <4>2 DEF RunningOf, In
    <3>2. FutOf(k)' = [p EXCEPT ![t] = "done"]
      BY <2>1, <2>5 DEF Finish, Resolve, FutOf, In, IInv, TypeOK
    <3>3. AsPool(k)!Finish(t)
      BY <1>1, <3>1, <3>2 DEF FutOf, RunningOf, StopOf, AsPool!Finish, AsPool!Resolve
    <3> QED BY <3>3, <1>1, <1>3 DEF AsPool!Next
  <2> QED BY <2>2, <2>3, <2>4, <2>5
<1> QED BY <1>2, <1>3

\* The goroutine that stops one pool takes a step of that pool's Stop.
LEMMA StopperAsPools ==
  ASSUME IInv, NEW j \in Kinds, Stopper(j), NEW k \in Kinds
  PROVE AsPool(k)!Next \/ UNCHANGED AsPool(k)!vars
<1>1. FutOf(k)' = FutOf(k) /\ RunningOf(k)' = RunningOf(k)
  BY DEF Stopper, StopPool, PoolStopped, FutOf, RunningOf
<1>2. CASE j # k
  <2>1. StopOf(k)' = StopOf(k)
    BY <1>2 DEF Stopper, StopPool, PoolStopped, StopOf, IInv, TypeOK
  <2> QED BY <1>1, <2>1, Unseen
<1>3. CASE j = k
  <2>1. CASE StopPool(k)
    <3>1. StopOf(k) = "running" /\ StopOf(k)' = "stopping"
      BY <2>1 DEF StopPool, StopOf, IInv, TypeOK
    <3> QED BY <1>1, <3>1 DEF FutOf, RunningOf, StopOf, AsPool!Next, AsPool!StopCall
  <2>2. CASE PoolStopped(k)
    <3>1. StopOf(k) = "stopping" /\ StopOf(k)' = "returned"
      BY <2>2 DEF PoolStopped, StopOf, IInv, TypeOK
    <3>2. RunningOf(k) = {}
      BY <2>2, Idle DEF PoolStopped, RunningOf, IInv, TypeOK
    <3> QED BY <1>1, <3>1, <3>2 DEF FutOf, RunningOf, StopOf, AsPool!Next, AsPool!StopReturn
  <2> QED BY <1>3, <2>1, <2>2 DEF Stopper
<1> QED BY <1>2, <1>3

\* Every step is one of k's pool, or nothing to it.
LEMMA StepAsPools ==
  IInv /\ [Next]_vars => [\A k \in Kinds : AsPool(k)!Next \/ UNCHANGED AsPool(k)!vars]_vars
<1> SUFFICES ASSUME IInv, Next, NEW k \in Kinds
             PROVE AsPool(k)!Next \/ UNCHANGED AsPool(k)!vars
  OBVIOUS
<1>1. CASE NewBulkhead \/ Stop \/ StopReturn
  BY <1>1, CallerAsPools DEF NewBulkhead, StartPool, MissingConfig, AllStarted, Stop, StopReturn
<1>2. CASE \E t \in Tasks : Submit(t) \/ Reject(t)
  BY <1>2, TaskAsPools
<1>3. CASE \E j \in Kinds : Workers(j)
  BY <1>3, TaskAsPools DEF Workers, In
<1>4. CASE \E j \in Kinds : Stopper(j)
  BY <1>4, StopperAsPools
<1> QED BY <1>1, <1>2, <1>3, <1>4 DEF Next

\* The tasks of each kind, whatever happens to those of the others, are run as by a
\* Scheduler of that kind's Config alone (bulkhead.go:8-11, 66-72).
THEOREM EachIsAPoolHolds == Spec => EachIsAPool
<1>1. Spec => [][\A k \in Kinds : AsPool(k)!Next \/ UNCHANGED AsPool(k)!vars]_vars
  BY IInvHolds, StepAsPools, PTL DEF Spec
<1> QED BY <1>1, InitAsPool, PTL DEF Spec, EachIsAPool
=============================================================================
