------------------------------ MODULE Bulkhead ------------------------------
(***************************************************************************)
(* internal/scheduler/bulkhead.go and kinds.go: one Scheduler per Kind,     *)
(* each taken to be what Pool promises, started by NewBulkhead, submitted to *)
(* by the SubmitXxx functions and stopped in parallel by Stop.              *)
(***************************************************************************)
EXTENDS Naturals, Sequences, FiniteSets, SequencesExt

CONSTANTS
  AllKinds,   \* AllKinds(), in order
  NumWorkers, \* NumWorkers[k]: Config.Workers of kind k
  Cap,        \* Cap[k]: the smallest depth cap of kind k's queues; 0 if none
  Tasks,      \* the tasks that may be submitted, each once
  KindOf,     \* KindOf[t]: the kind whose SubmitXxx t is given to
  Hangs       \* the tasks whose fn never returns

Kinds == Range(AllKinds)

ASSUME BulkheadAssumption ==
  /\ AllKinds \in Seq(Kinds)
  /\ \A i, j \in DOMAIN AllKinds : AllKinds[i] = AllKinds[j] => i = j
  /\ NumWorkers \in [Kinds -> Nat \ {0}] /\ Cap \in [Kinds -> Nat]
  /\ IsFiniteSet(Tasks) /\ KindOf \in [Tasks -> Kinds] /\ Hangs \subseteq Tasks

VARIABLES
  configs, \* the kinds NewBulkhead is given a Config for
  phase,   \* how far the caller of NewBulkhead and Stop has come
  started, \* how many pools NewBulkhead has started
  stop,    \* stop[k]: how far Stop of k's pool has come; "none" before New
  stopper, \* stopper[k]: the goroutine b.Stop starts for k's pool
  fut,     \* fut[t]: the state of t's Future
  running  \* the tasks whose fn is being called

vars == <<configs, phase, started, stop, stopper, fut, running>>

In(k) == {t \in Tasks : KindOf[t] = k}
Waiting(k) == {t \in In(k) : fut[t] = "pending"} \ running
Busy(k) == Cardinality(running \cap In(k))
Resolve(t, r) == fut' = [fut EXCEPT ![t] = r]

Init ==
  /\ configs \in SUBSET Kinds
  /\ phase = "starting" /\ started = 0
  /\ stop = [k \in Kinds |-> "none"]
  /\ stopper = [k \in Kinds |-> "none"]
  /\ fut = [t \in Tasks |-> "none"]
  /\ running = {}
-----------------------------------------------------------------------------
(* NewBulkhead *)

NextKind == AllKinds[started + 1]

StartPool ==
  /\ phase = "starting" /\ started < Len(AllKinds)
  /\ NextKind \in configs
  /\ stop' = [stop EXCEPT ![NextKind] = "running"]
  /\ started' = started + 1
  /\ UNCHANGED <<configs, phase, stopper, fut, running>>

\* Variant: a kind without a Config left out.
MissingConfigSkipped ==
  /\ phase = "starting" /\ started < Len(AllKinds)
  /\ NextKind \notin configs
  /\ started' = started + 1
  /\ UNCHANGED <<configs, phase, stop, stopper, fut, running>>

\* A missing Config: an error, and no Bulkhead.
MissingConfig ==
  /\ phase = "starting" /\ started < Len(AllKinds)
  /\ NextKind \notin configs
  /\ phase' = "failed"
  /\ UNCHANGED <<configs, started, stop, stopper, fut, running>>

AllStarted ==
  /\ phase = "starting" /\ started = Len(AllKinds)
  /\ phase' = "ready"
  /\ UNCHANGED <<configs, started, stop, stopper, fut, running>>
-----------------------------------------------------------------------------
(* SubmitXxx: Submit on the pool of its own kind *)

HaveBulkhead == phase \in {"ready", "stopping", "stopped"}

Submit(t) ==
  /\ HaveBulkhead /\ fut[t] = "none"
  /\ Resolve(t, IF stop[KindOf[t]] = "running" THEN "pending" ELSE "stopped")
  /\ UNCHANGED <<configs, phase, started, stop, stopper, running>>

Reject(t) ==
  /\ t \in Waiting(KindOf[t])
  /\ Cap[KindOf[t]] > 0 /\ Cardinality(Waiting(KindOf[t]) \ {t}) >= Cap[KindOf[t]]
  /\ Resolve(t, "full")
  /\ UNCHANGED <<configs, phase, started, stop, stopper, running>>
-----------------------------------------------------------------------------
(* The pools' workers *)

\* Variants: an idle worker of any kind takes the task; a worker is taken to be
\* busy whatever the kind it is busy with.
StartStolen(t) ==
  /\ t \in Waiting(KindOf[t])
  /\ \E k \in Kinds : Busy(k) < NumWorkers[k]
  /\ stop[KindOf[t]] # "returned"
  /\ running' = running \cup {t}
  /\ UNCHANGED <<configs, phase, started, stop, stopper, fut>>

StartAnywhere(t) ==
  /\ t \in Waiting(KindOf[t])
  /\ Cardinality(running) < NumWorkers[KindOf[t]]
  /\ stop[KindOf[t]] # "returned"
  /\ running' = running \cup {t}
  /\ UNCHANGED <<configs, phase, started, stop, stopper, fut>>

Start(t) ==
  /\ t \in Waiting(KindOf[t])
  /\ Busy(KindOf[t]) < NumWorkers[KindOf[t]]
  /\ stop[KindOf[t]] # "returned"
  /\ running' = running \cup {t}
  /\ UNCHANGED <<configs, phase, started, stop, stopper, fut>>

Finish(t) ==
  /\ t \in running \ Hangs
  /\ Resolve(t, "done")
  /\ running' = running \ {t}
  /\ UNCHANGED <<configs, phase, started, stop, stopper>>
-----------------------------------------------------------------------------
(* Stop *)

\* Stop starts a goroutine for each pool.
Stop ==
  /\ phase = "ready"
  /\ phase' = "stopping"
  /\ stopper' = [k \in Kinds |-> "started"]
  /\ UNCHANGED <<configs, started, stop, fut, running>>

\* Variant: one pool after the other.
StopPoolInTurn(k) ==
  /\ stopper[k] = "started"
  /\ \A i \in DOMAIN AllKinds : AllKinds[i] = k => \A j \in 1 .. i - 1 : stopper[AllKinds[j]] = "done"
  /\ stop' = [stop EXCEPT ![k] = "stopping"]
  /\ stopper' = [stopper EXCEPT ![k] = "waiting"]
  /\ UNCHANGED <<configs, phase, started, fut, running>>

StopPool(k) ==
  /\ stopper[k] = "started"
  /\ stop' = [stop EXCEPT ![k] = "stopping"]
  /\ stopper' = [stopper EXCEPT ![k] = "waiting"]
  /\ UNCHANGED <<configs, phase, started, fut, running>>

\* The pool's Stop returns, and the goroutine calls wg.Done.
PoolStopped(k) ==
  /\ stopper[k] = "waiting" /\ Busy(k) = 0
  /\ stop' = [stop EXCEPT ![k] = "returned"]
  /\ stopper' = [stopper EXCEPT ![k] = "done"]
  /\ UNCHANGED <<configs, phase, started, fut, running>>

\* Variant: waiting for one goroutine of them all.
StopReturnsFirst ==
  /\ phase = "stopping" /\ \E k \in Kinds : stopper[k] = "done"
  /\ phase' = "stopped"
  /\ UNCHANGED <<configs, started, stop, stopper, fut, running>>

\* wg.Wait.
StopReturn ==
  /\ phase = "stopping" /\ \A k \in Kinds : stopper[k] = "done"
  /\ phase' = "stopped"
  /\ UNCHANGED <<configs, started, stop, stopper, fut, running>>
-----------------------------------------------------------------------------
NewBulkhead == StartPool \/ MissingConfig \/ AllStarted
Workers(k) == \E t \in In(k) : Start(t) \/ Finish(t)
Stopper(k) == StopPool(k) \/ PoolStopped(k)

Next ==
  \/ NewBulkhead \/ Stop \/ StopReturn
  \/ \E t \in Tasks : Submit(t) \/ Reject(t)
  \/ \E k \in Kinds : Workers(k) \/ Stopper(k)

Spec == Init /\ [][Next]_vars

\* A kind none of whose tasks hang.  A worker to spare is not enough: a task that is
\* about to hang can be what the one bell wakes a worker for, while a peer that has
\* looked past the standard queue parks over what was rung for (worker.go:71-97).
Healthy(k) == Hangs \cap In(k) = {}

\* The workers of each healthy pool, and each goroutine of Stop, go on if they can.
Fairness ==
  /\ \A k \in Kinds : Healthy(k) => WF_vars(Workers(k))
  /\ \A k \in Kinds : WF_vars(Stopper(k))
  /\ WF_vars(StopReturn)

FairSpec == Spec /\ Fairness
-----------------------------------------------------------------------------
(* Properties *)

\* Every variable keeps its type, and pools are started in order.
TypeOK ==
  /\ configs \subseteq Kinds
  /\ phase \in {"starting", "failed", "ready", "stopping", "stopped"}
  /\ started \in 0 .. Len(AllKinds)
  /\ stop \in [Kinds -> {"none", "running", "stopping", "returned"}]
  /\ stopper \in [Kinds -> {"none", "started", "waiting", "done"}]
  /\ fut \in [Tasks -> {"none", "pending", "done", "stopped", "full"}]
  /\ running \subseteq Tasks
  /\ \A i \in DOMAIN AllKinds : stop[AllKinds[i]] = "none" <=> i > started

AsPool(k) == INSTANCE Pool WITH
  NumWorkers <- NumWorkers[k],
  Cap <- Cap[k],
  Tasks <- In(k),
  fut <- [t \in In(k) |-> fut[t]],
  running <- running \cap In(k),
  stop <- IF stop[k] = "none" THEN "running" ELSE stop[k]

\* Seen from its own kind, each pool is a Pool, whatever the others do: no more
\* tasks of a kind run at once than that kind has workers.
EachIsAPool ==
  /\ \A k \in Kinds : AsPool(k)!Init
  /\ [][\A k \in Kinds : AsPool(k)!Next \/ UNCHANGED AsPool(k)!vars]_vars

\* Cross-kind isolation (bulkhead.go:8-11, README 327-331): an accepted task of a
\* healthy kind is resolved, although every worker of another kind hangs.
Isolation ==
  \A t \in Tasks :
    Healthy(KindOf[t]) => (fut[t] = "pending" ~> fut[t] # "pending" \/ stop[KindOf[t]] = "returned")

\* Stop reaches every pool at once: a healthy pool stops, though
\* the Stop of another never returns (bulkhead.go:74-77).
StopIsParallel ==
  \A k \in Kinds :
    Healthy(k) => (phase = "stopping" ~> stop[k] = "returned")

\* Once Stop has returned no task runs, in any pool, and none will.
StopWaitsForAll ==
  phase = "stopped" => running = {} /\ \A k \in Kinds : stop[k] = "returned"

\* The inductive invariant behind the three safety properties: a task that runs
\* is pending, a pool's Stop and the goroutine that called it are equally far,
\* a stopped pool is idle, and Stop has returned only after all of them.
IInv ==
  /\ TypeOK
  /\ phase \notin {"starting", "failed"} => started = Len(AllKinds)
  /\ phase \in {"starting", "failed", "ready"} =>
       \A k \in Kinds : stopper[k] = "none" /\ stop[k] \in {"none", "running"}
  /\ \A t \in Tasks : t \in running \/ fut[t] = "pending" => stop[KindOf[t]] # "none"
  /\ \A t \in running : fut[t] = "pending" /\ stop[KindOf[t]] # "returned"
  /\ \A k \in Kinds :
       /\ stopper[k] \in {"none", "started"} => stop[k] \in {"none", "running"}
       /\ stopper[k] = "started" => stop[k] = "running"
       /\ stopper[k] = "waiting" => stop[k] = "stopping"
       /\ stopper[k] = "done" => stop[k] = "returned"
  /\ phase = "stopped" => \A k \in Kinds : stopper[k] = "done"
-----------------------------------------------------------------------------
\* "NewBulkhead will not start with a missing Kind"
\* (internal/scheduler/README.md:371-372): once it has failed, no pool is running.
NothingRunsOnFailure ==
  phase = "failed" => \A k \in Kinds : stop[k] = "none"
=============================================================================
