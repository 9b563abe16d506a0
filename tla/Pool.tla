-------------------------------- MODULE Pool --------------------------------
(***************************************************************************)
(* What one Scheduler promises, without its queues, its workers' search and *)
(* its doorbell: a task handed to Submit is refused, or is run by one of    *)
(* NumWorkers workers once; Stop returns when nothing runs, and nothing     *)
(* runs afterwards.  Scheduler implements this, and Bulkhead is built on it. *)
(***************************************************************************)
EXTENDS Naturals, FiniteSets

CONSTANTS
  NumWorkers, \* how many tasks may run at once
  Cap,        \* the smallest depth cap a shared queue has; 0 if none is capped
  Tasks       \* the tasks that may be submitted, each once

VARIABLES
  fut,     \* fut[t]: the state of t's Future
  running, \* the tasks whose fn is being called
  stop     \* how far Stop has come

vars == <<fut, running, stop>>

Waiting == {t \in Tasks : fut[t] = "pending"} \ running
Resolve(t, r) == fut' = [fut EXCEPT ![t] = r]

Init ==
  /\ fut = [t \in Tasks |-> "none"]
  /\ running = {}
  /\ stop = "running"

\* Submit before Stop ...
Accept(t) ==
  /\ fut[t] = "none" /\ stop = "running"
  /\ Resolve(t, "pending")
  /\ UNCHANGED <<running, stop>>

\* ... after it ...
RefuseStopped(t) ==
  /\ fut[t] = "none" /\ stop # "running"
  /\ Resolve(t, "stopped")
  /\ UNCHANGED <<running, stop>>

\* ... or with as many tasks waiting already as the smallest cap allows.
RefuseFull(t) ==
  /\ t \in Waiting
  /\ Cap > 0 /\ Cardinality(Waiting \ {t}) >= Cap
  /\ Resolve(t, "full")
  /\ UNCHANGED <<running, stop>>

\* A free worker takes a task: also after Stop was called, not after it returned.
Start(t) ==
  /\ t \in Waiting /\ Cardinality(running) < NumWorkers
  /\ stop # "returned"
  /\ running' = running \cup {t}
  /\ UNCHANGED <<fut, stop>>

Finish(t) ==
  /\ t \in running
  /\ Resolve(t, "done")
  /\ running' = running \ {t}
  /\ UNCHANGED stop

StopCall ==
  /\ stop = "running"
  /\ stop' = "stopping"
  /\ UNCHANGED <<fut, running>>

StopReturn ==
  /\ stop = "stopping" /\ running = {}
  /\ stop' = "returned"
  /\ UNCHANGED <<fut, running>>

Next ==
  \/ \E t \in Tasks : Accept(t) \/ RefuseStopped(t) \/ RefuseFull(t) \/ Start(t) \/ Finish(t)
  \/ StopCall \/ StopReturn

Spec == Init /\ [][Next]_vars
=============================================================================
