----------------------------- MODULE MCScheduler -----------------------------
(* Workloads for Scheduler.  Tasks are numbers; a workload gives the clients'   *)
(* programs and each task's children.                                          *)
EXTENDS Scheduler

CONSTANT c1

OneClient == {c1}
NoWaits == [t \in Tasks |-> {}]
NoKids == [t \in Tasks |-> <<>>]

\* One client submits two tasks, one after the other.
PairProgram == c1 :> <<1, 2>>

\* Each spawns a child in its own deque and waits for it, so that both workers may
\* wait; the second spawns one more with a context of its own, and one that
\* spills unless the first has been stolen.
PairKids == [t \in Tasks |-> IF t = 1 THEN <<3>> ELSE IF t = 2 THEN <<4, 5, 6>> ELSE <<>>]
WaitsForOwn == [t \in Tasks |-> IF t = 1 THEN {3} ELSE IF t = 2 THEN {4} ELSE {}]

\* A task that waits for one which is submitted after it.
WaitsForNext == [t \in Tasks |-> IF t = 1 THEN {2} ELSE {}]
=============================================================================
