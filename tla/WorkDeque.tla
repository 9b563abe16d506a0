------------------------------ MODULE WorkDeque ------------------------------
(***************************************************************************)
(* What a worker's local deque promises its callers, with every call       *)
(* atomic: a bounded sequence of tasks, whose owner adds and takes at the   *)
(* back and whose thieves take at the front.  A pop that finds nothing (or  *)
(* loses a race) changes nothing and is therefore a stuttering step here.   *)
(* Deque.tla is the lock-free implementation; it is checked, and proved, to *)
(* implement Spec.                                                          *)
(***************************************************************************)
EXTENDS Integers, Sequences

CONSTANTS
  Capacity,   \* slots of the deque (defaultLocalQueueCap, 256, in New)
  MaxTasks    \* how many tasks the owner submits in one behavior

Tasks == 1 .. MaxTasks

VARIABLES
  items,      \* the queued tasks, oldest first
  next,       \* the task the owner pushes next; every push is of a new taskNode
  spilled,    \* the tasks refused because the deque was full
  handed      \* handed[t]: how many callers task t has been handed to

vars == <<items, next, spilled, handed>>

Hand(t) == handed' = [handed EXCEPT ![t] = @ + 1]

Init ==
  /\ items = <<>>
  /\ next = 1
  /\ spilled = {}
  /\ handed = [t \in Tasks |-> 0]

PushBottom ==
  /\ next \in Tasks
  /\ Len(items) < Capacity
  /\ items' = Append(items, next)
  /\ next' = next + 1
  /\ UNCHANGED <<spilled, handed>>

Spill ==
  /\ next \in Tasks
  /\ Len(items) >= Capacity
  /\ spilled' = spilled \cup {next}
  /\ next' = next + 1
  /\ UNCHANGED <<items, handed>>

PopBottom ==
  /\ items # <<>>
  /\ Hand(items[Len(items)])
  /\ items' = [i \in 1 .. Len(items) - 1 |-> items[i]]
  /\ UNCHANGED <<next, spilled>>

PopTop ==
  /\ items # <<>>
  /\ Hand(items[1])
  /\ items' = [i \in 1 .. Len(items) - 1 |-> items[i + 1]]
  /\ UNCHANGED <<next, spilled>>

Next == PushBottom \/ Spill \/ PopBottom \/ PopTop

Spec == Init /\ [][Next]_vars
=============================================================================
