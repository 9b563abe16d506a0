-------------------------------- MODULE Fifo --------------------------------
(* What the injector and the agingQueue need of their buffer: an unbounded     *)
(* queue.  Each operation runs under its queue's mutex, so it is one step.     *)
EXTENDS Sequences

CONSTANTS
  Values,   \* what is queued: *taskNode, or agingNode
  Zero      \* the zero value: what front and pop return of an empty queue

VARIABLES
  items,    \* oldest first
  got       \* what the last front or pop returned

vars == <<items, got>>

Init == items = <<>> /\ got = Zero

Push(v) == items' = Append(items, v) /\ got' = got

Front ==
  /\ got' = IF items = <<>> THEN Zero ELSE Head(items)
  /\ items' = items

Pop ==
  /\ items # <<>>
  /\ got' = Head(items)
  /\ items' = Tail(items)

PopNothing ==
  /\ items = <<>>
  /\ got' = Zero
  /\ items' = items

Next == (\E v \in Values : Push(v)) \/ Front \/ Pop \/ PopNothing

Spec == Init /\ [][Next]_vars
=============================================================================
