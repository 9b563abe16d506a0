-------------------------------- MODULE Deque --------------------------------
(***************************************************************************)
(* internal/scheduler/deque.go: the bounded Chase-Lev deque of one worker,  *)
(* at the granularity of its atomic instructions.  Go's sync/atomic is      *)
(* sequentially consistent, so a behavior is an interleaving of loads,      *)
(* stores and compare-and-swaps.  The owning goroutine runs pushBottom and  *)
(* popBottom; any number of thieves run popTop.                             *)
(*                                                                          *)
(* Two or more accesses form one step only when no other goroutine can tell:*)
(* bottom and the slots are written by the owner alone, so its own reads of *)
(* them need no step of their own.  For the same reason the owner's local b *)
(* always equals bottom where the code uses it, and is not a variable here. *)
(* Indices are never reduced: int64 would need 2^63 pushes to wrap.         *)
(***************************************************************************)
EXTENDS Integers

CONSTANTS
  Capacity,   \* len(d.buf); index & mask is index % Capacity for a power of two
  Thieves,    \* the goroutines that call popTop
  MaxTasks    \* bound: how many tasks the owner submits

ASSUME DequeAssumption == Capacity \in Nat \ {0} /\ MaxTasks \in Nat

Tasks == 1 .. MaxTasks
Nil == 0

VARIABLES
  top, bottom,            \* d.top, d.bottom
  buf,                    \* d.buf
  opc, otop, otask,       \* the owner: where it is, its local top and t
  tpc, ttop, tbot, ttask, \* each thief: where it is, its local top, b and t
  next,                   \* the task the owner pushes next
  spilled,                \* tasks pushBottom refused
  delivered               \* delivered[t]: how many calls have returned task t

ownerVars == <<opc, otop, otask>>
thiefVars == <<tpc, ttop, tbot, ttask>>
vars == <<top, bottom, buf, opc, otop, otask, tpc, ttop, tbot, ttask,
          next, spilled, delivered>>

Slot(i) == i % Capacity

Deliver(t) == delivered' = [delivered EXCEPT ![t] = @ + 1]

\* A call ends: its local variables are gone.
OwnerReturns == opc' = "idle" /\ otop' = 0 /\ otask' = Nil

ThiefReturns(w) ==
  /\ tpc' = [tpc EXCEPT ![w] = "idle"]
  /\ ttop' = [ttop EXCEPT ![w] = 0]
  /\ tbot' = [tbot EXCEPT ![w] = 0]
  /\ ttask' = [ttask EXCEPT ![w] = Nil]

Init ==
  /\ top = 0
  /\ bottom = 0
  /\ buf = [i \in 0 .. Capacity - 1 |-> Nil]
  /\ opc = "idle" /\ otop = 0 /\ otask = Nil
  /\ tpc = [w \in Thieves |-> "idle"]
  /\ ttop = [w \in Thieves |-> 0]
  /\ tbot = [w \in Thieves |-> 0]
  /\ ttask = [w \in Thieves |-> Nil]
  /\ next = 1
  /\ spilled = {}
  /\ delivered = [t \in Tasks |-> 0]
-----------------------------------------------------------------------------
(* pushBottom *)

\* Variants that a run must refute: a capacity test off by one, either way.
FullLate == bottom - top > Capacity
FullEarly == bottom - top >= Capacity - 1

Full == bottom - top >= Capacity

\* Loads bottom and top and finds the deque full: the caller spills the task.
PushRefused ==
  /\ opc = "idle" /\ next \in Tasks
  /\ Full
  /\ spilled' = spilled \cup {next}
  /\ next' = next + 1
  /\ UNCHANGED <<top, bottom, buf, ownerVars, thiefVars, delivered>>

\* Loads bottom and top and finds room.
PushBegin ==
  /\ opc = "idle" /\ next \in Tasks
  /\ ~Full
  /\ opc' = "store"
  /\ otask' = next
  /\ next' = next + 1
  /\ UNCHANGED <<top, bottom, buf, otop, thiefVars, spilled, delivered>>

PushStore ==
  /\ opc = "store"
  /\ buf' = [buf EXCEPT ![Slot(bottom)] = otask]
  /\ opc' = "publish"
  /\ UNCHANGED <<top, bottom, otop, otask, thiefVars, next, spilled, delivered>>

PushPublish ==
  /\ opc = "publish"
  /\ bottom' = bottom + 1
  /\ OwnerReturns
  /\ UNCHANGED <<top, buf, thiefVars, next, spilled, delivered>>
-----------------------------------------------------------------------------
(* popBottom *)

PopReserve ==
  /\ opc = "idle"
  /\ bottom' = bottom - 1
  /\ opc' = "reserved"
  /\ UNCHANGED <<top, buf, otop, otask, thiefVars, next, spilled, delivered>>

\* The load of top finds the deque empty already.
PopEmpty ==
  /\ opc = "reserved"
  /\ top > bottom
  /\ otop' = top
  /\ opc' = "restore"
  /\ UNCHANGED <<top, bottom, buf, otask, thiefVars, next, spilled, delivered>>

\* Variant: taking the last element, too, without a compare-and-swap.
PopSafeLast ==
  /\ opc = "reserved"
  /\ top <= bottom
  /\ Deliver(buf[Slot(bottom)])
  /\ OwnerReturns
  /\ UNCHANGED <<top, bottom, buf, thiefVars, next, spilled>>

\* The load of top finds other elements below the reserved one: no thief can
\* reach it any more, and the call returns it without a compare-and-swap.
PopSafe ==
  /\ opc = "reserved"
  /\ top < bottom
  /\ Deliver(buf[Slot(bottom)])
  /\ OwnerReturns
  /\ UNCHANGED <<top, bottom, buf, thiefVars, next, spilled>>

\* The load of top finds that the reserved element is the last one.
PopContend ==
  /\ opc = "reserved"
  /\ top = bottom
  /\ otop' = top
  /\ otask' = buf[Slot(bottom)]
  /\ opc' = "cas"
  /\ UNCHANGED <<top, bottom, buf, thiefVars, next, spilled, delivered>>

\* Variant: leaving bottom lowered when the deque was empty.
PopRestoreNot ==
  /\ opc = "restore"
  /\ OwnerReturns
  /\ UNCHANGED <<top, bottom, buf, thiefVars, next, spilled, delivered>>

PopRestore ==
  /\ opc = "restore"
  /\ bottom' = otop
  /\ OwnerReturns
  /\ UNCHANGED <<top, buf, thiefVars, next, spilled, delivered>>

PopCAS ==
  /\ opc = "cas"
  /\ opc' = "reset"
  /\ \/ top = otop /\ top' = otop + 1 /\ otask' = otask
     \/ top # otop /\ top' = top /\ otask' = Nil
  /\ UNCHANGED <<bottom, buf, otop, thiefVars, next, spilled, delivered>>

\* Variant: resetting bottom to the loaded top instead of past it.
PopResetShort ==
  /\ opc = "reset"
  /\ bottom' = otop
  /\ IF otask = Nil THEN UNCHANGED delivered ELSE Deliver(otask)
  /\ OwnerReturns
  /\ UNCHANGED <<top, buf, thiefVars, next, spilled>>

\* bottom.Store(top + 1), and the return of t.
PopReset ==
  /\ opc = "reset"
  /\ bottom' = otop + 1
  /\ IF otask = Nil THEN UNCHANGED delivered ELSE Deliver(otask)
  /\ OwnerReturns
  /\ UNCHANGED <<top, buf, thiefVars, next, spilled>>
-----------------------------------------------------------------------------
(* popTop, run by thief w *)

StealLoadTop(w) ==
  /\ tpc[w] = "idle"
  /\ ttop' = [ttop EXCEPT ![w] = top]
  /\ tpc' = [tpc EXCEPT ![w] = "bottom"]
  /\ UNCHANGED <<top, bottom, buf, ownerVars, tbot, ttask, next, spilled, delivered>>

\* Loads bottom, not above the top loaded before: empty, returns nil.
StealEmpty(w) ==
  /\ tpc[w] = "bottom"
  /\ ttop[w] >= bottom
  /\ ThiefReturns(w)
  /\ UNCHANGED <<top, bottom, buf, ownerVars, next, spilled, delivered>>

StealLoadBottom(w) ==
  /\ tpc[w] = "bottom"
  /\ ttop[w] < bottom
  /\ tbot' = [tbot EXCEPT ![w] = bottom]
  /\ tpc' = [tpc EXCEPT ![w] = "slot"]
  /\ UNCHANGED <<top, bottom, buf, ownerVars, ttop, ttask, next, spilled, delivered>>

StealLoadSlot(w) ==
  /\ tpc[w] = "slot"
  /\ ttask' = [ttask EXCEPT ![w] = buf[Slot(ttop[w])]]
  /\ tpc' = [tpc EXCEPT ![w] = "cas"]
  /\ UNCHANGED <<top, bottom, buf, ownerVars, ttop, tbot, next, spilled, delivered>>

StealWin(w) ==
  /\ tpc[w] = "cas"
  /\ top = ttop[w]
  /\ top' = ttop[w] + 1
  /\ Deliver(ttask[w])
  /\ ThiefReturns(w)
  /\ UNCHANGED <<bottom, buf, ownerVars, next, spilled>>

StealLose(w) ==
  /\ tpc[w] = "cas"
  /\ top # ttop[w]
  /\ ThiefReturns(w)
  /\ UNCHANGED <<top, bottom, buf, ownerVars, next, spilled, delivered>>
-----------------------------------------------------------------------------
Owner ==
  \/ PushRefused \/ PushBegin \/ PushStore \/ PushPublish
  \/ PopReserve \/ PopEmpty \/ PopSafe \/ PopContend
  \/ PopRestore \/ PopCAS \/ PopReset

Thief(w) ==
  \/ StealLoadTop(w) \/ StealEmpty(w) \/ StealLoadBottom(w) \/ StealLoadSlot(w)
  \/ StealWin(w) \/ StealLose(w)

Next == Owner \/ \E w \in Thieves : Thief(w)

Spec == Init /\ [][Next]_vars
-----------------------------------------------------------------------------
(* Properties *)

\* While popBottom has lowered bottom, the reserved element still counts as
\* queued until the load of top or a compare-and-swap decides whose it is.
LiveBottom ==
  IF opc \in {"reserved", "cas", "restore", "reset"} THEN bottom + 1 ELSE bottom

\* The logical indices of the queued tasks, and the task at one of them.
Live == top .. LiveBottom - 1
Item(i) == buf[Slot(i)]

\* A task popBottom has taken and is about to return.
Held == IF opc = "reset" THEN {otask} \ {Nil} ELSE {}
\* A task pushBottom is still adding.
Pushing == IF opc \in {"store", "publish"} THEN {otask} ELSE {}

OwnerPCs == {"idle", "store", "publish", "reserved", "restore", "cas", "reset"}
ThiefPCs == {"idle", "bottom", "slot", "cas"}

\* Every variable keeps its type; bottom falls at most one below zero, and
\* only while popBottom has reserved a slot of an empty deque.
TypeOK ==
  /\ top \in Nat /\ bottom \in Int /\ bottom >= -1
  /\ buf \in [0 .. Capacity - 1 -> Tasks \cup {Nil}]
  /\ opc \in OwnerPCs /\ otop \in Nat /\ otask \in Tasks \cup {Nil}
  /\ tpc \in [Thieves -> ThiefPCs]
  /\ ttop \in [Thieves -> Nat] /\ tbot \in [Thieves -> Int]
  /\ ttask \in [Thieves -> Tasks \cup {Nil}]
  /\ next \in 1 .. MaxTasks + 1
  /\ spilled \subseteq Tasks
  /\ delivered \in [Tasks -> Nat]

\* No task is handed out twice, however the owner's popBottom and the thieves'
\* popTop race for it, nor handed out after schedule was told to spill it: a
\* second run would close the task's Future a second time.
AtMostOnce ==
  \A t \in Tasks : delivered[t] <= IF t \in spilled THEN 0 ELSE 1

\* No task is lost: whatever pushBottom was given was refused, or is being
\* added, or is queued, or is being returned, or has been handed to a caller.
NothingLost ==
  \A t \in 1 .. next - 1 :
    \/ t \in spilled \cup Pushing \cup Held
    \/ delivered[t] > 0
    \/ \E i \in Live : Item(i) = t

\* A thief whose compare-and-swap can still succeed has read the slot as it is
\* now: the fixed capacity keeps pushBottom from reusing the slot (no ABA).
StealIsCurrent ==
  \A w \in Thieves :
    tpc[w] = "cas" /\ ttop[w] = top => top \in Live /\ ttask[w] = Item(top)

\* The abstract state: the queued tasks, oldest first; the task the owner adds
\* next, or is adding; and the tasks handed out, or about to be returned.
Queue == [i \in 1 .. LiveBottom - top |-> Item(top + i - 1)]
NextAdded == IF Pushing = {} THEN next ELSE next - 1
Handed == [t \in Tasks |-> delivered[t] + IF t \in Held THEN 1 ELSE 0]

Abstract == INSTANCE WorkDeque WITH
  items <- Queue, next <- NextAdded, handed <- Handed

\* The deque is a bounded sequence with atomic operations: its owner takes the
\* newest task, its thieves the oldest, and it refuses a task only when full.
ImplementsWorkDeque == Abstract!Spec

\* The part of the inductive invariant about the owner: what it knows about the
\* shared indices and the task in its hands at each point of its two operations.
OwnerInv ==
  /\ top <= LiveBottom /\ LiveBottom - top <= Capacity
  /\ spilled \subseteq 1 .. next - 1
  /\ \A t \in Tasks : t >= next => delivered[t] = 0
  /\ \A t \in Pushing \cup Held : t \in 1 .. next - 1 /\ t \notin spilled /\ delivered[t] = 0
  /\ opc \in {"store", "publish"} => otask = next - 1 /\ bottom - top < Capacity
  /\ opc = "publish" => buf[Slot(bottom)] = otask
  /\ opc = "restore" => otop = top /\ top = bottom + 1
  /\ opc = "cas" => otop = bottom /\ otop <= top /\ otask = buf[Slot(bottom)]
  /\ opc = "reset" => otop = bottom /\ top = bottom + 1

\* The part about the queued tasks: different ones in different places, in
\* nobody's hands, and none of them handed out or spilled.
QueuedInv ==
  /\ \A i \in Live :
       /\ Item(i) \in 1 .. next - 1
       /\ Item(i) \notin spilled \cup Pushing \cup Held
       /\ delivered[Item(i)] = 0
  /\ \A i, j \in Live : Item(i) = Item(j) => i = j

\* The part about the thieves: a thief that has not been overtaken is after a
\* queued task, and has read it from the slot where it still is.
ThiefInv ==
  \A w \in Thieves :
    /\ ttop[w] <= top
    /\ tpc[w] \in {"slot", "cas"} /\ ttop[w] = top => top < LiveBottom
    /\ tpc[w] = "cas" /\ ttop[w] = top => ttask[w] = Item(top)

\* The inductive invariant of the proofs (Deque_proofs.tla).
IInv == TypeOK /\ AtMostOnce /\ OwnerInv /\ QueuedInv /\ ThiefInv
=============================================================================
