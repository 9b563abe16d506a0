---------------------------- MODULE Deque_proofs ----------------------------
(***************************************************************************)
(* Proofs about Deque for every capacity, set of thieves and number of      *)
(* tasks.  IInv is inductive: IInvHolds.  Every safety property follows, and *)
(* that Deque implements WorkDeque: each action is first reduced to its      *)
(* effect on the queued tasks and on whose hands the others are in (the      *)
(* lemmas ...Effect); NothingLost and the refinement follow from the effects. *)
(***************************************************************************)
EXTENDS Deque, SequenceTheorems, TLAPS

USE DequeAssumption

(* Slots *)

\* index & mask stays inside the buffer.
LEMMA SlotRange == ASSUME NEW i \in Int PROVE Slot(i) \in 0 .. Capacity - 1
BY DEF Slot

\* The division that Slot is the remainder of.
LEMMA DivMod ==
  ASSUME NEW i \in Int
  PROVE i = Capacity * (i \div Capacity) + Slot(i) /\ (i \div Capacity) \in Int
BY DEF Slot

\* Fewer than Capacity apart, two indices have different slots.
LEMMA SlotInjective ==
  ASSUME NEW i \in Int, NEW j \in Int, i < j, j - i < Capacity
  PROVE Slot(i) # Slot(j)
<1> DEFINE q == i \div Capacity
           r == j \div Capacity
<1>1. /\ i = Capacity * q + Slot(i) /\ j = Capacity * r + Slot(j)
      /\ q \in Int /\ r \in Int /\ Slot(i) \in Int /\ Slot(j) \in Int
  <2>1. i = Capacity * q + Slot(i) /\ q \in Int
    BY DivMod
  <2>2. j = Capacity * r + Slot(j) /\ r \in Int
    BY DivMod
  <2>3. Slot(i) \in Int /\ Slot(j) \in Int
    BY SlotRange
  <2>. QED BY <2>1, <2>2, <2>3
<1> HIDE DEF q, r
<1>2. SUFFICES ASSUME Slot(i) = Slot(j) PROVE FALSE
  OBVIOUS
<1>3. Capacity * (r - q) = j - i
  BY <1>1, <1>2
<1>4. CASE r <= q
  <2>1. Capacity * (r - q) <= 0 BY <1>4, <1>1
  <2> QED BY <2>1, <1>3
<1>5. CASE r > q
  <2>1. Capacity * (r - q) >= Capacity BY <1>5, <1>1
  <2> QED BY <2>1, <1>3
<1> QED BY <1>4, <1>5, <1>1
-----------------------------------------------------------------------------
(* The inductive invariant *)

\* The deque starts empty, with nobody in a call.
LEMMA InitIInv == Init => IInv
<1> SUFFICES ASSUME Init PROVE IInv
  OBVIOUS
<1>1. TypeOK /\ AtMostOnce
  BY DEF Init, TypeOK, AtMostOnce, Tasks, Nil, OwnerPCs, ThiefPCs
<1>2. OwnerInv
  BY DEF Init, OwnerInv, LiveBottom, Pushing, Held, Tasks, Nil
<1>3. QueuedInv
  BY DEF Init, QueuedInv, LiveBottom, Live
<1>4. ThiefInv
  BY DEF Init, ThiefInv, LiveBottom
<1> QED BY <1>1, <1>2, <1>3, <1>4 DEF IInv

\* What a thief's step that wins nothing leaves alone.
LEMMA Quiet ==
  ASSUME IInv, UNCHANGED <<top, bottom, buf, ownerVars, next, spilled, delivered>>
  PROVE  AtMostOnce' /\ OwnerInv' /\ QueuedInv'
BY DEF IInv, AtMostOnce, OwnerInv, QueuedInv, LiveBottom, Live, Item, Pushing,
       Held, ownerVars

\* What an owner's step that moves neither index nor a queued task leaves alone.
LEMMA QuietOwner ==
  ASSUME IInv, top' = top, LiveBottom' = LiveBottom, UNCHANGED thiefVars,
         \A i \in Live : Item(i)' = Item(i)
  PROVE  ThiefInv'
<1> USE DEF thiefVars
<1> SUFFICES ASSUME NEW w \in Thieves
             PROVE /\ ttop[w] <= top
                   /\ tpc[w] \in {"slot", "cas"} /\ ttop[w] = top => top < LiveBottom
                   /\ tpc[w] = "cas" /\ ttop[w] = top => ttask[w] = Item(top)'
  BY DEF ThiefInv
<1>1. /\ ttop[w] <= top
      /\ tpc[w] \in {"slot", "cas"} /\ ttop[w] = top => top < LiveBottom
      /\ tpc[w] = "cas" /\ ttop[w] = top => ttask[w] = Item(top)
  BY DEF IInv, ThiefInv
<1>2. top < LiveBottom => top \in Live
  BY DEF IInv, TypeOK, Live, LiveBottom
<1> QED BY <1>1, <1>2
-----------------------------------------------------------------------------
\* pushBottom on a full deque.
LEMMA PushRefusedIInv == IInv /\ PushRefused => IInv'
<1> SUFFICES ASSUME IInv, PushRefused PROVE IInv'
  OBVIOUS
<1> USE DEF PushRefused, ownerVars, thiefVars, IInv
<1>1. TypeOK'
  BY DEF TypeOK, Tasks
<1>2. AtMostOnce'
  BY DEF AtMostOnce, OwnerInv, TypeOK, Tasks
<1>3. OwnerInv'
  BY DEF OwnerInv, TypeOK, Tasks, LiveBottom, Pushing, Held
<1>4. QueuedInv'
  BY DEF QueuedInv, TypeOK, Tasks, LiveBottom, Live, Item, Pushing, Held
<1>5. ThiefInv'
  BY DEF ThiefInv, LiveBottom, Item
<1> QED BY <1>1, <1>2, <1>3, <1>4, <1>5

\* pushBottom finds room: the task is in the owner's hands.
LEMMA PushBeginIInv == IInv /\ PushBegin => IInv'
<1> SUFFICES ASSUME IInv, PushBegin PROVE IInv'
  OBVIOUS
<1> USE DEF PushBegin, ownerVars, thiefVars, IInv
<1>1. TypeOK'
  BY DEF TypeOK, Tasks, OwnerPCs
<1>2. AtMostOnce'
  BY DEF AtMostOnce
<1>3. OwnerInv'
  BY DEF OwnerInv, TypeOK, Tasks, LiveBottom, Pushing, Held, Full
<1>4. QueuedInv'
  BY DEF QueuedInv, TypeOK, Tasks, LiveBottom, Live, Item, Pushing, Held
<1>5. ThiefInv'
  BY DEF ThiefInv, LiveBottom, Item
<1> QED BY <1>1, <1>2, <1>3, <1>4, <1>5

\* The store hits the one slot that no queued task is in.
LEMMA PushStoreIInv == IInv /\ PushStore => IInv'
<1> SUFFICES ASSUME IInv, PushStore PROVE IInv'
  OBVIOUS
<1> USE DEF PushStore, thiefVars, IInv
<1>0. /\ bottom \in Int /\ top \in Nat /\ bottom - top < Capacity
      /\ LiveBottom = bottom /\ LiveBottom' = bottom /\ Live' = Live
      /\ Pushing' = Pushing /\ Held' = Held /\ Held = {} /\ Pushing = {otask}
  BY DEF OwnerInv, LiveBottom, Live, TypeOK, Pushing, Held
<1>a. Slot(bottom) \in 0 .. Capacity - 1
  BY <1>0, SlotRange
<1>b. \A i \in Live : Item(i)' = Item(i)
  <2> TAKE i \in Live
  <2>1. Slot(i) # Slot(bottom)
    BY <1>0, SlotInjective DEF Live
  <2>2. i \in Int
    BY <1>0 DEF Live
  <2> QED BY <2>1, <2>2, SlotRange DEF Item, TypeOK
<1>1. TypeOK'
  BY <1>0, <1>a DEF TypeOK, OwnerPCs
<1>2. AtMostOnce'
  BY DEF AtMostOnce
<1>3. OwnerInv'
  BY <1>0, <1>a DEF OwnerInv, TypeOK, LiveBottom, Pushing, Held
<1>4. QueuedInv'
  BY <1>0, <1>b DEF QueuedInv
<1>5. ThiefInv'
  BY <1>0, <1>b, QuietOwner
<1> QED BY <1>1, <1>2, <1>3, <1>4, <1>5

\* bottom.Store(b + 1) queues the stored task.
LEMMA PushPublishIInv == IInv /\ PushPublish => IInv'
<1> SUFFICES ASSUME IInv, PushPublish PROVE IInv'
  OBVIOUS
<1> USE DEF PushPublish, OwnerReturns, thiefVars, IInv
<1>0. /\ bottom \in Int /\ top \in Nat /\ bottom - top < Capacity /\ top <= bottom
      /\ LiveBottom = bottom /\ LiveBottom' = bottom + 1
      /\ Pushing = {otask} /\ Held = {} /\ Pushing' = {} /\ Held' = {}
      /\ Item(bottom) = otask /\ otask \in 1 .. next - 1
      /\ otask \notin spilled /\ delivered[otask] = 0
  BY DEF OwnerInv, LiveBottom, TypeOK, Pushing, Held, Item
<1>a. Live' = Live \cup {bottom} /\ \A i : Item(i)' = Item(i)
  BY <1>0 DEF Live, Item
<1>1. TypeOK'
  BY <1>0 DEF TypeOK, OwnerPCs
<1>2. AtMostOnce'
  BY DEF AtMostOnce
<1>3. OwnerInv'
  BY <1>0 DEF OwnerInv
<1>4. QueuedInv'
  BY <1>0, <1>a DEF QueuedInv
<1>5. ThiefInv'
  BY <1>0, <1>a DEF ThiefInv, TypeOK
<1> QED BY <1>1, <1>2, <1>3, <1>4, <1>5

\* Lowering bottom takes nothing yet.
LEMMA PopReserveIInv == IInv /\ PopReserve => IInv'
<1> SUFFICES ASSUME IInv, PopReserve PROVE IInv'
  OBVIOUS
<1> USE DEF PopReserve, thiefVars, IInv
<1>0. /\ bottom \in Int /\ top \in Nat /\ top <= bottom
      /\ LiveBottom' = LiveBottom
      /\ Pushing' = Pushing /\ Held' = Held
  BY DEF OwnerInv, LiveBottom, TypeOK, Pushing, Held
<1>a. Live' = Live /\ \A i : Item(i)' = Item(i)
  BY <1>0 DEF Live, Item
<1>1. TypeOK'
  BY <1>0 DEF TypeOK, OwnerPCs
<1>2. AtMostOnce'
  BY DEF AtMostOnce
<1>3. OwnerInv'
  BY <1>0 DEF OwnerInv
<1>4. QueuedInv'
  BY <1>0, <1>a DEF QueuedInv
<1>5. ThiefInv'
  BY <1>0, <1>a, QuietOwner
<1> QED BY <1>1, <1>2, <1>3, <1>4, <1>5

\* popBottom finds nothing below the bottom it lowered.
LEMMA PopEmptyIInv == IInv /\ PopEmpty => IInv'
<1> SUFFICES ASSUME IInv, PopEmpty PROVE IInv'
  OBVIOUS
<1> USE DEF PopEmpty, thiefVars, IInv
<1>0. /\ bottom \in Int /\ top \in Nat /\ top = bottom + 1
      /\ LiveBottom' = LiveBottom
      /\ Pushing' = Pushing /\ Held' = Held
  BY DEF OwnerInv, LiveBottom, TypeOK, Pushing, Held
<1>a. Live' = Live /\ \A i : Item(i)' = Item(i)
  BY <1>0 DEF Live, Item
<1>1. TypeOK'
  BY <1>0 DEF TypeOK, OwnerPCs
<1>2. AtMostOnce'
  BY DEF AtMostOnce
<1>3. OwnerInv'
  BY <1>0 DEF OwnerInv
<1>4. QueuedInv'
  BY <1>0, <1>a DEF QueuedInv
<1>5. ThiefInv'
  BY <1>0, <1>a, QuietOwner
<1> QED BY <1>1, <1>2, <1>3, <1>4, <1>5

\* popBottom takes the newest of several tasks.
LEMMA PopSafeIInv == IInv /\ PopSafe => IInv'
<1> SUFFICES ASSUME IInv, PopSafe PROVE IInv'
  OBVIOUS
<1> USE DEF PopSafe, OwnerReturns, Deliver, thiefVars, IInv
<1>0. /\ bottom \in Int /\ top \in Nat /\ top < bottom
      /\ LiveBottom = bottom + 1 /\ LiveBottom' = bottom
      /\ Pushing = {} /\ Held = {} /\ Pushing' = {} /\ Held' = {}
      /\ delivered' = [delivered EXCEPT ![Item(bottom)] = @ + 1]
  BY DEF OwnerInv, LiveBottom, TypeOK, Pushing, Held, Item
<1>a. /\ Live' = Live \ {bottom} /\ bottom \in Live
      /\ \A i : Item(i)' = Item(i)
  BY <1>0 DEF Live, Item
<1>b. /\ Item(bottom) \in 1 .. next - 1 /\ Item(bottom) \in Tasks
      /\ Item(bottom) \notin spilled /\ delivered[Item(bottom)] = 0
  BY <1>0, <1>a DEF QueuedInv, TypeOK, Tasks
<1>1. TypeOK'
  <2>1. TypeOK /\ delivered' \in [Tasks -> Nat]
    BY <1>0, <1>b DEF TypeOK
  <2> QED BY <1>0, <2>1 DEF TypeOK, OwnerPCs
<1>2. AtMostOnce'
  BY <1>0, <1>b DEF AtMostOnce, TypeOK
<1>3. OwnerInv'
  BY <1>0, <1>b DEF OwnerInv, TypeOK, Tasks
<1>4. QueuedInv'
  BY <1>0, <1>a, <1>b, SMTT(30) DEF QueuedInv, TypeOK, Tasks
<1>5. ThiefInv'
  BY <1>0, <1>a DEF ThiefInv, TypeOK
<1> QED BY <1>1, <1>2, <1>3, <1>4, <1>5

\* popBottom is left with the last task, to race thieves for it.
LEMMA PopContendIInv == IInv /\ PopContend => IInv'
<1> SUFFICES ASSUME IInv, PopContend PROVE IInv'
  OBVIOUS
<1> USE DEF PopContend, thiefVars, IInv
<1>0. /\ bottom \in Int /\ top \in Nat /\ top = bottom
      /\ LiveBottom' = LiveBottom /\ LiveBottom = bottom + 1
      /\ Pushing' = Pushing /\ Held' = Held
  BY DEF OwnerInv, LiveBottom, TypeOK, Pushing, Held
<1>a. Live' = Live /\ \A i : Item(i)' = Item(i)
  BY <1>0 DEF Live, Item
<1>b. buf[Slot(bottom)] \in Tasks \cup {Nil}
  BY <1>0, SlotRange DEF TypeOK
<1>1. TypeOK'
  BY <1>0, <1>b DEF TypeOK, OwnerPCs
<1>2. AtMostOnce'
  BY DEF AtMostOnce
<1>3. OwnerInv'
  BY <1>0 DEF OwnerInv
<1>4. QueuedInv'
  BY <1>0, <1>a DEF QueuedInv
<1>5. ThiefInv'
  BY <1>0, <1>a, QuietOwner
<1> QED BY <1>1, <1>2, <1>3, <1>4, <1>5

\* bottom.Store(top) on an empty deque.
LEMMA PopRestoreIInv == IInv /\ PopRestore => IInv'
<1> SUFFICES ASSUME IInv, PopRestore PROVE IInv'
  OBVIOUS
<1> USE DEF PopRestore, OwnerReturns, thiefVars, IInv
<1>0. /\ bottom \in Int /\ top \in Nat /\ top = bottom + 1 /\ otop = top
      /\ LiveBottom' = LiveBottom
      /\ Pushing' = Pushing /\ Held' = Held
  BY DEF OwnerInv, LiveBottom, TypeOK, Pushing, Held
<1>a. Live' = Live /\ \A i : Item(i)' = Item(i)
  BY <1>0 DEF Live, Item
<1>1. TypeOK'
  BY <1>0 DEF TypeOK, OwnerPCs
<1>2. AtMostOnce'
  BY DEF AtMostOnce
<1>3. OwnerInv'
  BY <1>0 DEF OwnerInv
<1>4. QueuedInv'
  BY <1>0, <1>a DEF QueuedInv
<1>5. ThiefInv'
  BY <1>0, <1>a, QuietOwner
<1> QED BY <1>1, <1>2, <1>3, <1>4, <1>5

\* The owner's compare-and-swap decides who has the last task.
LEMMA PopCASIInv == IInv /\ PopCAS => IInv'
<1> SUFFICES ASSUME IInv, PopCAS PROVE IInv'
  OBVIOUS
<1> USE DEF PopCAS, thiefVars, IInv
<1>0. /\ bottom \in Int /\ top \in Nat /\ otop = bottom /\ otop <= top /\ top <= bottom + 1
      /\ LiveBottom = bottom + 1 /\ LiveBottom' = bottom + 1 /\ top' = bottom + 1
      /\ Pushing = {} /\ Held = {} /\ Pushing' = {} /\ Held' = {otask'} \ {Nil}
      /\ otask = Item(bottom)
  BY DEF OwnerInv, LiveBottom, TypeOK, Pushing, Held, Item
<1>a. Live' = {} /\ (top = otop => bottom \in Live)
  BY <1>0 DEF Live
<1>b. Held' # {} => /\ otask' \in 1 .. next - 1
                    /\ otask' \notin spilled /\ delivered[otask'] = 0
  BY <1>0, <1>a DEF QueuedInv
<1>1. TypeOK'
  BY <1>0 DEF TypeOK, OwnerPCs
<1>2. AtMostOnce'
  BY DEF AtMostOnce
<1>3. OwnerInv'
  BY <1>0, <1>b DEF OwnerInv
<1>4. QueuedInv'
  BY <1>a DEF QueuedInv
<1>5. ThiefInv'
  BY <1>0 DEF ThiefInv, TypeOK
<1> QED BY <1>1, <1>2, <1>3, <1>4, <1>5

\* bottom.Store(top + 1), and the return.
LEMMA PopResetIInv == IInv /\ PopReset => IInv'
<1> SUFFICES ASSUME IInv, PopReset PROVE IInv'
  OBVIOUS
<1> USE DEF PopReset, OwnerReturns, Deliver, thiefVars, IInv
<1>0. /\ bottom \in Int /\ top \in Nat /\ otop = bottom /\ top = bottom + 1
      /\ LiveBottom' = LiveBottom /\ LiveBottom = bottom + 1 /\ bottom' = bottom + 1
      /\ Pushing = {} /\ Held = {otask} \ {Nil} /\ Pushing' = {} /\ Held' = {}
  BY DEF OwnerInv, LiveBottom, TypeOK, Pushing, Held
<1>a. Live' = {} /\ Live = {}
  BY <1>0 DEF Live
<1>b. otask # Nil => /\ otask \in 1 .. next - 1 /\ otask \in Tasks
                     /\ otask \notin spilled /\ delivered[otask] = 0
  BY <1>0 DEF OwnerInv, TypeOK
<1>1. TypeOK'
  BY <1>0, <1>b DEF TypeOK, OwnerPCs
<1>2. AtMostOnce'
  <2>1. CASE otask = Nil
    BY <2>1 DEF AtMostOnce
  <2>2. CASE otask # Nil
    <3>1. delivered' = [delivered EXCEPT ![otask] = @ + 1]
      BY <2>2
    <3> QED BY <3>1, <2>2, <1>b DEF AtMostOnce, TypeOK
  <2> QED BY <2>1, <2>2
<1>3. OwnerInv'
  BY <1>0, <1>b DEF OwnerInv, TypeOK, Tasks
<1>4. QueuedInv'
  BY <1>a DEF QueuedInv
<1>5. ThiefInv'
  BY <1>0, <1>a DEF ThiefInv, TypeOK, Item
<1> QED BY <1>1, <1>2, <1>3, <1>4, <1>5
-----------------------------------------------------------------------------
\* The steps of popTop that take nothing.
LEMMA StealQuietIInv ==
  ASSUME IInv, NEW w \in Thieves,
         StealLoadTop(w) \/ StealEmpty(w) \/ StealLoadBottom(w) \/ StealLoadSlot(w) \/ StealLose(w)
  PROVE  IInv'
<1>1. UNCHANGED <<top, bottom, buf, ownerVars, next, spilled, delivered>>
  BY DEF StealLoadTop, StealEmpty, StealLoadBottom, StealLoadSlot, StealLose
<1>2. AtMostOnce' /\ OwnerInv' /\ QueuedInv'
  BY <1>1, Quiet
<1>3. /\ TypeOK /\ ThiefInv
      /\ LiveBottom' = LiveBottom /\ bottom <= LiveBottom /\ LiveBottom \in Int
      /\ \A i : Item(i)' = Item(i)
      /\ tpc[w] = "slot" => buf[Slot(ttop[w])] \in Tasks \cup {Nil}
  <2>1. TypeOK /\ ThiefInv
    BY DEF IInv
  <2>2. LiveBottom' = LiveBottom /\ bottom <= LiveBottom /\ LiveBottom \in Int
    BY <1>1, <2>1 DEF LiveBottom, ownerVars, TypeOK
  <2>3. \A i : Item(i)' = Item(i)
    BY <1>1 DEF Item
  <2>4. tpc[w] = "slot" => buf[Slot(ttop[w])] \in Tasks \cup {Nil}
    BY <2>1, SlotRange DEF TypeOK
  <2> QED BY <2>1, <2>2, <2>3, <2>4
<1>4. SUFFICES TypeOK' /\ ThiefInv'
  BY <1>2 DEF IInv
<1>5. CASE StealLoadTop(w)
  BY <1>1, <1>3, <1>5 DEF StealLoadTop, TypeOK, ThiefInv, ThiefPCs, ownerVars
<1>6. CASE StealEmpty(w) \/ StealLose(w)
  <2>1. ThiefReturns(w)
    BY <1>6 DEF StealEmpty, StealLose
  <2>2. TypeOK'
    BY <1>1, <1>3, <2>1 DEF ThiefReturns, TypeOK, ThiefPCs, ownerVars
  <2>3. ThiefInv'
    BY <1>1, <1>3, <2>1 DEF ThiefReturns, TypeOK, ThiefInv
  <2> QED BY <2>2, <2>3
<1>7. CASE StealLoadBottom(w)
  <2>1. TypeOK'
    BY <1>1, <1>3, <1>7 DEF StealLoadBottom, TypeOK, ThiefPCs, ownerVars
  <2>2. ThiefInv'
    BY <1>1, <1>3, <1>7 DEF StealLoadBottom, TypeOK, ThiefInv
  <2> QED BY <2>1, <2>2
<1>8. CASE StealLoadSlot(w)
  BY <1>1, <1>3, <1>8 DEF StealLoadSlot, TypeOK, ThiefInv, ThiefPCs, ownerVars, Item
<1> QED BY <1>5, <1>6, <1>7, <1>8

\* popTop's compare-and-swap succeeds.
LEMMA StealWinIInv ==
  ASSUME IInv, NEW w \in Thieves, StealWin(w)
  PROVE  IInv'
<1> USE DEF StealWin, ThiefReturns, Deliver, ownerVars, IInv
<1>0. /\ bottom \in Int /\ top \in Nat /\ top' = top + 1 /\ LiveBottom' = LiveBottom
      /\ LiveBottom \in Int /\ Pushing' = Pushing /\ Held' = Held
      /\ top < LiveBottom /\ ttask[w] = Item(top)
  BY DEF ThiefInv, LiveBottom, TypeOK, Pushing, Held
<1>a. /\ Live' = Live \ {top} /\ top \in Live
      /\ \A i : Item(i)' = Item(i)
  BY <1>0 DEF Live, Item
<1>b. /\ Item(top) \in 1 .. next - 1 /\ Item(top) \in Tasks
      /\ Item(top) \notin spilled \cup Pushing \cup Held /\ delivered[Item(top)] = 0
  BY <1>a DEF QueuedInv, TypeOK, Tasks
<1>1. TypeOK'
  BY <1>0, <1>b DEF TypeOK, ThiefPCs
<1>2. AtMostOnce'
  BY <1>0, <1>b DEF AtMostOnce, TypeOK
<1>3. OwnerInv'
  <2>1. opc \in {"restore", "reset"} => FALSE
    BY <1>0 DEF OwnerInv, LiveBottom, TypeOK
  <2>2. top' <= LiveBottom' /\ LiveBottom' - top' <= Capacity
    BY <1>0 DEF OwnerInv
  <2>3. \A t \in Tasks : t >= next => delivered'[t] = 0
    BY <1>0, <1>b, SMTT(30) DEF OwnerInv, TypeOK, Tasks
  <2>4. \A t \in Pushing \cup Held : delivered'[t] = 0
    BY <1>0, <1>b, SMTT(30) DEF OwnerInv, TypeOK, Tasks
  <2>5. UNCHANGED <<bottom, buf, opc, otop, otask, next, spilled>> /\ Capacity \in Nat
    BY DequeAssumption
  <2>6. \A t \in (Pushing \cup Held)' : t \in 1 .. next' - 1 /\ t \notin spilled'
    BY <1>0, <2>5 DEF OwnerInv
  <2>7. opc \in {"store", "publish"} => otask' = next' - 1 /\ bottom' - top' < Capacity
    <3>1. opc \in {"store", "publish"} => otask = next - 1 /\ bottom - top < Capacity
      BY DEF OwnerInv
    <3> QED BY <1>0, <2>5, <3>1
  <2>8. opc = "cas" => otop' = bottom' /\ otop' <= top' /\ otask' = buf'[Slot(bottom)']
    <3>1. opc = "cas" => otop = bottom /\ otop <= top /\ otask = buf[Slot(bottom)]
      BY DEF OwnerInv
    <3> QED BY <1>0, <2>5, <3>1 DEF Slot
  <2>9. opc = "publish" => buf'[Slot(bottom)'] = otask'
    BY <2>5 DEF OwnerInv, Slot
  <2> QED
    BY <1>0, <2>1, <2>2, <2>3, <2>4, <2>5, <2>6, <2>7, <2>8, <2>9 DEF OwnerInv
<1>4. QueuedInv'
  BY <1>0, <1>a, <1>b, SMTT(30) DEF QueuedInv, TypeOK, Tasks
<1>5. ThiefInv'
  BY <1>0, <1>a DEF ThiefInv, TypeOK
<1> QED BY <1>1, <1>2, <1>3, <1>4, <1>5

\* A step of the rest of the program.
LEMMA StutterIInv == IInv /\ UNCHANGED vars => IInv'
BY DEF vars, ownerVars, thiefVars, IInv, TypeOK, AtMostOnce, OwnerInv, QueuedInv,
       ThiefInv, LiveBottom, Live, Item, Pushing, Held

\* Every step preserves the invariant.
LEMMA NextIInv == IInv /\ [Next]_vars => IInv'
<1> SUFFICES ASSUME IInv, [Next]_vars PROVE IInv'
  OBVIOUS
<1>1. CASE Owner
  BY <1>1, PushRefusedIInv, PushBeginIInv, PushStoreIInv, PushPublishIInv,
     PopReserveIInv, PopEmptyIInv, PopSafeIInv, PopContendIInv, PopRestoreIInv,
     PopCASIInv, PopResetIInv DEF Owner
<1>2. ASSUME NEW w \in Thieves, Thief(w) PROVE IInv'
  BY <1>2, StealQuietIInv, StealWinIInv DEF Thief
<1>3. CASE UNCHANGED vars
  BY <1>3, StutterIInv
<1> QED BY <1>1, <1>2, <1>3 DEF Next

\* The inductive invariant: what owner and thieves know at every step.
THEOREM IInvHolds == Spec => []IInv
BY InitIInv, NextIInv, PTL DEF Spec

\* Type correctness: bottom never falls below -1, whatever popBottom races with.
THEOREM TypeCorrect == Spec => []TypeOK
BY IInvHolds, PTL DEF IInv

\* popBottom and popTop never return one task twice.
THEOREM AtMostOnceHolds == Spec => []AtMostOnce
BY IInvHolds, PTL DEF IInv

\* popTop's compare-and-swap succeeds only on the task that is in the slot.
THEOREM StealIsCurrentHolds == Spec => []StealIsCurrent
<1>1. IInv => StealIsCurrent
  BY DEF IInv, TypeOK, ThiefInv, StealIsCurrent, Live, LiveBottom
<1> QED BY <1>1, IInvHolds, PTL
-----------------------------------------------------------------------------
(* The refinement *)

\* An action with no effect: the same tasks are queued in the same places.
NoEffect ==
  /\ top' = top /\ LiveBottom' = LiveBottom
  /\ \A i \in Live : Item(i)' = Item(i)
  /\ Pushing' = Pushing /\ Held' = Held
  /\ UNCHANGED <<next, spilled, delivered>>

\* What IInv says of the indices and of the queued tasks.
LEMMA Types ==
  ASSUME IInv
  PROVE  /\ top \in Nat /\ bottom \in Int /\ LiveBottom \in Int
         /\ top <= LiveBottom /\ LiveBottom - top <= Capacity
         /\ next \in 1 .. MaxTasks + 1 /\ delivered \in [Tasks -> Nat]
         /\ \A i \in Live : Item(i) \in 1 .. next - 1 /\ Item(i) \in Tasks
<1>1. /\ top \in Nat /\ bottom \in Int /\ next \in 1 .. MaxTasks + 1
      /\ delivered \in [Tasks -> Nat]
  BY DEF IInv, TypeOK
<1>2. LiveBottom \in Int /\ top <= LiveBottom /\ LiveBottom - top <= Capacity
  BY <1>1 DEF IInv, OwnerInv, LiveBottom
<1>3. \A i \in Live : Item(i) \in 1 .. next - 1
  BY DEF IInv, QueuedInv
<1>4. 1 .. next - 1 \subseteq Tasks
  BY <1>1 DEF Tasks
<1> QED BY <1>1, <1>2, <1>3, <1>4

\* The store hits a slot of no queued task.
LEMMA PushStoreEffect == IInv /\ PushStore => NoEffect
<1> SUFFICES ASSUME IInv, PushStore PROVE NoEffect
  OBVIOUS
<1>1. /\ LiveBottom = bottom /\ LiveBottom' = bottom
      /\ Pushing' = Pushing /\ Held' = Held /\ bottom - top < Capacity
  BY DEF PushStore, LiveBottom, Pushing, Held, IInv, OwnerInv
<1>2. ASSUME NEW i \in Live PROVE Item(i)' = Item(i)
  <2>1. /\ i \in Int /\ bottom \in Int /\ top \in Nat /\ i < bottom /\ top <= i
    BY <1>1, Types DEF Live
  <2>2. bottom - i < Capacity
    BY <1>1, <2>1
  <2>3. Slot(i) # Slot(bottom)
    BY <2>1, <2>2, SlotInjective
  <2>4. buf' = [buf EXCEPT ![Slot(bottom)] = otask] /\ Slot(i) \in DOMAIN buf
    BY <2>1, SlotRange DEF PushStore, IInv, TypeOK
  <2> QED BY <2>3, <2>4 DEF Item
<1> QED BY <1>1, <1>2 DEF NoEffect, PushStore

\* The steps of popBottom that take nothing.
LEMMA OwnerNoEffect ==
  ASSUME IInv, PopReserve \/ PopEmpty \/ PopContend \/ PopRestore
  PROVE  NoEffect
<1>1. top' = top /\ UNCHANGED <<buf, next, spilled, delivered>>
  BY DEF PopReserve, PopEmpty, PopContend, PopRestore
<1>2. LiveBottom' = LiveBottom
  BY DEF PopReserve, PopEmpty, PopContend, PopRestore, LiveBottom, OwnerReturns, IInv,
         OwnerInv, TypeOK
<1>3. Pushing' = Pushing /\ Held' = Held
  BY DEF PopReserve, PopEmpty, PopContend, PopRestore, OwnerReturns, Pushing, Held
<1> QED BY <1>1, <1>2, <1>3 DEF NoEffect, Item

\* The steps of popTop that take nothing.
LEMMA ThiefNoEffect ==
  ASSUME IInv, NEW w \in Thieves,
         StealLoadTop(w) \/ StealEmpty(w) \/ StealLoadBottom(w) \/ StealLoadSlot(w) \/ StealLose(w)
  PROVE  NoEffect
<1>1. UNCHANGED <<top, bottom, buf, ownerVars, next, spilled, delivered>>
  BY DEF StealLoadTop, StealEmpty, StealLoadBottom, StealLoadSlot, StealLose
<1> QED BY <1>1 DEF NoEffect, LiveBottom, Item, Pushing, Held, ownerVars

\* The next task is in the owner's hands.
LEMMA PushBeginEffect ==
  ASSUME IInv, PushBegin
  PROVE  /\ top' = top /\ LiveBottom' = LiveBottom /\ \A i \in Live : Item(i)' = Item(i)
         /\ Pushing = {} /\ Pushing' = {next} /\ next' = next + 1
         /\ Held' = Held /\ UNCHANGED <<spilled, delivered>>
BY DEF PushBegin, LiveBottom, Item, Pushing, Held

\* The next task is spilled.
LEMMA PushRefusedEffect ==
  ASSUME IInv, PushRefused
  PROVE  /\ top' = top /\ LiveBottom' = LiveBottom /\ \A i \in Live : Item(i)' = Item(i)
         /\ LiveBottom - top >= Capacity
         /\ Pushing = {} /\ Pushing' = {} /\ next \in Tasks /\ next' = next + 1
         /\ spilled' = spilled \cup {next}
         /\ Held' = Held /\ UNCHANGED delivered
BY DEF PushRefused, LiveBottom, Item, Pushing, Held, ownerVars, Full

\* The task in the owner's hands becomes the newest in the queue.
LEMMA PushPublishEffect ==
  ASSUME IInv, PushPublish
  PROVE  /\ top' = top /\ LiveBottom' = LiveBottom + 1
         /\ \A i \in Live : Item(i)' = Item(i)
         /\ \A i : i = LiveBottom => Item(i)' = otask
         /\ LiveBottom - top < Capacity
         /\ Pushing = {otask} /\ Pushing' = {} /\ otask = next - 1 /\ otask \in Tasks
         /\ Held = {} /\ Held' = {} /\ UNCHANGED <<next, spilled, delivered>>
<1>1. /\ otask = next - 1 /\ bottom - top < Capacity /\ buf[Slot(bottom)] = otask
      /\ LiveBottom = bottom /\ LiveBottom' = bottom + 1
      /\ Pushing = {otask} /\ Pushing' = {} /\ Held = {} /\ Held' = {}
      /\ UNCHANGED <<top, buf, next, spilled, delivered>>
  BY DEF PushPublish, OwnerReturns, IInv, OwnerInv, LiveBottom, Pushing, Held
<1>2. otask \in 1 .. next - 1 /\ next - 1 <= MaxTasks
  BY <1>1, Types DEF IInv, OwnerInv, TypeOK, Tasks
<1> QED BY <1>1, <1>2, Types DEF Item, Tasks

\* The newest task is handed out.
LEMMA PopSafeEffect ==
  ASSUME IInv, PopSafe
  PROVE  /\ top' = top /\ LiveBottom' = LiveBottom - 1 /\ top < LiveBottom
         /\ \A i \in Live : Item(i)' = Item(i)
         /\ delivered' = [delivered EXCEPT ![Item(LiveBottom - 1)] = @ + 1]
         /\ Pushing = {} /\ Pushing' = {} /\ Held = {} /\ Held' = {}
         /\ UNCHANGED <<next, spilled>>
<1>1. bottom \in Int /\ top \in Nat /\ LiveBottom = bottom + 1
  BY Types DEF PopSafe, LiveBottom
<1>2. LiveBottom - 1 = bottom
  BY <1>1
<1> QED BY <1>1, <1>2
        DEF PopSafe, OwnerReturns, LiveBottom, Item, Pushing, Held, Deliver

\* The only task passes into the owner's hands, or nothing happens.
LEMMA PopCASEffect ==
  ASSUME IInv, PopCAS
  PROVE  \/ NoEffect
         \/ /\ LiveBottom = top + 1 /\ top' = top + 1 /\ LiveBottom' = LiveBottom
            /\ Held = {} /\ Held' = {Item(top)} /\ Pushing = {} /\ Pushing' = {}
            /\ UNCHANGED <<next, spilled, delivered>>
<1>1. /\ bottom \in Int /\ top \in Nat /\ LiveBottom = bottom + 1 /\ LiveBottom' = bottom + 1
      /\ otop = bottom /\ otask = Item(bottom)
      /\ Pushing = {} /\ Pushing' = {} /\ Held = {} /\ Held' = {otask'} \ {Nil}
      /\ UNCHANGED <<buf, next, spilled, delivered>>
  BY Types DEF PopCAS, IInv, OwnerInv, LiveBottom, Pushing, Held, Item
<1>2. CASE top = otop /\ top' = otop + 1 /\ otask' = otask
  <2>1. top \in Live
    BY <1>1, <1>2 DEF Live
  <2>2. Item(top) # Nil
    BY <2>1, Types DEF Tasks, Nil
  <2> QED BY <1>1, <1>2, <2>2
<1>3. CASE top # otop /\ top' = top /\ otask' = Nil
  BY <1>1, <1>3 DEF NoEffect, Item
<1> QED BY <1>2, <1>3 DEF PopCAS

\* The task in the owner's hands, if any, is handed out.
LEMMA PopResetEffect ==
  ASSUME IInv, PopReset
  PROVE  /\ top' = top /\ LiveBottom' = LiveBottom /\ \A i \in Live : Item(i)' = Item(i)
         /\ Pushing = {} /\ Pushing' = {} /\ Held' = {}
         /\ \/ Held = {} /\ UNCHANGED delivered
            \/ Held = {otask} /\ delivered' = [delivered EXCEPT ![otask] = @ + 1]
         /\ UNCHANGED <<next, spilled>>
<1>1. bottom \in Int /\ otop = bottom
  BY Types DEF PopReset, IInv, OwnerInv
<1> QED BY <1>1 DEF PopReset, OwnerReturns, LiveBottom, Item, Pushing, Held, Deliver

\* The oldest task is handed out.
LEMMA StealWinEffect ==
  ASSUME IInv, NEW w \in Thieves, StealWin(w)
  PROVE  /\ top' = top + 1 /\ LiveBottom' = LiveBottom /\ top < LiveBottom
         /\ \A i \in Live : Item(i)' = Item(i)
         /\ delivered' = [delivered EXCEPT ![Item(top)] = @ + 1]
         /\ Pushing' = Pushing /\ Held' = Held
         /\ UNCHANGED <<next, spilled>>
<1>1. top < LiveBottom /\ ttask[w] = Item(top)
  BY DEF IInv, ThiefInv, StealWin
<1> QED BY <1>1 DEF StealWin, LiveBottom, Item, Pushing, Held, Deliver, ownerVars
-----------------------------------------------------------------------------
(* NothingLost *)

\* Nothing moves, so nothing is lost.
LEMMA NoEffectLosesNothing == IInv /\ NothingLost /\ NoEffect => NothingLost'
BY DEF NoEffect, NothingLost, Live

\* A task once handed out stays handed out.
LEMMA DeliveredStays ==
  ASSUME IInv, NEW x \in Tasks, delivered' = [delivered EXCEPT ![x] = @ + 1]
  PROVE  \A t \in 1 .. next - 1 : t = x \/ delivered[t] > 0 => delivered'[t] > 0
<1>1. 1 .. next - 1 \subseteq Tasks
  BY Types DEF Tasks
<1> QED BY <1>1, Types

\* No step of pushBottom or popBottom loses a task.
LEMMA OwnerLosesNothing == IInv /\ NothingLost /\ Owner => NothingLost'
<1> SUFFICES ASSUME IInv, NothingLost, Owner PROVE NothingLost'
  OBVIOUS
<1> USE Types
<1>1. CASE PushStore \/ PopReserve \/ PopEmpty \/ PopContend \/ PopRestore
  BY <1>1, PushStoreEffect, OwnerNoEffect, NoEffectLosesNothing
<1>2. CASE PushBegin
  BY <1>2, PushBeginEffect DEF NothingLost, Live
<1>3. CASE PushRefused
  BY <1>3, PushRefusedEffect DEF NothingLost, Live
<1>4. CASE PushPublish
  BY <1>4, PushPublishEffect DEF NothingLost, Live
<1>5. CASE PopSafe
  <2>1. LiveBottom - 1 \in Live /\ Live' = Live \ {LiveBottom - 1}
    BY <1>5, PopSafeEffect DEF Live
  <2>2. \A t \in 1 .. next - 1 : t = Item(LiveBottom - 1) \/ delivered[t] > 0 => delivered'[t] > 0
    BY <1>5, <2>1, PopSafeEffect, DeliveredStays
  <2> QED BY <1>5, <2>1, <2>2, PopSafeEffect DEF NothingLost
<1>6. CASE PopCAS
  BY <1>6, PopCASEffect, NoEffectLosesNothing DEF NothingLost, Live
<1>7. CASE PopReset
  <2>1. Live' = Live
    BY <1>7, PopResetEffect DEF Live
  <2>2. CASE Held = {} /\ UNCHANGED delivered
    BY <1>7, <2>1, <2>2, PopResetEffect DEF NothingLost
  <2>3. CASE Held = {otask} /\ delivered' = [delivered EXCEPT ![otask] = @ + 1]
    <3>1. otask \in Tasks
      BY <2>3 DEF IInv, OwnerInv, Tasks, TypeOK
    <3>2. \A t \in 1 .. next - 1 : t = otask \/ delivered[t] > 0 => delivered'[t] > 0
      BY <2>3, <3>1, DeliveredStays
    <3> QED BY <1>7, <2>1, <2>3, <3>2, PopResetEffect DEF NothingLost
  <2> QED BY <1>7, <2>2, <2>3, PopResetEffect
<1> QED BY <1>1, <1>2, <1>3, <1>4, <1>5, <1>6, <1>7 DEF Owner

\* No step of popTop loses a task.
LEMMA ThiefLosesNothing ==
  ASSUME IInv, NothingLost, NEW w \in Thieves, Thief(w)
  PROVE  NothingLost'
<1>1. CASE StealWin(w)
  <2>1. top \in Live /\ Live' = Live \ {top}
    BY <1>1, StealWinEffect, Types DEF Live
  <2>2. \A t \in 1 .. next - 1 : t = Item(top) \/ delivered[t] > 0 => delivered'[t] > 0
    BY <1>1, <2>1, StealWinEffect, DeliveredStays, Types
  <2> QED BY <1>1, <2>1, <2>2, StealWinEffect DEF NothingLost
<1>2. CASE StealLoadTop(w) \/ StealEmpty(w) \/ StealLoadBottom(w) \/ StealLoadSlot(w) \/ StealLose(w)
  BY <1>2, ThiefNoEffect, NoEffectLosesNothing
<1> QED BY <1>1, <1>2 DEF Thief

\* No task handed to pushBottom disappears: it is refused, queued, or handed out.
THEOREM NothingLostHolds == Spec => []NothingLost
<1>1. Init => NothingLost
  BY DEF Init, NothingLost
<1>2. IInv /\ NothingLost /\ [Next]_vars => NothingLost'
  <2> SUFFICES ASSUME IInv, NothingLost, [Next]_vars PROVE NothingLost'
    OBVIOUS
  <2>1. CASE UNCHANGED vars
    BY <2>1 DEF vars, ownerVars, NothingLost, Pushing, Held, Live, LiveBottom, Item
  <2> QED BY <2>1, OwnerLosesNothing, ThiefLosesNothing DEF Next
<1> QED BY <1>1, <1>2, IInvHolds, PTL DEF Spec
-----------------------------------------------------------------------------
(* The refinement *)

\* The abstract queue is a sequence of the tasks between top and bottom.
LEMMA QueueType ==
  ASSUME IInv
  PROVE  /\ Queue \in Seq(Tasks) /\ Len(Queue) = LiveBottom - top
         /\ \A i \in 1 .. LiveBottom - top : Queue[i] = Item(top + i - 1)
         /\ \A i \in 1 .. LiveBottom - top : top + i - 1 \in Live
<1>1. LiveBottom - top \in Nat
  BY Types
<1>2. \A i \in 1 .. LiveBottom - top : top + i - 1 \in Live
  BY Types DEF Live
<1>3. Queue \in [1 .. LiveBottom - top -> Tasks]
  BY <1>2, Types DEF Queue
<1> QED BY <1>1, <1>2, <1>3 DEF Queue

\* A step without effect is a stuttering step of WorkDeque.
LEMMA NoEffectStutters == IInv /\ NoEffect => UNCHANGED Abstract!vars
<1> SUFFICES ASSUME IInv, NoEffect PROVE UNCHANGED Abstract!vars
  OBVIOUS
<1>1. Queue' = Queue
  BY QueueType DEF NoEffect, Queue
<1> QED BY <1>1 DEF NoEffect, Abstract!vars, NextAdded, Handed

\* The empty deque is the empty sequence.
LEMMA InitRefines == Init => Abstract!Init
<1> SUFFICES ASSUME Init PROVE Abstract!Init
  OBVIOUS
<1>1. Queue = <<>>
  BY DEF Init, Queue, LiveBottom
<1> QED BY <1>1 DEF Init, Abstract!Init, Abstract!Tasks, Tasks, NextAdded, Handed, Pushing, Held

\* One task more is handed out.
LEMMA HandedGrows ==
  ASSUME IInv, NEW x \in Tasks, delivered' = [delivered EXCEPT ![x] = @ + 1],
         Held' = Held
  PROVE  Handed' = [Handed EXCEPT ![x] = @ + 1]
<1>1. \A t \in Tasks : (IF t \in Held THEN 1 ELSE 0) \in Nat /\ delivered[t] \in Nat
  BY Types
<1>2. \A t \in Tasks : delivered'[t] = IF t = x THEN delivered[x] + 1 ELSE delivered[t]
  BY Types
<1>3. \A t \in Tasks : Handed'[t] = IF t = x THEN Handed[x] + 1 ELSE Handed[t]
  BY <1>1, <1>2 DEF Handed
<1> QED BY <1>3 DEF Handed

\* The store to bottom is WorkDeque's PushBottom.
LEMMA PushPublishRefines == IInv /\ PushPublish => Abstract!PushBottom
<1> SUFFICES ASSUME IInv, PushPublish PROVE Abstract!PushBottom
  OBVIOUS
<1> USE PushPublishEffect, Types, QueueType
<1>1. NextAdded = otask /\ NextAdded' = NextAdded + 1 /\ NextAdded \in Tasks
  <2>1. Pushing # {} /\ Pushing' = {}
    OBVIOUS
  <2> QED BY <2>1 DEF NextAdded
<1>2. Len(Queue) < Capacity
  OBVIOUS
<1>3. Queue' = Append(Queue, otask)
  <2>1. Queue' = [i \in 1 .. Len(Queue) + 1 |-> Item(top + i - 1)']
    BY DEF Queue
  <2>2. \A i \in 1 .. Len(Queue) + 1 : Queue'[i] = IF i = Len(Queue) + 1 THEN otask ELSE Queue[i]
    <3> TAKE i \in 1 .. Len(Queue) + 1
    <3>1. CASE i = Len(Queue) + 1
      <4>1. top + i - 1 = LiveBottom
        BY <3>1
      <4> QED BY <2>1, <3>1, <4>1
    <3>2. CASE i \in 1 .. Len(Queue)
      <4>1. top + i - 1 \in Live /\ Queue[i] = Item(top + i - 1) /\ i # Len(Queue) + 1
        BY <3>2
      <4>2. Item(top + i - 1)' = Item(top + i - 1)
        BY <4>1
      <4> QED BY <2>1, <4>1, <4>2
    <3> QED BY <3>1, <3>2, SMTT(30)
  <2>3. Append(Queue, otask) \in Seq(Tasks) /\ Len(Append(Queue, otask)) = Len(Queue) + 1
    BY AppendProperties
  <2>4. \A i \in 1 .. Len(Queue) + 1 :
          Append(Queue, otask)[i] = IF i = Len(Queue) + 1 THEN otask ELSE Queue[i]
    BY AppendProperties
  <2>5. Queue' \in Seq(Tasks) /\ Len(Queue') = Len(Queue) + 1
    <3>0. \A i \in 1 .. Len(Queue) : Queue[i] \in Tasks
      BY ElementOfSeq
    <3>1. \A i \in 1 .. Len(Queue) + 1 : Queue'[i] \in Tasks
      <4> TAKE i \in 1 .. Len(Queue) + 1
      <4>1. i = Len(Queue) + 1 \/ i \in 1 .. Len(Queue)
        OBVIOUS
      <4> QED BY <2>2, <3>0, <4>1
    <3>2. Queue' \in [1 .. Len(Queue) + 1 -> Tasks]
      BY <2>1, <3>1
    <3> QED BY <3>2
  <2> QED BY <2>2, <2>3, <2>4, <2>5, SeqEqual, SMTT(30)
<1>4. Handed' = Handed
  BY DEF Handed
<1> QED BY <1>1, <1>2, <1>3, <1>4 DEF Abstract!PushBottom, Abstract!Tasks, Tasks

\* Refusing a task is WorkDeque's Spill.
LEMMA PushRefusedRefines == IInv /\ PushRefused => Abstract!Spill
<1> SUFFICES ASSUME IInv, PushRefused PROVE Abstract!Spill
  OBVIOUS
<1> USE PushRefusedEffect, Types, QueueType
<1>1. NextAdded = next /\ NextAdded' = NextAdded + 1
  BY DEF NextAdded
<1>2. Queue' = Queue
  BY DEF Queue
<1>3. Handed' = Handed
  BY DEF Handed
<1> QED BY <1>1, <1>2, <1>3 DEF Abstract!Spill, Abstract!Tasks, Tasks

\* Loading a top below the reserved task is WorkDeque's PopBottom.
LEMMA PopSafeRefines == IInv /\ PopSafe => Abstract!PopBottom
<1> SUFFICES ASSUME IInv, PopSafe PROVE Abstract!PopBottom
  OBVIOUS
<1> USE PopSafeEffect, Types, QueueType
<1>1. Queue # <<>> /\ Queue[Len(Queue)] = Item(LiveBottom - 1)
  OBVIOUS
<1>2. Queue' = [i \in 1 .. Len(Queue) - 1 |-> Queue[i]]
  BY SMTT(30) DEF Queue
<1>3. Handed' = [Handed EXCEPT ![Item(LiveBottom - 1)] = @ + 1]
  <2>1. LiveBottom - 1 \in Live
    BY DEF Live
  <2> QED BY <2>1, HandedGrows
<1>4. NextAdded' = NextAdded
  BY DEF NextAdded
<1> QED BY <1>1, <1>2, <1>3, <1>4 DEF Abstract!PopBottom, Abstract!Hand

\* So is winning the compare-and-swap for the last task.
LEMMA PopCASRefines == IInv /\ PopCAS => Abstract!PopBottom \/ UNCHANGED Abstract!vars
<1> SUFFICES ASSUME IInv, PopCAS, ~NoEffect PROVE Abstract!PopBottom
  BY NoEffectStutters
<1> USE PopCASEffect, Types, QueueType
<1>1. Queue # <<>> /\ Queue[Len(Queue)] = Item(top) /\ Len(Queue) = 1
  OBVIOUS
<1>2. Queue' = [i \in 1 .. Len(Queue) - 1 |-> Queue[i]]
  BY DEF Queue
<1>3. Handed' = [Handed EXCEPT ![Item(top)] = @ + 1]
  <2>1. Held = {} /\ Held' = {Item(top)} /\ UNCHANGED delivered
    OBVIOUS
  <2>2. \A t \in Tasks : Handed[t] = delivered[t] /\ delivered[t] \in Nat
    BY <2>1 DEF Handed
  <2>3. \A t \in Tasks : Handed'[t] = IF t = Item(top) THEN Handed[t] + 1 ELSE Handed[t]
    BY <2>1, <2>2 DEF Handed
  <2> QED BY <2>3 DEF Handed
<1>4. NextAdded' = NextAdded
  BY DEF NextAdded
<1> QED BY <1>1, <1>2, <1>3, <1>4 DEF Abstract!PopBottom, Abstract!Hand

\* A thief's successful compare-and-swap is WorkDeque's PopTop.
LEMMA StealWinRefines ==
  ASSUME IInv, NEW w \in Thieves, StealWin(w)
  PROVE  Abstract!PopTop
<1> USE StealWinEffect, Types, QueueType
<1>1. Queue # <<>> /\ Queue[1] = Item(top)
  OBVIOUS
<1>2. Queue' = [i \in 1 .. Len(Queue) - 1 |-> Queue[i + 1]]
  <2>1. \A i \in 1 .. LiveBottom - top - 1 : top' + i - 1 = top + i /\ top + i \in Live
    <3>1. top' = top + 1 /\ top \in Nat /\ LiveBottom \in Int
      OBVIOUS
    <3> TAKE i \in 1 .. LiveBottom - top - 1
    <3>2. top' + i - 1 = top + i /\ top + i \in Nat /\ top + i >= top /\ top + i < LiveBottom
      BY ONLY <3>1
    <3> QED BY <3>1, <3>2 DEF Live
  <2>2. Queue' = [i \in 1 .. LiveBottom - top - 1 |-> Item(top + i)]
    BY <2>1, SMTT(30) DEF Queue
  <2>3. \A i \in 1 .. LiveBottom - top - 1 : Queue[i + 1] = Item(top + i)
    <3>1. \A i \in 1 .. LiveBottom - top - 1 : i + 1 \in 1 .. LiveBottom - top /\ top + (i + 1) - 1 = top + i
      OBVIOUS
    <3> QED BY <3>1 DEF Queue
  <2> QED BY <2>2, <2>3
<1>3. Handed' = [Handed EXCEPT ![Item(top)] = @ + 1]
  <2>1. top \in Live
    BY DEF Live
  <2> QED BY <2>1, HandedGrows
<1>4. NextAdded' = NextAdded
  BY DEF NextAdded
<1> QED BY <1>1, <1>2, <1>3, <1>4 DEF Abstract!PopTop, Abstract!Hand

\* A task in the owner's hands is not queued yet.
LEMMA PushBeginRefines == IInv /\ PushBegin => UNCHANGED Abstract!vars
<1> SUFFICES ASSUME IInv, PushBegin PROVE UNCHANGED Abstract!vars
  OBVIOUS
<1> USE PushBeginEffect, Types, QueueType
<1>1. Queue' = Queue
  BY DEF Queue
<1>2. NextAdded' = NextAdded /\ Handed' = Handed
  <2>1. Pushing = {} /\ Pushing' # {}
    OBVIOUS
  <2> QED BY <2>1 DEF NextAdded, Handed
<1> QED BY <1>1, <1>2 DEF Abstract!vars

\* The task was handed out when the compare-and-swap succeeded.
LEMMA PopResetRefines == IInv /\ PopReset => UNCHANGED Abstract!vars
<1> SUFFICES ASSUME IInv, PopReset PROVE UNCHANGED Abstract!vars
  OBVIOUS
<1> USE PopResetEffect, Types, QueueType
<1>1. Queue' = Queue
  BY DEF Queue
<1>2. NextAdded' = NextAdded
  BY DEF NextAdded
<1>3. Handed' = Handed
  BY DEF Handed
<1> QED BY <1>1, <1>2, <1>3 DEF Abstract!vars

\* Every step of Deque is a step of WorkDeque, or a stuttering step.
LEMMA NextRefines == IInv /\ [Next]_vars => [Abstract!Next]_(Abstract!vars)
<1> SUFFICES ASSUME IInv, [Next]_vars PROVE [Abstract!Next]_(Abstract!vars)
  OBVIOUS
<1>1. CASE Owner
  BY <1>1, PushRefusedRefines, PushBeginRefines, PushStoreEffect, PushPublishRefines,
     OwnerNoEffect, PopSafeRefines, PopCASRefines, PopResetRefines, NoEffectStutters
  DEF Owner, Abstract!Next
<1>2. ASSUME NEW w \in Thieves, Thief(w) PROVE [Abstract!Next]_(Abstract!vars)
  BY <1>2, ThiefNoEffect, StealWinRefines, NoEffectStutters DEF Thief, Abstract!Next
<1>3. CASE UNCHANGED vars
  BY <1>3 DEF vars, ownerVars, Abstract!vars, Queue, NextAdded, Handed, Pushing, Held,
              LiveBottom, Item
<1> QED BY <1>1, <1>2, <1>3 DEF Next

\* The lock-free deque is a bounded double-ended queue of atomic operations.
THEOREM Refinement == Spec => ImplementsWorkDeque
BY InitRefines, NextRefines, IInvHolds, PTL DEF Spec, ImplementsWorkDeque, Abstract!Spec
=============================================================================
