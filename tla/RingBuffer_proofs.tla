-------------------------- MODULE RingBuffer_proofs --------------------------
(***************************************************************************)
(* RingBuffer implements Fifo, for every set of values, every capacity it   *)
(* is made with and every length it grows to.                               *)
(***************************************************************************)
EXTENDS RingBuffer, SequenceTheorems, TLAPS

USE RingBufferAssumption

\* Below twice the modulus, the remainder takes one subtraction.
LEMMA ModSmall ==
  ASSUME NEW c \in Nat \ {0}, NEW x \in Nat, x < 2 * c
  PROVE  x % c = IF x < c THEN x ELSE x - c
OBVIOUS

\* The slots of the queued values, with the wrap-around written out.
LEMMA AtSmall ==
  ASSUME TypeOK, cap > 0, NEW i \in 0 .. cap
  PROVE  /\ At(i) = IF head + i < cap THEN head + i ELSE head + i - cap
         /\ At(i) \in Slots /\ head \in Slots /\ At(0) = head
<1>1. cap \in Nat \ {0} /\ head \in Nat /\ head < cap
  BY DEF TypeOK
<1>2. At(i) = IF head + i < cap THEN head + i ELSE head + i - cap
  BY <1>1, ModSmall DEF At
<1>3. At(0) = head
  BY <1>1, ModSmall DEF At
<1> QED BY <1>1, <1>2, <1>3 DEF Slots

\* Two of them are different.
LEMMA AtInjective ==
  ASSUME TypeOK, NEW i \in 0 .. cap - 1, NEW j \in 0 .. cap - 1, At(i) = At(j)
  PROVE  i = j
<1>1. cap \in Nat /\ cap > 0 /\ head \in Nat /\ head < cap
  BY DEF TypeOK
<1>2. i \in 0 .. cap /\ j \in 0 .. cap
  BY <1>1
<1> QED BY <1>1, <1>2, AtSmall

\* What a push that finds room does to the slots.
LEMMA PushRoomEffect ==
  ASSUME IInv, NEW v \in Values, PushRoom(v)
  PROVE  /\ TypeOK' /\ cap > 0 /\ len' = len + 1 /\ got' = got
         /\ \A i : At(i)' = At(i)
         /\ buf'[At(len)] = v
         /\ \A s \in Slots : s # At(len) => buf'[s] = buf[s]
         /\ \A i \in 0 .. len - 1 : At(i) # At(len)
<1>1. cap \in Nat /\ len \in Nat /\ len < cap /\ cap > 0
  BY DEF IInv, TypeOK, PushRoom
<1>2. At(len) \in Slots
  BY <1>1, AtSmall DEF IInv
<1>3. \A i \in 0 .. len - 1 : At(i) # At(len)
  BY <1>1, AtInjective DEF IInv
<1>4. /\ buf' = [buf EXCEPT ![At(len)] = v] /\ len' = len + 1
      /\ UNCHANGED <<cap, head, got>>
  BY DEF PushRoom
<1>5. buf \in [Slots -> Values \cup {Zero}]
  BY DEF IInv, TypeOK
<1>6. TypeOK'
  BY <1>1, <1>2, <1>4, <1>5 DEF IInv, TypeOK, Slots
<1> QED BY <1>1, <1>2, <1>3, <1>4, <1>5, <1>6 DEF At

\* What a push that grows the array does: values and slots are in line.
LEMMA PushGrowEffect ==
  ASSUME IInv, NEW v \in Values, PushGrow(v)
  PROVE  /\ TypeOK' /\ len' = len + 1 /\ got' = got /\ head' = 0 /\ len < cap'
         /\ \A i : i \in 0 .. len => At(i)' = i
         /\ buf'[len] = v
         /\ \A i \in 0 .. len - 1 : buf'[i] = buf[At(i)] /\ buf[At(i)] # Zero
         /\ \A s \in Slots' : s > len => buf'[s] = Zero
<1>1. /\ cap \in Nat /\ len = cap /\ len \in Nat /\ GrownCap \in Nat /\ len < GrownCap
      /\ cap' = GrownCap /\ head' = 0 /\ len' = len + 1 /\ got' = got
      /\ buf' = [Grown EXCEPT ![len % GrownCap] = v]
  BY DEF IInv, TypeOK, PushGrow, GrownCap
<1>2. len % GrownCap = len
  BY <1>1, ModSmall
<1>3. \A i : i \in 0 .. len => At(i)' = i
  <2> SUFFICES ASSUME NEW i \in 0 .. len PROVE (head' + i) % cap' = i
    BY DEF At
  <2> QED BY <1>1, ModSmall
<1>4. \A i \in 0 .. len - 1 : At(i) \in Slots /\ buf[At(i)] # Zero
  BY <1>1, AtSmall DEF IInv, HoldsOnlyQueued
<1>5. \A s \in 0 .. GrownCap - 1 :
         /\ s < len => buf'[s] = buf[At(s)]
         /\ s = len => buf'[s] = v
         /\ s > len => buf'[s] = Zero
  BY <1>1, <1>2 DEF Grown
<1>6. buf' \in [0 .. GrownCap - 1 -> Values \cup {Zero}]
  <2>1. \A i \in 0 .. len - 1 : buf[At(i)] \in Values \cup {Zero}
    BY <1>4 DEF IInv, TypeOK
  <2>2. Grown \in [0 .. GrownCap - 1 -> Values \cup {Zero}]
    BY <1>1, <2>1 DEF Grown
  <2> QED BY <1>1, <1>2, <2>2
<1>7. TypeOK'
  BY <1>1, <1>6 DEF IInv, TypeOK, Slots
<1> QED BY <1>1, <1>3, <1>4, <1>5, <1>7 DEF Slots

\* What a pop does: every value moves up by one, and leaves the zero value.
LEMMA PopEffect ==
  ASSUME IInv, Pop
  PROVE  /\ TypeOK' /\ cap > 0 /\ len > 0 /\ len' = len - 1 /\ got' = buf[At(0)]
         /\ Slots' = Slots
         /\ \A i : i \in 0 .. len - 2 => At(i)' = At(i + 1)
         /\ buf'[At(0)] = Zero
         /\ \A s \in Slots : s # At(0) => buf'[s] = buf[s]
         /\ \A i \in 1 .. len - 1 : At(i) # At(0)
<1>1. /\ cap \in Nat /\ cap > 0 /\ len \in Nat /\ len > 0 /\ len <= cap
      /\ head \in Nat /\ head < cap
      /\ got' = buf[head] /\ buf' = [buf EXCEPT ![head] = Zero]
      /\ head' = (head + 1) % cap /\ len' = len - 1 /\ cap' = cap
  BY DEF IInv, TypeOK, Pop
<1>2. At(0) = head /\ head \in Slots
  BY <1>1, AtSmall DEF IInv
<1>3. head' = IF head + 1 < cap THEN head + 1 ELSE head + 1 - cap
  BY <1>1, ModSmall
<1>4. \A i : i \in 0 .. len - 2 => At(i)' = At(i + 1)
  <2> SUFFICES ASSUME NEW i \in 0 .. len - 2 PROVE (head' + i) % cap = (head + (i + 1)) % cap
    BY <1>1 DEF At
  <2>1. head' \in Nat /\ head' < cap
    BY <1>1, <1>3
  <2>2. (head' + i) % cap = IF head' + i < cap THEN head' + i ELSE head' + i - cap
    BY <1>1, <2>1, ModSmall
  <2>3. (head + (i + 1)) % cap = IF head + i + 1 < cap THEN head + i + 1 ELSE head + i + 1 - cap
    BY <1>1, ModSmall
  <2> QED BY <1>1, <1>3, <2>2, <2>3
<1>5. \A i \in 1 .. len - 1 : At(i) # At(0)
  BY <1>1, AtInjective DEF IInv
<1>6. buf \in [Slots -> Values \cup {Zero}]
  BY DEF IInv, TypeOK
<1>7. TypeOK'
  BY <1>1, <1>2, <1>3, <1>6 DEF IInv, TypeOK, Slots
<1> QED BY <1>1, <1>2, <1>4, <1>5, <1>6, <1>7 DEF Slots
-----------------------------------------------------------------------------
\* The array is made empty.
LEMMA InitIInv == Init => IInv
BY DEF Init, IInv, TypeOK, HoldsOnlyQueued, Slots

\* Every call preserves the invariant.
LEMMA NextIInv == IInv /\ [Next]_vars => IInv'
<1> SUFFICES ASSUME IInv, [Next]_vars PROVE IInv'
  OBVIOUS
<1>1. ASSUME NEW v \in Values, PushRoom(v) PROVE IInv'
  <2>1. len \in Nat /\ Slots' = Slots
    BY <1>1 DEF IInv, TypeOK, PushRoom, Slots
  <2>2. HoldsOnlyQueued'
    BY <1>1, <2>1, PushRoomEffect DEF IInv, HoldsOnlyQueued
  <2> QED BY <1>1, <2>2, PushRoomEffect DEF IInv
<1>2. ASSUME NEW v \in Values, PushGrow(v) PROVE IInv'
  <2>1. len \in Nat
    BY DEF IInv, TypeOK
  <2>2. \A s \in Slots' : buf'[s] # Zero <=> s \in 0 .. len
    BY <1>2, <2>1, PushGrowEffect DEF Slots, TypeOK
  <2>3. HoldsOnlyQueued'
    BY <1>2, <2>1, <2>2, PushGrowEffect DEF HoldsOnlyQueued
  <2> QED BY <1>2, <2>3, PushGrowEffect DEF IInv
<1>3. CASE Pop
  <2>1. len \in Nat
    BY DEF IInv, TypeOK
  <2>2. \A s \in Slots : (\E i \in 0 .. len - 1 : At(i) = s) <=>
                           s = At(0) \/ \E i \in 0 .. len - 2 : At(i + 1) = s
    BY <1>3, <2>1, PopEffect
  <2>3. \A i \in 0 .. len - 2 : At(i + 1) # At(0)
    BY <1>3, <2>1, PopEffect
  <2>4. ASSUME NEW s \in Slots
        PROVE  buf'[s] # Zero <=> \E i \in 0 .. len - 2 : At(i + 1) = s
    <3>1. CASE s = At(0)
      BY <1>3, <2>3, <3>1, PopEffect
    <3>2. CASE s # At(0)
      <4>1. buf'[s] = buf[s]
        BY <1>3, <3>2, PopEffect
      <4> QED BY <2>2, <3>2, <4>1 DEF IInv, HoldsOnlyQueued
    <3> QED BY <3>1, <3>2
  <2>5. len' - 1 = len - 2 /\ Slots' = Slots /\ \A i \in 0 .. len - 2 : At(i)' = At(i + 1)
    BY <1>3, <2>1, PopEffect
  <2>6. HoldsOnlyQueued'
    BY <2>4, <2>5 DEF HoldsOnlyQueued
  <2> QED BY <1>3, <2>6, PopEffect DEF IInv
<1>4. CASE Front \/ PopNothing
  <2>1. buf[head] \in Values \cup {Zero} \/ len = 0
    BY DEF IInv, TypeOK, Slots
  <2>2. TypeOK'
    BY <1>4, <2>1 DEF Front, PopNothing, IInv, TypeOK, Slots
  <2> QED BY <1>4, <2>2 DEF Front, PopNothing, IInv, HoldsOnlyQueued, Slots, At
<1>5. CASE UNCHANGED vars
  BY <1>5 DEF vars, IInv, TypeOK, HoldsOnlyQueued, Slots, At
<1> QED BY <1>1, <1>2, <1>3, <1>4, <1>5 DEF Next

\* Every reachable state of the buffer satisfies the invariant.
THEOREM IInvHolds == Spec => []IInv
BY InitIInv, NextIInv, PTL DEF Spec

\* Every variable keeps its type, however often the buffer wraps and grows.
THEOREM TypeCorrect == Spec => []TypeOK
BY IInvHolds, PTL DEF IInv

\* No popped value stays in the array, and no queued value leaves it.
THEOREM HoldsOnlyQueuedHolds == Spec => []HoldsOnlyQueued
BY IInvHolds, PTL DEF IInv
-----------------------------------------------------------------------------
(* The refinement *)

\* The content is a sequence of values.
ItemsOK ==
  /\ len \in Nat /\ Items \in Seq(Values) /\ Len(Items) = len
  /\ \A i \in 1 .. len : Items[i] = buf[At(i - 1)]

\* The invariant makes it one.
LEMMA ItemsType == IInv => ItemsOK
<1> SUFFICES ASSUME IInv PROVE ItemsOK
  OBVIOUS
<1>1. len \in Nat /\ cap \in Nat /\ len <= cap
  BY DEF IInv, TypeOK
<1>2. \A i \in 1 .. len : At(i - 1) \in Slots
  BY <1>1, AtSmall DEF IInv
<1>3. \A i \in 1 .. len : buf[At(i - 1)] # Zero
  BY <1>1, <1>2 DEF IInv, HoldsOnlyQueued
<1>4. \A i \in 1 .. len : buf[At(i - 1)] \in Values
  BY <1>2, <1>3 DEF IInv, TypeOK
<1>5. Items \in [1 .. len -> Values]
  BY <1>4 DEF Items
<1> QED BY <1>1, <1>5 DEF Items, ItemsOK

\* In the next state too.
LEMMA ItemsTypeNext == IInv' => ItemsOK'
BY ItemsType, PTL

\* An empty array is the empty sequence.
LEMMA InitRefines == Init => Queue!Init
BY DEF Init, Queue!Init, Items

\* Extending the content by one slot appends the value that slot holds.
LEMMA ItemsAppend ==
  ASSUME IInv, IInv', NEW v \in Values, len' = len + 1,
         \A i \in 1 .. len : Items'[i] = Items[i], Items'[len + 1] = v
  PROVE  Items' = Append(Items, v)
<1> USE ItemsType, ItemsTypeNext DEF ItemsOK
<1>1. Items' \in Seq(Values) /\ Len(Items') = len + 1
  OBVIOUS
<1>2. Append(Items, v) \in Seq(Values) /\ Len(Append(Items, v)) = len + 1
  BY AppendProperties
<1>3. \A i \in 1 .. len + 1 : Append(Items, v)[i] = IF i = len + 1 THEN v ELSE Items[i]
  BY AppendProperties
<1>4. \A i \in 1 .. len + 1 : i \in 1 .. len \/ i = len + 1
  OBVIOUS
<1> QED BY <1>1, <1>2, <1>3, <1>4, SeqEqual

\* push appends, when there is room.
LEMMA PushRoomRefines ==
  ASSUME IInv, IInv', NEW v \in Values, PushRoom(v)
  PROVE  Queue!Push(v)
<1> USE PushRoomEffect, ItemsType, ItemsTypeNext DEF ItemsOK
<1>1. \A i \in 1 .. len : Items'[i] = Items[i]
  <2> TAKE i \in 1 .. len
  <2>1. i - 1 \in 0 .. len - 1 /\ i \in 1 .. len'
    OBVIOUS
  <2>2. At(i - 1) # At(len) /\ At(i - 1) \in Slots
    BY <2>1, AtSmall DEF IInv, TypeOK
  <2>3. Items'[i] = buf'[At(i - 1)']
    BY <2>1 DEF Items
  <2> QED BY <2>1, <2>2, <2>3
<1>2. Items'[len + 1] = v
  <2>1. len + 1 \in 1 .. len' /\ (len + 1) - 1 = len
    OBVIOUS
  <2> QED BY <2>1 DEF Items
<1> QED BY <1>1, <1>2, ItemsAppend DEF Queue!Push

\* push appends, when it has to grow the array.
LEMMA PushGrowRefines ==
  ASSUME IInv, IInv', NEW v \in Values, PushGrow(v)
  PROVE  Queue!Push(v)
<1> USE PushGrowEffect, ItemsType, ItemsTypeNext DEF ItemsOK
<1>1. \A i \in 1 .. len : Items'[i] = Items[i]
  <2> TAKE i \in 1 .. len
  <2>1. i - 1 \in 0 .. len - 1 /\ i - 1 \in 0 .. len /\ i \in 1 .. len'
    OBVIOUS
  <2>2. Items'[i] = buf'[At(i - 1)']
    BY <2>1 DEF Items
  <2> QED BY <2>1, <2>2
<1>2. Items'[len + 1] = v
  <2>1. len + 1 \in 1 .. len' /\ (len + 1) - 1 = len /\ len \in 0 .. len
    OBVIOUS
  <2>2. \A i \in 1 .. len' : Items'[i] = buf'[At(i - 1)']
    BY DEF Items
  <2>3. \A i : i = len => At(i)' = i
    OBVIOUS
  <2> QED BY <2>1, <2>2, <2>3
<1> QED BY <1>1, <1>2, ItemsAppend DEF Queue!Push

\* pop takes the oldest value.
LEMMA PopRefines ==
  ASSUME IInv, IInv', Pop
  PROVE  Queue!Pop
<1> USE PopEffect, ItemsType, ItemsTypeNext DEF ItemsOK
<1>1. Items # <<>> /\ got' = Head(Items)
  <2>1. 1 \in 1 .. len /\ 1 - 1 = 0
    OBVIOUS
  <2> QED BY <2>1
<1>2. Tail(Items) \in Seq(Values) /\ Len(Tail(Items)) = len - 1
  BY <1>1
<1>3. \A i \in 1 .. len - 1 : Tail(Items)[i] = Items[i + 1]
  BY <1>1
<1>4. \A i \in 1 .. len - 1 : Items'[i] = Items[i + 1]
  <2> TAKE i \in 1 .. len - 1
  <2>1. i - 1 \in 0 .. len - 2 /\ (i - 1) + 1 = i /\ i \in 1 .. len' /\ i + 1 \in 1 .. len
    OBVIOUS
  <2>2. At(i) # At(0) /\ At(i) \in Slots /\ (i + 1) - 1 = i
    BY <2>1, AtSmall DEF IInv, TypeOK
  <2>3. Items'[i] = buf'[At(i - 1)']
    BY <2>1 DEF Items
  <2> QED BY <2>1, <2>2, <2>3
<1>5. Items' \in Seq(Values) /\ Len(Items') = len - 1
  OBVIOUS
<1>6. Items' = Tail(Items)
  BY <1>2, <1>3, <1>4, <1>5, SeqEqual
<1> QED BY <1>1, <1>6 DEF Queue!Pop

\* front, and pop of an empty buffer, change nothing.
LEMMA ReadRefines ==
  IInv /\ (Front \/ PopNothing) => Queue!Front \/ Queue!PopNothing
<1> SUFFICES ASSUME IInv, Front \/ PopNothing PROVE Queue!Front \/ Queue!PopNothing
  OBVIOUS
<1>1. Items' = Items
  BY DEF Front, PopNothing, Items, At
<1>2. len = 0 <=> Items = <<>>
  BY ItemsType DEF ItemsOK
<1>3. ASSUME len # 0 PROVE Head(Items) = buf[head]
  <2>1. 1 \in 1 .. len /\ 1 - 1 = 0 /\ len > 0
    BY <1>3, ItemsType DEF ItemsOK
  <2>2. At(0) = head
    BY <2>1, AtSmall DEF IInv, TypeOK
  <2> QED BY <2>1, <2>2, ItemsType DEF ItemsOK
<1> QED BY <1>1, <1>2, <1>3 DEF Front, PopNothing, Queue!Front, Queue!PopNothing

\* Every call is one operation of the abstract queue.
LEMMA NextRefines == IInv /\ IInv' /\ [Next]_vars => [Queue!Next]_(Queue!vars)
<1> SUFFICES ASSUME IInv, IInv', [Next]_vars PROVE [Queue!Next]_(Queue!vars)
  OBVIOUS
<1>1. ASSUME NEW v \in Values, PushRoom(v) \/ PushGrow(v) PROVE Queue!Next
  BY <1>1, PushRoomRefines, PushGrowRefines DEF Queue!Next
<1>2. CASE Pop
  BY <1>2, PopRefines DEF Queue!Next
<1>3. CASE Front \/ PopNothing
  BY <1>3, ReadRefines DEF Queue!Next
<1>4. CASE UNCHANGED vars
  BY <1>4 DEF vars, Queue!vars, Items, At
<1> QED BY <1>1, <1>2, <1>3, <1>4 DEF Next

\* The ring buffer is an unbounded first-in first-out queue.
THEOREM Refinement == Spec => ImplementsFifo
BY InitRefines, NextRefines, IInvHolds, PTL DEF Spec, ImplementsFifo, Queue!Spec
=============================================================================
