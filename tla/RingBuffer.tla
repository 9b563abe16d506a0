----------------------------- MODULE RingBuffer -----------------------------
(***************************************************************************)
(* internal/scheduler/ringbuffer.go: the growable circular buffer under     *)
(* both shared queues.  Its callers hold their mutex around every call, so  *)
(* each call is one step.                                                   *)
(***************************************************************************)
EXTENDS Integers, Sequences

CONSTANTS
  Values,     \* what is queued
  Zero,       \* the zero value of T
  Capacities, \* the capacities the buffer may be made with (queueCap, 64, in New)
  MaxLen      \* bound: how many values are queued at once

ASSUME RingBufferAssumption ==
  Zero \notin Values /\ Capacities \subseteq Nat /\ MaxLen \in Nat

VARIABLES
  buf, cap,   \* r.buf and its length
  head, len,  \* r.head, r.len
  got         \* what the last front or pop returned

vars == <<buf, cap, head, len, got>>

Slots == 0 .. cap - 1
\* The slot of the i-th queued value, counted from 0.
At(i) == (head + i) % cap

Init ==
  /\ cap \in Capacities
  /\ buf = [s \in Slots |-> Zero]
  /\ head = 0 /\ len = 0
  /\ got = Zero

PushRoom(v) ==
  /\ len < MaxLen
  /\ len # cap
  /\ buf' = [buf EXCEPT ![At(len)] = v]
  /\ len' = len + 1
  /\ UNCHANGED <<cap, head, got>>

GrownCap == IF cap = 0 THEN 8 ELSE 2 * cap
\* Variant: copying the old array as it lies, without unwrapping it.
GrownFlat == [s \in 0 .. GrownCap - 1 |-> IF s < len THEN buf[s] ELSE Zero]
\* grow's new array: the live values from slot 0 on.
Grown == [s \in 0 .. GrownCap - 1 |-> IF s < len THEN buf[At(s)] ELSE Zero]

\* push of a full buffer: grow, and the store.
PushGrow(v) ==
  /\ len < MaxLen
  /\ len = cap
  /\ buf' = [Grown EXCEPT ![len % GrownCap] = v]
  /\ cap' = GrownCap
  /\ head' = 0
  /\ len' = len + 1
  /\ got' = got

Front ==
  /\ got' = IF len = 0 THEN Zero ELSE buf[head]
  /\ UNCHANGED <<buf, cap, head, len>>

\* Variants: head running off the array; the popped slot left as it is.
PopNoWrap ==
  /\ len > 0
  /\ got' = buf[head]
  /\ buf' = [buf EXCEPT ![head] = Zero]
  /\ head' = head + 1
  /\ len' = len - 1
  /\ cap' = cap

PopKeeps ==
  /\ len > 0
  /\ got' = buf[head]
  /\ head' = (head + 1) % cap
  /\ len' = len - 1
  /\ UNCHANGED <<buf, cap>>

Pop ==
  /\ len > 0
  /\ got' = buf[head]
  /\ buf' = [buf EXCEPT ![head] = Zero]
  /\ head' = (head + 1) % cap
  /\ len' = len - 1
  /\ cap' = cap

PopNothing ==
  /\ len = 0
  /\ got' = Zero
  /\ UNCHANGED <<buf, cap, head, len>>

Next ==
  \/ \E v \in Values : PushRoom(v) \/ PushGrow(v)
  \/ Front \/ Pop \/ PopNothing

Spec == Init /\ [][Next]_vars
-----------------------------------------------------------------------------
(* Properties *)

\* Every variable keeps its type, and head stays inside the array.
TypeOK ==
  /\ cap \in Nat /\ len \in 0 .. cap
  /\ head \in Nat /\ (head < cap \/ head = 0)
  /\ buf \in [Slots -> Values \cup {Zero}]
  /\ got \in Values \cup {Zero}

\* A slot holds a value exactly while that value is queued: a popped task is not
\* kept from the garbage collector (ringbuffer.go:48-50), nor a queued one lost.
HoldsOnlyQueued ==
  \A s \in Slots : buf[s] # Zero <=> \E i \in 0 .. len - 1 : At(i) = s

\* The inductive invariant of the proofs (RingBuffer_proofs.tla).
IInv == TypeOK /\ HoldsOnlyQueued

\* The buffer's content, oldest first.
Items == [i \in 1 .. len |-> buf[At(i - 1)]]

Queue == INSTANCE Fifo WITH items <- Items

\* The buffer is a first-in first-out queue, also across growing and wrapping.
ImplementsFifo == Queue!Spec
=============================================================================
