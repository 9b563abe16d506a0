-------------------------- MODULE FileStore_proofs --------------------------
(***************************************************************************)
(* Proofs about FileStore, for any number of requests, bodies of any length *)
(* and any number of faults.                                                *)
(***************************************************************************)
EXTENDS FileStore, SequenceTheorems, FiniteSetTheorems, TLAPS

LEMMA Constants ==
  /\ IsFiniteSet(Requests) /\ Saved \subseteq Requests
  /\ MaxConns \in Nat \ {0} /\ MaxFaults \in Nat
  /\ None \notin Requests /\ Unknown \notin Requests /\ Malformed \notin Requests
  /\ Unknown # Malformed
BY FileStoreAssumption, Distinct

LEMMA Fields ==
  DOMAIN NotYet = {"pc", "kind", "server", "args", "len", "moved", "err", "id", "handle",
                   "writer", "got", "answer"}
BY DEF NotYet

LEMMA NoWords == \A x \in Words : None # x
BY Distinct

-----------------------------------------------------------------------------
(* Sequences in two parts *)

LEMMA Concatenated ==
  ASSUME NEW S, NEW s \in Seq(S), NEW t \in Seq(S), NEW u \in Seq(S)
  PROVE  (s \o t) \o u = s \o (t \o u)
<1>1. /\ s \o t \in Seq(S) /\ t \o u \in Seq(S)
      /\ (s \o t) \o u \in Seq(S) /\ s \o (t \o u) \in Seq(S)
      /\ Len(s \o t) = Len(s) + Len(t) /\ Len(t \o u) = Len(t) + Len(u)
  OBVIOUS
<1> QED BY <1>1, SeqEqual

LEMMA ConcatOne ==
  ASSUME NEW S, NEW s \in Seq(S), NEW t \in Seq(S), NEW x \in S
  PROVE  (s \o t) \o <<x>> = s \o Append(t, x)
<1>1. <<x>> \in Seq(S)
  OBVIOUS
<1>2. (s \o t) \o <<x>> = s \o (t \o <<x>>)
  BY <1>1, Concatenated
<1>3. t \o <<x>> = Append(t, x)
  BY AppendIsConcat
<1> QED BY <1>2, <1>3

\* What is passed on from the front of a buffer comes behind what had been.
LEMMA PassOn ==
  ASSUME NEW S, NEW out \in Seq(S), NEW held \in Seq(S), NEW n \in 0 .. Len(held)
  PROVE  /\ out \o SubSeq(held, 1, n) \in Seq(S) /\ SubSeq(held, n + 1, Len(held)) \in Seq(S)
         /\ (out \o SubSeq(held, 1, n)) \o SubSeq(held, n + 1, Len(held)) = out \o held
<1>1. /\ Len(held) \in Nat /\ 1 \in 1 .. Len(held) + 1 /\ n \in 1 - 1 .. Len(held)
      /\ Len(held) \in n .. Len(held)
  OBVIOUS
<1>2. SubSeq(held, 1, n) \o SubSeq(held, n + 1, Len(held)) = held
  BY <1>1, ConcatAdjacentSubSeq, SubSeqFull
<1>3. SubSeq(held, 1, n) \in Seq(S)
  <2>1. \A i \in 1 .. n : held[i] \in S
    BY <1>1
  <2> QED BY <1>1, <2>1, SubSeqProperties
<1>4. SubSeq(held, n + 1, Len(held)) \in Seq(S)
  <2>1. n + 1 \in Int /\ \A i \in n + 1 .. Len(held) : held[i] \in S
    BY <1>1
  <2> QED BY <1>1, <2>1, SubSeqProperties
<1>5. \A f, b \in Seq(S) : (out \o f) \o b = out \o (f \o b)
  BY ONLY Concatenated, out \in Seq(S), SMTT(30)
<1>6. \A f \in Seq(S) : out \o f \in Seq(S)
  BY ConcatProperties
<1>7. (out \o SubSeq(held, 1, n)) \o SubSeq(held, n + 1, Len(held))
        = out \o (SubSeq(held, 1, n) \o SubSeq(held, n + 1, Len(held)))
  BY <1>3, <1>4, <1>5, Zenon
<1> QED BY <1>2, <1>3, <1>4, <1>6, <1>7, Zenon

\* One more element of the source goes into the buffer.
LEMMA OneMore ==
  ASSUME NEW S, NEW out \in Seq(S), NEW held \in Seq(S), NEW src \in Seq(S),
         NEW m \in Nat, m < Len(src), out \o held = SubSeq(src, 1, m)
  PROVE  /\ src[m + 1] \in S /\ Append(held, src[m + 1]) \in Seq(S)
         /\ out \o Append(held, src[m + 1]) = SubSeq(src, 1, m + 1)
<1>1. Len(src) \in Nat /\ 1 \in 1 .. Len(src) /\ m + 1 \in 1 .. Len(src) /\ (m + 1) - 1 = m
  OBVIOUS
<1>2. src[m + 1] \in S /\ Append(held, src[m + 1]) \in Seq(S)
  BY <1>1, AppendProperties
<1>3. SubSeq(src, 1, m + 1) = SubSeq(src, 1, m) \o <<src[m + 1]>>
  BY <1>1, SubSeqRecursiveSecond
<1>4. \A x \in S : (out \o held) \o <<x>> = out \o Append(held, x)
  BY ONLY ConcatOne, out \in Seq(S), held \in Seq(S)
<1> QED BY <1>2, <1>3, <1>4

\* What has come out of a buffer is the beginning of what went in.
LEMMA Beginning ==
  ASSUME NEW S, NEW out \in Seq(S), NEW held \in Seq(S), NEW src \in Seq(S),
         NEW m \in Nat, m <= Len(src), out \o held = SubSeq(src, 1, m)
  PROVE  IsPrefix(out, src)
<1>1. Len(out) \in Nat /\ Len(held) \in Nat /\ Len(out \o held) = Len(out) + Len(held)
      /\ \A i \in 1 .. Len(out) : (out \o held)[i] = out[i]
  BY ConcatProperties
<1>2. /\ Len(src) \in Nat /\ Len(SubSeq(src, 1, m)) = m
      /\ \A i \in 1 .. m : SubSeq(src, 1, m)[i] = src[i]
  BY SubSeqProperties
<1>3. Len(out) <= m
  BY <1>1, <1>2
<1>4. \A i \in 1 .. Len(out) : out[i] = src[i] /\ out[i] \in S
  BY <1>1, <1>2, <1>3
<1>5. /\ Len(SubSeq(out, 1, Len(out))) = Len(out) /\ Len(SubSeq(src, 1, Len(out))) = Len(out)
      /\ SubSeq(out, 1, Len(out)) \in Seq(S) /\ SubSeq(src, 1, Len(out)) \in Seq(S)
      /\ \A i \in 1 .. Len(out) : SubSeq(out, 1, Len(out))[i] = out[i]
                                  /\ SubSeq(src, 1, Len(out))[i] = src[i]
  BY <1>1, <1>4, SubSeqProperties
<1>6. SubSeq(out, 1, Len(out)) = SubSeq(src, 1, Len(out))
  BY <1>1, <1>4, <1>5, SeqEqual
<1> QED BY <1>2, <1>3, <1>6 DEF IsPrefix

LEMMA Whole ==
  ASSUME NEW S, NEW s \in Seq(S)
  PROVE  IsPrefix(s, s) /\ IsPrefix(<<>>, s)
<1>1. Len(s) \in Nat /\ Len(<<>>) = 0 /\ <<>> \in Seq(S)
  OBVIOUS
<1>2. SubSeq(s, 1, 0) = <<>> /\ SubSeq(<<>>, 1, 0) = <<>>
  BY SubSeqEmpty
<1> QED BY <1>1, <1>2 DEF IsPrefix

\* A prefix that is cut is one still.
LEMMA CutPrefix ==
  ASSUME NEW S, NEW s \in Seq(S), NEW t \in Seq(S), IsPrefix(s, t), NEW n \in 0 .. Len(s)
  PROVE  SubSeq(s, 1, n) \in Seq(S) /\ IsPrefix(SubSeq(s, 1, n), t)
<1>1. Len(s) \in Nat /\ Len(t) \in Nat /\ Len(s) <= Len(t) /\ n \in Nat /\ n <= Len(t)
  BY DEF IsPrefix
<1>2. /\ \A i \in 1 .. Len(s) : SubSeq(s, 1, Len(s))[i] = s[i]
      /\ \A i \in 1 .. Len(s) : SubSeq(t, 1, Len(s))[i] = t[i]
  BY <1>1, SubSeqProperties
<1>3. \A i \in 1 .. n : s[i] = t[i] /\ s[i] \in S
  BY <1>1, <1>2 DEF IsPrefix
<1>4. /\ SubSeq(s, 1, n) \in Seq(S) /\ Len(SubSeq(s, 1, n)) = n
      /\ SubSeq(t, 1, n) \in Seq(S) /\ Len(SubSeq(t, 1, n)) = n
      /\ \A i \in 1 .. n : SubSeq(s, 1, n)[i] = s[i] /\ SubSeq(t, 1, n)[i] = t[i]
  BY <1>1, <1>3, SubSeqProperties
<1>5. SubSeq(s, 1, n) = SubSeq(t, 1, n)
  BY <1>3, <1>4, SeqEqual
<1>6. SubSeq(SubSeq(s, 1, n), 1, n) = SubSeq(s, 1, n)
  BY <1>4, SubSeqFull
<1> QED BY <1>1, <1>4, <1>5, <1>6 DEF IsPrefix

LEMMA AppendTwo == ASSUME NEW x, NEW y PROVE Append(<<x>>, y) = <<x, y>>
<1> DEFINE S == {x, y}
<1>1. <<x>> \in Seq(S) /\ y \in S /\ Len(<<x>>) = 1 /\ <<x>>[1] = x
  OBVIOUS
<1>2. /\ Append(<<x>>, y) \in Seq(S) /\ Len(Append(<<x>>, y)) = 2
      /\ Append(<<x>>, y)[1] = x /\ Append(<<x>>, y)[2] = y
  BY <1>1, AppendProperties
<1>3. <<x, y>> \in Seq(S) /\ Len(<<x, y>>) = 2 /\ <<x, y>>[1] = x /\ <<x, y>>[2] = y
  OBVIOUS
<1> HIDE DEF S
<1>4. \A i \in 1 .. 2 : Append(<<x>>, y)[i] = <<x, y>>[i]
  BY <1>2, <1>3
<1> QED BY <1>2, <1>3, <1>4, SeqEqual

-----------------------------------------------------------------------------
(* Pools *)

LEMMA ObjectFacts ==
  /\ \A s : Objects(s) \subseteq AllObjects \/ s \notin Servers
  /\ \A s \in Servers : \A o \in Objects(s) : o # None
  /\ \A s, t : \A o \in Objects(s) : o \in Objects(t) => s = t
  /\ \A s \in Servers : IsFiniteSet(Objects(s)) /\ Cardinality(Objects(s)) = Cardinality(Requests \ Saved)
<1> DEFINE N == Cardinality(Requests \ Saved)
<1>1. IsFiniteSet(Requests \ Saved) /\ N \in Nat
  BY Constants, FS_Difference, FS_CardinalityType
<1>2. IsFiniteSet(1 .. N) /\ Cardinality(1 .. N) = N
  BY <1>1, FS_Interval
<1>3. ASSUME NEW s PROVE IsFiniteSet(Objects(s)) /\ Cardinality(Objects(s)) = N
  <2>1. IsFiniteSet({s}) /\ Cardinality({s}) = 1
    BY FS_Singleton
  <2>2. IsFiniteSet({s} \X (1 .. N)) /\ Cardinality({s} \X (1 .. N)) = 1 * N
    <3> HIDE DEF N
    <3>1. \A S, T : IsFiniteSet(S) /\ IsFiniteSet(T) =>
            IsFiniteSet(S \X T) /\ Cardinality(S \X T) = Cardinality(S) * Cardinality(T)
      BY FS_Product
    <3> QED BY <1>2, <2>1, <3>1, ZenonT(60)
  <2> QED BY <1>1, <2>2 DEF Objects
<1>4. \A s \in Servers : Objects(s) \subseteq AllObjects
  BY DEF AllObjects
<1>5. \A s, t : \A o \in Objects(s) : o \in Objects(t) => s = t
  BY DEF Objects
<1>6. None \notin AllObjects
  BY Distinct
<1> QED BY <1>3, <1>4, <1>5, <1>6

\* A pool's Get takes an object if there is one.
LEMMA GetFacts ==
  ASSUME NEW objects, objects # {}
  PROVE  Get(objects) \in objects
BY DEF Get

LEMMA LendOne ==
  ASSUME NEW objects, NEW hands, DOMAIN objects = Servers, DOMAIN hands = Requests,
         Lent(objects, hands), NEW s \in Servers, NEW o \in objects[s],
         NEW r \in Requests, hands[r] = None
  PROVE  Lent([objects EXCEPT ![s] = @ \ {o}], [hands EXCEPT ![r] = o])
<1>1. o \in Objects(s) /\ o # None /\ \A q \in Requests : hands[q] # o
  BY ObjectFacts DEF Lent
<1>2. \A t \in Servers : \A x \in Objects(t) : x = o => t = s
  BY <1>1, ObjectFacts
<1> DEFINE p == [objects EXCEPT ![s] = @ \ {o}]
           h == [hands EXCEPT ![r] = o]
<1>3. /\ p[s] = objects[s] \ {o} /\ \A t \in Servers : t # s => p[t] = objects[t]
      /\ h[r] = o /\ \A q \in Requests : q # r => h[q] = hands[q]
  OBVIOUS
<1> HIDE DEF p, h
<1>4. ASSUME NEW t \in Servers
      PROVE  p[t] \subseteq Objects(t)
  BY <1>3, <1>4 DEF Lent
<1>5. ASSUME NEW t \in Servers, NEW x \in Objects(t)
      PROVE  x \in p[t] <=> \A q \in Requests : h[q] # x
  <2>1. x \in objects[t] <=> \A q \in Requests : hands[q] # x
    BY <1>5 DEF Lent
  <2>2. CASE x = o
    BY <1>2, <1>3, <1>5, <2>2
  <2>3. CASE x # o
    <3>1. x \in p[t] <=> x \in objects[t]
      BY <1>3, <1>5, <2>3
    <3>2. x # None
      BY <1>5, ObjectFacts
    <3> QED BY <1>3, <2>1, <2>3, <3>1, <3>2
  <2> QED BY <2>2, <2>3
<1>6. ASSUME NEW q1 \in Requests, NEW q2 \in Requests, q1 # q2, h[q1] # None
      PROVE  h[q1] # h[q2]
  BY <1>1, <1>3, <1>6 DEF Lent
<1> QED BY <1>4, <1>5, <1>6 DEF Lent, p, h

LEMMA TakeBack ==
  ASSUME NEW objects, NEW hands, DOMAIN objects = Servers, DOMAIN hands = Requests,
         Lent(objects, hands), NEW s \in Servers, NEW r \in Requests, hands[r] \in Objects(s)
  PROVE  Lent([objects EXCEPT ![s] = @ \cup {hands[r]}], [hands EXCEPT ![r] = None])
<1>1. hands[r] # None
  BY ObjectFacts
<1>2. \A t \in Servers : \A x \in Objects(t) : x = hands[r] => t = s
  BY ObjectFacts
<1>3. \A t \in Servers : \A x \in Objects(t) : x # None
  BY ObjectFacts
<1> QED BY <1>1, <1>2, <1>3 DEF Lent

\* There are as many objects as requests that may hold one.
LEMMA OneIsLeft ==
  ASSUME NEW objects, NEW hands, DOMAIN objects = Servers, DOMAIN hands = Requests,
         Lent(objects, hands), NEW s \in Servers, NEW r \in Requests \ Saved, hands[r] = None,
         \A q \in Saved : hands[q] = None
  PROVE  objects[s] # {}
<1> SUFFICES ASSUME objects[s] = {} PROVE FALSE
  OBVIOUS
<1>1. \A o \in Objects(s) : o # None
  BY ObjectFacts
<1>2. \A o \in Objects(s) : \E q \in Requests : hands[q] = o
  BY DEF Lent
<1> DEFINE T == (Requests \ Saved) \ {r}
           holder == [o \in Objects(s) |-> CHOOSE q \in Requests : hands[q] = o]
<1>3. \A o \in Objects(s) : holder[o] \in Requests /\ hands[holder[o]] = o
  BY <1>2
<1>4. \A o \in Objects(s) : holder[o] \in T
  BY <1>1, <1>3
<1>5. IsFiniteSet(Requests \ Saved)
  BY Constants, FS_Difference
<1>6. IsFiniteSet(T) /\ Cardinality(T) = Cardinality(Requests \ Saved) - 1
  BY <1>5, FS_RemoveElement
<1>7. Cardinality(T) < Cardinality(Objects(s)) /\ IsFiniteSet(Objects(s))
  <2>1. Cardinality(Requests \ Saved) \in Nat
    BY <1>5, FS_CardinalityType
  <2>2. IsFiniteSet(Objects(s)) /\ Cardinality(Objects(s)) = Cardinality(Requests \ Saved)
    BY ObjectFacts
  <2> QED BY <1>6, <2>1, <2>2
<1>8. PICK x, y \in Objects(s) : x # y /\ holder[x] = holder[y]
  <2>1. holder \in [Objects(s) -> T]
    BY <1>4
  <2> HIDE DEF holder, T
  <2> QED BY <1>6, <1>7, <2>1, FS_PigeonHole
<1> QED BY <1>3, <1>8

LEMMA GetOne ==
  ASSUME NEW objects, NEW hands, DOMAIN objects = Servers, DOMAIN hands = Requests,
         Lent(objects, hands), NEW s \in Servers, NEW r \in Requests \ Saved, hands[r] = None,
         \A q \in Saved : hands[q] = None
  PROVE  /\ Get(objects[s]) \in objects[s] /\ Get(objects[s]) \in Objects(s)
         /\ Get(objects[s]) \in AllObjects /\ Get(objects[s]) # None
         /\ \A q \in Requests : hands[q] # Get(objects[s])
<1> DEFINE rest == objects[s]
           o == Get(rest)
<1>1. rest # {}
  BY OneIsLeft
<1>2. o \in objects[s]
  <2> HIDE DEF rest
  <2>1. Get(rest) \in rest
    BY <1>1, GetFacts
  <2> QED BY <2>1 DEF rest
<1> HIDE DEF o
<1>3. o \in Objects(s) /\ \A q \in Requests : hands[q] # o
  BY <1>2 DEF Lent
<1>4. o \in AllObjects /\ o # None
  BY <1>3, ObjectFacts
<1> QED BY <1>2, <1>3, <1>4 DEF o

-----------------------------------------------------------------------------
(* A step of one request *)

LEMMA Parts ==
  ASSUME IInv, NEW r \in Requests
  PROVE  /\ RequestOK(r) /\ KindInv(r) /\ ErrInv(r) /\ SaveInv(r) /\ PumpInv(r) /\ ReadInv(r)
         /\ FetchInv(r) /\ HandsInv(r)
BY DEF IInv, TypeOK, RequestInv

LEMMA BodyFacts ==
  ASSUME IInv, NEW r \in Requests
  PROVE  Body(r) \in Seq(Chunks) /\ Len(Body(r)) = req[r].len /\ req[r].len \in Nat
<1>1. req[r].len \in Nat
  <2>1. req[r].len \in Lengths \cup {0}
    BY Parts DEF RequestOK
  <2>2. Lengths \subseteq Nat
    BY FileStoreAssumption
  <2>3. CASE req[r].len = 0
    BY <2>3
  <2>4. CASE req[r].len \in Lengths
    BY <2>2, <2>4
  <2> QED BY <2>1, <2>3, <2>4
<1>2. \A i \in 1 .. req[r].len : <<r, i>> \in Chunks
  BY <1>1 DEF Chunks
<1>3. Body(r) \in [1 .. req[r].len -> Chunks]
  BY <1>2 DEF Body
<1> QED BY <1>1, <1>3

\* Ids that were told name whole files, of requests that are done.
LEMMA KnownFacts ==
  ASSUME IInv, NEW i \in Known
  PROVE  /\ i \in Requests /\ i \in DOMAIN files /\ At(i, "done") /\ req[i].id = i
         /\ i \in cut \/ files[i] = Body(i)
<1>1. i \in Requests /\ req[i].kind = "upload" /\ req[i].answer = "ok"
  BY DEF Known
<1>2. "ok" # None
  BY NoWords DEF Words
<1>3. At(i, "done") /\ req[i].err = None
  BY <1>1, <1>2, Parts DEF KindInv, ErrInv, At
<1> QED BY <1>1, <1>3, Parts DEF SaveInv, At, Stored

\* The other requests are where they were, and what they need is as it was.
OnlyOf(r) ==
  /\ DOMAIN req' = Requests
  /\ \A q \in Requests \ {r} : req'[q] = req[q]

DataKept(r) ==
  /\ \A i \in DOMAIN files' : i \in DOMAIN files \/ i = r
  /\ \A i \in DOMAIN files : i # r => i \in DOMAIN files' /\ files'[i] = files[i]
  /\ \A i \in Requests : i # r => (i \in cut' <=> i \in cut)
  /\ \A q \in Requests \ {r} :
       /\ req[q].writer # None => buffer'[req[q].writer] = buffer[req[q].writer]
       /\ At(q, "encode") => raw'[req[q].handle] = raw[req[q].handle]

LEMMA KnownGrows ==
  ASSUME IInv, NEW r \in Requests, ~At(r, "done"), OnlyOf(r)
  PROVE  r \notin Known /\ Known \subseteq Known'
<1>1. r \notin Known
  BY KnownFacts
<1> QED BY <1>1 DEF Known, OnlyOf

\* A request is as it was, and so is what it needs.
LEMMA Undisturbed ==
  ASSUME IInv, NEW q \in Requests, req'[q] = req[q], Known \subseteq Known',
         \A i \in Known : i \in DOMAIN files' /\ files'[i] = files[i],
         q \in DOMAIN files' <=> q \in DOMAIN files,
         q \in DOMAIN files => files'[q] = files[q],
         q \in cut' <=> q \in cut,
         req[q].writer # None => buffer'[req[q].writer] = buffer[req[q].writer],
         At(q, "encode") => raw'[req[q].handle] = raw[req[q].handle]
  PROVE  RequestOK(q)' /\ RequestInv(q)'
<1>1. req'[q] = req[q] /\ q \in Requests
  OBVIOUS
<1>2. Known \subseteq Known'
  OBVIOUS
<1>3. \A i \in Known : i \in DOMAIN files /\ i \in DOMAIN files' /\ files'[i] = files[i]
  BY KnownFacts
<1>4. /\ q \in DOMAIN files' <=> q \in DOMAIN files
      /\ q \in DOMAIN files => files'[q] = files[q]
      /\ q \in cut' <=> q \in cut
  OBVIOUS
<1>5. /\ req[q].writer # None => buffer'[req[q].writer] = buffer[req[q].writer]
      /\ At(q, "encode") => raw'[req[q].handle] = raw[req[q].handle]
  OBVIOUS
<1>6. Body(q)' = Body(q)
  BY <1>1 DEF Body
<1>7. RequestOK(q)'
  BY <1>1, Parts DEF RequestOK
<1>8. KindInv(q)'
  BY <1>1, <1>2, Parts DEF KindInv
<1>9. ErrInv(q)'
  BY <1>1, Parts DEF ErrInv
<1>10. SaveInv(q)'
  BY <1>1, <1>4, <1>6, Parts DEF SaveInv
<1>11. FetchInv(q)'
  BY <1>1, <1>6, Parts DEF FetchInv
<1>12. HandsInv(q)'
  BY <1>1, <1>5, Parts DEF HandsInv, Writers, Encoders, At
<1>13. ReadInv(q)'
  BY <1>1, <1>2, <1>3, Parts DEF ReadInv, Target
<1>14. PumpInv(q)'
  <2>1. req[q].pc \in {"writer", "copy", "close", "send"} =>
          req[q].kind \in Stored \cup {"download"}
    BY <1>1, Parts DEF KindInv, Moving
  <2>2. req[q].pc \in {"writer", "copy", "close", "send"} =>
          Source(q)' = Source(q) /\ Out(q)' = Out(q)
    <3>1. CASE req[q].kind = "download"
      BY <1>1, <1>3, <3>1, Parts DEF Source, Out, Saving, ReadInv, Moving
    <3>2. CASE req[q].kind \in Stored
      <4>1. req[q].pc \in Moving => req[q].handle = q /\ q \in DOMAIN files
        BY <1>1, <3>2, Parts DEF SaveInv
      <4>2. req[q].pc # "send" /\ req[q].kind # "download"
        BY <1>1, <3>2, Parts DEF KindInv, Stored
      <4> QED BY <1>1, <1>4, <1>6, <4>1, <4>2 DEF Source, Out, Saving, Moving
    <3> QED BY <2>1, <3>1, <3>2
  <2> QED BY <1>1, <1>5, <2>2, Parts DEF PumpInv
<1> QED BY <1>7, <1>8, <1>9, <1>10, <1>11, <1>12, <1>13, <1>14 DEF RequestInv

LEMMA OthersKept ==
  ASSUME IInv, NEW r \in Requests, ~At(r, "done"), OnlyOf(r), DataKept(r),
         NEW q \in Requests \ {r}
  PROVE  RequestOK(q)' /\ RequestInv(q)'
<1>1. req'[q] = req[q] /\ q \in Requests /\ q # r
  BY DEF OnlyOf
<1>2. r \notin Known /\ Known \subseteq Known'
  BY KnownGrows
<1>3. \A i \in Known : i \in DOMAIN files' /\ files'[i] = files[i]
  BY <1>2, KnownFacts DEF DataKept
<1>4. /\ q \in DOMAIN files' <=> q \in DOMAIN files
      /\ q \in DOMAIN files => files'[q] = files[q]
      /\ q \in cut' <=> q \in cut
  BY <1>1 DEF DataKept
<1>5. /\ req[q].writer # None => buffer'[req[q].writer] = buffer[req[q].writer]
      /\ At(q, "encode") => raw'[req[q].handle] = raw[req[q].handle]
  BY DEF DataKept
<1> QED BY <1>1, <1>2, <1>3, <1>4, <1>5, Undisturbed

\* The parts of the invariant that are not about one request.
DiskOK ==
  /\ cut \subseteq DOMAIN files /\ DOMAIN files \subseteq Requests
  /\ \A i \in DOMAIN files : files[i] \in Seq(Chunks)

PoolsOK ==
  /\ buffer \in [AllObjects -> Seq(Chunks)]
  /\ DOMAIN raw = AllObjects /\ DOMAIN pool = Servers /\ DOMAIN uuids = Servers
  /\ Lent(pool, Writers) /\ Lent(uuids, Encoders)

ConnsOK ==
  conns \in [Servers -> 0 .. MaxConns] /\ \A s \in Servers : conns[s] = Cardinality(Connected(s))

CountsOK == up \subseteq Servers /\ faults \in 0 .. MaxFaults

LEMMA Shared ==
  IInv <=> /\ DiskOK /\ PoolsOK /\ ConnsOK /\ CountsOK /\ DOMAIN req = Requests
           /\ \A r \in Requests : RequestOK(r) /\ RequestInv(r)
BY DEF IInv, TypeOK, StoreInv, DiskOK, PoolsOK, ConnsOK, CountsOK

Kept(r) ==
  /\ ~At(r, "done") /\ OnlyOf(r) /\ DataKept(r)
  /\ RequestOK(r)' /\ RequestInv(r)' /\ DiskOK' /\ PoolsOK'

LEMMA OwnStep ==
  ASSUME IInv, NEW r \in Requests, Kept(r), ConnsOK', CountsOK'
  PROVE  IInv'
<1> USE DEF Kept
<1>1. \A q \in Requests : RequestOK(q)' /\ RequestInv(q)'
  BY OthersKept
<1>2. DOMAIN req' = Requests
  BY DEF OnlyOf
<1> QED BY <1>1, <1>2 DEF IInv, TypeOK, StoreInv, DiskOK, PoolsOK, ConnsOK, CountsOK

\* Nothing pooled changes hands.
LEMMA PoolsKept ==
  ASSUME IInv, NEW r \in Requests, OnlyOf(r), UNCHANGED pools,
         req'[r].writer = req[r].writer, ~At(r, "encode"), ~At(r, "encode")'
  PROVE  PoolsOK'
<1>1. Writers' = Writers /\ Encoders' = Encoders
  BY DEF Writers, Encoders, OnlyOf, At
<1> QED BY <1>1, Shared DEF PoolsOK, pools, writers

LEMMA DataUntouched ==
  ASSUME IInv, NEW r \in Requests, OnlyOf(r), UNCHANGED <<disk, pools>>
  PROVE  DataKept(r) /\ DiskOK'
BY Shared DEF DataKept, DiskOK, disk, pools, writers

\* Connections in use.
Online == {"headers", "page", "stalled"}

LEMMA ConnsKept ==
  ASSUME IInv, NEW r \in Requests, OnlyOf(r), UNCHANGED conns,
         req[r].pc \in Online <=> req'[r].pc \in Online,
         req[r].pc \in Online => req'[r].server = req[r].server
  PROVE  ConnsOK'
<1>1. ASSUME NEW s \in Servers PROVE Connected(s)' = Connected(s)
  BY DEF Connected, OnlyOf, Online
<1> QED BY <1>1, Shared DEF ConnsOK

LEMMA ConnectedFinite == \A s : IsFiniteSet(Connected(s)) /\ Cardinality(Connected(s)) \in Nat
<1>1. \A s : Connected(s) \in SUBSET Requests
  BY DEF Connected
<1> QED BY <1>1, Constants, FS_Subset, FS_CardinalityType

LEMMA ConnectedMore ==
  ASSUME IInv, NEW r \in Requests, OnlyOf(r), req[r].pc \notin Online, req'[r].pc \in Online,
         NEW s \in Servers, req'[r].server = s, conns' = [conns EXCEPT ![s] = @ + 1],
         conns[s] < MaxConns
  PROVE  ConnsOK'
<1>1. conns \in [Servers -> 0 .. MaxConns] /\ MaxConns \in Nat
  BY Shared, Constants DEF ConnsOK
<1>2. conns' \in [Servers -> 0 .. MaxConns]
  BY <1>1
<1>3. Connected(s)' = Connected(s) \cup {r} /\ r \notin Connected(s)
  BY DEF Connected, OnlyOf, Online
<1>4. Cardinality(Connected(s)') = Cardinality(Connected(s)) + 1
  BY <1>3, ConnectedFinite, FS_AddElement
<1>5. \A t \in Servers : t # s => Connected(t)' = Connected(t)
  BY DEF Connected, OnlyOf, Online
<1> QED BY <1>1, <1>2, <1>4, <1>5, Shared DEF ConnsOK

LEMMA ConnectedLess ==
  ASSUME IInv, NEW r \in Requests, OnlyOf(r), req[r].pc \in Online, req'[r].pc \notin Online,
         NEW s \in Servers, req[r].server = s, conns' = [conns EXCEPT ![s] = @ + (-1)]
  PROVE  ConnsOK'
<1>1. conns \in [Servers -> 0 .. MaxConns] /\ MaxConns \in Nat /\ Cardinality(Connected(s)) = conns[s]
  BY Shared, Constants DEF ConnsOK
<1>2. Connected(s)' = Connected(s) \ {r} /\ r \in Connected(s)
  BY DEF Connected, OnlyOf, Online
<1>3. Cardinality(Connected(s)') = Cardinality(Connected(s)) - 1
  BY <1>2, ConnectedFinite, FS_RemoveElement, ZenonT(60)
<1>4. IsFiniteSet(Connected(s)')
  BY <1>2, ConnectedFinite, FS_RemoveElement
<1>5. Cardinality(Connected(s)') \in Nat
  BY <1>4, FS_CardinalityType
<1>6. conns'[s] = conns[s] - 1 /\ conns' \in [Servers -> 0 .. MaxConns]
  BY <1>1, <1>3, <1>5
<1>7. \A t \in Servers : t # s => Connected(t)' = Connected(t)
  BY DEF Connected, OnlyOf, Online
<1> QED BY <1>1, <1>3, <1>6, <1>7, Shared DEF ConnsOK

\* A call that has failed before anything was in the request's hands.
LEMMA FailStep ==
  ASSUME IInv, NEW r \in Requests, NEW e \in Words, Fail(r, e), UNCHANGED <<disk, pools>>,
         req[r].pc \in {"uuid", "create", "open", "url", "fetch", "headers", "page", "stalled"},
         e # "unread", e = "not found" => Unknown \in Range(req[r].args),
         e = "invalid id" => Malformed \in Range(req[r].args),
         e \in {"invalid url", "bad body"} => req[r].kind = "fetch"
  PROVE  Kept(r) /\ req'[r].pc = "reply" /\ req'[r].server = req[r].server
<1>1. DOMAIN req = Requests /\ DOMAIN req[r] = DOMAIN NotYet
  BY Shared DEF RequestOK
<1>2. /\ OnlyOf(r) /\ DOMAIN req'[r] = DOMAIN NotYet
      /\ req'[r].pc = "reply" /\ req'[r].err = e
      /\ req'[r].kind = req[r].kind /\ req'[r].server = req[r].server /\ req'[r].args = req[r].args
      /\ req'[r].len = req[r].len /\ req'[r].moved = req[r].moved /\ req'[r].id = req[r].id
      /\ req'[r].handle = req[r].handle /\ req'[r].writer = req[r].writer
      /\ req'[r].got = req[r].got /\ req'[r].answer = req[r].answer
  BY <1>1, Fields DEF Fail, OnlyOf
<1>3. DataKept(r) /\ DiskOK'
  BY <1>2, DataUntouched
<1>4. ~At(r, "done") /\ ~At(r, "encode") /\ ~At(r, "encode")'
  BY <1>2 DEF At
<1>5. PoolsOK'
  BY <1>2, <1>4, PoolsKept
<1>6. req[r].writer = None /\ req[r].handle = None /\ e # None
  BY Parts, NoWords DEF RequestOK
<1>7. Known \subseteq Known'
  BY <1>2, <1>4, KnownGrows
<1>8. RequestOK(r)'
  BY <1>2, <1>6, Parts DEF RequestOK, PCs
<1>9. KindInv(r)'
  BY <1>2, <1>7, Parts, ZenonT(60) DEF KindInv, Moving
<1>10. ErrInv(r)'
  <2>1. req'[r].answer = None /\ None \notin {"ok", "not found", "invalid"}
    BY <1>2, Parts, NoWords DEF KindInv, Words
  <2> QED BY <1>2, <2>1 DEF ErrInv
<1>11. Body(r)' = Body(r) /\ UNCHANGED <<files, cut>>
  BY <1>2 DEF Body, disk
<1>12. SaveInv(r)' /\ PumpInv(r)' /\ ReadInv(r)' /\ FetchInv(r)' /\ HandsInv(r)'
  BY <1>2, <1>6, <1>11, Parts DEF SaveInv, PumpInv, ReadInv, FetchInv, HandsInv, Writers, At, Moving
<1>13. RequestInv(r)'
  BY <1>9, <1>10, <1>12 DEF RequestInv
<1> QED BY <1>2, <1>3, <1>4, <1>5, <1>8, <1>13 DEF Kept

\* A step that touches nothing but its own request.
LEMMA PlainStep ==
  ASSUME IInv, NEW r \in Requests, ~At(r, "done"), OnlyOf(r), UNCHANGED <<disk, pools>>,
         ~At(r, "encode"), ~At(r, "encode")', req'[r].writer = req[r].writer,
         RequestOK(r)', RequestInv(r)'
  PROVE  Kept(r)
BY DataUntouched, PoolsKept DEF Kept

LEMMA NamedFacts ==
  ASSUME IInv, NEW k \in Kinds, NEW a \in Named(k)
  PROVE  /\ a \in Seq(Ids) /\ \A i \in DOMAIN a : a[i] \in Known \cup {Unknown, Malformed}
         /\ k = "download" => Len(a) = 1
         /\ k = "compare" => Len(a) = 2
         /\ k \notin {"download", "compare"} => a = <<>>
<1>1. Known \cup {Unknown, Malformed} \subseteq Ids
  BY DEF Ids, Known
<1>2. CASE k = "download"
  <2>1. PICK i \in Known \cup {Unknown, Malformed} : a = <<i>>
    BY <1>2 DEF Named
  <2> QED BY <1>1, <1>2, <2>1
<1>3. CASE k = "compare"
  <2>1. a \in (Known \cup {Unknown, Malformed}) \X (Known \cup {Unknown, Malformed})
    BY <1>3 DEF Named
  <2>2. PICK i, j \in Known \cup {Unknown, Malformed} : a = <<i, j>>
    BY <2>1
  <2> QED BY <1>1, <1>3, <2>2
<1>4. CASE k \notin {"download", "compare"}
  <2>1. a = <<>>
    BY <1>4 DEF Named
  <2> QED BY <1>4, <2>1
<1> QED BY <1>2, <1>3, <1>4

\* A request arrives, to be served or, over HTTP with another method, refused.
LEMMA ArriveStep ==
  ASSUME IInv, NEW r \in Requests, Arrive(r)
  PROVE  Kept(r) /\ req[r].pc \notin Online /\ req'[r].pc \notin Online
<1>1. At(r, "idle") /\ UNCHANGED <<disk, pools>> /\ DOMAIN req = Requests
  BY Shared DEF Arrive
<1>2. PICK s \in up, k \in Kinds : \E n \in Sizes(k), a \in Named(k) :
        LET asked(l, e) == [NotYet EXCEPT !.pc = l, !.err = e, !.kind = k, !.server = s, !.args = a, !.len = n]
        IN \/ req' = [req EXCEPT ![r] = asked(First(k, s), None)]
           \/ s = "http" /\ req' = [req EXCEPT ![r] = asked("reply", "method")]
  BY DEF Arrive
<1> DEFINE Asked(n, a, l, e) ==
             /\ req' = [req EXCEPT ![r] = [NotYet EXCEPT !.pc = l, !.err = e, !.kind = k, !.server = s,
                                                         !.args = a, !.len = n]]
             /\ \/ l = First(k, s) /\ e = None
                \/ l = "reply" /\ e = "method"
<1>a. PICK n \in Sizes(k), a \in Named(k) : \E l, e : Asked(n, a, l, e)
  BY <1>2
<1>b. PICK l, e : Asked(n, a, l, e)
  BY <1>a
<1>3. /\ req' = [req EXCEPT ![r] = [NotYet EXCEPT !.pc = l, !.err = e, !.kind = k, !.server = s,
                                                  !.args = a, !.len = n]]
      /\ \/ l = First(k, s) /\ e = None
         \/ l = "reply" /\ e = "method"
  BY <1>b
<1> HIDE DEF Asked
<1>4. /\ OnlyOf(r) /\ DOMAIN req'[r] = DOMAIN NotYet
      /\ req'[r].pc = l /\ req'[r].err = e /\ req'[r].kind = k /\ req'[r].server = s
      /\ req'[r].args = a /\ req'[r].len = n /\ req'[r].moved = 0 /\ req'[r].id = None
      /\ req'[r].handle = None /\ req'[r].writer = None /\ req'[r].got = <<>>
      /\ req'[r].answer = None
  BY <1>1, <1>3 DEF OnlyOf, NotYet
<1>5. k \in {"upload", "download", "compare", "fetch"} /\ s \in Servers /\ s \in {"http", "grpc"}
      /\ n \in Lengths \cup {0} /\ None # "method"
      /\ None \notin {"ok", "not found", "invalid", "invalid id", "invalid url", "bad body"}
  BY FileStoreAssumption, Shared, NoWords DEF CountsOK, Sizes, Words
<1>6. \/ l = "reply" /\ e = "method"
      \/ l = "uuid" /\ k = "upload" /\ e = None
      \/ l \in {"url", "fetch"} /\ k = "fetch" /\ e = None
      \/ l = "open" /\ k \in {"download", "compare"} /\ e = None
  BY <1>3, <1>5 DEF First
<1>7. Known \subseteq Known' /\ ~At(r, "done") /\ ~At(r, "encode") /\ ~At(r, "encode")'
  BY <1>1, <1>4, <1>5, <1>6, KnownGrows DEF At
<1>8. /\ a \in Seq(Ids) /\ \A i \in DOMAIN a : a[i] \in Known \cup {Unknown, Malformed}
      /\ k = "download" => Len(a) = 1
      /\ k = "compare" => Len(a) = 2
      /\ k \notin {"download", "compare"} => a = <<>>
  BY <1>2, <1>3, NamedFacts
<1>9. RequestOK(r)'
  <2>1. DOMAIN req'[r] = DOMAIN NotYet /\ req'[r].kind = k /\ req'[r].server \in Servers
    BY <1>4, <1>5
  <2>2. req'[r].len \in Lengths \cup {0}
    BY <1>4, <1>5
  <2>3. req'[r].args \in Seq(Ids)
    BY <1>4, <1>8
  <2>4. req'[r].pc \in {"uuid", "url", "fetch", "open", "reply"}
    BY <1>4, <1>6
  <2>5. req'[r].moved \in Nat /\ req'[r].id = None
    BY <1>4
  <2> QED BY <1>4, <2>1, <2>2, <2>3, <2>4, <2>5 DEF RequestOK, PCs
<1>10. KindInv(r)'
  <2>1. r \notin Saved
    BY <1>1, Parts DEF KindInv, At
  <2>2. \A i \in DOMAIN req'[r].args : req'[r].args[i] \in Known' \cup {Unknown, Malformed}
    BY <1>4, <1>7, <1>8
  <2>3. k \in Kinds /\ req'[r].pc = l /\ l # "done"
    BY <1>2, <1>4, <1>5, <1>6
  <2>4. /\ req'[r].kind = k /\ req'[r].server \in Servers /\ req'[r].answer = None
        /\ req'[r].kind = "download" => Len(req'[r].args) = 1
        /\ req'[r].kind = "compare" => Len(req'[r].args) = 2
        /\ req'[r].kind \notin {"download", "compare"} => req'[r].args = <<>>
    BY <1>4, <1>5, <1>8
  <2>5. req'[r].pc # "idle" /\ req'[r].pc # "done" /\ req'[r].pc \notin Moving
        /\ req'[r].pc \notin {"encode", "create", "send", "read", "headers", "page", "stalled"}
    BY <1>4, <1>6 DEF Moving
  <2>6. /\ req'[r].pc = "uuid" => k = "upload"
        /\ req'[r].pc \in {"url", "fetch"} => k = "fetch"
        /\ req'[r].pc = "open" => k \in {"download", "compare"}
    BY <1>4, <1>6
  <2> QED BY <2>1, <2>2, <2>3, <2>4, <2>5, <2>6 DEF KindInv, Stored
<1>11. ErrInv(r)'
  BY <1>4, <1>5, <1>6 DEF ErrInv
<1>12. SaveInv(r)'
  <2>1. r \notin DOMAIN files /\ UNCHANGED files
    BY <1>1, Parts DEF SaveInv, At, disk
  <2> QED BY <1>4, <1>5, <1>6, <2>1 DEF SaveInv, Moving
<1>13. PumpInv(r)' /\ ReadInv(r)' /\ FetchInv(r)' /\ HandsInv(r)'
  BY <1>4, <1>5, <1>6 DEF PumpInv, ReadInv, FetchInv, HandsInv, Writers, At, Moving
<1>14. RequestInv(r)'
  BY <1>10, <1>11, <1>12, <1>13 DEF RequestInv
<1>15. req[r].writer = None
  BY <1>1, Parts DEF RequestOK, At
<1> QED BY <1>1, <1>4, <1>5, <1>6, <1>7, <1>9, <1>14, <1>15, PlainStep DEF At, Online

-----------------------------------------------------------------------------
(* NewUUID and SaveFile *)

LEMMA Working ==
  ASSUME IInv, NEW r \in Requests, ~At(r, "idle"), ~At(r, "done")
  PROVE  /\ DOMAIN req = Requests /\ DOMAIN req[r] = DOMAIN NotYet /\ r \in Requests \ Saved
         /\ req[r].server \in Servers /\ req[r].kind \in Kinds /\ req[r].answer = None
         /\ None \notin {"ok", "not found", "invalid", "invalid id", "invalid url", "bad body"}
         /\ \A q \in Saved : Writers[q] = None /\ Encoders[q] = None
<1>1. DOMAIN req = Requests /\ RequestOK(r) /\ KindInv(r)
  BY Shared, Parts
<1>2. \A q \in Saved : q \in Requests /\ req[q].pc = "done" /\ req[q].writer = None
  BY Constants, Parts DEF KindInv, RequestOK
<1>3. \A q \in Saved : Writers[q] = None /\ Encoders[q] = None
  BY <1>2 DEF Writers, Encoders, At
<1>4. None \notin {"ok", "not found", "invalid", "invalid id", "invalid url", "bad body"}
  BY NoWords DEF Words
<1>5. DOMAIN req[r] = DOMAIN NotYet
  BY <1>1 DEF RequestOK
<1>6. r \in Requests \ Saved /\ req[r].server \in Servers /\ req[r].kind \in Kinds /\ req[r].answer = None
  BY <1>1 DEF KindInv, At
<1> QED BY <1>1, <1>3, <1>4, <1>5, <1>6

LEMMA ReadRandomStep ==
  ASSUME IInv, NEW r \in Requests, ReadRandom(r)
  PROVE  Kept(r) /\ req[r].pc \notin Online /\ req'[r].pc \notin Online
<1> DEFINE s == req[r].server
           u == Get(uuids[s])
<1>1. At(r, "uuid") /\ UNCHANGED <<disk, writers>>
  BY DEF ReadRandom
<1>2. /\ raw' = [raw EXCEPT ![u] = r] /\ uuids' = [uuids EXCEPT ![s] = @ \ {u}]
      /\ req' = [req EXCEPT ![r].pc = "encode", ![r].handle = u]
  BY DEF ReadRandom, Taken
<1>3. ~At(r, "idle") /\ ~At(r, "done") /\ ~At(r, "encode") /\ req[r].pc = "uuid"
  BY <1>1 DEF At
<1>4. /\ DOMAIN req = Requests /\ DOMAIN req[r] = DOMAIN NotYet /\ r \in Requests \ Saved
      /\ s \in Servers /\ req[r].kind \in Kinds /\ req[r].answer = None
      /\ None \notin {"ok", "not found", "invalid", "invalid id", "invalid url", "bad body"}
  BY <1>3, Working
<1>5. PoolsOK /\ DiskOK
  BY Shared
<1>6. Lent(uuids, Encoders) /\ DOMAIN uuids = Servers /\ DOMAIN Encoders = Requests
      /\ Encoders[r] = None
  BY <1>3, <1>5 DEF PoolsOK, Encoders
<1>7. /\ u \in uuids[s] /\ u \in Objects(s) /\ u \in AllObjects /\ u # None
      /\ \A q \in Requests : Encoders[q] # u
  <2>1. \A q \in Saved : Encoders[q] = None
    BY <1>3, Working
  <2> QED BY <1>4, <1>6, <2>1, GetOne, ZenonT(60)
<1> HIDE DEF u
<1>8. /\ OnlyOf(r) /\ DOMAIN req'[r] = DOMAIN NotYet
      /\ req'[r].pc = "encode" /\ req'[r].handle = u
      /\ req'[r].kind = req[r].kind /\ req'[r].server = req[r].server /\ req'[r].args = req[r].args
      /\ req'[r].len = req[r].len /\ req'[r].moved = req[r].moved /\ req'[r].id = req[r].id
      /\ req'[r].err = req[r].err /\ req'[r].writer = req[r].writer
      /\ req'[r].got = req[r].got /\ req'[r].answer = req[r].answer
  BY <1>2, <1>4, Fields DEF OnlyOf
<1>9. DataKept(r)
  <2>1. \A q \in Requests : At(q, "encode") => req[q].handle # u
    BY <1>7 DEF Encoders
  <2> QED BY <1>1, <1>2, <2>1 DEF DataKept, disk, writers
<1>10. DiskOK' /\ UNCHANGED <<files, cut, buffer, pool>>
  BY <1>1, <1>5 DEF DiskOK, disk, writers
<1>11. PoolsOK'
  <2>1. Writers' = Writers
    BY <1>8 DEF Writers, OnlyOf
  <2>2. Encoders' = [Encoders EXCEPT ![r] = u]
    BY <1>3, <1>8 DEF Encoders, OnlyOf, At
  <2>3. Lent([uuids EXCEPT ![s] = @ \ {u}], [Encoders EXCEPT ![r] = u])
    BY <1>4, <1>6, <1>7, LendOne
  <2>4. Lent(uuids, Encoders)'
    BY <1>2, <2>2, <2>3 DEF Lent
  <2>5. Lent(pool, Writers)'
    BY <1>5, <1>10, <2>1 DEF Lent, PoolsOK
  <2> QED BY <1>2, <1>5, <1>10, <2>4, <2>5 DEF PoolsOK
<1>12. RequestOK(r)'
  BY <1>3, <1>7, <1>8, Parts DEF RequestOK, PCs
<1>13. Known \subseteq Known'
  BY <1>3, <1>8, KnownGrows
<1>14. KindInv(r)'
  BY <1>3, <1>8, <1>13, Parts DEF KindInv, Moving
<1>15. ErrInv(r)'
  BY <1>3, <1>8, Parts DEF ErrInv
<1>16. Body(r)' = Body(r)
  BY <1>8 DEF Body
<1>17. SaveInv(r)' /\ PumpInv(r)' /\ ReadInv(r)' /\ FetchInv(r)'
  BY <1>3, <1>8, <1>10, <1>16, Parts DEF SaveInv, PumpInv, ReadInv, FetchInv, Moving
<1>18. HandsInv(r)'
  <2>1. raw'[u] = r
    BY <1>2, <1>4, <1>5, <1>7, ObjectFacts DEF PoolsOK
  <2> QED BY <1>3, <1>7, <1>8, <2>1, Parts DEF HandsInv, Writers, Encoders, At
<1>19. RequestInv(r)'
  BY <1>14, <1>15, <1>17, <1>18 DEF RequestInv
<1> QED BY <1>3, <1>8, <1>9, <1>10, <1>11, <1>12, <1>19 DEF Kept, Online

LEMMA EncodeIDStep ==
  ASSUME IInv, NEW r \in Requests, EncodeID(r)
  PROVE  Kept(r) /\ req[r].pc \notin Online /\ req'[r].pc \notin Online
<1> DEFINE s == req[r].server
           u == req[r].handle
<1>1. /\ At(r, "encode") /\ UNCHANGED <<disk, writers, raw>>
      /\ req' = [req EXCEPT ![r].pc = "create", ![r].id = raw[u], ![r].handle = None]
      /\ uuids' = [uuids EXCEPT ![s] = @ \cup {u}]
  BY DEF EncodeID, Put
<1>2. ~At(r, "idle") /\ ~At(r, "done") /\ req[r].pc = "encode"
  BY <1>1 DEF At
<1>3. /\ DOMAIN req = Requests /\ DOMAIN req[r] = DOMAIN NotYet /\ r \in Requests \ Saved
      /\ s \in Servers /\ req[r].kind \in Kinds /\ req[r].answer = None
      /\ None \notin {"ok", "not found", "invalid", "invalid id", "invalid url", "bad body"}
  BY <1>2, Working
<1>4. PoolsOK /\ DiskOK
  BY Shared
<1>5. raw[u] = r /\ u \in Objects(s) /\ Encoders[r] = u
  BY <1>1, Parts DEF HandsInv, Encoders
<1>6. /\ OnlyOf(r) /\ DOMAIN req'[r] = DOMAIN NotYet
      /\ req'[r].pc = "create" /\ req'[r].handle = None /\ req'[r].id = r
      /\ req'[r].kind = req[r].kind /\ req'[r].server = req[r].server /\ req'[r].args = req[r].args
      /\ req'[r].len = req[r].len /\ req'[r].moved = req[r].moved
      /\ req'[r].err = req[r].err /\ req'[r].writer = req[r].writer
      /\ req'[r].got = req[r].got /\ req'[r].answer = req[r].answer
  BY <1>1, <1>3, <1>5, Fields DEF OnlyOf
<1>7. DataKept(r)
  BY <1>1 DEF DataKept, disk, writers
<1>8. DiskOK' /\ UNCHANGED <<files, cut, buffer, pool, raw>>
  BY <1>1, <1>4 DEF DiskOK, disk, writers
<1>9. PoolsOK'
  <2>1. Writers' = Writers
    BY <1>6 DEF Writers, OnlyOf
  <2>2. Encoders' = [Encoders EXCEPT ![r] = None]
    BY <1>6 DEF Encoders, OnlyOf, At
  <2>3. Lent(uuids, Encoders) /\ DOMAIN uuids = Servers /\ DOMAIN Encoders = Requests
    BY <1>4 DEF PoolsOK, Encoders
  <2>4. Lent([uuids EXCEPT ![s] = @ \cup {Encoders[r]}], [Encoders EXCEPT ![r] = None])
    BY <1>3, <1>5, <2>3, TakeBack
  <2>5. Lent(uuids, Encoders)'
    BY <1>1, <1>5, <2>2, <2>4 DEF Lent
  <2>6. Lent(pool, Writers)'
    BY <1>4, <1>8, <2>1 DEF Lent, PoolsOK
  <2> QED BY <1>1, <1>4, <1>8, <2>5, <2>6 DEF PoolsOK
<1>10. RequestOK(r)'
  BY <1>2, <1>6, Parts DEF RequestOK, PCs
<1>11. Known \subseteq Known'
  BY <1>2, <1>6, KnownGrows
<1>12. KindInv(r)'
  BY <1>2, <1>6, <1>11, Parts DEF KindInv, Moving
<1>13. ErrInv(r)'
  BY <1>2, <1>6, Parts DEF ErrInv
<1>14. Body(r)' = Body(r)
  BY <1>6 DEF Body
<1>15. SaveInv(r)' /\ PumpInv(r)' /\ ReadInv(r)' /\ FetchInv(r)'
  BY <1>2, <1>6, <1>8, <1>14, Parts DEF SaveInv, PumpInv, ReadInv, FetchInv, Moving
<1>16. HandsInv(r)'
  BY <1>2, <1>6, Parts DEF HandsInv, Writers, Encoders, At
<1>17. RequestInv(r)'
  BY <1>12, <1>13, <1>15, <1>16 DEF RequestInv
<1> QED BY <1>2, <1>6, <1>7, <1>8, <1>9, <1>10, <1>17 DEF Kept, Online

\* os.Create makes an empty file of the request's own.
LEMMA CreateStep ==
  ASSUME IInv, NEW r \in Requests, Create(r)
  PROVE  Kept(r) /\ req[r].pc \notin Online /\ req'[r].pc \notin Online
<1>1. /\ At(r, "create") /\ UNCHANGED <<cut, pools>>
      /\ files' = [f \in DOMAIN files \cup {req[r].id} |-> IF f = req[r].id THEN <<>> ELSE files[f]]
      /\ req' = [req EXCEPT ![r].pc = "writer", ![r].handle = req[r].id]
  BY DEF Create
<1>2. ~At(r, "idle") /\ ~At(r, "done") /\ ~At(r, "encode") /\ req[r].pc = "create"
  BY <1>1 DEF At
<1>3. /\ DOMAIN req = Requests /\ DOMAIN req[r] = DOMAIN NotYet /\ r \in Requests \ Saved
      /\ req[r].server \in Servers /\ req[r].kind \in Kinds /\ req[r].answer = None
      /\ None \notin {"ok", "not found", "invalid", "invalid id", "invalid url", "bad body"}
  BY <1>2, Working
<1>4. req[r].kind \in Stored /\ req[r].id = r
  BY <1>2, Parts DEF KindInv, SaveInv
<1>5. /\ OnlyOf(r) /\ DOMAIN req'[r] = DOMAIN NotYet
      /\ req'[r].pc = "writer" /\ req'[r].handle = r /\ req'[r].id = r
      /\ req'[r].kind = req[r].kind /\ req'[r].server = req[r].server /\ req'[r].args = req[r].args
      /\ req'[r].len = req[r].len /\ req'[r].moved = req[r].moved
      /\ req'[r].err = req[r].err /\ req'[r].writer = req[r].writer
      /\ req'[r].got = req[r].got /\ req'[r].answer = req[r].answer
  BY <1>1, <1>3, <1>4, Fields DEF OnlyOf
<1>6. /\ DOMAIN files' = DOMAIN files \cup {r} /\ files'[r] = <<>>
      /\ \A i \in DOMAIN files : i # r => files'[i] = files[i]
  BY <1>1, <1>4
<1>7. UNCHANGED <<cut, buffer, pool, raw, uuids>>
  BY <1>1 DEF pools, writers
<1>8. DataKept(r)
  BY <1>6, <1>7 DEF DataKept
<1>9. DiskOK'
  <2>1. DiskOK /\ <<>> \in Seq(Chunks)
    BY Shared
  <2>2. \A i \in DOMAIN files' : files'[i] \in Seq(Chunks)
    BY <1>6, <2>1 DEF DiskOK
  <2> QED BY <1>6, <1>7, <2>1, <2>2 DEF DiskOK
<1>10. PoolsOK'
  BY <1>1, <1>2, <1>5, PoolsKept DEF At
<1>11. req[r].writer = None /\ None # r
  BY <1>2, Parts, Constants DEF RequestOK
<1>12. RequestOK(r)'
  BY <1>2, <1>5, <1>11, Parts DEF RequestOK, PCs
<1>13. Known \subseteq Known'
  BY <1>2, <1>5, KnownGrows
<1>14. KindInv(r)'
  BY <1>2, <1>4, <1>5, <1>13, Parts DEF KindInv, Moving
<1>15. ErrInv(r)'
  BY <1>2, <1>5, Parts DEF ErrInv
<1>16. Body(r)' = Body(r) /\ Body(r) \in Seq(Chunks)
  BY <1>5, BodyFacts DEF Body
<1>17. SaveInv(r)'
  BY <1>4, <1>5, <1>6, <1>16, Whole DEF SaveInv, Moving
<1>18. PumpInv(r)'
  BY <1>2, <1>4, <1>5, <1>6, Parts DEF PumpInv, Out, Saving, Stored
<1>19. ReadInv(r)' /\ FetchInv(r)'
  BY <1>2, <1>4, <1>5, <1>16, Parts DEF ReadInv, FetchInv, Stored, Moving
<1>20. HandsInv(r)'
  BY <1>5, <1>11 DEF HandsInv, Writers, At
<1>21. RequestInv(r)'
  BY <1>14, <1>15, <1>17, <1>18, <1>19, <1>20 DEF RequestInv
<1> QED BY <1>2, <1>5, <1>8, <1>9, <1>10, <1>12, <1>21 DEF Kept, Online

-----------------------------------------------------------------------------
(* A pooled writer between a source and a destination *)

LEMMA PumpFacts ==
  ASSUME IInv, NEW r \in Requests, req[r].pc \in Moving \cup {"send"}
  PROVE  /\ Source(r) \in Seq(Chunks) /\ Out(r) \in Seq(Chunks) /\ req[r].moved \in Nat
         /\ Saving(r) => /\ req[r].kind \in Stored /\ req[r].handle = r /\ r \in DOMAIN files
                         /\ req[r].id = r /\ Source(r) = Body(r) /\ Out(r) = files[r]
         /\ ~Saving(r) => /\ req[r].kind = "download" /\ req[r].handle = req[r].args[1]
                          /\ req[r].handle \in Known /\ req[r].handle # r
                          /\ Source(r) = files[req[r].handle] /\ Out(r) = req[r].got
         /\ req[r].writer # None =>
              /\ req[r].writer \in AllObjects /\ req[r].writer \in Objects(req[r].server)
              /\ buffer[req[r].writer] \in Seq(Chunks)
<1>1. req[r].moved \in Nat
  BY Parts DEF RequestOK
<1>2. Saving(r) => req[r].kind \in Stored /\ req[r].pc # "send"
  BY Parts DEF KindInv, Saving, Moving, Stored
<1>3. Saving(r) => /\ req[r].handle = r /\ r \in DOMAIN files /\ req[r].id = r
                   /\ Source(r) = Body(r) /\ Out(r) = files[r]
  BY <1>2, Parts DEF SaveInv, Source, Out, Saving
<1>4. ~Saving(r) => /\ req[r].kind = "download" /\ req[r].handle = req[r].args[1]
                    /\ req[r].handle \in Known /\ req[r].got \in Seq(Chunks)
                    /\ Source(r) = files[req[r].handle] /\ Out(r) = req[r].got
  BY Parts DEF ReadInv, Saving, Source, Out
<1>5. \A i \in Known : i \in DOMAIN files /\ req[i].pc = "done"
  BY KnownFacts DEF At
<1>6. \A i \in DOMAIN files : files[i] \in Seq(Chunks)
  BY Shared DEF DiskOK
<1>7. req[r].pc # "done"
  BY DEF Moving
<1>8. Source(r) \in Seq(Chunks) /\ Out(r) \in Seq(Chunks)
  BY <1>3, <1>4, <1>5, <1>6, BodyFacts
<1>9. req[r].writer # None =>
        /\ req[r].writer \in AllObjects /\ req[r].writer \in Objects(req[r].server)
        /\ buffer[req[r].writer] \in Seq(Chunks)
  <2>1. req[r].server \in Servers
    BY Parts DEF KindInv, Moving
  <2>2. req[r].writer # None => req[r].writer \in Objects(req[r].server)
    BY Parts DEF HandsInv, Writers
  <2> QED BY <2>1, <2>2, ObjectFacts, Shared DEF PoolsOK
<1> QED BY <1>1, <1>2, <1>3, <1>4, <1>5, <1>7, <1>8, <1>9

\* Each request has a writer of its own.
LEMMA WritersApart ==
  ASSUME IInv, NEW r \in Requests, req[r].writer # None
  PROVE  /\ req[r].writer \in AllObjects
         /\ \A q \in Requests \ {r} : req[q].writer # req[r].writer
<1>1. req[r].pc \in Moving
  BY Parts DEF RequestOK, Moving
<1>2. Lent(pool, Writers) /\ Writers = [q \in Requests |-> req[q].writer]
  BY Shared DEF PoolsOK, Writers
<1> QED BY <1>1, <1>2, PumpFacts DEF Lent

\* The writer of r passes on the first n of the chunks, of which m have been read.
LEMMA DeliverStep ==
  ASSUME IInv, NEW r \in Requests, At(r, "copy"), NEW now, NEW held \in Seq(Chunks),
         NEW n \in 0 .. Len(held), Deliver(r, now, held, n),
         DOMAIN now = DOMAIN NotYet, now.kind = req[r].kind, now.server = req[r].server,
         now.args = req[r].args, now.len = req[r].len, now.id = req[r].id,
         now.handle = req[r].handle, now.writer = req[r].writer, now.got = req[r].got,
         now.answer = req[r].answer,
         now.pc \in {"copy", "close"}, now.pc = "copy" => now.err = None,
         now.err \in {None, "persist", "unread", "gone"},
         NEW m \in Nat, now.moved = m, m <= Len(Source(r)),
         Out(r) \o held = SubSeq(Source(r), 1, m),
         now.pc = "close" /\ now.err = None => m = Len(Source(r)) /\ n = Len(held)
  PROVE  Kept(r) /\ req[r].pc \notin Online /\ req'[r].pc \notin Online
<1> DEFINE w == req[r].writer
           out == SubSeq(held, 1, n)
           left == SubSeq(held, n + 1, Len(held))
<1>1. ~At(r, "idle") /\ ~At(r, "done") /\ ~At(r, "encode") /\ req[r].pc = "copy"
  BY DEF At
<1>2. /\ DOMAIN req = Requests /\ DOMAIN req[r] = DOMAIN NotYet /\ r \in Requests \ Saved
      /\ req[r].server \in Servers /\ req[r].kind \in Kinds /\ req[r].answer = None
      /\ None \notin {"ok", "not found", "invalid", "invalid id", "invalid url", "bad body"}
  BY <1>1, Working
<1>3. w # None
  BY <1>1, Parts DEF PumpInv
<1>4. /\ Source(r) \in Seq(Chunks) /\ Out(r) \in Seq(Chunks)
      /\ Saving(r) => /\ req[r].kind \in Stored /\ req[r].handle = r /\ r \in DOMAIN files
                      /\ req[r].id = r /\ Source(r) = Body(r) /\ Out(r) = files[r]
      /\ ~Saving(r) => /\ req[r].kind = "download" /\ req[r].handle = req[r].args[1]
                       /\ req[r].handle \in Known /\ req[r].handle # r
                       /\ Source(r) = files[req[r].handle] /\ Out(r) = req[r].got
      /\ w \in AllObjects /\ w \in Objects(req[r].server)
  BY <1>1, <1>3, PumpFacts DEF Moving
<1>5. DiskOK /\ PoolsOK
  BY Shared
<1>6. /\ buffer' = [buffer EXCEPT ![w] = left] /\ UNCHANGED <<cut, pool, raw, uuids>>
      /\ Saving(r) => files' = [files EXCEPT ![r] = @ \o out] /\ req' = [req EXCEPT ![r] = now]
      /\ ~Saving(r) => files' = files /\ req' = [req EXCEPT ![r] = [now EXCEPT !.got = @ \o out]]
  BY <1>4 DEF Deliver
<1>7. /\ Out(r) \o out \in Seq(Chunks) /\ left \in Seq(Chunks)
      /\ (Out(r) \o out) \o left = SubSeq(Source(r), 1, m)
  <2>1. ASSUME NEW before \in Seq(Chunks)
        PROVE  /\ before \o out \in Seq(Chunks) /\ left \in Seq(Chunks)
               /\ (before \o out) \o left = before \o held
    BY ONLY <2>1, held \in Seq(Chunks), n \in 0 .. Len(held), PassOn, ZenonT(60)
  <2> QED BY <1>4, <2>1, Zenon
<1>8. n = Len(held) => out = held /\ left = <<>>
  <2>1. SubSeq(held, 1, Len(held)) = held
    BY SubSeqFull
  <2>2. Len(held) \in Nat /\ Len(held) + 1 > Len(held)
    OBVIOUS
  <2>3. SubSeq(held, Len(held) + 1, Len(held)) = <<>>
    BY <2>2, SubSeqEmpty
  <2> QED BY <2>1, <2>3
<1> HIDE DEF out, left, w
<1>9. /\ OnlyOf(r) /\ DOMAIN req'[r] = DOMAIN NotYet
      /\ req'[r].pc = now.pc /\ req'[r].moved = m /\ req'[r].err = now.err
      /\ req'[r].kind = req[r].kind /\ req'[r].server = req[r].server /\ req'[r].args = req[r].args
      /\ req'[r].len = req[r].len /\ req'[r].id = req[r].id
      /\ req'[r].handle = req[r].handle /\ req'[r].writer = w /\ req'[r].answer = None
  <2>1. CASE Saving(r)
    BY <1>2, <1>6, <2>1 DEF OnlyOf, w
  <2>2. CASE ~Saving(r)
    <3>1. /\ DOMAIN req' = Requests /\ \A q \in Requests \ {r} : req'[q] = req[q]
          /\ req'[r] = [now EXCEPT !.got = @ \o out]
      BY <1>2, <1>6, <2>2
    <3>2. /\ DOMAIN req'[r] = DOMAIN now /\ req'[r].got = now.got \o out
          /\ \A f \in DOMAIN now : f # "got" => req'[r][f] = now[f]
      BY <3>1, Fields
    <3> QED BY <1>2, <3>1, <3>2, Fields DEF OnlyOf, w
  <2> QED BY <2>1, <2>2
<1>10. /\ Saving(r) => req'[r].got = req[r].got
       /\ ~Saving(r) => req'[r].got = req[r].got \o out
  <2>1. CASE Saving(r)
    BY <1>2, <1>6, <2>1
  <2>2. CASE ~Saving(r)
    <3>1. req'[r] = [now EXCEPT !.got = @ \o out]
      BY <1>2, <1>6, <2>2
    <3> QED BY <2>2, <3>1, Fields
  <2> QED BY <2>1, <2>2
<1>11. /\ DOMAIN files' = DOMAIN files
       /\ \A i \in DOMAIN files : i # r => files'[i] = files[i]
       /\ Saving(r) => files'[r] = files[r] \o out
       /\ ~Saving(r) => files' = files
  BY <1>4, <1>6
<1>12. /\ Saving(r)' <=> Saving(r)
       /\ Body(r)' = Body(r)
       /\ Source(r)' = Source(r) /\ Out(r)' = Out(r) \o out
  <2>1. Body(r)' = Body(r) /\ (Saving(r)' <=> Saving(r))
    BY <1>9 DEF Body, Saving
  <2>2. CASE Saving(r)
    BY <1>4, <1>9, <1>11, <2>1, <2>2 DEF Source, Out
  <2>3. CASE ~Saving(r)
    BY <1>4, <1>9, <1>10, <1>11, <2>1, <2>3 DEF Source, Out
  <2> QED BY <2>1, <2>2, <2>3
<1>13. /\ buffer' \in [AllObjects -> Seq(Chunks)] /\ buffer'[w] = left
       /\ \A o \in AllObjects : o # w => buffer'[o] = buffer[o]
  BY <1>4, <1>5, <1>6, <1>7 DEF PoolsOK
<1>14. DataKept(r)
  <2>1. \A q \in Requests \ {r} : req[q].writer # None =>
          req[q].writer # w /\ req[q].writer \in AllObjects
    BY <1>3, WritersApart DEF w
  <2> QED BY <1>6, <1>11, <1>13, <2>1 DEF DataKept
<1>15. DiskOK'
  BY <1>4, <1>5, <1>6, <1>7, <1>11 DEF DiskOK
<1>16. PoolsOK'
  <2>1. Writers' = Writers /\ Encoders' = Encoders
    BY <1>1, <1>9 DEF Writers, Encoders, OnlyOf, At, w
  <2> QED BY <1>5, <1>6, <1>13, <2>1 DEF PoolsOK, Lent
<1>17. RequestOK(r)'
  BY <1>1, <1>3, <1>9, Parts DEF RequestOK, PCs, w
<1>18. Known \subseteq Known'
  BY <1>1, <1>9, KnownGrows
<1>19. KindInv(r)'
  <2>1. req[r].kind \in Stored \cup {"download"} /\ r \notin Saved
    BY <1>2, <1>4
  <2>2. /\ req[r].kind = "download" => Len(req[r].args) = 1
        /\ req[r].kind = "compare" => Len(req[r].args) = 2
        /\ req[r].kind \notin {"download", "compare"} => req[r].args = <<>>
        /\ \A i \in DOMAIN req[r].args : req[r].args[i] \in Known \cup {Unknown, Malformed}
    BY Parts DEF KindInv
  <2> QED BY <1>2, <1>9, <1>18, <2>1, <2>2 DEF KindInv, Moving
<1>20. ErrInv(r)'
  BY <1>2, <1>9 DEF ErrInv
<1>21. IsPrefix(Out(r)', Source(r))
  BY <1>4, <1>7, <1>12, Beginning
<1>22. SaveInv(r)'
  <2>1. r \in DOMAIN files => IsPrefix(files[r], Body(r))
    BY Parts DEF SaveInv
  <2>2. r \in DOMAIN files' => IsPrefix(files'[r], Body(r))
    BY <1>4, <1>11, <1>12, <1>21, <2>1
  <2> QED BY <1>4, <1>9, <1>11, <1>12, <2>2 DEF SaveInv, Moving, Stored
<1>23. PumpInv(r)'
  <2>1. Out(r)' \o buffer'[w] = SubSeq(Source(r), 1, m)
    BY <1>7, <1>12, <1>13
  <2>2. now.pc = "close" /\ now.err = None => Out(r)' = Source(r)
    BY <1>4, <1>8, <1>12, SubSeqFull
  <2> QED BY <1>3, <1>9, <1>12, <1>21, <2>1, <2>2 DEF PumpInv
<1>24. ReadInv(r)'
  BY <1>4, <1>7, <1>9, <1>10, <1>18 DEF ReadInv, Saving, Stored, Moving
<1>25. FetchInv(r)'
  BY <1>1, <1>9, <1>10, <1>12, Parts DEF FetchInv, Saving, Moving
<1>26. HandsInv(r)'
  BY <1>4, <1>9 DEF HandsInv, Writers, At, w
<1>27. RequestInv(r)'
  BY <1>19, <1>20, <1>22, <1>23, <1>24, <1>25, <1>26 DEF RequestInv
<1> QED BY <1>1, <1>9, <1>14, <1>15, <1>16, <1>17, <1>27 DEF Kept, Online

\* What DeliverStep asks of a request that is copying.
LEMMA Copying ==
  ASSUME IInv, NEW r \in Requests, At(r, "copy")
  PROVE  /\ DOMAIN req[r] = DOMAIN NotYet /\ req[r].pc = "copy" /\ req[r].err = None
         /\ Source(r) \in Seq(Chunks) /\ Out(r) \in Seq(Chunks)
         /\ buffer[req[r].writer] \in Seq(Chunks)
         /\ req[r].moved \in Nat /\ req[r].moved <= Len(Source(r))
         /\ Out(r) \o buffer[req[r].writer] = SubSeq(Source(r), 1, req[r].moved)
<1>1. req[r].pc = "copy"
  BY DEF At
<1>2. DOMAIN req[r] = DOMAIN NotYet /\ req[r].err = None
  BY <1>1, Parts DEF RequestOK, ErrInv
<1>3. /\ req[r].writer # None /\ req[r].moved <= Len(Source(r))
      /\ Out(r) \o buffer[req[r].writer] = SubSeq(Source(r), 1, req[r].moved)
  BY <1>1, Parts DEF PumpInv
<1> QED BY <1>1, <1>2, <1>3, PumpFacts DEF Moving

LEMMA CopyChunkStep ==
  ASSUME IInv, NEW r \in Requests, CopyChunk(r)
  PROVE  Kept(r) /\ req[r].pc \notin Online /\ req'[r].pc \notin Online
<1> DEFINE m == req[r].moved
           held == Append(buffer[req[r].writer], Source(r)[m + 1])
           now == [req[r] EXCEPT !.moved = @ + 1]
<1>1. At(r, "copy") /\ Unread(r) > 0
  BY DEF CopyChunk
<1>2. PICK n \in 0 .. Len(held) : Deliver(r, now, held, n)
  BY DEF CopyChunk
<1>3. /\ DOMAIN req[r] = DOMAIN NotYet /\ req[r].pc = "copy" /\ req[r].err = None
      /\ Source(r) \in Seq(Chunks) /\ Out(r) \in Seq(Chunks)
      /\ buffer[req[r].writer] \in Seq(Chunks) /\ m \in Nat
      /\ Out(r) \o buffer[req[r].writer] = SubSeq(Source(r), 1, m)
  BY <1>1, Copying
<1>4. m < Len(Source(r)) /\ m + 1 \in Nat /\ m + 1 <= Len(Source(r))
  BY <1>1, <1>3, SMTT(30) DEF Unread
<1>5. held \in Seq(Chunks) /\ Out(r) \o held = SubSeq(Source(r), 1, m + 1)
  <2> DEFINE was == buffer[req[r].writer]
             src == Source(r)
             out == Out(r)
  <2>1. /\ src \in Seq(Chunks) /\ out \in Seq(Chunks) /\ was \in Seq(Chunks) /\ m \in Nat
        /\ out \o was = SubSeq(src, 1, m) /\ m < Len(src)
    BY <1>3, <1>4
  <2> HIDE DEF was, src, out, m
  <2>2. Append(was, src[m + 1]) \in Seq(Chunks) /\ out \o Append(was, src[m + 1]) = SubSeq(src, 1, m + 1)
    BY <2>1, OneMore, SMTT(30)
  <2> QED BY <2>2 DEF was, src, out, m
<1>6. /\ DOMAIN now = DOMAIN NotYet /\ now.kind = req[r].kind /\ now.server = req[r].server
      /\ now.args = req[r].args /\ now.len = req[r].len /\ now.id = req[r].id
      /\ now.handle = req[r].handle /\ now.writer = req[r].writer /\ now.got = req[r].got
      /\ now.answer = req[r].answer /\ now.pc = "copy" /\ now.err = None /\ now.moved = m + 1
  BY <1>3, Fields
<1> HIDE DEF now, held, m
<1> QED BY <1>1, <1>2, <1>4, <1>5, <1>6, DeliverStep

LEMMA FlushStep ==
  ASSUME IInv, NEW r \in Requests, Flush(r)
  PROVE  Kept(r) /\ req[r].pc \notin Online /\ req'[r].pc \notin Online
<1> DEFINE m == req[r].moved
           held == buffer[req[r].writer]
           now == [req[r] EXCEPT !.pc = "close"]
<1>1. At(r, "copy") /\ Unread(r) = 0 /\ Deliver(r, now, held, Len(held))
  BY DEF Flush
<1>2. /\ DOMAIN req[r] = DOMAIN NotYet /\ req[r].pc = "copy" /\ req[r].err = None
      /\ Source(r) \in Seq(Chunks) /\ held \in Seq(Chunks) /\ m \in Nat
      /\ Out(r) \o held = SubSeq(Source(r), 1, m)
  BY <1>1, Copying
<1>3. m = Len(Source(r)) /\ Len(held) \in 0 .. Len(held)
  BY <1>1, <1>2 DEF Unread
<1>4. /\ DOMAIN now = DOMAIN NotYet /\ now.kind = req[r].kind /\ now.server = req[r].server
      /\ now.args = req[r].args /\ now.len = req[r].len /\ now.id = req[r].id
      /\ now.handle = req[r].handle /\ now.writer = req[r].writer /\ now.got = req[r].got
      /\ now.answer = req[r].answer /\ now.pc = "close" /\ now.err = None /\ now.moved = m
  BY <1>2, Fields
<1>5. m <= Len(Source(r))
  BY <1>2, <1>3
<1> HIDE DEF now, held, m
<1> QED BY <1>1, <1>2, <1>3, <1>4, <1>5, DeliverStep

LEMMA MoveFailsStep ==
  ASSUME IInv, NEW r \in Requests, MoveFails(r)
  PROVE  Kept(r) /\ req[r].pc \notin Online /\ req'[r].pc \notin Online
<1> DEFINE m == req[r].moved
           held == buffer[req[r].writer]
           now(e) == [req[r] EXCEPT !.pc = "close", !.err = e]
<1>1. PICK n \in 0 .. Len(held), e \in MoveErrors(r) : Deliver(r, now(e), held, n)
  BY DEF MoveFails
<1>2. At(r, "copy") /\ e \in {"persist", "unread", "gone"} /\ None \notin {"persist", "unread", "gone"}
  BY NoWords DEF MoveFails, MoveErrors, Words
<1>3. /\ DOMAIN req[r] = DOMAIN NotYet /\ Source(r) \in Seq(Chunks) /\ held \in Seq(Chunks)
      /\ m \in Nat /\ m <= Len(Source(r)) /\ Out(r) \o held = SubSeq(Source(r), 1, m)
  BY <1>2, Copying
<1> DEFINE new == now(e)
<1>4. /\ DOMAIN new = DOMAIN NotYet /\ new.kind = req[r].kind /\ new.server = req[r].server
      /\ new.args = req[r].args /\ new.len = req[r].len /\ new.id = req[r].id
      /\ new.handle = req[r].handle /\ new.writer = req[r].writer /\ new.got = req[r].got
      /\ new.answer = req[r].answer /\ new.pc = "close" /\ new.err = e /\ new.moved = m
  BY <1>3, Fields
<1>5. Deliver(r, new, held, n)
  BY <1>1
<1> HIDE DEF new, held, m
<1> QED BY <1>1, <1>2, <1>3, <1>4, <1>5, DeliverStep

LEMMA GetWriterStep ==
  ASSUME IInv, NEW r \in Requests, GetWriter(r)
  PROVE  Kept(r) /\ req[r].pc \notin Online /\ req'[r].pc \notin Online
<1> DEFINE s == req[r].server
           w == Get(pool[s])
<1>1. /\ At(r, "writer") /\ UNCHANGED <<disk, raw, uuids>>
      /\ req' = [req EXCEPT ![r].pc = "copy", ![r].writer = w]
      /\ buffer' = [buffer EXCEPT ![w] = <<>>]
      /\ pool' = [pool EXCEPT ![s] = @ \ {w}]
  BY DEF GetWriter, Taken
<1>2. ~At(r, "idle") /\ ~At(r, "done") /\ ~At(r, "encode") /\ req[r].pc = "writer"
  BY <1>1 DEF At
<1>3. /\ DOMAIN req = Requests /\ DOMAIN req[r] = DOMAIN NotYet /\ r \in Requests \ Saved
      /\ s \in Servers /\ req[r].kind \in Kinds /\ req[r].answer = None
      /\ None \notin {"ok", "not found", "invalid", "invalid id", "invalid url", "bad body"}
  BY <1>2, Working
<1>4. PoolsOK /\ DiskOK
  BY Shared
<1>5. Lent(pool, Writers) /\ DOMAIN pool = Servers /\ DOMAIN Writers = Requests /\ Writers[r] = None
  BY <1>2, <1>4, Parts DEF PoolsOK, Writers, RequestOK
<1>6. /\ w \in pool[s] /\ w \in Objects(s) /\ w \in AllObjects /\ w # None
      /\ \A q \in Requests : Writers[q] # w
  <2>1. \A q \in Saved : Writers[q] = None
    BY <1>2, Working
  <2> QED BY <1>3, <1>5, <2>1, GetOne, ZenonT(60)
<1> HIDE DEF w
<1>7. /\ OnlyOf(r) /\ DOMAIN req'[r] = DOMAIN NotYet
      /\ req'[r].pc = "copy" /\ req'[r].writer = w
      /\ req'[r].kind = req[r].kind /\ req'[r].server = req[r].server /\ req'[r].args = req[r].args
      /\ req'[r].len = req[r].len /\ req'[r].moved = req[r].moved /\ req'[r].id = req[r].id
      /\ req'[r].err = req[r].err /\ req'[r].handle = req[r].handle
      /\ req'[r].got = req[r].got /\ req'[r].answer = req[r].answer
  BY <1>1, <1>3, Fields DEF OnlyOf
<1>8. UNCHANGED <<files, cut, raw, uuids>>
  BY <1>1 DEF disk
<1>9. DataKept(r) /\ DiskOK'
  <2>1. \A q \in Requests : req[q].writer # None => req[q].writer # w /\ req[q].writer \in AllObjects
    BY <1>6, WritersApart DEF Writers
  <2>2. buffer \in [AllObjects -> Seq(Chunks)]
    BY <1>4 DEF PoolsOK
  <2> QED BY <1>1, <1>4, <1>8, <2>1, <2>2 DEF DataKept, DiskOK
<1>10. PoolsOK'
  <2>1. Encoders' = Encoders
    BY <1>2, <1>7 DEF Encoders, OnlyOf, At
  <2>2. Writers' = [Writers EXCEPT ![r] = w]
    BY <1>7 DEF Writers, OnlyOf
  <2>3. Lent([pool EXCEPT ![s] = @ \ {w}], [Writers EXCEPT ![r] = w])
    BY <1>3, <1>5, <1>6, LendOne
  <2>4. Lent(pool, Writers)'
    BY <1>1, <2>2, <2>3 DEF Lent
  <2>5. Lent(uuids, Encoders)'
    BY <1>4, <1>8, <2>1 DEF Lent, PoolsOK
  <2>6. <<>> \in Seq(Chunks)
    OBVIOUS
  <2>7. buffer' \in [AllObjects -> Seq(Chunks)]
    BY <1>1, <1>4, <2>6 DEF PoolsOK
  <2> QED BY <1>1, <1>4, <1>8, <2>4, <2>5, <2>7 DEF PoolsOK
<1>11. /\ Source(r) \in Seq(Chunks)
       /\ Saving(r) => /\ req[r].kind \in Stored /\ req[r].handle = r /\ r \in DOMAIN files
                       /\ req[r].id = r
       /\ ~Saving(r) => /\ req[r].kind = "download" /\ req[r].handle = req[r].args[1]
                        /\ req[r].handle \in Known /\ req[r].handle # r
  BY <1>2, PumpFacts DEF Moving
<1>12. /\ Saving(r)' = Saving(r) /\ Body(r)' = Body(r)
       /\ Source(r)' = Source(r) /\ Out(r)' = Out(r)
  BY <1>7, <1>8 DEF Saving, Body, Source, Out
<1>13. RequestOK(r)'
  BY <1>2, <1>6, <1>7, Parts DEF RequestOK, PCs
<1>14. Known \subseteq Known'
  BY <1>2, <1>7, KnownGrows
<1>15. KindInv(r)'
  BY <1>2, <1>7, <1>14, Parts DEF KindInv, Moving
<1>16. ErrInv(r)'
  BY <1>2, <1>7, Parts DEF ErrInv
<1>17. SaveInv(r)' /\ FetchInv(r)'
  BY <1>2, <1>7, <1>8, <1>12, Parts DEF SaveInv, FetchInv, Moving
<1>18. PumpInv(r)'
  <2>1. Out(r) = <<>> /\ req[r].moved = 0
    BY <1>2, Parts DEF PumpInv
  <2>2. buffer'[w] = <<>>
    BY <1>1, <1>4, <1>6 DEF PoolsOK
  <2>3. SubSeq(Source(r), 1, 0) = <<>> /\ <<>> \o <<>> = <<>> /\ 0 <= Len(Source(r))
    BY <1>11, SubSeqEmpty
  <2> QED BY <1>6, <1>7, <1>12, <2>1, <2>2, <2>3 DEF PumpInv
<1>19. ReadInv(r)'
  BY <1>2, <1>7, <1>8, <1>14, Parts DEF ReadInv, Moving
<1>20. HandsInv(r)'
  BY <1>6, <1>7 DEF HandsInv, Writers, At
<1>21. RequestInv(r)'
  BY <1>15, <1>16, <1>17, <1>18, <1>19, <1>20 DEF RequestInv
<1> QED BY <1>2, <1>7, <1>9, <1>10, <1>13, <1>21 DEF Kept, Online

\* The writer goes back empty, and the file out of r's hands.  What r has saved is
\* what is left of its file.
LEMMA ReleaseStep ==
  ASSUME IInv, NEW r \in Requests, Release(r),
         \/ UNCHANGED disk
         \/ /\ Saving(r) /\ cut' = cut \cup {req[r].handle}
            /\ \E n \in 0 .. Len(files[req[r].handle]) - 1 :
                 files' = [files EXCEPT ![req[r].handle] = SubSeq(@, 1, n)]
  PROVE  Kept(r) /\ req[r].pc \notin Online /\ req'[r].pc \notin Online
<1> DEFINE s == req[r].server
           w == req[r].writer
<1>1. /\ At(r, "close") /\ UNCHANGED <<raw, uuids>>
      /\ req' = [req EXCEPT ![r].pc = "reply", ![r].writer = None, ![r].handle = None]
      /\ w = None => UNCHANGED writers
      /\ w # None => buffer' = [buffer EXCEPT ![w] = <<>>] /\ pool' = [pool EXCEPT ![s] = @ \cup {w}]
  BY DEF Release, Put
<1>2. ~At(r, "idle") /\ ~At(r, "done") /\ ~At(r, "encode") /\ req[r].pc = "close"
  BY <1>1 DEF At
<1>3. /\ DOMAIN req = Requests /\ DOMAIN req[r] = DOMAIN NotYet /\ r \in Requests \ Saved
      /\ s \in Servers /\ req[r].kind \in Kinds /\ req[r].answer = None
      /\ None \notin {"ok", "not found", "invalid", "invalid id", "invalid url", "bad body"}
  BY <1>2, Working
<1>4. PoolsOK /\ DiskOK
  BY Shared
<1>5. /\ Source(r) \in Seq(Chunks)
      /\ Saving(r) => /\ req[r].kind \in Stored /\ req[r].handle = r /\ r \in DOMAIN files
                      /\ req[r].id = r /\ Source(r) = Body(r) /\ Out(r) = files[r]
      /\ ~Saving(r) => /\ req[r].kind = "download" /\ req[r].handle = req[r].args[1]
                       /\ req[r].handle \in Known /\ req[r].handle # r
                       /\ Source(r) = files[req[r].handle] /\ Out(r) = req[r].got
      /\ w # None => w \in AllObjects /\ w \in Objects(s)
  BY <1>2, PumpFacts DEF Moving
<1>6. /\ OnlyOf(r) /\ DOMAIN req'[r] = DOMAIN NotYet
      /\ req'[r].pc = "reply" /\ req'[r].writer = None /\ req'[r].handle = None
      /\ req'[r].kind = req[r].kind /\ req'[r].server = req[r].server /\ req'[r].args = req[r].args
      /\ req'[r].len = req[r].len /\ req'[r].moved = req[r].moved /\ req'[r].id = req[r].id
      /\ req'[r].err = req[r].err /\ req'[r].got = req[r].got /\ req'[r].answer = req[r].answer
  BY <1>1, <1>3, Fields DEF OnlyOf
<1>7. Body(r)' = Body(r) /\ Body(r) \in Seq(Chunks)
  BY <1>6, BodyFacts DEF Body
<1>8. IsPrefix(Out(r), Source(r)) /\ (req[r].err = None => Out(r) = Source(r))
  BY <1>2, Parts DEF PumpInv
<1>9. /\ DOMAIN files' = DOMAIN files /\ cut \subseteq cut'
      /\ \A i \in DOMAIN files : i # r => files'[i] = files[i]
      /\ \A i \in cut' : i \in cut \/ (i = r /\ Saving(r))
      /\ ~Saving(r) => UNCHANGED <<files, cut>>
      /\ Saving(r) => /\ files'[r] \in Seq(Chunks) /\ IsPrefix(files'[r], Body(r))
                      /\ r \in cut' \/ files'[r] = files[r]
  <2>1. CASE UNCHANGED disk
    BY <1>4, <1>5, <1>8, <2>1 DEF disk, DiskOK
  <2>2. CASE ~UNCHANGED disk
    <3>1. /\ Saving(r) /\ cut' = cut \cup {r} /\ r \in DOMAIN files /\ files[r] \in Seq(Chunks)
      BY <1>4, <1>5, <2>2 DEF DiskOK
    <3>2. PICK n \in 0 .. Len(files[r]) - 1 : files' = [files EXCEPT ![r] = SubSeq(@, 1, n)]
      BY <1>5, <2>2, <3>1
    <3>3. n \in 0 .. Len(files[r])
      BY <3>1, <3>2
    <3>4. SubSeq(files[r], 1, n) \in Seq(Chunks) /\ IsPrefix(SubSeq(files[r], 1, n), Body(r))
      BY <1>5, <1>7, <1>8, <3>1, <3>3, CutPrefix
    <3> QED BY <3>1, <3>2, <3>4
  <2> QED BY <2>1, <2>2
<1>10. DiskOK'
  <2>1. \A i \in DOMAIN files' : files'[i] \in Seq(Chunks)
    BY <1>4, <1>9 DEF DiskOK
  <2> QED BY <1>4, <1>5, <1>9, <2>1 DEF DiskOK
<1>11. DataKept(r)
  <2>1. \A q \in Requests \ {r} : req[q].writer # None => buffer'[req[q].writer] = buffer[req[q].writer]
    <3>1. \A q \in Requests \ {r} : req[q].writer # None =>
            req[q].writer # w /\ req[q].writer \in AllObjects
      BY WritersApart
    <3>2. buffer \in [AllObjects -> Seq(Chunks)]
      BY <1>4 DEF PoolsOK
    <3> QED BY <1>1, <3>1, <3>2 DEF writers
  <2> QED BY <1>1, <1>9, <2>1 DEF DataKept
<1>12. PoolsOK'
  <2>1. Encoders' = Encoders
    BY <1>2, <1>6 DEF Encoders, OnlyOf, At
  <2>2. Lent(uuids, Encoders)'
    BY <1>1, <1>4, <2>1 DEF Lent, PoolsOK
  <2>3. Writers' = [Writers EXCEPT ![r] = None] /\ Writers[r] = w /\ DOMAIN Writers = Requests
    BY <1>6 DEF Writers, OnlyOf
  <2>4. CASE w = None
    <3>1. Writers' = Writers /\ UNCHANGED <<buffer, pool>>
      BY <1>1, <1>6, <2>4 DEF Writers, OnlyOf, writers
    <3> QED BY <1>1, <1>4, <2>2, <3>1 DEF PoolsOK, Lent
  <2>5. CASE w # None
    <3>1. Lent([pool EXCEPT ![s] = @ \cup {Writers[r]}], [Writers EXCEPT ![r] = None])
      <4>1. Lent(pool, Writers) /\ DOMAIN pool = Servers
        BY <1>4 DEF PoolsOK
      <4>2. Writers[r] \in Objects(s)
        BY <1>5, <2>3, <2>5
      <4> QED BY <1>3, <2>3, <4>1, <4>2, TakeBack
    <3>2. Lent(pool, Writers)'
      <4>1. pool' = [pool EXCEPT ![s] = @ \cup {Writers[r]}]
        BY <1>1, <2>3, <2>5
      <4>2. Lent(pool', Writers')
        BY <2>3, <3>1, <4>1
      <4> QED BY <4>2 DEF Lent
    <3>3. <<>> \in Seq(Chunks)
      OBVIOUS
    <3>4. buffer' \in [AllObjects -> Seq(Chunks)]
      BY <1>1, <1>4, <2>5, <3>3 DEF PoolsOK
    <3> QED BY <1>1, <1>4, <2>2, <2>5, <3>2, <3>4 DEF PoolsOK
  <2> QED BY <2>4, <2>5
<1>13. RequestOK(r)'
  BY <1>2, <1>6, Parts DEF RequestOK, PCs
<1>14. Known \subseteq Known'
  BY <1>2, <1>6, KnownGrows
<1>15. KindInv(r)'
  BY <1>2, <1>6, <1>14, Parts DEF KindInv, Moving
<1>16. ErrInv(r)'
  BY <1>2, <1>3, <1>6, Parts DEF ErrInv
<1>17. SaveInv(r)'
  <2>1. r \in DOMAIN files => IsPrefix(files[r], Body(r))
    BY Parts DEF SaveInv
  <2>2. r \in DOMAIN files' => IsPrefix(files'[r], Body(r))
    BY <1>9, <2>1
  <2> QED BY <1>5, <1>6, <1>7, <1>8, <1>9, <2>2 DEF SaveInv, Moving, Stored, Saving
<1>18. PumpInv(r)' /\ HandsInv(r)'
  BY <1>6 DEF PumpInv, HandsInv, Writers, At
<1>19. ReadInv(r)'
  BY <1>5, <1>6, <1>8, <1>9, <1>14 DEF ReadInv, Saving, Moving, Stored
<1>20. FetchInv(r)'
  BY <1>2, <1>6, <1>7, Parts DEF FetchInv, Moving
<1>21. RequestInv(r)'
  BY <1>15, <1>16, <1>17, <1>18, <1>19, <1>20 DEF RequestInv
<1> QED BY <1>2, <1>6, <1>10, <1>11, <1>12, <1>13, <1>21 DEF Kept, Online

LEMMA CloseStep ==
  ASSUME IInv, NEW r \in Requests, Close(r) \/ CloseLoses(r)
  PROVE  Kept(r) /\ req[r].pc \notin Online /\ req'[r].pc \notin Online
BY ReleaseStep DEF Close, CloseLoses

-----------------------------------------------------------------------------
(* GetSavedFile, Download and CompareFiles *)

\* A file that is opened is one whose id was told.
LEMMA TargetFacts ==
  ASSUME IInv, NEW r \in Requests, req[r].pc \in {"open", "read"}
  PROVE  /\ req[r].kind \in {"download", "compare"} /\ r \notin Known
         /\ req[r].kind = "download" => Target(r) = req[r].args[1] /\ req[r].got = <<>>
         /\ Target(r) \in Range(req[r].args)
         /\ Target(r) \in Known \cup {Unknown, Malformed}
         /\ Target(r) \in DOMAIN files <=> Target(r) \in Known
         /\ Target(r) \in Known => files[Target(r)] \in Seq(Chunks)
<1> DEFINE i == IF req[r].kind = "compare" THEN Len(req[r].got) + 1 ELSE 1
<1>1. req[r].kind \in {"download", "compare"} /\ req[r].pc # "done"
  BY Parts DEF KindInv
<1>2. req[r].kind = "download" => req[r].got = <<>>
  BY <1>1, Parts DEF ReadInv, KindInv
<1>3. req[r].kind = "compare" => Len(req[r].got) + 1 = 1 \/ Len(req[r].got) + 1 = 2
  <2>1. req[r].kind = "compare" => req[r].got = <<>> \/ \E x : req[r].got = <<x>>
    BY Parts DEF ReadInv
  <2>2. Len(<<>>) + 1 = 1 /\ \A x : Len(<<x>>) + 1 = 2
    OBVIOUS
  <2> QED BY <2>1, <2>2, Zenon
<1>4. /\ req[r].args \in Seq(Ids)
      /\ req[r].kind = "download" => Len(req[r].args) = 1
      /\ req[r].kind = "compare" => Len(req[r].args) = 2
      /\ \A j \in DOMAIN req[r].args : req[r].args[j] \in Known \cup {Unknown, Malformed}
  BY Parts DEF RequestOK, KindInv
<1>5. i \in DOMAIN req[r].args
  <2>1. DOMAIN req[r].args = 1 .. Len(req[r].args)
    BY <1>4
  <2>2. CASE req[r].kind = "download"
    <3>1. i = 1 /\ Len(req[r].args) = 1
      BY <1>4, <2>2
    <3> QED BY <2>1, <3>1
  <2>3. CASE req[r].kind = "compare"
    <3>1. i = Len(req[r].got) + 1 /\ Len(req[r].args) = 2
      BY <1>4, <2>3
    <3>2. i = 1 \/ i = 2
      BY <1>3, <2>3, <3>1, Zenon
    <3> QED BY <2>1, <3>1, <3>2
  <2> QED BY <1>1, <2>2, <2>3
<1>6. Target(r) = req[r].args[i] /\ (req[r].kind = "download" => i = 1)
  BY <1>1 DEF Target
<1>7. \A k \in Known : k \in DOMAIN files /\ req[k].pc = "done"
  BY KnownFacts DEF At
<1>8. DOMAIN files \subseteq Requests /\ \A k \in DOMAIN files : files[k] \in Seq(Chunks)
  BY Shared DEF DiskOK
<1>9. Unknown \notin Requests /\ Malformed \notin Requests
  BY Constants
<1> HIDE DEF i
<1> QED BY <1>1, <1>2, <1>4, <1>5, <1>6, <1>7, <1>8, <1>9 DEF Range

LEMMA OpenRefusedStep ==
  ASSUME IInv, NEW r \in Requests, OpenRefused(r) \/ OpenFails(r)
  PROVE  Kept(r) /\ req[r].pc \notin Online /\ req'[r].pc \notin Online
<1>1. req[r].pc = "open" /\ UNCHANGED <<disk, pools>>
  BY DEF OpenRefused, OpenFails, At
<1>2. PICK e \in {"invalid id", "not found", "open"} :
        /\ Fail(r, e)
        /\ e = "invalid id" => Target(r) = Malformed
        /\ e = "not found" => Target(r) # Malformed /\ Target(r) \notin DOMAIN files
  BY DEF OpenRefused, OpenFails
<1>3. Target(r) \in Range(req[r].args) /\ (e = "not found" => Target(r) = Unknown)
  BY <1>1, <1>2, TargetFacts
<1>4. e \in Words /\ e \notin {"unread", "invalid url", "bad body"}
  BY DEF Words
<1>5. Kept(r) /\ req'[r].pc = "reply"
  BY <1>1, <1>2, <1>3, <1>4, FailStep
<1> QED BY <1>1, <1>5 DEF Online

LEMMA OpenStep ==
  ASSUME IInv, NEW r \in Requests, Open(r)
  PROVE  Kept(r) /\ req[r].pc \notin Online /\ req'[r].pc \notin Online
<1> DEFINE i == Target(r)
<1>1. /\ At(r, "open") /\ i \in DOMAIN files /\ UNCHANGED <<disk, pools>>
      /\ req' = [req EXCEPT ![r].pc = Then(r), ![r].handle = i]
  BY DEF Open
<1>2. ~At(r, "idle") /\ ~At(r, "done") /\ ~At(r, "encode") /\ req[r].pc = "open"
  BY <1>1 DEF At
<1>3. /\ DOMAIN req = Requests /\ DOMAIN req[r] = DOMAIN NotYet /\ r \in Requests \ Saved
      /\ req[r].server \in Servers /\ req[r].kind \in Kinds /\ req[r].answer = None
  BY <1>2, Working
<1>4. /\ req[r].kind \in {"download", "compare"} /\ i \in Known /\ files[i] \in Seq(Chunks)
      /\ req[r].kind = "download" => i = req[r].args[1] /\ req[r].got = <<>>
  BY <1>1, <1>2, TargetFacts
<1>5. Then(r) \in {"read", "writer", "send"} /\ (Then(r) = "read" <=> req[r].kind = "compare")
  BY DEF Then
<1>6. /\ OnlyOf(r) /\ DOMAIN req'[r] = DOMAIN NotYet
      /\ req'[r].pc = Then(r) /\ req'[r].handle = i
      /\ req'[r].kind = req[r].kind /\ req'[r].server = req[r].server /\ req'[r].args = req[r].args
      /\ req'[r].len = req[r].len /\ req'[r].moved = req[r].moved /\ req'[r].id = req[r].id
      /\ req'[r].err = req[r].err /\ req'[r].writer = req[r].writer
      /\ req'[r].got = req[r].got /\ req'[r].answer = req[r].answer
  BY <1>1, <1>3, Fields DEF OnlyOf
<1>7. Target(r)' = i
  BY <1>6 DEF Target
<1> HIDE DEF i
<1>8. i # None /\ Known \subseteq Known' /\ UNCHANGED files
  <2>1. i \in Requests
    BY <1>4, KnownFacts
  <2> QED BY <1>1, <1>2, <1>6, <2>1, Constants, KnownGrows DEF disk
<1>9. RequestOK(r)'
  BY <1>2, <1>5, <1>6, <1>8, Parts DEF RequestOK, PCs
<1>10. KindInv(r)'
  BY <1>2, <1>4, <1>5, <1>6, <1>8, Parts DEF KindInv, Moving
<1>11. ErrInv(r)'
  BY <1>2, <1>5, <1>6, Parts DEF ErrInv
<1>12. SaveInv(r)'
  <2>1. Body(r)' = Body(r)
    BY <1>6 DEF Body
  <2>2. r \in DOMAIN files => IsPrefix(files[r], Body(r))
    BY Parts DEF SaveInv
  <2> QED BY <1>4, <1>5, <1>6, <1>8, <2>1, <2>2 DEF SaveInv, Stored
<1>13. PumpInv(r)'
  <2>1. req[r].moved = 0
    BY <1>2, Parts DEF PumpInv
  <2>2. req[r].kind = "download" => Source(r)' = files[i] /\ Out(r)' = <<>>
    BY <1>4, <1>6, <1>8 DEF Source, Out, Saving
  <2>3. SubSeq(files[i], 1, 0) = <<>> /\ 0 <= Len(files[i])
    BY <1>4, SubSeqEmpty
  <2> QED BY <1>4, <1>5, <1>6, <2>1, <2>2, <2>3 DEF PumpInv
<1>14. ReadInv(r)'
  <2>1. <<>> \in Seq(Chunks)
    OBVIOUS
  <2>2. req[r].kind = "compare" => req[r].got = <<>> \/ (req[r].args[1] \in Known /\ req[r].got = <<files[req[r].args[1]]>>)
    BY <1>2, Parts DEF ReadInv
  <2>3. req'[r].kind = "compare" => req'[r].got = <<>> \/ (req'[r].args[1] \in Known' /\ req'[r].got = <<files'[req'[r].args[1]]>>)
    BY <1>6, <1>8, <2>2
  <2> QED BY <1>4, <1>5, <1>6, <1>7, <1>8, <2>1, <2>3 DEF ReadInv, Moving
<1>15. FetchInv(r)' /\ HandsInv(r)'
  <2>1. req[r].writer = None
    BY <1>2, Parts DEF RequestOK
  <2> QED BY <1>4, <1>5, <1>6, <2>1 DEF FetchInv, HandsInv, Writers, At
<1>16. RequestInv(r)'
  BY <1>10, <1>11, <1>12, <1>13, <1>14, <1>15 DEF RequestInv
<1>17. ~At(r, "encode")'
  BY <1>5, <1>6 DEF At
<1> QED BY <1>1, <1>2, <1>5, <1>6, <1>9, <1>16, <1>17, PlainStep DEF Online

\* The gRPC Download: chunks go out as they are read.
LEMMA SendStep ==
  ASSUME IInv, NEW r \in Requests, SendChunk(r) \/ SendEnd(r) \/ SendFails(r)
  PROVE  Kept(r) /\ req[r].pc \notin Online /\ req'[r].pc \notin Online
<1> DEFINE i == req[r].args[1]
           m == req[r].moved
<1>1. req[r].pc = "send" /\ UNCHANGED <<disk, pools>>
  BY DEF SendChunk, SendEnd, SendFails, At
<1>2. ~At(r, "idle") /\ ~At(r, "done") /\ ~At(r, "encode") /\ UNCHANGED files
  BY <1>1 DEF At, disk
<1>3. /\ DOMAIN req = Requests /\ DOMAIN req[r] = DOMAIN NotYet /\ r \in Requests \ Saved
      /\ req[r].server \in Servers /\ req[r].kind \in Kinds /\ req[r].answer = None
  BY <1>2, Working
<1>4. req[r].kind = "download" /\ req[r].err = None /\ req[r].writer = None
  BY <1>1, Parts DEF KindInv, ErrInv, RequestOK
<1>5. /\ req[r].handle = i /\ i \in Known /\ req[r].got \in Seq(Chunks)
      /\ Source(r) = files[i] /\ files[i] \in Seq(Chunks) /\ m \in Nat
  BY <1>1, <1>4, PumpFacts, Parts DEF Saving, ReadInv
<1>6. m <= Len(files[i]) /\ req[r].got = SubSeq(files[i], 1, m)
  BY <1>1, <1>5, Parts DEF PumpInv
<1>7. Unread(r) = Len(files[i]) - m
  BY <1>5 DEF Unread
<1>8. \E l, e, k, g :
        /\ req' = [req EXCEPT ![r].pc = l, ![r].err = e, ![r].moved = k, ![r].got = g]
        /\ g \in Seq(Chunks) /\ k \in Nat /\ k <= Len(files[i]) /\ g = SubSeq(files[i], 1, k)
        /\ \/ l = "send" /\ e = None
           \/ l = "close" /\ e = None /\ k = Len(files[i])
           \/ l = "close" /\ e \in {"unread", "gone"}
  <2> HIDE DEF i, m
  <2>1. /\ DOMAIN req = Requests /\ DOMAIN req[r] = DOMAIN NotYet /\ req[r].pc = "send"
        /\ req[r].err = None /\ req[r].moved = m
    BY <1>1, <1>3, <1>4 DEF m
  <2>2. CASE SendChunk(r)
    <3> DEFINE x == files[i][m + 1]
               g == Append(req[r].got, x)
    <3>1. req' = [req EXCEPT ![r].moved = @ + 1, ![r].got = Append(@, x)] /\ m < Len(files[i])
      BY <1>5, <1>6, <1>7, <2>2 DEF SendChunk, m
    <3>2. req' = [req EXCEPT ![r].pc = "send", ![r].err = None, ![r].moved = m + 1, ![r].got = g]
      BY <2>1, <3>1, Fields
    <3>3. g \in Seq(Chunks) /\ g = SubSeq(files[i], 1, m + 1)
      <4> DEFINE out == req[r].got
                 src == files[i]
      <4>1. /\ out \in Seq(Chunks) /\ src \in Seq(Chunks) /\ m \in Nat /\ m < Len(src)
            /\ out = SubSeq(src, 1, m)
        BY <1>5, <1>6, <3>1
      <4> HIDE DEF out, src
      <4>2. <<>> \in Seq(Chunks) /\ <<>> \o out = out
        BY <4>1
      <4>3. /\ Append(out, src[m + 1]) \in Seq(Chunks) /\ src[m + 1] \in Chunks
            /\ <<>> \o Append(out, src[m + 1]) = SubSeq(src, 1, m + 1)
        BY <4>1, <4>2, OneMore
      <4>4. <<>> \o Append(out, src[m + 1]) = Append(out, src[m + 1])
        BY <4>3
      <4> QED BY <4>3, <4>4 DEF out, src
    <3>4. m + 1 \in Nat /\ m + 1 <= Len(files[i])
      BY <1>5, <3>1
    <3> HIDE DEF g
    <3> QED BY <3>2, <3>3, <3>4
  <2>3. CASE SendEnd(r)
    <3>1. req' = [req EXCEPT ![r].pc = "close"] /\ m = Len(files[i])
      BY <1>5, <1>6, <1>7, <2>3 DEF SendEnd, Goto
    <3>2. req' = [req EXCEPT ![r].pc = "close", ![r].err = None, ![r].moved = m, ![r].got = req[r].got]
      BY <2>1, <3>1, Fields
    <3> QED BY <1>5, <1>6, <3>1, <3>2
  <2>4. CASE SendFails(r)
    <3>1. PICK e \in {"unread", "gone"} : req' = [req EXCEPT ![r].pc = "close", ![r].err = e]
      BY <2>4 DEF SendFails
    <3>2. req' = [req EXCEPT ![r].pc = "close", ![r].err = e, ![r].moved = m, ![r].got = req[r].got]
      BY <2>1, <3>1, Fields
    <3> QED BY <1>5, <1>6, <3>1, <3>2
  <2> QED BY <2>2, <2>3, <2>4
<1>9. PICK l, e, k, g :
        /\ req' = [req EXCEPT ![r].pc = l, ![r].err = e, ![r].moved = k, ![r].got = g]
        /\ g \in Seq(Chunks) /\ k \in Nat /\ k <= Len(files[i]) /\ g = SubSeq(files[i], 1, k)
        /\ \/ l = "send" /\ e = None
           \/ l = "close" /\ e = None /\ k = Len(files[i])
           \/ l = "close" /\ e \in {"unread", "gone"}
  BY <1>8
<1>10. /\ OnlyOf(r) /\ DOMAIN req'[r] = DOMAIN NotYet
       /\ req'[r].pc = l /\ req'[r].err = e /\ req'[r].moved = k /\ req'[r].got = g
       /\ req'[r].kind = req[r].kind /\ req'[r].server = req[r].server /\ req'[r].args = req[r].args
       /\ req'[r].len = req[r].len /\ req'[r].id = req[r].id /\ req'[r].handle = req[r].handle
       /\ req'[r].writer = req[r].writer /\ req'[r].answer = req[r].answer
  BY <1>3, <1>9, Fields DEF OnlyOf
<1>11. Source(r)' = files[i] /\ Out(r)' = g /\ Body(r)' = Body(r)
  BY <1>2, <1>4, <1>5, <1>10 DEF Source, Out, Body, Saving
<1> HIDE DEF i
<1>12. l \in {"send", "close"} /\ Known \subseteq Known'
  BY <1>2, <1>9, <1>10, KnownGrows
<1>13. RequestOK(r)'
  BY <1>1, <1>4, <1>9, <1>10, <1>12, Parts DEF RequestOK, PCs
<1>14. KindInv(r)'
  BY <1>1, <1>10, <1>12, Parts DEF KindInv, Moving
<1>15. ErrInv(r)'
  <2>1. None \notin {"ok", "not found", "invalid", "invalid id", "invalid url", "bad body"}
    BY NoWords DEF Words
  <2> QED BY <1>3, <1>9, <1>10, <2>1 DEF ErrInv
<1>16. SaveInv(r)' /\ FetchInv(r)' /\ HandsInv(r)'
  <2>1. r \in DOMAIN files => IsPrefix(files[r], Body(r))
    BY Parts DEF SaveInv
  <2> QED BY <1>2, <1>4, <1>10, <1>11, <1>12, <2>1
      DEF SaveInv, FetchInv, HandsInv, Writers, At, Stored
<1>17. PumpInv(r)'
  <2>1. l = "close" => IsPrefix(g, files[i])
    <3>1. <<>> \in Seq(Chunks) /\ g \o <<>> = g
      BY <1>9
    <3> QED BY <1>5, <1>9, <3>1, Beginning
  <2>2. k = Len(files[i]) => g = files[i]
    BY <1>5, <1>9, SubSeqFull
  <2>3. None \notin {"unread", "gone"}
    BY NoWords DEF Words
  <2> QED BY <1>9, <1>10, <1>11, <1>12, <2>1, <2>2, <2>3 DEF PumpInv
<1>18. ReadInv(r)'
  BY <1>4, <1>5, <1>9, <1>10, <1>12 DEF ReadInv, Moving, i
<1>19. RequestInv(r)'
  BY <1>14, <1>15, <1>16, <1>17, <1>18 DEF RequestInv
<1>20. ~At(r, "encode")'
  BY <1>10, <1>12 DEF At
<1> QED BY <1>1, <1>2, <1>10, <1>12, <1>13, <1>19, <1>20, PlainStep DEF Online

\* CompareFiles reads one whole file after the other.
LEMMA ReadLinesStep ==
  ASSUME IInv, NEW r \in Requests, ReadLeft(r) \/ ReadRight(r) \/ ReadFails(r)
  PROVE  Kept(r) /\ req[r].pc \notin Online /\ req'[r].pc \notin Online
<1> DEFINE a == req[r].args[1]
           b == req[r].args[2]
<1>1. req[r].pc = "read" /\ UNCHANGED <<disk, pools>>
  BY DEF ReadLeft, ReadRight, ReadFails, At
<1>2. ~At(r, "idle") /\ ~At(r, "done") /\ ~At(r, "encode") /\ UNCHANGED files
  BY <1>1 DEF At, disk
<1>3. /\ DOMAIN req = Requests /\ DOMAIN req[r] = DOMAIN NotYet /\ r \in Requests \ Saved
      /\ req[r].server \in Servers /\ req[r].kind \in Kinds /\ req[r].answer = None
  BY <1>2, Working
<1>4. req[r].kind = "compare" /\ req[r].err = None /\ req[r].writer = None /\ req[r].moved = 0
  BY <1>1, Parts DEF KindInv, ErrInv, RequestOK, PumpInv
<1>5. /\ req[r].handle = Target(r) /\ req[r].handle \in Known
      /\ req[r].got = <<>> \/ (a \in Known /\ req[r].got = <<files[a]>>)
  BY <1>1, <1>4, Parts DEF ReadInv
<1>6. /\ req[r].got = <<>> => req[r].handle = a
      /\ req[r].got # <<>> => req[r].handle = b
  <2>1. Target(r) = req[r].args[Len(req[r].got) + 1]
    BY <1>4 DEF Target
  <2>2. Len(<<>>) + 1 = 1 /\ \A x : Len(<<x>>) + 1 = 2
    OBVIOUS
  <2>3. req[r].got = <<>> => Target(r) = a
    BY <2>1, <2>2, Zenon
  <2>4. req[r].got = <<files[a]>> => Target(r) = b
    BY <2>1, <2>2, Zenon
  <2> QED BY <1>5, <2>3, <2>4
<1>7. \E l, e, g :
        /\ req' = [req EXCEPT ![r].pc = l, ![r].err = e, ![r].got = g, ![r].handle = None]
        /\ \/ l = "open" /\ e = None /\ a \in Known /\ g = <<files[a]>>
           \/ l = "reply" /\ e = None /\ a \in Known /\ b \in Known /\ g = <<files[a], files[b]>>
           \/ l = "reply" /\ e \in {"too large", "unread"}
  <2> HIDE DEF a, b
  <2>1. CASE ReadLeft(r)
    <3>1. /\ req[r].got = <<>>
          /\ req' = [req EXCEPT ![r].pc = "open", ![r].got = <<files[req[r].handle]>>, ![r].handle = None]
      BY <2>1 DEF ReadLeft
    <3>2. req' = [req EXCEPT ![r].pc = "open", ![r].err = None, ![r].got = <<files[a]>>, ![r].handle = None]
      BY <1>3, <1>4, <1>6, <3>1, Fields
    <3> QED BY <1>5, <1>6, <3>1, <3>2
  <2>2. CASE ReadRight(r)
    <3>1. PICK e \in {None, "too large"} :
            req' = [req EXCEPT ![r].pc = "reply", ![r].got = Append(@, files[req[r].handle]),
                               ![r].handle = None, ![r].err = e]
      BY <2>2 DEF ReadRight
    <3>2. req[r].got # <<>> /\ req[r].got = <<files[a]>> /\ req[r].handle = b /\ a \in Known /\ b \in Known
      BY <1>5, <1>6, <2>2 DEF ReadRight
    <3>3. Append(<<files[a]>>, files[b]) = <<files[a], files[b]>>
      BY AppendTwo
    <3>4. Append(req[r].got, files[req[r].handle]) = <<files[a], files[b]>>
      BY <3>2, <3>3
    <3> DEFINE g == <<files[a], files[b]>>
    <3> HIDE DEF g
    <3>5. Append(req[r].got, files[req[r].handle]) = g
      BY <3>4 DEF g
    <3>6. req' = [req EXCEPT ![r].pc = "reply", ![r].err = e, ![r].got = g, ![r].handle = None]
      BY <1>3, <3>1, <3>5, Fields
    <3> QED BY <3>1, <3>2, <3>6 DEF g
  <2>3. CASE ReadFails(r)
    <3>1. req' = [req EXCEPT ![r].pc = "reply", ![r].err = "unread", ![r].handle = None]
      BY <2>3 DEF ReadFails
    <3>2. req' = [req EXCEPT ![r].pc = "reply", ![r].err = "unread", ![r].got = req[r].got, ![r].handle = None]
      BY <1>3, <3>1, Fields
    <3> QED BY <3>2
  <2> QED BY <2>1, <2>2, <2>3
<1>8. PICK l, e, g :
        /\ req' = [req EXCEPT ![r].pc = l, ![r].err = e, ![r].got = g, ![r].handle = None]
        /\ \/ l = "open" /\ e = None /\ a \in Known /\ g = <<files[a]>>
           \/ l = "reply" /\ e = None /\ a \in Known /\ b \in Known /\ g = <<files[a], files[b]>>
           \/ l = "reply" /\ e \in {"too large", "unread"}
  BY <1>7
<1>9. /\ OnlyOf(r) /\ DOMAIN req'[r] = DOMAIN NotYet
      /\ req'[r].pc = l /\ req'[r].err = e /\ req'[r].got = g /\ req'[r].handle = None
      /\ req'[r].kind = req[r].kind /\ req'[r].server = req[r].server /\ req'[r].args = req[r].args
      /\ req'[r].len = req[r].len /\ req'[r].id = req[r].id /\ req'[r].moved = req[r].moved
      /\ req'[r].writer = req[r].writer /\ req'[r].answer = req[r].answer
  BY <1>3, <1>8, Fields DEF OnlyOf
<1>10. l \in {"open", "reply"} /\ Known \subseteq Known'
  BY <1>2, <1>8, <1>9, KnownGrows
<1>11. None \notin {"ok", "not found", "invalid", "invalid id", "invalid url", "bad body", "too large", "unread"}
  BY NoWords DEF Words
<1>12. RequestOK(r)'
  BY <1>1, <1>4, <1>9, <1>10, Parts DEF RequestOK, PCs
<1>13. KindInv(r)'
  BY <1>1, <1>4, <1>9, <1>10, Parts DEF KindInv, Moving
<1>14. ErrInv(r)'
  <2>1. e \in {None, "too large", "unread"} /\ (l = "open" => e = None)
    BY <1>8
  <2> QED BY <1>3, <1>9, <1>10, <1>11, <2>1 DEF ErrInv
<1>15. SaveInv(r)' /\ FetchInv(r)' /\ HandsInv(r)' /\ PumpInv(r)'
  <2>1. (r \in DOMAIN files => IsPrefix(files[r], Body(r))) /\ Body(r)' = Body(r)
    BY <1>9, Parts DEF SaveInv, Body
  <2> QED BY <1>2, <1>4, <1>9, <1>10, <2>1
      DEF SaveInv, FetchInv, HandsInv, PumpInv, Writers, At, Stored
<1>16. ReadInv(r)'
  <2>1. CASE l = "open"
    <3>1. a \in Known' /\ g = <<files'[a]>>
      BY <1>2, <1>8, <1>10, <2>1
    <3> QED BY <1>4, <1>9, <2>1, <3>1 DEF ReadInv
  <2>2. CASE l = "reply"
    <3>1. e = None => a \in Known' /\ b \in Known' /\ g = <<files'[a], files'[b]>>
      BY <1>2, <1>8, <1>10, <1>11, <2>2
    <3> QED BY <1>4, <1>9, <2>2, <3>1 DEF ReadInv
  <2> QED BY <1>10, <2>1, <2>2
<1>17. RequestInv(r)'
  BY <1>13, <1>14, <1>15, <1>16 DEF RequestInv
<1>18. ~At(r, "encode")'
  BY <1>9, <1>10 DEF At
<1> QED BY <1>1, <1>2, <1>9, <1>10, <1>12, <1>17, <1>18, PlainStep DEF Online

-----------------------------------------------------------------------------
(* Replies, and what is left of a request that was not answered *)

LEMMA LostRequest ==
  ASSUME IInv, NEW r \in Requests, req[r].pc # "idle", req'[r] = Ended(r, "lost"),
         r \in DOMAIN files' <=> r \in DOMAIN files, files'[r] = files[r]
  PROVE  /\ RequestOK(r)' /\ RequestInv(r)' /\ Writers'[r] = None /\ Encoders'[r] = None
         /\ req'[r].pc = "done"
<1>1. req'[r] = [NotYet EXCEPT !.pc = "done", !.len = req[r].len, !.answer = "lost"]
  BY DEF Ended
<1>2. /\ DOMAIN req'[r] = DOMAIN NotYet /\ req'[r].pc = "done" /\ req'[r].kind = None
      /\ req'[r].server = None /\ req'[r].args = <<>> /\ req'[r].len = req[r].len
      /\ req'[r].moved = 0 /\ req'[r].err = None /\ req'[r].id = None /\ req'[r].handle = None
      /\ req'[r].writer = None /\ req'[r].got = <<>> /\ req'[r].answer = "lost"
  BY <1>1 DEF NotYet
<1>3. None \notin {"upload", "fetch", "download", "compare", "ok", "not found", "invalid",
                   "invalid id", "invalid url", "bad body"}
  BY NoWords DEF Words
<1>4. Body(r)' = Body(r) /\ <<>> \in Seq(Ids) /\ DOMAIN <<>> = {}
  BY <1>2 DEF Body
<1>5. RequestOK(r)'
  <2>1. req[r].len \in Lengths \cup {0}
    BY Parts DEF RequestOK
  <2>2. req'[r].len \in Lengths \cup {0}
    BY <1>2, <2>1
  <2>3. req'[r].args \in Seq(Ids)
    BY <1>2, <1>4, Zenon
  <2>4. req'[r].moved \in Nat
    BY <1>2
  <2> QED BY <1>2, <2>2, <2>3, <2>4 DEF RequestOK, PCs
<1>6. KindInv(r)'
  BY <1>2, <1>3, <1>4 DEF KindInv, Moving
<1>7. ErrInv(r)'
  BY <1>2, <1>3 DEF ErrInv
<1>8. SaveInv(r)'
  <2>1. r \in DOMAIN files => IsPrefix(files[r], Body(r))
    BY Parts DEF SaveInv
  <2> QED BY <1>2, <1>3, <1>4, <2>1 DEF SaveInv, Stored
<1>9. PumpInv(r)' /\ ReadInv(r)' /\ FetchInv(r)' /\ HandsInv(r)'
  BY <1>2, <1>3 DEF PumpInv, ReadInv, FetchInv, HandsInv, Writers, At
<1>10. RequestInv(r)'
  BY <1>6, <1>7, <1>8, <1>9 DEF RequestInv
<1>11. Writers'[r] = None /\ Encoders'[r] = None
  BY <1>2 DEF Writers, Encoders, At
<1> QED BY <1>2, <1>5, <1>10, <1>11

LEMMA ReplyStep ==
  ASSUME IInv, NEW r \in Requests, Reply(r) \/ ReplyLost(r)
  PROVE  Kept(r) /\ req[r].pc \notin Online /\ req'[r].pc \notin Online
<1>1. req[r].pc = "reply" /\ UNCHANGED <<disk, pools>>
  BY DEF Reply, ReplyLost, Answer, At
<1>2. ~At(r, "idle") /\ ~At(r, "done") /\ ~At(r, "encode") /\ UNCHANGED <<files, cut>>
  BY <1>1 DEF At, disk
<1>3. /\ DOMAIN req = Requests /\ DOMAIN req[r] = DOMAIN NotYet /\ r \in Requests \ Saved
      /\ req[r].server \in Servers /\ req[r].kind \in Kinds /\ req[r].answer = None
  BY <1>2, Working
<1>4. PICK a \in {"lost", Status(r)} : req' = [req EXCEPT ![r] = Ended(r, a)]
  BY DEF Reply, ReplyLost, Answer
<1>5. OnlyOf(r) /\ req'[r] = Ended(r, a)
  BY <1>3, <1>4 DEF OnlyOf
<1>6. req[r].writer = None /\ req[r].handle = None
  BY <1>1, Parts DEF RequestOK
<1>7. CASE a = "lost"
  <2>1. RequestOK(r)' /\ RequestInv(r)' /\ Writers'[r] = None /\ req'[r].pc = "done"
    BY <1>1, <1>2, <1>5, <1>7, LostRequest
  <2>2. req'[r].writer = None /\ ~At(r, "encode")'
    BY <2>1 DEF Writers, At
  <2> QED BY <1>1, <1>2, <1>5, <1>6, <2>1, <2>2, PlainStep DEF Online
<1>8. CASE a # "lost"
  <2> DEFINE e == req[r].err
             g == IF a = "ok" THEN req[r].got ELSE <<>>
  <2>1. /\ DOMAIN req'[r] = DOMAIN NotYet
        /\ req'[r].pc = "done" /\ req'[r].moved = 0 /\ req'[r].answer = a /\ req'[r].got = g
        /\ req'[r].kind = req[r].kind /\ req'[r].server = req[r].server /\ req'[r].args = req[r].args
        /\ req'[r].len = req[r].len /\ req'[r].err = e /\ req'[r].id = req[r].id
        /\ req'[r].handle = None /\ req'[r].writer = None
    BY <1>3, <1>5, <1>6, <1>8, Fields DEF Ended
  <2>2. /\ e = None => a = "ok"
        /\ a = "ok" => e = None \/ (e = "unread" /\ req[r].kind = "download")
        /\ a = "not found" => e = "not found"
        /\ a = "invalid" => e \in {"invalid id", "invalid url", "bad body"}
    <3>1. a = Status(r) /\ None \notin Words
      BY <1>4, <1>8, NoWords
    <3> QED BY <3>1 DEF Status, Saving, Words
  <2>3. Known \subseteq Known' /\ Body(r)' = Body(r)
    BY <1>2, <1>5, <2>1, KnownGrows DEF Body
  <2>4. RequestOK(r)'
    BY <1>1, <1>6, <2>1, Parts DEF RequestOK, PCs
  <2>5. KindInv(r)'
    BY <1>1, <2>1, <2>3, Parts DEF KindInv, Moving
  <2>6. ErrInv(r)'
    BY <1>1, <2>1, <2>2, Parts DEF ErrInv
  <2>7. SaveInv(r)'
    BY <1>1, <1>2, <2>1, <2>3, Parts DEF SaveInv, Moving
  <2>8. PumpInv(r)' /\ HandsInv(r)'
    BY <2>1 DEF PumpInv, HandsInv, Writers, At
  <2>9. FetchInv(r)'
    BY <1>1, <2>1, <2>2, <2>3, Parts DEF FetchInv, Moving
  <2>10. ReadInv(r)'
    <3>1. \A i \in Known : files[i] \in Seq(Chunks)
      BY KnownFacts, Shared DEF DiskOK
    <3>2. \A i \in Known : IsPrefix(<<>>, files[i])
      BY <3>1, Whole
    <3>3. /\ req[r].kind = "download" /\ e \in {None, "unread"} =>
               /\ req[r].args[1] \in Known /\ IsPrefix(req[r].got, files[req[r].args[1]])
               /\ e = None => req[r].got = files[req[r].args[1]]
          /\ req[r].kind = "compare" /\ e = None =>
               /\ req[r].args[1] \in Known /\ req[r].args[2] \in Known
               /\ req[r].got = <<files[req[r].args[1]], files[req[r].args[2]]>>
      BY <1>1, Parts DEF ReadInv
    <3>4. g = req[r].got \/ g = <<>>
      OBVIOUS
    <3>5. e = None => g = req[r].got
      BY <2>2
    <3> HIDE DEF e, g
    <3>6. req'[r].kind = "download" /\ req'[r].pc \in {"reply", "done"} /\ req'[r].err \in {None, "unread"} =>
            /\ req'[r].args[1] \in Known' /\ IsPrefix(req'[r].got, files'[req'[r].args[1]])
            /\ req'[r].err = None => req'[r].got = files'[req'[r].args[1]]
      BY <1>2, <2>1, <2>3, <3>2, <3>3, <3>4, <3>5 DEF e
    <3>7. req'[r].kind = "compare" /\ req'[r].pc \in {"reply", "done"} /\ req'[r].err = None =>
            /\ req'[r].args[1] \in Known' /\ req'[r].args[2] \in Known'
            /\ req'[r].got = <<files'[req'[r].args[1]], files'[req'[r].args[2]]>>
      BY <1>2, <2>1, <2>3, <3>3, <3>5 DEF e
    <3> QED BY <2>1, <3>6, <3>7 DEF ReadInv, Moving
  <2>11. RequestInv(r)'
    BY <2>5, <2>6, <2>7, <2>8, <2>9, <2>10 DEF RequestInv
  <2>12. ~At(r, "encode")'
    BY <2>1 DEF At
  <2> QED BY <1>1, <1>2, <1>5, <1>6, <2>1, <2>4, <2>11, <2>12, PlainStep DEF Online
<1> QED BY <1>7, <1>8

-----------------------------------------------------------------------------
(* Fetch *)

LEMMA FetchMoves ==
  ASSUME IInv, NEW r \in Requests, req[r].pc \in {"url", "fetch", "headers", "page"},
         NEW l \in {"fetch", "headers", "page", "stalled", "uuid"}, NEW g,
         req' = [req EXCEPT ![r].pc = l, ![r].got = g], UNCHANGED <<disk, pools>>,
         l \in {"fetch", "headers"} => g = <<>>,
         l = "page" => Len(g) <= req[r].len /\ g = SubSeq(Body(r), 1, Len(g)),
         l = "uuid" => g = Body(r)
  PROVE  Kept(r) /\ req'[r].pc = l /\ req'[r].server = req[r].server
<1>1. ~At(r, "idle") /\ ~At(r, "done") /\ ~At(r, "encode") /\ UNCHANGED files
  BY DEF At, disk
<1>2. /\ DOMAIN req = Requests /\ DOMAIN req[r] = DOMAIN NotYet /\ r \in Requests \ Saved
      /\ req[r].server \in Servers /\ req[r].kind \in Kinds /\ req[r].answer = None
      /\ None \notin {"ok", "not found", "invalid", "invalid id", "invalid url", "bad body"}
  BY <1>1, Working
<1>3. /\ req[r].kind = "fetch" /\ req[r].err = None /\ req[r].writer = None /\ req[r].handle = None
      /\ req[r].moved = 0
  BY Parts DEF KindInv, ErrInv, RequestOK, PumpInv
<1>4. /\ OnlyOf(r) /\ DOMAIN req'[r] = DOMAIN NotYet
      /\ req'[r].pc = l /\ req'[r].got = g
      /\ req'[r].kind = req[r].kind /\ req'[r].server = req[r].server /\ req'[r].args = req[r].args
      /\ req'[r].len = req[r].len /\ req'[r].id = req[r].id /\ req'[r].moved = req[r].moved
      /\ req'[r].err = req[r].err /\ req'[r].handle = req[r].handle
      /\ req'[r].writer = req[r].writer /\ req'[r].answer = req[r].answer
  BY <1>2, Fields DEF OnlyOf
<1>5. Known \subseteq Known' /\ Body(r)' = Body(r)
  BY <1>1, <1>4, KnownGrows DEF Body
<1>6. RequestOK(r)'
  BY <1>3, <1>4, Parts DEF RequestOK, PCs
<1>7. KindInv(r)'
  BY <1>3, <1>4, <1>5, Parts DEF KindInv, Moving, Stored
<1>8. ErrInv(r)'
  BY <1>2, <1>3, <1>4 DEF ErrInv
<1>9. SaveInv(r)'
  <2>1. r \in DOMAIN files => IsPrefix(files[r], Body(r))
    BY Parts DEF SaveInv
  <2> QED BY <1>1, <1>4, <1>5, <2>1 DEF SaveInv, Moving
<1>10. PumpInv(r)' /\ ReadInv(r)' /\ HandsInv(r)'
  BY <1>3, <1>4 DEF PumpInv, ReadInv, HandsInv, Writers, At
<1>11. FetchInv(r)'
  BY <1>4, <1>5 DEF FetchInv, Moving
<1>12. RequestInv(r)'
  BY <1>7, <1>8, <1>9, <1>10, <1>11 DEF RequestInv
<1>13. ~At(r, "encode")'
  BY <1>4 DEF At
<1> QED BY <1>1, <1>4, <1>6, <1>12, <1>13, PlainStep

\* What the handler of a fetch does, and what becomes of its connection.
LEMMA FetchStep ==
  ASSUME IInv, NEW r \in Requests, Fetch(r) \/ PageStalls(r) \/ PageBreaks(r)
  PROVE  Kept(r) /\ ConnsOK'
<1> DEFINE s == req[r].server
<1>1. /\ req[r].pc \in {"url", "fetch", "headers", "page", "stalled"}
      /\ \E n \in {-1, 0, 1} : Connections(r, n)
  BY DEF Fetch, PageStalls, PageBreaks, ReadURL, InvalidURL, Dial, DialFails, Refused, Answers,
         PageChunk, PageEnd, Timeout, At
<1>2. ~At(r, "idle") /\ ~At(r, "done") /\ UNCHANGED <<disk, pools>>
  BY <1>1 DEF At, Connections
<1>3. /\ DOMAIN req = Requests /\ DOMAIN req[r] = DOMAIN NotYet /\ s \in Servers
      /\ conns \in [Servers -> 0 .. MaxConns] /\ MaxConns \in Nat
  BY <1>2, Working, Shared, Constants DEF ConnsOK
<1>4. req[r].kind = "fetch"
  BY <1>1, Parts DEF KindInv
<1>5. \A n : Connections(r, n) => conns' = [conns EXCEPT ![s] = @ + n]
  BY DEF Connections
<1>6. Connections(r, 0) => UNCHANGED conns
  <2>1. conns[s] + 0 = conns[s]
    BY <1>3
  <2> QED BY <1>3, <1>5, <2>1
<1>7. /\ Body(r) \in Seq(Chunks) /\ Len(Body(r)) = req[r].len /\ req[r].len \in Nat
      /\ SubSeq(Body(r), 1, 0) = <<>>
  BY BodyFacts, SubSeqEmpty
<1>8. /\ req[r].pc \in {"url", "fetch", "headers"} => req[r].got = <<>>
      /\ req[r].pc = "page" => Len(req[r].got) <= req[r].len
                               /\ req[r].got = SubSeq(Body(r), 1, Len(req[r].got))
  BY <1>4, Parts DEF FetchInv
<1> HIDE DEF s
<1>9. ASSUME NEW e \in {"bad body", "invalid url", "fetch failed", "page"}, Fail(r, e),
             \/ req[r].pc \notin Online /\ Connections(r, 0)
             \/ req[r].pc \in Online /\ Connections(r, -1)
      PROVE  Kept(r) /\ ConnsOK'
  <2>1. e \in Words /\ e \notin {"unread", "not found", "invalid id"}
    BY DEF Words
  <2>2. Kept(r) /\ req'[r].pc = "reply" /\ req'[r].server = s
    BY <1>1, <1>2, <1>4, <1>9, <2>1, FailStep DEF s
  <2>3. OnlyOf(r) /\ req'[r].pc \notin Online
    BY <2>2 DEF Kept, Online
  <2>4. CASE req[r].pc \notin Online /\ Connections(r, 0)
    BY <1>6, <2>2, <2>3, <2>4, ConnsKept
  <2>5. CASE req[r].pc \in Online /\ Connections(r, -1)
    <3>1. conns' = [conns EXCEPT ![s] = @ + (-1)]
      BY <1>5, <2>5
    <3>2. req[r].server = s /\ req[r].pc \in Online
      BY <2>5 DEF s
    <3> QED BY <1>3, <2>2, <2>3, <3>1, <3>2, ConnectedLess
  <2> QED BY <1>9, <2>4, <2>5
<1>10. ASSUME NEW l \in {"fetch", "headers", "page", "stalled", "uuid"}, Goto(r, l),
              req[r].pc \in {"url", "fetch", "headers", "page"},
              l \in {"fetch", "headers"} => req[r].pc \in {"url", "fetch"},
              l = "page" => req[r].pc = "headers",
              l = "uuid" => req[r].pc = "page" /\ Len(req[r].got) = req[r].len
       PROVE  Kept(r) /\ req'[r].pc = l /\ req'[r].server = s
  <2>1. req' = [req EXCEPT ![r].pc = l, ![r].got = req[r].got]
    BY <1>3, <1>10, Fields DEF Goto
  <2>2. l = "page" => Len(req[r].got) <= req[r].len /\ req[r].got = SubSeq(Body(r), 1, Len(req[r].got))
    <3>1. l = "page" => req[r].got = <<>>
      BY <1>8, <1>10
    <3>2. Len(<<>>) = 0 /\ Len(<<>>) <= req[r].len
      BY <1>7
    <3> QED BY <1>7, <3>1, <3>2
  <2>3. l = "uuid" => req[r].got = Body(r)
    BY <1>7, <1>8, <1>10, SubSeqFull
  <2>4. l \in {"fetch", "headers"} => req[r].got = <<>>
    BY <1>8, <1>10
  <2> QED BY <1>2, <1>10, <2>1, <2>2, <2>3, <2>4, FetchMoves DEF s
<1>11. CASE ReadURL(r)
  <2>1. At(r, "url") /\ Connections(r, 0)
    BY <1>11 DEF ReadURL
  <2>2. CASE Goto(r, "fetch")
    <3>1. Kept(r) /\ req'[r].pc = "fetch" /\ req'[r].server = s
      BY <1>10, <2>1, <2>2 DEF At
    <3> QED BY <1>6, <2>1, <3>1, ConnsKept DEF Kept, At, Online
  <2>3. CASE Fail(r, "bad body")
    BY <1>9, <2>1, <2>3 DEF At, Online
  <2> QED BY <1>11, <2>2, <2>3 DEF ReadURL
<1>12. CASE InvalidURL(r) \/ DialFails(r)
  BY <1>9, <1>12 DEF InvalidURL, DialFails, At, Online
<1>13. CASE Refused(r) \/ PageBreaks(r) \/ Timeout(r)
  BY <1>9, <1>13 DEF Refused, PageBreaks, Timeout, At, Online
<1>14. CASE Dial(r)
  <2>1. /\ req[r].pc = "fetch" /\ conns[s] < MaxConns /\ Goto(r, "headers")
        /\ conns' = [conns EXCEPT ![s] = @ + 1]
    BY <1>5, <1>14 DEF Dial, At, s
  <2>2. Kept(r) /\ req'[r].pc = "headers" /\ req'[r].server = s
    BY <1>10, <2>1
  <2> QED BY <1>3, <2>1, <2>2, ConnectedMore DEF Kept, Online
<1>15. CASE Answers(r) \/ PageStalls(r)
  <2>1. Connections(r, 0) /\ req[r].pc \in {"headers", "page"}
    BY <1>15 DEF Answers, PageStalls, At
  <2>2. PICK l \in {"page", "stalled"} : Goto(r, l) /\ (l = "page" => req[r].pc = "headers")
    BY <1>15 DEF Answers, PageStalls, At
  <2>3. Kept(r) /\ req'[r].pc = l /\ req'[r].server = s
    BY <1>10, <2>1, <2>2
  <2> QED BY <1>6, <2>1, <2>2, <2>3, ConnsKept DEF Kept, Online, s
<1>16. CASE PageChunk(r)
  <2> DEFINE got == req[r].got
             body == Body(r)
             g == Append(got, body[Len(got) + 1])
  <2>1. /\ req[r].pc = "page" /\ Len(got) < req[r].len /\ Connections(r, 0)
        /\ req' = [req EXCEPT ![r].got = g]
    BY <1>16 DEF PageChunk, At
  <2>2. req' = [req EXCEPT ![r].pc = "page", ![r].got = g]
    BY <1>3, <2>1, Fields
  <2>3. body \in Seq(Chunks) /\ Len(body) = req[r].len /\ got = SubSeq(body, 1, Len(got))
    BY <1>7, <1>8, <2>1
  <2>4. Len(g) <= req[r].len /\ g = SubSeq(body, 1, Len(g))
    <3> DEFINE m == Len(got)
    <3> HIDE DEF got, body
    <3>1. m \in Nat /\ m < Len(body) /\ got \in Seq(Chunks)
      <4>1. m \in Nat
        BY <2>3 DEF got
      <4> QED BY <2>1, <2>3, <4>1
    <3>2. <<>> \in Seq(Chunks) /\ <<>> \o got = got
      BY <3>1
    <3>3. /\ g \in Seq(Chunks) /\ body[m + 1] \in Chunks /\ <<>> \o g = SubSeq(body, 1, m + 1)
      BY <2>3, <3>1, <3>2, OneMore
    <3>4. <<>> \o g = g /\ Len(g) = m + 1
      BY <3>1, <3>3
    <3> QED BY <2>1, <2>3, <3>1, <3>3, <3>4
  <2> HIDE DEF g
  <2>5. Kept(r) /\ req'[r].pc = "page" /\ req'[r].server = s
    BY <1>2, <2>1, <2>2, <2>4, FetchMoves DEF s
  <2> QED BY <1>6, <2>1, <2>5, ConnsKept DEF Kept, Online, s
<1>17. CASE PageEnd(r)
  <2>1. /\ req[r].pc = "page" /\ Len(req[r].got) = req[r].len /\ Goto(r, "uuid")
        /\ conns' = [conns EXCEPT ![s] = @ + (-1)]
    BY <1>5, <1>17 DEF PageEnd, At
  <2>2. Kept(r) /\ req'[r].pc = "uuid" /\ req'[r].server = s
    BY <1>10, <2>1
  <2> QED BY <1>3, <2>1, <2>2, ConnectedLess DEF Kept, Online, s
<1> QED BY <1>11, <1>12, <1>13, <1>14, <1>15, <1>16, <1>17 DEF Fetch

-----------------------------------------------------------------------------
(* The servers *)

\* Nothing moves but the counts.
LEMMA StartStep ==
  ASSUME IInv, UNCHANGED <<req, disk, pools, conns>>, CountsOK'
  PROVE  IInv'
<1>1. UNCHANGED <<req, files, cut, buffer, pool, raw, uuids, conns>>
  BY DEF disk, pools, writers
<1>2. Known' = Known
  BY <1>1 DEF Known
<1>3. \A q \in Requests : RequestOK(q)' /\ RequestInv(q)'
  <2>1. \A i \in Known : i \in DOMAIN files
    BY KnownFacts
  <2> QED BY <1>1, <1>2, <2>1, Undisturbed
<1>4. DiskOK' /\ DOMAIN req' = Requests
  BY <1>1, Shared DEF DiskOK
<1>5. PoolsOK'
  BY <1>1, Shared DEF PoolsOK, Lent, Writers, Encoders, At
<1>6. ConnsOK'
  BY <1>1, Shared DEF ConnsOK, Connected
<1> QED BY <1>3, <1>4, <1>5, <1>6 DEF IInv, TypeOK, StoreInv, DiskOK, PoolsOK, ConnsOK, CountsOK

LEMMA CrashStep ==
  ASSUME IInv, NEW s \in Servers, Crash(s), CountsOK'
  PROVE  IInv'
<1>1. /\ UNCHANGED disk /\ UNCHANGED <<files, cut>>
      /\ req' = [r \in Requests |-> IF AtWork(r) /\ req[r].server = s THEN Ended(r, "lost") ELSE req[r]]
      /\ buffer' = [w \in AllObjects |-> IF w[1] = s THEN <<>> ELSE buffer[w]]
      /\ pool' = [pool EXCEPT ![s] = Objects(s)]
      /\ raw' = [u \in AllObjects |-> IF u[1] = s THEN None ELSE raw[u]]
      /\ uuids' = [uuids EXCEPT ![s] = Objects(s)]
      /\ conns' = [conns EXCEPT ![s] = 0]
  BY DEF Crash, disk
<1> DEFINE Ends == {r \in Requests : AtWork(r) /\ req[r].server = s}
<1>2. /\ \A r \in Ends : req'[r] = Ended(r, "lost")
      /\ \A r \in Requests \ Ends : req'[r] = req[r]
      /\ DOMAIN req' = Requests
  BY <1>1
<1>3. \A r \in Ends : /\ RequestOK(r)' /\ RequestInv(r)' /\ Writers'[r] = None /\ Encoders'[r] = None
                      /\ req'[r].pc = "done"
  <2>1. ASSUME NEW r \in Ends PROVE r \in Requests /\ req[r].pc # "idle" /\ req'[r] = Ended(r, "lost")
    BY <1>2 DEF AtWork, At
  <2> HIDE DEF Ends
  <2> QED BY <1>1, <2>1, LostRequest
<1>4. \A r \in Requests : Writers[r] # None => Writers[r] \in Objects(req[r].server) /\ AtWork(r)
                                               /\ req[r].server \in Servers
  <2>1. ASSUME NEW r \in Requests, req[r].writer # None
        PROVE  req[r].writer \in Objects(req[r].server) /\ AtWork(r) /\ req[r].server \in Servers
    <3>1. req[r].pc \in {"copy", "close"}
      BY <2>1, Parts DEF RequestOK
    <3> QED BY <2>1, <3>1, Parts DEF KindInv, HandsInv, Writers, AtWork, At
  <2> QED BY <2>1 DEF Writers
<1>5. \A r \in Requests : Encoders[r] # None => /\ Encoders[r] \in Objects(req[r].server) /\ AtWork(r)
                                                /\ req[r].server \in Servers
  <2>1. ASSUME NEW r \in Requests, At(r, "encode")
        PROVE  Encoders[r] \in Objects(req[r].server) /\ AtWork(r) /\ req[r].server \in Servers
    BY <2>1, Parts DEF KindInv, HandsInv, AtWork, At
  <2> QED BY <2>1 DEF Encoders
<1>6. \A t \in Servers : \A o \in Objects(t) : o \in AllObjects /\ o[1] = t
  <2>1. \A t : \A o \in Objects(t) : o[1] = t
    BY DEF Objects
  <2> QED BY <2>1, ObjectFacts
<1>7. Known \subseteq Known'
  <2>1. \A i \in Known : i \in Requests \ Ends
    BY KnownFacts DEF AtWork
  <2> HIDE DEF Ends
  <2> QED BY <1>2, <2>1 DEF Known
<1>8. \A r \in Requests \ Ends : RequestOK(r)' /\ RequestInv(r)'
  <2>1. ASSUME NEW r \in Requests \ Ends
        PROVE  /\ req[r].writer # None => buffer'[req[r].writer] = buffer[req[r].writer]
               /\ At(r, "encode") => raw'[req[r].handle] = raw[req[r].handle]
    <3>1. CASE req[r].writer # None
      <4>1. req[r].writer \in Objects(req[r].server) /\ req[r].server # s /\ req[r].server \in Servers
        BY <1>4, <2>1, <3>1 DEF Writers
      <4>2. req[r].writer \in AllObjects /\ req[r].writer[1] # s
        BY <1>6, <4>1
      <4>3. ~At(r, "encode")
        BY <3>1, Parts DEF RequestOK, At
      <4> QED BY <1>1, <4>2, <4>3
    <3>2. CASE At(r, "encode")
      <4>1. Encoders[r] = req[r].handle /\ req[r].writer = None
        BY <3>2, Parts DEF Encoders, RequestOK, At
      <4>2. /\ Encoders[r] \in Objects(req[r].server) /\ req[r].server # s /\ req[r].server \in Servers
        BY <2>1, <3>2, Parts DEF KindInv, HandsInv, AtWork, At
      <4>3. req[r].handle \in AllObjects /\ req[r].handle[1] # s
        BY <1>6, <4>1, <4>2
      <4> QED BY <1>1, <4>1, <4>3
    <3> QED BY <3>1, <3>2
  <2>2. \A i \in Known : i \in DOMAIN files
    BY KnownFacts
  <2> HIDE DEF Ends
  <2> QED BY <1>1, <1>2, <1>7, <2>1, <2>2, Undisturbed
<1>9. PoolsOK
  BY Shared
<1>10. PoolsOK'
  <2>1. Lent(pool, Writers)'
    <3>1. /\ \A r \in Requests : Writers[r] \in Objects(s) => Writers'[r] = None
          /\ \A r \in Requests : Writers[r] \notin Objects(s) => Writers'[r] = Writers[r]
      <4>1. ASSUME NEW r \in Requests, Writers[r] \in Objects(s) PROVE r \in Ends
        BY <1>4, <4>1, ObjectFacts
      <4>2. ASSUME NEW r \in Ends, Writers[r] # None PROVE Writers[r] \in Objects(s)
        BY <1>4, <4>2
      <4>3. \A r \in Requests \ Ends : Writers'[r] = Writers[r]
        BY <1>2 DEF Writers
      <4> HIDE DEF Ends
      <4> QED BY <1>3, <4>1, <4>2, <4>3
    <3>2. DOMAIN Writers = Requests /\ DOMAIN Writers' = Requests
      BY DEF Writers
    <3>3. Lent([pool EXCEPT ![s] = Objects(s)], Writers')
      <4> DEFINE left == Writers'
                 was == Writers
                 objects == pool
      <4>1. /\ DOMAIN left = Requests /\ DOMAIN was = Requests
            /\ \A r \in Requests : was[r] \in Objects(s) => left[r] = None
            /\ \A r \in Requests : was[r] \notin Objects(s) => left[r] = was[r]
        BY <3>1, <3>2
      <4>2. Lent(objects, was) /\ DOMAIN objects = Servers
        BY <1>9 DEF PoolsOK
      <4> HIDE DEF left, was, objects
      <4>3. \A t \in Servers : \A x \in Objects(t) : x # None /\ (x \in Objects(s) => t = s)
        BY ObjectFacts
      <4>4. Lent([objects EXCEPT ![s] = Objects(s)], left)
        BY <4>1, <4>2, <4>3 DEF Lent
      <4> QED BY <4>4 DEF left, objects
    <3>4. Lent(pool', Writers')
      BY <1>1, <3>3
    <3> QED BY <3>4 DEF Lent
  <2>2. Lent(uuids, Encoders)'
    <3>1. /\ \A r \in Requests : Encoders[r] \in Objects(s) => Encoders'[r] = None
          /\ \A r \in Requests : Encoders[r] \notin Objects(s) => Encoders'[r] = Encoders[r]
      <4>1. ASSUME NEW r \in Requests, Encoders[r] \in Objects(s) PROVE r \in Ends
        BY <1>5, <4>1, ObjectFacts
      <4>2. ASSUME NEW r \in Ends, Encoders[r] # None PROVE Encoders[r] \in Objects(s)
        BY <1>5, <4>2
      <4>3. \A r \in Requests \ Ends : Encoders'[r] = Encoders[r]
        BY <1>2 DEF Encoders, At
      <4> HIDE DEF Ends
      <4> QED BY <1>3, <4>1, <4>2, <4>3
    <3>2. DOMAIN Encoders = Requests /\ DOMAIN Encoders' = Requests
      BY DEF Encoders
    <3>3. Lent([uuids EXCEPT ![s] = Objects(s)], Encoders')
      <4> DEFINE left == Encoders'
                 was == Encoders
                 objects == uuids
      <4>1. /\ DOMAIN left = Requests /\ DOMAIN was = Requests
            /\ \A r \in Requests : was[r] \in Objects(s) => left[r] = None
            /\ \A r \in Requests : was[r] \notin Objects(s) => left[r] = was[r]
        BY <3>1, <3>2
      <4>2. Lent(objects, was) /\ DOMAIN objects = Servers
        BY <1>9 DEF PoolsOK
      <4> HIDE DEF left, was, objects
      <4>3. \A t \in Servers : \A x \in Objects(t) : x # None /\ (x \in Objects(s) => t = s)
        BY ObjectFacts
      <4>4. Lent([objects EXCEPT ![s] = Objects(s)], left)
        BY <4>1, <4>2, <4>3 DEF Lent
      <4> QED BY <4>4 DEF left, objects
    <3>4. Lent(uuids', Encoders')
      BY <1>1, <3>3
    <3> QED BY <3>4 DEF Lent
  <2>3. <<>> \in Seq(Chunks) /\ buffer \in [AllObjects -> Seq(Chunks)]
    BY <1>9 DEF PoolsOK
  <2>4. buffer' \in [AllObjects -> Seq(Chunks)]
    BY <1>1, <2>3
  <2> QED BY <1>1, <1>9, <2>1, <2>2, <2>4 DEF PoolsOK
<1>11. ConnsOK'
  <2>1. conns \in [Servers -> 0 .. MaxConns] /\ MaxConns \in Nat
        /\ \A t \in Servers : conns[t] = Cardinality(Connected(t))
    BY Constants, Shared DEF ConnsOK
  <2>2. conns' \in [Servers -> 0 .. MaxConns]
    BY <1>1, <2>1
  <2>3. Connected(s)' = {}
    <3>1. ASSUME NEW r \in Requests, req'[r].server = s, req'[r].pc \in Online PROVE FALSE
      <4>1. r \notin Ends
        BY <1>3, <3>1 DEF Online
      <4>2. req'[r] = req[r]
        BY <1>2, <4>1
      <4> QED BY <3>1, <4>1, <4>2 DEF AtWork, At, Online
    <3> QED BY <3>1 DEF Connected, Online
  <2>4. \A t \in Servers : t # s => Connected(t)' = Connected(t)
    <3>1. ASSUME NEW t \in Servers, t # s, NEW r \in Requests
          PROVE  r \in Connected(t)' <=> r \in Connected(t)
      <4>1. CASE r \in Ends
        <5>1. req'[r].pc = "done" /\ req[r].server = s
          BY <1>3, <4>1
        <5> QED BY <3>1, <5>1 DEF Connected
      <4>2. CASE r \notin Ends
        <5>1. req'[r] = req[r]
          BY <1>2, <4>2
        <5> QED BY <5>1 DEF Connected
      <4> QED BY <4>1, <4>2
    <3>2. \A t : Connected(t) \subseteq Requests /\ Connected(t)' \subseteq Requests
      BY DEF Connected
    <3> QED BY <3>1, <3>2
  <2>5. Cardinality({}) = 0
    BY FS_EmptySet
  <2>6. \A t \in Servers : conns'[t] = Cardinality(Connected(t)')
    BY <1>1, <2>1, <2>3, <2>4, <2>5
  <2> QED BY <2>2, <2>6 DEF ConnsOK
<1>12. DiskOK'
  BY <1>1, Shared DEF DiskOK
<1>13. \A r \in Requests : RequestOK(r)' /\ RequestInv(r)'
  <2> HIDE DEF Ends
  <2> QED BY <1>3, <1>8
<1> QED BY <1>2, <1>10, <1>11, <1>12, <1>13
    DEF IInv, TypeOK, StoreInv, DiskOK, PoolsOK, ConnsOK, CountsOK

-----------------------------------------------------------------------------
(* The inductive invariant *)

LEMMA InitIInv == Init => IInv
<1> SUFFICES ASSUME Init PROVE IInv
  OBVIOUS
<1>1. /\ req = [r \in Requests |-> IF r \in Saved THEN Upload(r) ELSE NotYet]
      /\ files = [r \in Saved |-> Body(r)] /\ cut = {}
      /\ buffer = [w \in AllObjects |-> <<>>] /\ pool = [s \in Servers |-> Objects(s)]
      /\ raw = [u \in AllObjects |-> None] /\ uuids = [s \in Servers |-> Objects(s)]
      /\ conns = [s \in Servers |-> 0] /\ up = {} /\ faults = 0
  BY DEF Init
<1>2. Saved \subseteq Requests /\ MaxConns \in Nat /\ MaxFaults \in Nat
  BY Constants
<1>3. PICK n \in Lengths : n = CHOOSE k \in Lengths : k # 0
  BY FileStoreAssumption
<1>4. ASSUME NEW r \in Saved
      PROVE  /\ DOMAIN req[r] = DOMAIN NotYet /\ req[r].pc = "done" /\ req[r].kind = "upload"
             /\ req[r].server = None /\ req[r].args = <<>> /\ req[r].len = n /\ req[r].moved = 0
             /\ req[r].err = None /\ req[r].id = r /\ req[r].handle = None /\ req[r].writer = None
             /\ req[r].got = <<>> /\ req[r].answer = "ok"
  <2>1. req[r] = [NotYet EXCEPT !.pc = "done", !.kind = "upload", !.id = r, !.answer = "ok", !.len = n]
    BY <1>1, <1>2, <1>3, <1>4 DEF Upload
  <2> QED BY <2>1 DEF NotYet
<1>5. ASSUME NEW r \in Requests \ Saved
      PROVE  /\ DOMAIN req[r] = DOMAIN NotYet /\ req[r].pc = "idle" /\ req[r].kind = None
             /\ req[r].server = None /\ req[r].args = <<>> /\ req[r].len = 0 /\ req[r].moved = 0
             /\ req[r].err = None /\ req[r].id = None /\ req[r].handle = None /\ req[r].writer = None
             /\ req[r].got = <<>> /\ req[r].answer = None
  <2>1. req[r] = NotYet
    BY <1>1, <1>5
  <2> QED BY <2>1 DEF NotYet
<1>6. None \notin {"upload", "fetch", "download", "compare", "ok", "not found", "invalid",
                   "invalid id", "invalid url", "bad body"}
  BY NoWords DEF Words
<1>7. \A r \in Requests : /\ req[r].pc \notin Online \cup {"encode"} /\ req[r].writer = None
                          /\ req[r].len \in Lengths \cup {0}
  BY <1>3, <1>4, <1>5 DEF Online
<1>8. \A r \in Saved : Body(r) \in Seq(Chunks)
  <2>1. ASSUME NEW r \in Saved PROVE Body(r) \in Seq(Chunks)
    <3>1. n \in Nat
      <4>1. Lengths \subseteq Nat
        BY FileStoreAssumption
      <4> QED BY <1>3, <4>1
    <3>2. req[r].len = n
      BY <1>4
    <3>3. \A i \in 1 .. n : <<r, i>> \in Chunks
      BY <1>2, <3>1 DEF Chunks
    <3>4. Body(r) \in [1 .. n -> Chunks]
      BY <3>2, <3>3 DEF Body
    <3> QED BY <3>1, <3>4
  <2> QED BY <2>1
<1>9. \A r \in Requests : RequestOK(r)
  <2>1. <<>> \in Seq(Ids)
    OBVIOUS
  <2>2. ASSUME NEW r \in Requests
        PROVE  /\ DOMAIN req[r] = DOMAIN NotYet /\ req[r].pc \in {"idle", "done"}
               /\ req[r].kind \in {"upload", None} /\ req[r].server = None
               /\ req[r].id \in Requests \cup {None} /\ req[r].handle = None /\ req[r].writer = None
    BY <1>2, <1>4, <1>5
  <2>3. ASSUME NEW r \in Requests PROVE req[r].args \in Seq(Ids)
    <3>1. req[r].args = <<>>
      BY <1>4, <1>5
    <3> QED BY <2>1, <3>1, Zenon
  <2>4. ASSUME NEW r \in Requests PROVE req[r].moved \in Nat
    BY <1>4, <1>5
  <2> QED BY <1>7, <2>2, <2>3, <2>4 DEF RequestOK, PCs
<1>10. DiskOK
  BY <1>1, <1>2, <1>8 DEF DiskOK
<1>11. PoolsOK
  <2>1. \A r \in Requests : Writers[r] = None /\ Encoders[r] = None
    BY <1>7 DEF Writers, Encoders, At
  <2>2. <<>> \in Seq(Chunks)
    OBVIOUS
  <2>3. buffer \in [AllObjects -> Seq(Chunks)]
    BY <1>1, <2>2
  <2>4. \A s \in Servers : \A o \in Objects(s) : o # None
    BY ObjectFacts
  <2>5. Lent(pool, Writers) /\ Lent(uuids, Encoders)
    BY <1>1, <2>1, <2>4 DEF Lent
  <2> QED BY <1>1, <2>3, <2>5 DEF PoolsOK
<1>12. ConnsOK
  <2>1. \A s \in Servers : Connected(s) = {}
    BY <1>7 DEF Connected, Online
  <2>2. \A s \in Servers : conns[s] = Cardinality(Connected(s))
    BY <1>1, <2>1, FS_EmptySet
  <2>3. conns \in [Servers -> 0 .. MaxConns]
    BY <1>1, <1>2
  <2> QED BY <2>2, <2>3 DEF ConnsOK
<1>13. CountsOK
  BY <1>1, <1>2 DEF CountsOK
<1>14. ASSUME NEW r \in Saved PROVE RequestInv(r)
  <2>0. DOMAIN req[r].args = {}
    BY <1>4
  <2>1. KindInv(r) /\ ErrInv(r)
    BY <2>0, <1>4, <1>6 DEF KindInv, ErrInv, Moving
  <2>2. files[r] = Body(r) /\ r \in DOMAIN files
    BY <1>1, <1>14
  <2>3. SaveInv(r)
    BY <1>4, <1>8, <1>14, <2>2, Whole DEF SaveInv, Moving
  <2>4. PumpInv(r) /\ ReadInv(r) /\ FetchInv(r) /\ HandsInv(r)
    BY <1>2, <1>4 DEF PumpInv, ReadInv, FetchInv, HandsInv, Writers, At, Moving
  <2> QED BY <2>1, <2>3, <2>4 DEF RequestInv
<1>15. ASSUME NEW r \in Requests \ Saved PROVE RequestInv(r)
  <2>0. DOMAIN req[r].args = {}
    BY <1>5
  <2>1. KindInv(r) /\ ErrInv(r)
    BY <2>0, <1>5, <1>6 DEF KindInv, ErrInv, Moving
  <2>2. r \notin DOMAIN files
    BY <1>1
  <2>3. SaveInv(r)
    BY <1>5, <1>6, <2>2 DEF SaveInv, Stored
  <2>4. PumpInv(r) /\ ReadInv(r) /\ FetchInv(r) /\ HandsInv(r)
    BY <1>5, <1>6 DEF PumpInv, ReadInv, FetchInv, HandsInv, Writers, At, Moving
  <2> QED BY <2>1, <2>3, <2>4 DEF RequestInv
<1>16. \A r \in Requests : RequestInv(r)
  BY <1>14, <1>15
<1> QED BY <1>1, <1>9, <1>10, <1>11, <1>12, <1>13, <1>16, Shared

\* A call that failed before the request had anything in its hands.
LEMMA EarlyFailure ==
  ASSUME IInv, NEW r \in Requests, NewUUIDFails(r) \/ CreateFails(r)
  PROVE  Kept(r) /\ req[r].pc \notin Online /\ req'[r].pc \notin Online
<1>1. req[r].pc \in {"uuid", "create"} /\ UNCHANGED <<disk, pools>>
  BY DEF NewUUIDFails, CreateFails, At
<1>2. PICK e \in {"id generation", "persist"} : Fail(r, e)
  BY DEF NewUUIDFails, CreateFails
<1>3. e \in Words /\ e \notin {"unread", "not found", "invalid id", "invalid url", "bad body"}
  BY DEF Words
<1>4. Kept(r) /\ req'[r].pc = "reply"
  BY <1>1, <1>2, <1>3, FailStep
<1> QED BY <1>1, <1>4 DEF Online

LEMMA NextIInv == IInv /\ [Next]_vars => IInv'
<1> SUFFICES ASSUME IInv, [Next]_vars PROVE IInv'
  OBVIOUS
<1>1. CountsOK /\ MaxFaults \in Nat
  BY Shared, Constants
<1>2. CASE UNCHANGED vars
  <2>1. UNCHANGED <<req, disk, pools, conns, up, faults>>
    BY <1>2 DEF vars
  <2> QED BY <1>1, <2>1, StartStep DEF CountsOK
<1>3. ASSUME NEW r \in Requests, Kept(r), ConnsOK', CountsOK' PROVE IInv'
  BY <1>3, OwnStep
<1>4. ASSUME NEW r \in Requests, Kept(r), req[r].pc \notin Online, req'[r].pc \notin Online,
             UNCHANGED conns, CountsOK'
      PROVE  IInv'
  BY <1>4, ConnsKept, OwnStep DEF Kept
<1>5. ASSUME NEW r \in Requests, Arrive(r), UNCHANGED <<conns, up, faults>> PROVE IInv'
  BY <1>1, <1>4, <1>5, ArriveStep DEF CountsOK
<1>6. ASSUME NEW r \in Requests, Handle(r), UNCHANGED <<up, faults>> PROVE IInv'
  <2>1. CountsOK'
    BY <1>1, <1>6 DEF CountsOK
  <2>2. CASE SaveFile(r) /\ UNCHANGED conns
    BY <1>4, <2>1, <2>2, ReadRandomStep, EncodeIDStep, CreateStep DEF SaveFile
  <2>3. CASE Pump(r) /\ UNCHANGED conns
    BY <1>4, <2>1, <2>3, GetWriterStep, CopyChunkStep, FlushStep, CloseStep DEF Pump
  <2>4. CASE Read(r) /\ UNCHANGED conns
    BY <1>4, <2>1, <2>4, OpenStep, OpenRefusedStep, SendStep, ReadLinesStep DEF Read
  <2>5. CASE Reply(r) /\ UNCHANGED conns
    BY <1>4, <2>1, <2>5, ReplyStep
  <2>6. CASE Fetch(r)
    BY <1>3, <2>1, <2>6, FetchStep
  <2> QED BY <1>6, <2>2, <2>3, <2>4, <2>5, <2>6 DEF Handle
<1>7. ASSUME NEW s \in Servers, Start(s), UNCHANGED faults PROVE IInv'
  <2>1. UNCHANGED <<req, disk, pools, conns>> /\ up' = up \cup {s}
    BY <1>7 DEF Start
  <2> QED BY <1>1, <1>7, <2>1, StartStep DEF CountsOK
<1>8. ASSUME faults < MaxFaults, faults' = faults + 1, up' \subseteq Servers PROVE CountsOK'
  BY <1>1, <1>8 DEF CountsOK
<1>9. ASSUME faults < MaxFaults, faults' = faults + 1,
             NEW r \in Requests, CallFails(r), UNCHANGED <<conns, up>>
      PROVE  IInv'
  <2>1. CountsOK'
    BY <1>1, <1>8, <1>9 DEF CountsOK
  <2>2. Kept(r) /\ req[r].pc \notin Online /\ req'[r].pc \notin Online
    BY <1>9, EarlyFailure, MoveFailsStep, CloseStep, OpenRefusedStep, SendStep, ReadLinesStep, ReplyStep
       DEF CallFails
  <2> QED BY <1>4, <1>9, <2>1, <2>2
<1>10. ASSUME faults < MaxFaults, faults' = faults + 1,
              NEW r \in Requests, PageStalls(r) \/ PageBreaks(r), UNCHANGED up
       PROVE  IInv'
  <2>1. CountsOK'
    BY <1>1, <1>8, <1>10 DEF CountsOK
  <2> QED BY <1>3, <1>10, <2>1, FetchStep
<1>11. ASSUME faults < MaxFaults, faults' = faults + 1, NEW s \in Servers, Crash(s) PROVE IInv'
  <2>1. CountsOK'
    BY <1>1, <1>8, <1>11 DEF CountsOK, Crash
  <2> QED BY <1>11, <2>1, CrashStep
<1> QED BY <1>2, <1>5, <1>6, <1>7, <1>9, <1>10, <1>11 DEF Next

\* What the other invariants rest on: where a request is tells what it holds, which
\* bytes it has moved where, and what its error and answer are.
THEOREM IInvHolds == Spec => []IInv
<1>1. Init => IInv
  BY InitIInv
<1>2. IInv /\ [Next]_vars => IInv'
  BY NextIInv
<1> QED BY <1>1, <1>2, PTL DEF Spec

-----------------------------------------------------------------------------
(* What follows from it *)

LEMMA NoBytesAstrayFollows == IInv => NoBytesAstray
<1>1. ASSUME IInv, NEW i \in DOMAIN files PROVE IsPrefix(files[i], Body(i))
  <2>1. i \in Requests
    BY <1>1, Shared DEF DiskOK
  <2> QED BY <1>1, <2>1, Parts DEF SaveInv
<1> QED BY <1>1 DEF NoBytesAstray

\* Whatever fails, and whoever else is at work, a file holds bytes of the request it
\* was made for only, in order (spiff_fs.go:29-56).
THEOREM NoBytesAstrayHolds == Spec => []NoBytesAstray
BY IInvHolds, NoBytesAstrayFollows, PTL

\* An id that a client was told names all it sent, from then on, over restarts too;
\* what Close has lost excepted (spiff_fs.go:29-56).
THEOREM IdNamesWholeFileHolds == Spec => []IdNamesWholeFile
<1>1. IInv => IdNamesWholeFile
  BY KnownFacts DEF IdNamesWholeFile
<1> QED BY <1>1, IInvHolds, PTL

LEMMA AnswersAreTrueFollows == IInv => AnswersAreTrue
<1> SUFFICES ASSUME IInv, NEW r \in Requests
             PROVE  LET q == req[r]
                        whole(i) == IF i \in cut THEN files[i] ELSE Body(i)
                    IN /\ q.answer = "ok" =>
                            /\ Range(q.args) \subseteq Known
                            /\ q.kind = "fetch" => q.got = Body(r) /\ (q.id \in cut \/ files[q.id] = Body(r))
                            /\ q.kind = "download" =>
                                 IF q.err = "unread" THEN IsPrefix(q.got, whole(q.args[1]))
                                 ELSE q.got = whole(q.args[1])
                            /\ q.kind = "compare" => q.got = <<whole(q.args[1]), whole(q.args[2])>>
                       /\ q.answer = "not found" => Unknown \in Range(q.args)
                       /\ q.answer = "invalid" => Malformed \in Range(q.args) \/ q.kind = "fetch"
  BY DEF AnswersAreTrue
<1> DEFINE q == req[r]
           whole(i) == IF i \in cut THEN files[i] ELSE Body(i)
<1>1. \A i \in Known : whole(i) = files[i]
  BY KnownFacts
<1>2. /\ q.answer = "not found" => Unknown \in Range(q.args)
      /\ q.answer = "invalid" => Malformed \in Range(q.args) \/ q.kind = "fetch"
      /\ q.answer = "ok" => q.err = None \/ (q.err = "unread" /\ q.kind = "download")
  BY Parts DEF ErrInv
<1>3. q.answer = "ok" => q.pc = "done"
  <2>1. None # "ok"
    BY NoWords DEF Words
  <2> QED BY <2>1, Parts DEF KindInv
<1>4. None # "unread" /\ "fetch" \in Stored
  BY NoWords DEF Words, Stored
<1>5. q.answer = "ok" /\ q.kind = "fetch" => q.got = Body(r) /\ (q.id \in cut \/ files[q.id] = Body(r))
  BY <1>2, <1>3, <1>4, Parts DEF SaveInv, FetchInv
<1>6. q.answer = "ok" /\ q.kind = "download" =>
        /\ q.args[1] \in Known /\ IsPrefix(q.got, files[q.args[1]])
        /\ q.err = None => q.got = files[q.args[1]]
  BY <1>2, <1>3, Parts DEF ReadInv
<1>7. q.answer = "ok" /\ q.kind = "compare" =>
        /\ q.args[1] \in Known /\ q.args[2] \in Known
        /\ q.got = <<files[q.args[1]], files[q.args[2]]>>
  BY <1>2, <1>3, Parts DEF ReadInv
<1>8. q.answer = "ok" => Range(q.args) \subseteq Known
  <2>1. /\ q.args \in Seq(Ids)
        /\ q.kind = "download" => Len(q.args) = 1
        /\ q.kind = "compare" => Len(q.args) = 2
        /\ q.kind \notin {"download", "compare"} => q.args = <<>>
    BY Parts DEF RequestOK, KindInv
  <2>2. DOMAIN q.args = 1 .. Len(q.args)
    BY <2>1
  <2>3. CASE q.kind = "download"
    <3>1. DOMAIN q.args = {1}
      <4>1. DOMAIN q.args = 1 .. 1
        BY <2>1, <2>2, <2>3
      <4>2. 1 .. 1 = {1}
        OBVIOUS
      <4> QED BY <4>1, <4>2
    <3> QED BY <1>6, <2>3, <3>1 DEF Range
  <2>4. CASE q.kind = "compare"
    <3>1. DOMAIN q.args = {1, 2}
      <4>1. DOMAIN q.args = 1 .. 2
        BY <2>1, <2>2, <2>4
      <4>2. 1 .. 2 = {1, 2}
        OBVIOUS
      <4> QED BY <4>1, <4>2
    <3> QED BY <1>7, <2>4, <3>1 DEF Range
  <2>5. CASE q.kind \notin {"download", "compare"}
    <3>1. DOMAIN q.args = {}
      BY <2>1, <2>5
    <3> QED BY <3>1 DEF Range
  <2> QED BY <2>3, <2>4, <2>5
<1>9. q.answer = "ok" /\ q.kind = "download" =>
        IF q.err = "unread" THEN IsPrefix(q.got, whole(q.args[1])) ELSE q.got = whole(q.args[1])
  BY <1>1, <1>2, <1>6
<1>10. q.answer = "ok" /\ q.kind = "compare" => q.got = <<whole(q.args[1]), whole(q.args[2])>>
  BY <1>1, <1>7
<1> HIDE DEF q, whole
<1>11. /\ q.answer = "ok" =>
            /\ Range(q.args) \subseteq Known
            /\ q.kind = "fetch" => q.got = Body(r) /\ (q.id \in cut \/ files[q.id] = Body(r))
            /\ q.kind = "download" =>
                 IF q.err = "unread" THEN IsPrefix(q.got, whole(q.args[1])) ELSE q.got = whole(q.args[1])
            /\ q.kind = "compare" => q.got = <<whole(q.args[1]), whole(q.args[2])>>
       /\ q.answer = "not found" => Unknown \in Range(q.args)
       /\ q.answer = "invalid" => Malformed \in Range(q.args) \/ q.kind = "fetch"
  BY <1>2, <1>5, <1>8, <1>9, <1>10
<1> QED BY <1>11, Zenon DEF q, whole

\* A success says what happened and a refusal why: what was asked for was delivered
\* whole, and nothing a client was told of is not found (httphandlers/handlers.go,
\* grpcserver/handler.go).
THEOREM AnswersAreTrueHolds == Spec => []AnswersAreTrue
BY IInvHolds, AnswersAreTrueFollows, PTL

LEMMA OneOrNone ==
  ASSUME NEW S, NEW o, NEW hands, S = {r \in Requests : hands[r] = o}, o # None,
         \A r, q \in Requests : r # q /\ hands[r] # None => hands[r] # hands[q]
  PROVE  Cardinality(S) = IF \A r \in Requests : hands[r] # o THEN 0 ELSE 1
<1>1. CASE \A r \in Requests : hands[r] # o
  BY <1>1, FS_EmptySet
<1>2. CASE ~\A r \in Requests : hands[r] # o
  <2>1. PICK r \in Requests : S = {r}
    BY <1>2
  <2> QED BY <1>2, <2>1, FS_Singleton
<1> QED BY <1>1, <1>2

LEMMA ExclusiveFollows == IInv => Exclusive
<1> SUFFICES ASSUME IInv, NEW s \in Servers
             PROVE  LET mine == {r \in Requests : AtWork(r) /\ req[r].server = s}
                        holders(o) == {r \in mine : req[r].writer = o}
                        encoders(o) == {r \in mine : At(r, "encode") /\ req[r].handle = o}
                    IN /\ \A o \in Objects(s) :
                            /\ Cardinality(holders(o)) = IF o \in pool[s] THEN 0 ELSE 1
                            /\ Cardinality(encoders(o)) = IF o \in uuids[s] THEN 0 ELSE 1
                       /\ conns[s] = Cardinality({r \in mine : req[r].pc \in {"headers", "page", "stalled"}})
  BY DEF Exclusive
<1> DEFINE mine == {r \in Requests : AtWork(r) /\ req[r].server = s}
           holders(o) == {r \in mine : req[r].writer = o}
           encoders(o) == {r \in mine : At(r, "encode") /\ req[r].handle = o}
<1>1. Lent(pool, Writers) /\ Lent(uuids, Encoders) /\ conns[s] = Cardinality(Connected(s))
  BY Shared DEF PoolsOK, ConnsOK
<1>2. \A o \in Objects(s) : o # None /\ \A t \in Servers : o \in Objects(t) => t = s
  BY ObjectFacts
<1>3. ASSUME NEW o \in Objects(s)
      PROVE  Cardinality(holders(o)) = IF o \in pool[s] THEN 0 ELSE 1
  <2>1. ASSUME NEW r \in Requests, req[r].writer = o PROVE r \in mine
    <3>1. req[r].pc \in {"copy", "close"} /\ req[r].writer \in Objects(req[r].server)
          /\ req[r].server \in Servers
      BY <1>2, <2>1, Parts DEF RequestOK, KindInv, HandsInv, Writers
    <3> QED BY <1>2, <2>1, <3>1 DEF AtWork, At
  <2>2. holders(o) = {r \in Requests : Writers[r] = o}
    BY <2>1 DEF Writers
  <2>3. o \in pool[s] <=> \A r \in Requests : Writers[r] # o
    BY <1>1 DEF Lent
  <2>4. \A r, q \in Requests : r # q /\ Writers[r] # None => Writers[r] # Writers[q]
    BY <1>1 DEF Lent
  <2> DEFINE S == holders(o)
  <2>5. S = {r \in Requests : Writers[r] = o} /\ o # None
    BY <1>2, <2>2
  <2> HIDE DEF S
  <2>6. Cardinality(S) = IF \A r \in Requests : Writers[r] # o THEN 0 ELSE 1
    BY <2>4, <2>5, OneOrNone
  <2> QED BY <2>3, <2>6 DEF S
<1>4. ASSUME NEW o \in Objects(s)
      PROVE  Cardinality(encoders(o)) = IF o \in uuids[s] THEN 0 ELSE 1
  <2>1. ASSUME NEW r \in Requests, At(r, "encode"), req[r].handle = o PROVE r \in mine
    <3>1. Encoders[r] = o /\ Encoders[r] \in Objects(req[r].server) /\ req[r].server \in Servers
      BY <2>1, Parts DEF Encoders, HandsInv, KindInv, At
    <3> QED BY <1>2, <2>1, <3>1 DEF AtWork, At
  <2>2. encoders(o) = {r \in Requests : Encoders[r] = o}
    BY <1>2, <2>1 DEF Encoders
  <2>3. o \in uuids[s] <=> \A r \in Requests : Encoders[r] # o
    BY <1>1 DEF Lent
  <2>4. \A r, q \in Requests : r # q /\ Encoders[r] # None => Encoders[r] # Encoders[q]
    BY <1>1 DEF Lent
  <2> DEFINE S == encoders(o)
  <2>5. S = {r \in Requests : Encoders[r] = o} /\ o # None
    BY <1>2, <2>2
  <2> HIDE DEF S
  <2>6. Cardinality(S) = IF \A r \in Requests : Encoders[r] # o THEN 0 ELSE 1
    BY <2>4, <2>5, OneOrNone
  <2> QED BY <2>3, <2>6 DEF S
<1>5. Connected(s) = {r \in mine : req[r].pc \in {"headers", "page", "stalled"}}
  BY DEF Connected, AtWork, At
<1> QED BY <1>1, <1>3, <1>4, <1>5

\* No pooled writer, and no buffer of random bytes, is in the hands of two requests
\* or lost, and no connection is leaked (spiff_fs.go:39-46, uuid.go:11-35,
\* netfetch.go:96-118).
THEOREM ExclusiveHolds == Spec => []Exclusive
BY IInvHolds, ExclusiveFollows, PTL
=============================================================================
