----------------------------- MODULE Diff_proofs -----------------------------
(***************************************************************************)
(* Proofs about the diff for any lines, files of any length, any budget and *)
(* any limit to the table.                                                  *)
(***************************************************************************)
EXTENDS Diff, SequenceTheorems, FiniteSetTheorems, TLAPS

(* Least and greatest numbers *)

LEMMA Least ==
  ASSUME NEW S \in SUBSET Nat, S # {}
  PROVE  \E i \in S : \A j \in S : i <= j
<1> DEFINE R == OpToRel(<, Nat)
<1>1. \A i, j \in Nat : <<i, j>> \in R <=> i < j
  BY DEF OpToRel
<1>2. IsWellFoundedOn(R, Nat)
  BY NatLessThanWellFounded
<1> HIDE DEF R
<1>3. PICK i \in S : \A j \in S : ~ (<<j, i>> \in R)
  BY <1>2, WFMin
<1>4. ASSUME NEW j \in S PROVE i <= j
  <2>1. <<j, i>> \in R <=> j < i
    BY <1>1
  <2>2. ~ (j < i)
    BY <1>3, <2>1
  <2> QED BY <2>2
<1> QED BY <1>4

LEMMA Greatest ==
  ASSUME NEW S \in SUBSET Int, S # {}, NEW N \in Int, \A i \in S : i <= N
  PROVE  Max(S) \in S /\ \A i \in S : i <= Max(S)
<1> DEFINE T == {N - i : i \in S}
<1>1. T \in SUBSET Nat /\ T # {}
  <2>1. \A i \in S : N - i \in Nat
    OBVIOUS
  <2> QED BY <2>1
<1>2. PICK z \in T : \A e \in T : z <= e
  BY <1>1, Least
<1>3. PICK i \in S : z = N - i
  BY <1>2
<1>4. \A j \in S : i >= j
  BY <1>2, <1>3
<1> QED BY <1>3, <1>4 DEF Max

LEMMA RootFacts ==
  ASSUME NEW z \in Nat
  PROVE  SquareRoot(z) \in 0 .. z /\ (z > 0 => SquareRoot(z) >= 1)
<1> DEFINE S == {r \in 0 .. z : r * r <= z}
<1>1. S \in SUBSET Int /\ 0 \in S /\ \A r \in S : r <= z
  OBVIOUS
<1>2. PICK r \in S : \A q \in S : q <= r
  <2>1. S # {} /\ z \in Int
    BY <1>1
  <2> HIDE DEF S
  <2> QED BY <1>1, <2>1, Greatest
<1>3. z < (r + 1) * (r + 1)
  <2>1. CASE r = z
    BY <2>1
  <2>2. CASE r < z
    BY <1>2, <2>2
  <2> QED BY <2>1, <2>2
<1>4. /\ SquareRoot(z) \in 0 .. z
      /\ z < (SquareRoot(z) + 1) * (SquareRoot(z) + 1)
  BY <1>2, <1>3 DEF SquareRoot
<1> QED BY <1>4

LEMMA MinFacts ==
  ASSUME NEW i \in Int, NEW j \in Int
  PROVE  Min({i, j}) = IF i <= j THEN i ELSE j
BY DEF Min

LEMMA FileFacts ==
  ASSUME NEW s \in Files
  PROVE  s \in Seq(Lines) /\ Len(s) \in Nat /\ DOMAIN s = 1 .. Len(s) /\ s \in [1 .. Len(s) -> Lines]
         /\ Len(s) <= MaxLen
<1>1. PICK l \in 0 .. MaxLen : s \in [1 .. l -> Lines]
  BY DiffAssumption DEF Files
<1>2. s \in Seq(Lines) /\ Len(s) = l
  BY <1>1
<1> QED BY <1>1, <1>2, DiffAssumption
-----------------------------------------------------------------------------
(* The diagonals of a round *)

LEMMA ReachedFacts ==
  ASSUME NEW D \in Int, NEW j \in Reached(D)
  PROVE  /\ j \in Int /\ D >= 0 /\ j >= -D /\ j <= D
         /\ j + 1 \in Reached(D + 1) /\ j - 1 \in Reached(D + 1)
         /\ j # -D => j - 1 \in Reached(D - 1) /\ j >= 2 - D
         /\ j # D => j + 1 \in Reached(D - 1) /\ j + 2 \in Reached(D) /\ j <= D - 2
         /\ j \notin Reached(D - 1)
<1>1. PICK i \in 0 .. D : j = 2 * i - D
  BY DEF Reached
<1>0. j \in Int /\ D >= 0 /\ j >= -D /\ j <= D
  BY <1>1
<1>2. j + 1 = 2 * (i + 1) - (D + 1) /\ j - 1 = 2 * i - (D + 1)
  BY <1>1
<1>3. j # -D => i - 1 \in 0 .. D - 1 /\ j - 1 = 2 * (i - 1) - (D - 1)
  BY <1>1
<1>4. j # D => i \in 0 .. D - 1 /\ j + 1 = 2 * i - (D - 1) /\ i + 1 \in 0 .. D /\ j + 2 = 2 * (i + 1) - D
  BY <1>1
<1>5. j \notin Reached(D - 1)
  BY <1>1 DEF Reached
<1>6. j + 1 \in Reached(D + 1) /\ j - 1 \in Reached(D + 1)
  BY <1>1, <1>2 DEF Reached
<1>7. j # -D => j - 1 \in Reached(D - 1) /\ j >= 2 - D
  BY <1>1, <1>3 DEF Reached
<1>8. j # D => j + 1 \in Reached(D - 1) /\ j + 2 \in Reached(D) /\ j <= D - 2
  BY <1>1, <1>4 DEF Reached
<1> QED BY <1>0, <1>5, <1>6, <1>7, <1>8

LEMMA ReachedBounds ==
  ASSUME NEW D \in Nat
  PROVE  -D \in Reached(D) /\ D \in Reached(D) /\ Reached(-1) = {}
<1>1. 0 \in 0 .. D /\ D \in 0 .. D /\ -D = 2 * 0 - D /\ D = 2 * D - D /\ 0 .. -1 = {}
  OBVIOUS
<1> QED BY <1>1 DEF Reached

\* Every diagonal is one of this round or of the last.
LEMMA ReachedEither ==
  ASSUME NEW D \in Nat, NEW j \in -D .. D
  PROVE  j \in Reached(D) \/ j \in Reached(D - 1)
<1>1. PICK i \in Int : j + D = 2 * i \/ j + D = 2 * i + 1
  <2>1. (j + D) \div 2 \in Int /\ (j + D = 2 * ((j + D) \div 2) \/ j + D = 2 * ((j + D) \div 2) + 1)
    OBVIOUS
  <2> QED BY <2>1
<1>2. CASE j + D = 2 * i
  BY <1>2 DEF Reached
<1>3. CASE j + D = 2 * i + 1
  <2>1. i \in 0 .. D - 1 /\ j = 2 * i - (D - 1)
    BY <1>3
  <2> QED BY <2>1 DEF Reached
<1> QED BY <1>1, <1>2, <1>3

\* Diagonals of one round are two apart.
LEMMA ReachedApart ==
  ASSUME NEW D \in Int, NEW i \in Reached(D), NEW j \in Reached(D), i < j
  PROVE  i + 2 <= j /\ i + 2 \in Reached(D)
<1>1. PICK q \in 0 .. D : i = 2 * q - D
  BY DEF Reached
<1>2. PICK r \in 0 .. D : j = 2 * r - D
  BY DEF Reached
<1>3. q + 1 \in 0 .. D /\ i + 2 = 2 * (q + 1) - D
  BY <1>1, <1>2
<1> QED BY <1>1, <1>2, <1>3 DEF Reached
-----------------------------------------------------------------------------
(* One diagonal in a round *)

Arguments == a \in Files /\ b \in Files /\ n + m > 0 /\ maxD \in 1 .. n + m

LEMMA ArgumentFacts ==
  ASSUME a \in Files, b \in Files
  PROVE  /\ n \in Nat /\ m \in Nat /\ a \in Seq(Lines) /\ b \in Seq(Lines)
         /\ DOMAIN a = 1 .. n /\ DOMAIN b = 1 .. m
BY FileFacts DEF n, m

\* The lines of a snake are equal, and the next ones are not.
LEMMA SnakeFacts ==
  ASSUME a \in Files, b \in Files, NEW i \in Nat, NEW j \in Int
  PROVE  /\ Snake(i, j) \in Nat
         /\ Snake(i, j) > 0 => i + Snake(i, j) <= n /\ j + Snake(i, j) <= m
         /\ \A s \in 1 .. Snake(i, j) : a[i + s] = b[j + s]
         /\ i + Snake(i, j) < n /\ j + Snake(i, j) < m =>
              a[i + Snake(i, j) + 1] # b[j + Snake(i, j) + 1]
<1> DEFINE Run(r) == j + r <= m /\ \A s \in 1 .. r : a[i + s] = b[j + s]
           S == {0} \cup {r \in 1 .. n - i : Run(r)}
<1>1. n \in Nat /\ m \in Nat
  BY ArgumentFacts
<1>2. S \in SUBSET Int /\ S # {} /\ \A r \in S : r <= n
  BY <1>1
<1>3. Max(S) \in S /\ \A r \in S : r <= Max(S)
  <2> HIDE DEF S
  <2>1. n \in Int
    BY <1>1
  <2> QED BY <1>2, <2>1, Greatest
<1>4. Snake(i, j) = Max(S)
  BY DEF Snake
<1> DEFINE z == Snake(i, j)
<1>5. z \in Nat /\ (z > 0 => z \in 1 .. n - i /\ Run(z))
  <2> HIDE DEF Run
  <2> QED BY <1>1, <1>3, <1>4
<1>6. z + 1 \in 1 .. n - i => ~Run(z + 1)
  <2> HIDE DEF Run
  <2> QED BY <1>1, <1>3, <1>4, <1>5
<1> HIDE DEF S
<1>7. ASSUME i + z < n, j + z < m, a[i + z + 1] = b[j + z + 1] PROVE FALSE
  <2>1. \A s \in 1 .. z : a[i + s] = b[j + s]
    BY <1>1, <1>5
  <2>2. \A s \in 1 .. z + 1 : a[i + s] = b[j + s]
    <3> TAKE s \in 1 .. z + 1
    <3>1. s \in 1 .. z \/ s = z + 1
      BY <1>5
    <3>2. CASE s = z + 1
      <4>1. i + (z + 1) = i + z + 1 /\ j + (z + 1) = j + z + 1
        BY <1>5
      <4> QED BY <1>7, <3>2, <4>1
    <3> QED BY <2>1, <3>1, <3>2
  <2>3. j + (z + 1) <= m /\ z + 1 \in 1 .. n - i
    BY <1>1, <1>5, <1>7
  <2> QED BY <1>6, <2>2, <2>3
<1>8. \A s \in 1 .. z : a[i + s] = b[j + s]
  BY <1>5
<1> HIDE DEF Run
<1>9. z > 0 => i + z <= n
  BY <1>1, <1>5
<1>10. z > 0 => j + z <= m
  BY <1>1, <1>5 DEF Run
<1> QED BY <1>5, <1>7, <1>8, <1>9, <1>10

\* Where diagonal j of round D begins: at the furthest that one edit leads to.
Begin(w, j, D) == IF Down(w, j, D) THEN w[At(j + 1)] ELSE w[At(j - 1)] + 1

LEMMA Indices ==
  ASSUME maxD \in Nat, NEW j \in -maxD .. maxD
  PROVE  At(j) \in Diagonals(maxD) /\ \A i \in Int : At(i) = At(j) => i = j
BY DEF At, Diagonals

LEMMA BeginFacts ==
  ASSUME Arguments, NEW w \in [Diagonals(maxD) -> Nat], NEW D \in 0 .. maxD,
         NEW j \in Reached(D), D = 0 => w[At(1)] = 0
  PROVE  /\ Begin(w, j, D) \in Nat
         /\ D = 0 => Begin(w, j, D) = 0
         /\ j + 1 \in Reached(D - 1) => Begin(w, j, D) >= w[At(j + 1)]
         /\ j - 1 \in Reached(D - 1) => Begin(w, j, D) > w[At(j - 1)]
         /\ \/ D = 0
            \/ j + 1 \in Reached(D - 1) /\ Begin(w, j, D) = w[At(j + 1)]
            \/ j - 1 \in Reached(D - 1) /\ Begin(w, j, D) = w[At(j - 1)] + 1
<1>1. maxD \in Nat \ {0} /\ n \in Nat /\ m \in Nat
  BY ArgumentFacts DEF Arguments
<1>2. /\ j \in Int /\ j >= -D /\ j <= D
      /\ j # -D => j - 1 \in Reached(D - 1) /\ j >= 2 - D
      /\ j # D => j + 1 \in Reached(D - 1) /\ j <= D - 2
  BY ReachedFacts, <1>1
<1>3. j + 1 \in Reached(D - 1) => j + 1 <= D - 1 /\ w[At(j + 1)] \in Nat
  <2> HAVE j + 1 \in Reached(D - 1)
  <2>1. j + 1 <= D - 1 /\ j + 1 \in -maxD .. maxD
    BY <1>1, <1>2, ReachedFacts
  <2> QED BY <1>1, <2>1, Indices
<1>4. j - 1 \in Reached(D - 1) => j - 1 >= -(D - 1) /\ w[At(j - 1)] \in Nat
  <2> HAVE j - 1 \in Reached(D - 1)
  <2>1. j - 1 >= -(D - 1) /\ j - 1 \in -maxD .. maxD
    BY <1>1, <1>2, ReachedFacts
  <2> QED BY <1>1, <2>1, Indices
<1>5. CASE j = -D
  <2>1. Begin(w, j, D) = w[At(j + 1)] /\ j - 1 \notin Reached(D - 1)
    BY <1>1, <1>2, <1>4, <1>5 DEF Begin, Down
  <2>2. CASE D = 0
    <3>1. j + 1 = 1 /\ j + 1 \notin Reached(D - 1)
      BY <1>1, <1>3, <1>5, <2>2
    <3> QED BY <2>1, <2>2, <3>1
  <2>3. CASE D > 0
    <3>1. j + 1 \in Reached(D - 1)
      BY <1>1, <1>2, <1>5, <2>3
    <3> QED BY <1>3, <2>1, <2>3, <3>1
  <2> QED BY <1>1, <2>2, <2>3
<1>6. CASE j # -D /\ j = D
  <2>1. Begin(w, j, D) = w[At(j - 1)] + 1 /\ j + 1 \notin Reached(D - 1)
    BY <1>1, <1>2, <1>3, <1>6 DEF Begin, Down
  <2> QED BY <1>1, <1>2, <1>4, <1>6, <2>1
<1>7. CASE j # -D /\ j # D
  <2>1. /\ w[At(j - 1)] < w[At(j + 1)] => Begin(w, j, D) = w[At(j + 1)]
        /\ ~(w[At(j - 1)] < w[At(j + 1)]) => Begin(w, j, D) = w[At(j - 1)] + 1
    BY <1>7 DEF Begin, Down
  <2> QED BY <1>1, <1>2, <1>3, <1>4, <1>7, <2>1
<1> QED BY <1>5, <1>6, <1>7

\* Diagonal j of round D gets on by an edit at least, and outside the files no nearer to
\* the end than its neighbours did.
LEMMA ReachFacts ==
  ASSUME Arguments, NEW w \in [Diagonals(maxD) -> 0 .. n + maxD], NEW D \in 0 .. maxD,
         NEW j \in Reached(D), D = 0 => w[At(1)] = 0, Inside(w, D), Advance(w, D)
  PROVE  LET r == ReachOn(w, j, D)
         IN /\ r \in Nat /\ r >= j /\ r <= n + D
            /\ r >= Begin(w, j, D) /\ Begin(w, j, D) \in Nat /\ Begin(w, j, D) >= j
            /\ 2 * r - j >= D
            /\ j + 1 \in Reached(D - 1) => r >= w[At(j + 1)]
            /\ j - 1 \in Reached(D - 1) => r > w[At(j - 1)]
            /\ r > n => j - 1 \in Reached(D - 1) /\ w[At(j - 1)] >= r - 1
            /\ r - j > m => j + 1 \in Reached(D - 1) /\ w[At(j + 1)] >= r
            /\ AtEnd(r, r - j) => r = n /\ j = n - m
<1> DEFINE i == Begin(w, j, D)
           s == Snake(i, i - j)
           r == ReachOn(w, j, D)
<1>1. maxD \in Nat /\ n \in Nat /\ m \in Nat /\ a \in Files /\ b \in Files
  BY ArgumentFacts DEF Arguments
<1>2. w \in [Diagonals(maxD) -> Nat] /\ j \in Int /\ j >= -D /\ j <= D
  BY <1>1, ReachedFacts
<1>3. /\ i \in Nat
      /\ D = 0 => i = 0
      /\ j + 1 \in Reached(D - 1) => i >= w[At(j + 1)]
      /\ j - 1 \in Reached(D - 1) => i > w[At(j - 1)]
      /\ \/ D = 0
         \/ j + 1 \in Reached(D - 1) /\ i = w[At(j + 1)]
         \/ j - 1 \in Reached(D - 1) /\ i = w[At(j - 1)] + 1
  BY <1>2, BeginFacts
<1> HIDE DEF i
<1>4. r = i + s
  BY DEF ReachOn, Begin, i
<1>5. s \in Nat /\ (s > 0 => i + s <= n /\ (i - j) + s <= m)
  <2>1. i - j \in Int
    BY <1>2, <1>3
  <2> QED BY <1>1, <1>3, <2>1, SnakeFacts
<1> HIDE DEF s, r
<1>6. ASSUME NEW q \in Reached(D - 1)
      PROVE  /\ q \in Int /\ q \in -(D - 1) .. D - 1
             /\ w[At(q)] \in Nat /\ w[At(q)] >= q /\ w[At(q)] <= n + D - 1
             /\ ~AtEnd(w[At(q)], w[At(q)] - q)
             /\ 2 * w[At(q)] - q >= D - 1
             /\ q + 1 \in Reached(D - 2) => w[At(q)] >= w[At(q + 1)]
             /\ q - 1 \in Reached(D - 2) => w[At(q)] > w[At(q - 1)]
             /\ w[At(q)] > n => q - 1 \in Reached(D - 2) /\ w[At(q - 1)] >= w[At(q)] - 1
             /\ w[At(q)] - q > m => q + 1 \in Reached(D - 2) /\ w[At(q + 1)] >= w[At(q)]
  <2>1. q \in Int /\ q \in -(D - 1) .. D - 1 /\ q \in -maxD .. maxD
    BY <1>1, ReachedFacts
  <2>2. w[At(q)] \in Nat
    BY <1>1, <1>2, <2>1, Indices
  <2>3. w[At(q)] >= q /\ w[At(q)] <= n + D - 1 /\ ~AtEnd(w[At(q)], w[At(q)] - q)
    BY <2>1 DEF Inside
  <2> QED BY <2>1, <2>2, <2>3 DEF Advance
<1>7. ASSUME NEW q \in Reached(D - 2)
      PROVE  /\ q - 1 \in Reached(D - 1) /\ q + 1 \in Reached(D - 1) /\ q \in Int
             /\ w[At(q)] \in Nat
  <2>1. D - 2 \in Int /\ D - 2 + 1 = D - 1
    OBVIOUS
  <2>2. q \in Int /\ D - 2 >= 0 /\ q >= -(D - 2) /\ q <= D - 2 /\ q - 1 \in Reached(D - 2 + 1) /\ q + 1 \in Reached(D - 2 + 1)
    BY <2>1, ReachedFacts
  <2>3. q \in -maxD .. maxD
    BY <1>1, <2>2
  <2> QED BY <1>1, <1>2, <2>1, <2>2, <2>3, Indices
<1>8. i >= j /\ i <= n + D /\ 2 * i - j >= D
  <2>1. CASE D = 0
    BY <1>1, <1>2, <1>3, <2>1
  <2>2. CASE j + 1 \in Reached(D - 1) /\ i = w[At(j + 1)]
    BY <1>1, <1>2, <1>3, <1>6, <2>2
  <2>3. CASE j - 1 \in Reached(D - 1) /\ i = w[At(j - 1)] + 1
    BY <1>1, <1>2, <1>3, <1>6, <2>3
  <2> QED BY <1>3, <2>1, <2>2, <2>3
<1>9. r \in Nat /\ r >= j /\ r <= n + D /\ r >= i /\ 2 * r - j >= D
  BY <1>1, <1>2, <1>3, <1>4, <1>5, <1>8
<1>10. /\ j + 1 \in Reached(D - 1) => r >= w[At(j + 1)]
       /\ j - 1 \in Reached(D - 1) => r > w[At(j - 1)]
  BY <1>1, <1>2, <1>3, <1>6, <1>9
<1>11. r > n => j - 1 \in Reached(D - 1) /\ w[At(j - 1)] >= r - 1
  <2> HAVE r > n
  <2>1. r = i
    BY <1>1, <1>3, <1>4, <1>5
  <2>2. CASE D = 0
    BY <1>1, <1>3, <2>1, <2>2
  <2>3. CASE j + 1 \in Reached(D - 1) /\ i = w[At(j + 1)]
    <3>1. j \in Reached(D - 2) /\ w[At(j)] >= r - 1
      <4>1. PICK q \in Reached(D - 1) : q = j + 1
        BY <2>3
      <4>2. q - 1 = j
        BY <1>2, <4>1
      <4>3. q - 1 \in Reached(D - 2) /\ w[At(q - 1)] >= w[At(q)] - 1
        BY <1>6, <2>1, <2>3, <4>1
      <4> QED BY <2>1, <2>3, <4>1, <4>2, <4>3
    <3>2. j - 1 \in Reached(D - 1) /\ w[At(j)] \in Nat
      BY <1>7, <3>1
    <3>3. w[At(j - 1)] >= w[At(j)] /\ w[At(j - 1)] \in Nat
      <4>1. j - 1 + 1 = j
        BY <1>2
      <4> QED BY <1>6, <3>1, <3>2, <4>1
    <3> QED BY <1>9, <3>1, <3>2, <3>3
  <2>4. CASE j - 1 \in Reached(D - 1) /\ i = w[At(j - 1)] + 1
    BY <1>6, <2>1, <2>4
  <2> QED BY <1>3, <2>2, <2>3, <2>4
<1>12. r - j > m => j + 1 \in Reached(D - 1) /\ w[At(j + 1)] >= r
  <2> HAVE r - j > m
  <2>1. r = i
    BY <1>1, <1>2, <1>3, <1>4, <1>5
  <2>2. CASE D = 0
    BY <1>1, <1>2, <1>3, <2>1, <2>2
  <2>3. CASE j - 1 \in Reached(D - 1) /\ i = w[At(j - 1)] + 1
    <3>0. w[At(j - 1)] \in Nat /\ w[At(j - 1)] = r - 1 /\ w[At(j - 1)] - (j - 1) > m
      BY <1>1, <1>2, <1>6, <2>1, <2>3
    <3>1. j \in Reached(D - 2) /\ w[At(j)] >= r - 1
      <4>1. j - 1 + 1 = j
        BY <1>2
      <4> QED BY <1>6, <2>3, <3>0, <4>1
    <3>2. j + 1 \in Reached(D - 1) /\ w[At(j)] \in Nat
      BY <1>7, <3>1
    <3>3. w[At(j + 1)] > w[At(j)] /\ w[At(j + 1)] \in Nat
      <4>1. PICK q \in Reached(D - 1) : q = j + 1
        BY <3>2
      <4>2. q - 1 = j
        BY <1>2, <4>1
      <4>3. w[At(q)] > w[At(q - 1)] /\ w[At(q)] \in Nat
        BY <1>6, <3>1, <4>2
      <4> QED BY <4>1, <4>2, <4>3
    <3> QED BY <1>9, <3>1, <3>2, <3>3
  <2>4. CASE j + 1 \in Reached(D - 1) /\ i = w[At(j + 1)]
    BY <1>6, <2>1, <2>4
  <2> QED BY <1>3, <2>2, <2>3, <2>4
<1>13. AtEnd(r, r - j) => r = n /\ j = n - m
  <2> HAVE AtEnd(r, r - j)
  <2>1. r >= n /\ r - j >= m
    BY DEF AtEnd
  <2>2. ~(r > n)
    <3> SUFFICES ASSUME r > n PROVE FALSE
      OBVIOUS
    <3>1. j - 1 \in Reached(D - 1) /\ w[At(j - 1)] >= r - 1
      BY <1>11
    <3>2. w[At(j - 1)] \in Nat /\ ~AtEnd(w[At(j - 1)], w[At(j - 1)] - (j - 1))
      BY <1>6, <3>1
    <3> QED BY <1>1, <1>2, <1>9, <2>1, <3>1, <3>2 DEF AtEnd
  <2>3. ~(r - j > m)
    <3> SUFFICES ASSUME r - j > m PROVE FALSE
      OBVIOUS
    <3>1. j + 1 \in Reached(D - 1) /\ w[At(j + 1)] >= r
      BY <1>12
    <3>2. w[At(j + 1)] \in Nat /\ ~AtEnd(w[At(j + 1)], w[At(j + 1)] - (j + 1))
      BY <1>6, <3>1
    <3> QED BY <1>1, <1>2, <1>9, <2>1, <3>1, <3>2 DEF AtEnd
  <2> QED BY <1>1, <1>2, <1>9, <2>1, <2>2, <2>3
<1> QED BY <1>3, <1>8, <1>9, <1>10, <1>11, <1>12, <1>13 DEF i, r

\* A round without finding the end keeps what is known of the diagonals.
LEMMA RoundOn ==
  ASSUME Arguments, NEW w \in [Diagonals(maxD) -> 0 .. n + maxD],
         NEW u \in [Diagonals(maxD) -> 0 .. n + maxD], NEW D \in 0 .. maxD,
         D = 0 => w[At(1)] = 0, Inside(w, D), Advance(w, D), After(w, u, D),
         \A j \in Reached(D - 1) : u[At(j)] = w[At(j)],
         \A j \in Reached(D) : ~AtEnd(u[At(j)], u[At(j)] - j)
  PROVE  Inside(u, D + 1) /\ Advance(u, D + 1)
<1>1. D \in Nat /\ n \in Nat /\ m \in Nat /\ D + 1 - 1 = D /\ D + 1 - 2 = D - 1 /\ D - 1 + 1 = D
  BY ArgumentFacts DEF Arguments
<1>2. ASSUME NEW j \in Reached(D)
      PROVE  LET r == u[At(j)]
             IN /\ r \in Nat /\ j \in Int /\ r >= j /\ r <= n + D
                /\ 2 * r - j >= D
                /\ j + 1 \in Reached(D - 1) => r >= w[At(j + 1)]
                /\ j - 1 \in Reached(D - 1) => r > w[At(j - 1)]
                /\ r > n => j - 1 \in Reached(D - 1) /\ w[At(j - 1)] >= r - 1
                /\ r - j > m => j + 1 \in Reached(D - 1) /\ w[At(j + 1)] >= r
  BY <1>1, ReachFacts, ReachedFacts DEF After
<1>3. Inside(u, D + 1)
  <2>1. ASSUME NEW j \in -D .. D
        PROVE u[At(j)] >= j /\ u[At(j)] <= n + D /\ ~AtEnd(u[At(j)], u[At(j)] - j)
    <3>1. CASE j \in Reached(D)
      BY <1>2, <3>1
    <3>2. CASE j \in Reached(D - 1)
      <4>1. D - 1 \in Int /\ D - 1 >= 0 /\ j >= -(D - 1) /\ j <= D - 1
        BY <1>1, <3>2, ReachedFacts
      <4>2. w[At(j)] >= j /\ w[At(j)] <= n + D - 1 /\ ~AtEnd(w[At(j)], w[At(j)] - j)
        BY <1>1, <4>1 DEF Inside
      <4>3. w[At(j)] \in Nat
        <5>1. j \in -maxD .. maxD /\ maxD \in Nat
          BY <1>1, <4>1 DEF Arguments
        <5> QED BY <1>1, <5>1, Indices DEF Arguments
      <4> QED BY <1>1, <3>2, <4>2, <4>3
    <3> QED BY <1>1, <3>1, <3>2, ReachedEither
  <2> QED BY <1>1, <2>1 DEF Inside
<1>4. Advance(u, D + 1)
  <2>1. \A j \in Reached(D - 1) : u[At(j)] = w[At(j)]
    OBVIOUS
  <2> QED BY <1>1, <1>2, <2>1 DEF Advance
<1> QED BY <1>3, <1>4
-----------------------------------------------------------------------------
(* Common subsequences *)

Rising(f, l) == \A r, q \in 1 .. l : r < q => f[r] < f[q]

\* f and g pick the same l lines from s and t.
Picks(s, t, l, f, g) ==
  /\ f \in [1 .. l -> 1 .. Len(s)] /\ g \in [1 .. l -> 1 .. Len(t)]
  /\ Rising(f, l) /\ Rising(g, l)
  /\ \A r \in 1 .. l : s[f[r]] = t[g[r]]

LEMMA RisingLength ==
  ASSUME NEW l \in Nat, NEW N \in Nat, NEW f \in [1 .. l -> 1 .. N], Rising(f, l)
  PROVE  l <= N
<1> DEFINE S == {r \in 1 .. l : f[r] < r}
<1>1. S = {}
  <2> SUFFICES ASSUME S # {} PROVE FALSE
    OBVIOUS
  <2>1. S \in SUBSET Nat
    OBVIOUS
  <2>2. PICK r \in S : \A q \in S : r <= q
    <3> HIDE DEF S
    <3> QED BY <2>1, Least
  <2>3. r - 1 \in 1 .. l /\ r - 1 \notin S
    BY <2>2
  <2>4. f[r - 1] >= r - 1 /\ f[r - 1] < f[r]
    BY <2>2, <2>3 DEF Rising
  <2> QED BY <2>2, <2>3, <2>4
<1>2. CASE l = 0
  BY <1>2
<1>3. CASE l > 0
  <2>1. l \in 1 .. l /\ l \notin S
    BY <1>1, <1>3
  <2> QED BY <2>1
<1> QED BY <1>2, <1>3

LEMMA LengthsAre ==
  ASSUME NEW s \in Files, NEW t \in Files, NEW l
  PROVE  l \in Lengths(s, t) <=> l \in Nat /\ \E f, g : Picks(s, t, l, f, g)
<1>1. /\ Len(s) \in Nat /\ Len(t) \in Nat
      /\ s \in [1 .. Len(s) -> Lines] /\ t \in [1 .. Len(t) -> Lines]
  BY FileFacts
<1>2. ASSUME l \in Lengths(s, t) PROVE l \in Nat /\ \E f, g : Picks(s, t, l, f, g)
  <2>1. PICK c \in Subsequences[s] \cap Subsequences[t] : l = Len(c)
    BY <1>2 DEF Lengths
  <2>2. PICK f \in Increasing(Len(s)) : c = [r \in DOMAIN f |-> s[f[r]]]
    BY <2>1 DEF Subsequences
  <2>3. PICK g \in Increasing(Len(t)) : c = [r \in DOMAIN g |-> t[g[r]]]
    BY <2>1 DEF Subsequences
  <2>4. PICK p \in 0 .. Len(s) : f \in [1 .. p -> 1 .. Len(s)]
    BY <2>2 DEF Increasing
  <2>5. PICK q \in 0 .. Len(t) : g \in [1 .. q -> 1 .. Len(t)]
    BY <2>3 DEF Increasing
  <2>6. DOMAIN c = 1 .. p /\ DOMAIN c = 1 .. q
    BY <2>2, <2>3, <2>4, <2>5
  <2>7. c \in [1 .. p -> Lines]
    BY <1>1, <2>2, <2>4
  <2>8. l = p /\ p = q
    <3>1. c \in Seq(Lines) /\ Len(c) = p
      BY <1>1, <2>7
    <3> QED BY <1>1, <2>1, <2>6, <3>1
  <2>9. Rising(f, l) /\ Rising(g, l)
    <3>1. \A i, j \in DOMAIN f : i < j => f[i] < f[j]
      BY <2>2 DEF Increasing
    <3>2. \A i, j \in DOMAIN g : i < j => g[i] < g[j]
      BY <2>3 DEF Increasing
    <3>3. DOMAIN f = 1 .. l /\ DOMAIN g = 1 .. l
      BY <2>4, <2>5, <2>8
    <3> QED BY <3>1, <3>2, <3>3 DEF Rising
  <2>10. \A r \in 1 .. l : s[f[r]] = t[g[r]]
    <3> TAKE r \in 1 .. l
    <3>1. c[r] = s[f[r]] /\ c[r] = t[g[r]]
      BY <2>2, <2>3, <2>6, <2>8
    <3> QED BY <3>1
  <2>11. f \in [1 .. l -> 1 .. Len(s)] /\ g \in [1 .. l -> 1 .. Len(t)] /\ l \in Nat
    BY <1>1, <2>4, <2>5, <2>8
  <2>12. Picks(s, t, l, f, g)
    BY <2>9, <2>10, <2>11 DEF Picks
  <2> QED BY <2>11, <2>12
<1>3. ASSUME l \in Nat, NEW f, NEW g, Picks(s, t, l, f, g) PROVE l \in Lengths(s, t)
  <2>1. f \in [1 .. l -> 1 .. Len(s)] /\ g \in [1 .. l -> 1 .. Len(t)]
        /\ Rising(f, l) /\ Rising(g, l) /\ \A r \in 1 .. l : s[f[r]] = t[g[r]]
    BY <1>3 DEF Picks
  <2>2. l <= Len(s) /\ l <= Len(t)
    <3>1. l <= Len(s)
      BY <1>1, <1>3, <2>1, RisingLength
    <3>2. l <= Len(t)
      BY <1>1, <1>3, <2>1, RisingLength
    <3> QED BY <3>1, <3>2
  <2>3. f \in Increasing(Len(s)) /\ g \in Increasing(Len(t))
    BY <1>1, <1>3, <2>1, <2>2, SMTT(30) DEF Increasing, Rising
  <2> DEFINE c == [r \in 1 .. l |-> s[f[r]]]
  <2>4. c = [r \in DOMAIN f |-> s[f[r]]] /\ c = [r \in DOMAIN g |-> t[g[r]]]
    BY <2>1
  <2>5. c \in Subsequences[s] /\ c \in Subsequences[t]
    BY <2>3, <2>4 DEF Subsequences
  <2>6. Len(c) = l
    <3>1. c \in [1 .. l -> Lines]
      BY <1>1, <2>1
    <3> QED BY <1>3, <3>1
  <2> QED BY <2>5, <2>6 DEF Lengths
<1> QED BY <1>2, <1>3

\* The first i lines of a file are a file, and their lines are the file's.
LEMMA PrefixFacts ==
  ASSUME NEW s \in Files, NEW i \in 0 .. Len(s)
  PROVE  /\ SubSeq(s, 1, i) \in Files /\ Len(SubSeq(s, 1, i)) = i
         /\ \A q \in 1 .. i : SubSeq(s, 1, i)[q] = s[q]
<1>1. s \in Seq(Lines) /\ Len(s) \in Nat /\ Len(s) <= MaxLen /\ DOMAIN s = 1 .. Len(s)
  BY FileFacts
<1>2. /\ SubSeq(s, 1, i) \in Seq(Lines) /\ Len(SubSeq(s, 1, i)) = i
      /\ \A q \in 1 .. i : SubSeq(s, 1, i)[q] = s[q]
  <2>1. CASE i = 0
    <3>1. SubSeq(s, 1, 0) = <<>>
      BY <1>1, SubSeqEmpty
    <3> QED BY <2>1, <3>1
  <2>2. CASE i > 0
    <3>1. 1 \in 1 .. Len(s) + 1 /\ i \in 0 .. Len(s)
      BY <1>1
    <3>2. /\ SubSeq(s, 1, i) \in Seq(Lines)
          /\ Len(SubSeq(s, 1, i)) = i
          /\ \A q \in 1 .. i : SubSeq(s, 1, i)[q] = s[q]
      BY <1>1, <2>2, <3>1, SubSeqProperties
    <3> QED BY <3>2
  <2> QED BY <1>1, <2>1, <2>2
<1>3. SubSeq(s, 1, i) \in [1 .. i -> Lines]
  BY <1>2, LenProperties
<1>4. i \in 0 .. MaxLen
  BY <1>1, DiffAssumption
<1> QED BY <1>2, <1>3, <1>4 DEF Files

\* f and g pick the same l lines from the first i of a and the first j of b.
Pairs(i, j, l, f, g) ==
  /\ l \in Nat
  /\ f \in [1 .. l -> 1 .. i] /\ g \in [1 .. l -> 1 .. j]
  /\ Rising(f, l) /\ Rising(g, l)
  /\ \A r \in 1 .. l : a[f[r]] = b[g[r]]

LEMMA MatchesAre ==
  ASSUME a \in Files, b \in Files, NEW i \in 0 .. n, NEW j \in 0 .. m, NEW l
  PROVE  l \in Matches(i, j) <=> \E f, g : Pairs(i, j, l, f, g)
<1> DEFINE s == SubSeq(a, 1, i)
           t == SubSeq(b, 1, j)
<1>1. s \in Files /\ Len(s) = i /\ \A q \in 1 .. i : s[q] = a[q]
  BY PrefixFacts DEF n
<1>2. t \in Files /\ Len(t) = j /\ \A q \in 1 .. j : t[q] = b[q]
  BY PrefixFacts DEF m
<1>3. l \in Matches(i, j) <=> l \in Lengths(s, t)
  BY DEF Matches
<1> HIDE DEF s, t
<1>4. ASSUME NEW f, NEW g, l \in Nat
      PROVE  Picks(s, t, l, f, g) <=> Pairs(i, j, l, f, g)
  BY <1>1, <1>2, <1>4 DEF Picks, Pairs
<1>5. l \in Lengths(s, t) <=> l \in Nat /\ \E f, g : Picks(s, t, l, f, g)
  BY <1>1, <1>2, LengthsAre
<1>6. \A f, g : Pairs(i, j, l, f, g) => l \in Nat
  BY DEF Pairs
<1> QED BY <1>3, <1>4, <1>5, <1>6

LEMMA MatchIs ==
  ASSUME a \in Files, b \in Files, NEW i \in 0 .. n, NEW j \in 0 .. m,
         NEW l \in Nat, NEW f \in [1 .. l -> 1 .. i], NEW g \in [1 .. l -> 1 .. j],
         Rising(f, l), Rising(g, l), \A r \in 1 .. l : a[f[r]] = b[g[r]]
  PROVE  l \in Matches(i, j)
<1>1. Pairs(i, j, l, f, g)
  BY DEF Pairs
<1> QED BY <1>1, MatchesAre

\* What there is to know of common subsequences of prefixes: they start from none,
\* grow with the files, by lines that are equal, and in no other way.
LEMMA MatchNone ==
  ASSUME a \in Files, b \in Files, NEW i \in 0 .. n, NEW j \in 0 .. m
  PROVE  0 \in Matches(i, j)
<1> DEFINE f == [r \in 1 .. 0 |-> 1]
<1>1. f \in [1 .. 0 -> 1 .. i] /\ f \in [1 .. 0 -> 1 .. j]
  OBVIOUS
<1>2. Rising(f, 0) /\ \A r \in 1 .. 0 : a[f[r]] = b[f[r]]
  BY DEF Rising
<1> HIDE DEF f
<1> QED BY <1>1, <1>2, MatchIs

LEMMA MatchBounds ==
  ASSUME a \in Files, b \in Files, NEW i \in 0 .. n, NEW j \in 0 .. m, NEW l \in Matches(i, j)
  PROVE  l \in Nat /\ l <= i /\ l <= j
<1>0. PICK f, g : Pairs(i, j, l, f, g)
  BY MatchesAre
<1>1. /\ l \in Nat /\ f \in [1 .. l -> 1 .. i] /\ g \in [1 .. l -> 1 .. j]
      /\ Rising(f, l) /\ Rising(g, l)
  BY <1>0 DEF Pairs
<1>2. i \in Nat /\ j \in Nat
  BY ArgumentFacts
<1>3. l <= i
  BY <1>1, <1>2, RisingLength
<1>4. l <= j
  BY <1>1, <1>2, RisingLength
<1> QED BY <1>1, <1>3, <1>4

LEMMA MatchWithin ==
  ASSUME a \in Files, b \in Files, NEW i \in 0 .. n, NEW j \in 0 .. m, NEW l \in Matches(i, j),
         NEW p \in i .. n, NEW q \in j .. m
  PROVE  l \in Matches(p, q)
<1>0. PICK f, g : Pairs(i, j, l, f, g)
  BY MatchesAre
<1>1. /\ l \in Nat /\ f \in [1 .. l -> 1 .. i] /\ g \in [1 .. l -> 1 .. j]
      /\ Rising(f, l) /\ Rising(g, l) /\ \A r \in 1 .. l : a[f[r]] = b[g[r]]
  BY <1>0 DEF Pairs
<1>2. i \in Nat /\ j \in Nat /\ p \in 0 .. n /\ q \in 0 .. m
  BY ArgumentFacts
<1>3. f \in [1 .. l -> 1 .. p] /\ g \in [1 .. l -> 1 .. q]
  BY <1>1, <1>2
<1> QED BY <1>1, <1>2, <1>3, MatchIs

LEMMA MatchMore ==
  ASSUME a \in Files, b \in Files, NEW i \in 0 .. n, NEW j \in 0 .. m, NEW l \in Matches(i, j),
         NEW z \in Nat, i + z <= n, j + z <= m, \A s \in 1 .. z : a[i + s] = b[j + s]
  PROVE  l + z \in Matches(i + z, j + z)
<1>0. PICK f, g : Pairs(i, j, l, f, g)
  BY MatchesAre
<1>1. /\ l \in Nat /\ f \in [1 .. l -> 1 .. i] /\ g \in [1 .. l -> 1 .. j]
      /\ Rising(f, l) /\ Rising(g, l) /\ \A r \in 1 .. l : a[f[r]] = b[g[r]]
  BY <1>0 DEF Pairs
<1>2. i \in Nat /\ j \in Nat /\ i + z \in 0 .. n /\ j + z \in 0 .. m /\ n \in Nat /\ m \in Nat
  BY ArgumentFacts
<1> DEFINE ff == [r \in 1 .. l + z |-> IF r <= l THEN f[r] ELSE i + (r - l)]
           gg == [r \in 1 .. l + z |-> IF r <= l THEN g[r] ELSE j + (r - l)]
<1>3. /\ \A r \in 1 .. l : ff[r] = f[r] /\ gg[r] = g[r] /\ f[r] \in 1 .. i /\ g[r] \in 1 .. j
      /\ \A r \in l + 1 .. l + z : /\ ff[r] = i + (r - l) /\ gg[r] = j + (r - l)
                                  /\ r - l \in 1 .. z
      /\ \A r \in 1 .. l + z : r \in 1 .. l \/ r \in l + 1 .. l + z
  BY <1>1
<1>4. ff \in [1 .. l + z -> 1 .. i + z] /\ gg \in [1 .. l + z -> 1 .. j + z]
  BY <1>1, <1>2
<1> HIDE DEF ff, gg
<1>5. Rising(ff, l + z)
  BY <1>1, <1>2, <1>3 DEF Rising
<1>6. Rising(gg, l + z)
  BY <1>1, <1>2, <1>3 DEF Rising
<1>7. \A r \in 1 .. l + z : a[ff[r]] = b[gg[r]]
  <2> TAKE r \in 1 .. l + z
  <2>1. CASE r \in 1 .. l
    BY <1>1, <1>3, <2>1
  <2>2. CASE r \in l + 1 .. l + z
    BY <1>3, <2>2
  <2> QED BY <1>3, <2>1, <2>2
<1>8. l + z \in Nat
  BY <1>1
<1> QED BY <1>2, <1>4, <1>5, <1>6, <1>7, <1>8, MatchIs

LEMMA MatchLast ==
  ASSUME a \in Files, b \in Files, NEW i \in 1 .. n, NEW j \in 1 .. m, NEW l \in Matches(i, j)
  PROVE  \/ l \in Matches(i - 1, j)
         \/ l \in Matches(i, j - 1)
         \/ a[i] = b[j] /\ l - 1 \in Matches(i - 1, j - 1)
<1>1. i \in 0 .. n /\ j \in 0 .. m /\ i - 1 \in 0 .. n /\ j - 1 \in 0 .. m
  BY ArgumentFacts
<1>0. PICK f, g : Pairs(i, j, l, f, g)
  BY <1>1, MatchesAre
<1>2. /\ l \in Nat /\ f \in [1 .. l -> 1 .. i] /\ g \in [1 .. l -> 1 .. j]
      /\ Rising(f, l) /\ Rising(g, l) /\ \A r \in 1 .. l : a[f[r]] = b[g[r]]
  BY <1>0 DEF Pairs
<1>3. CASE l = 0
  BY <1>1, <1>3, MatchNone
<1>4. CASE l > 0
  <2>1. /\ \A r \in 1 .. l - 1 : f[r] < f[l] /\ g[r] < g[l] /\ r \in 1 .. l
        /\ f[l] \in 1 .. i /\ g[l] \in 1 .. j /\ l \in 1 .. l
    BY <1>2, <1>4 DEF Rising
  <2>2. CASE f[l] # i
    <3>1. \A r \in 1 .. l : f[r] \in 1 .. i - 1
      <4> TAKE r \in 1 .. l
      <4>1. r = l \/ r \in 1 .. l - 1
        BY <1>2
      <4>2. f[r] \in 1 .. i /\ f[l] <= i - 1
        BY <1>1, <1>2, <2>1, <2>2
      <4> QED BY <1>1, <2>1, <4>1, <4>2
    <3>2. f \in [1 .. l -> 1 .. i - 1]
      BY <1>2, <3>1
    <3> QED BY <1>1, <1>2, <3>2, MatchIs
  <2>3. CASE g[l] # j
    <3>1. \A r \in 1 .. l : g[r] \in 1 .. j - 1
      <4> TAKE r \in 1 .. l
      <4>1. r = l \/ r \in 1 .. l - 1
        BY <1>2
      <4>2. g[r] \in 1 .. j /\ g[l] <= j - 1
        BY <1>1, <1>2, <2>1, <2>3
      <4> QED BY <1>1, <2>1, <4>1, <4>2
    <3>2. g \in [1 .. l -> 1 .. j - 1]
      BY <1>2, <3>1
    <3> QED BY <1>1, <1>2, <3>2, MatchIs
  <2>4. CASE f[l] = i /\ g[l] = j
    <3> DEFINE ff == [r \in 1 .. l - 1 |-> f[r]]
               gg == [r \in 1 .. l - 1 |-> g[r]]
    <3>1. \A r \in 1 .. l - 1 : /\ r \in 1 .. l /\ ff[r] = f[r] /\ gg[r] = g[r]
                                /\ f[r] \in 1 .. i - 1 /\ g[r] \in 1 .. j - 1
      BY <1>1, <1>2, <2>1, <2>4
    <3>2. ff \in [1 .. l - 1 -> 1 .. i - 1] /\ gg \in [1 .. l - 1 -> 1 .. j - 1] /\ l - 1 \in Nat
      BY <1>2, <1>4, <3>1
    <3> HIDE DEF ff, gg
    <3>3. Rising(ff, l - 1) /\ Rising(gg, l - 1) /\ \A r \in 1 .. l - 1 : a[ff[r]] = b[gg[r]]
      BY <1>2, <3>1 DEF Rising
    <3>4. l - 1 \in Matches(i - 1, j - 1)
      BY <1>1, <3>2, <3>3, MatchIs
    <3> QED BY <1>2, <2>1, <2>4, <3>4
  <2> QED BY <2>2, <2>3, <2>4
<1> QED BY <1>2, <1>3, <1>4

\* The distance of two prefixes is what their longest common subsequence leaves.
LEMMA PrefixDistanceIs ==
  ASSUME a \in Files, b \in Files, NEW i \in 0 .. n, NEW j \in 0 .. m
  PROVE  \E l \in Matches(i, j) :
           /\ PrefixDistance(i, j) = i + j - 2 * l
           /\ \A q \in Matches(i, j) : q <= l
<1>1. i \in Int /\ j \in Int /\ \A q \in Matches(i, j) : q \in Nat /\ q <= i
  BY ArgumentFacts, MatchBounds
<1>2. Matches(i, j) \in SUBSET Int /\ Matches(i, j) # {}
  BY <1>1, MatchNone
<1>3. Max(Matches(i, j)) \in Matches(i, j) /\ \A q \in Matches(i, j) : q <= Max(Matches(i, j))
  BY <1>1, <1>2, Greatest
<1>4. /\ SubSeq(a, 1, i) \in Files /\ Len(SubSeq(a, 1, i)) = i
      /\ SubSeq(b, 1, j) \in Files /\ Len(SubSeq(b, 1, j)) = j
  BY PrefixFacts DEF n, m
<1>5. PrefixDistance(i, j) = i + j - 2 * Max(Matches(i, j))
  BY <1>4 DEF PrefixDistance, Distance, Matches
<1> QED BY <1>3, <1>5

LEMMA Whole ==
  ASSUME NEW s \in Files
  PROVE  SubSeq(s, 1, Len(s)) = s
<1>1. s \in Seq(Lines) /\ Len(s) \in Nat /\ DOMAIN s = 1 .. Len(s)
  BY FileFacts
<1>2. Len(s) \in 0 .. Len(s)
  BY <1>1
<1>3. /\ SubSeq(s, 1, Len(s)) \in Files /\ Len(SubSeq(s, 1, Len(s))) = Len(s)
      /\ \A q \in 1 .. Len(s) : SubSeq(s, 1, Len(s))[q] = s[q]
  BY <1>2, PrefixFacts
<1>4. SubSeq(s, 1, Len(s)) \in Seq(Lines)
  BY <1>3, FileFacts
<1> QED BY <1>1, <1>3, <1>4, SeqEqual

LEMMA DistanceIs ==
  ASSUME a \in Files, b \in Files
  PROVE  \E l \in Matches(n, m) :
           /\ Distance[<<a, b>>] = n + m - 2 * l
           /\ \A q \in Matches(n, m) : q <= l
<1>1. PrefixDistance(n, m) = Distance[<<a, b>>]
  BY Whole DEF PrefixDistance, n, m
<1>2. n \in 0 .. n /\ m \in 0 .. m
  BY ArgumentFacts
<1> QED BY <1>1, <1>2, PrefixDistanceIs
-----------------------------------------------------------------------------
(* What a round reaches *)

\* Each diagonal gets where it gets with an edit a round.
LEMMA RoundAttains ==
  ASSUME Arguments, NEW D \in 0 .. maxD, NEW w, SoFar(w, D), NEW j \in Reached(D),
         NEW r, r = ReachOn(w, j, D), r <= n, r - j <= m
  PROVE  \E l \in Matches(r, r - j) : 2 * r - j - 2 * l = D
<1> DEFINE i == Begin(w, j, D)
           s == Snake(i, i - j)
<1>1. maxD \in Nat /\ n \in Nat /\ m \in Nat /\ a \in Files /\ b \in Files
  BY ArgumentFacts DEF Arguments
<1>2. /\ w \in [Diagonals(maxD) -> 0 .. n + maxD] /\ (D = 0 => w[At(1)] = 0)
      /\ Inside(w, D) /\ Advance(w, D) /\ Attained(w, D)
  BY DEF SoFar
<1>3. /\ w \in [Diagonals(maxD) -> Nat] /\ j \in Int /\ j >= -D /\ j <= D
  BY <1>1, <1>2, ReachedFacts
<1>4. /\ i \in Nat
      /\ D = 0 => i = 0
      /\ \/ D = 0
         \/ j + 1 \in Reached(D - 1) /\ i = w[At(j + 1)]
         \/ j - 1 \in Reached(D - 1) /\ i = w[At(j - 1)] + 1
  BY <1>2, <1>3, BeginFacts
<1>5. r \in Nat /\ i >= j
  BY <1>2, ReachFacts
<1> HIDE DEF i
<1>6. r = i + s
  BY DEF ReachOn, Begin, i
<1>7. s \in Nat /\ \A q \in 1 .. s : a[i + q] = b[i - j + q]
  <2>1. i - j \in Int
    BY <1>3, <1>4
  <2> QED BY <1>1, <1>4, <2>1, SnakeFacts
<1> HIDE DEF s
<1>8. i \in 0 .. n /\ i - j \in 0 .. m /\ i + s <= n /\ i - j + s <= m
  BY <1>1, <1>3, <1>4, <1>5, <1>6, <1>7
<1>9. \E l \in Matches(i, i - j) : 2 * i - j - 2 * l = D
  <2>1. CASE D = 0
    <3>1. 0 \in Matches(i, i - j)
      BY <1>1, <1>8, MatchNone
    <3> QED BY <1>3, <1>4, <2>1, <3>1
  <2>2. CASE j + 1 \in Reached(D - 1) /\ i = w[At(j + 1)]
    <3>1. i - (j + 1) >= 0
      <4>1. D - 1 \in Int /\ j + 1 >= -(D - 1) /\ j + 1 <= D - 1 /\ j + 1 \in Int
        BY <1>1, <2>2, ReachedFacts
      <4> QED BY <1>2, <1>3, <1>4, <2>2, <4>1 DEF Inside
    <3>2. i - (j + 1) \in 0 .. m /\ i - j \in i - (j + 1) .. m /\ i \in i .. n
      BY <1>1, <1>3, <1>8, <3>1
    <3>3. PICK l \in Matches(i, i - (j + 1)) : 2 * i - (j + 1) - 2 * l = D - 1
      BY <1>1, <1>2, <1>8, <2>2, <3>2 DEF Attained
    <3>4. l \in Matches(i, i - j) /\ l \in Nat
      BY <1>1, <1>8, <3>2, <3>3, MatchWithin, MatchBounds
    <3> QED BY <1>3, <1>4, <3>3, <3>4
  <2>3. CASE j - 1 \in Reached(D - 1) /\ i = w[At(j - 1)] + 1
    <3>1. i - 1 = w[At(j - 1)] /\ i - 1 >= 0
      <4>1. D - 1 \in Int /\ j - 1 >= -(D - 1) /\ j - 1 <= D - 1 /\ j - 1 \in -maxD .. maxD
        BY <1>1, <2>3, ReachedFacts
      <4>2. w[At(j - 1)] \in Nat
        BY <1>1, <1>3, <4>1, Indices
      <4> QED BY <2>3, <4>2
    <3>2. i - 1 - (j - 1) = i - j /\ i - 1 \in 0 .. n /\ i \in i - 1 .. n /\ i - j \in i - j .. m
      BY <1>1, <1>3, <1>8, <3>1
    <3>3. PICK l \in Matches(i - 1, i - 1 - (j - 1)) : 2 * (i - 1) - (j - 1) - 2 * l = D - 1
      BY <1>1, <1>2, <1>8, <2>3, <3>1, <3>2 DEF Attained
    <3>4. l \in Matches(i - 1, i - j)
      BY <3>2, <3>3
    <3>5. l \in Matches(i, i - j)
      BY <1>1, <1>8, <3>2, <3>4, MatchWithin
    <3>6. l \in Nat
      BY <1>1, <1>8, <3>5, MatchBounds
    <3> QED BY <1>3, <1>4, <3>3, <3>5, <3>6
  <2> QED BY <1>4, <2>1, <2>2, <2>3
<1>10. PICK l \in Matches(i, i - j) : 2 * i - j - 2 * l = D
  BY <1>9
<1>11. l \in Nat
  BY <1>1, <1>8, <1>10, MatchBounds
<1>12. l + s \in Matches(i + s, i - j + s)
  BY <1>1, <1>7, <1>8, MatchMore
<1>13. i - j + s = r - j /\ 2 * r - j - 2 * (l + s) = D
  BY <1>3, <1>4, <1>6, <1>7, <1>10, <1>11
<1> QED BY <1>6, <1>12, <1>13

\* And nothing further is reached with so many edits, or fewer: of the points further
\* on, the first in the order of the files would have been come to.
LEMMA RoundFurthest ==
  ASSUME Arguments, NEW D \in 0 .. maxD, NEW w, SoFar(w, D), NEW u, After(w, u, D)
  PROVE  Furthest(u, D + 1)
<1>1. /\ maxD \in Nat /\ n \in Nat /\ m \in Nat /\ a \in Files /\ b \in Files
      /\ D + 1 - 1 = D /\ D \in Nat
  BY ArgumentFacts DEF Arguments
<1>2. /\ w \in [Diagonals(maxD) -> 0 .. n + maxD] /\ (D = 0 => w[At(1)] = 0)
      /\ Inside(w, D) /\ Advance(w, D) /\ Furthest(w, D)
  BY DEF SoFar
<1> DEFINE Missed(i, j, l) ==
             i - j \in Reached(D) /\ l \in Matches(i, j) /\ i + j - 2 * l <= D /\ u[At(i - j)] < i
           S == {p \in Nat : \E i \in 0 .. n, j \in 0 .. m, l \in Nat : p = i + j /\ Missed(i, j, l)}
<1>3. S = {}
  <2> SUFFICES ASSUME S # {} PROVE FALSE
    OBVIOUS
  <2>1. PICK p \in S : \A q \in S : p <= q
    <3>1. S \in SUBSET Nat
      OBVIOUS
    <3> HIDE DEF S
    <3> QED BY <3>1, Least
  <2>2. PICK i \in 0 .. n, j \in 0 .. m, l \in Nat : p = i + j /\ Missed(i, j, l)
    BY <2>1
  <2>3. /\ i - j \in Reached(D) /\ l \in Matches(i, j) /\ i + j - 2 * l <= D /\ u[At(i - j)] < i
        /\ i \in Nat /\ j \in Nat
    BY <1>1, <2>2
  <2> DEFINE r == u[At(i - j)]
  <2>4. /\ r = ReachOn(w, i - j, D) /\ r \in Nat
        /\ i - j + 1 \in Reached(D - 1) => r >= w[At(i - j + 1)]
        /\ i - j - 1 \in Reached(D - 1) => r > w[At(i - j - 1)]
    BY <1>1, <1>2, <2>3, ReachFacts DEF After
  <2>5. i - j \in Int /\ i - j >= -D /\ i - j <= D
        /\ (i - j # -D => i - j - 1 \in Reached(D - 1))
        /\ (i - j # D => i - j + 1 \in Reached(D - 1))
    <3>1. PICK q \in Reached(D) : q = i - j
      BY <2>3
    <3>2. /\ q \in Int /\ q >= -D /\ q <= D
          /\ (q # -D => q - 1 \in Reached(D - 1)) /\ (q # D => q + 1 \in Reached(D - 1))
      BY <1>1, ReachedFacts
    <3> QED BY <3>1, <3>2
  <2>6. i \in 1 .. n /\ i - 1 \in 0 .. n
    BY <1>1, <2>3, <2>4
  <2>7. l \notin Matches(i - 1, j)
    <3> SUFFICES ASSUME l \in Matches(i - 1, j) PROVE FALSE
      OBVIOUS
    <3>1. l <= i - 1
      BY <1>1, <2>6, MatchBounds
    <3>2. i - 1 - j \in Reached(D - 1) /\ i - 1 - j = i - j - 1
      BY <1>1, <2>3, <2>5, <3>1
    <3>3. w[At(i - 1 - j)] >= i - 1
      <4>1. i - 1 + j - 2 * l <= D - 1
        BY <1>1, <2>2, <2>3
      <4> QED BY <1>2, <2>6, <3>2, <4>1 DEF Furthest
    <3>4. w[At(i - 1 - j)] \in Nat
      <4>1. i - 1 - j \in -maxD .. maxD
        <5>1. D - 1 \in Int /\ D <= maxD
          BY <1>1
        <5>2. i - 1 - j \in Int /\ i - 1 - j >= -(D - 1) /\ i - 1 - j <= D - 1
          BY <3>2, <5>1, ReachedFacts
        <5> QED BY <1>1, <5>1, <5>2
      <4> QED BY <1>1, <1>2, <4>1, Indices
    <3> QED BY <2>3, <2>4, <3>2, <3>3, <3>4
  <2>8. j \in 1 .. m /\ j - 1 \in 0 .. m
    <3>1. CASE j = 0
      <4>1. l = 0
        BY <1>1, <2>2, <2>3, <3>1, MatchBounds
      <4> QED BY <1>1, <2>6, <2>7, <4>1, MatchNone
    <3> QED BY <1>1, <2>3, <3>1
  <2>9. l \notin Matches(i, j - 1)
    <3> SUFFICES ASSUME l \in Matches(i, j - 1) PROVE FALSE
      OBVIOUS
    <3>1. l <= j - 1
      BY <1>1, <2>8, MatchBounds
    <3>2. i - (j - 1) \in Reached(D - 1) /\ i - (j - 1) = i - j + 1
      BY <1>1, <2>3, <2>5, <3>1
    <3>3. w[At(i - (j - 1))] >= i
      <4>1. i + (j - 1) - 2 * l <= D - 1
        BY <1>1, <2>2, <2>3
      <4> QED BY <1>2, <2>8, <3>2, <4>1 DEF Furthest
    <3>4. w[At(i - (j - 1))] \in Nat
      <4>1. i - (j - 1) \in -maxD .. maxD
        <5>1. D - 1 \in Int /\ D <= maxD
          BY <1>1
        <5>2. i - (j - 1) \in Int /\ i - (j - 1) >= -(D - 1) /\ i - (j - 1) <= D - 1
          BY <3>2, <5>1, ReachedFacts
        <5> QED BY <1>1, <5>1, <5>2
      <4> QED BY <1>1, <1>2, <4>1, Indices
    <3> QED BY <2>3, <2>4, <3>2, <3>3, <3>4
  <2>10. a[i] = b[j] /\ l - 1 \in Matches(i - 1, j - 1)
    BY <1>1, <2>3, <2>6, <2>7, <2>8, <2>9, MatchLast
  <2>11. l - 1 \in Nat /\ i - 1 - (j - 1) = i - j
    BY <1>1, <2>3, <2>6, <2>8, <2>10, MatchBounds
  <2>12. r >= i - 1
    <3> SUFFICES ASSUME r < i - 1 PROVE FALSE
      BY <1>1, <2>3, <2>4
    <3>1. Missed(i - 1, j - 1, l - 1)
      BY <1>1, <2>3, <2>10, <2>11
    <3>2. i - 1 + (j - 1) \in Nat /\ i - 1 + (j - 1) < p
      BY <2>2, <2>6, <2>8
    <3>3. i - 1 + (j - 1) \in S
      BY <2>6, <2>8, <2>11, <3>1, <3>2
    <3> QED BY <2>1, <3>2, <3>3, SMTT(30)
  <2>13. r = i - 1 /\ r < n /\ r - (i - j) < m /\ r - (i - j) + 1 = j
    BY <1>1, <2>3, <2>4, <2>6, <2>8, <2>12
  <2> DEFINE e == Begin(w, i - j, D)
             s == Snake(e, e - (i - j))
  <2>14. e \in Nat
    BY <1>1, <1>2, <2>3, ReachFacts
  <2>15. r = e + s
    BY <2>4 DEF ReachOn, Begin
  <2> HIDE DEF e
  <2>16. s \in Nat /\ (e + s < n /\ e - (i - j) + s < m => a[e + s + 1] # b[e - (i - j) + s + 1])
    <3>1. e - (i - j) \in Int
      BY <2>5, <2>14
    <3> QED BY <1>1, <2>14, <3>1, SnakeFacts
  <2> HIDE DEF s, r
  <2>17. e - (i - j) + s = r - (i - j)
    BY <2>4, <2>5, <2>14, <2>15, <2>16
  <2>18. e + s + 1 = i /\ e - (i - j) + s + 1 = j
    BY <2>13, <2>15, <2>17
  <2> QED BY <2>10, <2>13, <2>15, <2>16, <2>17, <2>18
<1>4. ASSUME NEW i \in 0 .. n, NEW j \in 0 .. m, i - j \in Reached(D), NEW l \in Matches(i, j),
             i + j - 2 * l <= D
      PROVE  u[At(i - j)] >= i
  <2>1. i + j \in Nat /\ l \in Nat
    BY <1>1, MatchBounds
  <2>2. ~(u[At(i - j)] < i)
    BY <1>3, <1>4, <2>1
  <2>3. u[At(i - j)] \in Nat
    BY <1>1, <1>2, <1>4, ReachFacts DEF After
  <2> QED BY <1>1, <2>2, <2>3
<1> QED BY <1>1, <1>4 DEF Furthest

\* Before the first round nothing is reached.
LEMMA NothingReached ==
  ASSUME Arguments
  PROVE  SoFar([i \in Diagonals(maxD) |-> 0], 0) /\ Beyond(-1)
<1> DEFINE w == [i \in Diagonals(maxD) |-> 0]
<1>1. maxD \in Nat \ {0} /\ n \in Nat /\ m \in Nat /\ a \in Files /\ b \in Files
  BY ArgumentFacts DEF Arguments
<1>2. w \in [Diagonals(maxD) -> 0 .. n + maxD] /\ w[At(1)] = 0
  <2>1. 1 \in -maxD .. maxD
    BY <1>1
  <2>2. At(1) \in Diagonals(maxD)
    BY <1>1, <2>1, Indices
  <2> QED BY <1>1, <2>2
<1>3. Reached(0 - 1) = {} /\ -(0 - 1) .. 0 - 1 = {}
  <2>1. 0 - 1 = -1 /\ Reached(-1) = {}
    BY ReachedBounds
  <2>2. \A D \in Int : D <= 0 => \A j \in -(D - 1) .. D - 1 : FALSE
    OBVIOUS
  <2>3. 0 \in Int /\ 0 <= 0
    OBVIOUS
  <2>4. \A j \in -(0 - 1) .. 0 - 1 : FALSE
    BY <2>2, <2>3, Zenon
  <2> QED BY <2>1, <2>4
<1> HIDE DEF w
<1>4. Inside(w, 0) /\ Advance(w, 0) /\ Attained(w, 0) /\ Furthest(w, 0)
  BY <1>3 DEF Inside, Advance, Attained, Furthest
<1>5. Beyond(-1)
  <2>1. \A l \in Matches(n, m) : l \in Nat /\ l <= n /\ l <= m
    BY <1>1, MatchBounds
  <2> QED BY <1>1, <2>1 DEF Beyond
<1> QED BY <1>2, <1>4, <1>5 DEF SoFar, w

LEMMA RoundSoFar ==
  ASSUME Arguments, NEW D \in 0 .. maxD, NEW w, SoFar(w, D), Beyond(D - 1),
         NEW u \in [Diagonals(maxD) -> 0 .. n + maxD], After(w, u, D),
         \A j \in Reached(D - 1) : u[At(j)] = w[At(j)],
         \A j \in Reached(D) : ~AtEnd(u[At(j)], u[At(j)] - j)
  PROVE  SoFar(u, D + 1) /\ Beyond(D)
<1>1. /\ maxD \in Nat /\ n \in Nat /\ m \in Nat /\ a \in Files /\ b \in Files
      /\ D + 1 - 1 = D /\ D \in Nat /\ D + 1 # 0
  BY ArgumentFacts DEF Arguments
<1>2. /\ w \in [Diagonals(maxD) -> 0 .. n + maxD] /\ (D = 0 => w[At(1)] = 0)
      /\ Inside(w, D) /\ Advance(w, D)
  BY DEF SoFar
<1>3. Inside(u, D + 1) /\ Advance(u, D + 1)
  BY <1>2, RoundOn
<1>4. Attained(u, D + 1)
  <2> SUFFICES ASSUME NEW j \in Reached(D), u[At(j)] <= n, u[At(j)] - j <= m
               PROVE  \E l \in Matches(u[At(j)], u[At(j)] - j) : 2 * u[At(j)] - j - 2 * l = D
    BY <1>1 DEF Attained
  <2>1. u[At(j)] = ReachOn(w, j, D)
    BY DEF After
  <2> QED BY <2>1, RoundAttains
<1>5. Furthest(u, D + 1)
  BY RoundFurthest
<1>6. Beyond(D)
  <2> SUFFICES ASSUME NEW l \in Matches(n, m), n + m - 2 * l <= D PROVE FALSE
    <3>1. \A l \in Matches(n, m) : l \in Nat
      BY <1>1, MatchBounds
    <3> QED BY <1>1, <3>1 DEF Beyond
  <2>1. l \in Nat /\ l <= n /\ l <= m /\ n + m - 2 * l > D - 1
    BY <1>1, MatchBounds DEF Beyond
  <2>2. n - m \in Reached(D)
    <3>1. n - l \in 0 .. D /\ n - m = 2 * (n - l) - D
      BY <1>1, <2>1
    <3> QED BY <3>1 DEF Reached
  <2>3. u[At(n - m)] >= n
    BY <1>1, <1>5, <2>2 DEF Furthest
  <2>4. u[At(n - m)] \in Nat
    BY <1>1, <1>2, <2>2, ReachFacts DEF After
  <2>5. ~AtEnd(u[At(n - m)], u[At(n - m)] - (n - m))
    BY <2>2
  <2> QED BY <1>1, <2>3, <2>4, <2>5 DEF AtEnd
<1> QED BY <1>1, <1>3, <1>4, <1>5, <1>6 DEF SoFar

\* Where the end is found, the number of the round is the distance.
LEMMA FoundFacts ==
  ASSUME Arguments, NEW D \in 0 .. maxD, NEW w, SoFar(w, D), Beyond(D - 1), NEW j \in Reached(D),
         AtEnd(ReachOn(w, j, D), ReachOn(w, j, D) - j)
  PROVE  /\ ReachOn(w, j, D) = n /\ j = n - m
         /\ Distance[<<a, b>>] = D
<1>1. maxD \in Nat /\ n \in Nat /\ m \in Nat /\ a \in Files /\ b \in Files
  BY ArgumentFacts DEF Arguments
<1>2. ReachOn(w, j, D) = n /\ j = n - m
  BY ReachFacts DEF SoFar
<1>3. PICK l \in Matches(n, m) : n + m - 2 * l = D
  <2>1. n - j = m
    BY <1>1, <1>2
  <2>2. \E l \in Matches(n, n - j) : 2 * n - j - 2 * l = D
    BY <1>1, <1>2, <2>1, RoundAttains
  <2>3. PICK l \in Matches(n, m) : 2 * n - j - 2 * l = D
    BY <2>1, <2>2
  <2>4. l \in Nat
    BY <1>1, MatchBounds
  <2> QED BY <1>1, <1>2, <2>3, <2>4
<1>4. PICK q \in Matches(n, m) :
        Distance[<<a, b>>] = n + m - 2 * q /\ \A i \in Matches(n, m) : i <= q
  BY <1>1, DistanceIs
<1>5. l \in Nat /\ q \in Nat /\ l <= q
  BY <1>1, <1>3, <1>4, MatchBounds
<1>6. n + m - 2 * q > D - 1
  BY <1>4 DEF Beyond
<1> QED BY <1>1, <1>2, <1>3, <1>4, <1>5, <1>6

\* A budget of n + m is never exceeded: by then every diagonal within the files is at
\* their end.
LEMMA Converges ==
  ASSUME Arguments, NEW w, SoFar(w, maxD + 1)
  PROVE  maxD < n + m
<1>1. maxD \in Nat /\ n \in Nat /\ m \in Nat /\ maxD <= n + m
  BY ArgumentFacts DEF Arguments
<1> SUFFICES ASSUME maxD = n + m PROVE FALSE
  BY <1>1
<1> DEFINE j == n - m
<1>2. j \in Reached(maxD) /\ maxD + 1 - 1 = maxD /\ j \in -maxD .. maxD
  <2>1. n \in 0 .. maxD /\ j = 2 * n - maxD
    BY <1>1
  <2> QED BY <1>1, <2>1 DEF Reached
<1>3. w[At(j)] \in Nat
  <2>1. w \in [Diagonals(maxD) -> 0 .. n + maxD]
    BY DEF SoFar
  <2> QED BY <1>1, <1>2, <2>1, Indices
<1>4. ~AtEnd(w[At(j)], w[At(j)] - j)
  BY <1>2 DEF SoFar, Inside
<1>5. 2 * w[At(j)] - j >= maxD
  BY <1>2 DEF SoFar, Advance
<1> QED BY <1>1, <1>3, <1>4, <1>5 DEF AtEnd
-----------------------------------------------------------------------------
(* Scripts *)

Edits == [op : {"equal", "add", "del"}, line : Lines]

LEMMA Shifted ==
  ASSUME NEW B \in SUBSET Int, IsFiniteSet(B), NEW c \in Int
  PROVE  /\ IsFiniteSet({c + i : i \in B})
         /\ Cardinality({c + i : i \in B}) = Cardinality(B)
<1> DEFINE T == {c + i : i \in B}
           f == [i \in B |-> c + i]
<1>1. f \in [B -> T] /\ \A i, j \in B : f[i] = f[j] => i = j
  <2>1. f \in [B -> T]
    BY Zenon
  <2>2. \A i, j \in B : f[i] = f[j] => i = j
    <3>1. \A i \in B : f[i] = c + i
      BY Zenon
    <3>2. \A i, j \in B : c + i = c + j => i = j
      OBVIOUS
    <3> HIDE DEF f
    <3> QED BY <3>1, <3>2, Zenon
  <2> QED BY <2>1, <2>2
<1>2. \A e \in T : \E i \in B : f[i] = e
  OBVIOUS
<1> HIDE DEF T, f
<1>3. f \in Bijection(B, T)
  BY <1>1, <1>2 DEF Bijection, Injection, Surjection, IsInjective
<1>4. IsFiniteSet(T) /\ Cardinality(T) = Cardinality(B)
  BY <1>3, FS_Bijection DEF ExistsBijection
<1> QED BY <1>4 DEF T

LEMMA JoinSize ==
  ASSUME NEW A, IsFiniteSet(A), NEW B, IsFiniteSet(B), A \cap B = {}
  PROVE  Cardinality(A \cup B) = Cardinality(A) + Cardinality(B)
<1>1. Cardinality(A \cup B) = Cardinality(A) + Cardinality(B) - Cardinality(A \cap B)
  BY FS_Union
<1>2. Cardinality(A) \in Nat /\ Cardinality(B) \in Nat
  BY FS_CardinalityType
<1>3. Cardinality(A \cap B) = 0
  BY FS_EmptySet
<1> QED BY <1>1, <1>2, <1>3

LEMMA WithoutFacts ==
  ASSUME NEW s \in Seq(Edits), NEW kind
  PROVE  /\ Without(s, kind) \subseteq 1 .. Len(s) /\ IsFiniteSet(Without(s, kind))
         /\ Cardinality(Without(s, kind)) \in Nat
         /\ \A i \in Without(s, kind) :
              /\ IsFiniteSet(Without(s, kind) \cap 1 .. i)
              /\ Cardinality(Without(s, kind) \cap 1 .. i) \in 1 .. Cardinality(Without(s, kind))
<1> DEFINE A == Without(s, kind)
<1>1. Len(s) \in Nat /\ A \subseteq 1 .. Len(s)
  BY DEF Without
<1> HIDE DEF A
<1>2. IsFiniteSet(A) /\ Cardinality(A) \in Nat
  <2>1. IsFiniteSet(1 .. Len(s))
    BY <1>1, FS_Interval
  <2>2. IsFiniteSet(A)
    BY <1>1, <2>1, FS_Subset
  <2> QED BY <2>2, FS_CardinalityType
<1>3. ASSUME NEW i \in A
      PROVE  IsFiniteSet(A \cap 1 .. i) /\ Cardinality(A \cap 1 .. i) \in 1 .. Cardinality(A)
  <2>1. A \cap 1 .. i \in SUBSET A /\ i \in A \cap 1 .. i
    BY <1>1
  <2>2. IsFiniteSet(A \cap 1 .. i) /\ Cardinality(A \cap 1 .. i) <= Cardinality(A)
    BY <1>2, <2>1, FS_Subset
  <2>3. Cardinality(A \cap 1 .. i) \in Nat /\ Cardinality(A \cap 1 .. i) # 0
    BY <2>1, <2>2, FS_CardinalityType, FS_EmptySet
  <2> QED BY <1>2, <2>2, <2>3
<1> QED BY <1>1, <1>2, <1>3 DEF A

LEMMA WithoutJoin ==
  ASSUME NEW s \in Seq(Edits), NEW u \in Seq(Edits), NEW kind
  PROVE  /\ Without(s \o u, kind) = Without(s, kind) \cup {Len(s) + i : i \in Without(u, kind)}
         /\ Cardinality(Without(s \o u, kind))
              = Cardinality(Without(s, kind)) + Cardinality(Without(u, kind))
<1> DEFINE A == Without(s, kind)
           B == Without(u, kind)
           T == {Len(s) + i : i \in B}
<1>1. /\ Len(s) \in Nat /\ Len(u) \in Nat /\ s \o u \in Seq(Edits)
      /\ Len(s \o u) = Len(s) + Len(u)
      /\ \A i \in 1 .. Len(s) + Len(u) :
           (s \o u)[i] = IF i <= Len(s) THEN s[i] ELSE u[i - Len(s)]
  BY ConcatProperties
<1>2. \A i : i \in A <=> i \in 1 .. Len(s) /\ s[i].op # kind
  BY <1>1 DEF Without
<1>3. \A i : i \in B <=> i \in 1 .. Len(u) /\ u[i].op # kind
  BY <1>1 DEF Without
<1>4. \A i : i \in Without(s \o u, kind) <=> i \in 1 .. Len(s) + Len(u) /\ (s \o u)[i].op # kind
  BY <1>1 DEF Without
<1> HIDE DEF A, B
<1>5. \A i \in 1 .. Len(s) : i \in Without(s \o u, kind) <=> i \in A
  BY <1>1, <1>2, <1>4
<1>6. \A i \in 1 .. Len(u) : Len(s) + i \in Without(s \o u, kind) <=> i \in B
  BY <1>1, <1>3, <1>4
<1>7. Without(s \o u, kind) \subseteq A \cup T
  <2> SUFFICES ASSUME NEW i \in Without(s \o u, kind), i \notin A PROVE i \in T
    OBVIOUS
  <2>1. i \in 1 .. Len(s) + Len(u) /\ ~(i \in 1 .. Len(s))
    BY <1>4, <1>5
  <2>2. i - Len(s) \in 1 .. Len(u) /\ Len(s) + (i - Len(s)) = i
    BY <1>1, <2>1
  <2>3. i - Len(s) \in B
    BY <1>6, <2>2
  <2> QED BY <2>2, <2>3
<1>8. A \cup T \subseteq Without(s \o u, kind)
  BY <1>2, <1>3, <1>5, <1>6
<1>9. /\ IsFiniteSet(A) /\ IsFiniteSet(B) /\ B \in SUBSET Int
      /\ Cardinality(A) \in Nat /\ Cardinality(B) \in Nat
  BY <1>1, <1>3, WithoutFacts DEF A, B
<1>10. IsFiniteSet(T) /\ Cardinality(T) = Cardinality(B)
  <2>1. Len(s) \in Int
    BY <1>1
  <2>2. /\ IsFiniteSet({Len(s) + i : i \in B})
        /\ Cardinality({Len(s) + i : i \in B}) = Cardinality(B)
    BY <1>9, <2>1, Shifted
  <2> QED BY <2>2
<1>11. A \cap T = {}
  BY <1>1, <1>2, <1>3
<1>12. Cardinality(A \cup T) = Cardinality(A) + Cardinality(B)
  <2> HIDE DEF T
  <2> QED BY <1>9, <1>10, <1>11, JoinSize
<1>13. Without(s \o u, kind) = A \cup T
  BY <1>7, <1>8
<1> QED BY <1>12, <1>13 DEF A, B

LEMMA SpellsJoin ==
  ASSUME NEW s \in Seq(Edits), NEW u \in Seq(Edits), NEW kind,
         NEW p \in Seq(Lines), NEW q \in Seq(Lines), Spells(s, kind, p), Spells(u, kind, q)
  PROVE  Spells(s \o u, kind, p \o q)
<1> DEFINE A == Without(s, kind)
           B == Without(u, kind)
           C == Without(s \o u, kind)
           z == Len(s)
<1>1. /\ z \in Nat /\ Len(u) \in Nat /\ Len(s \o u) = z + Len(u)
      /\ \A i \in 1 .. z + Len(u) : (s \o u)[i] = IF i <= z THEN s[i] ELSE u[i - z]
  BY ConcatProperties
<1>2. /\ Len(p) \in Nat /\ Len(q) \in Nat /\ Len(p \o q) = Len(p) + Len(q)
      /\ \A i \in 1 .. Len(p) + Len(q) :
           (p \o q)[i] = IF i <= Len(p) THEN p[i] ELSE q[i - Len(p)]
  BY ConcatProperties
<1>3. /\ Cardinality(A) = Len(p) /\ Cardinality(B) = Len(q)
      /\ \A i \in A : s[i].line = p[Cardinality(A \cap 1 .. i)]
      /\ \A i \in B : u[i].line = q[Cardinality(B \cap 1 .. i)]
  BY DEF Spells
<1>4. C = A \cup {z + i : i \in B} /\ Cardinality(C) = Len(p) + Len(q)
  <2>1. /\ C = A \cup {Len(s) + i : i \in B}
        /\ Cardinality(C) = Cardinality(A) + Cardinality(B)
    BY WithoutJoin
  <2> QED BY <1>3, <2>1
<1>5. /\ A \subseteq 1 .. z /\ IsFiniteSet(A)
      /\ \A i \in A : Cardinality(A \cap 1 .. i) \in 1 .. Len(p)
  BY <1>3, WithoutFacts
<1>6. /\ B \subseteq 1 .. Len(u)
      /\ \A i \in B : /\ IsFiniteSet(B \cap 1 .. i)
                      /\ Cardinality(B \cap 1 .. i) \in 1 .. Len(q)
  BY <1>3, WithoutFacts
<1> HIDE DEF A, B, C, z
<1>7. ASSUME NEW i \in A PROVE (s \o u)[i].line = (p \o q)[Cardinality(C \cap 1 .. i)]
  <2>1. C \cap 1 .. i = A \cap 1 .. i
    BY <1>1, <1>4, <1>5, <1>6
  <2>2. (s \o u)[i] = s[i]
    BY <1>1, <1>5
  <2>3. (p \o q)[Cardinality(A \cap 1 .. i)] = p[Cardinality(A \cap 1 .. i)]
    BY <1>2, <1>5
  <2> QED BY <1>3, <2>1, <2>2, <2>3
<1>8. ASSUME NEW i \in B PROVE (s \o u)[z + i].line = (p \o q)[Cardinality(C \cap 1 .. z + i)]
  <2> DEFINE R == B \cap 1 .. i
             T == {z + e : e \in R}
  <2>1. C \cap 1 .. z + i = A \cup T
    <3>1. \A e \in B : e \in Int /\ e >= 1 /\ (z + e \in 1 .. z + i <=> e \in 1 .. i)
      BY <1>1, <1>6
    <3>2. i \in Int /\ i >= 1 /\ A \subseteq 1 .. z + i
      BY <1>1, <1>5, <1>6
    <3> QED BY <1>4, <3>1, <3>2
  <2>2. A \cap T = {}
    BY <1>1, <1>5, <1>6
  <2>3. R \in SUBSET Int /\ IsFiniteSet(R) /\ Cardinality(R) \in 1 .. Len(q)
    <3>1. IsFiniteSet(B \cap 1 .. i) /\ Cardinality(B \cap 1 .. i) \in 1 .. Len(q)
      BY <1>6
    <3>2. B \cap 1 .. i \in SUBSET Int
      BY <1>6
    <3> QED BY <3>1, <3>2
  <2> HIDE DEF R
  <2>4. IsFiniteSet(T) /\ Cardinality(T) = Cardinality(R)
    <3>1. z \in Int
      BY <1>1
    <3>2. IsFiniteSet({z + e : e \in R}) /\ Cardinality({z + e : e \in R}) = Cardinality(R)
      BY <2>3, <3>1, Shifted
    <3> QED BY <3>2
  <2> HIDE DEF T
  <2>6. Cardinality(A \cup T) = Len(p) + Cardinality(R)
    BY <1>3, <1>5, <2>2, <2>4, JoinSize
  <2>7. (p \o q)[Len(p) + Cardinality(R)] = q[Cardinality(R)]
    BY <1>2, <2>3
  <2>8. (s \o u)[z + i] = u[i]
    BY <1>1, <1>6
  <2> QED BY <1>3, <2>1, <2>6, <2>7, <2>8 DEF R
<1>9. \A i \in C : (s \o u)[i].line = (p \o q)[Cardinality(C \cap 1 .. i)]
  BY <1>4, <1>7, <1>8
<1> QED BY <1>2, <1>4, <1>9 DEF Spells, C

\* Lines of the kind left out, and of any other.
LEMMA SpellsNone ==
  ASSUME NEW s \in Seq(Edits), NEW kind, \A i \in 1 .. Len(s) : s[i].op = kind
  PROVE  Spells(s, kind, <<>>) /\ Cardinality(Without(s, kind)) = 0
<1>1. Without(s, kind) = {}
  BY DEF Without
<1> QED BY <1>1, FS_EmptySet DEF Spells

LEMMA SpellsAll ==
  ASSUME NEW s \in Seq(Edits), NEW kind, NEW t, Len(t) = Len(s),
         \A i \in 1 .. Len(s) : s[i].op # kind /\ s[i].line = t[i]
  PROVE  Spells(s, kind, t) /\ Cardinality(Without(s, kind)) = Len(s)
<1> DEFINE z == Len(s)
<1>1. z \in Nat /\ DOMAIN s = 1 .. z
  OBVIOUS
<1>2. \A i \in 1 .. z : s[i].op # kind /\ s[i].line = t[i]
  OBVIOUS
<1> HIDE DEF z
<1>3. Without(s, kind) = 1 .. z
  BY <1>1, <1>2 DEF Without
<1>4. ASSUME NEW i \in Nat PROVE Cardinality(1 .. i) = i
  <2>1. Cardinality(1 .. i) = IF 1 > i THEN 0 ELSE i - 1 + 1
    BY FS_Interval
  <2> QED BY <2>1
<1>5. ASSUME NEW i \in 1 .. z PROVE Cardinality((1 .. z) \cap (1 .. i)) = i
  <2>1. (1 .. z) \cap (1 .. i) = 1 .. i
    BY <1>1
  <2>2. Cardinality(1 .. i) = i
    BY <1>4
  <2> QED BY <2>1, <2>2, Zenon
<1>6. Cardinality(1 .. z) = z
  BY <1>1, <1>4
<1>7. Cardinality(Without(s, kind)) = z /\ Len(t) = z
  BY <1>3, <1>6, Zenon DEF z
<1>8. Spells(s, kind, t)
  BY <1>2, <1>3, <1>5, <1>7 DEF Spells
<1> QED BY <1>7, <1>8 DEF z

LEMMA SpellsNothing ==
  ASSUME NEW kind
  PROVE  Spells(<<>>, kind, <<>>) /\ Cardinality(Without(<<>>, kind)) = 0 /\ <<>> \in Seq(Edits)
<1>1. Without(<<>>, kind) = {}
  BY DEF Without
<1> QED BY <1>1, FS_EmptySet DEF Spells
-----------------------------------------------------------------------------
(* Parts of a file *)

\* The lines of s from the one after the i-th to the j-th.
LEMMA PartFacts ==
  ASSUME NEW s \in Seq(Lines), NEW i \in 0 .. Len(s), NEW j \in i .. Len(s)
  PROVE  /\ SubSeq(s, i + 1, j) \in Seq(Lines) /\ Len(SubSeq(s, i + 1, j)) = j - i
         /\ \A q \in 1 .. j - i : SubSeq(s, i + 1, j)[q] = s[i + q]
<1>1. \A q \in i + 1 .. j : s[q] \in Lines
  <2>1. \A q \in i + 1 .. j : q \in 1 .. Len(s)
    OBVIOUS
  <2> QED BY <2>1, ElementOfSeq
<1>2. i + 1 \in Int /\ j \in Int
  OBVIOUS
<1>3. /\ SubSeq(s, i + 1, j) \in Seq(Lines)
      /\ Len(SubSeq(s, i + 1, j)) = IF i + 1 <= j THEN j - (i + 1) + 1 ELSE 0
      /\ \A q \in 1 .. j - (i + 1) + 1 : SubSeq(s, i + 1, j)[q] = s[i + 1 + q - 1]
  BY <1>1, <1>2, SubSeqProperties
<1>4. j - (i + 1) + 1 = j - i /\ (IF i + 1 <= j THEN j - (i + 1) + 1 ELSE 0) = j - i
  OBVIOUS
<1>5. ASSUME NEW q \in 1 .. j - i PROVE SubSeq(s, i + 1, j)[q] = s[i + q]
  <2>1. i + 1 + q - 1 = i + q
    OBVIOUS
  <2> QED BY <1>3, <1>4, <2>1
<1> QED BY <1>3, <1>4, <1>5

LEMMA PartsJoin ==
  ASSUME NEW s \in Seq(Lines), NEW i \in 0 .. Len(s), NEW j \in i .. Len(s), NEW z \in j .. Len(s)
  PROVE  SubSeq(s, i + 1, j) \o SubSeq(s, j + 1, z) = SubSeq(s, i + 1, z)
<1>1. i + 1 \in 1 .. Len(s) + 1 /\ j \in (i + 1) - 1 .. Len(s)
  OBVIOUS
<1> QED BY <1>1, ConcatAdjacentSubSeq

LEMMA PartOne ==
  ASSUME NEW s \in Seq(Lines), NEW i \in 1 .. Len(s)
  PROVE  SubSeq(s, i, i) = <<s[i]>> /\ s[i] \in Lines
<1>1. i - 1 \in 0 .. Len(s) /\ i \in i - 1 .. Len(s) /\ i - 1 + 1 = i /\ i - (i - 1) = 1
  OBVIOUS
<1>2. /\ SubSeq(s, i, i) \in Seq(Lines) /\ Len(SubSeq(s, i, i)) = 1
      /\ \A q \in 1 .. 1 : SubSeq(s, i, i)[q] = s[i - 1 + q]
  BY <1>1, PartFacts
<1>3. s[i] \in Lines
  BY ElementOfSeq
<1>4. SubSeq(s, i, i)[1] = s[i]
  BY <1>1, <1>2
<1>5. <<s[i]>> \in Seq(Lines) /\ Len(<<s[i]>>) = 1 /\ <<s[i]>>[1] = s[i]
  BY <1>3
<1>6. \A e \in 1 .. 1 : SubSeq(s, i, i)[e] = <<s[i]>>[e]
  BY <1>4, <1>5
<1>7. SubSeq(s, i, i) = <<s[i]>>
  BY <1>2, <1>5, <1>6, SeqEqual
<1> QED BY <1>3, <1>7

LEMMA PartEmpty ==
  ASSUME NEW s \in Seq(Lines), NEW i \in Int
  PROVE  SubSeq(s, i + 1, i) = <<>>
BY SubSeqEmpty
-----------------------------------------------------------------------------
(* The table *)

\* What a cell is filled with from table t, and its neighbours.
Both(c) == <<c[1] + 1, c[2] + 1>>
Left(c) == <<c[1] + 1, c[2]>>
Right(c) == <<c[1], c[2] + 1>>
Cell(t, c) ==
  IF c[1] = n \/ c[2] = m THEN 0
  ELSE IF a[c[1] + 1] = b[c[2] + 1] THEN t[Both(c)] + 1
  ELSE Max({t[Left(c)], t[Right(c)]})

\* How many lines are ahead of a cell.
Ahead(c) == n - c[1] + (m - c[2])

LEMMA MaxFacts ==
  ASSUME NEW i \in Int, NEW j \in Int
  PROVE  Max({i, j}) = IF i >= j THEN i ELSE j
BY DEF Max

LEMMA CellFacts ==
  ASSUME a \in Files, b \in Files, NEW c \in Cells
  PROVE  /\ c[1] \in 0 .. n /\ c[2] \in 0 .. m /\ c = <<c[1], c[2]>> /\ Ahead(c) \in 0 .. n + m
         /\ c[1] # n /\ c[2] # m =>
              /\ Both(c) \in Cells /\ Both(c)[1] = c[1] + 1 /\ Both(c)[2] = c[2] + 1
              /\ Left(c) \in Cells /\ Left(c)[1] = c[1] + 1 /\ Left(c)[2] = c[2]
              /\ Right(c) \in Cells /\ Right(c)[1] = c[1] /\ Right(c)[2] = c[2] + 1
              /\ Ahead(Both(c)) = Ahead(c) - 2
              /\ Ahead(Left(c)) = Ahead(c) - 1 /\ Ahead(Right(c)) = Ahead(c) - 1
<1>1. n \in Nat /\ m \in Nat
  BY ArgumentFacts
<1>2. c[1] \in 0 .. n /\ c[2] \in 0 .. m /\ c = <<c[1], c[2]>>
  BY DEF Cells
<1>3. Ahead(c) \in 0 .. n + m
  BY <1>1, <1>2 DEF Ahead
<1>4. ASSUME c[1] # n, c[2] # m
      PROVE  /\ Both(c) \in Cells /\ Both(c)[1] = c[1] + 1 /\ Both(c)[2] = c[2] + 1
             /\ Left(c) \in Cells /\ Left(c)[1] = c[1] + 1 /\ Left(c)[2] = c[2]
             /\ Right(c) \in Cells /\ Right(c)[1] = c[1] /\ Right(c)[2] = c[2] + 1
  <2>1. c[1] + 1 \in 0 .. n /\ c[2] + 1 \in 0 .. m
    BY <1>1, <1>2, <1>4
  <2> QED BY <1>2, <2>1 DEF Cells, Both, Left, Right
<1>5. ASSUME c[1] # n, c[2] # m
      PROVE  /\ Ahead(Both(c)) = Ahead(c) - 2
             /\ Ahead(Left(c)) = Ahead(c) - 1 /\ Ahead(Right(c)) = Ahead(c) - 1
  BY <1>1, <1>2, <1>4, <1>5 DEF Ahead
<1> QED BY <1>2, <1>3, <1>4, <1>5

LEMMA CellIsNat ==
  ASSUME a \in Files, b \in Files, NEW t \in [Cells -> Nat], NEW c \in Cells
  PROVE  Cell(t, c) \in Nat
<1>1. CASE c[1] = n \/ c[2] = m
  BY <1>1 DEF Cell
<1>2. CASE ~(c[1] = n \/ c[2] = m)
  <2>1. t[Both(c)] \in Nat /\ t[Left(c)] \in Nat /\ t[Right(c)] \in Nat
    BY <1>2, CellFacts
  <2>2. Max({t[Left(c)], t[Right(c)]}) \in Nat
    BY <2>1, MaxFacts
  <2> QED BY <1>2, <2>1, <2>2 DEF Cell
<1> QED BY <1>1, <1>2

\* The cells can be filled, those with fewer lines ahead before those with more.
LEMMA Fillable ==
  ASSUME a \in Files, b \in Files
  PROVE  \E t \in [Cells -> Nat] : \A c \in Cells : t[c] = Cell(t, c)
<1> DEFINE Filled(t, r) == \A c \in Cells : Ahead(c) < r => t[c] = Cell(t, c)
           S == {r \in Nat : ~ \E t \in [Cells -> Nat] : Filled(t, r)}
<1>1. n \in Nat /\ m \in Nat
  BY ArgumentFacts
<1>2. S = {}
  <2> SUFFICES ASSUME S # {} PROVE FALSE
    OBVIOUS
  <2>1. PICK r \in S : \A q \in S : r <= q
    <3>1. S \in SUBSET Nat
      OBVIOUS
    <3> HIDE DEF S
    <3> QED BY <3>1, Least
  <2>2. r \in Nat /\ ~ \E t \in [Cells -> Nat] : Filled(t, r)
    OBVIOUS
  <2>3. CASE r = 0
    <3>1. Filled([c \in Cells |-> 0], 0)
      BY CellFacts, <1>1
    <3>2. [c \in Cells |-> 0] \in [Cells -> Nat]
      OBVIOUS
    <3> HIDE DEF Filled
    <3> QED BY <2>2, <2>3, <3>1, <3>2
  <2>4. CASE r # 0
    <3>1. r - 1 \in Nat /\ r - 1 \notin S
      BY <2>1, <2>2, <2>4
    <3>2. PICK t \in [Cells -> Nat] : Filled(t, r - 1)
      BY <3>1
    <3> DEFINE u == [c \in Cells |-> Cell(t, c)]
    <3>3. u \in [Cells -> Nat] /\ \A c \in Cells : u[c] = Cell(t, c)
      BY CellIsNat
    <3>4. \A c \in Cells : Ahead(c) < r - 1 => u[c] = t[c]
      BY <3>2, <3>3
    <3> HIDE DEF u
    <3>5. ASSUME NEW c \in Cells, Ahead(c) < r PROVE u[c] = Cell(u, c)
      <4>1. CASE c[1] = n \/ c[2] = m
        BY <3>3, <4>1 DEF Cell
      <4>2. CASE ~(c[1] = n \/ c[2] = m)
        <5>1. Ahead(c) \in Nat
          BY <1>1, CellFacts
        <5>2. /\ Both(c) \in Cells /\ Left(c) \in Cells /\ Right(c) \in Cells
              /\ Ahead(Both(c)) = Ahead(c) - 2
              /\ Ahead(Left(c)) = Ahead(c) - 1 /\ Ahead(Right(c)) = Ahead(c) - 1
          BY <4>2, CellFacts
        <5>3. u[Both(c)] = t[Both(c)] /\ u[Left(c)] = t[Left(c)] /\ u[Right(c)] = t[Right(c)]
          BY <2>2, <3>4, <3>5, <5>1, <5>2
        <5>4. Cell(u, c) = Cell(t, c)
          BY <5>3 DEF Cell
        <5> QED BY <3>3, <5>4
      <4> QED BY <4>1, <4>2
    <3> QED BY <2>2, <3>3, <3>5
  <2> QED BY <2>3, <2>4
<1>3. PICK t \in [Cells -> Nat] : Filled(t, n + m + 1)
  <2>1. n + m + 1 \in Nat
    BY <1>1
  <2>2. n + m + 1 \notin S
    BY <1>2
  <2> HIDE DEF Filled
  <2> QED BY <2>1, <2>2
<1>4. \A c \in Cells : Ahead(c) < n + m + 1
  BY <1>1, CellFacts
<1> QED BY <1>3, <1>4

LEMMA TableIs ==
  ASSUME a \in Files, b \in Files
  PROVE  IsTable(Table)
<1> DEFINE Q(u) == u = [c \in Cells |-> Cell(u, c)]
<1>1. Table = CHOOSE u : Q(u)
  BY DEF Table, Cell, Both, Left, Right
<1>2. PICK t \in [Cells -> Nat] : \A c \in Cells : t[c] = Cell(t, c)
  BY Fillable
<1>3. Q(t)
  BY <1>2
<1> HIDE DEF Q
<1>4. Q(Table)
  BY <1>1, <1>3
<1> HIDE <1>1
<1>5. DOMAIN Table = Cells /\ \A c \in Cells : Table[c] = Cell(Table, c)
  <2> DEFINE u == Table
  <2>1. Q(u)
    BY <1>4
  <2> HIDE DEF u
  <2>2. u = [c \in Cells |-> Cell(u, c)]
    BY <2>1 DEF Q
  <2>3. DOMAIN u = Cells /\ \A c \in Cells : u[c] = Cell(u, c)
    BY <2>2
  <2> QED BY <2>3 DEF u
<1>6. \A c \in Cells : Table[c] \in Nat
  <2> DEFINE u == Table
             S == {r \in Nat : \E c \in Cells : Ahead(c) = r /\ u[c] \notin Nat}
  <2>1. \A c \in Cells : u[c] = Cell(u, c)
    BY <1>5
  <2> HIDE DEF u
  <2>2. S = {}
    <3> SUFFICES ASSUME S # {} PROVE FALSE
      OBVIOUS
    <3>1. PICK r \in S : \A q \in S : r <= q
      <4>1. S \in SUBSET Nat
        OBVIOUS
      <4> HIDE DEF S
      <4> QED BY <4>1, Least
    <3>2. PICK c \in Cells : Ahead(c) = r /\ u[c] \notin Nat
      OBVIOUS
    <3>3. c[1] # n /\ c[2] # m
      <4> SUFFICES ASSUME c[1] = n \/ c[2] = m PROVE FALSE
        OBVIOUS
      <4>1. Cell(u, c) = 0
        BY DEF Cell
      <4> QED BY <2>1, <3>2, <4>1
    <3>4. /\ Both(c) \in Cells /\ Left(c) \in Cells /\ Right(c) \in Cells
          /\ Ahead(Both(c)) = Ahead(c) - 2
          /\ Ahead(Left(c)) = Ahead(c) - 1 /\ Ahead(Right(c)) = Ahead(c) - 1
      BY <3>3, CellFacts
    <3>5. Ahead(Both(c)) \in Nat /\ Ahead(Left(c)) \in Nat /\ Ahead(Right(c)) \in Nat
      <4>1. n \in Nat /\ m \in Nat
        BY ArgumentFacts
      <4> QED BY <3>4, <4>1, CellFacts
    <3>6. u[Both(c)] \in Nat /\ u[Left(c)] \in Nat /\ u[Right(c)] \in Nat
      BY <3>1, <3>2, <3>4, <3>5
    <3>7. Max({u[Left(c)], u[Right(c)]}) \in Nat
      BY <3>6, MaxFacts
    <3>8. Cell(u, c) \in Nat
      BY <3>3, <3>6, <3>7 DEF Cell
    <3> QED BY <2>1, <3>2, <3>8
  <2>3. \A c \in Cells : Ahead(c) \in Nat
    <3>1. n \in Nat /\ m \in Nat
      BY ArgumentFacts
    <3> QED BY <3>1, CellFacts
  <2>4. \A c \in Cells : u[c] \in Nat
    BY <2>2, <2>3
  <2> QED BY <2>4 DEF u
<1>7. IsTable(Table)
  <2> DEFINE u == Table
  <2>1. u = [c \in Cells |-> Cell(u, c)]
    BY <1>4 DEF Q
  <2>2. \A c \in Cells : u[c] \in Nat /\ u[c] = Cell(u, c)
    BY <1>5, <1>6
  <2> HIDE DEF u
  <2>3. u \in [Cells -> Nat]
    BY <2>1, <2>2
  <2>4. IsTable(u)
    BY <2>2, <2>3 DEF IsTable, Cell, Both, Left, Right
  <2> QED BY <2>4 DEF u
<1> QED BY <1>7

\* A cell counts as many lines as any common subsequence has left there.
LEMMA TableBound ==
  ASSUME a \in Files, b \in Files, NEW t, IsTable(t),
         NEW l \in Nat, NEW f, NEW g, Pairs(n, m, l, f, g)
  PROVE  l <= t[<<0, 0>>]
<1> DEFINE Later(c, r) == \A q \in 1 .. l : q > r => f[q] > c[1] /\ g[q] > c[2]
           S == {z \in Nat : \E c \in Cells : \E r \in 0 .. l :
                   Ahead(c) = z /\ Later(c, r) /\ ~ (l - r <= t[c])}
<1>1. n \in Nat /\ m \in Nat
  BY ArgumentFacts
<1>2. t \in [Cells -> Nat] /\ \A c \in Cells : t[c] = Cell(t, c)
  BY DEF IsTable, Cell, Both, Left, Right
<1>3. /\ \A q \in 1 .. l : f[q] \in 1 .. n /\ g[q] \in 1 .. m /\ a[f[q]] = b[g[q]]
      /\ \A r, q \in 1 .. l : r < q => f[r] < f[q] /\ g[r] < g[q]
  BY DEF Pairs, Rising
<1>4. S = {}
  <2> SUFFICES ASSUME S # {} PROVE FALSE
    OBVIOUS
  <2>1. PICK z \in S : \A q \in S : z <= q
    <3>1. S \in SUBSET Nat
      OBVIOUS
    <3> HIDE DEF S
    <3> QED BY <3>1, Least
  <2>2. PICK c \in Cells : \E r \in 0 .. l : Ahead(c) = z /\ Later(c, r) /\ ~ (l - r <= t[c])
    OBVIOUS
  <2>3. PICK r \in 0 .. l : Ahead(c) = z /\ Later(c, r) /\ ~ (l - r <= t[c])
    BY <2>2
  <2>4. ASSUME NEW e \in Cells, Ahead(e) \in Nat, Ahead(e) < z, NEW p \in 0 .. l, Later(e, p)
        PROVE  l - p <= t[e]
    <3>1. Ahead(e) \notin S
      BY <2>1, <2>4
    <3> HIDE DEF Later
    <3> QED BY <2>4, <3>1
  <2> HIDE DEF S
  <2>5. c[1] \in 0 .. n /\ c[2] \in 0 .. m /\ Ahead(c) \in Nat /\ t[c] \in Nat
    BY <1>1, <1>2, CellFacts
  <2>6. r < l
    BY <2>3, <2>5
  <2>7. r + 1 \in 1 .. l /\ r + 1 > r
    BY <2>6
  <2>8. f[r + 1] > c[1] /\ g[r + 1] > c[2] /\ f[r + 1] \in 1 .. n /\ g[r + 1] \in 1 .. m
    BY <1>3, <2>3, <2>7
  <2>9. c[1] # n /\ c[2] # m
    BY <1>1, <2>5, <2>8
  <2>10. /\ Both(c) \in Cells /\ Both(c)[1] = c[1] + 1 /\ Both(c)[2] = c[2] + 1
         /\ Left(c) \in Cells /\ Left(c)[1] = c[1] + 1 /\ Left(c)[2] = c[2]
         /\ Right(c) \in Cells /\ Right(c)[1] = c[1] /\ Right(c)[2] = c[2] + 1
         /\ Ahead(Both(c)) = Ahead(c) - 2
         /\ Ahead(Left(c)) = Ahead(c) - 1 /\ Ahead(Right(c)) = Ahead(c) - 1
    BY <2>9, CellFacts
  <2>11. /\ Ahead(Both(c)) \in Nat /\ Ahead(Left(c)) \in Nat /\ Ahead(Right(c)) \in Nat
         /\ t[Both(c)] \in Nat /\ t[Left(c)] \in Nat /\ t[Right(c)] \in Nat
    BY <1>1, <1>2, <2>10, CellFacts
  <2>12. \A q \in 1 .. l : q > r + 1 => f[q] > f[r + 1] /\ g[q] > g[r + 1] /\ f[q] \in 1 .. n /\ g[q] \in 1 .. m
    BY <1>3, <2>7
  <2>13. \A q \in 1 .. l : q > r => q = r + 1 \/ q > r + 1
    OBVIOUS
  <2>14. CASE a[c[1] + 1] = b[c[2] + 1]
    <3>1. Later(Both(c), r + 1)
      BY <2>5, <2>8, <2>10, <2>12
    <3>2. l - (r + 1) <= t[Both(c)]
      <4>1. r + 1 \in 0 .. l /\ Ahead(Both(c)) < z
        BY <2>3, <2>5, <2>7, <2>10
      <4> HIDE DEF Later
      <4> QED BY <2>4, <2>10, <2>11, <3>1, <4>1
    <3>3. t[c] = t[Both(c)] + 1
      BY <1>2, <2>9, <2>14 DEF Cell
    <3> QED BY <2>3, <2>11, <3>2, <3>3
  <2>15. CASE a[c[1] + 1] # b[c[2] + 1]
    <3>1. t[c] = Max({t[Left(c)], t[Right(c)]})
      BY <1>2, <2>9, <2>15 DEF Cell
    <3>2. t[c] >= t[Left(c)] /\ t[c] >= t[Right(c)]
      BY <2>11, <3>1, MaxFacts
    <3>3. CASE f[r + 1] # c[1] + 1
      <4>1. Later(Left(c), r)
        BY <2>3, <2>5, <2>8, <2>10, <2>12, <2>13, <3>3
      <4>2. Ahead(Left(c)) < z
        BY <2>3, <2>5, <2>10
      <4> HIDE DEF Later
      <4>3. l - r <= t[Left(c)]
        BY <2>4, <2>10, <2>11, <4>1, <4>2
      <4> QED BY <2>3, <2>5, <2>11, <3>2, <4>3
    <3>4. CASE g[r + 1] # c[2] + 1
      <4>1. Later(Right(c), r)
        BY <2>3, <2>5, <2>8, <2>10, <2>12, <2>13, <3>4
      <4>2. Ahead(Right(c)) < z
        BY <2>3, <2>5, <2>10
      <4> HIDE DEF Later
      <4>3. l - r <= t[Right(c)]
        BY <2>4, <2>10, <2>11, <4>1, <4>2
      <4> QED BY <2>3, <2>5, <2>11, <3>2, <4>3
    <3> QED BY <1>3, <2>7, <2>15, <3>3, <3>4
  <2> QED BY <2>14, <2>15
<1>5. <<0, 0>> \in Cells /\ <<0, 0>>[1] = 0 /\ <<0, 0>>[2] = 0
  BY <1>1 DEF Cells
<1>6. Later(<<0, 0>>, 0) /\ 0 \in 0 .. l
  BY <1>3, <1>5
<1>7. Ahead(<<0, 0>>) \in Nat
  BY <1>1, <1>5, CellFacts
<1>8. l - 0 <= t[<<0, 0>>]
  <2> HIDE DEF Later
  <2> QED BY <1>4, <1>5, <1>6, <1>7
<1> QED BY <1>8
-----------------------------------------------------------------------------
(* What a step that leaves the files and the budget alone keeps *)

LEMMA Kept ==
  ASSUME a' = a, b' = b, maxD' = maxD
  PROVE  /\ n' = n /\ m' = m
         /\ \A j : At(j)' = At(j)
         /\ \A D : Diagonals(D)' = Diagonals(D)
         /\ \A w, j, D : ReachOn(w, j, D)' = ReachOn(w, j, D)
         /\ \A i, j : AtEnd(i, j)' <=> AtEnd(i, j)
         /\ \A i, j : Matches(i, j)' = Matches(i, j)
         /\ \A e : Beyond(e)' <=> Beyond(e)
<1>1. n' = n /\ m' = m /\ (\A j : At(j)' = At(j)) /\ \A D : Diagonals(D)' = Diagonals(D)
  BY DEF n, m, At, Diagonals
<1>2. \A w, j, D : ReachOn(w, j, D)' = ReachOn(w, j, D)
  <2>1. \A i, j : Snake(i, j)' = Snake(i, j)
    BY DEF Snake, n, m
  <2>2. \A w, j, D : Down(w, j, D)' <=> Down(w, j, D)
    BY <1>1 DEF Down
  <2> QED BY <1>1, <2>1, <2>2 DEF ReachOn
<1>3. \A i, j : AtEnd(i, j)' <=> AtEnd(i, j)
  BY <1>1 DEF AtEnd
<1>4. \A i, j : Matches(i, j)' = Matches(i, j)
  BY DEF Matches
<1>5. \A e : Beyond(e)' <=> Beyond(e)
  BY <1>1, <1>4 DEF Beyond
<1> QED BY <1>1, <1>2, <1>3, <1>4, <1>5

LEMMA KeptInside ==
  ASSUME a' = a, b' = b, maxD' = maxD
  PROVE  \A w, D : SoFar(w, D)' <=> SoFar(w, D)
<1>1. /\ n' = n /\ m' = m
      /\ \A j : At(j)' = At(j)
      /\ \A D : Diagonals(D)' = Diagonals(D)
      /\ \A i, j : AtEnd(i, j)' <=> AtEnd(i, j)
      /\ \A i, j : Matches(i, j)' = Matches(i, j)
  BY Kept
<1>2. \A w, D : Inside(w, D)' <=> Inside(w, D)
  BY <1>1 DEF Inside
<1>3. \A w, D : Advance(w, D)' <=> Advance(w, D)
  BY <1>1 DEF Advance
<1>4. \A w, D : Attained(w, D)' <=> Attained(w, D)
  BY <1>1 DEF Attained
<1>5. \A w, D : Furthest(w, D)' <=> Furthest(w, D)
  BY <1>1 DEF Furthest
<1> QED BY <1>1, <1>2, <1>3, <1>4, <1>5 DEF SoFar

LEMMA KeptParts ==
  ASSUME a' = a, b' = b, maxD' = maxD
  PROVE  /\ \A t : Traced(t)' <=> Traced(t)
         /\ \A t, w, D : BeforeRound(t, w, D)' <=> BeforeRound(t, w, D)
         /\ \A t, w, D, q : WithinRound(t, w, D, q)' <=> WithinRound(t, w, D, q)
         /\ \A t, D, i, j, s : ScriptFrom(t, D, i, j, s)' <=> ScriptFrom(t, D, i, j, s)
<1>1. /\ n' = n /\ m' = m
      /\ \A j : At(j)' = At(j)
      /\ \A D : Diagonals(D)' = Diagonals(D)
      /\ \A w, j, D : ReachOn(w, j, D)' = ReachOn(w, j, D)
      /\ \A i, j : AtEnd(i, j)' <=> AtEnd(i, j)
      /\ \A e : Beyond(e)' <=> Beyond(e)
      /\ \A w, D : SoFar(w, D)' <=> SoFar(w, D)
  BY Kept, KeptInside
<1>2. \A w, u, D : After(w, u, D)' <=> After(w, u, D)
  BY <1>1 DEF After
<1>3. \A t : Traced(t)' <=> Traced(t)
  BY <1>1, <1>2 DEF Traced
<1>4. \A t, w, D : BeforeRound(t, w, D)' <=> BeforeRound(t, w, D)
  BY <1>1, <1>2 DEF BeforeRound
<1>5. \A t, w, D, q : WithinRound(t, w, D, q)' <=> WithinRound(t, w, D, q)
  BY <1>1 DEF WithinRound
<1>6. \A t, D, i, j, s : ScriptFrom(t, D, i, j, s)' <=> ScriptFrom(t, D, i, j, s)
  BY <1>1 DEF ScriptFrom
<1> QED BY <1>3, <1>4, <1>5, <1>6

LEMMA KeptTable ==
  ASSUME a' = a, b' = b
  PROVE  /\ n' = n /\ m' = m
         /\ TooLarge' <=> TooLarge
         /\ tooExpensiveLimit' = tooExpensiveLimit
         /\ call' = call => Budget' = Budget
         /\ \A t : IsTable(t)' <=> IsTable(t)
         /\ \A t, i, j, s : ScriptTo(t, i, j, s)' <=> ScriptTo(t, i, j, s)
<1>1. n' = n /\ m' = m /\ \A i, j : Matches(i, j)' = Matches(i, j)
  BY DEF n, m, Matches
<1>2. (TooLarge' <=> TooLarge) /\ tooExpensiveLimit' = tooExpensiveLimit
  BY <1>1 DEF TooLarge, tooExpensiveLimit
<1>3. call' = call => Budget' = Budget
  BY <1>1, <1>2 DEF Budget
<1>4. \A t : IsTable(t)' <=> IsTable(t)
  BY <1>1 DEF IsTable, Cells
<1>5. \A t, i, j, s : ScriptTo(t, i, j, s)' <=> ScriptTo(t, i, j, s)
  BY <1>1, <1>4 DEF ScriptTo
<1> QED BY <1>1, <1>2, <1>3, <1>4, <1>5
-----------------------------------------------------------------------------
(* The steps of the search *)

LEMMA LimitFacts ==
  ASSUME a \in Files, b \in Files
  PROVE  tooExpensiveLimit \in Nat /\ (n + m > 0 => tooExpensiveLimit >= 1)
<1>1. n + m \in Nat
  BY ArgumentFacts
<1> QED BY <1>1, RootFacts, DiffAssumption DEF tooExpensiveLimit

LEMMA BudgetFacts ==
  ASSUME a \in Files, b \in Files, n + m > 0, NEW e, e = Min({Budget, n + m})
  PROVE  /\ e \in 1 .. n + m
         /\ call = "DiffLines" => e <= tooExpensiveLimit
         /\ e < n + m => call = "DiffLines" /\ e = tooExpensiveLimit
<1>1. n + m \in Nat /\ tooExpensiveLimit \in Nat /\ tooExpensiveLimit >= 1
  <2>1. n \in Nat /\ m \in Nat
    BY ArgumentFacts
  <2> QED BY <2>1, LimitFacts
<1>2. Budget = IF call = "DiffLines" THEN tooExpensiveLimit ELSE n + m
  BY DEF Budget
<1>3. e = IF Budget <= n + m THEN Budget ELSE n + m
  <2>1. Budget \in Int /\ n + m \in Int
    BY <1>1, <1>2
  <2> QED BY <2>1, MinFacts
<1> QED BY <1>1, <1>2, <1>3

LEMMA StateFacts ==
  ASSUME TypeOK, SearchInv
  PROVE  /\ a \in Files /\ b \in Files /\ n \in Nat /\ m \in Nat
         /\ maxD \in 0 .. n + m /\ d \in 0 .. maxD + 1
         /\ pc \in {"round", "extend", "back"} =>
              /\ Arguments
              /\ call # "DiffLinesLCS"
              /\ call = "DiffLines" => maxD <= tooExpensiveLimit
              /\ maxD < n + m => call = "DiffLines" /\ maxD = tooExpensiveLimit
<1>1. a \in Files /\ b \in Files /\ n \in Nat /\ m \in Nat /\ maxD \in 0 .. n + m /\ d \in 0 .. maxD + 1
  BY ArgumentFacts DEF TypeOK
<1>2. ASSUME pc \in {"round", "extend", "back"}
      PROVE  /\ Arguments
             /\ call # "DiffLinesLCS"
             /\ call = "DiffLines" => maxD <= tooExpensiveLimit
             /\ maxD < n + m => call = "DiffLines" /\ maxD = tooExpensiveLimit
  <2>1. call # "DiffLinesLCS" /\ n + m > 0 /\ maxD = Min({Budget, n + m})
    BY <1>2 DEF SearchInv
  <2> QED BY <1>1, <2>1, BudgetFacts DEF Arguments
<1> QED BY <1>1, <1>2

LEMMA Initially ==
  ASSUME Init
  PROVE  IInv
<1>1. n \in Nat /\ m \in Nat /\ a \in Files /\ b \in Files
  BY ArgumentFacts DEF Init
<1>2. (pc = "table" /\ call = "DiffLinesLCS") \/ (pc = "myers" /\ call # "DiffLinesLCS")
  BY DEF Init
<1>3. TypeOK
  <2>1. \A z \in Nat : 0 \in -z .. z
    OBVIOUS
  <2>2. k \in -maxD .. maxD
    BY <2>1 DEF Init
  <2>3. ops \in Seq([op : {"equal", "add", "del"}, line : Lines])
    BY DEF Init
  <2> QED BY <1>1, <2>2, <2>3 DEF Init, TypeOK
<1>4. SearchInv
  <2>1. Traced(trace)
    <3>1. <<>> \in Seq([Diagonals(maxD) -> 0 .. n + maxD]) /\ DOMAIN <<>> = {}
      OBVIOUS
    <3> QED BY <3>1 DEF Traced, Init
  <2> QED BY <1>2, <2>1 DEF SearchInv, Init
<1> QED BY <1>2, <1>3, <1>4 DEF IInv, BackInv, WalkInv

LEMMA MyersEmptyKeeps ==
  ASSUME IInv, MyersEmpty
  PROVE  IInv'
<1>1. /\ a' = a /\ b' = b /\ maxD' = maxD /\ call' = call /\ trace' = trace /\ ops' = ops
      /\ d' = d /\ k' = k /\ v' = v /\ x' = x /\ y' = y
      /\ pc = "myers" /\ pc' = "done" /\ result' = "script" /\ n + m = 0
  BY DEF MyersEmpty, Return, search
<1>2. TypeOK /\ SearchInv
  BY DEF IInv
<1>3. /\ n' = n /\ m' = m /\ tooExpensiveLimit' = tooExpensiveLimit
      /\ Traced(trace)' <=> Traced(trace)
  BY <1>1, KeptParts, KeptTable
<1>4. TypeOK'
  BY <1>1, <1>2, <1>3 DEF TypeOK
<1>5. SearchInv'
  BY <1>1, <1>2, <1>3 DEF SearchInv
<1>6. n = 0 /\ m = 0 /\ a \in Files /\ b \in Files
  BY <1>1, <1>2, StateFacts
<1>7. Distance[<<a, b>>] = 0 /\ a = <<>> /\ b = <<>>
  <2>1. PICK l \in Matches(n, m) : Distance[<<a, b>>] = n + m - 2 * l
    BY <1>6, DistanceIs
  <2>2. l = 0
    BY <1>6, MatchBounds
  <2>3. a \in Seq(Lines) /\ b \in Seq(Lines) /\ Len(a) = 0 /\ Len(b) = 0
    BY <1>6, ArgumentFacts DEF n, m
  <2> QED BY <1>6, <2>1, <2>2, <2>3, EmptySeq
<1>8. ops = <<>> /\ call # "DiffLinesLCS"
  BY <1>1, <1>2 DEF SearchInv
<1>9. IsScript' /\ Shortest'
  <2>1. Spells(<<>>, "add", <<>>) /\ Spells(<<>>, "del", <<>>)
        /\ Cardinality(Without(<<>>, "equal")) = 0
    BY SpellsNothing
  <2> QED BY <1>1, <1>7, <1>8, <2>1 DEF IsScript, Shortest
<1>10. FailsOnlyIfBothDo'
  <2>1. ~ (Distance[<<a, b>>] > tooExpensiveLimit)
    BY <1>6, <1>7, LimitFacts
  <2> QED BY <1>1, <1>3, <1>8, <2>1 DEF FailsOnlyIfBothDo
<1> QED BY <1>1, <1>4, <1>5, <1>9, <1>10 DEF IInv, BackInv, WalkInv

LEMMA StartReached ==
  Arguments => SoFar([i \in Diagonals(maxD) |-> 0], 0) /\ Beyond(-1)
BY NothingReached

LEMMA MyersStartKeeps ==
  ASSUME IInv, MyersStart
  PROVE  IInv'
<1>1. /\ a' = a /\ b' = b /\ call' = call /\ trace' = trace /\ ops' = ops /\ result' = result
      /\ d' = d /\ k' = k /\ x' = x /\ y' = y
      /\ pc = "myers" /\ pc' = "round" /\ n + m > 0
      /\ maxD' = Min({Budget, n + m})
      /\ v' = [i \in Diagonals(maxD') |-> 0]
  BY DEF MyersStart
<1>2. TypeOK /\ SearchInv
  BY DEF IInv
<1>3. a \in Files /\ b \in Files /\ n \in Nat /\ m \in Nat
  BY <1>2, StateFacts
<1>4. d = 0 /\ k = 0 /\ trace = <<>> /\ call # "DiffLinesLCS" /\ ops = <<>> /\ result = "none"
  BY <1>1, <1>2 DEF SearchInv
<1>5. maxD' \in 1 .. n + m
  BY <1>1, <1>3, BudgetFacts
<1>6. n' = n /\ m' = m /\ Budget' = Budget
  BY <1>1, KeptTable
<1>7. TypeOK'
  <2>1. \A z \in Nat : 0 \in -z .. z
    OBVIOUS
  <2>2. k' \in -maxD' .. maxD'
    BY <1>1, <1>4, <1>5, <2>1
  <2>3. maxD' \in 0 .. n' + m' /\ d' \in 0 .. maxD' + 1
    BY <1>1, <1>3, <1>4, <1>5, <1>6
  <2>4. \A i \in DOMAIN v' : v'[i] \in 0 .. n' + maxD'
    BY <1>1, <1>3, <1>5, <1>6
  <2>5. \A i \in DOMAIN trace' : DOMAIN trace'[i] = DOMAIN v'
    BY <1>1, <1>4
  <2> QED BY <1>1, <1>2, <1>6, <2>2, <2>3, <2>4, <2>5 DEF TypeOK
<1>8. SoFar(v, 0)' /\ Beyond(-1)'
  <2>1. (Arguments => SoFar([i \in Diagonals(maxD) |-> 0], 0) /\ Beyond(-1))'
    BY StartReached, PTL
  <2>2. Arguments'
    BY <1>1, <1>3, <1>5, <1>6 DEF Arguments
  <2> QED BY <1>1, <2>1, <2>2
<1>9. SearchInv'
  <2>1. Traced(trace)'
    <3>1. <<>> \in Seq([Diagonals(maxD)' -> 0 .. n' + maxD']) /\ DOMAIN <<>> = {}
      OBVIOUS
    <3> QED BY <1>1, <1>4, <3>1 DEF Traced
  <2>2. BeforeRound(trace, v, d)'
    <3>1. Len(trace') = 0 /\ d' = 0 /\ 0 - 1 = -1 /\ ~ (0 > 0)
      BY <1>1, <1>4
    <3> QED BY <1>8, <3>1 DEF BeforeRound
  <2> QED BY <1>1, <1>4, <1>6, <2>1, <2>2 DEF SearchInv
<1> QED BY <1>1, <1>7, <1>9 DEF IInv, BackInv, WalkInv

LEMMA RoundTraced ==
  ASSUME Arguments, NEW t, NEW w, NEW D \in 0 .. maxD, Traced(t), BeforeRound(t, w, D),
         NEW u, Append(t, w) = u
  PROVE  /\ Traced(u) /\ WithinRound(u, w, D, -D)
         /\ Len(u) = D + 1 /\ u[D + 1] = w /\ w \in [Diagonals(maxD) -> 0 .. n + maxD]
         /\ \A r \in 1 .. D : u[r] = t[r]
<1> DEFINE F == [Diagonals(maxD) -> 0 .. n + maxD]
<1>1. t \in Seq(F) /\ Len(t) = D /\ SoFar(w, D) /\ Beyond(D - 1) /\ w \in F
  BY DEF Traced, BeforeRound, SoFar
<1>2. maxD \in Nat
  BY ArgumentFacts DEF Arguments
<1> HIDE DEF F
<1>3. /\ u \in Seq(F) /\ Len(u) = D + 1 /\ u[D + 1] = w /\ DOMAIN u = 1 .. D + 1
      /\ \A r \in 1 .. D : u[r] = t[r]
  BY <1>1, AppendProperties, LenProperties
<1>4. ASSUME NEW r \in 1 .. D + 1
      PROVE  SoFar(u[r], r - 1) /\ (r < D + 1 => After(u[r], u[r + 1], r - 1))
  <2>1. CASE r = D + 1
    BY <1>1, <1>3, <2>1
  <2>2. CASE r = D
    <3>1. r \in DOMAIN t /\ D > 0
      BY <1>1, <2>2
    <3>2. SoFar(t[D], D - 1) /\ After(t[D], w, D - 1)
      BY <2>2, <3>1 DEF Traced, BeforeRound
    <3> QED BY <1>3, <2>2, <3>1, <3>2
  <2>3. CASE r < D
    <3>1. r \in DOMAIN t /\ r < Len(t) /\ r + 1 \in 1 .. D /\ r \in 1 .. D
      BY <1>1, <2>3
    <3>2. SoFar(t[r], r - 1) /\ After(t[r], t[r + 1], r - 1)
      BY <3>1 DEF Traced
    <3> QED BY <1>3, <3>1, <3>2
  <2>4. r = D + 1 \/ r = D \/ r < D
    BY <1>2
  <2> QED BY <2>1, <2>2, <2>3, <2>4, Zenon
<1>5. Traced(u)
  BY <1>3, <1>4 DEF Traced, F
<1>6. WithinRound(u, w, D, -D)
  <2>1. \A j \in Reached(D) : ~ (j < -D)
    <3>1. D \in Int
      BY <1>2
    <3>2. \A j \in Reached(D) : j \in Int /\ j >= -D
      BY <3>1, ReachedFacts
    <3> QED BY <3>1, <3>2
  <2>2. -D \in Reached(D)
    BY ReachedBounds
  <2> QED BY <1>1, <1>3, <2>1, <2>2 DEF WithinRound, F
<1> QED BY <1>1, <1>3, <1>5, <1>6 DEF F

LEMMA RoundKeeps ==
  ASSUME IInv, Round
  PROVE  IInv'
<1>1. /\ a' = a /\ b' = b /\ maxD' = maxD /\ call' = call /\ ops' = ops /\ result' = result
      /\ d' = d /\ v' = v /\ x' = x /\ y' = y
      /\ pc = "round" /\ pc' = "extend" /\ d <= maxD
      /\ trace' = Append(trace, v) /\ k' = -d
  BY DEF Round
<1>2. TypeOK /\ SearchInv
  BY DEF IInv
<1>3. Arguments /\ maxD \in Nat /\ d \in 0 .. maxD
  BY <1>1, <1>2, StateFacts
<1>4. Traced(trace) /\ BeforeRound(trace, v, d)
  BY <1>1, <1>2 DEF SearchInv
<1>5. /\ Traced(trace') /\ WithinRound(trace', v, d, -d)
      /\ Len(trace') = d + 1 /\ trace'[d + 1] = v /\ v \in [Diagonals(maxD) -> 0 .. n + maxD]
      /\ \A r \in 1 .. d : trace'[r] = trace[r]
  <2> DEFINE u == Append(trace, v)
  <2> HIDE DEF u
  <2>1. /\ Traced(u) /\ WithinRound(u, v, d, -d)
        /\ Len(u) = d + 1 /\ u[d + 1] = v /\ v \in [Diagonals(maxD) -> 0 .. n + maxD]
        /\ \A r \in 1 .. d : u[r] = trace[r]
    <3>1. Append(trace, v) = u
      BY DEF u
    <3> QED BY <1>3, <1>4, <3>1, RoundTraced
  <2>2. u = trace'
    BY <1>1 DEF u
  <2> QED BY <2>1, <2>2
<1>6. /\ n' = n /\ m' = m /\ Budget' = Budget
      /\ Traced(trace)' /\ WithinRound(trace, v, d, k)'
  BY <1>1, <1>5, KeptParts, KeptTable
<1>7. TypeOK'
  <2>1. k' \in -maxD' .. maxD'
    BY <1>1, <1>3
  <2>2. \A i \in DOMAIN trace' : DOMAIN trace'[i] = DOMAIN v'
    <3>1. trace' \in Seq([Diagonals(maxD) -> 0 .. n + maxD])
      BY <1>5 DEF Traced
    <3>2. \A i \in DOMAIN trace' : trace'[i] \in [Diagonals(maxD) -> 0 .. n + maxD]
      BY <3>1, ElementOfSeq, LenProperties
    <3> QED BY <1>1, <1>5, <3>2
  <2> QED BY <1>1, <1>2, <1>6, <2>1, <2>2 DEF TypeOK
<1>8. SearchInv'
  BY <1>1, <1>2, <1>6 DEF SearchInv
<1> QED BY <1>1, <1>7, <1>8 DEF IInv, BackInv, WalkInv

\* A diagonal's reach depends on its neighbours only, which are not of its round.
LEMMA SameReach ==
  ASSUME Arguments, NEW D \in 0 .. maxD, NEW j \in Reached(D), NEW w, NEW u,
         \A i \in -maxD .. maxD : i \notin Reached(D) => u[At(i)] = w[At(i)]
  PROVE  ReachOn(u, j, D) = ReachOn(w, j, D)
<1>1. maxD \in Nat \ {0} /\ D \in Int
  BY ArgumentFacts DEF Arguments
<1>2. /\ j \in Int /\ j >= -D /\ j <= D /\ D >= 0
      /\ j # -D => j >= 2 - D
      /\ j # D => j <= D - 2
  BY <1>1, ReachedFacts
<1>3. j + 1 \notin Reached(D) /\ j - 1 \notin Reached(D)
  <2>1. ASSUME j + 1 \in Reached(D) PROVE FALSE
    <3>1. j < j + 1 /\ ~ (j + 2 <= j + 1)
      BY <1>2
    <3> QED BY <1>1, <2>1, <3>1, ReachedApart
  <2>2. ASSUME j - 1 \in Reached(D) PROVE FALSE
    <3>1. j - 1 < j /\ ~ (j - 1 + 2 <= j)
      BY <1>2
    <3> QED BY <1>1, <2>2, <3>1, ReachedApart
  <2> QED BY <2>1, <2>2
<1>4. j # D \/ D = 0 => u[At(j + 1)] = w[At(j + 1)]
  <2> HAVE j # D \/ D = 0
  <2>1. j + 1 \in -maxD .. maxD
    BY <1>1, <1>2
  <2> QED BY <1>3, <2>1
<1>5. j # -D => u[At(j - 1)] = w[At(j - 1)]
  <2> HAVE j # -D
  <2>1. j - 1 \in -maxD .. maxD
    BY <1>1, <1>2
  <2> QED BY <1>3, <2>1
<1>6. Down(u, j, D) <=> Down(w, j, D)
  BY <1>4, <1>5 DEF Down
<1>7. D = 0 => j = -D
  BY <1>1, <1>2
<1>8. CASE Down(w, j, D)
  <2>1. j # D \/ D = 0
    BY <1>2, <1>8 DEF Down
  <2> QED BY <1>4, <1>6, <1>8, <2>1 DEF ReachOn
<1>9. CASE ~ Down(w, j, D)
  <2>1. j # -D
    BY <1>9 DEF Down
  <2> QED BY <1>5, <1>6, <1>9, <2>1 DEF ReachOn
<1> QED BY <1>8, <1>9

\* What a round that has got to diagonal q finds there.
LEMMA WithinFacts ==
  ASSUME Arguments, NEW t, NEW w, NEW D \in Nat, NEW q, Traced(t), WithinRound(t, w, D, q)
  PROVE  /\ D \in 0 .. maxD /\ q \in Int /\ q \in -D .. D /\ q \in Reached(D)
         /\ D + 1 \in DOMAIN t /\ SoFar(t[D + 1], D)
         /\ ReachOn(w, q, D) = ReachOn(t[D + 1], q, D)
         /\ ReachOn(w, q, D) \in 0 .. n + maxD /\ ReachOn(w, q, D) >= q
<1>1. maxD \in Nat \ {0} /\ n \in Nat
  BY ArgumentFacts DEF Arguments
<1>2. /\ Len(t) = D + 1 /\ D <= maxD /\ q \in Reached(D)
      /\ \A j \in -maxD .. maxD :
           ~ (j \in Reached(D) /\ j < q) => w[At(j)] = t[D + 1][At(j)]
  BY DEF WithinRound
<1>3. D \in 0 .. maxD
  BY <1>1, <1>2
<1>4. q \in Int /\ q \in -D .. D
  BY <1>1, <1>2, <1>3, ReachedFacts
<1>5. D + 1 \in DOMAIN t /\ SoFar(t[D + 1], D)
  <2>1. DOMAIN t = 1 .. Len(t)
    BY LenProperties DEF Traced
  <2>2. D + 1 \in DOMAIN t /\ D + 1 - 1 = D
    BY <1>1, <1>2, <1>3, <2>1
  <2>3. \A r \in DOMAIN t : SoFar(t[r], r - 1)
    BY DEF Traced
  <2>4. SoFar(t[D + 1], D + 1 - 1)
    BY <2>2, <2>3
  <2> QED BY <2>2, <2>4
<1>6. ReachOn(w, q, D) = ReachOn(t[D + 1], q, D)
  BY <1>2, <1>3, SameReach
<1>7. ReachOn(w, q, D) \in 0 .. n + maxD /\ ReachOn(w, q, D) >= q
  <2>1. /\ t[D + 1] \in [Diagonals(maxD) -> 0 .. n + maxD] /\ (D = 0 => t[D + 1][At(1)] = 0)
        /\ Inside(t[D + 1], D) /\ Advance(t[D + 1], D)
    BY <1>5 DEF SoFar
  <2> DEFINE r == ReachOn(t[D + 1], q, D)
  <2>2. r \in Nat /\ r >= q /\ r <= n + D
    BY <1>2, <1>3, <2>1, ReachFacts
  <2> HIDE DEF r
  <2>3. r \in 0 .. n + maxD
    BY <1>1, <1>3, <2>2
  <2> QED BY <1>6, <2>2, <2>3 DEF r
<1> QED BY <1>2, <1>3, <1>4, <1>5, <1>6, <1>7

LEMMA ExtendedRound ==
  ASSUME Arguments, NEW t, NEW w, NEW D \in Nat, NEW q, Traced(t), WithinRound(t, w, D, q),
         NEW r, r = ReachOn(w, q, D), ~AtEnd(r, r - q), NEW u, u = [w EXCEPT ![At(q)] = r]
  PROVE  /\ u \in [Diagonals(maxD) -> 0 .. n + maxD]
         /\ q < D => WithinRound(t, u, D, q + 2) /\ q + 2 \in -D .. D
         /\ q = D => BeforeRound(t, u, D + 1)
<1> DEFINE o == t[D + 1]
           V == [Diagonals(maxD) -> 0 .. n + maxD]
<1>1. maxD \in Nat \ {0} /\ n \in Nat
  BY ArgumentFacts DEF Arguments
<1>2. /\ D \in 0 .. maxD /\ q \in Int /\ q \in -D .. D /\ q \in Reached(D)
      /\ D + 1 \in DOMAIN t /\ SoFar(o, D)
      /\ r = ReachOn(o, q, D) /\ r \in 0 .. n + maxD
  BY WithinFacts
<1>3. /\ Len(t) = D + 1 /\ w \in V /\ Beyond(D - 1)
      /\ \A j \in -maxD .. maxD :
           IF j \in Reached(D) /\ j < q
           THEN w[At(j)] = ReachOn(o, j, D) /\ ~AtEnd(w[At(j)], w[At(j)] - j)
           ELSE w[At(j)] = o[At(j)]
  BY DEF WithinRound
<1> HIDE DEF o
<1>4. q \in -maxD .. maxD /\ At(q) \in Diagonals(maxD)
  BY <1>1, <1>2, Indices
<1>5. /\ u \in V /\ u[At(q)] = r
      /\ \A j \in -maxD .. maxD : j # q => u[At(j)] = w[At(j)]
  <2>1. \A j \in -maxD .. maxD : At(j) \in Diagonals(maxD) /\ (At(j) = At(q) => j = q)
    BY <1>1, <1>4, Indices
  <2> QED BY <1>2, <1>3, <1>4, <2>1
<1> HIDE DEF V
<1>6. \A j \in Reached(D) : j \in Int /\ j \in -maxD .. maxD /\ j \in -D .. D /\ (j > q => j >= q + 2)
  <2> TAKE j \in Reached(D)
  <2>1. j \in Int /\ j >= -D /\ j <= D
    BY <1>2, ReachedFacts
  <2>2. ASSUME q < j PROVE q + 2 <= j
    BY <1>2, <2>1, <2>2, ReachedApart
  <2> QED BY <1>1, <1>2, <2>1, <2>2
<1>7. \A j \in Reached(D) : j <= q => u[At(j)] = ReachOn(o, j, D) /\ ~AtEnd(u[At(j)], u[At(j)] - j)
  <2> SUFFICES ASSUME NEW j \in Reached(D), j <= q
               PROVE  u[At(j)] = ReachOn(o, j, D) /\ ~AtEnd(u[At(j)], u[At(j)] - j)
    OBVIOUS
  <2>1. CASE j = q
    BY <1>2, <1>5, <2>1
  <2>2. CASE j < q
    <3>1. j \in -maxD .. maxD /\ j # q
      BY <1>2, <1>6, <2>2
    <3> QED BY <1>3, <1>5, <2>2, <3>1
  <2> QED BY <1>2, <1>6, <2>1, <2>2
<1>8. \A j \in -maxD .. maxD : ~ (j \in Reached(D) /\ j <= q) => u[At(j)] = o[At(j)]
  <2> SUFFICES ASSUME NEW j \in -maxD .. maxD, ~ (j \in Reached(D) /\ j <= q)
               PROVE  u[At(j)] = o[At(j)]
    OBVIOUS
  <2>1. j # q /\ ~ (j \in Reached(D) /\ j < q)
    BY <1>2
  <2> QED BY <1>3, <1>5, <2>1
<1>9. q < D => WithinRound(t, u, D, q + 2) /\ q + 2 \in -D .. D
  <2> HAVE q < D
  <2>1. q + 2 \in Reached(D)
    BY <1>2, ReachedFacts
  <2>2. \A j \in Reached(D) : j < q + 2 <=> j <= q
    BY <1>2, <1>6
  <2>3. ASSUME NEW j \in -maxD .. maxD
        PROVE  IF j \in Reached(D) /\ j < q + 2
               THEN u[At(j)] = ReachOn(o, j, D) /\ ~AtEnd(u[At(j)], u[At(j)] - j)
               ELSE u[At(j)] = o[At(j)]
    BY <1>7, <1>8, <2>2
  <2> QED BY <1>1, <1>2, <1>3, <1>5, <1>6, <2>1, <2>3 DEF WithinRound, o, V
<1>10. q = D => BeforeRound(t, u, D + 1)
  <2> HAVE q = D
  <2>1. After(o, u, D)
    BY <1>2, <1>6, <1>7 DEF After
  <2>2. \A j \in Reached(D) : ~AtEnd(u[At(j)], u[At(j)] - j)
    BY <1>2, <1>6, <1>7
  <2>3. \A j \in Reached(D - 1) : u[At(j)] = o[At(j)]
    <3> TAKE j \in Reached(D - 1)
    <3>1. j \in Int /\ j >= -(D - 1) /\ j <= D - 1
      BY <1>2, ReachedFacts
    <3>2. j \in -maxD .. maxD
      BY <1>1, <1>2, <3>1
    <3>3. j \notin Reached(D)
      BY <1>2, ReachedFacts
    <3> QED BY <1>8, <3>2, <3>3
  <2>4. SoFar(u, D + 1) /\ Beyond(D)
    BY <1>2, <1>3, <1>5, <2>1, <2>2, <2>3, RoundSoFar DEF V
  <2>5. D + 1 - 1 = D
    BY <1>2
  <2>6. D + 1 > 0 => After(t[D + 1], u, D + 1 - 1)
    BY <2>1, <2>5 DEF o
  <2>7. Beyond(D + 1 - 1)
    BY <2>4, <2>5
  <2> QED BY <1>3, <2>4, <2>6, <2>7 DEF BeforeRound
<1> QED BY <1>5, <1>9, <1>10 DEF V

LEMMA ExtendKeeps ==
  ASSUME IInv, Extend
  PROVE  IInv'
<1>1. /\ a' = a /\ b' = b /\ maxD' = maxD /\ call' = call /\ ops' = ops /\ result' = result
      /\ x' = x /\ y' = y /\ trace' = trace
      /\ pc = "extend" /\ ~AtEnd(Reach, Reach - k)
      /\ v' = [v EXCEPT ![At(k)] = Reach]
      /\ \/ k < d /\ k' = k + 2 /\ d' = d /\ pc' = pc
         \/ k = d /\ d' = d + 1 /\ pc' = "round" /\ k' = k
  BY DEF Extend, NextK
<1>2. TypeOK /\ SearchInv
  BY DEF IInv
<1>3. Arguments /\ maxD \in Nat /\ n \in Nat /\ d \in Nat
  BY <1>1, <1>2, StateFacts
<1>4. Traced(trace) /\ WithinRound(trace, v, d, k)
  BY <1>1, <1>2 DEF SearchInv
<1>5. d \in 0 .. maxD /\ k \in Int /\ k \in -d .. d /\ Reach \in 0 .. n + maxD
  BY <1>3, <1>4, WithinFacts DEF Reach
<1>6. /\ v' \in [Diagonals(maxD) -> 0 .. n + maxD]
      /\ k < d => WithinRound(trace, v', d, k + 2) /\ k + 2 \in -d .. d
      /\ k = d => BeforeRound(trace, v', d + 1)
  <2> DEFINE u == [v EXCEPT ![At(k)] = Reach]
             r == Reach
  <2>1. u = [v EXCEPT ![At(k)] = r] /\ r = ReachOn(v, k, d) /\ ~AtEnd(r, r - k)
    BY <1>1 DEF Reach
  <2> HIDE DEF u, r
  <2>2. /\ u \in [Diagonals(maxD) -> 0 .. n + maxD]
        /\ k < d => WithinRound(trace, u, d, k + 2) /\ k + 2 \in -d .. d
        /\ k = d => BeforeRound(trace, u, d + 1)
    BY <1>3, <1>4, <2>1, ExtendedRound
  <2>3. v' = u
    BY <1>1 DEF u
  <2> QED BY <2>2, <2>3
<1>7. /\ n' = n /\ m' = m /\ Budget' = Budget
      /\ Traced(trace)'
      /\ k < d => WithinRound(trace, v, d, k)'
      /\ k = d => BeforeRound(trace, v, d)'
  BY <1>1, <1>4, <1>5, <1>6, KeptParts, KeptTable
<1>8. TypeOK'
  <2>1. k' \in -maxD' .. maxD' /\ d' \in 0 .. maxD' + 1
    BY <1>1, <1>3, <1>5, <1>6
  <2>2. v \in [Diagonals(maxD) -> 0 .. n + maxD]
    BY <1>4 DEF WithinRound
  <2>3. pc' \in {"round", "extend"} /\ DOMAIN v' = DOMAIN v
    BY <1>1
  <2>4. \A i \in DOMAIN v' : v'[i] \in 0 .. n' + maxD'
    BY <1>1, <1>6, <1>7
  <2> QED BY <1>1, <1>2, <1>7, <2>1, <2>3, <2>4 DEF TypeOK
<1>9. SearchInv'
  <2>1. pc' = "extend" => k < d
    BY <1>1
  <2>2. pc' = "round" => k = d
    BY <1>1
  <2>3. pc' \in {"round", "extend"}
    BY <1>1
  <2> QED BY <1>1, <1>2, <1>7, <2>1, <2>2, <2>3 DEF SearchInv
<1>10. pc' \notin {"back", "table", "walk", "done"}
  BY <1>1
<1> QED BY <1>8, <1>9, <1>10 DEF IInv, BackInv, WalkInv

LEMMA FoundKeeps ==
  ASSUME IInv, Found
  PROVE  IInv'
<1>1. /\ a' = a /\ b' = b /\ maxD' = maxD /\ call' = call /\ ops' = ops /\ result' = result
      /\ d' = d /\ k' = k /\ trace' = trace
      /\ pc = "extend" /\ pc' = "back" /\ AtEnd(Reach, Reach - k)
      /\ v' = [v EXCEPT ![At(k)] = Reach]
      /\ x' = n /\ y' = m
  BY DEF Found
<1>2. TypeOK /\ SearchInv
  BY DEF IInv
<1>3. Arguments /\ maxD \in Nat /\ n \in Nat /\ m \in Nat /\ d \in Nat /\ a \in Files /\ b \in Files
  BY <1>1, <1>2, StateFacts
<1>4. Traced(trace) /\ WithinRound(trace, v, d, k) /\ ops = <<>>
  BY <1>1, <1>2 DEF SearchInv
<1>5. /\ d \in 0 .. maxD /\ k \in Int /\ k \in Reached(d) /\ Reach \in 0 .. n + maxD
      /\ d + 1 \in DOMAIN trace /\ SoFar(trace[d + 1], d)
      /\ Reach = ReachOn(trace[d + 1], k, d)
  BY <1>3, <1>4, WithinFacts DEF Reach
<1>6. Beyond(d - 1) /\ Len(trace) = d + 1 /\ v \in [Diagonals(maxD) -> 0 .. n + maxD]
  BY <1>4 DEF WithinRound
<1>7. Reach = n /\ k = n - m /\ Distance[<<a, b>>] = d
  BY <1>1, <1>3, <1>5, <1>6, FoundFacts
<1>8. ScriptFrom(trace, d, n, m, <<>>)
  <2>1. SubSeq(a, n + 1, n) = <<>> /\ SubSeq(b, m + 1, m) = <<>>
    BY <1>3, ArgumentFacts, PartEmpty
  <2>2. /\ Spells(<<>>, "add", <<>>) /\ Spells(<<>>, "del", <<>>)
        /\ Cardinality(Without(<<>>, "equal")) = 0
    BY SpellsNothing
  <2>3. 0 + d = d + 1 - 1 /\ d + 1 <= maxD + 1 /\ n \in 0 .. n /\ m \in 0 .. m
    BY <1>3, <1>5
  <2>4. n - m \in Reached(d) /\ n = ReachOn(trace[d + 1], n - m, d)
    BY <1>5, <1>7
  <2>5. Len(trace) - 1 = d /\ Len(trace) <= maxD + 1
    BY <1>3, <1>6, <2>3
  <2>6. Spells(<<>>, "add", SubSeq(a, n + 1, n)) /\ Spells(<<>>, "del", SubSeq(b, m + 1, m))
    BY <2>1, <2>2
  <2>7. /\ Cardinality(Without(<<>>, "equal")) + d = Len(trace) - 1
        /\ Len(trace) - 1 = Distance[<<a, b>>]
    BY <1>3, <1>7, <2>2, <2>5
  <2> QED BY <1>5, <2>3, <2>4, <2>5, <2>6, <2>7 DEF ScriptFrom
<1>9. /\ n' = n /\ m' = m /\ Budget' = Budget
      /\ Traced(trace)' /\ ScriptFrom(trace, d, x, y, ops)'
  BY <1>1, <1>4, <1>8, KeptParts, KeptTable
<1>10. TypeOK'
  <2>1. At(k) \in Diagonals(maxD) => v' \in [Diagonals(maxD) -> 0 .. n + maxD]
    BY <1>1, <1>5, <1>6
  <2>2. DOMAIN v' = DOMAIN v
    BY <1>1, <1>6
  <2>3. \A i \in DOMAIN v' : v'[i] \in 0 .. n' + maxD'
    BY <1>1, <1>5, <1>6, <1>9
  <2>4. x' \in 0 .. n' /\ y' \in 0 .. m'
    BY <1>1, <1>3, <1>9
  <2> QED BY <1>1, <1>2, <1>9, <2>2, <2>3, <2>4 DEF TypeOK
<1>11. SearchInv'
  BY <1>1, <1>2, <1>9 DEF SearchInv
<1> QED BY <1>1, <1>9, <1>10, <1>11 DEF IInv, BackInv, WalkInv

LEMMA GiveUpKeeps ==
  ASSUME IInv, GiveUp
  PROVE  IInv'
<1>1. /\ a' = a /\ b' = b /\ maxD' = maxD /\ call' = call /\ ops' = ops
      /\ d' = d /\ k' = k /\ v' = v /\ trace' = trace /\ x' = x /\ y' = y
      /\ pc = "round" /\ d > maxD
      /\ call = "DiffLines" => pc' = "table" /\ result' = result
  BY DEF GiveUp, Exhausted, Return, search
<1>2. TypeOK /\ SearchInv
  BY DEF IInv
<1>3. /\ Arguments /\ maxD \in Nat /\ n \in Nat /\ m \in Nat /\ d \in 0 .. maxD + 1
      /\ a \in Files /\ b \in Files
      /\ maxD < n + m => call = "DiffLines" /\ maxD = tooExpensiveLimit
  BY <1>1, <1>2, StateFacts
<1>4. d = maxD + 1 /\ d - 1 = maxD
  BY <1>1, <1>3
<1>5. SoFar(v, maxD + 1) /\ Beyond(maxD)
  BY <1>1, <1>2, <1>4 DEF SearchInv, BeforeRound
<1>6. call = "DiffLines" /\ maxD = tooExpensiveLimit
  BY <1>3, <1>5, Converges
<1>7. Distance[<<a, b>>] > tooExpensiveLimit
  <2>1. PICK l \in Matches(n, m) : Distance[<<a, b>>] = n + m - 2 * l
    BY <1>3, DistanceIs
  <2>2. n + m - 2 * l > maxD
    BY <1>5 DEF Beyond
  <2> QED BY <1>6, <2>1, <2>2
<1>8. pc' = "table" /\ result' = result
  BY <1>1, <1>6
<1>9. /\ n' = n /\ m' = m /\ tooExpensiveLimit' = tooExpensiveLimit
      /\ Traced(trace)' <=> Traced(trace)
  BY <1>1, KeptParts, KeptTable
<1>10. TypeOK'
  BY <1>1, <1>2, <1>8, <1>9 DEF TypeOK
<1>11. SearchInv'
  BY <1>1, <1>2, <1>8, <1>9 DEF SearchInv
<1>12. WalkInv'
  BY <1>1, <1>6, <1>7, <1>8, <1>9 DEF WalkInv
<1> QED BY <1>8, <1>10, <1>11, <1>12 DEF IInv, BackInv
-----------------------------------------------------------------------------
(* The steps of the way back *)

\* Where round d came from: its edit and its snake end at x and y.
LEMMA BackFacts ==
  ASSUME Arguments, NEW D \in Nat, D = d, Traced(trace), ScriptFrom(trace, D, x, y, ops)
  PROVE  /\ SnakeLen \in Nat /\ SnakeLen <= x /\ SnakeLen <= y
         /\ \A i \in 1 .. SnakeLen : a[x - SnakeLen + i] = b[y - SnakeLen + i]
         /\ PrevX \in 0 .. x /\ PrevY \in Int /\ PrevY <= y
         /\ D = 0 => SnakeLen = x /\ SnakeLen = y
         /\ D > 0 =>
              /\ PrevX - PrevY \in Reached(D - 1) /\ PrevY >= 0
              /\ PrevX = ReachOn(trace[D], PrevX - PrevY, D - 1)
              /\ \/ PrevX = x - SnakeLen /\ PrevY = y - SnakeLen - 1
                 \/ PrevX = x - SnakeLen - 1 /\ PrevY = y - SnakeLen
<1> DEFINE w == trace[D + 1]
           j == x - y
           e == Begin(w, j, D)
           s == Snake(e, e - j)
<1>1. maxD \in Nat \ {0} /\ n \in Nat /\ m \in Nat /\ a \in Files /\ b \in Files
  BY ArgumentFacts DEF Arguments
<1>2. /\ D + 1 \in DOMAIN trace /\ Len(trace) <= maxD + 1
      /\ x \in 0 .. n /\ y \in 0 .. m /\ j \in Reached(D) /\ x = ReachOn(w, j, D)
  BY DEF ScriptFrom
<1>3. SoFar(w, D) /\ DOMAIN trace = 1 .. Len(trace) /\ Len(trace) \in Nat /\ D \in 0 .. maxD
  <2>1. DOMAIN trace = 1 .. Len(trace) /\ Len(trace) \in Nat
    BY LenProperties DEF Traced
  <2>2. D + 1 - 1 = D /\ D <= maxD
    BY <1>1, <1>2, <2>1
  <2>3. \A r \in DOMAIN trace : SoFar(trace[r], r - 1)
    BY DEF Traced
  <2>4. SoFar(trace[D + 1], D + 1 - 1)
    BY <1>2, <2>3
  <2> QED BY <1>1, <2>1, <2>2, <2>4
<1>4. /\ w \in [Diagonals(maxD) -> 0 .. n + maxD] /\ (D = 0 => w[At(1)] = 0)
      /\ Inside(w, D) /\ Advance(w, D)
  BY <1>3 DEF SoFar
<1> HIDE DEF w
<1>5. /\ j \in Int /\ j >= -D /\ j <= D /\ (D = 0 => j = 0)
      /\ j # -D => j - 1 \in Reached(D - 1)
      /\ j # D => j + 1 \in Reached(D - 1)
  <2>1. D \in Int
    OBVIOUS
  <2>2. /\ j \in Int /\ j >= -D /\ j <= D
        /\ j # -D => j - 1 \in Reached(D - 1)
        /\ j # D => j + 1 \in Reached(D - 1)
    BY <1>2, <2>1, ReachedFacts
  <2>3. D = 0 => j = 0
    BY <2>1, <2>2
  <2> QED BY <2>2, <2>3
<1> HIDE DEF j
<1>6. e \in Nat /\ e >= j /\ (D = 0 => e = 0)
  <2>1. w \in [Diagonals(maxD) -> Nat]
    BY <1>1, <1>4
  <2>2. D = 0 => e = 0
    BY <1>2, <1>3, <1>4, <2>1, BeginFacts
  <2> QED BY <1>2, <1>3, <1>4, <2>2, ReachFacts
<1> HIDE DEF e
<1>7. x = e + s
  BY <1>2 DEF ReachOn, e, Begin
<1>8. s \in Nat /\ \A i \in 1 .. s : a[e + i] = b[e - j + i]
  <2>1. e - j \in Int
    BY <1>5, <1>6
  <2> QED BY <1>1, <1>6, <2>1, SnakeFacts
<1> HIDE DEF s
<1>9. y = e - j + s /\ x \in Int /\ y \in Int
  BY <1>1, <1>2, <1>5, <1>6, <1>7, <1>8 DEF j
<1>10. ASSUME NEW q \in Reached(D - 1) PROVE q \in Int /\ w[At(q)] \in Nat /\ w[At(q)] >= q
  <2>1. q \in Int /\ q >= -(D - 1) /\ q <= D - 1
    BY <1>3, ReachedFacts
  <2>2. q \in -maxD .. maxD /\ q \in -(D - 1) .. D - 1
    BY <1>1, <1>3, <2>1
  <2>3. w[At(q)] >= q
    BY <2>2, <1>4 DEF Inside
  <2> QED BY <1>1, <1>4, <2>1, <2>2, <2>3, Indices
<1>11. ASSUME NEW q \in Reached(D - 1), D > 0 PROVE w[At(q)] = ReachOn(trace[D], q, D - 1)
  <2>1. D \in DOMAIN trace /\ D < Len(trace)
    BY <1>2, <1>3, <1>11
  <2>2. After(trace[D], trace[D + 1], D - 1)
    BY <2>1 DEF Traced
  <2> QED BY <2>2 DEF After, w
<1>12. PrevK = IF Down(w, j, D) THEN j + 1 ELSE j - 1
  BY DEF PrevK, w, j
<1>13. PrevX = w[At(PrevK)] /\ PrevY = PrevX - PrevK
  BY DEF PrevX, PrevY, w
<1>14. SnakeLen = Max({0, Min({x - PrevX, y - PrevY})})
  BY DEF SnakeLen
<1>15. CASE Down(w, j, D)
  <2>1. PrevK = j + 1 /\ e = PrevX
    BY <1>12, <1>13, <1>15 DEF e, Begin
  <2>2. PrevY = e - j - 1 /\ PrevX = e
    BY <1>5, <1>6, <1>13, <2>1
  <2>3. x - PrevX = s /\ y - PrevY = s + 1
    BY <1>5, <1>6, <1>7, <1>8, <1>9, <2>2
  <2>4. SnakeLen = s
    <3>1. Min({s, s + 1}) = s
      BY <1>8, MinFacts
    <3>2. Max({0, s}) = s
      BY <1>8, MaxFacts
    <3> QED BY <1>14, <2>3, <3>1, <3>2
  <2>5. D > 0 => j + 1 \in Reached(D - 1)
    <3>1. D > 0 => j # D
      BY <1>5, <1>15 DEF Down
    <3> QED BY <1>5, <3>1
  <2>6. D > 0 => PrevX - PrevY \in Reached(D - 1) /\ PrevY >= 0
                 /\ PrevX = ReachOn(trace[D], PrevX - PrevY, D - 1)
    <3> HAVE D > 0
    <3>1. PrevX - PrevY = j + 1
      BY <1>5, <1>6, <2>2
    <3>2. w[At(j + 1)] >= j + 1 /\ w[At(j + 1)] = ReachOn(trace[D], j + 1, D - 1)
      BY <1>10, <1>11, <2>5
    <3>3. PrevX >= j + 1 /\ PrevX = ReachOn(trace[D], j + 1, D - 1)
      BY <1>13, <2>1, <3>2
    <3> QED BY <1>5, <1>6, <2>2, <2>5, <3>1, <3>3
  <2>7. x - s = e /\ y - s = e - j /\ s <= x /\ PrevX \in 0 .. x
    BY <1>5, <1>6, <1>7, <1>8, <1>9, <2>2
  <2>8. s <= y /\ PrevY <= y /\ PrevY \in Int /\ PrevX = x - s /\ PrevY = y - s - 1
    BY <1>5, <1>6, <1>7, <1>8, <1>9, <2>2
  <2>9. \A i \in 1 .. s : a[x - s + i] = b[y - s + i]
    BY <1>8, <2>7
  <2>10. D = 0 => s = x /\ s = y
    BY <1>5, <1>6, <1>7, <1>8, <1>9
  <2> QED BY <1>8, <2>4, <2>6, <2>7, <2>8, <2>9, <2>10
<1>16. CASE ~ Down(w, j, D)
  <2>1. PrevK = j - 1 /\ e = PrevX + 1
    BY <1>12, <1>13, <1>16 DEF e, Begin
  <2>0. j # -D
    BY <1>16 DEF Down
  <2>5. D > 0 /\ j - 1 \in Reached(D - 1)
    BY <1>5, <2>0
  <2>2. PrevX \in Nat /\ PrevX = e - 1 /\ PrevY = e - j
    <3>1. w[At(j - 1)] \in Nat
      BY <1>10, <2>5
    <3>2. PrevX \in Nat
      BY <1>13, <2>1, <3>1
    <3> QED BY <1>5, <1>6, <1>13, <2>1, <3>2
  <2>3. x - PrevX = s + 1 /\ y - PrevY = s
    BY <1>5, <1>6, <1>7, <1>8, <1>9, <2>2
  <2>4. SnakeLen = s
    <3>1. Min({s + 1, s}) = s
      BY <1>8, MinFacts
    <3>2. Max({0, s}) = s
      BY <1>8, MaxFacts
    <3> QED BY <1>14, <2>3, <3>1, <3>2
  <2>6. PrevX - PrevY \in Reached(D - 1) /\ PrevY >= 0
        /\ PrevX = ReachOn(trace[D], PrevX - PrevY, D - 1)
    <3>1. PrevX - PrevY = j - 1
      BY <1>5, <1>6, <2>2
    <3>2. w[At(j - 1)] >= j - 1 /\ w[At(j - 1)] = ReachOn(trace[D], j - 1, D - 1)
      BY <1>10, <1>11, <2>5
    <3>3. PrevX >= j - 1 /\ PrevX = ReachOn(trace[D], j - 1, D - 1)
      BY <1>13, <2>1, <3>2
    <3> QED BY <1>5, <1>6, <2>2, <2>5, <3>1, <3>3
  <2>7. x - s = e /\ y - s = e - j /\ s <= x /\ PrevX \in 0 .. x
    BY <1>5, <1>6, <1>7, <1>8, <1>9, <2>2
  <2>8. s <= y /\ PrevY <= y /\ PrevY \in Int /\ PrevX = x - s - 1 /\ PrevY = y - s
    BY <1>5, <1>6, <1>7, <1>8, <1>9, <2>2
  <2>9. \A i \in 1 .. s : a[x - s + i] = b[y - s + i]
    BY <1>8, <2>7
  <2>10. ~ (D = 0)
    BY <2>5
  <2> QED BY <1>8, <2>4, <2>6, <2>7, <2>8, <2>9, <2>10
<1> QED BY <1>15, <1>16

LEMMA EqualFacts ==
  ASSUME NEW l \in Lines
  PROVE  Equal(l) \in Edits /\ Add(l) \in Edits /\ Del(l) \in Edits
BY DEF Equal, Add, Del, Edits

\* The snake is lines of both files.
LEMMA SnakeOpsFacts ==
  ASSUME a \in Files, b \in Files, x \in 0 .. n, y \in 0 .. m,
         SnakeLen \in Nat, SnakeLen <= x, SnakeLen <= y,
         \A i \in 1 .. SnakeLen : a[x - SnakeLen + i] = b[y - SnakeLen + i]
  PROVE  /\ SnakeOps \in Seq(Edits)
         /\ Spells(SnakeOps, "add", SubSeq(a, x - SnakeLen + 1, x))
         /\ Spells(SnakeOps, "del", SubSeq(b, y - SnakeLen + 1, y))
         /\ Cardinality(Without(SnakeOps, "equal")) = 0
<1> DEFINE s == SnakeLen
           o == SnakeOps
           p == SubSeq(a, x - s + 1, x)
           q == SubSeq(b, y - s + 1, y)
<1>1. n \in Nat /\ m \in Nat /\ a \in Seq(Lines) /\ b \in Seq(Lines) /\ n = Len(a) /\ m = Len(b)
  BY ArgumentFacts DEF n, m
<1>2. x - s \in 0 .. Len(a) /\ x \in x - s .. Len(a) /\ x - (x - s) = s
  BY <1>1
<1>3. y - s \in 0 .. Len(b) /\ y \in y - s .. Len(b) /\ y - (y - s) = s
  BY <1>1
<1>4. Len(p) = s /\ \A i \in 1 .. s : p[i] = a[x - s + i]
  <2> HIDE DEF s
  <2> QED BY <1>1, <1>2, PartFacts, SMTT(30)
<1>5. Len(q) = s /\ \A i \in 1 .. s : q[i] = b[y - s + i]
  <2> HIDE DEF s
  <2> QED BY <1>1, <1>3, PartFacts, SMTT(30)
<1>6. \A i \in 1 .. s : a[x - s + i] \in Lines
  <2> TAKE i \in 1 .. s
  <2>1. x - s + i \in 1 .. Len(a)
    BY <1>1, <1>2
  <2> QED BY <1>1, <2>1, ElementOfSeq
<1>7. o = [i \in 1 .. s |-> Equal(a[x - s + i])]
  BY DEF SnakeOps
<1> HIDE DEF o, p, q
<1>8. o \in [1 .. s -> Edits]
  BY <1>6, <1>7, EqualFacts
<1>9. o \in Seq(Edits) /\ Len(o) = s
  <2>1. s \in Nat
    OBVIOUS
  <2> HIDE DEF s
  <2> QED BY <1>8, <2>1
<1>10. \A i \in 1 .. s : o[i].op = "equal" /\ o[i].line = p[i] /\ o[i].line = q[i]
  <2> TAKE i \in 1 .. s
  <2>1. o[i] = [op |-> "equal", line |-> a[x - s + i]]
    BY <1>7 DEF Equal
  <2>2. p[i] = a[x - s + i] /\ q[i] = a[x - s + i]
    BY <1>4, <1>5
  <2> QED BY <2>1, <2>2
<1>11. Spells(o, "add", p) /\ Spells(o, "del", q)
  <2>1. Len(p) = Len(o) /\ Len(q) = Len(o) /\ "equal" # "add" /\ "equal" # "del"
    BY <1>4, <1>5, <1>9
  <2> QED BY <1>9, <1>10, <2>1, SpellsAll
<1>12. Cardinality(Without(o, "equal")) = 0
  BY <1>9, <1>10, SpellsNone
<1> QED BY <1>9, <1>11, <1>12 DEF o, p, q

\* An edit, a part that ends where the rest begins, and the rest.
LEMMA JoinedScripts ==
  ASSUME NEW e \in Seq(Edits), NEW s \in Seq(Edits), NEW u \in Seq(Edits), NEW kind,
         NEW p \in Seq(Lines), NEW q \in Seq(Lines), NEW r \in Seq(Lines),
         Spells(e, kind, p), Spells(s, kind, q), Spells(u, kind, r)
  PROVE  Spells(e \o s \o u, kind, p \o q \o r)
<1>1. e \o s \in Seq(Edits) /\ p \o q \in Seq(Lines)
  BY ConcatProperties
<1>2. Spells(e \o s, kind, p \o q)
  BY SpellsJoin
<1> QED BY <1>1, <1>2, SpellsJoin

LEMMA JoinedCount ==
  ASSUME NEW e \in Seq(Edits), NEW s \in Seq(Edits), NEW u \in Seq(Edits), NEW kind
  PROVE  /\ e \o s \o u \in Seq(Edits)
         /\ Cardinality(Without(e \o s \o u, kind))
              = Cardinality(Without(e, kind)) + Cardinality(Without(s, kind)) + Cardinality(Without(u, kind))
<1>1. e \o s \in Seq(Edits) /\ e \o s \o u \in Seq(Edits)
  BY ConcatProperties
<1>2. Cardinality(Without(e \o s, kind)) = Cardinality(Without(e, kind)) + Cardinality(Without(s, kind))
  BY WithoutJoin
<1>3. Cardinality(Without(e \o s \o u, kind)) = Cardinality(Without(e \o s, kind)) + Cardinality(Without(u, kind))
  <2> DEFINE z == e \o s
  <2>1. z \in Seq(Edits)
    BY <1>1
  <2> HIDE DEF z
  <2>2. Cardinality(Without(z \o u, kind)) = Cardinality(Without(z, kind)) + Cardinality(Without(u, kind))
    BY <2>1, WithoutJoin
  <2> QED BY <2>2 DEF z
<1> QED BY <1>1, <1>2, <1>3

LEMMA EditFacts ==
  ASSUME NEW l \in Lines
  PROVE  /\ <<Add(l)>> \in Seq(Edits) /\ Cardinality(Without(<<Add(l)>>, "equal")) = 1
         /\ Spells(<<Add(l)>>, "add", <<>>) /\ Spells(<<Add(l)>>, "del", <<l>>)
         /\ <<Del(l)>> \in Seq(Edits) /\ Cardinality(Without(<<Del(l)>>, "equal")) = 1
         /\ Spells(<<Del(l)>>, "add", <<l>>) /\ Spells(<<Del(l)>>, "del", <<>>)
<1>1. ASSUME NEW e \in Seq(Edits), NEW kind, Len(e) = 1, e[1].op # kind, e[1].line = l
      PROVE  Cardinality(Without(e, kind)) = 1 /\ Spells(e, kind, <<l>>)
  <2> DEFINE t == <<l>>
  <2>1. Len(t) = Len(e) /\ \A i \in 1 .. Len(e) : e[i].op # kind /\ e[i].line = t[i]
    BY <1>1
  <2> HIDE DEF t
  <2>2. Cardinality(Without(e, kind)) = Len(e) /\ Spells(e, kind, t)
    BY <2>1, SpellsAll
  <2> QED BY <1>1, <2>2 DEF t
<1>2. ASSUME NEW e \in Seq(Edits), NEW kind, Len(e) = 1, e[1].op = kind
      PROVE  Spells(e, kind, <<>>)
  <2>1. \A i \in 1 .. Len(e) : e[i].op = kind
    BY <1>2
  <2> QED BY <2>1, SpellsNone
<1>3. "add" # "equal" /\ "add" # "del" /\ "del" # "equal"
  OBVIOUS
<1> DEFINE p == <<Add(l)>>
           q == <<Del(l)>>
<1>4. p \in Seq(Edits) /\ Len(p) = 1 /\ p[1].op = "add" /\ p[1].line = l
  BY EqualFacts DEF Add
<1>5. q \in Seq(Edits) /\ Len(q) = 1 /\ q[1].op = "del" /\ q[1].line = l
  BY EqualFacts DEF Del
<1> HIDE DEF p, q
<1>6. Cardinality(Without(p, "equal")) = 1 /\ Spells(p, "add", <<>>) /\ Spells(p, "del", <<l>>)
  BY <1>1, <1>2, <1>3, <1>4
<1>7. Cardinality(Without(q, "equal")) = 1 /\ Spells(q, "add", <<l>>) /\ Spells(q, "del", <<>>)
  BY <1>1, <1>2, <1>3, <1>5
<1> QED BY <1>4, <1>5, <1>6, <1>7 DEF p, q

LEMMA PartsAfterOne ==
  ASSUME NEW s \in Seq(Lines), NEW i \in 1 .. Len(s), NEW j \in i .. Len(s)
  PROVE  /\ <<s[i]>> \in Seq(Lines) /\ SubSeq(s, i + 1, j) \in Seq(Lines)
         /\ SubSeq(s, j + 1, Len(s)) \in Seq(Lines)
         /\ <<s[i]>> \o SubSeq(s, i + 1, j) \o SubSeq(s, j + 1, Len(s)) = SubSeq(s, i, Len(s))
<1>1. /\ i - 1 \in 0 .. Len(s) /\ i - 1 + 1 = i /\ i \in i - 1 .. Len(s) /\ j \in i - 1 .. Len(s)
      /\ i \in 0 .. Len(s) /\ j \in 0 .. Len(s) /\ Len(s) \in j .. Len(s)
  OBVIOUS
<1>2. SubSeq(s, i, i) = <<s[i]>> /\ s[i] \in Lines
  BY PartOne
<1>3. SubSeq(s, i, i) \o SubSeq(s, i + 1, j) = SubSeq(s, i, j)
  <2>1. SubSeq(s, i - 1 + 1, i) \o SubSeq(s, i + 1, j) = SubSeq(s, i - 1 + 1, j)
    BY <1>1, PartsJoin
  <2> QED BY <1>1, <2>1
<1>4. SubSeq(s, i, j) \o SubSeq(s, j + 1, Len(s)) = SubSeq(s, i, Len(s))
  <2>1. SubSeq(s, i - 1 + 1, j) \o SubSeq(s, j + 1, Len(s)) = SubSeq(s, i - 1 + 1, Len(s))
    BY <1>1, PartsJoin
  <2> QED BY <1>1, <2>1
<1>5. SubSeq(s, i + 1, j) \in Seq(Lines) /\ SubSeq(s, j + 1, Len(s)) \in Seq(Lines)
  BY <1>1, PartFacts
<1>6. <<s[i]>> \o SubSeq(s, i + 1, j) = SubSeq(s, i, j)
  BY <1>2, <1>3
<1>7. <<s[i]>> \in Seq(Lines)
  BY <1>2
<1> QED BY <1>4, <1>5, <1>6, <1>7

LEMMA PartsAfterNone ==
  ASSUME NEW s \in Seq(Lines), NEW i \in 0 .. Len(s), NEW j \in i .. Len(s)
  PROVE  /\ SubSeq(s, i + 1, j) \in Seq(Lines) /\ SubSeq(s, j + 1, Len(s)) \in Seq(Lines)
         /\ <<>> \o SubSeq(s, i + 1, j) \o SubSeq(s, j + 1, Len(s)) = SubSeq(s, i + 1, Len(s))
<1>1. j \in 0 .. Len(s) /\ Len(s) \in j .. Len(s)
  OBVIOUS
<1>2. SubSeq(s, i + 1, j) \in Seq(Lines) /\ SubSeq(s, j + 1, Len(s)) \in Seq(Lines)
  BY <1>1, PartFacts
<1>3. <<>> \o SubSeq(s, i + 1, j) = SubSeq(s, i + 1, j)
  BY <1>2, ConcatEmptySeq
<1>4. SubSeq(s, i + 1, j) \o SubSeq(s, j + 1, Len(s)) = SubSeq(s, i + 1, Len(s))
  BY <1>1, PartsJoin
<1> QED BY <1>2, <1>3, <1>4

LEMMA BackScript ==
  ASSUME Arguments, d \in Nat, d > 0, Traced(trace), ScriptFrom(trace, d, x, y, ops),
         ops \in Seq(Edits)
  PROVE  /\ Edit \o SnakeOps \o ops \in Seq(Edits)
         /\ ScriptFrom(trace, d - 1, PrevX, PrevY, Edit \o SnakeOps \o ops)
<1> DEFINE s == SnakeLen
           u == Edit \o SnakeOps \o ops
<1>1. /\ n \in Nat /\ m \in Nat /\ a \in Seq(Lines) /\ b \in Seq(Lines) /\ n = Len(a) /\ m = Len(b)
      /\ a \in Files /\ b \in Files
  BY ArgumentFacts DEF Arguments, n, m
<1>2. /\ s \in Nat /\ s <= x /\ s <= y
      /\ \A i \in 1 .. s : a[x - s + i] = b[y - s + i]
      /\ PrevX \in 0 .. x /\ PrevY \in Int /\ PrevY <= y /\ PrevY >= 0
      /\ PrevX - PrevY \in Reached(d - 1)
      /\ PrevX = ReachOn(trace[d], PrevX - PrevY, d - 1)
      /\ \/ PrevX = x - s /\ PrevY = y - s - 1
         \/ PrevX = x - s - 1 /\ PrevY = y - s
  BY BackFacts
<1>3. /\ d + 1 \in DOMAIN trace /\ Len(trace) <= maxD + 1
      /\ x \in 0 .. n /\ y \in 0 .. m
      /\ Spells(ops, "add", SubSeq(a, x + 1, n)) /\ Spells(ops, "del", SubSeq(b, y + 1, m))
      /\ Cardinality(Without(ops, "equal")) + d = Len(trace) - 1
      /\ Len(trace) - 1 = Distance[<<a, b>>]
  BY DEF ScriptFrom
<1>4. /\ SnakeOps \in Seq(Edits)
      /\ Spells(SnakeOps, "add", SubSeq(a, x - s + 1, x))
      /\ Spells(SnakeOps, "del", SubSeq(b, y - s + 1, y))
      /\ Cardinality(Without(SnakeOps, "equal")) = 0
  BY <1>1, <1>2, <1>3, SnakeOpsFacts
<1>5. Edit = IF x - s = PrevX THEN <<Add(b[y - s])>> ELSE <<Del(a[x - s])>>
  BY DEF Edit
<1> HIDE DEF s
<1>6. /\ x - s \in 0 .. Len(a) /\ x \in x - s .. Len(a)
      /\ y - s \in 0 .. Len(b) /\ y \in y - s .. Len(b)
  <2>1. s \in Nat /\ s <= x /\ s <= y /\ x \in 0 .. n /\ y \in 0 .. m
    BY <1>2, <1>3
  <2>2. x - s \in 0 .. n /\ x \in x - s .. n
    BY <1>1, <2>1
  <2>3. y - s \in 0 .. m /\ y \in y - s .. m
    BY <1>1, <2>1
  <2> QED BY <1>1, <2>2, <2>3
<1>7. /\ Edit \in Seq(Edits) /\ Cardinality(Without(Edit, "equal")) = 1
      /\ Spells(u, "add", SubSeq(a, PrevX + 1, n)) /\ Spells(u, "del", SubSeq(b, PrevY + 1, m))
  <2>1. CASE PrevX = x - s /\ PrevY = y - s - 1
    <3>1. Edit = <<Add(b[y - s])>> /\ y - s \in 1 .. Len(b)
      BY <1>2, <1>5, <1>6, <2>1, SMTT(30)
    <3>2. b[y - s] \in Lines
      BY <1>1, <3>1, ElementOfSeq
    <3>3. /\ Edit \in Seq(Edits) /\ Cardinality(Without(Edit, "equal")) = 1
          /\ Spells(Edit, "add", <<>>) /\ Spells(Edit, "del", <<b[y - s]>>)
      BY <3>1, <3>2, EditFacts
    <3>4. /\ SubSeq(a, x - s + 1, x) \in Seq(Lines) /\ SubSeq(a, x + 1, n) \in Seq(Lines)
          /\ <<>> \o SubSeq(a, x - s + 1, x) \o SubSeq(a, x + 1, n) = SubSeq(a, x - s + 1, n)
      BY <1>1, <1>6, PartsAfterNone
    <3>5. /\ <<b[y - s]>> \in Seq(Lines) /\ SubSeq(b, y - s + 1, y) \in Seq(Lines)
          /\ SubSeq(b, y + 1, m) \in Seq(Lines)
          /\ <<b[y - s]>> \o SubSeq(b, y - s + 1, y) \o SubSeq(b, y + 1, m) = SubSeq(b, y - s, m)
      BY <1>1, <1>6, <3>1, PartsAfterOne
    <3>6. Spells(u, "add", <<>> \o SubSeq(a, x - s + 1, x) \o SubSeq(a, x + 1, n))
      <4>1. <<>> \in Seq(Lines)
        OBVIOUS
      <4> QED BY <1>3, <1>4, <3>3, <3>4, <4>1, JoinedScripts
    <3>7. Spells(u, "del", <<b[y - s]>> \o SubSeq(b, y - s + 1, y) \o SubSeq(b, y + 1, m))
      BY <1>3, <1>4, <3>3, <3>5, JoinedScripts
    <3>8. PrevX + 1 = x - s + 1 /\ PrevY + 1 = y - s
      BY <1>6, <2>1
    <3> QED BY <3>3, <3>4, <3>5, <3>6, <3>7, <3>8
  <2>2. CASE PrevX = x - s - 1 /\ PrevY = y - s
    <3>1. Edit = <<Del(a[x - s])>> /\ x - s \in 1 .. Len(a)
      <4>1. x - s # PrevX /\ x - s \in 1 .. Len(a)
        BY <1>1, <1>2, <1>3, <1>6, <2>2
      <4> QED BY <1>5, <4>1
    <3>2. a[x - s] \in Lines
      BY <1>1, <3>1, ElementOfSeq
    <3>3. /\ Edit \in Seq(Edits) /\ Cardinality(Without(Edit, "equal")) = 1
          /\ Spells(Edit, "add", <<a[x - s]>>) /\ Spells(Edit, "del", <<>>)
      BY <3>1, <3>2, EditFacts
    <3>4. /\ SubSeq(b, y - s + 1, y) \in Seq(Lines) /\ SubSeq(b, y + 1, m) \in Seq(Lines)
          /\ <<>> \o SubSeq(b, y - s + 1, y) \o SubSeq(b, y + 1, m) = SubSeq(b, y - s + 1, m)
      BY <1>1, <1>6, PartsAfterNone
    <3>5. /\ <<a[x - s]>> \in Seq(Lines) /\ SubSeq(a, x - s + 1, x) \in Seq(Lines)
          /\ SubSeq(a, x + 1, n) \in Seq(Lines)
          /\ <<a[x - s]>> \o SubSeq(a, x - s + 1, x) \o SubSeq(a, x + 1, n) = SubSeq(a, x - s, n)
      BY <1>1, <1>6, <3>1, PartsAfterOne
    <3>6. Spells(u, "del", <<>> \o SubSeq(b, y - s + 1, y) \o SubSeq(b, y + 1, m))
      <4>1. <<>> \in Seq(Lines)
        OBVIOUS
      <4> QED BY <1>3, <1>4, <3>3, <3>4, <4>1, JoinedScripts
    <3>7. Spells(u, "add", <<a[x - s]>> \o SubSeq(a, x - s + 1, x) \o SubSeq(a, x + 1, n))
      BY <1>3, <1>4, <3>3, <3>5, JoinedScripts
    <3>8. PrevY + 1 = y - s + 1 /\ PrevX + 1 = x - s
      BY <1>6, <2>2
    <3> QED BY <3>3, <3>4, <3>5, <3>6, <3>7, <3>8
  <2> QED BY <1>2, <2>1, <2>2
<1>8. u \in Seq(Edits) /\ Cardinality(Without(u, "equal")) = Cardinality(Without(ops, "equal")) + 1
  <2>1. /\ u \in Seq(Edits)
        /\ Cardinality(Without(u, "equal"))
             = Cardinality(Without(Edit, "equal")) + Cardinality(Without(SnakeOps, "equal"))
                 + Cardinality(Without(ops, "equal"))
    BY <1>4, <1>7, JoinedCount
  <2>2. Cardinality(Without(ops, "equal")) \in Nat
    BY WithoutFacts
  <2> QED BY <1>4, <1>7, <2>1, <2>2
<1>9. d - 1 + 1 = d /\ d \in DOMAIN trace
  <2>1. DOMAIN trace = 1 .. Len(trace) /\ Len(trace) \in Nat
    BY LenProperties DEF Traced
  <2> QED BY <1>3, <2>1
<1>10. Cardinality(Without(u, "equal")) + (d - 1) = Len(trace) - 1
  <2>1. Cardinality(Without(ops, "equal")) \in Nat
    BY WithoutFacts
  <2> QED BY <1>3, <1>8, <2>1
<1>11. PrevX \in 0 .. n /\ PrevY \in 0 .. m
  BY <1>1, <1>2, <1>3, SMTT(30)
<1>12. PrevX = ReachOn(trace[d - 1 + 1], PrevX - PrevY, d - 1) /\ d - 1 + 1 \in DOMAIN trace
  BY <1>2, <1>9
<1> HIDE DEF u
<1>13. ScriptFrom(trace, d - 1, PrevX, PrevY, u)
  BY <1>2, <1>3, <1>7, <1>10, <1>11, <1>12 DEF ScriptFrom
<1> QED BY <1>8, <1>13 DEF u

LEMMA EditsAreOps ==
  Seq(Edits) = Seq([op : {"equal", "add", "del"}, line : Lines])
BY DEF Edits

LEMMA BackKeeps ==
  ASSUME IInv, Back
  PROVE  IInv'
<1>1. /\ a' = a /\ b' = b /\ maxD' = maxD /\ call' = call /\ result' = result
      /\ k' = k /\ v' = v /\ trace' = trace
      /\ pc = "back" /\ pc' = "back" /\ d > 0
      /\ ops' = Edit \o SnakeOps \o ops
      /\ x' = PrevX /\ y' = PrevY /\ d' = d - 1
  BY DEF Back
<1>2. TypeOK /\ SearchInv /\ ScriptFrom(trace, d, x, y, ops) /\ Traced(trace)
  BY <1>1 DEF IInv, BackInv, SearchInv
<1>3. /\ Arguments /\ maxD \in Nat /\ n \in Nat /\ m \in Nat /\ d \in Nat /\ d \in 0 .. maxD + 1
      /\ ops \in Seq(Edits)
  <2>1. ops \in Seq(Edits)
    BY <1>2, EditsAreOps DEF TypeOK
  <2> QED BY <1>1, <1>2, <2>1, StateFacts
<1>4. /\ Edit \o SnakeOps \o ops \in Seq(Edits)
      /\ ScriptFrom(trace, d - 1, PrevX, PrevY, Edit \o SnakeOps \o ops)
  BY <1>1, <1>2, <1>3, BackScript
<1>5. /\ n' = n /\ m' = m /\ Budget' = Budget
      /\ Traced(trace)' /\ ScriptFrom(trace, d, x, y, ops)'
  BY <1>1, <1>2, <1>4, KeptParts, KeptTable
<1>6. TypeOK'
  <2>1. PrevX \in 0 .. n /\ PrevY \in 0 .. m
    BY <1>4 DEF ScriptFrom
  <2>2. d' \in 0 .. maxD' + 1
    BY <1>1, <1>3
  <2>3. ops' \in Seq([op : {"equal", "add", "del"}, line : Lines])
    BY <1>1, <1>4, EditsAreOps
  <2> QED BY <1>1, <1>2, <1>5, <2>1, <2>2, <2>3 DEF TypeOK
<1>7. SearchInv'
  BY <1>1, <1>2, <1>5 DEF SearchInv
<1> QED BY <1>1, <1>5, <1>6, <1>7 DEF IInv, BackInv, WalkInv

LEMMA BackToStartKeeps ==
  ASSUME IInv, BackToStart
  PROVE  IInv'
<1>1. /\ a' = a /\ b' = b /\ maxD' = maxD /\ call' = call /\ d' = d
      /\ k' = k /\ v' = v /\ trace' = trace /\ x' = x /\ y' = y
      /\ pc = "back" /\ pc' = "done" /\ result' = "script" /\ d = 0
      /\ ops' = SnakeOps \o ops
  BY DEF BackToStart, Return, search
<1>2. TypeOK /\ SearchInv /\ ScriptFrom(trace, d, x, y, ops) /\ Traced(trace)
  BY <1>1 DEF IInv, BackInv, SearchInv
<1>3. /\ Arguments /\ maxD \in Nat /\ n \in Nat /\ m \in Nat /\ d \in Nat
      /\ ops \in Seq(Edits) /\ a \in Files /\ b \in Files
      /\ call # "DiffLinesLCS" /\ (call = "DiffLines" => maxD <= tooExpensiveLimit)
  <2>1. ops \in Seq(Edits)
    BY <1>2, EditsAreOps DEF TypeOK
  <2> QED BY <1>1, <1>2, <2>1, StateFacts
<1>4. /\ x \in 0 .. n /\ y \in 0 .. m /\ Len(trace) <= maxD + 1
      /\ Spells(ops, "add", SubSeq(a, x + 1, n)) /\ Spells(ops, "del", SubSeq(b, y + 1, m))
      /\ Cardinality(Without(ops, "equal")) + d = Len(trace) - 1
      /\ Len(trace) - 1 = Distance[<<a, b>>]
  BY <1>2 DEF ScriptFrom
<1>5. /\ SnakeLen \in Nat /\ SnakeLen = x /\ SnakeLen = y
      /\ \A i \in 1 .. SnakeLen : a[x - SnakeLen + i] = b[y - SnakeLen + i]
  BY <1>1, <1>2, <1>3, BackFacts
<1>6. /\ SnakeOps \in Seq(Edits)
      /\ Spells(SnakeOps, "add", SubSeq(a, x - SnakeLen + 1, x))
      /\ Spells(SnakeOps, "del", SubSeq(b, y - SnakeLen + 1, y))
      /\ Cardinality(Without(SnakeOps, "equal")) = 0
  <2>1. SnakeLen <= x /\ SnakeLen <= y
    BY <1>5
  <2> QED BY <1>3, <1>4, <1>5, <2>1, SnakeOpsFacts
<1>7. x - SnakeLen + 1 = 0 + 1 /\ y - SnakeLen + 1 = 0 + 1
  BY <1>5
<1> DEFINE u == SnakeOps \o ops
<1>8. u \in Seq(Edits) /\ Spells(u, "add", a) /\ Spells(u, "del", b)
  <2>1. n = Len(a) /\ m = Len(b) /\ a \in Seq(Lines) /\ b \in Seq(Lines)
    BY <1>3, ArgumentFacts DEF n, m
  <2>2. 0 \in 0 .. Len(a) /\ x \in 0 .. Len(a) /\ Len(a) \in x .. Len(a)
        /\ 0 \in 0 .. Len(b) /\ y \in 0 .. Len(b) /\ Len(b) \in y .. Len(b)
    BY <1>3, <1>4, <2>1
  <2>3. /\ SubSeq(a, 0 + 1, x) \in Seq(Lines) /\ SubSeq(a, x + 1, n) \in Seq(Lines)
        /\ SubSeq(a, 0 + 1, x) \o SubSeq(a, x + 1, n) = SubSeq(a, 0 + 1, Len(a))
    BY <2>1, <2>2, PartFacts, PartsJoin
  <2>4. /\ SubSeq(b, 0 + 1, y) \in Seq(Lines) /\ SubSeq(b, y + 1, m) \in Seq(Lines)
        /\ SubSeq(b, 0 + 1, y) \o SubSeq(b, y + 1, m) = SubSeq(b, 0 + 1, Len(b))
    BY <2>1, <2>2, PartFacts, PartsJoin
  <2>5. SubSeq(a, 0 + 1, Len(a)) = a /\ SubSeq(b, 0 + 1, Len(b)) = b
    BY <1>3, Whole
  <2>6. Spells(u, "add", SubSeq(a, 0 + 1, x) \o SubSeq(a, x + 1, n))
    BY <1>3, <1>4, <1>6, <1>7, <2>3, SpellsJoin
  <2>7. Spells(u, "del", SubSeq(b, 0 + 1, y) \o SubSeq(b, y + 1, m))
    BY <1>3, <1>4, <1>6, <1>7, <2>4, SpellsJoin
  <2>8. u \in Seq(Edits)
    BY <1>3, <1>6, ConcatProperties
  <2> QED BY <2>3, <2>4, <2>5, <2>6, <2>7, <2>8
<1>9. Cardinality(Without(u, "equal")) = Distance[<<a, b>>] /\ Distance[<<a, b>>] <= maxD
  <2>1. Cardinality(Without(ops, "equal")) \in Nat
    BY <1>3, WithoutFacts
  <2>2. Cardinality(Without(u, "equal"))
          = Cardinality(Without(SnakeOps, "equal")) + Cardinality(Without(ops, "equal"))
    BY <1>3, <1>6, WithoutJoin
  <2>3. Len(trace) \in Nat
    BY <1>2, LenProperties DEF Traced
  <2> QED BY <1>1, <1>3, <1>4, <1>6, <2>1, <2>2, <2>3
<1>10. /\ n' = n /\ m' = m /\ tooExpensiveLimit' = tooExpensiveLimit /\ Traced(trace)' /\ ops' = u
  BY <1>1, <1>2, KeptParts, KeptTable
<1> HIDE DEF u
<1>11. TypeOK'
  BY <1>1, <1>2, <1>8, <1>10 DEF TypeOK, Edits
<1>12. SearchInv'
  BY <1>1, <1>10 DEF SearchInv
<1>13. IsScript' /\ Shortest'
  BY <1>1, <1>8, <1>9, <1>10 DEF IsScript, Shortest
<1>14. FailsOnlyIfBothDo'
  <2>1. ~ (call = "DiffLines" /\ Distance[<<a, b>>] > tooExpensiveLimit)
    <3>1. tooExpensiveLimit \in Nat /\ Distance[<<a, b>>] \in Int
      <4>1. Len(trace) \in Nat
        BY <1>2, LenProperties DEF Traced
      <4> QED BY <1>3, <1>4, <4>1, LimitFacts
    <3> QED BY <1>3, <1>9, <3>1
  <2> QED BY <1>1, <1>3, <1>10, <2>1 DEF FailsOnlyIfBothDo
<1> QED BY <1>1, <1>11, <1>12, <1>13, <1>14 DEF IInv, BackInv, WalkInv
-----------------------------------------------------------------------------
(* The table and the walk through it *)

LEMMA RefuseTableKeeps ==
  ASSUME IInv, RefuseTable
  PROVE  IInv'
<1>1. /\ a' = a /\ b' = b /\ maxD' = maxD /\ call' = call /\ d' = d /\ ops' = ops
      /\ k' = k /\ v' = v /\ trace' = trace /\ x' = x /\ y' = y
      /\ pc = "table" /\ pc' = "done" /\ result' = "too large" /\ TooLarge
  BY DEF RefuseTable, Return, search
<1>2. TypeOK /\ SearchInv /\ WalkInv
  BY DEF IInv
<1>3. /\ n' = n /\ m' = m /\ tooExpensiveLimit' = tooExpensiveLimit /\ (TooLarge' <=> TooLarge)
      /\ Traced(trace)' <=> Traced(trace)
  BY <1>1, KeptParts, KeptTable
<1>4. TypeOK' /\ SearchInv'
  BY <1>1, <1>2, <1>3 DEF TypeOK, SearchInv
<1>5. /\ call # "DiffLinesMyers"
      /\ call = "DiffLines" => Distance[<<a, b>>] > tooExpensiveLimit
      /\ call \in {"DiffLines", "DiffLinesMyers", "DiffLinesLCS"}
  BY <1>1, <1>2 DEF WalkInv, TypeOK
<1>6. FailsOnlyIfBothDo'
  BY <1>1, <1>3, <1>5 DEF FailsOnlyIfBothDo
<1> QED BY <1>1, <1>4, <1>6 DEF IInv, BackInv, WalkInv, IsScript, Shortest

LEMMA FillTableKeeps ==
  ASSUME IInv, FillTable
  PROVE  IInv'
<1>1. /\ a' = a /\ b' = b /\ maxD' = maxD /\ call' = call /\ d' = d /\ ops' = ops
      /\ k' = k /\ v' = v /\ trace' = trace /\ result' = result
      /\ pc = "table" /\ pc' = "walk" /\ lcs' = Table /\ x' = 0 /\ y' = 0 /\ ~TooLarge
  BY DEF FillTable, search
<1>2. TypeOK /\ SearchInv /\ WalkInv
  BY DEF IInv
<1>3. a \in Files /\ b \in Files /\ n \in Nat /\ m \in Nat /\ ops = <<>>
  BY <1>1, <1>2, StateFacts DEF SearchInv
<1>4. ScriptTo(Table, 0, 0, <<>>)
  <2>1. IsTable(Table)
    BY <1>3, TableIs
  <2>2. Table[<<0, 0>>] \in Nat
    <3>1. <<0, 0>> \in Cells
      BY <1>3 DEF Cells
    <3> QED BY <2>1, <3>1 DEF IsTable
  <2>3. SubSeq(a, 1, 0) = <<>> /\ SubSeq(b, 1, 0) = <<>>
    BY SubSeqEmpty
  <2>4. /\ Spells(<<>>, "add", SubSeq(a, 1, 0)) /\ Spells(<<>>, "del", SubSeq(b, 1, 0))
        /\ Cardinality(Without(<<>>, "equal")) = 0
    BY <2>3, SpellsNothing
  <2>5. 0 \in 0 .. n /\ 0 \in 0 .. m
    BY <1>3
  <2>6. 0 \in Matches(0, 0)
    BY <1>3, <2>5, MatchNone
  <2>7. 0 = 0 + 0 - 2 * 0 /\ Table[<<0, 0>>] = 0 + Table[<<0, 0>>]
    BY <2>2
  <2>8. \E l \in Matches(0, 0) :
          /\ Cardinality(Without(<<>>, "equal")) = 0 + 0 - 2 * l
          /\ Table[<<0, 0>>] = l + Table[<<0, 0>>]
    BY <2>4, <2>6, <2>7
  <2> QED BY <2>1, <2>4, <2>5, <2>8 DEF ScriptTo
<1>5. /\ n' = n /\ m' = m /\ tooExpensiveLimit' = tooExpensiveLimit /\ (TooLarge' <=> TooLarge)
      /\ Traced(trace)' <=> Traced(trace)
      /\ ScriptTo(lcs, x, y, ops)'
  BY <1>1, <1>3, <1>4, KeptParts, KeptTable
<1>6. TypeOK' /\ SearchInv'
  BY <1>1, <1>2, <1>3, <1>5 DEF TypeOK, SearchInv
<1>7. WalkInv'
  BY <1>1, <1>2, <1>5 DEF WalkInv
<1> QED BY <1>1, <1>6, <1>7 DEF IInv, BackInv

\* One line more of a script.
LEMMA ScriptMore ==
  ASSUME NEW s \in Seq(Edits), NEW o \in Edits, NEW kind, NEW p \in Seq(Lines), Spells(s, kind, p)
  PROVE  /\ Append(s, o) \in Seq(Edits)
         /\ o.op = kind => Spells(Append(s, o), kind, p)
         /\ o.op # kind => Spells(Append(s, o), kind, Append(p, o.line))
<1> DEFINE e == <<o>>
           t == <<o.line>>
<1>1. /\ e \in Seq(Edits) /\ Len(e) = 1 /\ e[1] = o
      /\ o.line \in Lines /\ t \in Seq(Lines) /\ Len(t) = 1 /\ t[1] = o.line
  BY DEF Edits
<1>2. Append(s, o) = s \o e /\ Append(p, o.line) = p \o t /\ p \o <<>> = p
  BY <1>1, AppendIsConcat, ConcatEmptySeq
<1> HIDE DEF e, t
<1>3. Append(s, o) \in Seq(Edits)
  BY AppendProperties
<1>4. CASE o.op = kind
  <2>1. \A i \in 1 .. Len(e) : e[i].op = kind
    BY <1>1, <1>4
  <2>2. Spells(e, kind, <<>>) /\ <<>> \in Seq(Lines)
    BY <1>1, <2>1, SpellsNone
  <2>3. Spells(s \o e, kind, p \o <<>>)
    BY <1>1, <2>2, SpellsJoin
  <2> QED BY <1>2, <1>3, <1>4, <2>3
<1>5. CASE o.op # kind
  <2>1. Len(t) = Len(e) /\ \A i \in 1 .. Len(e) : e[i].op # kind /\ e[i].line = t[i]
    BY <1>1, <1>5
  <2>2. Spells(e, kind, t)
    BY <1>1, <2>1, SpellsAll
  <2>3. Spells(s \o e, kind, p \o t)
    BY <1>1, <2>2, SpellsJoin
  <2> QED BY <1>2, <1>3, <1>5, <2>3
<1> QED BY <1>4, <1>5

LEMMA CountMore ==
  ASSUME NEW s \in Seq(Edits), NEW o \in Edits, NEW kind
  PROVE  Cardinality(Without(Append(s, o), kind))
           = Cardinality(Without(s, kind)) + (IF o.op = kind THEN 0 ELSE 1)
<1> DEFINE e == <<o>>
<1>1. e \in Seq(Edits) /\ Len(e) = 1 /\ e[1] = o
  OBVIOUS
<1>2. Append(s, o) = s \o e
  BY <1>1, AppendIsConcat
<1>3. Cardinality(Without(e, kind)) = IF o.op = kind THEN 0 ELSE 1
  <2> HIDE DEF e
  <2>1. CASE o.op = kind
    <3>1. \A i \in 1 .. Len(e) : e[i].op = kind
      BY <1>1, <2>1
    <3> QED BY <1>1, <2>1, <3>1, SpellsNone
  <2>2. CASE o.op # kind
    <3> DEFINE t == <<o.line>>
    <3>1. Len(t) = Len(e) /\ \A i \in 1 .. Len(e) : e[i].op # kind /\ e[i].line = t[i]
      BY <1>1, <2>2
    <3> HIDE DEF t
    <3>2. Cardinality(Without(e, kind)) = Len(e)
      BY <1>1, <3>1, SpellsAll
    <3> QED BY <1>1, <2>2, <3>2
  <2> QED BY <2>1, <2>2
<1>4. Cardinality(Without(s \o e, kind)) = Cardinality(Without(s, kind)) + Cardinality(Without(e, kind))
  <2> HIDE DEF e
  <2> QED BY <1>1, WithoutJoin
<1> QED BY <1>2, <1>3, <1>4

LEMMA PrefixMore ==
  ASSUME NEW s \in Seq(Lines), NEW i \in Nat, i < Len(s)
  PROVE  /\ SubSeq(s, 1, i) \in Seq(Lines) /\ s[i + 1] \in Lines
         /\ SubSeq(s, 1, i + 1) = Append(SubSeq(s, 1, i), s[i + 1])
<1>1. i + 1 \in 1 .. Len(s) /\ 0 \in 0 .. Len(s) /\ i \in 0 .. Len(s) /\ i + 1 \in i .. Len(s)
  OBVIOUS
<1>2. SubSeq(s, 0 + 1, i) \in Seq(Lines)
  BY <1>1, PartFacts
<1>3. SubSeq(s, 0 + 1, i) \o SubSeq(s, i + 1, i + 1) = SubSeq(s, 0 + 1, i + 1)
  BY <1>1, PartsJoin
<1>4. SubSeq(s, i + 1, i + 1) = <<s[i + 1]>> /\ s[i + 1] \in Lines
  BY <1>1, PartOne
<1>5. 0 + 1 = 1
  OBVIOUS
<1>6. SubSeq(s, 1, i) \in Seq(Lines)
  BY <1>2, <1>5
<1>7. Append(SubSeq(s, 1, i), s[i + 1]) = SubSeq(s, 1, i) \o <<s[i + 1]>>
  BY <1>4, <1>6, AppendIsConcat
<1> QED BY <1>3, <1>4, <1>5, <1>6, <1>7

\* One step of the walk: by the table, no common line of the most is left behind.
LEMMA WalkScript ==
  ASSUME a \in Files, b \in Files, NEW t, NEW i, NEW j, NEW s \in Seq(Edits),
         ScriptTo(t, i, j, s), i < n, j < m
  PROVE  /\ a[i + 1] \in Lines /\ b[j + 1] \in Lines
         /\ a[i + 1] = b[j + 1] => ScriptTo(t, i + 1, j + 1, Append(s, Equal(a[i + 1])))
         /\ a[i + 1] # b[j + 1] /\ t[<<i + 1, j>>] >= t[<<i, j + 1>>] =>
              ScriptTo(t, i + 1, j, Append(s, Del(a[i + 1])))
         /\ a[i + 1] # b[j + 1] /\ ~ (t[<<i + 1, j>>] >= t[<<i, j + 1>>]) =>
              ScriptTo(t, i, j + 1, Append(s, Add(b[j + 1])))
<1>1. /\ n \in Nat /\ m \in Nat /\ a \in Seq(Lines) /\ b \in Seq(Lines) /\ n = Len(a) /\ m = Len(b)
  BY ArgumentFacts DEF n, m
<1>2. /\ IsTable(t) /\ i \in 0 .. n /\ j \in 0 .. m
      /\ Spells(s, "add", SubSeq(a, 1, i)) /\ Spells(s, "del", SubSeq(b, 1, j))
  BY DEF ScriptTo
<1>3. PICK l \in Matches(i, j) :
        /\ Cardinality(Without(s, "equal")) = i + j - 2 * l
        /\ t[<<0, 0>>] = l + t[<<i, j>>]
  BY DEF ScriptTo
<1>4. l \in Nat
  BY <1>2, <1>3, MatchBounds
<1>5. i \in Nat /\ j \in Nat /\ i + 1 \in 0 .. n /\ j + 1 \in 0 .. m /\ i # n /\ j # m
  BY <1>1, <1>2
<1>6. /\ SubSeq(a, 1, i) \in Seq(Lines) /\ a[i + 1] \in Lines
      /\ SubSeq(a, 1, i + 1) = Append(SubSeq(a, 1, i), a[i + 1])
  BY <1>1, <1>5, PrefixMore
<1>7. /\ SubSeq(b, 1, j) \in Seq(Lines) /\ b[j + 1] \in Lines
      /\ SubSeq(b, 1, j + 1) = Append(SubSeq(b, 1, j), b[j + 1])
  BY <1>1, <1>5, PrefixMore
<1>8. /\ <<i, j>> \in Cells /\ <<i + 1, j + 1>> \in Cells /\ <<i + 1, j>> \in Cells /\ <<i, j + 1>> \in Cells
      /\ <<i, j>>[1] = i /\ <<i, j>>[2] = j
  BY <1>2, <1>5 DEF Cells
<1>9. /\ t[<<i, j>>] \in Nat /\ t[<<i + 1, j + 1>>] \in Nat /\ t[<<i + 1, j>>] \in Nat
      /\ t[<<i, j + 1>>] \in Nat
  BY <1>2, <1>8 DEF IsTable
<1>10. t[<<i, j>>] = IF a[i + 1] = b[j + 1] THEN t[<<i + 1, j + 1>>] + 1
                     ELSE Max({t[<<i + 1, j>>], t[<<i, j + 1>>]})
  <2>1. t[<<i, j>>] = IF <<i, j>>[1] = n \/ <<i, j>>[2] = m THEN 0
                      ELSE IF a[<<i, j>>[1] + 1] = b[<<i, j>>[2] + 1]
                      THEN t[<<<<i, j>>[1] + 1, <<i, j>>[2] + 1>>] + 1
                      ELSE Max({t[<<<<i, j>>[1] + 1, <<i, j>>[2]>>], t[<<<<i, j>>[1], <<i, j>>[2] + 1>>]})
    BY <1>2, <1>8, Zenon DEF IsTable
  <2> QED BY <1>5, <1>8, <2>1
<1>11. Cardinality(Without(s, "equal")) \in Nat
  BY WithoutFacts
<1>12. ASSUME a[i + 1] = b[j + 1]
       PROVE  ScriptTo(t, i + 1, j + 1, Append(s, Equal(a[i + 1])))
  <2> DEFINE o == Equal(a[i + 1])
  <2>1. o \in Edits /\ o.op = "equal" /\ o.line = a[i + 1] /\ o.op # "add" /\ o.op # "del"
    BY <1>6, EqualFacts DEF Equal
  <2> HIDE DEF o
  <2>2. Spells(Append(s, o), "add", SubSeq(a, 1, i + 1))
    BY <1>2, <1>6, <2>1, ScriptMore
  <2>3. Spells(Append(s, o), "del", SubSeq(b, 1, j + 1))
    BY <1>2, <1>7, <1>12, <2>1, ScriptMore
  <2>4. Cardinality(Without(Append(s, o), "equal")) = Cardinality(Without(s, "equal"))
    BY <1>11, <2>1, CountMore
  <2>5. l + 1 \in Matches(i + 1, j + 1)
    <3>1. \A q \in 1 .. 1 : a[i + q] = b[j + q]
      BY <1>12
    <3>2. 1 \in Nat /\ i + 1 <= n /\ j + 1 <= m
      BY <1>1, <1>5
    <3> QED BY <1>2, <1>3, <3>1, <3>2, MatchMore
  <2>6. t[<<0, 0>>] = (l + 1) + t[<<i + 1, j + 1>>]
    <3>1. t[<<i, j>>] = t[<<i + 1, j + 1>>] + 1
      BY <1>10, <1>12
    <3> DEFINE p == t[<<i + 1, j + 1>>]
               q == t[<<i, j>>]
               r == t[<<0, 0>>]
    <3>2. p \in Nat /\ q = p + 1 /\ r = l + q
      BY <1>3, <1>9, <3>1
    <3> HIDE DEF p, q, r
    <3>3. r = (l + 1) + p
      BY <1>4, <3>2
    <3> QED BY <3>3 DEF p, r
  <2>7. Cardinality(Without(Append(s, o), "equal")) = (i + 1) + (j + 1) - 2 * (l + 1)
    BY <1>3, <1>4, <1>5, <2>4
  <2> QED BY <1>2, <1>5, <2>2, <2>3, <2>5, <2>6, <2>7 DEF ScriptTo, o
<1>13. ASSUME a[i + 1] # b[j + 1], t[<<i + 1, j>>] >= t[<<i, j + 1>>]
       PROVE  ScriptTo(t, i + 1, j, Append(s, Del(a[i + 1])))
  <2> DEFINE o == Del(a[i + 1])
  <2>1. o \in Edits /\ o.op = "del" /\ o.line = a[i + 1] /\ o.op # "add" /\ o.op # "equal"
    BY <1>6, EqualFacts DEF Del
  <2> HIDE DEF o
  <2>2. Spells(Append(s, o), "add", SubSeq(a, 1, i + 1))
    BY <1>2, <1>6, <2>1, ScriptMore
  <2>3. Spells(Append(s, o), "del", SubSeq(b, 1, j))
    BY <1>2, <1>7, <2>1, ScriptMore
  <2>4. Cardinality(Without(Append(s, o), "equal")) = Cardinality(Without(s, "equal")) + 1
    BY <2>1, CountMore
  <2>5. l \in Matches(i + 1, j)
    <3>1. i + 1 \in i .. n /\ j \in j .. m
      BY <1>1, <1>2, <1>5
    <3> QED BY <1>2, <1>3, <3>1, MatchWithin
  <2>6. t[<<0, 0>>] = l + t[<<i + 1, j>>]
    <3> DEFINE p == t[<<i + 1, j>>]
               q == t[<<i, j + 1>>]
    <3>1. p \in Nat /\ q \in Nat /\ p >= q
      BY <1>9, <1>13
    <3> HIDE DEF p, q
    <3>2. Max({p, q}) = p
      BY <3>1, MaxFacts
    <3>3. Max({t[<<i + 1, j>>], t[<<i, j + 1>>]}) = t[<<i + 1, j>>]
      BY <3>2 DEF p, q
    <3> QED BY <1>3, <1>10, <1>13, <3>3
  <2>7. Cardinality(Without(Append(s, o), "equal")) = (i + 1) + j - 2 * l
    BY <1>3, <1>4, <1>5, <2>4
  <2> QED BY <1>2, <1>5, <2>2, <2>3, <2>5, <2>6, <2>7 DEF ScriptTo, o
<1>14. ASSUME a[i + 1] # b[j + 1], ~ (t[<<i + 1, j>>] >= t[<<i, j + 1>>])
       PROVE  ScriptTo(t, i, j + 1, Append(s, Add(b[j + 1])))
  <2> DEFINE o == Add(b[j + 1])
  <2>1. o \in Edits /\ o.op = "add" /\ o.line = b[j + 1] /\ o.op # "del" /\ o.op # "equal"
    BY <1>7, EqualFacts DEF Add
  <2> HIDE DEF o
  <2>2. Spells(Append(s, o), "add", SubSeq(a, 1, i))
    BY <1>2, <1>6, <2>1, ScriptMore
  <2>3. Spells(Append(s, o), "del", SubSeq(b, 1, j + 1))
    BY <1>2, <1>7, <2>1, ScriptMore
  <2>4. Cardinality(Without(Append(s, o), "equal")) = Cardinality(Without(s, "equal")) + 1
    BY <2>1, CountMore
  <2>5. l \in Matches(i, j + 1)
    <3>1. i \in i .. n /\ j + 1 \in j .. m
      BY <1>1, <1>2, <1>5
    <3> QED BY <1>2, <1>3, <3>1, MatchWithin
  <2>6. t[<<0, 0>>] = l + t[<<i, j + 1>>]
    <3> DEFINE p == t[<<i + 1, j>>]
               q == t[<<i, j + 1>>]
    <3>1. p \in Nat /\ q \in Nat /\ ~ (p >= q)
      BY <1>9, <1>14
    <3> HIDE DEF p, q
    <3>2. Max({p, q}) = q
      BY <3>1, MaxFacts
    <3>3. Max({t[<<i + 1, j>>], t[<<i, j + 1>>]}) = t[<<i, j + 1>>]
      BY <3>2 DEF p, q
    <3> QED BY <1>3, <1>10, <1>14, <3>3
  <2>7. Cardinality(Without(Append(s, o), "equal")) = i + (j + 1) - 2 * l
    BY <1>3, <1>4, <1>5, <2>4
  <2> QED BY <1>2, <1>5, <2>2, <2>3, <2>5, <2>6, <2>7 DEF ScriptTo, o
<1> QED BY <1>6, <1>7, <1>12, <1>13, <1>14

LEMMA WalkedKeeps ==
  ASSUME IInv, WalkEqual \/ WalkDel \/ WalkAdd
  PROVE  IInv'
<1>1. /\ a' = a /\ b' = b /\ maxD' = maxD /\ call' = call /\ d' = d /\ lcs' = lcs
      /\ k' = k /\ v' = v /\ trace' = trace /\ result' = result
      /\ pc = "walk" /\ pc' = pc /\ x < n /\ y < m
  BY DEF WalkEqual, WalkDel, WalkAdd, Walking, Walk, search
<1>2. TypeOK /\ SearchInv /\ WalkInv
  BY DEF IInv
<1>3. a \in Files /\ b \in Files /\ n \in Nat /\ m \in Nat
  BY <1>2, StateFacts
<1>4. ops \in Seq(Edits)
  BY <1>2, EditsAreOps DEF TypeOK
<1>5. ScriptTo(lcs, x, y, ops)
  BY <1>1, <1>2 DEF WalkInv
<1>6. /\ a[x + 1] \in Lines /\ b[y + 1] \in Lines
      /\ a[x + 1] = b[y + 1] => ScriptTo(lcs, x + 1, y + 1, Append(ops, Equal(a[x + 1])))
      /\ a[x + 1] # b[y + 1] /\ DelIsBetter => ScriptTo(lcs, x + 1, y, Append(ops, Del(a[x + 1])))
      /\ a[x + 1] # b[y + 1] /\ ~ DelIsBetter => ScriptTo(lcs, x, y + 1, Append(ops, Add(b[y + 1])))
  BY <1>1, <1>3, <1>4, <1>5, WalkScript DEF DelIsBetter
<1>7. x + 0 = x /\ y + 0 = y
  BY <1>5, <1>3 DEF ScriptTo
<1>8. ScriptTo(lcs, x', y', ops') /\ ops' \in Seq(Edits)
  <2>1. CASE WalkEqual
    <3>1. a[x + 1] = b[y + 1] /\ x' = x + 1 /\ y' = y + 1 /\ ops' = Append(ops, Equal(a[x + 1]))
      BY <2>1 DEF WalkEqual, Walk
    <3> QED BY <1>4, <1>6, <3>1, EqualFacts, AppendProperties
  <2>2. CASE WalkDel
    <3>1. /\ a[x + 1] # b[y + 1] /\ DelIsBetter
          /\ x' = x + 1 /\ y' = y + 0 /\ ops' = Append(ops, Del(a[x + 1]))
      BY <2>2 DEF WalkDel, Walk
    <3> QED BY <1>4, <1>6, <1>7, <3>1, EqualFacts, AppendProperties
  <2>3. CASE WalkAdd
    <3>1. /\ a[x + 1] # b[y + 1] /\ ~ DelIsBetter
          /\ x' = x + 0 /\ y' = y + 1 /\ ops' = Append(ops, Add(b[y + 1]))
      BY <2>3 DEF WalkAdd, Walk
    <3> QED BY <1>4, <1>6, <1>7, <3>1, EqualFacts, AppendProperties
  <2> QED BY <2>1, <2>2, <2>3
<1>9. /\ n' = n /\ m' = m /\ tooExpensiveLimit' = tooExpensiveLimit /\ (TooLarge' <=> TooLarge)
      /\ Traced(trace)' <=> Traced(trace)
      /\ ScriptTo(lcs, x, y, ops)'
  BY <1>1, <1>8, KeptParts, KeptTable
<1>10. TypeOK'
  <2>1. x' \in 0 .. n' /\ y' \in 0 .. m'
    BY <1>8, <1>9 DEF ScriptTo
  <2>2. ops' \in Seq([op : {"equal", "add", "del"}, line : Lines])
    BY <1>8, EditsAreOps
  <2> QED BY <1>1, <1>2, <1>9, <2>1, <2>2 DEF TypeOK
<1>11. SearchInv'
  BY <1>1, <1>2, <1>9 DEF SearchInv
<1>12. WalkInv'
  BY <1>1, <1>2, <1>9 DEF WalkInv
<1> QED BY <1>1, <1>10, <1>11, <1>12 DEF IInv, BackInv

LEMMA SeqOfLength ==
  ASSUME NEW S, NEW z \in Nat, NEW u \in [1 .. z -> S]
  PROVE  u \in Seq(S) /\ Len(u) = z
OBVIOUS

\* A part of a file as lines of one kind.
LEMMA RestFacts ==
  ASSUME NEW s \in Seq(Lines), NEW i \in 0 .. Len(s), NEW o \in {"del", "add"},
         NEW u, u = [r \in 1 .. Len(s) - i |-> [op |-> o, line |-> s[i + r]]]
  PROVE  /\ u \in Seq(Edits)
         /\ Cardinality(Without(u, "equal")) = Len(s) - i
         /\ Spells(u, o, <<>>)
         /\ \A kind \in {"del", "add"} : kind # o => Spells(u, kind, SubSeq(s, i + 1, Len(s)))
<1> DEFINE z == Len(s) - i
           t == SubSeq(s, i + 1, Len(s))
<1>1. z \in Nat /\ Len(s) \in i .. Len(s)
  OBVIOUS
<1>2. Len(t) = z /\ \A r \in 1 .. z : t[r] = s[i + r]
  BY <1>1, PartFacts
<1>3. \A r \in 1 .. z : s[i + r] \in Lines
  <2> TAKE r \in 1 .. z
  <2>1. i + r \in 1 .. Len(s)
    OBVIOUS
  <2> QED BY <2>1, ElementOfSeq
<1>4. u = [r \in 1 .. z |-> [op |-> o, line |-> s[i + r]]]
  OBVIOUS
<1> HIDE DEF z, t
<1>5. u \in [1 .. z -> Edits]
  BY <1>3, <1>4 DEF Edits
<1>6. u \in Seq(Edits) /\ Len(u) = z
  <2>1. z \in Nat
    BY <1>1
  <2> QED BY <1>5, <2>1, SeqOfLength
<1>7. \A r \in 1 .. z : u[r].op = o /\ u[r].line = t[r]
  <2> TAKE r \in 1 .. z
  <2>1. u[r] = [op |-> o, line |-> s[i + r]]
    BY <1>4
  <2> QED BY <1>2, <2>1
<1>8. Spells(u, o, <<>>)
  BY <1>6, <1>7, SpellsNone
<1>9. ASSUME NEW kind, kind # o
      PROVE  Spells(u, kind, t) /\ Cardinality(Without(u, kind)) = z
  <2>1. Len(t) = Len(u) /\ \A r \in 1 .. Len(u) : u[r].op # kind /\ u[r].line = t[r]
    BY <1>2, <1>6, <1>7, <1>9
  <2>2. Spells(u, kind, t) /\ Cardinality(Without(u, kind)) = Len(u)
    BY <1>6, <2>1, SpellsAll
  <2> QED BY <1>6, <2>2
<1>10. o # "equal"
  OBVIOUS
<1> QED BY <1>6, <1>8, <1>9, <1>10 DEF z, t

LEMMA WalkRestKeeps ==
  ASSUME IInv, WalkRest
  PROVE  IInv'
<1> DEFINE p == [i \in 1 .. n - x |-> Del(a[x + i])]
           q == [j \in 1 .. m - y |-> Add(b[y + j])]
           u == ops \o p \o q
<1>1. /\ a' = a /\ b' = b /\ maxD' = maxD /\ call' = call /\ d' = d
      /\ k' = k /\ v' = v /\ trace' = trace /\ x' = x /\ y' = y
      /\ pc = "walk" /\ pc' = "done" /\ result' = "script"
      /\ x >= n \/ y >= m
      /\ ops' = u
  BY DEF WalkRest, Return, search
<1>2. TypeOK /\ SearchInv /\ WalkInv
  BY DEF IInv
<1>3. /\ a \in Files /\ b \in Files /\ n \in Nat /\ m \in Nat /\ n = Len(a) /\ m = Len(b)
      /\ a \in Seq(Lines) /\ b \in Seq(Lines)
  <2>1. a \in Files /\ b \in Files /\ n \in Nat /\ m \in Nat
    BY <1>2, StateFacts
  <2> QED BY <2>1, ArgumentFacts DEF n, m
<1>4. ops \in Seq(Edits)
  BY <1>2, EditsAreOps DEF TypeOK
<1>5. ScriptTo(lcs, x, y, ops) /\ ~TooLarge
  BY <1>1, <1>2 DEF WalkInv
<1>6. /\ IsTable(lcs) /\ x \in 0 .. n /\ y \in 0 .. m
      /\ Spells(ops, "add", SubSeq(a, 1, x)) /\ Spells(ops, "del", SubSeq(b, 1, y))
  BY <1>5 DEF ScriptTo
<1>7. PICK l \in Matches(x, y) :
        /\ Cardinality(Without(ops, "equal")) = x + y - 2 * l
        /\ lcs[<<0, 0>>] = l + lcs[<<x, y>>]
  BY <1>5 DEF ScriptTo
<1>8. l \in Nat /\ l \in Matches(n, m)
  <2>1. n \in x .. n /\ m \in y .. m
    BY <1>3, <1>6
  <2> QED BY <1>3, <1>6, <1>7, <2>1, MatchBounds, MatchWithin
<1>9. lcs[<<0, 0>>] = l
  <2>1. <<x, y>> \in Cells /\ <<x, y>>[1] = x /\ <<x, y>>[2] = y
    BY <1>6 DEF Cells
  <2>2. x = n \/ y = m
    BY <1>1, <1>3, <1>6
  <2>3. lcs[<<x, y>>] = 0
    <3>1. ASSUME NEW c \in Cells, c[1] = n \/ c[2] = m PROVE lcs[c] = 0
      BY <1>6, <3>1 DEF IsTable
    <3> QED BY <2>1, <2>2, <3>1
  <2> QED BY <1>7, <1>8, <2>3
<1>10. Distance[<<a, b>>] = n + m - 2 * l
  <2>1. PICK z \in Matches(n, m) :
          Distance[<<a, b>>] = n + m - 2 * z /\ \A e \in Matches(n, m) : e <= z
    BY <1>3, DistanceIs
  <2>2. n \in 0 .. n /\ m \in 0 .. m
    BY <1>3
  <2>3. z \in Nat
    BY <1>3, <2>2, MatchBounds
  <2>4. z <= l
    <3>1. PICK f, g : Pairs(n, m, z, f, g)
      BY <1>3, <2>1, <2>2, MatchesAre
    <3> QED BY <1>3, <1>6, <1>9, <2>3, <3>1, TableBound
  <2> QED BY <1>8, <2>1, <2>3, <2>4
<1>11. /\ p \in Seq(Edits) /\ Cardinality(Without(p, "equal")) = n - x
       /\ Spells(p, "del", <<>>) /\ Spells(p, "add", SubSeq(a, x + 1, n))
  <2>1. p = [r \in 1 .. Len(a) - x |-> [op |-> "del", line |-> a[x + r]]]
    BY <1>3 DEF Del
  <2>2. x \in 0 .. Len(a) /\ "del" # "add"
    BY <1>3, <1>6
  <2> HIDE DEF p
  <2>3. /\ p \in Seq(Edits) /\ Cardinality(Without(p, "equal")) = Len(a) - x
        /\ Spells(p, "del", <<>>)
        /\ \A kind \in {"del", "add"} : kind # "del" => Spells(p, kind, SubSeq(a, x + 1, Len(a)))
    BY <1>3, <2>1, <2>2, RestFacts
  <2> QED BY <1>3, <2>3
<1>12. /\ q \in Seq(Edits) /\ Cardinality(Without(q, "equal")) = m - y
       /\ Spells(q, "add", <<>>) /\ Spells(q, "del", SubSeq(b, y + 1, m))
  <2>1. q = [r \in 1 .. Len(b) - y |-> [op |-> "add", line |-> b[y + r]]]
    BY <1>3 DEF Add
  <2>2. y \in 0 .. Len(b) /\ "del" # "add"
    BY <1>3, <1>6
  <2> HIDE DEF q
  <2>3. /\ q \in Seq(Edits) /\ Cardinality(Without(q, "equal")) = Len(b) - y
        /\ Spells(q, "add", <<>>)
        /\ \A kind \in {"del", "add"} : kind # "add" => Spells(q, kind, SubSeq(b, y + 1, Len(b)))
    BY <1>3, <2>1, <2>2, RestFacts
  <2> QED BY <1>3, <2>3
<1> HIDE DEF p, q
<1>13. u \in Seq(Edits) /\ Cardinality(Without(u, "equal")) = Distance[<<a, b>>]
  <2>1. /\ u \in Seq(Edits)
        /\ Cardinality(Without(u, "equal"))
             = Cardinality(Without(ops, "equal")) + Cardinality(Without(p, "equal"))
                 + Cardinality(Without(q, "equal"))
    BY <1>4, <1>11, <1>12, JoinedCount
  <2>2. (x + y - 2 * l) + (n - x) + (m - y) = n + m - 2 * l
    BY <1>3, <1>6, <1>8
  <2> QED BY <1>7, <1>10, <1>11, <1>12, <2>1, <2>2
<1>14. Spells(u, "add", a) /\ Spells(u, "del", b)
  <2>1. /\ 0 \in 0 .. Len(a) /\ x \in 0 .. Len(a) /\ Len(a) \in x .. Len(a) /\ 0 + 1 = 1
        /\ 0 \in 0 .. Len(b) /\ y \in 0 .. Len(b) /\ Len(b) \in y .. Len(b)
    BY <1>3, <1>6
  <2>2. /\ SubSeq(a, 0 + 1, x) \in Seq(Lines) /\ SubSeq(a, x + 1, Len(a)) \in Seq(Lines)
        /\ SubSeq(a, 0 + 1, x) \o SubSeq(a, x + 1, Len(a)) = SubSeq(a, 0 + 1, Len(a))
    BY <1>3, <2>1, PartFacts, PartsJoin
  <2>3. /\ SubSeq(b, 0 + 1, y) \in Seq(Lines) /\ SubSeq(b, y + 1, Len(b)) \in Seq(Lines)
        /\ SubSeq(b, 0 + 1, y) \o SubSeq(b, y + 1, Len(b)) = SubSeq(b, 0 + 1, Len(b))
    BY <1>3, <2>1, PartFacts, PartsJoin
  <2>4. SubSeq(a, 1, Len(a)) = a /\ SubSeq(b, 1, Len(b)) = b
    BY <1>3, Whole
  <2>5. <<>> \in Seq(Lines) /\ a \o <<>> = a
    BY <1>3, ConcatEmptySeq
  <2>6. Spells(u, "add", SubSeq(a, 1, x) \o SubSeq(a, x + 1, n) \o <<>>)
    BY <1>3, <1>4, <1>6, <1>11, <1>12, <2>1, <2>2, <2>5, JoinedScripts
  <2>7. Spells(u, "del", SubSeq(b, 1, y) \o <<>> \o SubSeq(b, y + 1, m))
    BY <1>3, <1>4, <1>6, <1>11, <1>12, <2>1, <2>3, <2>5, JoinedScripts
  <2>8. SubSeq(b, 1, y) \o <<>> = SubSeq(b, 1, y)
    BY <2>1, <2>3, ConcatEmptySeq
  <2> QED BY <1>3, <2>1, <2>2, <2>3, <2>4, <2>5, <2>6, <2>7, <2>8
<1> HIDE DEF u
<1>15. /\ n' = n /\ m' = m /\ tooExpensiveLimit' = tooExpensiveLimit /\ (TooLarge' <=> TooLarge)
       /\ Traced(trace)' <=> Traced(trace)
  BY <1>1, KeptParts, KeptTable
<1>16. TypeOK'
  <2>1. ops' \in Seq([op : {"equal", "add", "del"}, line : Lines])
    BY <1>1, <1>13, EditsAreOps
  <2> QED BY <1>1, <1>2, <1>15, <2>1 DEF TypeOK
<1>17. SearchInv'
  BY <1>1, <1>2, <1>15 DEF SearchInv
<1>18. IsScript' /\ Shortest'
  BY <1>1, <1>13, <1>14 DEF IsScript, Shortest
<1>19. FailsOnlyIfBothDo'
  BY <1>1, <1>5, <1>15 DEF FailsOnlyIfBothDo
<1> QED BY <1>1, <1>16, <1>17, <1>18, <1>19 DEF IInv, BackInv, WalkInv
-----------------------------------------------------------------------------
(* The theorems *)

LEMMA Stutters ==
  ASSUME IInv, UNCHANGED vars
  PROVE  IInv'
<1>1. /\ call' = call /\ a' = a /\ b' = b /\ pc' = pc /\ maxD' = maxD /\ d' = d /\ k' = k
      /\ v' = v /\ trace' = trace /\ x' = x /\ y' = y /\ lcs' = lcs /\ ops' = ops
      /\ result' = result
  BY DEF vars
<1>2. TypeOK /\ SearchInv /\ BackInv /\ WalkInv
      /\ (pc = "done" => IsScript /\ Shortest /\ FailsOnlyIfBothDo)
  BY DEF IInv
<1>3. /\ n' = n /\ m' = m /\ (TooLarge' <=> TooLarge)
      /\ tooExpensiveLimit' = tooExpensiveLimit /\ Budget' = Budget
      /\ \A t, i, j, s : ScriptTo(t, i, j, s)' <=> ScriptTo(t, i, j, s)
  BY <1>1, KeptTable
<1>4. /\ \A t : Traced(t)' <=> Traced(t)
      /\ \A t, w, D : BeforeRound(t, w, D)' <=> BeforeRound(t, w, D)
      /\ \A t, w, D, q : WithinRound(t, w, D, q)' <=> WithinRound(t, w, D, q)
      /\ \A t, D, i, j, s : ScriptFrom(t, D, i, j, s)' <=> ScriptFrom(t, D, i, j, s)
  BY <1>1, KeptParts
<1>5. TypeOK'
  BY <1>1, <1>2, <1>3 DEF TypeOK
<1>6. SearchInv'
  BY <1>1, <1>2, <1>3, <1>4 DEF SearchInv
<1>7. BackInv'
  BY <1>1, <1>2, <1>4 DEF BackInv
<1>8. WalkInv'
  BY <1>1, <1>2, <1>3 DEF WalkInv
<1>9. pc = "done" => IsScript' /\ Shortest' /\ FailsOnlyIfBothDo'
  BY <1>1, <1>2, <1>3 DEF IsScript, Shortest, FailsOnlyIfBothDo
<1> QED BY <1>1, <1>5, <1>6, <1>7, <1>8, <1>9 DEF IInv

\* The inductive invariant: the rounds before this one have left on every diagonal the
\* furthest point that so many edits reach (diff.go:194-220), the way back finds the
\* edits of those rounds (diff.go:227-257), and the walk follows the table
\* (diff.go:98-119).
THEOREM IInvHolds == Spec => []IInv
<1>1. Init => IInv
  BY Initially
<1>2. IInv /\ [Next]_vars => IInv'
  <2> SUFFICES ASSUME IInv, [Next]_vars
               PROVE  IInv'
    OBVIOUS
  <2>1. CASE MyersEmpty
    BY <2>1, MyersEmptyKeeps
  <2>2. CASE MyersStart
    BY <2>2, MyersStartKeeps
  <2>3. CASE Round
    BY <2>3, RoundKeeps
  <2>4. CASE Extend
    BY <2>4, ExtendKeeps
  <2>5. CASE Found
    BY <2>5, FoundKeeps
  <2>6. CASE GiveUp
    BY <2>6, GiveUpKeeps
  <2>7. CASE Back
    BY <2>7, BackKeeps
  <2>8. CASE BackToStart
    BY <2>8, BackToStartKeeps
  <2>9. CASE RefuseTable
    BY <2>9, RefuseTableKeeps
  <2>10. CASE FillTable
    BY <2>10, FillTableKeeps
  <2>11. CASE WalkEqual \/ WalkDel \/ WalkAdd
    BY <2>11, WalkedKeeps
  <2>12. CASE WalkRest
    BY <2>12, WalkRestKeeps
  <2>13. CASE UNCHANGED vars
    BY <2>13, Stutters
  <2> QED BY <2>1, <2>2, <2>3, <2>4, <2>5, <2>6, <2>7, <2>8, <2>9, <2>10, <2>11, <2>12, <2>13
          DEF Next
<1> QED BY <1>1, <1>2, PTL DEF Spec

\* Only a call that has ended has a result.
LEMMA ResultAtEnd ==
  ASSUME IInv
  PROVE  IsScript /\ Shortest /\ FailsOnlyIfBothDo
<1>1. SearchInv /\ (pc = "done" => IsScript /\ Shortest /\ FailsOnlyIfBothDo)
  BY DEF IInv
<1>2. CASE pc = "done"
  BY <1>1, <1>2
<1>3. CASE pc # "done"
  <2>1. result = "none"
    BY <1>1, <1>3 DEF SearchInv
  <2> QED BY <1>3, <2>1 DEF IsScript, Shortest, FailsOnlyIfBothDo
<1> QED BY <1>2, <1>3

\* Whatever the files, the line type and the limits: a script that a call returns turns
\* the left file into the right one (diff.go:98-120, 225-262).
THEOREM IsScriptHolds == Spec => []IsScript
<1>1. IInv => IsScript
  BY ResultAtEnd
<1> QED BY <1>1, IInvHolds, PTL

\* No script has fewer insertions and deletions than the one returned, by either
\* algorithm (diff.go:66-70, 123-130).
THEOREM ShortestHolds == Spec => []Shortest
<1>1. IInv => Shortest
  BY ResultAtEnd
<1> QED BY <1>1, IInvHolds, PTL

\* DiffLines fails only when the files differ in more lines than the budget of the
\* search and the table is too large (diff.go:147-160).
THEOREM FailsOnlyIfBothDoHolds == Spec => []FailsOnlyIfBothDo
<1>1. IInv => FailsOnlyIfBothDo
  BY ResultAtEnd
<1> QED BY <1>1, IInvHolds, PTL

\* While a round is extended it looks at diagonals that v has.
LEMMA ExtendInBounds ==
  ASSUME IInv, pc = "extend"
  PROVE  /\ k \in -d .. d /\ At(k) \in DOMAIN v
         /\ k # d \/ d = 0 => At(k + 1) \in DOMAIN v
         /\ k # -d => At(k - 1) \in DOMAIN v
         /\ Reach - k >= 0
<1>1. TypeOK /\ SearchInv
  BY DEF IInv
<1>2. Arguments /\ d \in Nat
  BY <1>1, StateFacts
<1>3. Traced(trace) /\ WithinRound(trace, v, d, k)
  BY <1>1 DEF SearchInv
<1>4. /\ d \in 0 .. maxD /\ k \in -d .. d
      /\ ReachOn(v, k, d) \in 0 .. n + maxD /\ ReachOn(v, k, d) >= k
  BY <1>2, <1>3, WithinFacts
<1>5. maxD \in 1 .. n + m /\ n \in Nat /\ m \in Nat /\ maxD \in Nat
  BY <1>2, ArgumentFacts DEF Arguments
<1>6. DOMAIN v = Diagonals(maxD)
  BY <1>3 DEF WithinRound
<1>7. k \in -maxD .. maxD
  BY <1>4, <1>5
<1>8. k # d \/ d = 0 => k + 1 \in -maxD .. maxD
  BY <1>4, <1>5
<1>9. k # -d => k - 1 \in -maxD .. maxD
  BY <1>4, <1>5
<1>10. Reach - k >= 0
  BY <1>4, <1>5 DEF Reach
<1> QED BY <1>4, <1>5, <1>6, <1>7, <1>8, <1>9, <1>10, Indices

\* And so does the way back.
LEMMA BackInBounds ==
  ASSUME IInv, pc = "back"
  PROVE  /\ d + 1 \in DOMAIN trace
         /\ x - y \in -d .. d /\ At(x - y) \in DOMAIN v
         /\ x - y # d \/ d = 0 => At(x - y + 1) \in DOMAIN v
         /\ x - y # -d => At(x - y - 1) \in DOMAIN v
         /\ PrevX \in 0 .. x /\ PrevY <= y /\ (d > 0 => PrevY >= 0)
<1>1. TypeOK /\ SearchInv /\ BackInv
  BY DEF IInv
<1>2. Arguments /\ d \in Nat
  BY <1>1, StateFacts
<1>3. Traced(trace) /\ ScriptFrom(trace, d, x, y, ops)
  BY <1>1 DEF SearchInv, BackInv
<1>4. d = d
  OBVIOUS
<1>5. PrevX \in 0 .. x /\ PrevY <= y /\ (d > 0 => PrevY >= 0)
  BY <1>2, <1>3, <1>4, BackFacts
<1>6. maxD \in 1 .. n + m /\ n \in Nat /\ m \in Nat /\ maxD \in Nat
  BY <1>2, ArgumentFacts DEF Arguments
<1>7. d + 1 \in DOMAIN trace /\ Len(trace) <= maxD + 1 /\ x - y \in Reached(d)
  BY <1>3 DEF ScriptFrom
<1>8. trace \in Seq([Diagonals(maxD) -> 0 .. n + maxD])
  BY <1>3 DEF Traced
<1>9. d <= maxD /\ trace[d + 1] \in [Diagonals(maxD) -> 0 .. n + maxD]
  <2>1. d + 1 <= Len(trace) /\ Len(trace) \in Nat
    BY <1>2, <1>7, <1>8
  <2> QED BY <1>2, <1>6, <1>7, <1>8, <2>1, ElementOfSeq
<1>10. DOMAIN v = Diagonals(maxD)
  BY <1>1, <1>7, <1>9 DEF TypeOK
<1>11. x - y \in Int /\ x - y >= -d /\ x - y <= d
  BY <1>2, <1>7, ReachedFacts
<1>12. x - y \in -maxD .. maxD
  BY <1>2, <1>6, <1>9, <1>11
<1>13. x - y # d \/ d = 0 => x - y + 1 \in -maxD .. maxD
  BY <1>2, <1>6, <1>9, <1>11
<1>14. x - y # -d => x - y - 1 \in -maxD .. maxD
  BY <1>2, <1>6, <1>9, <1>11
<1>15. x - y \in -d .. d
  BY <1>2, <1>11
<1> QED BY <1>5, <1>6, <1>7, <1>10, <1>12, <1>13, <1>14, <1>15, Indices

\* v has every diagonal that a round or the way back looks at, and the lines compared
\* and reported exist (diff.go:177-186, 201-219, 229-257).
THEOREM InBoundsHolds == Spec => []InBounds
<1>1. ASSUME IInv
      PROVE  InBounds
  <2>1. TypeOK
    BY <1>1 DEF IInv
  <2>2. CASE pc = "extend"
    <3>1. /\ k \in -d .. d /\ At(k) \in DOMAIN v
          /\ k # d \/ d = 0 => At(k + 1) \in DOMAIN v
          /\ k # -d => At(k - 1) \in DOMAIN v
          /\ Reach - k >= 0
      BY <1>1, <2>2, ExtendInBounds
    <3> QED BY <2>1, <2>2, <3>1 DEF InBounds
  <2>3. CASE pc = "back"
    <3>1. /\ d + 1 \in DOMAIN trace
          /\ x - y \in -d .. d /\ At(x - y) \in DOMAIN v
          /\ x - y # d \/ d = 0 => At(x - y + 1) \in DOMAIN v
          /\ x - y # -d => At(x - y - 1) \in DOMAIN v
          /\ PrevX \in 0 .. x /\ PrevY <= y /\ (d > 0 => PrevY >= 0)
      BY <1>1, <2>3, BackInBounds
    <3> QED BY <2>1, <2>3, <3>1 DEF InBounds
  <2>4. CASE pc \notin {"extend", "back"}
    BY <2>1, <2>4 DEF InBounds
  <2> QED BY <2>2, <2>3, <2>4
<1> QED BY <1>1, IInvHolds, PTL

\* Between rounds each diagonal of the last one, where it is within the files, is at the
\* furthest point that so many edits reach.
LEMMA RoundsReachFurthest ==
  ASSUME IInv
  PROVE  FurthestReaching
<1> SUFFICES ASSUME pc = "round", d > 0,
                    NEW j \in -(d - 1) .. d - 1, (j + d - 1) % 2 = 0,
                    NEW i, i = v[At(j)], i <= n, i - j <= m
             PROVE  /\ PrefixDistance(i, i - j) <= d - 1
                    /\ i < n /\ i - j < m => PrefixDistance(i + 1, i + 1 - j) > d - 1
  BY DEF FurthestReaching
<1>1. TypeOK /\ SearchInv
  BY DEF IInv
<1>2. Arguments /\ d \in Nat /\ n \in Nat /\ m \in Nat /\ maxD \in 0 .. n + m
      /\ a \in Files /\ b \in Files /\ d \in 0 .. maxD + 1
  BY <1>1, StateFacts
<1>3. SoFar(v, d)
  BY <1>1 DEF SearchInv, BeforeRound
<1>4. /\ v \in [Diagonals(maxD) -> 0 .. n + maxD]
      /\ Inside(v, d) /\ Attained(v, d) /\ Furthest(v, d)
  BY <1>3 DEF SoFar
<1>5. j \in Int /\ d - 1 \in Nat /\ j >= -(d - 1) /\ j <= d - 1
  BY <1>2
<1>6. j \in Reached(d - 1)
  <2> DEFINE p == (j + d - 1) \div 2
  <2>1. p \in Int /\ j + d - 1 = 2 * p
    BY <1>5
  <2>2. p \in 0 .. d - 1 /\ j = 2 * p - (d - 1)
    BY <1>5, <2>1
  <2> QED BY <2>2 DEF Reached
<1>7. j \in -maxD .. maxD
  BY <1>2, <1>5
<1>8. i \in Nat /\ i >= j
  <2>1. i \in 0 .. n + maxD
    BY <1>2, <1>4, <1>7, Indices
  <2> QED BY <1>2, <1>4, <2>1 DEF Inside
<1>9. i \in 0 .. n /\ i - j \in 0 .. m
  BY <1>2, <1>5, <1>8
<1>10. PrefixDistance(i, i - j) <= d - 1
  <2>1. PICK l \in Matches(i, i - j) : 2 * i - j - 2 * l = d - 1
    BY <1>4, <1>6 DEF Attained
  <2>2. PICK z \in Matches(i, i - j) :
          /\ PrefixDistance(i, i - j) = i + (i - j) - 2 * z
          /\ \A q \in Matches(i, i - j) : q <= z
    BY <1>2, <1>9, PrefixDistanceIs
  <2>3. l \in Nat /\ z \in Nat /\ l <= z
    BY <1>2, <1>9, <2>1, <2>2, MatchBounds
  <2> QED BY <1>2, <1>5, <1>8, <2>1, <2>2, <2>3
<1>11. ASSUME i < n, i - j < m
       PROVE  PrefixDistance(i + 1, i + 1 - j) > d - 1
  <2>1. i + 1 \in 0 .. n /\ i + 1 - j \in 0 .. m /\ i + 1 - (i + 1 - j) = j
    BY <1>2, <1>5, <1>8, <1>9, <1>11
  <2>2. PICK z \in Matches(i + 1, i + 1 - j) :
          /\ PrefixDistance(i + 1, i + 1 - j) = i + 1 + (i + 1 - j) - 2 * z
          /\ \A q \in Matches(i + 1, i + 1 - j) : q <= z
    BY <1>2, <2>1, PrefixDistanceIs
  <2>3. z \in Nat
    BY <1>2, <2>1, <2>2, MatchBounds
  <2>4. i + 1 + (i + 1 - j) - 2 * z <= d - 1 => v[At(j)] >= i + 1
    BY <1>4, <1>6, <2>1, <2>2 DEF Furthest
  <2> QED BY <1>2, <1>5, <1>8, <2>2, <2>3, <2>4
<1> QED BY <1>10, <1>11

\* The search finds on each diagonal the furthest point of its round (diff.go:177-179, 196-220).
THEOREM FurthestReachingHolds == Spec => []FurthestReaching
<1>1. IInv => FurthestReaching
  BY RoundsReachFurthest
<1> QED BY <1>1, IInvHolds, PTL
=============================================================================
