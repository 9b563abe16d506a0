-------------------------------- MODULE Diff --------------------------------
(***************************************************************************)
(* internal/utils/diff.go: DiffLines, DiffLinesMyers and DiffLinesLCS on    *)
(* two files.  A step is one iteration of a loop of the code, so that what  *)
(* each loop has established can be stated, and the indices it uses seen.   *)
(*                                                                          *)
(* Go's a[x] is a[x + 1] here.  The script is kept in the order in which it *)
(* is returned: myersDiff collects it backwards and reverses it.            *)
(***************************************************************************)
EXTENDS Integers, Sequences, FiniteSets, SequencesExt

CONSTANTS
  Lines,      \* what a line can be
  MaxLen,     \* bound: the longest file
  Baseline,   \* tooExpensiveBaseline
  TableBytes  \* maxLCSTableBytes

ASSUME DiffAssumption == MaxLen \in Nat /\ Baseline \in Nat /\ TableBytes \in Nat

Files == UNION {[1 .. n -> Lines] : n \in 0 .. MaxLen}

VARIABLES
  call,       \* which function was called
  a, b,       \* its arguments
  pc,         \* where it is
  maxD, d, k, \* myersDiff's budget, the round, the diagonal
  v, trace,   \* the furthest x on each diagonal; v as it was before each round
  x, y,       \* where backtracking, or the walk through the table, is
  lcs,        \* the table
  ops,        \* the edit script
  result      \* "script", or the error

search == <<maxD, d, k, v, trace>>
vars == <<call, a, b, pc, maxD, d, k, v, trace, x, y, lcs, ops, result>>

n == Len(a)
m == Len(b)

Equal(l) == [op |-> "equal", line |-> l]
Add(l) == [op |-> "add", line |-> l]
Del(l) == [op |-> "del", line |-> l]

Init ==
  /\ call \in {"DiffLines", "DiffLinesMyers", "DiffLinesLCS"}
  /\ a \in Files /\ b \in Files
  /\ pc = IF call = "DiffLinesLCS" THEN "table" ELSE "myers"
  /\ maxD = 0 /\ d = 0 /\ k = 0
  /\ v = <<>> /\ trace = <<>>
  /\ x = 0 /\ y = 0
  /\ lcs = <<>> /\ ops = <<>>
  /\ result = "none"

Return(r) == pc' = "done" /\ result' = r
-----------------------------------------------------------------------------
(* myersDiff: the search *)

SquareRoot(z) == CHOOSE r \in 0 .. z : r * r <= z /\ z < (r + 1) * (r + 1)
tooExpensiveLimit == Baseline + SquareRoot(n + m)
Budget == IF call = "DiffLines" THEN tooExpensiveLimit ELSE n + m

MyersEmpty ==
  /\ pc = "myers" /\ n + m = 0
  /\ Return("script")
  /\ UNCHANGED <<call, a, b, search, x, y, lcs, ops>>

\* Variant: an array with room for the diagonals of one round less.
DiagonalsShort(D) == 0 .. 2 * D - 1

\* The indices of v: D diagonals on either side of the one in the middle.
Diagonals(D) == 0 .. 2 * D

MyersStart ==
  /\ pc = "myers" /\ n + m > 0
  /\ maxD' = Min({Budget, n + m})
  /\ v' = [i \in Diagonals(maxD') |-> 0]
  /\ pc' = "round"
  /\ UNCHANGED <<call, a, b, d, k, trace, x, y, lcs, ops, result>>

\* A round begins: v is kept as it is, for the way back.
Round ==
  /\ pc = "round" /\ d <= maxD
  /\ trace' = Append(trace, v)
  /\ k' = -d
  /\ pc' = "extend"
  /\ UNCHANGED <<call, a, b, maxD, d, v, x, y, lcs, ops, result>>

\* The index of diagonal j; offset is maxD.
At(j) == maxD + j

\* Variant: preferring the insertion when both ways reach equally far.
DownOnTie(w, j, D) == j = -D \/ (j # D /\ w[At(j - 1)] <= w[At(j + 1)])

\* Diagonal j is reached by an insertion from j + 1, else by a deletion from j - 1.
Down(w, j, D) == j = -D \/ (j # D /\ w[At(j - 1)] < w[At(j + 1)])

\* How many lines are equal from a[x] and b[y] on.
Snake(i, j) ==
  Max({0} \cup {r \in 1 .. n - i : j + r <= m /\ \A s \in 1 .. r : a[i + s] = b[j + s]})

\* How far diagonal j gets in round D, from where the rounds before, in w, have got.
ReachOn(w, j, D) ==
  LET i == IF Down(w, j, D) THEN w[At(j + 1)] ELSE w[At(j - 1)] + 1
  IN i + Snake(i, i - j)

Reach == ReachOn(v, k, d)

AtEnd(i, j) == i >= n /\ j >= m

\* Variant: the round stays at its diagonal.
NextKStays == k

NextK == k + 2

Extend ==
  /\ pc = "extend"
  /\ ~AtEnd(Reach, Reach - k)
  /\ v' = [v EXCEPT ![At(k)] = Reach]
  /\ \/ k < d /\ k' = NextK /\ UNCHANGED <<d, pc>>
     \/ k = d /\ d' = d + 1 /\ pc' = "round" /\ k' = k
  /\ UNCHANGED <<call, a, b, maxD, trace, x, y, lcs, ops, result>>

\* break found: on to the backtracking, from the end of both files.
Found ==
  /\ pc = "extend"
  /\ AtEnd(Reach, Reach - k)
  /\ v' = [v EXCEPT ![At(k)] = Reach]
  /\ x' = n /\ y' = m
  /\ pc' = "back"
  /\ UNCHANGED <<call, a, b, maxD, d, k, trace, lcs, ops, result>>

\* Variant: giving up with the last round of the budget not yet tried.
ExhaustedEarly == d >= maxD

Exhausted == d > maxD

\* The budget is exceeded: DiffLines falls back, DiffLinesMyers ignores ok.
GiveUp ==
  /\ pc = "round" /\ Exhausted
  /\ IF call = "DiffLines" THEN pc' = "table" /\ result' = result ELSE Return("script")
  /\ UNCHANGED <<call, a, b, search, x, y, lcs, ops>>
-----------------------------------------------------------------------------
(* myersDiff: the way back, one round of it a step *)

\* Round d came from x = prevX on diagonal prevK, one edit before a snake.
PrevK == IF Down(trace[d + 1], x - y, d) THEN x - y + 1 ELSE x - y - 1
PrevX == trace[d + 1][At(PrevK)]
PrevY == PrevX - PrevK

\* The lines of the snake of this round that end before a[x].
SnakeLen == Max({0, Min({x - PrevX, y - PrevY})})
SnakeOps == [i \in 1 .. SnakeLen |-> Equal(a[x - SnakeLen + i])]

\* Variant: taking the edit of the round before the lines of its snake.
EditWrongEnd == IF x = PrevX THEN <<Add(b[y])>> ELSE <<Del(a[x])>>

\* The edit of this round, once the snake is behind.
Edit == IF x - SnakeLen = PrevX THEN <<Add(b[y - SnakeLen])>> ELSE <<Del(a[x - SnakeLen])>>

Back ==
  /\ pc = "back" /\ d > 0
  /\ ops' = Edit \o SnakeOps \o ops
  /\ x' = PrevX /\ y' = PrevY
  /\ d' = d - 1
  /\ UNCHANGED <<call, a, b, pc, maxD, k, v, trace, lcs, result>>

BackToStart ==
  /\ pc = "back" /\ d = 0
  /\ ops' = SnakeOps \o ops
  /\ Return("script")
  /\ UNCHANGED <<call, a, b, search, x, y, lcs>>
-----------------------------------------------------------------------------
(* DiffLinesLCS *)

TooLarge == (n + 1) * (m + 1) * 4 > TableBytes

RefuseTable ==
  /\ pc = "table" /\ TooLarge
  /\ Return("too large")
  /\ UNCHANGED <<call, a, b, search, x, y, lcs, ops>>

\* lcs[<<i, j>>]: how many lines a[i..] and b[j..] have in common, at most.
Cells == (0 .. n) \X (0 .. m)
Table[c \in Cells] ==
  IF c[1] = n \/ c[2] = m THEN 0
  ELSE IF a[c[1] + 1] = b[c[2] + 1] THEN Table[<<c[1] + 1, c[2] + 1>>] + 1
  ELSE Max({Table[<<c[1] + 1, c[2]>>], Table[<<c[1], c[2] + 1>>]})

FillTable ==
  /\ pc = "table" /\ ~TooLarge
  /\ lcs' = Table
  /\ pc' = "walk"
  /\ x' = 0 /\ y' = 0
  /\ UNCHANGED <<call, a, b, search, ops, result>>

\* One line of the walk: of both files, of the left, or of the right one.
Walk(dx, dy, op) ==
  /\ x' = x + dx /\ y' = y + dy
  /\ ops' = Append(ops, op)
  /\ UNCHANGED <<call, a, b, pc, search, lcs, result>>

Walking == pc = "walk" /\ x < n /\ y < m

WalkEqual == Walking /\ a[x + 1] = b[y + 1] /\ Walk(1, 1, Equal(a[x + 1]))

\* Variant: the two neighbours in the table compared the wrong way round.
DelIsBetterReversed == lcs[<<x + 1, y>>] <= lcs[<<x, y + 1>>]

DelIsBetter == lcs[<<x + 1, y>>] >= lcs[<<x, y + 1>>]

WalkDel == Walking /\ a[x + 1] # b[y + 1] /\ DelIsBetter /\ Walk(1, 0, Del(a[x + 1]))

WalkAdd == Walking /\ a[x + 1] # b[y + 1] /\ ~DelIsBetter /\ Walk(0, 1, Add(b[y + 1]))

\* One file is used up: the rest of the other.
WalkRest ==
  /\ pc = "walk" /\ (x >= n \/ y >= m)
  /\ ops' = ops \o [i \in 1 .. n - x |-> Del(a[x + i])] \o [j \in 1 .. m - y |-> Add(b[y + j])]
  /\ Return("script")
  /\ UNCHANGED <<call, a, b, search, x, y, lcs>>
-----------------------------------------------------------------------------
Next ==
  \/ MyersEmpty \/ MyersStart \/ Round \/ Extend \/ Found \/ GiveUp
  \/ Back \/ BackToStart
  \/ RefuseTable \/ FillTable \/ WalkEqual \/ WalkDel \/ WalkAdd \/ WalkRest

Spec == Init /\ [][Next]_vars /\ WF_vars(Next)
-----------------------------------------------------------------------------
(* Properties *)

\* The reference: the fewest insertions and deletions that make t of s.
Increasing(N) ==
  {f \in UNION {[1 .. l -> 1 .. N] : l \in 0 .. N} :
     \A r, q \in DOMAIN f : r < q => f[r] < f[q]}
Subsequences == [s \in Files |-> {[r \in DOMAIN f |-> s[f[r]]] : f \in Increasing(Len(s))}]
Lengths(s, t) == {Len(c) : c \in Subsequences[s] \cap Subsequences[t]}
Distance == [p \in Files \X Files |-> Len(p[1]) + Len(p[2]) - 2 * Max(Lengths(p[1], p[2]))]
PrefixDistance(i, j) == Distance[<<SubSeq(a, 1, i), SubSeq(b, 1, j)>>]

\* The lines of script s, those of one kind left out, are the lines of t in order.
Without(s, kind) == {i \in DOMAIN s : s[i].op # kind}
Spells(s, kind, t) ==
  /\ Cardinality(Without(s, kind)) = Len(t)
  /\ \A i \in Without(s, kind) : s[i].line = t[Cardinality(Without(s, kind) \cap 1 .. i)]

\* Every variable keeps its type.
TypeOK ==
  /\ call \in {"DiffLines", "DiffLinesMyers", "DiffLinesLCS"}
  /\ a \in Files /\ b \in Files
  /\ pc \in {"myers", "round", "extend", "back", "table", "walk", "done"}
  /\ maxD \in 0 .. n + m /\ d \in 0 .. maxD + 1 /\ k \in -maxD .. maxD
  /\ \A i \in DOMAIN v : v[i] \in 0 .. n + maxD
  /\ \A i \in DOMAIN trace : DOMAIN trace[i] = DOMAIN v
  /\ x \in 0 .. n /\ y \in 0 .. m
  /\ ops \in Seq([op : {"equal", "add", "del"}, line : Lines])
  /\ result \in {"none", "script", "too large"}

\* No access outside an array: v is sized by the budget, not by the files, and
\* still holds every diagonal a round or the way back looks at; and the lines
\* compared, or reported, exist (diff.go:177-186).
InBounds ==
  /\ TypeOK
  /\ pc = "back" => d + 1 \in DOMAIN trace
  /\ pc \in {"extend", "back"} =>
       LET j == IF pc = "extend" THEN k ELSE x - y
       IN /\ j \in -d .. d /\ At(j) \in DOMAIN v
          /\ j # d \/ d = 0 => At(j + 1) \in DOMAIN v
          /\ j # -d => At(j - 1) \in DOMAIN v
  /\ pc = "extend" => Reach - k >= 0
  /\ pc = "back" => PrevX \in 0 .. x /\ PrevY <= y /\ (d > 0 => PrevY >= 0)

\* The search is the search: after round d, each diagonal within the files has
\* the furthest point that d edits reach on it.
FurthestReaching ==
  pc = "round" /\ d > 0 =>
    \A j \in -(d - 1) .. d - 1 : (j + d - 1) % 2 = 0 =>
      LET i == v[At(j)]
      IN i <= n /\ i - j <= m =>
           /\ PrefixDistance(i, i - j) <= d - 1
           /\ i < n /\ i - j < m => PrefixDistance(i + 1, i + 1 - j) > d - 1

\* A script returned turns the left file into the right one: without its
\* additions it is the left file, without its deletions the right one.
IsScript ==
  result = "script" => Spells(ops, "add", a) /\ Spells(ops, "del", b)

\* And no script is shorter, whichever algorithm produced it.
Shortest ==
  result = "script" =>
    Cardinality(Without(ops, "equal")) = Distance[<<a, b>>]

\* "The only error it can return is ErrDiffTableTooLarge, for inputs too large
\* and too dissimilar for either algorithm" (diff.go:152-154): DiffLines falls
\* back exactly when the files differ in more lines than its budget, and fails
\* exactly when the table is then too large.
FailsOnlyIfBothDo ==
  pc = "done" =>
    (result = "too large" <=>
       /\ TooLarge
       /\ call = "DiffLinesLCS" \/ (call = "DiffLines" /\ Distance[<<a, b>>] > tooExpensiveLimit))

\* Every call returns.
Returns == <>(pc = "done")
-----------------------------------------------------------------------------
(* The inductive invariant of the proofs *)

\* The diagonals of round D.
Reached(D) == {2 * i - D : i \in 0 .. D}

\* The lengths that common subsequences of the first i lines of a and j of b have.
Matches(i, j) == Lengths(SubSeq(a, 1, i), SubSeq(b, 1, j))

\* What the rounds before D leave in w.  The points outside the files are no nearer
\* to the end than those inside, so a search cannot miss it.
Inside(w, D) ==
  \A j \in -(D - 1) .. D - 1 :
    LET i == w[At(j)] IN i >= j /\ i <= n + D - 1 /\ ~AtEnd(i, i - j)

Advance(w, D) ==
  \A j \in Reached(D - 1) :
    LET i == w[At(j)]
    IN /\ 2 * i - j >= D - 1
       /\ j + 1 \in Reached(D - 2) => i >= w[At(j + 1)]
       /\ j - 1 \in Reached(D - 2) => i > w[At(j - 1)]
       /\ i > n => j - 1 \in Reached(D - 2) /\ w[At(j - 1)] >= i - 1
       /\ i - j > m => j + 1 \in Reached(D - 2) /\ w[At(j + 1)] >= i

\* It is reached with D - 1 edits, and nothing further is with so many or fewer.
Attained(w, D) ==
  \A j \in Reached(D - 1) :
    LET i == w[At(j)]
    IN i <= n /\ i - j <= m => \E l \in Matches(i, i - j) : 2 * i - j - 2 * l = D - 1

Furthest(w, D) ==
  \A i \in 0 .. n, j \in 0 .. m :
    i - j \in Reached(D - 1) =>
      \A l \in Matches(i, j) : i + j - 2 * l <= D - 1 => w[At(i - j)] >= i

SoFar(w, D) ==
  /\ w \in [Diagonals(maxD) -> 0 .. n + maxD]
  /\ D = 0 => w[At(1)] = 0
  /\ Inside(w, D) /\ Advance(w, D) /\ Attained(w, D) /\ Furthest(w, D)

\* u is w after round D.
After(w, u, D) == \A j \in Reached(D) : u[At(j)] = ReachOn(w, j, D)

\* The rounds begun: each found in v what those before it left there.
Traced(t) ==
  /\ t \in Seq([Diagonals(maxD) -> 0 .. n + maxD])
  /\ \A r \in DOMAIN t :
       /\ SoFar(t[r], r - 1)
       /\ r < Len(t) => After(t[r], t[r + 1], r - 1)

\* More edits than so many are needed.
Beyond(e) == \A l \in Matches(n, m) : n + m - 2 * l > e

BeforeRound(t, w, D) ==
  /\ Len(t) = D /\ SoFar(w, D)
  /\ D > 0 => After(t[D], w, D - 1)
  /\ Beyond(D - 1)

\* Diagonal q is the next of the round.
WithinRound(t, w, D, q) ==
  /\ Len(t) = D + 1 /\ D <= maxD /\ q \in Reached(D)
  /\ w \in [Diagonals(maxD) -> 0 .. n + maxD]
  /\ \A j \in -maxD .. maxD :
       IF j \in Reached(D) /\ j < q
       THEN w[At(j)] = ReachOn(t[D + 1], j, D) /\ ~AtEnd(w[At(j)], w[At(j)] - j)
       ELSE w[At(j)] = t[D + 1][At(j)]
  /\ Beyond(D - 1)

SearchInv ==
  /\ pc \in {"round", "extend", "back"} =>
       call # "DiffLinesLCS" /\ n + m > 0 /\ maxD = Min({Budget, n + m})
  /\ pc \in {"myers", "round", "extend", "table"} => ops = <<>>
  /\ pc # "done" => result = "none"
  /\ pc = "myers" => d = 0 /\ k = 0 /\ trace = <<>> /\ call # "DiffLinesLCS"
  /\ Traced(trace)
  /\ pc = "round" => BeforeRound(trace, v, d)
  /\ pc = "extend" => WithinRound(trace, v, d, k)

\* Script s turns the lines of a after the i-th into those of b after the j-th, with as
\* many edits as there were rounds from D on.
ScriptFrom(t, D, i, j, s) ==
  /\ D + 1 \in DOMAIN t /\ Len(t) <= maxD + 1
  /\ i \in 0 .. n /\ j \in 0 .. m
  /\ i - j \in Reached(D) /\ i = ReachOn(t[D + 1], i - j, D)
  /\ Spells(s, "add", SubSeq(a, i + 1, n)) /\ Spells(s, "del", SubSeq(b, j + 1, m))
  /\ Cardinality(Without(s, "equal")) + D = Len(t) - 1
  /\ Len(t) - 1 = Distance[<<a, b>>]

BackInv == pc = "back" => ScriptFrom(trace, d, x, y, ops)

\* A table filled as Table is.
IsTable(t) ==
  /\ t \in [Cells -> Nat]
  /\ \A c \in Cells :
       t[c] = IF c[1] = n \/ c[2] = m THEN 0
              ELSE IF a[c[1] + 1] = b[c[2] + 1] THEN t[<<c[1] + 1, c[2] + 1>>] + 1
              ELSE Max({t[<<c[1] + 1, c[2]>>], t[<<c[1], c[2] + 1>>]})

\* Script s turns the first i lines of a into the first j of b, and has found so many
\* common lines that those ahead, as table t counts them, make the most of all.
ScriptTo(t, i, j, s) ==
  /\ IsTable(t)
  /\ i \in 0 .. n /\ j \in 0 .. m
  /\ Spells(s, "add", SubSeq(a, 1, i)) /\ Spells(s, "del", SubSeq(b, 1, j))
  /\ \E l \in Matches(i, j) :
       /\ Cardinality(Without(s, "equal")) = i + j - 2 * l
       /\ t[<<0, 0>>] = l + t[<<i, j>>]

WalkInv ==
  /\ pc \in {"table", "walk"} =>
       /\ call # "DiffLinesMyers"
       /\ call = "DiffLines" => Distance[<<a, b>>] > tooExpensiveLimit
  /\ pc = "walk" => ~TooLarge /\ ScriptTo(lcs, x, y, ops)

IInv ==
  /\ TypeOK /\ SearchInv /\ BackInv /\ WalkInv
  /\ pc = "done" => IsScript /\ Shortest /\ FailsOnlyIfBothDo
=============================================================================
