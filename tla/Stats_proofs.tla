---------------------------- MODULE Stats_proofs ----------------------------
(***************************************************************************)
(* Proofs about readings of the counters, for any Scheduler and whatever it *)
(* does between the loads: what a caller can conclude from one.             *)
(***************************************************************************)
EXTENDS Stats, Scheduler_proofs

\* The six counters, and the order in which they are loaded.
LEMMA LoadFacts ==
  /\ Len(Loads) = 6 /\ DOMAIN Loads = 1 .. 6
  /\ Loads[1] = "submitted" /\ Loads[2] = "completed"
  /\ Loads[3] = "stolen" /\ Loads[4] = "aged"
  /\ Loads[5] = "rejectedStandard" /\ Loads[6] = "rejectedBackground"
  /\ Range(Loads) = {"submitted", "completed", "stolen", "aged", "rejectedStandard",
                     "rejectedBackground"}
<1>1. /\ Len(Loads) = 6 /\ DOMAIN Loads = 1 .. 6
      /\ Loads[1] = "submitted" /\ Loads[2] = "completed"
      /\ Loads[3] = "stolen" /\ Loads[4] = "aged"
      /\ Loads[5] = "rejectedStandard" /\ Loads[6] = "rejectedBackground"
  BY DEF Loads
<1>2. 1 .. 6 = {1, 2, 3, 4, 5, 6}
  OBVIOUS
<1> QED BY <1>1, <1>2 DEF Range

\* No counter falls, and a Future that is done or refused stays so.
Grows ==
  /\ \A f \in Range(Loads) : stats'[f] \in Nat /\ stats'[f] >= stats[f]
  /\ \A t \in Tasks : fut[t] \in {"done", "full"} => fut'[t] = fut[t]

LEMMA CountGrows ==
  ASSUME BaseInv, stats' = stats \/ \E f \in DOMAIN stats : Count(f)
  PROVE  \A f \in Range(Loads) : stats'[f] \in Nat /\ stats'[f] >= stats[f]
<1>1. DOMAIN stats = Range(Loads) /\ \A f \in DOMAIN stats : stats[f] \in Nat
  BY LoadFacts DEF BaseInv, TypeOK
<1>2. ASSUME NEW g \in DOMAIN stats, Count(g), NEW f \in DOMAIN stats
      PROVE  stats'[f] = stats[f] \/ stats'[f] = stats[f] + 1
  BY <1>2 DEF Count
<1> QED BY <1>1, <1>2

LEMMA FutGrows ==
  ASSUME BaseInv, \/ fut' = fut
                  \/ \E x \in Tasks : \E r : fut[x] \in {"none", "pending"} /\ Resolve(x, r)
  PROVE  \A t \in Tasks : fut[t] \in {"done", "full"} => fut'[t] = fut[t]
BY DEF BaseInv, TypeOK, Resolve

LEMMA NextGrows == BaseInv /\ TaskInv /\ [Next]_vars => Grows
<1> SUFFICES ASSUME BaseInv, TaskInv, [Next]_vars PROVE Grows
  OBVIOUS
<1> DEFINE Counts == stats' = stats \/ \E f \in DOMAIN stats : Count(f)
           Resolves == \/ fut' = fut
                       \/ \E x \in Tasks : \E r : fut[x] \in {"none", "pending"} /\ Resolve(x, r)
<1>1. DOMAIN stats = {"submitted", "completed", "stolen", "aged", "rejectedStandard",
                      "rejectedBackground"}
  BY DEF BaseInv, TypeOK
<1>2. ASSUME NEW a \in Agents, Submit(a) PROVE Counts /\ Resolves
  <2>1. CASE fut' = fut /\ stats' = stats
    BY <2>1
  <2>2. CASE SubmitStopped(a) \/ SubmitOpen(a)
    BY <1>1, <2>2, TodoFacts DEF SubmitStopped, SubmitOpen
  <2>3. CASE RejectStandard(a) \/ RejectBackground(a)
    <3>1. todo[a] # <<>>
      BY <2>3 DEF RejectStandard, RejectBackground, BaseInv, AgentInv
    <3> QED BY <1>1, <2>3, <3>1, TodoFacts DEF RejectStandard, RejectBackground, Rejected
  <2> QED BY <1>2, <2>1, <2>2, <2>3 DEF Submit, PushStandard, PushBackground, Queued,
                                        RingHandOff, RingToken
<1>3. ASSUME NEW w \in Workers, Worker(w) PROVE Counts /\ Resolves
  <2>1. CASE fut' = fut /\ (stats' = stats \/ Count("aged") \/ Count("stolen"))
    BY <1>1, <2>1
  <2>2. CASE Find(w)
    BY <2>1, <2>2 DEF Find, PopLocal, PopAged, PopStandard, PopBackground, StealWin, Begin,
                      LocalEmpty, NotAged, StandardEmpty, BackgroundEmpty, EndPass, Search,
                      BeginPass, GiveUp, StealMiss, StealAim, StealLose
  <2>3. CASE TakeToken(w) \/ Park(w) \/ Exit(w) \/ PushLocal(w) \/ Spill(w)
    BY <2>1, <2>3 DEF TakeToken, Park, Exit, Search, PushLocal, Queued, Spill
  <2>4. CASE Complete(w)
    BY <1>1, <2>4 DEF Complete
  <2>5. CASE CloseFuture(w)
    <3>1. task[w] # None /\ task[w] \in Tasks
      BY <2>5 DEF CloseFuture, BaseInv, WorkerInv, Serving, TypeOK
    <3>2. fut[task[w]] = "pending"
      BY <3>1 DEF TaskInv, FutureInv, Placed, Running
    <3> QED BY <2>5, <3>1, <3>2 DEF CloseFuture
  <2>6. CASE Submit(w)
    BY <1>2, <2>6, Constants
  <2> QED BY <1>3, <2>2, <2>3, <2>4, <2>5, <2>6 DEF Worker
<1>4. ASSUME NEW c \in Clients, Submit(c) PROVE Counts /\ Resolves
  BY <1>2, <1>4, Constants
<1>5. ASSUME Stopper \/ UNCHANGED vars PROVE Counts /\ Resolves
  <2>1. stats' = stats /\ fut' = fut
    BY <1>5 DEF Stopper, StopFlag, StopClose, StopReturn, vars
  <2> QED BY <2>1
<1> HIDE DEF Counts, Resolves
<1>6. Counts /\ Resolves
  <2>1. CASE Next
    BY <1>3, <1>4, <1>5, <2>1 DEF Next
  <2>2. CASE UNCHANGED vars
    BY <1>5, <2>2
  <2> QED BY <2>1, <2>2
<1> QED BY <1>6, CountGrows, FutGrows DEF Grows, Counts, Resolves
-----------------------------------------------------------------------------
\* The tasks that are finished are those with a Future that is done or refused, and
\* each of the counters of a moment tells as much.
LEMMA Totals ==
  ASSUME BaseInv, TaskInv, StatsBalance
  PROVE  /\ stats.completed \in Nat /\ stats.submitted \in Nat
         /\ stats.rejectedStandard \in Nat /\ stats.rejectedBackground \in Nat
         /\ IsFiniteSet(Ended("done")) /\ Cardinality(Ended("done")) \in Nat
         /\ IsFiniteSet(Ended("full")) /\ Cardinality(Ended("full")) \in Nat
         /\ IsFiniteSet(Ended("pending")) /\ Cardinality(Ended("pending")) \in Nat
         /\ stats.completed >= Cardinality(Ended("done"))
         /\ stats.rejectedStandard + stats.rejectedBackground = Cardinality(Ended("full"))
         /\ stats.submitted = Cardinality(Ended("done")) + Cardinality(Ended("full"))
                                + Cardinality(Ended("pending"))
<1>1. \A r : Ended(r) = FutIn(r)
  BY DEF Ended, FutIn
<1>2. Balance
  BY BalanceIs
<1> QED BY <1>1, <1>2, CountsType DEF Balance

-----------------------------------------------------------------------------
(* The inductive invariant *)

PoolInv == BaseInv /\ TaskInv /\ StatsBalance

LEMMA ReadingType ==
  ASSUME ReadingInv
  PROVE  /\ load \in Nat /\ DOMAIN reading = Range(Loads)
         /\ reading.submitted \in Nat /\ reading.completed \in Nat
         /\ reading.rejectedStandard \in Nat /\ reading.rejectedBackground \in Nat
BY LoadFacts DEF ReadingInv

\* The tasks that the caller saw finished are among those finished now, and they
\* are counted as what they ended as.
LEMMA SeenCounted ==
  ASSUME PoolInv, seen \subseteq Ended("done") \cup Ended("full")
  PROVE  /\ IsFiniteSet(seen) /\ Cardinality(seen) \in Nat
         /\ Cardinality(seen \cap Ended("done")) \in Nat
         /\ Cardinality(seen \cap Ended("done")) <= Cardinality(Ended("done"))
         /\ Cardinality(seen \cap Ended("full")) \in Nat
         /\ Cardinality(seen \cap Ended("full")) <= Cardinality(Ended("full"))
         /\ Cardinality(seen) = Cardinality(seen \cap Ended("done"))
                                  + Cardinality(seen \cap Ended("full"))
<1>1. IsFiniteSet(Ended("done")) /\ IsFiniteSet(Ended("full"))
  BY Totals DEF PoolInv
<1>2. /\ IsFiniteSet(seen \cap Ended("done"))
      /\ Cardinality(seen \cap Ended("done")) <= Cardinality(Ended("done"))
      /\ IsFiniteSet(seen \cap Ended("full"))
      /\ Cardinality(seen \cap Ended("full")) <= Cardinality(Ended("full"))
  <2>1. /\ seen \cap Ended("done") \in SUBSET Ended("done")
        /\ seen \cap Ended("full") \in SUBSET Ended("full")
    OBVIOUS
  <2> QED BY <1>1, <2>1, FS_Subset
<1>3. /\ seen = (seen \cap Ended("done")) \cup (seen \cap Ended("full"))
      /\ (seen \cap Ended("done")) \cap (seen \cap Ended("full")) = {}
  BY DEF Ended
<1>4. /\ IsFiniteSet(seen)
      /\ Cardinality(seen) = Cardinality(seen \cap Ended("done"))
                               + Cardinality(seen \cap Ended("full"))
  <2> DEFINE d == seen \cap Ended("done")
             f == seen \cap Ended("full")
  <2>1. /\ IsFiniteSet(d \cup f) /\ Cardinality(d \cap f) = 0
        /\ Cardinality(d \cup f) = Cardinality(d) + Cardinality(f) - Cardinality(d \cap f)
    BY <1>2, <1>3, FS_Union, FS_EmptySet
  <2>2. Cardinality(d) \in Nat /\ Cardinality(f) \in Nat
    BY <1>2, FS_CardinalityType
  <2>3. Cardinality(d \cup f) = Cardinality(d) + Cardinality(f)
    BY <2>1, <2>2
  <2> QED BY <1>3, <2>1, <2>3, Zenon
<1> QED BY <1>2, <1>4, FS_CardinalityType

\* Steps of the Scheduler between two loads.
LEMMA NextSnap ==
  ASSUME PoolInv, SnapInv, [Next]_vars, UNCHANGED reader
  PROVE  SnapInv'
<1>1. Grows
  BY NextGrows DEF PoolInv
<1>2. UNCHANGED <<load, reading, seen, backlog>>
  BY DEF reader
<1>3. ReadingInv'
  <2>1. \A i \in DOMAIN Loads : i < load => reading[Loads[i]] <= stats'[Loads[i]]
    <3> SUFFICES ASSUME NEW i \in DOMAIN Loads, i < load
                 PROVE  reading[Loads[i]] <= stats'[Loads[i]]
      OBVIOUS
    <3>1. Loads[i] \in Range(Loads)
      BY DEF Range
    <3>2. /\ reading[Loads[i]] \in Nat /\ reading[Loads[i]] <= stats[Loads[i]]
          /\ stats'[Loads[i]] \in Nat /\ stats'[Loads[i]] >= stats[Loads[i]]
      BY <1>1, <3>1 DEF SnapInv, ReadingInv, Grows
    <3>3. stats[Loads[i]] \in Nat
      BY <3>1, LoadFacts DEF PoolInv, BaseInv, TypeOK
    <3> QED BY <3>2, <3>3
  <2> QED BY <1>2, <2>1 DEF SnapInv, ReadingInv
<1>4. /\ seen \subseteq Ended("done")' \cup Ended("full")'
      /\ seen \cap Ended("done")' = seen \cap Ended("done")
      /\ seen \cap Ended("full")' = seen \cap Ended("full")
  <2>1. seen \subseteq Ended("done") \cup Ended("full")
    BY DEF SnapInv, SeenInv
  <2>2. \A t \in seen : t \in Tasks /\ fut[t] \in {"done", "full"} /\ fut'[t] = fut[t]
    BY <1>1, <2>1 DEF Ended, Grows
  <2> QED BY <2>2 DEF Ended
<1>5. /\ 0 .. stats.completed \subseteq 0 .. stats'.completed
      /\ 0 .. stats.rejectedStandard \subseteq 0 .. stats'.rejectedStandard
      /\ 0 .. stats.rejectedBackground \subseteq 0 .. stats'.rejectedBackground
  <2>1. /\ stats'.completed >= stats.completed /\ stats'.completed \in Nat
        /\ stats'.rejectedStandard >= stats.rejectedStandard /\ stats'.rejectedStandard \in Nat
        /\ stats'.rejectedBackground >= stats.rejectedBackground
        /\ stats'.rejectedBackground \in Nat
    BY <1>1, LoadFacts DEF Grows
  <2>2. /\ stats.completed \in Nat
        /\ stats.rejectedStandard \in Nat /\ stats.rejectedBackground \in Nat
    BY Totals DEF PoolInv
  <2> QED BY <2>1, <2>2
<1>6. SeenInv'
  BY <1>2, <1>4, <1>5 DEF SnapInv, SeenInv
<1> QED BY <1>2, <1>3, <1>6 DEF SnapInv

LEMMA CallSnap ==
  ASSUME PoolInv, SnapInv, Call, UNCHANGED vars
  PROVE  SnapInv'
<1>1. /\ load = 0 /\ load' = 1 /\ reading' = reading /\ backlog' = backlog
      /\ stats' = stats /\ fut' = fut /\ seen' = Ended("done") \cup Ended("full")
  BY DEF Call, vars
<1>2. ReadingInv'
  BY <1>1, LoadFacts DEF SnapInv, ReadingInv
<1>3. SeenInv'
  BY <1>1 DEF SeenInv, Ended
<1> QED BY <1>1, <1>2, <1>3 DEF SnapInv

\* What has been read, what Load reads next, and what it leaves alone.
LEMMA LoadReads ==
  ASSUME PoolInv, SnapInv, Load, UNCHANGED vars
  PROVE  /\ load \in 1 .. 6 /\ load' = load + 1 /\ seen' = seen /\ stats' = stats /\ fut' = fut
         /\ DOMAIN reading' = Range(Loads)
         /\ reading'[Loads[load]] = stats[Loads[load]]
         /\ \A f \in Range(Loads) : f # Loads[load] => reading'[f] = reading[f]
         /\ load # 1 => backlog' = backlog
         /\ load = 1 => backlog' = Cardinality(Ended("pending"))
<1>1. /\ load \in 1 .. 6 /\ load' = load + 1 /\ seen' = seen
      /\ reading' = [reading EXCEPT ![Loads[load]] = stats[Loads[load]]]
      /\ backlog' = IF load = 1 THEN Cardinality(Ended("pending")) ELSE backlog
  BY LoadFacts DEF Load
<1>2. stats' = stats /\ fut' = fut
  BY DEF vars
<1>3. DOMAIN reading = Range(Loads) /\ Loads[load] \in Range(Loads)
  BY <1>1, LoadFacts DEF SnapInv, ReadingInv, Range
<1> QED BY <1>1, <1>2, <1>3

LEMMA LoadReading ==
  ASSUME PoolInv, SnapInv, Load, UNCHANGED vars
  PROVE  ReadingInv'
<1>1. \A f \in Range(Loads) : stats[f] \in Nat /\ reading[f] \in Nat
  BY LoadFacts DEF PoolInv, BaseInv, TypeOK, SnapInv, ReadingInv
<1>2. \A f \in Range(Loads) : reading'[f] \in Nat
  BY <1>1, LoadReads
<1>3. load \in Nat /\ load' = load + 1 /\ load' \in 0 .. 7
  BY LoadReads
<1>4. ASSUME NEW i \in 1 .. 6, i < load' PROVE reading'[Loads[i]] <= stats'[Loads[i]]
  <2>1. Loads[i] \in Range(Loads) /\ stats' = stats
    BY LoadReads, LoadFacts DEF Range
  <2>2. CASE Loads[i] = Loads[load]
    BY <1>1, <2>1, <2>2, LoadReads
  <2>3. CASE Loads[i] # Loads[load]
    <3>1. i < load
      BY <1>3, <1>4, <2>3
    <3>2. reading[Loads[i]] <= stats[Loads[i]]
      BY <3>1, LoadFacts DEF SnapInv, ReadingInv
    <3> QED BY <2>1, <2>3, <3>2, LoadReads
  <2> QED BY <2>2, <2>3
<1> QED BY <1>2, <1>3, <1>4, LoadReads, LoadFacts DEF ReadingInv

LEMMA LoadSeen ==
  ASSUME PoolInv, SnapInv, Load, UNCHANGED vars
  PROVE  SeenInv' /\ backlog' \in Nat
<1>1. /\ Ended("done")' = Ended("done") /\ Ended("full")' = Ended("full")
      /\ seen \subseteq Ended("done") \cup Ended("full")
  BY LoadReads DEF Ended, SnapInv, SeenInv
<1>2. CASE load = 1
  <2>1. /\ reading'.submitted = stats.submitted /\ load' = 2
        /\ backlog' = Cardinality(Ended("pending"))
    BY <1>2, LoadReads, LoadFacts
  <2>2. /\ Cardinality(Ended("done")) \in 0 .. stats.completed
        /\ stats.rejectedStandard \in 0 .. stats.rejectedStandard
        /\ stats.rejectedBackground \in 0 .. stats.rejectedBackground
        /\ backlog' \in Nat
    BY <2>1, Totals DEF PoolInv
  <2>3. reading'.submitted = Cardinality(Ended("done")) + stats.rejectedStandard
                               + stats.rejectedBackground + backlog'
    BY <2>1, Totals DEF PoolInv
  <2>4. /\ Cardinality(Ended("done")) >= Cardinality(seen \cap Ended("done"))
        /\ stats.rejectedStandard + stats.rejectedBackground >= Cardinality(seen \cap Ended("full"))
    BY <1>1, SeenCounted, Totals DEF PoolInv
  <2>5. \E c \in 0 .. stats.completed, s \in 0 .. stats.rejectedStandard,
           b \in 0 .. stats.rejectedBackground :
          /\ reading'.submitted = c + s + b + backlog'
          /\ c >= Cardinality(seen \cap Ended("done"))
          /\ s + b >= Cardinality(seen \cap Ended("full"))
    BY <2>2, <2>3, <2>4, Zenon
  <2>6. seen' = seen /\ stats' = stats /\ load' = 2
    BY <2>1, LoadReads
  <2>7. ~(load' > 2) /\ ~(load' > 5) /\ ~(load' > 6)
    BY <2>6
  <2>8. seen' \subseteq Ended("done")' \cup Ended("full")'
    BY <1>1, <2>6, Zenon
  <2>9. SeenInv'
    BY <1>1, <2>5, <2>6, <2>7, <2>8, Zenon DEF SeenInv
  <2> QED BY <2>2, <2>9
<1>3. CASE load # 1
  <2>1. /\ load \in 2 .. 6 /\ load' = load + 1 /\ backlog' = backlog /\ backlog \in Nat
        /\ reading'.submitted = reading.submitted
        /\ reading'.completed = IF load = 2 THEN stats.completed ELSE reading.completed
        /\ reading'.rejectedStandard
             = IF load = 5 THEN stats.rejectedStandard ELSE reading.rejectedStandard
        /\ reading'.rejectedBackground
             = IF load = 6 THEN stats.rejectedBackground ELSE reading.rejectedBackground
    <3>1. load \in {2, 3, 4, 5, 6}
      BY <1>3, LoadReads
    <3> QED BY <3>1, LoadReads, LoadFacts DEF SnapInv
  <2>2. PICK c \in 0 .. stats.completed, s \in 0 .. stats.rejectedStandard,
             b \in 0 .. stats.rejectedBackground :
          /\ reading.submitted = c + s + b + backlog
          /\ c >= Cardinality(seen \cap Ended("done"))
          /\ s + b >= Cardinality(seen \cap Ended("full"))
          /\ load > 2 => reading.completed >= c
          /\ load > 5 => reading.rejectedStandard >= s
          /\ load > 6 => reading.rejectedBackground >= b
    BY <2>1 DEF SnapInv, SeenInv
  <2>3. /\ load' > 2 => reading'.completed >= c
        /\ load' > 5 => reading'.rejectedStandard >= s
        /\ load' > 6 => reading'.rejectedBackground >= b
    BY <2>1, <2>2, Totals DEF PoolInv
  <2>4. /\ reading'.submitted = c + s + b + backlog'
        /\ c >= Cardinality(seen \cap Ended("done"))
        /\ s + b >= Cardinality(seen \cap Ended("full"))
    BY <2>1, <2>2
  <2> QED BY <1>1, <2>1, <2>2, <2>3, <2>4, LoadReads DEF SeenInv
<1> QED BY <1>2, <1>3

LEMMA InitSnap == StatsInit => SnapInv
<1> SUFFICES ASSUME StatsInit PROVE SnapInv
  OBVIOUS
<1>1. /\ load = 0 /\ seen = {} /\ backlog = 0 /\ DOMAIN reading = Range(Loads)
      /\ \A f \in Range(Loads) : reading[f] = 0
  BY DEF StatsInit
<1> QED BY <1>1, LoadFacts DEF SnapInv, ReadingInv, SeenInv

\* The Scheduler is not disturbed by who reads its counters.
LEMMA PoolInvHolds == StatsSpec => [](PoolInv /\ SnapInv)
<1>1. StatsInit => Init /\ SnapInv
  BY InitSnap DEF StatsInit
<1>2. [StatsNext]_<<vars, reader>> => [Next]_vars
  BY DEF StatsNext
<1>3. PoolInv <=> BaseInv /\ TaskInv /\ Balance
  BY BalanceIs DEF PoolInv
<1>4. BaseInv /\ TaskInv /\ Balance /\ [Next]_vars => (BaseInv /\ TaskInv /\ Balance)'
  BY NextBaseInv, NextTaskInv, NextBalance
<1>5. Init => BaseInv /\ TaskInv /\ Balance
  BY InitBaseInv, InitTaskInv, InitBalance
<1>6. PoolInv /\ SnapInv /\ [StatsNext]_<<vars, reader>> => SnapInv'
  <2> SUFFICES ASSUME PoolInv, SnapInv, [StatsNext]_<<vars, reader>> PROVE SnapInv'
    OBVIOUS
  <2>1. CASE UNCHANGED reader /\ [Next]_vars
    BY <2>1, NextSnap
  <2>2. CASE Call /\ UNCHANGED vars
    BY <2>2, CallSnap
  <2>3. CASE Load /\ UNCHANGED vars
    BY <2>3, LoadReading, LoadSeen DEF SnapInv
  <2> QED BY <2>1, <2>2, <2>3 DEF StatsNext
<1> QED BY <1>1, <1>2, <1>3, <1>4, <1>5, <1>6, PTL DEF StatsSpec

\* What a caller has seen finished before it calls Stats is in what Stats returns,
\* counted as what it ended as, although the counters are loaded one by one while
\* the Scheduler goes on (scheduler.go:221-226, 303-313).
THEOREM CountsWhatWasSeenHolds == StatsSpec => []CountsWhatWasSeen
<1>1. PoolInv /\ SnapInv => CountsWhatWasSeen
  <2> SUFFICES ASSUME PoolInv, SnapInv, load > 6
               PROVE  /\ reading.completed >= Cardinality(seen \cap Ended("done"))
                      /\ Refused >= Cardinality(seen \cap Ended("full"))
                      /\ reading.submitted >= Cardinality(seen)
    BY LoadFacts DEF CountsWhatWasSeen, Returned
  <2>4. load > 1 /\ load > 2 /\ load > 5
    BY ReadingType DEF SnapInv
  <2>1. PICK c \in 0 .. stats.completed, s \in 0 .. stats.rejectedStandard,
             b \in 0 .. stats.rejectedBackground :
          /\ reading.submitted = c + s + b + backlog
          /\ c >= Cardinality(seen \cap Ended("done"))
          /\ s + b >= Cardinality(seen \cap Ended("full"))
          /\ reading.completed >= c
          /\ reading.rejectedStandard >= s
          /\ reading.rejectedBackground >= b
    BY <2>4 DEF SnapInv, SeenInv
  <2>2. c \in Nat /\ s \in Nat /\ b \in Nat /\ backlog \in Nat
    BY Totals DEF PoolInv, SnapInv
  <2>3. seen \subseteq Ended("done") \cup Ended("full")
    BY DEF SnapInv, SeenInv
  <2> QED BY <2>1, <2>2, <2>3, SeenCounted, ReadingType DEF SnapInv, Refused
<1> QED BY PoolInvHolds, <1>1, PTL

\* Submitted minus the rest of a reading never overstates what was unfinished when the
\* call began; and what is unfinished once it has returned exceeds that figure by no
\* more than has been submitted since Submitted was loaded.
THEOREM BacklogNotOverstatedHolds == StatsSpec => []BacklogNotOverstated
<1>1. PoolInv /\ SnapInv => BacklogNotOverstated
  <2> SUFFICES ASSUME PoolInv, SnapInv, load > 6
               PROVE  /\ reading.submitted - reading.completed - Refused <= backlog
                      /\ Cardinality(FutIn("pending")) - Cardinality(Closing)
                           <= reading.submitted - reading.completed - Refused
                                + (stats.submitted - reading.submitted)
    BY LoadFacts DEF BacklogNotOverstated, Returned, Ended, FutIn, Closing
  <2>1. PICK c \in 0 .. stats.completed, s \in 0 .. stats.rejectedStandard,
             b \in 0 .. stats.rejectedBackground :
          /\ reading.submitted = c + s + b + backlog
          /\ reading.completed >= c
          /\ reading.rejectedStandard >= s
          /\ reading.rejectedBackground >= b
    BY ReadingType DEF SnapInv, SeenInv
  <2>2. c \in Nat /\ s \in Nat /\ b \in Nat /\ backlog \in Nat
    BY Totals DEF PoolInv, SnapInv
  <2>3. /\ reading.submitted \in Nat /\ reading.completed \in Nat
        /\ reading.rejectedStandard \in Nat /\ reading.rejectedBackground \in Nat
        /\ load \in Nat
    BY ReadingType DEF SnapInv
  <2>4. reading.submitted - reading.completed - Refused <= backlog
    BY <2>1, <2>2, <2>3 DEF Refused
  <2>5. /\ reading.completed <= stats.completed
        /\ reading.rejectedStandard <= stats.rejectedStandard
        /\ reading.rejectedBackground <= stats.rejectedBackground
    <3>1. \A i \in 1 .. 6 : reading[Loads[i]] <= stats[Loads[i]]
      BY <2>3, LoadFacts DEF SnapInv, ReadingInv
    <3> QED BY <3>1, LoadFacts
  <2>6. /\ stats.submitted
             = stats.completed + stats.rejectedStandard + stats.rejectedBackground
                 + Cardinality(FutIn("pending")) - Cardinality(Closing)
        /\ Cardinality(FutIn("pending")) \in Nat /\ Cardinality(Closing) \in Nat
    BY BalanceIs, CountsType, Totals DEF PoolInv, Balance
  <2> QED BY <2>3, <2>4, <2>5, <2>6, Totals DEF PoolInv, Refused
<1> QED BY PoolInvHolds, <1>1, PTL
=============================================================================
