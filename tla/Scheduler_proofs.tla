-------------------------- MODULE Scheduler_proofs --------------------------
(***************************************************************************)
(* Proofs about Scheduler for any number of workers, caps of the queues,    *)
(* clients and tasks, whatever the tasks submit and wait for.  The actions  *)
(* fall into few groups by what they do to the tasks (the lemmas named      *)
(* ...Step); each group's lemma says what an action of it must not disturb. *)
(* In this order: types and what Stop abandons; each task is held by one    *)
(* holder at a time; the counters balance; no wake-up is lost; a Scheduler  *)
(* is a Pool.                                                               *)
(***************************************************************************)
EXTENDS Scheduler, SequenceTheorems, FiniteSetTheorems, TLAPS

\* Parts of TypeOK.
QueuesOK ==
  /\ standard \in Seq(Tasks) /\ (MaxStandard > 0 => Len(standard) <= MaxStandard)
  /\ background \in Seq(Tasks) /\ (MaxBackground > 0 => Len(background) <= MaxBackground)
  /\ dq \in [Workers -> Seq(Tasks)] /\ \A w \in Workers : Len(dq[w]) <= LocalCap

StatsOK ==
  /\ DOMAIN stats = {"submitted", "completed", "stolen", "aged", "rejectedStandard",
                     "rejectedBackground"}
  /\ \A f \in DOMAIN stats : stats[f] \in Nat

AgentsOK ==
  /\ wake \in 0 .. NumWorkers /\ stop \in {"running", "flagged", "closed", "returned"}
  /\ pc \in [Agents -> PCs] /\ todo \in [Agents -> Seq(Tasks)]
  /\ task \in [Workers -> Tasks \cup {None}]
  /\ fut \in [Tasks -> {"none", "pending", "done", "stopped", "full"}]
  /\ runs \in [Tasks -> Nat]

StealingOK ==
  /\ victims \in [Workers -> Seq(Workers)]
  /\ pass \in [Workers -> 0 .. IdleSteals]
  /\ aim \in [Workers -> Tasks \cup {None}]

\* The head of a sequence and what is behind it.
LEMMA TailFacts ==
  ASSUME NEW S, NEW s \in Seq(S), s # <<>>
  PROVE  /\ Head(s) \in S /\ Head(s) \in Range(s)
         /\ Tail(s) \in Seq(S) /\ Len(Tail(s)) = Len(s) - 1
         /\ \A x \in Range(s) : x = Head(s) \/ x \in Range(Tail(s))
<1>1. Len(s) \in Nat \ {0} /\ DOMAIN s = 1 .. Len(s) /\ Head(s) = s[1]
  BY EmptySeq
<1>2. Tail(s) \in Seq(S) /\ Len(Tail(s)) = Len(s) - 1
  BY HeadTailProperties
<1>3. \A i \in 1 .. Len(s) - 1 : Tail(s)[i] = s[i + 1]
  BY HeadTailProperties
<1>4. ASSUME NEW i \in 1 .. Len(s), i # 1 PROVE s[i] \in Range(Tail(s))
  <2>1. i - 1 \in 1 .. Len(s) - 1 /\ s[i] = Tail(s)[i - 1]
    BY <1>1, <1>3, <1>4
  <2>2. DOMAIN Tail(s) = 1 .. Len(s) - 1
    BY <1>2
  <2> QED BY <2>1, <2>2 DEF Range
<1> QED BY <1>1, <1>2, <1>4 DEF Range

\* An index before the last is an index of the rest.
LEMMA BeforeLast ==
  \A n \in Nat : \A i \in 1 .. n : i # n => i \in 1 .. n - 1
OBVIOUS

\* The last element and what is before it.
LEMMA FrontFacts ==
  ASSUME NEW S, NEW s \in Seq(S), s # <<>>
  PROVE  /\ Last(s) \in S
         /\ Front(s) \in Seq(S) /\ Len(Front(s)) = Len(s) - 1
         /\ \A x \in Range(s) : x = Last(s) \/ x \in Range(Front(s))
<1>1. Len(s) \in Nat \ {0} /\ DOMAIN s = 1 .. Len(s)
  BY EmptySeq
<1>2. Front(s) \in Seq(S) /\ Len(Front(s)) = Len(s) - 1
  BY <1>1, SubSeqProperties DEF Front
<1>3. \A i \in 1 .. Len(s) - 1 : Front(s)[i] = s[i]
  BY <1>1, SubSeqProperties DEF Front
<1>4. ASSUME NEW i \in 1 .. Len(s), i # Len(s) PROVE s[i] \in Range(Front(s))
  <2>1. i \in 1 .. Len(s) - 1
    BY <1>1, <1>4, BeforeLast
  <2>2. s[i] = Front(s)[i]
    BY <2>1, <1>3
  <2>3. DOMAIN Front(s) = 1 .. Len(s) - 1
    BY <1>2
  <2> QED BY <2>1, <2>2, <2>3 DEF Range
<1>5. Last(s) = s[Len(s)] /\ Last(s) \in S
  BY <1>1 DEF Last
<1>6. \A x \in Range(s) : x = Last(s) \/ x \in Range(Front(s))
  BY <1>1, <1>4, <1>5 DEF Range
<1> QED BY <1>2, <1>5, <1>6

\* One more element at the end.
LEMMA AppendFacts ==
  ASSUME NEW S, NEW s \in Seq(S), NEW x \in S
  PROVE  /\ Append(s, x) \in Seq(S) /\ Len(Append(s, x)) = Len(s) + 1
         /\ x \in Range(Append(s, x))
         /\ \A y \in Range(s) : y \in Range(Append(s, x))
<1>1. DOMAIN s = 1 .. Len(s) /\ Len(s) \in Nat
  OBVIOUS
<1>2. /\ Append(s, x) \in Seq(S) /\ Len(Append(s, x)) = Len(s) + 1
      /\ Append(s, x)[Len(s) + 1] = x
      /\ \A i \in 1 .. Len(s) : Append(s, x)[i] = s[i]
  OBVIOUS
<1>3. DOMAIN Append(s, x) = 1 .. Len(s) + 1
  BY <1>2
<1> QED BY <1>1, <1>2, <1>3 DEF Range

\* The agents are disjoint, and all peers are workers.
LEMMA Constants ==
  /\ NumWorkers \in Nat \ {0} /\ LocalCap \in Nat \ {0} /\ IdleSteals \in Nat
  /\ MaxStandard \in Nat /\ MaxBackground \in Nat
  /\ Workers \subseteq Agents /\ Clients \subseteq Agents
  /\ Workers \cap Clients = {} /\ None \notin Tasks
  /\ Program \in [Clients -> Seq(Tasks)] /\ Kids \in [Tasks -> Seq(Tasks)]
BY SchedulerAssumption DEF Agents

\* steal's order of peers is a sequence of workers, from any start.
LEMMA PeersType ==
  ASSUME NEW w \in Workers, NEW start \in Workers
  PROVE  Peers(w, start) \in Seq(Workers)
<1>1. \A i \in Int : i % NumWorkers \in Workers
  BY SchedulerAssumption DEF Workers
<1>2. NumWorkers - 1 \in Nat /\ w \in Int /\ start \in Int
  BY SchedulerAssumption DEF Workers
<1> QED BY <1>1, <1>2 DEF Peers
-----------------------------------------------------------------------------
\* The invariant holds at first: every worker starts its search, every client its program.
LEMMA InitBaseInv == Init => BaseInv
<1> SUFFICES ASSUME Init PROVE BaseInv
  OBVIOUS
<1>1. <<>> \in Seq(Tasks) /\ <<>> \in Seq(Workers) /\ Len(<<>>) = 0
  OBVIOUS
<1>2. TypeOK
  BY <1>1, Constants DEF Init, TypeOK, Workers, PCs, Agents
<1> QED BY <1>1, <1>2, Constants DEF Init, BaseInv, AgentInv, WorkerInv, StopInv, NoneDropped,
                                    BeyondLocal, Serving, PCs

\* A worker that serves no task goes on with its search, or ends it.
LEMMA MoveStep ==
  ASSUME BaseInv, NEW w \in Workers, NEW to \in BeyondLocal \cup {"local"},
         pc[w] \notin Serving \cup {"exited"}, Goto(w, to),
         to \in BeyondLocal => dq[w] = <<>>,
         to = "cas" => victims'[w] # <<>>,
         \A v \in Workers \ {w} : victims'[v] = victims[v],
         StealingOK', wake' \in 0 .. NumWorkers,
         UNCHANGED <<queues, stop, todo, task, fut, runs, stats>>
  PROVE  BaseInv'
<1>1. /\ TypeOK /\ AgentInv /\ WorkerInv /\ StopInv /\ NoneDropped
      /\ UNCHANGED <<standard, background, dq, stop, todo, task, fut, runs, stats>>
      /\ pc' = [pc EXCEPT ![w] = to] /\ pc \in [Agents -> PCs] /\ w \in Agents
      /\ w \notin Clients
  BY Constants DEF BaseInv, TypeOK, queues, Goto
<1>2. to \in PCs \ Serving /\ to \notin {"push", "shared"} /\ pc[w] \notin {"push", "shared"}
  BY DEF BeyondLocal, PCs, Serving
<1>3. /\ pc' \in [Agents -> PCs] /\ pc'[w] = to
      /\ \A a \in Agents : a # w => pc'[a] = pc[a]
  BY <1>1, <1>2
<1>4. TypeOK'
  BY <1>1, <1>3 DEF TypeOK, StealingOK
<1>5. AgentInv'
  BY <1>1, <1>2, <1>3, Constants DEF AgentInv
<1>6. WorkerInv'
  <2> SUFFICES ASSUME NEW v \in Workers
               PROVE  /\ task'[v] # None <=> pc'[v] \in Serving
                      /\ pc'[v] \in BeyondLocal => dq'[v] = <<>>
                      /\ pc'[v] = "cas" => victims'[v] # <<>>
    BY DEF WorkerInv
  <2>1. CASE v = w
    BY <1>1, <1>2, <1>3, <2>1 DEF WorkerInv
  <2>2. CASE v # w
    BY <1>1, <1>3, <2>2, Constants DEF WorkerInv
  <2> QED BY <2>1, <2>2
<1>7. StopInv'
  BY <1>1 DEF StopInv
<1>8. NoneDropped'
  <2> SUFFICES ASSUME NEW t \in Tasks, fut'[t] = "pending" PROVE Placed(t)'
    BY DEF NoneDropped
  <2>1. Placed(t)
    BY <1>1 DEF NoneDropped
  <2>2. BeingSubmitted(t) => BeingSubmitted(t)'
    BY <1>1, <1>2, <1>3 DEF BeingSubmitted
  <2>3. (Waiting(t) => Waiting(t)') /\ (Running(t) => Running(t)')
    BY <1>1 DEF Waiting, InShared, Running
  <2> QED BY <2>1, <2>2, <2>3 DEF Placed
<1> QED BY <1>4, <1>5, <1>6, <1>7, <1>8 DEF BaseInv

\* A worker takes t from one of the queues and calls its fn.
LEMMA BeginStep ==
  ASSUME BaseInv, NEW w \in Workers, NEW t \in Tasks, Begin(w, t),
         pc[w] \notin Serving \cup {"exited"},
         QueuesOK', StatsOK',
         \A x \in Range(standard) : x = t \/ x \in Range(standard'),
         \A x \in Range(background) : x = t \/ x \in Range(background'),
         \A v \in Workers : \A x \in Range(dq[v]) : x = t \/ x \in Range(dq'[v]),
         \A v \in Workers : dq[v] = <<>> => dq'[v] = <<>>
  PROVE  BaseInv'
<1>1. /\ TypeOK /\ AgentInv /\ WorkerInv /\ StopInv /\ NoneDropped
      /\ UNCHANGED <<wake, stop, fut>>
      /\ w \in Agents /\ w \notin Clients /\ t # None
  BY Constants DEF BaseInv, Begin
<1>2. /\ pc' = [pc EXCEPT ![w] = "body"] /\ pc \in [Agents -> PCs]
      /\ task' = [task EXCEPT ![w] = t] /\ task \in [Workers -> Tasks \cup {None}]
      /\ todo' = [todo EXCEPT ![w] = Kids[t]] /\ todo \in [Agents -> Seq(Tasks)]
      /\ runs' = [runs EXCEPT ![t] = @ + 1] /\ runs \in [Tasks -> Nat]
      /\ victims' = [victims EXCEPT ![w] = <<>>] /\ victims \in [Workers -> Seq(Workers)]
      /\ pass' = [pass EXCEPT ![w] = 0] /\ pass \in [Workers -> 0 .. IdleSteals]
      /\ aim' = [aim EXCEPT ![w] = None] /\ aim \in [Workers -> Tasks \cup {None}]
  BY <1>1 DEF Begin, Goto, TypeOK
<1>3. /\ pc' \in [Agents -> PCs] /\ pc'[w] = "body"
      /\ \A a \in Agents : a # w => pc'[a] = pc[a] /\ todo'[a] = todo[a]
      /\ \A v \in Workers : v # w => task'[v] = task[v] /\ victims'[v] = victims[v]
      /\ task'[w] = t
  BY <1>1, <1>2 DEF PCs
<1>4. TypeOK'
  <2>1. Kids[t] \in Seq(Tasks) /\ <<>> \in Seq(Workers) /\ 0 \in 0 .. IdleSteals
    BY Constants
  <2>2. todo' \in [Agents -> Seq(Tasks)] /\ task' \in [Workers -> Tasks \cup {None}]
    BY <1>1, <1>2, <2>1
  <2>3. StealingOK'
    BY <1>2, <2>1 DEF StealingOK
  <2>4. runs' \in [Tasks -> Nat]
    BY <1>2
  <2>5. /\ wake' \in 0 .. NumWorkers /\ stop' \in {"running", "flagged", "closed", "returned"}
        /\ fut' \in [Tasks -> {"none", "pending", "done", "stopped", "full"}]
    BY <1>1 DEF TypeOK
  <2> QED BY <1>3, <2>2, <2>3, <2>4, <2>5 DEF TypeOK, StealingOK, QueuesOK, StatsOK
<1>5. AgentInv'
  <2>1. \A c \in Clients : c \in Agents /\ c # w
    BY <1>1, Constants
  <2> QED BY <1>1, <1>3, <2>1 DEF AgentInv
<1>6. WorkerInv'
  <2> SUFFICES ASSUME NEW v \in Workers
               PROVE  /\ task'[v] # None <=> pc'[v] \in Serving
                      /\ pc'[v] \in BeyondLocal => dq'[v] = <<>>
                      /\ pc'[v] = "cas" => victims'[v] # <<>>
    BY DEF WorkerInv
  <2>1. CASE v = w
    BY <1>1, <1>3, <2>1 DEF Serving, BeyondLocal
  <2>2. CASE v # w
    BY <1>1, <1>3, <2>2, Constants DEF WorkerInv
  <2> QED BY <2>1, <2>2
<1>7. StopInv'
  BY <1>1 DEF StopInv
<1>8. NoneDropped'
  <2> SUFFICES ASSUME NEW x \in Tasks, fut'[x] = "pending" PROVE Placed(x)'
    BY DEF NoneDropped
  <2>1. Placed(x)
    BY <1>1 DEF NoneDropped
  <2>2. CASE x = t
    BY <1>3, <2>2 DEF Placed, Running
  <2>3. CASE x # t
    <3>1. BeingSubmitted(x) => BeingSubmitted(x)'
      BY <1>3 DEF BeingSubmitted, Serving
    <3>2. Waiting(x) => Waiting(x)'
      BY <2>3 DEF Waiting, InShared
    <3>3. task[w] = None
      BY <1>1 DEF WorkerInv
    <3>4. Running(x) => Running(x)'
      BY <1>1, <1>3, <3>3, Constants DEF Running
    <3> QED BY <2>1, <3>1, <3>2, <3>4 DEF Placed
  <2> QED BY <2>2, <2>3
<1> QED BY <1>4, <1>5, <1>6, <1>7, <1>8 DEF BaseInv

\* A step moves one counter at most.
LEMMA StatsKept ==
  ASSUME StatsOK, NEW f \in DOMAIN stats, stats' = stats \/ stats' = [stats EXCEPT ![f] = @ + 1]
  PROVE  StatsOK'
<1>1. CASE stats' = stats
  BY <1>1 DEF StatsOK
<1>2. CASE stats' = [stats EXCEPT ![f] = @ + 1]
  <2>1. DOMAIN stats' = DOMAIN stats
    BY <1>2
  <2>2. \A g \in DOMAIN stats : stats'[g] = stats[g] \/ stats'[g] = stats[g] + 1
    BY <1>2
  <2> QED BY <2>1, <2>2 DEF StatsOK
<1> QED BY <1>1, <1>2

\* The background queue's oldest task, aged or not.
LEMMA PopBackgroundStep ==
  ASSUME BaseInv, NEW w \in Workers, pc[w] \in {"aged", "background"},
         background # <<>>, Begin(w, Head(background)), background' = Tail(background),
         stats' = stats \/ stats' = [stats EXCEPT !["aged"] = @ + 1],
         UNCHANGED <<standard, dq>>
  PROVE  BaseInv'
<1>1. QueuesOK /\ StatsOK /\ background \in Seq(Tasks)
  BY DEF BaseInv, TypeOK, QueuesOK, StatsOK
<1>2. /\ Head(background) \in Tasks /\ Tail(background) \in Seq(Tasks)
      /\ Len(Tail(background)) = Len(background) - 1
      /\ \A x \in Range(background) : x = Head(background) \/ x \in Range(Tail(background))
  BY <1>1, TailFacts
<1>3. Len(background) \in Nat /\ MaxBackground \in Nat
  BY <1>1, Constants
<1>4. MaxBackground > 0 => Len(background') <= MaxBackground
  BY <1>1, <1>2, <1>3 DEF QueuesOK
<1>5. QueuesOK'
  BY <1>1, <1>2, <1>4 DEF QueuesOK
<1>6. StatsOK'
  <2>1. "aged" \in DOMAIN stats
    BY <1>1 DEF StatsOK
  <2> QED BY <1>1, <2>1, StatsKept
<1>7. pc[w] \notin Serving \cup {"exited"}
  BY DEF Serving
<1> QED BY <1>2, <1>5, <1>6, <1>7, BeginStep

\* findTask: every step of the search, found or not.
LEMMA FindStep ==
  ASSUME BaseInv, NEW w \in Workers, Find(w)
  PROVE  BaseInv'
<1>1. TypeOK /\ WorkerInv
  BY DEF BaseInv
<1>2. QueuesOK /\ StatsOK /\ StealingOK /\ wake \in 0 .. NumWorkers
  BY <1>1 DEF TypeOK, QueuesOK, StatsOK, StealingOK
<1>3. ASSUME NEW from \in BeyondLocal \cup {"local"}, NEW to \in BeyondLocal \cup {"local"},
             Search(w, from, to), from # "exited",
             to \in BeyondLocal => dq[w] = <<>>, to # "cas"
      PROVE  BaseInv'
  <2>1. StealingOK' /\ \A v \in Workers : victims'[v] = victims[v]
    BY <1>2, <1>3 DEF Search, stealing, StealingOK
  <2>2. pc[w] \notin Serving \cup {"exited"}
    BY <1>3 DEF Search, BeyondLocal, PCs, Serving
  <2> QED BY <1>2, <1>3, <2>1, <2>2, MoveStep DEF Search
<1>4. ASSUME NEW l \in PCs \ (Serving \cup {"local"}), pc[w] = l
      PROVE  dq[w] = <<>>
  BY <1>1, <1>4 DEF WorkerInv, BeyondLocal
<1>5. CASE PopLocal(w)
  <2>1. dq[w] \in Seq(Tasks) /\ dq[w] # <<>> /\ pc[w] = "local"
        /\ Begin(w, Last(dq[w])) /\ dq' = [dq EXCEPT ![w] = Front(dq[w])]
        /\ UNCHANGED <<standard, background, stats>>
    BY <1>2, <1>5 DEF PopLocal, QueuesOK
  <2>2. /\ Last(dq[w]) \in Tasks /\ Front(dq[w]) \in Seq(Tasks)
        /\ Len(Front(dq[w])) = Len(dq[w]) - 1
        /\ \A x \in Range(dq[w]) : x = Last(dq[w]) \/ x \in Range(Front(dq[w]))
    BY <2>1, FrontFacts
  <2>3. /\ dq'[w] = Front(dq[w]) /\ \A v \in Workers : v # w => dq'[v] = dq[v]
        /\ dq' \in [Workers -> Seq(Tasks)]
    BY <1>2, <2>1, <2>2 DEF QueuesOK
  <2>4. QueuesOK'
    <3>1. Len(dq[w]) \in Nat /\ Len(dq[w]) <= LocalCap /\ LocalCap \in Nat
      BY <1>2, <2>1, Constants DEF QueuesOK
    <3>2. Len(dq'[w]) <= LocalCap
      BY <2>2, <2>3, <3>1
    <3> QED BY <1>2, <2>1, <2>3, <3>2 DEF QueuesOK
  <2>5. StatsOK'
    BY <1>2, <2>1 DEF StatsOK
  <2>6. \A v \in Workers : \A x \in Range(dq[v]) : x = Last(dq[w]) \/ x \in Range(dq'[v])
    BY <2>2, <2>3
  <2>7. \A v \in Workers : dq[v] = <<>> => dq'[v] = <<>>
    BY <2>1, <2>3
  <2>8. pc[w] \notin Serving \cup {"exited"}
    BY <2>1 DEF Serving
  <2> QED BY <2>1, <2>2, <2>4, <2>5, <2>6, <2>7, <2>8, BeginStep
<1>6. CASE LocalEmpty(w)
  BY <1>3, <1>6 DEF LocalEmpty, BeyondLocal, PCs, Serving
<1>7. CASE PopAged(w)
  <2>1. background \in Seq(Tasks) /\ background # <<>> /\ pc[w] = "aged"
        /\ Begin(w, Head(background)) /\ background' = Tail(background)
        /\ stats' = [stats EXCEPT !["aged"] = @ + 1] /\ UNCHANGED <<standard, dq>>
    BY <1>2, <1>7 DEF PopAged, QueuesOK, Count
  <2> QED BY <1>2, <2>1, PopBackgroundStep
<1>8. CASE NotAged(w)
  <2>1. pc[w] = "aged"
    BY <1>8 DEF NotAged, Search
  <2> QED BY <1>3, <1>4, <1>8, <2>1 DEF NotAged, BeyondLocal, PCs, Serving
<1>9. CASE PopStandard(w)
  <2>1. standard \in Seq(Tasks) /\ standard # <<>> /\ pc[w] = "standard"
        /\ Begin(w, Head(standard)) /\ standard' = Tail(standard)
        /\ UNCHANGED <<background, dq, stats>>
    BY <1>2, <1>9 DEF PopStandard, QueuesOK
  <2>2. /\ Head(standard) \in Tasks /\ Tail(standard) \in Seq(Tasks)
        /\ Len(Tail(standard)) = Len(standard) - 1
        /\ \A x \in Range(standard) : x = Head(standard) \/ x \in Range(Tail(standard))
    BY <2>1, TailFacts
  <2>3. QueuesOK'
    <3>1. Len(standard) \in Nat /\ MaxStandard \in Nat
      BY <2>1, Constants
    <3>2. MaxStandard > 0 => Len(standard') <= MaxStandard
      BY <1>2, <2>1, <2>2, <3>1 DEF QueuesOK
    <3> QED BY <1>2, <2>1, <2>2, <3>2 DEF QueuesOK
  <2>4. StatsOK' /\ pc[w] \notin Serving \cup {"exited"}
    BY <1>2, <2>1 DEF StatsOK, Serving
  <2> QED BY <2>1, <2>2, <2>3, <2>4, BeginStep
<1>10. CASE StandardEmpty(w)
  <2>1. pc[w] = "standard"
    BY <1>10 DEF StandardEmpty, Search
  <2> QED BY <1>3, <1>4, <1>10, <2>1 DEF StandardEmpty, BeyondLocal, PCs, Serving
<1>11. CASE PopBackground(w)
  <2>1. background \in Seq(Tasks) /\ background # <<>> /\ pc[w] = "background"
        /\ Begin(w, Head(background)) /\ background' = Tail(background)
        /\ UNCHANGED <<standard, dq, stats>>
    BY <1>2, <1>11 DEF PopBackground, QueuesOK
  <2> QED BY <1>2, <2>1, PopBackgroundStep
<1>12. CASE BackgroundEmpty(w)
  <2>1. pc[w] = "background"
    BY <1>12 DEF BackgroundEmpty, Search
  <2> QED BY <1>3, <1>4, <1>12, <2>1 DEF BackgroundEmpty, BeyondLocal, PCs, Serving
<1>13. CASE BeginPass(w)
  <2>1. /\ pc[w] = "pass" /\ pass[w] < IdleSteals /\ pass' = [pass EXCEPT ![w] = @ + 1]
        /\ Goto(w, "steal")
        /\ UNCHANGED <<queues, wake, stop, todo, task, aim, fut, runs, stats>>
    BY <1>13 DEF BeginPass
  <2>2. PICK start \in Workers : victims' = [victims EXCEPT ![w] = Peers(w, start)]
    BY <1>13 DEF BeginPass
  <2>3. Peers(w, start) \in Seq(Workers) /\ pass[w] + 1 \in 0 .. IdleSteals
    BY <1>2, <2>1, PeersType, Constants DEF StealingOK
  <2>4. StealingOK' /\ \A v \in Workers \ {w} : victims'[v] = victims[v]
    BY <1>2, <2>1, <2>2, <2>3 DEF StealingOK
  <2> QED BY <1>2, <1>4, <2>1, <2>4, MoveStep DEF BeyondLocal, PCs, Serving
<1>14. CASE EndPass(w)
  <2>1. pc[w] = "steal"
    BY <1>14 DEF EndPass, Search
  <2> QED BY <1>3, <1>4, <1>14, <2>1 DEF EndPass, BeyondLocal, PCs, Serving
<1>15. CASE GiveUp(w)
  <2>1. /\ pc[w] = "pass" /\ pass' = [pass EXCEPT ![w] = 0] /\ Goto(w, "select")
        /\ UNCHANGED <<queues, wake, stop, todo, task, victims, aim, fut, runs, stats>>
    BY <1>15 DEF GiveUp
  <2>2. StealingOK' /\ \A v \in Workers \ {w} : victims'[v] = victims[v]
    BY <1>2, <2>1, Constants DEF StealingOK
  <2> QED BY <1>2, <1>4, <2>1, <2>2, MoveStep DEF BeyondLocal, PCs, Serving
<1>16. ASSUME pc[w] \in {"steal", "cas"}, victims[w] # <<>>
       PROVE  /\ victims[w] \in Seq(Workers) /\ Head(victims[w]) \in Workers
              /\ Tail(victims[w]) \in Seq(Workers)
  BY <1>2, <1>16, TailFacts DEF StealingOK
<1>17. CASE StealMiss(w)
  <2>1. /\ pc[w] = "steal" /\ victims[w] # <<>>
        /\ victims' = [victims EXCEPT ![w] = Tail(victims[w])]
        /\ UNCHANGED <<queues, wake, stop, pc, todo, task, pass, aim, fut, runs, stats>>
    BY <1>17 DEF StealMiss
  <2>2. StealingOK' /\ \A v \in Workers \ {w} : victims'[v] = victims[v]
    BY <1>2, <1>16, <2>1 DEF StealingOK
  <2>3. Goto(w, "steal")
    BY <1>1, <2>1 DEF Goto, TypeOK
  <2> QED BY <1>2, <1>4, <2>1, <2>2, <2>3, MoveStep DEF BeyondLocal, PCs, Serving
<1>18. CASE StealAim(w)
  <2>1. /\ pc[w] = "steal" /\ victims[w] # <<>> /\ dq[Head(victims[w])] # <<>>
        /\ aim' = [aim EXCEPT ![w] = Head(dq[Head(victims[w])])] /\ Goto(w, "cas")
        /\ UNCHANGED <<queues, wake, stop, todo, task, victims, pass, fut, runs, stats>>
    BY <1>18 DEF StealAim
  <2>2. Head(victims[w]) \in Workers
    BY <1>16, <2>1
  <2>3. Head(dq[Head(victims[w])]) \in Tasks
    BY <1>2, <2>1, <2>2, TailFacts DEF QueuesOK
  <2>4. StealingOK' /\ \A v \in Workers : victims'[v] = victims[v]
    BY <1>2, <2>1, <2>3 DEF StealingOK
  <2> QED BY <1>2, <1>4, <2>1, <2>4, MoveStep DEF BeyondLocal, PCs, Serving
<1>19. CASE StealWin(w)
  <2> DEFINE v == Head(victims[w])
  <2>1. /\ pc[w] = "cas" /\ dq[v] # <<>> /\ Head(dq[v]) = aim[w] /\ Begin(w, aim[w])
        /\ dq' = [dq EXCEPT ![v] = Tail(dq[v])]
        /\ stats' = [stats EXCEPT !["stolen"] = @ + 1]
        /\ UNCHANGED <<standard, background>>
    BY <1>19 DEF StealWin, Stealable, Count
  <2>2. v \in Workers
    BY <1>1, <1>16, <2>1 DEF WorkerInv
  <2> HIDE DEF v
  <2>3. dq[v] \in Seq(Tasks) /\ Len(dq[v]) \in Nat /\ Len(dq[v]) <= LocalCap /\ LocalCap \in Nat
    BY <1>2, <2>2, Constants DEF QueuesOK
  <2>4. /\ aim[w] \in Tasks /\ Tail(dq[v]) \in Seq(Tasks)
        /\ Len(Tail(dq[v])) = Len(dq[v]) - 1
        /\ \A x \in Range(dq[v]) : x = aim[w] \/ x \in Range(Tail(dq[v]))
    BY <2>1, <2>3, TailFacts
  <2>5. /\ dq'[v] = Tail(dq[v]) /\ \A u \in Workers : u # v => dq'[u] = dq[u]
        /\ dq' \in [Workers -> Seq(Tasks)]
    BY <1>2, <2>1, <2>2, <2>4 DEF QueuesOK
  <2>6. Len(dq'[v]) <= LocalCap
    BY <2>3, <2>4, <2>5
  <2>7. QueuesOK'
    BY <1>2, <2>1, <2>5, <2>6 DEF QueuesOK
  <2>8. StatsOK'
    BY <1>2, <2>1 DEF StatsOK
  <2>9. pc[w] \notin Serving \cup {"exited"}
    BY <2>1 DEF Serving
  <2>10. /\ \A u \in Workers : \A x \in Range(dq[u]) : x = aim[w] \/ x \in Range(dq'[u])
         /\ \A u \in Workers : dq[u] = <<>> => dq'[u] = <<>>
    BY <2>1, <2>4, <2>5
  <2> QED BY <2>1, <2>4, <2>7, <2>8, <2>9, <2>10, BeginStep
<1>20. CASE StealLose(w)
  <2>1. /\ pc[w] = "cas" /\ victims[w] # <<>>
        /\ victims' = [victims EXCEPT ![w] = Tail(victims[w])]
        /\ aim' = [aim EXCEPT ![w] = None] /\ Goto(w, "steal")
        /\ UNCHANGED <<queues, wake, stop, todo, task, pass, fut, runs, stats>>
    BY <1>1, <1>20 DEF StealLose, WorkerInv
  <2>2. StealingOK' /\ \A v \in Workers \ {w} : victims'[v] = victims[v]
    BY <1>2, <1>16, <2>1 DEF StealingOK
  <2> QED BY <1>2, <1>4, <2>1, <2>2, MoveStep DEF BeyondLocal, PCs, Serving
<1> QED
  BY <1>5, <1>6, <1>7, <1>8, <1>9, <1>10, <1>11, <1>12, <1>13, <1>14, <1>15, <1>17,
     <1>18, <1>19, <1>20 DEF Find
-----------------------------------------------------------------------------
\* An agent that neither holds back nor takes a task moves within its fn: a worker
\* keeps its task, and what it or others were pushing is still somewhere.
LEMMA ServeStep ==
  ASSUME BaseInv, NEW a \in Agents, NEW to \in {"body", "push", "shared", "ring"},
         pc[a] \in {"body", "push", "shared", "ring"}, Goto(a, to),
         to = "push" => a \in Workers,
         to \in {"push", "shared"} => todo'[a] # <<>>,
         todo' \in [Agents -> Seq(Tasks)],
         \A b \in Agents \ {a} : todo'[b] = todo[b],
         QueuesOK', StatsOK', wake' \in 0 .. NumWorkers,
         fut' \in [Tasks -> {"none", "pending", "done", "stopped", "full"}],
         \A v \in Workers \ {a} : dq'[v] = dq[v],
         \A t \in Tasks : fut'[t] = "pending" => Placed(t)',
         UNCHANGED <<stop, task, victims, pass, aim, runs>>
  PROVE  BaseInv'
<1>1. /\ TypeOK /\ AgentInv /\ WorkerInv /\ StopInv
      /\ pc' = [pc EXCEPT ![a] = to] /\ pc \in [Agents -> PCs]
  BY DEF BaseInv, TypeOK, Goto
<1>2. /\ pc' \in [Agents -> PCs] /\ pc'[a] = to
      /\ \A b \in Agents : b # a => pc'[b] = pc[b]
  BY <1>1 DEF PCs
<1>3. TypeOK'
  <2>1. AgentsOK'
    BY <1>1, <1>2 DEF TypeOK, AgentsOK
  <2>2. StealingOK'
    BY <1>1 DEF TypeOK, StealingOK
  <2> QED BY <2>1, <2>2 DEF TypeOK, QueuesOK, StatsOK, StealingOK, AgentsOK
<1>4. AgentInv'
  <2>1. \A b \in Agents : pc'[b] \in {"push", "shared"} => todo'[b] # <<>>
    BY <1>1, <1>2 DEF AgentInv
  <2>2. \A c \in Clients : pc'[c] \in {"body", "shared", "ring"}
    BY <1>1, <1>2, Constants DEF AgentInv
  <2> QED BY <2>1, <2>2 DEF AgentInv
<1>5. WorkerInv'
  <2> SUFFICES ASSUME NEW v \in Workers
               PROVE  /\ task'[v] # None <=> pc'[v] \in Serving
                      /\ pc'[v] \in BeyondLocal => dq'[v] = <<>>
                      /\ pc'[v] = "cas" => victims'[v] # <<>>
    BY DEF WorkerInv
  <2>1. CASE v = a
    BY <1>1, <1>2, <2>1 DEF WorkerInv, Serving, BeyondLocal
  <2>2. CASE v # a
    BY <1>1, <1>2, <2>2, Constants DEF WorkerInv
  <2> QED BY <2>1, <2>2
<1>6. StopInv'
  <2>1. a \in Workers => stop # "returned"
    BY <1>1 DEF StopInv
  <2> QED BY <1>1, <1>2, <2>1, Constants DEF StopInv
<1> QED BY <1>3, <1>4, <1>5, <1>6 DEF BaseInv, NoneDropped

\* A push has put the task somewhere.
LEMMA QueuedStep ==
  ASSUME BaseInv, NEW a \in Agents, pc[a] \in {"push", "shared"}, Queued(a), QueuesOK',
         \A v \in Workers \ {a} : dq'[v] = dq[v],
         \A t \in Tasks : (Waiting(t) \/ t = Head(todo[a])) => Waiting(t)'
  PROVE  BaseInv'
<1>1. /\ TypeOK /\ AgentInv /\ NoneDropped /\ StatsOK /\ wake \in 0 .. NumWorkers
      /\ pc \in [Agents -> PCs] /\ todo \in [Agents -> Seq(Tasks)]
      /\ fut \in [Tasks -> {"none", "pending", "done", "stopped", "full"}]
  BY DEF BaseInv, TypeOK, StatsOK
<1>2. /\ todo' = [todo EXCEPT ![a] = Tail(todo[a])] /\ Goto(a, "ring")
      /\ pc' = [pc EXCEPT ![a] = "ring"]
      /\ UNCHANGED <<wake, stop, task, victims, pass, aim, fut, runs, stats>>
  BY DEF Queued, Goto, stealing
<1>3. todo[a] # <<>>
  BY <1>1 DEF AgentInv
<1>4. Tail(todo[a]) \in Seq(Tasks)
  BY <1>1, <1>3, TailFacts
<1>5. /\ todo' \in [Agents -> Seq(Tasks)]
      /\ \A b \in Agents \ {a} : todo'[b] = todo[b] /\ pc'[b] = pc[b]
  BY <1>1, <1>2, <1>4
<1>6. ASSUME NEW t \in Tasks, fut'[t] = "pending" PROVE Placed(t)'
  <2>1. Placed(t)
    BY <1>1, <1>2, <1>6 DEF NoneDropped
  <2>2. BeingSubmitted(t) => BeingSubmitted(t)' \/ t = Head(todo[a])
    BY <1>5 DEF BeingSubmitted
  <2>3. Running(t) => Running(t)'
    BY <1>2 DEF Running
  <2> QED BY <2>1, <2>2, <2>3 DEF Placed
<1>7. StatsOK'
  BY <1>1, <1>2 DEF StatsOK
<1> QED BY <1>1, <1>2, <1>5, <1>6, <1>7, ServeStep

\* A queue at its cap: the task is refused.
LEMMA RejectedStep ==
  ASSUME BaseInv, NEW a \in Agents, pc[a] = "shared",
         NEW counter \in {"rejectedStandard", "rejectedBackground"}, Rejected(a, counter)
  PROVE  BaseInv'
<1>1. /\ TypeOK /\ AgentInv /\ NoneDropped /\ QueuesOK /\ StatsOK /\ wake \in 0 .. NumWorkers
      /\ pc \in [Agents -> PCs] /\ todo \in [Agents -> Seq(Tasks)]
      /\ fut \in [Tasks -> {"none", "pending", "done", "stopped", "full"}]
  BY DEF BaseInv, TypeOK, QueuesOK, StatsOK
<1>2. /\ todo' = [todo EXCEPT ![a] = Tail(todo[a])] /\ Goto(a, "body")
      /\ pc' = [pc EXCEPT ![a] = "body"]
      /\ fut' = [fut EXCEPT ![Head(todo[a])] = "full"]
      /\ stats' = [stats EXCEPT ![counter] = @ + 1]
      /\ UNCHANGED <<standard, background, dq, wake, stop, task, victims, pass, aim, runs>>
  BY DEF Rejected, Goto, Resolve, Count, queues, stealing
<1>3. todo[a] # <<>>
  BY <1>1 DEF AgentInv
<1>4. Head(todo[a]) \in Tasks /\ Tail(todo[a]) \in Seq(Tasks)
  BY <1>1, <1>3, TailFacts
<1>5. /\ todo' \in [Agents -> Seq(Tasks)]
      /\ \A b \in Agents \ {a} : todo'[b] = todo[b] /\ pc'[b] = pc[b]
      /\ fut' \in [Tasks -> {"none", "pending", "done", "stopped", "full"}]
  BY <1>1, <1>2, <1>4
<1>6. ASSUME NEW t \in Tasks, fut'[t] = "pending" PROVE Placed(t)'
  <2>1. Placed(t) /\ t # Head(todo[a])
    BY <1>1, <1>2, <1>4, <1>6 DEF NoneDropped
  <2>2. BeingSubmitted(t) => BeingSubmitted(t)'
    BY <1>5, <2>1 DEF BeingSubmitted
  <2> QED BY <1>2, <2>1, <2>2 DEF Placed, Waiting, InShared, Running
<1>7. StatsOK' /\ QueuesOK'
  BY <1>1, <1>2 DEF StatsOK, QueuesOK
<1> QED BY <1>1, <1>2, <1>5, <1>6, <1>7, ServeStep

\* Submit, by a client or on a worker, but for the push to the worker's own deque.
LEMMA SubmitStep ==
  ASSUME BaseInv, NEW a \in Agents, Submit(a)
  PROVE  BaseInv'
<1>1. /\ TypeOK /\ AgentInv /\ WorkerInv /\ StopInv /\ NoneDropped
      /\ QueuesOK /\ StatsOK /\ wake \in 0 .. NumWorkers
      /\ pc \in [Agents -> PCs] /\ todo \in [Agents -> Seq(Tasks)]
      /\ fut \in [Tasks -> {"none", "pending", "done", "stopped", "full"}]
  BY DEF BaseInv, TypeOK, QueuesOK, StatsOK
<1>2. ASSUME todo[a] # <<>>
      PROVE  Head(todo[a]) \in Tasks /\ Tail(todo[a]) \in Seq(Tasks)
  BY <1>1, <1>2, TailFacts
<1>3. CASE SubmitStopped(a)
  <2>1. /\ pc[a] = "body" /\ todo[a] # <<>>
        /\ fut' = [fut EXCEPT ![Head(todo[a])] = "stopped"]
        /\ todo' = [todo EXCEPT ![a] = Tail(todo[a])]
        /\ UNCHANGED <<standard, background, dq, wake, stop, pc, task, victims, pass, aim,
                       runs, stats>>
    BY <1>3 DEF SubmitStopped, Resolve, queues, stealing
  <2>2. /\ Goto(a, "body") /\ todo' \in [Agents -> Seq(Tasks)]
        /\ \A b \in Agents \ {a} : todo'[b] = todo[b]
        /\ fut' \in [Tasks -> {"none", "pending", "done", "stopped", "full"}]
    BY <1>1, <1>2, <2>1 DEF Goto
  <2>3. ASSUME NEW t \in Tasks, fut'[t] = "pending" PROVE Placed(t)'
    <3>1. Placed(t)
      BY <1>1, <1>2, <2>1, <2>3 DEF NoneDropped
    <3>2. BeingSubmitted(t) => BeingSubmitted(t)'
      BY <1>1, <2>1, <2>2 DEF BeingSubmitted
    <3> QED BY <2>1, <3>1, <3>2 DEF Placed, Waiting, InShared, Running
  <2>4. QueuesOK' /\ StatsOK'
    BY <1>1, <2>1 DEF QueuesOK, StatsOK
  <2> QED BY <1>1, <2>1, <2>2, <2>3, <2>4, ServeStep
<1>4. CASE SubmitOpen(a)
  <2> DEFINE to == IF OwnContext(a, Head(todo[a])) THEN "push" ELSE "shared"
  <2>1. /\ pc[a] = "body" /\ todo[a] # <<>>
        /\ fut' = [fut EXCEPT ![Head(todo[a])] = "pending"]
        /\ stats' = [stats EXCEPT !["submitted"] = @ + 1]
        /\ Goto(a, to) /\ pc' = [pc EXCEPT ![a] = to]
        /\ UNCHANGED <<standard, background, dq, wake, stop, todo, task, victims, pass, aim,
                       runs>>
    BY <1>4 DEF SubmitOpen, Resolve, Count, Goto, queues, stealing
  <2>2. to \in {"push", "shared"} /\ (to = "push" => a \in Workers)
    BY DEF OwnContext
  <2> HIDE DEF to
  <2>3. /\ fut' \in [Tasks -> {"none", "pending", "done", "stopped", "full"}]
        /\ pc'[a] = to /\ \A b \in Agents \ {a} : pc'[b] = pc[b]
    BY <1>1, <1>2, <2>1
  <2>4. ASSUME NEW t \in Tasks, fut'[t] = "pending" PROVE Placed(t)'
    <3>1. CASE t = Head(todo[a])
      BY <2>1, <2>2, <2>3, <3>1 DEF Placed, BeingSubmitted
    <3>2. CASE t # Head(todo[a])
      <4>1. Placed(t)
        BY <1>1, <1>2, <2>1, <2>4, <3>2 DEF NoneDropped
      <4>2. BeingSubmitted(t) => BeingSubmitted(t)'
        BY <2>1, <2>3 DEF BeingSubmitted
      <4> QED BY <2>1, <4>1, <4>2 DEF Placed, Waiting, InShared, Running
    <3> QED BY <3>1, <3>2
  <2>5. QueuesOK' /\ StatsOK'
    BY <1>1, <2>1 DEF QueuesOK, StatsOK
  <2> QED BY <1>1, <2>1, <2>2, <2>3, <2>4, <2>5, ServeStep
<1>5. CASE PushStandard(a)
  <2>1. /\ pc[a] = "shared" /\ ~Full(standard, MaxStandard) /\ Queued(a)
        /\ standard' = Append(standard, Head(todo[a])) /\ UNCHANGED <<background, dq>>
    BY <1>5 DEF PushStandard
  <2>2. todo[a] # <<>> /\ Head(todo[a]) \in Tasks
    BY <1>1, <1>2, <2>1 DEF AgentInv
  <2>3. /\ standard' \in Seq(Tasks) /\ Len(standard') = Len(standard) + 1
        /\ Head(todo[a]) \in Range(standard')
        /\ \A x \in Range(standard) : x \in Range(standard')
    BY <1>1, <2>1, <2>2, AppendFacts DEF QueuesOK
  <2>4. MaxStandard > 0 => Len(standard') <= MaxStandard
    <3>1. MaxStandard > 0 => Len(standard) < MaxStandard
      BY <1>1, <2>1, Constants DEF QueuesOK, Full
    <3> QED BY <1>1, <2>3, <3>1, Constants DEF QueuesOK
  <2>5. QueuesOK'
    BY <1>1, <2>1, <2>3, <2>4 DEF QueuesOK
  <2>6. \A t \in Tasks : (Waiting(t) \/ t = Head(todo[a])) => Waiting(t)'
    BY <2>1, <2>3 DEF Waiting, InShared
  <2> QED BY <2>1, <2>5, <2>6, QueuedStep
<1>6. CASE PushBackground(a)
  <2>1. /\ pc[a] = "shared" /\ ~Full(background, MaxBackground) /\ Queued(a)
        /\ background' = Append(background, Head(todo[a])) /\ UNCHANGED <<standard, dq>>
    BY <1>6 DEF PushBackground
  <2>2. todo[a] # <<>> /\ Head(todo[a]) \in Tasks
    BY <1>1, <1>2, <2>1 DEF AgentInv
  <2>3. /\ background' \in Seq(Tasks) /\ Len(background') = Len(background) + 1
        /\ Head(todo[a]) \in Range(background')
        /\ \A x \in Range(background) : x \in Range(background')
    BY <1>1, <2>1, <2>2, AppendFacts DEF QueuesOK
  <2>4. MaxBackground > 0 => Len(background') <= MaxBackground
    <3>1. MaxBackground > 0 => Len(background) < MaxBackground
      BY <1>1, <2>1, Constants DEF QueuesOK, Full
    <3> QED BY <1>1, <2>3, <3>1, Constants DEF QueuesOK
  <2>5. QueuesOK'
    BY <1>1, <2>1, <2>3, <2>4 DEF QueuesOK
  <2>6. \A t \in Tasks : (Waiting(t) \/ t = Head(todo[a])) => Waiting(t)'
    BY <2>1, <2>3 DEF Waiting, InShared
  <2> QED BY <2>1, <2>5, <2>6, QueuedStep
<1>7. CASE RejectStandard(a)
  BY <1>7, RejectedStep DEF RejectStandard
<1>8. CASE RejectBackground(a)
  BY <1>8, RejectedStep DEF RejectBackground
<1>9. CASE RingHandOff(a)
  <2>1. /\ pc[a] = "ring"
        /\ UNCHANGED <<standard, background, dq, wake, stop, todo, task, victims, pass, aim,
                       fut, runs, stats>>
    BY <1>9 DEF RingHandOff, queues, stealing
  <2>2. PICK w \in parked : pc' = [pc EXCEPT ![a] = "body", ![w] = "local"]
    BY <1>9 DEF RingHandOff
  <2>3. w \in Workers /\ w \in Agents /\ w \notin Clients /\ pc[w] = "parked"
    BY Constants DEF parked
  <2>4. /\ pc' \in [Agents -> PCs] /\ pc'[a] = "body" /\ pc'[w] = "local"
        /\ \A b \in Agents : b \notin {a, w} => pc'[b] = pc[b]
    BY <1>1, <2>1, <2>2, <2>3 DEF PCs
  <2>5. TypeOK'
    BY <1>1, <2>1, <2>4 DEF TypeOK
  <2>6. AgentInv'
    BY <1>1, <2>1, <2>3, <2>4, Constants DEF AgentInv
  <2>7. WorkerInv'
    <3> SUFFICES ASSUME NEW v \in Workers
                 PROVE  /\ task[v] # None <=> pc'[v] \in Serving
                        /\ pc'[v] \in BeyondLocal => dq[v] = <<>>
                        /\ pc'[v] = "cas" => victims[v] # <<>>
      BY <2>1 DEF WorkerInv
    <3>1. CASE v \in {a, w}
      BY <1>1, <2>1, <2>3, <2>4, <3>1 DEF WorkerInv, Serving, BeyondLocal
    <3>2. CASE v \notin {a, w}
      BY <1>1, <2>4, <3>2, Constants DEF WorkerInv
    <3> QED BY <3>1, <3>2
  <2>8. StopInv'
    BY <1>1, <2>1, <2>3 DEF StopInv
  <2>9. NoneDropped'
    <3> SUFFICES ASSUME NEW t \in Tasks, fut[t] = "pending" PROVE Placed(t)'
      BY <2>1 DEF NoneDropped
    <3>1. Placed(t)
      BY <1>1 DEF NoneDropped
    <3>2. BeingSubmitted(t) => BeingSubmitted(t)'
      BY <2>1, <2>3, <2>4 DEF BeingSubmitted
    <3> QED BY <2>1, <3>1, <3>2 DEF Placed, Waiting, InShared, Running
  <2> QED BY <2>5, <2>6, <2>7, <2>8, <2>9 DEF BaseInv
<1>10. CASE RingToken(a)
  <2>1. /\ pc[a] = "ring" /\ Goto(a, "body") /\ pc' = [pc EXCEPT ![a] = "body"]
        /\ wake' = IF wake < NumWorkers THEN wake + 1 ELSE wake
        /\ UNCHANGED <<standard, background, dq, stop, todo, task, victims, pass, aim,
                       fut, runs, stats>>
    BY <1>10 DEF RingToken, Goto, queues, stealing
  <2>2. wake' \in 0 .. NumWorkers
    BY <1>1, <2>1, Constants
  <2>3. ASSUME NEW t \in Tasks, fut'[t] = "pending" PROVE Placed(t)'
    <3>1. Placed(t)
      BY <1>1, <2>1, <2>3 DEF NoneDropped
    <3>2. BeingSubmitted(t) => BeingSubmitted(t)'
      BY <1>1, <2>1 DEF BeingSubmitted
    <3> QED BY <2>1, <3>1, <3>2 DEF Placed, Waiting, InShared, Running
  <2>4. QueuesOK' /\ StatsOK'
    BY <1>1, <2>1 DEF QueuesOK, StatsOK
  <2> QED BY <1>1, <2>1, <2>2, <2>3, <2>4, ServeStep
<1> QED BY <1>3, <1>4, <1>5, <1>6, <1>7, <1>8, <1>9, <1>10 DEF Submit

\* A worker's push to its own deque, and its failing.
LEMMA LocalPushStep ==
  ASSUME BaseInv, NEW w \in Workers, PushLocal(w) \/ Spill(w)
  PROVE  BaseInv'
<1>1. /\ TypeOK /\ AgentInv /\ NoneDropped /\ QueuesOK /\ StatsOK /\ wake \in 0 .. NumWorkers
      /\ pc \in [Agents -> PCs] /\ todo \in [Agents -> Seq(Tasks)] /\ w \in Agents
      /\ fut \in [Tasks -> {"none", "pending", "done", "stopped", "full"}]
  BY Constants DEF BaseInv, TypeOK, QueuesOK, StatsOK
<1>2. pc[w] = "push" /\ todo[w] # <<>>
  BY <1>1 DEF PushLocal, Spill, AgentInv
<1>3. CASE PushLocal(w)
  <2>1. /\ Len(dq[w]) < LocalCap /\ dq' = [dq EXCEPT ![w] = Append(dq[w], Head(todo[w]))]
        /\ Queued(w) /\ UNCHANGED <<standard, background>>
    BY <1>3 DEF PushLocal
  <2>2. dq[w] \in Seq(Tasks) /\ Head(todo[w]) \in Tasks
    BY <1>1, <1>2, TailFacts DEF QueuesOK
  <2>3. /\ Append(dq[w], Head(todo[w])) \in Seq(Tasks)
        /\ Len(Append(dq[w], Head(todo[w]))) = Len(dq[w]) + 1
        /\ Head(todo[w]) \in Range(Append(dq[w], Head(todo[w])))
        /\ \A x \in Range(dq[w]) : x \in Range(Append(dq[w], Head(todo[w])))
    BY <2>2, AppendFacts
  <2>4. /\ dq' \in [Workers -> Seq(Tasks)]
        /\ dq'[w] = Append(dq[w], Head(todo[w]))
        /\ \A v \in Workers : v # w => dq'[v] = dq[v]
    BY <1>1, <2>1, <2>3 DEF QueuesOK
  <2>5. Len(dq'[w]) <= LocalCap
    BY <2>1, <2>2, <2>3, <2>4, Constants
  <2>6. QueuesOK'
    BY <1>1, <2>1, <2>4, <2>5 DEF QueuesOK
  <2>7. \A t \in Tasks : (Waiting(t) \/ t = Head(todo[w])) => Waiting(t)'
    BY <2>1, <2>3, <2>4 DEF Waiting, InShared
  <2> QED BY <1>1, <1>2, <2>1, <2>4, <2>6, <2>7, QueuedStep
<1>4. CASE Spill(w)
  <2>1. /\ Goto(w, "shared") /\ pc' = [pc EXCEPT ![w] = "shared"]
        /\ UNCHANGED <<standard, background, dq, wake, stop, todo, task, victims, pass, aim,
                       fut, runs, stats>>
    BY <1>4 DEF Spill, Goto, queues, stealing
  <2>2. ASSUME NEW t \in Tasks, fut'[t] = "pending" PROVE Placed(t)'
    <3>1. Placed(t)
      BY <1>1, <2>1, <2>2 DEF NoneDropped
    <3>2. pc'[w] = "shared" /\ \A b \in Agents : b # w => pc'[b] = pc[b]
      BY <1>1, <2>1
    <3>3. BeingSubmitted(t) => BeingSubmitted(t)'
      BY <2>1, <3>2 DEF BeingSubmitted
    <3> QED BY <2>1, <3>1, <3>3 DEF Placed, Waiting, InShared, Running
  <2>3. QueuesOK' /\ StatsOK'
    BY <1>1, <2>1 DEF QueuesOK, StatsOK
  <2> QED BY <1>1, <1>2, <2>1, <2>2, <2>3, ServeStep
<1> QED BY <1>3, <1>4

\* The end of a task: it is counted, and then its Future is closed.
LEMMA FinishStep ==
  ASSUME BaseInv, NEW w \in Workers, Complete(w) \/ CloseFuture(w)
  PROVE  BaseInv'
<1>1. /\ TypeOK /\ AgentInv /\ WorkerInv /\ StopInv /\ NoneDropped
      /\ pc \in [Agents -> PCs] /\ task \in [Workers -> Tasks \cup {None}]
      /\ fut \in [Tasks -> {"none", "pending", "done", "stopped", "full"}]
      /\ w \in Agents /\ w \notin Clients
  BY Constants DEF BaseInv, TypeOK
<1>2. /\ UNCHANGED <<standard, background, dq, wake, stop, todo, victims, pass, aim, runs>>
      /\ pc[w] \in {"body", "close"}
  BY DEF Complete, CloseFuture, Ready, queues, stealing
<1>3. stop # "returned"
  BY <1>1, <1>2 DEF StopInv
<1>4. CASE Complete(w)
  <2>1. /\ pc' = [pc EXCEPT ![w] = "close"] /\ task[w] # None
        /\ stats' = [stats EXCEPT !["completed"] = @ + 1] /\ UNCHANGED <<task, fut>>
    BY <1>4 DEF Complete, Goto, Count
  <2>2. /\ pc' \in [Agents -> PCs] /\ pc'[w] = "close"
        /\ \A a \in Agents : a # w => pc'[a] = pc[a]
    BY <1>1, <2>1 DEF PCs
  <2>3. StatsOK'
    <3>1. StatsOK /\ "completed" \in DOMAIN stats
      BY <1>1 DEF StatsOK, TypeOK
    <3> QED BY <2>1, <3>1, StatsKept
  <2>4. TypeOK'
    <3>1. AgentsOK'
      BY <1>1, <1>2, <2>1, <2>2 DEF TypeOK, AgentsOK
    <3>2. QueuesOK' /\ StealingOK'
      BY <1>1, <1>2 DEF TypeOK, QueuesOK, StealingOK
    <3> QED BY <2>3, <3>1, <3>2 DEF TypeOK, QueuesOK, StatsOK, StealingOK, AgentsOK
  <2>5. AgentInv'
    BY <1>1, <1>2, <2>2, Constants DEF AgentInv
  <2>6. WorkerInv'
    BY <1>1, <1>2, <2>1, <2>2, Constants DEF WorkerInv, Serving, BeyondLocal
  <2>7. StopInv'
    BY <1>2, <1>3 DEF StopInv
  <2>8. NoneDropped'
    <3> SUFFICES ASSUME NEW t \in Tasks, fut[t] = "pending" PROVE Placed(t)'
      BY <2>1 DEF NoneDropped
    <3>1. Placed(t)
      BY <1>1 DEF NoneDropped
    <3>2. BeingSubmitted(t) => BeingSubmitted(t)'
      BY <1>2, <2>2 DEF BeingSubmitted
    <3> QED BY <1>2, <2>1, <3>1, <3>2 DEF Placed, Waiting, InShared, Running
  <2> QED BY <2>4, <2>5, <2>6, <2>7, <2>8 DEF BaseInv
<1>5. CASE CloseFuture(w)
  <2>1. /\ pc[w] = "close" /\ pc' = [pc EXCEPT ![w] = "local"]
        /\ task' = [task EXCEPT ![w] = None]
        /\ fut' = [fut EXCEPT ![task[w]] = "done"] /\ UNCHANGED stats
    BY <1>5 DEF CloseFuture, Goto, Resolve
  <2>2. task[w] \in Tasks
    BY <1>1, <2>1 DEF WorkerInv, Serving
  <2>3. /\ pc' \in [Agents -> PCs] /\ pc'[w] = "local"
        /\ \A a \in Agents : a # w => pc'[a] = pc[a]
        /\ task' \in [Workers -> Tasks \cup {None}] /\ task'[w] = None
        /\ \A v \in Workers : v # w => task'[v] = task[v]
        /\ fut' \in [Tasks -> {"none", "pending", "done", "stopped", "full"}]
    BY <1>1, <2>1, <2>2 DEF PCs
  <2>4. TypeOK'
    BY <1>1, <1>2, <2>1, <2>3 DEF TypeOK
  <2>5. AgentInv'
    BY <1>1, <1>2, <2>3, Constants DEF AgentInv
  <2>6. WorkerInv'
    <3> SUFFICES ASSUME NEW v \in Workers
                 PROVE  /\ task'[v] # None <=> pc'[v] \in Serving
                        /\ pc'[v] \in BeyondLocal => dq[v] = <<>>
                        /\ pc'[v] = "cas" => victims[v] # <<>>
      BY <1>2 DEF WorkerInv
    <3>1. CASE v = w
      BY <2>3, <3>1 DEF Serving, BeyondLocal
    <3>2. CASE v # w
      BY <1>1, <2>3, <3>2, Constants DEF WorkerInv
    <3> QED BY <3>1, <3>2
  <2>7. StopInv'
    BY <1>2, <1>3 DEF StopInv
  <2>8. NoneDropped'
    <3> SUFFICES ASSUME NEW t \in Tasks, fut'[t] = "pending" PROVE Placed(t)'
      BY DEF NoneDropped
    <3>1. fut[t] = "pending" /\ t # task[w]
      BY <1>1, <2>1, <2>2
    <3>2. Placed(t)
      BY <1>1, <3>1 DEF NoneDropped
    <3>3. BeingSubmitted(t) => BeingSubmitted(t)'
      BY <1>2, <2>1, <2>3 DEF BeingSubmitted
    <3>4. Running(t) => Running(t)'
      BY <2>3, <3>1 DEF Running
    <3> QED BY <1>2, <3>2, <3>3, <3>4 DEF Placed, Waiting, InShared
  <2> QED BY <2>4, <2>5, <2>6, <2>7, <2>8 DEF BaseInv
<1> QED BY <1>4, <1>5

\* Stop: the flag, the closed channel with all it wakes, and the return.
LEMMA StopStep ==
  ASSUME BaseInv, Stopper
  PROVE  BaseInv'
<1>1. /\ TypeOK /\ AgentInv /\ WorkerInv /\ StopInv /\ NoneDropped /\ pc \in [Agents -> PCs]
  BY DEF BaseInv, TypeOK
<1>2. /\ UNCHANGED <<standard, background, dq, wake, todo, task, victims, pass, aim, fut,
                     runs, stats>>
      /\ stop' \in {"flagged", "closed", "returned"}
  BY DEF Stopper, StopFlag, StopClose, StopReturn, queues, stealing
<1>3. ASSUME UNCHANGED pc PROVE NoneDropped' /\ AgentInv' /\ WorkerInv' /\ TypeOK'
  BY <1>1, <1>2, <1>3 DEF NoneDropped, Placed, Waiting, InShared, Running, BeingSubmitted,
                          AgentInv, WorkerInv, TypeOK
<1>4. CASE StopFlag
  BY <1>3, <1>4 DEF StopFlag, StopInv, BaseInv
<1>5. CASE StopReturn
  BY <1>3, <1>5 DEF StopReturn, StopInv, BaseInv
<1>6. CASE StopClose
  <2>1. stop' = "closed" /\ pc' = [a \in Agents |-> IF a \in parked THEN "leave" ELSE pc[a]]
    BY <1>6 DEF StopClose
  <2>2. /\ pc' \in [Agents -> PCs]
        /\ \A a \in Agents : \/ pc'[a] = pc[a]
                             \/ a \in Workers /\ pc[a] = "parked" /\ pc'[a] = "leave"
    BY <1>1, <2>1 DEF parked, PCs
  <2>3. TypeOK'
    BY <1>1, <1>2, <2>1, <2>2 DEF TypeOK
  <2>4. AgentInv'
    BY <1>1, <1>2, <2>2, Constants DEF AgentInv
  <2>5. WorkerInv'
    <3> SUFFICES ASSUME NEW v \in Workers
                 PROVE  /\ task[v] # None <=> pc'[v] \in Serving
                        /\ pc'[v] \in BeyondLocal => dq[v] = <<>>
                        /\ pc'[v] = "cas" => victims[v] # <<>>
      BY <1>2 DEF WorkerInv
    <3>1. pc'[v] = pc[v] \/ (pc[v] = "parked" /\ pc'[v] = "leave")
      BY <2>2, Constants
    <3> QED BY <1>1, <3>1 DEF WorkerInv, Serving, BeyondLocal, PCs
  <2>6. StopInv'
    BY <2>1 DEF StopInv
  <2>7. NoneDropped'
    <3> SUFFICES ASSUME NEW t \in Tasks, fut[t] = "pending" PROVE Placed(t)'
      BY <1>2 DEF NoneDropped
    <3>1. Placed(t)
      BY <1>1 DEF NoneDropped
    <3>2. BeingSubmitted(t) => BeingSubmitted(t)'
      BY <1>2, <2>2 DEF BeingSubmitted
    <3> QED BY <1>2, <3>1, <3>2 DEF Placed, Waiting, InShared, Running
  <2> QED BY <2>3, <2>4, <2>5, <2>6, <2>7 DEF BaseInv
<1> QED BY <1>4, <1>5, <1>6 DEF Stopper

\* Every step of a worker, on the way out of run's loop or in it.
LEMMA WorkerStep ==
  ASSUME BaseInv, NEW w \in Workers, Worker(w)
  PROVE  BaseInv'
<1>1. /\ StealingOK /\ wake \in 0 .. NumWorkers /\ w \in Agents /\ WorkerInv
  BY Constants DEF BaseInv, TypeOK, StealingOK
<1>2. CASE TakeToken(w)
  <2>1. /\ pc[w] = "select" /\ wake > 0 /\ wake' = wake - 1 /\ Goto(w, "local")
        /\ UNCHANGED <<queues, stop, todo, task, victims, pass, aim, fut, runs, stats>>
    BY <1>2 DEF TakeToken, stealing
  <2>2. wake' \in 0 .. NumWorkers /\ StealingOK' /\ \A v \in Workers : victims'[v] = victims[v]
    BY <1>1, <2>1, Constants DEF StealingOK
  <2>3. pc[w] \notin Serving \cup {"exited"} /\ "local" \notin BeyondLocal
    BY <2>1 DEF Serving, BeyondLocal
  <2> QED BY <2>1, <2>2, <2>3, MoveStep
<1>3. ASSUME NEW from \in {"select", "leave"}, NEW to \in {"parked", "exited"},
             Search(w, from, to)
      PROVE  BaseInv'
  <2>1. /\ pc[w] = from /\ Goto(w, to)
        /\ UNCHANGED <<queues, wake, stop, todo, task, victims, pass, aim, fut, runs, stats>>
    BY <1>3 DEF Search, stealing
  <2>2. /\ pc[w] \notin Serving \cup {"exited"} /\ to \in BeyondLocal /\ dq[w] = <<>>
        /\ StealingOK' /\ \A v \in Workers : victims'[v] = victims[v]
    BY <1>1, <2>1 DEF Serving, BeyondLocal, PCs, WorkerInv, StealingOK
  <2> QED BY <1>1, <2>1, <2>2, MoveStep
<1>4. Park(w) \/ Exit(w) => BaseInv'
  BY <1>3 DEF Park, Exit
<1> QED
  BY <1>1, <1>2, <1>4, FindStep, FinishStep, SubmitStep, LocalPushStep DEF Worker

\* A step that changes nothing.
LEMMA StutterStep ==
  ASSUME BaseInv, UNCHANGED vars
  PROVE  BaseInv'
BY DEF vars, BaseInv, TypeOK, AgentInv, WorkerInv, StopInv, NoneDropped, Placed, Waiting,
       InShared, Running, BeingSubmitted

\* BaseInv is inductive.
LEMMA NextBaseInv == BaseInv /\ [Next]_vars => BaseInv'
<1> SUFFICES ASSUME BaseInv, [Next]_vars PROVE BaseInv'
  OBVIOUS
<1>1. ASSUME NEW c \in Clients, Submit(c) PROVE BaseInv'
  BY <1>1, SubmitStep, Constants
<1> QED BY <1>1, WorkerStep, StopStep, StutterStep DEF Next
-----------------------------------------------------------------------------
\* In every reachable state each worker's place in its loop agrees with the task it
\* holds and with its deque (worker.go:30-108), and no accepted task has dropped out
\* of the queues, the submitters and the workers together before its Future is closed.
THEOREM BaseInvHolds == Spec => []BaseInv
<1> QED BY InitBaseInv, NextBaseInv, PTL DEF Spec

\* Every variable keeps its type and every queue, and the wake channel, its bound,
\* for any number of workers and whatever the tasks submit.
THEOREM TypeCorrect == Spec => []TypeOK
<1>1. BaseInv => TypeOK
  BY DEF BaseInv
<1> QED BY <1>1, BaseInvHolds, PTL

\* What Stop abandons was in a shared queue (scheduler.go:286-304): workers do not
\* park or leave over their own children, and when the last one has left, a task
\* that is still pending is in a shared queue or about to be pushed to one.
THEOREM AbandonsOnlySharedHolds == Spec => []AbandonsOnlyShared
<1>1. BaseInv => AbandonsOnlyShared
  <2> SUFFICES ASSUME BaseInv PROVE AbandonsOnlyShared
    OBVIOUS
  <2>1. AgentInv /\ WorkerInv /\ StopInv /\ NoneDropped /\ None \notin Tasks
    BY Constants DEF BaseInv
  <2>2. ASSUME NEW w \in Workers, pc[w] \in {"parked", "leave", "exited"}
        PROVE  dq[w] = <<>> /\ task[w] = None
    BY <2>1, <2>2 DEF WorkerInv, BeyondLocal, Serving, PCs
  <2>3. ASSUME stop = "returned", NEW t \in Tasks, fut[t] = "pending"
        PROVE  InShared(t) \/ BeingSubmitted(t)
    <3>1. \A w \in Workers : dq[w] = <<>> /\ task[w] = None
      BY <2>1, <2>2, <2>3 DEF StopInv
    <3>2. Range(<<>>) = {}
      BY DEF Range
    <3>3. Placed(t) /\ ~Running(t) /\ \A w \in Workers : t \notin Range(dq[w])
      BY <2>1, <2>3, <3>1, <3>2 DEF NoneDropped, Running
    <3> QED BY <3>3 DEF Placed, Waiting
  <2> QED BY <2>2, <2>3 DEF AbandonsOnlyShared
<1> QED BY <1>1, BaseInvHolds, PTL
-----------------------------------------------------------------------------
(* The tasks *)

\* Taking the first, or the last, of a sequence without repetitions, and adding one
\* that is not in it.
LEMMA TailOnce ==
  ASSUME NEW S, NEW s \in Seq(S), s # <<>>, IsInjective(s)
  PROVE  IsInjective(Tail(s)) /\ Range(Tail(s)) = Range(s) \ {Head(s)}
<1>1. /\ Len(s) \in Nat \ {0} /\ DOMAIN s = 1 .. Len(s) /\ Head(s) = s[1]
      /\ Len(Tail(s)) = Len(s) - 1 /\ Tail(s) \in Seq(S)
  BY EmptySeq, HeadTailProperties
<1>2. DOMAIN Tail(s) = 1 .. Len(s) - 1 /\ \A i \in 1 .. Len(s) - 1 : Tail(s)[i] = s[i + 1]
  BY <1>1, HeadTailProperties
<1>3. \A i \in 1 .. Len(s) - 1 : i + 1 \in 1 .. Len(s) /\ i + 1 # 1
  BY <1>1
<1>4. IsInjective(Tail(s))
  BY <1>1, <1>2, <1>3 DEF IsInjective
<1>5. ASSUME NEW x \in Range(Tail(s)) PROVE x \in Range(s) /\ x # Head(s)
  <2>1. PICK i \in 1 .. Len(s) - 1 : x = s[i + 1]
    BY <1>2 DEF Range
  <2> QED BY <1>1, <1>3, <2>1 DEF Range, IsInjective
<1>6. \A x \in Range(s) : x = Head(s) \/ x \in Range(Tail(s))
  BY TailFacts
<1> QED BY <1>4, <1>5, <1>6

LEMMA BelowLast ==
  \A n \in Nat : \A i \in 1 .. n - 1 : i \in 1 .. n /\ i # n
OBVIOUS

LEMMA FrontOnce ==
  ASSUME NEW S, NEW s \in Seq(S), s # <<>>, IsInjective(s)
  PROVE  /\ IsInjective(Front(s)) /\ Range(Front(s)) = Range(s) \ {Last(s)}
         /\ Last(s) \in Range(s)
<1>1. /\ Len(s) \in Nat \ {0} /\ DOMAIN s = 1 .. Len(s) /\ Last(s) = s[Len(s)]
      /\ Len(s) \in 1 .. Len(s)
  BY EmptySeq DEF Last
<1>2. /\ DOMAIN Front(s) = 1 .. Len(s) - 1
      /\ \A i \in 1 .. Len(s) - 1 : Front(s)[i] = s[i]
  BY <1>1, SubSeqProperties DEF Front
<1>3. \A i \in 1 .. Len(s) - 1 : i \in 1 .. Len(s) /\ i # Len(s)
  BY <1>1, BelowLast
<1>4. IsInjective(Front(s))
  BY <1>1, <1>2, <1>3 DEF IsInjective
<1>5. ASSUME NEW x \in Range(Front(s)) PROVE x \in Range(s) /\ x # Last(s)
  BY <1>1, <1>2, <1>3 DEF Range, IsInjective
<1>6. \A x \in Range(s) : x = Last(s) \/ x \in Range(Front(s))
  BY FrontFacts
<1> QED BY <1>1, <1>4, <1>5, <1>6 DEF Range

LEMMA AppendOnce ==
  ASSUME NEW S, NEW s \in Seq(S), NEW x \in S
  PROVE  /\ Range(Append(s, x)) = Range(s) \cup {x}
         /\ IsInjective(s) /\ x \notin Range(s) => IsInjective(Append(s, x))
<1>1. /\ DOMAIN s = 1 .. Len(s) /\ Len(s) \in Nat
      /\ Append(s, x)[Len(s) + 1] = x
      /\ \A i \in 1 .. Len(s) : Append(s, x)[i] = s[i]
      /\ DOMAIN Append(s, x) = 1 .. Len(s) + 1
  OBVIOUS
<1>2. /\ \A i \in 1 .. Len(s) + 1 : i = Len(s) + 1 \/ i \in 1 .. Len(s)
      /\ \A i \in 1 .. Len(s) : i \in 1 .. Len(s) + 1
      /\ Len(s) + 1 \in 1 .. Len(s) + 1
  BY <1>1
<1>3. Range(Append(s, x)) = Range(s) \cup {x}
  BY <1>1, <1>2 DEF Range
<1>4. ASSUME IsInjective(s), x \notin Range(s) PROVE IsInjective(Append(s, x))
  <2> SUFFICES ASSUME NEW i \in 1 .. Len(s) + 1, NEW j \in 1 .. Len(s) + 1,
                      Append(s, x)[i] = Append(s, x)[j]
               PROVE  i = j
    BY <1>1 DEF IsInjective
  <2>1. CASE i \in 1 .. Len(s) /\ j \in 1 .. Len(s)
    BY <1>1, <1>4, <2>1 DEF IsInjective
  <2>2. \A k \in 1 .. Len(s) : Append(s, x)[k] \in Range(s)
    BY <1>1 DEF Range
  <2> QED BY <1>1, <1>2, <1>4, <2>1, <2>2
<1> QED BY <1>3, <1>4

LEMMA EmptyFacts == Range(<<>>) = {} /\ IsInjective(<<>>)
BY DEF Range, IsInjective
-----------------------------------------------------------------------------
\* What each holder holds, before and after a step.
LEMMA HeldBy ==
  /\ Held(InStandard) = Range(standard)
  /\ Held(InBackground) = Range(background)
  /\ \A w \in Workers : Held(InDeque(w)) = Range(dq[w])
  /\ \A w \in Workers : Held(RunBy(w)) = {task[w]} \ {None}
  /\ \A a \in Agents : Held(TodoOf(a)) = Range(todo[a])
  /\ \A p \in Tasks : Held(KidOf(p)) = IF runs[p] = 0 THEN Range(Kids[p]) ELSE {}
BY DEF Held, InStandard, InBackground, InDeque, RunBy, TodoOf, KidOf

LEMMA HeldByNext ==
  /\ Held(InStandard)' = Range(standard')
  /\ Held(InBackground)' = Range(background')
  /\ \A w \in Workers : Held(InDeque(w))' = Range(dq'[w])
  /\ \A w \in Workers : Held(RunBy(w))' = {task'[w]} \ {None}
  /\ \A a \in Agents : Held(TodoOf(a))' = Range(todo'[a])
  /\ \A p \in Tasks : Held(KidOf(p))' = IF runs'[p] = 0 THEN Range(Kids[p]) ELSE {}
BY DEF Held, InStandard, InBackground, InDeque, RunBy, TodoOf, KidOf

\* The holders, one kind after the other.
LEMMA HolderKinds ==
  ASSUME NEW h \in Holders
  PROVE  \/ h = InStandard \/ h = InBackground
         \/ \E w \in Workers : h = InDeque(w) \/ h = RunBy(w)
         \/ \E a \in Agents : h = TodoOf(a)
         \/ \E p \in Tasks : h = KidOf(p)
BY DEF Holders

\* The holders' names differ.
LEMMA HolderNames ==
  /\ InStandard # InBackground
  /\ \A w : InDeque(w) \notin {InStandard, InBackground}
  /\ \A w : RunBy(w) \notin {InStandard, InBackground}
  /\ \A w : TodoOf(w) \notin {InStandard, InBackground}
  /\ \A w : KidOf(w) \notin {InStandard, InBackground}
  /\ \A v, w : InDeque(v) # RunBy(w) /\ InDeque(v) # TodoOf(w) /\ InDeque(v) # KidOf(w)
  /\ \A v, w : RunBy(v) # TodoOf(w) /\ RunBy(v) # KidOf(w) /\ TodoOf(v) # KidOf(w)
  /\ \A v, w : v # w => /\ InDeque(v) # InDeque(w) /\ RunBy(v) # RunBy(w)
                        /\ TodoOf(v) # TodoOf(w) /\ KidOf(v) # KidOf(w)
BY DEF InStandard, InBackground, InDeque, RunBy, TodoOf, KidOf

LEMMA KidsAreTasks ==
  ASSUME NEW t \in Tasks
  PROVE  Kids[t] \in Seq(Tasks) /\ Range(Kids[t]) \subseteq Tasks
<1>1. Kids[t] \in Seq(Tasks)
  BY Constants
<1> QED BY <1>1 DEF Range

LEMMA AreHolders ==
  /\ InStandard \in Holders /\ InBackground \in Holders
  /\ \A w \in Workers : InDeque(w) \in Holders /\ RunBy(w) \in Holders
  /\ \A a \in Agents : TodoOf(a) \in Holders
  /\ \A p \in Tasks : KidOf(p) \in Holders
BY DEF Holders
-----------------------------------------------------------------------------
\* A task that is held somewhere is held nowhere else.
LEMMA HeldOnce ==
  ASSUME OneHolder, NEW h \in Holders, NEW x \in Held(h)
  PROVE  /\ x \in Range(standard) => h = InStandard
         /\ x \in Range(background) => h = InBackground
         /\ \A w \in Workers : x \in Range(dq[w]) => h = InDeque(w)
         /\ \A w \in Workers : x = task[w] /\ x # None => h = RunBy(w)
         /\ \A a \in Agents : x \in Range(todo[a]) => h = TodoOf(a)
         /\ \A p \in Tasks : runs[p] = 0 /\ x \in Range(Kids[p]) => h = KidOf(p)
<1>1. \A g \in Holders : x \in Held(g) => g = h
  BY DEF OneHolder
<1>2. \A w \in Workers : x = task[w] /\ x # None => x \in Held(RunBy(w))
  BY HeldBy
<1> QED BY <1>1, <1>2, HeldBy, AreHolders

\* The queues among the holders.
QueueHolders == {InStandard, InBackground} \cup {InDeque(w) : w \in Workers}

LEMMA WaitingHeld ==
  ASSUME NEW t
  PROVE  /\ Waiting(t) <=> \E k \in QueueHolders : t \in Held(k)
         /\ Waiting(t)' <=> \E k \in QueueHolders : t \in Held(k)'
<1>1. \A k : k \in QueueHolders <=>
        k = InStandard \/ k = InBackground \/ \E w \in Workers : k = InDeque(w)
  BY DEF QueueHolders
<1> QED BY <1>1, HeldBy, HeldByNext DEF Waiting, InShared

\* What is queued runs nowhere and is nowhere still to be submitted.
LEMMA QueuedFacts ==
  ASSUME OneHolder, NEW k \in QueueHolders, NEW x \in Held(k)
  PROVE  /\ k \in Holders
         /\ \A w \in Workers : x = task[w] => x = None
         /\ \A a \in Agents : x \notin Range(todo[a])
         /\ \A p \in Tasks : runs[p] = 0 => x \notin Range(Kids[p])
         /\ \A g \in Holders : x \in Held(g) => g = k
<1>1. /\ k \in Holders
      /\ \A w \in Workers : k # RunBy(w)
      /\ \A a \in Agents : k # TodoOf(a)
      /\ \A p \in Tasks : k # KidOf(p)
  BY AreHolders, HolderNames DEF QueueHolders
<1> QED BY <1>1, HeldOnce DEF OneHolder

\* What an agent has still to submit is not queued and does not run.
LEMMA TodoFacts ==
  ASSUME BaseInv, TaskInv, NEW a \in Agents, todo[a] # <<>>
  PROVE  LET x == Head(todo[a])
         IN /\ x \in Tasks /\ x \in Range(todo[a]) /\ x # None
            /\ ~Waiting(x) /\ ~Running(x)
            /\ \A b \in Agents : x \in Range(todo[b]) => b = a
            /\ \A p \in Tasks : runs[p] = 0 => x \notin Range(Kids[p])
            /\ \A b \in Agents : todo[b] # <<>> /\ Head(todo[b]) = x => b = a
            /\ Range(Tail(todo[a])) = Range(todo[a]) \ {x} /\ IsInjective(Tail(todo[a]))
            /\ Tail(todo[a]) \in Seq(Tasks)
            /\ fut[x] \in {"none", "pending"} /\ runs[x] = 0
<1> DEFINE x == Head(todo[a])
<1>1. \A b \in Agents : todo[b] \in Seq(Tasks) /\ IsInjective(todo[b])
  BY DEF BaseInv, TypeOK, TaskInv, OneHolder
<1>2. x \in Tasks /\ x \in Range(todo[a]) /\ x # None /\ Tail(todo[a]) \in Seq(Tasks)
  BY <1>1, TailFacts, Constants
<1>3. Range(Tail(todo[a])) = Range(todo[a]) \ {x} /\ IsInjective(Tail(todo[a]))
  BY <1>1, TailOnce
<1>4. x \in Held(TodoOf(a)) /\ TodoOf(a) \in Holders
  BY <1>2, HeldBy, AreHolders
<1>5. /\ x \notin Range(standard) /\ x \notin Range(background)
      /\ \A w \in Workers : x \notin Range(dq[w]) /\ x # task[w]
      /\ \A b \in Agents : x \in Range(todo[b]) => b = a
      /\ \A p \in Tasks : runs[p] = 0 => x \notin Range(Kids[p])
  <2>1. OneHolder
    BY DEF TaskInv
  <2>2. /\ TodoOf(a) # InStandard /\ TodoOf(a) # InBackground
        /\ \A w : TodoOf(a) # InDeque(w) /\ TodoOf(a) # RunBy(w) /\ TodoOf(a) # KidOf(w)
        /\ \A b : TodoOf(b) = TodoOf(a) => b = a
    BY HolderNames
  <2> QED BY <1>2, <1>4, <2>1, <2>2, HeldOnce
<1>6. \A b \in Agents : todo[b] # <<>> /\ Head(todo[b]) = x => b = a
  BY <1>1, <1>5, TailFacts
<1>7. ~Waiting(x) /\ ~Running(x)
  BY <1>5 DEF Waiting, InShared, Running
<1>8. fut[x] \in {"none", "pending"}
  <2>1. CASE pc[a] \in {"push", "shared"}
    BY <1>2, <2>1 DEF TaskInv, FutureInv, Placed, BeingSubmitted
  <2>2. CASE pc[a] \notin {"push", "shared"}
    BY <1>2, <2>2 DEF TaskInv, FutureInv, Unsubmitted
  <2> QED BY <2>1, <2>2
<1>9. runs[x] = 0
  BY <1>2, <1>7, <1>8 DEF TaskInv, FutureInv
<1> QED BY <1>2, <1>3, <1>5, <1>6, <1>7, <1>8, <1>9

\* No task gets a second holder if all holders keep what they had, or less, but for
\* one that takes a task which no other then holds.
LEMMA StayApart ==
  ASSUME OneHolder, NEW x, NEW k,
         \A h \in Holders : \A y \in Held(h)' : y \in Held(h) \/ (y = x /\ h = k),
         \A h \in Holders : x \in Held(h)' => h = k
  PROVE  \A g, h \in Holders : g # h => Held(g)' \cap Held(h)' = {}
BY DEF OneHolder
-----------------------------------------------------------------------------
\* A step that moves no task keeps TaskInv, if nobody begins or ends a push in it.
LEMMA QuietStep ==
  ASSUME TaskInv, UNCHANGED <<queues, todo, task, fut, runs>>,
         \A a \in Agents : pc'[a] \in {"push", "shared"} <=> pc[a] \in {"push", "shared"},
         \A w \in Workers : \/ pc'[w] \in Serving \ {"close"}
                            \/ pc[w] \notin Serving \ {"close"} \/ todo[w] = <<>>
  PROVE  TaskInv'
<1>1. /\ UNCHANGED <<standard, background, dq>>
      /\ OneHolder /\ FutureInv /\ SubmitsInFn
  BY DEF queues, TaskInv
<1>2. OneHolder'
  <2>1. \A h : Held(h)' = Held(h)
    BY <1>1 DEF Held
  <2> QED BY <1>1, <2>1 DEF OneHolder
<1>3. ASSUME NEW t \in Tasks
      PROVE  /\ Unsubmitted(t)' <=> Unsubmitted(t)
             /\ Placed(t)' <=> Placed(t)
             /\ Running(t)' <=> Running(t)
  BY <1>1 DEF Unsubmitted, Placed, Waiting, InShared, Running, BeingSubmitted
<1>4. FutureInv'
  BY <1>1, <1>3 DEF FutureInv
<1>5. SubmitsInFn'
  BY <1>1 DEF SubmitsInFn
<1> QED BY <1>2, <1>4, <1>5 DEF TaskInv

\* One more Future.
LEMMA OneMoreFuture ==
  ASSUME IsFiniteSet({t \in Tasks : fut[t] # "none"}), NEW x \in Tasks, NEW r,
         fut' = [fut EXCEPT ![x] = r]
  PROVE  IsFiniteSet({t \in Tasks : fut'[t] # "none"})
<1>1. IsFiniteSet({t \in Tasks : fut[t] # "none"} \cup {x})
  BY FS_AddElement
<1>2. \A t \in Tasks : t # x => fut'[t] = fut[t]
  OBVIOUS
<1>3. {t \in Tasks : fut'[t] # "none"} \in SUBSET ({t \in Tasks : fut[t] # "none"} \cup {x})
  BY <1>2
<1> QED BY <1>1, <1>3, FS_Subset

\* Submit gives back a Future that is resolved at once: the task is held no more.
LEMMA RefuseTaskStep ==
  ASSUME BaseInv, TaskInv, NEW a \in Agents, pc[a] \in {"body", "shared"}, todo[a] # <<>>,
         NEW x, x = Head(todo[a]),
         NEW r \in {"stopped", "full"}, fut' = [fut EXCEPT ![x] = r],
         todo' = [todo EXCEPT ![a] = Tail(todo[a])], Goto(a, "body"),
         UNCHANGED <<queues, task, runs>>
  PROVE  TaskInv'
<1>1. /\ UNCHANGED <<standard, background, dq, task, runs>>
      /\ OneHolder /\ FutureInv /\ SubmitsInFn
      /\ fut \in [Tasks -> {"none", "pending", "done", "stopped", "full"}]
      /\ pc \in [Agents -> PCs] /\ todo \in [Agents -> Seq(Tasks)]
  BY DEF queues, TaskInv, BaseInv, TypeOK
<1>2. /\ x \in Tasks /\ ~Waiting(x) /\ ~Running(x) /\ runs[x] = 0
      /\ \A b \in Agents : x \in Range(todo[b]) => b = a
      /\ \A p \in Tasks : runs[p] = 0 => x \notin Range(Kids[p])
      /\ \A b \in Agents : todo[b] # <<>> /\ Head(todo[b]) = x => b = a
      /\ Range(Tail(todo[a])) = Range(todo[a]) \ {x} /\ IsInjective(Tail(todo[a]))
      /\ fut[x] \in {"none", "pending"}
  BY TodoFacts
<1>3. /\ todo'[a] = Tail(todo[a]) /\ \A b \in Agents : b # a => todo'[b] = todo[b]
      /\ pc'[a] = "body" /\ \A b \in Agents : b # a => pc'[b] = pc[b]
      /\ fut'[x] = r /\ \A t \in Tasks : t # x => fut'[t] = fut[t]
      /\ \A b \in Agents : Range(todo'[b]) = Range(todo[b]) \ {x}
  BY <1>1, <1>2, Zenon DEF Goto
<1>4. OneHolder'
  <2>1. ASSUME NEW h \in Holders PROVE Held(h)' \subseteq Held(h)
    <3>1. CASE h = InStandard \/ h = InBackground
      BY <1>1, <3>1, HeldBy, HeldByNext
    <3>2. ASSUME NEW w \in Workers, h = InDeque(w) \/ h = RunBy(w)
          PROVE  Held(h)' \subseteq Held(h)
      BY <1>1, <3>2, HeldBy, HeldByNext
    <3>3. ASSUME NEW b \in Agents, h = TodoOf(b) PROVE Held(h)' \subseteq Held(h)
      BY <1>3, <3>3, HeldBy, HeldByNext
    <3>4. ASSUME NEW q \in Tasks, h = KidOf(q) PROVE Held(h)' \subseteq Held(h)
      BY <1>1, <3>4, HeldBy, HeldByNext
    <3> QED BY <3>1, <3>2, <3>3, <3>4, HolderKinds
  <2>2. \A b \in Agents : IsInjective(todo'[b])
    BY <1>1, <1>2, <1>3 DEF OneHolder
  <2> QED BY <1>1, <2>1, <2>2 DEF OneHolder
<1>5. ASSUME NEW t \in Tasks
      PROVE  /\ Unsubmitted(t)' => fut'[t] = "none"
             /\ Placed(t)' => fut'[t] = "pending"
             /\ runs'[t] = IF fut'[t] = "done" \/ Running(t)' THEN 1 ELSE 0
  <2>1. Running(t)' <=> Running(t)
    BY <1>1 DEF Running
  <2>2. Waiting(t)' <=> Waiting(t)
    BY <1>1 DEF Waiting, InShared
  <2>3. ~Unsubmitted(x)'
    BY <1>1, <1>2, <1>3 DEF Unsubmitted
  <2>4. ~BeingSubmitted(x)'
    <3> SUFFICES ASSUME NEW b \in Agents, pc'[b] \in {"push", "shared"}, Head(todo'[b]) = x
                 PROVE  FALSE
      BY DEF BeingSubmitted
    <3>1. b # a /\ pc[b] \in {"push", "shared"} /\ Head(todo[b]) = x
      BY <1>3
    <3>2. todo[b] # <<>>
      BY <3>1 DEF BaseInv, AgentInv
    <3> QED BY <1>2, <3>1, <3>2
  <2>5. CASE t = x
    <3>1. ~Placed(x)'
      BY <1>2, <2>1, <2>2, <2>4, <2>5 DEF Placed
    <3> QED BY <1>1, <1>2, <1>3, <2>1, <2>3, <2>5, <3>1
  <2>6. CASE t # x
    <3>1. Unsubmitted(t)' => Unsubmitted(t)
      BY <1>1, <1>3, <2>6 DEF Unsubmitted
    <3>2. BeingSubmitted(t)' => BeingSubmitted(t)
      BY <1>3 DEF BeingSubmitted
    <3> QED BY <1>1, <1>3, <2>1, <2>2, <2>6, <3>1, <3>2 DEF Placed, FutureInv
  <2> QED BY <2>5, <2>6
<1>6. FutureInv'
  BY <1>1, <1>2, <1>5, OneMoreFuture DEF FutureInv
<1>7. SubmitsInFn'
  <2>1. ASSUME NEW w \in Workers, pc'[w] \notin Serving \ {"close"} PROVE todo'[w] = <<>>
    <3>1. w # a
      BY <1>3, <2>1 DEF Serving
    <3> QED BY <1>1, <1>3, <2>1, <3>1, Constants DEF SubmitsInFn
  <2>2. ASSUME NEW w \in Workers, task'[w] # None, NEW k \in Range(Kids[task'[w]])
        PROVE  fut'[k] # "none" \/ k \in Range(todo'[w])
    <3>1. task[w] \in Tasks /\ Range(Kids[task[w]]) \subseteq Tasks
      BY <1>1, <2>2, KidsAreTasks DEF BaseInv, TypeOK
    <3>2. fut[k] # "none" \/ k \in Range(todo[w])
      BY <1>1, <2>2 DEF SubmitsInFn
    <3>3. CASE k = x
      BY <1>3, <3>3
    <3>4. CASE k # x
      BY <1>1, <1>3, <2>2, <3>1, <3>2, <3>4, Constants
    <3> QED BY <3>3, <3>4
  <2> QED BY <2>1, <2>2 DEF SubmitsInFn
<1> QED BY <1>4, <1>6, <1>7 DEF TaskInv
\* Submit accepts a task: its Future is pending from now on.
LEMMA AcceptTaskStep ==
  ASSUME BaseInv, TaskInv, NEW a \in Agents, pc[a] = "body", todo[a] # <<>>,
         NEW x, x = Head(todo[a]), NEW to \in {"push", "shared"}, Goto(a, to),
         fut' = [fut EXCEPT ![x] = "pending"],
         UNCHANGED <<queues, todo, task, runs>>
  PROVE  TaskInv' /\ fut[x] = "none"
<1>1. /\ UNCHANGED <<standard, background, dq, todo, task, runs>>
      /\ OneHolder /\ FutureInv /\ SubmitsInFn
      /\ fut \in [Tasks -> {"none", "pending", "done", "stopped", "full"}]
      /\ pc \in [Agents -> PCs]
  BY DEF queues, TaskInv, BaseInv, TypeOK
<1>2. /\ x \in Tasks /\ ~Waiting(x) /\ ~Running(x) /\ runs[x] = 0 /\ x \in Range(todo[a])
      /\ \A b \in Agents : x \in Range(todo[b]) => b = a
      /\ \A p \in Tasks : runs[p] = 0 => x \notin Range(Kids[p])
  BY TodoFacts
<1>3. /\ pc'[a] = to /\ \A b \in Agents : b # a => pc'[b] = pc[b]
      /\ fut'[x] = "pending" /\ \A t \in Tasks : t # x => fut'[t] = fut[t]
  BY <1>1, <1>2, Zenon DEF Goto
<1>4. OneHolder'
  <2>1. \A h : Held(h)' = Held(h)
    BY <1>1 DEF Held
  <2> QED BY <1>1, <2>1 DEF OneHolder
<1>5. ASSUME NEW t \in Tasks
      PROVE  /\ Unsubmitted(t)' => fut'[t] = "none"
             /\ Placed(t)' => fut'[t] = "pending"
             /\ runs'[t] = IF fut'[t] = "done" \/ Running(t)' THEN 1 ELSE 0
  <2>1. (Running(t)' <=> Running(t)) /\ (Waiting(t)' <=> Waiting(t))
    BY <1>1 DEF Running, Waiting, InShared
  <2>2. CASE t = x
    <3>1. ~Unsubmitted(x)'
      BY <1>1, <1>2, <1>3 DEF Unsubmitted
    <3> QED BY <1>1, <1>2, <1>3, <2>1, <2>2, <3>1
  <2>3. CASE t # x
    <3>1. Unsubmitted(t)' => Unsubmitted(t)
      BY <1>1, <1>3 DEF Unsubmitted
    <3>2. BeingSubmitted(t)' => BeingSubmitted(t)
      BY <1>1, <1>3, <2>3 DEF BeingSubmitted
    <3> QED BY <1>1, <1>3, <2>1, <2>3, <3>1, <3>2 DEF Placed, FutureInv
  <2> QED BY <2>2, <2>3
<1>6. FutureInv'
  BY <1>1, <1>2, <1>5, OneMoreFuture DEF FutureInv
<1>7. SubmitsInFn'
  <2>1. ASSUME NEW w \in Workers, pc'[w] \notin Serving \ {"close"} PROVE todo'[w] = <<>>
    <3>1. w # a
      BY <1>3, <2>1 DEF Serving
    <3> QED BY <1>1, <1>3, <2>1, <3>1, Constants DEF SubmitsInFn
  <2>2. ASSUME NEW w \in Workers, task'[w] # None, NEW k \in Range(Kids[task'[w]])
        PROVE  fut'[k] # "none" \/ k \in Range(todo'[w])
    <3>1. task[w] \in Tasks /\ Range(Kids[task[w]]) \subseteq Tasks
      BY <1>1, <2>2, KidsAreTasks DEF BaseInv, TypeOK
    <3> QED BY <1>1, <1>3, <2>2, <3>1 DEF SubmitsInFn
  <2> QED BY <2>1, <2>2 DEF SubmitsInFn
<1>8. fut[x] = "none"
  BY <1>1, <1>2 DEF FutureInv, Unsubmitted
<1> QED BY <1>4, <1>6, <1>7, <1>8 DEF TaskInv

\* A push: the task is held by queue k instead of the agent that submits it.
LEMMA QueueTaskStep ==
  ASSUME BaseInv, TaskInv, NEW a \in Agents, pc[a] \in {"push", "shared"}, Queued(a),
         NEW x, x = Head(todo[a]), NEW k \in QueueHolders,
         Held(k)' = Held(k) \cup {x},
         \A g \in QueueHolders : g # k => Held(g)' = Held(g),
         IsInjective(standard'), IsInjective(background'),
         \A w \in Workers : IsInjective(dq'[w])
  PROVE  TaskInv'
<1>1. /\ UNCHANGED <<task, runs, fut>> /\ todo[a] # <<>>
      /\ OneHolder /\ FutureInv /\ SubmitsInFn
      /\ pc \in [Agents -> PCs] /\ todo \in [Agents -> Seq(Tasks)]
      /\ task \in [Workers -> Tasks \cup {None}]
  BY DEF Queued, TaskInv, BaseInv, TypeOK, AgentInv
<1>2. /\ x \in Tasks /\ ~Waiting(x) /\ ~Running(x) /\ runs[x] = 0 /\ x # None
      /\ \A b \in Agents : x \in Range(todo[b]) => b = a
      /\ \A p \in Tasks : runs[p] = 0 => x \notin Range(Kids[p])
      /\ \A b \in Agents : todo[b] # <<>> /\ Head(todo[b]) = x => b = a
      /\ Range(Tail(todo[a])) = Range(todo[a]) \ {x} /\ IsInjective(Tail(todo[a]))
  BY <1>1, TodoFacts
<1>3. /\ todo'[a] = Tail(todo[a]) /\ \A b \in Agents : b # a => todo'[b] = todo[b]
      /\ pc'[a] = "ring" /\ \A b \in Agents : b # a => pc'[b] = pc[b]
      /\ \A b \in Agents : Range(todo'[b]) = Range(todo[b]) \ {x}
  BY <1>1, <1>2, Zenon DEF Goto, Queued
<1>4. fut[x] = "pending"
  BY <1>1, <1>2 DEF FutureInv, Placed, BeingSubmitted
<1>5. OneHolder'
  <2>1. \A h \in Holders : (\A y \in Held(h)' : y \in Held(h) \/ (y = x /\ h = k))
                           /\ (x \in Held(h)' => h = k)
    <3> SUFFICES ASSUME NEW h \in Holders
                 PROVE  /\ \A y \in Held(h)' : y \in Held(h) \/ (y = x /\ h = k)
                        /\ x \in Held(h)' => h = k
      OBVIOUS
    <3>1. CASE h \in QueueHolders
      <4>1. x \notin Held(h)
        BY <1>2, <3>1, WaitingHeld
      <4>2. CASE h = k
        BY <4>2
      <4>3. CASE h # k
        BY <3>1, <4>1, <4>3
      <4> QED BY <4>2, <4>3
    <3>2. ASSUME NEW w \in Workers, h = RunBy(w)
          PROVE  Held(h)' = Held(h) /\ x \notin Held(h)'
      <4>1. task[w] # x
        BY <1>2 DEF Running
      <4>2. Held(h)' = {task[w]} \ {None} /\ Held(h) = {task[w]} \ {None}
        BY <1>1, <3>2, HeldBy, HeldByNext
      <4> QED BY <4>1, <4>2
    <3>3. ASSUME NEW b \in Agents, h = TodoOf(b)
          PROVE  Held(h)' \subseteq Held(h) /\ x \notin Held(h)'
      BY <1>3, <3>3, HeldBy, HeldByNext
    <3>4. ASSUME NEW q \in Tasks, h = KidOf(q)
          PROVE  Held(h)' = Held(h) /\ x \notin Held(h)'
      BY <1>1, <1>2, <3>4, HeldBy, HeldByNext
    <3> QED BY <3>1, <3>2, <3>3, <3>4, HolderKinds DEF QueueHolders
  <2>2. \A b \in Agents : IsInjective(todo'[b])
    BY <1>1, <1>2, <1>3 DEF OneHolder
  <2>3. \A g, h \in Holders : g # h => Held(g)' \cap Held(h)' = {}
    BY <1>1, <2>1, StayApart
  <2> QED BY <2>2, <2>3 DEF OneHolder
<1>6. ASSUME NEW t \in Tasks
      PROVE  /\ Unsubmitted(t)' => fut'[t] = "none"
             /\ Placed(t)' => fut'[t] = "pending"
             /\ runs'[t] = IF fut'[t] = "done" \/ Running(t)' THEN 1 ELSE 0
  <2>1. Running(t)' <=> Running(t)
    BY <1>1 DEF Running
  <2>2. CASE t = x
    <3>1. ~Unsubmitted(x)'
      BY <1>1, <1>2, <1>3 DEF Unsubmitted
    <3> QED BY <1>1, <1>2, <1>4, <2>1, <2>2, <3>1 DEF FutureInv
  <2>3. CASE t # x
    <3>1. Unsubmitted(t)' => Unsubmitted(t)
      BY <1>1, <1>3, <2>3 DEF Unsubmitted
    <3>2. BeingSubmitted(t)' => BeingSubmitted(t)
      BY <1>1, <1>3, <2>3 DEF BeingSubmitted
    <3>3. Waiting(t)' => Waiting(t)
      BY <2>3, WaitingHeld
    <3> QED BY <1>1, <1>3, <2>1, <2>3, <3>1, <3>2, <3>3 DEF Placed, FutureInv
  <2> QED BY <2>2, <2>3
<1>7. FutureInv'
  BY <1>1, <1>6 DEF FutureInv
<1>8. SubmitsInFn'
  <2>1. ASSUME NEW w \in Workers, pc'[w] \notin Serving \ {"close"} PROVE todo'[w] = <<>>
    <3>1. w # a
      BY <1>3, <2>1 DEF Serving
    <3> QED BY <1>1, <1>3, <2>1, <3>1, Constants DEF SubmitsInFn
  <2>2. ASSUME NEW w \in Workers, task'[w] # None, NEW j \in Range(Kids[task'[w]])
        PROVE  fut'[j] # "none" \/ j \in Range(todo'[w])
    <3>1. fut[j] # "none" \/ j \in Range(todo[w])
      BY <1>1, <2>2 DEF SubmitsInFn
    <3> QED BY <1>1, <1>3, <1>4, <3>1, Constants
  <2> QED BY <2>1, <2>2 DEF SubmitsInFn
<1> QED BY <1>5, <1>7, <1>8 DEF TaskInv

\* What a worker that takes x from queue k knows of both.
LEMMA BeginFacts ==
  ASSUME BaseInv, TaskInv, NEW w \in Workers, pc[w] \notin Serving, NEW x \in Tasks,
         NEW k \in QueueHolders, x \in Held(k), Begin(w, x)
  PROVE  /\ fut[x] = "pending" /\ ~Running(x) /\ runs[x] = 0 /\ x # None
         /\ task[w] = None /\ todo[w] = <<>>
         /\ UNCHANGED fut /\ w \in Agents
         /\ task'[w] = x /\ \A v \in Workers : v # w => task'[v] = task[v]
         /\ todo'[w] = Kids[x] /\ \A b \in Agents : b # w => todo'[b] = todo[b]
         /\ pc'[w] = "body" /\ \A b \in Agents : b # w => pc'[b] = pc[b]
         /\ runs'[x] = 1 /\ \A p \in Tasks : p # x => runs'[p] = runs[p]
<1>1. /\ UNCHANGED fut /\ w \in Agents /\ x # None
      /\ pc' = [pc EXCEPT ![w] = "body"] /\ pc \in [Agents -> PCs]
      /\ task' = [task EXCEPT ![w] = x] /\ task \in [Workers -> Tasks \cup {None}]
      /\ todo' = [todo EXCEPT ![w] = Kids[x]] /\ todo \in [Agents -> Seq(Tasks)]
      /\ runs' = [runs EXCEPT ![x] = @ + 1] /\ runs \in [Tasks -> Nat]
  BY Constants DEF Begin, Goto, BaseInv, TypeOK
<1>2. task[w] = None /\ todo[w] = <<>>
  BY DEF BaseInv, WorkerInv, TaskInv, SubmitsInFn
<1>3. Waiting(x)
  BY WaitingHeld
<1>4. fut[x] = "pending" /\ \A v \in Workers : x # task[v]
  BY <1>1, <1>3, QueuedFacts DEF TaskInv, FutureInv, Placed
<1>5. ~Running(x) /\ runs[x] = 0
  BY <1>4 DEF Running, TaskInv, FutureInv
<1>6. runs'[x] = 1
  BY <1>1, <1>5
<1> QED BY <1>1, <1>2, <1>4, <1>5, <1>6

\* A worker takes a task: it is held by the worker instead of a queue, and the tasks it
\* will submit by that worker instead of the task.
LEMMA BeginTaskStep ==
  ASSUME BaseInv, TaskInv, NEW w \in Workers, pc[w] \notin Serving, NEW x \in Tasks,
         NEW k \in QueueHolders, x \in Held(k), Begin(w, x),
         Held(k)' = Held(k) \ {x},
         \A g \in QueueHolders : g # k => Held(g)' = Held(g),
         IsInjective(standard'), IsInjective(background'),
         \A v \in Workers : IsInjective(dq'[v])
  PROVE  TaskInv'
<1>1. /\ fut[x] = "pending" /\ ~Running(x) /\ runs[x] = 0 /\ x # None
      /\ task[w] = None /\ todo[w] = <<>>
      /\ UNCHANGED fut /\ w \in Agents
      /\ task'[w] = x /\ \A v \in Workers : v # w => task'[v] = task[v]
      /\ todo'[w] = Kids[x] /\ \A b \in Agents : b # w => todo'[b] = todo[b]
      /\ pc'[w] = "body" /\ \A b \in Agents : b # w => pc'[b] = pc[b]
      /\ runs'[x] = 1 /\ \A p \in Tasks : p # x => runs'[p] = runs[p]
  BY BeginFacts
<1>2. /\ OneHolder /\ FutureInv /\ SubmitsInFn
      /\ \A g \in Holders : x \in Held(g) => g = k
      /\ \A v : k # KidOf(v) /\ k # RunBy(v) /\ k # TodoOf(v)
      /\ RunBy(w) \in Holders /\ KidOf(x) \in Holders
  BY QueuedFacts, HolderNames, AreHolders DEF TaskInv, QueueHolders
<1>3. OneHolder'
  <2> DEFINE from(h) == IF h = TodoOf(w) THEN KidOf(x) ELSE h
  <2>1. ASSUME NEW h \in Holders, h # RunBy(w)
        PROVE  /\ Held(h)' \subseteq Held(from(h)) /\ x \notin Held(h)'
               /\ h = KidOf(x) => Held(h)' = {}
    <3>1. CASE h \in QueueHolders
      <4>1. h # TodoOf(w) /\ h # KidOf(x)
        BY <3>1, HolderNames DEF QueueHolders
      <4>2. CASE h = k
        BY <4>1, <4>2
      <4>3. CASE h # k
        <5>1. Held(h)' = Held(h) /\ x \notin Held(h)
          BY <1>2, <2>1, <3>1, <4>3
        <5> QED BY <4>1, <5>1
      <4> QED BY <4>2, <4>3
    <3>2. ASSUME NEW v \in Workers, h = RunBy(v)
          PROVE  Held(h)' = Held(h) /\ from(h) = h /\ x \notin Held(h) /\ h # KidOf(x)
      <4>1. v # w /\ h # TodoOf(w) /\ h # KidOf(x) /\ task[v] # x
        BY <1>1, <2>1, <3>2, HolderNames DEF Running
      <4>2. Held(h)' = {task[v]} \ {None} /\ Held(h) = {task[v]} \ {None}
        BY <1>1, <3>2, <4>1, HeldBy, HeldByNext
      <4> QED BY <4>1, <4>2
    <3>3. ASSUME NEW b \in Agents, h = TodoOf(b), b # w
          PROVE  Held(h)' = Held(h) /\ from(h) = h /\ x \notin Held(h) /\ h # KidOf(x)
      <4>1. h # TodoOf(w) /\ h # KidOf(x) /\ x \notin Held(h)
        BY <1>2, <3>3, HolderNames
      <4>2. Held(h)' = Held(h)
        BY <1>1, <3>3, HeldBy, HeldByNext
      <4> QED BY <4>1, <4>2
    <3>4. CASE h = TodoOf(w)
      <4>1. Held(h)' = Range(Kids[x]) /\ Held(KidOf(x)) = Range(Kids[x]) /\ h # KidOf(x)
        BY <1>1, <3>4, HeldBy, HeldByNext, HolderNames
      <4> QED BY <1>2, <3>4, <4>1
    <3>5. ASSUME NEW p \in Tasks, h = KidOf(p), p # x
          PROVE  Held(h)' = Held(h) /\ from(h) = h /\ x \notin Held(h) /\ h # KidOf(x)
      <4>1. h # TodoOf(w) /\ h # KidOf(x) /\ x \notin Held(h)
        BY <1>2, <3>5, HolderNames
      <4>2. Held(KidOf(p)) = IF runs[p] = 0 THEN Range(Kids[p]) ELSE {}
        BY HeldBy, Zenon
      <4>3. Held(KidOf(p))' = IF runs'[p] = 0 THEN Range(Kids[p]) ELSE {}
        BY HeldByNext, Zenon
      <4>4. runs'[p] = runs[p]
        BY <1>1, <3>5
      <4>5. Held(KidOf(p))' = Held(KidOf(p))
        BY <4>2, <4>3, <4>4
      <4> QED BY <3>5, <4>1, <4>5
    <3>6. CASE h = KidOf(x)
      BY <1>1, <3>6, HeldByNext
    <3>7. \/ h \in QueueHolders
          \/ \E v \in Workers : h = RunBy(v)
          \/ \E b \in Agents : h = TodoOf(b)
          \/ \E p \in Tasks : h = KidOf(p)
      BY HolderKinds DEF QueueHolders
    <3> QED BY <3>1, <3>2, <3>3, <3>4, <3>5, <3>6, <3>7
  <2>2. Held(RunBy(w))' = {x}
    BY <1>1, HeldByNext
  <2>3. \A h \in Holders : from(h) \in Holders
    BY <1>2
  <2> HIDE DEF from
  <2>4. ASSUME NEW g \in Holders, NEW h \in Holders, g # h, g # RunBy(w), h # RunBy(w)
        PROVE  Held(g)' \cap Held(h)' = {}
    <3>1. CASE g = KidOf(x) \/ h = KidOf(x)
      BY <2>1, <2>4, <3>1
    <3>2. CASE g # KidOf(x) /\ h # KidOf(x)
      <4>1. from(g) # from(h)
        BY <2>4, <3>2 DEF from
      <4>2. Held(from(g)) \cap Held(from(h)) = {}
        BY <1>2, <2>3, <4>1 DEF OneHolder
      <4> QED BY <2>1, <2>4, <4>2
    <3> QED BY <3>1, <3>2
  <2>5. \A g, h \in Holders : g # h => Held(g)' \cap Held(h)' = {}
    BY <2>1, <2>2, <2>4
  <2>6. \A b \in Agents : IsInjective(todo'[b])
    <3>1. IsInjective(Kids[x])
      BY SubmittedOnce DEF IsInjective
    <3> QED BY <1>1, <1>2, <3>1 DEF OneHolder
  <2> QED BY <2>5, <2>6 DEF OneHolder
<1>4. ASSUME NEW t \in Tasks
      PROVE  /\ Unsubmitted(t)' => fut'[t] = "none"
             /\ Placed(t)' => fut'[t] = "pending"
             /\ runs'[t] = IF fut'[t] = "done" \/ Running(t)' THEN 1 ELSE 0
  <2>1. Unsubmitted(t)' => Unsubmitted(t)
    <3>1. ASSUME NEW p \in Tasks, runs'[p] = 0, t \in Range(Kids[p]) PROVE Unsubmitted(t)
      BY <1>1, <3>1 DEF Unsubmitted
    <3>2. ASSUME NEW b \in Agents, t \in Range(todo'[b]),
                 ~(pc'[b] \in {"push", "shared"} /\ t = Head(todo'[b]))
          PROVE  Unsubmitted(t)
      BY <1>1, <3>2 DEF Unsubmitted
    <3> QED BY <3>1, <3>2 DEF Unsubmitted
  <2>2. BeingSubmitted(t)' => BeingSubmitted(t)
    BY <1>1 DEF BeingSubmitted
  <2>3. Waiting(t)' => Waiting(t)
    BY WaitingHeld
  <2>4. Running(t)' <=> Running(t) \/ t = x
    <3>1. task[w] # t
      BY <1>1, Constants
    <3> QED BY <1>1, <3>1 DEF Running
  <2> QED BY <1>1, <1>2, <2>1, <2>2, <2>3, <2>4 DEF FutureInv, Placed
<1>5. FutureInv'
  BY <1>1, <1>2, <1>4 DEF FutureInv
<1>6. SubmitsInFn'
  <2>1. ASSUME NEW v \in Workers, pc'[v] \notin Serving \ {"close"} PROVE todo'[v] = <<>>
    <3>1. v # w
      BY <1>1, <2>1 DEF Serving
    <3> QED BY <1>1, <1>2, <2>1, <3>1, Constants DEF SubmitsInFn
  <2>2. ASSUME NEW v \in Workers, task'[v] # None, NEW j \in Range(Kids[task'[v]])
        PROVE  fut'[j] # "none" \/ j \in Range(todo'[v])
    BY <1>1, <1>2, <2>2, Constants DEF SubmitsInFn
  <2> QED BY <2>1, <2>2 DEF SubmitsInFn
<1> QED BY <1>3, <1>5, <1>6 DEF TaskInv

\* A worker closes the Future of its task: nobody holds the task any more.
LEMMA CloseTaskStep ==
  ASSUME BaseInv, TaskInv, NEW w \in Workers, CloseFuture(w),
         NEW x, x = task[w]
  PROVE  TaskInv'
<1>1. /\ UNCHANGED <<standard, background, dq, todo, runs>>
      /\ OneHolder /\ FutureInv /\ SubmitsInFn
      /\ fut \in [Tasks -> {"none", "pending", "done", "stopped", "full"}]
      /\ pc \in [Agents -> PCs] /\ task \in [Workers -> Tasks \cup {None}]
      /\ todo \in [Agents -> Seq(Tasks)]
      /\ pc' = [pc EXCEPT ![w] = "local"] /\ pc[w] = "close"
      /\ fut' = [fut EXCEPT ![x] = "done"] /\ task' = [task EXCEPT ![w] = None]
  BY DEF CloseFuture, Goto, Resolve, queues, TaskInv, BaseInv, TypeOK
<1>2. /\ x \in Tasks /\ x # None /\ w \in Agents /\ todo[w] = <<>>
      /\ RunBy(w) \in Holders /\ x \in Held(RunBy(w))
  BY <1>1, Constants, HeldBy, AreHolders DEF BaseInv, WorkerInv, Serving, SubmitsInFn
<1>3. /\ fut[x] = "pending" /\ runs[x] = 1
      /\ ~Waiting(x) /\ \A v \in Workers : task[v] = x => v = w
      /\ \A a \in Agents : x \notin Range(todo[a])
  <2>1. Running(x)
    BY <1>2 DEF Running
  <2>2. fut[x] = "pending" /\ runs[x] = 1
    BY <1>1, <1>2, <2>1 DEF FutureInv, Placed
  <2>3. /\ RunBy(w) \notin {InStandard, InBackground}
        /\ \A v : RunBy(w) # InDeque(v) /\ RunBy(w) # TodoOf(v)
        /\ \A v : v # w => RunBy(v) # RunBy(w)
    BY HolderNames
  <2>4. /\ x \notin Range(standard) /\ x \notin Range(background)
        /\ \A v \in Workers : x \notin Range(dq[v])
        /\ \A v \in Workers : task[v] = x => v = w
        /\ \A a \in Agents : x \notin Range(todo[a])
    BY <1>1, <1>2, <2>3, HeldOnce
  <2> QED BY <2>2, <2>4 DEF Waiting, InShared
<1>4. /\ pc'[w] = "local" /\ \A b \in Agents : b # w => pc'[b] = pc[b]
      /\ fut'[x] = "done" /\ \A t \in Tasks : t # x => fut'[t] = fut[t]
      /\ task'[w] = None /\ \A v \in Workers : v # w => task'[v] = task[v]
  BY <1>1, <1>2
<1>5. OneHolder'
  <2>1. ASSUME NEW h \in Holders PROVE Held(h)' \subseteq Held(h)
    <3>1. CASE h = InStandard \/ h = InBackground
      BY <1>1, <3>1, HeldBy, HeldByNext
    <3>2. ASSUME NEW v \in Workers, h = InDeque(v) PROVE Held(h)' \subseteq Held(h)
      BY <1>1, <3>2, HeldBy, HeldByNext
    <3>3. ASSUME NEW v \in Workers, h = RunBy(v) PROVE Held(h)' \subseteq Held(h)
      <4>1. task'[v] \in {task[v], None}
        BY <1>4
      <4> QED BY <3>3, <4>1, HeldBy, HeldByNext
    <3>4. ASSUME NEW b \in Agents, h = TodoOf(b) PROVE Held(h)' \subseteq Held(h)
      BY <1>1, <3>4, HeldBy, HeldByNext
    <3>5. ASSUME NEW q \in Tasks, h = KidOf(q) PROVE Held(h)' \subseteq Held(h)
      BY <1>1, <3>5, HeldBy, HeldByNext
    <3> QED BY <3>1, <3>2, <3>3, <3>4, <3>5, HolderKinds
  <2> QED BY <1>1, <2>1 DEF OneHolder
<1>6. ASSUME NEW t \in Tasks
      PROVE  /\ Unsubmitted(t)' => fut'[t] = "none"
             /\ Placed(t)' => fut'[t] = "pending"
             /\ runs'[t] = IF fut'[t] = "done" \/ Running(t)' THEN 1 ELSE 0
  <2>1. Waiting(t)' <=> Waiting(t)
    BY <1>1 DEF Waiting, InShared
  <2>2. BeingSubmitted(t)' => BeingSubmitted(t)
    BY <1>1, <1>4 DEF BeingSubmitted
  <2>3. Unsubmitted(t)' => Unsubmitted(t)
    BY <1>1, <1>4 DEF Unsubmitted
  <2>4. CASE t = x
    <3>1. ~Unsubmitted(x)
      BY <1>1, <1>2, <1>3 DEF FutureInv
    <3>2. ~BeingSubmitted(x)
      <4> SUFFICES ASSUME NEW b \in Agents, pc[b] \in {"push", "shared"}, Head(todo[b]) = x
                   PROVE  FALSE
        BY DEF BeingSubmitted
      <4>1. todo[b] # <<>> /\ todo[b] \in Seq(Tasks)
        BY <1>1 DEF BaseInv, AgentInv
      <4> QED BY <1>3, <4>1, TailFacts
    <3>3. ~Running(x)'
      BY <1>2, <1>3, <1>4 DEF Running
    <3> QED BY <1>1, <1>3, <1>4, <2>1, <2>2, <2>3, <2>4, <3>1, <3>2, <3>3 DEF Placed
  <2>5. CASE t # x
    <3>1. Running(t)' <=> Running(t)
      <4>1. task[w] # t
        BY <2>5
      <4>2. t # None
        BY Constants
      <4> QED BY <1>4, <4>1, <4>2 DEF Running
    <3> QED BY <1>1, <1>4, <2>1, <2>2, <2>3, <2>5, <3>1 DEF FutureInv, Placed
  <2> QED BY <2>4, <2>5
<1>7. FutureInv'
  BY <1>1, <1>2, <1>6, OneMoreFuture DEF FutureInv
<1>8. SubmitsInFn'
  <2>1. ASSUME NEW v \in Workers, pc'[v] \notin Serving \ {"close"} PROVE todo'[v] = <<>>
    BY <1>1, <1>2, <1>4, <2>1, Constants DEF SubmitsInFn
  <2>2. ASSUME NEW v \in Workers, task'[v] # None, NEW k \in Range(Kids[task'[v]])
        PROVE  fut'[k] # "none" \/ k \in Range(todo'[v])
    <3>1. v # w /\ task'[v] = task[v]
      BY <1>4, <2>2
    <3>2. k \in Tasks
      BY <1>1, <2>2, <3>1, KidsAreTasks
    <3>3. fut[k] # "none" \/ k \in Range(todo[v])
      BY <1>1, <2>2, <3>1 DEF SubmitsInFn
    <3> QED BY <1>1, <1>4, <3>2, <3>3
  <2> QED BY <2>1, <2>2 DEF SubmitsInFn
<1> QED BY <1>5, <1>7, <1>8 DEF TaskInv

\* At first every task is held by who is to submit it, if anybody is.
LEMMA InitTaskInv == Init => TaskInv
<1> SUFFICES ASSUME Init PROVE TaskInv
  OBVIOUS
<1>1. /\ standard = <<>> /\ background = <<>> /\ \A w \in Workers : dq[w] = <<>> /\ task[w] = None
      /\ \A t \in Tasks : fut[t] = "none" /\ runs[t] = 0
      /\ \A w \in Workers : todo[w] = <<>> /\ pc[w] = "local"
      /\ \A c \in Clients : todo[c] = Program[c] /\ pc[c] = "body"
      /\ \A a \in Agents : a \in Workers \/ a \in Clients
  BY Constants DEF Init, Agents
<1>2. ASSUME NEW g \in Holders, NEW h \in Holders, NEW x \in Held(g), x \in Held(h)
      PROVE  g = h
  <2>1. ASSUME NEW k \in Holders, x \in Held(k)
        PROVE  \/ \E c \in Clients : k = TodoOf(c) /\ x \in Range(Program[c])
               \/ \E p \in Tasks : k = KidOf(p) /\ x \in Range(Kids[p])
    <3>1. ASSUME NEW a \in Agents, k = TodoOf(a) PROVE a \in Clients /\ x \in Range(Program[a])
      BY <1>1, <2>1, <3>1, HeldBy, EmptyFacts
    <3>2. ASSUME NEW p \in Tasks, k = KidOf(p) PROVE x \in Range(Kids[p])
      BY <1>1, <2>1, <3>2, HeldBy
    <3>3. k # InStandard /\ k # InBackground /\ \A w \in Workers : k # InDeque(w) /\ k # RunBy(w)
      BY <1>1, <2>1, HeldBy, EmptyFacts
    <3> QED BY <3>1, <3>2, <3>3, HolderKinds
  <2>2. ASSUME NEW c \in Clients, NEW d \in Clients, x \in Range(Program[c]), x \in Range(Program[d])
        PROVE  c = d
    BY <2>2, SubmittedOnce DEF Range
  <2>3. ASSUME NEW p \in Tasks, NEW q \in Tasks, x \in Range(Kids[p]), x \in Range(Kids[q])
        PROVE  p = q
    BY <2>3, SubmittedOnce DEF Range
  <2>4. \A c \in Clients, p \in Tasks : ~(x \in Range(Program[c]) /\ x \in Range(Kids[p]))
    BY SubmittedOnce
  <2> QED BY <1>2, <2>1, <2>2, <2>3, <2>4
<1>3. \A a \in Agents : IsInjective(todo[a])
  <2>1. \A c \in Clients : IsInjective(Program[c])
    BY SubmittedOnce DEF IsInjective
  <2> QED BY <1>1, <2>1, EmptyFacts
<1>4. OneHolder
  BY <1>1, <1>2, <1>3, EmptyFacts DEF OneHolder
<1>5. \A t \in Tasks : ~Placed(t) /\ ~Running(t)
  BY <1>1, EmptyFacts, Constants
     DEF Placed, Waiting, InShared, Running, BeingSubmitted
<1>6. IsFiniteSet({t \in Tasks : fut[t] # "none"})
  <2>1. {t \in Tasks : fut[t] # "none"} = {}
    BY <1>1
  <2> QED BY <2>1, FS_EmptySet
<1>7. FutureInv
  BY <1>1, <1>5, <1>6 DEF FutureInv
<1>8. SubmitsInFn
  BY <1>1 DEF SubmitsInFn
<1> QED BY <1>4, <1>7, <1>8 DEF TaskInv

\* findTask finds a task in a queue, which holds it no more.
LEMMA FindTaskInv ==
  ASSUME BaseInv, TaskInv, NEW w \in Workers, Find(w)
  PROVE  TaskInv'
<1>1. /\ OneHolder /\ TypeOK
      /\ standard \in Seq(Tasks) /\ background \in Seq(Tasks)
      /\ dq \in [Workers -> Seq(Tasks)]
      /\ pc \in [Agents -> PCs] /\ w \in Agents
      /\ IsInjective(standard) /\ IsInjective(background)
      /\ \A v \in Workers : IsInjective(dq[v])
  BY Constants DEF BaseInv, TypeOK, TaskInv, OneHolder
<1>2. ASSUME NEW from \in PCs, NEW to \in PCs, pc[w] = from, Goto(w, to),
             from \notin Serving, to \notin Serving,
             UNCHANGED <<queues, todo, task, fut, runs>>
      PROVE  TaskInv'
  <2>1. /\ pc'[w] = to /\ \A b \in Agents : b # w => pc'[b] = pc[b]
        /\ to \notin {"push", "shared"} /\ from \notin {"push", "shared"}
        /\ from \notin Serving \ {"close"}
    BY <1>1, <1>2 DEF Goto, Serving
  <2>2. \A a \in Agents : pc'[a] \in {"push", "shared"} <=> pc[a] \in {"push", "shared"}
    BY <1>2, <2>1
  <2>3. todo[w] = <<>>
    BY <1>2, <2>1 DEF TaskInv, SubmitsInFn
  <2> QED BY <1>1, <1>2, <2>1, <2>2, <2>3, QuietStep, Constants
<1>3. /\ InStandard \in QueueHolders /\ InBackground \in QueueHolders
      /\ \A v \in Workers : InDeque(v) \in QueueHolders
  BY DEF QueueHolders
<1>4. ASSUME pc[w] \in {"aged", "background"}, background # <<>>, Begin(w, Head(background)),
             background' = Tail(background), UNCHANGED <<standard, dq>>
      PROVE  TaskInv'
  <2>1. PICK x : x = Head(background)
    OBVIOUS
  <2>2. /\ x \in Tasks /\ x \in Range(background)
        /\ IsInjective(background') /\ Range(background') = Range(background) \ {x}
    BY <1>1, <1>4, <2>1, TailFacts, TailOnce
  <2>3. /\ x \in Held(InBackground) /\ Held(InBackground)' = Held(InBackground) \ {x}
        /\ \A g \in QueueHolders : g # InBackground => Held(g)' = Held(g)
    BY <1>4, <2>2, HeldBy, HeldByNext DEF QueueHolders
  <2> QED BY <1>1, <1>3, <1>4, <2>1, <2>2, <2>3, BeginTaskStep DEF Serving
<1>5. ASSUME NEW v \in Workers, pc[w] \notin Serving, dq[v] # <<>>, NEW x, NEW s,
             x \in Tasks, x \in Range(dq[v]), Begin(w, x), IsInjective(s),
             Range(s) = Range(dq[v]) \ {x}, dq' = [dq EXCEPT ![v] = s],
             UNCHANGED <<standard, background>>
      PROVE  TaskInv'
  <2>1. dq'[v] = s /\ \A u \in Workers : u # v => dq'[u] = dq[u]
    BY <1>1, <1>5
  <2>2. x \in Held(InDeque(v)) /\ Held(InDeque(v))' = Held(InDeque(v)) \ {x}
    BY <1>5, <2>1, HeldBy, HeldByNext
  <2>3. \A g \in QueueHolders : g # InDeque(v) => Held(g)' = Held(g)
    BY <1>5, <2>1, HeldBy, HeldByNext DEF QueueHolders
  <2>4. \A u \in Workers : IsInjective(dq'[u])
    BY <1>1, <1>5, <2>1
  <2> QED BY <1>1, <1>3, <1>5, <2>2, <2>3, <2>4, BeginTaskStep
<1>6. CASE PopLocal(w)
  <2>1. /\ dq[w] \in Seq(Tasks) /\ dq[w] # <<>> /\ pc[w] = "local"
        /\ Begin(w, Last(dq[w])) /\ dq' = [dq EXCEPT ![w] = Front(dq[w])]
        /\ UNCHANGED <<standard, background>>
    BY <1>1, <1>6 DEF PopLocal
  <2>2. /\ Last(dq[w]) \in Tasks /\ Last(dq[w]) \in Range(dq[w]) /\ IsInjective(Front(dq[w]))
        /\ Range(Front(dq[w])) = Range(dq[w]) \ {Last(dq[w])}
    BY <1>1, <2>1, FrontFacts, FrontOnce
  <2> QED BY <1>5, <2>1, <2>2 DEF Serving
<1>7. CASE StealWin(w)
  <2>1. PICK v : v = Head(victims[w])
    OBVIOUS
  <2>2. /\ v \in Workers /\ dq[v] # <<>> /\ Head(dq[v]) = aim[w] /\ dq[v] \in Seq(Tasks)
        /\ dq' = [dq EXCEPT ![v] = Tail(dq[v])] /\ Begin(w, aim[w]) /\ pc[w] = "cas"
        /\ UNCHANGED <<standard, background>>
    <3>1. victims[w] # <<>> /\ victims[w] \in Seq(Workers)
      BY <1>1, <1>7 DEF StealWin, BaseInv, WorkerInv, TypeOK
    <3> QED BY <1>1, <1>7, <2>1, <3>1, TailFacts DEF StealWin, Stealable
  <2>3. /\ aim[w] \in Tasks /\ aim[w] \in Range(dq[v]) /\ IsInjective(Tail(dq[v]))
        /\ Range(Tail(dq[v])) = Range(dq[v]) \ {aim[w]}
    BY <1>1, <2>2, TailFacts, TailOnce
  <2> QED BY <1>5, <2>2, <2>3 DEF Serving
<1>8. CASE PopStandard(w)
  <2>1. PICK x : x = Head(standard)
    OBVIOUS
  <2>2. /\ pc[w] = "standard" /\ standard # <<>> /\ Begin(w, x)
        /\ standard' = Tail(standard) /\ UNCHANGED <<background, dq>>
    BY <1>8, <2>1 DEF PopStandard
  <2>3. /\ x \in Tasks /\ x \in Range(standard)
        /\ IsInjective(standard') /\ Range(standard') = Range(standard) \ {x}
    BY <1>1, <2>1, <2>2, TailFacts, TailOnce
  <2>4. /\ x \in Held(InStandard) /\ Held(InStandard)' = Held(InStandard) \ {x}
        /\ \A g \in QueueHolders : g # InStandard => Held(g)' = Held(g)
    BY <2>2, <2>3, HeldBy, HeldByNext DEF QueueHolders
  <2> QED BY <1>1, <1>3, <2>2, <2>3, <2>4, BeginTaskStep DEF Serving
<1>9. CASE PopAged(w) \/ PopBackground(w)
  BY <1>4, <1>9 DEF PopAged, PopBackground
<1>10. CASE LocalEmpty(w) \/ NotAged(w) \/ StandardEmpty(w) \/ BackgroundEmpty(w) \/ EndPass(w)
  BY <1>2, <1>10 DEF LocalEmpty, NotAged, StandardEmpty, BackgroundEmpty, EndPass, Search, PCs, Serving
<1>11. CASE BeginPass(w) \/ GiveUp(w) \/ StealAim(w) \/ StealLose(w)
  BY <1>2, <1>11 DEF BeginPass, GiveUp, StealAim, StealLose, PCs, Serving
<1>12. CASE StealMiss(w)
  BY <1>12, QuietStep, Constants DEF StealMiss, TaskInv, SubmitsInFn
<1> QED BY <1>6, <1>7, <1>8, <1>9, <1>10, <1>11, <1>12 DEF Find

\* Submit: its task is refused, or gets a Future, or is queued; ringing moves none.
LEMMA SubmitTaskInv ==
  ASSUME BaseInv, TaskInv, NEW a \in Agents, Submit(a)
  PROVE  TaskInv'
<1>1. /\ standard \in Seq(Tasks) /\ background \in Seq(Tasks)
      /\ pc \in [Agents -> PCs] /\ Workers \subseteq Agents
      /\ IsInjective(standard) /\ IsInjective(background)
      /\ \A v \in Workers : IsInjective(dq[v])
      /\ pc[a] \in {"push", "shared"} => todo[a] # <<>>
  BY Constants DEF BaseInv, TypeOK, TaskInv, OneHolder, AgentInv
<1>2. /\ InStandard \in QueueHolders /\ InBackground \in QueueHolders
      /\ InStandard # InBackground /\ \A v : InDeque(v) \notin {InStandard, InBackground}
  BY HolderNames DEF QueueHolders
<1>3. ASSUME pc[a] \in {"push", "shared"}
      PROVE  /\ Head(todo[a]) \in Tasks
             /\ Head(todo[a]) \notin Range(standard) /\ Head(todo[a]) \notin Range(background)
  BY <1>1, <1>3, TodoFacts DEF Waiting, InShared
<1>4. CASE SubmitStopped(a)
  <2>1. pc[a] = "body" /\ pc' = pc
    BY <1>4 DEF SubmitStopped
  <2>2. Goto(a, "body")
    BY <1>1, <2>1 DEF Goto
  <2> QED BY <1>4, <2>1, <2>2, RefuseTaskStep DEF SubmitStopped, Resolve
<1>5. CASE SubmitOpen(a)
  <2>1. PICK to : to = IF OwnContext(a, Head(todo[a])) THEN "push" ELSE "shared"
    OBVIOUS
  <2> QED BY <1>5, <2>1, AcceptTaskStep DEF SubmitOpen, Resolve
<1>6. CASE RejectStandard(a) \/ RejectBackground(a)
  BY <1>1, <1>6, RefuseTaskStep DEF RejectStandard, RejectBackground, Rejected, Resolve
<1>7. CASE PushStandard(a)
  <2>1. PICK x : x = Head(todo[a])
    OBVIOUS
  <2>2. /\ standard' = Append(standard, x) /\ UNCHANGED <<background, dq>>
        /\ pc[a] = "shared" /\ Queued(a)
    BY <1>7, <2>1 DEF PushStandard
  <2>3. Range(standard') = Range(standard) \cup {x} /\ IsInjective(standard')
    BY <1>1, <1>3, <2>1, <2>2, AppendOnce
  <2>4. /\ Held(InStandard)' = Held(InStandard) \cup {x}
        /\ \A g \in QueueHolders : g # InStandard => Held(g)' = Held(g)
    BY <2>2, <2>3, HeldBy, HeldByNext DEF QueueHolders
  <2> QED BY <1>1, <1>2, <2>1, <2>2, <2>3, <2>4, QueueTaskStep
<1>8. CASE PushBackground(a)
  <2>1. PICK x : x = Head(todo[a])
    OBVIOUS
  <2>2. /\ background' = Append(background, x) /\ UNCHANGED <<standard, dq>>
        /\ pc[a] = "shared" /\ Queued(a)
    BY <1>8, <2>1 DEF PushBackground
  <2>3. Range(background') = Range(background) \cup {x} /\ IsInjective(background')
    BY <1>1, <1>3, <2>1, <2>2, AppendOnce
  <2>4. /\ Held(InBackground)' = Held(InBackground) \cup {x}
        /\ \A g \in QueueHolders : g # InBackground => Held(g)' = Held(g)
    BY <2>2, <2>3, HeldBy, HeldByNext DEF QueueHolders
  <2> QED BY <1>1, <1>2, <2>1, <2>2, <2>3, <2>4, QueueTaskStep
<1>9. CASE RingToken(a) \/ RingHandOff(a)
  <2>1. /\ pc[a] = "ring" /\ pc'[a] = "body"
        /\ UNCHANGED <<queues, todo, task, fut, runs>>
        /\ \A b \in Agents : \/ b = a \/ pc'[b] = pc[b]
                             \/ b \in Workers /\ pc[b] = "parked" /\ pc'[b] = "local"
    BY <1>1, <1>9 DEF RingToken, RingHandOff, Goto, parked
  <2>2. \A b \in Agents : pc'[b] \in {"push", "shared"} <=> pc[b] \in {"push", "shared"}
    BY <2>1
  <2>3. \A v \in Workers : \/ pc'[v] \in Serving \ {"close"}
                           \/ pc[v] \notin Serving \ {"close"} \/ todo[v] = <<>>
    BY <1>1, <2>1 DEF Serving
  <2> QED BY <2>1, <2>2, <2>3, QuietStep
<1> QED BY <1>4, <1>5, <1>6, <1>7, <1>8, <1>9 DEF Submit

\* Everything a worker does.
LEMMA WorkerTaskInv ==
  ASSUME BaseInv, TaskInv, NEW w \in Workers, Worker(w)
  PROVE  TaskInv'
<1>1. /\ dq \in [Workers -> Seq(Tasks)] /\ pc \in [Agents -> PCs] /\ w \in Agents
      /\ Workers \subseteq Agents
      /\ IsInjective(standard) /\ IsInjective(background)
      /\ \A v \in Workers : IsInjective(dq[v])
      /\ pc[w] = "push" => todo[w] # <<>>
      /\ pc[w] \notin Serving \ {"close"} => todo[w] = <<>>
  BY Constants DEF BaseInv, TypeOK, TaskInv, OneHolder, AgentInv, SubmitsInFn
<1>2. CASE Find(w)
  BY <1>2, FindTaskInv
<1>3. ASSUME NEW from \in PCs, NEW to \in PCs, pc[w] = from, Goto(w, to),
             from \in {"push", "shared"} <=> to \in {"push", "shared"},
             to \in Serving \ {"close"} \/ todo[w] = <<>>,
             UNCHANGED <<queues, todo, task, fut, runs>>
      PROVE  TaskInv'
  <2>1. pc'[w] = to /\ \A b \in Agents : b # w => pc'[b] = pc[b]
    BY <1>1, <1>3 DEF Goto
  <2>2. \A a \in Agents : pc'[a] \in {"push", "shared"} <=> pc[a] \in {"push", "shared"}
    BY <1>3, <2>1
  <2> QED BY <1>1, <1>3, <2>1, <2>2, QuietStep
<1>4. CASE TakeToken(w)
  BY <1>1, <1>3, <1>4 DEF TakeToken, PCs, Serving
<1>5. CASE Park(w)
  BY <1>1, <1>3, <1>5 DEF Park, Search, PCs, Serving
<1>6. CASE Exit(w)
  <2>1. PICK from : from = pc[w]
    OBVIOUS
  <2>2. /\ from \in {"leave", "select"} /\ Goto(w, "exited")
        /\ UNCHANGED <<queues, todo, task, fut, runs>>
    BY <1>6, <2>1 DEF Exit, Search
  <2> QED BY <1>1, <1>3, <2>1, <2>2 DEF PCs, Serving
<1>7. CASE Complete(w)
  BY <1>1, <1>3, <1>7 DEF Complete, Ready, PCs, Serving
<1>8. CASE Spill(w)
  BY <1>1, <1>3, <1>8 DEF Spill, PCs, Serving
<1>9. CASE CloseFuture(w)
  BY <1>9, CloseTaskStep
<1>10. CASE Submit(w)
  BY <1>1, <1>10, SubmitTaskInv
<1>11. CASE PushLocal(w)
  <2>1. PICK x : x = Head(todo[w])
    OBVIOUS
  <2>2. /\ dq' = [dq EXCEPT ![w] = Append(dq[w], x)] /\ UNCHANGED <<standard, background>>
        /\ pc[w] = "push" /\ Queued(w)
    BY <1>1, <1>11, <2>1 DEF PushLocal
  <2>3. x \in Tasks /\ x \notin Range(dq[w])
    BY <1>1, <2>1, <2>2, TodoFacts DEF Waiting, InShared
  <2>4. /\ dq'[w] = Append(dq[w], x) /\ \A v \in Workers : v # w => dq'[v] = dq[v]
        /\ Range(dq'[w]) = Range(dq[w]) \cup {x} /\ IsInjective(dq'[w])
    BY <1>1, <2>2, <2>3, AppendOnce
  <2>5. /\ Held(InDeque(w))' = Held(InDeque(w)) \cup {x} /\ InDeque(w) \in QueueHolders
        /\ \A g \in QueueHolders : g # InDeque(w) => Held(g)' = Held(g)
    BY <2>2, <2>4, HeldBy, HeldByNext DEF QueueHolders
  <2>6. \A v \in Workers : IsInjective(dq'[v])
    BY <1>1, <2>4
  <2> QED BY <1>1, <2>1, <2>2, <2>5, <2>6, QueueTaskStep
<1> QED BY <1>2, <1>4, <1>5, <1>6, <1>7, <1>8, <1>9, <1>10, <1>11 DEF Worker

LEMMA NextTaskInv == BaseInv /\ TaskInv /\ [Next]_vars => TaskInv'
<1> SUFFICES ASSUME BaseInv, TaskInv, [Next]_vars PROVE TaskInv'
  OBVIOUS
<1>1. ASSUME NEW w \in Workers, Worker(w) PROVE TaskInv'
  BY <1>1, WorkerTaskInv
<1>2. ASSUME NEW c \in Clients, Submit(c) PROVE TaskInv'
  BY <1>2, SubmitTaskInv, Constants
<1>3. CASE Stopper
  <2>1. /\ UNCHANGED <<queues, todo, task, fut, runs>>
        /\ \A a \in Agents : \/ pc'[a] = pc[a]
                             \/ a \in Workers /\ pc[a] = "parked" /\ pc'[a] = "leave"
    BY <1>3 DEF Stopper, StopFlag, StopClose, StopReturn, parked
  <2>2. \A a \in Agents : pc'[a] \in {"push", "shared"} <=> pc[a] \in {"push", "shared"}
    BY <2>1
  <2>3. \A v \in Workers : \/ pc'[v] \in Serving \ {"close"}
                           \/ pc[v] \notin Serving \ {"close"} \/ todo[v] = <<>>
    BY <2>1, Constants DEF TaskInv, SubmitsInFn, Serving
  <2> QED BY <2>1, <2>2, <2>3, QuietStep
<1>4. CASE UNCHANGED vars
  BY <1>4, QuietStep, Constants DEF vars, queues, TaskInv, SubmitsInFn
<1> QED BY <1>1, <1>2, <1>3, <1>4 DEF Next

\* No task is held twice, a Future is pending while its task is held, and a fn ends
\* only when it has submitted what it submits.
THEOREM TaskInvHolds == Spec => [](BaseInv /\ TaskInv)
<1>1. Init => BaseInv /\ TaskInv
  BY InitBaseInv, InitTaskInv
<1>2. BaseInv /\ TaskInv /\ [Next]_vars => (BaseInv /\ TaskInv)'
  BY NextBaseInv, NextTaskInv
<1> QED BY <1>1, <1>2, PTL DEF Spec

-----------------------------------------------------------------------------
\* The places of a task, one kind after the other.
LEMMA PlaceKinds ==
  ASSUME NEW t, NEW p
  PROVE  p \in Places(t) <=>
           \/ \E i \in DOMAIN standard : p = <<"standard", i>> /\ standard[i] = t
           \/ \E i \in DOMAIN background : p = <<"background", i>> /\ background[i] = t
           \/ \E w \in Workers : \E i \in DOMAIN dq[w] : p = <<"local", w, i>> /\ dq[w][i] = t
           \/ \E w \in Workers : p = <<"running", w>> /\ task[w] = t
<1> DEFINE local(w) == {<<"local", w, i>> : i \in {j \in DOMAIN dq[w] : dq[w][j] = t}}
           atStandard == {<<"standard", i>> : i \in {j \in DOMAIN standard : standard[j] = t}}
           atBackground == {<<"background", i>> : i \in {j \in DOMAIN background : background[j] = t}}
           running == {<<"running", w>> : w \in {v \in Workers : task[v] = t}}
<1>1. Places(t) = atStandard \cup atBackground \cup (UNION {local(w) : w \in Workers}) \cup running
  BY Zenon DEF Places
<1>2. p \in atStandard <=> \E i \in DOMAIN standard : p = <<"standard", i>> /\ standard[i] = t
  BY Zenon
<1>3. p \in atBackground <=>
        \E i \in DOMAIN background : p = <<"background", i>> /\ background[i] = t
  BY Zenon
<1>4. \A w : p \in local(w) <=> \E i \in DOMAIN dq[w] : p = <<"local", w, i>> /\ dq[w][i] = t
  BY Zenon
<1>5. p \in running <=> \E w \in Workers : p = <<"running", w>> /\ task[w] = t
  BY Zenon
<1> HIDE DEF local, atStandard, atBackground, running
<1>6. p \in Places(t) <=>
        \/ p \in atStandard \/ p \in atBackground \/ p \in running
        \/ \E w \in Workers : p \in local(w)
  BY <1>1, Zenon
<1> QED BY <1>2, <1>3, <1>4, <1>5, <1>6, Zenon

\* The holder and the position of a task determine its place.
LEMMA PlacesFacts ==
  ASSUME OneHolder, NEW t \in Tasks
  PROVE  /\ Places(t) # {} <=> Waiting(t) \/ Running(t)
         /\ \A p, q \in Places(t) : p = q
<1>1. /\ IsInjective(standard) /\ IsInjective(background)
      /\ \A w \in Workers : IsInjective(dq[w])
      /\ t # None
  BY Constants DEF OneHolder
<1>2. ASSUME NEW p \in Places(t)
      PROVE  \/ \E i \in DOMAIN standard : p = <<"standard", i>> /\ standard[i] = t
             \/ \E i \in DOMAIN background : p = <<"background", i>> /\ background[i] = t
             \/ \E w \in Workers : \E i \in DOMAIN dq[w] : p = <<"local", w, i>> /\ dq[w][i] = t
             \/ \E w \in Workers : p = <<"running", w>> /\ task[w] = t
  BY PlaceKinds, Zenon
<1>3. Places(t) # {} => Waiting(t) \/ Running(t)
  BY <1>2 DEF Waiting, InShared, Running, Range
<1>4. Waiting(t) \/ Running(t) => Places(t) # {}
  <2>1. CASE t \in Range(standard)
    <3>1. PICK i \in DOMAIN standard : standard[i] = t
      BY <2>1 DEF Range
    <3>2. <<"standard", i>> \in Places(t)
      BY <3>1, PlaceKinds, Zenon
    <3> QED BY <3>2
  <2>2. CASE t \in Range(background)
    <3>1. PICK i \in DOMAIN background : background[i] = t
      BY <2>2 DEF Range
    <3>2. <<"background", i>> \in Places(t)
      BY <3>1, PlaceKinds, Zenon
    <3> QED BY <3>2
  <2>3. ASSUME NEW w \in Workers, t \in Range(dq[w]) PROVE Places(t) # {}
    <3>1. PICK i \in DOMAIN dq[w] : dq[w][i] = t
      BY <2>3 DEF Range
    <3>2. <<"local", w, i>> \in Places(t)
      BY <3>1, PlaceKinds, Zenon
    <3> QED BY <3>2
  <2>4. ASSUME NEW w \in Workers, task[w] = t PROVE Places(t) # {}
    <3>1. <<"running", w>> \in Places(t)
      BY <2>4, PlaceKinds, Zenon
    <3> QED BY <3>1
  <2> QED BY <2>1, <2>2, <2>3, <2>4 DEF Waiting, InShared, Running
<1>5. ASSUME NEW p \in Places(t), NEW q \in Places(t)
      PROVE  p = q
  <2> DEFINE holds(h) == h \in Holders /\ t \in Held(h)
  <2>1. \A g, h : holds(g) /\ holds(h) => g = h
    BY DEF OneHolder
  <2>2. ASSUME NEW i, i \in DOMAIN standard, standard[i] = t PROVE holds(InStandard)
    BY <2>2, HeldBy, AreHolders DEF Range
  <2>3. ASSUME NEW i, i \in DOMAIN background, background[i] = t PROVE holds(InBackground)
    BY <2>3, HeldBy, AreHolders DEF Range
  <2>4. ASSUME NEW w \in Workers, NEW i, i \in DOMAIN dq[w], dq[w][i] = t PROVE holds(InDeque(w))
    BY <2>4, HeldBy, AreHolders DEF Range
  <2>5. ASSUME NEW w \in Workers, task[w] = t PROVE holds(RunBy(w))
    BY <1>1, <2>5, HeldBy, AreHolders
  <2> HIDE DEF holds
  <2>6. ASSUME NEW i \in DOMAIN standard, p = <<"standard", i>>, standard[i] = t
        PROVE  p = q
    <3>1. /\ \A j \in DOMAIN standard : standard[j] = t => j = i
          /\ \A j \in DOMAIN background : background[j] # t
          /\ \A v \in Workers : task[v] # t /\ \A j \in DOMAIN dq[v] : dq[v][j] # t
      BY <1>1, <2>1, <2>2, <2>3, <2>4, <2>5, <2>6, HolderNames DEF IsInjective
    <3> QED BY <1>2, <2>6, <3>1
  <2>7. ASSUME NEW i \in DOMAIN background, p = <<"background", i>>, background[i] = t
        PROVE  p = q
    <3>1. /\ \A j \in DOMAIN background : background[j] = t => j = i
          /\ \A j \in DOMAIN standard : standard[j] # t
          /\ \A v \in Workers : task[v] # t /\ \A j \in DOMAIN dq[v] : dq[v][j] # t
      BY <1>1, <2>1, <2>2, <2>3, <2>4, <2>5, <2>7, HolderNames DEF IsInjective
    <3> QED BY <1>2, <2>7, <3>1
  <2>8. ASSUME NEW w \in Workers, NEW i \in DOMAIN dq[w], p = <<"local", w, i>>, dq[w][i] = t
        PROVE  p = q
    <3>1. /\ \A j \in DOMAIN standard : standard[j] # t
          /\ \A j \in DOMAIN background : background[j] # t
          /\ \A v \in Workers : task[v] # t
      BY <2>1, <2>2, <2>3, <2>4, <2>5, <2>8, HolderNames
    <3>2. \A v \in Workers : \A j \in DOMAIN dq[v] : dq[v][j] = t => v = w
      BY <2>1, <2>4, <2>8, HolderNames
    <3>3. \A j \in DOMAIN dq[w] : dq[w][j] = t => j = i
      BY <1>1, <2>8 DEF IsInjective
    <3> QED BY <1>2, <2>8, <3>1, <3>2, <3>3
  <2>9. ASSUME NEW w \in Workers, p = <<"running", w>>, task[w] = t
        PROVE  p = q
    <3>1. /\ \A j \in DOMAIN standard : standard[j] # t
          /\ \A j \in DOMAIN background : background[j] # t
          /\ \A v \in Workers : \A j \in DOMAIN dq[v] : dq[v][j] # t
          /\ \A v \in Workers : task[v] = t => v = w
      BY <2>1, <2>2, <2>3, <2>4, <2>5, <2>9, HolderNames
    <3> QED BY <1>2, <2>9, <3>1
  <2> QED BY <1>2, <2>6, <2>7, <2>8, <2>9
<1> QED BY <1>3, <1>4, <1>5

\* An accepted task is in exactly one place until its Future is resolved, and its fn
\* has been called exactly once when it is, however the task was spilled, stolen or
\* raced for (scheduler.go:210-278, worker.go:58-128).
THEOREM ExactlyOnceHolds == Spec => []ExactlyOnce
<1>1. ASSUME BaseInv, TaskInv PROVE ExactlyOnce
  <2> SUFFICES ASSUME NEW t \in Tasks
               PROVE  /\ Cardinality(Places(t))
                           = IF fut[t] = "pending" /\ ~BeingSubmitted(t) THEN 1 ELSE 0
                      /\ runs[t] = IF fut[t] = "done" \/ Running(t) THEN 1 ELSE 0
    BY DEF ExactlyOnce
  <2>1. runs[t] = IF fut[t] = "done" \/ Running(t) THEN 1 ELSE 0
    BY <1>1 DEF TaskInv, FutureInv
  <2>2. /\ Places(t) # {} <=> Waiting(t) \/ Running(t)
        /\ \A p, q \in Places(t) : p = q
    BY <1>1, PlacesFacts DEF TaskInv
  <2>3. CASE fut[t] = "pending" /\ ~BeingSubmitted(t)
    <3>1. PICK p : p \in Places(t)
      BY <1>1, <2>2, <2>3 DEF BaseInv, NoneDropped, Placed
    <3>2. Places(t) = {p}
      BY <2>2, <3>1
    <3> QED BY <2>1, <2>3, <3>2, FS_Singleton
  <2>4. CASE fut[t] # "pending"
    <3>1. Places(t) = {}
      BY <1>1, <2>2, <2>4 DEF TaskInv, FutureInv, Placed
    <3> QED BY <2>1, <2>4, <3>1, FS_EmptySet
  <2>5. CASE BeingSubmitted(t)
    <3>1. PICK a \in Agents : pc[a] \in {"push", "shared"} /\ Head(todo[a]) = t
      BY <2>5 DEF BeingSubmitted
    <3>2. ~Waiting(t) /\ ~Running(t)
      BY <1>1, <3>1, TodoFacts DEF BaseInv, AgentInv
    <3>3. Places(t) = {}
      BY <2>2, <3>2
    <3> QED BY <2>1, <2>5, <3>3, FS_EmptySet
  <2> QED BY <2>3, <2>4, <2>5
<1> QED BY <1>1, TaskInvHolds, PTL

-----------------------------------------------------------------------------
\* The tasks whose Future is in state r, and the workers about to close one.
FutIn(r) == {t \in Tasks : fut[t] = r}
Closing == {w \in Workers : pc[w] = "close"}

LEMMA CountsType ==
  ASSUME BaseInv, TaskInv
  PROVE  /\ \A r : r # "none" => IsFiniteSet(FutIn(r)) /\ Cardinality(FutIn(r)) \in Nat
         /\ IsFiniteSet(Closing) /\ Cardinality(Closing) \in Nat
         /\ \A f \in {"submitted", "completed", "rejectedStandard", "rejectedBackground"} :
              f \in DOMAIN stats /\ stats[f] \in Nat
<1>1. ASSUME NEW r, r # "none" PROVE IsFiniteSet(FutIn(r))
  <2>1. FutIn(r) \in SUBSET {t \in Tasks : fut[t] # "none"}
    BY <1>1 DEF FutIn
  <2> QED BY <2>1, FS_Subset DEF TaskInv, FutureInv
<1>2. IsFiniteSet(Closing)
  <2>1. 0 \in Int /\ NumWorkers - 1 \in Int
    BY Constants
  <2>2. IsFiniteSet(Workers)
    BY <2>1, FS_Interval DEF Workers
  <2>3. Closing \in SUBSET Workers
    BY DEF Closing
  <2> QED BY <2>2, <2>3, FS_Subset
<1> QED BY <1>1, <1>2, FS_CardinalityType DEF BaseInv, TypeOK

\* One Future changes its state.
Moves(x, q, r) == fut[x] = q /\ fut' = [fut EXCEPT ![x] = r]

LEMMA FutMoves ==
  ASSUME BaseInv, TaskInv, NEW x \in Tasks, NEW q, NEW r, q # r, r # "none", Moves(x, q, r)
  PROVE  /\ Cardinality(FutIn(r)') = Cardinality(FutIn(r)) + 1
         /\ q # "none" => Cardinality(FutIn(q)') = Cardinality(FutIn(q)) - 1
         /\ \A s : s \notin {q, r} => FutIn(s)' = FutIn(s)
<1>1. /\ fut[x] = q /\ fut'[x] = r
      /\ \A t \in Tasks : t # x => fut'[t] = fut[t]
  BY DEF BaseInv, TypeOK, Moves
<1>2. FutIn(r)' = FutIn(r) \cup {x} /\ x \notin FutIn(r)
  BY <1>1 DEF FutIn
<1>3. FutIn(q)' = FutIn(q) \ {x} /\ x \in FutIn(q)
  BY <1>1 DEF FutIn
<1>4. \A s : s \notin {q, r} => FutIn(s)' = FutIn(s)
  BY <1>1 DEF FutIn
<1>5. IsFiniteSet(FutIn(r))
  BY CountsType
<1>6. Cardinality(FutIn(r)') = Cardinality(FutIn(r)) + 1
  BY <1>2, <1>5, FS_AddElement
<1>7. ASSUME q # "none" PROVE Cardinality(FutIn(q)') = Cardinality(FutIn(q)) - 1
  <2>1. IsFiniteSet(FutIn(q))
    BY <1>7, CountsType
  <2> QED BY <1>3, <2>1, FS_RemoveElement
<1> QED BY <1>4, <1>6, <1>7

\* The balance, with the sets named.
Balance ==
  /\ stats.completed = Cardinality(FutIn("done")) + Cardinality(Closing)
  /\ stats.rejectedStandard + stats.rejectedBackground = Cardinality(FutIn("full"))
  /\ stats.submitted = stats.completed + Cardinality(FutIn("full"))
       + Cardinality(FutIn("pending")) - Cardinality(Closing)

LEMMA BalanceIs == StatsBalance <=> Balance
BY DEF StatsBalance, Balance, FutIn, Closing

\* A step in which no Future changes and no fn ends, and none of the four counters.
LEMMA StillBalanced ==
  ASSUME BaseInv, Balance, fut' = fut,
         \A w \in Workers : pc'[w] = "close" <=> pc[w] = "close",
         \/ stats' = stats
         \/ \E f \in {"aged", "stolen"} : Count(f)
  PROVE  Balance'
<1>1. /\ Closing' = Closing /\ FutIn("done")' = FutIn("done")
      /\ FutIn("full")' = FutIn("full") /\ FutIn("pending")' = FutIn("pending")
  BY DEF Closing, FutIn
<1>2. /\ stats'.completed = stats.completed /\ stats'.submitted = stats.submitted
      /\ stats'.rejectedStandard = stats.rejectedStandard
      /\ stats'.rejectedBackground = stats.rejectedBackground
  <2>1. DOMAIN stats = {"submitted", "completed", "stolen", "aged", "rejectedStandard",
                        "rejectedBackground"}
    BY DEF BaseInv, TypeOK
  <2>2. ASSUME NEW f \in {"aged", "stolen"}, Count(f)
        PROVE  /\ stats'.completed = stats.completed /\ stats'.submitted = stats.submitted
               /\ stats'.rejectedStandard = stats.rejectedStandard
               /\ stats'.rejectedBackground = stats.rejectedBackground
    BY <2>1, <2>2 DEF Count
  <2> QED BY <2>2
<1> QED BY <1>1, <1>2 DEF Balance


\* Submit counts the task it gives a Future, and the one it rejects.
LEMMA SubmitBalance ==
  ASSUME BaseInv, TaskInv, Balance, NEW a \in Agents, Submit(a)
  PROVE  Balance'
<1>1. /\ pc \in [Agents -> PCs] /\ Workers \subseteq Agents
      /\ DOMAIN stats = {"submitted", "completed", "stolen", "aged", "rejectedStandard",
                         "rejectedBackground"}
      /\ pc[a] \in {"push", "shared"} => todo[a] # <<>>
      /\ stats.submitted \in Nat /\ stats.completed \in Nat
      /\ stats.rejectedStandard \in Nat /\ stats.rejectedBackground \in Nat
      /\ Cardinality(Closing) \in Nat /\ Cardinality(FutIn("done")) \in Nat
      /\ Cardinality(FutIn("full")) \in Nat /\ Cardinality(FutIn("pending")) \in Nat
  BY CountsType, Constants DEF BaseInv, TypeOK, AgentInv
<1>2. ASSUME NEW l \in PCs, l # "close", pc[a] # "close", Goto(a, l)
      PROVE  Closing' = Closing /\ \A w \in Workers : pc'[w] = "close" <=> pc[w] = "close"
  BY <1>1, <1>2 DEF Goto, Closing
<1>3. ASSUME todo[a] # <<>>
      PROVE  /\ Head(todo[a]) \in Tasks
             /\ pc[a] = "body" => fut[Head(todo[a])] = "none"
             /\ pc[a] = "shared" => fut[Head(todo[a])] = "pending"
  BY <1>3, TodoFacts DEF TaskInv, FutureInv, Unsubmitted, Placed, BeingSubmitted
<1>4. CASE SubmitStopped(a)
  <2>1. PICK x : x = Head(todo[a])
    OBVIOUS
  <2>2. /\ fut' = [fut EXCEPT ![x] = "stopped"] /\ UNCHANGED <<pc, stats>>
        /\ x \in Tasks /\ fut[x] = "none"
    BY <1>3, <1>4, <2>1 DEF SubmitStopped, Resolve
  <2>3. Closing' = Closing
    BY <2>2 DEF Closing
  <2>4. /\ FutIn("done")' = FutIn("done") /\ FutIn("full")' = FutIn("full")
        /\ FutIn("pending")' = FutIn("pending")
    <3>1. Moves(x, "none", "stopped")
      BY <2>2 DEF Moves
    <3> QED BY <2>2, <3>1, FutMoves
  <2> QED BY <2>2, <2>3, <2>4 DEF Balance
<1>5. CASE SubmitOpen(a)
  <2>1. PICK x, l : x = Head(todo[a]) /\ l = IF OwnContext(a, x) THEN "push" ELSE "shared"
    OBVIOUS
  <2>2. /\ fut' = [fut EXCEPT ![x] = "pending"] /\ Goto(a, l) /\ pc[a] = "body"
        /\ x \in Tasks /\ fut[x] = "none" /\ l \in PCs /\ l # "close"
        /\ stats' = [stats EXCEPT !["submitted"] = @ + 1]
    BY <1>3, <1>5, <2>1 DEF SubmitOpen, Resolve, Count, PCs
  <2>3. Closing' = Closing
    BY <1>2, <2>2
  <2>4. /\ FutIn("done")' = FutIn("done") /\ FutIn("full")' = FutIn("full")
        /\ Cardinality(FutIn("pending")') = Cardinality(FutIn("pending")) + 1
    <3>1. Moves(x, "none", "pending")
      BY <2>2 DEF Moves
    <3> QED BY <2>2, <3>1, FutMoves
  <2>5. /\ stats'.submitted = stats.submitted + 1 /\ stats'.completed = stats.completed
        /\ stats'.rejectedStandard = stats.rejectedStandard
        /\ stats'.rejectedBackground = stats.rejectedBackground
    BY <1>1, <2>2
  <2>6. stats'.completed = Cardinality(FutIn("done")') + Cardinality(Closing')
    BY <1>1, <2>3, <2>4, <2>5 DEF Balance
  <2>7. stats'.rejectedStandard + stats'.rejectedBackground = Cardinality(FutIn("full")')
    BY <1>1, <2>3, <2>4, <2>5 DEF Balance
  <2>8. stats'.submitted = stats'.completed + Cardinality(FutIn("full")')
         + Cardinality(FutIn("pending")') - Cardinality(Closing')
    <3>1. stats.submitted = stats.completed + Cardinality(FutIn("full"))
            + Cardinality(FutIn("pending")) - Cardinality(Closing)
      BY DEF Balance
    <3> QED BY <1>1, <2>3, <2>4, <2>5, <3>1
  <2> QED BY <2>6, <2>7, <2>8 DEF Balance
<1>6. CASE RejectStandard(a) \/ RejectBackground(a)
  <2>1. PICK x : x = Head(todo[a])
    OBVIOUS
  <2>2. PICK f \in {"rejectedStandard", "rejectedBackground"} :
          stats' = [stats EXCEPT ![f] = @ + 1]
    BY <1>6 DEF RejectStandard, RejectBackground, Rejected, Count
  <2>3. /\ fut' = [fut EXCEPT ![x] = "full"] /\ Goto(a, "body") /\ pc[a] = "shared"
        /\ x \in Tasks /\ fut[x] = "pending"
    BY <1>1, <1>3, <1>6, <2>1 DEF RejectStandard, RejectBackground, Rejected, Resolve
  <2>4. Closing' = Closing
    BY <1>2, <2>3 DEF PCs
  <2>5. /\ FutIn("done")' = FutIn("done")
        /\ Cardinality(FutIn("full")') = Cardinality(FutIn("full")) + 1
        /\ Cardinality(FutIn("pending")') = Cardinality(FutIn("pending")) - 1
    <3>1. Moves(x, "pending", "full")
      BY <2>3 DEF Moves
    <3> QED BY <2>3, <3>1, FutMoves
  <2>6. /\ stats'.submitted = stats.submitted /\ stats'.completed = stats.completed
        /\ stats'.rejectedStandard + stats'.rejectedBackground
             = stats.rejectedStandard + stats.rejectedBackground + 1
    BY <1>1, <2>2
  <2>7. stats'.completed = Cardinality(FutIn("done")') + Cardinality(Closing')
    BY <1>1, <2>4, <2>5, <2>6 DEF Balance
  <2>8. stats'.rejectedStandard + stats'.rejectedBackground = Cardinality(FutIn("full")')
    BY <1>1, <2>4, <2>5, <2>6 DEF Balance
  <2>9. stats'.submitted = stats'.completed + Cardinality(FutIn("full")')
         + Cardinality(FutIn("pending")') - Cardinality(Closing')
    <3>1. stats.submitted = stats.completed + Cardinality(FutIn("full"))
            + Cardinality(FutIn("pending")) - Cardinality(Closing)
      BY DEF Balance
    <3> QED BY <1>1, <2>4, <2>5, <2>6, <3>1
  <2> QED BY <2>7, <2>8, <2>9 DEF Balance
<1>7. CASE PushStandard(a) \/ PushBackground(a)
  BY <1>2, <1>7, StillBalanced DEF PushStandard, PushBackground, Queued, PCs
<1>8. CASE RingToken(a)
  BY <1>2, <1>8, StillBalanced DEF RingToken, PCs
<1>9. CASE RingHandOff(a)
  <2>1. \A w \in Workers : pc'[w] = "close" <=> pc[w] = "close"
    BY <1>1, <1>9 DEF RingHandOff, parked
  <2> QED BY <1>9, <2>1, StillBalanced DEF RingHandOff
<1> QED BY <1>4, <1>5, <1>6, <1>7, <1>8, <1>9 DEF Submit

\* A task that ends is counted first, and its Future closed later.
LEMMA CompleteBalance ==
  ASSUME BaseInv, TaskInv, Balance, NEW w \in Workers, Complete(w)
  PROVE  Balance'
<1>1. /\ pc \in [Agents -> PCs] /\ Workers \subseteq Agents
      /\ DOMAIN stats = {"submitted", "completed", "stolen", "aged", "rejectedStandard",
                         "rejectedBackground"}
      /\ stats.completed \in Nat /\ stats.submitted \in Nat
      /\ Cardinality(Closing) \in Nat /\ Cardinality(FutIn("done")) \in Nat
      /\ Cardinality(FutIn("full")) \in Nat /\ Cardinality(FutIn("pending")) \in Nat
      /\ IsFiniteSet(Closing)
  BY CountsType, Constants DEF BaseInv, TypeOK
<1>2. /\ stats' = [stats EXCEPT !["completed"] = @ + 1] /\ fut' = fut
      /\ pc[w] = "body" /\ pc' = [pc EXCEPT ![w] = "close"]
  BY DEF Complete, Ready, Count, Goto
<1>3. Closing' = Closing \cup {w} /\ w \notin Closing
  BY <1>1, <1>2 DEF Closing
<1>4. Cardinality(Closing') = Cardinality(Closing) + 1
  BY <1>1, <1>3, FS_AddElement
<1>5. /\ FutIn("done")' = FutIn("done") /\ FutIn("full")' = FutIn("full")
      /\ FutIn("pending")' = FutIn("pending")
  BY <1>2 DEF FutIn
<1>6. /\ stats'.completed = stats.completed + 1 /\ stats'.submitted = stats.submitted
      /\ stats'.rejectedStandard = stats.rejectedStandard
      /\ stats'.rejectedBackground = stats.rejectedBackground
  BY <1>1, <1>2
<1>7. stats'.completed = Cardinality(FutIn("done")') + Cardinality(Closing')
  BY <1>1, <1>4, <1>5, <1>6 DEF Balance
<1>8. stats'.rejectedStandard + stats'.rejectedBackground = Cardinality(FutIn("full")')
  BY <1>1, <1>5, <1>6 DEF Balance
<1>9. stats'.submitted = stats'.completed + Cardinality(FutIn("full")')
       + Cardinality(FutIn("pending")') - Cardinality(Closing')
  <2>1. stats.submitted = stats.completed + Cardinality(FutIn("full"))
          + Cardinality(FutIn("pending")) - Cardinality(Closing)
    BY DEF Balance
  <2> QED BY <1>1, <1>4, <1>5, <1>6, <2>1
<1> QED BY <1>7, <1>8, <1>9 DEF Balance

LEMMA CloseBalance ==
  ASSUME BaseInv, TaskInv, Balance, NEW w \in Workers, CloseFuture(w)
  PROVE  Balance'
<1>1. /\ pc \in [Agents -> PCs] /\ Workers \subseteq Agents
      /\ stats.completed \in Nat /\ stats.submitted \in Nat
      /\ Cardinality(Closing) \in Nat /\ Cardinality(FutIn("done")) \in Nat
      /\ Cardinality(FutIn("full")) \in Nat /\ Cardinality(FutIn("pending")) \in Nat
      /\ IsFiniteSet(Closing)
  BY CountsType, Constants DEF BaseInv, TypeOK
<1>2. PICK x : x = task[w]
  OBVIOUS
<1>3. /\ stats' = stats /\ fut' = [fut EXCEPT ![x] = "done"]
      /\ pc[w] = "close" /\ pc' = [pc EXCEPT ![w] = "local"]
  BY <1>2 DEF CloseFuture, Resolve, Goto
<1>4. x \in Tasks /\ fut[x] = "pending"
  <2>1. x \in Tasks \cup {None} /\ x # None
    BY <1>2, <1>3 DEF BaseInv, TypeOK, WorkerInv, Serving
  <2> QED BY <1>2, <2>1 DEF TaskInv, FutureInv, Placed, Running
<1>5. Closing' = Closing \ {w} /\ w \in Closing
  BY <1>1, <1>3 DEF Closing
<1>6. Cardinality(Closing') = Cardinality(Closing) - 1
  BY <1>1, <1>5, FS_RemoveElement
<1>7. /\ Cardinality(FutIn("done")') = Cardinality(FutIn("done")) + 1
      /\ Cardinality(FutIn("pending")') = Cardinality(FutIn("pending")) - 1
      /\ FutIn("full")' = FutIn("full")
  <2>1. Moves(x, "pending", "done")
    BY <1>3, <1>4 DEF Moves
  <2> QED BY <1>4, <2>1, FutMoves
<1>8. stats'.completed = Cardinality(FutIn("done")') + Cardinality(Closing')
  BY <1>1, <1>3, <1>6, <1>7 DEF Balance
<1>9. stats'.rejectedStandard + stats'.rejectedBackground = Cardinality(FutIn("full")')
  BY <1>3, <1>7 DEF Balance
<1>10. stats'.submitted = stats'.completed + Cardinality(FutIn("full")')
       + Cardinality(FutIn("pending")') - Cardinality(Closing')
  <2>1. stats.submitted = stats.completed + Cardinality(FutIn("full"))
          + Cardinality(FutIn("pending")) - Cardinality(Closing)
    BY DEF Balance
  <2> QED BY <1>1, <1>3, <1>6, <1>7, <2>1
<1> QED BY <1>8, <1>9, <1>10 DEF Balance

LEMMA NextBalance == BaseInv /\ TaskInv /\ Balance /\ [Next]_vars => Balance'
<1> SUFFICES ASSUME BaseInv, TaskInv, Balance, [Next]_vars PROVE Balance'
  OBVIOUS
<1>1. pc \in [Agents -> PCs] /\ Workers \subseteq Agents /\ Clients \subseteq Agents
  BY Constants DEF BaseInv, TypeOK
<1>2. ASSUME NEW w \in Workers, Worker(w) PROVE Balance'
  <2>1. ASSUME NEW l \in PCs, l # "close", pc[w] # "close", Goto(w, l), fut' = fut,
               stats' = stats \/ Count("aged") \/ Count("stolen")
        PROVE  Balance'
    <3>1. \A v \in Workers : pc'[v] = "close" <=> pc[v] = "close"
      BY <1>1, <2>1 DEF Goto
    <3> QED BY <2>1, <3>1, StillBalanced
  <2>2. CASE PopLocal(w) \/ PopAged(w) \/ PopStandard(w) \/ PopBackground(w) \/ StealWin(w)
    BY <2>1, <2>2 DEF PopLocal, PopAged, PopStandard, PopBackground, StealWin, Begin, PCs
  <2>3. CASE \/ LocalEmpty(w) \/ NotAged(w) \/ StandardEmpty(w) \/ BackgroundEmpty(w)
             \/ EndPass(w) \/ Park(w)
    BY <2>1, <2>3 DEF LocalEmpty, NotAged, StandardEmpty, BackgroundEmpty, EndPass, Park,
                      Search, PCs
  <2>4. CASE Exit(w)
    BY <2>1, <2>4 DEF Exit, Search, PCs
  <2>5. CASE \/ BeginPass(w) \/ GiveUp(w) \/ StealAim(w) \/ StealLose(w) \/ TakeToken(w)
             \/ Spill(w) \/ PushLocal(w)
    BY <2>1, <2>5 DEF BeginPass, GiveUp, StealAim, StealLose, TakeToken, Spill, PushLocal,
                      Queued, PCs
  <2>6. CASE StealMiss(w)
    BY <2>6, StillBalanced DEF StealMiss
  <2>7. CASE Complete(w)
    BY <2>7, CompleteBalance
  <2>8. CASE CloseFuture(w)
    BY <2>8, CloseBalance
  <2>9. CASE Submit(w)
    BY <1>1, <2>9, SubmitBalance
  <2> QED BY <1>2, <2>2, <2>3, <2>4, <2>5, <2>6, <2>7, <2>8, <2>9 DEF Worker, Find
<1>3. ASSUME NEW c \in Clients, Submit(c) PROVE Balance'
  BY <1>1, <1>3, SubmitBalance
<1>4. CASE Stopper
  <2>1. \A w \in Workers : pc'[w] = "close" <=> pc[w] = "close"
    BY <1>1, <1>4 DEF Stopper, StopFlag, StopClose, StopReturn, parked
  <2> QED BY <1>4, <2>1, StillBalanced DEF Stopper, StopFlag, StopClose, StopReturn
<1>5. CASE UNCHANGED vars
  BY <1>5, StillBalanced DEF vars
<1> QED BY <1>2, <1>3, <1>4, <1>5 DEF Next

LEMMA InitBalance == Init => Balance
<1> SUFFICES ASSUME Init PROVE Balance
  OBVIOUS
<1>1. FutIn("done") = {} /\ FutIn("full") = {} /\ FutIn("pending") = {} /\ Closing = {}
  BY Constants DEF Init, FutIn, Closing
<1>2. /\ stats.submitted = 0 /\ stats.completed = 0
      /\ stats.rejectedStandard = 0 /\ stats.rejectedBackground = 0
  BY DEF Init
<1> QED BY <1>1, <1>2, FS_EmptySet DEF Balance

\* Every task counted as submitted is counted as completed or rejected, or is still
\* unfinished, and none is counted completed too late for who waited for it
\* (scheduler.go:210-278, 303-313).
THEOREM StatsBalanceHolds == Spec => []StatsBalance
<1>1. BaseInv /\ TaskInv /\ [Next]_vars => (BaseInv /\ TaskInv)'
  BY NextBaseInv, NextTaskInv
<1>2. BaseInv /\ TaskInv /\ Balance /\ [Next]_vars => Balance'
  BY NextBalance
<1>3. Init => BaseInv /\ TaskInv /\ Balance
  BY InitBaseInv, InitTaskInv, InitBalance
<1> QED BY <1>1, <1>2, <1>3, BalanceIs, PTL DEF Spec

-----------------------------------------------------------------------------
\* A remainder, of what is less than one turn away.
LEMMA ModFacts ==
  ASSUME NEW n \in Nat \ {0}, NEW x \in Int
  PROVE  /\ 0 <= x /\ x < n => x % n = x
         /\ n <= x /\ x < 2 * n => x % n = x - n
         /\ -n <= x /\ x < 0 => x % n = x + n
OBVIOUS

\* A pass of steals comes to every other worker.
LEMMA PeersAll ==
  ASSUME NEW w \in Workers, NEW start \in Workers, NEW v \in Workers, v # w
  PROVE  v \in Range(Peers(w, start))
<1>1. /\ NumWorkers \in Nat \ {0} /\ w \in Int /\ start \in Int /\ v \in Int
      /\ 0 <= w /\ w < NumWorkers /\ 0 <= start /\ start < NumWorkers /\ 0 <= v /\ v < NumWorkers
  BY Constants DEF Workers
<1>2. PICK d : d = (w - start) % NumWorkers
  OBVIOUS
<1>3. PICK e : e = IF start <= v THEN v - start ELSE v - start + NumWorkers
  OBVIOUS
<1>4. d = IF start <= w THEN w - start ELSE w - start + NumWorkers
  <2>1. PICK x \in Int : x = w - start /\ -NumWorkers <= x /\ x < NumWorkers
    BY <1>1
  <2>2. d = x % NumWorkers
    BY <1>2, <2>1
  <2>3. ASSUME 0 <= x PROVE x % NumWorkers = x
    BY <1>1, <2>1, <2>3, ModFacts
  <2>4. ASSUME x < 0 PROVE x % NumWorkers = x + NumWorkers
    BY <1>1, <2>1, <2>4, ModFacts
  <2>5. 0 <= x <=> start <= w
    BY <1>1, <2>1
  <2>6. ~(0 <= x) => x < 0
    BY <2>1
  <2> HIDE <1>2
  <2> QED BY <1>1, <2>1, <2>2, <2>3, <2>4, <2>5, <2>6
<1>5. /\ d \in Int /\ e \in Int /\ 0 <= d /\ 0 <= e /\ d < NumWorkers /\ e < NumWorkers
      /\ d # e /\ (start + e = v \/ start + e = v + NumWorkers)
  BY <1>1, <1>3, <1>4
<1>6. (start + e) % NumWorkers = v
  <2>1. PICK x \in Int : x = start + e
    BY <1>1, <1>5
  <2>2. CASE x = v
    BY <1>1, <2>1, <2>2, ModFacts
  <2>3. CASE x = v + NumWorkers
    BY <1>1, <2>1, <2>3, ModFacts
  <2> QED BY <1>5, <2>1, <2>2, <2>3
<1>7. DOMAIN Peers(w, start) = 1 .. NumWorkers - 1
  BY DEF Peers
<1>8. CASE e < d
  <2>1. /\ e + 1 \in 1 .. NumWorkers - 1 /\ e + 1 <= (w - start) % NumWorkers
        /\ start + (e + 1) - 1 = start + e
    BY <1>1, <1>2, <1>5, <1>8
  <2>2. Peers(w, start)[e + 1] = v
    BY <1>6, <2>1 DEF Peers
  <2> QED BY <1>7, <2>1, <2>2 DEF Range
<1>9. CASE e > d
  <2>1. e \in 1 .. NumWorkers - 1 /\ ~(e <= (w - start) % NumWorkers)
    BY <1>1, <1>2, <1>5, <1>9
  <2>2. Peers(w, start)[e] = v
    BY <1>6, <2>1 DEF Peers
  <2> QED BY <1>7, <2>1, <2>2 DEF Range
<1> QED BY <1>5, <1>8, <1>9


\* Whoever pops, pops a task that is queued, and then runs it.
LEMMA PopFacts ==
  ASSUME BaseInv, TaskInv, NEW w \in Workers,
         PopLocal(w) \/ PopAged(w) \/ PopStandard(w) \/ PopBackground(w) \/ StealWin(w)
  PROVE  /\ pc[w] \notin Serving /\ pc[w] # "parked"
         /\ \E x \in Tasks : \E k \in QueueHolders : x \in Held(k) /\ Begin(w, x)
<1>1. /\ standard \in Seq(Tasks) /\ background \in Seq(Tasks)
      /\ dq \in [Workers -> Seq(Tasks)]
  BY DEF BaseInv, TypeOK
<1>2. /\ InStandard \in QueueHolders /\ InBackground \in QueueHolders
      /\ \A v \in Workers : InDeque(v) \in QueueHolders
  BY DEF QueueHolders
<1>3. pc[w] \notin Serving /\ pc[w] # "parked"
  BY DEF PopLocal, PopAged, PopStandard, PopBackground, StealWin, Serving
<1>4. CASE PopLocal(w)
  <2>1. Last(dq[w]) \in Tasks /\ Last(dq[w]) \in Range(dq[w])
    <3>1. dq[w] \in Seq(Tasks) /\ dq[w] # <<>> /\ IsInjective(dq[w])
      BY <1>1, <1>4 DEF PopLocal, TaskInv, OneHolder
    <3> QED BY <3>1, FrontFacts, FrontOnce
  <2> QED BY <1>2, <1>3, <1>4, <2>1, HeldBy DEF PopLocal
<1>5. CASE PopAged(w) \/ PopBackground(w)
  <2>1. Head(background) \in Tasks /\ Head(background) \in Range(background)
    BY <1>1, <1>5, TailFacts DEF PopAged, PopBackground
  <2> QED BY <1>2, <1>3, <1>5, <2>1, HeldBy DEF PopAged, PopBackground
<1>6. CASE PopStandard(w)
  <2>1. Head(standard) \in Tasks /\ Head(standard) \in Range(standard)
    BY <1>1, <1>6, TailFacts DEF PopStandard
  <2> QED BY <1>2, <1>3, <1>6, <2>1, HeldBy DEF PopStandard
<1>7. CASE StealWin(w)
  <2>1. PICK v : v = Head(victims[w])
    OBVIOUS
  <2>2. v \in Workers /\ dq[v] # <<>> /\ Head(dq[v]) = aim[w] /\ dq[v] \in Seq(Tasks)
    <3>1. victims[w] # <<>> /\ victims[w] \in Seq(Workers)
      BY <1>7 DEF StealWin, BaseInv, WorkerInv, TypeOK
    <3> QED BY <1>1, <1>7, <2>1, <3>1, TailFacts DEF StealWin, Stealable
  <2>3. aim[w] \in Tasks /\ aim[w] \in Range(dq[v])
    BY <2>2, TailFacts
  <2> QED BY <1>2, <1>3, <1>7, <2>2, <2>3, HeldBy DEF StealWin
<1> QED BY <1>4, <1>5, <1>6, <1>7

\* A worker whom a step leaves alone still misses nothing, ...
LEMMA StillMisses ==
  ASSUME NEW w \in Workers, MissedNothing(w), UNCHANGED queues,
         pc'[w] = pc[w], pass'[w] = pass[w], victims'[w] = victims[w], aim'[w] = aim[w]
  PROVE  MissedNothing(w)'
<1>1. UNCHANGED <<standard, background, dq>>
  BY DEF queues
<1>2. Stealable(w) => Stealable(w)'
  BY <1>1 DEF Stealable
<1> QED BY <1>1, <1>2 DEF MissedNothing

\* ... and waits for nothing, if nothing it waits for becomes pending.
LEMMA StillUnworried ==
  ASSUME NEW w \in Workers, Unworried(w),
         pc'[w] = pc[w], task'[w] = task[w], todo'[w] = todo[w],
         \A k \in Waits[task[w]] : fut'[k] = "pending" => fut[k] = "pending"
  PROVE  Unworried(w)'
BY DEF Unworried

\* A worker that starts its search has missed nothing yet.
LEMMA SearchStarts ==
  ASSUME NEW w \in Workers, pc'[w] = "local", pass'[w] = 0
  PROVE  MissedNothing(w)'
BY Constants, SchedulerAssumption DEF MissedNothing

\* What workers wait for, they have submitted or will: WaitsForOwnKids.
LEMMA WaitsFacts ==
  ASSUME BaseInv, TaskInv, WaitsForOwnKids, NEW w \in Workers, pc[w] \in Serving
  PROVE  /\ task[w] \in Tasks
         /\ \A k \in Waits[task[w]] :
              k \in Tasks /\ k \in Range(Kids[task[w]])
              /\ (fut[k] = "none" => k \in Range(todo[w]))
<1>1. task[w] \in Tasks /\ task[w] # None
  BY DEF BaseInv, TypeOK, WorkerInv
<1>2. Range(Kids[task[w]]) \subseteq Tasks
  BY <1>1, KidsAreTasks
<1>3. Waits[task[w]] \subseteq Range(Kids[task[w]])
  BY <1>1 DEF WaitsForOwnKids
<1>4. \A k \in Range(Kids[task[w]]) : fut[k] # "none" \/ k \in Range(todo[w])
  BY <1>1 DEF TaskInv, SubmitsInFn
<1> QED BY <1>1, <1>2, <1>3, <1>4

\* Whoever pops a task has nothing to wait for yet.
LEMMA BeginWake ==
  ASSUME BaseInv, TaskInv, WakeInv, WaitsForOwnKids, NEW w \in Workers,
         pc[w] \notin Serving, pc[w] # "parked", NEW x \in Tasks,
         NEW k \in QueueHolders, x \in Held(k), Begin(w, x)
  PROVE  WakeInv'
<1>1. /\ runs[x] = 0 /\ UNCHANGED fut /\ task'[w] = x
      /\ pc'[w] = "body" /\ \A b \in Agents : b # w => pc'[b] = pc[b]
      /\ UNCHANGED wake
  <2>1. UNCHANGED <<wake, fut>>
    BY DEF Begin
  <2> QED BY <2>1, BeginFacts
<1>2. pass'[w] = 0 /\ \A v \in Workers : v # w => pass'[v] = pass[v]
  BY DEF Begin, BaseInv, TypeOK
<1>3. \A j \in Waits[x] : fut[j] = "none"
  <2>1. \A j \in Waits[x] : j \in Range(Kids[x]) /\ j \in Tasks
    BY KidsAreTasks DEF WaitsForOwnKids
  <2> QED BY <1>1, <2>1 DEF TaskInv, FutureInv, Unsubmitted
<1>4. Unworried(w)'
  BY <1>1, <1>3 DEF Unworried, Serving
<1>5. parked' = parked
  BY <1>1, Constants DEF parked
<1> QED BY <1>1, <1>2, <1>4, <1>5, Constants DEF WakeInv


\* A search that goes on, or ends, leaves the queues to whom they were left before.
LEMMA SearchWake ==
  ASSUME WakeInv, NEW w \in Workers, pc[w] \notin Serving, pc[w] # "parked",
         UNCHANGED <<queues, wake, todo, task, fut>>,
         \A b \in Agents : b # w => pc'[b] = pc[b],
         \A v \in Workers : v # w =>
           pass'[v] = pass[v] /\ victims'[v] = victims[v] /\ aim'[v] = aim[v],
         pc'[w] # "parked" \/ wake = 0,
         pc'[w] \notin {"pass", "steal", "cas"} => pass'[w] = 0,
         MissedNothing(w) /\ Queues => MissedNothing(w)'
  PROVE  WakeInv'
<1>1. Workers \subseteq Agents
  BY Constants
<1>2. parked' # {} => wake' = 0
  <2>1. \A v \in parked' : v = w \/ v \in parked
    BY <1>1 DEF parked
  <2> QED BY <2>1 DEF WakeInv, parked
<1>3. \A v \in Workers : pc'[v] \notin {"pass", "steal", "cas"} => pass'[v] = 0
  BY <1>1 DEF WakeInv
<1>4. Queues' <=> Queues
  BY DEF Queues, queues
<1>5. ASSUME NEW a \in Agents, pc[a] = "ring" PROVE pc'[a] = "ring"
  BY <1>5 DEF Serving
<1>6. ASSUME Queues, NEW v \in Workers, MissedNothing(v) PROVE MissedNothing(v)'
  <2>1. CASE v = w
    BY <1>6, <2>1
  <2>2. CASE v # w
    BY <1>1, <1>6, <2>2, StillMisses
  <2> QED BY <2>1, <2>2
<1>7. ASSUME NEW v \in Workers, Unworried(v) PROVE Unworried(v)'
  <2>1. v # w
    BY <1>7 DEF Unworried
  <2> QED BY <1>1, <1>7, <2>1, StillUnworried
<1> QED BY <1>2, <1>3, <1>4, <1>5, <1>6, <1>7 DEF WakeInv

LEMMA FindWake ==
  ASSUME BaseInv, TaskInv, WakeInv, WaitsForOwnKids, NEW w \in Workers, Find(w)
  PROVE  WakeInv'
<1>1. /\ pc \in [Agents -> PCs] /\ w \in Agents /\ dq \in [Workers -> Seq(Tasks)]
      /\ victims \in [Workers -> Seq(Workers)] /\ pass \in [Workers -> 0 .. IdleSteals]
      /\ aim \in [Workers -> Tasks \cup {None}]
      /\ pc[w] \in BeyondLocal => dq[w] = <<>>
      /\ IdleSteals \in Nat \ {0}
      /\ pc[w] \notin {"pass", "steal", "cas"} => pass[w] = 0
  BY Constants, SchedulerAssumption DEF BaseInv, TypeOK, WorkerInv, WakeInv
<1>2. CASE PopLocal(w) \/ PopAged(w) \/ PopStandard(w) \/ PopBackground(w) \/ StealWin(w)
  BY <1>2, PopFacts, BeginWake
<1>3. ASSUME NEW to \in PCs \ {"parked"}, Goto(w, to), pc[w] \notin Serving, pc[w] # "parked",
             UNCHANGED <<queues, wake, todo, task, fut>>,
             \A v \in Workers : v # w =>
               pass'[v] = pass[v] /\ victims'[v] = victims[v] /\ aim'[v] = aim[v],
             to \notin {"pass", "steal", "cas"} => pass'[w] = 0,
             MissedNothing(w) /\ Queues => MissedNothing(w)'
      PROVE  WakeInv'
  <2>1. pc'[w] = to /\ \A b \in Agents : b # w => pc'[b] = pc[b]
    BY <1>1, <1>3 DEF Goto
  <2> QED BY <1>3, <2>1, SearchWake
<1>4. CASE LocalEmpty(w) \/ NotAged(w) \/ StandardEmpty(w) \/ BackgroundEmpty(w)
  <2>1. PICK to \in {"aged", "standard", "background", "pass"} : pc' = [pc EXCEPT ![w] = to]
    BY <1>4 DEF LocalEmpty, NotAged, StandardEmpty, BackgroundEmpty, Search, Goto
  <2>2. /\ UNCHANGED <<queues, wake, todo, task, fut>> /\ UNCHANGED <<victims, pass, aim>>
        /\ UNCHANGED <<standard, background, dq>>
        /\ pc[w] \in {"local", "aged", "standard", "background"}
        /\ to = "background" => standard = <<>>
        /\ to = "pass" => pc[w] = "background" /\ background = <<>>
    BY <1>1, <1>4, <2>1
       DEF LocalEmpty, NotAged, StandardEmpty, BackgroundEmpty, Search, Goto, queues, stealing
  <2>3. pc'[w] = to /\ pass'[w] = 0 /\ pass'[w] # IdleSteals
    BY <1>1, <2>1, <2>2
  <2>4. MissedNothing(w) => MissedNothing(w)'
    BY <2>2, <2>3 DEF MissedNothing
  <2> QED BY <1>3, <2>1, <2>2, <2>3, <2>4 DEF Goto, PCs, Serving
<1>5. CASE BeginPass(w)
  <2>1. PICK start \in Workers : victims' = [victims EXCEPT ![w] = Peers(w, start)]
    BY <1>5 DEF BeginPass
  <2>2. /\ pc[w] = "pass" /\ Goto(w, "steal") /\ UNCHANGED <<queues, wake, todo, task, fut, aim>>
        /\ UNCHANGED <<standard, background, dq>> /\ pass' = [pass EXCEPT ![w] = @ + 1]
    BY <1>5 DEF BeginPass, queues
  <2>3. pc'[w] = "steal" /\ victims'[w] = Peers(w, start)
    BY <1>1, <2>1, <2>2 DEF Goto
  <2>4. dq[w] = <<>>
    BY <1>1, <2>2 DEF BeyondLocal, PCs, Serving
  <2>5. \A v \in Workers : dq'[v] # <<>> => v \in Range(victims'[w])
    BY <2>2, <2>3, <2>4, PeersAll
  <2>6. MissedNothing(w) => MissedNothing(w)'
    BY <2>2, <2>3, <2>5 DEF MissedNothing
  <2> QED BY <1>1, <1>3, <2>1, <2>2, <2>6 DEF PCs, Serving
<1>6. CASE EndPass(w)
  <2>1. /\ pc[w] = "steal" /\ victims[w] = <<>> /\ Goto(w, "pass")
        /\ UNCHANGED <<queues, wake, todo, task, fut>> /\ UNCHANGED <<victims, pass, aim>>
        /\ UNCHANGED <<standard, background, dq>>
    BY <1>6 DEF EndPass, Search, queues, stealing
  <2>2. pc'[w] = "pass"
    BY <1>1, <2>1 DEF Goto
  <2>3. MissedNothing(w) => MissedNothing(w)'
    BY <2>1, <2>2, EmptyFacts DEF MissedNothing
  <2> QED BY <1>3, <2>1, <2>3 DEF PCs, Serving
<1>7. CASE GiveUp(w)
  <2>1. /\ pc[w] = "pass" /\ pass[w] = IdleSteals /\ Goto(w, "select")
        /\ UNCHANGED <<queues, wake, todo, task, fut>> /\ UNCHANGED <<victims, aim>>
        /\ pass' = [pass EXCEPT ![w] = 0]
    BY <1>7 DEF GiveUp
  <2>2. ~(MissedNothing(w) /\ Queues)
    BY <2>1 DEF MissedNothing, Queues
  <2> QED BY <1>1, <1>3, <2>1, <2>2 DEF PCs, Serving
<1>8. CASE StealAim(w)
  <2>1. PICK u : u = Head(victims[w])
    OBVIOUS
  <2>2. /\ pc[w] = "steal" /\ victims[w] # <<>> /\ dq[u] # <<>> /\ Goto(w, "cas")
        /\ UNCHANGED <<queues, wake, todo, task, fut>> /\ UNCHANGED <<victims, pass>>
        /\ UNCHANGED <<standard, background, dq>> /\ aim' = [aim EXCEPT ![w] = Head(dq[u])]
    BY <1>8, <2>1 DEF StealAim, queues
  <2>3. pc'[w] = "cas" /\ aim'[w] = Head(dq[u])
    BY <1>1, <2>2 DEF Goto
  <2>4. Stealable(w)'
    BY <2>1, <2>2, <2>3 DEF Stealable
  <2>5. MissedNothing(w) => MissedNothing(w)'
    BY <2>2, <2>3, <2>4 DEF MissedNothing
  <2> QED BY <1>1, <1>3, <2>2, <2>5 DEF PCs, Serving
<1>9. CASE StealLose(w)
  <2>1. /\ pc[w] = "cas" /\ ~Stealable(w) /\ Goto(w, "steal")
        /\ UNCHANGED <<queues, wake, todo, task, fut>> /\ UNCHANGED pass
        /\ victims' = [victims EXCEPT ![w] = Tail(@)] /\ aim' = [aim EXCEPT ![w] = None]
    BY <1>9 DEF StealLose
  <2>2. ~MissedNothing(w)
    BY <2>1 DEF MissedNothing
  <2> QED BY <1>1, <1>3, <2>1, <2>2 DEF PCs, Serving
<1>10. CASE StealMiss(w)
  <2>1. PICK u : u = Head(victims[w])
    OBVIOUS
  <2>2. /\ pc[w] = "steal" /\ victims[w] # <<>> /\ dq[u] = <<>> /\ UNCHANGED pc
        /\ UNCHANGED <<queues, wake, todo, task, fut>> /\ UNCHANGED <<pass, aim>>
        /\ UNCHANGED <<standard, background, dq>>
        /\ victims' = [victims EXCEPT ![w] = Tail(victims[w])]
    BY <1>10, <2>1 DEF StealMiss, queues
  <2>3. /\ victims'[w] = Tail(victims[w])
        /\ \A v \in Range(victims[w]) : v = u \/ v \in Range(Tail(victims[w]))
    BY <1>1, <2>1, <2>2, TailFacts
  <2>4. MissedNothing(w) => MissedNothing(w)'
    BY <2>2, <2>3 DEF MissedNothing
  <2> QED BY <1>1, <2>2, <2>4, SearchWake DEF Serving
<1> QED BY <1>2, <1>4, <1>5, <1>6, <1>7, <1>8, <1>9, <1>10 DEF Find


\* A step of an agent that parks nobody and queues nothing, and in which nothing that
\* another worker waits for becomes pending.
LEMMA ServeWake ==
  ASSUME WakeInv, NEW a \in Agents, pc[a] \in Serving \ {"ring"}, pc'[a] \in Serving \cup {"local"},
         UNCHANGED <<queues, wake, stealing>>,
         \A b \in Agents : b # a => pc'[b] = pc[b] /\ todo'[b] = todo[b],
         \A v \in Workers : v # a => task'[v] = task[v],
         \A v \in Workers : v # a /\ Unworried(v) =>
           \A k \in Waits[task[v]] : fut'[k] = "pending" => fut[k] = "pending",
         a \in Workers /\ Unworried(a) => Unworried(a)' \/ MissedNothing(a)'
  PROVE  WakeInv'
<1>1. Workers \subseteq Agents /\ UNCHANGED <<pass, victims, aim>>
  BY Constants DEF stealing
<1>2. parked' = parked
  BY <1>1 DEF parked, Serving
<1>3. \A v \in Workers : pc'[v] \notin {"pass", "steal", "cas"} => pass'[v] = 0
  BY <1>1 DEF WakeInv, Serving
<1>4. Queues' <=> Queues
  BY DEF Queues, queues
<1>5. ASSUME NEW b \in Agents, pc[b] = "ring" PROVE pc'[b] = "ring"
  BY <1>5
<1>6. ASSUME NEW v \in Workers, MissedNothing(v) PROVE MissedNothing(v)'
  <2>1. v # a
    BY <1>6 DEF MissedNothing, Serving
  <2> QED BY <1>1, <1>6, <2>1, StillMisses
<1>7. ASSUME NEW v \in Workers, Unworried(v) PROVE Unworried(v)' \/ MissedNothing(v)'
  <2>1. CASE v = a
    BY <1>7, <2>1
  <2>2. CASE v # a
    BY <1>1, <1>7, <2>2, StillUnworried
  <2> QED BY <2>1, <2>2
<1> QED BY <1>2, <1>3, <1>4, <1>5, <1>6, <1>7 DEF WakeInv

\* A push is followed by a ring.
LEMMA PushWake ==
  ASSUME BaseInv, WakeInv, NEW a \in Agents, pc[a] \in {"push", "shared"}, Queued(a)
  PROVE  WakeInv'
<1>1. /\ pc'[a] = "ring" /\ \A b \in Agents : b # a => pc'[b] = pc[b]
      /\ UNCHANGED <<wake, pass>>
  BY DEF Queued, Goto, stealing, BaseInv, TypeOK
<1>2. parked' = parked
  BY <1>1, Constants DEF parked
<1> QED BY <1>1, <1>2, Constants DEF WakeInv

LEMMA SubmitWake ==
  ASSUME BaseInv, TaskInv, WakeInv, WaitsForOwnKids, NEW a \in Agents, Submit(a)
  PROVE  WakeInv'
<1>1. /\ pc \in [Agents -> PCs] /\ todo \in [Agents -> Seq(Tasks)]
      /\ fut \in [Tasks -> {"none", "pending", "done", "stopped", "full"}]
      /\ wake \in 0 .. NumWorkers /\ NumWorkers \in Nat \ {0}
      /\ Workers \subseteq Agents
      /\ pc[a] \in {"push", "shared"} => todo[a] # <<>>
  BY Constants DEF BaseInv, TypeOK, AgentInv
<1>2. PICK x : x = Head(todo[a])
  OBVIOUS
<1>3. ASSUME NEW v \in Workers, Unworried(v)
      PROVE  Waits[task[v]] \subseteq Tasks
  BY <1>3, WaitsFacts DEF Unworried
<1>4. CASE SubmitStopped(a)
  <2>1. /\ pc[a] = "body" /\ todo[a] # <<>> /\ fut' = [fut EXCEPT ![x] = "stopped"]
        /\ todo' = [todo EXCEPT ![a] = Tail(@)] /\ UNCHANGED <<queues, wake, pc, task, stealing>>
    BY <1>2, <1>4 DEF SubmitStopped, Resolve
  <2>2. \A k \in Tasks : fut'[k] = "pending" => fut[k] = "pending"
    BY <1>1, <2>1
  <2>3. a \in Workers /\ Unworried(a) => Unworried(a)'
    BY <1>3, <2>1, <2>2 DEF Unworried
  <2>4. \A b \in Agents : b # a => todo'[b] = todo[b]
    BY <1>1, <2>1
  <2> QED BY <1>3, <2>1, <2>2, <2>3, <2>4, ServeWake DEF Serving
<1>5. CASE SubmitOpen(a)
  <2>1. PICK to \in {"push", "shared"} : Goto(a, to)
    BY <1>5 DEF SubmitOpen
  <2>2. /\ pc[a] = "body" /\ todo[a] # <<>> /\ fut' = [fut EXCEPT ![x] = "pending"]
        /\ UNCHANGED <<queues, wake, todo, task, stealing>>
    BY <1>2, <1>5 DEF SubmitOpen, Resolve
  <2>3. pc'[a] = to /\ \A b \in Agents : b # a => pc'[b] = pc[b]
    BY <1>1, <2>1 DEF Goto
  <2>4. \A k \in Tasks : fut'[k] = "pending" => fut[k] = "pending" \/ k = x
    BY <1>1, <2>2
  <2>5. /\ fut[x] = "none" /\ x \in Tasks
        /\ \A b \in Agents : x \in Range(todo[b]) => b = a
    <3>1. /\ x \in Tasks /\ x \in Range(todo[a])
          /\ \A b \in Agents : x \in Range(todo[b]) => b = a
      BY <1>2, <2>2, TodoFacts
    <3> QED BY <2>2, <3>1 DEF TaskInv, FutureInv, Unsubmitted
  <2>6. ASSUME NEW v \in Workers, v # a, Unworried(v), NEW k \in Waits[task[v]],
               fut'[k] = "pending"
        PROVE  fut[k] = "pending"
    <3>1. k \in Tasks /\ (fut[k] = "none" => k \in Range(todo[v]))
      BY <2>6, WaitsFacts DEF Unworried
    <3>2. k # x
      BY <1>1, <2>5, <2>6, <3>1
    <3> QED BY <2>4, <2>6, <3>1, <3>2
  <2>7. a \in Workers /\ Unworried(a) => Unworried(a)'
    BY <1>2, <1>3, <2>2, <2>3, <2>4 DEF Unworried, Serving
  <2> QED BY <2>2, <2>3, <2>6, <2>7, ServeWake DEF Serving
<1>6. CASE RejectStandard(a) \/ RejectBackground(a)
  <2>1. /\ pc[a] = "shared" /\ fut' = [fut EXCEPT ![x] = "full"] /\ Goto(a, "body")
        /\ todo' = [todo EXCEPT ![a] = Tail(@)] /\ UNCHANGED <<queues, wake, task, stealing>>
    BY <1>2, <1>6 DEF RejectStandard, RejectBackground, Rejected, Resolve
  <2>2. \A k \in Tasks : fut'[k] = "pending" => fut[k] = "pending" /\ k # x
    BY <1>1, <2>1
  <2>3. pc'[a] = "body" /\ \A b \in Agents : b # a => pc'[b] = pc[b] /\ todo'[b] = todo[b]
    BY <1>1, <2>1 DEF Goto
  <2>4. a \in Workers /\ Unworried(a) => Unworried(a)'
    BY <1>2, <1>3, <2>1, <2>2, <2>3 DEF Unworried, Serving
  <2> QED BY <1>3, <2>1, <2>2, <2>3, <2>4, ServeWake DEF Serving
<1>7. CASE PushStandard(a) \/ PushBackground(a)
  BY <1>7, PushWake DEF PushStandard, PushBackground
<1>8. CASE RingToken(a)
  <2>1. /\ pc[a] = "ring" /\ parked = {} /\ pc'[a] = "body" /\ UNCHANGED pass
        /\ \A b \in Agents : b # a => pc'[b] = pc[b]
        /\ wake' = IF wake < NumWorkers THEN wake + 1 ELSE wake
    BY <1>1, <1>8 DEF RingToken, Goto, stealing
  <2>2. wake' > 0
    BY <1>1, <2>1
  <2>3. parked' = {}
    BY <1>1, <2>1 DEF parked
  <2> QED BY <1>1, <2>1, <2>2, <2>3 DEF WakeInv
<1>9. CASE RingHandOff(a)
  <2>1. PICK w \in parked : pc' = [pc EXCEPT ![a] = "body", ![w] = "local"]
    BY <1>9 DEF RingHandOff
  <2>2. pc[a] = "ring" /\ UNCHANGED <<wake, pass>> /\ w \in Workers /\ pc[w] = "parked"
    BY <1>9, <2>1 DEF RingHandOff, stealing, parked
  <2>3. /\ pc'[w] = "local" /\ pc'[a] = "body"
        /\ \A b \in Agents : b # a /\ b # w => pc'[b] = pc[b]
    BY <1>1, <2>1, <2>2
  <2>4. pass'[w] = 0 /\ wake' = 0
    BY <2>1, <2>2 DEF WakeInv
  <2>5. MissedNothing(w)'
    BY <2>2, <2>3, <2>4, SearchStarts
  <2>6. \A v \in Workers : pc'[v] \notin {"pass", "steal", "cas"} => pass'[v] = 0
    BY <1>1, <2>2, <2>3, <2>4 DEF WakeInv
  <2> QED BY <2>2, <2>4, <2>5, <2>6 DEF WakeInv
<1> QED BY <1>4, <1>5, <1>6, <1>7, <1>8, <1>9 DEF Submit


LEMMA WorkerWake ==
  ASSUME BaseInv, TaskInv, WakeInv, WaitsForOwnKids, NEW w \in Workers, Worker(w)
  PROVE  WakeInv'
<1>1. /\ pc \in [Agents -> PCs] /\ w \in Agents /\ Workers \subseteq Agents
      /\ task \in [Workers -> Tasks \cup {None}]
      /\ fut \in [Tasks -> {"none", "pending", "done", "stopped", "full"}]
      /\ wake \in 0 .. NumWorkers /\ NumWorkers \in Nat
      /\ pc[w] \notin {"pass", "steal", "cas"} => pass[w] = 0
  BY Constants DEF BaseInv, TypeOK, WakeInv
<1>2. CASE Find(w)
  BY <1>2, FindWake
<1>3. CASE TakeToken(w)
  <2>1. /\ pc[w] = "select" /\ wake > 0 /\ wake' = wake - 1
        /\ UNCHANGED <<queues, todo, task, fut>> /\ UNCHANGED pass
        /\ pc'[w] = "local" /\ \A b \in Agents : b # w => pc'[b] = pc[b]
    BY <1>1, <1>3 DEF TakeToken, Goto, stealing
  <2>2. parked' = {}
    <3>1. parked = {}
      BY <1>1, <2>1 DEF WakeInv
    <3> QED BY <1>1, <2>1, <3>1 DEF parked
  <2>3. pass'[w] = 0 /\ MissedNothing(w)'
    BY <1>1, <2>1, SearchStarts
  <2>4. \A v \in Workers : pc'[v] \notin {"pass", "steal", "cas"} => pass'[v] = 0
    BY <1>1, <2>1, <2>3 DEF WakeInv
  <2> QED BY <2>2, <2>3, <2>4 DEF WakeInv
<1>4. CASE Park(w)
  <2>1. /\ pc[w] = "select" /\ wake = 0 /\ UNCHANGED <<queues, wake, todo, task, fut>>
        /\ UNCHANGED <<victims, pass, aim>>
        /\ \A b \in Agents : b # w => pc'[b] = pc[b]
    BY <1>1, <1>4 DEF Park, Search, Goto, stealing
  <2>2. ~MissedNothing(w)
    BY <2>1 DEF MissedNothing
  <2> QED BY <1>1, <2>1, <2>2, SearchWake DEF Serving
<1>5. CASE Exit(w)
  <2>1. /\ pc[w] \in {"leave", "select"} /\ UNCHANGED <<queues, wake, todo, task, fut>>
        /\ UNCHANGED <<victims, pass, aim>> /\ pc'[w] = "exited"
        /\ \A b \in Agents : b # w => pc'[b] = pc[b]
    BY <1>1, <1>5 DEF Exit, Search, Goto, stealing
  <2>2. ~MissedNothing(w)
    BY <2>1 DEF MissedNothing
  <2> QED BY <1>1, <2>1, <2>2, SearchWake DEF Serving
<1>6. CASE Complete(w)
  <2>1. /\ pc[w] = "body" /\ UNCHANGED <<queues, wake, stealing>> /\ UNCHANGED <<fut, task, todo>>
        /\ \A k \in Waits[task[w]] : fut[k] # "pending"
        /\ pc'[w] = "close" /\ \A b \in Agents : b # w => pc'[b] = pc[b]
    BY <1>1, <1>6 DEF Complete, Ready, Resolved, Goto
  <2>2. Unworried(w)'
    BY <2>1 DEF Unworried, Serving
  <2> QED BY <1>1, <2>1, <2>2, ServeWake DEF Serving
<1>7. CASE CloseFuture(w)
  <2>1. PICK x : x = task[w]
    OBVIOUS
  <2>2. /\ pc[w] = "close" /\ UNCHANGED <<queues, wake, stealing>> /\ UNCHANGED <<pass, todo>>
        /\ fut' = [fut EXCEPT ![x] = "done"]
        /\ \A v \in Workers : v # w => task'[v] = task[v]
        /\ pc'[w] = "local" /\ \A b \in Agents : b # w => pc'[b] = pc[b]
    BY <1>1, <1>7, <2>1 DEF CloseFuture, Resolve, Goto, stealing
  <2>3. MissedNothing(w)'
    BY <1>1, <2>2, SearchStarts
  <2>4. ASSUME NEW v \in Workers, Unworried(v), NEW k \in Waits[task[v]], fut'[k] = "pending"
        PROVE  fut[k] = "pending"
    <3>1. k \in Tasks
      BY <2>4, WaitsFacts DEF Unworried
    <3> QED BY <1>1, <2>2, <2>4, <3>1
  <2> QED BY <1>1, <2>2, <2>3, <2>4, ServeWake DEF Serving
<1>8. CASE Submit(w)
  BY <1>1, <1>8, SubmitWake
<1>9. CASE PushLocal(w)
  BY <1>1, <1>9, PushWake DEF PushLocal
<1>10. CASE Spill(w)
  <2>1. /\ pc[w] = "push" /\ UNCHANGED <<queues, wake, stealing>> /\ UNCHANGED <<fut, task, todo>>
        /\ pc'[w] = "shared" /\ \A b \in Agents : b # w => pc'[b] = pc[b]
    BY <1>1, <1>10 DEF Spill, Goto
  <2>2. Unworried(w) => Unworried(w)'
    BY <2>1 DEF Unworried, Serving
  <2> QED BY <1>1, <2>1, <2>2, ServeWake DEF Serving
<1> QED BY <1>2, <1>3, <1>4, <1>5, <1>6, <1>7, <1>8, <1>9, <1>10 DEF Worker

LEMMA NextWake ==
  ASSUME BaseInv, TaskInv, WakeInv, WaitsForOwnKids, [Next]_vars
  PROVE  WakeInv'
<1>1. ASSUME NEW w \in Workers, Worker(w) PROVE WakeInv'
  BY <1>1, WorkerWake
<1>2. ASSUME NEW c \in Clients, Submit(c) PROVE WakeInv'
  BY <1>2, SubmitWake, Constants
<1>3. ASSUME UNCHANGED <<queues, wake, todo, task, stealing, fut>>,
             \A a \in Agents : \/ pc'[a] = pc[a]
                               \/ a \in Workers /\ pc[a] = "parked" /\ pc'[a] = "leave"
      PROVE  WakeInv'
  <2>1. Workers \subseteq Agents /\ UNCHANGED <<victims, pass, aim>>
    BY <1>3, Constants DEF stealing
  <2>2. \A v \in Workers : v \in parked' => v \in parked
    BY <1>3, <2>1 DEF parked
  <2>3. parked' # {} => wake' = 0
    BY <1>3, <2>2 DEF WakeInv, parked
  <2>4. \A v \in Workers : pc'[v] \notin {"pass", "steal", "cas"} => pass'[v] = 0
    BY <1>3, <2>1 DEF WakeInv
  <2>5. Queues' <=> Queues
    BY <1>3 DEF Queues, queues
  <2>6. \A b \in Agents : pc[b] = "ring" => pc'[b] = "ring"
    BY <1>3
  <2>7. ASSUME NEW v \in Workers, MissedNothing(v) PROVE MissedNothing(v)'
    <3>1. pc'[v] = pc[v]
      BY <1>3, <2>1, <2>7 DEF MissedNothing
    <3> QED BY <1>3, <2>1, <2>7, <3>1, StillMisses
  <2>8. ASSUME NEW v \in Workers, Unworried(v) PROVE Unworried(v)'
    <3>1. pc'[v] = pc[v]
      BY <1>3, <2>1, <2>8 DEF Unworried, Serving
    <3> QED BY <1>3, <2>1, <2>8, <3>1, StillUnworried
  <2> QED BY <1>3, <2>3, <2>4, <2>5, <2>6, <2>7, <2>8 DEF WakeInv
<1>4. CASE Stopper
  BY <1>3, <1>4 DEF Stopper, StopFlag, StopClose, StopReturn, parked
<1>5. CASE UNCHANGED vars
  BY <1>3, <1>5 DEF vars, queues, stealing
<1> QED BY <1>1, <1>2, <1>4, <1>5 DEF Next

LEMMA InitWake == Init => WakeInv
BY Constants DEF Init, WakeInv, Queues, parked

\* The whole inductive invariant.
THEOREM IInvHolds == Spec => []IInv
<1>1. Init => IInv
  BY InitBaseInv, InitTaskInv, InitWake DEF IInv
<1>2. IInv /\ [Next]_vars => IInv'
  <2> SUFFICES ASSUME IInv, [Next]_vars PROVE IInv'
    OBVIOUS
  <2>1. BaseInv' /\ TaskInv'
    BY NextBaseInv, NextTaskInv DEF IInv
  <2>2. WaitsForOwnKids => WakeInv'
    BY NextWake DEF IInv
  <2> QED BY <2>1, <2>2 DEF IInv, WaitsForOwnKids
<1> QED BY <1>1, <1>2, PTL DEF Spec

\* No lost wake-up: while a worker is parked, some agent is still going to look for
\* what is queued, or to ring the doorbell for it (worker.go:58-128, scheduler.go:283-288),
\* if tasks wait only for tasks that they have submitted themselves.
THEOREM NoIdleForeverHolds ==
  ASSUME WaitsForOwnKids
  PROVE  Spec => []NoIdleForever
<1>1. ASSUME IInv PROVE NoIdleForever
  <2> SUFFICES ASSUME NEW p \in parked, NEW t \in Tasks, Waiting(t)
               PROVE  \E a \in Agents : Active(a)
    BY DEF NoIdleForever
  <2>1. BaseInv /\ TaskInv /\ WakeInv
    BY <1>1 DEF IInv
  <2>2. Queues
    BY EmptyFacts DEF Waiting, InShared, Queues
  <2>3. \/ \E a \in Agents : pc[a] = "ring"
        \/ \E w \in Workers : MissedNothing(w) \/ Unworried(w)
    <3>1. wake = 0
      BY <2>1 DEF WakeInv
    <3> QED BY <2>1, <2>2, <3>1 DEF WakeInv
  <2>4. ASSUME NEW a \in Agents, pc[a] = "ring" PROVE Active(a)
    BY <2>4 DEF Active, Blocked
  <2>5. ASSUME NEW w \in Workers, MissedNothing(w) PROVE Active(w)
    BY <2>5 DEF MissedNothing, Active, Blocked
  <2>6. ASSUME NEW w \in Workers, Unworried(w) PROVE Active(w)
    <3>1. pc[w] \in Serving
      BY <2>6 DEF Unworried
    <3>2. ASSUME Blocked(w) PROVE FALSE
      <4>1. pc[w] = "body" /\ todo[w] = <<>>
        BY <3>2 DEF Blocked
      <4>2. PICK k \in Waits[task[w]] : ~Resolved(k)
        BY <3>2, <4>1 DEF Blocked, Ready
      <4>3. k \in Tasks /\ fut[k] # "none"
        BY <2>1, <3>1, <4>1, EmptyFacts, WaitsFacts
      <4>4. fut[k] # "pending"
        BY <2>6, <4>1 DEF Unworried
      <4> QED BY <2>1, <4>2, <4>3, <4>4 DEF Resolved, BaseInv, TypeOK
    <3> QED BY <3>1, <3>2 DEF Active, Serving
  <2> QED BY <2>3, <2>4, <2>5, <2>6, Constants
<1> QED BY <1>1, IInvHolds, PTL

-----------------------------------------------------------------------------
\* A Scheduler seen as a Pool: what runs, and how far Stop has come.
OnWorkers == {task[w] : w \in Workers} \ {None}
StopAs ==
  CASE stop = "running" -> "running"
    [] stop \in {"flagged", "closed"} -> "stopping"
    [] OTHER -> "returned"
Pending == {t \in Tasks : fut[t] = "pending"} \ OnWorkers

\* Pool counts as Scheduler does.
LEMMA PoolCounts == \A S : AsPool!Cardinality(S) = Cardinality(S)
BY Zenon DEF AsPool!Cardinality, Cardinality

LEMMA PoolActions ==
  ASSUME NEW t \in Tasks
  PROVE  /\ /\ fut[t] = "none" /\ StopAs = "running" /\ fut' = [fut EXCEPT ![t] = "pending"]
            /\ UNCHANGED <<OnWorkers, StopAs>>
            => AsPool!Accept(t)
         /\ /\ fut[t] = "none" /\ StopAs # "running" /\ fut' = [fut EXCEPT ![t] = "stopped"]
            /\ UNCHANGED <<OnWorkers, StopAs>>
            => AsPool!RefuseStopped(t)
         /\ /\ t \in Pending /\ SmallestCap > 0 /\ Cardinality(Pending \ {t}) >= SmallestCap
            /\ fut' = [fut EXCEPT ![t] = "full"] /\ UNCHANGED <<OnWorkers, StopAs>>
            => AsPool!RefuseFull(t)
         /\ /\ t \in Pending /\ Cardinality(OnWorkers) < NumWorkers /\ StopAs # "returned"
            /\ OnWorkers' = OnWorkers \cup {t} /\ UNCHANGED <<fut, StopAs>>
            => AsPool!Start(t)
         /\ /\ t \in OnWorkers /\ fut' = [fut EXCEPT ![t] = "done"]
            /\ OnWorkers' = OnWorkers \ {t} /\ UNCHANGED StopAs
            => AsPool!Finish(t)
<1>1. ASSUME fut[t] = "none", StopAs = "running", fut' = [fut EXCEPT ![t] = "pending"],
             UNCHANGED <<OnWorkers, StopAs>>
      PROVE  AsPool!Accept(t)
  BY <1>1 DEF AsPool!Accept, AsPool!Resolve, OnWorkers, StopAs
<1>2. ASSUME fut[t] = "none", StopAs # "running", fut' = [fut EXCEPT ![t] = "stopped"],
             UNCHANGED <<OnWorkers, StopAs>>
      PROVE  AsPool!RefuseStopped(t)
  BY <1>2 DEF AsPool!RefuseStopped, AsPool!Resolve, OnWorkers, StopAs
<1>3. ASSUME t \in Pending, SmallestCap > 0, Cardinality(Pending \ {t}) >= SmallestCap,
             fut' = [fut EXCEPT ![t] = "full"], UNCHANGED <<OnWorkers, StopAs>>
      PROVE  AsPool!RefuseFull(t)
  <2>1. AsPool!Waiting = Pending
    BY DEF AsPool!Waiting, Pending, OnWorkers
  <2> QED BY <1>3, <2>1, PoolCounts DEF AsPool!RefuseFull, AsPool!Resolve, OnWorkers, StopAs
<1>4. ASSUME t \in Pending, Cardinality(OnWorkers) < NumWorkers, StopAs # "returned",
             OnWorkers' = OnWorkers \cup {t}, UNCHANGED <<fut, StopAs>>
      PROVE  AsPool!Start(t)
  <2>1. AsPool!Waiting = Pending
    BY DEF AsPool!Waiting, Pending, OnWorkers
  <2> QED BY <1>4, <2>1, PoolCounts DEF AsPool!Start, OnWorkers, StopAs
<1>5. ASSUME t \in OnWorkers, fut' = [fut EXCEPT ![t] = "done"],
             OnWorkers' = OnWorkers \ {t}, UNCHANGED StopAs
      PROVE  AsPool!Finish(t)
  BY <1>5 DEF AsPool!Finish, AsPool!Resolve, OnWorkers, StopAs
<1> QED BY <1>1, <1>2, <1>3, <1>4, <1>5

LEMMA PoolNext ==
  /\ \A t \in Tasks :
       \/ AsPool!Accept(t) \/ AsPool!RefuseStopped(t) \/ AsPool!RefuseFull(t)
       \/ AsPool!Start(t) \/ AsPool!Finish(t)
       => [AsPool!Next]_AsPool!vars
  /\ StopAs = "running" /\ StopAs' = "stopping" /\ UNCHANGED <<fut, OnWorkers>>
     => [AsPool!Next]_AsPool!vars
  /\ StopAs = "stopping" /\ OnWorkers = {} /\ StopAs' = "returned" /\ UNCHANGED <<fut, OnWorkers>>
     => [AsPool!Next]_AsPool!vars
  /\ UNCHANGED <<fut, OnWorkers, StopAs>> => [AsPool!Next]_AsPool!vars
BY DEF AsPool!Next, AsPool!vars, AsPool!StopCall, AsPool!StopReturn, OnWorkers, StopAs

\* What runs is what the workers have in hand.
LEMMA OnWorkersFacts ==
  /\ \A x : x \in OnWorkers <=> x # None /\ Running(x)
  /\ task' = task => OnWorkers' = OnWorkers
  /\ stop' = stop => StopAs' = StopAs
BY DEF OnWorkers, Running, StopAs

\* The smallest cap in force is no larger than either.
LEMMA SmallestCapFacts ==
  /\ SmallestCap \in Nat
  /\ MaxStandard > 0 => SmallestCap > 0 /\ SmallestCap <= MaxStandard
  /\ MaxBackground > 0 => SmallestCap > 0 /\ SmallestCap <= MaxBackground
<1>1. MaxStandard \in Nat /\ MaxBackground \in Nat
  BY Constants
<1>2. PICK caps : caps = {MaxStandard, MaxBackground} \ {0}
  OBVIOUS
<1>3. SmallestCap = IF caps = {} THEN 0 ELSE Min(caps)
  BY <1>2 DEF SmallestCap
<1>4. CASE caps = {}
  BY <1>1, <1>2, <1>3, <1>4
<1>5. CASE caps # {}
  <2>1. \E x \in caps : \A y \in caps : x <= y
    BY <1>1, <1>2, <1>5
  <2>2. Min(caps) \in caps /\ \A y \in caps : Min(caps) <= y
    BY <2>1 DEF Min
  <2> QED BY <1>1, <1>2, <1>3, <1>5, <2>2
<1> QED BY <1>4, <1>5

\* A free worker: fewer tasks run than there are workers.
LEMMA FreeWorker ==
  ASSUME NEW w \in Workers, task[w] = None
  PROVE  Cardinality(OnWorkers) < NumWorkers
<1>1. /\ NumWorkers \in Nat \ {0} /\ 0 \in Int /\ NumWorkers - 1 \in Int
  BY Constants
<1>2. IsFiniteSet(Workers) /\ Cardinality(Workers) = NumWorkers
  BY <1>1, FS_Interval DEF Workers
<1>3. IsFiniteSet(Workers \ {w}) /\ Cardinality(Workers \ {w}) = NumWorkers - 1
  BY <1>2, FS_RemoveElement
<1>4. PICK busy : busy = {v \in Workers : task[v] # None}
  OBVIOUS
<1>5. busy \in SUBSET (Workers \ {w})
  BY <1>4
<1>6. IsFiniteSet(busy) /\ Cardinality(busy) <= NumWorkers - 1
  BY <1>3, <1>5, FS_Subset
<1>7. PICK f : f = [v \in busy |-> task[v]]
  OBVIOUS
<1>8. f \in Surjection(busy, OnWorkers)
  BY <1>4, <1>7 DEF Surjection, OnWorkers
<1>9. IsFiniteSet(OnWorkers) /\ Cardinality(OnWorkers) <= Cardinality(busy)
  BY <1>6, <1>8, FS_Surjection
<1> QED BY <1>1, <1>6, <1>9, FS_CardinalityType


\* A queue at its cap holds as many pending tasks as the smallest cap allows, or more.
LEMMA FullQueue ==
  ASSUME BaseInv, TaskInv, NEW a \in Agents, pc[a] = "shared", NEW x, x = Head(todo[a]),
         NEW q, q = standard \/ q = background, NEW max \in {MaxStandard, MaxBackground},
         Full(q, max)
  PROVE  x \in Pending /\ SmallestCap > 0 /\ Cardinality(Pending \ {x}) >= SmallestCap
<1>1. q \in Seq(Tasks) /\ IsInjective(q) /\ max \in Nat /\ todo[a] # <<>>
  BY Constants DEF BaseInv, TypeOK, AgentInv, TaskInv, OneHolder
<1>2. max > 0 /\ Len(q) >= max /\ Len(q) \in Nat
  BY <1>1 DEF Full
<1>3. x \in Tasks /\ ~Waiting(x) /\ ~Running(x)
  BY <1>1, TodoFacts
<1>4. x \in Pending
  BY <1>3, OnWorkersFacts DEF Pending, TaskInv, FutureInv, Placed, BeingSubmitted
<1>5. Range(q) \subseteq Pending \ {x}
  <2>1. ASSUME NEW y \in Range(q) PROVE y \in Tasks /\ Waiting(y)
    BY <1>1 DEF Waiting, InShared, Range
  <2>2. ASSUME NEW y \in Range(q) PROVE fut[y] = "pending" /\ ~Running(y)
    <3>1. y \in Tasks /\ Waiting(y)
      BY <2>1
    <3>2. y # None
      BY <3>1, Constants
    <3>3. PICK k \in QueueHolders : y \in Held(k)
      BY <3>1, WaitingHeld
    <3>4. \A w \in Workers : y # task[w]
      BY <3>2, <3>3, QueuedFacts DEF TaskInv
    <3> QED BY <3>1, <3>4 DEF TaskInv, FutureInv, Placed, Running
  <2> QED BY <1>3, <2>1, <2>2, OnWorkersFacts DEF Pending
<1>6. IsFiniteSet(Range(q)) /\ Cardinality(Range(q)) = Len(q)
  <2>1. PICK n \in Nat : n = Len(q)
    BY <1>2
  <2>2. IsFiniteSet(1 .. n) /\ Cardinality(1 .. n) = IF 1 > n THEN 0 ELSE n - 1 + 1
    BY FS_Interval
  <2>3. q \in Surjection(1 .. Len(q), Range(q)) /\ q \in Injection(1 .. Len(q), Range(q))
    BY <1>1 DEF Surjection, Injection, Range, IsInjective
  <2>4. Cardinality(1 .. n) = n
    BY <2>2
  <2> QED BY <2>1, <2>2, <2>3, <2>4, FS_Surjection
<1>7. IsFiniteSet(Pending \ {x})
  <2>1. Pending \ {x} \in SUBSET {t \in Tasks : fut[t] # "none"}
    BY DEF Pending
  <2> QED BY <2>1, FS_Subset DEF TaskInv, FutureInv
<1>8. Cardinality(Range(q)) <= Cardinality(Pending \ {x}) /\ Cardinality(Pending \ {x}) \in Nat
  BY <1>5, <1>7, FS_Subset, FS_CardinalityType
<1> QED BY <1>1, <1>2, <1>4, <1>6, <1>8, SmallestCapFacts

\* Submit: the task is accepted or refused as Pool says.
LEMMA SubmitPool ==
  ASSUME BaseInv, TaskInv, NEW a \in Agents, Submit(a)
  PROVE  [AsPool!Next]_AsPool!vars
<1>1. task' = task /\ stop' = stop
  BY DEF Submit, SubmitStopped, SubmitOpen, PushStandard, PushBackground, RejectStandard,
         RejectBackground, Rejected, Queued, RingHandOff, RingToken
<1>2. OnWorkers' = OnWorkers /\ StopAs' = StopAs
  BY <1>1, OnWorkersFacts
<1>3. PICK x : x = Head(todo[a])
  OBVIOUS
<1>4. ASSUME pc[a] = "body", todo[a] # <<>> PROVE x \in Tasks /\ fut[x] = "none"
  BY <1>3, <1>4, TodoFacts DEF TaskInv, FutureInv, Unsubmitted
<1>5. CASE SubmitStopped(a)
  <2>1. fut' = [fut EXCEPT ![x] = "stopped"] /\ x \in Tasks /\ fut[x] = "none" /\ stop # "running"
    BY <1>3, <1>4, <1>5 DEF SubmitStopped, Resolve, stopped
  <2>2. AsPool!RefuseStopped(x)
    BY <1>2, <2>1, PoolActions DEF StopAs
  <2> QED BY <2>1, <2>2, PoolNext
<1>6. CASE SubmitOpen(a)
  <2>1. fut' = [fut EXCEPT ![x] = "pending"] /\ x \in Tasks /\ fut[x] = "none" /\ stop = "running"
    BY <1>3, <1>4, <1>6 DEF SubmitOpen, Resolve, stopped
  <2>2. AsPool!Accept(x)
    BY <1>2, <2>1, PoolActions DEF StopAs
  <2> QED BY <2>1, <2>2, PoolNext
<1>7. CASE RejectStandard(a) \/ RejectBackground(a)
  <2>1. /\ fut' = [fut EXCEPT ![x] = "full"] /\ pc[a] = "shared"
        /\ Full(standard, MaxStandard) \/ Full(background, MaxBackground)
    BY <1>3, <1>7 DEF RejectStandard, RejectBackground, Rejected, Resolve
  <2>2. x \in Pending /\ SmallestCap > 0 /\ Cardinality(Pending \ {x}) >= SmallestCap
    BY <1>3, <2>1, FullQueue
  <2>3. x \in Tasks
    BY <2>2 DEF Pending
  <2>4. AsPool!RefuseFull(x)
    BY <1>2, <2>1, <2>2, <2>3, PoolActions
  <2> QED BY <2>3, <2>4, PoolNext
<1>8. CASE PushStandard(a) \/ PushBackground(a) \/ RingHandOff(a) \/ RingToken(a)
  <2>1. fut' = fut
    BY <1>8 DEF PushStandard, PushBackground, Queued, RingHandOff, RingToken
  <2> QED BY <1>2, <2>1, PoolNext
<1> QED BY <1>5, <1>6, <1>7, <1>8 DEF Submit


\* A free worker takes a task, and later closes its Future.
LEMMA WorkerPool ==
  ASSUME BaseInv, TaskInv, NEW w \in Workers, Worker(w)
  PROVE  [AsPool!Next]_AsPool!vars
<1>1. task \in [Workers -> Tasks \cup {None}] /\ Workers \subseteq Agents
  BY Constants DEF BaseInv, TypeOK
<1>2. CASE PopLocal(w) \/ PopAged(w) \/ PopStandard(w) \/ PopBackground(w) \/ StealWin(w)
  <2>1. pc[w] \notin Serving
    BY <1>2, PopFacts
  <2>2. PICK x \in Tasks : \E k \in QueueHolders : x \in Held(k) /\ Begin(w, x)
    BY <1>2, PopFacts
  <2>3. /\ fut[x] = "pending" /\ ~Running(x) /\ x # None /\ task[w] = None /\ UNCHANGED fut
        /\ task'[w] = x /\ \A v \in Workers : v # w => task'[v] = task[v]
    BY <2>1, <2>2, BeginFacts
  <2>4. x \in Pending
    BY <2>3, OnWorkersFacts DEF Pending
  <2>5. OnWorkers' = OnWorkers \cup {x}
    BY <2>3 DEF OnWorkers
  <2>6. UNCHANGED StopAs
    BY <2>2, OnWorkersFacts DEF Begin
  <2>7. StopAs # "returned"
    <3>1. pc[w] # "exited"
      BY <1>2 DEF PopLocal, PopAged, PopStandard, PopBackground, StealWin
    <3>2. stop \in {"running", "flagged", "closed"}
      BY <3>1 DEF BaseInv, StopInv, TypeOK
    <3> QED BY <3>2 DEF StopAs
  <2>8. Cardinality(OnWorkers) < NumWorkers
    BY <2>3, FreeWorker
  <2>9. AsPool!Start(x)
    BY <2>3, <2>4, <2>5, <2>6, <2>7, <2>8, PoolActions
  <2> QED BY <2>9, PoolNext
<1>3. CASE CloseFuture(w)
  <2>1. PICK x : x = task[w]
    OBVIOUS
  <2>2. /\ pc[w] = "close" /\ fut' = [fut EXCEPT ![x] = "done"]
        /\ task' = [task EXCEPT ![w] = None] /\ UNCHANGED stop
    BY <1>3, <2>1 DEF CloseFuture, Resolve
  <2>3. x \in Tasks /\ x # None
    BY <1>1, <2>1, <2>2 DEF BaseInv, WorkerInv, Serving
  <2>4. \A v \in Workers : task[v] = x => v = w
    <3>1. x \in Held(RunBy(w)) /\ RunBy(w) \in Holders
      BY <2>1, <2>3, HeldBy, AreHolders
    <3> QED BY <2>3, <3>1, HeldOnce, HolderNames DEF TaskInv
  <2>5. /\ task'[w] = None /\ \A v \in Workers : v # w => task'[v] = task[v]
    BY <1>1, <2>2
  <2>6. x \in OnWorkers /\ OnWorkers' = OnWorkers \ {x}
    <3>1. x \in OnWorkers
      BY <2>1, <2>3 DEF OnWorkers
    <3>2. \A y : y \in OnWorkers' <=> y # None /\ \E v \in Workers : y = task'[v]
      BY DEF OnWorkers
    <3>3. \A y : y \in OnWorkers <=> y # None /\ \E v \in Workers : y = task[v]
      BY DEF OnWorkers
    <3>4. \A y : y \in OnWorkers' <=> y \in OnWorkers /\ y # x
      BY <2>1, <2>4, <2>5, <3>2, <3>3
    <3> QED BY <3>1, <3>4
  <2>7. AsPool!Finish(x)
    BY <2>2, <2>3, <2>6, OnWorkersFacts, PoolActions
  <2> QED BY <2>3, <2>7, PoolNext
<1>4. CASE Submit(w)
  BY <1>1, <1>4, SubmitPool
<1>5. CASE /\ UNCHANGED <<fut, task, stop>>
  BY <1>5, OnWorkersFacts, PoolNext
<1>6. CASE \/ LocalEmpty(w) \/ NotAged(w) \/ StandardEmpty(w) \/ BackgroundEmpty(w)
           \/ EndPass(w) \/ Park(w) \/ Exit(w)
  BY <1>5, <1>6 DEF LocalEmpty, NotAged, StandardEmpty, BackgroundEmpty, EndPass, Park, Exit, Search
<1>7. CASE \/ BeginPass(w) \/ GiveUp(w) \/ StealMiss(w) \/ StealAim(w) \/ StealLose(w)
           \/ TakeToken(w) \/ Complete(w) \/ PushLocal(w) \/ Spill(w)
  BY <1>5, <1>7 DEF BeginPass, GiveUp, StealMiss, StealAim, StealLose, TakeToken, Complete,
                    PushLocal, Spill, Queued
<1> QED BY <1>2, <1>3, <1>4, <1>6, <1>7 DEF Worker, Find

LEMMA NextPool ==
  ASSUME BaseInv, TaskInv, [Next]_vars
  PROVE  [AsPool!Next]_AsPool!vars
<1>1. ASSUME NEW w \in Workers, Worker(w) PROVE [AsPool!Next]_AsPool!vars
  BY <1>1, WorkerPool
<1>2. ASSUME NEW c \in Clients, Submit(c) PROVE [AsPool!Next]_AsPool!vars
  BY <1>2, SubmitPool, Constants
<1>3. CASE StopFlag
  <2>1. StopAs = "running" /\ StopAs' = "stopping" /\ UNCHANGED <<fut, task>>
    BY <1>3 DEF StopFlag, StopAs
  <2> QED BY <2>1, OnWorkersFacts, PoolNext
<1>4. CASE StopClose
  <2>1. StopAs = "stopping" /\ StopAs' = "stopping" /\ UNCHANGED <<fut, task>>
    BY <1>4 DEF StopClose, StopAs
  <2> QED BY <2>1, OnWorkersFacts, PoolNext
<1>5. CASE StopReturn
  <2>1. StopAs = "stopping" /\ StopAs' = "returned" /\ UNCHANGED <<fut, task>>
    BY <1>5 DEF StopReturn, StopAs
  <2>2. OnWorkers = {}
    <3>1. \A w \in Workers : task[w] = None
      BY <1>5 DEF StopReturn, BaseInv, WorkerInv, Serving
    <3> QED BY <3>1 DEF OnWorkers
  <2> QED BY <2>1, <2>2, OnWorkersFacts, PoolNext
<1>6. CASE UNCHANGED vars
  BY <1>6, OnWorkersFacts, PoolNext DEF vars
<1> QED BY <1>1, <1>2, <1>3, <1>4, <1>5, <1>6 DEF Next, Stopper

LEMMA InitPool == Init => AsPool!Init
<1> SUFFICES ASSUME Init PROVE AsPool!Init
  OBVIOUS
<1>1. OnWorkers = {} /\ StopAs = "running"
  BY DEF Init, OnWorkers, StopAs
<1> QED BY <1>1 DEF Init, AsPool!Init, OnWorkers, StopAs

\* With all its queues, steals, doorbell and stop channel, a Scheduler is a Pool
\* (scheduler.go, worker.go): every step of it is a step of the Pool, or none.
THEOREM ImplementsPoolHolds == Spec => ImplementsPool
<1>1. Init => AsPool!Init
  BY InitPool
<1>2. BaseInv /\ TaskInv /\ [Next]_vars => [AsPool!Next]_AsPool!vars
  BY NextPool
<1> QED BY <1>1, <1>2, TaskInvHolds, PTL DEF Spec, ImplementsPool, AsPool!Spec
=============================================================================
