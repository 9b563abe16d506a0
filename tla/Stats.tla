-------------------------------- MODULE Stats --------------------------------
(***************************************************************************)
(* Scheduler.Stats called while the Scheduler is at work: six atomic loads, *)
(* one after the other, of counters that change meanwhile.  What it returns *)
(* need not be the counters of any one moment, though its comment calls it  *)
(* a snapshot: it is what a caller can still conclude that is stated here.  *)
(***************************************************************************)
EXTENDS Scheduler

VARIABLES
  load,    \* which of the loads comes next; 0 before the call
  reading, \* the Stats being put together
  seen,    \* the Futures that the caller saw closed before it called
  backlog  \* how many tasks were unfinished when the first counter was loaded

reader == <<load, reading, seen, backlog>>

\* Variant: the counters loaded in another order.
CompletedFirst ==
  <<"completed", "submitted", "stolen", "aged", "rejectedStandard", "rejectedBackground">>

\* The fields of Stats in the order in which they are loaded.
Loads ==
  <<"submitted", "completed", "stolen", "aged", "rejectedStandard", "rejectedBackground">>

StatsInit ==
  /\ Init
  /\ load = 0 /\ reading = [f \in Range(Loads) |-> 0] /\ seen = {} /\ backlog = 0

Ended(r) == {t \in Tasks : fut[t] = r}

Call ==
  /\ load = 0 /\ load' = 1
  /\ seen' = Ended("done") \cup Ended("full")
  /\ UNCHANGED <<reading, backlog>>

Load ==
  /\ load \in DOMAIN Loads /\ load' = load + 1
  /\ reading' = [reading EXCEPT ![Loads[load]] = stats[Loads[load]]]
  /\ backlog' = IF load = 1 THEN Cardinality(Ended("pending")) ELSE backlog
  /\ UNCHANGED seen

StatsNext ==
  \/ Next /\ UNCHANGED reader
  \/ (Call \/ Load) /\ UNCHANGED vars

StatsSpec == StatsInit /\ [][StatsNext]_<<vars, reader>>
-----------------------------------------------------------------------------
(* Properties *)

Returned == load > Len(Loads)
Refused == reading.rejectedStandard + reading.rejectedBackground

\* Whatever Future.Wait has reported as finished before the call is counted in
\* it, each as what it is (scheduler.go:221-226).
CountsWhatWasSeen ==
  Returned =>
    /\ reading.completed >= Cardinality(seen \cap Ended("done"))
    /\ Refused >= Cardinality(seen \cap Ended("full"))
    /\ reading.submitted >= Cardinality(seen)

\* Submitted minus what is completed and rejected never overstates how much was
\* unfinished when the call began, because Submitted is loaded first; and of what is
\* unfinished when the call has returned, or later, it misses no more than has been
\* submitted since that first load (scheduler.go:219-234, 303-313).
BacklogNotOverstated ==
  Returned =>
    LET open == reading.submitted - reading.completed - Refused
        counted == {w \in Workers : pc[w] = "close"}
        unfinished == Cardinality(Ended("pending")) - Cardinality(counted)
    IN /\ open <= backlog
       /\ unfinished <= open + (stats.submitted - reading.submitted)

\* The inductive invariant of the proofs.  What has been loaded was a counter's value
\* and no counter falls; and of the tasks that the first load counted, those not in
\* the backlog were completed or rejected by then, as the later loads will tell.
ReadingInv ==
  /\ load \in 0 .. 1 + Len(Loads) /\ DOMAIN reading = Range(Loads)
  /\ \A f \in Range(Loads) : reading[f] \in Nat
  /\ \A i \in DOMAIN Loads : i < load => reading[Loads[i]] <= stats[Loads[i]]

SeenInv ==
  /\ seen \subseteq Ended("done") \cup Ended("full")
  /\ load > 1 =>
       \E c \in 0 .. stats.completed, s \in 0 .. stats.rejectedStandard,
          b \in 0 .. stats.rejectedBackground :
         /\ reading.submitted = c + s + b + backlog
         /\ c >= Cardinality(seen \cap Ended("done"))
         /\ s + b >= Cardinality(seen \cap Ended("full"))
         /\ load > 2 => reading.completed >= c
         /\ load > 5 => reading.rejectedStandard >= s
         /\ load > 6 => reading.rejectedBackground >= b

SnapInv == backlog \in Nat /\ ReadingInv /\ SeenInv
=============================================================================
