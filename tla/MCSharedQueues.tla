--------------------------- MODULE MCSharedQueues ---------------------------
(* SharedQueues with two submitters and two workers. *)
EXTENDS SharedQueues, TLC

CONSTANTS c1, c2, w1, w2

MCSubmitters == {c1, c2}
MCWorkers == {w1, w2}
MCSymmetry == Permutations(MCSubmitters) \cup Permutations(MCWorkers)
=============================================================================
