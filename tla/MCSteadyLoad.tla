---------------------------- MODULE MCSteadyLoad ----------------------------
(* SteadyLoad with two tasks for each queue and two workers. *)
EXTENDS SteadyLoad

CONSTANTS s1, s2, b1, b2, w1, w2

MCStandard == {s1, s2}
MCBackground == {b1, b2}
MCWorkers == {w1, w2}
=============================================================================
