------------------------------- MODULE MCDiff -------------------------------
(* Diff on every pair of files of up to five lines over two different lines. *)
EXTENDS Diff, TLC

CONSTANTS p, q

MCLines == {p, q}
=============================================================================
