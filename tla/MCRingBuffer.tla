---------------------------- MODULE MCRingBuffer ----------------------------
(* RingBuffer, made with no room, with room for one, or for three values. *)
EXTENDS RingBuffer, TLC

CONSTANTS a, b, c

MCValues == {a, b, c}
MCSymmetry == Permutations(MCValues)
=============================================================================
