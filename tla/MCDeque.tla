------------------------------ MODULE MCDeque ------------------------------
(* Deque with thieves racing the owner for a deque of two slots. *)
EXTENDS Deque, TLC

CONSTANTS w1, w2, w3

MCThieves == {w1, w2, w3}
MCSymmetry == Permutations(MCThieves)
=============================================================================
