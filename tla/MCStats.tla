------------------------------- MODULE MCStats -------------------------------
(* Stats, called while a client submits tasks faster than they are served. *)
EXTENDS Stats

CONSTANT c1

OneClient == {c1}
Burst == c1 :> <<1, 2, 3>>
NoKids == [t \in Tasks |-> <<>>]
NoWaits == [t \in Tasks |-> {}]
=============================================================================
