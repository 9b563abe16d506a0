---------------------------- MODULE MCFileStore ----------------------------
(* FileStore with one upload that was made before, and two more requests. *)
EXTENDS FileStore

CONSTANTS r1, r2, r3

MCRequests == {r1, r2, r3}
MCSaved == {r3}
=============================================================================
