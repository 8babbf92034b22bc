------------------------ MODULE MCCoordinatorRestart ------------------------
(* A small instance of CoordinatorRestart. *)
EXTENDS CoordinatorRestart, TLC

CONSTANTS w1, w2

Interchangeable == Permutations({w1, w2})
=============================================================================
