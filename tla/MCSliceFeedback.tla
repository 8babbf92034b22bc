-------------------------- MODULE MCSliceFeedback --------------------------
(***************************************************************************)
(* An instance of SliceFeedback: a client that leases one slice and one    *)
(* that leases two and may be late with them.                              *)
(***************************************************************************)
EXTENDS SliceFeedback, TLC

CONSTANTS a, b, s1, s2

Quota == a :> 1 @@ b :> 2

\* Three gated slices and slice_head: the guard keeps two of the four.
FirstHalf == {s1, s2}

\* Both are in the first half.
Interchangeable == Permutations({s1, s2})
=============================================================================
