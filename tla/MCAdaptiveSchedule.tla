------------------------ MODULE MCAdaptiveSchedule ------------------------
(***************************************************************************)
(* An instance of AdaptiveSchedule: the method, without focus, and without *)
(* focus, reservation and variance (the ablation AdaptiveCore).            *)
(***************************************************************************)
EXTENDS AdaptiveSchedule, TLC

\* The last one only a large device can have.
Reported ==
  {[budget |-> 1, fit |-> 2], [budget |-> 2, fit |-> 1], [budget |-> 3, fit |-> 2]}

MethodAndAblations == {{}, {"focus"}, {"focus", "reservation", "variance"}}

Interchangeable == Permutations(LowResource) \cup Permutations(Slice)
=============================================================================
