--------------------------- MODULE MCAggregation ---------------------------
(***************************************************************************)
(* A small model for Aggregation: two layers with adapters, numbered 0 and *)
(* 2, and a head in bfloat16.                                              *)
(***************************************************************************)
EXTENDS Aggregation

CONSTANTS q0, q2, head, w1

TwoLayers == [p \in {q0, q2} |-> IF p = q0 THEN 0 ELSE 2]
=============================================================================
