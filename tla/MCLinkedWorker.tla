--------------------------- MODULE MCLinkedWorker ---------------------------
(***************************************************************************)
(* A trace for LinkedWorker: an outage that ends.                          *)
(***************************************************************************)
EXTENDS LinkedWorker

OneOutage ==
  << [time |-> 0, online |-> TRUE], [time |-> 1, online |-> FALSE],
     [time |-> 2, online |-> TRUE] >>
=============================================================================
