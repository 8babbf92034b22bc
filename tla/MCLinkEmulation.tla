-------------------------- MODULE MCLinkEmulation --------------------------
(***************************************************************************)
(* Traces for LinkEmulation.                                               *)
(***************************************************************************)
EXTENDS LinkEmulation

\* Two outages of different length, like intermittent.csv.
Intermittent ==
  << [time |-> 0, online |-> TRUE], [time |-> 1, online |-> FALSE],
     [time |-> 3, online |-> TRUE], [time |-> 4, online |-> FALSE],
     [time |-> 5, online |-> TRUE] >>

\* A trace that begins in an outage.
StartsOffline ==
  << [time |-> 0, online |-> FALSE], [time |-> 1, online |-> TRUE],
     [time |-> 2, online |-> TRUE] >>
=============================================================================
