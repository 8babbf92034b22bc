-------------------------- MODULE MCRoundProtocol --------------------------
(***************************************************************************)
(* Instances of RoundProtocol for TLC: who owns which logical client.      *)
(***************************************************************************)
EXTENDS RoundInvariant

\* One worker serves every client.
OwnsAll == [w \in Worker |-> Client]

\* Client 0 is claimed by both workers, client 1 by the second only, as after
\* an edit of the nodes file between two starts of a worker.
CONSTANTS w1, w2
OwnsOverlap == [w \in Worker |-> IF w = w1 THEN {0} ELSE {0, 1}]
=============================================================================
