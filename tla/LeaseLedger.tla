----------------------------- MODULE LeaseLedger -----------------------------
(***************************************************************************)
(* What the coordinator promises about leases, without threads, messages   *)
(* or workers: a lease is offered in its own round, withdrawn before the   *)
(* next offer, handed out at most once, and only what was handed out is    *)
(* ever counted, one set of leases per round, when the round is current.   *)
(* RoundProtocol implements it (LedgerSpec there).                         *)
(***************************************************************************)
EXTENDS Naturals

CONSTANTS
  NumRounds,  \* rounds of the experiment
  Client      \* logical client ids

Rounds == 0 .. NumRounds - 1
Lease == [round : Rounds, client : Client]

VARIABLES
  turn,     \* the current round
  offered,  \* leases that may be handed out
  taken,    \* how often each lease was handed out
  counted   \* leases each round counted

ledgerVars == <<turn, offered, taken, counted>>

LedgerInit ==
  /\ turn = 0
  /\ offered = {}
  /\ taken = [l \in Lease |-> 0]
  /\ counted = [r \in Rounds |-> {}]

NextTurn ==
  /\ turn + 1 \in Rounds
  /\ turn' = turn + 1
  /\ UNCHANGED <<offered, taken, counted>>

Withdraw ==
  /\ offered' = {}
  /\ UNCHANGED <<turn, taken, counted>>

\* Offer new leases of this round; none of them was ever handed out.
Offer ==
  /\ offered = {}
  /\ \E C \in SUBSET Client :
       /\ \A c \in C : taken[[round |-> turn, client |-> c]] = 0
       /\ offered' = {[round |-> turn, client |-> c] : c \in C}
  /\ UNCHANGED <<turn, taken, counted>>

Take(l) ==
  /\ taken[l] = 0
  /\ taken' = [taken EXCEPT ![l] = 1]
  /\ offered' = offered \ {l}
  /\ UNCHANGED <<turn, counted>>

\* A round counts once, and only leases somebody holds.
Count ==
  /\ counted[turn] = {}
  /\ \E S \in SUBSET {l \in Lease : taken[l] = 1} :
       counted' = [counted EXCEPT ![turn] = S]
  /\ UNCHANGED <<turn, offered, taken>>

LedgerNext == NextTurn \/ Withdraw \/ Offer \/ (\E l \in offered : Take(l)) \/ Count

LedgerSpec == LedgerInit /\ [][LedgerNext]_ledgerVars
=============================================================================
