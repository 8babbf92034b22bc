---------------------- MODULE AdaptiveScheduleProofs ----------------------
(***************************************************************************)
(* Proofs about the standalone scheduler, for every finite set of clients  *)
(* and slices, every set of reports and all parameters.                    *)
(***************************************************************************)
EXTENDS AdaptiveSchedule, FiniteSetTheorems, TLAPS

LEMMA MinMax ==
  ASSUME NEW m \in Int, NEW n \in Int
  PROVE  /\ Larger(m, n) \in {m, n} /\ Larger(m, n) >= m /\ Larger(m, n) >= n
         /\ Smaller(m, n) \in {m, n} /\ Smaller(m, n) <= m /\ Smaller(m, n) <= n
  BY DEF Larger, Smaller

LEMMA FiniteClients ==
  ASSUME NEW C \in SUBSET Client
  PROVE  IsFiniteSet(C) /\ Cardinality(C) \in Nat
  BY SetAssumption, FS_Subset, FS_CardinalityType

LEMMA FiniteSlices ==
  ASSUME NEW S \in SUBSET Slice
  PROVE  IsFiniteSet(S) /\ Cardinality(S) \in Nat
  BY SetAssumption, FS_Subset, FS_CardinalityType

\* Clients with assignments, and what they hold, are finite.
LEMMA HoldingsFinite ==
  ASSUME TypeOK, NEW c \in Client, NEW s
  PROVE  /\ IsFiniteSet(assignment[c]) /\ Cardinality(assignment[c]) \in Nat
         /\ IsFiniteSet(Holders(s)) /\ Cardinality(Holders(s)) \in Nat
  <1>1. assignment[c] \in SUBSET Slice
        BY DEF TypeOK
  <1>2. Holders(s) \in SUBSET Client
        BY DEF Holders
  <1> QED BY <1>1, <1>2, FiniteClients, FiniteSlices

-----------------------------------------------------------------------------
(* Types *)

\* Between rounds, and until the reservation, nothing is assigned.
Untouched ==
  /\ phase \in {"idle", "reserve"} => assignment = Unassigned /\ reserved = {} /\ passed = {}
  /\ phase = "run" => passed = {}
  /\ phase = "idle" => report = NoReport /\ focus = {} /\ toReserve = {}

ScheduleTypes == TypeOK /\ Untouched

LEMMA ScheduleInit == Init => ScheduleTypes
  <1> SUFFICES ASSUME Init PROVE ScheduleTypes
      OBVIOUS
  <1> USE DEF Init, NoReport, Unassigned
  <1>1. Viable = {} /\ Leased = {}
        BY DEF Viable, Leased
  <1>2. report \in [Viable -> Report]
        BY <1>1
  <1> QED BY <1>1, <1>2, ParameterAssumption DEF ScheduleTypes, TypeOK, Untouched

LEMMA BeginKeeps == ScheduleTypes /\ BeginRound => ScheduleTypes'
  <1> SUFFICES ASSUME ScheduleTypes, BeginRound PROVE ScheduleTypes'
      OBVIOUS
  <1> USE DEF ScheduleTypes, BeginRound, results, queues
  <1>1. PICK V \in SUBSET Client : report' \in [V -> Report]
        BY DEF Reports
  <1>2. DOMAIN report' = V
        BY <1>1
  <1>3. Viable' \subseteq Client /\ report' \in [Viable' -> Report]
        BY <1>1, <1>2 DEF Viable
  <1>4. focus' \subseteq Slice
        BY DEF FocusSets
  <1>5. toReserve' \subseteq Viable' \cap LowResource
        BY DEF ReserveSets, Viable
  <1>6. /\ assignment' = Unassigned /\ reserved' = {} /\ passed' = {}
        BY DEF Untouched
  <1>7. assignment' \in [Client -> SUBSET focus'] /\ Leased' = {}
        BY <1>6 DEF Unassigned, Leased
  <1>8. TypeOK'
        BY <1>3, <1>4, <1>5, <1>6, <1>7 DEF TypeOK
  <1> QED BY <1>6, <1>8 DEF Untouched

LEMMA ReserveKeeps == ScheduleTypes /\ Reserve => ScheduleTypes'
  <1> SUFFICES ASSUME ScheduleTypes, Reserve PROVE ScheduleTypes'
      OBVIOUS
  <1> USE DEF ScheduleTypes, Reserve, inputs, queues
  <1>1. PICK best \in [toReserve -> focus] :
          /\ assignment' = [c \in Client |->
               IF c \in toReserve /\ Fits(c, 1) THEN {best[c]} ELSE {}]
          /\ reserved' = {<<c, best[c]>> : c \in {d \in toReserve : Fits(d, 1)}}
        OBVIOUS
  <1>2. assignment' \in [Client -> SUBSET focus']
        BY <1>1
  <1>3. Viable' = Viable
        BY DEF Viable
  <1>4. \A c \in Client : assignment'[c] # {} => c \in toReserve
        BY <1>1
  <1>5. Leased' \subseteq Viable'
        BY <1>3, <1>4 DEF Leased, TypeOK
  <1>6. reserved' \subseteq toReserve' \X focus'
        BY <1>1
  <1>7. TypeOK'
        BY <1>2, <1>3, <1>5, <1>6 DEF TypeOK
  <1> QED BY <1>7 DEF Untouched

LEMMA AssignKeeps ==
  ASSUME ScheduleTypes, NEW c \in Viable, NEW s \in focus, Assign(c, s)
  PROVE  ScheduleTypes'
  <1> USE DEF ScheduleTypes, Assign, inputs, queues
  <1>1. Viable' = Viable /\ c \in Client
        BY DEF Viable, TypeOK
  <1>2. assignment' \in [Client -> SUBSET focus']
        BY DEF TypeOK
  <1>3. \A d \in Client : assignment'[d] # {} => d = c \/ assignment[d] # {}
        BY DEF TypeOK
  <1>4. Leased' \subseteq Viable'
        BY <1>1, <1>3 DEF Leased, TypeOK
  <1>5. passed' \subseteq Viable' \X focus'
        BY <1>1 DEF PassedWith, TypeOK
  <1>6. TypeOK'
        BY <1>1, <1>2, <1>4, <1>5 DEF TypeOK
  <1> QED BY <1>6 DEF Untouched

LEMMA PassOverKeeps ==
  ASSUME ScheduleTypes, NEW c \in Viable, NEW s \in focus, PassOver(c, s)
  PROVE  ScheduleTypes'
  <1> USE DEF ScheduleTypes, PassOver, inputs, queues
  <1>1. Viable' = Viable /\ Leased' = Leased
        BY DEF Viable, Leased
  <1>2. passed' \subseteq Viable' \X focus'
        BY <1>1 DEF PassedWith, TypeOK
  <1> QED BY <1>1, <1>2 DEF TypeOK, Untouched

LEMMA ReturnKeeps == ScheduleTypes /\ Return => ScheduleTypes'
  <1> SUFFICES ASSUME ScheduleTypes, Return PROVE ScheduleTypes'
      OBVIOUS
  <1> USE DEF ScheduleTypes, Return, inputs, queues
  <1>1. Viable' = Viable /\ Leased' = Leased
        BY DEF Viable, Leased
  <1> QED BY <1>1 DEF TypeOK, Untouched

\* A queue stays between zero and its bound.
LEMMA QueueBounds ==
  ASSUME NEW m \in Nat, NEW x \in Int, NEW r \in {0, 9}
  PROVE  Smaller(m, (9 * Larger(0, x) + r) \div 10) \in 0 .. m
  <1>1. Larger(0, x) \in Nat
        BY DEF Larger
  <1>2. (9 * Larger(0, x) + r) \div 10 \in Nat
        BY <1>1
  <1> QED BY <1>2 DEF Smaller

LEMMA UpdateKeeps ==
  ASSUME ScheduleTypes, NEW done \in SUBSET Client, PostRoundUpdate(done)
  PROVE  ScheduleTypes'
  <1> USE DEF ScheduleTypes, PostRoundUpdate
  <1>1. ASSUME NEW s \in Slice
        PROVE  CoverageAfter(s, done) \in 0 .. MaxBacklog
    <2>1. Accepted(s, done) \in Nat
          BY FiniteClients DEF Accepted, Holders
    <2>2. backlog[s] + Target - 10 * Accepted(s, done) \in Int
          BY <2>1, ParameterAssumption DEF TypeOK
    <2>3. 9 * Larger(0, backlog[s] + Target - 10 * Accepted(s, done)) + 0
            = 9 * Larger(0, backlog[s] + Target - 10 * Accepted(s, done))
          BY <2>2, MinMax
    <2> QED BY <2>2, <2>3, QueueBounds, ParameterAssumption DEF CoverageAfter
  <1>2. FairnessAfter(done) \in 0 .. MaxBacklog
    <2>1. /\ Cardinality(done \cap LowResource) \in Nat
          /\ Cardinality(Leased \cap LowResource) \in Nat
          BY FiniteClients DEF Leased
    <2>2. LowRate(done) \in Nat
      <3>1. Larger(1, Cardinality(Leased \cap LowResource)) \in Nat \ {0}
            BY <2>1 DEF Larger
      <3> QED BY <2>1, <3>1 DEF LowRate
    <2>3. fairness + FairTarget - LowRate(done) \in Int
          BY <2>2, ParameterAssumption DEF TypeOK
    <2> QED BY <2>3, QueueBounds, ParameterAssumption DEF FairnessAfter
  <1>3. backlog' \in [Slice -> 0 .. MaxBacklog] /\ fairness' \in 0 .. MaxBacklog
        BY <1>1, <1>2 DEF TypeOK
  <1>4. round' \in 0 .. NumRounds /\ starved' \in [Slice -> 0 .. round']
        BY ParameterAssumption DEF TypeOK
  <1>5. /\ Viable' = {} /\ Leased' = {}
        /\ report' \in [Viable' -> Report]
        /\ assignment' \in [Client -> SUBSET focus']
        BY DEF Viable, Leased, NoReport, Unassigned
  <1>6. passed' = {}
        BY DEF Untouched
  <1> QED BY <1>3, <1>4, <1>5, <1>6 DEF TypeOK, Untouched

LEMMA ScheduleStep == ScheduleTypes /\ [Next]_vars => ScheduleTypes'
  <1> SUFFICES ASSUME ScheduleTypes, [Next]_vars PROVE ScheduleTypes'
      OBVIOUS
  <1>1. CASE BeginRound BY <1>1, BeginKeeps
  <1>2. CASE Reserve BY <1>2, ReserveKeeps
  <1>3. CASE \E c \in Viable, s \in focus : Assign(c, s) \/ PassOver(c, s)
        BY <1>3, AssignKeeps, PassOverKeeps
  <1>4. CASE Return BY <1>4, ReturnKeeps
  <1>5. CASE \E done \in SUBSET Client : PostRoundUpdate(done)
        BY <1>5, UpdateKeeps
  <1>6. CASE UNCHANGED vars
        BY <1>6 DEF vars, queues, inputs, results, ScheduleTypes, TypeOK, Untouched,
                    Viable, Leased
  <1> QED BY <1>1, <1>2, <1>3, <1>4, <1>5, <1>6 DEF Next

LEMMA ScheduleInvariance == Spec => []ScheduleTypes
  BY ScheduleInit, ScheduleStep, PTL DEF Spec

\* Types and the bounds of both queues, however many slices a round serves
\* (virtual_queue.py:13-16).
THEOREM ScheduleTypeOK == Spec => []TypeOK
  BY ScheduleInvariance, PTL DEF ScheduleTypes

-----------------------------------------------------------------------------
(* Nothing is left over *)

\* What the loop is past stays out of reach; when it has passed all pairs, that
\* is all of them.
LeftOverInv ==
  /\ phase = "assign" =>
       \A c \in Viable, s \in focus : <<c, s>> \in passed => ~MayHold(c, s)
  /\ NothingLeftOver

\* One more assignment lets no other pair through.
LEMMA HoldIsAntitone ==
  ASSUME ScheduleTypes, NEW c \in Viable, NEW s \in focus, Assign(c, s),
         NEW d \in Viable, NEW t \in focus, MayHold(d, t)'
  PROVE  MayHold(d, t)
  <1> USE DEF ScheduleTypes, Assign, inputs, queues
  <1>1. c \in Client /\ d \in Client /\ report' = report /\ focus' = focus
        BY DEF TypeOK, Viable
  <1>2. assignment' = [assignment EXCEPT ![c] = @ \cup {s}] /\ assignment \in [Client -> SUBSET focus]
        BY DEF TypeOK
  <1>3. TypeOK'
        BY AssignKeeps
  <1>4. assignment[d] \subseteq assignment'[d] /\ Holders(t) \subseteq Holders(t)'
        BY <1>1, <1>2 DEF Holders
  <1>5. /\ IsFiniteSet(assignment[d]) /\ Cardinality(assignment[d]) \in Nat
        /\ IsFiniteSet(Holders(t)) /\ Cardinality(Holders(t)) \in Nat
        BY <1>1, HoldingsFinite
  <1>6. Holders(t)' \in SUBSET Client /\ assignment'[d] \in SUBSET Slice
        BY <1>1, <1>3 DEF Holders, TypeOK
  <1>7. /\ IsFiniteSet(Holders(t)') /\ Cardinality(Holders(t)') \in Nat
        /\ IsFiniteSet(assignment'[d]) /\ Cardinality(assignment'[d]) \in Nat
        BY <1>6, FiniteClients, FiniteSlices
  <1>8. /\ Cardinality(assignment[d]) <= Cardinality(assignment'[d])
        /\ Cardinality(Holders(t)) <= Cardinality(Holders(t)')
        BY <1>4, <1>7, FS_Subset
  <1>9. Redundancy(t)' = Redundancy(t)
        BY DEF Redundancy
  <1>10. report[d].budget \in Int /\ report[d].fit \in Int
         BY SetAssumption DEF TypeOK
  <1>11. Redundancy(t) \in Int
         BY ParameterAssumption DEF Redundancy, Smaller
  <1>12. /\ Cardinality(assignment'[d]) < report[d].budget
         /\ Cardinality(Holders(t)') < Redundancy(t)
         /\ t \notin assignment'[d]
         /\ Cardinality(assignment'[d]) + 1 <= report[d].fit
         BY <1>1, <1>9 DEF MayHold, Fits
  <1> QED BY <1>4, <1>5, <1>7, <1>8, <1>10, <1>11, <1>12 DEF MayHold, Fits

LEMMA LeftOverStep == ScheduleTypes /\ LeftOverInv /\ [Next]_vars => LeftOverInv'
  <1> SUFFICES ASSUME ScheduleTypes, LeftOverInv, [Next]_vars PROVE LeftOverInv'
      OBVIOUS
  <1> USE DEF LeftOverInv, NothingLeftOver
  <1>1. CASE BeginRound
        BY <1>1 DEF BeginRound
  <1>2. CASE Reserve
        BY <1>2 DEF Reserve, ScheduleTypes, Untouched
  <1>3. ASSUME NEW c \in Viable, NEW s \in focus, Assign(c, s)
        PROVE  LeftOverInv'
    <2>1. Viable' = Viable /\ focus' = focus /\ phase' = "assign"
          BY <1>3 DEF Assign, inputs, Viable
    <2>2. ASSUME NEW d \in Viable, NEW t \in focus, <<d, t>> \in passed'
          PROVE  ~MayHold(d, t)'
      <3>1. CASE <<d, t>> \in passed
            BY <1>3, <3>1, HoldIsAntitone DEF Assign
      <3>2. CASE d = c /\ t = s
        <4>1. s \in assignment'[c]
              BY <1>3 DEF Assign, ScheduleTypes, TypeOK
        <4> QED BY <3>2, <4>1 DEF MayHold
      <3> QED BY <1>3, <2>2, <3>1, <3>2 DEF Assign, PassedWith
    <2> QED BY <2>1, <2>2
  <1>4. ASSUME NEW c \in Viable, NEW s \in focus, PassOver(c, s)
        PROVE  LeftOverInv'
    <2>1. /\ Viable' = Viable /\ focus' = focus /\ phase' = "assign"
          /\ \A d, t : MayHold(d, t)' = MayHold(d, t)
          BY <1>4 DEF PassOver, inputs, queues, Viable, MayHold, Holders, Redundancy, Fits
    <2>2. ~MayHold(c, s) /\ passed' = passed \cup {<<c, s>>} /\ phase = "assign"
          BY <1>4 DEF PassOver, PassedWith
    <2> QED BY <2>1, <2>2
  <1>5. CASE Return
    <2>1. /\ Viable' = Viable /\ focus' = focus /\ phase' = "run"
          /\ \A d, t : MayHold(d, t)' = MayHold(d, t)
          BY <1>5 DEF Return, inputs, queues, Viable, MayHold, Holders, Redundancy, Fits
    <2> QED BY <1>5, <2>1 DEF Return
  <1>6. CASE \E done \in SUBSET Client : PostRoundUpdate(done)
        BY <1>6 DEF PostRoundUpdate
  <1>7. CASE UNCHANGED vars
        BY <1>7 DEF vars, queues, inputs, results, Viable, MayHold, Holders, Redundancy, Fits
  <1> QED BY <1>1, <1>2, <1>3, <1>4, <1>5, <1>6, <1>7 DEF Next

\* When schedule returns, no client could carry another slice, whatever the
\* order of the pairs (adaptive_lease_lora.py:183-204).
THEOREM ScheduleNothingLeftOver == Spec => []NothingLeftOver
  <1>1. Init => LeftOverInv
        BY DEF Init, LeftOverInv, NothingLeftOver
  <1> QED BY <1>1, LeftOverStep, ScheduleInvariance, PTL DEF Spec, LeftOverInv

-----------------------------------------------------------------------------
(* Redundancy *)

LEMMA RedundancyPositive ==
  ASSUME NEW s
  PROVE  Redundancy(s) \in Nat /\ Redundancy(s) >= 1
  BY ParameterAssumption DEF Redundancy, Smaller

LEMMA OneMore ==
  ASSUME NEW S, IsFiniteSet(S), NEW x
  PROVE  Cardinality(S \cup {x}) \in Nat /\ Cardinality(S \cup {x}) <= Cardinality(S) + 1
  <1>1. Cardinality(S) \in Nat
        BY FS_CardinalityType
  <1>2. Cardinality(S \cup {x}) \in {Cardinality(S), Cardinality(S) + 1}
        BY FS_AddElement
  <1> QED BY <1>1, <1>2

LEMMA ExcessStep == ScheduleTypes /\ ExcessIsReserved /\ [Next]_vars => ExcessIsReserved'
  <1> SUFFICES ASSUME ScheduleTypes, ExcessIsReserved, [Next]_vars PROVE ExcessIsReserved'
      OBVIOUS
  <1> USE DEF ExcessIsReserved
  <1>1. ASSUME assignment' = Unassigned PROVE ExcessIsReserved'
    <2>1. \A s : Holders(s)' = {}
          BY <1>1 DEF Holders, Unassigned
    <2> QED BY <2>1
  <1>2. CASE BeginRound
        BY <1>1, <1>2 DEF BeginRound, results, ScheduleTypes, Untouched
  <1>3. CASE Reserve
    <2>1. \A s \in focus' : \A c \in Holders(s)' : <<c, s>> \in reserved'
          BY <1>3 DEF Reserve, inputs, Holders
    <2> QED BY <2>1
  <1>4. ASSUME NEW c \in Viable, NEW s \in focus, Assign(c, s)
        PROVE  ExcessIsReserved'
    <2>1. /\ focus' = focus /\ reserved' = reserved
          /\ \A t : Redundancy(t)' = Redundancy(t)
          BY <1>4 DEF Assign, inputs, queues, Redundancy
    <2>2. c \in Client /\ assignment \in [Client -> SUBSET focus]
          BY DEF ScheduleTypes, TypeOK, Viable
    <2>3. \A t \in focus : t # s => Holders(t)' = Holders(t)
          BY <1>4, <2>2 DEF Assign, Holders
    <2>4. Holders(s)' = Holders(s) \cup {c}
          BY <1>4, <2>2 DEF Assign, Holders
    <2>5. Cardinality(Holders(s)) < Redundancy(s)
          BY <1>4 DEF Assign, MayHold
    <2>6. IsFiniteSet(Holders(s)) /\ Cardinality(Holders(s)) \in Nat
          BY <2>2, HoldingsFinite DEF ScheduleTypes
    <2>7. Cardinality(Holders(s)') <= Cardinality(Holders(s)) + 1 /\ Cardinality(Holders(s)') \in Nat
          BY <2>4, <2>6, OneMore
    <2>8. ~(Cardinality(Holders(s)') > Redundancy(s))
          BY <2>5, <2>6, <2>7, RedundancyPositive
    <2> QED BY <2>1, <2>3, <2>8
  <1>5. ASSUME UNCHANGED <<disabled, queues, inputs, assignment, reserved>>
        PROVE  ExcessIsReserved'
        BY <1>5 DEF queues, inputs, Holders, Redundancy
  <1>6. CASE \E c \in Viable, s \in focus : Assign(c, s) \/ PassOver(c, s)
        BY <1>4, <1>5, <1>6 DEF PassOver
  <1>7. CASE Return
        BY <1>5, <1>7 DEF Return
  <1>8. CASE \E done \in SUBSET Client : PostRoundUpdate(done)
        BY <1>1, <1>8 DEF PostRoundUpdate
  <1>9. CASE UNCHANGED vars
        BY <1>5, <1>9 DEF vars, results
  <1> QED BY <1>2, <1>3, <1>6, <1>7, <1>8, <1>9 DEF Next

\* The loop over the pairs never gives a slice to more clients than its
\* redundancy; only reservations can (adaptive_lease_lora.py:102-117, 197).
THEOREM ScheduleExcessIsReserved == Spec => []ExcessIsReserved
  <1>1. Init => ExcessIsReserved
        BY DEF Init, ExcessIsReserved
  <1> QED BY <1>1, ExcessStep, ScheduleInvariance, PTL DEF Spec

-----------------------------------------------------------------------------
(* Reservation *)

\* Reservations exist when they should, and are kept.
ReserveInv ==
  /\ phase # "idle" /\ "reservation" \notin disabled /\ Viable \cap LowResource # {}
       => toReserve # {}
  /\ phase \in {"assign", "run"} => \A c \in toReserve : Fits(c, 1) => assignment[c] # {}

\* At least one client has a reservation, if there is a low-resource client.
LEMMA SomeReserved ==
  ASSUME NEW r, "reservation" \notin disabled,
         DOMAIN r \subseteq Client, DOMAIN r \cap LowResource # {},
         NEW R \in ReserveSets(r)
  PROVE  R # {}
  <1> DEFINE low == DOMAIN r \cap LowResource
  <1>1. PICK share \in 15 .. 40 :
          Cardinality(R) = Smaller(NumReserved(Cardinality(low), share), Cardinality(low))
        BY DEF ReserveSets
  <1>2. IsFiniteSet(low) /\ Cardinality(low) \in Nat
        BY FiniteClients
  <1>3. Cardinality(low) >= 1
        BY <1>2, FS_EmptySet
  <1> HIDE DEF low
  <1>4. NumReserved(Cardinality(low), share) >= 1
        BY <1>2 DEF NumReserved, Larger
  <1>5. Cardinality(R) # 0
        BY <1>1, <1>2, <1>3, <1>4 DEF NumReserved, Larger, Smaller
  <1> QED BY <1>5, FS_EmptySet

LEMMA ReserveStep == ScheduleTypes /\ ReserveInv /\ [Next]_vars => ReserveInv'
  <1> SUFFICES ASSUME ScheduleTypes, ReserveInv, [Next]_vars PROVE ReserveInv'
      OBVIOUS
  <1> USE DEF ReserveInv
  <1>1. CASE BeginRound
    <2>1. /\ toReserve' \in ReserveSets(report') /\ phase' = "reserve" /\ disabled' = disabled
          BY <1>1 DEF BeginRound
    <2>2. DOMAIN report' = Viable' /\ Viable' \subseteq Client
          BY <1>1, BeginKeeps DEF Viable, ScheduleTypes, TypeOK
    <2> QED BY <2>1, <2>2, SomeReserved
  <1>2. CASE Reserve
    <2>1. /\ phase = "reserve" /\ disabled' = disabled /\ toReserve' = toReserve
          /\ Viable' = Viable /\ report' = report
          BY <1>2 DEF Reserve, inputs, Viable
    <2>2. toReserve \subseteq Client
          BY DEF ScheduleTypes, TypeOK
    <2>3. \A c \in toReserve : Fits(c, 1) => assignment'[c] # {}
          BY <1>2, <2>2 DEF Reserve
    <2> QED BY <2>1, <2>3 DEF Fits
  <1>3. ASSUME NEW c \in Viable, NEW s \in focus, Assign(c, s)
        PROVE  ReserveInv'
    <2>1. /\ phase = "assign" /\ disabled' = disabled /\ toReserve' = toReserve
          /\ Viable' = Viable /\ report' = report
          BY <1>3 DEF Assign, inputs, Viable
    <2>2. \A d \in Client : assignment[d] \subseteq assignment'[d]
          BY <1>3 DEF Assign, ScheduleTypes, TypeOK
    <2>3. toReserve \subseteq Client
          BY DEF ScheduleTypes, TypeOK
    <2> QED BY <2>1, <2>2, <2>3 DEF Fits
  <1>4. CASE \E c \in Viable, s \in focus : Assign(c, s) \/ PassOver(c, s)
        BY <1>3, <1>4 DEF PassOver, inputs, Viable, Fits
  <1>5. CASE Return
        BY <1>5 DEF Return, inputs, Viable, Fits
  <1>6. CASE \E done \in SUBSET Client : PostRoundUpdate(done)
        BY <1>6 DEF PostRoundUpdate
  <1>7. CASE UNCHANGED vars
        BY <1>7 DEF vars, inputs, results, Viable, Fits
  <1> QED BY <1>1, <1>2, <1>4, <1>5, <1>6, <1>7 DEF Next

\* With the reservation, some low-resource client has a lease if they can all
\* carry a slice (adaptive_lease_lora.py:98-117).
THEOREM ScheduleWeakNotShutOut == Spec => []WeakNotShutOut
  <1>1. Init => ReserveInv
        BY DEF Init, ReserveInv
  <1>2. ScheduleTypes /\ ReserveInv => WeakNotShutOut
        BY DEF ScheduleTypes, TypeOK, ReserveInv, WeakNotShutOut, Leased
  <1> QED BY <1>1, <1>2, ReserveStep, ScheduleInvariance, PTL DEF Spec
-----------------------------------------------------------------------------
(* Redundancy is withdrawn *)

\* A queue holds at least what it would hold had it been empty when the slice was
\* last served.
OwedInv(owed) ==
  "dpp" \notin disabled =>
    \A s \in Slice : \A k \in 0 .. RedundantLimit + 1 : k <= starved[s] => owed[k] <= backlog[s]

LEMMA UnservedMonotone ==
  ASSUME NEW x \in Nat, NEW y \in Nat, x <= y
  PROVE  Unserved(x) <= Unserved(y)
  <1>1. (9 * (x + Target)) \div 10 <= (9 * (y + Target)) \div 10
        BY ParameterAssumption
  <1>2. (9 * (x + Target)) \div 10 \in Int /\ (9 * (y + Target)) \div 10 \in Int
        BY ParameterAssumption
  <1> QED BY <1>1, <1>2, ParameterAssumption DEF Unserved, Smaller

LEMMA OwedStep ==
  ASSUME NEW owed \in [0 .. RedundantLimit + 1 -> 0 .. MaxBacklog],
         owed[0] = 0,
         \A k \in 0 .. RedundantLimit : owed[k + 1] = Unserved(owed[k]),
         ScheduleTypes, OwedInv(owed), [Next]_vars
  PROVE  OwedInv(owed)'
  <1>1. ASSUME UNCHANGED <<disabled, backlog, starved>> PROVE OwedInv(owed)'
        BY <1>1 DEF OwedInv
  <1>2. ASSUME NEW done \in SUBSET Client, PostRoundUpdate(done) PROVE OwedInv(owed)'
    <2> SUFFICES ASSUME "dpp" \notin disabled, NEW s \in Slice,
                        NEW k \in 0 .. RedundantLimit + 1, k <= starved'[s]
                 PROVE  owed[k] <= backlog'[s]
        BY <1>2 DEF PostRoundUpdate, OwedInv
    <2>1. /\ backlog[s] \in 0 .. MaxBacklog /\ backlog'[s] \in 0 .. MaxBacklog
          /\ starved[s] \in Nat /\ RedundantLimit \in Nat /\ MaxBacklog \in Nat
      <3>1. TypeOK /\ TypeOK'
            BY <1>2, UpdateKeeps DEF ScheduleTypes
      <3>2. backlog[s] \in 0 .. MaxBacklog /\ starved[s] \in Nat
            BY <3>1, ParameterAssumption DEF TypeOK
      <3>3. backlog'[s] \in 0 .. MaxBacklog
            BY <3>1 DEF TypeOK
      <3> QED BY <3>2, <3>3, LimitAssumption, ParameterAssumption
    <2>2. CASE k = 0
          BY <2>1, <2>2
    <2>3. CASE k # 0
      <3>1. starved'[s] = IF Holders(s) \cap done = {} THEN starved[s] + 1 ELSE 0
            BY <1>2 DEF PostRoundUpdate
      <3>2. Holders(s) \cap done = {} /\ starved'[s] = starved[s] + 1
            BY <2>1, <2>3, <3>1
      <3>3. Accepted(s, done) = 0
            BY <3>2, FS_EmptySet DEF Accepted
      <3>4. backlog'[s] = Unserved(backlog[s])
        <4>1. backlog'[s] = CoverageAfter(s, done)
              BY <1>2 DEF PostRoundUpdate
        <4>2. Larger(0, backlog[s] + Target - 10 * 0) = backlog[s] + Target
              BY <2>1, ParameterAssumption DEF Larger
        <4> QED BY <3>3, <4>1, <4>2 DEF CoverageAfter, Unserved
      <3>5. k - 1 \in 0 .. RedundantLimit /\ (k - 1) + 1 = k
            BY <2>1, <2>3
      <3>6. k - 1 \in 0 .. RedundantLimit + 1 /\ k - 1 <= starved[s]
            BY <2>1, <3>2, <3>5
      <3>7. owed[k - 1] <= backlog[s] /\ owed[k - 1] \in 0 .. MaxBacklog
            BY <3>6 DEF OwedInv
      <3>8. owed[k] = Unserved(owed[k - 1])
            BY <3>5
      <3> QED BY <2>1, <3>4, <3>7, <3>8, UnservedMonotone
    <2> QED BY <2>2, <2>3
  <1>3. CASE BeginRound
        BY <1>1, <1>3 DEF BeginRound, queues
  <1>4. CASE Reserve
        BY <1>1, <1>4 DEF Reserve, queues
  <1>5. CASE \E c \in Viable, s \in focus : Assign(c, s) \/ PassOver(c, s)
        BY <1>1, <1>5 DEF Assign, PassOver, queues
  <1>6. CASE Return
        BY <1>1, <1>6 DEF Return, queues
  <1>7. CASE UNCHANGED vars
        BY <1>1, <1>7 DEF vars, queues
  <1> QED BY <1>2, <1>3, <1>4, <1>5, <1>6, <1>7 DEF Next

\* A second client is withdrawn from every slice that goes unserved, after as many
\* rounds as its queue needs from zero to the ceiling, whatever target, bound of the
\* queue and ceiling are (virtual_queue.py:13-16, variance_tracker.py:54).
THEOREM ScheduleRedundantIsRecent == Spec => []RedundantIsRecent
  <1>1. PICK owed \in [0 .. RedundantLimit + 1 -> 0 .. MaxBacklog] :
          /\ owed[0] = 0
          /\ \A k \in 0 .. RedundantLimit : owed[k + 1] = Unserved(owed[k])
          /\ owed[RedundantLimit + 1] >= Ceiling
        BY LimitAssumption
  <1>2. Init => OwedInv(owed)
    <2>1. \A k \in 0 .. RedundantLimit + 1 : k <= 0 => k = 0
          BY LimitAssumption
    <2> QED BY <1>1, <2>1 DEF Init, OwedInv
  <1>3. ScheduleTypes /\ OwedInv(owed) /\ [Next]_vars => OwedInv(owed)'
        BY <1>1, OwedStep
  <1>4. ScheduleTypes /\ OwedInv(owed) => RedundantIsRecent
    <2> SUFFICES ASSUME ScheduleTypes, OwedInv(owed), "dpp" \notin disabled,
                        NEW s \in Slice, Redundancy(s) > RBase
                 PROVE  starved[s] <= RedundantLimit
        BY DEF RedundantIsRecent
    <2>1. backlog[s] < Ceiling
          BY ParameterAssumption DEF Redundancy
    <2>2. starved[s] \in Nat /\ backlog[s] \in Nat /\ Ceiling \in Nat /\ RedundantLimit \in Nat
          BY LimitAssumption, ParameterAssumption DEF ScheduleTypes, TypeOK
    <2>3. RedundantLimit + 1 \in 0 .. RedundantLimit + 1
          BY <2>2
    <2>4. owed[RedundantLimit + 1] \in Nat
          BY <2>3, ParameterAssumption
    <2>5. ~(RedundantLimit + 1 <= starved[s])
          BY <1>1, <2>1, <2>2, <2>3, <2>4 DEF OwedInv
    <2> QED BY <2>2, <2>5
  <1> QED BY <1>2, <1>3, <1>4, ScheduleInvariance, PTL DEF Spec
=============================================================================
