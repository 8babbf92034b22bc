----------------------- MODULE LeaseAdmissionProofs -----------------------
(***************************************************************************)
(* Proofs about admission, for every set of tiers, every mode of the       *)
(* guard, and every number of slices, steps, rounds and restarts.          *)
(***************************************************************************)
EXTENDS LeaseAdmission, TLAPS

USE DEF MinSlices, MinSteps, MinMicroBatch, SliceMemory, SlicePayload, StepTime,
        DefaultRtt, StaleAfter

LEMMA MinMax ==
  ASSUME NEW m \in Int, NEW n \in Int
  PROVE  /\ Larger(m, n) \in {m, n} /\ Larger(m, n) >= m /\ Larger(m, n) >= n
         /\ Smaller(m, n) \in {m, n} /\ Smaller(m, n) <= m /\ Smaller(m, n) <= n
  BY DEF Larger, Smaller

LEMMA TierFields ==
  ASSUME TypeOK
  PROVE  /\ tier.budget \in 0 .. 10 /\ tier.slowdown \in Nat /\ tier.uplink \in Nat
         /\ tier.throughput \in Nat /\ tier.memory \in Nat
  BY TierAssumption DEF TypeOK

LEMMA LocalStepsType == ASSUME TypeOK PROVE LocalSteps \in Nat
  <1>1. (BaseSteps * Smaller(500, tier.throughput)) \div 500 \in Nat
    <2>1. Smaller(500, tier.throughput) \in Nat
          BY TierFields, MinMax
    <2>2. BaseSteps * Smaller(500, tier.throughput) \in Nat
          BY <2>1, ConfigAssumption
    <2> QED BY <2>2
  <1>2. BaseSteps \div 3 \in Nat
        BY ConfigAssumption
  <1> DEFINE least == Larger(4, BaseSteps \div 3)
             scaled == Larger(least, (BaseSteps * Smaller(500, tier.throughput)) \div 500)
  <1>3. least \in Nat
        BY <1>2 DEF Larger
  <1>4. scaled \in Nat
        BY <1>1, <1>3 DEF Larger
  <1>5. (scaled \div 4) * 4 \in Nat
        BY <1>4
  <1> HIDE DEF least, scaled
  <1>6. Larger(least, Larger(4, (scaled \div 4) * 4)) \in Nat
        BY <1>3, <1>5 DEF Larger
  <1> QED BY <1>6 DEF LocalSteps, least, scaled

\* The guard shrinks within the type of a lease.
LEMMA ShrinkType ==
  ASSUME NEW p \in Lease
  PROVE  FewerSlices(p) \in Lease /\ FewerSteps(p) \in Lease /\ SmallerBatch(p) \in Lease
  <1> USE ConfigAssumption DEF Lease
  <1>1. Length(p) \in Nat
        BY DEF Length
  <1>2. FewerSlices(p) \in Lease
    <2> DEFINE kept == Larger(Length(p) \div 2, MinSlices)
    <2>1. kept \in Nat
          BY <1>1 DEF Larger
    <2>2. Smaller(p.gated, kept) \in 0 .. NumGated
          BY <2>1 DEF Smaller
    <2>3. (p.head /\ kept > p.gated) \in BOOLEAN
          OBVIOUS
    <2>4. [p EXCEPT !.gated = Smaller(@, kept), !.head = @ /\ kept > p.gated] \in Lease
          BY <2>2, <2>3
    <2> QED BY <2>4 DEF FewerSlices
  <1>3. FewerSteps(p) \in Lease
        BY DEF FewerSteps, Larger
  <1>4. SmallerBatch(p) \in Lease
        BY DEF SmallerBatch, Larger
  <1> QED BY <1>2, <1>3, <1>4

LEMMA ShrunkType ==
  ASSUME NEW p \in Lease, NEW u
  PROVE  Shrunk(p, u) \in Lease
  BY ShrinkType DEF Shrunk

\* What is proposed once the warm-up is over.
Standing == [gated |-> Quota, head |-> TRUE, steps |-> LocalSteps, micro |-> MicroBatch]

LEMMA ProposalType == ASSUME TypeOK PROVE Proposal \in Lease
  <1> USE ConfigAssumption, TierFields
  <1>1. (NumGated * tier.budget) \div 10 \in 0 .. NumGated
    <2>1. NumGated * tier.budget \in 0 .. NumGated * 10
          OBVIOUS
    <2> QED BY <2>1
  <1>2. Quota \in 0 .. NumGated
        BY <1>1 DEF Quota, Larger
  <1> QED BY <1>2, LocalStepsType DEF Proposal, Lease

\* The micro batch plays no part in feasibility.
LEMMA BatchIgnored ==
  ASSUME NEW p \in Lease, NEW u
  PROVE  Feasible(SmallerBatch(p), u) <=> Feasible(p, u)
  <1>1. /\ SmallerBatch(p).gated = p.gated /\ SmallerBatch(p).head = p.head
        /\ SmallerBatch(p).steps = p.steps
        BY DEF SmallerBatch, Lease
  <1> QED BY <1>1 DEF Feasible, FitsMemory, UploadFits, TimeFits, OracleFits, Crosses,
                    Length, ComputeTime

LEMMA BatchKept ==
  ASSUME NEW p \in Lease, NEW u, Feasible(Shrunk(p, u), u)
  PROVE  Shrunk(p, u).micro = p.micro
  <1> DEFINE one == IF Feasible(p, u) THEN p ELSE FewerSlices(p)
             two == IF Feasible(one, u) THEN one ELSE FewerSteps(one)
  <1>1. one \in Lease /\ two \in Lease
        BY ShrinkType
  <1>2. one.micro = p.micro
        BY DEF FewerSlices, Lease
  <1>3. two.micro = one.micro
        BY <1>1 DEF FewerSteps, Lease
  <1>4. Shrunk(p, u) = IF Feasible(two, u) THEN two ELSE SmallerBatch(two)
        BY DEF Shrunk
  <1> HIDE DEF one, two
  <1>5. Feasible(two, u)
        BY <1>1, <1>4, BatchIgnored
  <1> QED BY <1>2, <1>3, <1>4, <1>5

-----------------------------------------------------------------------------
(* Types *)

LEMMA DivNat ==
  ASSUME NEW a \in Nat, NEW b \in Nat, b > 0
  PROVE  a \div b \in Nat
  OBVIOUS

\* The predictor's records, whatever speeds and misses they come from.
Prediction(r) == [known : BOOLEAN, bw : Nat, fails : Nat, lastOk : -1 .. r]

LEMMA HeardType ==
  ASSUME TypeOK, NEW p \in Prediction(round), NEW l \in Lease
  PROVE  Heard(p, l) \in Prediction(round)
  <1> USE ConfigAssumption, TierFields
  <1>1. round \in Nat
        BY DEF TypeOK
  <1>2. Payload(l) \in Nat
        BY DEF Payload, Lease
  <1>3. TrainTime(l) \in Nat
    <2>1. l.steps * SimStep * tier.slowdown \in Nat
          BY DEF Lease
    <2> QED BY <2>1 DEF TrainTime
  <1>4. Larger(1, TrainTime(l)) \in Nat /\ Larger(1, TrainTime(l)) > 0
        BY <1>3 DEF Larger
  <1>5. (100 * Payload(l)) \div Larger(1, TrainTime(l)) \in Nat
        BY <1>2, <1>4, DivNat
  <1>6. Measured(l) \in Nat
        BY <1>5 DEF Measured, Larger
  <1>7. (3 * Measured(l) + 7 * p.bw) \div 10 \in Nat
        BY <1>6 DEF Prediction
  <1> QED BY <1>1, <1>7 DEF Heard, RecordSuccess, Prediction

LEMMA UpdatesType ==
  ASSUME TypeOK
  PROVE  /\ pred \in Prediction(round)
         /\ AfterUpdates \subseteq Prediction(round)
         /\ Received \subseteq Prediction(round)
  <1>1. pred \in Prediction(round)
        BY DEF TypeOK, Prediction, Larger
  <1>2. lease \in Lease /\ previous \in Lease
        BY DEF TypeOK
  <1>3. AfterUpdates \subseteq Prediction(round)
        BY <1>1, <1>2, HeardType DEF AfterUpdates
  <1> QED BY <1>1, <1>3 DEF Received

LEMMA FailureType ==
  ASSUME NEW r \in Nat, NEW p \in Prediction(r)
  PROVE  RecordFailure(p) \in Prediction(r)
  <1>1. p.bw \div 2 \in Nat /\ p.fails + 1 \in Nat
        BY DEF Prediction
  <1>2. [p EXCEPT !.known = TRUE, !.bw = p.bw \div 2, !.fails = p.fails + 1] \in Prediction(r)
        BY <1>1 DEF Prediction
  <1> QED BY <1>2 DEF RecordFailure

LEMMA UnknownType == Unknown \in Prediction(0)
  BY ConfigAssumption DEF Unknown, Prediction

LEMMA NoLeaseType == NoLease \in Lease
  BY ConfigAssumption DEF NoLease, Lease

LEMMA AdmissionInit == Init => TypeOK
  <1> SUFFICES ASSUME Init PROVE TypeOK
      OBVIOUS
  <1>1. pred \in Prediction(guardRound)
        BY UnknownType DEF Init
  <1>2. lease \in Lease /\ previous \in Lease
        BY NoLeaseType DEF Init
  <1>3. 0 \in 0 .. NumRounds /\ 0 \in 0 .. MaxRestarts /\ 0 \in 0 .. Larger(0, 0 - 1)
        BY ConfigAssumption DEF Larger
  <1> QED BY <1>1, <1>2, <1>3 DEF Init, TypeOK, Prediction

LEMMA AdmissionStep == TypeOK /\ [Next]_vars => TypeOK'
  <1> SUFFICES ASSUME TypeOK, [Next]_vars PROVE TypeOK'
      OBVIOUS
  <1> USE ConfigAssumption
  <1>1. CASE Plan
    <2>1. Shrunk(Proposal, Uplink) \in Lease
          BY ProposalType, ShrunkType
    <2>2. lease' \in Lease /\ given' \in Nat /\ refused' \in BOOLEAN
      <3>1. CASE Feasible(Shrunk(Proposal, Uplink), Uplink)
        <4>1. /\ lease' = Shrunk(Proposal, Uplink)
              /\ given' = given + 1
              /\ refused' = refused
              BY <1>1, <3>1 DEF Plan
        <4> QED BY <2>1, <4>1 DEF TypeOK
      <3>2. CASE ~Feasible(Shrunk(Proposal, Uplink), Uplink)
        <4>1. /\ lease' = NoLease
              /\ given' = given
              /\ refused' = (refused \/ ~IsWarmup)
              BY <1>1, <3>2 DEF Plan
        <4>2. refused' \in BOOLEAN
              BY <4>1
        <4> QED BY <4>1, <4>2, NoLeaseType DEF TypeOK
      <3> QED BY <3>1, <3>2
    <2>3. UNCHANGED <<config, round, guardRound, pred, previous, restarts>>
          BY <1>1 DEF Plan
    <2>4. stage' = "wait" /\ round < NumRounds
          BY <1>1 DEF Plan
    <2> QED BY <2>2, <2>3, <2>4 DEF TypeOK, config
  <1>2. CASE NotSampled
        BY <1>2, NoLeaseType DEF NotSampled, TypeOK, config
  <1>3. CASE SkipRound
        BY <1>3 DEF SkipRound, TypeOK, config, Larger
  <1>4. ASSUME RoundEnds, pred' \in Prediction(round) PROVE TypeOK'
        BY <1>4, NoLeaseType DEF RoundEnds, TypeOK, config, Larger, Prediction
  <1>5. CASE Answered
        BY <1>4, <1>5, UpdatesType DEF Answered
  <1>6. CASE Missed
    <2>1. round \in Nat
          BY DEF TypeOK
    <2>2. pred' \in Prediction(round)
          BY <1>6, <2>1, UpdatesType, FailureType DEF Missed
    <2> QED BY <1>4, <1>6, <2>2 DEF Missed
  <1>7. CASE Restart
    <2>1. round' \in 0 .. round
          BY <1>7 DEF Restart, TypeOK
    <2>2. guardRound' = 0 /\ pred' \in Prediction(guardRound')
          BY <1>7, UnknownType DEF Restart
    <2>3. lease' \in Lease /\ previous' \in Lease
          BY <1>7, NoLeaseType DEF Restart, TypeOK
    <2>4. UNCHANGED config /\ stage' = "plan" /\ ~refused' /\ given' = 0
          BY <1>7 DEF Restart
    <2>5. restarts' \in 0 .. MaxRestarts
          BY <1>7 DEF Restart, TypeOK
    <2>6. refused' \in BOOLEAN
          BY <1>7 DEF Restart
    <2>7. round' \in 0 .. NumRounds /\ guardRound' \in 0 .. Larger(0, round' - 1)
      <3>1. round \in Nat /\ round <= NumRounds /\ round' \in Nat /\ round' <= round
            BY <2>1 DEF TypeOK
      <3>2. Larger(0, round' - 1) \in Nat
        <4>1. round' - 1 \in Int /\ 0 \in Int
              BY <3>1
        <4> QED BY <4>1, MinMax
      <3>3. NumRounds \in Nat
            OBVIOUS
      <3>4. round' \in 0 .. NumRounds
            BY <3>1, <3>3
      <3>5. guardRound' \in 0 .. Larger(0, round' - 1)
            BY <2>2, <3>2
      <3> QED BY <3>4, <3>5
    <2> QED BY <2>2, <2>3, <2>4, <2>5, <2>6, <2>7 DEF TypeOK, config, Prediction
  <1>8. CASE UNCHANGED vars
        BY <1>8 DEF vars, config, TypeOK
  <1> QED BY <1>1, <1>2, <1>3, <1>5, <1>6, <1>7, <1>8 DEF Next

\* Leases stay within the registry, and the guard's round stays behind the loop's
\* (lease_planner.py:45-112, coordinator.py:329).
THEOREM AdmissionTypeOK == Spec => []TypeOK
  BY AdmissionInit, AdmissionStep, PTL DEF Spec

-----------------------------------------------------------------------------
(* The shrink policy *)

LEMMA BatchInductive == TypeOK /\ BatchIsNeverShrunk /\ [Next]_vars => BatchIsNeverShrunk'
  <1> SUFFICES ASSUME TypeOK, BatchIsNeverShrunk, [Next]_vars PROVE BatchIsNeverShrunk'
      OBVIOUS
  <1> USE DEF BatchIsNeverShrunk
  <1>1. CASE Plan
    <2>1. Proposal \in Lease /\ Proposal.micro = MicroBatch
          BY ProposalType DEF Proposal
    <2>2. CASE Feasible(Shrunk(Proposal, Uplink), Uplink)
      <3>1. lease' = Shrunk(Proposal, Uplink)
            BY <1>1, <2>2 DEF Plan
      <3> QED BY <2>1, <2>2, <3>1, BatchKept
    <2>3. CASE ~Feasible(Shrunk(Proposal, Uplink), Uplink)
          BY <1>1, <2>3 DEF Plan, NoLease
    <2> QED BY <2>2, <2>3
  <1>2. CASE NotSampled \/ Restart \/ RoundEnds
        BY <1>2 DEF NotSampled, Restart, RoundEnds, NoLease
  <1>3. CASE Answered \/ Missed
        BY <1>2, <1>3 DEF Answered, Missed
  <1>4. CASE SkipRound \/ UNCHANGED vars
        BY <1>4 DEF SkipRound, vars, NoLease
  <1> QED BY <1>1, <1>2, <1>3, <1>4 DEF Next

\* The last step of the shrink policy never helps: whatever the mode, the tier and
\* the prediction, a lease that is given has the full micro batch
\* (feasibility_guard.py:79-101).
THEOREM AdmissionBatchIsNeverShrunk == Spec => []BatchIsNeverShrunk
  <1>1. Init => BatchIsNeverShrunk
        BY DEF Init, BatchIsNeverShrunk
  <1> QED BY AdmissionTypeOK, BatchInductive, <1>1, PTL DEF Spec

-----------------------------------------------------------------------------
(* Rejection *)

\* A slower uplink carries no more.
LEMMA SlowerCrosses ==
  ASSUME NEW p \in Lease, NEW u \in Nat, NEW v \in Nat, 0 < v, v <= u,
         NEW t \in Int, Crosses(p, v, t)
  PROVE  Crosses(p, u, t)
  <1> DEFINE need == Length(p) * SlicePayload * 1000
  <1>1. need \in Nat
        BY DEF Length, Lease
  <1>2. need <= v * t
        BY DEF Crosses
  <1> HIDE DEF need
  <1>3. t >= 0
        BY <1>1, <1>2
  <1>4. v * t <= u * t
        BY <1>3
  <1>5. need <= u * t
        BY <1>1, <1>2, <1>4
  <1> QED BY <1>5 DEF Crosses, need

LEMMA ComputeTimeType ==
  ASSUME TypeOK, NEW p \in Lease
  PROVE  ComputeTime(p) \in Nat
  <1>1. p.steps * StepTime * tier.slowdown \in Nat
        BY TierFields DEF Lease
  <1> QED BY <1>1 DEF ComputeTime

LEMMA OverheadType == TypeOK => Overhead \in Nat
  BY DEF TypeOK, Overhead, RetryPenalty

LEMMA SlowerFeasible ==
  ASSUME TypeOK, NEW p \in Lease, NEW u \in Nat, NEW v \in Nat, 0 < v, v <= u,
         Feasible(p, v)
  PROVE  Feasible(p, u)
  <1>1. mode \in {"none", "default", "full", "oracle"}
        BY ConfigAssumption DEF TypeOK
  <1>2. CASE mode # "full"
        BY <1>1, <1>2 DEF Feasible
  <1>3. CASE mode = "full"
    <2>1. FitsMemory(p) /\ UploadFits(p, v) /\ TimeFits(p, v)
          BY <1>3 DEF Feasible
    <2>2. /\ (3 * Deadline) \div 10 - Overhead \in Int
          /\ Deadline - Overhead - ComputeTime(p) \in Int
          BY ConfigAssumption, ComputeTimeType, OverheadType
    <2>3. UploadFits(p, u) /\ TimeFits(p, u)
          BY <2>1, <2>2, SlowerCrosses DEF UploadFits, TimeFits
    <2> QED BY <1>3, <2>1, <2>3 DEF Feasible
  <1> QED BY <1>2, <1>3

\* What was rejected stays rejected when the uplink gets slower.
LEMMA SlowerRejected ==
  ASSUME TypeOK, NEW p \in Lease, NEW u \in Nat, NEW v \in Nat, 0 < v, v <= u,
         ~Feasible(Shrunk(p, u), u)
  PROVE  ~Feasible(Shrunk(p, v), v)
  <1> DEFINE one == FewerSlices(p)
             two == FewerSteps(one)
             three == SmallerBatch(two)
  <1>1. one \in Lease /\ two \in Lease /\ three \in Lease
        BY ShrinkType
  <1>2. ~Feasible(p, u) /\ ~Feasible(one, u) /\ ~Feasible(two, u) /\ ~Feasible(three, u)
        BY DEF Shrunk
  <1>3. ~Feasible(p, v) /\ ~Feasible(one, v) /\ ~Feasible(two, v) /\ ~Feasible(three, v)
        BY <1>1, <1>2, SlowerFeasible
  <1> QED BY <1>3 DEF Shrunk

\* The scale of a prediction that is k rounds old.
Scale(k) == IF k > StaleAfter THEN Larger(3, 10 - (k - StaleAfter)) ELSE 10

LEMMA ScaleFalls ==
  ASSUME NEW k \in Int, NEW m \in Int, k <= m
  PROVE  Scale(k) \in 3 .. 10 /\ Scale(m) \in 3 .. 10 /\ Scale(m) <= Scale(k)
  BY DEF Scale, Larger

LEMMA ProductFalls ==
  ASSUME NEW b \in Nat, NEW x \in Nat, NEW y \in Nat, y <= x, 0 < b, 0 < y
  PROVE  b * x \in Nat /\ b * y \in Nat /\ 0 < b * y /\ b * y <= b * x
  OBVIOUS

\* Left alone, the prediction of a client only gets worse.
LEMMA UplinkFalls ==
  ASSUME TypeOK, pred' = pred, guardRound' \in Nat, guardRound <= guardRound'
  PROVE  Uplink \in Nat /\ Uplink' \in Nat /\ 0 < Uplink' /\ Uplink' <= Uplink
  <1> DEFINE b == Larger(10, pred.bw)
  <1>1. pred.bw \in Nat /\ pred.lastOk \in Int /\ guardRound \in Int
        BY DEF TypeOK
  <1>2. b \in Nat /\ 0 < b
        BY <1>1 DEF Larger
  <1>3. Staleness \in Int /\ Staleness' \in Int /\ Staleness <= Staleness'
        BY <1>1 DEF Staleness
  <1>4. /\ Uplink = IF pred.known THEN b * Scale(Staleness) ELSE 10 * DefaultUplink
        /\ Uplink' = IF pred.known THEN b * Scale(Staleness') ELSE 10 * DefaultUplink
        BY DEF Uplink, Scale
  <1> HIDE DEF b
  <1>5. CASE pred.known
    <2>1. /\ Scale(Staleness) \in Nat /\ Scale(Staleness') \in Nat
          /\ 0 < Scale(Staleness') /\ Scale(Staleness') <= Scale(Staleness)
          BY <1>3, ScaleFalls
    <2> QED BY <1>2, <1>4, <1>5, <2>1, ProductFalls
  <1>6. CASE ~pred.known
    <2>1. 10 * DefaultUplink \in Nat /\ 0 < 10 * DefaultUplink
          BY ConfigAssumption
    <2> QED BY <1>4, <1>6, <2>1
  <1> QED BY <1>5, <1>6

StandingRejected(u) == ~Feasible(Shrunk(Standing, u), u)

\* The strengthening: the round is past the warm-up, and the proposal would be
\* rejected at this very moment.
RefusedInv ==
  refused => /\ lease = NoLease
             /\ round >= WarmupRounds
             /\ StandingRejected(Uplink)

LEMMA StandingIsProposed ==
  ASSUME TypeOK, ~IsWarmup
  PROVE  Standing = Proposal
  BY DEF Standing, Proposal

LEMMA StandingType == ASSUME TypeOK PROVE Standing \in Lease
  <1> USE ConfigAssumption, TierFields
  <1>1. NumGated * tier.budget \in 0 .. NumGated * 10
        OBVIOUS
  <1>2. (NumGated * tier.budget) \div 10 \in 0 .. NumGated
        BY <1>1
  <1>3. Quota \in 0 .. NumGated
        BY <1>2 DEF Quota, Larger
  <1> QED BY <1>3, LocalStepsType DEF Standing, Lease

\* What the guard makes of a proposal depends on tier, mode and failures only.
LEMMA SameVerdict ==
  ASSUME UNCHANGED config, pred' = pred, NEW u
  PROVE  StandingRejected(u)' <=> StandingRejected(u)
  <1>1. tier' = tier /\ mode' = mode
        BY DEF config
  <1>2. Overhead' = Overhead
        BY DEF Overhead, RetryPenalty
  <1>3. ASSUME NEW p PROVE Feasible(p, u)' <=> Feasible(p, u)
    <2>1. ComputeTime(p)' = ComputeTime(p)
          BY <1>1 DEF ComputeTime
    <2>2. FitsMemory(p)' <=> FitsMemory(p)
          BY <1>1 DEF FitsMemory, Length
    <2>3. UploadFits(p, u)' <=> UploadFits(p, u)
          BY <1>2 DEF UploadFits, Crosses, Length
    <2>4. TimeFits(p, u)' <=> TimeFits(p, u)
          BY <1>2, <2>1 DEF TimeFits, Crosses, Length
    <2>5. OracleFits(p)' <=> OracleFits(p)
          BY <1>1, <2>1 DEF OracleFits, Crosses, Length
    <2> QED BY <1>1, <2>2, <2>3, <2>4, <2>5 DEF Feasible
  <1>4. Standing' = Standing
        BY <1>1 DEF Standing, Quota, LocalSteps
  <1>5. ASSUME NEW p PROVE Shrunk(p, u)' = Shrunk(p, u)
        BY <1>3 DEF Shrunk, FewerSlices, FewerSteps, SmallerBatch, Length
  <1> QED BY <1>3, <1>4, <1>5 DEF StandingRejected

LEMMA VerdictStands ==
  ASSUME TypeOK, UNCHANGED config, pred' = pred, guardRound' \in Nat,
         guardRound <= guardRound', StandingRejected(Uplink)
  PROVE  StandingRejected(Uplink)'
  <1>1. Uplink \in Nat /\ Uplink' \in Nat /\ 0 < Uplink' /\ Uplink' <= Uplink
        BY UplinkFalls
  <1> DEFINE v == Uplink'
  <1>2. StandingRejected(v)
        BY <1>1, StandingType, SlowerRejected DEF StandingRejected
  <1> QED BY <1>2, SameVerdict

LEMMA RefusedInductive == TypeOK /\ RefusedInv /\ [Next]_vars => RefusedInv'
  <1> SUFFICES ASSUME TypeOK, RefusedInv, [Next]_vars, refused' PROVE
          /\ lease' = NoLease'
          /\ round' >= WarmupRounds
          /\ StandingRejected(Uplink)'
      BY DEF RefusedInv
  <1>0. NoLease' = NoLease /\ round \in Nat /\ guardRound \in Nat /\ guardRound <= round
        BY DEF NoLease, TypeOK, Larger
  <1>1. ASSUME UNCHANGED config, pred' = pred, guardRound' \in Nat, guardRound <= guardRound',
               refused
        PROVE  StandingRejected(Uplink)'
        BY <1>1, VerdictStands DEF RefusedInv
  <1>2. CASE Plan
    <2>1. UNCHANGED config /\ pred' = pred /\ guardRound' = guardRound /\ round' = round
          BY <1>2 DEF Plan
    <2>2. ~IsWarmup
      <3>1. CASE refused
        <4>1. round >= WarmupRounds /\ WarmupRounds \in Nat
              BY <3>1, ConfigAssumption DEF RefusedInv
        <4> QED BY <1>0, <4>1 DEF IsWarmup
      <3>2. CASE ~refused
            BY <1>2, <3>2 DEF Plan
      <3> QED BY <3>1, <3>2
    <2>3. ~Feasible(Shrunk(Proposal, Uplink), Uplink)
      <3>1. CASE refused
            BY <2>2, <3>1, StandingIsProposed DEF RefusedInv, StandingRejected
      <3>2. CASE ~refused
            BY <1>2, <3>2 DEF Plan
      <3> QED BY <3>1, <3>2
    <2>4. StandingRejected(Uplink)
          BY <2>2, <2>3, StandingIsProposed DEF StandingRejected
    <2>5. StandingRejected(Uplink)'
          BY <1>0, <2>1, <2>4, VerdictStands
    <2>6. lease' = NoLease
          BY <1>2, <2>3 DEF Plan
    <2>7. round >= WarmupRounds
          BY <1>0, <2>2, ConfigAssumption DEF IsWarmup
    <2> QED BY <1>0, <2>1, <2>5, <2>6, <2>7
  <1>3. CASE NotSampled \/ SkipRound \/ UNCHANGED vars
    <2>1. /\ UNCHANGED config /\ pred' = pred /\ guardRound' = guardRound
          /\ refused /\ (lease' = lease \/ lease' = NoLease)
          BY <1>3 DEF NotSampled, SkipRound, vars
    <2>2. StandingRejected(Uplink)'
          BY <1>0, <1>1, <2>1
    <2>3. round' >= WarmupRounds /\ round' \in Nat
      <3>1. round' = round \/ round' = round + 1
            BY <1>3 DEF NotSampled, SkipRound, vars
      <3>2. round >= WarmupRounds /\ WarmupRounds \in Nat
            BY <2>1, ConfigAssumption DEF RefusedInv
      <3> QED BY <1>0, <3>1, <3>2
    <2> QED BY <1>0, <2>1, <2>2, <2>3 DEF RefusedInv
  <1>4. CASE Answered \/ Missed
    <2>1. RoundEnds /\ refused
          BY <1>4 DEF Answered, Missed, RoundEnds
    <2>2. lease = NoLease
          BY <2>1 DEF RefusedInv
    <2>3. pred' = pred
          BY <1>4, <2>2 DEF Answered, Missed, Received
    <2>4. /\ UNCHANGED config /\ guardRound' = round /\ round' = round + 1 /\ lease' = NoLease
          BY <2>1 DEF RoundEnds
    <2>5. StandingRejected(Uplink)'
          BY <1>0, <1>1, <2>1, <2>3, <2>4
    <2>6. round' >= WarmupRounds
          BY <1>0, <2>1, <2>4, ConfigAssumption DEF RefusedInv
    <2> QED BY <1>0, <2>4, <2>5, <2>6
  <1>5. ~Restart
        BY DEF Restart
  <1> QED BY <1>2, <1>3, <1>4, <1>5 DEF Next

\* A client that was rejected after the warm-up never gets a lease again from the
\* same process, whatever tiers, modes and rounds there are: nothing is recorded
\* of a client without a lease, and its prediction ages
\* (coordinator.py:319-344, bandwidth_predictor.py:127-128).
THEOREM AdmissionRejectedForGood == Spec => []RejectedForGood
  <1>1. Init => RefusedInv
        BY DEF Init, RefusedInv
  <1>2. RefusedInv => RejectedForGood
        BY DEF RefusedInv, RejectedForGood
  <1> QED BY AdmissionTypeOK, RefusedInductive, <1>1, <1>2, PTL DEF Spec

-----------------------------------------------------------------------------
(* Deadlines *)

LEMMA FullFitsInTime ==
  ASSUME TypeOK, mode = "full", NEW p \in Lease, NEW u \in Nat, 0 < u, Feasible(p, u)
  PROVE  ComputeTime(p) <= Deadline
  <1> DEFINE need == Length(p) * SlicePayload * 1000
             left == Deadline - Overhead - ComputeTime(p)
  <1>1. need \in Nat
        BY DEF Length, Lease
  <1>2. Overhead \in Nat /\ ComputeTime(p) \in Nat /\ Deadline \in Nat
        BY ComputeTimeType, OverheadType, ConfigAssumption
  <1>3. need <= u * left
        BY DEF Feasible, TimeFits, Crosses
  <1>4. left \in Int
        BY <1>2
  <1> HIDE DEF need
  <1>5. left >= 0
    <2> HIDE DEF left
    <2> QED BY <1>1, <1>3, <1>4
  <1> QED BY <1>2, <1>5

LEMMA TrainTimeScales ==
  ASSUME TypeOK, NEW p \in Lease, SimStep <= StepTime
  PROVE  TrainTime(p) <= ComputeTime(p)
  <1> DEFINE a == p.steps * SimStep
             b == p.steps * StepTime
  <1>1. p.steps \in Nat /\ SimStep \in Nat /\ tier.slowdown \in Nat
        BY ConfigAssumption, TierFields DEF Lease
  <1>2. a \in Nat /\ b \in Nat /\ a <= b
        BY <1>1
  <1> HIDE DEF a, b
  <1>3. a * tier.slowdown \in Nat /\ b * tier.slowdown \in Nat
        BY <1>1, <1>2
  <1>4. a * tier.slowdown <= b * tier.slowdown
        BY <1>1, <1>2
  <1>5. (a * tier.slowdown) \div 10 <= (b * tier.slowdown) \div 10
        BY <1>3, <1>4
  <1> QED BY <1>5 DEF TrainTime, ComputeTime, a, b

LEMMA UplinkType == ASSUME TypeOK PROVE Uplink \in Nat /\ 0 < Uplink
  <1> DEFINE b == Larger(10, pred.bw)
  <1>1. pred.bw \in Nat /\ pred.lastOk \in Int /\ guardRound \in Int
        BY DEF TypeOK
  <1>2. b \in Nat /\ 0 < b /\ Staleness \in Int
        BY <1>1 DEF Larger, Staleness
  <1>3. Scale(Staleness) \in Nat /\ 0 < Scale(Staleness)
        BY <1>2, ScaleFalls
  <1>4. Uplink = IF pred.known THEN b * Scale(Staleness) ELSE 10 * DefaultUplink
        BY DEF Uplink, Scale
  <1> HIDE DEF b
  <1>5. b * Scale(Staleness) \in Nat /\ 0 < b * Scale(Staleness)
        BY <1>2, <1>3, ProductFalls
  <1>6. 10 * DefaultUplink \in Nat /\ 0 < 10 * DefaultUplink
        BY ConfigAssumption
  <1> QED BY <1>4, <1>5, <1>6

LEMMA DeadlineInductive == TypeOK /\ LeaseMeetsDeadline /\ [Next]_vars => LeaseMeetsDeadline'
  <1> SUFFICES ASSUME TypeOK, LeaseMeetsDeadline, [Next]_vars,
                      mode' = "full", lease' # NoLease', SimStep <= StepTime
               PROVE  TrainTime(lease)' <= Deadline
      BY DEF LeaseMeetsDeadline
  <1>0. NoLease' = NoLease /\ mode' = mode /\ tier' = tier
        BY DEF NoLease, Next, Plan, NotSampled, SkipRound, Answered, Missed, RoundEnds, Restart,
               config, vars
  <1>1. TrainTime(lease)' = TrainTime(lease')
        BY <1>0 DEF TrainTime
  <1>2. CASE Plan
    <2>1. /\ lease' = Shrunk(Proposal, Uplink)
          /\ Feasible(Shrunk(Proposal, Uplink), Uplink)
          BY <1>0, <1>2 DEF Plan
    <2>2. lease' \in Lease
          BY <2>1, ProposalType, ShrunkType
    <2>3. ComputeTime(lease') <= Deadline
          BY <1>0, <2>1, <2>2, UplinkType, FullFitsInTime
    <2>4. TrainTime(lease') <= ComputeTime(lease')
          BY <2>2, TrainTimeScales
    <2>5. TrainTime(lease') \in Int /\ ComputeTime(lease') \in Int /\ Deadline \in Int
      <3>1. lease'.steps * SimStep * tier.slowdown \in Nat
            BY <2>2, ConfigAssumption, TierFields DEF Lease
      <3> QED BY <2>2, <3>1, ComputeTimeType, ConfigAssumption DEF TrainTime
    <2> QED BY <1>1, <2>3, <2>4, <2>5
  <1>3. CASE SkipRound \/ UNCHANGED vars
        BY <1>0, <1>1, <1>3 DEF SkipRound, vars, LeaseMeetsDeadline
  <1>4. ~NotSampled /\ ~Answered /\ ~Missed /\ ~Restart
        BY <1>0 DEF NotSampled, Answered, Missed, RoundEnds, Restart
  <1> QED BY <1>2, <1>3, <1>4 DEF Next

\* With the guard in the mode "full", a lease never makes a worker miss its virtual
\* deadline if the simulated step takes no longer than the guard supposes, however
\* the lease was shrunk (feasibility_guard.py:119-131, worker.py:337-346).
THEOREM AdmissionLeaseMeetsDeadline == Spec => []LeaseMeetsDeadline
  <1>1. Init => LeaseMeetsDeadline
        BY DEF Init, LeaseMeetsDeadline
  <1> QED BY AdmissionTypeOK, DeadlineInductive, <1>1, PTL DEF Spec

-----------------------------------------------------------------------------
(* The number of leases.  The bound on it depends on sizes and speeds, so it *)
(* is proved for those of one family of configurations.                      *)

\* The speed that is predicted once the updates of k leases are recorded, from the
\* 80 Mbit/s that BandwidthPredictor begins with.
Speed(k) ==
  CASE k = 0 -> 8000 [] k = 1 -> 5659 [] k = 2 -> 4020 [] k = 3 -> 2873
    [] k = 4 -> 2070 [] k = 5 -> 1508 [] k = 6 -> 1114 [] k = 7 -> 838
    [] k = 8 -> 645 [] k = 9 -> 510 [] k = 10 -> 416 [] k = 11 -> 350
    [] k = 12 -> 304 [] k = 13 -> 218 [] k = 14 -> 158 [] OTHER -> 116

\* Leases that a predictor which begins below 80 Mbit/s is spared.
Skipped == 15 - LeaseLimit

\* The configurations impl_sst2_leaselora*.yaml: the strongest tier computes at
\* full speed and has memory for every slice.  Guard modes, the other tiers,
\* rounds, warm-up and restarts are free.  With the predictor's own default the
\* limit is 15, and less if it begins with a slower uplink.
Shipped ==
  /\ NumGated = 6 /\ BaseSteps = 24 /\ Deadline = 2640 /\ SimStep = 50
  /\ SliceSize = 79 /\ HeadSize = 1895
  /\ LeaseLimit \in 1 .. 15 /\ DefaultUplink <= Speed(Skipped)
  /\ \A t \in Tier :
       t.budget = 10 => t.slowdown = 10 /\ t.throughput >= 500 /\ t.memory >= 154

\* A client that LeasesBounded is about.
Strong == mode = "full" /\ Quota = NumGated

LEMMA StrongTier ==
  ASSUME Shipped, TypeOK, Strong
  PROVE  tier.budget = 10 /\ tier.slowdown = 10 /\ tier.throughput >= 500 /\ tier.memory >= 154
  <1>1. tier \in Tier /\ tier.budget \in 0 .. 10
        BY TierFields DEF TypeOK
  <1>2. Larger(1, (6 * tier.budget) \div 10) = 6
        BY DEF Strong, Quota, Shipped
  <1>3. tier.budget = 10
        BY <1>1, <1>2 DEF Larger
  <1> QED BY <1>1, <1>3 DEF Shipped

LEMMA StrongProposal ==
  ASSUME Shipped, TypeOK, Strong
  PROVE  Proposal = [gated |-> 6, head |-> TRUE, steps |-> 24, micro |-> MicroBatch]
  <1>1. LocalSteps = 24
    <2>1. Smaller(500, tier.throughput) = 500
          BY StrongTier, TierFields DEF Smaller
    <2>2. BaseSteps = 24 /\ (24 * 500) \div 500 = 24 /\ 24 \div 3 = 8 /\ (24 \div 4) * 4 = 24
          BY DEF Shipped
    <2>3. Larger(4, 8) = 8 /\ Larger(8, 24) = 24 /\ Larger(4, 24) = 24
          BY DEF Larger
    <2> QED BY <2>1, <2>2, <2>3 DEF LocalSteps
  <1> QED BY <1>1 DEF Proposal, Strong, Shipped

\* Of n slices the guard asks that they be uploaded within 7.92 seconds, penalties
\* and round trip included.
LEMMA UploadNeeds ==
  ASSUME Shipped, NEW p \in Lease, NEW u \in Nat, UploadFits(p, u)
  PROVE  Length(p) * 400000 <= u * 787
  <1>1. (3 * Deadline) \div 10 = 792
        BY DEF Shipped
  <1>2. Overhead \in {5, 105, 305, 705}
        BY DEF Overhead, RetryPenalty
  <1>3. Length(p) \in Nat
        BY DEF Length, Lease
  <1>4. Length(p) * 400 * 1000 <= u * (792 - Overhead)
        BY <1>1 DEF UploadFits, Crosses
  <1>5. u * (792 - Overhead) <= u * 787
        BY <1>2
  <1>6. u * (792 - Overhead) \in Int
        BY <1>2
  <1> QED BY <1>3, <1>4, <1>5, <1>6

\* With 24 steps the whole round has more room than the upload.
LEMMA UploadDecides ==
  ASSUME Shipped, TypeOK, Strong, NEW p \in Lease, p.steps = 24, Length(p) <= 7, NEW u \in Nat
  PROVE  UploadFits(p, u) => Feasible(p, u)
  <1> SUFFICES ASSUME UploadFits(p, u) PROVE FitsMemory(p) /\ TimeFits(p, u)
      BY DEF Feasible, Strong
  <1> DEFINE need == Length(p) * SlicePayload * 1000
  <1>1. Length(p) \in Nat /\ need \in Nat
        BY DEF Length, Lease
  <1>2. FitsMemory(p)
        BY <1>1, StrongTier, TierFields DEF FitsMemory
  <1>3. (3 * Deadline) \div 10 = 792 /\ Deadline = 2640
        BY DEF Shipped
  <1>4. Overhead \in {5, 105, 305, 705}
        BY DEF Overhead, RetryPenalty
  <1>5. ComputeTime(p) = 1200
        BY StrongTier DEF ComputeTime
  <1>6. need <= u * (792 - Overhead)
        BY <1>3 DEF UploadFits, Crosses
  <1> HIDE DEF need
  <1>7. u * (792 - Overhead) <= u * (2640 - Overhead - 1200)
        BY <1>4
  <1>8. u * (792 - Overhead) \in Int /\ u * (2640 - Overhead - 1200) \in Int
        BY <1>4
  <1>9. need <= u * (2640 - Overhead - 1200)
        BY <1>1, <1>6, <1>7, <1>8
  <1> QED BY <1>2, <1>3, <1>5, <1>9 DEF TimeFits, Crosses, need

\* What a lease looks like that is given: all slices, while the uplink carries
\* them, else the first half.
Whole(l) == l.gated = 6 /\ l.head = TRUE /\ l.steps = 24
HalfOf(l) == l.gated = 3 /\ l.head = FALSE /\ l.steps = 24

LEMMA StrongLease ==
  ASSUME Shipped, TypeOK, Strong, NEW u \in Nat, Feasible(Shrunk(Proposal, u), u)
  PROVE  LET l == Shrunk(Proposal, u)
         IN  (Whole(l) /\ u >= 3558) \/ (HalfOf(l) /\ u >= 1525)
  <1> DEFINE p == Proposal
             one == FewerSlices(p)
             two == FewerSteps(one)
             three == SmallerBatch(two)
  <1>1. p \in Lease /\ one \in Lease /\ two \in Lease /\ three \in Lease
        BY ProposalType, ShrinkType
  <1>2. Whole(p) /\ Length(p) = 7
        BY StrongProposal DEF Whole, Length
  <1>3. one = [p EXCEPT !.gated = 3, !.head = FALSE]
    <2> HIDE DEF p
    <2>1. Larger(Length(p) \div 2, MinSlices) = 3 /\ Smaller(6, 3) = 3 /\ Length(p) > MinSlices
          BY <1>2 DEF Larger, Smaller
    <2>2. one = [p EXCEPT !.gated = Smaller(p.gated, 3), !.head = p.head /\ 3 > p.gated]
          BY <2>1 DEF FewerSlices
    <2>3. (p.head /\ 3 > p.gated) = FALSE /\ Smaller(p.gated, 3) = 3
          BY <1>2, <2>1 DEF Whole
    <2> QED BY <2>2, <2>3
  <1>4. HalfOf(one) /\ Length(one) = 3
        BY <1>1, <1>2, <1>3 DEF HalfOf, Whole, Length, Lease
  <1>5. Length(two) = 3
        BY <1>1, <1>4 DEF FewerSteps, Length, Lease
  <1>6. \/ Shrunk(p, u) = p \/ Shrunk(p, u) = one
        \/ Shrunk(p, u) \in {two, three} /\ ~Feasible(one, u)
        BY DEF Shrunk
  <1> HIDE DEF p, one, two, three
  <1>7. ASSUME NEW q \in Lease, Feasible(q, u)
        PROVE  UploadFits(q, u) /\ Length(q) * 400000 <= u * 787
        BY <1>7, UploadNeeds DEF Feasible, Strong
  <1>8. CASE Shrunk(p, u) = p
    <2>1. 7 * 400000 <= u * 787
          BY <1>1, <1>2, <1>7, <1>8 DEF p
    <2>2. u >= 3558
          BY <2>1
    <2> QED BY <1>2, <1>8, <2>2 DEF p
  <1>9. CASE Shrunk(p, u) = one
    <2>1. 3 * 400000 <= u * 787
          BY <1>1, <1>4, <1>7, <1>9 DEF p
    <2>2. u >= 1525
          BY <2>1
    <2> QED BY <1>4, <1>9, <2>2 DEF p
  <1>10. CASE Shrunk(p, u) \in {two, three} /\ ~Feasible(one, u)
    <2>1. Feasible(two, u)
          BY <1>1, <1>10, BatchIgnored DEF p, three
    <2>2. UploadFits(two, u)
          BY <1>1, <1>7, <2>1
    <2>3. UploadFits(one, u)
          BY <1>4, <1>5, <2>2 DEF UploadFits, Crosses
    <2> QED BY <1>1, <1>4, <1>10, <2>3, UploadDecides DEF HalfOf
  <1> QED BY <1>6, <1>8, <1>9, <1>10

LEMMA LeaseSpeeds ==
  ASSUME Shipped, TypeOK, Strong
  PROVE  /\ \A l \in Lease : Whole(l) => Measured(l) = 197
         /\ \A l \in Lease : HalfOf(l) => Measured(l) = 19
         /\ Measured(NoLease) = 1
  <1>1. SimStep = 50 /\ SliceSize = 79 /\ HeadSize = 1895 /\ tier.slowdown = 10
        BY StrongTier DEF Shipped
  <1>2. /\ (24 * 50 * 10) \div 10 = 1200
        /\ (100 * 2369) \div 1200 = 197 /\ (100 * 237) \div 1200 = 19 /\ (100 * 0) \div 1 = 0
        OBVIOUS
  <1>3. ASSUME NEW l \in Lease, l.steps = 24
        PROVE  Larger(1, TrainTime(l)) = 1200
        BY <1>1, <1>2, <1>3 DEF TrainTime, Larger
  <1>4. ASSUME NEW l \in Lease, Whole(l) PROVE Measured(l) = 197
    <2>1. Payload(l) = 2369
          BY <1>1, <1>4 DEF Payload, Whole
    <2> QED BY <1>2, <1>3, <1>4, <2>1 DEF Measured, Whole, Larger
  <1>5. ASSUME NEW l \in Lease, HalfOf(l) PROVE Measured(l) = 19
    <2>1. Payload(l) = 237
          BY <1>1, <1>5 DEF Payload, HalfOf
    <2> QED BY <1>2, <1>3, <1>5, <2>1 DEF Measured, HalfOf, Larger
  <1>6. Measured(NoLease) = 1
    <2>1. Payload(NoLease) = 0 /\ TrainTime(NoLease) = 0
          BY <1>1 DEF Payload, TrainTime, NoLease
    <2> QED BY <1>2, <2>1 DEF Measured, Larger
  <1> QED BY <1>4, <1>5, <1>6

\* Leases of this process whose round has ended.
Ended == IF lease = NoLease THEN given ELSE given - 1

Within(l, k) == Measured(l) \in 1 .. 197 /\ (Skipped + k >= 12 => Measured(l) <= 19)

\* The tier is chosen once, so a lease has the same speed in every state.
LEMMA SameSpeeds ==
  ASSUME tier' = tier
  PROVE  /\ Within(lease, given)' <=> Within(lease', given')
         /\ Within(previous, Ended)' <=> Within(previous', Ended')
  BY DEF Within, Measured, TrainTime, Payload

\* Each lease that ends makes the uplink look slower, also when its client has
\* missed the round or an update of the lease before comes with it, or instead.
\* In the end the uplink carries half of the slices only, and their speed is taken
\* to be a tenth of that of all.
Slowing ==
  Strong =>
    /\ stage = "plan" => lease = NoLease
    /\ given \in 0 .. LeaseLimit
    /\ lease # NoLease => given >= 1
    /\ pred.known \/ pred.bw = DefaultUplink
    /\ pred.bw <= Speed(Skipped + Ended)
    /\ Within(lease, given)
    /\ Within(previous, Ended)

\* One more update at the end of the lease after the k-th, or two.
LEMMA SpeedFalls ==
  ASSUME NEW k \in 0 .. 14, NEW b \in Nat, NEW m \in 1 .. 197, k >= 12 => m <= 19
  PROVE  /\ b <= Speed(k) => /\ (3 * m + 7 * b) \div 10 <= Speed(k + 1)
                             /\ b \div 2 <= Speed(k + 1)
         /\ b <= Speed(k + 1) => /\ (3 * m + 7 * b) \div 10 <= Speed(k + 1)
                                 /\ b \div 2 <= Speed(k + 1)
  <1>1. CASE k \in 0 .. 4
    <2>1. k \in {0, 1, 2, 3, 4}
          BY <1>1
    <2> QED BY <2>1 DEF Speed
  <1>2. CASE k \in 5 .. 8
    <2>1. k \in {5, 6, 7, 8}
          BY <1>2
    <2> QED BY <2>1 DEF Speed
  <1>3. CASE k \in 9 .. 11
    <2>1. k \in {9, 10, 11}
          BY <1>3
    <2> QED BY <2>1 DEF Speed
  <1>4. CASE k \in 12 .. 14
    <2>1. k \in {12, 13, 14}
          BY <1>4
    <2> QED BY <2>1 DEF Speed
  <1> QED BY <1>1, <1>2, <1>3, <1>4

LEMMA UplinkBound ==
  ASSUME Shipped, TypeOK, pred.known \/ pred.bw = DefaultUplink
  PROVE  Uplink <= 10 * Larger(10, pred.bw)
  <1> DEFINE b == Larger(10, pred.bw)
  <1>1. pred.bw \in Nat /\ pred.lastOk \in Int /\ guardRound \in Int
        BY DEF TypeOK
  <1>2. b \in Nat /\ Staleness \in Int
        BY <1>1 DEF Larger, Staleness
  <1>3. Scale(Staleness) \in 3 .. 10
        BY <1>2, ScaleFalls
  <1>4. Uplink = IF pred.known THEN b * Scale(Staleness) ELSE 10 * DefaultUplink
        BY DEF Uplink, Scale
  <1>5. CASE ~pred.known
    <2>1. DefaultUplink \in Nat /\ pred.bw = DefaultUplink
          BY <1>5, ConfigAssumption
    <2> QED BY <1>4, <1>5, <2>1 DEF Larger
  <1> HIDE DEF b
  <1>6. b * Scale(Staleness) <= 10 * b
        BY <1>2, <1>3
  <1> QED BY <1>4, <1>5, <1>6 DEF b

LEMMA SlowingPlan ==
  ASSUME Shipped, TypeOK, Strong, Strong', Slowing, Plan, tier' = tier
  PROVE  Slowing'
  <1> DEFINE l == Shrunk(Proposal, Uplink)
  <1>1. /\ lease = NoLease /\ given \in 0 .. LeaseLimit /\ Ended = given
        /\ pred.known \/ pred.bw = DefaultUplink
        /\ pred.bw \in Nat /\ pred.bw <= Speed(Skipped + given)
        /\ Within(previous, given) /\ LeaseLimit \in 1 .. 15
        BY DEF Slowing, Plan, Ended, TypeOK, Shipped
  <1>2. /\ stage' = "wait" /\ pred' = pred /\ previous' = previous
        BY DEF Plan
  <1>3. NoLease' = NoLease
        BY DEF NoLease
  <1>4. CASE ~Feasible(l, Uplink)
    <2>1. lease' = NoLease /\ given' = given
          BY <1>4 DEF Plan
    <2>2. Ended' = given
          BY <1>3, <2>1 DEF Ended
    <2>3. Within(NoLease, given)
          BY LeaseSpeeds DEF Within
    <2>4. Within(lease, given)' /\ Within(previous, Ended)'
          BY <1>1, <1>2, <2>1, <2>2, <2>3, SameSpeeds
    <2> QED BY <1>1, <1>2, <1>3, <2>1, <2>2, <2>4 DEF Slowing
  <1>5. CASE Feasible(l, Uplink)
    <2>1. lease' = l /\ given' = given + 1 /\ l \in Lease
          BY <1>5, ProposalType, ShrunkType DEF Plan
    <2>2. Uplink \in Nat /\ Uplink <= 10 * Larger(10, pred.bw)
          BY <1>1, UplinkType, UplinkBound
    <2>3. (Whole(l) /\ Uplink >= 3558) \/ (HalfOf(l) /\ Uplink >= 1525)
          BY <1>5, <2>2, StrongLease
    <2>4. given < LeaseLimit
      <3>1. pred.bw >= 152
            BY <1>1, <2>2, <2>3 DEF Larger
      <3>2. Skipped + given \in 0 .. 15
            BY <1>1 DEF Skipped
      <3>3. Skipped + given <= 14
            BY <1>1, <3>1, <3>2 DEF Speed
      <3> QED BY <1>1, <3>3 DEF Skipped
    <2>5. Whole(l) => Skipped + given <= 10
      <3> SUFFICES ASSUME Uplink >= 3558 PROVE Skipped + given <= 10
          BY <2>3 DEF Whole, HalfOf
      <3>1. pred.bw >= 355
            BY <1>1, <2>2 DEF Larger
      <3>2. Skipped + given \in 0 .. 15
            BY <1>1 DEF Skipped
      <3> QED BY <1>1, <3>1, <3>2 DEF Speed
    <2>6. Within(l, given + 1)
      <3>1. Skipped \in Int
            BY <1>1 DEF Skipped
      <3>2. Whole(l) => ~(Skipped + (given + 1) >= 12)
            BY <1>1, <2>5, <3>1
      <3> QED BY <2>1, <2>3, <3>2, LeaseSpeeds DEF Within
    <2>7. l # NoLease
          BY <2>3 DEF NoLease, Whole, HalfOf
    <2>8. Ended' = given
          BY <1>1, <1>3, <2>1, <2>7 DEF Ended
    <2>9. Within(lease, given)' /\ Within(previous, Ended)'
          BY <1>1, <1>2, <2>1, <2>6, <2>8, SameSpeeds
    <2> QED BY <1>1, <1>2, <1>3, <2>1, <2>4, <2>7, <2>8, <2>9 DEF Slowing
  <1> QED BY <1>4, <1>5

LEMMA SlowingEnds ==
  ASSUME Shipped, TypeOK, Strong, Strong', Slowing, Answered \/ Missed, tier' = tier
  PROVE  Slowing'
  <1>1. /\ given \in 0 .. LeaseLimit /\ pred.bw \in Nat
        /\ Within(lease, given) /\ Within(previous, Ended) /\ pred.bw <= Speed(Skipped + Ended)
        /\ pred.known \/ pred.bw = DefaultUplink
        BY DEF Slowing, TypeOK
  <1>2. /\ RoundEnds /\ stage' = "plan" /\ lease' = NoLease /\ given' = given
        /\ previous' = IF lease = NoLease THEN previous ELSE lease
        BY DEF Answered, Missed, RoundEnds
  <1>3. /\ NoLease' = NoLease
        /\ Ended' = given
        BY <1>2 DEF NoLease, Ended
  <1>4. Within(lease, given)'
    <2>1. Within(NoLease, given)
          BY LeaseSpeeds DEF Within
    <2> QED BY <1>2, <2>1, SameSpeeds
  <1>5. Within(previous, Ended)'
    <2>1. Within(previous', given)
          BY <1>1, <1>2 DEF Ended
    <2> QED BY <1>3, <2>1, SameSpeeds
  <1>6. CASE lease = NoLease
    <2>1. pred' = pred
          BY <1>6 DEF Answered, Missed, Received
    <2>2. Ended' = Ended
          BY <1>3, <1>6 DEF Ended
    <2> QED BY <1>1, <1>2, <1>3, <1>4, <1>5, <2>1, <2>2 DEF Slowing, Speed
  <1>7. CASE lease # NoLease
    <2> DEFINE k == Skipped + Ended
    <2>1. k \in 0 .. 14 /\ Ended \in Int /\ given = Ended + 1 /\ Skipped + given = k + 1
          BY <1>1, <1>7 DEF Slowing, Ended, Skipped, Shipped
    <2>2. /\ Measured(lease) \in 1 .. 197 /\ (k >= 12 => Measured(lease) <= 19)
          /\ Measured(previous) \in 1 .. 197 /\ (k >= 12 => Measured(previous) <= 19)
          BY <1>1, <2>1 DEF Within
    <2>0. pred.bw <= Speed(k)
          BY <1>1
    <2> HIDE DEF k
    <2> DEFINE Slow(p) == p.bw \in Nat /\ p.bw <= Speed(k + 1)
    <2>3. ASSUME NEW p, NEW x \in {lease, previous}, p.bw \in Nat,
                 p.bw <= Speed(k) \/ p.bw <= Speed(k + 1)
          PROVE  Heard(p, x).known /\ Slow(Heard(p, x))
      <3>1. Heard(p, x).bw = (3 * Measured(x) + 7 * p.bw) \div 10 /\ Heard(p, x).known
            BY DEF Heard, RecordSuccess
      <3>2. Measured(x) \in 1 .. 197 /\ (k >= 12 => Measured(x) <= 19)
            BY <2>2
      <3> DEFINE next == (3 * Measured(x) + 7 * p.bw) \div 10
      <3>3. next <= Speed(k + 1)
            BY <2>1, <2>3, <3>2, SpeedFalls
      <3>4. next \in Nat
            BY <2>3, <3>2
      <3> HIDE DEF next
      <3> QED BY <2>1, <3>1, <3>3, <3>4 DEF next
    <2>4. \A p \in AfterUpdates : p.known /\ Slow(p)
          BY <1>1, <2>0, <2>3 DEF AfterUpdates
    <2>5. ASSUME NEW p \in Prediction(round), p.bw <= Speed(k) \/ p.bw <= Speed(k + 1)
          PROVE  RecordFailure(p).known /\ Slow(RecordFailure(p))
      <3>1. p.bw \in Nat
            BY DEF Prediction
      <3>2. RecordFailure(p).bw = p.bw \div 2 /\ RecordFailure(p).known
            BY DEF RecordFailure, Prediction
      <3> DEFINE next == p.bw \div 2
      <3>3. next <= Speed(k + 1)
            BY <2>1, <2>2, <2>5, <3>1, SpeedFalls
      <3>4. next \in Nat
            BY <3>1
      <3> HIDE DEF next
      <3> QED BY <2>1, <3>2, <3>3, <3>4 DEF next
    <2>6. pred'.known /\ Slow(pred')
      <3>1. CASE Answered
            BY <1>7, <2>4, <3>1 DEF Answered, Received
      <3>2. CASE Missed
        <4>1. PICK p \in {pred} \cup AfterUpdates : pred' = RecordFailure(p)
              BY <3>2 DEF Missed
        <4>2. p \in Prediction(round) /\ (p.bw <= Speed(k) \/ p.bw <= Speed(k + 1))
              BY <1>1, <2>0, <2>4, <4>1, UpdatesType
        <4> QED BY <2>5, <4>1, <4>2
      <3> QED BY <3>1, <3>2
    <2>7. pred'.bw <= Speed(Skipped + given)
          BY <2>1, <2>6
    <2> QED BY <1>1, <1>2, <1>3, <1>4, <1>5, <2>6, <2>7 DEF Slowing, Speed, Skipped
  <1> QED BY <1>6, <1>7

LEMMA SlowingKept ==
  ASSUME Strong, Slowing, tier' = tier, UNCHANGED <<lease, pred, previous, given>>,
         stage' = stage \/ stage' # "plan"
  PROVE  Slowing'
  <1>1. NoLease' = NoLease
        BY DEF NoLease
  <1>2. Ended' = Ended
        BY <1>1 DEF Ended
  <1>3. Within(lease, given)' /\ Within(previous, Ended)'
        BY <1>2, SameSpeeds DEF Slowing
  <1>4. Speed(Skipped + Ended)' = Speed(Skipped + Ended)
        BY <1>2 DEF Speed, Skipped
  <1>5. pred'.bw <= Speed(Skipped + Ended)'
        BY <1>4 DEF Slowing
  <1> QED BY <1>1, <1>3, <1>5 DEF Slowing

LEMMA SlowingInductive ==
  ASSUME Shipped, TypeOK, Slowing, [Next]_vars
  PROVE  Slowing'
  <1> SUFFICES ASSUME Strong' PROVE Slowing'
      BY DEF Slowing
  <1>1. UNCHANGED config /\ tier' = tier
        BY DEF config, Next, Plan, NotSampled, SkipRound, Answered, Missed, RoundEnds, Restart, vars
  <1>2. Strong
        BY <1>1 DEF Strong, Quota, config
  <1>3. /\ given \in 0 .. LeaseLimit /\ pred.bw \in Nat
        /\ Within(lease, given) /\ Within(previous, Ended) /\ pred.bw <= Speed(Skipped + Ended)
        /\ pred.known \/ pred.bw = DefaultUplink
        BY <1>2 DEF Slowing, TypeOK
  <1>4. NoLease' = NoLease
        BY DEF NoLease
  <1>5. CASE NotSampled
    <2>1. stage = "plan" /\ lease' = NoLease /\ stage' = "wait"
          BY <1>5 DEF NotSampled
    <2>2. lease' = lease
          BY <1>2, <2>1 DEF Slowing
    <2>3. UNCHANGED <<pred, previous, given>>
          BY <1>5 DEF NotSampled
    <2> QED BY <1>1, <1>2, <2>1, <2>2, <2>3, SlowingKept
  <1>6. CASE SkipRound
        BY <1>1, <1>2, <1>6, SlowingKept DEF SkipRound
  <1>7. CASE Restart
    <2>1. /\ stage' = "plan" /\ lease' = NoLease /\ given' = 0 /\ pred' = Unknown
          /\ previous' = IF lease = NoLease THEN previous ELSE lease
          BY <1>7 DEF Restart
    <2>2. Ended' = 0
          BY <1>4, <2>1 DEF Ended
    <2>3. /\ pred'.bw = DefaultUplink /\ DefaultUplink <= Speed(Skipped + 0)
          /\ LeaseLimit \in 1 .. 15
          BY <2>1 DEF Unknown, Shipped, Skipped
    <2>4. \A l \in {lease, previous} :
            Measured(l) \in 1 .. 197 /\ (Skipped + 0 >= 12 => Measured(l) <= 19)
      <3>1. Skipped \in Int /\ given >= 0 /\ Ended >= 0 /\ given \in Int /\ Ended \in Int
            BY <1>2, <1>3, <2>3 DEF Skipped, Ended, Slowing
      <3>2. Skipped + 0 >= 12 => Skipped + given >= 12 /\ Skipped + Ended >= 12
            BY <3>1
      <3> QED BY <1>3, <3>2 DEF Within
    <2>5. Within(NoLease, 0) /\ Within(previous', 0)
          BY <1>2, <2>1, <2>4, LeaseSpeeds DEF Within
    <2>6. Within(lease, given)' /\ Within(previous, Ended)'
          BY <1>1, <2>1, <2>2, <2>5, SameSpeeds
    <2>7. pred'.bw <= Speed(Skipped + Ended')
          BY <2>2, <2>3
    <2> QED BY <1>4, <2>1, <2>2, <2>3, <2>6, <2>7 DEF Slowing, Speed, Skipped
  <1>8. CASE UNCHANGED vars
        BY <1>1, <1>2, <1>8, SlowingKept DEF vars
  <1>9. CASE Plan
        BY <1>1, <1>2, <1>9, SlowingPlan
  <1>10. CASE Answered \/ Missed
        BY <1>1, <1>2, <1>10, SlowingEnds
  <1> QED BY <1>5, <1>6, <1>7, <1>8, <1>9, <1>10 DEF Next

LEMMA SlowingInit == Shipped /\ Init => Slowing
  <1> SUFFICES ASSUME Shipped, Init, Strong PROVE Slowing
      BY DEF Slowing
  <1>1. TypeOK
        BY AdmissionInit
  <1>2. pred.bw = DefaultUplink /\ DefaultUplink <= Speed(Skipped + 0) /\ Ended = 0
        /\ LeaseLimit \in 1 .. 15
        BY DEF Init, Unknown, Shipped, Skipped, Ended
  <1>3. Within(NoLease, 0)
        BY <1>1, LeaseSpeeds DEF Within
  <1> QED BY <1>2, <1>3 DEF Init, Slowing

\* The guard gives a client of the strongest tier at most 15 leases with the
\* default of 80 Mbit/s, and six with 5, however many rounds are run, whatever it
\* misses and however late its updates come: each update makes the uplink look slower, since training time is taken for upload
\* time (coordinator.py:333, worker.py:376-395).
THEOREM AdmissionLeasesBounded == Shipped => (Spec => []LeasesBounded)
  <1> SUFFICES ASSUME Shipped PROVE Spec => []LeasesBounded
      OBVIOUS
  <1>1. Init => Slowing
        BY SlowingInit
  <1>2. TypeOK /\ Slowing /\ [Next]_vars => Slowing'
        BY SlowingInductive
  <1>3. TypeOK /\ Slowing => LeasesBounded
        BY DEF Slowing, Strong, LeasesBounded, Shipped
  <1> QED BY AdmissionTypeOK, <1>1, <1>2, <1>3, PTL DEF Spec
=============================================================================
