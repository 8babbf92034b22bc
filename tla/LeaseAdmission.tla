-------------------------- MODULE LeaseAdmission --------------------------
(***************************************************************************)
(* Whether one client is given a lease, and how much of one: LeasePlanner  *)
(* proposes (src/rpc/scheduler/lease_planner.py), FeasibilityGuard shrinks *)
(* or rejects (feasibility_guard.py), and BandwidthPredictor learns from   *)
(* what the round loop records about the leases that were given            *)
(* (src/rpc/network/bandwidth_predictor.py, src/rpc/coordinator.py).       *)
(* Clients do not matter to each other here, so there is one.              *)
(*                                                                         *)
(* Numbers are integers: times in 10 ms, data in 10 kbit, speeds in 10     *)
(* kbit/s (an uplink that has been scaled for staleness in 1 kbit/s),      *)
(* memory in 10 MB, slowdown and budget in tenths.  The moving average is  *)
(* rounded down.                                                           *)
(***************************************************************************)
EXTENDS Integers

CONSTANTS
  Tier,          \* resources.tiers
  Modes,         \* scheduler.guard_mode
  NumGated,      \* slices of the registry without slice_head
  BaseSteps,     \* fl.local.local_steps
  MicroBatch,    \* fl.local.batch_size
  Deadline,      \* base_deadline_sec * deadline_factor
  SimStep,       \* simulated_step_time_sec, what the worker takes for a step
  SliceSize,     \* serialized size of a gated slice's delta
  HeadSize,      \* serialized size of slice_head's delta
  DefaultUplink, \* network_predictor.default_uplink_mbps
  WarmupRounds,  \* scheduler.warmup_full_rounds
  NumRounds,     \* experiment.num_rounds
  MaxRestarts,   \* bound: restarts of the coordinator
  LeaseLimit     \* what LeasesBounded allows

ASSUME TierAssumption ==
  Tier \subseteq [budget : 0 .. 10, slowdown : Nat, uplink : Nat, throughput : Nat,
                  memory : Nat]
ASSUME ConfigAssumption ==
  /\ Modes \subseteq {"none", "default", "full", "oracle"}
  /\ {NumGated, BaseSteps, MicroBatch, Deadline, SimStep,
      SliceSize, HeadSize, DefaultUplink} \subseteq Nat \ {0}
  /\ {WarmupRounds, NumRounds, MaxRestarts} \subseteq Nat

\* Defaults that no configuration changes.
MinSlices == 1
MinSteps == 4
MinMicroBatch == 4
SliceMemory == 22      \* per_slice_memory_gb
SlicePayload == 400    \* per_slice_payload_bytes
StepTime == 50         \* per_step_time_sec
DefaultRtt == 5
StaleAfter == 3

VARIABLES
  tier, mode,   \* the client's tier and the guard's mode: chosen once
  discardLate,  \* runtime.discard_late_updates: chosen once
  round,        \* round_id of the loop
  stage,        \* "plan", or "wait" from the plan to the end of the wait
  guardRound,   \* guard.current_round
  pred,         \* the predictor's state of this client
  lease,        \* the lease of this round, or NoLease
  previous,     \* the last lease before it, whose update may come late
  refused,      \* history: rejected after the warm-up by this process
  given,        \* history: leases given by this process
  restarts

config == <<tier, mode, discardLate>>
vars == <<config, round, stage, guardRound, pred, lease, previous, refused, given, restarts>>

NoLease == [gated |-> 0, head |-> FALSE, steps |-> 0, micro |-> 0]
Unknown == [known |-> FALSE, bw |-> DefaultUplink, fails |-> 0, lastOk |-> -1]

Init ==
  /\ tier \in Tier
  /\ mode \in Modes
  /\ discardLate \in BOOLEAN
  /\ round = 0
  /\ stage = "plan"
  /\ guardRound = 0
  /\ pred = Unknown
  /\ lease = NoLease
  /\ previous = NoLease
  /\ refused = FALSE
  /\ given = 0
  /\ restarts = 0

Larger(m, n) == IF m > n THEN m ELSE n
Smaller(m, n) == IF m < n THEN m ELSE n
-----------------------------------------------------------------------------
(* BandwidthPredictor.  Uncertainty and online_probability are computed and  *)
(* never read; record_rtt has no caller.                                     *)

\* Mutant of RecordSuccess: the round that begins next is written down.
RecordSuccessNext(p, speed, r) ==
  [known |-> TRUE, bw |-> (3 * speed + 7 * p.bw) \div 10, fails |-> 0, lastOk |-> r + 1]

RecordSuccess(p, speed, r) ==
  [known |-> TRUE, bw |-> (3 * speed + 7 * p.bw) \div 10, fails |-> 0, lastOk |-> r]

RecordFailure(p) ==
  [p EXCEPT !.known = TRUE, !.bw = @ \div 2, !.fails = @ + 1]

Staleness == IF pred.lastOk >= 0 THEN guardRound - pred.lastOk ELSE 999

\* predict: stale averages count for less, down to three tenths.
Uplink ==
  IF ~pred.known THEN 10 * DefaultUplink
  ELSE Larger(10, pred.bw) *
         (IF Staleness > StaleAfter THEN Larger(3, 10 - (Staleness - StaleAfter)) ELSE 10)

RetryPenalty ==
  CASE pred.fails = 0 -> 0
    [] pred.fails = 1 -> 100
    [] pred.fails = 2 -> 300
    [] OTHER -> 700
-----------------------------------------------------------------------------
(* FeasibilityGuard, for an uplink of speed u *)

Length(p) == p.gated + (IF p.head THEN 1 ELSE 0)

FitsMemory(p) == Length(p) * SliceMemory <= tier.memory

\* The payload crosses an uplink of speed u within time t.
Crosses(p, u, t) == Length(p) * SlicePayload * 1000 <= u * t

ComputeTime(p) == (p.steps * StepTime * tier.slowdown) \div 10
Overhead == DefaultRtt + RetryPenalty

UploadFits(p, u) == Crosses(p, u, (3 * Deadline) \div 10 - Overhead)

\* Mutant of TimeFits: the client's slowdown is left out.
TimeFitsUnscaled(p, u) == Crosses(p, u, Deadline - Overhead - p.steps * StepTime)
TimeFits(p, u) == Crosses(p, u, Deadline - Overhead - ComputeTime(p))

OracleFits(p) == Crosses(p, 1000 * tier.uplink, Deadline - ComputeTime(p))

\* _is_feasible; the online guard is always true.
Feasible(p, u) ==
  CASE mode = "none" -> TRUE
    [] mode = "default" -> FitsMemory(p)
    [] mode = "oracle" -> FitsMemory(p) /\ OracleFits(p)
    [] mode = "full" -> FitsMemory(p) /\ UploadFits(p, u) /\ TimeFits(p, u)

\* The first half of the list: slice_head is its last element.
FewerSlices(p) ==
  IF Length(p) > MinSlices
    THEN LET kept == Larger(Length(p) \div 2, MinSlices)
         IN  [p EXCEPT !.gated = Smaller(@, kept), !.head = @ /\ kept > p.gated]
    ELSE p

FewerSteps(p) ==
  [p EXCEPT !.steps = IF @ > MinSteps THEN Larger(@ \div 2, MinSteps) ELSE @]

SmallerBatch(p) ==
  [p EXCEPT !.micro = IF @ > MinMicroBatch THEN Larger(@ \div 2, MinMicroBatch) ELSE @]

\* check, with the shrink_policy of every configuration: each step is tried
\* once, as long as the lease is not feasible.
Shrunk(p, u) ==
  LET one   == IF Feasible(p, u) THEN p ELSE FewerSlices(p)
      two   == IF Feasible(one, u) THEN one ELSE FewerSteps(one)
  IN  IF Feasible(two, u) THEN two ELSE SmallerBatch(two)
-----------------------------------------------------------------------------
(* LeasePlanner *)

IsWarmup == round < WarmupRounds

Quota == Larger(1, (NumGated * tier.budget) \div 10)

\* _compute_local_steps
LocalSteps ==
  LET least  == Larger(4, BaseSteps \div 3)
      scaled == Larger(least, (BaseSteps * Smaller(500, tier.throughput)) \div 500)
  IN  Larger(least, Larger(4, (scaled \div 4) * 4))

Proposal ==
  [gated |-> IF IsWarmup THEN NumGated ELSE Quota,
   head  |-> TRUE,
   steps |-> IF IsWarmup THEN BaseSteps ELSE LocalSteps,
   micro |-> MicroBatch]

\* plan_round, for a client that was sampled.
Plan ==
  /\ stage = "plan"
  /\ round < NumRounds
  /\ LET final == Shrunk(Proposal, Uplink)
     IN  IF Feasible(final, Uplink)
           THEN lease' = final /\ given' = given + 1 /\ UNCHANGED refused
           ELSE /\ lease' = NoLease
                /\ refused' = (refused \/ ~IsWarmup)
                /\ UNCHANGED given
  /\ stage' = "wait"
  /\ UNCHANGED <<config, round, guardRound, pred, previous, restarts>>

NotSampled ==
  /\ stage = "plan"
  /\ round < NumRounds
  /\ lease' = NoLease
  /\ stage' = "wait"
  /\ UNCHANGED <<config, round, guardRound, pred, previous, refused, given, restarts>>

\* No client is available, or none is left: continue.
SkipRound ==
  /\ stage = "plan"
  /\ round < NumRounds
  /\ round' = round + 1
  /\ UNCHANGED <<config, stage, guardRound, pred, lease, previous, refused, given, restarts>>
-----------------------------------------------------------------------------
(* The round loop, after the wait *)

Payload(l) == l.gated * SliceSize + (IF l.head THEN HeadSize ELSE 0)
TrainTime(l) == (l.steps * SimStep * tier.slowdown) \div 10

\* Mutant of Measured: the speed at which the payload crossed the uplink.
MeasuredUpload(l) == 100 * tier.uplink

\* What is recorded as the speed of an upload: the metadata of an update has
\* no upload_time_sec, so train_time_sec stands in for it.
Measured(l) == Larger(1, (100 * Payload(l)) \div Larger(1, TrainTime(l)))

Heard(p, l) == RecordSuccess(p, Measured(l), round)

\* The predictor after the client's updates in received, in the order of their
\* arrival: that of this round's lease, a late one of the lease before, or both.
AfterUpdates ==
  LET this == Heard(pred, lease)
      late == Heard(pred, previous)
  IN  IF previous = NoLease THEN {this}
      ELSE {this, late, Heard(this, previous), Heard(late, lease)}

\* Mutant of Received: updates of clients that were not expected are kept.
ReceivedAny ==
  IF lease # NoLease THEN AfterUpdates
  ELSE {pred} \cup IF previous = NoLease THEN {} ELSE {Heard(pred, previous)}

\* Only updates of clients that have a lease are looked at.
Received == IF lease = NoLease THEN {pred} ELSE AfterUpdates

RoundEnds ==
  /\ stage = "wait"
  /\ guardRound' = round
  /\ round' = round + 1
  /\ stage' = "plan"
  /\ lease' = NoLease
  /\ previous' = IF lease = NoLease THEN previous ELSE lease
  /\ UNCHANGED <<config, refused, given, restarts>>

\* An update of the client has come before the timeout, or it has no lease.
Answered == RoundEnds /\ pred' \in Received

\* The client has missed the round; without discard_late_updates an update that
\* came after the last poll is recorded as well, and before the miss.
Missed ==
  /\ lease # NoLease
  /\ RoundEnds
  /\ \E p \in {pred} \cup (IF discardLate THEN {} ELSE AfterUpdates) :
       pred' = RecordFailure(p)

\* The coordinator starts again, at the first round or, with --resume, after a
\* round that was saved; the predictor is not.
Restart ==
  /\ restarts < MaxRestarts
  /\ restarts' = restarts + 1
  /\ round' \in {0} \cup {r + 1 : r \in {k \in 0 .. round - 1 : k % 5 = 0}}
  /\ stage' = "plan"
  /\ guardRound' = 0
  /\ pred' = Unknown
  /\ lease' = NoLease
  /\ previous' = IF lease = NoLease THEN previous ELSE lease
  /\ refused' = FALSE
  /\ given' = 0
  /\ UNCHANGED config

Next == Plan \/ NotSampled \/ SkipRound \/ Answered \/ Missed \/ Restart

Spec == Init /\ [][Next]_vars
-----------------------------------------------------------------------------
(* Properties *)

Lease == [gated : 0 .. NumGated, head : BOOLEAN, steps : Nat, micro : Nat]

\* Every variable has its type; the guard's round is behind the loop's, so
\* predictions are made for an earlier round than the one being planned.
TypeOK ==
  /\ tier \in Tier /\ mode \in Modes /\ discardLate \in BOOLEAN
  /\ round \in 0 .. NumRounds
  /\ stage \in {"plan", "wait"}
  /\ stage = "wait" => round < NumRounds
  /\ guardRound \in 0 .. Larger(0, round - 1)
  /\ pred \in [known : BOOLEAN, bw : Nat, fails : Nat, lastOk : -1 .. guardRound]
  /\ lease \in Lease /\ previous \in Lease
  /\ refused \in BOOLEAN
  /\ given \in Nat
  /\ restarts \in 0 .. MaxRestarts

\* A client that was rejected after the warm-up never gets a lease again from
\* this process: only clients with a lease are recorded, and the prediction of
\* the others can only get worse (coordinator.py:330-344).
RejectedForGood == refused => lease = NoLease

\* The last step of the shrink policy never helps: every lease that is given has
\* the full micro batch (feasibility_guard.py:79-88).
BatchIsNeverShrunk == lease # NoLease => lease.micro = MicroBatch

\* With the guard in the mode "full", and steps no slower than it thinks, no
\* lease makes a worker miss its virtual deadline, however the lease was shrunk
\* (feasibility_guard.py:121, worker.py:343).
LeaseMeetsDeadline ==
  mode = "full" /\ lease # NoLease /\ SimStep <= StepTime => TrainTime(lease) <= Deadline

\* With the guard in the mode "full", a client of the strongest tier gets at most
\* LeaseLimit leases from one process, although it never misses a round: training
\* time, taken for upload time, makes its uplink look slower with every update
\* (coordinator.py:333, worker.py:376-395).
LeasesBounded == mode = "full" /\ Quota = NumGated => given <= LeaseLimit
=============================================================================
