------------------------- MODULE AdaptiveSchedule -------------------------
(***************************************************************************)
(* The scheduler of the standalone library: AdaptiveLeaseLoRA assigns      *)
(* slices to clients round by round                                        *)
(* (src/standalone/leaselora/scheduler/adaptive_lease_lora.py), its        *)
(* virtual queues remember who came off badly (optimizer/virtual_queue.py).*)
(*                                                                         *)
(* Scores mix affinities, progress and throughput that the caller          *)
(* provides: any order of slices, and of pairs, can occur, so any is       *)
(* taken.  What a client reported is reduced to the number of slices its   *)
(* budget allows and the number that fit its memory and time.  Queues      *)
(* count in tenths; coverage is rounded down and fairness up.              *)
(***************************************************************************)
EXTENDS Integers, FiniteSets, Functions

CONSTANTS
  Slice,
  Client,
  LowResource,    \* clients whose device is small
  Report,         \* what may follow from a heartbeat: [budget, fit] in slices
  MaxClients,     \* clients_per_round
  MinFocus,       \* min_focus of select_focus_set
  RBase,          \* r_base
  RMax,           \* r_max
  Target,         \* coverage_target
  FairTarget,     \* participation_target
  MaxBacklog,     \* max_backlog of both queues
  Ceiling,        \* debt_ceiling of compute_redundancy
  Variants,       \* sets of disabled parts: the method and its ablations
  NumRounds,      \* bound: rounds
  RedundantLimit  \* what RedundantIsRecent allows

ASSUME SetAssumption ==
  /\ IsFiniteSet(Client) /\ LowResource \subseteq Client
  /\ IsFiniteSet(Slice) /\ Slice # {}
  /\ Report \subseteq [budget : 1 .. 4, fit : Nat]
ASSUME ParameterAssumption ==
  /\ {MaxClients, MinFocus, RBase, RMax} \subseteq Nat \ {0}
  /\ {Target, FairTarget, MaxBacklog, Ceiling, NumRounds} \subseteq Nat
ASSUME VariantAssumption ==
  Variants \subseteq SUBSET {"dpp", "focus", "variance", "reservation"}

VARIABLES
  disabled,    \* the variant: chosen once
  round,
  phase,       \* "idle"; "reserve", "assign" in schedule(); "run" with its leases
  backlog,     \* coverage_queue: backlog of each slice
  fairness,    \* fairness_queue: backlog
  starved,     \* history: rounds since a lease with the slice was completed
  report,      \* the reports of the viable clients, its domain
  focus,       \* candidate_slices
  noisy,       \* slices with much variance and much need
  toReserve,   \* low-resource clients that have a reservation
  assignment,  \* slices assigned to each client
  reserved,    \* history: clients and slices assigned by reservation
  passed       \* pairs that the loop over pairs is past

queues == <<backlog, fairness, starved>>
inputs == <<report, focus, noisy, toReserve>>
results == <<assignment, reserved, passed>>
vars == <<disabled, round, phase, queues, inputs, results>>

NoReport == [c \in {} |-> 0]
Unassigned == [c \in Client |-> {}]

Init ==
  /\ disabled \in Variants
  /\ round = 0
  /\ phase = "idle"
  /\ backlog = [s \in Slice |-> 0]
  /\ fairness = 0
  /\ starved = [s \in Slice |-> 0]
  /\ report = NoReport
  /\ focus = {} /\ noisy = {} /\ toReserve = {}
  /\ assignment = Unassigned
  /\ reserved = {}
  /\ passed = {}

Larger(m, n) == IF m > n THEN m ELSE n
Smaller(m, n) == IF m < n THEN m ELSE n
-----------------------------------------------------------------------------
(* schedule *)

Viable == DOMAIN report

\* base_slice_budget at its largest: a report's budget is within it.
BaseBudget(c) == IF c \in LowResource THEN 2 ELSE 4

Reports ==
  UNION {{r \in [V -> Report] : \A c \in V : r[c].budget <= BaseBudget(c)} :
           V \in {V \in SUBSET Client : Cardinality(V) <= MaxClients}}

\* select_focus_set, for every order of the slices and every granularity: the
\* budgets together, or up to a tenth more, but not all slices if there are many.
FocusSets(r) ==
  LET total == SumFunction([c \in DOMAIN r |-> r[c].budget])
      limit == Larger(MinFocus, (9 * Cardinality(Slice)) \div 10)
      Size(t) == Smaller(Cardinality(Slice), Smaller(limit, Larger(MinFocus, t)))
      sizes == {Size(t) : t \in total .. Larger(total, (11 * total - 1) \div 10)}
  IN  IF "focus" \in disabled THEN {Slice}
      ELSE {F \in SUBSET Slice : Cardinality(F) \in sizes}

\* Mutant of NumReserved: the share is rounded down.
NumReservedDown(n, share) == (n * share) \div 100

\* share is reservation_ratio in percent.
NumReserved(n, share) == Larger(1, (n * share + 99) \div 100)

\* The first low-resource clients, in whatever order they were listed.
ReserveSets(r) ==
  LET low   == DOMAIN r \cap LowResource
      sizes == {Smaller(NumReserved(Cardinality(low), share), Cardinality(low)) :
                  share \in 15 .. 40}
  IN  IF "reservation" \in disabled \/ low = {} THEN {{}}
      ELSE {R \in SUBSET low : Cardinality(R) \in sizes}

BeginRound ==
  /\ phase = "idle"
  /\ round < NumRounds
  /\ phase' = "reserve"
  /\ report' \in Reports
  /\ focus' \in FocusSets(report')
  /\ noisy' \in SUBSET focus'
  /\ toReserve' \in ReserveSets(report')
  /\ UNCHANGED <<disabled, round, queues, results>>

\* _check_feasible, for a client with n slices.
Fits(c, n) == n <= report[c].fit

\* _reservation_pass: each client with a reservation gets the slice that scores
\* best for it; neither budgets nor redundancy are looked at.
Reserve ==
  /\ phase = "reserve"
  /\ phase' = "assign"
  /\ \E best \in [toReserve -> focus] :
       /\ assignment' = [c \in Client |->
            IF c \in toReserve /\ Fits(c, 1) THEN {best[c]} ELSE {}]
       /\ reserved' = {<<c, best[c]>> : c \in {d \in toReserve : Fits(d, 1)}}
  /\ UNCHANGED <<disabled, round, queues, inputs, passed>>

Holders(s) == {c \in Client : s \in assignment[c]}

\* compute_redundancy; an owed slice is not worth a second client.
Redundancy(s) ==
  IF "variance" \notin disabled /\ RMax > RBase /\ s \in noisy /\ backlog[s] < Ceiling
    THEN Smaller(RBase + 1, RMax)
    ELSE RBase

\* Mutant of MayHold: off by one at the cap.
MayHoldOneMore(c, s) ==
  /\ Cardinality(assignment[c]) < report[c].budget
  /\ Cardinality(Holders(s)) <= Redundancy(s)
  /\ s \notin assignment[c]
  /\ Fits(c, Cardinality(assignment[c]) + 1)

MayHold(c, s) ==
  /\ Cardinality(assignment[c]) < report[c].budget
  /\ Cardinality(Holders(s)) < Redundancy(s)
  /\ s \notin assignment[c]
  /\ Fits(c, Cardinality(assignment[c]) + 1)

\* Mutant of PassedWith: a client is left for good when a slice is refused to it.
PassedWithClient(c, s) == IF MayHold(c, s) THEN {<<c, s>>} ELSE {c} \X focus

\* The loop goes on with the next pair, whatever came of this one.
PassedWith(c, s) == {<<c, s>>}

\* The loop over the sorted pairs.
Assign(c, s) ==
  /\ phase = "assign"
  /\ <<c, s>> \notin passed
  /\ MayHold(c, s)
  /\ assignment' = [assignment EXCEPT ![c] = @ \cup {s}]
  /\ passed' = passed \cup PassedWith(c, s)
  /\ UNCHANGED <<disabled, round, phase, queues, inputs, reserved>>

PassOver(c, s) ==
  /\ phase = "assign"
  /\ <<c, s>> \notin passed
  /\ ~MayHold(c, s)
  /\ passed' = passed \cup PassedWith(c, s)
  /\ UNCHANGED <<disabled, round, phase, queues, inputs, assignment, reserved>>

\* schedule returns a lease for every client that was assigned a slice.
Return ==
  /\ phase = "assign"
  /\ passed = Viable \X focus
  /\ phase' = "run"
  /\ passed' = {}
  /\ UNCHANGED <<disabled, round, queues, inputs, assignment, reserved>>
-----------------------------------------------------------------------------
(* post_round_update *)

Leased == {c \in Client : assignment[c] # {}}

\* Mutant of Accepted: all leases count, completed or not.
AcceptedAny(s, done) == Cardinality(Holders(s))

\* accepted_counts, with the clients that completed their lease.
Accepted(s, done) == Cardinality(Holders(s) \cap done)

\* low_rate; without a low-resource lease it is zero.
LowRate(done) ==
  (10 * Cardinality(done \cap LowResource))
    \div Larger(1, Cardinality(Leased \cap LowResource))

\* Mutant of CoverageAfter: a queue served more than it was owed goes below zero.
CoverageUnclamped(s, done) ==
  Smaller(MaxBacklog, (9 * (backlog[s] + Target - 10 * Accepted(s, done))) \div 10)

\* VirtualQueue.update
CoverageAfter(s, done) ==
  Smaller(MaxBacklog, (9 * Larger(0, backlog[s] + Target - 10 * Accepted(s, done))) \div 10)

\* FairnessQueue.update
FairnessAfter(done) ==
  Smaller(MaxBacklog, (9 * Larger(0, fairness + FairTarget - LowRate(done)) + 9) \div 10)

PostRoundUpdate(done) ==
  /\ phase = "run"
  /\ done \subseteq Leased
  /\ IF "dpp" \in disabled THEN UNCHANGED <<backlog, fairness>>
     ELSE /\ backlog' = [s \in Slice |-> CoverageAfter(s, done)]
          /\ fairness' = FairnessAfter(done)
  /\ starved' = [s \in Slice |-> IF Holders(s) \cap done = {} THEN starved[s] + 1 ELSE 0]
  /\ round' = round + 1
  /\ phase' = "idle"
  /\ report' = NoReport
  /\ focus' = {} /\ noisy' = {} /\ toReserve' = {}
  /\ assignment' = Unassigned
  /\ reserved' = {}
  /\ UNCHANGED <<disabled, passed>>

Next ==
  \/ BeginRound
  \/ Reserve
  \/ \E c \in Viable, s \in focus : Assign(c, s) \/ PassOver(c, s)
  \/ Return
  \/ \E done \in SUBSET Client : PostRoundUpdate(done)

Spec == Init /\ [][Next]_vars
-----------------------------------------------------------------------------
(* Properties *)

\* Every variable has its type; slices are assigned to viable clients only.
TypeOK ==
  /\ disabled \in Variants
  /\ round \in 0 .. NumRounds
  /\ phase \in {"idle", "reserve", "assign", "run"}
  /\ phase # "idle" => round < NumRounds
  /\ backlog \in [Slice -> 0 .. MaxBacklog]
  /\ fairness \in 0 .. MaxBacklog
  /\ starved \in [Slice -> 0 .. round]
  /\ Viable \subseteq Client /\ report \in [Viable -> Report]
  /\ focus \subseteq Slice /\ noisy \subseteq focus
  /\ toReserve \subseteq Viable \cap LowResource
  /\ assignment \in [Client -> SUBSET focus]
  /\ Leased \subseteq Viable
  /\ reserved \subseteq toReserve \X focus
  /\ passed \subseteq Viable \X focus

\* One pass over the pairs leaves nothing over: no client that could still carry
\* a slice within its budget, and no slice that could still be given to it, in
\* whatever order the scores put them (adaptive_lease_lora.py:183-204).
NothingLeftOver == phase = "run" => \A c \in Viable, s \in focus : ~MayHold(c, s)

\* A slice has more holders than its redundancy only if all of them hold it by
\* reservation: the loop over the pairs never adds to the excess
\* (adaptive_lease_lora.py:102-117 and 197).
ExcessIsReserved ==
  \A s \in focus :
    Cardinality(Holders(s)) > Redundancy(s) => \A c \in Holders(s) : <<c, s>> \in reserved

\* No round shuts out the weak: if the low-resource clients can each carry a
\* slice, one of them has a lease, whatever the others score
\* (adaptive_lease_lora.py:98-117).
WeakNotShutOut ==
  phase = "run" /\ "reservation" \notin disabled
    /\ Viable \cap LowResource # {} /\ (\A c \in Viable \cap LowResource : Fits(c, 1))
    => Leased \cap LowResource # {}

\* What becomes of the backlog x of a slice that is not served.
Unserved(x) == Smaller(MaxBacklog, (9 * (x + Target)) \div 10)

\* RedundantLimit rounds without service, and one more, take an empty queue to the
\* ceiling.
ASSUME LimitAssumption ==
  /\ RedundantLimit \in Nat
  /\ \E owed \in [0 .. RedundantLimit + 1 -> 0 .. MaxBacklog] :
       /\ owed[0] = 0
       /\ \A k \in 0 .. RedundantLimit : owed[k + 1] = Unserved(owed[k])
       /\ owed[RedundantLimit + 1] >= Ceiling

\* Only slices that were in a completed lease lately are given to more clients
\* than r_base: redundancy is withdrawn from a slice that goes on failing
\* (virtual_queue.py:13-16, variance_tracker.py:54).
RedundantIsRecent ==
  "dpp" \notin disabled =>
    \A s \in Slice : Redundancy(s) > RBase => starved[s] <= RedundantLimit
=============================================================================
