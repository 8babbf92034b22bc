--------------------------- MODULE SliceFeedback ---------------------------
(***************************************************************************)
(* Which slices are leased: FeedbackState scores them by what happened so  *)
(* far (src/rpc/scheduler/feedback_state.py), LeasePlanner leases each     *)
(* client its best ones (src/rpc/scheduler/lease_planner.py), and the      *)
(* updates that count, those of this round's leases and late ones of       *)
(* earlier leases, decide what the feedback is told                        *)
(* (src/rpc/coordinator.py).                                               *)
(*                                                                         *)
(* Quality scores move in steps of 0.05 and are counted in them: 0 .. 20.  *)
(* Scores are compared as fractions, exactly; the code's doubles may order *)
(* equal ones either way, so ties are broken in every way.                 *)
(***************************************************************************)
EXTENDS Integers, FiniteSets

CONSTANTS
  Slice,         \* the gated slices, all but slice_head
  Client,        \* clients sampled every round
  Slow,          \* bound: the clients whose updates may come late
  Front,         \* the slices in the first half of the registry
  MaxSlices,     \* MaxSlices[c] = max(1, int(number of gated slices * budget))
  WarmupRounds,  \* scheduler.warmup_full_rounds
  NumRounds      \* bound: rounds

ASSUME QuotaAssumption ==
  /\ IsFiniteSet(Slice)
  /\ MaxSlices \in [Client -> Nat \ {0}]
  /\ \A c \in Client : MaxSlices[c] <= Cardinality(Slice)
ASSUME SlowAssumption == Slow \subseteq Client
ASSUME FrontAssumption == Front \subseteq Slice
ASSUME RoundsAssumption == WarmupRounds \in Nat /\ NumRounds \in Nat

VARIABLES
  round,        \* round_id of the loop
  roundCount,   \* FeedbackState.round_count
  coverage,     \* coverage_count of each slice
  quality,      \* quality_score of each slice, in steps of 0.05
  lastUpdated,  \* last_updated_round of each slice
  leased,       \* slices leased to each client in this round, or None
  previous,     \* the lease each slow client took last before this round, or {}
  starved,      \* history: updates since each slice was in one
  strayed       \* history: rounds that counted slices of late updates only

feedback == <<roundCount, coverage, quality, lastUpdated>>
history == <<starved, strayed>>
vars == <<round, feedback, leased, previous, history>>

\* Nothing is planned yet; a round may also be planned without any lease.
None == <<>>

Init ==
  /\ round = 0
  /\ roundCount = 0
  /\ coverage = [s \in Slice |-> 0]
  /\ quality = [s \in Slice |-> 10]
  /\ lastUpdated = [s \in Slice |-> -1]
  /\ leased = None
  /\ previous = [c \in Slow |-> {}]
  /\ starved = [s \in Slice |-> 0]
  /\ strayed = 0

Larger(m, n) == IF m > n THEN m ELSE n
Smaller(m, n) == IF m < n THEN m ELSE n

\* Mutant of Need: what has been covered and served well is leased again.
NeedReversed(s) ==
  LET rounds == Larger(roundCount, 1)
  IN  80 * rounds * coverage[s] + 3 * quality[s] * rounds * (coverage[s] + 1)

\* get_slice_scores with coverage and service feedback, times
\* 200 * (coverage + 1) * max(round_count, 1).  No variance is ever recorded:
\* update_after_round is called without deltas.
Need(s) ==
  LET rounds == Larger(roundCount, 1)
  IN  80 * rounds
        + 3 * (20 - quality[s]) * rounds * (coverage[s] + 1)
        + 20 * (roundCount - lastUpdated[s]) * (coverage[s] + 1)

Better(s, t) == Need(s) * (coverage[t] + 1) > Need(t) * (coverage[s] + 1)

\* argsort of the negated scores, cut off at the quota.
BestSlices(n) ==
  {S \in SUBSET Slice :
     /\ Cardinality(S) = n
     /\ \A s \in S, t \in Slice \ S : ~Better(t, s)}

\* What the planner proposes to a client, and what the guard may make of it: the
\* proposal, the first half of its list (slice_head stands last), or nothing.
Leasable(c) ==
  {{}} \cup
  IF round < WarmupRounds THEN {Slice, Front}
  ELSE BestSlices(MaxSlices[c]) \cup BestSlices((MaxSlices[c] + 1) \div 2)

\* plan_round
Plan ==
  /\ round < NumRounds
  /\ leased = None
  /\ leased' \in {f \in [Client -> SUBSET Slice] : \A c \in Client : f[c] \in Leasable(c)}
  /\ UNCHANGED <<round, feedback, previous, history>>

\* Slices that the updates of this round's leases name.
InTime(done) == UNION {leased[c] : c \in done}

\* updated_slices.  A late update counts beside one of this round or in place of it,
\* and once more if it is sent again, unless its client has no lease in this round.
Updated(done, late) ==
  InTime(done) \cup UNION {previous[c] : c \in {d \in late : leased[d] # {}}}

\* Mutant of Recent: a slice nobody updated counts as updated.
RecentAll(s, done, late) == round

\* last_updated_round is set for the slices somebody updated.
Recent(s, done, late) == IF s \in Updated(done, late) THEN round ELSE lastUpdated[s]

\* Mutant of Quality: the bound is not applied.
QualityUnbounded(s, done, late) ==
  IF s \in Updated(done, late) THEN quality[s] + 2 ELSE quality[s] - 1

Quality(s, done, late) ==
  IF s \in Updated(done, late) THEN Smaller(20, quality[s] + 2) ELSE Larger(0, quality[s] - 1)

\* The leases taken last, with the round's own ones among them: a worker that is busy
\* with an earlier lease may never take this one.
Took(done) ==
  {f \in [Slow -> SUBSET Slice] :
     \A c \in Slow :
       \/ leased[c] # {} /\ f[c] = leased[c]
       \/ (leased[c] = {} \/ c \notin done) /\ f[c] = previous[c]}

\* update_after_round, with the clients whose updates of this round's leases count
\* and those whose late updates do.
UpdateAfterRound(done, late) ==
  /\ leased # None
  /\ roundCount' = round + 1
  /\ coverage' = [s \in Slice |->
                    IF s \in Updated(done, late) THEN coverage[s] + 1 ELSE coverage[s]]
  /\ quality' = [s \in Slice |-> Quality(s, done, late)]
  /\ lastUpdated' = [s \in Slice |-> Recent(s, done, late)]
  /\ starved' = [s \in Slice |->
                   IF Updated(done, late) = {} THEN starved[s]
                   ELSE IF s \in Updated(done, late) THEN 0 ELSE starved[s] + 1]
  /\ strayed' = IF Updated(done, late) = InTime(done) THEN strayed ELSE strayed + 1
  /\ previous' \in Took(done)
  /\ leased' = None
  /\ round' = round + 1

\* The round is skipped: no client was available or left.
SkipRound ==
  /\ round < NumRounds
  /\ leased = None
  /\ round' = round + 1
  /\ UNCHANGED <<feedback, leased, previous, history>>

Next ==
  \/ Plan
  \/ SkipRound
  \/ \E done \in SUBSET Client, late \in SUBSET Slow : UpdateAfterRound(done, late)

Spec == Init /\ [][Next]_vars
-----------------------------------------------------------------------------
(* Properties *)

\* Every variable has its type; quality scores stay within 0 and 1
\* (feedback_state.py:50 and 52).
TypeOK ==
  /\ round \in 0 .. NumRounds
  /\ roundCount \in 0 .. round
  /\ coverage \in [Slice -> 0 .. roundCount]
  /\ quality \in [Slice -> 0 .. 20]
  /\ lastUpdated \in [Slice -> -1 .. roundCount - 1]
  /\ leased \in [Client -> SUBSET Slice] \cup {None}
  /\ previous \in [Slow -> SUBSET Slice]
  /\ starved \in [Slice -> 0 .. roundCount]
  /\ strayed \in 0 .. roundCount

\* The counters of a slice tell one story: it has a last update exactly when it
\* is covered, and it was covered at most once a round up to that update
\* (feedback_state.py:46-52).
CoverageIsRecent ==
  \A s \in Slice :
    /\ coverage[s] = 0 <=> lastUpdated[s] = -1
    /\ coverage[s] <= lastUpdated[s] + 1

\* Updates that one slice can be ahead of another: those of the warm-up, which is
\* blind, or the last one, and one for each round in which a late update counted for
\* a slice that no update in time was of.
Lead == Larger(1, WarmupRounds) + strayed

\* No slice gets further ahead of another than that, however long the training,
\* whichever leases the guard cuts and whichever clients finish: what the planner
\* does never adds to the lead that late updates give a slice
\* (feedback_state.py:73-89, lease_planner.py:138-139, coordinator.py:416-425).
CoverageBalanced == \A s, t \in Slice : coverage[t] - coverage[s] <= Lead

\* As long as some update counts in each round, in time or late, a slice is passed
\* over at most Lead times for each of the others, whichever clients finish and
\* however ties are broken (lease_planner.py:138-139, coordinator.py:416-425).
StarvationBounded == \A s \in Slice : starved[s] <= (Cardinality(Slice) - 1) * Lead
=============================================================================
