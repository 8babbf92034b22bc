------------------------ MODULE SliceFeedbackProofs ------------------------
(***************************************************************************)
(* Proofs about the feedback state, for every set of slices and clients,   *)
(* every quota and every number of rounds.                                 *)
(***************************************************************************)
EXTENDS SliceFeedback, FiniteSetTheorems, TLAPS

\* Leases exist inside a round of the training only.
LeasedInRound == leased # None => round < NumRounds

FeedbackInv == TypeOK /\ CoverageIsRecent /\ LeasedInRound

LEMMA FeedbackInit == Init => FeedbackInv
  <1> SUFFICES ASSUME Init PROVE FeedbackInv
      OBVIOUS
  <1> USE RoundsAssumption DEF Init
  <1>1. TypeOK
      BY DEF TypeOK, None
  <1>2. CoverageIsRecent /\ LeasedInRound
      BY DEF CoverageIsRecent, LeasedInRound
  <1> QED BY <1>1, <1>2 DEF FeedbackInv

\* Leases are sets of slices, during the warm-up and after it.
LEMMA PlanKeeps == FeedbackInv /\ Plan => FeedbackInv'
  <1> SUFFICES ASSUME FeedbackInv, Plan PROVE FeedbackInv'
      OBVIOUS
  <1>1. UNCHANGED <<round, roundCount, coverage, quality, lastUpdated, previous, starved, strayed>>
      BY DEF Plan, feedback, history
  <1>2. leased' \in [Client -> SUBSET Slice]
      BY DEF Plan
  <1>3. round < NumRounds
      BY DEF Plan
  <1> QED BY <1>1, <1>2, <1>3 DEF FeedbackInv, TypeOK, CoverageIsRecent, LeasedInRound

\* The new score of a slice is between 0 and 20 steps again.
LEMMA QualityBounds ==
  ASSUME NEW done, NEW late, NEW s, quality[s] \in 0 .. 20
  PROVE  Quality(s, done, late) \in 0 .. 20
  BY DEF Quality, Smaller, Larger

\* Coverage, last update and the count of rounds move together.
LEMMA UpdateKeeps ==
  ASSUME FeedbackInv, NEW done \in SUBSET Client, NEW late \in SUBSET Slow,
         UpdateAfterRound(done, late)
  PROVE  FeedbackInv'
  <1> USE RoundsAssumption DEF FeedbackInv, TypeOK
  <1>1. round \in Nat /\ round < NumRounds /\ roundCount \in 0 .. round
      BY DEF UpdateAfterRound, LeasedInRound
  <1>2. round' \in 0 .. NumRounds /\ roundCount' \in 0 .. round'
      BY <1>1 DEF UpdateAfterRound
  <1>3. ASSUME NEW s \in Slice
        PROVE  /\ coverage'[s] \in 0 .. roundCount'
               /\ lastUpdated'[s] \in -1 .. roundCount' - 1
               /\ coverage'[s] = 0 <=> lastUpdated'[s] = -1
               /\ coverage'[s] <= lastUpdated'[s] + 1
               /\ starved'[s] \in 0 .. roundCount'
    <2>1. /\ coverage[s] \in 0 .. roundCount
          /\ lastUpdated[s] \in -1 .. roundCount - 1
          /\ starved[s] \in 0 .. roundCount
          /\ coverage[s] = 0 <=> lastUpdated[s] = -1
          /\ coverage[s] <= lastUpdated[s] + 1
          BY DEF CoverageIsRecent
    <2>2. roundCount' = round + 1
          BY DEF UpdateAfterRound
    <2>3. CASE s \in Updated(done, late)
      <3>1. coverage'[s] = coverage[s] + 1 /\ lastUpdated'[s] = round
            BY <2>3 DEF UpdateAfterRound, Recent
      <3>2. starved'[s] \in {starved[s], 0}
            BY <2>3 DEF UpdateAfterRound
      <3> QED BY <1>1, <2>1, <2>2, <3>1, <3>2
    <2>4. CASE s \notin Updated(done, late)
      <3>1. coverage'[s] = coverage[s] /\ lastUpdated'[s] = lastUpdated[s]
            BY <2>4 DEF UpdateAfterRound, Recent
      <3>2. starved'[s] \in {starved[s], starved[s] + 1}
            BY <2>4 DEF UpdateAfterRound
      <3> QED BY <1>1, <2>1, <2>2, <3>1, <3>2
    <2> QED BY <2>3, <2>4
  <1>4. quality' \in [Slice -> 0 .. 20]
      BY QualityBounds DEF UpdateAfterRound
  <1>5. /\ DOMAIN coverage' = Slice /\ DOMAIN lastUpdated' = Slice /\ DOMAIN starved' = Slice
        /\ coverage' = [s \in Slice |-> coverage'[s]]
        /\ lastUpdated' = [s \in Slice |-> lastUpdated'[s]]
        /\ starved' = [s \in Slice |-> starved'[s]]
      BY DEF UpdateAfterRound
  <1>6. leased' = None /\ previous' \in [Slow -> SUBSET Slice]
      BY DEF UpdateAfterRound, Took
  <1>7. None' = None
      BY DEF None
  <1>8. strayed' \in 0 .. roundCount'
      BY <1>1 DEF UpdateAfterRound
  <1>9. TypeOK'
      BY <1>2, <1>3, <1>4, <1>5, <1>6, <1>8
  <1>10. CoverageIsRecent'
      BY <1>3 DEF CoverageIsRecent
  <1> QED BY <1>6, <1>7, <1>9, <1>10 DEF LeasedInRound

LEMMA FeedbackInductive == FeedbackInv /\ [Next]_vars => FeedbackInv'
  <1> SUFFICES ASSUME FeedbackInv, [Next]_vars PROVE FeedbackInv'
      OBVIOUS
  <1>1. CASE SkipRound
    <2>1. round' \in 0 .. NumRounds /\ roundCount \in 0 .. round' /\ leased = None
          BY <1>1, RoundsAssumption DEF SkipRound, FeedbackInv, TypeOK
    <2>2. UNCHANGED <<feedback, leased, previous, history>>
          BY <1>1 DEF SkipRound
    <2> QED BY <2>1, <2>2
        DEF feedback, history, FeedbackInv, TypeOK, CoverageIsRecent, LeasedInRound, None
  <1>2. CASE UNCHANGED vars
        BY <1>2 DEF vars, feedback, history, FeedbackInv, TypeOK, CoverageIsRecent, LeasedInRound, None
  <1> QED BY <1>1, <1>2, PlanKeeps, UpdateKeeps DEF Next

\* Every variable keeps its type; scores stay within 0 and 1 and no slice is
\* covered more often than rounds were counted (feedback_state.py:36-52).
THEOREM FeedbackTypeOK == Spec => []TypeOK
  <1>1. FeedbackInv => TypeOK
      BY DEF FeedbackInv
  <1> QED BY FeedbackInit, FeedbackInductive, <1>1, PTL DEF Spec

\* Coverage count and last update of every slice agree, whichever clients
\* finish and whichever rounds are skipped (feedback_state.py:46-52).
THEOREM FeedbackCoverageIsRecent == Spec => []CoverageIsRecent
  <1>1. FeedbackInv => CoverageIsRecent
      BY DEF FeedbackInv
  <1> QED BY FeedbackInit, FeedbackInductive, <1>1, PTL DEF Spec
-----------------------------------------------------------------------------
(* Balance *)

\* After the warm-up, what is leased is at least as good as what is not.
LeasesBest ==
  leased # None /\ round >= WarmupRounds =>
    \A c \in Client : \A s \in leased[c], t \in Slice \ leased[c] : ~Better(t, s)

\* The lead that the rounds so far allow: it grows in the warm-up, and with late
\* updates that stray.
Gap == Larger(1, Smaller(round, WarmupRounds)) + strayed

\* How far one slice, with ct updates, quality qt and its last update in round lt,
\* may be ahead of another, with cs, qs and ls: by gap updates and three times as
\* many steps of quality, for an update moves them three apart.  Quality that it
\* lacks may still earn it updates, so it is ahead by as many fewer; and when it is
\* the staler one it may be leased once more whatever the rest, so by one less.
Within(gap, ct, cs, qt, qs, lt, ls) ==
  /\ ct - cs <= gap /\ qt - qs <= 3 * gap
  /\ 3 * (ct - cs) - (qt - qs) <= 3 * gap
  /\ lt < ls => ct - cs <= gap - 1 /\ qt - qs <= 3 * (gap - 1)

Even(t, s) ==
  Within(Gap, coverage[t], coverage[s], quality[t], quality[s], lastUpdated[t], lastUpdated[s])

AllEven == \A t, s \in Slice : Even(t, s)

SameQuality == round = 0 => \A t, s \in Slice : quality[t] = quality[s]

BalanceInv == FeedbackInv /\ LeasesBest /\ AllEven /\ SameQuality

\* What has been covered less, served worse and updated longer ago scores higher.
LEMMA ScoresCompared ==
  ASSUME NEW r \in Nat \ {0}, NEW a \in Nat \ {0}, NEW b \in Nat \ {0}, NEW u \in Nat,
         NEW v \in Nat, NEW x \in Nat, NEW y \in Nat,
         a <= b, v <= u, y <= x, a < b \/ v < u \/ y < x
  PROVE  (80 * r + 3 * u * r * a + 20 * x * a) * b > (80 * r + 3 * v * r * b + 20 * y * b) * a
  <1> DEFINE ra == r * a
             rb == r * b
             p == a * b
             rp == r * p
             urp == u * rp
             vrp == v * rp
             xp == x * p
             yp == y * p
  <1>1. /\ ra \in Nat /\ rb \in Nat /\ p \in Nat \ {0} /\ rp \in Nat \ {0}
        /\ urp \in Nat /\ vrp \in Nat /\ xp \in Nat /\ yp \in Nat
        OBVIOUS
  <1>2. (80 * r + 3 * u * r * a + 20 * x * a) * b = 80 * rb + 3 * urp + 20 * xp
        OBVIOUS
  <1>3. (80 * r + 3 * v * r * b + 20 * y * b) * a = 80 * ra + 3 * vrp + 20 * yp
        OBVIOUS
  <1>4. ASSUME NEW k \in Nat \ {0}, NEW m \in Nat, NEW n \in Nat
        PROVE  /\ m <= n => k * m <= k * n /\ m * k <= n * k
               /\ m < n => k * m < k * n /\ m * k < n * k
        OBVIOUS
  <1>5. ra <= rb /\ (a < b => ra < rb)
        BY <1>4
  <1> HIDE DEF p, rp
  <1>6. vrp <= urp /\ (v < u => vrp < urp)
        BY <1>1, <1>4
  <1>7. yp <= xp /\ (y < x => yp < xp)
        BY <1>1, <1>4
  <1> HIDE DEF ra, rb, urp, vrp, xp, yp
  <1>8. 80 * ra + 3 * vrp + 20 * yp < 80 * rb + 3 * urp + 20 * xp
        BY <1>1, <1>5, <1>6, <1>7
  <1> QED BY <1>2, <1>3, <1>8 DEF ra, rb, p, rp, urp, vrp, xp, yp

LEMMA NeedierIsBetter ==
  ASSUME TypeOK, NEW s \in Slice, NEW t \in Slice,
         coverage[s] <= coverage[t], quality[s] <= quality[t], lastUpdated[s] <= lastUpdated[t],
         \/ coverage[s] < coverage[t] \/ quality[s] < quality[t]
         \/ lastUpdated[s] < lastUpdated[t]
  PROVE  Better(s, t)
  <1> DEFINE r == Larger(roundCount, 1)
             a == coverage[s] + 1
             b == coverage[t] + 1
             u == 20 - quality[s]
             v == 20 - quality[t]
             x == roundCount - lastUpdated[s]
             y == roundCount - lastUpdated[t]
  <1>1. /\ roundCount \in Nat /\ coverage[t] \in Nat /\ coverage[s] \in Nat
        /\ quality[s] \in 0 .. 20 /\ quality[t] \in 0 .. 20
        /\ lastUpdated[t] \in Int /\ lastUpdated[t] < roundCount
        /\ lastUpdated[s] \in Int /\ lastUpdated[s] < roundCount
        BY RoundsAssumption DEF TypeOK
  <1>2. /\ r \in Nat \ {0} /\ a \in Nat \ {0} /\ b \in Nat \ {0}
        /\ u \in Nat /\ v \in Nat /\ x \in Nat /\ y \in Nat
        /\ a <= b /\ v <= u /\ y <= x /\ (a < b \/ v < u \/ y < x)
        BY <1>1 DEF Larger
  <1>3. Need(s) = 80 * r + 3 * u * r * a + 20 * x * a
        BY DEF Need
  <1>4. Need(t) = 80 * r + 3 * v * r * b + 20 * y * b
        BY DEF Need
  <1> HIDE DEF r, u, v, x, y
  <1>5. Need(s) * b > Need(t) * a
    <2> HIDE DEF a, b
    <2> QED BY <1>2, <1>3, <1>4, ScoresCompared
  <1> QED BY <1>5 DEF Better

\* A late update strays when it is of a slice that no update in time is of.
LEMMA StrayedMoves ==
  ASSUME FeedbackInv, NEW done \in SUBSET Client, NEW late \in SUBSET Slow,
         UpdateAfterRound(done, late)
  PROVE  /\ strayed \in Nat /\ strayed' \in {strayed, strayed + 1}
         /\ InTime(done) \subseteq Updated(done, late)
         /\ Updated(done, late) \subseteq Slice
         /\ strayed' = strayed <=> Updated(done, late) = InTime(done)
  <1>1. strayed \in Nat
        BY RoundsAssumption DEF FeedbackInv, TypeOK
  <1>2. strayed' \in {strayed, strayed + 1}
        BY DEF UpdateAfterRound
  <1>3. strayed' = strayed <=> Updated(done, late) = InTime(done)
        BY <1>1 DEF UpdateAfterRound
  <1>4. leased \in [Client -> SUBSET Slice] /\ previous \in [Slow -> SUBSET Slice]
        BY DEF UpdateAfterRound, FeedbackInv, TypeOK
  <1>5. InTime(done) \subseteq Updated(done, late) /\ Updated(done, late) \subseteq Slice
        BY <1>4 DEF Updated, InTime
  <1> QED BY <1>1, <1>2, <1>3, <1>5

\* What an update makes of a slice.
LEMMA CountersMove ==
  ASSUME FeedbackInv, NEW done, NEW late, UpdateAfterRound(done, late), NEW s \in Slice
  PROVE  /\ coverage[s] \in Nat /\ quality[s] \in 0 .. 20 /\ round \in Nat
         /\ lastUpdated[s] \in Int /\ lastUpdated[s] < round
         /\ s \in Updated(done, late) =>
              /\ coverage'[s] = coverage[s] + 1 /\ lastUpdated'[s] = round
              /\ quality'[s] = Smaller(20, quality[s] + 2)
         /\ s \notin Updated(done, late) =>
              /\ coverage'[s] = coverage[s] /\ lastUpdated'[s] = lastUpdated[s]
              /\ quality'[s] = Larger(0, quality[s] - 1)
  <1>1. /\ coverage[s] \in Nat /\ lastUpdated[s] \in Int /\ round \in Nat
        /\ lastUpdated[s] < round /\ quality[s] \in 0 .. 20
        BY RoundsAssumption DEF FeedbackInv, TypeOK
  <1>2. /\ coverage'[s] = IF s \in Updated(done, late) THEN coverage[s] + 1 ELSE coverage[s]
        /\ lastUpdated'[s] = Recent(s, done, late) /\ quality'[s] = Quality(s, done, late)
        BY DEF UpdateAfterRound
  <1> QED BY <1>1, <1>2 DEF Recent, Quality

LEMMA GapType ==
  ASSUME round \in Nat, strayed \in Nat
  PROVE  /\ Gap \in Nat /\ 1 <= Gap /\ Gap <= Lead /\ Lead \in Nat
         /\ round' \in {round, round + 1} /\ strayed' \in {strayed, strayed + 1} =>
              Gap' \in Nat /\ Gap <= Gap' /\ (strayed' # strayed => Gap + 1 <= Gap')
         /\ /\ round' = round + 1 /\ 0 < round /\ round < WarmupRounds
            /\ strayed' \in {strayed, strayed + 1}
            => Gap + 1 <= Gap'
  <1>1. WarmupRounds \in Nat
        BY RoundsAssumption
  <1>2. Gap \in Nat /\ 1 <= Gap /\ Gap <= Lead /\ Lead \in Nat
        BY <1>1 DEF Gap, Lead, Larger, Smaller
  <1>3. Gap' = Larger(1, Smaller(round', WarmupRounds)) + strayed'
        BY DEF Gap, Larger, Smaller
  <1>4. ASSUME round' \in {round, round + 1}, strayed' \in {strayed, strayed + 1}
        PROVE  /\ Gap' \in Nat /\ Gap <= Gap' /\ (strayed' # strayed => Gap + 1 <= Gap')
               /\ round' = round + 1 /\ 0 < round /\ round < WarmupRounds => Gap + 1 <= Gap'
    <2>1. PICK r \in Nat, q \in Nat, y \in Nat, z \in Nat, w \in Nat :
            /\ r = round /\ q = round' /\ y = strayed /\ z = strayed' /\ w = WarmupRounds
            /\ q \in {r, r + 1} /\ z \in {y, y + 1}
          BY <1>1, <1>4
    <2>2. Gap = Larger(1, Smaller(r, w)) + y /\ Gap' = Larger(1, Smaller(q, w)) + z
          BY <1>3, <2>1 DEF Gap
    <2>3. /\ Larger(1, Smaller(r, w)) \in Nat /\ Larger(1, Smaller(q, w)) \in Nat
          /\ Larger(1, Smaller(r, w)) <= Larger(1, Smaller(q, w))
          /\ q = r + 1 /\ 0 < r /\ r < w => Larger(1, Smaller(r, w)) + 1 <= Larger(1, Smaller(q, w))
          BY <2>1 DEF Larger, Smaller
    <2> QED BY <2>1, <2>2, <2>3
  <1> QED BY <1>2, <1>4

\* Of two slices one is updated in time and the other is not updated: some client
\* has leased the one and not the other, so after the warm-up it was no worse.
LEMMA ChosenIsNeedier ==
  ASSUME FeedbackInv, LeasesBest, NEW done \in SUBSET Client, NEW late \in SUBSET Slow,
         UpdateAfterRound(done, late),
         NEW t \in InTime(done), NEW s \in Slice, s \notin Updated(done, late),
         round >= WarmupRounds
  PROVE  ~Better(s, t)
  <1>1. leased # None /\ leased \in [Client -> SUBSET Slice]
        BY DEF UpdateAfterRound, FeedbackInv, TypeOK
  <1>2. PICK c \in done : t \in leased[c]
        BY DEF InTime
  <1>3. s \notin leased[c]
        BY <1>2 DEF Updated, InTime
  <1> QED BY <1>1, <1>2, <1>3 DEF LeasesBest

\* What is within a gap is within a larger one.
LEMMA WithinLarger ==
  ASSUME NEW g \in Nat, NEW h \in Nat, 1 <= g, g <= h, NEW ct \in Nat, NEW cs \in Nat,
         NEW qt \in 0 .. 20, NEW qs \in 0 .. 20, NEW lt \in Int, NEW ls \in Int,
         Within(g, ct, cs, qt, qs, lt, ls)
  PROVE  Within(h, ct, cs, qt, qs, lt, ls)
  BY DEF Within

\* A round moves a pair of slices in one of four ways.
LEMMA EvenUpdate ==
  ASSUME BalanceInv, NEW done \in SUBSET Client, NEW late \in SUBSET Slow,
         UpdateAfterRound(done, late),
         NEW t \in Slice, NEW s \in Slice
  PROVE  Even(t, s)'
  <1>1. FeedbackInv /\ LeasesBest /\ SameQuality
        BY DEF BalanceInv
  <1>2. PICK now \in Nat, ct \in Nat, cs \in Nat, qt \in 0 .. 20, qs \in 0 .. 20,
             lt \in Int, ls \in Int :
          /\ now = round /\ ct = coverage[t] /\ cs = coverage[s]
          /\ qt = quality[t] /\ qs = quality[s]
          /\ lt = lastUpdated[t] /\ ls = lastUpdated[s] /\ lt < now /\ ls < now
        BY <1>1, CountersMove
  <1>3. round' = round + 1
        BY DEF UpdateAfterRound
  <1>4. PICK g \in Nat, h \in Nat :
          /\ g = Gap /\ h = Gap' /\ 1 <= g /\ g <= h
          /\ (0 < now /\ now < WarmupRounds) \/ strayed' # strayed => g + 1 <= h
    <2>1. /\ Gap \in Nat /\ Gap' \in Nat /\ 1 <= Gap /\ Gap <= Gap'
          /\ (0 < now /\ now < WarmupRounds) \/ strayed' # strayed => Gap + 1 <= Gap'
          BY <1>1, <1>2, <1>3, StrayedMoves, GapType
    <2> QED BY <2>1
  <1>5. Within(g, ct, cs, qt, qs, lt, ls) /\ Within(g, cs, ct, qs, qt, ls, lt)
        BY <1>2, <1>4 DEF BalanceInv, AllEven, Even
  <1>6. Even(t, s)' <=> Within(h, coverage'[t], coverage'[s], quality'[t], quality'[s],
                               lastUpdated'[t], lastUpdated'[s])
        BY <1>4 DEF Even, Within
  <1>7. CASE t \in Updated(done, late) /\ s \in Updated(done, late)
    <2>1. /\ coverage'[t] = ct + 1 /\ coverage'[s] = cs + 1
          /\ quality'[t] = Smaller(20, qt + 2) /\ quality'[s] = Smaller(20, qs + 2)
          /\ lastUpdated'[t] = now /\ lastUpdated'[s] = now
          BY <1>1, <1>2, <1>7, CountersMove
    <2>2. Within(h, ct + 1, cs + 1, Smaller(20, qt + 2), Smaller(20, qs + 2), now, now)
          BY <1>2, <1>4, <1>5 DEF Within, Smaller, Larger
    <2> QED BY <1>6, <2>1, <2>2
  <1>8. CASE t \notin Updated(done, late) /\ s \notin Updated(done, late)
    <2>1. /\ coverage'[t] = ct /\ coverage'[s] = cs
          /\ quality'[t] = Larger(0, qt - 1) /\ quality'[s] = Larger(0, qs - 1)
          /\ lastUpdated'[t] = lt /\ lastUpdated'[s] = ls
          BY <1>1, <1>2, <1>8, CountersMove
    <2>2. Within(h, ct, cs, Larger(0, qt - 1), Larger(0, qs - 1), lt, ls)
          BY <1>2, <1>4, <1>5 DEF Within, Smaller, Larger
    <2> QED BY <1>6, <2>1, <2>2
  <1>9. CASE t \notin Updated(done, late) /\ s \in Updated(done, late)
    <2>1. /\ coverage'[t] = ct /\ coverage'[s] = cs + 1
          /\ quality'[t] = Larger(0, qt - 1) /\ quality'[s] = Smaller(20, qs + 2)
          /\ lastUpdated'[t] = lt /\ lastUpdated'[s] = now
          BY <1>1, <1>2, <1>9, CountersMove
    <2>2. Within(h, ct, cs + 1, Larger(0, qt - 1), Smaller(20, qs + 2), lt, now)
          BY <1>2, <1>4, <1>5 DEF Within, Smaller, Larger
    <2> QED BY <1>6, <2>1, <2>2
  <1>10. CASE t \in Updated(done, late) /\ s \notin Updated(done, late)
    <2>1. /\ coverage'[t] = ct + 1 /\ coverage'[s] = cs
          /\ quality'[t] = Smaller(20, qt + 2) /\ quality'[s] = Larger(0, qs - 1)
          /\ lastUpdated'[t] = now /\ lastUpdated'[s] = ls
          BY <1>1, <1>2, <1>10, CountersMove
    <2>2. \/ g + 1 <= h
          \/ ct = cs /\ qt = qs
          \/ lt < ls \/ ct < cs \/ (ct = cs /\ qt <= qs) \/ (ct > cs /\ qt < qs)
      <3>1. CASE now = 0
        <4>1. roundCount = 0 /\ ct \in 0 .. roundCount /\ cs \in 0 .. roundCount
              BY <1>1, <1>2, <3>1 DEF FeedbackInv, TypeOK
        <4>2. qt = qs
              BY <1>1, <1>2, <3>1 DEF SameQuality
        <4> QED BY <4>1, <4>2
      <3>2. CASE 0 < now /\ now < WarmupRounds
            BY <1>4, <3>2
      <3>3. CASE now >= WarmupRounds
        <4>1. CASE t \in InTime(done)
          <5>1. ~Better(s, t)
                BY <1>1, <1>2, <1>10, <3>3, <4>1, ChosenIsNeedier
          <5> QED BY <1>1, <1>2, <5>1, NeedierIsBetter DEF FeedbackInv
        <4>2. CASE t \notin InTime(done)
              BY <1>1, <1>4, <1>10, <4>2, StrayedMoves
        <4> QED BY <4>1, <4>2
      <3> QED BY <3>1, <3>2, <3>3, RoundsAssumption
    <2>3. ls < now /\ 1 <= g /\ g <= h
          BY <1>2, <1>4
    <2>4. Within(h, ct + 1, cs, Smaller(20, qt + 2), Larger(0, qs - 1), now, ls)
          BY <1>5, <2>2, <2>3 DEF Within, Smaller, Larger
    <2> QED BY <1>6, <2>1, <2>4
  <1> QED BY <1>7, <1>8, <1>9, <1>10

\* A round without an update only widens the gap.
LEMMA EvenKept ==
  ASSUME BalanceInv, round' \in {round, round + 1},
         UNCHANGED <<coverage, quality, lastUpdated, strayed>>
  PROVE  AllEven'
  <1> SUFFICES ASSUME NEW t \in Slice, NEW s \in Slice PROVE Even(t, s)'
      BY DEF AllEven
  <1> DEFINE ct == coverage[t]
             cs == coverage[s]
             qt == quality[t]
             qs == quality[s]
             lt == lastUpdated[t]
             ls == lastUpdated[s]
  <1>1. /\ round \in Nat /\ ct \in Nat /\ cs \in Nat /\ qt \in 0 .. 20 /\ qs \in 0 .. 20
        /\ lt \in Int /\ ls \in Int /\ strayed \in Nat
        BY RoundsAssumption DEF BalanceInv, FeedbackInv, TypeOK
  <1>2. Gap \in Nat /\ Gap' \in Nat /\ 1 <= Gap /\ Gap <= Gap'
        BY <1>1, GapType
  <1>3. Within(Gap, ct, cs, qt, qs, lt, ls)
        BY DEF BalanceInv, AllEven, Even
  <1>4. Even(t, s)' <=> Within(Gap', ct, cs, qt, qs, lt, ls)
        BY DEF Even, Within
  <1> HIDE DEF ct, cs, qt, qs, lt, ls
  <1> QED BY <1>1, <1>2, <1>3, <1>4, WithinLarger

LEMMA BalanceInit == Init => BalanceInv
  <1> SUFFICES ASSUME Init PROVE BalanceInv
      OBVIOUS
  <1>1. Gap \in Nat /\ 1 <= Gap
        BY GapType DEF Init
  <1>2. LeasesBest /\ AllEven /\ SameQuality
        BY <1>1 DEF Init, LeasesBest, AllEven, Even, Within, SameQuality
  <1> QED BY <1>2, FeedbackInit DEF BalanceInv

\* The planner takes the best slices at their scores; no lease outlives its round.
LEMMA LeasesBestKept == BalanceInv /\ [Next]_vars => LeasesBest'
  <1> SUFFICES ASSUME BalanceInv, [Next]_vars PROVE LeasesBest'
      OBVIOUS
  <1>1. CASE Plan
    <2>1. UNCHANGED <<round, roundCount, coverage, quality, lastUpdated>>
          BY <1>1 DEF Plan, feedback
    <2>2. \A s, t : Better(s, t)' = Better(s, t)
          BY <2>1 DEF Better, Need
    <2>3. ASSUME NEW c \in Client, round >= WarmupRounds,
                 NEW s \in leased'[c], NEW t \in Slice \ leased'[c]
          PROVE  ~Better(t, s)
      <3>1. leased'[c] \in Leasable(c) /\ ~(round < WarmupRounds)
            BY <1>1, <2>3, RoundsAssumption DEF Plan, BalanceInv, FeedbackInv, TypeOK
      <3>2. \/ leased'[c] = {}
            \/ leased'[c] \in BestSlices(MaxSlices[c])
            \/ leased'[c] \in BestSlices((MaxSlices[c] + 1) \div 2)
            BY <3>1 DEF Leasable
      <3> QED BY <3>2 DEF BestSlices
    <2> QED BY <2>1, <2>2, <2>3 DEF LeasesBest
  <1>2. ASSUME leased' = None PROVE LeasesBest'
        BY <1>2 DEF LeasesBest, None
  <1>3. CASE SkipRound
        BY <1>2, <1>3 DEF SkipRound
  <1>4. CASE \E done \in SUBSET Client, late \in SUBSET Slow : UpdateAfterRound(done, late)
        BY <1>2, <1>4 DEF UpdateAfterRound
  <1>5. CASE UNCHANGED vars
    <2>1. UNCHANGED <<round, roundCount, coverage, quality, lastUpdated, leased>>
          BY <1>5 DEF vars, feedback
    <2> QED BY <2>1 DEF BalanceInv, LeasesBest, Better, Need, None
  <1> QED BY <1>1, <1>3, <1>4, <1>5 DEF Next

LEMMA BalanceInductive == BalanceInv /\ [Next]_vars => BalanceInv'
  <1> SUFFICES ASSUME BalanceInv, [Next]_vars PROVE BalanceInv'
      OBVIOUS
  <1>1. FeedbackInv' /\ LeasesBest' /\ round \in Nat
        BY FeedbackInductive, LeasesBestKept, RoundsAssumption
        DEF BalanceInv, FeedbackInv, TypeOK
  <1>2. ASSUME UNCHANGED <<round, coverage, quality, lastUpdated, strayed>> PROVE BalanceInv'
    <2>1. AllEven'
          BY <1>2, EvenKept
    <2>2. SameQuality'
          BY <1>2 DEF BalanceInv, SameQuality
    <2> QED BY <1>1, <2>1, <2>2 DEF BalanceInv
  <1>3. CASE Plan
        BY <1>2, <1>3 DEF Plan, feedback, history
  <1>4. CASE SkipRound
    <2>1. round' = round + 1 /\ UNCHANGED <<coverage, quality, lastUpdated, strayed>>
          BY <1>4 DEF SkipRound, feedback, history
    <2>2. AllEven'
          BY <2>1, EvenKept
    <2>3. SameQuality'
          BY <1>1, <2>1 DEF SameQuality
    <2> QED BY <1>1, <2>2, <2>3 DEF BalanceInv
  <1>5. ASSUME NEW done \in SUBSET Client, NEW late \in SUBSET Slow,
               UpdateAfterRound(done, late)
        PROVE  BalanceInv'
    <2>1. AllEven'
          BY <1>5, EvenUpdate DEF AllEven
    <2>2. round' = round + 1
          BY <1>5 DEF UpdateAfterRound
    <2>3. SameQuality'
          BY <1>1, <2>2 DEF SameQuality
    <2> QED BY <1>1, <2>1, <2>3 DEF BalanceInv
  <1>6. CASE UNCHANGED vars
        BY <1>2, <1>6 DEF vars, feedback, history
  <1> QED BY <1>3, <1>4, <1>5, <1>6 DEF Next

\* The coverage of the slices stays within one update of each other, or as many as
\* there are warm-up rounds, and one more for each round in which a late update of
\* another slice counted, for any number of rounds, clients and slices, whoever is
\* late (feedback_state.py:36-52 and 73-89, lease_planner.py:138-139,
\* coordinator.py:416-425).
THEOREM FeedbackCoverageBalanced == Spec => []CoverageBalanced
  <1>1. BalanceInv => CoverageBalanced
    <2> SUFFICES ASSUME BalanceInv, NEW t \in Slice, NEW s \in Slice
                 PROVE  coverage[t] - coverage[s] <= Lead
        BY DEF CoverageBalanced
    <2>1. round \in Nat /\ strayed \in Nat /\ coverage[t] \in Nat /\ coverage[s] \in Nat
          BY RoundsAssumption DEF BalanceInv, FeedbackInv, TypeOK
    <2>2. Gap \in Nat /\ Gap <= Lead /\ Lead \in Nat
          BY <2>1, GapType
    <2>3. coverage[t] - coverage[s] <= Gap
          BY DEF BalanceInv, AllEven, Even, Within
    <2> QED BY <2>1, <2>2, <2>3
  <1> QED BY <1>1, BalanceInit, BalanceInductive, PTL DEF Spec
-----------------------------------------------------------------------------
(* Starvation *)

\* How often s may still be updated before t is: once when it is no fresher, in
\* what is left of the warm-up, and as long as t is ahead of it in updates or by
\* quality, which s makes up for three steps at a time.
Allowance(warm, ct, cs, qt, qs, lt, ls) ==
  Larger(Larger(IF ls <= lt THEN 1 ELSE 0, warm), Larger(ct - cs, (qt - qs + 2) \div 3))

\* It does not rise when t is not updated, whatever happens to s.
LEMMA AllowanceFalls ==
  ASSUME NEW w \in Int, NEW v \in Int, v = w - 1, NEW ct \in Nat, NEW cs \in Nat, NEW ds \in Nat,
         NEW qt \in 0 .. 20, NEW qs \in 0 .. 20, NEW pt \in 0 .. 20, NEW ps \in 0 .. 20,
         NEW lt \in Int, NEW ls \in Int, NEW ms \in Int, pt = Larger(0, qt - 1),
         \/ ds = cs /\ ps = Larger(0, qs - 1) /\ ms = ls
         \/ ds = cs + 1 /\ ps = Smaller(20, qs + 2) /\ lt < ms
  PROVE  Allowance(v, ct, ds, pt, ps, lt, ms) \in 0 .. Allowance(w, ct, cs, qt, qs, lt, ls)
  BY DEF Allowance, Larger, Smaller

\* It falls when s is updated, if there was any.
LEMMA AllowanceDrops ==
  ASSUME NEW w \in Int, NEW v \in Int, v = w - 1, NEW ct \in Nat, NEW cs \in Nat, NEW ds \in Nat,
         NEW qt \in 0 .. 20, NEW qs \in 0 .. 20, NEW pt \in 0 .. 20, NEW ps \in 0 .. 20,
         NEW lt \in Int, NEW ls \in Int, NEW ms \in Int, pt = Larger(0, qt - 1),
         ds = cs + 1, ps = Smaller(20, qs + 2), lt < ms,
         1 <= Allowance(w, ct, cs, qt, qs, lt, ls)
  PROVE  Allowance(v, ct, ds, pt, ps, lt, ms) \in 0 .. Allowance(w, ct, cs, qt, qs, lt, ls) - 1
  BY DEF Allowance, Larger, Smaller

Passes(t, s) ==
  Allowance(WarmupRounds - round, coverage[t], coverage[s], quality[t], quality[s],
            lastUpdated[t], lastUpdated[s])

\* The updates that may still come before one of t.
ToPass(t) == {x \in (Slice \ {t}) \X (1 .. Lead) : x[2] <= Passes(t, x[1])}

Bounded == \A t \in Slice : starved[t] + Cardinality(ToPass(t)) <= (Cardinality(Slice) - 1) * Lead

StarvationInv == BalanceInv /\ Bounded

\* There are at most so many pairs of another slice and a number up to m.
LEMMA PassesBound ==
  ASSUME NEW t \in Slice, NEW m \in Nat, 1 <= m,
         NEW X \in SUBSET ((Slice \ {t}) \X (1 .. m))
  PROVE  /\ IsFiniteSet(X) /\ Cardinality(X) \in Nat
         /\ Cardinality(X) <= (Cardinality(Slice) - 1) * m
         /\ (Cardinality(Slice) - 1) * m \in Nat
  <1> DEFINE P == (Slice \ {t}) \X (1 .. m)
  <1>1. IsFiniteSet(Slice \ {t}) /\ Cardinality(Slice \ {t}) = Cardinality(Slice) - 1
        BY QuotaAssumption, FS_RemoveElement
  <1>2. IsFiniteSet(1 .. m) /\ Cardinality(1 .. m) = m
        BY FS_Interval
  <1>3. IsFiniteSet(P) /\ Cardinality(P) = (Cardinality(Slice) - 1) * m
    <2>1. /\ IsFiniteSet(P)
          /\ Cardinality(P) = Cardinality(Slice \ {t}) * Cardinality(1 .. m)
          BY <1>1, <1>2, FS_Product
    <2> QED BY <1>1, <1>2, <2>1
  <1> HIDE DEF P
  <1>4. IsFiniteSet(X) /\ Cardinality(X) <= Cardinality(P)
    <2>1. X \in SUBSET P
          BY DEF P
    <2> QED BY <1>3, <2>1, FS_Subset
  <1> QED BY <1>3, <1>4, FS_CardinalityType

LEMMA LeadType ==
  ASSUME FeedbackInv
  PROVE  Lead \in Nat /\ 1 <= Lead /\ strayed \in Nat
  BY RoundsAssumption DEF FeedbackInv, TypeOK, Lead, Larger

LEMMA ToPassBound ==
  ASSUME FeedbackInv, NEW t \in Slice
  PROVE  /\ IsFiniteSet(ToPass(t)) /\ Cardinality(ToPass(t)) \in Nat
         /\ Cardinality(ToPass(t)) <= (Cardinality(Slice) - 1) * Lead
         /\ (Cardinality(Slice) - 1) * Lead \in Nat
  <1>1. ToPass(t) \subseteq (Slice \ {t}) \X (1 .. Lead)
        BY DEF ToPass
  <1> QED BY <1>1, LeadType, PassesBound

\* The allowance of a slice for another is within the lead, and is there for as
\* long as the other may be leased before it.
LEMMA PassesType ==
  ASSUME BalanceInv, NEW t \in Slice, NEW s \in Slice
  PROVE  /\ Passes(t, s) \in Nat /\ Passes(t, s) <= Lead /\ Lead \in Nat
         /\ ~Better(t, s) \/ round < WarmupRounds => 1 <= Passes(t, s)
  <1>1. round \in Nat /\ WarmupRounds \in Nat
        BY RoundsAssumption DEF BalanceInv, FeedbackInv, TypeOK
  <1>2. PICK ct \in Nat, cs \in Nat, qt \in 0 .. 20, qs \in 0 .. 20, lt \in Int, ls \in Int :
          /\ ct = coverage[t] /\ cs = coverage[s] /\ qt = quality[t] /\ qs = quality[s]
          /\ lt = lastUpdated[t] /\ ls = lastUpdated[s]
    <2>1. /\ coverage[t] \in Nat /\ coverage[s] \in Nat
          /\ quality[t] \in 0 .. 20 /\ quality[s] \in 0 .. 20
          /\ lastUpdated[t] \in Int /\ lastUpdated[s] \in Int
          BY <1>1 DEF BalanceInv, FeedbackInv, TypeOK
    <2> QED BY <2>1
  <1>3. PICK warm \in Int, g \in Nat, lead \in Nat :
          /\ warm = WarmupRounds - round /\ g = Gap /\ lead = Lead
          /\ 1 <= g /\ g <= lead /\ warm <= lead
    <2>1. strayed \in Nat
          BY LeadType DEF BalanceInv
    <2>2. WarmupRounds <= Lead
          BY <1>1, <2>1 DEF Lead, Larger
    <2>3. Gap \in Nat /\ Lead \in Nat /\ 1 <= Gap /\ Gap <= Lead
          BY <1>1, <2>1, GapType
    <2> QED BY <1>1, <2>2, <2>3
  <1>4. Within(g, ct, cs, qt, qs, lt, ls)
        BY <1>2, <1>3 DEF BalanceInv, AllEven, Even
  <1>5. Passes(t, s) = Allowance(warm, ct, cs, qt, qs, lt, ls)
        BY <1>2, <1>3 DEF Passes
  <1>6. Allowance(warm, ct, cs, qt, qs, lt, ls) \in 0 .. lead
    <2>1. 1 <= g /\ g <= lead /\ warm <= lead
          BY <1>3
    <2> QED BY <1>4, <2>1 DEF Allowance, Within, Larger
  <1>7. ASSUME ~Better(t, s) \/ round < WarmupRounds PROVE 1 <= Passes(t, s)
    <2>1. lt < ls /\ ct <= cs /\ qt <= qs => Better(t, s)
          BY <1>2, NeedierIsBetter DEF BalanceInv, FeedbackInv
    <2>2. ls <= lt \/ 1 <= warm \/ cs < ct \/ qs < qt
          BY <1>1, <1>3, <1>7, <2>1
    <2>3. 1 <= Allowance(warm, ct, cs, qt, qs, lt, ls)
          BY <2>2 DEF Allowance, Larger
    <2> QED BY <1>5, <2>3
  <1> QED BY <1>3, <1>5, <1>6, <1>7

\* A round that passes over a slice leaves it no more of them, and takes one off
\* the allowance of a slice that an update in time is of.
LEMMA PassesFall ==
  ASSUME BalanceInv, NEW done \in SUBSET Client, NEW late \in SUBSET Slow,
         UpdateAfterRound(done, late),
         NEW t \in Slice, t \notin Updated(done, late), NEW s \in Slice
  PROVE  /\ Passes(t, s)' \in 0 .. Passes(t, s)
         /\ s \in InTime(done) => 1 <= Passes(t, s) /\ Passes(t, s)' < Passes(t, s)
  <1>1. FeedbackInv /\ LeasesBest
        BY DEF BalanceInv
  <1>2. PICK now \in Nat, ct \in Nat, cs \in Nat, qt \in 0 .. 20, qs \in 0 .. 20,
             lt \in Int, ls \in Int :
          /\ now = round /\ ct = coverage[t] /\ cs = coverage[s]
          /\ qt = quality[t] /\ qs = quality[s]
          /\ lt = lastUpdated[t] /\ ls = lastUpdated[s] /\ lt < now /\ ls < now
        BY <1>1, CountersMove
  <1>3. PICK w \in Int, v \in Int, ds \in Nat, pt \in 0 .. 20, ps \in 0 .. 20, ms \in Int :
          /\ w = WarmupRounds - round /\ v = WarmupRounds - round' /\ v = w - 1
          /\ ds = coverage'[s] /\ pt = quality'[t] /\ ps = quality'[s] /\ ms = lastUpdated'[s]
    <2>1. /\ WarmupRounds - round \in Int /\ WarmupRounds - round' \in Int
          /\ WarmupRounds - round' = WarmupRounds - round - 1
          BY <1>2, RoundsAssumption DEF UpdateAfterRound
    <2>2. coverage'[s] \in Nat /\ lastUpdated'[s] \in Int
      <3>1. s \in Updated(done, late) => coverage'[s] = cs + 1 /\ lastUpdated'[s] = now
            BY <1>1, <1>2, CountersMove
      <3>2. s \notin Updated(done, late) => coverage'[s] = cs /\ lastUpdated'[s] = ls
            BY <1>1, <1>2, CountersMove
      <3> QED BY <3>1, <3>2
    <2>3. quality'[t] \in 0 .. 20 /\ quality'[s] \in 0 .. 20
          BY <1>1, QualityBounds DEF UpdateAfterRound, FeedbackInv, TypeOK
    <2> QED BY <2>1, <2>2, <2>3
  <1>4. coverage'[t] = ct /\ pt = Larger(0, qt - 1) /\ lastUpdated'[t] = lt
        BY <1>1, <1>2, <1>3, CountersMove
  <1>5. Passes(t, s) = Allowance(w, ct, cs, qt, qs, lt, ls)
        BY <1>2, <1>3 DEF Passes
  <1>6. Passes(t, s)' = Allowance(v, ct, ds, pt, ps, lt, ms)
        BY <1>3, <1>4 DEF Passes, Allowance, Larger
  <1>7. s \in Updated(done, late) => ds = cs + 1 /\ ps = Smaller(20, qs + 2) /\ lt < ms
        BY <1>1, <1>2, <1>3, CountersMove
  <1>8. s \notin Updated(done, late) => ds = cs /\ ps = Larger(0, qs - 1) /\ ms = ls
        BY <1>1, <1>2, <1>3, CountersMove
  <1>9. Passes(t, s)' \in 0 .. Passes(t, s)
    <2>1. /\ v = w - 1 /\ pt = Larger(0, qt - 1)
          /\ \/ ds = cs /\ ps = Larger(0, qs - 1) /\ ms = ls
             \/ ds = cs + 1 /\ ps = Smaller(20, qs + 2) /\ lt < ms
          BY <1>3, <1>4, <1>7, <1>8
    <2>2. Allowance(v, ct, ds, pt, ps, lt, ms) \in 0 .. Allowance(w, ct, cs, qt, qs, lt, ls)
          BY <2>1, AllowanceFalls
    <2> QED BY <1>5, <1>6, <2>2
  <1>10. ASSUME s \in InTime(done)
         PROVE  1 <= Passes(t, s) /\ Passes(t, s)' < Passes(t, s)
    <2>1. ~Better(t, s) \/ round < WarmupRounds
          BY <1>1, <1>2, <1>10, ChosenIsNeedier, RoundsAssumption
    <2>2. Passes(t, s) \in Nat /\ 1 <= Passes(t, s)
          BY <2>1, PassesType
    <2>3. s \in Updated(done, late)
          BY <1>10 DEF Updated
    <2>4. /\ v = w - 1 /\ pt = Larger(0, qt - 1) /\ 1 <= Allowance(w, ct, cs, qt, qs, lt, ls)
          /\ ds = cs + 1 /\ ps = Smaller(20, qs + 2) /\ lt < ms
          BY <1>3, <1>4, <1>5, <1>7, <2>2, <2>3
    <2>5. Allowance(v, ct, ds, pt, ps, lt, ms) \in 0 .. Allowance(w, ct, cs, qt, qs, lt, ls) - 1
          BY <2>4, AllowanceDrops
    <2>6. Passes(t, s)' \in 0 .. Passes(t, s) - 1
          BY <1>5, <1>6, <2>5
    <2> QED BY <2>2, <2>6
  <1> QED BY <1>9, <1>10

\* What is left to pass shrinks with a round that strays nowhere; one that does
\* leaves it no larger, although it allows for more.
LEMMA ToPassShrinks ==
  ASSUME BalanceInv, NEW done \in SUBSET Client, NEW late \in SUBSET Slow,
         UpdateAfterRound(done, late), NEW t \in Slice, t \notin Updated(done, late)
  PROVE  /\ Cardinality(ToPass(t)') \in Nat
         /\ Cardinality(ToPass(t)') <= Cardinality(ToPass(t))
         /\ Updated(done, late) # {} /\ strayed' = strayed =>
              Cardinality(ToPass(t)') < Cardinality(ToPass(t))
  <1>1. FeedbackInv /\ Lead \in Nat /\ Lead' \in Nat /\ Lead <= Lead'
    <2>1. strayed' \in {strayed, strayed + 1}
          BY StrayedMoves DEF BalanceInv
    <2>2. Lead' = Larger(1, WarmupRounds) + strayed'
          BY DEF Lead, Larger
    <2>3. Larger(1, WarmupRounds) \in Nat
          BY RoundsAssumption DEF Larger
    <2> QED BY <2>1, <2>2, <2>3, LeadType DEF BalanceInv, Lead
  <1>2. \A s \in Slice : /\ Passes(t, s) \in Nat /\ Passes(t, s)' \in Nat
                         /\ Passes(t, s) <= Lead /\ Passes(t, s)' <= Passes(t, s)
    <2> TAKE s \in Slice
    <2>1. Passes(t, s) \in Nat /\ Passes(t, s) <= Lead
          BY PassesType
    <2> QED BY <2>1, PassesFall
  <1>3. ToPass(t)' = {x \in (Slice \ {t}) \X (1 .. Lead') : x[2] <= Passes(t, x[1])'}
        BY DEF ToPass
  <1>4. ToPass(t)' \subseteq ToPass(t)
        BY <1>1, <1>2, <1>3 DEF ToPass
  <1>5. IsFiniteSet(ToPass(t)) /\ Cardinality(ToPass(t)) \in Nat
        BY <1>1, ToPassBound
  <1>6. Cardinality(ToPass(t)') \in Nat /\ Cardinality(ToPass(t)') <= Cardinality(ToPass(t))
        BY <1>4, <1>5, FS_Subset, FS_CardinalityType
  <1>7. ASSUME Updated(done, late) # {}, strayed' = strayed
        PROVE  Cardinality(ToPass(t)') < Cardinality(ToPass(t))
    <2>1. Updated(done, late) \subseteq Slice /\ Updated(done, late) = InTime(done)
          BY <1>1, <1>7, StrayedMoves
    <2>2. PICK s \in Slice : s \in InTime(done)
          BY <1>7, <2>1
    <2>3. s # t /\ 1 <= Passes(t, s) /\ Passes(t, s)' < Passes(t, s)
          BY <2>1, <2>2, PassesFall
    <2>4. <<s, Passes(t, s)>> \in ToPass(t)
          BY <1>1, <1>2, <2>3 DEF ToPass
    <2>5. <<s, Passes(t, s)>> \notin ToPass(t)'
          BY <1>2, <1>3, <2>3
    <2> QED BY <1>4, <1>5, <1>6, <2>4, <2>5, FS_Subset
  <1> QED BY <1>6, <1>7

\* A round that strays may pass over a slice once more than was left, but there
\* is another slice for which the bound has grown.
LEMMA BoundedUpdate ==
  ASSUME StarvationInv, NEW done \in SUBSET Client, NEW late \in SUBSET Slow,
         UpdateAfterRound(done, late)
  PROVE  Bounded'
  <1>1. FeedbackInv /\ FeedbackInv' /\ BalanceInv /\ BalanceInv'
    <2>1. [Next]_vars
          BY DEF Next
    <2> QED BY <2>1, BalanceInductive DEF StarvationInv, BalanceInv
  <1>2. PICK n \in Int, m \in Nat, k \in Nat :
          /\ n = Cardinality(Slice) - 1 /\ m = Lead /\ k = Lead' /\ 1 <= m
          /\ k \in {m, m + 1} /\ (strayed' # strayed => k = m + 1)
    <2>1. strayed \in Nat /\ strayed' \in {strayed, strayed + 1} /\ Lead \in Nat /\ 1 <= Lead
          BY <1>1, StrayedMoves, LeadType
    <2>2. Lead' = Larger(1, WarmupRounds) + strayed' /\ Larger(1, WarmupRounds) \in Nat
          BY RoundsAssumption DEF Lead, Larger
    <2>3. Cardinality(Slice) \in Nat
          BY QuotaAssumption, FS_CardinalityType
    <2> QED BY <2>1, <2>2, <2>3 DEF Lead
  <1> SUFFICES ASSUME NEW t \in Slice
               PROVE  starved'[t] + Cardinality(ToPass(t)') <= n * k
      BY <1>2 DEF Bounded
  <1>3. /\ Cardinality(ToPass(t)) \in Nat /\ n * m \in Nat
        /\ starved[t] + Cardinality(ToPass(t)) <= n * m
        BY <1>1, <1>2, ToPassBound DEF StarvationInv, Bounded
  <1>4. starved[t] \in Nat
        BY <1>1, RoundsAssumption DEF FeedbackInv, TypeOK
  <1>5. CASE t \in Updated(done, late)
    <2>1. starved'[t] = 0
          BY <1>5 DEF UpdateAfterRound
    <2>2. ToPass(t)' \subseteq (Slice \ {t}) \X (1 .. k)
          BY <1>2 DEF ToPass
    <2>3. Cardinality(ToPass(t)') \in Nat /\ Cardinality(ToPass(t)') <= n * k
      <3>1. k \in Nat /\ 1 <= k
            BY <1>2
      <3> QED BY <1>2, <2>2, <3>1, PassesBound
    <2> QED BY <2>1, <2>3
  <1>6. 0 <= n /\ (k = m + 1 => n * k = n * m + n) /\ (k = m => n * k = n * m)
    <2>1. IsFiniteSet(Slice \ {t}) /\ Cardinality(Slice \ {t}) = n
          BY <1>2, QuotaAssumption, FS_RemoveElement
    <2>2. n \in Nat
          BY <2>1, FS_CardinalityType
    <2> QED BY <1>2, <2>2
  <1>7. CASE t \notin Updated(done, late)
    <2>1. Cardinality(ToPass(t)') \in Nat /\ Cardinality(ToPass(t)') <= Cardinality(ToPass(t))
          BY <1>1, <1>7, ToPassShrinks
    <2>2. CASE Updated(done, late) = {}
      <3>1. starved'[t] = starved[t]
            BY <1>7, <2>2 DEF UpdateAfterRound
      <3> QED BY <1>2, <1>3, <1>4, <1>6, <2>1, <3>1
    <2>3. CASE Updated(done, late) # {}
      <3>1. starved'[t] = starved[t] + 1
            BY <1>7, <2>3 DEF UpdateAfterRound
      <3>2. CASE strayed' = strayed
        <4>1. Cardinality(ToPass(t)') < Cardinality(ToPass(t))
              BY <1>1, <1>7, <2>3, <3>2, ToPassShrinks
        <4> QED BY <1>2, <1>3, <1>4, <1>6, <2>1, <3>1, <4>1
      <3>3. CASE strayed' # strayed
        <4>1. PICK s \in Slice : s # t
              BY <1>1, <1>7, <2>3, StrayedMoves
        <4>2. 1 <= n
          <5>1. IsFiniteSet(Slice \ {t}) /\ Cardinality(Slice \ {t}) = n /\ s \in Slice \ {t}
                BY <1>2, <4>1, QuotaAssumption, FS_RemoveElement
          <5> QED BY <1>2, <1>6, <5>1, FS_EmptySet
        <4> QED BY <1>2, <1>3, <1>4, <1>6, <2>1, <3>1, <3>3, <4>2
      <3> QED BY <3>2, <3>3
    <2> QED BY <2>2, <2>3
  <1> QED BY <1>5, <1>7

LEMMA StarvationInit == Init => StarvationInv
  <1> SUFFICES ASSUME Init PROVE StarvationInv
      OBVIOUS
  <1>1. ASSUME NEW t \in Slice
        PROVE  starved[t] + Cardinality(ToPass(t)) <= (Cardinality(Slice) - 1) * Lead
    <2>1. starved[t] = 0 /\ FeedbackInv
          BY FeedbackInit DEF Init
    <2> QED BY <2>1, ToPassBound
  <1> QED BY <1>1, BalanceInit DEF StarvationInv, Bounded

LEMMA StarvationInductive == StarvationInv /\ [Next]_vars => StarvationInv'
  <1> SUFFICES ASSUME StarvationInv, [Next]_vars PROVE StarvationInv'
      OBVIOUS
  <1>1. BalanceInv'
        BY BalanceInductive DEF StarvationInv
  <1>2. ASSUME UNCHANGED <<round, coverage, quality, lastUpdated, history>> PROVE Bounded'
        BY <1>2 DEF history, StarvationInv, Bounded, ToPass, Passes, Allowance, Lead, Larger
  <1>3. CASE Plan
        BY <1>1, <1>2, <1>3 DEF Plan, feedback, StarvationInv
  <1>4. CASE SkipRound
    <2>1. round' = round + 1 /\ UNCHANGED <<coverage, quality, lastUpdated, starved, strayed>>
          BY <1>4 DEF SkipRound, feedback, history
    <2>2. FeedbackInv /\ Lead' = Lead
          BY <2>1 DEF StarvationInv, BalanceInv, Lead, Larger
    <2> SUFFICES ASSUME NEW t \in Slice
                 PROVE  starved'[t] + Cardinality(ToPass(t)') <= (Cardinality(Slice) - 1) * Lead
        BY <1>1, <2>2 DEF StarvationInv, Bounded
    <2>3. ToPass(t)' \subseteq ToPass(t)
      <3>1. ASSUME NEW s \in Slice, NEW j \in Nat, j <= Passes(t, s)' PROVE j <= Passes(t, s)
        <4>1. round \in Nat /\ WarmupRounds \in Nat
              BY RoundsAssumption DEF StarvationInv, BalanceInv, FeedbackInv, TypeOK
        <4>2. /\ coverage[t] \in Nat /\ coverage[s] \in Nat
              /\ quality[t] \in 0 .. 20 /\ quality[s] \in 0 .. 20
              BY <4>1 DEF StarvationInv, BalanceInv, FeedbackInv, TypeOK
        <4> QED BY <2>1, <3>1, <4>1, <4>2 DEF Passes, Allowance, Larger
      <3>2. ToPass(t)' = {x \in (Slice \ {t}) \X (1 .. Lead) : x[2] <= Passes(t, x[1])'}
            BY <2>2 DEF ToPass
      <3> QED BY <2>2, <3>1, <3>2, LeadType DEF ToPass
    <2>4. IsFiniteSet(ToPass(t)) /\ Cardinality(ToPass(t)) \in Nat
          BY <2>2, ToPassBound
    <2>5. Cardinality(ToPass(t)') \in Nat /\ Cardinality(ToPass(t)') <= Cardinality(ToPass(t))
          BY <2>3, <2>4, FS_Subset, FS_CardinalityType
    <2>6. starved[t] \in Nat /\ starved'[t] = starved[t]
          BY <2>1, RoundsAssumption DEF StarvationInv, BalanceInv, FeedbackInv, TypeOK
    <2>7. /\ starved[t] + Cardinality(ToPass(t)) <= (Cardinality(Slice) - 1) * Lead
          /\ (Cardinality(Slice) - 1) * Lead \in Nat
          BY <2>2, ToPassBound DEF StarvationInv, Bounded
    <2> QED BY <2>4, <2>5, <2>6, <2>7
  <1>5. ASSUME NEW done \in SUBSET Client, NEW late \in SUBSET Slow,
               UpdateAfterRound(done, late)
        PROVE  StarvationInv'
        BY <1>1, <1>5, BoundedUpdate DEF StarvationInv
  <1>6. CASE UNCHANGED vars
        BY <1>1, <1>2, <1>6 DEF vars, feedback, StarvationInv
  <1> QED BY <1>3, <1>4, <1>5, <1>6 DEF Next

\* No slice starves: in rounds that count, it is passed over at most Lead times for
\* each of the other slices, for any number of them and of rounds, whichever
\* clients finish or are late, whatever the guard cuts and however ties are broken
\* (feedback_state.py:73-89, lease_planner.py:138-139, coordinator.py:416-425).
THEOREM FeedbackStarvationBounded == Spec => []StarvationBounded
  <1>1. StarvationInv => StarvationBounded
    <2> SUFFICES ASSUME StarvationInv, NEW t \in Slice
                 PROVE  starved[t] <= (Cardinality(Slice) - 1) * Lead
        BY DEF StarvationBounded
    <2>1. starved[t] \in Nat
          BY RoundsAssumption DEF StarvationInv, BalanceInv, FeedbackInv, TypeOK
    <2>2. Cardinality(ToPass(t)) \in Nat /\ (Cardinality(Slice) - 1) * Lead \in Nat
          BY ToPassBound DEF StarvationInv, BalanceInv
    <2>3. starved[t] + Cardinality(ToPass(t)) <= (Cardinality(Slice) - 1) * Lead
          BY DEF StarvationInv, Bounded
    <2> QED BY <2>1, <2>2, <2>3
  <1> QED BY <1>1, StarvationInit, StarvationInductive, PTL DEF Spec
=============================================================================
