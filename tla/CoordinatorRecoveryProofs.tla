--------------------- MODULE CoordinatorRecoveryProofs ---------------------
(***************************************************************************)
(* Proofs about checkpoint and resume, for every number of rounds,         *)
(* checkpoint interval, number of restarts and set of workers.             *)
(***************************************************************************)
EXTENDS CoordinatorRestart, TLAPS

\* The rounds an adapter contains, all of them up to r and in the feedback f.
Within(a, r, f) == \A i \in DOMAIN a : a[i] <= r /\ a[i] \in f

Sound(ckpt) ==
  Increasing(ckpt.adapter) /\ Within(ckpt.adapter, ckpt.round, ckpt.feedback)

\* The body of an iteration is entered for the rounds of the training only.
BodyInRound ==
  step \in {"feedback", "save", "writeRound", "openLatest", "writeLatest"} => round \in Round

\* Outside an iteration the adapter is of earlier rounds, all of them fed back;
\* inside, the round at hand is added to the adapter first.
MemoryInOrder ==
  /\ Increasing(adapter)
  /\ step \in {"down", "load", "failed"} => adapter = <<>>
  /\ step \in {"begin", "done"} =>
       \A i \in DOMAIN adapter : adapter[i] < round /\ adapter[i] \in feedback
  /\ step = "feedback" => Within(adapter, round, feedback \cup {round})
  /\ step \in {"save", "writeRound", "openLatest", "writeLatest"} =>
       Within(adapter, round, feedback)

LatestSound == latest \notin {None, Torn} => Sound(latest)

RecoveryInv == TypeOK /\ BodyInRound /\ MemoryInOrder /\ LatestSound

\* What can be loaded is a checkpoint's content.
LEMMA LatestTyped ==
  ASSUME TypeOK, latest \notin {None, Torn}
  PROVE  /\ latest.round \in Round
         /\ latest.adapter \in Seq(Round)
         /\ latest.feedback \subseteq Round
  BY DEF TypeOK, Content

\* The checkpoint of the round at hand is of that type.
LEMMA CheckpointTyped ==
  ASSUME TypeOK, round \in Round
  PROVE  Checkpoint \in Content
  BY DEF TypeOK, Content, Checkpoint

\* An adapter is a sequence of natural numbers.
LEMMA SequenceOfNaturals ==
  ASSUME NEW s \in Seq(Round)
  PROVE  s \in Seq(Nat)
  <1>1. Len(s) \in Nat /\ DOMAIN s = 1 .. Len(s)
        OBVIOUS
  <1>2. \A i \in 1 .. Len(s) : s[i] \in Nat
    <2>1. \A i \in 1 .. Len(s) : s[i] \in Round
          OBVIOUS
    <2>2. \A q \in Round : q \in Nat
          BY RoundsAssumption DEF Round
    <2> QED BY <2>1, <2>2
  <1>3. s = [i \in 1 .. Len(s) |-> s[i]]
        OBVIOUS
  <1> QED BY <1>1, <1>2, <1>3

\* A round at the end keeps the type of an adapter.
LEMMA AppendTyped ==
  ASSUME NEW s \in Seq(Round), NEW r \in Round
  PROVE  Append(s, r) \in Seq(Round)
  OBVIOUS

\* A later round at the end keeps the order.
LEMMA IncreasingAppend ==
  ASSUME NEW s \in Seq(Nat), NEW r \in Nat, Increasing(s),
         \A i \in DOMAIN s : s[i] < r
  PROVE  Increasing(Append(s, r))
  <1>1. SUFFICES ASSUME NEW i \in DOMAIN Append(s, r), NEW j \in DOMAIN Append(s, r), i < j
                 PROVE  Append(s, r)[i] < Append(s, r)[j]
        BY DEF Increasing
  <1>2. i \in 1 .. Len(s) + 1 /\ j \in 1 .. Len(s) + 1
        OBVIOUS
  <1>3. CASE j = Len(s) + 1
        BY <1>1, <1>2, <1>3
  <1>4. CASE j \in 1 .. Len(s)
        BY <1>1, <1>2, <1>4 DEF Increasing
  <1> QED BY <1>2, <1>3, <1>4

\* The first state satisfies the inductive invariant.
LEMMA RecoveryInit == Init => RecoveryInv
  <1> SUFFICES ASSUME Init PROVE RecoveryInv
      OBVIOUS
  <1> USE DEF Init
  <1>1. TypeOK
      BY RoundsAssumption, StartsAssumption DEF TypeOK, Step
  <1>2. BodyInRound /\ LatestSound
      BY DEF BodyInRound, LatestSound
  <1>3. MemoryInOrder
      BY DEF MemoryInOrder, Increasing
  <1> QED BY <1>1, <1>2, <1>3 DEF RecoveryInv

\* Every step keeps the types: a torn file is no content, and a checkpoint is
\* written for a round of the training.
LEMMA RecoveryTypes ==
  ASSUME RecoveryInv, [Next]_vars
  PROVE  TypeOK' /\ BodyInRound'
  <1> USE RoundsAssumption, StartsAssumption
      DEF RecoveryInv, TypeOK, BodyInRound, Step, Round, memory, disk
  <1>1. CASE StartCoordinator
        BY <1>1 DEF StartCoordinator
  <1>2. CASE Fresh
        BY <1>2 DEF Fresh
  <1>3. CASE Resume
        BY <1>3, LatestTyped DEF Resume, ResumeRound
  <1>4. CASE ResumeFails
        BY <1>4 DEF ResumeFails
  <1>5. CASE SkipRound
        BY <1>5 DEF SkipRound, InLoop, NextRound
  <1>6. CASE Aggregate
        <2>1. round \in Round
              BY <1>6 DEF Aggregate, InLoop
        <2>2. adapter' \in Seq(Round)
              BY <1>6, <2>1, AppendTyped DEF Aggregate
        <2> QED BY <1>6, <2>1, <2>2 DEF Aggregate
  <1>7. CASE UpdateFeedback
        BY <1>7 DEF UpdateFeedback
  <1>8. CASE NoSave
        BY <1>8 DEF NoSave, NextRound
  <1>9. CASE OpenRoundFile
        BY <1>9 DEF OpenRoundFile
  <1>10. CASE CloseRoundFile
        BY <1>10, CheckpointTyped DEF CloseRoundFile
  <1>11. CASE OpenLatest
        BY <1>11 DEF OpenLatest
  <1>12. CASE CloseLatest
        BY <1>12, CheckpointTyped DEF CloseLatest, NextRound
  <1>13. CASE EndTraining
        BY <1>13 DEF EndTraining
  <1>14. CASE Crash
        BY <1>14 DEF Crash
  <1>15. CASE UNCHANGED vars
        BY <1>15 DEF vars
  <1> QED
      BY <1>1, <1>2, <1>3, <1>4, <1>5, <1>6, <1>7, <1>8, <1>9, <1>10, <1>11,
         <1>12, <1>13, <1>14, <1>15
      DEF Next, RoundStep

\* Every step keeps the order of the rounds in memory: a resumed coordinator
\* goes on after the round it loads.
LEMMA RecoveryOrder ==
  ASSUME RecoveryInv, [Next]_vars
  PROVE  MemoryInOrder'
  <1> USE DEF RecoveryInv, BodyInRound, MemoryInOrder, memory, disk
  <1>1. CASE StartCoordinator \/ Crash
        BY <1>1 DEF StartCoordinator, Crash, Increasing
  <1>2. CASE Fresh
        BY <1>2 DEF Fresh
  <1>3. CASE Resume
        <2>1. Sound(latest) /\ round' = latest.round + 1
              BY <1>3 DEF Resume, ResumeRound, LatestSound
        <2>2. /\ latest.round \in Nat
              /\ latest.adapter \in Seq(Nat)
          <3>1. latest.round \in Round /\ latest.adapter \in Seq(Round)
                BY <1>3, LatestTyped DEF Resume
          <3>2. \A q : q \in Round => q \in Nat
                BY DEF Round
          <3> QED BY <3>1, <3>2, SequenceOfNaturals
        <2>3. \A i \in DOMAIN latest.adapter :
                latest.adapter[i] < round' /\ latest.adapter[i] \in latest.feedback
              BY <2>1, <2>2 DEF Sound, Within
        <2> QED BY <1>3, <2>1, <2>3 DEF Resume, Sound
  <1>4. CASE ResumeFails \/ EndTraining
        BY <1>4 DEF ResumeFails, EndTraining
  <1>5. CASE SkipRound
        <2>1. round \in Nat /\ adapter \in Seq(Nat)
              BY DEF TypeOK, Round
        <2> QED BY <1>5, <2>1 DEF SkipRound, NextRound
  <1>6. CASE Aggregate
        <2>1. round \in Nat /\ adapter \in Seq(Nat)
              BY DEF TypeOK, Round
        <2>2. \A i \in DOMAIN adapter : adapter[i] < round /\ adapter[i] \in feedback
              BY <1>6 DEF Aggregate
        <2>3. CASE adapter' = adapter
              BY <1>6, <2>1, <2>2, <2>3 DEF Aggregate, Within
        <2>4. CASE adapter' = Append(adapter, round)
          <3>1. Increasing(adapter')
                BY <2>1, <2>2, <2>4, IncreasingAppend
          <3>2. Within(adapter', round, feedback \cup {round})
                BY <2>1, <2>2, <2>4 DEF Within
          <3> QED BY <1>6, <3>1, <3>2 DEF Aggregate, Within
        <2> QED BY <1>6, <2>3, <2>4 DEF Aggregate
  <1>7. CASE UpdateFeedback
        BY <1>7 DEF UpdateFeedback, Within
  <1>8. CASE OpenRoundFile \/ CloseRoundFile \/ OpenLatest
        BY <1>8 DEF OpenRoundFile, CloseRoundFile, OpenLatest, Within
  <1>9. CASE NoSave \/ CloseLatest
        <2>1. round \in Nat /\ adapter \in Seq(Nat)
              BY DEF TypeOK, Round
        <2>2. Within(adapter, round, feedback)
              BY <1>9 DEF NoSave, CloseLatest
        <2> QED BY <1>9, <2>1, <2>2 DEF NoSave, CloseLatest, NextRound, Within
  <1>10. CASE UNCHANGED vars
        BY <1>10 DEF vars, Within
  <1> QED
      BY <1>1, <1>2, <1>3, <1>4, <1>5, <1>6, <1>7, <1>8, <1>9, <1>10 DEF Next, RoundStep

\* Only CloseLatest makes latest.pt loadable, with what is in memory.
LEMMA RecoveryLatest ==
  ASSUME RecoveryInv, [Next]_vars
  PROVE  LatestSound'
  <1> USE DEF RecoveryInv, LatestSound
  <1>1. CASE OpenLatest
        BY <1>1 DEF OpenLatest
  <1>2. CASE CloseLatest
        BY <1>2 DEF CloseLatest, MemoryInOrder, Checkpoint, Sound
  <1>3. CASE UNCHANGED latest
        BY <1>3
  <1>4. ~OpenLatest /\ ~CloseLatest => UNCHANGED latest
        BY DEF Next, RoundStep, vars, disk, memory, StartCoordinator, Fresh, Resume,
               ResumeFails, SkipRound, Aggregate, UpdateFeedback, NoSave, OpenRoundFile,
               CloseRoundFile, EndTraining, Crash
  <1> QED BY <1>1, <1>2, <1>3, <1>4

LEMMA RecoveryInductive == RecoveryInv /\ [Next]_vars => RecoveryInv'
  BY RecoveryTypes, RecoveryOrder, RecoveryLatest DEF RecoveryInv

\* Every variable keeps its type; the round loop runs the rounds of the training
\* only, wherever it was resumed (coordinator.py:185-201).
THEOREM RecoveryTypeOK == Spec => []TypeOK
  <1>1. RecoveryInv => TypeOK
      BY DEF RecoveryInv
  <1> QED BY RecoveryInit, RecoveryInductive, <1>1, PTL DEF Spec

\* However often the coordinator crashes and resumes, no round's updates are in
\* the adapter twice or out of order (coordinator.py:201).
THEOREM RecoveryRoundsCountOnce == Spec => []RoundsCountOnce
  <1>1. RecoveryInv => RoundsCountOnce
      BY DEF RecoveryInv, MemoryInOrder, RoundsCountOnce
  <1> QED BY RecoveryInit, RecoveryInductive, <1>1, PTL DEF Spec

\* The feedback state never lags behind the adapter when a round begins, nor in
\* a checkpoint that can be loaded (coordinator.py:425, 498, 206).
THEOREM RecoveryFeedbackCovers == Spec => []FeedbackCovers
  <1>1. RecoveryInv => FeedbackCovers
      BY DEF RecoveryInv, MemoryInOrder, LatestSound, Sound, Within, FeedbackCovers
  <1> QED BY RecoveryInit, RecoveryInductive, <1>1, PTL DEF Spec

\* What CheckpointKept rests on: a training that runs goes on from what was saved
\* last; latest.pt is that, but for the time it is torn; and it is torn only when
\* the round file is complete, after which nobody opens another before latest.pt is
\* whole again or the training is given up.
KeptInv ==
  /\ step = "openLatest" => roundFile[round] = Checkpoint
  /\ saved # None =>
       /\ step \notin {"down", "load", "failed"} => Continues(Checkpoint, saved)
       /\ \/ latest = saved
          \/ /\ step \in {"writeLatest", "down", "load", "failed"}
             /\ latest = Torn
             /\ \E r \in Round :
                  roundFile[r] \notin {None, Torn} /\ Continues(roundFile[r], saved)

\* Another round, its updates or its feedback take nothing back.
LEMMA ContinuesOn ==
  ASSUME RecoveryInv, NEW d, d \in Content, Continues(Checkpoint, d),
         round' \in {round, round + 1},
         adapter' = adapter \/ (round \in Round /\ adapter' = Append(adapter, round)),
         feedback \subseteq feedback'
  PROVE  Continues(Checkpoint', d)
  <1>1. /\ round \in Nat /\ d.round \in Nat /\ adapter \in Seq(Round)
        /\ round >= d.round /\ d.feedback \subseteq feedback
        /\ \A i \in DOMAIN d.adapter : i \in DOMAIN adapter /\ adapter[i] = d.adapter[i]
        BY RoundsAssumption DEF RecoveryInv, TypeOK, Content, Continues, Checkpoint, Round
  <1>2. \A i \in DOMAIN adapter : i \in DOMAIN adapter' /\ adapter'[i] = adapter[i]
    <2>1. ASSUME NEW r \in Round, NEW i \in DOMAIN adapter
          PROVE  i \in DOMAIN Append(adapter, r) /\ Append(adapter, r)[i] = adapter[i]
          BY <1>1
    <2> QED BY <2>1
  <1>3. round' >= d.round
        BY <1>1
  <1>4. /\ Checkpoint'.round = round' /\ Checkpoint'.adapter = adapter'
        /\ Checkpoint'.feedback = feedback'
        BY DEF Checkpoint
  <1> QED BY <1>1, <1>2, <1>3, <1>4 DEF Continues

\* Every step keeps that order of the two files.
LEMMA KeptInductive ==
  ASSUME RecoveryInv, KeptInv, [Next]_vars
  PROVE  KeptInv'
  <1>1. CASE StartCoordinator \/ ResumeFails \/ Crash
        BY <1>1 DEF StartCoordinator, ResumeFails, Crash, KeptInv, memory, disk
  <1>2. CASE Fresh
        BY <1>2 DEF Fresh, KeptInv
  <1>3. CASE Resume
    <2>1. step = "load" /\ step' = "begin" /\ saved' = saved /\ latest' = latest
          BY <1>3 DEF Resume, disk
    <2>2. ASSUME saved # None PROVE latest = saved /\ Continues(Checkpoint', saved)
      <3>1. latest = saved
            BY <1>3, <2>2 DEF Resume, KeptInv
      <3>2. latest.round \in Nat /\ round' = latest.round + 1
            BY <1>3, LatestTyped, RoundsAssumption DEF Resume, ResumeRound, RecoveryInv, Round
      <3>3. adapter' = latest.adapter /\ feedback' = latest.feedback
            BY <1>3 DEF Resume
      <3> QED BY <3>1, <3>2, <3>3 DEF Continues, Checkpoint
    <2> QED BY <2>1, <2>2 DEF KeptInv
  <1>4. CASE SkipRound \/ Aggregate \/ UpdateFeedback \/ NoSave \/ EndTraining
    <2>1. /\ step \notin {"openLatest", "writeLatest", "down", "load", "failed"}
          /\ step' # "openLatest" /\ UNCHANGED <<roundFile, latest, saved>>
          BY <1>4 DEF SkipRound, Aggregate, UpdateFeedback, NoSave, EndTraining, NextRound, disk
    <2>2. /\ round' \in {round, round + 1} /\ feedback \subseteq feedback'
          /\ adapter' = adapter \/ (round \in Round /\ adapter' = Append(adapter, round))
          BY <1>4, RoundsAssumption
          DEF SkipRound, Aggregate, UpdateFeedback, NoSave, EndTraining, NextRound, memory,
              InLoop, RecoveryInv, TypeOK, Round
    <2>3. ASSUME saved # None PROVE Continues(Checkpoint', saved)
      <3>1. saved \in Content /\ Continues(Checkpoint, saved)
            BY <2>1, <2>3 DEF KeptInv, RecoveryInv, TypeOK
      <3> QED BY <2>2, <3>1, ContinuesOn
    <2> QED BY <2>1, <2>3 DEF KeptInv
  <1>5. CASE OpenRoundFile
        BY <1>5 DEF OpenRoundFile, KeptInv, Checkpoint, memory
  <1>6. CASE CloseRoundFile
    <2>1. round \in Round /\ DOMAIN roundFile = Round
          BY <1>6 DEF CloseRoundFile, RecoveryInv, BodyInRound, TypeOK
    <2>2. roundFile'[round] = Checkpoint
          BY <1>6, <2>1 DEF CloseRoundFile
    <2> QED BY <1>6, <2>2 DEF CloseRoundFile, KeptInv, Checkpoint, memory
  <1>7. CASE OpenLatest
    <2>1. round \in Round /\ roundFile[round] = Checkpoint
          BY <1>7 DEF OpenLatest, RecoveryInv, BodyInRound, KeptInv
    <2>2. roundFile[round] \notin {None, Torn}
          BY <2>1, CheckpointTyped, ContentAssumption DEF RecoveryInv
    <2> QED BY <1>7, <2>1, <2>2 DEF OpenLatest, KeptInv, Checkpoint, memory
  <1>8. CASE CloseLatest
    <2>1. saved' = Checkpoint /\ latest' = Checkpoint /\ step' = "begin"
          BY <1>8 DEF CloseLatest, NextRound
    <2>2. round \in Nat /\ round' = round + 1 /\ UNCHANGED <<adapter, feedback>>
          BY <1>8, RoundsAssumption DEF CloseLatest, NextRound, RecoveryInv, BodyInRound, Round
    <2>3. Continues(Checkpoint', saved')
          BY <2>1, <2>2 DEF Continues, Checkpoint
    <2> QED BY <2>1, <2>3 DEF KeptInv
  <1>9. CASE UNCHANGED vars
        BY <1>9 DEF vars, KeptInv, Checkpoint, memory, disk
  <1> QED
      BY <1>1, <1>2, <1>3, <1>4, <1>5, <1>6, <1>7, <1>8, <1>9 DEF Next, RoundStep

\* Crashes at any point, resumes and rounds that run again never lose what save has
\* returned from: some file on disk holds it or goes on from it
\* (checkpoint_manager.py:33-45, coordinator.py:198-207).
THEOREM RecoveryCheckpointKept == Spec => []CheckpointKept
  <1>1. Init => KeptInv
      BY DEF Init, KeptInv
  <1>2. RecoveryInv /\ KeptInv /\ [Next]_vars => KeptInv'
      BY KeptInductive
  <1>3. KeptInv => CheckpointKept
      BY DEF KeptInv, CheckpointKept
  <1> QED
      BY RecoveryInit, RecoveryInductive, <1>1, <1>2, <1>3, PTL DEF Spec

\* What latest.pt has to hold for the rounds fed back before round b.
Saved(b) ==
  \A r \in feedback : r < b /\ IsDue(r) => latest \notin {None, Torn} /\ latest.round >= r

\* What CheckpointKeepsUp rests on: no round is fed back ahead of its time, and
\* within an iteration only the round at hand may lack its checkpoint.
KeepsInv ==
  /\ step \in {"begin", "done", "feedback"} => \A r \in feedback : r < round
  /\ step \in {"save", "writeRound", "openLatest", "writeLatest"} =>
       \A r \in feedback : r <= round
  /\ step \in {"load", "failed"} => feedback = {}
  /\ step \in {"begin", "done", "feedback", "save", "writeRound", "openLatest"} => Saved(round)
  /\ step \in {"begin", "done"} /\ NumRounds - 1 \in feedback => latest.adapter = adapter
  /\ latest \notin {None, Torn} => \A r \in latest.feedback : r <= latest.round

\* Every step keeps it: a round that is due is not passed over, a round that is
\* skipped is not fed back.
LEMMA KeepsInductive ==
  ASSUME RecoveryInv, KeepsInv, [Next]_vars
  PROVE  KeepsInv'
  <1> USE RoundsAssumption, StartsAssumption DEF KeepsInv, Saved, IsDue, memory, disk
  <1>0. /\ round \in Nat /\ round <= NumRounds /\ feedback \subseteq Nat
        /\ \A r \in feedback : r < NumRounds
        /\ NumRounds \in Nat
        BY DEF RecoveryInv, TypeOK, Round
  <1>1. CASE StartCoordinator
        BY <1>1 DEF StartCoordinator
  <1>2. CASE Fresh \/ ResumeFails
        BY <1>0, <1>2 DEF Fresh, ResumeFails
  <1>3. CASE Resume
    <2>1. latest.round \in Nat /\ latest.feedback \subseteq Nat
          BY <1>3, LatestTyped DEF Resume, RecoveryInv, Round
    <2>2. \A r \in latest.feedback : r <= latest.round /\ r < latest.round + 1
          BY <1>3, <2>1 DEF Resume
    <2> QED BY <1>3, <2>1, <2>2 DEF Resume, ResumeRound
  <1>4. CASE SkipRound
    <2>1. \A r \in feedback : r < round /\ r < round + 1
          BY <1>0, <1>4 DEF SkipRound
    <2>2. NumRounds - 1 \notin feedback
          BY <1>0, <1>4, <2>1 DEF SkipRound, InLoop
    <2> QED BY <1>4, <2>1, <2>2 DEF SkipRound, NextRound
  <1>5. CASE Aggregate
        BY <1>5 DEF Aggregate
  <1>6. CASE UpdateFeedback
        BY <1>0, <1>6 DEF UpdateFeedback
  <1>7. CASE NoSave
    <2>1. \A r \in feedback : r < round + 1 /\ (IsDue(r) => r < round)
          BY <1>0, <1>7 DEF NoSave, IsSaved
    <2>2. NumRounds - 1 \notin feedback
          BY <1>0, <1>7, <2>1 DEF NoSave, RecoveryInv, BodyInRound, Round
    <2> QED BY <1>7, <2>1, <2>2 DEF NoSave, NextRound
  <1>8. CASE OpenRoundFile
        BY <1>8 DEF OpenRoundFile
  <1>9. CASE CloseRoundFile \/ OpenLatest
        BY <1>9 DEF CloseRoundFile, OpenLatest
  <1>10. CASE CloseLatest
    <2>1. round \in Round
          BY <1>10 DEF CloseLatest, RecoveryInv, BodyInRound
    <2>2. Checkpoint \notin {None, Torn}
          BY <2>1, CheckpointTyped, ContentAssumption DEF RecoveryInv
    <2>3. \A r \in feedback : r <= round /\ r < round + 1 /\ round >= r
          BY <1>0, <1>10 DEF CloseLatest
    <2> QED BY <1>10, <2>2, <2>3 DEF CloseLatest, NextRound, Checkpoint
  <1>11. CASE EndTraining
        BY <1>11 DEF EndTraining
  <1>12. CASE Crash
        BY <1>12 DEF Crash
  <1>13. CASE UNCHANGED vars
        BY <1>13 DEF vars
  <1> QED
      BY <1>1, <1>2, <1>3, <1>4, <1>5, <1>6, <1>7, <1>8, <1>9, <1>10, <1>11, <1>12, <1>13
      DEF Next, RoundStep

\* Whatever was skipped or resumed, the latest checkpoint is no older than the
\* last round of this run that had to be saved, and in the end it is the result
\* (coordinator.py:247, 497).
THEOREM RecoveryCheckpointKeepsUp == Spec => []CheckpointKeepsUp
  <1>1. Init => KeepsInv
      BY DEF Init, KeepsInv, Saved
  <1>2. RecoveryInv /\ KeepsInv /\ [Next]_vars => KeepsInv'
      BY KeepsInductive
  <1>3. RecoveryInv /\ KeepsInv => CheckpointKeepsUp
      BY DEF KeepsInv, Saved, CheckpointKeepsUp
  <1> QED BY RecoveryInit, RecoveryInductive, <1>1, <1>2, <1>3, PTL DEF Spec
-----------------------------------------------------------------------------
(* The coordinator with its server and its workers. *)

\* What the workers and the server do is no step of the recovery.
LEMMA RestartSteps ==
  ASSUME [RestartNext]_<<vars, net>>
  PROVE  [Next]_vars
  <1>1. CASE Start \/ Load \/ StartFresh \/ Stop
        BY <1>1 DEF Start, Load, StartFresh, Stop, Next
  <1>2. CASE Clear \/ Publish
        BY <1>2 DEF Clear, Publish
  <1>3. CASE Skip \/ Reject \/ Combine \/ Conclude
        BY <1>3 DEF Skip, Reject, Combine, Conclude, Next, RoundStep
  <1>4. CASE \E w \in Worker : WorkerStep(w)
        BY <1>4 DEF WorkerStep, Register, FetchAdapter, GiveUp, GetTask, Upload
  <1>5. CASE UNCHANGED <<vars, net>>
        BY <1>5
  <1> QED BY <1>1, <1>2, <1>3, <1>4, <1>5 DEF RestartNext

\* The coordinator among its workers implements CoordinatorRecovery: whatever
\* survivors of an earlier life upload, checkpoints and rounds behave as proved
\* above (coordinator.py:185-247, server_api.py).
THEOREM RestartImplementsRecovery == RestartSpec => Spec
  <1>1. RestartInit => Init
      BY DEF RestartInit
  <1>2. [RestartNext]_<<vars, net>> => [Next]_vars
      BY RestartSteps
  <1> QED BY <1>1, <1>2, PTL DEF RestartSpec, Spec

\* The parts of RestartTypeOK.
KnownOnce ==
  known \in Seq(Worker) /\ \A i, j \in DOMAIN known : known[i] = known[j] => i = j

StageTyped ==
  /\ stage \in {"idle", "cleared", "waiting"}
  /\ stage # "idle" => step = "begin" /\ InLoop

PendingOnce == pending \subseteq Job /\ \A u, v \in pending : u.round = v.round => u = v

JobsTyped ==
  queue \subseteq [worker : Worker, job : Job] /\ job \in [Worker -> Job \cup {None}]

\* A process that runs has been started, and what it serves is its adapter.
Serves ==
  /\ step # "down" => starts >= 1
  /\ step \in {"load", "failed"} => round = 0
  /\ served = adapter

RestartInv == RecoveryInv /\ KnownOnce /\ StageTyped /\ PendingOnce /\ JobsTyped /\ Serves

LEMMA RestartInitInv == RestartInit => RestartInv
  <1> SUFFICES ASSUME RestartInit PROVE RestartInv
      OBVIOUS
  <1>1. RecoveryInv
      BY RecoveryInit DEF RestartInit
  <1>2. KnownOnce /\ StageTyped /\ PendingOnce /\ JobsTyped /\ Serves
      BY DEF RestartInit, Init, KnownOnce, StageTyped, PendingOnce, JobsTyped, Serves
  <1> QED BY <1>1, <1>2 DEF RestartInv

\* A worker that is not on the list is added at its end.
LEMMA AppendOnce ==
  ASSUME NEW s \in Seq(Worker), NEW w \in Worker,
         \A i, j \in DOMAIN s : s[i] = s[j] => i = j,
         \A i \in DOMAIN s : s[i] # w
  PROVE  /\ Append(s, w) \in Seq(Worker)
         /\ \A i, j \in DOMAIN Append(s, w) : Append(s, w)[i] = Append(s, w)[j] => i = j
  <1>1. Append(s, w) \in Seq(Worker) /\ DOMAIN Append(s, w) = 1 .. Len(s) + 1
        OBVIOUS
  <1>2. ASSUME NEW i \in 1 .. Len(s) + 1, NEW j \in 1 .. Len(s) + 1,
               Append(s, w)[i] = Append(s, w)[j]
        PROVE  i = j
    <2>1. CASE i \in 1 .. Len(s) /\ j \in 1 .. Len(s)
          BY <1>2, <2>1
    <2>2. CASE i = Len(s) + 1 \/ j = Len(s) + 1
          BY <1>2, <2>2
    <2> QED BY <2>1, <2>2
  <1> QED BY <1>1, <1>2

\* Only a registration and a new process touch the list of workers.
LEMMA KnownStep ==
  ASSUME RestartInv, [RestartNext]_<<vars, net>>
  PROVE  KnownOnce'
  <1> USE DEF RestartInv, KnownOnce
  <1>1. CASE UNCHANGED known
        BY <1>1
  <1>2. CASE Start \/ Stop
        <2>1. known' = <<>>
              BY <1>2 DEF Start, Stop, NewState
        <2>2. \A s : s = <<>> => s \in Seq(Worker) /\ \A i, j \in DOMAIN s : i = j
              OBVIOUS
        <2> QED BY <2>1, <2>2
  <1>3. ASSUME NEW w \in Worker, Register(w)
        PROVE  KnownOnce'
        BY <1>3, AppendOnce DEF Register
  <1>4. ASSUME ~(Start \/ Stop), ~\E w \in Worker : Register(w)
        PROVE  UNCHANGED known
        BY <1>4 DEF RestartNext, net, shared, Load, StartFresh, Clear, Skip, Publish, Reject,
               Combine, Conclude, WorkerStep, FetchAdapter, GiveUp, GetTask, Upload
  <1> QED BY <1>1, <1>2, <1>3, <1>4

\* An iteration is under way in its three stages only while step stays "begin".
LEMMA StageStep ==
  ASSUME RestartInv, [RestartNext]_<<vars, net>>
  PROVE  StageTyped'
  <1> USE DEF RestartInv, StageTyped, InLoop
  <1>1. CASE Start \/ Stop
        BY <1>1 DEF Start, Stop, NewState
  <1>2. CASE Load \/ StartFresh
        BY <1>2 DEF Load, StartFresh, Resume, Fresh, ResumeFails, net
  <1>3. CASE Clear \/ Publish
        BY <1>3 DEF Clear, Publish, vars, memory
  <1>4. CASE Skip \/ Reject \/ Combine
        BY <1>4 DEF Skip, Reject, Combine
  <1>5. CASE Conclude
        BY <1>5 DEF Conclude, net
  <1>6. CASE \E w \in Worker : WorkerStep(w)
        BY <1>6 DEF WorkerStep, Register, FetchAdapter, GiveUp, GetTask, Upload, vars, memory
  <1>7. CASE UNCHANGED <<vars, net>>
        BY <1>7 DEF vars, memory, net
  <1> QED BY <1>1, <1>2, <1>3, <1>4, <1>5, <1>6, <1>7 DEF RestartNext

\* What is served and what is aggregated into are renewed together.
LEMMA ServesStep ==
  ASSUME RestartInv, [RestartNext]_<<vars, net>>
  PROVE  Serves'
  <1> USE DEF RestartInv, Serves
  <1>0. starts \in Nat
        BY StartsAssumption DEF RecoveryInv, TypeOK
  <1>1. CASE Start
        BY <1>0, <1>1 DEF Start, StartCoordinator, NewState
  <1>2. CASE Stop
        BY <1>2 DEF Stop, Crash, NewState
  <1>3. CASE Load
        BY <1>3 DEF Load, Resume
  <1>4. CASE StartFresh
        BY <1>4 DEF StartFresh, Fresh, ResumeFails, net, shared, memory
  <1>5. CASE Clear \/ Publish
        BY <1>5 DEF Clear, Publish, vars, memory
  <1>6. CASE Skip
        BY <1>6 DEF Skip, SkipRound, NextRound, shared
  <1>7. CASE Reject
        BY <1>7 DEF Reject, Aggregate
  <1>8. CASE Combine
        <2>1. PICK received \in {{}, pending} : \E counted \in SUBSET received :
                /\ adapter' = IF counted = {} THEN adapter ELSE Append(adapter, round)
                /\ served' = IF received = {} THEN served ELSE adapter'
              BY <1>8 DEF Combine
        <2>2. served' = adapter'
              BY <2>1
        <2> QED BY <1>8, <2>2 DEF Combine, Aggregate
  <1>9. CASE Conclude
        BY <1>9 DEF Conclude, UpdateFeedback, NoSave, OpenRoundFile, CloseRoundFile, OpenLatest,
               CloseLatest, EndTraining, NextRound, net, shared, memory
  <1>10. CASE \E w \in Worker : WorkerStep(w)
        BY <1>10 DEF WorkerStep, Register, FetchAdapter, GiveUp, GetTask, Upload, vars, memory,
               shared
  <1>11. CASE UNCHANGED <<vars, net>>
        BY <1>11 DEF vars, memory, net, shared
  <1> QED
      BY <1>1, <1>2, <1>3, <1>4, <1>5, <1>6, <1>7, <1>8, <1>9, <1>10, <1>11 DEF RestartNext

\* The job a worker takes, or makes of the one it has, is a job.
LEMMA JobsStep ==
  ASSUME RestartInv, [RestartNext]_<<vars, net>>
  PROVE  JobsTyped'
  <1> USE DEF RestartInv, JobsTyped
  <1>1. CASE Start \/ Stop
        BY <1>1 DEF Start, Stop, NewState
  <1>2. CASE Load \/ StartFresh \/ Clear \/ Skip \/ Combine \/ Conclude \/ UNCHANGED <<vars, net>>
        BY <1>2 DEF Load, StartFresh, Clear, Skip, Combine, Conclude, net, shared
  <1>3. CASE Reject
        BY <1>3 DEF Reject
  <1>4. CASE Publish
    <2>1. NewJob \in Job
      <3>1. round \in Round
            BY <1>4, RoundsAssumption DEF Publish, StageTyped, InLoop, RecoveryInv, TypeOK, Round
      <3>2. starts \in 1 .. MaxStarts
            BY <1>4 DEF Publish, StageTyped, Serves, RecoveryInv, TypeOK
      <3> QED BY <3>1, <3>2 DEF NewJob, Job
    <2>2. Head(known) \in Worker
          BY <1>4 DEF Publish, KnownOnce
    <2> QED BY <1>4, <2>1, <2>2 DEF Publish
  <1>5. ASSUME NEW w \in Worker, Register(w) \/ GiveUp(w)
        PROVE  JobsTyped'
        BY <1>5 DEF Register, GiveUp, SetJob, shared
  <1>6. ASSUME NEW w \in Worker, FetchAdapter(w)
        PROVE  JobsTyped'
    <2>1. job[w] \in Job
          BY <1>6 DEF FetchAdapter
    <2>2. served \in Seq(Round)
          BY DEF Serves, RecoveryInv, TypeOK
    <2>3. [job[w] EXCEPT !.base = served] \in Job
          BY <2>1, <2>2 DEF Job
    <2> QED BY <1>6, <2>3 DEF FetchAdapter, shared
  <1>7. ASSUME NEW w \in Worker, NEW answered \in BOOLEAN, GetTask(w, answered)
        PROVE  JobsTyped'
        BY <1>7 DEF GetTask, SetJob
  <1>8. ASSUME NEW w \in Worker, NEW answered \in BOOLEAN, Upload(w, answered)
        PROVE  JobsTyped'
        BY <1>8 DEF Upload, SetJob
  <1> QED
      BY <1>1, <1>2, <1>3, <1>4, <1>5, <1>6, <1>7, <1>8 DEF RestartNext, WorkerStep

\* The look-up keeps the keys of the list apart, whatever life an update is of.
LEMMA PendingStep ==
  ASSUME RestartInv, [RestartNext]_<<vars, net>>
  PROVE  PendingOnce'
  <1> USE DEF RestartInv, PendingOnce
  <1>1. CASE Start \/ Stop \/ Clear
        BY <1>1 DEF Start, Stop, NewState, Clear
  <1>2. CASE \/ Load \/ StartFresh \/ Skip \/ Publish \/ Reject \/ Combine \/ Conclude
             \/ UNCHANGED <<vars, net>>
        BY <1>2 DEF Load, StartFresh, Skip, Publish, Reject, Combine, Conclude, net, shared
  <1>3. ASSUME NEW w \in Worker, Register(w) \/ FetchAdapter(w) \/ GiveUp(w)
        PROVE  PendingOnce'
        BY <1>3 DEF Register, FetchAdapter, GiveUp, shared
  <1>4. ASSUME NEW w \in Worker, NEW answered \in BOOLEAN, GetTask(w, answered)
        PROVE  PendingOnce'
        BY <1>4 DEF GetTask
  <1>5. ASSUME NEW w \in Worker, NEW answered \in BOOLEAN, Upload(w, answered)
        PROVE  PendingOnce'
        BY <1>5 DEF Upload, IsDuplicate, JobsTyped
  <1> QED BY <1>1, <1>2, <1>3, <1>4, <1>5 DEF RestartNext, WorkerStep

LEMMA RestartInductive == RestartInv /\ [RestartNext]_<<vars, net>> => RestartInv'
  <1> SUFFICES ASSUME RestartInv, [RestartNext]_<<vars, net>> PROVE RestartInv'
      OBVIOUS
  <1>1. RecoveryInv'
      BY RestartSteps, RecoveryInductive DEF RestartInv
  <1> QED
      BY <1>1, KnownStep, StageStep, ServesStep, JobsStep, PendingStep DEF RestartInv

\* Every variable of the composition keeps its type, and no worker or key is
\* listed twice, although workers register with each life of the coordinator
\* and upload what an earlier one asked for (server_api.py:46-60, 124-133).
THEOREM RestartTypes == RestartSpec => []RestartTypeOK
  <1>1. RestartInv => RestartTypeOK
      BY DEF RestartInv, RestartTypeOK, RecoveryInv, KnownOnce, StageTyped, PendingOnce,
             JobsTyped, Serves, TypeOK
  <1> QED BY RestartInitInv, RestartInductive, <1>1, PTL DEF RestartSpec

\* The iteration of round r has made its task.
Made(r) ==
  \/ r < round
  \/ /\ r = round
     /\ stage = "waiting" \/ step \in {"feedback", "save", "writeRound", "openLatest", "writeLatest"}

\* A job of this life is of a round whose task was made.
InLife(j) == j.life <= starts /\ (step # "down" /\ j.life = starts => Made(j.round))

\* What a worker holds for the round that waits has the current adapter, once
\* it has any.
Based(j) == stage = "waiting" /\ OfThisRound(j) => j.base \in {None, adapter}

LifeInv ==
  /\ \A q \in queue : InLife(q.job) /\ q.job.base = None
  /\ \A u \in pending : InLife(u) /\ u.base # None /\ Based(u)
  /\ \A w \in Worker : job[w] # None => InLife(job[w]) /\ Based(job[w])

RestartFreshInv == RestartInv /\ LifeInv

\* An iteration has either not made its task, or goes on with it, as long as it
\* is the same; the next one is of a later round.
LEMMA MadeStays ==
  ASSUME NEW r, NEW s, r \in Nat, s \in Nat, r < s \/ r = s
  PROVE  r < s + 1
  OBVIOUS

\* In a step that makes no task and takes none away, everything of this life
\* stays made.
LEMMA InLifeStep ==
  ASSUME RestartInv, [RestartNext]_<<vars, net>>, NEW j \in Job, InLife(j)
  PROVE  InLife(j)'
  <1> USE RoundsAssumption, StartsAssumption DEF RestartInv, InLife, Made
  <1>0. /\ j.round \in Nat /\ j.life \in Nat /\ starts \in Nat /\ round \in Nat
        /\ BodyInRound /\ StageTyped
        BY DEF Job, Round, RecoveryInv, TypeOK
  <1>1. CASE Start
        BY <1>0, <1>1 DEF Start, StartCoordinator
  <1>2. CASE Stop
        BY <1>0, <1>2 DEF Stop, Crash
  <1>3. CASE Load
    <2>1. step = "load" /\ starts' = starts /\ step' = "begin"
          BY <1>3 DEF Load, Resume
    <2>2. CASE j.life # starts
          BY <2>1, <2>2
    <2>3. CASE j.life = starts
          \* Nothing was made at "load", where round is 0.
          BY <1>0, <2>1, <2>3 DEF Serves, StageTyped
    <2> QED BY <2>2, <2>3
  <1>4. CASE StartFresh
        BY <1>0, <1>4 DEF StartFresh, Fresh, ResumeFails, net, memory
  <1>5. CASE Clear \/ Publish
        BY <1>0, <1>5 DEF Clear, Publish, vars, memory, StageTyped
  <1>6. CASE Skip
        BY <1>0, <1>6, MadeStays DEF Skip, SkipRound, NextRound
  <1>7. CASE Reject \/ Combine
        BY <1>0, <1>7 DEF Reject, Combine, Aggregate
  <1>8. CASE Conclude
    <2>1. CASE UpdateFeedback \/ OpenRoundFile \/ CloseRoundFile \/ OpenLatest
          BY <1>0, <1>8, <2>1 DEF Conclude, UpdateFeedback, OpenRoundFile, CloseRoundFile,
                 OpenLatest, net, memory
    <2>2. CASE NoSave \/ CloseLatest
      <3>1. round' = round + 1 /\ starts' = starts /\ step # "down"
            BY <2>2 DEF NoSave, CloseLatest, NextRound
      <3>2. j.life = starts => j.round < round + 1
        <4>1. j.life = starts => j.round < round \/ j.round = round
              BY <3>1
        <4> QED BY <1>0, <4>1, MadeStays
      <3> QED BY <3>1, <3>2
    <2>3. CASE EndTraining
          BY <1>0, <1>8, <2>3 DEF Conclude, EndTraining, memory, net
    <2> QED BY <1>8, <2>1, <2>2, <2>3 DEF Conclude
  <1>9. CASE \E w \in Worker : WorkerStep(w)
        BY <1>0, <1>9 DEF WorkerStep, Register, FetchAdapter, GiveUp, GetTask, Upload, vars, memory
  <1>10. CASE UNCHANGED <<vars, net>>
        BY <1>10 DEF vars, memory, net
  <1> QED
      BY <1>1, <1>2, <1>3, <1>4, <1>5, <1>6, <1>7, <1>8, <1>9, <1>10 DEF RestartNext

\* While a round waits, nothing renews the adapter; when it begins to wait, no
\* job of it is older than its task.
LEMMA BasedStep ==
  ASSUME RestartInv, [RestartNext]_<<vars, net>>, NEW j \in Job, InLife(j), Based(j)
  PROVE  Based(j)'
  <1> USE DEF RestartInv, Based, OfThisRound
  <1>0. j.round \in Nat /\ round \in Nat /\ StageTyped
        BY RoundsAssumption DEF Job, Round, RecoveryInv, TypeOK
  <1>1. CASE Start \/ Stop
        BY <1>1 DEF Start, Stop, NewState
  <1>2. CASE Load \/ StartFresh
        BY <1>0, <1>2 DEF Load, Resume, StartFresh, Fresh, ResumeFails, net, StageTyped
  <1>3. CASE Clear
        BY <1>3 DEF Clear
  <1>4. CASE Publish
    <2>1. ~OfThisRound(j)
          BY <1>0, <1>4 DEF Publish, StageTyped, InLife, Made
    <2> QED BY <1>4, <2>1 DEF Publish, vars, memory
  <1>5. CASE Skip \/ Reject \/ Combine
        BY <1>5 DEF Skip, Reject, Combine
  <1>6. CASE Conclude
        BY <1>6 DEF Conclude, net
  <1>7. CASE \E w \in Worker : WorkerStep(w)
        BY <1>7 DEF WorkerStep, Register, FetchAdapter, GiveUp, GetTask, Upload, vars, memory
  <1>8. CASE UNCHANGED <<vars, net>>
        BY <1>8 DEF vars, memory, net
  <1> QED BY <1>1, <1>2, <1>3, <1>4, <1>5, <1>6, <1>7, <1>8 DEF RestartNext

\* Queues hold tasks of this life only, made by Publish and not yet downloaded
\* for.
LEMMA QueueStep ==
  ASSUME RestartFreshInv, [RestartNext]_<<vars, net>>
  PROVE  \A q \in queue' : InLife(q.job)' /\ q.job.base = None
  <1> USE DEF RestartFreshInv, LifeInv
  <1>1. \A q \in queue : InLife(q.job)' /\ q.job.base = None
        BY InLifeStep DEF RestartInv, JobsTyped
  <1>2. CASE Publish
    <2>1. queue' = {[worker |-> Head(known), job |-> NewJob]}
          BY <1>2 DEF Publish
    <2>2. /\ stage' = "waiting" /\ UNCHANGED <<round, starts>>
          BY <1>2 DEF Publish, vars, memory
    <2>3. NewJob.round = round /\ NewJob.life = starts /\ NewJob.base = None
          BY DEF NewJob
    <2>4. starts \in Nat
          BY StartsAssumption DEF RestartInv, RecoveryInv, TypeOK
    <2>5. ASSUME NEW j, j.round = round, j.life = starts
          PROVE  InLife(j)'
          BY <2>2, <2>4, <2>5 DEF InLife, Made
    <2> QED BY <2>1, <2>3, <2>5
  <1>3. CASE ~Publish
    <2>1. queue' \subseteq queue
      <3>1. CASE \E w \in Worker : WorkerStep(w)
            BY <3>1 DEF WorkerStep, Register, FetchAdapter, GiveUp, GetTask, Upload, shared
      <3>2. CASE ~\E w \in Worker : WorkerStep(w)
            BY <1>3, <3>2 DEF RestartNext, Start, Stop, NewState, Load, StartFresh, Clear, Skip,
                   Reject, Combine, Conclude, net, shared
      <3> QED BY <3>1, <3>2
    <2> QED BY <1>1, <2>1
  <1> QED BY <1>2, <1>3

\* What a worker downloads is the adapter its task is added to, if that waits.
LEMMA FetchBased ==
  ASSUME RestartFreshInv, NEW w \in Worker, FetchAdapter(w),
         NEW j, j = [job[w] EXCEPT !.base = served]
  PROVE  InLife(j)' /\ Based(j)'
  <1>1. InLife(job[w]) /\ job[w] \in Job
        BY DEF RestartFreshInv, LifeInv, RestartInv, JobsTyped, FetchAdapter
  <1>2. j.life = job[w].life /\ j.round = job[w].round /\ j.base = adapter
        BY <1>1 DEF Job, RestartFreshInv, RestartInv, Serves
  <1>3. UNCHANGED <<step, stage, round, starts, adapter>>
        BY DEF FetchAdapter, vars, memory
  <1>4. InLife(j)
        BY <1>1, <1>2 DEF InLife
  <1> QED BY <1>2, <1>3, <1>4 DEF InLife, Made, Based

\* A worker takes its job from the queue and completes it with what is served.
LEMMA HeldStep ==
  ASSUME RestartFreshInv, [RestartNext]_<<vars, net>>, NEW v \in Worker, NEW j,
         j = job'[v], j # None
  PROVE  InLife(j)' /\ Based(j)'
  <1>1. ASSUME j \in Job, InLife(j), Based(j)
        PROVE  InLife(j)' /\ Based(j)'
        BY <1>1, InLifeStep, BasedStep DEF RestartFreshInv
  <1>2. /\ job[v] # None => job[v] \in Job /\ InLife(job[v]) /\ Based(job[v])
        /\ job \in [Worker -> Job \cup {None}]
        BY DEF RestartFreshInv, LifeInv, RestartInv, JobsTyped
  <1>3. CASE job'[v] = job[v]
        BY <1>1, <1>2, <1>3
  <1>4. ASSUME NEW w \in Worker, FetchAdapter(w), job'[v] # job[v]
        PROVE  InLife(j)' /\ Based(j)'
    <2>1. v = w /\ j = [job[w] EXCEPT !.base = served]
          BY <1>2, <1>4 DEF FetchAdapter
    <2> QED BY <1>4, <2>1, FetchBased
  <1>5. ASSUME NEW w \in Worker, GetTask(w, TRUE), job'[v] # job[v]
        PROVE  InLife(j)' /\ Based(j)'
    <2>1. PICK q \in queue : j = q.job
          BY <1>2, <1>5 DEF GetTask, SetJob
    <2>2. j \in Job /\ InLife(j) /\ j.base = None
          BY <2>1 DEF RestartFreshInv, LifeInv, RestartInv, JobsTyped
    <2>3. Based(j)
          BY <2>2 DEF Based
    <2> QED BY <1>1, <2>2, <2>3
  <1>6. ASSUME ~\E w \in Worker : FetchAdapter(w) \/ GetTask(w, TRUE)
        PROVE  job'[v] \in {job[v], None}
    <2>1. CASE \E w \in Worker : WorkerStep(w)
          BY <1>2, <1>6, <2>1 DEF WorkerStep, Register, GiveUp, GetTask, Upload, SetJob
    <2>2. CASE ~\E w \in Worker : WorkerStep(w)
          BY <2>2 DEF RestartNext, Start, Stop, NewState, Load, StartFresh, Clear, Skip, Publish,
                 Reject, Combine, Conclude, net, shared
    <2> QED BY <2>1, <2>2
  <1> QED BY <1>3, <1>4, <1>5, <1>6

\* An upload adds what its worker holds.
LEMMA SentStep ==
  ASSUME RestartFreshInv, [RestartNext]_<<vars, net>>, NEW u \in pending'
  PROVE  InLife(u)' /\ u.base # None /\ Based(u)'
  <1>1. \/ u \in pending
        \/ \E w \in Worker : job[w] # None /\ job[w].base # None /\ u = job[w]
    <2>1. CASE \E w \in Worker : WorkerStep(w)
          BY <2>1 DEF WorkerStep, Register, FetchAdapter, GiveUp, GetTask, Upload, shared
    <2>2. CASE ~\E w \in Worker : WorkerStep(w)
          BY <2>2 DEF RestartNext, Start, Stop, NewState, Load, StartFresh, Clear, Skip, Publish,
                 Reject, Combine, Conclude, net, shared
    <2> QED BY <2>1, <2>2
  <1>2. u \in Job /\ InLife(u) /\ u.base # None /\ Based(u)
        BY <1>1 DEF RestartFreshInv, LifeInv, RestartInv, PendingOnce, JobsTyped
  <1> QED BY <1>2, InLifeStep, BasedStep DEF RestartFreshInv

LEMMA LifeInductive == RestartFreshInv /\ [RestartNext]_<<vars, net>> => RestartFreshInv'
  <1> SUFFICES ASSUME RestartFreshInv, [RestartNext]_<<vars, net>> PROVE RestartFreshInv'
      OBVIOUS
  <1>1. RestartInv'
      BY RestartInductive DEF RestartFreshInv
  <1>2. LifeInv'
      BY QueueStep, HeldStep, SentStep DEF LifeInv
  <1> QED BY <1>1, <1>2 DEF RestartFreshInv

\* Across any number of restarts, an update of this life and round is added to
\* the adapter it was computed from: what was downloaded before the checkpoint
\* was loaded belongs to tasks of an earlier life (coordinator.py:188-204).
THEOREM RestartFreshBase == RestartSpec => []FreshBaseOfLife
  <1>1. RestartInit => RestartFreshInv
    <2>1. RestartInit => LifeInv
          BY DEF RestartInit, LifeInv
    <2> QED BY <2>1, RestartInitInv DEF RestartFreshInv
  <1>2. RestartFreshInv => FreshBaseOfLife
      BY DEF RestartFreshInv, LifeInv, Based, FreshBaseOfLife
  <1> QED BY <1>1, <1>2, LifeInductive, PTL DEF RestartSpec
=============================================================================
