------------------------ MODULE CoordinatorRecovery ------------------------
(***************************************************************************)
(* Checkpoints of the coordinator (src/rpc/runtime/checkpoint_manager.py)  *)
(* under the round loop of src/rpc/coordinator.py: which rounds the        *)
(* adapter and the feedback state contain, what is on disk, and what a     *)
(* coordinator started with --resume makes of it after a crash at any      *)
(* point, in the middle of a write included.                               *)
(*                                                                         *)
(* An adapter is abstracted to the sequence of rounds whose updates it     *)
(* contains, the feedback state to the set of rounds it was told of.       *)
(***************************************************************************)
EXTENDS Naturals, Sequences

CONSTANTS
  NumRounds,   \* experiment.num_rounds
  SaveEvery,   \* rounds between checkpoints (5)
  MaxStarts,   \* bound: starts of the coordinator
  None,        \* no file
  Torn         \* a file whose write was cut off

ASSUME RoundsAssumption == NumRounds \in Nat \ {0} /\ SaveEvery \in Nat \ {0}
ASSUME StartsAssumption == MaxStarts \in Nat
ASSUME FileAssumption == None # Torn

Round == 0 .. NumRounds - 1

\* What CheckpointManager.save writes.
Content == [round : Round, adapter : Seq(Round), feedback : SUBSET Round]

ASSUME ContentAssumption == None \notin Content /\ Torn \notin Content

Step == {"down", "load", "begin", "feedback", "save", "writeRound", "openLatest",
         "writeLatest", "done", "failed"}

VARIABLES
  step,       \* the statement of run_coordinator to come
  round,      \* round_id of the loop, NumRounds after its last round
  adapter,    \* global_adapter
  feedback,   \* FeedbackState
  roundFile,  \* round_NNNN.pt
  latest,     \* latest.pt
  starts,     \* starts of the coordinator so far
  saved       \* history: the last checkpoint of this training that save returned from

memory == <<round, adapter, feedback>>
disk   == <<roundFile, latest, saved>>
vars   == <<step, memory, disk, starts>>

Init ==
  /\ step = "down"
  /\ round = 0
  /\ adapter = <<>>
  /\ feedback = {}
  /\ roundFile = [r \in Round |-> None]
  /\ latest = None
  /\ starts = 0
  /\ saved = None

\* The model's initial adapter and an empty feedback state.
StartCoordinator ==
  /\ step = "down"
  /\ starts < MaxStarts
  /\ starts' = starts + 1
  /\ step' = "load"
  /\ round' = 0
  /\ adapter' = <<>>
  /\ feedback' = {}
  /\ UNCHANGED disk

\* Mutant of ResumeRound: the checkpointed round runs again.
ResumeSame(ckpt) == ckpt.round

ResumeRound(ckpt) == ckpt.round + 1

\* Without --resume, or without a checkpoint, training starts from scratch.
Fresh ==
  /\ step = "load"
  /\ step' = "begin"
  /\ saved' = None
  /\ UNCHANGED <<memory, roundFile, latest, starts>>

\* Mutant of Resume: the feedback state is not restored.
ResumeAdapter ==
  /\ step = "load"
  /\ latest \notin {None, Torn}
  /\ round' = ResumeRound(latest)
  /\ adapter' = latest.adapter
  /\ step' = "begin"
  /\ UNCHANGED <<feedback, disk, starts>>

\* With --resume: load_latest and load_dict.
Resume ==
  /\ step = "load"
  /\ latest \notin {None, Torn}
  /\ round' = ResumeRound(latest)
  /\ adapter' = latest.adapter
  /\ feedback' = latest.feedback
  /\ step' = "begin"
  /\ UNCHANGED <<disk, starts>>

\* torch.load raises; load_round is never tried.
ResumeFails ==
  /\ step = "load"
  /\ latest = Torn
  /\ step' = "failed"
  /\ UNCHANGED <<memory, disk, starts>>

\* Mutant of InLoop: one round too many.
InLoopInclusive == round <= NumRounds

\* range(start_round, num_rounds)
InLoop == round < NumRounds

NextRound == round' = round + 1 /\ step' = "begin"

\* No client, or none left by DropWeak: the rest of the iteration is skipped.
SkipRound ==
  /\ step = "begin"
  /\ InLoop
  /\ NextRound
  /\ UNCHANGED <<adapter, feedback, disk, starts>>

\* The updates of the round, if any counts, go into the adapter.
Aggregate ==
  /\ step = "begin"
  /\ InLoop
  /\ adapter' \in {adapter, Append(adapter, round)}
  /\ step' = "feedback"
  /\ UNCHANGED <<round, feedback, disk, starts>>

UpdateFeedback ==
  /\ step = "feedback"
  /\ feedback' = feedback \cup {round}
  /\ step' = "save"
  /\ UNCHANGED <<round, adapter, disk, starts>>

\* Mutant of IsSaved: counted from one.
IsSavedOffByOne(r) == (r + 1) % SaveEvery = 0

IsSaved(r) == r % SaveEvery = 0 \/ r = NumRounds - 1

Checkpoint == [round |-> round, adapter |-> adapter, feedback |-> feedback]

NoSave ==
  /\ step = "save"
  /\ ~IsSaved(round)
  /\ NextRound
  /\ UNCHANGED <<adapter, feedback, disk, starts>>

\* Mutant of OpenRoundFile: only latest.pt is written.
OpenLatestOnly ==
  /\ step = "save"
  /\ IsSaved(round)
  /\ latest' = Torn
  /\ step' = "writeLatest"
  /\ UNCHANGED <<memory, roundFile, saved, starts>>

\* torch.save opens the file itself: until it returns the file is torn.
OpenRoundFile ==
  /\ step = "save"
  /\ IsSaved(round)
  /\ roundFile' = [roundFile EXCEPT ![round] = Torn]
  /\ step' = "writeRound"
  /\ UNCHANGED <<memory, latest, saved, starts>>

CloseRoundFile ==
  /\ step = "writeRound"
  /\ roundFile' = [roundFile EXCEPT ![round] = Checkpoint]
  /\ step' = "openLatest"
  /\ UNCHANGED <<memory, latest, saved, starts>>

\* Until here the checkpoint before this one can still be loaded.
OpenLatest ==
  /\ step = "openLatest"
  /\ latest' = Torn
  /\ step' = "writeLatest"
  /\ UNCHANGED <<memory, roundFile, saved, starts>>

CloseLatest ==
  /\ step = "writeLatest"
  /\ latest' = Checkpoint
  /\ saved' = Checkpoint
  /\ NextRound
  /\ UNCHANGED <<adapter, feedback, roundFile, starts>>

EndTraining ==
  /\ step = "begin"
  /\ ~InLoop
  /\ step' = "done"
  /\ UNCHANGED <<memory, disk, starts>>

\* The process ends, after its last round or at any other point, and takes its
\* memory with it.
Crash ==
  /\ step # "down"
  /\ step' = "down"
  /\ round' = 0
  /\ adapter' = <<>>
  /\ feedback' = {}
  /\ UNCHANGED <<disk, starts>>

RoundStep ==
  \/ SkipRound \/ Aggregate \/ UpdateFeedback \/ NoSave \/ OpenRoundFile
  \/ CloseRoundFile \/ OpenLatest \/ CloseLatest \/ EndTraining

Next == StartCoordinator \/ Fresh \/ Resume \/ ResumeFails \/ RoundStep \/ Crash

Spec == Init /\ [][Next]_vars
-----------------------------------------------------------------------------
(* Properties *)

\* Every variable has its type.
TypeOK ==
  /\ step \in Step
  /\ round \in 0 .. NumRounds
  /\ adapter \in Seq(Round)
  /\ feedback \subseteq Round
  /\ roundFile \in [Round -> Content \cup {None, Torn}]
  /\ latest \in Content \cup {None, Torn}
  /\ starts \in 0 .. MaxStarts
  /\ saved \in Content \cup {None}

Increasing(s) == \A i, j \in DOMAIN s : i < j => s[i] < s[j]

\* A round's updates are in the adapter at most once and in order, however often
\* the coordinator is restarted and rounds since the last checkpoint run again
\* (coordinator.py:201).
RoundsCountOnce == Increasing(adapter)

\* The feedback state knows of every round the adapter contains, in memory when
\* a round begins and in every file that can be loaded: the two are restored
\* together (coordinator.py:425, 498, 206).
FeedbackCovers ==
  LET Covers(a, f) == \A i \in DOMAIN a : a[i] \in f
  IN  /\ step = "begin" => Covers(adapter, feedback)
      /\ latest \notin {None, Torn} => Covers(latest.adapter, latest.feedback)

\* Checkpoint c goes on where checkpoint d stops.
Continues(c, d) ==
  /\ c.round >= d.round
  /\ d.feedback \subseteq c.feedback
  /\ \A i \in DOMAIN d.adapter : i \in DOMAIN c.adapter /\ c.adapter[i] = d.adapter[i]

\* What save has returned from is not lost, wherever the coordinator crashes and
\* however often rounds since then run again and their files are written again:
\* latest.pt holds it, or a round file holds a checkpoint that goes on from it,
\* although load_latest looks at the torn file only (checkpoint_manager.py:33-45).
CheckpointKept ==
  saved # None =>
    \/ latest = saved
    \/ \E r \in Round : roundFile[r] \notin {None, Torn} /\ Continues(roundFile[r], saved)

IsDue(r) == r % SaveEvery = 0 \/ r = NumRounds - 1

\* When a round begins, the latest checkpoint is no older than the last round of
\* this run that had to be saved, and after the last round it is the result:
\* only rounds that were skipped leave no checkpoint (coordinator.py:247, 497).
CheckpointKeepsUp ==
  step \in {"begin", "done"} =>
    /\ \A r \in feedback : IsDue(r) =>
         latest \notin {None, Torn} /\ latest.round >= r
    /\ NumRounds - 1 \in feedback => latest.adapter = adapter
=============================================================================
