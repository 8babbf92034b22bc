---------------------------- MODULE LinkedWorker ----------------------------
(***************************************************************************)
(* A worker process on its emulated link: WorkerLoop composed with         *)
(* LinkEmulation.  run_worker starts the replayer before its first health  *)
(* check, ticks it at the top of the polling loop and never stops it; a    *)
(* DROP rule keeps every request of the host from leaving it.              *)
(*                                                                         *)
(* nodes.yaml puts two workers on a host.  Rules are the host's, so the    *)
(* second one, the neighbour, cuts this worker off as well.                *)
(***************************************************************************)
EXTENDS WorkerLoop, Sequences

CONSTANTS
  Trace, Modes, Tools, None,   \* those of LinkEmulation
  MaxTime                      \* bound: elapsed time of a session

\* What LinkEmulation assumes of its constants.
ASSUME LinkAssumption ==
  /\ Trace \in Seq([time : Nat, online : BOOLEAN])
  /\ Trace # <<>>
  /\ Trace[1].time = 0
  /\ \A i, j \in 1 .. Len(Trace) : i < j => Trace[i].time < Trace[j].time
  /\ MaxTime \in Nat
  /\ None \notin Nat
  /\ Modes \subseteq {"fixed", "trace", "repeated", "random"}

VARIABLES
  rules, hardOffline, event, kernel, active, tcProfile,
  mode, slot, now, seen, up, sessions, broken,   \* those of LinkEmulation
  neighbour,   \* the other worker of the host: it has no rule of its own, has
               \* one, or has ended while it had one
  online       \* workers[worker_id]["online"] at the coordinator

Link == INSTANCE LinkEmulation WITH MaxSessions <- MaxStarts

linkVars == <<rules, hardOffline, event, kernel, active, tcProfile,
              mode, slot, now, seen, up, sessions, broken>>
hostVars == <<linkVars, neighbour>>
linkedVars == <<vars, hostVars, online>>

LinkedInit ==
  /\ Init
  /\ Link!Init
  /\ neighbour = "open"
  /\ online = TRUE
-----------------------------------------------------------------------------
\* A DROP rule, whoever has set it, holds back what this host sends.
Reaches == rules = 0

\* A new coordinator has no entry for the worker.
Coordinator ==
  \/ StartCoordinator /\ online' = TRUE /\ UNCHANGED hostVars
  \/ (EndCoordinator \/ PublishTask \/ FinishTraining) /\ UNCHANGED <<hostVars, online>>

\* The neighbour's replayer; its shaping is left out, nothing here depends on it.
Neighbour ==
  /\ \/ neighbour = "open" /\ rules' = rules + 1 /\ neighbour' = "blocking"
     \/ neighbour = "blocking" /\ rules' = rules - 1 /\ neighbour' = "open"
     \/ neighbour = "blocking" /\ neighbour' = "gone" /\ UNCHANGED rules
  /\ UNCHANGED <<vars, hardOffline, event, kernel, active, tcProfile, mode, slot,
                 now, seen, up, sessions, broken, online>>

LinkedStart ==
  /\ StartWorker
  /\ \E m \in Modes : Link!Start(m)
  /\ UNCHANGED <<neighbour, online>>

\* tick() at the top of the loop, then the heartbeat, which tells is_online; the
\* coordinator notes it for a worker it knows.
LinkedBeat ==
  /\ Beat
  /\ Link!Tick
  /\ \/ UNCHANGED online
     \/ rules' = 0 /\ serving /\ known /\ online' = ~hardOffline'
  /\ UNCHANGED neighbour

\* The process that ends leaves its rules behind.
LinkOfProcess == IF wphase' = "exited" THEN Link!Exit ELSE UNCHANGED linkVars

Probe ==
  /\ ProbeFailed \/ (Reaches /\ ProbeAnswered)
  /\ LinkOfProcess
  /\ UNCHANGED <<neighbour, online>>

\* An entry that register makes is online.
Register ==
  /\ (Reaches /\ Registered) \/ RegisterFailed
  /\ Reaches \/ (known' = known /\ regLife' = regLife)
  /\ online' = (online \/ regLife' # regLife)
  /\ LinkOfProcess
  /\ UNCHANGED neighbour

\* Mutant of Poll: the link moves on between the poll and the task it brings.
PollThenTick ==
  /\ PollFailed \/ (Reaches /\ (PollIdle \/ PollTask \/ PollStop))
  /\ Reaches \/ queued' = queued
  /\ IF wphase' = "task" THEN Link!Tick ELSE LinkOfProcess
  /\ UNCHANGED <<neighbour, online>>

Poll ==
  /\ PollFailed \/ (Reaches /\ (PollIdle \/ PollTask \/ PollStop))
  /\ Reaches \/ queued' = queued
  /\ LinkOfProcess
  /\ UNCHANGED <<neighbour, online>>

\* The transfers of a task may fail, the process goes on; what raises ends it.
Execute ==
  /\ TaskEnds
  /\ LinkOfProcess
  /\ UNCHANGED <<neighbour, online>>

Pass == Link!Pass /\ UNCHANGED <<vars, neighbour, online>>

LinkedStep == LinkedBeat \/ Probe \/ Register \/ Poll \/ Execute

LinkedNext == Coordinator \/ Neighbour \/ LinkedStart \/ LinkedStep \/ Pass

LinkedSpec == LinkedInit /\ [][LinkedNext]_linkedVars
\* As in WorkerLoop: the worker's process runs on; nothing is assumed of the
\* coordinator, of the neighbour or of time.
LinkedFairSpec == LinkedSpec /\ WF_linkedVars(LinkedStep)
-----------------------------------------------------------------------------
(* Properties *)

OwnRules == IF hardOffline THEN 1 ELSE 0
NeighbourRules == IF neighbour = "blocking" THEN 1 ELSE 0

\* Rules no process will delete any more.
Orphans == rules - OwnRules - NeighbourRules

\* Every variable has its type, and the link runs exactly as long as the process;
\* whoever is to delete a rule finds one.
LinkedTypeOK ==
  /\ TypeOK
  /\ Link!TypeOK
  /\ neighbour \in {"open", "blocking", "gone"}
  /\ online \in BOOLEAN
  /\ up <=> wphase # "exited"
  /\ Orphans \in Nat

\* The coordinator never learns that a worker is hard offline, so it keeps
\* sampling its clients: the report would have to leave through the very link
\* that is_hard_offline has blocked (worker.py:223, coordinator.py:62).
OfflineNeverReported == online

\* The worker's own outages never hit a download or an upload: the link moves on
\* between tasks only, and an offline worker gets none.  What the retries of
\* measure_upload_with_retry meet is the neighbour's doing (worker.py:218, 436).
OwnOutageSparesTransfers == wphase = "task" => ~hardOffline

\* A rule that has lost its owner, be it that the worker left in an outage or
\* that iptables timed out, cuts the host off for good: no later process on it
\* registers, gets a task or hears of the end (disconnect_controller.py:57-60).
StrandedForGood ==
  [][Orphans > 0 =>
       /\ Orphans' > 0
       /\ wphase = "register" => wphase' # "beat"
       /\ wphase = "poll" => wphase' # "task" /\ reason' # "stopped"]_linkedVars
=============================================================================
