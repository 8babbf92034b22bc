----------------------------- MODULE WorkerLoop -----------------------------
(***************************************************************************)
(* The life of one worker process (src/rpc/worker.py run_worker) against a *)
(* coordinator that stops, crashes and is started again: the health probe, *)
(* the one registration, and the polling loop with its counter idle_count. *)
(*                                                                         *)
(* The coordinator keeps its workers in memory only, so a new coordinator  *)
(* process knows none of them.                                             *)
(***************************************************************************)
EXTENDS Naturals

CONSTANTS
  ProbeLimit,   \* health checks before the worker gives up (30)
  IdleLimit,    \* polls without a task that idle_count tolerates (60)
  MaxStarts,    \* bound: starts of the worker process
  MaxLives      \* bound: starts of the coordinator process

ASSUME LimitAssumption ==
  /\ ProbeLimit \in Nat \ {0}
  /\ IdleLimit \in Nat
  /\ MaxStarts \in Nat
  /\ MaxLives \in Nat

VARIABLES
  wphase,     \* where the worker is
  probes,     \* failed health checks of this process
  idleCount,  \* idle_count, up to the first value over the limit
  reason,     \* why the process ended
  starts,     \* starts of the worker so far
  serving,    \* a coordinator process answers requests
  life,       \* starts of the coordinator so far
  known,      \* the worker is in state.workers of this coordinator
  queued,     \* state.round_tasks holds a task for the worker
  stopped,    \* state.stopped
  failures,   \* history: polls that failed since one was answered
  regLife     \* history: the coordinator this process has registered with

workerVars == <<wphase, probes, idleCount, reason, starts>>
coordVars  == <<serving, life, known, queued, stopped>>
histVars   == <<failures, regLife>>
vars == <<workerVars, coordVars, histVars>>

Running == {"probe", "register", "beat", "poll", "task"}

Init ==
  /\ wphase = "exited"
  /\ probes = 0
  /\ idleCount = 0
  /\ reason = "none"
  /\ starts = 0
  /\ serving = FALSE
  /\ life = 0
  /\ known = FALSE
  /\ queued = FALSE
  /\ stopped = FALSE
  /\ failures = 0
  /\ regLife = 0
-----------------------------------------------------------------------------
(* The coordinator, as far as this worker sees it. *)

StartCoordinator ==
  /\ ~serving
  /\ life < MaxLives
  /\ serving' = TRUE
  /\ life' = life + 1
  /\ known' = FALSE
  /\ queued' = FALSE
  /\ stopped' = FALSE
  /\ UNCHANGED <<workerVars, histVars>>

\* It crashes, or the 15 seconds after the last round are over.
EndCoordinator ==
  /\ serving
  /\ serving' = FALSE
  /\ UNCHANGED <<workerVars, life, known, queued, stopped, histVars>>

\* A round publishes tasks for the workers it knows, or withdraws them.
PublishTask ==
  /\ serving /\ known /\ ~stopped
  /\ queued' \in BOOLEAN
  /\ UNCHANGED <<workerVars, serving, life, known, stopped, histVars>>

FinishTraining ==
  /\ serving /\ ~stopped
  /\ stopped' = TRUE
  /\ UNCHANGED <<workerVars, serving, life, known, queued, histVars>>
-----------------------------------------------------------------------------
(* The worker.  A request fails when nobody answers, and may fail otherwise. *)

StartWorker ==
  /\ wphase = "exited"
  /\ starts < MaxStarts
  /\ starts' = starts + 1
  /\ wphase' = "probe"
  /\ probes' = 0
  /\ idleCount' = 0
  /\ reason' = "none"
  /\ failures' = 0
  /\ regLife' = 0
  /\ UNCHANGED coordVars

End(why) == wphase' = "exited" /\ reason' = why

ProbeAnswered ==
  /\ serving
  /\ wphase = "probe"
  /\ wphase' = "register"
  /\ UNCHANGED <<probes, idleCount, reason, starts, coordVars, histVars>>

\* Mutant of ProbeFailed: one health check too many.
ProbeFailedOnceMore ==
  /\ wphase = "probe"
  /\ probes' = probes + 1
  /\ IF probes' > ProbeLimit
       THEN End("unreachable")
       ELSE UNCHANGED <<wphase, reason>>
  /\ UNCHANGED <<idleCount, starts, coordVars, histVars>>

ProbeFailed ==
  /\ wphase = "probe"
  /\ probes' = probes + 1
  /\ IF probes' = ProbeLimit
       THEN End("unreachable")
       ELSE UNCHANGED <<wphase, reason>>
  /\ UNCHANGED <<idleCount, starts, coordVars, histVars>>

Registered ==
  /\ serving
  /\ wphase = "register"
  /\ known' = TRUE
  /\ regLife' = life
  /\ wphase' = "beat"
  /\ UNCHANGED <<probes, idleCount, reason, starts, serving, life, queued,
                 stopped, failures>>

\* The request is outside any try: the process ends, registered or not.
RegisterFailed ==
  /\ wphase = "register"
  /\ \/ UNCHANGED <<known, regLife>>
     \/ serving /\ known' = TRUE /\ regLife' = life
  /\ End("error")
  /\ UNCHANGED <<probes, idleCount, starts, serving, life, queued, stopped,
                 failures>>

\* Mutant of Beat: a heartbeat enters an unknown worker as well.
BeatRegisters ==
  /\ wphase = "beat"
  /\ wphase' = "poll"
  /\ known' = (known \/ serving)
  /\ UNCHANGED <<probes, idleCount, reason, starts, serving, life, queued,
                 stopped, histVars>>

\* POST /heartbeat, answered or not: an unknown worker stays unknown.
Beat ==
  /\ wphase = "beat"
  /\ wphase' = "poll"
  /\ UNCHANGED <<probes, idleCount, reason, starts, coordVars, histVars>>

\* idle_count is compared with the limit only, so it may stop above it.
Bump(n) == IF n > IdleLimit THEN n ELSE n + 1

\* Mutants of PollFailed: the limit is compared before the count is raised, or
\* a failed poll is not counted.
PollFailedLate ==
  /\ wphase = "poll"
  /\ idleCount' = Bump(idleCount)
  /\ failures' = Bump(failures)
  /\ queued' \in {queued, queued /\ (~serving \/ stopped)}
  /\ IF idleCount > IdleLimit
       THEN End("lost")
       ELSE wphase' = "beat" /\ UNCHANGED reason
  /\ UNCHANGED <<probes, starts, serving, life, known, stopped, regLife>>
PollFailedUncounted ==
  /\ wphase = "poll"
  /\ failures' = Bump(failures)
  /\ queued' \in {queued, queued /\ (~serving \/ stopped)}
  /\ wphase' = "beat"
  /\ UNCHANGED <<probes, idleCount, reason, starts, serving, life, known,
                 stopped, regLife>>

\* GET /task raises.  The request may have reached a coordinator, which then
\* has popped the task.
PollFailed ==
  /\ wphase = "poll"
  /\ idleCount' = Bump(idleCount)
  /\ failures' = Bump(failures)
  /\ queued' \in {queued, queued /\ (~serving \/ stopped)}
  /\ IF idleCount' > IdleLimit
       THEN End("lost")
       ELSE wphase' = "beat" /\ UNCHANGED reason
  /\ UNCHANGED <<probes, starts, serving, life, known, stopped, regLife>>

PollIdle ==
  /\ serving /\ ~stopped /\ ~queued
  /\ wphase = "poll"
  /\ idleCount' = Bump(idleCount)
  /\ failures' = 0
  /\ wphase' = "beat"
  /\ UNCHANGED <<probes, reason, starts, coordVars, regLife>>

PollTask ==
  /\ serving /\ ~stopped /\ queued
  /\ wphase = "poll"
  /\ queued' = FALSE
  /\ idleCount' = 0
  /\ failures' = 0
  /\ wphase' = "task"
  /\ UNCHANGED <<probes, reason, starts, serving, life, known, stopped, regLife>>

PollStop ==
  /\ serving /\ stopped
  /\ wphase = "poll"
  /\ End("stopped")
  /\ failures' = 0
  /\ UNCHANGED <<probes, idleCount, starts, coordVars, regLife>>

\* _execute_train_task returns, whatever became of the upload, or raises.
TaskEnds ==
  /\ wphase = "task"
  /\ \/ wphase' = "beat" /\ UNCHANGED reason
     \/ End("error")
  /\ UNCHANGED <<probes, idleCount, starts, coordVars, histVars>>
-----------------------------------------------------------------------------
WorkerStep ==
  \/ ProbeAnswered \/ ProbeFailed \/ Registered \/ RegisterFailed \/ Beat
  \/ PollFailed \/ PollIdle \/ PollTask \/ PollStop \/ TaskEnds

Next ==
  \/ StartCoordinator \/ EndCoordinator \/ PublishTask \/ FinishTraining
  \/ StartWorker \/ WorkerStep

Spec == Init /\ [][Next]_vars
\* The worker's process runs on; nothing is assumed of the coordinator.
FairSpec == Spec /\ WF_vars(WorkerStep)
-----------------------------------------------------------------------------
(* Properties *)

\* Every variable has its type; no health check follows the last one allowed.
TypeOK ==
  /\ wphase \in Running \cup {"exited"}
  /\ probes \in 0 .. ProbeLimit
  /\ idleCount \in 0 .. IdleLimit + 1
  /\ reason \in {"none", "unreachable", "error", "lost", "stopped"}
  /\ starts \in 0 .. MaxStarts
  /\ life \in 0 .. MaxLives
  /\ serving \in BOOLEAN /\ known \in BOOLEAN /\ queued \in BOOLEAN /\ stopped \in BOOLEAN
  /\ failures \in 0 .. IdleLimit + 1
  /\ regLife \in 0 .. life

\* A running worker never outlives more than IdleLimit failed polls in a row,
\* although idle answers and tasks move the same counter (worker.py:232-258).
OutageBounded == wphase \in Running => failures <= IdleLimit

\* Only a worker that has registered with this very coordinator process gets a
\* task: heartbeats of a worker from before a restart do not enter it
\* (server_api.py:73, coordinator.py:65).
TasksNeedRegistration ==
  [][wphase = "poll" /\ wphase' = "task" => regLife = life]_vars

\* When training is over or the coordinator is gone for good, the worker ends,
\* whatever requests fail on the way.
WorkerEnds == <>[](stopped \/ ~serving) => <>[](wphase = "exited")
=============================================================================
