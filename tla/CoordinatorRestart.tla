------------------------- MODULE CoordinatorRestart -------------------------
(***************************************************************************)
(* CoordinatorRecovery with the server and the workers around it: what the *)
(* threads of src/rpc/coordinator.py share (src/rpc/rpc/server_api.py)     *)
(* lives and dies with the process, while workers survive it with tasks of *)
(* the life before and go on polling, downloading and uploading, also      *)
(* before the checkpoint is loaded.                                        *)
(*                                                                         *)
(* One logical client, listed by every worker.  Handlers are atomic here;  *)
(* RoundProtocol models how they interleave with the main thread.          *)
(***************************************************************************)
EXTENDS CoordinatorRecovery

CONSTANT Worker  \* worker processes

\* A task is named by its round and by the start of the coordinator that made
\* it, which the code does not record; base is the adapter its delta was
\* computed from, None until that is downloaded.
Job == [round : Round, life : 1 .. MaxStarts, base : Seq(Round) \cup {None}]

VARIABLES
  stage,    \* of an iteration at "begin": "idle", "cleared" or "waiting"
  served,   \* the rounds in global_adapter_bytes
  known,    \* keys of state.workers, in registration order
  queue,    \* round_tasks: the workers with a task queued, as [worker, job]
  pending,  \* pending_updates, a set: their keys are unique
  job       \* what each worker process executes

shared == <<served, known, queue, pending>>
net == <<stage, shared, job>>

RestartInit ==
  /\ Init
  /\ stage = "idle"
  /\ served = <<>>
  /\ known = <<>>
  /\ queue = {}
  /\ pending = {}
  /\ job = [w \in Worker |-> None]

\* A new CoordinatorState around the model's initial adapter.
NewState ==
  /\ stage' = "idle"
  /\ served' = <<>>
  /\ known' = <<>>
  /\ queue' = {}
  /\ pending' = {}
  /\ UNCHANGED job

\* The server answers from here on, before the checkpoint is loaded.
Start == StartCoordinator /\ NewState

\* Mutant of Load: the bytes that are served are not renewed.
LoadStateOnly == Resume /\ UNCHANGED net

Load == Resume /\ served' = adapter' /\ UNCHANGED <<stage, known, queue, pending, job>>

StartFresh == (Fresh \/ ResumeFails) /\ UNCHANGED net

\* pending_updates = []
Clear ==
  /\ step = "begin" /\ stage = "idle"
  /\ InLoop
  /\ pending' = {}
  /\ stage' = "cleared"
  /\ UNCHANGED <<vars, served, known, queue, job>>

\* No client available, or none left: the queues stay as they are.
Skip == stage = "cleared" /\ SkipRound /\ stage' = "idle" /\ UNCHANGED <<shared, job>>

NewJob == [round |-> round, life |-> starts, base |-> None]

\* The lease goes to the first registered worker, in queues that are new.
Publish ==
  /\ stage = "cleared"
  /\ known # <<>>
  /\ queue' = {[worker |-> Head(known), job |-> NewJob]}
  /\ stage' = "waiting"
  /\ UNCHANGED <<vars, served, known, pending, job>>

\* The guard rejects the only client: nothing is awaited and nothing counts.
Reject ==
  /\ stage = "cleared"
  /\ known # <<>>
  /\ Aggregate
  /\ adapter' = adapter
  /\ queue' = {}
  /\ stage' = "idle"
  /\ UNCHANGED <<served, known, pending, job>>

\* The wait ends, by an update or by timeout.  Any update of the client counts
\* that is in time; the bytes are renewed if one was received.
Combine ==
  /\ stage = "waiting"
  /\ Aggregate
  /\ \E received \in {{}, pending} : \E counted \in SUBSET received :
       /\ adapter' = IF counted = {} THEN adapter ELSE Append(adapter, round)
       /\ served' = IF received = {} THEN served ELSE adapter'
  /\ stage' = "idle"
  /\ UNCHANGED <<known, queue, pending, job>>

\* The rest of an iteration, and the end of the loop.
Conclude ==
  /\ stage = "idle"
  /\ \/ UpdateFeedback \/ NoSave \/ OpenRoundFile \/ CloseRoundFile \/ OpenLatest
     \/ CloseLatest \/ EndTraining
  /\ UNCHANGED net

\* The process ends, and with it what it shared.
Stop == Crash /\ NewState
-----------------------------------------------------------------------------
(* Workers, and the handlers they call. *)

ServerUp == step \notin {"down", "failed"}

SetJob(w, j) == job' = [job EXCEPT ![w] = j]

\* A worker process starts and registers; what an earlier one did is lost.
Register(w) ==
  /\ ServerUp
  /\ known' = IF \E i \in DOMAIN known : known[i] = w THEN known ELSE Append(known, w)
  /\ SetJob(w, None)
  /\ UNCHANGED <<vars, stage, served, queue, pending>>

\* GET /task pops the task, whether or not the answer arrives.
GetTask(w, answered) ==
  /\ ServerUp /\ step # "done"
  /\ job[w] = None
  /\ \E q \in queue :
       /\ q.worker = w
       /\ queue' = queue \ {q}
       /\ IF answered THEN SetJob(w, q.job) ELSE UNCHANGED job
  /\ UNCHANGED <<vars, stage, served, known, pending>>

\* GET /global_adapter
FetchAdapter(w) ==
  /\ ServerUp
  /\ job[w] # None /\ job[w].base = None
  /\ job' = [job EXCEPT ![w].base = served]
  /\ UNCHANGED <<vars, stage, shared>>

\* upload_update looks up the round and the client, not the life.
IsDuplicate(j) == \E u \in pending : u.round = j.round

\* POST /upload_update.  A lost answer leaves the worker with attempts to make.
Upload(w, answered) ==
  /\ ServerUp
  /\ job[w] # None /\ job[w].base # None
  /\ pending' = IF IsDuplicate(job[w]) THEN pending ELSE pending \cup {job[w]}
  /\ IF answered THEN SetJob(w, None) ELSE UNCHANGED job
  /\ UNCHANGED <<vars, stage, served, known, queue>>

\* A failed download, the last failed attempt, or the end of the process.
GiveUp(w) ==
  /\ job[w] # None
  /\ SetJob(w, None)
  /\ UNCHANGED <<vars, stage, shared>>

WorkerStep(w) ==
  \/ Register(w) \/ FetchAdapter(w) \/ GiveUp(w)
  \/ \E answered \in BOOLEAN : GetTask(w, answered) \/ Upload(w, answered)

RestartNext ==
  \/ Start \/ Load \/ StartFresh \/ Clear \/ Skip \/ Publish \/ Reject \/ Combine
  \/ Conclude \/ Stop
  \/ \E w \in Worker : WorkerStep(w)

RestartSpec == RestartInit /\ [][RestartNext]_<<vars, net>>
-----------------------------------------------------------------------------
(* Properties *)

\* Every variable has its type, and each worker and each key occurs once.
RestartTypeOK ==
  /\ TypeOK
  /\ stage \in {"idle", "cleared", "waiting"}
  /\ stage # "idle" => step = "begin" /\ InLoop
  /\ served \in Seq(Round)
  /\ known \in Seq(Worker)
  /\ \A i, j \in DOMAIN known : known[i] = known[j] => i = j
  /\ queue \subseteq [worker : Worker, job : Job]
  /\ pending \subseteq Job
  /\ \A u, v \in pending : u.round = v.round => u = v
  /\ job \in [Worker -> Job \cup {None}]

OfThisRound(j) == j.life = starts /\ j.round = round

\* However often the coordinator is restarted, an update made for this round in
\* this life is added to the adapter it was computed from, although the server
\* answers before the checkpoint is loaded (coordinator.py:188-204).
FreshBaseOfLife ==
  stage = "waiting" => \A u \in pending : OfThisRound(u) => u.base = adapter
=============================================================================
