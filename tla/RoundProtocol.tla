--------------------------- MODULE RoundProtocol ---------------------------
(***************************************************************************)
(* The federated round protocol of the distributed testbed (src/rpc): the  *)
(* coordinator's main thread, which runs the round loop, the HTTP server   *)
(* thread it shares its state with, and the workers that poll for tasks,   *)
(* train and upload over a network that loses and delays requests.         *)
(*                                                                         *)
(* The two threads of the coordinator interleave at every access to the    *)
(* shared CoordinatorState.  The server is one asyncio event loop: a       *)
(* handler body with no await is atomic with respect to other handlers,    *)
(* but not with respect to the main thread, which assigns pending_updates  *)
(* without the lock.  An upload is therefore two steps, HandleUpload and   *)
(* FinishUpload, with the request kept in `handler' while the lock is held.*)
(*                                                                         *)
(* handed, acked and ledger are history: no action reads them.             *)
(***************************************************************************)
EXTENDS Naturals, Sequences, FiniteSets

CONSTANTS
  Worker,           \* worker processes
  Client,           \* logical client ids
  Owns,             \* Owns[w]: the logical_client_ids worker w registers
  None,             \* the job of a worker that has none
  NumRounds,        \* experiment.num_rounds
  ClientsPerRound,  \* fl.clients_per_round
  ReserveWeak,      \* scheduler.enable_weak_client_reservation
  Weak,             \* clients with budget <= weak_client_threshold
  Dropped,          \* clients with budget <= drop_weak_budget_threshold
  DiscardLate,      \* runtime.discard_late_updates
  MaxRetries,       \* upload_retry.max_retries
  MaxRestarts       \* bound: restarts of each worker process

ASSUME WorkerAssumption == Owns \in [Worker -> SUBSET Client]
ASSUME ClientAssumption == Client \subseteq Nat
ASSUME ConfigAssumption ==
  /\ NumRounds \in Nat \ {0}
  /\ ClientsPerRound \in Nat \ {0}
  /\ MaxRetries \in Nat \ {0}
  /\ MaxRestarts \in Nat
  /\ Weak \subseteq Client /\ Dropped \subseteq Client
  /\ ReserveWeak \in BOOLEAN /\ DiscardLate \in BOOLEAN

Round == 0 .. NumRounds - 1

\* A task names a lease: plan_round makes at most one per client and round.
Task == [round : Round, client : Client]

\* What a worker makes of a task: base is the version of the adapter the delta
\* was computed from, miss the deadline_miss flag of the metadata.
Update == [round : Round, client : Client, base : Nat, miss : BOOLEAN]

TaskOf(u) == [round |-> u.round, client |-> u.client]

\* One POST /upload_update on the wire, and one inside the handler: dup is the
\* result of the look-up, reset tells that the main thread has since replaced
\* the list the look-up read.
Upload  == [update : Update, from : Worker, attempt : 1 .. MaxRetries]
Handled == [msg : Upload, dup : BOOLEAN, reset : BOOLEAN]

Phase == {"boot", "begin", "select", "plan", "publish", "wait", "collect",
          "aggregate", "serve", "end", "finish", "stopped", "down", "crashed"}
WorkerPhase == {"init", "beat", "poll", "fetch", "train", "send", "await",
                "exited"}
Busy == {"fetch", "train", "send", "await"}

VARIABLES
  phase,           \* the statement of the main thread's round loop
  round,           \* current_round
  workers,         \* keys of state.workers, in registration order
  online,          \* state.workers[w]["online"]
  roundTasks,      \* state.round_tasks: tasks queued for each worker
  pendingUpdates,  \* state.pending_updates
  selected,        \* clients sampled for this round
  leases,          \* clients the planner leased (expected_clients)
  completed,       \* clients wait_for_updates has seen an update of
  received,        \* position in pendingUpdates -> update taken to aggregation
  adapter,         \* version of global_adapter, the main thread's tensors
  served,          \* version of global_adapter_bytes, what GET serves
  stopped,         \* state.stopped
  handler,         \* the upload whose handler holds state.lock, as a set
  net,             \* uploads sent and neither lost nor handled
  wphase,          \* where each worker is in its loop
  job,             \* the task a worker executes
  attempt,         \* upload attempts of that task so far
  restarts,        \* restarts of each worker process so far
  handed,          \* history: how often each task left the coordinator
  acked,           \* history: tasks whose upload was answered with 200
  ledger           \* history: tasks each round's aggregation counted

coordVars  == <<selected, leases, completed, received, adapter, served>>
serverVars == <<workers, online, roundTasks, pendingUpdates, stopped, handler>>
workerVars == <<net, wphase, job, attempt, restarts>>
histVars   == <<handed, acked, ledger>>
vars == <<phase, round, coordVars, serverVars, workerVars, histVars>>

Init ==
  /\ phase = "boot"
  /\ round = 0
  /\ workers = <<>>
  /\ online = [w \in Worker |-> FALSE]
  /\ roundTasks = [w \in Worker |-> {}]
  /\ pendingUpdates = <<>>
  /\ selected = {}
  /\ leases = {}
  /\ completed = {}
  /\ received = <<>>
  /\ adapter = 0
  /\ served = 0
  /\ stopped = FALSE
  /\ handler = {}
  /\ net = {}
  /\ wphase = [w \in Worker |-> "init"]
  /\ job = [w \in Worker |-> None]
  /\ attempt = [w \in Worker |-> 0]
  /\ restarts = [w \in Worker |-> 0]
  /\ handed = [t \in Task |-> 0]
  /\ acked = {}
  /\ ledger = [r \in Round |-> {}]
-----------------------------------------------------------------------------
(* Coordinator: the round loop of the main thread. *)

Registered == {workers[i] : i \in DOMAIN workers}

AvailableClients == UNION {Owns[w] : w \in {v \in Registered : online[v]}}

\* Mutant of Serves: every worker that lists c serves it.
ServesAlso(w, c) == \E i \in DOMAIN workers : workers[i] = w /\ c \in Owns[w]

\* get_worker_for_client: w is the first registered worker that lists c,
\* whether or not it is online.
Serves(w, c) ==
  \E i \in DOMAIN workers :
    /\ workers[i] = w
    /\ c \in Owns[w]
    /\ \A j \in 1 .. i - 1 : c \notin Owns[workers[j]]

AtMost(m, n) == IF m < n THEN m ELSE n

\* What ClientSampler.sample can return: k clients without replacement, or a
\* quarter of them (at least one) from the weak ones when a place is reserved.
Samples(available) ==
  LET k == AtMost(ClientsPerRound, Cardinality(available))
      weak == available \cap Weak
      strong == available \ Weak
      numWeak == IF weak = {} THEN 0 ELSE IF k < 8 THEN 1 ELSE k \div 4
      fromWeak == AtMost(numWeak, Cardinality(weak))
      fromStrong == AtMost(k - numWeak, Cardinality(strong))
  IN  IF ReserveWeak
        THEN {S \in SUBSET available :
                /\ Cardinality(S \cap weak) = fromWeak
                /\ Cardinality(S \cap strong) = fromStrong}
        ELSE {S \in SUBSET available : Cardinality(S) = k}

\* The next iteration of the loop, or its end.
Advance ==
  IF round + 1 < NumRounds
    THEN round' = round + 1 /\ phase' = "begin"
    ELSE UNCHANGED round /\ phase' = "finish"

\* The wait for min_workers registrations ends, by their number or by timeout.
WorkersReady ==
  /\ phase = "boot"
  /\ phase' = "begin"
  /\ UNCHANGED <<round, coordVars, serverVars, workerVars, histVars>>

\* pending_updates = [], without the lock: a handler may be past its look-up.
\* received, a local the loop next assigns in Collect, is dead and is cleared.
BeginRound ==
  /\ phase = "begin"
  /\ phase' = "select"
  /\ pendingUpdates' = <<>>
  /\ received' = <<>>
  /\ handler' = {[h EXCEPT !.reset = TRUE] : h \in handler}
  /\ UNCHANGED <<round, selected, leases, completed, adapter, served, workers,
                 online, roundTasks, stopped, workerVars, histVars>>

Select ==
  /\ phase = "select"
  /\ AvailableClients # {}
  /\ \E S \in Samples(AvailableClients) :
       /\ selected' = S \ Dropped
       /\ IF S \ Dropped = {}
            THEN Advance
            ELSE phase' = "plan" /\ UNCHANGED round
  /\ UNCHANGED <<leases, completed, received, adapter, served, serverVars,
                 workerVars, histVars>>

\* No client became available within the round timeout.
SkipRound ==
  /\ phase = "select"
  /\ AvailableClients = {}
  /\ Advance
  /\ UNCHANGED <<coordVars, serverVars, workerVars, histVars>>

\* plan_round leases the clients the guard accepts, then the old tasks go.
Plan ==
  /\ phase = "plan"
  /\ handler = {}
  /\ \E S \in SUBSET selected : leases' = S
  /\ roundTasks' = [w \in Worker |-> {}]
  /\ phase' = "publish"
  /\ UNCHANGED <<round, selected, completed, received, adapter, served,
                 workers, online, pendingUpdates, stopped, handler, workerVars,
                 histVars>>

TasksFor(w) == {[round |-> round, client |-> c] : c \in {d \in leases : Serves(w, d)}}

Publish ==
  /\ phase = "publish"
  /\ handler = {}
  /\ roundTasks' = [w \in Worker |-> TasksFor(w)]
  /\ completed' = {}
  /\ phase' = "wait"
  /\ UNCHANGED <<round, selected, leases, received, adapter, served, workers,
                 online, pendingUpdates, stopped, handler, workerVars, histVars>>

\* The clients a poll of wait_for_updates recognises: only the client id is
\* compared, never the round of the update.
Seen == {pendingUpdates[i].client : i \in DOMAIN pendingUpdates} \cap leases

Poll ==
  /\ phase = "wait"
  /\ completed' = completed \cup Seen
  /\ phase' = IF completed' = leases THEN "collect" ELSE "wait"
  /\ UNCHANGED <<round, selected, leases, received, adapter, served,
                 serverVars, workerVars, histVars>>

\* Mutant of WaitTimeout: the wait gives up only if somebody has answered.
WaitTimeoutPartial ==
  /\ phase = "wait"
  /\ completed # {}
  /\ phase' = "collect"
  /\ UNCHANGED <<round, coordVars, serverVars, workerVars, histVars>>

WaitTimeout ==
  /\ phase = "wait"
  /\ phase' = "collect"
  /\ UNCHANGED <<round, coordVars, serverVars, workerVars, histVars>>

\* Mutant of Kept: late updates are dropped by round, at the second read only.
KeptOfRound(u) ==
  u.round = round /\ u.client \in (IF DiscardLate THEN completed ELSE leases)

\* The second read of pending_updates, after the last poll.
Kept(u) == u.client \in (IF DiscardLate THEN completed ELSE leases)

Collect ==
  /\ phase = "collect"
  /\ received' = [i \in {j \in DOMAIN pendingUpdates : Kept(pendingUpdates[j])}
                    |-> pendingUpdates[i]]
  /\ phase' = "aggregate"
  /\ UNCHANGED <<round, selected, leases, completed, adapter, served,
                 serverVars, workerVars, histVars>>

\* A received update counts unless it or the coordinator calls it a miss.
\* deadline_seconds is the same product for every lease of a run.
Counts(u) == ~u.miss /\ u.client \in completed

CountedTasks ==
  {TaskOf(received[i]) : i \in {j \in DOMAIN received : Counts(received[j])}}

\* aggregate_partial_deltas returns the adapter unchanged when nothing counts.
Aggregate ==
  /\ phase = "aggregate"
  /\ adapter' = IF CountedTasks = {} THEN adapter ELSE adapter + 1
  /\ ledger' = [ledger EXCEPT ![round] = CountedTasks]
  /\ phase' = "serve"
  /\ UNCHANGED <<round, selected, leases, completed, received, served,
                 serverVars, workerVars, handed, acked>>

\* Mutant of ServeAdapter: the bytes are not serialised again.
ServeOld ==
  /\ phase = "serve"
  /\ phase' = "end"
  /\ UNCHANGED <<round, coordVars, serverVars, workerVars, histVars>>

\* global_adapter_bytes is renewed only if some update was received.
ServeAdapter ==
  /\ phase = "serve"
  /\ served' = IF DOMAIN received = {} THEN served ELSE adapter
  /\ phase' = "end"
  /\ UNCHANGED <<round, selected, leases, completed, received, adapter,
                 serverVars, workerVars, histVars>>

\* Feedback, evaluation, metrics and checkpoint, then the next round.
EndRound ==
  /\ phase = "end"
  /\ Advance
  /\ UNCHANGED <<coordVars, serverVars, workerVars, histVars>>

Shutdown ==
  /\ phase = "finish"
  /\ phase' = "stopped"
  /\ stopped' = TRUE
  /\ UNCHANGED <<round, coordVars, workers, online, roundTasks, pendingUpdates,
                 handler, workerVars, histVars>>

\* 15 seconds later the process, and the daemon server thread with it, ends.
PowerOff ==
  /\ phase = "stopped"
  /\ phase' = "down"
  /\ handler' = {}
  /\ UNCHANGED <<round, coordVars, workers, online, roundTasks, pendingUpdates,
                 stopped, workerVars, histVars>>
-----------------------------------------------------------------------------
(* Server handlers, with the worker that calls them. *)

ServerUp == phase \notin {"down", "crashed"}

\* The event loop runs a handler only while no other one is inside the lock.
Serving == ServerUp /\ handler = {}

SetWorker(w, wp) == wphase' = [wphase EXCEPT ![w] = wp]

\* POST /register.  The answer may be lost: the worker does not catch the
\* exception and ends, registered and online.
Register(w, answered) ==
  /\ Serving
  /\ wphase[w] = "init"
  /\ workers' = IF w \in Registered THEN workers ELSE Append(workers, w)
  /\ online' = [online EXCEPT ![w] = TRUE]
  /\ SetWorker(w, IF answered THEN "beat" ELSE "exited")
  /\ UNCHANGED <<phase, round, coordVars, roundTasks, pendingUpdates, stopped,
                 handler, net, job, attempt, restarts, histVars>>

\* A new key while the main thread iterates over state.workers, which no lock
\* protects: "dictionary changed size during iteration" ends the coordinator.
RegisterRace(w) ==
  /\ Serving
  /\ wphase[w] = "init"
  /\ w \notin Registered
  /\ phase \in {"select", "publish"}
  /\ phase' = "crashed"
  /\ SetWorker(w, "exited")
  /\ UNCHANGED <<round, coordVars, serverVars, net, job, attempt, restarts,
                 histVars>>

\* POST /heartbeat with the worker's own view of its link.
Heartbeat(w, up) ==
  /\ Serving
  /\ wphase[w] = "beat"
  /\ online' = [online EXCEPT ![w] = up]
  /\ SetWorker(w, "poll")
  /\ UNCHANGED <<phase, round, coordVars, workers, roundTasks, pendingUpdates,
                 stopped, handler, net, job, attempt, restarts, histVars>>

\* A heartbeat that fails is logged and forgotten.
HeartbeatFailed(w) ==
  /\ wphase[w] = "beat"
  /\ SetWorker(w, "poll")
  /\ UNCHANGED <<phase, round, coordVars, serverVars, net, job, attempt,
                 restarts, histVars>>

\* tasks.pop(0): tasks are queued in the order of sorted client ids.
IsNext(w, t) ==
  /\ t \in roundTasks[w]
  /\ \A o \in roundTasks[w] : t.client <= o.client

\* Mutant of Remaining: the task is read, not popped.
RemainingAll(w, t) == roundTasks[w]

Remaining(w, t) == roundTasks[w] \ {t}

\* The worker's copy of the task: its metadata name the task's own round.
JobFor(t) == [round |-> t.round, client |-> t.client, base |-> 0, miss |-> FALSE]

\* GET /task takes the task off the queue, whether or not the answer arrives.
GetTask(w, t, answered) ==
  /\ Serving
  /\ ~stopped
  /\ wphase[w] = "poll"
  /\ IsNext(w, t)
  /\ roundTasks' = [roundTasks EXCEPT ![w] = Remaining(w, t)]
  /\ handed' = [handed EXCEPT ![t] = @ + 1]
  /\ IF answered
       THEN /\ job' = [job EXCEPT ![w] = JobFor(t)]
            /\ attempt' = [attempt EXCEPT ![w] = 0]
            /\ SetWorker(w, "fetch")
       ELSE SetWorker(w, "beat") /\ UNCHANGED <<job, attempt>>
  /\ UNCHANGED <<phase, round, coordVars, workers, online, pendingUpdates,
                 stopped, handler, net, restarts, acked, ledger>>

\* Nothing queued, or the request fails: poll again.
GetTaskIdle(w) ==
  /\ wphase[w] = "poll"
  /\ SetWorker(w, "beat")
  /\ UNCHANGED <<phase, round, coordVars, serverVars, net, job, attempt,
                 restarts, histVars>>

GetTaskStop(w) ==
  /\ Serving
  /\ stopped
  /\ wphase[w] = "poll"
  /\ SetWorker(w, "exited")
  /\ UNCHANGED <<phase, round, coordVars, serverVars, net, job, attempt,
                 restarts, histVars>>

\* GET /global_adapter at the start of _execute_train_task.
FetchAdapter(w) ==
  /\ Serving
  /\ wphase[w] = "fetch"
  /\ job' = [job EXCEPT ![w].base = served]
  /\ SetWorker(w, "train")
  /\ UNCHANGED <<phase, round, coordVars, serverVars, net, attempt, restarts,
                 histVars>>

\* The task is abandoned, as it is when the last upload attempt has failed.
Abandon(w) ==
  /\ job' = [job EXCEPT ![w] = None]
  /\ SetWorker(w, "beat")
  /\ UNCHANGED <<phase, round, coordVars, serverVars, net, attempt, restarts,
                 histVars>>

FetchFailed(w) == wphase[w] = "fetch" /\ Abandon(w)

\* Local training, with the deadline judged before the upload starts.
Train(w, late) ==
  /\ wphase[w] = "train"
  /\ job' = [job EXCEPT ![w].miss = late]
  /\ SetWorker(w, "send")
  /\ UNCHANGED <<phase, round, coordVars, serverVars, net, attempt, restarts,
                 histVars>>

\* One attempt of measure_upload_with_retry.
SendUpload(w) ==
  /\ wphase[w] = "send"
  /\ attempt' = [attempt EXCEPT ![w] = @ + 1]
  /\ net' = net \cup {[update |-> job[w], from |-> w, attempt |-> attempt[w] + 1]}
  /\ SetWorker(w, "await")
  /\ UNCHANGED <<phase, round, coordVars, serverVars, job, restarts, histVars>>

\* The attempt raises: a refused or reset connection, or the request timeout.
\* The request may still be on its way, or already handled.
AttemptFailed(w) ==
  /\ wphase[w] = "await"
  /\ IF attempt[w] < MaxRetries
       THEN /\ SetWorker(w, "send")
            /\ UNCHANGED <<phase, round, coordVars, serverVars, net, job,
                           attempt, restarts, histVars>>
       ELSE Abandon(w)

LoseUpload(m) ==
  /\ m \in net
  /\ net' = net \ {m}
  /\ UNCHANGED <<phase, round, coordVars, serverVars, wphase, job, attempt,
                 restarts, histVars>>

\* Mutants of IsDuplicate: the key is the client alone, or nothing is looked up.
SameClient(u) == \E i \in DOMAIN pendingUpdates : pendingUpdates[i].client = u.client
NeverDuplicate(u) == FALSE

\* upload_update compares (round, client_id) with the list it finds.
IsDuplicate(u) ==
  \E i \in DOMAIN pendingUpdates :
    /\ pendingUpdates[i].round = u.round
    /\ pendingUpdates[i].client = u.client

\* POST /upload_update takes the lock and looks the key up.
HandleUpload(m) ==
  /\ Serving
  /\ m \in net
  /\ net' = net \ {m}
  /\ handler' = {[msg |-> m, dup |-> IsDuplicate(m.update), reset |-> FALSE]}
  /\ UNCHANGED <<phase, round, coordVars, workers, online, roundTasks,
                 pendingUpdates, stopped, wphase, job, attempt, restarts,
                 histVars>>

\* It appends a new update and answers.  When the list was replaced meanwhile,
\* the append reaches the new list or the one nobody reads any more.
FinishUpload(h, answered) ==
  /\ h \in handler
  /\ handler' = {}
  /\ \/ /\ ~h.dup
        /\ pendingUpdates' = Append(pendingUpdates, h.msg.update)
     \/ /\ h.dup \/ h.reset
        /\ UNCHANGED pendingUpdates
  /\ acked' = acked \cup {TaskOf(h.msg.update)}
  /\ LET w == h.msg.from
         waits == wphase[w] = "await" /\ job[w] = h.msg.update
                    /\ attempt[w] = h.msg.attempt
     IN  IF answered /\ waits
           THEN SetWorker(w, "beat") /\ job' = [job EXCEPT ![w] = None]
           ELSE UNCHANGED <<wphase, job>>
  /\ UNCHANGED <<phase, round, coordVars, workers, online, roundTasks, stopped,
                 net, attempt, restarts, handed, ledger>>

\* POST /finish, called by hand.
Finish ==
  /\ Serving
  /\ ~stopped
  /\ stopped' = TRUE
  /\ UNCHANGED <<phase, round, coordVars, workers, online, roundTasks,
                 pendingUpdates, handler, workerVars, histVars>>
-----------------------------------------------------------------------------
(* Worker processes end and are started again. *)

\* An exception nothing catches, a kill, or an exit after too many failures.
Crash(w) ==
  /\ wphase[w] # "exited"
  /\ job' = [job EXCEPT ![w] = None]
  /\ SetWorker(w, "exited")
  /\ UNCHANGED <<phase, round, coordVars, serverVars, net, attempt, restarts,
                 histVars>>

Restart(w) ==
  /\ wphase[w] = "exited"
  /\ restarts[w] < MaxRestarts
  /\ restarts' = [restarts EXCEPT ![w] = @ + 1]
  /\ SetWorker(w, "init")
  /\ UNCHANGED <<phase, round, coordVars, serverVars, net, job, attempt,
                 histVars>>
-----------------------------------------------------------------------------
Coordinator ==
  \/ WorkersReady \/ BeginRound \/ Select \/ SkipRound \/ Plan \/ Publish
  \/ Poll \/ WaitTimeout \/ Collect \/ Aggregate \/ ServeAdapter \/ EndRound
  \/ Shutdown \/ PowerOff

WorkerStep(w) ==
  \/ \E answered \in BOOLEAN : Register(w, answered)
  \/ RegisterRace(w)
  \/ \E up \in BOOLEAN : Heartbeat(w, up)
  \/ HeartbeatFailed(w)
  \/ \E t \in roundTasks[w], answered \in BOOLEAN : GetTask(w, t, answered)
  \/ GetTaskIdle(w)
  \/ GetTaskStop(w)
  \/ FetchAdapter(w)
  \/ FetchFailed(w)
  \/ \E late \in BOOLEAN : Train(w, late)
  \/ SendUpload(w)
  \/ AttemptFailed(w)

Handler == \E h \in handler, answered \in BOOLEAN : FinishUpload(h, answered)

Next ==
  \/ Coordinator
  \/ \E w \in Worker : WorkerStep(w) \/ Crash(w) \/ Restart(w)
  \/ \E m \in net : HandleUpload(m) \/ LoseUpload(m)
  \/ Handler
  \/ Finish

Spec == Init /\ [][Next]_vars
\* The main thread always runs on, and a handler that holds the lock releases
\* it.  Nothing is assumed of the workers or of the network.
Fairness == WF_vars(Coordinator) /\ WF_vars(Handler)

FairSpec == Spec /\ Fairness
-----------------------------------------------------------------------------
(* Properties *)

\* Every variable has its type; a worker has a job exactly while it executes
\* one (the locals of _execute_train_task).
TypeOK ==
  /\ phase \in Phase
  /\ round \in Round
  /\ workers \in Seq(Worker)
  /\ online \in [Worker -> BOOLEAN]
  /\ roundTasks \in [Worker -> SUBSET Task]
  /\ pendingUpdates \in Seq(Update)
  /\ selected \subseteq Client
  /\ leases \subseteq Client
  /\ completed \subseteq Client
  /\ \A i \in DOMAIN received : received[i] \in Update
  /\ adapter \in Nat
  /\ served \in Nat
  /\ stopped \in BOOLEAN
  /\ handler \subseteq Handled
  /\ net \subseteq Upload
  /\ wphase \in [Worker -> WorkerPhase]
  /\ job \in [Worker -> Update \cup {None}]
  /\ \A w \in Worker : IF wphase[w] \in Busy THEN job[w] \in Update ELSE job[w] = None
  /\ attempt \in [Worker -> 0 .. MaxRetries]
  /\ restarts \in [Worker -> 0 .. MaxRestarts]
  /\ handed \in [Task -> Nat]
  /\ acked \subseteq Task
  /\ ledger \in [Round -> SUBSET Task]

\* A task leaves the coordinator at most once, whichever workers claim its
\* client, restart or poll between two rounds while old tasks are still queued
\* (server_api.py get_task, coordinator.py get_worker_for_client).
TaskHandedOnce == \A t \in Task : handed[t] <= 1

\* No two pending updates are of one (round, client), although look-up and
\* append straddle the main thread's unlocked reset (server_api.py
\* upload_update) and uploads are retried while earlier attempts are in flight.
PendingUnique ==
  \A i, j \in DOMAIN pendingUpdates :
    TaskOf(pendingUpdates[i]) = TaskOf(pendingUpdates[j]) => i = j

\* What is pending or was counted comes from a task that was handed out, in a
\* round that has begun: the metadata keep the round the task was made for.
NoOrphanUpdate ==
  /\ \A i \in DOMAIN pendingUpdates :
       /\ handed[TaskOf(pendingUpdates[i])] > 0
       /\ pendingUpdates[i].round <= round
  /\ \A r \in Round : \A t \in ledger[r] : handed[t] > 0 /\ t.round <= r

\* A delta of this round is added to the very adapter it was computed from,
\* however slow the worker's download was (coordinator.py 406-412: state and
\* served bytes are renewed together, after aggregation).
FreshBase ==
  phase = "aggregate" =>
    \A i \in DOMAIN received :
      received[i].round = round => received[i].base = adapter

\* wait_for_updates returns an update of every client it reports completed,
\* and with discard_late_updates none of a client it reports missed, although
\* it reads pending_updates again after the last poll.
ReceivedMatchesCompleted ==
  phase = "aggregate" =>
    LET clients == {received[i].client : i \in DOMAIN received}
    IN  /\ completed \subseteq clients
        /\ DiscardLate => clients \subseteq completed

\* An upload answered with "ok" in its own round is still pending in that round:
\* the reset loses only older ones, and an older update of the same client
\* never passes for a duplicate of it.
AckedKept ==
  \A t \in acked :
    t.round = round => \E i \in DOMAIN pendingUpdates : TaskOf(pendingUpdates[i]) = t

\* The round loop ends whatever the workers and the network do: every wait of
\* the main thread has a timeout.  "crashed" is the iteration race.
TrainingTerminates == <>(phase \in {"stopped", "crashed"})

\* configs/debug_local.yaml:15, "discard_late_updates: true": an aggregation
\* counts no update that was made for an earlier round.
LateUpdatesDiscarded ==
  DiscardLate => \A r \in Round : \A t \in ledger[r] : t.round = r

\* server_api.py:135, "Duplicate update ignored": an update that is uploaded
\* again after its round has ended is not aggregated a second time.
NoDoubleAggregation ==
  \A r, s \in Round : r # s => ledger[r] \cap ledger[s] = {}
-----------------------------------------------------------------------------
(* Refinement: the ledger of leases, with every queue as one set. *)

Ledger == INSTANCE LeaseLedger WITH
  turn    <- round,
  offered <- UNION {roundTasks[w] : w \in Worker},
  taken   <- handed,
  counted <- ledger

\* Two threads, any number of workers and a lossy network still look like one
\* sequential ledger: no lease is in two queues, offered again once handed out
\* or offered outside its round, and each round counts once.
LedgerSpec == Ledger!LedgerSpec
=============================================================================
