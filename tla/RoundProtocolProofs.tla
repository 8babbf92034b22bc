------------------------ MODULE RoundProtocolProofs ------------------------
(***************************************************************************)
(* Theorems about RoundProtocol, for every set of workers and clients,     *)
(* number of rounds, retry limit and restart bound.                        *)
(***************************************************************************)
EXTENDS RoundInvariant, Integers, TLAPS

\* A task determines an update's round and client, and is a task.
LEMMA TaskOfTyped ==
  ASSUME NEW u \in Update
  PROVE  /\ TaskOf(u) \in Task
         /\ TaskOf(u).round = u.round
         /\ TaskOf(u).client = u.client
  BY DEF TaskOf, Update, Task

\* The next round is a round, and only the phases change besides it.
LEMMA AdvanceTyped ==
  ASSUME round \in Round, Advance
  PROVE  round' \in Round /\ phase' \in Phase
  BY ConfigAssumption DEF Advance, Round, Phase

\* The samples are drawn from the available clients, all of them logical ones.
LEMMA SamplesTyped ==
  ASSUME NEW S \in Samples(AvailableClients), workers \in Seq(Worker)
  PROVE  S \subseteq Client
<1>1. AvailableClients \subseteq Client
  BY WorkerAssumption DEF AvailableClients, Registered
<1>2. S \subseteq AvailableClients
  BY DEF Samples
<1> QED BY <1>1, <1>2

LEMMA InitTypeOK == Init => TypeOK
<1> SUFFICES ASSUME Init PROVE TypeOK
  OBVIOUS
<1> USE ConfigAssumption DEF Init
<1>1. phase \in Phase /\ round \in Round
  BY DEF Phase, Round
<1>2. handed \in [Task -> Nat] /\ ledger \in [Round -> SUBSET Task] /\ acked \subseteq Task
  OBVIOUS
<1>3. \A w \in Worker : wphase[w] \in WorkerPhase /\ wphase[w] \notin Busy /\ job[w] = None
  BY DEF WorkerPhase, Busy
<1>4. workers \in Seq(Worker) /\ pendingUpdates \in Seq(Update)
  OBVIOUS
<1>5. \A i \in DOMAIN received : received[i] \in Update
  OBVIOUS
<1>6. wphase \in [Worker -> WorkerPhase]
  BY DEF WorkerPhase
<1>7. attempt \in [Worker -> 0 .. MaxRetries] /\ restarts \in [Worker -> 0 .. MaxRestarts]
  OBVIOUS
<1>8. job \in [Worker -> Update \cup {None}]
  OBVIOUS
<1>9. /\ online \in [Worker -> BOOLEAN]
      /\ roundTasks \in [Worker -> SUBSET Task]
      /\ selected \subseteq Client
      /\ leases \subseteq Client
      /\ completed \subseteq Client
      /\ adapter \in Nat /\ served \in Nat
      /\ stopped \in BOOLEAN
      /\ handler \subseteq Handled
      /\ net \subseteq Upload
  OBVIOUS
<1> QED BY <1>1, <1>2, <1>3, <1>4, <1>5, <1>6, <1>7, <1>8, <1>9 DEF TypeOK

\* Every step keeps the types.  The retry counter needs RetryInv: the loop of
\* measure_upload_with_retry is what bounds it, not a guard of the sending step.
LEMMA NextTypeOK ==
  ASSUME TypeOK, RetryInv, [Next]_vars
  PROVE  TypeOK' /\ RetryInv'
<1> USE DEF TypeOK, RetryInv, SetWorker, coordVars, serverVars, workerVars, histVars
<1>1. CASE WorkersReady
  BY <1>1 DEF WorkersReady, Phase
<1>2. CASE BeginRound
  <2>1. handler' \subseteq Handled
    BY <1>2 DEF BeginRound, Handled
  <2>2. pendingUpdates' \in Seq(Update) /\ \A i \in DOMAIN received' : received'[i] \in Update
    BY <1>2 DEF BeginRound
  <2> QED BY <1>2, <2>1, <2>2 DEF BeginRound, Phase
<1>3. CASE Select
  <2>1. PICK S \in Samples(AvailableClients) :
               /\ selected' = S \ Dropped
               /\ IF S \ Dropped = {} THEN Advance ELSE phase' = "plan" /\ UNCHANGED round
    BY <1>3 DEF Select
  <2>2. selected' \subseteq Client
    BY <2>1, SamplesTyped
  <2>3. round' \in Round /\ phase' \in Phase
    BY <2>1, AdvanceTyped DEF Phase
  <2> QED BY <1>3, <2>2, <2>3 DEF Select
<1>4. CASE SkipRound
  BY <1>4, AdvanceTyped DEF SkipRound
<1>5. CASE Plan
  BY <1>5 DEF Plan, Phase
<1>6. CASE Publish
  <2>1. \A w \in Worker : TasksFor(w) \subseteq Task
    BY DEF TasksFor, Task
  <2>2. roundTasks' \in [Worker -> SUBSET Task]
    BY <1>6, <2>1 DEF Publish
  <2> QED BY <1>6, <2>2 DEF Publish, Phase
<1>7. CASE Poll
  BY <1>7 DEF Poll, Phase, Seen
<1>8. CASE WaitTimeout
  BY <1>8 DEF WaitTimeout, Phase
<1>9. CASE Collect
  BY <1>9 DEF Collect, Phase
<1>10. CASE Aggregate
  <2>1. CountedTasks \subseteq Task
    BY TaskOfTyped DEF CountedTasks
  <2>2. ledger' \in [Round -> SUBSET Task]
    BY <1>10, <2>1 DEF Aggregate
  <2> QED BY <1>10, <2>2 DEF Aggregate, Phase
<1>11. CASE ServeAdapter
  BY <1>11 DEF ServeAdapter, Phase
<1>12. CASE EndRound
  BY <1>12, AdvanceTyped DEF EndRound
<1>13. CASE Shutdown
  BY <1>13 DEF Shutdown, Phase
<1>14. CASE PowerOff
  BY <1>14 DEF PowerOff, Phase
<1>15. ASSUME NEW w \in Worker, NEW answered \in BOOLEAN, Register(w, answered) PROVE TypeOK' /\ RetryInv'
  BY <1>15, ConfigAssumption DEF Register, WorkerPhase, Busy
<1>16. ASSUME NEW w \in Worker, RegisterRace(w) PROVE TypeOK' /\ RetryInv'
  BY <1>16, ConfigAssumption DEF RegisterRace, WorkerPhase, Busy, Phase
<1>17. ASSUME NEW w \in Worker, NEW up \in BOOLEAN, Heartbeat(w, up) PROVE TypeOK' /\ RetryInv'
  BY <1>17, ConfigAssumption DEF Heartbeat, WorkerPhase, Busy
<1>18. ASSUME NEW w \in Worker, HeartbeatFailed(w) PROVE TypeOK' /\ RetryInv'
  BY <1>18, ConfigAssumption DEF HeartbeatFailed, WorkerPhase, Busy
<1>19. ASSUME NEW w \in Worker, NEW t \in roundTasks[w], NEW answered \in BOOLEAN, GetTask(w, t, answered) PROVE TypeOK' /\ RetryInv'
  <2>1. t \in Task /\ JobFor(t) \in Update
    BY DEF JobFor, Task, Update
  <2>2. roundTasks' \in [Worker -> SUBSET Task] /\ handed' \in [Task -> Nat]
    BY <1>19, <2>1 DEF GetTask, Remaining
  <2>3. CASE answered
    <3>1. /\ job' = [job EXCEPT ![w] = JobFor(t)]
          /\ attempt' = [attempt EXCEPT ![w] = 0]
          /\ wphase' = [wphase EXCEPT ![w] = "fetch"]
      BY <1>19, <2>3 DEF GetTask
    <3>2. /\ job' \in [Worker -> Update \cup {None}]
          /\ attempt' \in [Worker -> 0 .. MaxRetries]
          /\ wphase' \in [Worker -> WorkerPhase]
      BY <2>1, <3>1, ConfigAssumption DEF WorkerPhase
    <3>3. /\ RetryInv'
          /\ \A v \in Worker : IF wphase'[v] \in Busy THEN job'[v] \in Update ELSE job'[v] = None
      BY <2>1, <3>1, ConfigAssumption DEF Busy
    <3> QED BY <1>19, <2>2, <3>2, <3>3 DEF GetTask
  <2>4. CASE ~answered
    BY <1>19, <2>2, <2>4 DEF GetTask, WorkerPhase, Busy
  <2> QED BY <2>3, <2>4
<1>20. ASSUME NEW w \in Worker, GetTaskIdle(w) PROVE TypeOK' /\ RetryInv'
  BY <1>20, ConfigAssumption DEF GetTaskIdle, WorkerPhase, Busy
<1>21. ASSUME NEW w \in Worker, GetTaskStop(w) PROVE TypeOK' /\ RetryInv'
  BY <1>21, ConfigAssumption DEF GetTaskStop, WorkerPhase, Busy
<1>22. ASSUME NEW w \in Worker, FetchAdapter(w) PROVE TypeOK' /\ RetryInv'
  BY <1>22, ConfigAssumption DEF FetchAdapter, Update, WorkerPhase, Busy
<1>23. ASSUME NEW w \in Worker, FetchFailed(w) PROVE TypeOK' /\ RetryInv'
  BY <1>23, ConfigAssumption DEF FetchFailed, Abandon, WorkerPhase, Busy
<1>24. ASSUME NEW w \in Worker, NEW late \in BOOLEAN, Train(w, late) PROVE TypeOK' /\ RetryInv'
  <2>1. job[w] \in Update /\ job'[w] = [job[w] EXCEPT !.miss = late]
    BY <1>24 DEF Train, Busy
  <2>2. job'[w] \in Update
    BY <2>1 DEF Update
  <2>3. \A v \in Worker : v # w => job'[v] = job[v] /\ wphase'[v] = wphase[v]
    BY <1>24 DEF Train
  <2>4. wphase' \in [Worker -> WorkerPhase] /\ wphase'[w] = "send"
    BY <1>24 DEF Train, WorkerPhase
  <2>5. job' \in [Worker -> Update \cup {None}]
    BY <1>24, <2>2 DEF Train
  <2> QED BY <1>24, <2>2, <2>3, <2>4, <2>5 DEF Train, Busy
<1>25. ASSUME NEW w \in Worker, SendUpload(w) PROVE TypeOK' /\ RetryInv'
  BY <1>25, ConfigAssumption DEF SendUpload, Upload, WorkerPhase, Busy
<1>26. ASSUME NEW w \in Worker, AttemptFailed(w) PROVE TypeOK' /\ RetryInv'
  BY <1>26, ConfigAssumption DEF AttemptFailed, Abandon, WorkerPhase, Busy
<1>27. ASSUME NEW w \in Worker, Crash(w) PROVE TypeOK' /\ RetryInv'
  BY <1>27, ConfigAssumption DEF Crash, WorkerPhase, Busy
<1>28. ASSUME NEW w \in Worker, Restart(w) PROVE TypeOK' /\ RetryInv'
  BY <1>28, ConfigAssumption DEF Restart, WorkerPhase, Busy
<1>29. ASSUME NEW m \in net, HandleUpload(m) PROVE TypeOK' /\ RetryInv'
  <2>1. handler' \subseteq Handled
    <3>1. IsDuplicate(m.update) \in BOOLEAN
      BY DEF IsDuplicate
    <3> QED BY <1>29, <3>1 DEF HandleUpload, Handled
  <2> QED BY <1>29, <2>1 DEF HandleUpload
<1>30. ASSUME NEW m \in net, LoseUpload(m) PROVE TypeOK' /\ RetryInv'
  BY <1>30, ConfigAssumption DEF LoseUpload, Upload
<1>31. ASSUME NEW h \in handler, NEW answered \in BOOLEAN, FinishUpload(h, answered) PROVE TypeOK' /\ RetryInv'
  <2>1. h.msg.update \in Update /\ TaskOf(h.msg.update) \in Task
    BY TaskOfTyped DEF Handled, Upload
  <2>2. pendingUpdates' \in Seq(Update) /\ acked' \subseteq Task
    <3>1. Append(pendingUpdates, h.msg.update) \in Seq(Update)
      BY <2>1
    <3>2. pendingUpdates' \in Seq(Update)
      BY <1>31, <3>1 DEF FinishUpload
    <3> QED BY <1>31, <2>1, <3>2 DEF FinishUpload
  <2>3. /\ wphase' \in [Worker -> WorkerPhase]
        /\ job' \in [Worker -> Update \cup {None}]
        /\ \A w \in Worker : IF wphase'[w] \in Busy THEN job'[w] \in Update ELSE job'[w] = None
        /\ RetryInv'
    BY <1>31 DEF FinishUpload, WorkerPhase, Busy
  <2> QED BY <1>31, <2>2, <2>3 DEF FinishUpload
<1>32. CASE Finish
  BY <1>32 DEF Finish
<1>33. CASE UNCHANGED vars
  BY <1>33 DEF vars
<1> QED BY <1>1, <1>2, <1>3, <1>4, <1>5, <1>6, <1>7, <1>8, <1>9, <1>10, <1>11, <1>12, <1>13, <1>14, <1>15, <1>16, <1>17, <1>18, <1>19, <1>20, <1>21, <1>22, <1>23, <1>24, <1>25, <1>26, <1>27, <1>28, <1>29, <1>30, <1>31, <1>32, <1>33
     DEF Next, Coordinator, WorkerStep, Handler
-----------------------------------------------------------------------------
(* How the round, the phase and the handed-out tasks evolve. *)

\* The round changes only by Advance, to the next one; within a round the tasks
\* once published stay so.
LEMMA RoundStep ==
  ASSUME [Next]_vars, round \in Round
  PROVE  \/ round' = round /\ (phase \in Published => phase' \in Published)
         \/ round' = round + 1 /\ phase' = "begin"
<1> USE DEF Published, coordVars, serverVars, workerVars, histVars
<1>1. CASE Select \/ SkipRound \/ EndRound
  BY <1>1 DEF Select, SkipRound, EndRound, Advance
<1>2. CASE WorkersReady \/ BeginRound \/ Plan \/ Publish \/ Poll \/ WaitTimeout
  BY <1>2 DEF WorkersReady, BeginRound, Plan, Publish, Poll, WaitTimeout
<1>3. CASE Collect \/ Aggregate \/ ServeAdapter \/ Shutdown \/ PowerOff
  BY <1>3 DEF Collect, Aggregate, ServeAdapter, Shutdown, PowerOff
<1>4. ASSUME NEW w \in Worker, WorkerStep(w) \/ Crash(w) \/ Restart(w)
      PROVE  round' = round /\ (phase' = phase \/ phase' = "crashed")
  BY <1>4 DEF WorkerStep, Register, RegisterRace, Heartbeat, HeartbeatFailed,
              GetTask, GetTaskIdle, GetTaskStop, FetchAdapter, FetchFailed,
              Abandon, Train, SendUpload, AttemptFailed, Crash, Restart
<1>5. CASE Handler \/ Finish \/ \E m \in net : HandleUpload(m) \/ LoseUpload(m)
  BY <1>5 DEF Handler, FinishUpload, Finish, HandleUpload, LoseUpload
<1>6. CASE UNCHANGED vars
  BY <1>6 DEF vars
<1> QED BY <1>1, <1>2, <1>3, <1>4, <1>5, <1>6 DEF Next, Coordinator

\* A round at which tasks may be out stays one.
LEMMA KnownStep ==
  ASSUME [Next]_vars, round \in Round, NEW r \in Round, Known(r)
  PROVE  Known(r)'
<1>1. /\ round \in Nat /\ r \in Nat
      /\ r <= round /\ (r = round => phase \in Published)
  BY ConfigAssumption DEF Known, Round
<1>2. CASE round' = round /\ (phase \in Published => phase' \in Published)
  BY <1>1, <1>2 DEF Known
<1>3. CASE round' = round + 1 /\ phase' = "begin"
  BY <1>1, <1>3 DEF Known
<1> QED BY <1>2, <1>3, RoundStep

\* Only GET /task hands tasks out, and it takes none back.
LEMMA HandedStep ==
  ASSUME [Next]_vars
  PROVE  \/ handed' = handed
         \/ \E w \in Worker : \E t \in roundTasks[w], answered \in BOOLEAN :
              GetTask(w, t, answered)
<1> USE DEF coordVars, serverVars, workerVars, histVars
<1>1. CASE Coordinator
  BY <1>1 DEF Coordinator, WorkersReady, BeginRound, Select, SkipRound, Plan,
              Publish, Poll, WaitTimeout, Collect, Aggregate, ServeAdapter,
              EndRound, Shutdown, PowerOff
<1>2. ASSUME NEW w \in Worker, WorkerStep(w) \/ Crash(w) \/ Restart(w)
      PROVE  \/ handed' = handed
             \/ \E t \in roundTasks[w], answered \in BOOLEAN : GetTask(w, t, answered)
  BY <1>2 DEF WorkerStep, Register, RegisterRace, Heartbeat, HeartbeatFailed,
              GetTaskIdle, GetTaskStop, FetchAdapter, FetchFailed, Abandon,
              Train, SendUpload, AttemptFailed, Crash, Restart
<1>3. CASE Handler \/ Finish \/ \E m \in net : HandleUpload(m) \/ LoseUpload(m)
  BY <1>3 DEF Handler, FinishUpload, Finish, HandleUpload, LoseUpload
<1>4. CASE UNCHANGED vars
  BY <1>4 DEF vars
<1> QED BY <1>1, <1>2, <1>3, <1>4 DEF Next

LEMMA HandedGrows ==
  ASSUME TypeOK, [Next]_vars, NEW t \in Task, handed[t] > 0
  PROVE  handed'[t] > 0
<1>1. CASE handed' = handed
  BY <1>1
<1>2. ASSUME NEW w \in Worker, NEW o \in roundTasks[w], NEW answered \in BOOLEAN,
             GetTask(w, o, answered)
      PROVE  handed'[t] > 0
  BY <1>2 DEF GetTask, TypeOK
<1> QED BY <1>1, <1>2, HandedStep
-----------------------------------------------------------------------------
(* Queues *)

\* A client has one first owner.
LEMMA ServesUnique ==
  ASSUME workers \in Seq(Worker), NEW v \in Worker, NEW w \in Worker, NEW c \in Client,
         Serves(v, c), Serves(w, c)
  PROVE  v = w
<1>1. PICK i \in DOMAIN workers :
        workers[i] = v /\ c \in Owns[v] /\ \A j \in 1 .. i - 1 : c \notin Owns[workers[j]]
  BY DEF Serves
<1>2. PICK k \in DOMAIN workers :
        workers[k] = w /\ c \in Owns[w] /\ \A j \in 1 .. k - 1 : c \notin Owns[workers[j]]
  BY DEF Serves
<1>3. i \in Nat /\ k \in Nat /\ i >= 1 /\ k >= 1
  OBVIOUS
<1>4. ~(i < k) /\ ~(k < i)
  BY <1>1, <1>2, <1>3
<1> QED BY <1>1, <1>2, <1>3, <1>4

\* The queues are touched by the planner's reset, the publication and GET /task.
LEMMA QueueStep ==
  ASSUME [Next]_vars
  PROVE  \/ UNCHANGED roundTasks /\ phase' # "publish"
         \/ UNCHANGED <<roundTasks, phase>>
         \/ Plan
         \/ Publish
         \/ \E w \in Worker : \E t \in roundTasks[w], answered \in BOOLEAN :
              GetTask(w, t, answered)
<1> USE DEF coordVars, serverVars, workerVars, histVars
<1>1. CASE Coordinator
  BY <1>1 DEF Coordinator, WorkersReady, BeginRound, Select, SkipRound, Advance,
              Poll, WaitTimeout, Collect, Aggregate, ServeAdapter, EndRound,
              Shutdown, PowerOff
<1>2. ASSUME NEW w \in Worker, WorkerStep(w) \/ Crash(w) \/ Restart(w)
      PROVE  \/ UNCHANGED roundTasks /\ phase' # "publish"
             \/ UNCHANGED <<roundTasks, phase>>
             \/ \E t \in roundTasks[w], answered \in BOOLEAN : GetTask(w, t, answered)
  BY <1>2 DEF WorkerStep, Register, RegisterRace, Heartbeat, HeartbeatFailed,
              GetTaskIdle, GetTaskStop, FetchAdapter, FetchFailed, Abandon,
              Train, SendUpload, AttemptFailed, Crash, Restart
<1>3. CASE Handler \/ Finish \/ \E m \in net : HandleUpload(m) \/ LoseUpload(m)
  BY <1>3 DEF Handler, FinishUpload, Finish, HandleUpload, LoseUpload
<1>4. CASE UNCHANGED vars
  BY <1>4 DEF vars
<1> QED BY <1>1, <1>2, <1>3, <1>4 DEF Next

\* A task is handed out from one queue, which loses it, and a round's tasks are
\* published once: no task is queued after it was handed out.
LEMMA NextQueueInv ==
  ASSUME TypeOK, TypeOK', QueueInv, HandedInv, [Next]_vars
  PROVE  QueueInv' /\ HandedInv'
<1>1. \A r \in Round : Known(r) => Known(r)'
  BY KnownStep DEF TypeOK
<1>2. \A t \in Task : t.round \in Round
  BY DEF Task
<1>3. CASE handed' = handed /\ UNCHANGED roundTasks /\ (phase' = "publish" => phase = "publish")
  BY <1>1, <1>2, <1>3 DEF QueueInv, HandedInv, TaskHandedOnce, TypeOK
<1>4. CASE Plan
  <2>1. handed' = handed /\ roundTasks' = [w \in Worker |-> {}]
    BY <1>4 DEF Plan, histVars
  <2> QED BY <1>1, <1>2, <2>1 DEF QueueInv, HandedInv, TaskHandedOnce, TypeOK
<1>5. CASE Publish
  <2>1. /\ handed' = handed /\ round' = round /\ phase = "publish" /\ phase' = "wait"
        /\ roundTasks' = [w \in Worker |-> TasksFor(w)]
    BY <1>5 DEF Publish, histVars
  <2>2. ASSUME NEW w \in Worker, NEW t \in TasksFor(w)
        PROVE  t \in Task /\ t.round = round /\ Serves(w, t.client) /\ t.client \in Client
    BY DEF TasksFor, Task, TypeOK
  <2>3. ASSUME NEW w \in Worker, NEW t \in TasksFor(w)
        PROVE  handed'[t] = 0 /\ Known(t.round)'
    <3>1. ~Known(round)
      BY <2>1 DEF Known, Published
    <3>2. ~(handed[t] > 0)
      BY <2>2, <3>1 DEF HandedInv
    <3>3. handed[t] \in Nat
      BY <2>2 DEF TypeOK
    <3>4. t.round = round /\ round \in Nat
      BY <2>2, ConfigAssumption DEF TypeOK, Round
    <3> QED BY <2>1, <3>2, <3>3, <3>4 DEF Known, Published
  <2>4. ASSUME NEW v \in Worker, NEW w \in Worker, v # w
        PROVE  TasksFor(v) \cap TasksFor(w) = {}
    BY <2>2, <2>4, ServesUnique DEF TypeOK
  <2>5. QueueInv'
    BY <2>1, <2>3, <2>4 DEF QueueInv
  <2>6. HandedInv'
    BY <1>1, <1>2, <2>1 DEF HandedInv, TaskHandedOnce, TypeOK
  <2> QED BY <2>5, <2>6
<1>6. ASSUME NEW w \in Worker, NEW t \in roundTasks[w], NEW answered \in BOOLEAN,
             GetTask(w, t, answered)
      PROVE  QueueInv' /\ HandedInv'
  <2>1. /\ roundTasks' = [roundTasks EXCEPT ![w] = roundTasks[w] \ {t}]
        /\ handed' = [handed EXCEPT ![t] = handed[t] + 1]
        /\ phase' = phase /\ round' = round
    BY <1>6 DEF GetTask, Remaining
  <2>2. t \in Task /\ handed[t] = 0 /\ Known(t.round)
    BY DEF QueueInv, TypeOK
  <2>3. handed'[t] = 1 /\ \A o \in Task : o # t => handed'[o] = handed[o]
    BY <2>1, <2>2 DEF TypeOK
  <2>4. HandedInv'
    <3>1. \A o \in Task : handed'[o] <= 1
      BY <2>3 DEF HandedInv, TaskHandedOnce
    <3>2. \A o \in Task : handed'[o] > 0 => Known(o.round)
      BY <2>2, <2>3 DEF HandedInv
    <3> QED BY <1>1, <1>2, <3>1, <3>2 DEF HandedInv, TaskHandedOnce
  <2>5. \A v \in Worker : roundTasks'[v] \subseteq roundTasks[v] /\ t \notin roundTasks'[v]
    BY <2>1 DEF QueueInv, TypeOK
  <2>6. \A v \in Worker : \A o \in roundTasks'[v] : handed'[o] = 0 /\ Known(o.round)'
    BY <1>1, <1>2, <2>3, <2>5 DEF QueueInv, TypeOK
  <2>7. \A u, v \in Worker : u # v => roundTasks'[u] \cap roundTasks'[v] = {}
    BY <2>5 DEF QueueInv
  <2>8. phase' = "publish" => \A v \in Worker : roundTasks'[v] = {}
    BY <2>1, <2>5 DEF QueueInv
  <2> QED BY <2>4, <2>6, <2>7, <2>8 DEF QueueInv
<1> QED BY <1>3, <1>4, <1>5, <1>6, QueueStep, HandedStep
-----------------------------------------------------------------------------
(* Carriers: jobs, requests, the handler and the list. *)

\* The list is replaced by BeginRound and grows by FinishUpload.
LEMMA PendingStep ==
  ASSUME [Next]_vars
  PROVE  \/ pendingUpdates' = pendingUpdates
         \/ BeginRound
         \/ \E h \in handler, answered \in BOOLEAN :
              /\ FinishUpload(h, answered)
              /\ pendingUpdates' = Append(pendingUpdates, h.msg.update)
<1> USE DEF coordVars, serverVars, workerVars, histVars
<1>1. CASE Coordinator
  BY <1>1 DEF Coordinator, WorkersReady, Select, SkipRound, Plan, Publish,
              Poll, WaitTimeout, Collect, Aggregate, ServeAdapter, EndRound,
              Shutdown, PowerOff
<1>2. ASSUME NEW w \in Worker, WorkerStep(w) \/ Crash(w) \/ Restart(w)
      PROVE  pendingUpdates' = pendingUpdates
  BY <1>2 DEF WorkerStep, Register, RegisterRace, Heartbeat, HeartbeatFailed,
              GetTask, GetTaskIdle, GetTaskStop, FetchAdapter, FetchFailed,
              Abandon, Train, SendUpload, AttemptFailed, Crash, Restart
<1>3. CASE Handler
  BY <1>3 DEF Handler, FinishUpload
<1>4. CASE Finish \/ \E m \in net : HandleUpload(m) \/ LoseUpload(m)
  BY <1>4 DEF Finish, HandleUpload, LoseUpload
<1>5. CASE UNCHANGED vars
  BY <1>5 DEF vars
<1> QED BY <1>1, <1>2, <1>3, <1>4, <1>5 DEF Next

\* One upload enters the lock, and it leaves it before the next one enters.
LEMMA HandlerStep ==
  ASSUME [Next]_vars
  PROVE  \/ handler' = handler
         \/ handler' = {}
         \/ BeginRound
         \/ \E m \in net : HandleUpload(m)
<1> USE DEF coordVars, serverVars, workerVars, histVars
<1>1. CASE Coordinator
  BY <1>1 DEF Coordinator, WorkersReady, Select, SkipRound, Plan, Publish,
              Poll, WaitTimeout, Collect, Aggregate, ServeAdapter, EndRound,
              Shutdown, PowerOff
<1>2. ASSUME NEW w \in Worker, WorkerStep(w) \/ Crash(w) \/ Restart(w)
      PROVE  handler' = handler
  BY <1>2 DEF WorkerStep, Register, RegisterRace, Heartbeat, HeartbeatFailed,
              GetTask, GetTaskIdle, GetTaskStop, FetchAdapter, FetchFailed,
              Abandon, Train, SendUpload, AttemptFailed, Crash, Restart
<1>3. CASE Handler
  BY <1>3 DEF Handler, FinishUpload
<1>4. CASE Finish \/ \E m \in net : HandleUpload(m) \/ LoseUpload(m)
  BY <1>4 DEF Finish, LoseUpload
<1>5. CASE UNCHANGED vars
  BY <1>5 DEF vars
<1> QED BY <1>1, <1>2, <1>3, <1>4, <1>5 DEF Next

\* Requests come from workers that send.
LEMMA NetStep ==
  ASSUME [Next]_vars
  PROVE  \A m \in net' :
           \/ m \in net
           \/ \E w \in Worker : wphase[w] = "send" /\ m.update = job[w]
<1> USE DEF coordVars, serverVars, workerVars, histVars
<1>1. CASE Coordinator
  BY <1>1 DEF Coordinator, WorkersReady, BeginRound, Select, SkipRound, Plan,
              Publish, Poll, WaitTimeout, Collect, Aggregate, ServeAdapter,
              EndRound, Shutdown, PowerOff
<1>2. ASSUME NEW w \in Worker, SendUpload(w)
      PROVE  \A m \in net' : m \in net \/ (wphase[w] = "send" /\ m.update = job[w])
  BY <1>2 DEF SendUpload
<1>3. ASSUME NEW w \in Worker, WorkerStep(w) \/ Crash(w) \/ Restart(w), ~SendUpload(w)
      PROVE  net' = net
  BY <1>3 DEF WorkerStep, Register, RegisterRace, Heartbeat, HeartbeatFailed,
              GetTask, GetTaskIdle, GetTaskStop, FetchAdapter, FetchFailed,
              Abandon, Train, AttemptFailed, Crash, Restart
<1>4. CASE Handler \/ Finish \/ \E m \in net : HandleUpload(m) \/ LoseUpload(m)
  BY <1>4 DEF Handler, FinishUpload, Finish, HandleUpload, LoseUpload
<1>5. CASE UNCHANGED vars
  BY <1>5 DEF vars
<1> QED BY <1>1, <1>2, <1>3, <1>4, <1>5 DEF Next, WorkerStep

\* How a worker comes by the job it has after a step.
GotTask(w) ==
  \E t \in roundTasks[w], answered \in BOOLEAN :
    /\ GetTask(w, t, answered)
    /\ wphase'[w] = "fetch"
    /\ job'[w] = JobFor(t)

GotAdapter(w) ==
  /\ wphase[w] = "fetch" /\ wphase'[w] = "train"
  /\ TaskOf(job'[w]) = TaskOf(job[w])
  /\ job'[w].base = served
  /\ UNCHANGED <<phase, round, adapter, served>>

KeepsJob(w) ==
  /\ wphase[w] \in Busy
  /\ wphase'[w] = "fetch" => wphase[w] = "fetch"
  /\ wphase'[w] \in {"train", "send", "await"} => wphase[w] \in {"train", "send", "await"}
  /\ TaskOf(job'[w]) = TaskOf(job[w])
  /\ job'[w].base = job[w].base

LEMMA JobStep ==
  ASSUME TypeOK, [Next]_vars, NEW v \in Worker, wphase'[v] \in Busy
  PROVE  GotTask(v) \/ GotAdapter(v) \/ KeepsJob(v)
<1> USE DEF coordVars, serverVars, workerVars, histVars, SetWorker
<1>1. CASE wphase'[v] = wphase[v] /\ job'[v] = job[v]
  BY <1>1 DEF KeepsJob
<1>2. CASE Coordinator
  BY <1>1, <1>2 DEF Coordinator, WorkersReady, BeginRound, Select, SkipRound,
              Plan, Publish, Poll, WaitTimeout, Collect, Aggregate,
              ServeAdapter, EndRound, Shutdown, PowerOff
<1>3. ASSUME NEW w \in Worker, WorkerStep(w) \/ Crash(w) \/ Restart(w), w # v
      PROVE  wphase'[v] = wphase[v] /\ job'[v] = job[v]
  BY <1>3 DEF WorkerStep, Register, RegisterRace, Heartbeat, HeartbeatFailed,
              GetTask, GetTaskIdle, GetTaskStop, FetchAdapter, FetchFailed,
              Abandon, Train, SendUpload, AttemptFailed, Crash, Restart, TypeOK
<1>4. ASSUME NEW t \in roundTasks[v], NEW answered \in BOOLEAN, GetTask(v, t, answered)
      PROVE  GotTask(v)
  BY <1>4 DEF GotTask, GetTask, TypeOK, Busy
<1>5. CASE FetchAdapter(v)
  <2>1. job[v] \in Update /\ job'[v] = [job[v] EXCEPT !.base = served]
    BY <1>5 DEF FetchAdapter, TypeOK, Busy
  <2>2. job'[v].base = served /\ TaskOf(job'[v]) = TaskOf(job[v])
    BY <2>1 DEF Update, TaskOf
  <2> QED BY <1>5, <2>2 DEF FetchAdapter, GotAdapter, TypeOK
<1>6. ASSUME NEW late \in BOOLEAN, Train(v, late)
      PROVE  KeepsJob(v)
  <2>1. job[v] \in Update /\ job'[v] = [job[v] EXCEPT !.miss = late]
    BY <1>6 DEF Train, TypeOK, Busy
  <2>2. job'[v].base = job[v].base /\ TaskOf(job'[v]) = TaskOf(job[v])
    BY <2>1 DEF Update, TaskOf
  <2> QED BY <1>6, <2>2 DEF Train, KeepsJob, TypeOK, Busy
<1>7. CASE SendUpload(v)
  BY <1>7 DEF SendUpload, KeepsJob, TypeOK, Busy
<1>8. CASE AttemptFailed(v)
  BY <1>8 DEF AttemptFailed, Abandon, KeepsJob, TypeOK, Busy
<1>9. ASSUME \/ \E answered \in BOOLEAN : Register(v, answered)
             \/ \E up \in BOOLEAN : Heartbeat(v, up)
             \/ RegisterRace(v) \/ HeartbeatFailed(v) \/ GetTaskIdle(v)
             \/ GetTaskStop(v) \/ FetchFailed(v) \/ Crash(v) \/ Restart(v)
      PROVE  FALSE
  BY <1>9 DEF Register, RegisterRace, Heartbeat, HeartbeatFailed, GetTaskIdle,
              GetTaskStop, FetchFailed, Abandon, Crash, Restart, TypeOK, Busy
<1>10. ASSUME NEW h \in handler, NEW answered \in BOOLEAN, FinishUpload(h, answered)
       PROVE  wphase'[v] = wphase[v] /\ job'[v] = job[v]
  BY <1>10 DEF FinishUpload, TypeOK, Busy
<1>11. CASE Finish \/ \E m \in net : HandleUpload(m) \/ LoseUpload(m)
  BY <1>1, <1>11 DEF Finish, HandleUpload, LoseUpload
<1>12. CASE UNCHANGED vars
  BY <1>1, <1>12 DEF vars
<1> QED BY <1>1, <1>2, <1>3, <1>4, <1>5, <1>6, <1>7, <1>8, <1>9, <1>10, <1>11, <1>12
       DEF Next, WorkerStep, Handler

\* Only FinishUpload answers an upload with "ok".
LEMMA AckedStep ==
  ASSUME [Next]_vars
  PROVE  \/ acked' = acked
         \/ \E h \in handler : \E answered \in BOOLEAN : FinishUpload(h, answered)
<1> USE DEF coordVars, serverVars, workerVars, histVars
<1>1. CASE Coordinator
  BY <1>1 DEF Coordinator, WorkersReady, BeginRound, Select, SkipRound, Plan,
              Publish, Poll, WaitTimeout, Collect, Aggregate, ServeAdapter,
              EndRound, Shutdown, PowerOff
<1>2. ASSUME NEW w \in Worker, WorkerStep(w) \/ Crash(w) \/ Restart(w)
      PROVE  acked' = acked
  BY <1>2 DEF WorkerStep, Register, RegisterRace, Heartbeat, HeartbeatFailed,
              GetTask, GetTaskIdle, GetTaskStop, FetchAdapter, FetchFailed,
              Abandon, Train, SendUpload, AttemptFailed, Crash, Restart
<1>3. CASE Handler
  BY <1>3 DEF Handler
<1>4. CASE Finish \/ \E m \in net : HandleUpload(m) \/ LoseUpload(m)
  BY <1>4 DEF Finish, HandleUpload, LoseUpload
<1>5. CASE UNCHANGED vars
  BY <1>5 DEF vars
<1> QED BY <1>1, <1>2, <1>3, <1>4, <1>5 DEF Next

\* An update names a task that was handed out, whatever carries it.
LEMMA NextCarrierInv ==
  ASSUME TypeOK, TypeOK', QueueInv, CarrierInv, [Next]_vars
  PROVE  CarrierInv'
<1>1. \A t \in Task : handed[t] > 0 => handed'[t] > 0
  BY HandedGrows
<1>2. ASSUME NEW u \in Update, HandedOut(u)
      PROVE  HandedOut(u)'
  BY <1>1, <1>2, TaskOfTyped DEF HandedOut
<1>3. ASSUME NEW v \in Worker, wphase'[v] \in Busy
      PROVE  HandedOut(job[v])'
  <2>1. CASE GotTask(v)
    <3>1. PICK t \in roundTasks[v], answered \in BOOLEAN :
                 GetTask(v, t, answered) /\ job'[v] = JobFor(t)
      BY <2>1 DEF GotTask
    <3>2. t \in Task
      BY DEF TypeOK
    <3>3. TaskOf(job'[v]) = t
      BY <3>1, <3>2 DEF TaskOf, JobFor, Task
    <3>4. handed'[t] = handed[t] + 1 /\ handed[t] = 0
      BY <3>1, <3>2 DEF GetTask, TypeOK, QueueInv
    <3> QED BY <3>3, <3>4 DEF HandedOut
  <2>2. CASE GotAdapter(v) \/ KeepsJob(v)
    <3>1. /\ wphase[v] \in Busy
          /\ TaskOf(job'[v]) = TaskOf(job[v])
      BY <2>2 DEF GotAdapter, KeepsJob, Busy
    <3>2. job[v] \in Update /\ HandedOut(job[v])
      BY <3>1 DEF TypeOK, CarrierInv
    <3> QED BY <1>2, <3>1, <3>2 DEF HandedOut
  <2> QED BY <1>3, <2>1, <2>2, JobStep
<1>4. ASSUME NEW m \in net'
      PROVE  HandedOut(m.update)'
  <2>1. CASE m \in net
    BY <1>2, <2>1 DEF TypeOK, CarrierInv, Upload
  <2>2. ASSUME NEW w \in Worker, wphase[w] = "send", m.update = job[w]
        PROVE  HandedOut(m.update)'
    BY <1>2, <2>2 DEF TypeOK, CarrierInv, Busy
  <2> QED BY <2>1, <2>2, NetStep
<1>5. \A h \in handler : h.msg.update \in Update /\ HandedOut(h.msg.update)
  BY DEF TypeOK, CarrierInv, Handled, Upload
<1>6. ASSUME NEW h \in handler'
      PROVE  HandedOut(h.msg.update)'
  <2>1. CASE handler' = handler
    BY <1>2, <1>5, <2>1
  <2>2. CASE BeginRound
    <3>1. PICK g \in handler : h = [g EXCEPT !.reset = TRUE]
      BY <2>2 DEF BeginRound
    <3>2. h.msg = g.msg
      BY <3>1 DEF TypeOK, Handled
    <3> QED BY <1>2, <1>5, <3>2
  <2>3. ASSUME NEW m \in net, HandleUpload(m)
        PROVE  HandedOut(h.msg.update)'
    <3>1. h.msg = m
      BY <2>3 DEF HandleUpload
    <3>2. m.update \in Update /\ HandedOut(m.update)
      BY DEF TypeOK, Upload, CarrierInv
    <3> QED BY <1>2, <3>1, <3>2
  <2> QED BY <2>1, <2>2, <2>3, HandlerStep
<1>7. ASSUME NEW i \in DOMAIN pendingUpdates'
      PROVE  HandedOut(pendingUpdates[i])'
  <2>1. CASE pendingUpdates' = pendingUpdates
    <3>1. pendingUpdates[i] \in Update /\ HandedOut(pendingUpdates[i])
      BY <2>1 DEF TypeOK, CarrierInv
    <3> QED BY <1>2, <2>1, <3>1 DEF HandedOut
  <2>2. CASE BeginRound
    BY <2>2 DEF BeginRound
  <2>3. ASSUME NEW h \in handler, pendingUpdates' = Append(pendingUpdates, h.msg.update)
        PROVE  HandedOut(pendingUpdates[i])'
    <3>1. pendingUpdates'[i] = h.msg.update
            \/ (i \in DOMAIN pendingUpdates /\ pendingUpdates'[i] = pendingUpdates[i])
      <4>1. /\ pendingUpdates \in Seq(Update) /\ h.msg.update \in Update
            /\ i \in 1 .. Len(pendingUpdates) + 1
        BY <1>5, <2>3 DEF TypeOK
      <4> QED BY <2>3, <4>1
    <3>2. \A j \in DOMAIN pendingUpdates : pendingUpdates[j] \in Update /\ HandedOut(pendingUpdates[j])
      BY DEF TypeOK, CarrierInv
    <3> QED BY <1>2, <1>5, <3>1, <3>2 DEF HandedOut
  <2> QED BY <2>1, <2>2, <2>3, PendingStep
<1>8. ASSUME NEW t \in acked'
      PROVE  handed'[t] > 0
  <2>1. CASE t \in acked
    BY <1>1, <2>1 DEF CarrierInv, TypeOK
  <2>2. ASSUME NEW h \in handler, t = TaskOf(h.msg.update)
        PROVE  handed'[t] > 0
    BY <1>2, <1>5, <2>2 DEF HandedOut
  <2> QED BY <2>1, <2>2, AckedStep DEF FinishUpload
<1> QED BY <1>3, <1>4, <1>6, <1>7, <1>8 DEF CarrierInv

\* Nothing handed out is of the current round until that round is published.
LEMMA OldRound ==
  ASSUME TypeOK, HandedInv, NEW t \in Task, handed[t] > 0
  PROVE  /\ t.round <= round
         /\ phase \notin Published => t.round < round
BY ConfigAssumption DEF TypeOK, HandedInv, Known, Task, Round

\* The handler's look-up stays valid until its append, except across the reset
\* of the list, when only updates of older rounds can be in its hands.
LEMMA NextHandlerInv ==
  ASSUME TypeOK, TypeOK', HandedInv, CarrierInv, HandlerInv, PendingUnique,
         AckedKept, [Next]_vars
  PROVE  HandlerInv' /\ PendingUnique' /\ AckedKept'
<1>1. \A h \in handler :
        /\ h.msg.update \in Update
        /\ TaskOf(h.msg.update) \in Task
        /\ h.msg.update.round \in Nat
        /\ h.msg.update.round <= round
        /\ phase \notin Published => h.msg.update.round < round
  <2> SUFFICES ASSUME NEW h \in handler
               PROVE  /\ h.msg.update \in Update
                      /\ TaskOf(h.msg.update) \in Task
                      /\ h.msg.update.round \in Nat
                      /\ h.msg.update.round <= round
                      /\ phase \notin Published => h.msg.update.round < round
    OBVIOUS
  <2>1. h.msg.update \in Update
    BY DEF TypeOK, Handled, Upload
  <2>2. h.msg.update.round \in Nat
    BY <2>1, ConfigAssumption DEF Update, Round
  <2>3. handed[TaskOf(h.msg.update)] > 0
    BY DEF CarrierInv, HandedOut
  <2> QED BY <2>1, <2>2, <2>3, TaskOfTyped, OldRound
<1>2. \A t \in acked : /\ t \in Task /\ t.round \in Nat
                       /\ t.round <= round
                       /\ phase \notin Published => t.round < round
  <2> SUFFICES ASSUME NEW t \in acked
               PROVE  /\ t \in Task /\ t.round \in Nat
                      /\ t.round <= round
                      /\ phase \notin Published => t.round < round
    OBVIOUS
  <2>1. t \in Task /\ handed[t] > 0
    BY DEF TypeOK, CarrierInv
  <2>2. t.round \in Nat
    BY <2>1, ConfigAssumption DEF Task, Round
  <2> QED BY <2>1, <2>2, OldRound
<1>3. round \in Nat /\ round' \in Nat
  BY ConfigAssumption DEF TypeOK, Round
<1>4. CASE BeginRound
  <2>1. /\ phase \notin Published /\ round' = round /\ acked' = acked
        /\ pendingUpdates' = <<>>
        /\ handler' = {[h EXCEPT !.reset = TRUE] : h \in handler}
    BY <1>4 DEF BeginRound, Published, histVars
  <2>2. \A g \in handler' : \E h \in handler : g.msg = h.msg
    BY <2>1 DEF TypeOK, Handled
  <2>3. HandlerInv'
    BY <1>1, <2>1, <2>2, <1>3 DEF HandlerInv
  <2>4. PendingUnique'
    BY <2>1 DEF PendingUnique
  <2>5. AckedKept'
    BY <1>2, <1>3, <2>1 DEF AckedKept
  <2> QED BY <2>3, <2>4, <2>5
<1>5. ASSUME NEW h \in handler, NEW answered \in BOOLEAN, FinishUpload(h, answered)
      PROVE  HandlerInv' /\ PendingUnique' /\ AckedKept'
  <2>1. /\ handler' = {} /\ round' = round /\ phase' = phase
        /\ acked' = acked \cup {TaskOf(h.msg.update)}
    BY <1>5 DEF FinishUpload
  <2>2. HandlerInv'
    BY <2>1 DEF HandlerInv
  <2>3. CASE ~h.dup /\ pendingUpdates' = Append(pendingUpdates, h.msg.update)
    <3>1. /\ DOMAIN pendingUpdates' = 1 .. Len(pendingUpdates) + 1
          /\ pendingUpdates'[Len(pendingUpdates) + 1] = h.msg.update
          /\ \A i \in 1 .. Len(pendingUpdates) : pendingUpdates'[i] = pendingUpdates[i]
          /\ DOMAIN pendingUpdates = 1 .. Len(pendingUpdates)
          /\ Len(pendingUpdates) \in Nat
      BY <1>1, <2>3 DEF TypeOK
    <3>2. \A i \in 1 .. Len(pendingUpdates) :
            TaskOf(pendingUpdates[i]) # TaskOf(h.msg.update)
      BY <2>3, <3>1 DEF HandlerInv
    <3>3. PendingUnique'
      BY <3>1, <3>2 DEF PendingUnique
    <3>4. AckedKept'
      BY <2>1, <3>1 DEF AckedKept
    <3> QED BY <2>2, <3>3, <3>4
  <2>4. CASE (h.dup \/ h.reset) /\ pendingUpdates' = pendingUpdates
    <3>1. TaskOf(h.msg.update).round = h.msg.update.round
      BY <1>1, TaskOfTyped
    <3>2. AckedKept'
      BY <1>1, <1>3, <2>1, <2>4, <3>1 DEF AckedKept, HandlerInv
    <3>3. PendingUnique'
      BY <2>4 DEF PendingUnique
    <3> QED BY <2>2, <3>2, <3>3
  <2> QED BY <1>5, <2>3, <2>4 DEF FinishUpload
<1>6. CASE pendingUpdates' = pendingUpdates /\ acked' = acked /\ ~BeginRound
  <2>1. PendingUnique'
    BY <1>6 DEF PendingUnique
  <2>2. round' = round \/ round' = round + 1
    BY RoundStep DEF TypeOK
  <2>3. AckedKept'
    BY <1>2, <1>3, <1>6, <2>2 DEF AckedKept
  <2>4. CASE handler' = handler
    BY <1>1, <1>3, <1>6, <2>1, <2>2, <2>3, <2>4 DEF HandlerInv
  <2>5. CASE handler' = {}
    BY <2>1, <2>3, <2>5 DEF HandlerInv
  <2>6. ASSUME NEW m \in net, HandleUpload(m)
        PROVE  HandlerInv'
    <3>1. /\ handler' = {[msg |-> m, dup |-> IsDuplicate(m.update), reset |-> FALSE]}
          /\ round' = round
      BY <2>6 DEF HandleUpload
    <3>2. m.update \in Update /\ \A i \in DOMAIN pendingUpdates : pendingUpdates[i] \in Update
      BY DEF TypeOK, Upload
    <3>3. IsDuplicate(m.update) <=>
            \E i \in DOMAIN pendingUpdates :
              TaskOf(pendingUpdates[i]) = TaskOf(m.update)
      BY <3>2 DEF IsDuplicate, TaskOf, Update
    <3>4. \A g \in handler' : /\ g.msg = m /\ g.reset = FALSE
                              /\ g.dup = IsDuplicate(m.update)
      BY <3>1
    <3> QED BY <1>6, <3>3, <3>4 DEF HandlerInv
  <2> QED BY <1>6, <2>1, <2>3, <2>4, <2>5, <2>6, HandlerStep
<1> QED BY <1>4, <1>5, <1>6, PendingStep, AckedStep
-----------------------------------------------------------------------------
(* The adapter an update was computed from. *)

\* How the adapter and its served copy evolve.
LEMMA AdapterStep ==
  ASSUME [Next]_vars, round \in Round
  PROVE  \/ UNCHANGED <<adapter, served, received, round>> /\ phase' = phase
         \/ Aggregate
         \/ ServeAdapter
         \/ Collect
         \/ BeginRound
         \/ Publish
         \/ /\ UNCHANGED <<adapter, served, received>>
            /\ phase \notin {"aggregate", "serve"}
            /\ phase' \notin {"wait", "aggregate", "serve"}
            /\ phase' = "collect" => phase = "wait" /\ round' = round
         \/ /\ UNCHANGED <<adapter, served, received, round>>
            /\ phase' = "crashed" /\ phase # "serve"
<1> USE DEF coordVars, serverVars, workerVars, histVars
<1>1. CASE Poll
  BY <1>1 DEF Poll
<1>2. CASE Coordinator /\ ~Poll
  BY <1>2 DEF Coordinator, WorkersReady, Select, SkipRound, Plan, Advance,
              WaitTimeout, EndRound, Shutdown, PowerOff
<1>3. ASSUME NEW w \in Worker, WorkerStep(w) \/ Crash(w) \/ Restart(w)
      PROVE  /\ UNCHANGED <<adapter, served, received, round>>
             /\ phase' = phase \/ (phase' = "crashed" /\ phase # "serve")
  BY <1>3 DEF WorkerStep, Register, RegisterRace, Heartbeat, HeartbeatFailed,
              GetTask, GetTaskIdle, GetTaskStop, FetchAdapter, FetchFailed,
              Abandon, Train, SendUpload, AttemptFailed, Crash, Restart
<1>4. CASE Handler \/ Finish \/ \E m \in net : HandleUpload(m) \/ LoseUpload(m)
  BY <1>4 DEF Handler, FinishUpload, Finish, HandleUpload, LoseUpload
<1>5. CASE UNCHANGED vars
  BY <1>5 DEF vars
<1> QED BY <1>1, <1>2, <1>3, <1>4, <1>5 DEF Next

\* Whatever carries an update of the current round while the round collects, it
\* was computed from the adapter the main thread still holds.
LEMMA NextBaseInv ==
  ASSUME TypeOK, TypeOK', HandedInv, CarrierInv, BaseInv, [Next]_vars
  PROVE  BaseInv'
<1> DEFINE Collecting == {"wait", "collect", "aggregate"}
           Fetched == {"train", "send", "await"}
<1>1. /\ phase' # "serve" => served' = adapter'
      /\ phase' = "serve" /\ DOMAIN received' = {} => served' = adapter'
  <2>1. CASE Aggregate
    <3>1. phase = "aggregate" /\ phase' = "serve" /\ received' = received /\ served' = served
      BY <2>1 DEF Aggregate
    <3>2. DOMAIN received = {} => CountedTasks = {}
      BY DEF CountedTasks
    <3> QED BY <2>1, <3>1, <3>2 DEF Aggregate, BaseInv
  <2>2. CASE ServeAdapter
    BY <2>2 DEF ServeAdapter, BaseInv
  <2>3. CASE Collect \/ BeginRound \/ Publish
    BY <2>3 DEF Collect, BeginRound, Publish, BaseInv
  <2> QED BY <2>1, <2>2, <2>3, AdapterStep DEF TypeOK, BaseInv
<1>2. ASSUME phase' \in Collecting
      PROVE  /\ adapter' = adapter /\ round' = round /\ served = adapter
             /\ phase \in Collecting \/ phase \notin Published
  <2>1. CASE Collect \/ Publish
    BY <2>1 DEF Collect, Publish, Published, BaseInv
  <2>2. CASE Aggregate \/ ServeAdapter \/ BeginRound
    BY <1>2, <2>2 DEF Aggregate, ServeAdapter, BeginRound
  <2> QED BY <1>2, <2>1, <2>2, AdapterStep DEF TypeOK, BaseInv
<1>3. ASSUME phase' \in Collecting, NEW u \in Update, HandedOut(u),
             phase \in Collecting => Current(u)
      PROVE  Current(u)'
  <2>1. CASE phase \in Collecting
    BY <1>2, <1>3, <2>1 DEF Current
  <2>2. CASE phase \notin Published
    <3>1. TaskOf(u) \in Task /\ TaskOf(u).round = u.round /\ handed[TaskOf(u)] > 0
      BY <1>3, TaskOfTyped DEF HandedOut
    <3>2. u.round < round /\ u.round \in Nat /\ round \in Nat
      <4>1. u.round \in Nat /\ round \in Nat
        BY ConfigAssumption DEF TypeOK, Update, Round
      <4>2. TaskOf(u).round < round
        BY <2>2, <3>1, OldRound
      <4> QED BY <3>1, <4>1, <4>2
    <3> QED BY <1>2, <1>3, <3>2 DEF Current
  <2> QED BY <1>2, <1>3, <2>1, <2>2
<1>4. ASSUME phase' \in Collecting, NEW v \in Worker, wphase'[v] \in Fetched
      PROVE  Current(job[v])'
  <2>1. wphase'[v] \in Busy /\ wphase'[v] # "fetch"
    BY <1>4 DEF Busy
  <2>2. CASE GotAdapter(v)
    BY <1>2, <1>4, <2>2 DEF GotAdapter, Current
  <2>3. CASE KeepsJob(v)
    <3>1. /\ wphase[v] \in Fetched /\ wphase[v] \in Busy
          /\ TaskOf(job'[v]) = TaskOf(job[v]) /\ job'[v].base = job[v].base
      BY <1>4, <2>3 DEF KeepsJob
    <3>2. /\ job[v] \in Update /\ HandedOut(job[v])
          /\ phase \in Collecting => Current(job[v])
      BY <3>1 DEF TypeOK, CarrierInv, BaseInv
    <3>3. Current(job[v]) \/ phase \notin Published
      BY <1>2, <1>4, <3>2
    <3>4. job'[v].round = job[v].round
      BY <3>1 DEF TaskOf
    <3>5. (job[v].round = round' => job[v].base = adapter')
      BY <1>3, <1>4, <3>2 DEF Current
    <3> QED BY <3>1, <3>4, <3>5 DEF Current
  <2>4. ~GotTask(v)
    BY <2>1 DEF GotTask
  <2> QED BY <2>1, <2>2, <2>3, <2>4, JobStep
<1>5. ASSUME NEW m \in net
      PROVE  m.update \in Update /\ HandedOut(m.update)
             /\ (phase \in Collecting => Current(m.update))
  BY DEF TypeOK, Upload, CarrierInv, BaseInv
<1>6. ASSUME NEW h \in handler
      PROVE  h.msg.update \in Update /\ HandedOut(h.msg.update)
             /\ (phase \in Collecting => Current(h.msg.update))
  BY DEF TypeOK, Handled, Upload, CarrierInv, BaseInv
<1>7. ASSUME phase' \in Collecting, NEW m \in net'
      PROVE  Current(m.update)'
  <2>1. CASE m \in net
    BY <1>3, <1>5, <1>7, <2>1
  <2>2. ASSUME NEW w \in Worker, wphase[w] = "send", m.update = job[w]
        PROVE  Current(m.update)'
    <3>1. job[w] \in Update /\ HandedOut(job[w]) /\ (phase \in Collecting => Current(job[w]))
      BY <2>2 DEF TypeOK, CarrierInv, BaseInv, Busy
    <3> QED BY <1>3, <1>7, <2>2, <3>1
  <2> QED BY <2>1, <2>2, NetStep
<1>8. ASSUME phase' \in Collecting, NEW h \in handler'
      PROVE  Current(h.msg.update)'
  <2>1. CASE handler' = handler
    BY <1>3, <1>6, <1>8, <2>1
  <2>2. ~BeginRound
    BY <1>8 DEF BeginRound
  <2>3. ASSUME NEW m \in net, HandleUpload(m)
        PROVE  Current(h.msg.update)'
    <3>1. h.msg = m
      BY <2>3 DEF HandleUpload
    <3> QED BY <1>3, <1>5, <1>8, <3>1
  <2> QED BY <2>1, <2>2, <2>3, HandlerStep
<1>9. ASSUME phase' \in Collecting, NEW i \in DOMAIN pendingUpdates'
      PROVE  Current(pendingUpdates[i])'
  <2>1. \A j \in DOMAIN pendingUpdates :
          /\ pendingUpdates[j] \in Update /\ HandedOut(pendingUpdates[j])
          /\ phase \in Collecting => Current(pendingUpdates[j])
    BY DEF TypeOK, CarrierInv, BaseInv
  <2>2. \/ i \in DOMAIN pendingUpdates /\ pendingUpdates'[i] = pendingUpdates[i]
        \/ \E h \in handler : pendingUpdates'[i] = h.msg.update
    <3>1. CASE pendingUpdates' = pendingUpdates
      BY <3>1
    <3>2. ~BeginRound
      BY <1>9 DEF BeginRound
    <3>3. ASSUME NEW h \in handler, pendingUpdates' = Append(pendingUpdates, h.msg.update)
          PROVE  \/ i \in DOMAIN pendingUpdates /\ pendingUpdates'[i] = pendingUpdates[i]
                 \/ pendingUpdates'[i] = h.msg.update
      <4>1. /\ pendingUpdates \in Seq(Update) /\ h.msg.update \in Update
            /\ i \in 1 .. Len(pendingUpdates) + 1
        BY <1>6, <3>3 DEF TypeOK
      <4> QED BY <3>3, <4>1
    <3> QED BY <3>1, <3>2, <3>3, PendingStep
  <2>3. \A u \in Update : HandedOut(u) /\ (phase \in Collecting => Current(u)) => Current(u)'
    BY <1>3, <1>9
  <2>4. ASSUME NEW j \in DOMAIN pendingUpdates, pendingUpdates'[i] = pendingUpdates[j]
        PROVE  Current(pendingUpdates[i])'
    BY <2>1, <2>3, <2>4 DEF Current
  <2>5. ASSUME NEW h \in handler, pendingUpdates'[i] = h.msg.update
        PROVE  Current(pendingUpdates[i])'
    BY <1>6, <2>3, <2>5 DEF Current
  <2> QED BY <2>2, <2>4, <2>5
<1> QED BY <1>1, <1>4, <1>7, <1>8, <1>9 DEF BaseInv
-----------------------------------------------------------------------------
(* What wait_for_updates returns, and what a round counts. *)

\* The lists wait_for_updates builds change in Publish, Poll and Collect only.
LEMMA CollectStep ==
  ASSUME [Next]_vars
  PROVE  \/ UNCHANGED <<phase, round, leases, completed, received>>
         \/ Publish
         \/ Poll
         \/ Collect
         \/ UNCHANGED <<leases, completed>> /\ phase = "wait" /\ phase' = "collect"
         \/ phase' \notin {"wait", "collect", "aggregate"}
<1> USE DEF coordVars, serverVars, workerVars, histVars
<1>1. CASE Coordinator
  BY <1>1 DEF Coordinator, WorkersReady, BeginRound, Select, SkipRound, Plan,
              Advance, WaitTimeout, Aggregate, ServeAdapter, EndRound,
              Shutdown, PowerOff
<1>2. ASSUME NEW w \in Worker, WorkerStep(w) \/ Crash(w) \/ Restart(w)
      PROVE  \/ UNCHANGED <<phase, round, leases, completed, received>>
             \/ phase' \notin {"wait", "collect", "aggregate"}
  BY <1>2 DEF WorkerStep, Register, RegisterRace, Heartbeat, HeartbeatFailed,
              GetTask, GetTaskIdle, GetTaskStop, FetchAdapter, FetchFailed,
              Abandon, Train, SendUpload, AttemptFailed, Crash, Restart
<1>3. CASE Handler \/ Finish \/ \E m \in net : HandleUpload(m) \/ LoseUpload(m)
  BY <1>3 DEF Handler, FinishUpload, Finish, HandleUpload, LoseUpload
<1>4. CASE UNCHANGED vars
  BY <1>4 DEF vars
<1> QED BY <1>1, <1>2, <1>3, <1>4 DEF Next

\* The list only grows while a round collects.
LEMMA PendingGrows ==
  ASSUME TypeOK, [Next]_vars, phase # "begin", NEW i \in DOMAIN pendingUpdates
  PROVE  i \in DOMAIN pendingUpdates' /\ pendingUpdates'[i] = pendingUpdates[i]
<1>1. CASE pendingUpdates' = pendingUpdates
  BY <1>1
<1>2. ~BeginRound
  BY DEF BeginRound
<1>3. ASSUME NEW h \in handler, pendingUpdates' = Append(pendingUpdates, h.msg.update)
      PROVE  i \in DOMAIN pendingUpdates' /\ pendingUpdates'[i] = pendingUpdates[i]
  <2>1. pendingUpdates \in Seq(Update) /\ h.msg.update \in Update
    BY DEF TypeOK, Handled, Upload
  <2> QED BY <1>3, <2>1
<1> QED BY <1>1, <1>2, <1>3, PendingStep

\* Every client reported completed has an entry in the list, which only grows
\* until the round is over; what is kept is read from that list.
LEMMA NextReceivedInv ==
  ASSUME TypeOK, TypeOK', ReceivedInv, ReceivedMatchesCompleted, [Next]_vars
  PROVE  ReceivedInv' /\ ReceivedMatchesCompleted'
<1> DEFINE Collecting == {"wait", "collect", "aggregate"}
           Covered(C) == \A c \in C : \E i \in DOMAIN pendingUpdates :
                                        pendingUpdates[i].client = c
<1>1. ASSUME phase \in Collecting, NEW C, Covered(C)
      PROVE  \A c \in C : \E i \in DOMAIN pendingUpdates' : pendingUpdates'[i].client = c
  <2> SUFFICES ASSUME NEW c \in C
               PROVE  \E i \in DOMAIN pendingUpdates' : pendingUpdates'[i].client = c
    OBVIOUS
  <2>1. PICK i \in DOMAIN pendingUpdates : pendingUpdates[i].client = c
    BY <1>1
  <2> QED BY <1>1, <2>1, PendingGrows
<1>2. CASE UNCHANGED <<phase, round, leases, completed, received>>
  <2>1. CASE phase \in Collecting
    <3>1. ReceivedInv'
      BY <1>1, <1>2, <2>1, PendingGrows DEF ReceivedInv
    <3>2. ReceivedMatchesCompleted'
      BY <1>2 DEF ReceivedMatchesCompleted
    <3> QED BY <3>1, <3>2
  <2>2. CASE phase \notin Collecting
    BY <1>2, <2>2 DEF ReceivedInv, ReceivedMatchesCompleted
  <2> QED BY <2>1, <2>2
<1>3. CASE Publish
  BY <1>3 DEF Publish, ReceivedInv, ReceivedMatchesCompleted
<1>4. CASE Poll
  <2>1. /\ phase = "wait" /\ phase' \in {"wait", "collect"}
        /\ completed' = completed \cup Seen /\ leases' = leases
        /\ pendingUpdates' = pendingUpdates
    BY <1>4 DEF Poll, serverVars
  <2>2. Seen \subseteq leases /\ Covered(Seen)
    BY DEF Seen
  <2>3. completed \subseteq leases /\ Covered(completed)
    BY <2>1 DEF ReceivedInv
  <2> QED BY <2>1, <2>2, <2>3 DEF ReceivedInv, ReceivedMatchesCompleted
<1>5. CASE Collect
  <2>1. /\ phase = "collect" /\ phase' = "aggregate"
        /\ completed' = completed /\ leases' = leases
        /\ pendingUpdates' = pendingUpdates
        /\ received' = [i \in {j \in DOMAIN pendingUpdates : Kept(pendingUpdates[j])}
                          |-> pendingUpdates[i]]
    BY <1>5 DEF Collect, serverVars
  <2>2. completed \subseteq leases /\ Covered(completed)
    BY <2>1 DEF ReceivedInv
  <2>3. ReceivedInv'
    BY <2>1, <2>2 DEF ReceivedInv
  <2>4. ASSUME NEW c \in completed
        PROVE  \E i \in DOMAIN received' : received'[i].client = c
    <3>1. PICK i \in DOMAIN pendingUpdates : pendingUpdates[i].client = c
      BY <2>2
    <3>2. Kept(pendingUpdates[i])
      BY <2>2, <3>1 DEF Kept
    <3> QED BY <2>1, <3>1, <3>2
  <2>5. ASSUME DiscardLate, NEW i \in DOMAIN received'
        PROVE  received'[i].client \in completed
    BY <2>1, <2>5 DEF Kept
  <2>6. ReceivedMatchesCompleted'
    BY <2>1, <2>4, <2>5 DEF ReceivedMatchesCompleted
  <2> QED BY <2>3, <2>6
<1>6. CASE UNCHANGED <<leases, completed>> /\ phase = "wait" /\ phase' = "collect"
  BY <1>1, <1>6 DEF ReceivedInv, ReceivedMatchesCompleted
<1>7. CASE phase' \notin Collecting
  BY <1>7 DEF ReceivedInv, ReceivedMatchesCompleted
<1> QED BY <1>2, <1>3, <1>4, <1>5, <1>6, <1>7, CollectStep

\* The ledger of a round is written by its aggregation, once.
LEMMA LedgerStep ==
  ASSUME [Next]_vars, round \in Round
  PROVE  \/ Aggregate
         \/ /\ ledger' = ledger
            /\ round' = round /\ phase' \in Early => phase \in Early
<1> USE DEF coordVars, serverVars, workerVars, histVars, Early
<1>0. round + 1 # round
  BY ConfigAssumption DEF Round
<1>1. CASE Coordinator
  BY <1>0, <1>1 DEF Coordinator, WorkersReady, BeginRound, Select, SkipRound,
              Plan, Publish, Poll, WaitTimeout, Advance, Collect,
              ServeAdapter, EndRound, Shutdown, PowerOff
<1>2. ASSUME NEW w \in Worker, WorkerStep(w) \/ Crash(w) \/ Restart(w)
      PROVE  /\ ledger' = ledger
             /\ phase' = phase \/ phase' = "crashed"
  BY <1>2 DEF WorkerStep, Register, RegisterRace, Heartbeat, HeartbeatFailed,
              GetTask, GetTaskIdle, GetTaskStop, FetchAdapter, FetchFailed,
              Abandon, Train, SendUpload, AttemptFailed, Crash, Restart
<1>3. CASE Handler \/ Finish \/ \E m \in net : HandleUpload(m) \/ LoseUpload(m)
  BY <1>3 DEF Handler, FinishUpload, Finish, HandleUpload, LoseUpload
<1>4. CASE UNCHANGED vars
  BY <1>4 DEF vars
<1> QED BY <1>1, <1>2, <1>3, <1>4 DEF Next

\* What aggregation counts was in the list, hence handed out.
LEMMA CountedHanded ==
  ASSUME TypeOK, HandedInv, CarrierInv, ReceivedInv, phase = "aggregate",
         NEW t \in CountedTasks
  PROVE  t \in Task /\ handed[t] > 0 /\ t.round <= round
<1>1. PICK i \in DOMAIN received : t = TaskOf(received[i])
  BY DEF CountedTasks
<1>2. i \in DOMAIN pendingUpdates /\ received[i] = pendingUpdates[i]
  BY <1>1 DEF ReceivedInv
<1>3. received[i] \in Update /\ handed[t] > 0
  BY <1>1, <1>2 DEF TypeOK, CarrierInv, HandedOut
<1> QED BY <1>1, <1>3, TaskOfTyped, OldRound

LEMMA NextLedgerInv ==
  ASSUME TypeOK, TypeOK', HandedInv, CarrierInv, ReceivedInv, LedgerInv, [Next]_vars
  PROVE  LedgerInv'
<1>1. \A t \in Task : handed[t] > 0 => handed'[t] > 0
  BY HandedGrows
<1>2. round \in Nat /\ round' \in Nat
  BY ConfigAssumption DEF TypeOK, Round
<1>3. CASE Aggregate
  <2>1. /\ phase = "aggregate" /\ phase' = "serve" /\ round' = round /\ handed' = handed
        /\ ledger' = [ledger EXCEPT ![round] = CountedTasks]
    BY <1>3 DEF Aggregate
  <2>2. \A t \in CountedTasks : handed[t] > 0 /\ t.round <= round
    BY <2>1, CountedHanded
  <2>3. /\ ledger'[round] = CountedTasks
        /\ \A r \in Round : r # round => ledger'[r] = ledger[r]
    BY <2>1 DEF TypeOK
  <2>4. \A r \in Round : \A t \in ledger'[r] : handed'[t] > 0 /\ t.round <= r
    BY <2>1, <2>2, <2>3 DEF LedgerInv
  <2>5. \A r \in Round : r > round' => ledger'[r] = {}
    BY <1>2, <2>1, <2>3 DEF LedgerInv
  <2> QED BY <2>1, <2>4, <2>5 DEF LedgerInv, Early
<1>4. CASE ledger' = ledger /\ (round' = round /\ phase' \in Early => phase \in Early)
  <2>1. \A r \in Round : \A t \in ledger'[r] : handed'[t] > 0 /\ t.round <= r
    BY <1>1, <1>4 DEF LedgerInv, TypeOK
  <2>2. round' = round \/ round' = round + 1
    BY RoundStep DEF TypeOK
  <2>3. ASSUME NEW r \in Round, r > round' \/ (r = round' /\ phase' \in Early)
        PROVE  ledger'[r] = {}
    <3>1. r \in Nat
      BY ConfigAssumption DEF Round
    <3>2. r > round \/ (r = round /\ phase \in Early)
      BY <1>2, <1>4, <2>2, <2>3, <3>1
    <3> QED BY <1>4, <3>2 DEF LedgerInv
  <2> QED BY <2>1, <2>3 DEF LedgerInv
<1> QED BY <1>3, <1>4, LedgerStep DEF TypeOK
-----------------------------------------------------------------------------
(* The inductive invariant and the theorems. *)

LEMMA InitIInv == Init => IInv
<1> SUFFICES ASSUME Init PROVE IInv
  OBVIOUS
<1>1. TypeOK
  BY InitTypeOK
<1>2. /\ DOMAIN pendingUpdates = {} /\ DOMAIN received = {} /\ handler = {}
      /\ net = {} /\ acked = {} /\ completed = {} /\ phase = "boot"
      /\ served = adapter
  BY DEF Init
<1>3. RetryInv /\ QueueInv /\ HandedInv
  BY DEF Init, RetryInv, QueueInv, HandedInv, TaskHandedOnce
<1>4. CarrierInv
  BY <1>2 DEF Init, CarrierInv, Busy
<1>5. HandlerInv /\ PendingUnique /\ AckedKept /\ BaseInv
  BY <1>2 DEF HandlerInv, PendingUnique, AckedKept, BaseInv
<1>6. ReceivedInv /\ ReceivedMatchesCompleted
  BY <1>2 DEF ReceivedInv, ReceivedMatchesCompleted
<1>7. LedgerInv
  BY DEF Init, LedgerInv
<1> QED BY <1>1, <1>3, <1>4, <1>5, <1>6, <1>7 DEF IInv

LEMMA NextIInv == IInv /\ [Next]_vars => IInv'
<1> SUFFICES ASSUME IInv, [Next]_vars PROVE IInv'
  OBVIOUS
<1> USE DEF IInv
<1>1. TypeOK' /\ RetryInv'
  BY NextTypeOK
<1>2. QueueInv' /\ HandedInv'
  BY <1>1, NextQueueInv
<1>3. CarrierInv'
  BY <1>1, NextCarrierInv
<1>4. HandlerInv' /\ PendingUnique' /\ AckedKept'
  BY <1>1, NextHandlerInv
<1>5. BaseInv'
  BY <1>1, NextBaseInv
<1>6. ReceivedInv' /\ ReceivedMatchesCompleted'
  BY <1>1, NextReceivedInv
<1>7. LedgerInv'
  BY <1>1, NextLedgerInv
<1> QED BY <1>1, <1>2, <1>3, <1>4, <1>5, <1>6, <1>7

\* The inductive invariant holds of every behaviour of the round protocol.
THEOREM Invariance == Spec => []IInv
BY InitIInv, NextIInv, PTL DEF Spec

\* All variables keep their types; in particular no worker exceeds the retry
\* limit, although only the retry loop, and no guard, bounds it.
THEOREM TypeCorrect == Spec => []TypeOK
<1>1. IInv => TypeOK
  BY DEF IInv
<1> QED BY <1>1, Invariance, PTL

\* No task leaves the coordinator twice (get_task, get_worker_for_client).
THEOREM HandedOnce == Spec => []TaskHandedOnce
<1>1. IInv => TaskHandedOnce
  BY DEF IInv, HandedInv
<1> QED BY <1>1, Invariance, PTL

\* The look-up of upload_update keeps the list free of duplicates in spite of
\* the unlocked reset between look-up and append.
THEOREM NoDuplicatePending == Spec => []PendingUnique
<1>1. IInv => PendingUnique
  BY DEF IInv
<1> QED BY <1>1, Invariance, PTL

\* Updates answered with "ok" in their own round reach its aggregation.
THEOREM AcknowledgedKept == Spec => []AckedKept
<1>1. IInv => AckedKept
  BY DEF IInv
<1> QED BY <1>1, Invariance, PTL

\* A delta of the current round is added to the adapter it was computed from.
THEOREM BaseIsFresh == Spec => []FreshBase
<1>1. IInv => FreshBase
  BY DEF IInv, FreshBase, BaseInv, ReceivedInv, Current
<1> QED BY <1>1, Invariance, PTL

\* The clients reported completed are those aggregation has updates of.
THEOREM CompletedHaveUpdates == Spec => []ReceivedMatchesCompleted
<1>1. IInv => ReceivedMatchesCompleted
  BY DEF IInv
<1> QED BY <1>1, Invariance, PTL

\* Pending and counted updates stem from tasks handed out in rounds begun.
THEOREM UpdatesHaveTasks == Spec => []NoOrphanUpdate
<1>1. ASSUME IInv PROVE NoOrphanUpdate
  <2>1. ASSUME NEW i \in DOMAIN pendingUpdates
        PROVE  handed[TaskOf(pendingUpdates[i])] > 0 /\ pendingUpdates[i].round <= round
    <3>1. pendingUpdates[i] \in Update /\ handed[TaskOf(pendingUpdates[i])] > 0
      BY <1>1 DEF IInv, TypeOK, CarrierInv, HandedOut
    <3>2. TaskOf(pendingUpdates[i]).round <= round
      BY <1>1, <3>1, TaskOfTyped, OldRound DEF IInv
    <3> QED BY <3>1, <3>2, TaskOfTyped
  <2> QED BY <1>1, <2>1 DEF IInv, LedgerInv, NoOrphanUpdate
<1> QED BY <1>1, Invariance, PTL
-----------------------------------------------------------------------------
(* Refinement of the ledger of leases. *)

Offered == UNION {roundTasks[w] : w \in Worker}

\* Every step of the two threads, the workers and the network is one step of
\* the ledger or none.
LEMMA LedgerRefined ==
  ASSUME IInv, IInv', [Next]_vars
  PROVE  [Ledger!LedgerNext]_(Ledger!ledgerVars)
<1> USE DEF IInv
<1> SUFFICES Ledger!LedgerNext \/ UNCHANGED <<round, Offered, handed, ledger>>
  BY DEF Ledger!ledgerVars, Offered
<1>1. CASE Plan
  <2>1. Offered' = {} /\ UNCHANGED <<round, handed, ledger>>
    BY <1>1 DEF Plan, Offered, histVars
  <2> QED BY <2>1 DEF Ledger!LedgerNext, Ledger!Withdraw, Offered
<1>2. CASE Publish
  <2> DEFINE C == {c \in leases : \E w \in Worker : Serves(w, c)}
  <2>1. /\ phase = "publish" /\ UNCHANGED <<round, handed, ledger>>
        /\ roundTasks' = [w \in Worker |-> TasksFor(w)]
    BY <1>2 DEF Publish, histVars
  <2>2. Offered = {}
    BY <2>1 DEF QueueInv, Offered
  <2>3. C \subseteq Client
    BY DEF TypeOK
  <2>4. Offered' = {[round |-> round, client |-> c] : c \in C}
    BY <2>1 DEF Offered, TasksFor
  <2>5. ASSUME NEW c \in C PROVE handed[[round |-> round, client |-> c]] = 0
    <3>1. [round |-> round, client |-> c] \in Task
      BY <2>3 DEF Task, TypeOK
    <3>2. ~Known(round)
      BY <2>1 DEF Known, Published
    <3>3. ~(handed[[round |-> round, client |-> c]] > 0)
      BY <3>1, <3>2 DEF HandedInv
    <3> QED BY <3>1, <3>3 DEF TypeOK
  <2> QED BY <2>1, <2>2, <2>3, <2>4, <2>5 DEF Ledger!LedgerNext, Ledger!Offer, Offered
<1>3. ASSUME NEW w \in Worker, NEW t \in roundTasks[w], NEW answered \in BOOLEAN,
             GetTask(w, t, answered)
      PROVE  Ledger!LedgerNext
  <2>1. /\ roundTasks' = [roundTasks EXCEPT ![w] = roundTasks[w] \ {t}]
        /\ handed' = [handed EXCEPT ![t] = handed[t] + 1]
        /\ UNCHANGED <<round, ledger>>
    BY <1>3 DEF GetTask, Remaining
  <2>2. handed[t] = 0 /\ t \in Offered
    BY DEF QueueInv, Offered
  <2>3. Offered' = Offered \ {t}
    <3>1. \A v \in Worker : roundTasks'[v] = roundTasks[v] \ {t}
      BY <2>1 DEF QueueInv, TypeOK
    <3> QED BY <3>1 DEF Offered
  <2>4. handed' = [handed EXCEPT ![t] = 1]
    BY <2>1, <2>2
  <2>5. Ledger!Take(t)
    BY <2>1, <2>2, <2>3, <2>4 DEF Ledger!Take, Offered
  <2> QED BY <2>2, <2>5 DEF Ledger!LedgerNext, Offered
<1>4. CASE Aggregate
  <2>1. /\ phase = "aggregate" /\ UNCHANGED <<round, roundTasks, handed>>
        /\ ledger' = [ledger EXCEPT ![round] = CountedTasks]
    BY <1>4 DEF Aggregate, serverVars
  <2>2. \A t \in CountedTasks : t \in Task /\ handed[t] = 1
    BY <2>1, CountedHanded DEF TypeOK, HandedInv, TaskHandedOnce
  <2>3. ledger[round] = {}
    BY <2>1 DEF TypeOK, LedgerInv, Early
  <2>4. CountedTasks \in SUBSET {l \in Ledger!Lease : handed[l] = 1}
    BY <2>2 DEF Ledger!Lease, Ledger!Rounds, Task, Round
  <2> QED BY <2>1, <2>3, <2>4 DEF Ledger!LedgerNext, Ledger!Count, Offered
<1>5. CASE UNCHANGED <<roundTasks, handed, ledger>>
  <2>1. CASE round' = round
    BY <1>5, <2>1 DEF Offered
  <2>2. CASE round' = round + 1
    BY <1>5, <2>2 DEF Ledger!LedgerNext, Ledger!NextTurn, Ledger!Rounds, Offered, TypeOK, Round
  <2> QED BY <2>1, <2>2, RoundStep DEF TypeOK
<1> QED
  <2>1. ledger' = ledger \/ Aggregate
    BY LedgerStep DEF TypeOK
  <2> QED BY <1>1, <1>2, <1>3, <1>4, <1>5, <2>1, HandedStep, QueueStep

\* The detailed protocol implements the ledger of leases: exactly-once handing
\* out, offers in their own round only, and one count per round.
THEOREM Refinement == Spec => LedgerSpec
<1>1. Init => Ledger!LedgerInit
  BY ConfigAssumption DEF Init, Ledger!LedgerInit, Ledger!Lease, Ledger!Rounds, Task, Round
<1>2. IInv /\ IInv' /\ [Next]_vars => [Ledger!LedgerNext]_(Ledger!ledgerVars)
  BY LedgerRefined
<1> QED BY <1>1, <1>2, Invariance, PTL DEF Spec, LedgerSpec, Ledger!LedgerSpec
-----------------------------------------------------------------------------
(* What TrainingTerminates rests on besides fairness. *)

\* Statements of a round that are still ahead of the main thread.
Ahead ==
  CASE phase = "boot" -> 12 [] phase = "begin" -> 11 [] phase = "select" -> 10
    [] phase = "plan" -> 9 [] phase = "publish" -> 8 [] phase = "wait" -> 7
    [] phase = "collect" -> 6 [] phase = "aggregate" -> 5 [] phase = "serve" -> 4
    [] phase = "end" -> 3 [] phase = "finish" -> 2 [] phase = "stopped" -> 1
    [] OTHER -> 0

\* Those of the rounds to come included.
Left == 12 * (NumRounds - 1 - round) + Ahead

\* Nothing that a worker, a request or the network does sets the main thread
\* back, and what it does itself brings it nearer to its end.  Only a poll that
\* finds too few updates may leave it where it is, and each wait has a timeout.
\* The statements that are left are counted, so there is an end to them.
AlwaysForward ==
  [][/\ Left \in 0 .. 12 * NumRounds
     /\ Left' < Left \/ UNCHANGED <<phase, round>>
     /\ Coordinator /\ ~Poll => Left' < Left]_vars

LEMMA LeftTyped ==
  ASSUME phase \in Phase, round \in Round
  PROVE  Ahead \in 0 .. 12 /\ Left \in Nat
<1>1. Ahead \in 0 .. 12
  BY DEF Ahead
<1>2. round \in Int /\ NumRounds \in Int /\ NumRounds - 1 - round >= 0
  BY ConfigAssumption DEF Round
<1> QED BY <1>1, <1>2 DEF Left

LEMMA NearerWithin ==
  ASSUME phase \in Phase, round \in Round, round' = round, phase' \in Phase, Ahead' < Ahead
  PROVE  Left' < Left
<1>1. Ahead \in Int /\ Ahead' \in Int
  BY LeftTyped DEF Ahead
<1> DEFINE rest == 12 * (NumRounds - 1 - round)
<1>2. rest \in Int
  BY ConfigAssumption DEF Round
<1>3. Left = rest + Ahead /\ Left' = rest + Ahead'
  BY DEF Left
<1>4. ASSUME NEW m \in Int, NEW a \in Int, NEW b \in Int, b < a
      PROVE  m + b < m + a
  BY <1>4
<1> HIDE DEF rest
<1> QED BY <1>1, <1>2, <1>3, <1>4

LEMMA AdvanceNearer ==
  ASSUME phase \in {"select", "end"}, round \in Round, Advance
  PROVE  Left' < Left
<1>1. round \in Int /\ NumRounds \in Int
  BY ConfigAssumption DEF Round
<1>2. CASE round' = round + 1 /\ phase' = "begin"
  <2>1. Ahead >= 3 /\ Ahead \in Int /\ Ahead' = 11
    BY <1>2 DEF Ahead
  <2> QED BY <1>1, <1>2, <2>1 DEF Left
<1>3. CASE round' = round /\ phase' = "finish"
  <2>1. Ahead >= 3 /\ Ahead \in Int /\ Ahead' = 2
    BY <1>3 DEF Ahead
  <2> QED BY <1>1, <1>3, <2>1 DEF Left
<1> QED BY <1>2, <1>3 DEF Advance

LEMMA MainNearer ==
  ASSUME phase \in Phase, round \in Round, phase' \in Phase, Coordinator
  PROVE  Left' < Left \/ (Poll /\ UNCHANGED <<phase, round>>)
<1> USE DEF Ahead
<1>1. CASE WorkersReady \/ BeginRound \/ Plan \/ Publish \/ WaitTimeout
  <2>1. round' = round /\ Ahead' < Ahead
    BY <1>1 DEF WorkersReady, BeginRound, Plan, Publish, WaitTimeout
  <2> QED BY <2>1, NearerWithin
<1>2. CASE Collect \/ Aggregate \/ ServeAdapter \/ Shutdown \/ PowerOff
  <2>1. round' = round /\ Ahead' < Ahead
    BY <1>2 DEF Collect, Aggregate, ServeAdapter, Shutdown, PowerOff
  <2> QED BY <2>1, NearerWithin
<1>3. CASE Select
  <2>1. CASE phase' = "plan" /\ round' = round
    BY <1>3, <2>1, NearerWithin DEF Select
  <2>2. CASE Advance
    BY <1>3, <2>2, AdvanceNearer DEF Select
  <2> QED BY <1>3, <2>1, <2>2 DEF Select
<1>4. CASE SkipRound \/ EndRound
  BY <1>4, AdvanceNearer DEF SkipRound, EndRound
<1>5. CASE Poll
  <2>1. CASE phase' = "collect"
    BY <1>5, <2>1, NearerWithin DEF Poll
  <2>2. CASE phase' = "wait"
    BY <1>5, <2>2 DEF Poll
  <2> QED BY <1>5, <2>1, <2>2 DEF Poll
<1> QED BY <1>1, <1>2, <1>3, <1>4, <1>5 DEF Coordinator

LEMMA OthersNearer ==
  ASSUME phase \in Phase, round \in Round, [Next]_vars, ~Coordinator
  PROVE  Left' < Left \/ UNCHANGED <<phase, round>>
<1>1. ASSUME NEW w \in Worker, RegisterRace(w)
      PROVE  Left' < Left
  <2>1. round' = round /\ phase' \in Phase /\ Ahead' < Ahead
    BY <1>1 DEF RegisterRace, Ahead, Phase
  <2> QED BY <2>1, NearerWithin
<1>2. ASSUME NEW w \in Worker, WorkerStep(w) \/ Crash(w) \/ Restart(w), ~RegisterRace(w)
      PROVE  UNCHANGED <<phase, round>>
  BY <1>2 DEF WorkerStep, Register, Heartbeat, HeartbeatFailed, GetTask, GetTaskIdle,
              GetTaskStop, FetchAdapter, FetchFailed, Abandon, Train, SendUpload,
              AttemptFailed, Crash, Restart
<1>3. CASE Handler \/ Finish \/ \E m \in net : HandleUpload(m) \/ LoseUpload(m)
  BY <1>3 DEF Handler, FinishUpload, Finish, HandleUpload, LoseUpload
<1>4. CASE UNCHANGED vars
  BY <1>4 DEF vars
<1> QED BY <1>1, <1>2, <1>3, <1>4 DEF Next

\* The round loop needs at most 12 * NumRounds statements, and its waits, to end,
\* whatever the workers and the network do (coordinator.py run_coordinator).
THEOREM MainThreadMovesOn == Spec => AlwaysForward
<1>1. TypeOK /\ TypeOK' /\ [Next]_vars =>
        [/\ Left \in 0 .. 12 * NumRounds
         /\ Left' < Left \/ UNCHANGED <<phase, round>>
         /\ Coordinator /\ ~Poll => Left' < Left]_vars
  <2> SUFFICES ASSUME TypeOK, TypeOK', [Next]_vars
               PROVE  /\ Left \in 0 .. 12 * NumRounds
                      /\ Left' < Left \/ UNCHANGED <<phase, round>>
                      /\ Coordinator /\ ~Poll => Left' < Left
    OBVIOUS
  <2>1. phase \in Phase /\ round \in Round /\ phase' \in Phase
    BY DEF TypeOK
  <2>2. Left \in 0 .. 12 * NumRounds
    <3>1. Left \in Nat /\ Ahead \in 0 .. 12
      BY <2>1, LeftTyped
    <3>2. round \in Nat /\ NumRounds \in Nat
      BY <2>1, ConfigAssumption DEF Round
    <3> QED BY <3>1, <3>2 DEF Left
  <2> QED BY <2>1, <2>2, MainNearer, OthersNearer
<1> QED BY <1>1, TypeCorrect, PTL DEF Spec, AlwaysForward
=============================================================================
