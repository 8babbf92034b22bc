-------------------------- MODULE WorkerLoopProofs --------------------------
(***************************************************************************)
(* Proofs about the worker's polling loop, for every limit and every       *)
(* number of starts of the worker and of the coordinator; then about the   *)
(* worker on its emulated link, for every trace and every failing tool.    *)
(***************************************************************************)
EXTENDS LinkedWorker, Integers, FiniteSetTheorems, TLAPS

\* What OutageBounded rests on: polls that have failed since the last answer
\* are all counted in idle_count, and the last of them left it within the limit.
\* Idle answers alone may raise it further, for only a failed poll is compared
\* with the limit.
Counted ==
  wphase \in Running /\ failures > 0 =>
    /\ failures <= idleCount
    /\ idleCount <= IdleLimit

\* A running process has health checks left as long as it is probing.
Probing == wphase = "probe" => probes < ProbeLimit

WorkerInv == TypeOK /\ Counted /\ Probing

\* A counter that is raised stays within its range, and grows while it can.
LEMMA BumpType ==
  ASSUME NEW n \in 0 .. IdleLimit + 1
  PROVE  /\ Bump(n) \in 0 .. IdleLimit + 1
         /\ Bump(n) >= n
         /\ Bump(n) <= IdleLimit => Bump(n) = n + 1
  BY LimitAssumption DEF Bump

\* The first state satisfies the inductive invariant.
LEMMA WorkerInit == Init => WorkerInv
  <1> SUFFICES ASSUME Init PROVE WorkerInv
      OBVIOUS
  <1> USE LimitAssumption DEF Init, Running
  <1>1. wphase \in Running \cup {"exited"} /\ probes \in 0 .. ProbeLimit
      OBVIOUS
  <1>2. idleCount \in 0 .. IdleLimit + 1 /\ failures \in 0 .. IdleLimit + 1
      OBVIOUS
  <1>3. starts \in 0 .. MaxStarts /\ life \in 0 .. MaxLives /\ regLife \in 0 .. life
      OBVIOUS
  <1>4. reason \in {"none", "unreachable", "error", "lost", "stopped"}
      OBVIOUS
  <1>5. serving \in BOOLEAN /\ known \in BOOLEAN /\ queued \in BOOLEAN /\ stopped \in BOOLEAN
      OBVIOUS
  <1>6. Counted /\ Probing
      BY DEF Counted, Probing
  <1> QED BY <1>1, <1>2, <1>3, <1>4, <1>5, <1>6 DEF WorkerInv, TypeOK

\* Every step of worker and coordinator keeps it (worker.py:232-267).
LEMMA WorkerInductive == WorkerInv /\ [Next]_vars => WorkerInv'
  <1> SUFFICES ASSUME WorkerInv, [Next]_vars PROVE WorkerInv'
      OBVIOUS
  <1> USE LimitAssumption DEF WorkerInv, TypeOK, Counted, Probing, Running
  <1>1. CASE StartCoordinator
        <2>1. life' \in 0 .. MaxLives /\ regLife' \in 0 .. life'
              BY <1>1 DEF StartCoordinator, histVars
        <2>2. serving' \in BOOLEAN /\ known' \in BOOLEAN /\ queued' \in BOOLEAN /\ stopped' \in BOOLEAN
              BY <1>1 DEF StartCoordinator
        <2>3. UNCHANGED <<workerVars, histVars>>
              BY <1>1 DEF StartCoordinator
        <2> QED BY <2>1, <2>2, <2>3 DEF workerVars, histVars
  <1>2. CASE EndCoordinator
        BY <1>2 DEF EndCoordinator, workerVars, histVars
  <1>3. CASE PublishTask
        BY <1>3 DEF PublishTask, workerVars, histVars
  <1>4. CASE FinishTraining
        BY <1>4 DEF FinishTraining, workerVars, histVars
  <1>5. CASE StartWorker
        BY <1>5 DEF StartWorker, coordVars
  <1>6. CASE ProbeAnswered
        BY <1>6 DEF ProbeAnswered, coordVars, histVars
  <1>7. CASE ProbeFailed
        BY <1>7 DEF ProbeFailed, End, coordVars, histVars
  <1>8. CASE Registered
        <2>1. regLife' \in 0 .. life' /\ known' \in BOOLEAN
              BY <1>8 DEF Registered
        <2> QED BY <1>8, <2>1 DEF Registered
  <1>9. CASE RegisterFailed
        <2>1. regLife' \in 0 .. life' /\ known' \in BOOLEAN
          <3>1. CASE UNCHANGED <<known, regLife>>
                BY <1>9, <3>1 DEF RegisterFailed
          <3>2. CASE serving /\ known' = TRUE /\ regLife' = life
                BY <1>9, <3>2 DEF RegisterFailed
          <3> QED BY <1>9, <3>1, <3>2 DEF RegisterFailed
        <2>2. UNCHANGED <<probes, idleCount, starts, serving, life, queued, stopped, failures>>
              BY <1>9 DEF RegisterFailed
        <2>3. wphase' = "exited" /\ reason' = "error"
              BY <1>9 DEF RegisterFailed, End
        <2> QED BY <2>1, <2>2, <2>3
  <1>10. CASE Beat
        BY <1>10 DEF Beat, coordVars, histVars
  <1>11. CASE PollFailed
        <2>1. /\ Bump(idleCount) \in 0 .. IdleLimit + 1
              /\ Bump(failures) \in 0 .. IdleLimit + 1
              /\ Bump(idleCount) <= IdleLimit => Bump(idleCount) = idleCount + 1
              /\ Bump(failures) <= failures + 1
              BY BumpType DEF Bump
        <2>2. CASE Bump(idleCount) > IdleLimit
              BY <1>11, <2>1, <2>2 DEF PollFailed, End
        <2>3. CASE ~(Bump(idleCount) > IdleLimit)
              BY <1>11, <2>1, <2>3 DEF PollFailed, End
        <2> QED BY <2>2, <2>3
  <1>12. CASE PollIdle
        BY <1>12, BumpType DEF PollIdle, coordVars
  <1>13. CASE PollTask
        <2>1. wphase' = "task" /\ idleCount' = 0 /\ failures' = 0 /\ queued' \in BOOLEAN
              BY <1>13 DEF PollTask
        <2>2. UNCHANGED <<probes, reason, starts, serving, life, known, stopped, regLife>>
              BY <1>13 DEF PollTask
        <2> QED BY <2>1, <2>2
  <1>14. CASE PollStop
        BY <1>14 DEF PollStop, End, coordVars
  <1>15. CASE TaskEnds
        BY <1>15 DEF TaskEnds, End, coordVars, histVars
  <1>16. CASE UNCHANGED vars
        BY <1>16 DEF vars, workerVars, coordVars, histVars
  <1> QED
      BY <1>1, <1>2, <1>3, <1>4, <1>5, <1>6, <1>7, <1>8, <1>9, <1>10, <1>11,
         <1>12, <1>13, <1>14, <1>15, <1>16
      DEF Next, WorkerStep

\* Every variable of the loop keeps its type, and no health check follows the
\* last one allowed (worker.py:185-195).
THEOREM WorkerTypeOK == Spec => []TypeOK
  <1>1. WorkerInv => TypeOK
      BY DEF WorkerInv
  <1> QED
      BY WorkerInit, WorkerInductive, <1>1, PTL DEF Spec

\* For every limit, a worker that still runs has not seen more failed polls in a
\* row than it tolerates, whatever idle answers and tasks come in between
\* (worker.py:232-258).
THEOREM WorkerOutageBounded == Spec => []OutageBounded
  <1>1. WorkerInv => OutageBounded
      BY LimitAssumption DEF WorkerInv, TypeOK, Counted, OutageBounded
  <1> QED
      BY WorkerInit, WorkerInductive, <1>1, PTL DEF Spec

\* What TasksNeedRegistration rests on: a worker that the coordinator in service
\* knows has registered with it, once it is past its registration; and only a
\* known worker is offered a task.
Enrolled ==
  /\ queued => known
  /\ wphase \in {"beat", "poll", "task"} /\ known => regLife = life

\* Both parts hold from the start and are kept: a new coordinator knows nobody.
LEMMA EnrolledInductive == (Init => Enrolled) /\ (Enrolled /\ [Next]_vars => Enrolled')
  <1>1. Init => Enrolled
      BY DEF Init, Enrolled
  <1>2. ASSUME Enrolled, [Next]_vars PROVE Enrolled'
      <2> USE <1>2 DEF Enrolled
      <2>1. CASE StartCoordinator \/ EndCoordinator \/ PublishTask \/ FinishTraining
            BY <2>1 DEF StartCoordinator, EndCoordinator, PublishTask, FinishTraining,
                        workerVars, histVars
      <2>2. CASE StartWorker \/ ProbeAnswered \/ ProbeFailed
            BY <2>2 DEF StartWorker, ProbeAnswered, ProbeFailed, End, coordVars, histVars
      <2>3. CASE Registered \/ RegisterFailed
            BY <2>3 DEF Registered, RegisterFailed, End
      <2>4. CASE Beat \/ PollIdle \/ PollStop \/ TaskEnds
            BY <2>4 DEF Beat, PollIdle, PollStop, TaskEnds, End, coordVars, histVars
      <2>5. CASE PollTask
            BY <2>5 DEF PollTask
      <2>6. CASE PollFailed
            BY <2>6 DEF PollFailed, End
      <2>7. CASE UNCHANGED vars
            BY <2>7 DEF vars, workerVars, coordVars, histVars
      <2> QED
            BY <2>1, <2>2, <2>3, <2>4, <2>5, <2>6, <2>7 DEF Next, WorkerStep
  <1> QED BY <1>1, <1>2

\* The only step from polling to a task is the coordinator's answer with one, and
\* it was queued by the coordinator the worker has registered with.
LEMMA TaskStepEnrolled ==
  ASSUME Enrolled, [Next]_vars, wphase = "poll", wphase' = "task"
  PROVE  regLife = life
  <1> USE DEF Enrolled
  <1>1. CASE PollTask
      BY <1>1 DEF PollTask
  <1>2. CASE Next /\ ~PollTask
      BY <1>2 DEF Next, WorkerStep, StartCoordinator, EndCoordinator, PublishTask,
                  FinishTraining, StartWorker, ProbeAnswered, ProbeFailed, Registered,
                  RegisterFailed, Beat, PollFailed, PollIdle, PollStop, TaskEnds, End,
                  workerVars
  <1>3. CASE UNCHANGED vars
      BY <1>3 DEF vars, workerVars
  <1> QED BY <1>1, <1>2, <1>3

\* A task is only ever handed to a worker that has registered with this very
\* coordinator process (server_api.py:73, coordinator.py:65).
THEOREM WorkerTasksNeedRegistration == Spec => TasksNeedRegistration
  <1>1. Enrolled /\ [Next]_vars
          => [wphase = "poll" /\ wphase' = "task" => regLife = life]_vars
      BY TaskStepEnrolled
  <1> QED
      BY EnrolledInductive, <1>1, PTL DEF Spec, TasksNeedRegistration
-----------------------------------------------------------------------------
(* The worker on its link. *)

\* The steps of the composition are steps of the loop, or none at all.
LEMMA LinkedStepIsLoopStep == [LinkedNext]_linkedVars => [Next]_vars
  <1> SUFFICES ASSUME [LinkedNext]_linkedVars PROVE [Next]_vars
      OBVIOUS
  <1>1. CASE Coordinator
        BY <1>1 DEF Coordinator, Next
  <1>2. CASE Neighbour \/ Pass
        BY <1>2 DEF Neighbour, Pass
  <1>3. CASE LinkedStart
        BY <1>3 DEF LinkedStart, Next
  <1>4. CASE LinkedBeat
        BY <1>4 DEF LinkedBeat, Next, WorkerStep
  <1>5. CASE Probe
        BY <1>5 DEF Probe, Next, WorkerStep
  <1>6. CASE Register
        BY <1>6 DEF Register, Next, WorkerStep
  <1>7. CASE Poll
        BY <1>7 DEF Poll, Next, WorkerStep
  <1>8. CASE Execute
        BY <1>8 DEF Execute, Next, WorkerStep
  <1>9. CASE UNCHANGED linkedVars
        BY <1>9 DEF linkedVars
  <1> QED BY <1>1, <1>2, <1>3, <1>4, <1>5, <1>6, <1>7, <1>8, <1>9 DEF LinkedNext, LinkedStep

\* A worker on its emulated link behaves like one whose requests fail for reasons
\* of their own: what is proved of WorkerLoop holds of it (worker.py:216-258).
THEOREM LinkedImplementsLoop == LinkedSpec => Spec
  <1>1. LinkedInit => Init
      BY DEF LinkedInit
  <1> QED BY LinkedStepIsLoopStep, <1>1, PTL DEF LinkedSpec, Spec

\* Rules are counted, a rule has an owner or none, and who owns one finds one.
Owned ==
  /\ rules \in Nat
  /\ hardOffline \in BOOLEAN
  /\ neighbour \in {"open", "blocking", "gone"}
  /\ rules >= OwnRules + NeighbourRules

\* A bound on the rules that are not the worker's own is one on the orphans.
LEMMA SpareBound ==
  ASSUME NEW a \in Nat, NEW b \in Nat, NEW n \in Nat, NEW x \in {0, 1}, NEW y \in {0, 1},
         b - y >= a - x, a >= x + n
  PROVE  b >= y + n /\ b - y - n >= a - x - n
  <1>1. b >= y + n
        OBVIOUS
  <1>2. b - y - n >= a - x - n
        OBVIOUS
  <1> QED BY <1>1, <1>2

\* What is more than the rules that have an owner is more than none.
LEMMA SpareGrows ==
  ASSUME NEW p \in Int, NEW q \in Int, p >= q, q > 0
  PROVE  p > 0
  OBVIOUS

LEMMA SpareType ==
  ASSUME NEW b \in Nat, NEW n \in Nat, NEW y \in Nat, b >= y + n
  PROVE  b - y - n \in Int /\ (y > 0 => b # 0)
  OBVIOUS

\* HARD OFFLINE and HARD ONLINE move the worker's own rule; a command that times
\* out leaves one more behind, none takes away what it has not set.
LEMMA CommandsKeepOwned ==
  ASSUME Owned, UNCHANGED neighbour,
         Link!GoHardOffline \/ Link!GoHardOnline \/ UNCHANGED <<rules, hardOffline>>
  PROVE  Owned' /\ Orphans' >= Orphans
  <1>1. /\ rules \in Nat
        /\ NeighbourRules \in Nat
        /\ NeighbourRules' = NeighbourRules
        BY DEF Owned, NeighbourRules
  <1>2. ASSUME NEW a, NEW b, NEW r \in Link!Runs(a, b)
        PROVE  /\ r.ok = TRUE \/ r.ok = FALSE
               /\ r.ok => r.done
    <2>1. r \in {Link!Done, Link!Failed, Link!TimedOut}
          BY <1>2 DEF Link!Runs
    <2> QED BY <2>1 DEF Link!Done, Link!Failed, Link!TimedOut
  <1>3. CASE UNCHANGED <<rules, hardOffline>>
        BY <1>1, <1>3 DEF Owned, Orphans, OwnRules
  <1>4. CASE ~hardOffline /\ Link!GoHardOffline
    <2>1. PICK r \in Link!Runs("iptables", TRUE) :
            /\ rules' = rules + (IF r.done THEN 1 ELSE 0)
            /\ hardOffline' = r.ok
          BY <1>4 DEF Link!GoHardOffline
    <2>2. /\ r.ok = TRUE \/ r.ok = FALSE
          /\ r.ok => r.done
          BY <1>2
    <2>3. OwnRules = 0 /\ OwnRules' = (IF r.ok THEN 1 ELSE 0)
          BY <1>4, <2>1 DEF OwnRules
    <2>4. rules' \in Nat /\ rules' - OwnRules' >= rules - OwnRules
          BY <1>1, <2>1, <2>2, <2>3
    <2>5. OwnRules \in {0, 1} /\ OwnRules' \in {0, 1} /\ hardOffline' \in BOOLEAN
          BY <2>1, <2>2, <2>3
    <2> QED BY <1>1, <2>4, <2>5, SpareBound DEF Owned, Orphans
  <1>5. CASE hardOffline /\ Link!GoHardOnline
    <2>1. PICK r \in Link!Runs("iptables", rules > 0) :
            /\ rules' = IF r.done THEN rules - 1 ELSE rules
            /\ hardOffline' = FALSE
          BY <1>5 DEF Link!GoHardOnline
    <2>2. OwnRules = 1 /\ OwnRules' = 0
          BY <1>5, <2>1 DEF OwnRules
    <2>3. rules >= 1
          BY <1>1, <2>2 DEF Owned
    <2>4. rules' \in Nat /\ rules' - OwnRules' >= rules - OwnRules
          BY <1>1, <2>1, <2>2, <2>3
    <2>5. OwnRules \in {0, 1} /\ OwnRules' \in {0, 1} /\ hardOffline' \in BOOLEAN
          BY <2>1, <2>2
    <2> QED BY <1>1, <2>4, <2>5, SpareBound DEF Owned, Orphans
  <1>6. CASE (hardOffline /\ Link!GoHardOffline) \/ (~hardOffline /\ Link!GoHardOnline)
        BY <1>3, <1>6 DEF Link!GoHardOffline, Link!GoHardOnline, Link!link
  <1> QED BY <1>3, <1>4, <1>5, <1>6

LEMMA LinkKeepsOwned ==
  ASSUME Owned, UNCHANGED neighbour,
         \/ \E m \in Modes : Link!Start(m)
         \/ Link!Tick \/ Link!Exit \/ Link!Pass \/ UNCHANGED linkVars
  PROVE  Owned' /\ Orphans' >= Orphans
  <1>1. ASSUME NEW i, Link!ApplySlot(i) PROVE Owned' /\ Orphans' >= Orphans
        BY <1>1, CommandsKeepOwned DEF Link!ApplySlot
  <1>2. CASE UNCHANGED Link!link
        BY <1>2, CommandsKeepOwned DEF Link!link
  <1>3. CASE \E m \in Modes : Link!Start(m)
        BY <1>1, <1>2, <1>3 DEF Link!Start, Link!link
  <1>4. CASE Link!Tick
        BY <1>1, <1>2, <1>4 DEF Link!Tick, Link!link
  <1>5. CASE Link!Pass \/ UNCHANGED linkVars
        BY <1>2, <1>5 DEF Link!Pass, linkVars, Link!link
  <1>6. CASE Link!Exit
    <2>1. rules' = rules /\ hardOffline' = FALSE
          BY <1>6 DEF Link!Exit
    <2>2. OwnRules' = 0 /\ OwnRules \in {0, 1}
          BY <2>1 DEF OwnRules
    <2>3. NeighbourRules' = NeighbourRules /\ NeighbourRules \in Nat /\ rules \in Nat
          BY DEF NeighbourRules, Owned
    <2>4. rules' >= OwnRules' + NeighbourRules' /\ Orphans' >= Orphans
          BY <2>1, <2>2, <2>3 DEF Owned, Orphans
    <2> QED BY <2>1, <2>4 DEF Owned
  <1> QED BY <1>3, <1>4, <1>5, <1>6

LEMMA NeighbourKeepsOwned ==
  ASSUME Owned, Neighbour
  PROVE  Owned' /\ Orphans' >= Orphans
  <1>1. rules \in Nat /\ OwnRules \in Nat /\ OwnRules' = OwnRules /\ hardOffline' = hardOffline
        BY DEF Owned, OwnRules, Neighbour
  <1>2. CASE neighbour = "open" /\ rules' = rules + 1 /\ neighbour' = "blocking"
        BY <1>1, <1>2 DEF Owned, Orphans, NeighbourRules
  <1>3. CASE neighbour = "blocking" /\ rules' = rules - 1 /\ neighbour' = "open"
        BY <1>1, <1>3 DEF Owned, Orphans, NeighbourRules
  <1>4. CASE neighbour = "blocking" /\ neighbour' = "gone" /\ rules' = rules
        BY <1>1, <1>4 DEF Owned, Orphans, NeighbourRules
  <1> QED BY <1>2, <1>3, <1>4 DEF Neighbour

\* No step of the host takes away a rule that has lost its owner.
LEMMA OwnedInductive ==
  ASSUME Owned, [LinkedNext]_linkedVars
  PROVE  Owned' /\ Orphans' >= Orphans
  <1>1. ASSUME UNCHANGED neighbour, LinkOfProcess PROVE Owned' /\ Orphans' >= Orphans
        BY <1>1, LinkKeepsOwned DEF LinkOfProcess
  <1>2. CASE Coordinator
        BY <1>2, LinkKeepsOwned DEF Coordinator, hostVars, linkVars
  <1>3. CASE Neighbour
        BY <1>3, NeighbourKeepsOwned
  <1>4. CASE LinkedStart
        BY <1>4, LinkKeepsOwned DEF LinkedStart
  <1>5. CASE LinkedBeat
        BY <1>5, LinkKeepsOwned DEF LinkedBeat
  <1>6. CASE Probe
        BY <1>1, <1>6 DEF Probe
  <1>7. CASE Register
        BY <1>1, <1>7 DEF Register
  <1>8. CASE Poll
        BY <1>1, <1>8 DEF Poll
  <1>9. CASE Execute
        BY <1>1, <1>9 DEF Execute
  <1>10. CASE Pass
        BY <1>10, LinkKeepsOwned DEF Pass
  <1>11. CASE UNCHANGED linkedVars
        BY <1>11, LinkKeepsOwned DEF linkedVars, hostVars
  <1> QED BY <1>2, <1>3, <1>4, <1>5, <1>6, <1>7, <1>8, <1>9, <1>10, <1>11
          DEF LinkedNext, LinkedStep

LEMMA OwnedInit == LinkedInit => Owned
  <1>1. ASSUME LinkedInit PROVE rules = 0 /\ hardOffline = FALSE /\ neighbour = "open"
        BY <1>1 DEF LinkedInit, Link!Init
  <1>2. ASSUME LinkedInit PROVE OwnRules = 0 /\ NeighbourRules = 0
        BY <1>1, <1>2 DEF OwnRules, NeighbourRules
  <1> QED BY <1>1, <1>2 DEF Owned

\* A worker that is offline has a rule of its own in the way.
LEMMA OfflineIsHeld == Owned /\ hardOffline => ~Reaches
  <1> SUFFICES ASSUME Owned, hardOffline PROVE rules # 0
      BY DEF Reaches
  <1>1. OwnRules = 1 /\ NeighbourRules \in Nat
        BY DEF OwnRules, NeighbourRules
  <1> QED BY <1>1 DEF Owned

\* Rules that have lost their owner hold the host back whatever the others do.
LEMMA OrphanHolds == Owned /\ Orphans > 0 => ~Reaches
  <1> SUFFICES ASSUME Owned, Orphans > 0 PROVE rules # 0
      BY DEF Reaches
  <1>1. OwnRules \in Nat /\ NeighbourRules \in Nat
        BY DEF OwnRules, NeighbourRules
  <1> QED BY <1>1 DEF Owned, Orphans

\* What the properties of the composition rest on.
LinkedInv ==
  /\ Owned
  /\ online = TRUE
  /\ OwnOutageSparesTransfers

LEMMA LinkedInvInit == LinkedInit => LinkedInv
  <1> SUFFICES ASSUME LinkedInit PROVE LinkedInv
      OBVIOUS
  <1>1. online = TRUE /\ wphase = "exited"
        BY DEF LinkedInit, Init
  <1> QED BY <1>1, OwnedInit DEF LinkedInv, OwnOutageSparesTransfers

LEMMA OnlineKept ==
  ASSUME LinkedInv, [LinkedNext]_linkedVars
  PROVE  online' = TRUE
  <1>1. Owned' /\ online = TRUE
        BY OwnedInductive DEF LinkedInv
  <1>2. CASE LinkedBeat
    <2>1. CASE rules' = 0 /\ online' = ~hardOffline'
      <3>1. rules' # 0 \/ ~hardOffline'
        <4>1. CASE hardOffline'
          <5>1. OwnRules' = 1 /\ NeighbourRules' \in Nat
                BY <4>1 DEF OwnRules, NeighbourRules
          <5>2. rules' \in Nat /\ rules' >= OwnRules' + NeighbourRules'
                BY <1>1 DEF Owned
          <5>3. OwnRules' \in Nat /\ OwnRules' > 0
                BY <5>1
          <5> QED BY <5>1, <5>2, <5>3, SpareType
        <4> QED BY <4>1
      <3> QED BY <2>1, <3>1
    <2> QED BY <1>1, <1>2, <2>1 DEF LinkedBeat
  <1>3. CASE Register
        BY <1>1, <1>3 DEF Register
  <1>4. CASE Coordinator \/ Neighbour \/ LinkedStart \/ Probe \/ Poll \/ Execute \/ Pass
        BY <1>1, <1>4 DEF Coordinator, Neighbour, LinkedStart, Probe, Poll, Execute, Pass
  <1>5. CASE UNCHANGED linkedVars
        BY <1>1, <1>5 DEF linkedVars
  <1> QED BY <1>2, <1>3, <1>4, <1>5 DEF LinkedNext, LinkedStep

\* A task is begun online, and the link stands still until it is over.
LEMMA TransfersSpared ==
  ASSUME LinkedInv, [LinkedNext]_linkedVars
  PROVE  OwnOutageSparesTransfers'
  <1> SUFFICES ASSUME wphase' = "task" PROVE ~hardOffline'
      BY DEF OwnOutageSparesTransfers
  <1>1. wphase = "task" => ~hardOffline
        BY DEF LinkedInv, OwnOutageSparesTransfers
  <1>2. CASE UNCHANGED <<wphase, hardOffline>>
        BY <1>1, <1>2
  <1>3. CASE Coordinator
        BY <1>2, <1>3 DEF Coordinator, StartCoordinator, EndCoordinator, PublishTask,
                          FinishTraining, workerVars, hostVars, linkVars
  <1>4. CASE Neighbour \/ Pass
        BY <1>2, <1>4 DEF Neighbour, Pass, Link!Pass, Link!link, vars, workerVars
  <1>5. CASE Poll
    <2>1. CASE Reaches /\ PollTask
      <3>1. ~hardOffline
            BY <2>1, OfflineIsHeld DEF LinkedInv
      <3>2. UNCHANGED linkVars
            BY <1>5 DEF Poll, LinkOfProcess
      <3> QED BY <3>1, <3>2 DEF linkVars
    <2>2. CASE PollFailed \/ PollIdle \/ PollStop
          BY <2>2 DEF PollFailed, PollIdle, PollStop, End
    <2> QED BY <1>5, <2>1, <2>2 DEF Poll
  <1>6. ~LinkedStart /\ ~LinkedBeat
        BY DEF LinkedStart, StartWorker, LinkedBeat, Beat
  <1>7. ~Probe
        BY <1>1 DEF Probe, ProbeFailed, ProbeAnswered, End
  <1>8. ~Register /\ ~Execute
        BY DEF Register, Registered, RegisterFailed, Execute, TaskEnds, End
  <1>9. CASE UNCHANGED linkedVars
        BY <1>2, <1>9 DEF linkedVars, vars, workerVars, hostVars, linkVars
  <1> QED BY <1>3, <1>4, <1>5, <1>6, <1>7, <1>8, <1>9 DEF LinkedNext, LinkedStep

LEMMA LinkedInvInductive == LinkedInv /\ [LinkedNext]_linkedVars => LinkedInv'
  BY OwnedInductive, OnlineKept, TransfersSpared DEF LinkedInv

\* The coordinator never hears that a worker is offline: the report would have to
\* leave through the link that is blocked (worker.py:223, coordinator.py:62).
THEOREM LinkedOfflineNeverReported == LinkedSpec => []OfflineNeverReported
  <1>1. LinkedInv => OfflineNeverReported
      BY DEF LinkedInv, OfflineNeverReported
  <1> QED BY LinkedInvInit, LinkedInvInductive, <1>1, PTL DEF LinkedSpec

\* A worker's own outages never meet a task it executes, for every trace
\* (worker.py:218-258).
THEOREM LinkedOwnOutageSparesTransfers == LinkedSpec => []OwnOutageSparesTransfers
  <1>1. LinkedInv => OwnOutageSparesTransfers
      BY DEF LinkedInv
  <1> QED BY LinkedInvInit, LinkedInvInductive, <1>1, PTL DEF LinkedSpec

\* A process that runs has no reason to have ended.
RunsOn == wphase \in Running => reason = "none"

LEMMA RunsOnInductive == (Init => RunsOn) /\ (RunsOn /\ [Next]_vars => RunsOn')
  <1>1. Init => RunsOn
        BY DEF Init, RunsOn, Running
  <1>2. ASSUME RunsOn, [Next]_vars PROVE RunsOn'
    <2> USE <1>2 DEF RunsOn, Running
    <2>1. CASE StartCoordinator \/ EndCoordinator \/ PublishTask \/ FinishTraining
          BY <2>1 DEF StartCoordinator, EndCoordinator, PublishTask, FinishTraining,
                      workerVars
    <2>2. CASE StartWorker \/ ProbeAnswered \/ ProbeFailed \/ Registered \/ RegisterFailed
          BY <2>2 DEF StartWorker, ProbeAnswered, ProbeFailed, Registered, RegisterFailed, End
    <2>3. CASE Beat \/ PollFailed \/ PollIdle \/ PollTask \/ PollStop \/ TaskEnds
          BY <2>3 DEF Beat, PollFailed, PollIdle, PollTask, PollStop, TaskEnds, End
    <2>4. CASE UNCHANGED vars
          BY <2>4 DEF vars, workerVars
    <2> QED BY <2>1, <2>2, <2>3, <2>4 DEF Next, WorkerStep
  <1> QED BY <1>1, <1>2

\* While nothing of the host gets through, no registration, no task and no stop do.
LEMMA HeldBack ==
  ASSUME ~Reaches, [LinkedNext]_linkedVars
  PROVE  /\ wphase = "register" => wphase' # "beat"
         /\ wphase = "poll" => wphase' # "task" /\ (reason' # "stopped" \/ reason' = reason)
  <1>1. CASE UNCHANGED <<wphase, reason>>
        BY <1>1
  <1>2. CASE Coordinator
        BY <1>1, <1>2 DEF Coordinator, StartCoordinator, EndCoordinator, PublishTask,
                          FinishTraining, workerVars
  <1>3. CASE Neighbour \/ Pass \/ UNCHANGED linkedVars
        BY <1>1, <1>3 DEF Neighbour, Pass, linkedVars, vars, workerVars
  <1>4. CASE LinkedStart \/ LinkedBeat \/ Probe \/ Execute
        BY <1>4 DEF LinkedStart, StartWorker, LinkedBeat, Beat, Probe, ProbeFailed,
                    ProbeAnswered, Execute, TaskEnds
  <1>5. CASE Register
        BY <1>5 DEF Register, RegisterFailed, End
  <1>6. CASE Poll
        BY <1>6 DEF Poll, PollFailed, End
  <1> QED BY <1>2, <1>3, <1>4, <1>5, <1>6 DEF LinkedNext, LinkedStep

\* A rule that has lost its owner stays, and keeps every later process of the host
\* from the coordinator (disconnect_controller.py:57-66, worker.py:237).
THEOREM LinkedStrandedForGood == LinkedSpec => StrandedForGood
  <1>1. Owned /\ RunsOn /\ [LinkedNext]_linkedVars =>
          [Orphans > 0 =>
             /\ Orphans' > 0
             /\ wphase = "register" => wphase' # "beat"
             /\ wphase = "poll" => wphase' # "task" /\ reason' # "stopped"]_linkedVars
    <2> SUFFICES ASSUME Owned, RunsOn, [LinkedNext]_linkedVars, Orphans > 0
                 PROVE  /\ Orphans' > 0
                        /\ wphase = "register" => wphase' # "beat"
                        /\ wphase = "poll" => wphase' # "task" /\ reason' # "stopped"
        OBVIOUS
    <2>1. Orphans' > 0
      <3>1. rules \in Nat /\ OwnRules \in Nat /\ NeighbourRules \in Nat
            BY DEF Owned, OwnRules, NeighbourRules
      <3>2. rules' \in Nat /\ OwnRules' \in Nat /\ NeighbourRules' \in Nat
            BY OwnedInductive DEF Owned, OwnRules, NeighbourRules
      <3>3. /\ rules >= OwnRules + NeighbourRules
            /\ rules' >= OwnRules' + NeighbourRules'
            BY OwnedInductive DEF Owned
      <3>4. Orphans \in Int /\ Orphans' \in Int
            BY <3>1, <3>2, <3>3, SpareType DEF Orphans
      <3> QED BY <3>4, OwnedInductive, SpareGrows
    <2>2. ~Reaches
          BY OrphanHolds
    <2> QED BY <2>1, <2>2, HeldBack DEF RunsOn, Running
  <1>2. Owned /\ [LinkedNext]_linkedVars => Owned'
      BY OwnedInductive
  <1> QED BY OwnedInit, RunsOnInductive, LinkedStepIsLoopStep, <1>1, <1>2, PTL
          DEF LinkedSpec, LinkedInit, StrandedForGood
-----------------------------------------------------------------------------
(* The types of the worker and its link together. *)

\* The greatest of some slots is one of them.
LEMMA GreatestSlot ==
  ASSUME NEW n \in Nat, NEW S \in SUBSET (0 .. n), S # {}
  PROVE  Link!Max(S) \in S
  <1> DEFINE Above(i) == {x \in S : x > i}
             F == {Above(i) : i \in S}
  <1>1. IsFiniteSet(0 .. n)
        BY FS_Interval
  <1>2. F \subseteq SUBSET (0 .. n) /\ F # {}
        OBVIOUS
  <1>3. IsWellFoundedOn(StrictSubsetOrdering(0 .. n), SUBSET (0 .. n))
        BY <1>1, FS_StrictSubsetOrderingWellFounded, FS_FiniteSubsetsOfFinite
  <1>4. PICK f \in F : \A g \in F : ~(<<g, f>> \in StrictSubsetOrdering(0 .. n))
    <2> HIDE DEF F
    <2> QED BY <1>2, <1>3, WFMin
  <1>5. PICK y \in S : f = Above(y)
        OBVIOUS
  <1>6. ASSUME NEW x \in S, x > y PROVE FALSE
    <2>1. x \in 0 .. n /\ y \in 0 .. n
          OBVIOUS
    <2>2. Above(x) \subseteq Above(y)
      <3> SUFFICES ASSUME NEW z \in S, z > x PROVE z > y
          OBVIOUS
      <3> QED BY <1>6, <2>1
    <2>3. x \in Above(y) /\ ~(x > x)
          BY <1>6, <2>1
    <2>4. x \notin Above(x)
          BY <2>3
    <2>5. Above(x) \in SUBSET (0 .. n) /\ Above(y) \in SUBSET (0 .. n) /\ Above(x) \in F
          OBVIOUS
    <2>6. <<Above(x), Above(y)>> \in StrictSubsetOrdering(0 .. n)
      <3> HIDE DEF Above
      <3> QED BY <2>2, <2>3, <2>4, <2>5 DEF StrictSubsetOrdering
    <2> QED BY <1>4, <1>5, <2>5, <2>6
  <1>7. \A x \in S : y >= x
    <2> SUFFICES ASSUME NEW x \in S PROVE y >= x
        OBVIOUS
    <2>1. x \in 0 .. n /\ y \in 0 .. n /\ ~(x > y)
          BY <1>6
    <2> QED BY <2>1
  <1> QED BY <1>7 DEF Link!Max

\* The search of _tick_trace ends at a slot.
LEMMA TargetTyped ==
  ASSUME slot \in Link!Slot
  PROVE  Link!TargetSlot \in Link!Slot
  <1> DEFINE reached == {i \in slot .. Len(Trace) :
                           \A j \in slot .. i : Trace[j].time <= Link!Elapsed}
  <1>1. Len(Trace) \in Nat
        BY LinkAssumption
  <1>2. reached \in SUBSET Link!Slot /\ reached \in SUBSET (0 .. Len(Trace))
        BY <1>1 DEF Link!Slot
  <1>3. CASE reached = {}
        BY <1>3 DEF Link!TargetSlot
  <1>4. CASE reached # {}
    <2>1. Link!TargetSlot = Link!Max(reached)
          BY <1>4 DEF Link!TargetSlot
    <2> HIDE DEF reached
    <2> QED BY <1>1, <1>2, <1>4, <2>1, GreatestSlot
  <1> QED BY <1>3, <1>4

Tree == [root : BOOLEAN, rate : Link!Profile \cup {None},
         delay : Link!Profile \cup {None}, filter : BOOLEAN]

\* What the shaping of the host and a session on it look like.
Shaped ==
  /\ kernel \in Tree
  /\ active \in BOOLEAN
  /\ tcProfile \in IF active THEN Link!Profile ELSE Link!Profile \cup {None}

InSession ==
  /\ event \in {"none", "offline", "online"}
  /\ mode \in Link!Mode
  /\ slot \in Link!Slot
  /\ now \in 0 .. MaxTime
  /\ seen \in 0 .. now
  /\ up \in BOOLEAN
  /\ sessions \in 0 .. MaxStarts
  /\ broken \subseteq Tools

LEMMA SlotsAndProfiles ==
  /\ 1 \in Link!Slot
  /\ Link!Base \in Link!Profile
  /\ Link!Perturbed \in Link!Profile
  /\ \A i \in Link!Slot : i \in Link!Profile
  BY LinkAssumption DEF Link!Slot, Link!Base, Link!Perturbed, Link!Profile

\* A tree of tc commands that partly fail is still one of a profile or none.
LEMMA ProfileShaped ==
  ASSUME Shaped, NEW p \in Link!Profile, Link!ApplyProfile(p) \/ Link!UpdateNetem(p)
  PROVE  Shaped'
  <1>1. CASE Link!ApplyProfile(p)
    <2>1. PICK done : kernel' = Link!Built(done, p)
          BY <1>1 DEF Link!ApplyProfile, Link!TreeBuilt
    <2>2. Link!Blank \in Tree
          BY DEF Link!Blank, Tree
    <2>3. kernel' \in Tree
          BY <2>1, <2>2 DEF Link!Built, Shaped, Tree
    <2> QED BY <1>1, <2>3 DEF Link!ApplyProfile, Shaped
  <1>2. CASE Link!UpdateNetem(p)
    <2>1. PICK n \in Link!Runs("tc", kernel.delay # None),
               c \in Link!Runs("tc", kernel.rate # None) :
            /\ kernel' = [kernel EXCEPT !.delay = IF n.done THEN p ELSE @,
                                        !.rate = IF n.ok /\ c.done THEN p ELSE @]
            /\ tcProfile' = IF n.ok THEN p ELSE tcProfile
            /\ active' = active
          BY <1>2 DEF Link!UpdateNetem
    <2> QED BY <2>1 DEF Shaped, Tree
  <1> QED BY <1>1, <1>2

\* What an action of the link may do to the rules and the shaping.
Commanded ==
  /\ Shaped'
  /\ event' \in {event, "offline", "online"}

LEMMA EventLogged ==
  ASSUME Link!GoHardOffline \/ Link!GoHardOnline \/ UNCHANGED Link!link
  PROVE  event' \in {event, "offline", "online"}
  BY DEF Link!GoHardOffline, Link!GoHardOnline, Link!link

LEMMA SlotShaped ==
  ASSUME Shaped, NEW i \in Link!Slot, Link!ApplySlot(i)
  PROVE  Commanded
  <1>1. i \in Link!Profile
        BY SlotsAndProfiles
  <1>2. CASE Trace[i].online
        BY <1>1, <1>2, ProfileShaped, EventLogged DEF Link!ApplySlot, Commanded
  <1>3. CASE ~Trace[i].online
        BY <1>3, EventLogged DEF Link!ApplySlot, Commanded, Shaped, Link!shaping
  <1> QED BY <1>2, <1>3

LEMMA Standing ==
  ASSUME Shaped, UNCHANGED <<Link!link, Link!shaping>>
  PROVE  Commanded
  BY DEF Shaped, Commanded, Link!link, Link!shaping

\* Every action of the link keeps its types.
LEMMA SessionStarts ==
  ASSUME Shaped, InSession, NEW m \in Modes, Link!Start(m)
  PROVE  Shaped' /\ InSession'
  <1>1. m \in Link!Mode
        BY LinkAssumption DEF Link!Mode
  <1>2. Commanded
    <2>1. CASE Link!ApplyProfile(Link!Base) /\ UNCHANGED Link!link
          BY <2>1, SlotsAndProfiles, ProfileShaped, EventLogged DEF Commanded
    <2>2. CASE Link!ApplySlot(1)
          BY <2>2, SlotsAndProfiles, SlotShaped
    <2>3. CASE UNCHANGED <<Link!link, Link!shaping>>
          BY <2>3, Standing
    <2> QED BY <2>1, <2>2, <2>3 DEF Link!Start
  <1>3. sessions \in 0 .. MaxStarts /\ sessions < MaxStarts /\ sessions' = sessions + 1
        BY DEF InSession, Link!Start
  <1>4. sessions' \in 0 .. MaxStarts
        BY <1>3, LimitAssumption
  <1>5. InSession'
        BY <1>1, <1>2, <1>4, SlotsAndProfiles, LinkAssumption DEF Commanded, InSession, Link!Start
  <1> QED BY <1>2, <1>5 DEF Commanded

LEMMA SessionTicks ==
  ASSUME Shaped, InSession, Link!Tick
  PROVE  Shaped' /\ InSession'
  <1>1. slot' \in Link!Slot
        BY TargetTyped DEF Link!Tick, InSession
  <1>2. Commanded
    <2>1. CASE UNCHANGED <<Link!link, Link!shaping>>
          BY <2>1, Standing
    <2>2. CASE Link!ApplySlot(slot')
          BY <1>1, <2>2, SlotShaped
    <2>3. CASE Link!UpdateNetem(Link!Perturbed) /\ UNCHANGED Link!link
          BY <2>3, SlotsAndProfiles, ProfileShaped, EventLogged DEF Commanded
    <2> QED BY <2>1, <2>2, <2>3 DEF Link!Tick
  <1>3. now \in Nat /\ seen' = now /\ now' = now
        BY LinkAssumption DEF InSession, Link!Tick
  <1>4. InSession'
        BY <1>1, <1>2, <1>3 DEF Commanded, InSession, Link!Tick
  <1> QED BY <1>2, <1>4 DEF Commanded

LEMMA SessionKept ==
  ASSUME Shaped, InSession, Link!Pass \/ Link!Exit \/ UNCHANGED linkVars
  PROVE  Shaped' /\ InSession'
  <1>1. CASE Link!Pass
    <2>1. now' \in 0 .. MaxTime /\ seen' \in 0 .. now'
          BY <1>1, LinkAssumption DEF Link!Pass, InSession
    <2> QED BY <1>1, <2>1 DEF Link!Pass, Link!link, Link!shaping, Shaped, InSession
  <1>2. CASE Link!Exit
        BY <1>2 DEF Link!Exit, Link!Forget, Shaped, InSession
  <1>3. CASE UNCHANGED linkVars
        BY <1>3 DEF linkVars, Shaped, InSession
  <1> QED BY <1>1, <1>2, <1>3

\* The replayer lives in the worker's process: it runs exactly as long.
Together == up <=> wphase # "exited"

LEMMA OfProcess ==
  ASSUME Shaped, InSession, Together, LinkOfProcess, wphase # "exited"
  PROVE  Shaped' /\ InSession' /\ Together'
  <1>1. Shaped' /\ InSession'
        BY SessionKept DEF LinkOfProcess
  <1>2. Together'
        BY DEF LinkOfProcess, Together, Link!Exit, Link!Forget, linkVars
  <1> QED BY <1>1, <1>2

LEMMA TogetherInductive ==
  ASSUME Shaped, InSession, Together, [LinkedNext]_linkedVars
  PROVE  Shaped' /\ InSession' /\ Together'
  <1>1. CASE UNCHANGED <<linkVars, wphase>>
        BY <1>1, SessionKept DEF linkVars, Together
  <1>2. CASE Coordinator
        BY <1>1, <1>2 DEF Coordinator, StartCoordinator, EndCoordinator, PublishTask,
                          FinishTraining, workerVars, hostVars
  <1>3. CASE Neighbour
    <2>1. Shaped' /\ InSession'
          BY <1>3 DEF Neighbour, Shaped, InSession
    <2> QED BY <1>3, <2>1 DEF Neighbour, Together, vars, workerVars
  <1>4. CASE LinkedStart
    <2>1. PICK m \in Modes : Link!Start(m)
          BY <1>4 DEF LinkedStart
    <2>2. up' = TRUE /\ wphase' = "probe"
          BY <1>4, <2>1 DEF LinkedStart, StartWorker, Link!Start
    <2> QED BY <2>1, <2>2, SessionStarts DEF Together
  <1>5. CASE LinkedBeat
    <2>1. Link!Tick /\ up' = up /\ wphase = "beat" /\ wphase' = "poll"
          BY <1>5 DEF LinkedBeat, Beat, Link!Tick
    <2> QED BY <2>1, SessionTicks DEF Together
  <1>6. CASE Probe \/ Register \/ Poll \/ Execute
    <2>1. LinkOfProcess
          BY <1>6 DEF Probe, Register, Poll, Execute
    <2>2. wphase # "exited"
          BY <1>6 DEF Probe, ProbeFailed, ProbeAnswered, Register, Registered, RegisterFailed,
                      Poll, PollFailed, PollIdle, PollTask, PollStop, Execute, TaskEnds
    <2> QED BY <2>1, <2>2, OfProcess
  <1>7. CASE Pass
    <2>1. up' = up /\ wphase' = wphase
          BY <1>7 DEF Pass, Link!Pass, vars, workerVars
    <2> QED BY <1>7, <2>1, SessionKept DEF Pass, Together
  <1>8. CASE UNCHANGED linkedVars
        BY <1>1, <1>8 DEF linkedVars, vars, workerVars, hostVars
  <1> QED BY <1>2, <1>3, <1>4, <1>5, <1>6, <1>7, <1>8 DEF LinkedNext, LinkedStep

LEMMA TogetherInit == LinkedInit => Shaped /\ InSession /\ Together
  <1> SUFFICES ASSUME LinkedInit PROVE Shaped /\ InSession /\ Together
      OBVIOUS
  <1>1. Link!Init /\ wphase = "exited"
        BY DEF LinkedInit, Init
  <1>2. Shaped
        BY <1>1 DEF Link!Init, Link!Blank, Shaped, Tree
  <1>3. now \in 0 .. MaxTime /\ seen \in 0 .. now /\ sessions \in 0 .. MaxStarts
        BY <1>1, LinkAssumption, LimitAssumption DEF Link!Init
  <1>4. slot \in Link!Slot /\ mode \in Link!Mode
        BY <1>1, SlotsAndProfiles DEF Link!Init, Link!Mode
  <1>5. InSession
        BY <1>1, <1>3, <1>4 DEF Link!Init, InSession
  <1> QED BY <1>1, <1>2, <1>5 DEF Link!Init, Together

TypesInv == WorkerInv /\ LinkedInv /\ Shaped /\ InSession /\ Together

\* A rule without an owner is what is left when each owner has taken its own.
LEMMA TypesFollow == TypesInv => LinkedTypeOK
  <1> SUFFICES ASSUME TypesInv PROVE LinkedTypeOK
      OBVIOUS
  <1>1. rules \in Nat /\ hardOffline \in BOOLEAN /\ neighbour \in {"open", "blocking", "gone"}
        BY DEF TypesInv, LinkedInv, Owned
  <1>2. Link!TypeOK
        BY <1>1 DEF TypesInv, Shaped, InSession, Tree, Link!TypeOK
  <1>3. Orphans \in Nat
    <2>1. OwnRules \in Nat /\ NeighbourRules \in Nat
          BY DEF OwnRules, NeighbourRules
    <2> QED BY <1>1, <2>1 DEF TypesInv, LinkedInv, Owned, Orphans
  <1> QED BY <1>1, <1>2, <1>3 DEF TypesInv, WorkerInv, LinkedInv, Together, LinkedTypeOK

\* Every variable of a worker on its host has its type, its replayer runs exactly
\* as long as the process does, and whoever is to delete a rule finds one, for
\* every trace and every tool that fails (worker.py:184-258).
THEOREM LinkedTypes == LinkedSpec => []LinkedTypeOK
  <1>1. LinkedInit => TypesInv
      BY WorkerInit, LinkedInvInit, TogetherInit DEF LinkedInit, TypesInv
  <1>2. TypesInv /\ [LinkedNext]_linkedVars => TypesInv'
      BY LinkedStepIsLoopStep, WorkerInductive, LinkedInvInductive, TogetherInductive DEF TypesInv
  <1> QED BY <1>1, <1>2, TypesFollow, PTL DEF LinkedSpec
-----------------------------------------------------------------------------
(* What WorkerEnds rests on besides fairness. *)

\* Steps that are left to a process whose coordinator has finished or is gone:
\* the health checks, the registration, and a heartbeat and a poll for each of
\* the failures that idle_count still tolerates.
StepsLeft ==
  CASE wphase = "exited" -> 0
    [] wphase = "poll" -> 2 * (IdleLimit + 1 - idleCount) + 1
    [] wphase = "beat" -> 2 * (IdleLimit + 1 - idleCount) + 2
    [] wphase = "task" -> 2 * (IdleLimit + 1 - idleCount) + 3
    [] wphase = "register" -> 2 * (IdleLimit + 1 - idleCount) + 3
    [] OTHER -> 2 * (IdleLimit + 1 - idleCount) + 4 + (ProbeLimit - probes)

\* When there is nothing more to do, or nobody to ask, every step of the process
\* brings its end nearer, whether requests fail or are answered.
EndsInTime ==
  [][(stopped \/ ~serving) /\ WorkerStep => StepsLeft \in Nat /\ StepsLeft' < StepsLeft]_vars

\* worker.py:216-258, whatever the limits are and whenever the coordinator ends.
THEOREM WorkerEndsInTime == Spec => EndsInTime
  <1> DEFINE A == (stopped \/ ~serving) /\ WorkerStep => StepsLeft \in Nat /\ StepsLeft' < StepsLeft
  <1>1. WorkerInv /\ WorkerInv' /\ [Next]_vars => [A]_vars
    <2> SUFFICES ASSUME WorkerInv, WorkerInv', stopped \/ ~serving, WorkerStep
                 PROVE  StepsLeft \in Nat /\ StepsLeft' < StepsLeft
        OBVIOUS
    <2>1. /\ idleCount \in 0 .. IdleLimit + 1 /\ idleCount' \in 0 .. IdleLimit + 1
          /\ probes \in 0 .. ProbeLimit /\ probes' \in 0 .. ProbeLimit
          /\ IdleLimit \in Nat /\ ProbeLimit \in Nat
          BY LimitAssumption DEF WorkerInv, TypeOK
    <2> DEFINE rest == IdleLimit + 1 - idleCount
    <2>2. rest \in Nat /\ ProbeLimit - probes \in Nat
          BY <2>1
    <2>3. StepsLeft \in Nat
          BY <2>2 DEF StepsLeft
    <2>4. CASE ProbeAnswered \/ ProbeFailed
          BY <2>1, <2>4 DEF ProbeAnswered, ProbeFailed, End, StepsLeft
    <2>5. CASE Registered \/ RegisterFailed \/ Beat \/ TaskEnds
          BY <2>1, <2>5 DEF Registered, RegisterFailed, Beat, TaskEnds, End, StepsLeft
    <2>6. CASE PollFailed
      <3>1. idleCount' = Bump(idleCount) /\ wphase = "poll"
            BY <2>6 DEF PollFailed
      <3>2. CASE wphase' = "exited"
            BY <2>1, <3>1, <3>2 DEF StepsLeft
      <3>3. CASE wphase' = "beat" /\ idleCount' <= IdleLimit
        <4>1. idleCount' = idleCount + 1
              BY <2>1, <3>1, <3>3 DEF Bump
        <4> QED BY <2>1, <3>1, <3>3, <4>1 DEF StepsLeft
      <3> QED BY <2>1, <2>6, <3>2, <3>3 DEF PollFailed, End
    <2>7. CASE PollStop
          BY <2>1, <2>7 DEF PollStop, End, StepsLeft
    <2>8. ~PollIdle /\ ~PollTask
          BY DEF PollIdle, PollTask
    <2> QED BY <2>3, <2>4, <2>5, <2>6, <2>7, <2>8 DEF WorkerStep
  <1>2. Spec => []WorkerInv
        BY WorkerInit, WorkerInductive, PTL DEF Spec
  <1> QED BY <1>1, <1>2, PTL DEF Spec, EndsInTime
=============================================================================
