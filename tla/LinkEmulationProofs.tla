------------------------ MODULE LinkEmulationProofs ------------------------
(***************************************************************************)
(* Proofs about the emulated link, for every trace, every set of tools     *)
(* that may fail and every number of sessions.                             *)
(***************************************************************************)
EXTENDS LinkEmulation, FiniteSetTheorems, TLAPS

\* A command that is reported as successful has taken effect.
LEMMA OkIsDone ==
  ASSUME NEW tool, NEW applies, NEW r \in Runs(tool, applies)
  PROVE  /\ r.ok => r.done
         /\ ~applies => ~r.done
  BY DEF Runs, Done, Failed, TimedOut

\* What OfflineIsBlocked rests on besides itself: rules are counted, never owed.
Blocked == rules \in Nat /\ OfflineIsBlocked

\* HARD OFFLINE sets the flag only when the rule is there.
LEMMA OfflineBlocks == Blocked /\ GoHardOffline => Blocked'
  <1> SUFFICES ASSUME Blocked, GoHardOffline PROVE Blocked'
      OBVIOUS
  <1> USE DEF Blocked, OfflineIsBlocked
  <1>1. CASE hardOffline
        BY <1>1 DEF GoHardOffline, link
  <1>2. CASE ~hardOffline
    <2>1. PICK r \in Runs("iptables", TRUE) :
            /\ rules' = rules + (IF r.done THEN 1 ELSE 0)
            /\ hardOffline' = r.ok
          BY <1>2 DEF GoHardOffline
    <2>2. r.ok => r.done
          BY OkIsDone
    <2> QED BY <2>1, <2>2
  <1> QED BY <1>1, <1>2

\* HARD ONLINE clears the flag whatever becomes of the rule.
LEMMA OnlineBlocks == Blocked /\ GoHardOnline => Blocked'
  <1> SUFFICES ASSUME Blocked, GoHardOnline PROVE Blocked'
      OBVIOUS
  <1> USE DEF Blocked, OfflineIsBlocked
  <1>1. CASE ~hardOffline
        BY <1>1 DEF GoHardOnline, link
  <1>2. CASE hardOffline
    <2>1. PICK r \in Runs("iptables", rules > 0) :
            /\ rules' = IF r.done THEN rules - 1 ELSE rules
            /\ hardOffline' = FALSE
          BY <1>2 DEF GoHardOnline
    <2>2. r.done => rules > 0
          BY <2>1 DEF Runs, Done, Failed, TimedOut
    <2> QED BY <2>1, <2>2
  <1> QED BY <1>1, <1>2

\* A rule is lost to its owner only by a command whose result was not looked at:
\* the rules nobody will delete any more never become fewer.
OwnRules == IF hardOffline THEN 1 ELSE 0

LEMMA CommandsKeepOrphans ==
  ASSUME Blocked, hardOffline \in BOOLEAN, GoHardOffline \/ GoHardOnline \/ UNCHANGED link
  PROVE  /\ rules' \in Nat
         /\ hardOffline' \in BOOLEAN
         /\ rules' - OwnRules' >= rules - OwnRules
  <1>1. Blocked'
        BY OfflineBlocks, OnlineBlocks DEF Blocked, OfflineIsBlocked, link
  <1>2. CASE UNCHANGED link
        BY <1>2 DEF link, OwnRules, Blocked
  <1>3. CASE ~hardOffline /\ GoHardOffline
    <2>1. PICK r \in Runs("iptables", TRUE) :
            /\ rules' = rules + (IF r.done THEN 1 ELSE 0)
            /\ hardOffline' = r.ok
          BY <1>3 DEF GoHardOffline
    <2>2. /\ r.ok => r.done
          /\ r.ok = TRUE \/ r.ok = FALSE
          BY OkIsDone DEF Runs, Done, Failed, TimedOut
    <2>3. OwnRules = 0 /\ OwnRules' = (IF r.ok THEN 1 ELSE 0)
          BY <1>3, <2>1 DEF OwnRules
    <2>4. rules \in Nat /\ rules' \in Nat
          BY <1>1 DEF Blocked
    <2>5. rules' - OwnRules' >= rules - OwnRules
          BY <2>1, <2>2, <2>3, <2>4
    <2>6. hardOffline' \in BOOLEAN
          BY <2>1, <2>2
    <2> QED BY <2>4, <2>5, <2>6
  <1>4. CASE hardOffline /\ GoHardOnline
    <2>1. PICK r \in Runs("iptables", rules > 0) :
            /\ rules' = IF r.done THEN rules - 1 ELSE rules
            /\ hardOffline' = FALSE
          BY <1>4 DEF GoHardOnline
    <2>2. OwnRules = 1 /\ OwnRules' = 0
          BY <1>4, <2>1 DEF OwnRules
    <2>3. rules \in Nat /\ rules' \in Nat
          BY <1>1 DEF Blocked
    <2>4. rules' - OwnRules' >= rules - OwnRules
          BY <2>1, <2>2, <2>3
    <2> QED BY <2>1, <2>3, <2>4
  <1>5. CASE (hardOffline /\ GoHardOffline) \/ (~hardOffline /\ GoHardOnline)
        BY <1>2, <1>5 DEF GoHardOffline, GoHardOnline
  <1> QED BY <1>2, <1>3, <1>4, <1>5

LEMMA StepsKeepOrphans ==
  ASSUME Blocked, hardOffline \in BOOLEAN,
         (\E m \in Modes : Start(m)) \/ Tick \/ Exit \/ Pass
  PROVE  /\ rules' \in Nat
         /\ hardOffline' \in BOOLEAN
         /\ rules' - OwnRules' >= rules - OwnRules
  <1>1. ASSUME NEW i, ApplySlot(i)
        PROVE  GoHardOffline \/ GoHardOnline \/ UNCHANGED link
        BY <1>1 DEF ApplySlot
  <1>2. CASE \E m \in Modes : Start(m)
        BY <1>1, <1>2, CommandsKeepOrphans DEF Start
  <1>3. CASE Tick
        BY <1>1, <1>3, CommandsKeepOrphans DEF Tick
  <1>4. CASE Pass
        BY <1>4, CommandsKeepOrphans DEF Pass
  <1>5. CASE Exit
    <2>1. rules' = rules /\ hardOffline' = FALSE
          BY <1>5 DEF Exit
    <2>2. OwnRules' = 0 /\ OwnRules \in {0, 1}
          BY <2>1 DEF OwnRules
    <2>3. rules \in Nat
          BY DEF Blocked
    <2>4. rules' - OwnRules' >= rules - OwnRules
          BY <2>1, <2>2, <2>3
    <2> QED BY <2>1, <2>3, <2>4
  <1> QED BY <1>2, <1>3, <1>4, <1>5

LEMMA SlotBlocks ==
  ASSUME NEW i, Blocked, ApplySlot(i)
  PROVE  Blocked'
  <1>1. CASE Trace[i].online
        BY <1>1, OnlineBlocks DEF ApplySlot
  <1>2. CASE ~Trace[i].online
        BY <1>2, OfflineBlocks DEF ApplySlot
  <1> QED BY <1>1, <1>2

LEMMA BlockedInductive == Blocked /\ [Next]_vars => Blocked'
  <1> SUFFICES ASSUME Blocked, [Next]_vars PROVE Blocked'
      OBVIOUS
  <1>1. ASSUME UNCHANGED link PROVE Blocked'
        BY <1>1 DEF Blocked, OfflineIsBlocked, link
  <1>2. ASSUME NEW m \in Modes, Start(m) PROVE Blocked'
        BY <1>1, <1>2, SlotBlocks DEF Start
  <1>3. CASE Tick
        BY <1>1, <1>3, SlotBlocks DEF Tick
  <1>4. CASE Pass
        BY <1>1, <1>4 DEF Pass
  <1>5. CASE Exit
        BY <1>5 DEF Exit, Blocked, OfflineIsBlocked
  <1>6. CASE Stop
        BY <1>6, OnlineBlocks DEF Stop
  <1>7. CASE UNCHANGED vars
        BY <1>1, <1>7 DEF vars
  <1> QED BY <1>2, <1>3, <1>4, <1>5, <1>6, <1>7 DEF Next

\* Whatever commands fail or time out, and whatever rules earlier sessions left,
\* a controller that reports itself offline has a DROP rule in the kernel
\* (disconnect_controller.py:43-72).
THEOREM LinkOfflineIsBlocked == Spec => []OfflineIsBlocked
  <1>1. Init => Blocked
      BY DEF Init, Blocked, OfflineIsBlocked
  <1>2. Blocked => OfflineIsBlocked
      BY DEF Blocked
  <1> QED BY BlockedInductive, <1>1, <1>2, PTL DEF Spec

\* The parts of the kernel's tree.
KernelShape ==
  kernel = [root |-> kernel.root, rate |-> kernel.rate,
            delay |-> kernel.delay, filter |-> kernel.filter]

\* Without netem in the kernel an update changes no delay.
LEMMA UpdateWithoutNetem ==
  ASSUME NEW p, KernelShape, kernel.delay = None, UpdateNetem(p)
  PROVE  kernel'.delay = None
  <1>1. PICK n \in Runs("tc", kernel.delay # None), c \in Runs("tc", kernel.rate # None) :
          kernel' = [kernel EXCEPT !.delay = IF n.done THEN p ELSE @,
                                   !.rate = IF n.ok /\ c.done THEN p ELSE @]
        BY DEF UpdateNetem
  <1>2. ~n.done
        BY OkIsDone
  <1> QED BY <1>1, <1>2 DEF KernelShape

LEMMA ShapeKept ==
  ASSUME NEW p, KernelShape, ApplyProfile(p) \/ UpdateNetem(p)
  PROVE  KernelShape'
  <1>1. CASE ApplyProfile(p)
        BY <1>1 DEF ApplyProfile, TreeBuilt, Built, KernelShape
  <1>2. CASE UpdateNetem(p)
    <2>1. PICK n \in Runs("tc", kernel.delay # None), c \in Runs("tc", kernel.rate # None) :
            kernel' = [kernel EXCEPT !.delay = IF n.done THEN p ELSE @,
                                     !.rate = IF n.ok /\ c.done THEN p ELSE @]
          BY <1>2 DEF UpdateNetem
    <2> QED BY <2>1 DEF KernelShape
  <1> QED BY <1>1, <1>2

LEMMA ShapeInductive == KernelShape /\ [Next]_vars => KernelShape'
  <1> SUFFICES ASSUME KernelShape, [Next]_vars PROVE KernelShape'
      OBVIOUS
  <1>1. ASSUME UNCHANGED kernel PROVE KernelShape'
        BY <1>1 DEF KernelShape
  <1>2. ASSUME NEW i, ApplySlot(i) PROVE KernelShape'
        BY <1>1, <1>2, ShapeKept DEF ApplySlot, shaping
  <1>3. ASSUME NEW m \in Modes, Start(m) PROVE KernelShape'
        BY <1>1, <1>2, <1>3, ShapeKept DEF Start, shaping
  <1>4. CASE Tick
        BY <1>1, <1>2, <1>4, ShapeKept DEF Tick, shaping
  <1>5. CASE Pass \/ Exit \/ UNCHANGED vars
        BY <1>1, <1>5 DEF Pass, Exit, vars, shaping
  <1>6. CASE Stop
    <2>1. kernel' = Blank \/ kernel' = kernel
          BY <1>6 DEF Stop
    <2> QED BY <1>1, <2>1 DEF Blank, KernelShape
  <1> QED BY <1>3, <1>4, <1>5, <1>6 DEF Next

\* A profile that could not be installed is never installed later in the session:
\* ticks only change what is there (tc_manager.py:118, trace_replayer.py:153-156).
THEOREM LinkFailedApplyIsFinal == Spec => FailedApplyIsFinal
  <1>1. Init => KernelShape
      BY DEF Init, Blank, KernelShape
  <1>2. KernelShape /\ [Next]_vars =>
          [up /\ up' /\ (active \/ mode = "random") /\ kernel.delay = None
             => kernel'.delay = None]_vars
    <2> SUFFICES ASSUME KernelShape, Next, up, up', active \/ mode = "random",
                        kernel.delay = None
                 PROVE  kernel'.delay = None
        BY DEF vars, shaping
    <2>1. CASE Tick
      <3>1. CASE UNCHANGED shaping
            BY <3>1 DEF shaping
      <3>2. CASE mode = "random"
            BY <2>1, <3>2, UpdateWithoutNetem DEF Tick
      <3>3. CASE active /\ mode \in {"trace", "repeated"}
            BY <2>1, <3>3, UpdateWithoutNetem DEF Tick, ApplySlot, shaping
      <3> QED BY <2>1, <3>1, <3>2, <3>3 DEF Tick, shaping
    <2>2. CASE Pass
          BY <2>2 DEF Pass, shaping
    <2>3. ~(\E m \in Modes : Start(m)) /\ ~Exit /\ ~Stop
          BY DEF Start, Exit, Stop, Forget
    <2> QED BY <2>1, <2>2, <2>3 DEF Next
  <1> QED BY ShapeInductive, <1>1, <1>2, PTL DEF Spec, FailedApplyIsFinal

\* The greatest of some slots is one of them, and none is greater.
LEMMA MaxOfSlots ==
  ASSUME NEW n \in Nat, NEW S \in SUBSET (0 .. n), S # {}
  PROVE  Max(S) \in S /\ \A x \in S : Max(S) >= x
  <1> DEFINE Above(i) == {x \in S : x > i}
             F == {Above(i) : i \in S}
  <1>1. IsFiniteSet(0 .. n)
        BY FS_Interval
  <1>2. F \subseteq SUBSET (0 .. n) /\ F # {}
        OBVIOUS
  <1>3. IsWellFoundedOn(StrictSubsetOrdering(0 .. n), SUBSET (0 .. n))
        BY <1>1, FS_StrictSubsetOrderingWellFounded, FS_FiniteSubsetsOfFinite
  <1>4. PICK f \in F : \A g \in F : ~(<<g, f>> \in StrictSubsetOrdering(0 .. n))
    <2> HIDE DEF F
    <2> QED BY <1>2, <1>3, WFMin
  <1>5. PICK y \in S : f = Above(y)
        OBVIOUS
  <1>6. ASSUME NEW x \in S, x > y PROVE FALSE
    <2>1. x \in 0 .. n /\ y \in 0 .. n
          OBVIOUS
    <2>2. Above(x) \subseteq Above(y)
      <3> SUFFICES ASSUME NEW z \in S, z > x PROVE z > y
          OBVIOUS
      <3> QED BY <1>6, <2>1
    <2>3. x \in Above(y) /\ ~(x > x)
          BY <1>6, <2>1
    <2>4. x \notin Above(x)
          BY <2>3
    <2>5. Above(x) \in SUBSET (0 .. n) /\ Above(y) \in SUBSET (0 .. n) /\ Above(x) \in F
          OBVIOUS
    <2>6. <<Above(x), Above(y)>> \in StrictSubsetOrdering(0 .. n)
      <3> HIDE DEF Above
      <3> QED BY <2>2, <2>3, <2>4, <2>5 DEF StrictSubsetOrdering
    <2> QED BY <1>4, <1>5, <2>5, <2>6
  <1>7. \A x \in S : y >= x
    <2> SUFFICES ASSUME NEW x \in S PROVE y >= x
        OBVIOUS
    <2>1. x \in 0 .. n /\ y \in 0 .. n /\ ~(x > y)
          BY <1>6
    <2> QED BY <2>1
  <1> QED BY <1>7 DEF Max

Reached == {i \in slot .. Len(Trace) : \A j \in slot .. i : Trace[j].time <= Elapsed}

\* The search ends at a slot, not before the one it starts from.
LEMMA TargetIsSlot ==
  ASSUME slot \in Slot
  PROVE  /\ TargetSlot \in Slot
         /\ Reached # {} => /\ TargetSlot \in Reached
                           /\ \A i \in Reached : TargetSlot >= i
  <1>1. Len(Trace) \in Nat
        BY TraceAssumption
  <1>2. Reached \in SUBSET Slot /\ Reached \in SUBSET (0 .. Len(Trace))
        BY <1>1 DEF Reached, Slot
  <1>3. CASE Reached = {}
        BY <1>3 DEF TargetSlot, Reached
  <1>4. CASE Reached # {}
    <2>1. Max(Reached) \in Reached /\ \A i \in Reached : Max(Reached) >= i
          BY <1>1, <1>2, <1>4, MaxOfSlots
    <2>2. TargetSlot = Max(Reached)
          BY <1>4 DEF TargetSlot, Reached
    <2> QED BY <1>2, <2>1, <2>2
  <1> QED BY <1>3, <1>4

\* The types of the kernel's tree and of what TcManager knows about it.
KernelType ==
  /\ kernel \in [root : BOOLEAN, rate : Profile \cup {None},
                 delay : Profile \cup {None}, filter : BOOLEAN]
  /\ active \in BOOLEAN
  /\ tcProfile \in IF active THEN Profile ELSE Profile \cup {None}

LEMMA ShapingTyped ==
  ASSUME KernelType, NEW p \in Profile, ApplyProfile(p) \/ UpdateNetem(p)
  PROVE  KernelType'
  <1>1. CASE ApplyProfile(p)
    <2>1. PICK done : kernel' = Built(done, p)
          BY <1>1 DEF ApplyProfile, TreeBuilt
    <2>2. Blank \in [root : BOOLEAN, rate : Profile \cup {None},
                    delay : Profile \cup {None}, filter : BOOLEAN]
          BY DEF Blank
    <2>3. kernel' \in [root : BOOLEAN, rate : Profile \cup {None},
                      delay : Profile \cup {None}, filter : BOOLEAN]
          BY <2>1, <2>2 DEF Built, KernelType
    <2> QED BY <1>1, <2>3 DEF ApplyProfile, KernelType
  <1>2. CASE UpdateNetem(p)
    <2>1. PICK n \in Runs("tc", kernel.delay # None), c \in Runs("tc", kernel.rate # None) :
            /\ kernel' = [kernel EXCEPT !.delay = IF n.done THEN p ELSE @,
                                        !.rate = IF n.ok /\ c.done THEN p ELSE @]
            /\ tcProfile' = IF n.ok THEN p ELSE tcProfile
            /\ active' = active
          BY <1>2 DEF UpdateNetem
    <2> QED BY <2>1 DEF KernelType
  <1> QED BY <1>1, <1>2

\* A session: its clock, its slot and the event it has logged.
SessionType ==
  /\ event \in {"none", "offline", "online"}
  /\ mode \in Mode
  /\ slot \in Slot
  /\ now \in 0 .. MaxTime
  /\ seen \in 0 .. now
  /\ up \in BOOLEAN
  /\ sessions \in 0 .. MaxSessions
  /\ broken \subseteq Tools

LinkInv == Blocked /\ hardOffline \in BOOLEAN /\ KernelType /\ SessionType

LEMMA EventTyped ==
  ASSUME GoHardOffline \/ GoHardOnline \/ UNCHANGED link
  PROVE  event' \in {event, "offline", "online"}
  BY DEF GoHardOffline, GoHardOnline, link

LEMMA SlotTyped ==
  ASSUME LinkInv, NEW i \in Slot, ApplySlot(i)
  PROVE  /\ KernelType'
         /\ GoHardOffline \/ GoHardOnline \/ UNCHANGED link
  <1>1. i \in Profile
        BY TraceAssumption DEF Slot, Profile
  <1>2. CASE Trace[i].online
        BY <1>1, <1>2, ShapingTyped DEF ApplySlot, LinkInv
  <1>3. CASE ~Trace[i].online
        BY <1>3 DEF ApplySlot, LinkInv, KernelType, shaping
  <1> QED BY <1>2, <1>3

\* A trace has a first row.
LEMMA SomeSlot == 1 \in Slot /\ Len(Trace) \in Nat
  BY TraceAssumption DEF Slot

LEMMA StartTyped ==
  ASSUME LinkInv, NEW m \in Modes, Start(m)
  PROVE  LinkInv'
  <1>1. Blocked'
        BY BlockedInductive DEF LinkInv, Next
  <1>2. m \in Mode /\ 1 \in Slot /\ Base \in Profile
        BY ModesAssumption, SomeSlot DEF Mode, Base, Profile
  <1>3. /\ KernelType'
        /\ GoHardOffline \/ GoHardOnline \/ UNCHANGED link
    <2>1. CASE ApplyProfile(Base) /\ UNCHANGED link
          BY <1>2, <2>1, ShapingTyped DEF LinkInv
    <2>2. CASE ApplySlot(1)
          BY <1>2, <2>2, SlotTyped
    <2>3. CASE UNCHANGED <<link, shaping>>
          BY <2>3 DEF LinkInv, KernelType, shaping
    <2> QED BY <2>1, <2>2, <2>3 DEF Start
  <1>4. hardOffline' \in BOOLEAN /\ event' \in {event, "offline", "online"}
        BY <1>3, CommandsKeepOrphans, EventTyped DEF LinkInv
  <1>5. sessions \in 0 .. MaxSessions /\ sessions < MaxSessions /\ sessions' = sessions + 1
        BY DEF LinkInv, SessionType, Start
  <1>6. sessions' \in 0 .. MaxSessions
        BY <1>5, BoundAssumption
  <1>7. SessionType'
        BY <1>2, <1>4, <1>6, BoundAssumption DEF LinkInv, SessionType, Start
  <1> QED BY <1>1, <1>3, <1>4, <1>7 DEF LinkInv

LEMMA TickTyped ==
  ASSUME LinkInv, Tick
  PROVE  LinkInv'
  <1>1. Blocked'
        BY BlockedInductive DEF LinkInv, Next
  <1>2. slot' \in Slot
        BY TargetIsSlot DEF Tick, LinkInv, SessionType
  <1>3. /\ KernelType'
        /\ GoHardOffline \/ GoHardOnline \/ UNCHANGED link
    <2>1. CASE UNCHANGED <<link, shaping>>
          BY <2>1 DEF LinkInv, KernelType, shaping
    <2>2. CASE ApplySlot(slot')
          BY <1>2, <2>2, SlotTyped
    <2>3. CASE UpdateNetem(Perturbed) /\ UNCHANGED link
      <3>1. Perturbed \in Profile
            BY TraceAssumption DEF Perturbed, Profile
      <3> QED BY <2>3, <3>1, ShapingTyped DEF LinkInv
    <2> QED BY <2>1, <2>2, <2>3 DEF Tick
  <1>4. hardOffline' \in BOOLEAN /\ event' \in {event, "offline", "online"}
        BY <1>3, CommandsKeepOrphans, EventTyped DEF LinkInv
  <1>5. now \in Nat /\ seen' = now /\ now' = now
        BY BoundAssumption DEF LinkInv, SessionType, Tick
  <1>6. SessionType'
        BY <1>2, <1>4, <1>5 DEF LinkInv, SessionType, Tick
  <1> QED BY <1>1, <1>3, <1>4, <1>6 DEF LinkInv

LEMMA ForgetTyped ==
  ASSUME KernelType, SessionType, Forget, event' \in {event, "online"},
         kernel' \in {kernel, Blank}
  PROVE  KernelType' /\ SessionType'
  <1>1. Blank \in [root : BOOLEAN, rate : Profile \cup {None},
                  delay : Profile \cup {None}, filter : BOOLEAN]
        BY DEF Blank
  <1>2. KernelType'
        BY <1>1 DEF KernelType, Forget
  <1>3. SessionType'
        BY DEF SessionType, Forget
  <1> QED BY <1>2, <1>3

LEMMA LinkInvInductive == LinkInv /\ [Next]_vars => LinkInv'
  <1> SUFFICES ASSUME LinkInv, [Next]_vars PROVE LinkInv'
      OBVIOUS
  <1>1. Blocked'
        BY BlockedInductive DEF LinkInv
  <1>2. CASE \E m \in Modes : Start(m)
        BY <1>2, StartTyped
  <1>3. CASE Tick
        BY <1>3, TickTyped
  <1>4. CASE Pass
    <2>1. now' \in 0 .. MaxTime /\ seen' \in 0 .. now'
          BY <1>4, BoundAssumption DEF Pass, LinkInv, SessionType
    <2>2. SessionType'
          BY <1>4, <2>1 DEF Pass, LinkInv, SessionType, link
    <2> QED BY <1>1, <1>4, <2>2 DEF Pass, LinkInv, KernelType, link, shaping
  <1>5. CASE Exit
    <2>1. event' \in {event, "online"} /\ kernel' \in {kernel, Blank} /\ Forget
          BY <1>5 DEF Exit
    <2>2. hardOffline' \in BOOLEAN
          BY <1>5 DEF Exit
    <2> QED BY <1>1, <2>1, <2>2, ForgetTyped DEF LinkInv
  <1>6. CASE Stop
    <2>1. event' \in {event, "online"} /\ kernel' \in {kernel, Blank} /\ Forget
          BY <1>6 DEF Stop, GoHardOnline, link
    <2>2. hardOffline' \in BOOLEAN
          BY <1>6, CommandsKeepOrphans DEF Stop, LinkInv
    <2> QED BY <1>1, <2>1, <2>2, ForgetTyped DEF LinkInv
  <1>7. CASE UNCHANGED vars
        BY <1>1, <1>7 DEF vars, link, shaping, session, LinkInv, KernelType, SessionType
  <1> QED BY <1>2, <1>3, <1>4, <1>5, <1>6, <1>7 DEF Next

LEMMA InitLinkInv == Init => LinkInv
  <1> SUFFICES ASSUME Init PROVE LinkInv
      OBVIOUS
  <1>1. KernelType
        BY DEF Init, KernelType, Blank
  <1>2. 1 \in Slot /\ 0 \in 0 .. MaxTime /\ 0 \in 0 .. MaxSessions
        BY SomeSlot, BoundAssumption
  <1>3. SessionType
    <2>1. now \in 0 .. MaxTime /\ seen \in 0 .. now /\ sessions \in 0 .. MaxSessions
          BY <1>2 DEF Init
    <2>2. slot \in Slot /\ up \in BOOLEAN /\ broken \subseteq Tools
          BY <1>2 DEF Init
    <2>3. event \in {"none", "offline", "online"} /\ mode \in Mode
          BY DEF Init, Mode
    <2> QED BY <2>1, <2>2, <2>3 DEF SessionType
  <1>4. Blocked /\ hardOffline \in BOOLEAN
        BY DEF Init, Blocked, OfflineIsBlocked
  <1> QED BY <1>1, <1>3, <1>4 DEF LinkInv

\* Every variable of the link has its type, and a TcManager that is active has a
\* profile, whatever commands fail (tc_manager.py:118-131, trace_replayer.py).
THEOREM LinkTypeOK == Spec => []TypeOK
  <1>1. LinkInv => TypeOK
      BY DEF LinkInv, Blocked, KernelType, SessionType, TypeOK
  <1> QED BY InitLinkInv, LinkInvInductive, <1>1, PTL DEF Spec

\* Every row of the trace has a time.
LEMMA RowTyped ==
  ASSUME NEW i \in Slot
  PROVE  i \in 1 .. Len(Trace) /\ i \in Nat /\ Trace[i].time \in Nat
  <1>1. i \in 1 .. Len(Trace) /\ i \in Nat
        BY SomeSlot DEF Slot
  <1> DEFINE Row == [time : Nat, online : BOOLEAN]
  <1>2. Trace \in Seq(Row)
        BY TraceAssumption
  <1>3. Trace[i] \in Row
    <2> HIDE DEF Row
    <2> QED BY <1>1, <1>2
  <1> QED BY <1>1, <1>3

\* Once the slot has begun, the search returns the latest one that has.
LEMMA TargetIsCurrent ==
  ASSUME LinkInv, up, mode = "trace", SlotIsCurrent
  PROVE  /\ Trace[TargetSlot].time <= now
         /\ \A i \in Slot : i > TargetSlot => Trace[i].time > now
  <1>1. /\ slot \in Slot
        /\ now \in Nat
        /\ seen \in Nat
        /\ seen <= now
        BY BoundAssumption DEF LinkInv, SessionType
  <1>2. Elapsed = now
        BY DEF Elapsed
  <1>3. \A i \in Slot : i \in 1 .. Len(Trace) /\ i \in Nat /\ Trace[i].time \in Nat
        BY RowTyped
  <1>4. slot \in Reached
    <2>1. Trace[slot].time <= now
          BY <1>1, <1>3 DEF SlotIsCurrent
    <2>2. slot .. slot = {slot} /\ slot \in slot .. Len(Trace)
          BY <1>1, <1>3, SomeSlot
    <2> QED BY <1>2, <2>1, <2>2 DEF Reached
  <1>5. /\ TargetSlot \in Reached
        /\ TargetSlot \in Slot
        /\ \A i \in Reached : TargetSlot >= i
        BY <1>1, <1>4, TargetIsSlot
  <1>6. Trace[TargetSlot].time <= now
    <2>1. TargetSlot \in slot .. TargetSlot
          BY <1>1, <1>3, <1>5, SomeSlot DEF Reached
    <2> QED BY <1>2, <1>5, <2>1 DEF Reached
  <1>7. ASSUME NEW i \in Slot, i > TargetSlot, ~(Trace[i].time > now)
        PROVE  FALSE
    <2>1. i \in Nat /\ TargetSlot \in Nat /\ slot \in Nat /\ TargetSlot >= slot
          BY <1>1, <1>3, <1>4, <1>5
    <2>2. ASSUME NEW j \in slot .. i PROVE Trace[j].time <= now
      <3>1. j \in Slot /\ j \in Nat /\ j <= i
            BY <1>1, <1>3, <2>1, SomeSlot DEF Slot
      <3>2. Trace[j].time \in Nat /\ Trace[i].time \in Nat /\ Trace[i].time <= now
            BY <1>1, <1>3, <1>7, <3>1
      <3>3. j = i \/ Trace[j].time < Trace[i].time
            BY <2>1, <3>1, TraceAssumption DEF Slot
      <3> QED BY <1>1, <3>2, <3>3
    <2>3. i \in slot .. Len(Trace)
          BY <1>7, <2>1, SomeSlot DEF Slot
    <2>4. i \in Reached
          BY <1>2, <2>2, <2>3 DEF Reached
    <2> QED BY <1>5, <1>7, <2>1, <2>4
  <1> QED BY <1>6, <1>7

LEMMA CurrentInductive == LinkInv /\ SlotIsCurrent /\ [Next]_vars => SlotIsCurrent'
  <1> SUFFICES ASSUME LinkInv, SlotIsCurrent, [Next]_vars PROVE SlotIsCurrent'
      OBVIOUS
  <1>1. ASSUME NEW m \in Modes, Start(m) PROVE SlotIsCurrent'
    <2>1. slot' = 1 /\ seen' = 0
          BY <1>1 DEF Start
    <2>2. /\ Trace[1].time <= 0
          /\ \A i \in Slot : i > 1 => Trace[i].time > 0
          BY TraceAssumption, SomeSlot DEF Slot
    <2> QED BY <2>1, <2>2 DEF SlotIsCurrent
  <1>2. CASE Tick
    <2> SUFFICES ASSUME mode = "trace"
                 PROVE  /\ Trace[slot'].time <= seen'
                        /\ \A i \in Slot : i > slot' => Trace[i].time > seen'
        BY <1>2 DEF Tick, SlotIsCurrent
    <2>1. up /\ slot' = TargetSlot /\ seen' = now
          BY <1>2 DEF Tick
    <2> QED BY <2>1, TargetIsCurrent
  <1>3. CASE Pass
        BY <1>3 DEF Pass, SlotIsCurrent
  <1>4. CASE Exit \/ Stop
        BY <1>4 DEF Exit, Stop, Forget, SlotIsCurrent
  <1>5. CASE UNCHANGED vars
        BY <1>5 DEF vars, session, SlotIsCurrent
  <1> QED BY <1>1, <1>2, <1>3, <1>4, <1>5 DEF Next

\* However late the ticks come and however many slots they skip, the slot is the
\* latest one that had begun at the last tick (trace_replayer.py:93-110).
THEOREM LinkSlotIsCurrent == Spec => []SlotIsCurrent
  <1>1. Init => SlotIsCurrent
      BY DEF Init, SlotIsCurrent
  <1> QED BY InitLinkInv, LinkInvInductive, CurrentInductive, <1>1, PTL DEF Spec

\* On any clock that is a number, the search ends at the furthest slot: the one it
\* started from, or the latest that has begun.
LEMMA TargetIsFurthest ==
  ASSUME slot \in Slot, NEW e \in Nat, e = Elapsed
  PROVE  /\ TargetSlot = slot \/ Trace[TargetSlot].time <= e
         /\ slot <= TargetSlot
         /\ \A i \in Slot : Trace[i].time <= e => i <= TargetSlot
  <1>1. \A i \in Slot : i \in 1 .. Len(Trace) /\ i \in Nat /\ Trace[i].time \in Nat
        BY RowTyped
  <1>2. /\ TargetSlot \in Slot
        /\ Reached # {} => TargetSlot \in Reached /\ \A i \in Reached : TargetSlot >= i
        /\ Reached = {} => TargetSlot = slot
        BY TargetIsSlot DEF TargetSlot, Reached
  <1>3. \A i \in Reached : slot <= i /\ Trace[i].time <= e
    <2>1. ASSUME NEW i \in Reached PROVE i \in slot .. i /\ slot <= i
          BY <1>1, SomeSlot DEF Reached
    <2> QED BY <2>1 DEF Reached
  <1>4. ASSUME NEW i \in Slot, Trace[i].time <= e, slot <= i PROVE i \in Reached
    <2>1. ASSUME NEW j \in slot .. i PROVE Trace[j].time <= e
      <3>1. j \in Slot /\ j \in Nat /\ j <= i
            BY <1>1, SomeSlot DEF Slot
      <3>2. Trace[j].time \in Nat /\ Trace[i].time \in Nat
            BY <1>1, <3>1
      <3>3. j = i \/ Trace[j].time < Trace[i].time
            BY <1>1, <3>1, TraceAssumption DEF Slot
      <3> QED BY <1>4, <3>2, <3>3
    <2>2. i \in slot .. Len(Trace)
          BY <1>1, <1>4, SomeSlot
    <2> QED BY <2>1, <2>2 DEF Reached
  <1>5. TargetSlot = slot \/ Trace[TargetSlot].time <= e
        BY <1>2, <1>3
  <1>6. slot <= TargetSlot
        BY <1>1, <1>2, <1>3
  <1>7. ASSUME NEW i \in Slot, Trace[i].time <= e PROVE i <= TargetSlot
    <2>1. i \in Nat /\ slot \in Nat /\ TargetSlot \in Nat
          BY <1>1, <1>2
    <2>2. slot <= i => i <= TargetSlot
          BY <1>2, <1>4, <1>7, <2>1
    <2> QED BY <1>6, <2>1, <2>2
  <1> QED BY <1>5, <1>6, <1>7

\* The clock of the mode "repeated".
Clock(t) == t % (Trace[Len(Trace)].time + 1)

LEMMA ClockTyped ==
  ASSUME NEW t \in Nat
  PROVE  Clock(t) \in Nat /\ Clock(0) = 0
  <1>1. Len(Trace) \in Slot
        BY TraceAssumption, SomeSlot DEF Slot
  <1>2. PICK n \in Nat : n = Trace[Len(Trace)].time
        BY <1>1, RowTyped
  <1>3. n + 1 \in Nat /\ n + 1 > 0
        BY <1>2
  <1>4. ASSUME NEW m \in Nat, m > 0 PROVE t % m \in Nat /\ 0 % m = 0
    <2>1. t % m \in 0 .. m - 1
          BY <1>4
    <2>2. 0 % m = 0
          BY <1>4
    <2> QED BY <2>1, <2>2
  <1> QED BY <1>2, <1>3, <1>4 DEF Clock

\* No slot has begun that the session has not come to.
NotBehind == up /\ mode = "repeated" => \A i \in Begun(seen) : i <= slot

LEMMA TickIsFurthest ==
  ASSUME LinkInv, Tick, mode = "repeated"
  PROVE  /\ slot' \in {slot} \cup Begun(seen')
         /\ \A i \in {slot} \cup Begun(seen') : i <= slot'
  <1>1. slot \in Slot /\ now \in Nat /\ slot' = TargetSlot /\ seen' = now
        BY BoundAssumption DEF Tick, LinkInv, SessionType
  <1>2. Begun(now) = {i \in Slot : Trace[i].time <= Clock(now)} /\ Clock(now) \in Nat
        BY <1>1, ClockTyped DEF Begun, Clock
  <1>3. Len(Trace) \in Slot /\ Len(Trace) \in Nat
        BY TraceAssumption, SomeSlot DEF Slot
  <1>4. TargetSlot \in Slot
        BY <1>1, TargetIsSlot
  <1>5. CASE Trace[Len(Trace)].time > 0
    <2>1. Elapsed = Clock(now)
          BY <1>5 DEF Elapsed, Clock, Tick
    <2>2. /\ TargetSlot = slot \/ Trace[TargetSlot].time <= Clock(now)
          /\ slot <= TargetSlot
          /\ \A i \in Slot : Trace[i].time <= Clock(now) => i <= TargetSlot
          BY <1>1, <1>2, <2>1, TargetIsFurthest
    <2> QED BY <1>1, <1>2, <1>4, <2>2
  <1>6. CASE ~(Trace[Len(Trace)].time > 0)
    \* Times increase from zero, so there is only one row.
    <2>1. Len(Trace) = 1
      <3>1. Trace[Len(Trace)].time \in Nat /\ Trace[1].time = 0 /\ 1 <= Len(Trace)
            BY <1>3, RowTyped, TraceAssumption DEF Slot
      <3>2. 1 < Len(Trace) => 0 < Trace[Len(Trace)].time
            BY <1>3, <3>1, TraceAssumption DEF Slot
      <3>3. ~(1 < Len(Trace))
            BY <1>6, <3>1, <3>2
      <3>4. ASSUME NEW n \in Nat, 1 <= n, ~(1 < n) PROVE n = 1
            BY <3>4
      <3> QED BY <1>3, <3>1, <3>3, <3>4
    <2>2. Slot = {1}
          BY <2>1 DEF Slot
    <2> QED BY <1>1, <1>2, <1>4, <2>2
  <1> QED BY <1>5, <1>6

LEMMA NotBehindInductive == LinkInv /\ NotBehind /\ [Next]_vars => NotBehind'
  <1> SUFFICES ASSUME LinkInv, NotBehind, [Next]_vars PROVE NotBehind'
      OBVIOUS
  <1>1. ASSUME NEW m \in Modes, Start(m) PROVE NotBehind'
    <2>1. slot' = 1 /\ seen' = 0
          BY <1>1 DEF Start
    <2>2. \A i \in Slot : i > 1 => ~(Trace[i].time <= 0)
          BY TraceAssumption, SomeSlot, RowTyped DEF Slot
    <2>3. Begun(0) = {i \in Slot : Trace[i].time <= 0}
          BY ClockTyped DEF Begun, Clock
    <2>4. \A i \in Begun(0) : i <= 1
          BY <2>2, <2>3, RowTyped
    <2> QED BY <2>1, <2>4 DEF NotBehind, Begun
  <1>2. CASE Tick
    <2> SUFFICES ASSUME mode = "repeated" PROVE \A i \in Begun(seen') : i <= slot'
        BY <1>2 DEF Tick, NotBehind, Begun
    <2> QED BY <1>2, TickIsFurthest
  <1>3. CASE Pass
        BY <1>3 DEF Pass, NotBehind, Begun
  <1>4. CASE Exit \/ Stop
        BY <1>4 DEF Exit, Stop, Forget, NotBehind
  <1>5. CASE UNCHANGED vars
        BY <1>5 DEF vars, session, NotBehind, Begun
  <1> QED BY <1>1, <1>2, <1>3, <1>4, <1>5 DEF Next

\* For every trace and however late the ticks come: in the mode "repeated" the slot
\* is the furthest that any tick has found begun.  When the clock starts again the
\* session stays where it is (trace_replayer.py:89-103).
THEOREM LinkRepeatedPlaysOnce == Spec => RepeatedPlaysOnce
  <1>1. Init => NotBehind
      BY DEF Init, NotBehind
  <1>2. ASSUME LinkInv, NotBehind, [Next]_vars
        PROVE  [up /\ up' /\ mode = "repeated" => slot' = Max({slot} \cup Begun(seen'))]_vars
    <2> SUFFICES ASSUME Next, up, up', mode = "repeated"
                 PROVE  slot' = Max({slot} \cup Begun(seen'))
        BY <1>2
    <2>1. slot \in Slot /\ \A i \in Slot : i \in Nat
          BY <1>2, RowTyped DEF LinkInv, SessionType
    <2>2. /\ slot' \in {slot} \cup Begun(seen')
          /\ \A i \in {slot} \cup Begun(seen') : i <= slot'
      <3>1. CASE Tick
            BY <1>2, <3>1, TickIsFurthest
      <3>2. CASE Pass
            BY <1>2, <2>1, <3>2 DEF Pass, NotBehind
      <3>3. ~(\E m \in Modes : Start(m)) /\ ~Exit /\ ~Stop
            BY DEF Start, Exit, Stop, Forget
      <3> QED BY <3>1, <3>2, <3>3 DEF Next
    <2>3. {slot} \cup Begun(seen') \subseteq Slot
          BY <2>1 DEF Begun
    <2>4. ASSUME NEW m \in {slot} \cup Begun(seen'),
                 \A i \in {slot} \cup Begun(seen') : m >= i
          PROVE  m = slot'
          BY <2>1, <2>2, <2>3, <2>4
    <2>5. \A i \in {slot} \cup Begun(seen') : slot' >= i
          BY <2>1, <2>2, <2>3
    <2> QED BY <2>2, <2>4, <2>5 DEF Max
  <1> QED
      BY InitLinkInv, LinkInvInductive, NotBehindInductive, <1>1, <1>2, PTL
      DEF Spec, RepeatedPlaysOnce
-----------------------------------------------------------------------------
\* What is in the kernel once a profile has been installed.
Installed == kernel.delay # None /\ kernel.rate # None /\ kernel.filter

\* The kernel does what slot i says, and the controllers know what it does.
Follows(i) ==
  /\ rules = OwnRules
  /\ hardOffline <=> ~Trace[i].online
  /\ active => Installed
  /\ Trace[i].online => active /\ kernel.delay = i /\ kernel.rate = i

\* Before the first session nothing has been done to the host; in it, every slot
\* finds the kernel as the slot before, online or not, has left it.
FollowInv ==
  /\ sessions = 0 => rules = 0 /\ ~hardOffline /\ ~active /\ ~up
  /\ Clean /\ up /\ mode \in {"trace", "repeated"} => Follows(slot)

LEMMA WorkingTools ==
  ASSUME broken = {}, NEW tool, NEW applies, applies = TRUE
  PROVE  Runs(tool, applies) = {Done}
  BY DEF Runs

LEMMA CleanOffline ==
  ASSUME broken = {}, rules = OwnRules, hardOffline \in BOOLEAN, GoHardOffline
  PROVE  rules' = 1 /\ hardOffline' = TRUE
  <1>1. CASE hardOffline
        BY <1>1 DEF GoHardOffline, OwnRules, link
  <1>2. CASE ~hardOffline
    <2>1. Runs("iptables", TRUE) = {Done} /\ Done.done = TRUE /\ Done.ok = TRUE
          BY WorkingTools DEF Done
    <2>2. rules' = rules + 1 /\ hardOffline' = TRUE
          BY <1>2, <2>1 DEF GoHardOffline
    <2> QED BY <1>2, <2>2 DEF OwnRules
  <1> QED BY <1>1, <1>2

LEMMA CleanOnline ==
  ASSUME broken = {}, rules = OwnRules, hardOffline \in BOOLEAN, GoHardOnline
  PROVE  rules' = 0 /\ hardOffline' = FALSE
  <1>1. CASE ~hardOffline
        BY <1>1 DEF GoHardOnline, OwnRules, link
  <1>2. CASE hardOffline
    <2>1. rules = 1 /\ (rules > 0) = TRUE
          BY <1>2 DEF OwnRules
    <2>2. Runs("iptables", rules > 0) = {Done}
          BY <2>1, WorkingTools
    <2>3. rules' = rules - 1 /\ hardOffline' = FALSE
          BY <1>2, <2>2 DEF GoHardOnline, Done
    <2> QED BY <2>1, <2>3
  <1> QED BY <1>1, <1>2

\* An installation that nothing disturbs installs all of the profile.
LEMMA CleanApply ==
  ASSUME broken = {}, NEW i \in Slot, ApplyProfile(i)
  PROVE  active' /\ Installed' /\ kernel'.delay = i /\ kernel'.rate = i
  <1>1. kernel' = Built(Commands, i) /\ active' = TRUE
        BY DEF ApplyProfile, TreeBuilt
  <1>2. i # None
        BY NoneAssumption, SomeSlot DEF Slot
  <1>3. /\ Built(Commands, i).rate = i /\ Built(Commands, i).delay = i
        /\ Built(Commands, i).filter
        BY <1>2 DEF Built, Commands, Blank
  <1> QED BY <1>1, <1>2, <1>3 DEF Installed

LEMMA CleanUpdate ==
  ASSUME broken = {}, KernelType, Installed, NEW i \in Slot, UpdateNetem(i)
  PROVE  active' = active /\ Installed' /\ kernel'.delay = i /\ kernel'.rate = i
  <1>1. /\ Runs("tc", kernel.delay # None) = {Done}
        /\ Runs("tc", kernel.rate # None) = {Done}
        BY WorkingTools DEF Installed
  <1>2. Done.done = TRUE /\ Done.ok = TRUE
        BY DEF Done
  <1>4. PICK n \in {Done}, c \in {Done} :
          /\ kernel' = [kernel EXCEPT !.delay = IF n.done THEN i ELSE @,
                                      !.rate = IF n.ok /\ c.done THEN i ELSE @]
          /\ active' = active
        BY <1>1 DEF UpdateNetem
  <1>5. kernel' = [kernel EXCEPT !.delay = i, !.rate = i]
        BY <1>2, <1>4
  <1>3. i # None
        BY NoneAssumption, SomeSlot DEF Slot
  <1> QED BY <1>3, <1>4, <1>5 DEF KernelType, Installed

\* From whatever slot, however many were skipped, a slot is followed at once.
LEMMA SlotFollowed ==
  ASSUME broken = {}, LinkInv, rules = OwnRules, active => Installed,
         NEW i \in Slot, ApplySlot(i)
  PROVE  Follows(i)'
  <1>1. hardOffline \in BOOLEAN /\ KernelType /\ active \in BOOLEAN
        BY DEF LinkInv, KernelType
  <1>2. CASE Trace[i].online
    <2>1. rules' = 0 /\ hardOffline' = FALSE
          BY <1>1, <1>2, CleanOnline DEF ApplySlot
    <2>2. active' /\ Installed' /\ kernel'.delay = i /\ kernel'.rate = i
          BY <1>1, <1>2, CleanApply, CleanUpdate DEF ApplySlot
    <2> QED BY <1>2, <2>1, <2>2 DEF Follows, OwnRules
  <1>3. CASE ~Trace[i].online
    <2>1. rules' = 1 /\ hardOffline' = TRUE
          BY <1>1, <1>3, CleanOffline DEF ApplySlot
    <2>2. active' = active /\ Installed' = Installed
          BY <1>3 DEF ApplySlot, shaping, Installed
    <2> QED BY <1>3, <2>1, <2>2 DEF Follows, OwnRules
  <1> QED BY <1>2, <1>3

LEMMA FollowKept ==
  ASSUME FollowInv, UNCHANGED <<link, shaping, mode, slot, up, sessions, broken>>
  PROVE  FollowInv'
  BY DEF FollowInv, Follows, Clean, Installed, OwnRules, link, shaping

LEMMA FollowStart ==
  ASSUME LinkInv, FollowInv, NEW m \in Modes, Start(m)
  PROVE  FollowInv'
  <1>1. sessions \in Nat /\ sessions' = sessions + 1 /\ broken' = broken /\ mode' = m /\ slot' = 1
        BY BoundAssumption DEF Start, LinkInv, SessionType
  <1>2. sessions' # 0
        BY <1>1
  <1>3. ASSUME Clean', mode' \in {"trace", "repeated"} PROVE Follows(slot)'
    <2>1. sessions = 0 /\ broken = {}
          BY <1>1, <1>3 DEF Clean
    <2>2. rules = OwnRules /\ ~active
          BY <2>1 DEF FollowInv, OwnRules
    <2>3. ApplySlot(1)
          BY <1>1, <1>3 DEF Start
    <2>4. Follows(1)'
          BY <2>1, <2>2, <2>3, SomeSlot, SlotFollowed
    <2> QED BY <1>1, <2>4 DEF Follows
  <1> QED BY <1>2, <1>3 DEF FollowInv

LEMMA FollowTick ==
  ASSUME LinkInv, FollowInv, Tick
  PROVE  FollowInv'
  <1>1. up /\ UNCHANGED <<mode, up, sessions, broken>>
        BY DEF Tick
  <1>2. sessions # 0
        BY <1>1 DEF FollowInv
  <1>3. ASSUME Clean, mode \in {"trace", "repeated"} PROVE Follows(slot)'
    <2>1. Follows(slot) /\ broken = {}
          BY <1>1, <1>3 DEF FollowInv, Clean
    <2>2. slot' = TargetSlot /\ slot' \in Slot
          BY <1>3, TargetIsSlot DEF Tick, LinkInv, SessionType
    <2>3. CASE slot' = slot
      <3>1. UNCHANGED <<link, shaping>>
            BY <1>3, <2>2, <2>3 DEF Tick
      <3> QED BY <2>1, <2>3, <3>1 DEF Follows, Installed, OwnRules, link, shaping
    <2>4. CASE slot' # slot
      <3>1. ApplySlot(slot')
            BY <1>3, <2>2, <2>4 DEF Tick
      <3>2. rules = OwnRules /\ (active => Installed)
            BY <2>1 DEF Follows
      <3>3. PICK i \in Slot : i = slot'
            BY <2>2
      <3>4. Follows(i)'
            BY <2>1, <3>1, <3>2, <3>3, SlotFollowed
      <3> QED BY <3>3, <3>4 DEF Follows
    <2> QED BY <2>3, <2>4
  <1> QED BY <1>1, <1>2, <1>3 DEF FollowInv, Clean

LEMMA FollowInductive == LinkInv /\ FollowInv /\ [Next]_vars => FollowInv'
  <1> SUFFICES ASSUME LinkInv, FollowInv, [Next]_vars PROVE FollowInv'
      OBVIOUS
  <1>1. CASE Pass
        BY <1>1, FollowKept DEF Pass
  <1>2. CASE Exit \/ Stop
    <2>1. up /\ ~up' /\ sessions' = sessions
          BY <1>2 DEF Exit, Stop, Forget
    <2> QED BY <2>1 DEF FollowInv
  <1>3. CASE UNCHANGED vars
        BY <1>3, FollowKept DEF vars, session
  <1> QED BY <1>1, <1>2, <1>3, FollowStart, FollowTick DEF Next

\* Whatever the trace, and whichever outages late ticks skip or cut short, on a
\* host whose tools work the kernel blocks the traffic in an offline slot, with one
\* rule, and shapes it to the very profile of an online one (trace_replayer.py:129-158).
THEOREM LinkFollows == Spec => []LinkFollowsSlot
  <1>1. Init => FollowInv
      BY DEF Init, FollowInv, Clean
  <1>2. FollowInv => LinkFollowsSlot
      BY DEF FollowInv, Follows, Installed, OwnRules, LinkFollowsSlot
  <1> QED BY InitLinkInv, LinkInvInductive, FollowInductive, <1>1, <1>2, PTL DEF Spec

\* What LinkComesBack rests on besides fairness: once a tick of a clean session
\* has come after the last row, which is online, the traffic is restored, whatever
\* outages were skipped or entered late (trace_replayer.py:93-110, 129-158).
RestoredAtLast ==
  Clean /\ up /\ mode = "trace" /\ Trace[Len(Trace)].online /\ Trace[Len(Trace)].time <= seen =>
    rules = 0 /\ ~hardOffline

\* It holds for every trace, and stays so until the process ends.
THEOREM LinkRestoredAtLast == Spec => []RestoredAtLast
  <1>1. ASSUME LinkInv, SlotIsCurrent, FollowInv PROVE RestoredAtLast
    <2> SUFFICES ASSUME Clean, up, mode = "trace", Trace[Len(Trace)].online,
                        Trace[Len(Trace)].time <= seen
                 PROVE  rules = 0 /\ ~hardOffline
        BY DEF RestoredAtLast
    <2>1. slot \in Slot /\ Len(Trace) \in Slot
          BY <1>1, SomeSlot DEF LinkInv, SessionType, Slot
    <2>2. slot \in 1 .. Len(Trace) /\ Len(Trace) \in Nat /\ Trace[Len(Trace)].time \in Nat
          BY <2>1, RowTyped
    <2>3. seen \in Nat
          BY <1>1, BoundAssumption DEF LinkInv, SessionType
    <2>4. slot = Len(Trace)
      <3>1. Len(Trace) > slot => Trace[Len(Trace)].time > seen
            BY <1>1, <2>1 DEF SlotIsCurrent
      <3> QED BY <2>2, <2>3, <3>1
    <2>5. Follows(slot) /\ Trace[slot].online
          BY <1>1, <2>4 DEF FollowInv
    <2> QED BY <1>1, <2>5 DEF Follows, OwnRules, LinkInv
  <1>2. Init => FollowInv /\ SlotIsCurrent
        BY DEF Init, FollowInv, Clean, SlotIsCurrent
  <1> QED BY <1>1, <1>2, InitLinkInv, LinkInvInductive, CurrentInductive, FollowInductive, PTL
          DEF Spec
=============================================================================
