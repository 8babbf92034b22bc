--------------------------- MODULE LinkEmulation ---------------------------
(***************************************************************************)
(* The emulated link of one worker host (src/rpc/network): TraceReplayer   *)
(* plays a trace of slots, DisconnectController blocks and restores the    *)
(* traffic to the coordinator with an iptables rule, and TcManager shapes  *)
(* it with tc.  Rules and queueing disciplines are the kernel's: they      *)
(* outlive the process, whose own view of them starts afresh.              *)
(*                                                                         *)
(* A command runs under a timeout: one that fails changes nothing, one     *)
(* that times out has changed the kernel and still counts as failed.       *)
(***************************************************************************)
EXTENDS Naturals, Sequences, FiniteSetsExt

CONSTANTS
  Trace,        \* the rows of the trace file: [time, online]
  Modes,        \* network_emulation.mode a session may be started with
  Tools,        \* tools that may be broken: "iptables", "tc"
  None,         \* no profile
  MaxTime,      \* bound: elapsed time of a session
  MaxSessions   \* bound: how often the process is started on this host

ASSUME TraceAssumption ==
  /\ Trace \in Seq([time : Nat, online : BOOLEAN])
  /\ Trace # <<>>
  /\ Trace[1].time = 0
  /\ \A i, j \in 1 .. Len(Trace) : i < j => Trace[i].time < Trace[j].time
ASSUME BoundAssumption == MaxTime \in Nat /\ MaxSessions \in Nat
ASSUME NoneAssumption == None \notin Nat
ASSUME ModesAssumption == Modes \subseteq {"fixed", "trace", "repeated", "random"}

Slot == 1 .. Len(Trace)

\* A profile is named by the slot it comes from; base_profile and the
\* perturbation of it that the random mode draws have numbers of their own.
Base == 0
Perturbed == Len(Trace) + 1
Profile == 0 .. Len(Trace) + 1

Mode == {"fixed", "trace", "repeated", "random"}

VARIABLES
  rules,        \* kernel: DROP rules for the coordinator's address
  kernel,       \* kernel: the htb/netem tree of the interface
  hardOffline,  \* DisconnectController.is_hard_offline
  event,        \* the last line of disconnect_events.jsonl
  active,       \* TcManager.state.active
  tcProfile,    \* TcManager.state.profile
  mode,         \* TraceReplayer.mode
  slot,         \* TraceReplayer.current_slot_idx, counted from one
  now,          \* time since start()
  seen,         \* history: the time the last tick saw
  up,           \* a session is running
  sessions,     \* sessions started so far
  broken        \* the tools that may fail on this host

link == <<rules, hardOffline, event>>
shaping == <<kernel, active, tcProfile>>
session == <<mode, slot, now, seen, up, sessions>>
vars == <<link, shaping, session, broken>>

Blank == [root |-> FALSE, rate |-> None, delay |-> None, filter |-> FALSE]

Init ==
  /\ rules = 0
  /\ kernel = Blank
  /\ hardOffline = FALSE
  /\ event = "none"
  /\ active = FALSE
  /\ tcProfile = None
  /\ mode = "fixed"
  /\ slot = 1
  /\ now = 0
  /\ seen = 0
  /\ up = FALSE
  /\ sessions = 0
  /\ broken \in SUBSET Tools
-----------------------------------------------------------------------------
(* Commands.  applies tells whether the kernel has what the command changes. *)

Done     == [done |-> TRUE,  ok |-> TRUE]
Failed   == [done |-> FALSE, ok |-> FALSE]
TimedOut == [done |-> TRUE,  ok |-> FALSE]

Runs(tool, applies) ==
  IF ~applies THEN {Failed}
  ELSE IF tool \in broken THEN {Done, Failed, TimedOut} ELSE {Done}

\* Mutant of GoHardOffline: the flag is set whatever the command returned.
GoOfflineUnchecked ==
  IF hardOffline
    THEN UNCHANGED link
    ELSE \E r \in Runs("iptables", TRUE) :
           /\ rules' = rules + (IF r.done THEN 1 ELSE 0)
           /\ hardOffline' = TRUE
           /\ event' = IF r.ok THEN "offline" ELSE event

GoHardOffline ==
  IF hardOffline
    THEN UNCHANGED link
    ELSE \E r \in Runs("iptables", TRUE) :
           /\ rules' = rules + (IF r.done THEN 1 ELSE 0)
           /\ hardOffline' = r.ok
           /\ event' = IF r.ok THEN "offline" ELSE event

\* Mutant of GoHardOnline: a rule is deleted although this process has set none.
GoOnlineAnyway ==
  \E r \in Runs("iptables", rules > 0) :
    /\ rules' = IF r.done THEN rules - 1 ELSE rules
    /\ hardOffline' = FALSE
    /\ event' = "online"

\* The result of the command is not looked at.
GoHardOnline ==
  IF ~hardOffline
    THEN UNCHANGED link
    ELSE \E r \in Runs("iptables", rules > 0) :
           /\ rules' = IF r.done THEN rules - 1 ELSE rules
           /\ hardOffline' = FALSE
           /\ event' = "online"

\* clear, htb root, class, netem and filter (flower or u32), in this order:
\* each command needs what the earlier ones installed, no result is looked at.
Commands == {"clear", "root", "class", "netem", "filter"}

\* What the commands that took effect leave in the kernel.
Built(done, p) ==
  LET old == IF "clear" \in done THEN Blank ELSE kernel
      root == old.root \/ "root" \in done
      rate == IF root /\ "class" \in done THEN p ELSE old.rate
  IN  [root |-> root,
       rate |-> rate,
       delay |-> IF rate # None /\ "netem" \in done THEN p ELSE old.delay,
       filter |-> old.filter \/ (root /\ "filter" \in done)]

TreeBuilt(p) ==
  \E done \in IF "tc" \in broken THEN SUBSET Commands ELSE {Commands} :
    kernel' = Built(done, p)

ApplyProfile(p) == TreeBuilt(p) /\ active' = TRUE /\ tcProfile' = p

\* Mutants of UpdateNetem: the rate of the class is left as it was, or the
\* whole tree is built again when netem is missing.
UpdateDelayOnly(p) ==
  \E n \in Runs("tc", kernel.delay # None) :
    /\ kernel' = [kernel EXCEPT !.delay = IF n.done THEN p ELSE @]
    /\ tcProfile' = IF n.ok THEN p ELSE tcProfile
    /\ UNCHANGED active
UpdateOrApply(p) ==
  IF kernel.delay = None
    THEN ApplyProfile(p)
    ELSE /\ kernel' = [kernel EXCEPT !.delay = p, !.rate = p]
         /\ tcProfile' = p
         /\ UNCHANGED active

\* netem is changed, and the rate of the class only after that succeeded.
UpdateNetem(p) ==
  \E n \in Runs("tc", kernel.delay # None), c \in Runs("tc", kernel.rate # None) :
    /\ kernel' = [kernel EXCEPT !.delay = IF n.done THEN p ELSE @,
                                !.rate = IF n.ok /\ c.done THEN p ELSE @]
    /\ tcProfile' = IF n.ok THEN p ELSE tcProfile
    /\ UNCHANGED active
-----------------------------------------------------------------------------
(* TraceReplayer *)

\* Mutant of ApplySlot: an outage that is over is not lifted.
ApplySlotShapeOnly(i) ==
  IF Trace[i].online
    THEN /\ UNCHANGED link
         /\ IF active THEN UpdateNetem(i) ELSE ApplyProfile(i)
    ELSE GoHardOffline /\ UNCHANGED shaping

\* _apply_slot: an offline slot leaves the shaping alone.
ApplySlot(i) ==
  IF Trace[i].online
    THEN /\ GoHardOnline
         /\ IF active THEN UpdateNetem(i) ELSE ApplyProfile(i)
    ELSE GoHardOffline /\ UNCHANGED shaping

\* Mutant of Elapsed: the trace starts again when its last row is due.
ElapsedShort == IF mode = "repeated" /\ Trace[Len(Trace)].time > 0
                  THEN now % Trace[Len(Trace)].time
                  ELSE now

Elapsed == IF mode = "repeated" /\ Trace[Len(Trace)].time > 0
             THEN now % (Trace[Len(Trace)].time + 1)
             ELSE now

\* Mutant of TargetSlot: the slot of this very moment is not reached yet.
TargetStrict ==
  LET reached == {i \in slot .. Len(Trace) :
                    \A j \in slot .. i : Trace[j].time < Elapsed}
  IN  IF reached = {} THEN slot ELSE Max(reached)

\* _tick_trace searches forward from the current slot and stops at the first
\* slot that is still to come.
TargetSlot ==
  LET reached == {i \in slot .. Len(Trace) :
                    \A j \in slot .. i : Trace[j].time <= Elapsed}
  IN  IF reached = {} THEN slot ELSE Max(reached)

\* A new process: its controllers know of no rule and no shaping.
Start(m) ==
  /\ ~up
  /\ sessions < MaxSessions
  /\ up' = TRUE
  /\ sessions' = sessions + 1
  /\ mode' = m
  /\ slot' = 1
  /\ now' = 0
  /\ seen' = 0
  /\ \/ m = "fixed" /\ ApplyProfile(Base) /\ UNCHANGED link
     \/ m \in {"trace", "repeated"} /\ ApplySlot(1)
     \/ m = "random" /\ UNCHANGED <<link, shaping>>
  /\ UNCHANGED broken

\* The worker ticks between two tasks, however long they take.
Tick ==
  /\ up
  /\ seen' = now
  /\ \/ mode = "fixed" /\ UNCHANGED <<slot, link, shaping>>
     \/ /\ mode \in {"trace", "repeated"}
        /\ slot' = TargetSlot
        /\ IF slot' = slot THEN UNCHANGED <<link, shaping>> ELSE ApplySlot(slot')
     \/ mode = "random" /\ UpdateNetem(Perturbed) /\ UNCHANGED <<slot, link>>
  /\ UNCHANGED <<mode, now, up, sessions, broken>>

Pass ==
  /\ up
  /\ now < MaxTime
  /\ now' = now + 1
  /\ UNCHANGED <<link, shaping, mode, slot, seen, up, sessions, broken>>

\* What a process that ends takes with it.
Forget ==
  /\ up'= FALSE
  /\ active' = FALSE
  /\ tcProfile' = None
  /\ UNCHANGED <<mode, slot, now, seen, sessions, broken>>

\* run_worker returns, or dies, without calling stop().
Exit ==
  /\ up
  /\ Forget
  /\ hardOffline' = FALSE
  /\ UNCHANGED <<rules, event, kernel>>

\* stop(), on Ctrl+C of the replayer's own command line, which plays traces only:
\* it has no base profile.
Stop ==
  /\ up
  /\ mode \in {"trace", "repeated"}
  /\ GoHardOnline
  /\ \E r \in Runs("tc", kernel.root) : kernel' = IF r.done THEN Blank ELSE kernel
  /\ Forget

Next == (\E m \in Modes : Start(m)) \/ Tick \/ Pass \/ Exit \/ Stop

Spec == Init /\ [][Next]_vars
\* Time passes and the loop of the process ticks as long as it runs.
FairSpec == Spec /\ WF_vars(Tick) /\ WF_vars(Pass)
-----------------------------------------------------------------------------
(* Properties *)

\* Every variable has its type; a TcManager that is active has a profile.
TypeOK ==
  /\ rules \in Nat
  /\ kernel \in [root : BOOLEAN, rate : Profile \cup {None},
                 delay : Profile \cup {None}, filter : BOOLEAN]
  /\ hardOffline \in BOOLEAN
  /\ event \in {"none", "offline", "online"}
  /\ active \in BOOLEAN
  /\ tcProfile \in IF active THEN Profile ELSE Profile \cup {None}
  /\ mode \in Mode
  /\ slot \in Slot
  /\ now \in 0 .. MaxTime
  /\ seen \in 0 .. now
  /\ up \in BOOLEAN
  /\ sessions \in 0 .. MaxSessions
  /\ broken \subseteq Tools

\* A worker that reports itself offline really is: whatever fails or times out,
\* and whatever an earlier session left, is_hard_offline implies a DROP rule
\* (disconnect_controller.py:52, worker.py:223).
OfflineIsBlocked == hardOffline => rules > 0

\* The slot is the latest one that had begun when the loop ticked, although
\* ticks come late and skip slots (trace_replayer.py _tick_trace).
SlotIsCurrent ==
  up /\ mode = "trace" =>
    /\ Trace[slot].time <= seen
    /\ \A i \in Slot : i > slot => Trace[i].time > seen

\* The first session on a host whose tools work.
Clean == broken = {} /\ sessions = 1

\* When no command fails, and no earlier session left a rule, the kernel does
\* what the slot says: blocked while it is offline, else delay and rate are its
\* own, through every order of skipped outages (trace_replayer.py _apply_slot).
LinkFollowsSlot ==
  Clean /\ up /\ mode \in {"trace", "repeated"} =>
    IF Trace[slot].online
      THEN rules = 0 /\ kernel.delay = slot /\ kernel.rate = slot /\ kernel.filter
      ELSE rules = 1 /\ hardOffline

\* Slots that have begun on the clock of the mode "repeated" at t.
Begun(t) == {i \in Slot : Trace[i].time <= t % (Trace[Len(Trace)].time + 1)}

\* The mode "repeated" plays its trace once: the clock starts again after the last
\* row, the search for the slot does not.  However late the ticks come, the slot is
\* the furthest that any of them has found begun, so the last one is not missed and,
\* once there, the session stays in it (trace_replayer.py:89-103).
RepeatedPlaysOnce ==
  [][up /\ up' /\ mode = "repeated" => slot' = Max({slot} \cup Begun(seen'))]_vars

\* A profile that could not be installed is never installed later in the
\* session: active is set regardless, and netem can only be changed then.  In the
\* mode "random" this is so from the start, which installs nothing
\* (tc_manager.py:118, trace_replayer.py:62-70, 125, 153-156).
FailedApplyIsFinal ==
  [][up /\ up' /\ (active \/ mode = "random") /\ kernel.delay = None => kernel'.delay = None]_vars

\* A trace that ends online leaves the traffic restored as long as the process
\* runs, although outages are entered and left by ticks that come late.
LinkComesBack == <>[](Clean /\ up /\ mode = "trace" => rules = 0)

\* disconnect_controller.py:71, "HARD ONLINE: restored traffic": once that event
\* is logged no DROP rule is left.
RestoredMeansUnblocked == event = "online" => rules = 0
=============================================================================
