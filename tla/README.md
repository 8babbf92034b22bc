# Leaselora: a verification project

Leaselora trains LoRA adapters federatedly. `src/rpc` is a distributed testbed:
a coordinator leases *slices* (groups of adapter parameters) to clients, worker
processes train on behalf of those clients, upload the deltas, and the
coordinator adds them to the global adapter. `src/standalone` is a scheduler
library without network. This directory models the testbed, and the main scheduler
of the library, in TLA+, checks the models with TLC on small instances and proves the main results
with TLAPS for every instance.

## 1. Inventory

| Component | State | Operations | Talks to |
|---|---|---|---|
| **Round loop** `coordinator.py`, `runtime/round_manager.py`, `runtime/client_sampler.py` | `global_adapter`, selected clients, leases, completed and missed ids, sampler rng; shares `CoordinatorState` with the server | wait for workers; per round: reset, sample, filter, plan, publish tasks, wait, collect, aggregate, feedback, evaluate, checkpoint; shutdown | server thread by shared memory, planner, checkpoint manager |
| **HTTP server** `rpc/server_api.py` | `CoordinatorState`: `workers`, `heartbeats`, `round_tasks`, `pending_updates`, `global_adapter_bytes`, `stopped`, `current_round`, a lock | register, heartbeat, task, global_adapter, upload_update, finish, health | round loop (shared memory), workers (HTTP) |
| **Worker** `worker.py`, `rpc/client_api.py`, `network/measure.py` | `idle_count`, the task in hand, attempts of the upload | probe, register, loop of tick / heartbeat / poll / execute; upload with retries | server (HTTP), network emulation |
| **Checkpoints** `runtime/checkpoint_manager.py` | `round_NNNN.pt`, `latest.pt` | save, load_latest, load_round (no caller) | round loop |
| **Planner and guard** `scheduler/lease_planner.py`, `feasibility_guard.py`, `resource_state.py` | `guard.current_round` | plan_round, check (shrink or reject) | feedback, predictor, round loop |
| **Slice feedback** `scheduler/feedback_state.py` | per slice: coverage, quality, last update; `round_count` | update_after_round, get_slice_scores, to_dict, load_dict | round loop, planner, checkpoints |
| **Bandwidth predictor** `network/bandwidth_predictor.py` | upload records and EMA per client | record_upload, predict, retry penalty | round loop writes, guard reads |
| **Network emulation** `network/trace_replayer.py`, `tc_manager.py`, `disconnect_controller.py`, `profile.py` | slot, mode, clock; `is_hard_offline`; tc state; iptables rules and qdiscs of the *kernel* | start, tick, stop; hard offline/online; clear, apply, update | worker ticks it, kernel by subprocess |
| **Aggregation, slices** `peft_exec/aggregation.py`, `delta_utils.py`, `lora_utils.py` | none (functions) | weighted mean per parameter, delta extraction, slice registry | round loop, worker |
| **Model execution, data** `peft_exec/local_trainer.py`, `model_factory.py`, `runtime/evaluator.py`, `data/`, `rpc/serialization.py` | tensors | training, evaluation, (de)serialisation | worker, round loop |
| **Standalone scheduler** `src/standalone/leaselora` | virtual queues per slice and for fairness, variance tracker, error history | schedule, post_round_update, drift-plus-penalty, chance constraints, aggregation | a caller that reports heartbeats and executes leases |

What is hard here:

* **Two threads, one state.** The round loop runs in the main thread and the
  server in a daemon thread. `pending_updates` is *replaced* without the lock
  (coordinator.py:232) while `upload_update` looks up and appends under it;
  `state.workers` is iterated without it while `register` inserts.
* **A lossy protocol.** A worker's requests fail, time out after having been
  handled, and are repeated; a task is popped before its answer is delivered;
  uploads arrive one round late.
* **Identity.** The wait compares client ids only, the duplicate check
  `(round, client)` in the current list only; several workers may list the same
  client; the first one registered gets the task, online or not.
* **Restarts.** Workers are known in memory only, checkpoints are written every
  five rounds, two files one after the other, each in place.
* **State outside the process.** iptables rules and qdiscs survive the worker, and
  `nodes.yaml` puts two workers, which set the same rules, on one host.
* **One model for several clients.** A worker trains all its clients in the same
  model; its parameters are partly bfloat16, the adapter is float32.
* **Counters.** `idle_count` serves two purposes; elapsed time wraps; quality and
  recency scores have bounds and shifting denominators.

What makes each component correct: a task is handed out at most once; an update
is pending at most once and, once acknowledged, not lost within its round; deltas
are added to the adapter they were computed from; what is aggregated was leased;
rounds end; a restart neither repeats nor loses a round's updates in the adapter;
the worker ends when it should and not before; the link does what the trace says;
no slice starves; feedback is told of what was averaged. `PROJECT.json` lists the hazards
with their lines, and the properties that cover each, or why none does.

## 2. Modules

| Module | Models | Used by |
|---|---|---|
| `RoundProtocol` | round loop, server handlers, workers, network | `RoundInvariant`, `MCRoundProtocol` |
| `LeaseLedger` | *abstract*: what the coordinator promises about leases | refined by `RoundProtocol` (`LedgerSpec`) |
| `RoundInvariant` | the inductive invariant `IInv`, in named parts | proofs, `MCRoundProtocol` |
| `RoundProtocolProofs` | theorems | |
| `WorkerLoop` | one worker process over its life, coordinator restarts | extended by `LinkedWorker` |
| `LinkEmulation`, `LinkEmulationProofs`, `MCLinkEmulation` | trace replay, rules and shaping | `LinkedWorker` |
| `LinkedWorker`, `WorkerLoopProofs`, `MCLinkedWorker` | *composition*: the worker loop on its link, a second worker on the same host; refines `WorkerLoop` | |
| `CoordinatorRecovery` | checkpoints, crash and resume | extended by `CoordinatorRestart` |
| `CoordinatorRestart`, `CoordinatorRecoveryProofs`, `MCCoordinatorRestart` | *composition*: crash and resume among workers that survive; refines `CoordinatorRecovery` | |
| `Aggregation`, `AggregationProofs`, `MCAggregation` | registry, load, train, delta, average, feedback | |
| `SliceFeedback`, `SliceFeedbackProofs`, `MCSliceFeedback` | slice scores and their selection | |
| `LeaseAdmission`, `LeaseAdmissionProofs`, `MCLeaseAdmission` | planner, guard and bandwidth predictor, for one client | |
| `AdaptiveSchedule`, `AdaptiveScheduleProofs`, `MCAdaptiveSchedule` | the standalone scheduler AdaptiveLeaseLoRA with its virtual queues | |

### RoundProtocol

`phase` is the program counter of `run_coordinator`; each action is the code up
to the next access to shared state. `wphase[w]` is the same for `run_worker` and
`_execute_train_task`. The other variables carry the source's names.

* **Server.** It is one asyncio event loop, so a handler body without `await` is
  atomic towards other handlers, not towards the main thread. All handlers but
  one touch the shared state once or under the lock only and are one action,
  together with what the calling worker does with the answer. `upload_update` is
  two (`HandleUpload`: look-up, `FinishUpload`: append and answer) with the
  request kept in `handler` between them. `reset` records that the main thread
  replaced the list in between: the append then reaches the new list or the
  abandoned one, and both are allowed.
* **Lost answers.** `Register`, `GetTask` and `FinishUpload` take a parameter
  `answered`; without an answer the server's effect stays. Uploads are messages
  in `net`, delivered in any order, lost, or handled after the worker has given
  up waiting and sent the next attempt. Heartbeats and polls that were given up
  are handled before the worker's next step or not at all.
* **Race in the worker table.** `RegisterRace` is the `RuntimeError` of a dict
  that grows while the main thread iterates over it: the coordinator ends in
  `"crashed"`.
* **Data.** An adapter is a version number, an update names the version it was
  computed from (`base`) and its `deadline_miss` flag. `Plan` leases any subset
  of the sampled clients (the guard may reject any). The deadline is the same
  product for all leases, so a miss is an input of `Train`. Tasks of a worker
  are a set: `pop(0)` takes the smallest client id because `selected` is sorted.
  `participation_rate` is never set by the coordinator and left out.
* **Sampling.** `Samples` is every result the rng can give, with the weak
  reservation; `Dropped` is the DropWeak filter.
* **History variables** `handed`, `acked`, `ledger` are read by no action.
* **An abstraction to know of.** `received` is cleared when a round begins: the
  local is dead there, and keeping it would double the states.

### LeaseLedger

The promise without threads: leases of the current round are offered, withdrawn,
taken at most once, and each round counts once, only what is held. The refinement
mapping takes all queues together as one set, `handed` as `taken` and the ledger
history as `counted`.

### WorkerLoop

The counters that `RoundProtocol` abstracts to "may exit at any time". A worker
process starts, probes, registers once and loops; the coordinator is reduced to
what one worker sees: it serves or not, knows the worker or not, has a task or
not, has stopped or not, and forgets everything when it is started again.
`idleCount` stops one above the limit because it is only ever compared with it.

### LinkedWorker

`run_worker` starts the replayer before its first health check, ticks it at the top of
the polling loop, right before the heartbeat, and never stops it. So `LinkedStart` is
`StartWorker` with `Link!Start`, `LinkedBeat` is `Beat` with `Link!Tick`, and a step that
ends the process is `Link!Exit`. A step that needs an answer needs `Reaches`: with a DROP
rule in place requests of the host come to nothing, whoever has set it. The neighbour
is the other worker of the host, reduced to its rule; when it ends with one, the rule
has lost its owner. `online` is the worker's entry at the coordinator, as its heartbeats
report it. The worker's probes, polls and transfers are the actions of `WorkerLoop`
unchanged, which is why the composition implements it.

### CoordinatorRecovery

An adapter is the sequence of rounds it contains, the feedback state the set of
rounds it was told of. `torch.save` writes in place: a file is `Torn` from its
opening to its end. `save` is four steps, opening and closing `round_NNNN.pt`, then
`latest.pt`, and the coordinator may crash between any two steps, those included: after a
crash between the two files the old `latest.pt` is resumed from and the round runs again,
which opens its complete file once more. `saved` is the last checkpoint of this training
that `save` has returned from.
`Fresh` is a start without `--resume` (or without a file), `Resume` with it.

### CoordinatorRestart

What the server's `CoordinatorState` holds (`known`, `queue`, `pending`, `served`) ends
with the process; what workers hold (`job`) does not. A task is tagged with the life of the
coordinator that made it, which the code does not do: the upload of an older life for
the round now running is indistinguishable from a fresh one. The server answers from
`Start` on, `Load` comes later. An iteration is `Clear`, then `Skip`, `Reject` or `Publish`,
`Combine`, and the statements of `CoordinatorRecovery` (`Conclude`). Simplified are: one
logical client that all workers list, so the first one registered gets its task; atomic
handlers, whose interleaving `RoundProtocol` has; the online flag and the race in the
worker table are left to `RoundProtocol` too.

### LinkEmulation

`rules` and `kernel` belong to the kernel and survive the process; `hardOffline`,
`active`, `tcProfile`, `slot` are the process's view. `broken` is the set of tools (of
`Tools`) that do not work properly on this host, chosen at the start and then fixed.
A command of a broken tool may succeed, fail without effect, or time out after having
had its effect; the last two look alike to the caller, which checks the result of `iptables -A` and of the first `tc change`
only. `Tick` comes whenever the worker's loop comes round, so slots may be
skipped. `Exit` is a worker that ends: it never calls `stop()`. `Stop` belongs to
the command line of the replayer. Profiles are named by their slot.

### SliceFeedback

`Need` is `get_slice_scores` times `200 * (coverage + 1) * max(round_count, 1)`:
exact integers instead of doubles. `BestSlices` is every selection an argsort of
those scores can give; equal scores, which rounding may separate either way, are
broken in every way. `UpdateAfterRound(done, late)` takes any clients as the ones whose
updates of this round's leases count, and any of the slow ones (`Slow`) as those of whom a
late update does; no variance is modelled because `update_after_round` is
always called without deltas. `Leasable` is what the guard may make of a proposal:
the proposal, the first half of its list, or nothing. In the warm-up that half is
the first part of the registry (`Front`), later on the slices that rank best.
`starved` counts rounds in which some update counts: if nobody finishes, no choice
of slices helps.

A late update that is aggregated (see Findings) names the slices of its own lease, not of
the round's. `previous` is the lease a slow client took last before this round, `Took` what
it is after it: a worker still busy with an earlier task never takes this round's, so an
update may be any number of rounds late. A client with a lease in this round may have its
late update counted beside the one in time, in place of it, and again when it is sent
again. `strayed` counts the rounds in which a late update counted for a slice that no update
in time was of; the bounds of both properties grow with it. Left out are updates of leases
older than the one taken last, and those that survive a restart.

### LeaseAdmission

Clients do not matter to each other here, so there is one. A round is planned
(`Plan`: proposal, guard, lease or rejection), waits, and ends `Answered` or
`Missed`, which record in the predictor what coordinator.py:330-343 records; only
then does `guard.current_round` move. Numbers are scaled integers, the moving
average is rounded down. Of the updates that arrive late only those of the lease
before the present one (`previous`) are modelled; they may come in either order with
this round's. `discard_late_updates` and the guard's mode are chosen at the start. `Shrunk`
follows the order of steps that the constructor's default and all configurations have. `Measured`
is the speed the code derives from an update: its metadata has no `upload_time_sec`,
so `train_time_sec`, the virtual time of the steps, stands in for it. A `Restart`
forgets predictor and guard and resumes at a round whose predecessor was saved.

### Aggregation

`BeginTask` downloads and loads the adapter into the worker's one model, `EndTask` trains
(`Moves`) and may or may not get its update through, `Aggregate` takes any subset of the pending
updates as those in time, at any moment: tasks that run on become late updates.

* **Values.** A parameter is one number. Parameters in bfloat16 (`Coarse`) are multiples of
  `Grid`; `Stored` rounds down where the hardware rounds to nearest, and the average is
  divided with rounding down: only that rounding exists matters to the properties.
  `server_lr` is 1, as in all configurations.
* **Registry.** `Rank` is the position of a layer among the sorted layer numbers, so gaps in the
  numbers are modelled, and a model without head or without layers is admitted.
* **Clients.** A client gets one task a round, which `RoundProtocol` shows (`TaskHandedOnce`).

### AdaptiveSchedule

A round is `BeginRound` (who is viable, what they can carry, focus set, reservations),
`Reserve`, then one `Assign` or `PassOver` for each pair of the loop, `Return`, and
`PostRoundUpdate` with any set of clients as those that completed.

* **Scores** mix affinities, progress, throughput and freshness, most of which the
  caller provides: any order of slices and of pairs is taken. `passed` is the part of
  the sorted list that the loop is past.
* **Heartbeats** are reduced to what follows from them, `budget` (the slices
  `compute_slice_budget` allows) and `fit` (the slices `is_feasible` lets through). A
  number is enough: all slices of a `SliceSet` have the same memory and update size.
* **Queues** count in tenths. The factor 0.9 leaves fractions; coverage is rounded
  down, so that a debt is never taken for larger than it is, fairness up. Reading
  `fairness` influences scores only.
* **Variance** and need of a slice are an input, `noisy`; that the redundancy also
  depends on the debt is modelled.
* **Variants** are the `disable_*` flags. `disable_adaptive_steps` concerns local steps
  only and is left out with them.

## 3. Runs

| Run | Instance | Question | Result |
|---|---|---|---|
| RoundLate | 1 worker restarted once, 1 client, 2 rounds, 2 attempts | retries, late arrivals, crashes and the unlocked reset: `PendingUnique`, `AckedKept`, `FreshBase` | hold |
| RoundWeak | 2 workers that share a client, 2 clients, 2 rounds, weak reservation, DropWeak, `discard_late_updates` off, fairness | `TaskHandedOnce`; `ReceivedMatchesCompleted` where updates nobody polled are kept; refinement of `LeaseLedger`; `TrainingTerminates` | hold |
| RoundLateCounted | as RoundLate | `LateUpdatesDiscarded` | **violated** |
| RoundDouble | as RoundLate | `NoDoubleAggregation` | **violated** |
| LinkedWorker | 2 probes, limit 3, 2 starts, 3 coordinator lives, a trace with one outage, iptables possibly broken, a neighbour, fairness | `LinkedTypeOK`, `OutageBounded`, `TasksNeedRegistration`, `WorkerEnds`, `OfflineNeverReported`, `OwnOutageSparesTransfers`, `StrandedForGood` | hold |
| Restart | 2 workers that list one client, 3 rounds, saved every 2, 2 starts | `RestartTypeOK`, `RoundsCountOnce`, `FeedbackCovers`, `CheckpointKept`, `CheckpointKeepsUp`, `FreshBaseOfLife` | hold |
| Aggregation | layers 0 and 2 and a coarse head, bundles of 2, 1 worker, 2 clients, 2 rounds | `TypeOK` with the partition, `AverageOfModels`, `FeedbackIsTruth` | hold |
| LinkFaults | trace of 5 slots with 2 outages, all modes, any tools broken, 2 sessions, fairness | `SlotIsCurrent`, `LinkFollowsSlot`, `RepeatedPlaysOnce`, `FailedApplyIsFinal`, `LinkComesBack` | hold |
| LinkRestored | trace that starts offline, 2 sessions | `RestoredMeansUnblocked` | **violated** |
| SliceRanking | 3 slices, quotas 1 and 2, leases cut or rejected, one client's updates in time or late, 6 rounds | `TypeOK`, `CoverageBalanced`, `StarvationBounded` | hold |
| Admission | weakest and strongest tier, an uplink first taken for 5 Mbit/s, 4 guard modes, 9 rounds, 1 restart | `TypeOK`, `RejectedForGood`, `LeaseMeetsDeadline`, `LeasesBounded` | hold |
| Adaptive | 3 small clients and a large one of which 3 take part, 2 slices, 3 rounds, the method and 2 ablations | `TypeOK`, `NothingLeftOver`, `ExcessIsReserved`, `WeakNotShutOut`, `RedundantIsRecent` | hold |

`WorkerLoop` and `CoordinatorRecovery` have no run of their own: the runs of the two
compositions check their properties where a link and workers are in the way. Some
properties are proved and no longer run: `OfflineIsBlocked`, `BatchIsNeverShrunk`, `NoOrphanUpdate`, `CoverageIsRecent`, and the types and the inductive invariant of
`RoundProtocol`.

Deadlock is not checked: every one of these systems may stop (training ends,
processes exit, bounds are reached).

### Bounds

`MaxRestarts`, `MaxStarts`, `MaxLives`, `MaxSessions` and `MaxTime` bound what the
code does not; `NumRounds`, `MaxRetries`, `ProbeLimit`, `IdleLimit`, `SaveEvery` are
configuration values, small in the runs. Two rounds are enough for everything that
crosses a round's end: an update is late by one reset or it is not, and the list
before and after are all that the code distinguishes. Two attempts are the fewest
at which one is retried and still in flight. Two workers that own a common client
are the fewest that contend for a task. `IdleLimit = 3` lets idle answers, failures
and tasks alternate below the limit. In Restart, three rounds with a save every second one
(and after the last) give a saved and an unsaved round before a crash, and two starts a life
that meets tasks of the one before. Two workers are the fewest at which one holds an old
task while the other gets the new one. In LinkedWorker, two starts are the fewest at which
a process meets a rule of the one before; its trace has one outage, which lasts any number of polls because time may stand still,
and the neighbour may block, open or leave at any time. In
Aggregation, the layers 0 and 2 have a gap, so that bundling by number and by position
differ; the head is coarse and moves by 1 are below its grid of 2, so that training can be
lost to rounding; two rounds give late updates, and two clients on one worker a model that
was trained by another. The trace has outages of one and of two time units, so a tick can fall
within, at the edge of, or past one; `MaxTime = 7` exceeds its length plus one, where
the mode `repeated` wraps. For feedback, 6 rounds reach the upper end of the quality
scale, let slices fall well behind and let updates that are one or several rounds late meet
leases of other slices; one slow client is the fewest that strays, the other one is in time
so that late and timely updates meet, and the proofs do without a bound. For admission, the tiers and sizes are those of
`impl_sst2_leaselora*.yaml`; the initial estimate is 5 Mbps instead of 80, so that an
average that falls meets the guard's limit within 9 rounds, and `LeaseLimit = 6` is
tight: 5 is violated.
For the standalone scheduler, three small clients are the fewest of which a reservation
takes one or two, and that with the second one exceed a redundancy of one; a debt is
withheld redundancy from `Ceiling = 10` on instead of 30, so that two failed rounds reach
it instead of six, and `RedundantLimit = 1` is tight: 0 is violated.

### Fairness

* RoundProtocol: weak fairness of the main thread and of a handler that holds the
  lock. Both are threads of one process that never wait for anything without a
  timeout. Nothing is assumed of workers or network: rounds end by their timeout.
* LinkedWorker: weak fairness of the worker's steps as a whole (a sequential process
  with request timeouts). Nothing is assumed of the coordinator, the neighbour, the
  link or time.
* LinkEmulation: time passes, and the loop ticks while the process runs.

### Findings

Three of the runs state what a configuration value or a log message says and
show that the code does otherwise; `PROJECT.json` has the lines.

* With `discard_late_updates: true`, an update of the previous round that arrives
  after the reset ends the wait for its client and is aggregated in this round
  (`LateUpdatesDiscarded`).
* An upload whose answer is lost and which is retried after the reset is aggregated
  in both rounds: "Duplicate update ignored" holds within a round only
  (`NoDoubleAggregation`).
* A worker that ends during an outage leaves its DROP rule; its successor adds a
  second one, deletes one and logs "restored traffic" (`RestoredMeansUnblocked`).

Properties that hold but describe limits of the code rather than merits:

* `OutageBounded` has no lower bound: idle answers raise the same counter, so a worker
  that was idle for long leaves with "Lost coordinator connection for too long" at its
  first failed poll.
* `ExcessIsReserved`: reservations look at neither budget nor redundancy, so all
  low-resource clients with one may be given the same slice.
* `FailedApplyIsFinal`: a profile that failed to apply is never repaired, and the mode
  `random`, which installs none, never shapes anything although `src/rpc/worker.py:181`
  logs "Network emulation active".
* `RepeatedPlaysOnce`: the mode `repeated` does not repeat: its clock starts again, the slot
  does not.
* `TasksNeedRegistration`: workers that survive a coordinator restart never get a task
  again, and a coordinator that was started again among such workers only skips its
  rounds.
* `OfflineNeverReported`: the report of an outage would have to pass the rule that makes the
  outage, so the coordinator goes on sampling the clients of an offline worker.
* `StrandedForGood`: a DROP rule whose owner has ended, or whose `iptables -A` timed out
  after it had worked, cuts its host off until somebody deletes it by hand.
* `FreshBaseOfLife` is about tasks of the present life. A worker that survived with a task
  of a life before uploads it into the same round number of this one: the update may be
  based on an adapter that was lost with the crash, or on the initial one if it was
  downloaded before the checkpoint was loaded; it counts, and the fresh update of the
  client is then the "duplicate" that is ignored.
* `AverageOfModels`: the single client's value is taken over exactly, rounding included: a
  head that has not learned a whole bfloat16 step moves back towards the grid.
* `RejectedForGood`: one rejection after the warm-up excludes a client until the
  coordinator is started again: only clients with a lease are recorded, and time only
  lowers the prediction of the others.
* `LeasesBounded`: with the guard in mode `full`, the estimate falls with every update a
  client delivers, because training time is taken for upload time, until the client is
  rejected, and then for good. With the shipped configuration and the default of 80 Mbit/s
  this takes 14 leases for tier 1.0, or 15 if an update comes a round late and in place
  of the one that is waited for (the limit that `AdmissionLeasesBounded` proves), 16 for 0.7
  and 19 for 0.5 (calculated from the same formulas, for updates in time); tier 0.3, whose
  leases are small, stays.
* `BatchIsNeverShrunk`: no guard reads the micro batch, so shrinking it never turns a
  rejection into a lease.
* `CoverageBalanced` allows a lead of as many updates as the warm-up has rounds: in it the
  scores are not asked, and a client whose leases are cut in half trains the front of the
  registry each time. It allows one more for each round in which a late update counted for a
  slice that none in time was of: such an update counts whether the planner would lease its
  slices now or not. `StarvationBounded` has the same allowance and counts only rounds in
  which some update counts.
* `RoundsCountOnce` is about the aggregation of rounds. An update that is counted in the round
  after its own is in the adapter as part of that round, and the two findings on updates stand.
* `CheckpointKept` promises what `save` has returned from, and neither where nor that it is
  loaded. It may be in a round file only, while `latest.pt` is torn, and nothing replaces
  that. A checkpoint whose `save` was cut off may be lost although its round file was
  complete: a crash before `latest.pt` is opened lets the round run again, a second crash
  tears the round file, and what is left is the checkpoint before. When rounds run again, what
  a round file holds may go on from `saved` with other updates than in the life before.

## 4. Proofs

All theorems hold for every value of the constants that satisfies the modules'
named assumptions: types of the parameters, positive limits, finite sets of slices and
clients, traces with increasing times. `LimitAssumption` of `AdaptiveSchedule` says that
`RedundantLimit` is as long as a virtual queue takes from zero to the ceiling;
`LinkAssumption` repeats the assumptions of `LinkEmulation` where it is composed. One
theorem, on the number of leases, has a hypothesis of its own, see below.

* **RoundProtocolProofs.** None of the safety properties is inductive by itself.
  `IInv` adds what they rest on: `RetryInv` (a worker that has yet to send has an
  attempt left), `QueueInv` and `HandedInv` (a queued task is in one queue, of a known
  round, and was not handed out: this is what makes `pop` before `answer` safe),
  `CarrierInv` (job, message, handler and list all trace back to a task), `HandlerInv`
  (the look-up stays right across the unlocked reset, because after it every update
  in the handler is of an older round), `BaseInv` (before aggregation every delta of
  this round, wherever it is, is based on the current adapter), `ReceivedInv` (what
  is read after the last poll extends what the polls saw) and `LedgerInv`. The proof
  has one lemma per part with one case per action; `Invariance` combines them and
  `TypeCorrect`, `HandedOnce`, `NoDuplicatePending`, `AcknowledgedKept`, `BaseIsFresh`,
  `CompletedHaveUpdates` and `UpdatesHaveTasks` follow. `Refinement` maps each step
  to a step of `LeaseLedger` or a stutter, from the same invariant. `MainThreadMovesOn` is
  what `TrainingTerminates` rests on besides fairness: `Left` counts the statements of
  the main thread that are still to come, 12 for a round, and each step lowers it or
  leaves phase and round alone; of the main thread's own steps only a poll inside the
  timed wait may do the latter.
* **WorkerLoopProofs.** `Counted` is the strengthening of `OutageBounded`: after a
  failed poll the failures since the last answer are among those `idleCount` has
  counted and the count is within the limit; it may be above the limit after idle
  answers, which is why the invariant must mention `failures > 0`. `Enrolled` gives
  `TasksNeedRegistration`. The same module proves the composition: `LinkedImplementsLoop`
  (each step is one of `WorkerLoop` or leaves its variables alone, so the theorems above
  hold on the link) and, from the account of the host's rules (each has its owner or is an
  orphan), `LinkedOfflineNeverReported`, `LinkedOwnOutageSparesTransfers` and
  `LinkedStrandedForGood`. `LinkedTypes` adds that process and replayer start and end
  together (`Together`) and that an owner's rule is among those counted, so no deletion
  makes the count negative. The facts about the replayer are stated for the instance
  `Link!` here: the prover cannot cite a theorem of an instantiated module.
  `WorkerEndsInTime` is what `WorkerEnds` rests on besides fairness: once the coordinator has
  finished or is gone, `StepsLeft` falls with every step of the process.
* **CoordinatorRecoveryProofs.** `RecoveryInv` relates, statement by statement, the
  rounds in the adapter to `round` and to the feedback state, in memory and in
  `latest.pt`; it yields `RoundsCountOnce` and `FeedbackCovers`. `KeptInv` says that a
  training that runs goes on from what was saved last (`ContinuesOn`), that `latest.pt` is torn
  only once the round file beside it is complete, and that nobody opens another file before
  `latest.pt` is whole again or the training is given up; it yields
  `CheckpointKept`. `KeepsInv` adds how far the loop may be ahead of the
  last file, which yields `CheckpointKeepsUp`. `RestartImplementsRecovery` carries these over
  to the composition: what a late or foreign update does to the adapter is what any
  aggregation may do. `FreshBaseOfLife` rests on `RestartInv` (while the loop runs, the bytes that
  are served are the adapter) and `LifeInv` (tasks of this life are of rounds
  whose task was made, and those of the round that waits hold its adapter or none yet).
* **LinkEmulationProofs.** `Blocked` (rules are counted, the flag implies one) yields
  `OfflineIsBlocked`; `KernelShape` yields `FailedApplyIsFinal`. `RepeatedPlaysOnce` rests on `NotBehind`, that no
  slot has begun which the session has not come to, and on `TickIsFurthest`: the search from
  the current slot passes over nothing that has begun and stays where it is when the clock has
  started again. `SlotIsCurrent` needs that the times
  of the trace increase: the search that stops at the first slot to come then finds the latest
  that has begun. `LinkFollows` (`LinkFollowsSlot`) needs `FollowInv`: in the first session of
  a host whose tools work, flag, rule, profile and slot agree after every tick, whichever
  slots were skipped. From it follows `LinkRestoredAtLast`, what `LinkComesBack` rests on
  besides fairness: after a tick past a last row that is online nothing is blocked.
* **SliceFeedbackProofs.** `FeedbackInv` relates coverage, last update, count of rounds
  and `round`. `FeedbackCoverageBalanced` and `FeedbackStarvationBounded` hold for any
  number of slices, clients and rounds. Neither uses the weights of the score, only that
  a slice which is covered no more, served no better and updated no later than another, and
  not the same in all three, scores higher (`NeedierIsBetter`). So what is leased instead
  of another is behind it in at least one of the three (`LeasesBest`). Balance of coverage
  is not inductive alone: a slice that is covered more may be leased for its low quality.
  `Even` therefore bounds, for every pair, the lead in coverage and in quality together: an
  update moves two slices one apart in coverage and at most three steps in quality, quality
  that a slice lacks is taken off the lead it may have, and so is one update if it is the
  staler of the two. A late update asks no score. It moves a pair just as far, and the round
  in which it strays raises the bound, `Gap`, by as much. For starvation, `Passes(t, s)` is how often `s` may still be updated
  before `t` is, never more than `Lead`; `ToPass(t)`, the finite set of all these updates,
  loses an element in each round that counts and passes over `t` (`Bounded`), but for a round
  that strays, for which `Lead` grows.
* **LeaseAdmissionProofs.** `TypeOK` is inductive and carries the relation of record,
  guard and loop: `lastOk <= guardRound < round`. `RejectedForGood` follows from
  `RefusedInv`: past the warm-up, the proposal that was refused is refused now as well.
  It rests on two monotonicity lemmas: what fits a slow uplink fits a faster one, through
  all shrink steps (`SlowerRejected`), and the predicted uplink of a client that is not
  recorded never rises (`UplinkFalls`). `LeaseMeetsDeadline` needs that a lease which
  crosses an uplink leaves time that is not negative, and that the worker's product of
  steps, step time and slowdown is at most the guard's. `AdmissionLeasesBounded` depends on
  sizes and speeds and is proved under `Shipped`: those of `impl_sst2_leaselora*.yaml`, with
  any guard modes, other tiers, rounds, warm-up and restarts. `Slowing` bounds the average
  after k leases by the k-th value of a table (`Speed`), whether the client is heard,
  missed, or heard with an update of the lease before. With the code's default of 80 Mbit/s
  the table ends after 15 leases; a predictor that begins with less starts further down
  in it, which gives the limit of six at 5 Mbit/s. That is where the run Admission begins,
  so that nine rounds suffice.
* **AdaptiveScheduleProofs.** `NothingLeftOver` needs that what the loop is past stays out
  of reach (`LeftOverInv`), which rests on `HoldIsAntitone`: an assignment only lengthens
  lists and raises counts, so it lets no other pair through. `ExcessIsReserved` is
  inductive by itself: an assignment comes below the cap, so it never leads above it.
  `WeakNotShutOut` needs that a share of a positive number rounds up to at least one
  (`SomeReserved`) and that the loop takes nothing away (`ReserveInv`). `RedundantIsRecent`
  needs that a queue holds at least what it would had it been empty when its slice was last
  served (`OwedInv`), which rests on the update of a queue being monotone.
* **AggregationProofs.** `RegistryIsPartition` counts layers: the positions of `n` layers are
  0 to `n - 1`, and a bundle is the positions between two multiples of its size; it needs no
  invariant. `FeedbackIsTruth` needs that every pending
  update's parameters are those of its lease, and the partition, by which a parameter's name
  leads back to its slice. `AverageOfModels` is about a weighted sum over the clients
  that sent a parameter: such a sum is between the least and the greatest of its values
  times the sum of the weights. The library's induction takes an operator, so the
  lemmas on sums, least and greatest elements argue by a smallest subset for which they
  would fail. `DataInv` keeps that every delta is what its client's training has moved,
  from a typed adapter; with the partition it yields the types (`AggregationTypes`).

Only model-checked:

* `TrainingTerminates`, `WorkerEnds` and `LinkComesBack`: liveness under fairness is out of
  the prover's reach. What each of them rests on besides fairness is proved:
  `MainThreadMovesOn`, `WorkerEndsInTime`, `LinkRestoredAtLast`.
* The three properties that do not hold.

## 5. Not modelled

* Training, evaluation, models, datasets, serialisation: tensors and I/O on which no
  step of the protocol depends.
* The restart of the coordinator together with everything `RoundProtocol` has:
  `CoordinatorRestart` keeps handlers atomic and clients to one.
* Gradients and losses: training is a move of the trainable parameters by any of a few
  distances.
* Of the standalone library: the baseline LeaseLoRA, quantiles of prediction errors,
  running variances, local steps and deadlines.
* The guard's verdict inside `RoundProtocol`, which allows any: it influences no other
  step there.
* `go_soft_offline/online`, `load_round`, the variance estimate: no caller reaches them.

## 6. Plan

Done since the first version: `Aggregation`, `LinkedWorker`, `CoordinatorRestart`, the
theorems about them, and proofs of every invariant of the passing runs. What is left, in this
order:

1. Standalone: the baseline LeaseLoRA beside AdaptiveLeaseLoRA, the guard of the chance
   constraint over a client's last errors, class priors.
2. Several clients and the split upload handler in `CoordinatorRestart`, refining
   `LeaseLedger` within one life.
3. Proofs: the refinement of item 2.
