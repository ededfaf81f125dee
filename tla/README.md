# ACO-Sentinel: verification project

TLA+ models of the ACO-Sentinel scheduler, TLC configurations that check them
on small instances, and TLAPS proofs of the theorems that matter most.

## 1. The system

Two generations of one scheduler live in the repository: a self-contained
service in `core/` (FastAPI, threads, an ant-colony placement algorithm) and a
Kubernetes integration (`extender/`, and `v2/` with a Go plugin and a Python
gRPC sidecar).

| Component | State | Operations | Talks to | Hard because | Correct when |
|---|---|---|---|---|---|
| Orchestration service (`orchestration_service.py`) | nodes with reservation counters, `active_jobs`, `completed_jobs`, `_pending_queue`, `_node_workload_map`, `_node_pheromone` | `submit_job`, `drain_pending_queue`, `complete_job`, snapshot save/load | called by API, telemetry loop, NodeAgents; calls scheduler, admission | `submit_job` and the drain hold an RLock in worker threads; `complete_job` runs on the event loop without it | counters equal what jobs hold; no overcommit; no queued job lost or overtaken; every placed job is executed |
| API layer (`api_main.py`) | `_sim_task`, `_sim_running`, tasks | POST /jobs, simulation start/stop, telemetry loop, lifespan | service, agents, collector | tasks cancelled at an await; results of worker threads dropped | each placed job gets exactly one `execute_job` |
| NodeAgent (`agent.py`) | running flag, heartbeat task | start/stop, heartbeat, `execute_job` | service | coroutine interleaving | a job handed to it completes |
| Scheduler (`scheduler.py`) | none (one call) | `aco_schedule`, `naive_schedule` | colony, cost engine, router | fallbacks, spot retry | returns a feasible node or raises |
| ACO core (`colony.py`, `ant.py`, `pheromone.py`) | pheromone matrix, best path | run colony, build path, evaporate, deposit | scheduler | numeric bounds | bounds kept, best never worsens |
| Intent router, cost engine, admission (`intent_router.py`, `cost_engine.py`, `admission_controller.py`) | none | classify, score, admit | scheduler | rule order | every job gets one strategy |
| Predictor, collector, trace adapter | sample windows, spikes, cache | refit, tick, inject | service | training outside the lock | refits happen when due |
| Extender (`extender/main.py`) | pheromone table | filter, prioritize, reset | kube-scheduler | none locked | scores in range |
| Go plugin (`plugin.go`) | circuit breaker, scoring cache, configuration, audit queue | PreScore, Score, Reserve, Unreserve, PostBind, reload | sidecar over gRPC | parallel Score calls, timeouts, concurrent binding cycles | fail-fast while the sidecar is down and recovery after |
| Sidecar (`grpc_server.py`, `confidence.py`) | pheromone table, counters, trust, thresholds | ScoreNodes, CommitPlacement, Reset, save loop | plugin, disk | thread pool of ten without a common lock, crash between saves | counters agree with commits; what was saved is restored |

## 2. Plan

| Step | Modules | Content | Status |
|---|---|---|---|
| 1 | `Orchestrator`, `OrchestratorInv`, `LedgerSums`, `MCOrchestrator`, `LedgerSumsTheorems`, `OrchestratorProofs` | job service with all its threads; ledger, queue, colocation, liveness; type and ledger theorems | done |
| 2 | `SchedulingCycle`, `BreakerPromise`, `MCSchedulingCycle`, `SchedulingCycleProofs` | the plugin's PreScore with breaker, score cache, reloads and outages; implements what a caller of the breaker may rely on | done |
| 3 | `PlacementStore`, `MCPlacementStore`, `PlacementStoreProofs` | Reserve/Unreserve/PostBind, the sidecar's counts, reset, save loop, shutdown, crash and restart | done |
| 4 | `PlacementRules`, `AntColony`, `ColonyPromise`, `MCAntColony`, `AntColonyProofs` | the rules of a placement; one run of the colony and the scheduler's own loop; implements what the scheduler relies on | done |
| 5 | `PlacementDecision`, `MCPlacementDecision`, `PlacementDecisionProofs` | admission, routing, filter, scores, choice and fallback of one submission, beside completions and refits | done |
| 6 | `Telemetry`, `MCTelemetry`, proofs in `ServiceLifeProofs` | ticks, spikes, uploads of traces, refits, and the drain after each tick | done |
| 7 | `ServiceLife`, `MCServiceLife`, `ServiceLifeProofs` | start, tasks, orphaned threads, shutdown, node pheromone and its snapshot | done |
| 8 | `Extender`, `MCExtender`, proofs in `SidecarScoringProofs` | filter, prioritize, its pheromone tables, reset | done |
| 9 | `SidecarScoring`, `MCSidecarScoring`, `SidecarScoringProofs` | trackers, trust and thresholds under overlapping ScoreNodes calls | done |

How the modules are composed. `AntColony`, `PlacementDecision` and `Extender`
extend `PlacementRules`. `AntColony` implements `ColonyPromise`, and the action
`ChooseByColony` of `PlacementDecision` is that promise; `PlacementDecision` in
turn shows of `submit_job`'s search what `Orchestrator` takes for granted: the
chosen node has room at the moment of the answer (`PlacedNodeSuits`), and there
is no refusal while there is room (`RefusedOnlyWithoutRoom`). `ServiceLife`
takes a placement for one choice of a node and looks at what it does to the
node pheromone. `SchedulingCycle` implements `BreakerPromise`.
`PlacementStore` and `SidecarScoring` share one action, the reset: each has the
part of the state it is about.

Two proof modules are about two components each: `ServiceLifeProofs` about the
process and its telemetry loop, `SidecarScoringProofs` about the two services that
score for kube-scheduler. For that a proof module extends both components, so names
that any specification has are prefixed in one of them: `LoopInit`,
`LoopNext`, `LoopSpec`, `LoopTypeOK` in `Telemetry`, `ExtInit`, `ExtNext`, `ExtSpec`,
`ExtTypeOK` in `Extender`. The specifications stay separate: each theorem is about
one of them.

## 3. Modules

### Orchestrator

`Orchestrator.tla` models `submit_job`, `drain_pending_queue` and `complete_job`
with everything they call, and their callers in `api_main.py` and `agent.py`.

* **Threads.** The holder of `_state_lock` is one of the POST handler (`"api"`,
  on the event loop), the simulation's worker thread (`"sim"`, or `"orphan"` once
  its task has been cancelled) and the telemetry loop's worker thread
  (`"drain"`). `pc`, `cur`, `step`, `tmp` are its locals. `complete_job` runs on
  the event loop, takes no lock and has its own `cpc`, `cid`, `cstep`, `ctmp`.
* **Counters.** `allocated_cpu_cores += x` on a pydantic model reads the field and
  later calls `__setattr__`; a thread switch may come between, so each counter
  update is a read action and a write action. A `list.append`, a `list.remove` and a
  dict update are single calls and atomic each, not together: the type enters the
  colocation map (`Colocate`) before the job enters `active_jobs` (`Record`); its
  removal (`Unmap`), the test for an empty list with its `del` (`DropEmpty`) and the
  move to `completed_jobs` (`Retire`) are three moments. A test and the `del`
  behind it are one: the interpreter (3.10 and later) switches threads only where
  something is called or a loop turns.
* **`aco_schedule`** is any feasible node, or `SchedulingFailedError` exactly when
  there is none. Reading all nodes in one step loses no outcome: a concurrent
  completion only frees resources.
* **Queue.** `queue` is `_pending_queue`, `batch` is what the drain has left of
  `entries_to_retry`; a failed retry is appended twice, as in the code.
* **Who executes a placed job.** `executing` (a coroutine sleeps on it) and
  `handoff` (returned to the simulation, not launched yet).
* `torn` is a history variable: some counter write was based on a stale read.

`OrchestratorInv.tla` holds the inductive invariant, `LedgerSums.tla` the sums
over executions that the ledger properties need, `MCOrchestrator.tla` the
small clusters.

### SchedulingCycle

`SchedulingCycle.tla` is PreScore and the Score calls that follow, in
`plugin.go`. kube-scheduler runs one scheduling cycle at a time, so breaker and
cache have one caller. `pod`, `nodes`, `call` are the cycle's; `outcome` says
how PreScore ended and `scored` for which nodes it left a score. A cycle starts
with one of `UseCache`, `Reject`, `Call`, `Probe`, the branches of the cache
lookup and of `AttemptCall`; an RPC ends in `Answered` or `Failed`. The sidecar
stops and returns, the configuration file changes and the clock ticks in
between. `recordFailure`, `recordSuccess` and `calculateBackoff` are operators
of the same name.

* Times are ages in ticks and stop growing at `MaxAge`: they are compared with
  the TTL, the back-off and the scheduler's own retry delay, all below it.
* `failureCount` stops at `MaxFailures`, at or above every threshold: the code
  compares it with the threshold and with nothing else.
* A pod is retried only `RetryDelay` after its last scored cycle
  (kube-scheduler's back-off), so a stale hit needs a TTL at least that long.

`BreakerPromise.tla` is the abstract breaker: a streak of failures, open or not,
and which outcomes it allows. `SchedulingCycle` implements it with
`open <- state # "Closed"` and the streak cut at the threshold.

### PlacementStore

`PlacementStore.tla` follows a pod from Reserve to the state file: the plugin
(`phase` of each pod, `reserved`), the servicer (`placements`, `total`,
`phantom`), and two savers, the save loop and the signal handler.

* **Atomicity.** The interpreter (3.11, as in the sidecar's image) switches threads only where
  something is called or a loop turns. `PlacementCommitted` without its output is one
  step; a reset is two, since `clear()` is a call; `save()` is `Begin` (copy the
  counters), `Open` (truncate the temporary file), `Flush` or `SaveFails` (the dump),
  `Rename`. The dump iterates over the live dict and raises when its size has changed.
  What a dump writes (`Dumped`) has as many keys as the map had at its begin, of those
  the map has had since (`held`): after a reset and as many new commits it is another
  set.
* **The disk** may fail a save at its open, dump or rename (`DiskFails`), at most
  `MaxErrors` times; like the error of a dump it is caught and printed.
* **Files.** Contents are absent, torn or saved. Both savers use one temporary
  name. After a rename the other saver's open file is the state file itself
  (`target`), and what two savers write into one file overlays (`dirty`).
* **Calls.** A commit or rollback is in flight until the sidecar executes it; a
  kill of either process ends it in an error that the plugin drops. It is never
  retried, as in the code.
* A pod is bound once, so the map is the set of its keys.
* `overlapped` (two saves met) and `durable` (what the map held when the last
  finished save began, less what was reset) are history variables.

### PlacementRules, AntColony, ColonyPromise

`PlacementRules.tla` holds what the core computes without keeping state, one
operator per function, named after it: `Admissible`, `Classify` and the six
strategies, `CanFit`, `Matches`, `CouldEverFit`, the cost engine's four factors
and `ScoreNode`, the ants' `Heuristic`. `JobRequest` and `ComputeNode` are the
records the models of `models.py` admit, with their ranges. Factors are whole
percents; a product of them is compared with zero and with other products. A
draw of an ant (`Drawable`) is any node of positive weight, or the first or the
last node of the row: the code draws from `[0, total]` including both ends, and a
cumulative sum that rounding has left short ends at the last.

`AntColony.tla` is `Colony.run` (`RunColony`) and `_run_colony_with_eta`
(`RunWithEta`), which differ in how they begin. Its state is the matrix, the
count of iterations, the best solution and the stagnation count. An iteration
is one step: any drawable plan may be the cheapest one its ants found, so
`Iterate(p)` takes any; evaporation, deposit and the stagnation test are part
of it. `IterateInVain` is the iteration in which no ant finds a solution.
`ColonyPromise.tla` is what the scheduler relies on: one answer, drawable for
every job, or a failure exactly when some job has no node.

### PlacementDecision

`PlacementDecision.tla` is one call of `submit_job` up to its outcome. `pc`
follows the code: `admit`, `filter` and `score` (loops over the nodes, one
node per step), `choose` (fast path or colony), `naive`, `refused` (the
estimate that queues or rejects). Between any two steps `complete_job`, which takes no
lock, releases what a node's jobs hold (`Release`) and then takes their
types out of the map the scores read (`Forget`); the collector writes a new
prediction (`Refit`). `via` (who chose) and `roomy` (which nodes suited at the
beginning) are history variables.

### Telemetry

`Telemetry.tla` is the loop of `api_main.py` with `TelemetryCollector.tick`:
`TickBegin`, one `Sample` or `Fail` per node, `TickEnd` with the refit when it
is due, `Drain`. An upload swaps the adapter also in the middle of a tick; a file has
rows that are good, damaged or no numbers, and the two formats parse them as
the adapters do (`AlibabaTrace`, `BorgTrace`). Per node it keeps the baseline,
the spike's countdown, the number of samples, and what the predictor was last
trained on. `Drain` is where the loop calls `drain_pending_queue`; what that does to the
queue is `Orchestrator`'s. That `NodeTelemetry` refuses NaN by its `ge`/`le` bounds is a property of pydantic (external).

### ServiceLife

`ServiceLife.tla` is the life of the process: `Start` (constructor and lifespan up
to `yield`), `Crash`, and the shutdown as one action for each stretch between two awaits
(`Shutdown`, `StopTelemetry`, `AwaitTelemetry`, `StopAgent`, `SaveBegin`,
`Dump`, `Replace` or `SaveFails`, `Exit`). Every task has a state of its own:
the simulation's tasks (starts and stops may overlap: `stopping` is the set of tasks
that stops wait for), the telemetry task, the heartbeats.
`at` tells for every worker thread whether it waits for the lock or updates the
vector; a thread whose task was cancelled goes on as an orphan. `Update` is one
turn of the loop over the vector. The file is absent, a list, or a vector with
numbers, NaN, text or null for each node; `Restored` and `Refuses` say what a
load makes of it. `known`, `save` and `kept` are history variables: what memory
has learnt since the start, and from which vector the file was written.

### Extender

`Extender.tla` is `/filter`, `/prioritize` and `/reset`; none awaits, so each
is one step, and kube-scheduler calls them in turn (`cycle`). Quantities are parsed as
the code does. A score is the cost engine's, in whole percents and without a floor: from
about $100 an hour on it is zero. `Evaporate` comes before the conversion of the
nodes, so an error leaves the table evaporated. A deposit is the inverse of
the score (`DepositOf`), rounded up since it is never nothing. `last` is a history variable: the last ranking whose table
nothing has touched since.

### SidecarScoring

`SidecarScoring.tla` is `ScoreNodes`: a call evaluates the state of the thresholds,
reads them, and for each candidate looks its tracker up, creates one if there
is none, records the heartbeat and updates the trust. Each is a step: threads
are switched where a function is called or a loop turns (the assumption
`PlacementStore` also makes). Trackers are objects in `heap`, so that two calls can create
two for one node and one of them is lost. `run`, `like`, `given` and `raced` are history
variables that count what the properties compare with.

## 4. Runs

| Run | Shows | Bounds, and why they are enough |
|---|---|---|
| `service` | exact accounting, no overcommit, exact colocation map; no queued request lost, fair queue, leaks only by drain or cancellation; executing jobs finish, the lock is released | two nodes, two counters, so that an allocation and a release each have an inner state; two types of work that share a node; one job fills it while two wait, so that a failed drain has an entry behind the failed one; a queue of two places, where one duplicate already makes `maxlen` drop an entry; three executions, enough for a request to be placed again from a duplicate; three clock values around a TTL of one |
| `drained` | a drained job is never executed (finding) | a node for one job, a queue of three |
| `breaker` | state and counter agree, `BreakerPromise` is implemented, the breaker closes or opens for good | two pods, so that one is served from the cache while the other meets the breaker; thresholds below, at and above one; TTL zero, short and long; ages past every bound |
| `cooldown` | an open breaker is probed without a pause (finding) | as `breaker`, with a base of two ticks |
| `counts` | no unbound pod is recorded, nothing is counted twice, a finished save is never lost unless two saves meet | two pods, one rollback, one reset, one kill of either process: a call can be lost before or after it was executed, and the file loaded over it, at any step of a save or a reset |
| `store_live` | in the end the file has what the map has | two pods, a reset and one failure of the disk at any step, no kill; the loop saves for ever |
| `colony` | the best plan is the cheapest, the loop stops early only when stale, `ColonyPromise` is implemented | one and two jobs on three nodes, one per architecture, idle to full; five iterations with a patience of three, so that a late improvement prolongs the run; scores with zeros in front, behind, everywhere |
| `decision` | a placed job fits and suits its node; none is refused that had room; gated nodes last; only GPU jobs are queued in vain | every type, with and without GPU, preemptible, urgent; sizes that fit everywhere, only on the largest node, nowhere; every node idle, busy or nearly saturated; two GPUs where nodes have one |
| `telemetry` | a baseline comes back after any spikes, predictors keep up until their window is full, the loop drains again and again unless it dies | two nodes, ten files, two spikes of two ticks that can overlap; refits every two ticks and a window of eight, which gets full after four |
| `life` | a snapshot survives, the first placement repairs levels, one simulation at most, a shutdown ends | two nodes, four foreign files, two placements, two simulation tasks whose starts and stops overlap, three starts: what a second life saved is read by a third |
| `extender` | levels stay bounded without a ceiling; a winner stays one | seven rankings for two tenants, with `Keep = 50` per cent (the code keeps 95) so that few rankings are enough for a winner's level to fall to where deposits outweigh evaporation; one node at a price that scores nothing, which earns the largest deposit each time |
| `sidecar` | runs of samples are counted exactly, trust follows them, no sample is lost but by a doubled tracker or a reset | four calls on two threads, two nodes; two samples in a row change the state instead of three and five |

`MaxIds` and `MaxNow` bound the executions and the clock of `Orchestrator`,
`MaxRollbacks`, `MaxResets`, `MaxCrashes` and `MaxErrors` the faults of `PlacementStore`,
`MaxAge` and `MaxFailures` what `SchedulingCycle` counts, `MaxSpikes` and
`Period` the spikes and the tick counter of `Telemetry`, `Sims`, `MaxUpdates`
and `MaxStarts` the tasks, placements and lives of `ServiceLife`, `MaxRankings` the
rankings of `Extender`, `MaxCalls` the calls of `SidecarScoring`, `MaxRun` the runs it counts.
Deadlock is not checked where the system may rest: with the bounds used up, or
without clients. `SchedulingCycle` is checked for it. `counts` uses the symmetry of
pods; the liveness runs do not.

**Fairness.** `Orchestrator`: weak fairness of a started submission, drain or
completion: the interpreter runs every thread and the event loop every ready
callback. Strong fairness of the start of a drain and of a completion, whose
guards are disabled again and again by others: the telemetry loop repeats for
ever and a sleeping coroutine wakes. Nothing is assumed of clients, of the
simulation's start and stop, or of the clock. `SchedulingCycle`: weak fairness of
the end of an RPC (it has a deadline) and of a cycle that has its scores; that
calls are made is a premise of the properties. `PlacementStore`: weak fairness of
each saver's steps, of the loop's timeout and of the shutdown once it has begun; nothing of the disk, which
fails at most `MaxErrors` times.
`AntColony`: of every step, since the colony runs in its caller's thread until
it returns. `Telemetry`: of the loop, which the event loop wakes after each
sleep; nothing of uploads and spikes. `ServiceLife`: of the worker threads, of the
lines of the shutdown, and of the end of a cancelled task; nothing of requests,
simulations, crashes, or of the shutdown's begin.

## 5. Where code and text disagree

Two of these have a run, which states what the text says and lets TLC find the behaviour of the
code that contradicts it. `drained` is a bug: a job the drain places is RUNNING and is never
executed. `cooldown`: an open breaker does not wait before it calls the sidecar again. The others came up
while the code was modelled; the models contain what the code does, and no run is kept for
them.

Service:

* `complete_job` takes no lock, so `+=` in a thread and `-=` on the event loop can
  lose each other's update (`orchestration_service.py:769`, against 172 and 34).
  `AccountingExact` is stated for counters no stale write has touched (`torn`).
* A failed retry is appended twice (471 and 433), so a placed job can still be
  queued and be placed again.
* A drain puts what is behind a failed retry back without looking at its
  age (473, against 84). Entries behind another request's older entry cannot be too old
  when that one is not; it is the fresh copy in front that hides old ones.
* `could_ever_fit` ignores the strategy's filter and the number of GPUs (375,
  against 374): preemptible GPU jobs, and jobs that want more GPUs than any node has, wait
  until their entry expires. `OnlyGpuJobsWaitInVain` says that no other job does.
* Stopping the simulation drops the result of a submission in progress
  (`api_main.py:381`, against 377). A queued submission is answered with HTTP 500.
* The snapshot is loaded without clamping (746), a `null` or a list raises an
  exception nobody catches, and the service does not start. It is saved
  without the lock: an orphaned thread can tear it (`save.torn`).
* A reading that is no number ends the telemetry loop (`api_main.py:125`), and
  the queue is drained no more (against 347).
* `inject_spike` says it extends a spike; it starts the countdown again.
* The refit test counts the samples of a window that stops growing
  (`predictor.py:243`): once it is full a predictor is never refitted (against 107 and
  `collector.py:323`).

Scheduler and colony:

* The node pheromone is handed to the colony as `initial_tau`, and
  `_run_colony_with_eta` builds its matrix without it: a placement does not
  depend on it.
* `arch_required` and `cost_ceiling_usd` (`models.py:559`, 545) are read by the
  ants' heuristic only, which the scheduler replaces by the cost engine's
  scores. `gpu_count` decides the fit, never the estimate.
* A score of 0.0 means "never place" (`cost_engine.py:28`, 158); when all are
  zero the naive fallback places nevertheless. "The ant will never choose this
  arc" (`ant.py:64`) fails at the ends of the range a draw is made from.
* A run with several jobs does not account for what it has put on a node.
* The fast path of `Colony.run` takes a node of score zero, one of an
  architecture the job excludes included; the scheduler's does not.
* The headroom factor is 1 for every node a job fits on.

Plugin, sidecar, extender:

* An open breaker has no cool-down (`plugin.go:233`, against `learning/Project_Tutor.md:264`,
  `learning/Progress.md:61` and `BENCHMARKS.md:83`; `cooldown`): the back-off is
  computed with no attempt counted yet, `base * 2^(0-1)` is truncated to zero, and the
  next cycle probes the sidecar. A failed probe keeps the breaker half-open and does not
  count as an attempt (245), so no back-off is ever computed with another value. A reloaded threshold does not reach the breaker (439).
* Cached scores are used for whatever candidates a retry has (631, against
  591). Entries of the cache are never deleted (293).
* Both savers write one temporary file (`grpc_server.py:109`), so a process can
  leave a state file that does not load (against 85). A save holds the live map and older
  counters (103, against 86). A regular exit loses what is acknowledged between the
  handler's save and the stop of the server (401, against `learning/Progress.md:62`).
* The state RECOVERING is never entered. A call that fails leaves its
  samples in the trackers. A call that overtakes an older one makes the age of the other's
  heartbeat negative, which counts as no freshness at all.
* The extender reads an allocatable amount of 0 as absent, and so as 4 cores or
  8 GB; a malformed label is an HTTP 500 after the table has been evaporated.
* The deposit is the inverse of the score (`extender/main.py:298`, against 297).
* There is no exploration on a fresh table: a ranking is the score times the level (407), so
  a repeated pod goes to the best scored of its candidates from the first ranking on and, as `WinnersStay` says,
  nowhere else as long as no other ranking or reset touches the table (against `DEMO.md:189`, 190, `content/substack-part2-draft.md:64`, 70 and
  `content/2026-07-01-wiring-ants-into-kubernetes.md:145`).

## 6. Proofs

**Orchestrator.** For every cluster, every set of requests and all bounds, from the named
assumptions of `Orchestrator.tla` (types of the constants, `QueueMax > 0`), in `OrchestratorProofs`:

* `TypeCorrect` and `StructInvariant`: the types are not
  inductive alone. `AllocWrite` adds `Demand[cur]` at node `at[nextId]`: that both exist
  is `HolderInv`; `nextId` stays in range because a drain started
  with enough ids for its batch (`BudgetInv`); `Retire` needs that the id being completed is
  active and belongs to nobody else (`JobInv`).
* `Leaks`: the action property, from the same invariant.
* `InductiveInvariant`, `Accounting`, `Capacities`: the sum over
  executions changes in one term per action (`TotalUpdate`,
  `LedgerSumsTheorems`); a write that was not torn moves the counter by the same
  amount; capacity follows since `Place` saw room for what is left to add and
  releases only lower the counters (`CapacityInv`).
* `Colocation`: the set of jobs the map owes an entry (`Mapped`) gains one with
  `Colocate` and loses one with `Unmap`; `Record` and `Retire` change `active_jobs` but not
  that set, since it follows the submission from its append on and the completion up to its
  removal. `DropEmpty` changes nothing because the list it takes out is empty at that
  moment, whatever was appended before.
* `NothingLost` and `Fair`, from `QueueInv` on top of
  `StructInv`: only the drain holds a batch; queue and batch never exceed `QueueMax`; from
  some entry on both are in order of time, and what stands before that entry are copies
  for the same request. A failed retry appends its new copy, then the old one, then the rest
  of the batch, and `deque(maxlen)` drops from the left, so a full queue drops the new copy, never
  the old one.

`LedgerSumsTheorems` shows that the partial sums exist (a bounded induction
carried out by the least-element argument) and how they change. Its `BoundedInduction` and
`RecursionExists` serve every recursive function of the models.

**SchedulingCycle.** For any pods, nodes, configurations and times
(`SchedulingCycleProofs`): `TypeCorrect`; then one invariant that ties state,
counter and attempts together and says that no call is in progress while the breaker
is open. It gives `Trips` and `ZeroBackoff` (the reason for the finding of `cooldown`) at once, and `ImplementsPromise` step
by step: without it a `Failed` step in the open state would not map to an
allowed one.

**PlacementStore.** For any finite set of pods and all bounds
(`PlacementStoreProofs`): `StoreTypes`; `NoPhantoms` and `Counts` from `CountInv`,
which says of every place a record can be (memory, each saver's copy, both
files) that its pods are bound, its deposits at most as many as the bound pods,
its rollbacks at most as many as the plugin reported and are no longer in
flight. It is inductive because those three only grow: a cancelled call is
counted as reported. `KeptSaves` from `SaveInv`: while no two saves have met at
most one saver has a file, that file is under the temporary name, and what a
saver wrote contains its base: `DumpHoldsBase` derives that from the sizes, for a dump that goes
through has as many keys as the map had, and a base lost none of its own but by a reset, which
empties it.

**AntColony.** From `ColonyAssumption` (jobs and nodes of the ranges `models.py`
admits, `0 < TauMin <= TauInitial <= TauMax`), for any number of jobs, nodes and
iterations (`AntColonyProofs`): `TypeCorrect`, which needs that no heuristic and no price is
negative; `Bounded`; `Cheapest` and `Stale` from the invariant that relates
`best`, the plans offered and the iteration that last improved. For
`ImplementsPromise` the invariant must say that pheromone is positive: then the
plans the ants can draw are the same in every iteration (`StableSolutions`), so a best plan is
drawable and its absence after an iteration means some job has no node.
`FirstGreatest` (in `LedgerSumsTheorems`) shows that the first greatest element
exists, by the least-element argument. `ImplementsPromise` is the safety part of the promise.

**PlacementDecision.** From `DecisionAssumption`, for any jobs, clusters and
predictions (`PlacementDecisionProofs`). The types need that no score is
negative (`ScoreNat`), though the factors are quotients and differences. What
other threads do to a node can only make room on it and take neighbours away
(`Kinder`), so what a loop has found out about the nodes behind it stays true:
every entry of `feasible` suits, every node of `roomy` behind the loop is in
it, and a score was taken of each entry. `PlacedSuits`, `RefusedWithoutRoom`,
`GatedLast` follow, and two that no run checks: `UrgentApart`, `NoEviction`.
`WaitInVain` has a premise, that the clusters are `ServiceLike`: an on-demand x86
node is as large as any node and an on-demand GPU node as large as any with GPUs, as
in the cluster the service creates (the run's clusters are, by the assumption of its
module). What a node has never changes (`WaitInv`), and every strategy for
a job without a GPU asks for the first of these nodes among others, every one for a GPU job
that is not preemptible for the second (`StrategyNodes`).

**ServiceLife.** From `LifeAssumption`, for any number of nodes, tasks and starts
and any file (`ServiceLifeProofs`). The invariant has three parts. `Tasks` says who may
run in which phase: from the first line of the save on, nobody but orphans.
`Learning` says that of the workers one holds the lock, and that the levels
behind its loop are within bounds. `Written` says that a dump that no orphan
tore has copied a prefix of an unchanged vector. `Repaired`, `OwnFilesLoad`,
`Survives`, `SavedLast` and `SingleSimulation` follow.

**Telemetry.** From `TelemetryAssumption`, for any number of nodes, any files and any
spikes (in `ServiceLifeProofs`): `LoopTypeCorrect`; `BaselineKept`; and `FitsFollow`, from
the invariant `FitAtRefit`: as long as a window is not full, a predictor is trained exactly
when the last refit the loop came past found enough samples, and with all there were
then. It follows how far the tick has come (`Since`), and needs that the
tick counter's period is a multiple of the refit interval (`NextTick`).

**SidecarScoring.** From `ScoringAssumption`, for any nodes, requests, threads and calls
(`SidecarScoringProofs`): `TypeCorrect`, which needs that weights, samples and
averages are percents; `RunsCounted`, and `TrustIsEarned`, both inductive once the types
are known: a full sample halves what is left of distrust. `NoSampleLost` needs
`Owned`: nodes share no tracker, also not with a call for another node; a node that is not `raced`
has the tracker its calls hold, and none yet as long as one is about to create it.

**Extender.** From `ExtenderAssumption`, for any pods, lists of candidates and
tenants, any number of rankings, and any share that evaporation keeps from one half
on, if what it takes divides a hundred (the code keeps 95 per cent); in
`SidecarScoringProofs`. `LevelsStayBounded` needs nothing of scores and prices: a deposit is at most a hundred
(`DepositBounds`), and from `Saturation` down evaporation takes as much as makes room for it
(`EvaporatedBounds`). `WinnersKeepWinning` needs to
know where the present table comes from. The invariant `Won` says: from a table in which
the winner was the first of the greatest, by the deposit on it. `BestAgain` then
compares the winner with each candidate after the next evaporation. The deposit is at
least a hundredth, and when the divisor is exact, rounding down takes no more
from the winner than the hundredth was worth (`EvaporationLag`); the model's
rounding is what this premise is about: where 94 per cent are kept, levels rounded to
hundredths can change the order. A loser whose level would round to nothing is put back to the
floor, where the winner's product is beyond it (`StillBest`). If the winner scores nothing all
products are zero, the first candidate won, and it does so again.

Only model-checked: liveness, which is out of the prover's reach
(`ExecutedJobsFinish`, `LockIsReleased`, `Recovers`, `NoticesOutage`,
`EventuallySaved`, `DrainsComeBack`, `ShutdownEnds`, and that the colony
answers). Every safety property a passing run checks is a theorem. Type
invariants that are theorems are not all checked again by a run.

## 7. Not modelled, and why

Numbers: resource amounts are integers where the code has floats; scores,
levels and trust are whole percents or hundredths, rounded down; the
probabilities of the ants' draws, the network's forecasts and the synthetic
signal are a free choice. Not modelled for want of state that matters: the
workload profiles of completed jobs, the read-only endpoints, the dashboard and
the event stream, metrics and gauges (of which the extender's can be stale), the plugin's
trust weights, StatefulSet bonus and audit log, the sidecar's federation
endpoint and configuration watcher, what a heartbeat writes. `execute_job` is never
cancelled in the models; its tasks are not kept anywhere. Generated protobuf code, deployment
files and scripts have no control state worth a model. Node states other than
healthy never occur in the service: no code sets them. In the Kubernetes
deployment the state file lies in the container's own file system, without a
volume: `PlacementStore` shows what the program does with a file that survives.
