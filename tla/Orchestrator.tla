---------------------------- MODULE Orchestrator ----------------------------
(***************************************************************************)
(* The control plane service: submit_job, the back-pressure queue and its  *)
(* drain, complete_job, and the ledger of resources promised on each node. *)
(*                                                                         *)
(* Threads.  The asyncio event loop runs the POST /jobs handler, the start *)
(* and stop of the simulation, and the NodeAgent coroutines that call      *)
(* complete_job.  Worker threads (asyncio.to_thread) run the simulation's  *)
(* submit_job and drain_pending_queue.  submit_job and the drain hold the  *)
(* service's RLock from start to end, so at most one of them is under way; *)
(* complete_job takes no lock.  A reservation counter of a node is a field *)
(* of a pydantic model, so "+=" on it is a read and a later call of        *)
(* __setattr__, with room for a thread switch between: AllocRead/AllocWrite*)
(* and ReleaseRead/ReleaseWrite.  The colocation map and active_jobs are   *)
(* changed apart from the counters and from each other: Colocate, Record,  *)
(* Unmap, DropEmpty and Retire.  A list.append, a list.remove, and a test  *)
(* with the del behind it, are atomic: the interpreter (3.10 and later)    *)
(* switches threads only where something is called or a loop turns.        *)
(*                                                                         *)
(* aco_schedule is abstracted to what it guarantees about the ledger: the  *)
(* node it returns was feasible, any feasible node may be returned, and it *)
(* raises exactly when none is.  A concurrent completion only frees        *)
(* resources, so reading all nodes at one instant loses no outcome.  The   *)
(* pheromone vector, which only biases the choice, has no effect here.     *)
(***************************************************************************)
EXTENDS Integers, Sequences, FiniteSets, LedgerSums

CONSTANTS
  Requests,   \* request dictionaries that clients or the simulation submit
  Nodes,      \* the keys of node_state
  WTypes,     \* workload types
  None,       \* no request / no node
  NumRes,     \* resources are numbered in the order they are allocated
  GpuRes,     \* the number of the GPU resource (0 if none is modelled)
  Capacity,   \* Capacity[n][i]: total_cpu_cores, total_memory_gb, gpu_inventory
  Demand,     \* Demand[r][i]: cpu_cores_min, memory_gb_min, gpu_count (0: no GPU)
  WType,      \* WType[r]: workload_type
  Admitted,   \* requests that pass schema validation and the static admission checks
  Deadline,   \* Deadline[r]: deadline_epoch (beyond MaxNow: no deadline)
  Eligible,   \* Eligible[r]: nodes that pass the strategy's arch/instance filter
  QueueMax,   \* QUEUE_MAX_DEPTH
  TTL,        \* QUEUE_TTL_S, in ticks of the model's clock
  MaxIds,     \* bound: executions (job ids of placed jobs) in a behaviour
  MaxNow      \* bound: ticks of the clock

Res == 1..NumRes
Ids == 1..MaxIds

ASSUME CapacityAssumption ==
  /\ NumRes \in Nat \ {0}
  /\ GpuRes \in Nat
  /\ Capacity \in [Nodes -> [Res -> Nat]]

ASSUME RequestAssumption ==
  /\ None \notin Requests \cup Nodes
  /\ Demand \in [Requests -> [Res -> Nat]]
  /\ WType \in [Requests -> WTypes]
  /\ Admitted \subseteq Requests
  /\ Deadline \in [Requests -> Nat]
  /\ Eligible \in [Requests -> SUBSET Nodes]

ASSUME BoundAssumption ==
  /\ QueueMax \in Nat \ {0}
  /\ TTL \in Nat
  /\ MaxIds \in Nat \ {0}
  /\ MaxNow \in Nat

VARIABLES
  now,        \* time.monotonic()
  lock,       \* who holds _state_lock: "free", "api", "sim", "orphan", "drain"
  pc,         \* where the holder of the lock is
  cur,        \* the request it is submitting
  step,       \* the resource _allocate_resources has reached
  tmp,        \* the counter value it read
  batch,      \* entries_to_retry that the drain has not finished with
  drainNow,   \* the time the last drain started
  queue,      \* _pending_queue
  status,     \* the last status reported for a request
  alloc,      \* alloc[n][i]: allocated_cpu_cores, allocated_memory_gb, ...
  colo,       \* colo[n][w]: occurrences of w in _node_workload_map[n]
  nextId,     \* the next fresh job id
  job,        \* job[k]: the request execution k runs
  at,         \* at[k]: its assigned_node_id
  active,     \* keys of active_jobs
  completed,  \* ids moved to completed_jobs
  executing,  \* ids an execute_job coroutine is sleeping on
  handoff,    \* ids the simulation loop was given and has not launched
  simRunning, \* the simulation task exists
  cpc,        \* where complete_job is, on the event loop
  cid,        \* the id it is completing
  cstep,      \* the resource _release_resources has reached
  ctmp,       \* the counter value it read
  torn        \* history: some counter write was based on a stale read

holderVars  == <<lock, pc, cur, step, tmp>>
queueVars   == <<batch, drainNow, queue>>
jobVars     == <<nextId, job, at>>
loopVars    == <<cpc, cid, cstep, ctmp>>
launchVars  == <<executing, handoff, simRunning>>
vars == <<now, holderVars, queueVars, status, alloc, colo, jobVars, active,
          completed, launchVars, loopVars, torn>>

Entries == [req : Requests, at : 0..MaxNow]

TypeOK ==
  /\ now \in 0..MaxNow
  /\ lock \in {"free", "api", "sim", "orphan", "drain"}
  /\ pc \in {"idle", "next", "place", "alloc", "store", "record"}
  /\ cur \in Requests \cup {None}
  /\ step \in 0..(NumRes + 1)
  /\ tmp \in Nat
  /\ batch \in Seq(Entries)
  /\ drainNow \in 0..MaxNow
  /\ queue \in Seq(Entries)
  /\ status \in [Requests -> {"new", "pending", "SCHEDULED", "QUEUED", "REJECTED", "EXPIRED"}]
  /\ alloc \in [Nodes -> [Res -> Nat]]
  /\ colo \in [Nodes -> [WTypes -> Int]]
  /\ nextId \in 1..(MaxIds + 1)
  /\ job \in [Ids -> Requests \cup {None}]
  /\ at \in [Ids -> Nodes \cup {None}]
  /\ active \subseteq Ids
  /\ completed \subseteq Ids
  /\ executing \subseteq Ids
  /\ handoff \subseteq Ids
  /\ simRunning \in BOOLEAN
  /\ cpc \in {"idle", "release", "store", "drop", "retire"}
  /\ cid \in Ids \cup {0}
  /\ cstep \in 0..(NumRes + 1)
  /\ ctmp \in Nat
  /\ torn \in BOOLEAN

Init ==
  /\ now = 0
  /\ lock = "free" /\ pc = "idle" /\ cur = None /\ step = 0 /\ tmp = 0
  /\ batch = <<>> /\ drainNow = 0 /\ queue = <<>>
  /\ status = [r \in Requests |-> "new"]
  /\ alloc = [n \in Nodes |-> [i \in Res |-> 0]]
  /\ colo = [n \in Nodes |-> [w \in WTypes |-> 0]]
  /\ nextId = 1
  /\ job = [k \in Ids |-> None]
  /\ at = [k \in Ids |-> None]
  /\ active = {} /\ completed = {}
  /\ executing = {} /\ handoff = {} /\ simRunning = FALSE
  /\ cpc = "idle" /\ cid = 0 /\ cstep = 0 /\ ctmp = 0
  /\ torn = FALSE

-----------------------------------------------------------------------------
(* Helpers *)

\* deque(maxlen=QUEUE_MAX_DEPTH): what is left after appending past the bound.
KeepLast(s) ==
  IF Len(s) <= QueueMax THEN s ELSE SubSeq(s, Len(s) - QueueMax + 1, Len(s))

\* admit_job, called anew by every retry: the deadline may have passed meanwhile.
Admissible(r) == r \in Admitted /\ Deadline[r] > now

\* (Bug: the totals instead of what is available.)
CanFitEmpty(n, r) == \A i \in Res : Demand[r][i] > 0 => Demand[r][i] <= Capacity[n][i]

\* ComputeNode.can_fit on a healthy, thermally safe node.
CanFit(n, r) == \A i \in Res : Demand[r][i] > 0 => alloc[n][i] + Demand[r][i] <= Capacity[n][i]

\* (Bug: the strategy's filter alone.)
FeasibleUnchecked(r) == Eligible[r]

\* The nodes aco_schedule chooses from.
Feasible(r) == {n \in Eligible[r] : CanFit(n, r)}

\* could_ever_fit: looks at totals only, and at GPUs only for being there at all.
CouldEverFit(r) ==
  \E n \in Nodes : \A i \in Res :
     IF i = GpuRes THEN Demand[r][i] > 0 => Capacity[n][i] > 0
                   ELSE Demand[r][i] <= Capacity[n][i]

\* The event loop is not inside complete_job, nor inside the POST handler.
LoopIdle == cpc = "idle" /\ lock # "api"

\* The finally block of submit_job, seen from its caller: a thread releases
\* the lock; the drain, which holds it again, goes on with the next entry.
Return(st) ==
  /\ status' = [status EXCEPT ![cur] = st]
  /\ cur' = None
  /\ IF lock = "drain"
     THEN pc' = "next" /\ batch' = Tail(batch) /\ UNCHANGED lock
     ELSE pc' = "idle" /\ lock' = "free" /\ UNCHANGED batch

-----------------------------------------------------------------------------
(* submit_job *)

\* A caller enters submit_job: the POST handler on the event loop, or the
\* simulation loop's worker thread, which submits again only after it has
\* launched what its last call returned.
SubmitBegin(who, r) ==
  /\ lock = "free"
  /\ status[r] = "new"
  /\ nextId <= MaxIds
  /\ \/ who = "api" /\ LoopIdle
     \/ who = "sim" /\ simRunning /\ handoff = {}
  /\ lock' = who
  /\ pc' = "place"
  /\ cur' = r
  /\ status' = [status EXCEPT ![r] = "pending"]
  /\ UNCHANGED <<now, step, tmp, queueVars, alloc, colo, jobVars, active,
                 completed, launchVars, loopVars, torn>>

\* AdmissionRejectedError (or a ValidationError): nothing changes.
Refuse ==
  /\ pc = "place" /\ ~Admissible(cur)
  /\ Return("REJECTED")
  /\ UNCHANGED <<now, step, tmp, drainNow, queue, alloc, colo, jobVars, active,
                 completed, launchVars, loopVars, torn>>

\* aco_schedule returns node n.
Place(n) ==
  /\ pc = "place" /\ Admissible(cur)
  /\ n \in Feasible(cur)
  /\ job' = [job EXCEPT ![nextId] = cur]
  /\ at' = [at EXCEPT ![nextId] = n]
  /\ pc' = "alloc"
  /\ step' = 1
  /\ UNCHANGED <<now, lock, cur, tmp, queueVars, status, alloc, colo, nextId,
                 active, completed, launchVars, loopVars, torn>>

\* SchedulingFailedError for a job that could never fit, or with a full queue.
RejectUnplaceable ==
  /\ pc = "place" /\ Admissible(cur)
  /\ Feasible(cur) = {}
  /\ ~CouldEverFit(cur) \/ Len(queue) >= QueueMax
  /\ Return("REJECTED")
  /\ UNCHANGED <<now, step, tmp, drainNow, queue, alloc, colo, jobVars, active,
                 completed, launchVars, loopVars, torn>>

\* (Bug: appendleft for append.)
EnqueueAtFront ==
  /\ pc = "place" /\ Admissible(cur)
  /\ lock # "drain"
  /\ Feasible(cur) = {} /\ CouldEverFit(cur) /\ Len(queue) < QueueMax
  /\ queue' = <<[req |-> cur, at |-> now]>> \o queue
  /\ Return("QUEUED")
  /\ UNCHANGED <<now, step, tmp, drainNow, alloc, colo, jobVars, active,
                 completed, launchVars, loopVars, torn>>

\* SchedulingFailedError for a job that could fit: it is queued for retry.
Enqueue ==
  /\ pc = "place" /\ Admissible(cur)
  /\ lock # "drain"
  /\ Feasible(cur) = {} /\ CouldEverFit(cur) /\ Len(queue) < QueueMax
  /\ queue' = KeepLast(Append(queue, [req |-> cur, at |-> now]))
  /\ Return("QUEUED")
  /\ UNCHANGED <<now, step, tmp, drainNow, alloc, colo, jobVars, active,
                 completed, launchVars, loopVars, torn>>

\* (Bug: the entries behind the failed one are not put back.)
RequeueOne ==
  /\ pc = "place" /\ Admissible(cur)
  /\ lock = "drain"
  /\ Feasible(cur) = {} /\ CouldEverFit(cur) /\ Len(queue) < QueueMax
  /\ queue' = <<[req |-> cur, at |-> now], Head(batch)>>
  /\ status' = [status EXCEPT ![cur] = "QUEUED"]
  /\ batch' = <<>>
  /\ cur' = None /\ pc' = "idle" /\ lock' = "free"
  /\ UNCHANGED <<now, step, tmp, drainNow, alloc, colo, jobVars, active,
                 completed, launchVars, loopVars, torn>>

\* (Bug: the drain goes on, and retries the entry for as long as it fails.)
RequeueRetrying ==
  /\ pc = "place" /\ Admissible(cur)
  /\ lock = "drain"
  /\ Feasible(cur) = {} /\ CouldEverFit(cur) /\ Len(queue) < QueueMax
  /\ batch' = Append(Tail(batch), Head(batch))
  /\ cur' = None /\ pc' = "next"
  /\ UNCHANGED <<now, lock, step, tmp, drainNow, queue, status, alloc, colo,
                 jobVars, active, completed, launchVars, loopVars, torn>>

\* The same outcome inside a drain: submit_job has appended the entry with a
\* new time stamp, and the drain appends it again with the old one, then the
\* entries behind it, and stops.
Requeue ==
  /\ pc = "place" /\ Admissible(cur)
  /\ lock = "drain"
  /\ Feasible(cur) = {} /\ CouldEverFit(cur) /\ Len(queue) < QueueMax
  /\ queue' = KeepLast(Append(queue, [req |-> cur, at |-> now]) \o batch)
  /\ status' = [status EXCEPT ![cur] = "QUEUED"]
  /\ batch' = <<>>
  /\ cur' = None /\ pc' = "idle" /\ lock' = "free"
  /\ UNCHANGED <<now, step, tmp, drainNow, alloc, colo, jobVars, active,
                 completed, launchVars, loopVars, torn>>

\* _allocate_resources, one counter: the read of "+=" ...
AllocRead ==
  /\ pc = "alloc" /\ step \in Res
  /\ IF Demand[cur][step] > 0
     THEN /\ tmp' = alloc[at[nextId]][step]
          /\ pc' = "store"
          /\ UNCHANGED step
     ELSE step' = step + 1 /\ UNCHANGED <<pc, tmp>>
  /\ UNCHANGED <<now, lock, cur, queueVars, status, alloc, colo, jobVars,
                 active, completed, launchVars, loopVars, torn>>

\* ... and its write.
AllocWrite ==
  /\ pc = "store"
  /\ alloc' = [alloc EXCEPT ![at[nextId]][step] = tmp + Demand[cur][step]]
  /\ torn' = (torn \/ alloc[at[nextId]][step] # tmp)
  /\ step' = step + 1
  /\ tmp' = 0
  /\ pc' = "alloc"
  /\ UNCHANGED <<now, lock, cur, queueVars, status, colo, jobVars, active,
                 completed, launchVars, loopVars>>

\* The last line of _allocate_resources: the type enters the colocation map.
Colocate ==
  /\ pc = "alloc" /\ step = NumRes + 1
  /\ colo' = [colo EXCEPT ![at[nextId]][WType[cur]] = @ + 1]
  /\ pc' = "record"
  /\ UNCHANGED <<now, lock, cur, step, tmp, queueVars, status, alloc, jobVars,
                 active, completed, launchVars, loopVars, torn>>

\* The JobExecution enters active_jobs, and SCHEDULED is returned.  The POST
\* handler creates the execute_job task at once; the simulation loop does so
\* when it resumes; the drain's caller only counts the outcomes, and a
\* cancelled simulation task never sees its result.
Record ==
  /\ pc = "record"
  /\ active' = active \cup {nextId}
  /\ executing' = IF lock = "api" THEN executing \cup {nextId} ELSE executing
  /\ handoff' = IF lock = "sim" THEN handoff \cup {nextId} ELSE handoff
  /\ nextId' = nextId + 1
  /\ step' = 0
  /\ Return("SCHEDULED")
  /\ UNCHANGED <<now, tmp, drainNow, queue, alloc, colo, job, at, completed,
                 simRunning, loopVars, torn>>

-----------------------------------------------------------------------------
(* drain_pending_queue, called by the telemetry loop in a worker thread *)

\* The bound on ids is applied here, so that a drain under way never meets it.
DrainBegin ==
  /\ lock = "free"
  /\ queue # <<>>
  /\ nextId + Len(queue) <= MaxIds + 1
  /\ lock' = "drain" /\ pc' = "next"
  /\ batch' = queue /\ queue' = <<>>
  /\ drainNow' = now
  /\ UNCHANGED <<now, cur, step, tmp, status, alloc, colo, jobVars, active,
                 completed, launchVars, loopVars, torn>>

DrainExpire ==
  /\ pc = "next" /\ batch # <<>>
  /\ drainNow - Head(batch).at > TTL
  /\ status' = [status EXCEPT ![Head(batch).req] = "EXPIRED"]
  /\ batch' = Tail(batch)
  /\ UNCHANGED <<now, holderVars, drainNow, queue, alloc, colo, jobVars, active,
                 completed, launchVars, loopVars, torn>>

\* The nested submit_job call; the RLock is re-entered.
DrainRetry ==
  /\ pc = "next" /\ batch # <<>>
  /\ drainNow - Head(batch).at <= TTL
  /\ cur' = Head(batch).req
  /\ pc' = "place"
  /\ UNCHANGED <<now, lock, step, tmp, queueVars, status, alloc, colo, jobVars,
                 active, completed, launchVars, loopVars, torn>>

DrainEnd ==
  /\ pc = "next" /\ batch = <<>>
  /\ lock' = "free" /\ pc' = "idle"
  /\ UNCHANGED <<now, cur, step, tmp, queueVars, status, alloc, colo, jobVars,
                 active, completed, launchVars, loopVars, torn>>

-----------------------------------------------------------------------------
(* The simulation task, on the event loop *)

SimStart ==
  /\ LoopIdle /\ ~simRunning
  /\ simRunning' = TRUE
  /\ UNCHANGED <<now, holderVars, queueVars, status, alloc, colo, jobVars,
                 active, completed, executing, handoff, loopVars, torn>>

\* The task is cancelled, also while it awaits a submission: the thread runs
\* on, but what it returns reaches nobody.
SimStop ==
  /\ LoopIdle /\ simRunning
  /\ simRunning' = FALSE
  /\ handoff' = {}
  /\ lock' = IF lock = "sim" THEN "orphan" ELSE lock
  /\ UNCHANGED <<now, pc, cur, step, tmp, queueVars, status, alloc, colo,
                 jobVars, active, completed, executing, loopVars, torn>>

SimLaunch(k) ==
  /\ LoopIdle
  /\ k \in handoff \cap active
  /\ handoff' = handoff \ {k}
  /\ executing' = executing \cup {k}
  /\ UNCHANGED <<now, holderVars, queueVars, status, alloc, colo, jobVars,
                 active, completed, simRunning, loopVars, torn>>

-----------------------------------------------------------------------------
(* complete_job, called by execute_job on the event loop, without the lock *)

CompleteBegin(k) ==
  /\ LoopIdle
  /\ k \in executing \cap active
  /\ executing' = executing \ {k}
  /\ cpc' = "release" /\ cid' = k /\ cstep' = 1
  /\ UNCHANGED <<now, holderVars, queueVars, status, alloc, colo, jobVars,
                 active, completed, handoff, simRunning, ctmp, torn>>

\* _release_resources, one counter: max(0, counter - amount) reads it ...
ReleaseRead ==
  /\ cpc = "release" /\ cstep \in Res
  /\ IF Demand[job[cid]][cstep] > 0
     THEN /\ ctmp' = alloc[at[cid]][cstep]
          /\ cpc' = "store"
          /\ UNCHANGED cstep
     ELSE cstep' = cstep + 1 /\ UNCHANGED <<cpc, ctmp>>
  /\ UNCHANGED <<now, holderVars, queueVars, status, alloc, colo, jobVars,
                 active, completed, launchVars, cid, torn>>

\* (Bug: no clamp.)
ReleaseWriteUnclamped ==
  /\ cpc = "store"
  /\ alloc' = [alloc EXCEPT ![at[cid]][cstep] = ctmp - Demand[job[cid]][cstep]]
  /\ torn' = (torn \/ alloc[at[cid]][cstep] # ctmp)
  /\ cstep' = cstep + 1
  /\ ctmp' = 0
  /\ cpc' = "release"
  /\ UNCHANGED <<now, holderVars, queueVars, status, colo, jobVars, active,
                 completed, launchVars, cid>>

\* (Bug: the counter is reset.)
ReleaseWriteAll ==
  /\ cpc = "store"
  /\ alloc' = [alloc EXCEPT ![at[cid]][cstep] = 0]
  /\ torn' = (torn \/ alloc[at[cid]][cstep] # ctmp)
  /\ cstep' = cstep + 1
  /\ ctmp' = 0
  /\ cpc' = "release"
  /\ UNCHANGED <<now, holderVars, queueVars, status, colo, jobVars, active,
                 completed, launchVars, cid>>

\* ... and the assignment writes it.
ReleaseWrite ==
  /\ cpc = "store"
  /\ LET left == ctmp - Demand[job[cid]][cstep]
     IN  alloc' = [alloc EXCEPT ![at[cid]][cstep] = IF left > 0 THEN left ELSE 0]
  /\ torn' = (torn \/ alloc[at[cid]][cstep] # ctmp)
  /\ cstep' = cstep + 1
  /\ ctmp' = 0
  /\ cpc' = "release"
  /\ UNCHANGED <<now, holderVars, queueVars, status, colo, jobVars, active,
                 completed, launchVars, cid>>

\* The last lines of _release_resources: one occurrence of the type leaves the
\* list of the node ...
Unmap ==
  /\ cpc = "release" /\ cstep = NumRes + 1
  /\ LET n == at[cid]
         w == WType[job[cid]]
     IN  colo' = [colo EXCEPT ![n][w] = IF @ > 0 THEN @ - 1 ELSE @]
  /\ cpc' = "drop"
  /\ UNCHANGED <<now, holderVars, queueVars, status, alloc, jobVars, active,
                 completed, launchVars, cid, cstep, ctmp, torn>>

\* (Bug: the list is taken for empty when the type is gone from it.)
EmptiedOfType(n) == colo[n][WType[job[cid]]] = 0

\* "if not wt_list": whatever was appended since the removal counts.
Emptied(n) == \A w \in WTypes : colo[n][w] = 0

\* ... and an empty list leaves the map, with all that is in it.
DropEmpty ==
  /\ cpc = "drop"
  /\ LET n == at[cid]
     IN  colo' = IF Emptied(n) THEN [colo EXCEPT ![n] = [w \in WTypes |-> 0]] ELSE colo
  /\ cpc' = "retire"
  /\ UNCHANGED <<now, holderVars, queueVars, status, alloc, jobVars, active,
                 completed, launchVars, cid, cstep, ctmp, torn>>

\* (Bug: the job stays in active_jobs.)
RetireActive ==
  /\ cpc = "retire"
  /\ cpc' = "idle" /\ cid' = 0 /\ cstep' = 0
  /\ UNCHANGED <<now, holderVars, queueVars, status, alloc, colo, jobVars,
                 active, completed, launchVars, ctmp, torn>>

\* After the update of the workload profile the record moves from active_jobs
\* to completed_jobs (no call comes between the two).
Retire ==
  /\ cpc = "retire"
  /\ active' = active \ {cid}
  /\ completed' = completed \cup {cid}
  /\ cpc' = "idle" /\ cid' = 0 /\ cstep' = 0
  /\ UNCHANGED <<now, holderVars, queueVars, status, alloc, colo, jobVars,
                 launchVars, ctmp, torn>>

Tick ==
  /\ now < MaxNow
  /\ now' = now + 1
  /\ UNCHANGED <<holderVars, queueVars, status, alloc, colo, jobVars, active,
                 completed, launchVars, loopVars, torn>>

-----------------------------------------------------------------------------
Submission == \/ Refuse \/ RejectUnplaceable \/ Enqueue \/ Requeue
              \/ \E n \in Nodes : Place(n)
              \/ AllocRead \/ AllocWrite \/ Colocate \/ Record

Drain == DrainExpire \/ DrainRetry \/ DrainEnd

Completion == ReleaseRead \/ ReleaseWrite \/ Unmap \/ DropEmpty \/ Retire

Next ==
  \/ \E r \in Requests : SubmitBegin("api", r) \/ SubmitBegin("sim", r)
  \/ Submission
  \/ DrainBegin
  \/ Drain
  \/ SimStart \/ SimStop
  \/ \E k \in Ids : SimLaunch(k)
  \/ \E k \in Ids : CompleteBegin(k)
  \/ Completion
  \/ Tick

Spec == Init /\ [][Next]_vars

\* Every runnable thread is eventually run (the interpreter switches threads,
\* the event loop runs every ready callback): code once entered goes on, sleeps
\* end, the telemetry loop keeps draining.  Clients and the simulation owe
\* nothing.
Fairness ==
  /\ WF_vars(Submission)
  /\ WF_vars(Drain)
  /\ WF_vars(Completion)
  /\ SF_vars(DrainBegin)
  /\ \A k \in Ids : SF_vars(CompleteBegin(k))

FairSpec == Spec /\ Fairness
-----------------------------------------------------------------------------
(* What the service must guarantee *)

InQueue(r) == \E k \in DOMAIN queue : queue[k].req = r
InBatch(r) == \E k \in DOMAIN batch : batch[k].req = r

\* Execution k's share of counter alloc[n][i]: its amount has been added and
\* not yet subtracted.
Held(k, n, i) ==
  /\ at[k] = n
  /\ \/ k \in active /\ ~(k = cid /\ i < cstep)
     \/ k = nextId /\ pc \in {"alloc", "store", "record"} /\ i < step

Amount(k, n, i) == IF Held(k, n, i) THEN Demand[job[k]][i] ELSE 0

Share(n, i) == [k \in Ids |-> Amount(k, n, i)]

\* Jobs placed on n that have not been handed to complete_job.
RunningShare(n, i) ==
  [k \in Ids |-> IF k \in active \ {cid} /\ at[k] = n THEN Demand[job[k]][i] ELSE 0]

\* As long as no counter write was based on a stale read, every reservation
\* counter is exactly the sum of what the jobs on that node hold, at every
\* instant, also half way through an allocation or a release.  (A release
\* that ran twice, or for another node, or an allocation that was skipped,
\* would break it; the clamp at zero in _release_resources never acts.)
AccountingExact ==
  ~torn => \A n \in Nodes, i \in Res : alloc[n][i] = Total(Share(n, i), MaxIds)

\* Under the same condition the jobs running on a node never need more of a
\* resource than it has: the check in can_fit and the later "+=" are not
\* atomic together, yet a release in between cannot make the placement wrong.
NoOvercommit ==
  ~torn => \A n \in Nodes, i \in Res : Total(RunningShare(n, i), MaxIds) <= Capacity[n][i]

\* Execution k has an entry in the colocation map: it is active and complete_job
\* has not taken its type out, or submit_job has put it in and is about to
\* enter the job in active_jobs.
Mapped(k) ==
  \/ k \in active /\ ~(k = cid /\ cpc \in {"drop", "retire"})
  \/ k = nextId /\ pc = "record"

\* The colocation map lists each mapped execution once, torn counters or not: an
\* append of a worker thread and the removal, test and del on the event loop,
\* in any order, lose no entry and leave none behind.  What a decision reads
\* there is then wrong by no more than the job that is just being completed.
ColocationExact ==
  \A n \in Nodes, w \in WTypes :
     colo[n][w] = Cardinality({k \in Ids : Mapped(k) /\ at[k] = n /\ WType[job[k]] = w})

\* A request last reported QUEUED is still waiting: clearing the deque, the
\* double append of a failed retry and the dropping of the leftmost entry at
\* maxlen together never lose a request.
NoQueuedRequestLost ==
  \A r \in Requests : status[r] = "QUEUED" => InQueue(r) \/ InBatch(r)

Oldest(r) ==
  LET stamps == {queue[k].at : k \in {m \in DOMAIN queue : queue[m].req = r}}
  IN  CHOOSE t \in stamps : \A u \in stamps : t <= u

\* The queue stays first come, first served across failed drains: a request
\* standing before an entry has been waiting at least as long as it.
QueueIsFair ==
  \A k \in DOMAIN queue : \A j \in 1..k : Oldest(queue[j].req) <= queue[k].at

\* A job in active_jobs that somebody is still going to complete.
Attended == executing \cup handoff \cup {cid}

\* A job gets into active_jobs, or stays there, with nobody to complete it, only
\* through a drain or through the cancellation of the simulation task.
LeaksOnlyByDrainOrCancel ==
  [][(active' \ Attended') \subseteq (active \ Attended)
       \/ lock \in {"drain", "orphan"} \/ (simRunning /\ ~simRunning')]_vars

\* A job whose NodeAgent coroutine exists is completed in the end.
ExecutedJobsFinish == \A k \in Ids : (k \in executing) ~> (k \in completed)

\* submit_job and the drain always give the lock back: no request is stuck
\* behind them (the drain is a loop over a queue it appends to itself).
LockIsReleased == [](lock # "free" => <>(lock = "free"))

-----------------------------------------------------------------------------
(* What the repository says of itself, and does not hold *)

\* "The job is executed asynchronously by the assigned NodeAgent in the
\* background": a job the drain has found a node for is completed in the end.
DrainedJobsFinish ==
  \A k \in Ids : (lock = "drain" /\ pc = "alloc" /\ k = nextId) ~> (k \in completed)
=============================================================================
