----------------------------- MODULE ServiceLife -----------------------------
(***************************************************************************)
(* The life of the API process around what it learns: the cross-call       *)
(* pheromone of the nodes, updated by every placement, written to a file   *)
(* when the process shuts down and read when it starts.                    *)
(*                                                                         *)
(* Placements run in worker threads (asyncio.to_thread) on behalf of POST  *)
(* /jobs, of the simulation loop and of the drain in the telemetry loop.   *)
(* Cancelling a loop ends the task that waits for its thread, not the      *)
(* thread: that goes on as an orphan, beside a shutdown that saves the     *)
(* vector without the service's lock.                                      *)
(*                                                                         *)
(* Levels are in hundredths, rounded down: 0.01 is 1, TAU_INITIAL 100.     *)
(***************************************************************************)
EXTENDS Integers, FiniteSets

CONSTANTS
  N,             \* nodes are 1..N, in the order of the dict
  Floor, Ceiling, Initial, Deposit,  \* 0.01, 10.0, TAU_INITIAL, _PHEROMONE_Q
  NaN,           \* a number that is none
  Text, Null,    \* JSON values float() refuses: ValueError, TypeError
  Files,         \* files that may lie at the path before the first start
  Sims,          \* bound: tasks of the simulation loop
  MaxUpdates,    \* bound: placements
  MaxStarts      \* bound: starts of the process

ASSUME LifeAssumption ==
  /\ N \in Nat \ {0} /\ Floor \in Nat \ {0} /\ Initial \in Floor..Ceiling
  /\ Ceiling \in Nat /\ Deposit \in Nat /\ Floor <= Ceiling
  /\ {NaN, Text, Null} \cap Int = {} /\ NaN \notin {Text, Null}
  /\ \A f \in Files : f.kind = "vector" =>
       \A n \in DOMAIN f.val : f.val[n] \in Int \cup {NaN, Text, Null}
  /\ Sims \in Nat

Nodes   == 1..N
Levels  == Int \cup {NaN}
SimIds  == 1..Sims
Workers == {<<"sim", t>> : t \in SimIds} \cup {<<"drain">>, <<"post">>}

VARIABLES
  phase,     \* "down", "failed", "up", or the step the shutdown has reached
  pher,      \* _node_pheromone
  file,      \* what lies at the path: [kind, val]
  dumped,    \* values written to the temporary file so far
  simOn,     \* _sim_running
  simTask,   \* _sim_task: the last task created, 0 for none
  sim,       \* every simulation task: "none", "live", "cancelled", "done"
  telemetry, \* the telemetry task: "none", "live", "cancelled", "done"
  beating,   \* nodes whose agent's heartbeat task runs
  at,        \* every worker: "idle", waiting for the "lock", or in its "update"
  pos,       \* the node the update of the lock's holder has reached
  chosen,    \* the node it places on
  stopping,  \* tasks that calls of stop_simulation, or the shutdown, wait for
  updates, starts, \* counters of the bounds
  \* history
  known,     \* since the start: "loaded", "touched" by an update, "placed" a job
  save,      \* the save in progress: the vector it began with, and whether
             \* an orphan was at work meanwhile
  kept       \* the same of the save that wrote the file, or NotOurs

vars == <<phase, pher, file, dumped, simOn, simTask, sim, telemetry, beating, at,
          pos, chosen, stopping, updates, starts, known, save, kept>>
simVars  == <<simOn, simTask, sim, stopping>>
taskVars == <<simVars, telemetry, beating>>
workVars == <<at, pos, chosen, updates>>
fileVars == <<file, dumped, save, kept>>

Stages == {"stopSim", "stopTelemetry", "stopAgents", "saving", "saved"}

TypeOK ==
  /\ phase \in {"down", "failed", "up"} \cup Stages
  /\ pher \in [Nodes -> Levels]
  /\ simOn \in BOOLEAN /\ simTask \in 0..Sims /\ stopping \subseteq SimIds
  /\ sim \in [SimIds -> {"none", "live", "cancelled", "done"}]
  /\ telemetry \in {"none", "live", "cancelled", "done"} /\ beating \subseteq Nodes
  /\ at \in [Workers -> {"idle", "lock", "update"}] /\ pos \in 1..(N + 1)
  /\ chosen \in Nodes
  /\ known \in {"loaded", "touched", "placed"} /\ save.torn \in BOOLEAN

NotOurs == [from |-> <<>>, torn |-> TRUE]
Fresh == [n \in Nodes |-> Initial]
Idle  == [w \in Workers |-> "idle"]

Init ==
  /\ phase = "down" /\ pher = Fresh
  /\ file \in Files /\ dumped = <<>>
  /\ simOn = FALSE /\ simTask = 0 /\ stopping = {}
  /\ sim = [t \in SimIds |-> "none"] /\ telemetry = "none" /\ beating = {}
  /\ at = Idle /\ pos = 1 /\ chosen = 1
  /\ updates = 0 /\ starts = 0
  /\ known = "loaded" /\ save = NotOurs /\ kept = NotOurs

-----------------------------------------------------------------------------
(* Starting *)

Number(v) == v # Text /\ v # Null

\* load_pheromone_snapshot's loop ends at the first value float() refuses.
Restored(f) ==
  IF f.kind # "vector" THEN {}
  ELSE {n \in DOMAIN f.val \cap Nodes :
          \A m \in DOMAIN f.val \cap 1..n : Number(f.val[m])}

\* (Bug: the last node is not read.)
LoadedBefore(f) ==
  [n \in Nodes |-> IF n \in Restored(f) /\ n < N THEN f.val[n] ELSE Initial]

Loaded(f) == [n \in Nodes |-> IF n \in Restored(f) THEN f.val[n] ELSE Initial]

\* OSError, ValueError and KeyError are caught; null and a list raise others.
Refuses(f) ==
  \/ f.kind = "list"
  \/ /\ f.kind = "vector"
     /\ \E n \in DOMAIN f.val \cap Nodes :
          f.val[n] = Null /\ \A m \in DOMAIN f.val \cap 1..(n - 1) : Number(f.val[m])

\* The service is constructed; lifespan, up to its yield, which nothing else
\* runs beside: the agents' start() suspends nowhere.
Start ==
  /\ phase \in {"down", "failed"} /\ starts < MaxStarts
  /\ starts' = starts + 1
  /\ pher' = Loaded(file) /\ known' = "loaded"
  /\ IF Refuses(file)
     THEN phase' = "failed" /\ UNCHANGED <<telemetry, beating>>
     ELSE phase' = "up" /\ telemetry' = "live" /\ beating' = Nodes
  /\ UNCHANGED <<fileVars, simVars, workVars>>

\* The process is gone and its memory with it; the file stays.
Vanish ==
  /\ phase' = "down" /\ pher' = Fresh /\ known' = "loaded"
  /\ telemetry' = "none" /\ beating' = {}
  /\ at' = Idle /\ pos' = 1 /\ chosen' = 1
  /\ simOn' = FALSE /\ simTask' = 0 /\ sim' = [t \in SimIds |-> "none"] /\ stopping' = {}
  /\ dumped' = <<>> /\ save' = NotOurs
  /\ UNCHANGED <<file, kept, updates, starts>>

\* A kill at any moment.
Crash == phase \notin {"down", "failed"} /\ Vanish

-----------------------------------------------------------------------------
(* Placements *)

\* Who waits for the worker; an orphan has nobody.
Awaited(w) ==
  CASE w[1] = "sim"   -> sim[w[2]] = "live"
    [] w[1] = "drain" -> telemetry = "live"
    [] OTHER          -> TRUE
Holder == {w \in Workers : at[w] = "update"}

\* A call of submit_job or drain_pending_queue is handed to a thread: by the
\* simulation's loop while its flag is set, by the telemetry loop, and by a
\* request, which the server accepts only while it is up.
Call(w) ==
  /\ at[w] = "idle" /\ updates < MaxUpdates
  /\ \/ w[1] = "sim" /\ sim[w[2]] = "live" /\ simOn
     \/ w[1] = "drain" /\ telemetry = "live"
     \/ w[1] = "post" /\ phase = "up"
  /\ at' = [at EXCEPT ![w] = "lock"]
  /\ updates' = updates + 1
  /\ UNCHANGED <<phase, pher, fileVars, taskVars, pos, chosen, starts, known>>

\* The lock is taken and aco_schedule has chosen a node.
Choose(w) ==
  /\ at[w] = "lock" /\ Holder = {}
  /\ chosen' \in Nodes /\ pos' = 1
  /\ at' = [at EXCEPT ![w] = "update"]
  /\ UNCHANGED <<phase, pher, fileVars, taskVars, updates, starts, known>>

\* Or has placed nothing: the vector is left alone.
ChooseNone(w) ==
  /\ at[w] = "lock" /\ Holder = {}
  /\ at' = [at EXCEPT ![w] = "idle"]
  /\ UNCHANGED <<phase, pher, fileVars, taskVars, pos, chosen, updates, starts, known>>

\* max(0.01, min(10.0, v * 0.9)), where min(10.0, nan) is 10.0.
Evaporated(v) ==
  LET d == (v * 9) \div 10
  IN  IF v = NaN \/ d > Ceiling THEN Ceiling ELSE IF d < Floor THEN Floor ELSE d

\* (Bug: a deposit has no ceiling.)
DepositedUncapped(v) == v + Deposit

Deposited(v) == IF v + Deposit > Ceiling THEN Ceiling ELSE v + Deposit

\* An orphan that moves while the shutdown dumps the vector.
Tears(w) == phase = "saving" /\ ~Awaited(w)

\* One turn of the loop over the vector; the last adds the deposit.
Update(w) ==
  /\ w \in Holder
  /\ IF pos <= N
     THEN /\ pher' = [pher EXCEPT ![pos] = Evaporated(@)]
          /\ pos' = pos + 1 /\ UNCHANGED at
     ELSE /\ pher' = [pher EXCEPT ![chosen] = Deposited(@)]
          /\ at' = [at EXCEPT ![w] = "idle"] /\ pos' = 1
  /\ known' = IF known = "loaded" THEN "touched"
               ELSE IF at'[w] = "idle" THEN "placed" ELSE known
  /\ save' = [save EXCEPT !.torn = @ \/ Tears(w)]
  /\ UNCHANGED <<phase, file, dumped, kept, taskVars, chosen, updates, starts>>

-----------------------------------------------------------------------------
(* The simulation *)

\* (Bug: the flag is not looked at.)
StartSimulationAgain ==
  /\ phase = "up" /\ simTask < Sims
  /\ simOn' = TRUE /\ simTask' = simTask + 1
  /\ sim' = [sim EXCEPT ![simTask + 1] = "live"]
  /\ UNCHANGED <<phase, pher, fileVars, telemetry, beating, workVars, stopping, starts, known>>

\* start_simulation; also while stops wait for the task before.
StartSimulation ==
  /\ phase = "up" /\ ~simOn /\ simTask < Sims
  /\ simOn' = TRUE /\ simTask' = simTask + 1
  /\ sim' = [sim EXCEPT ![simTask + 1] = "live"]
  /\ UNCHANGED <<phase, pher, fileVars, telemetry, beating, workVars, stopping, starts, known>>

\* stop_simulation and the first lines of the shutdown: the flag is cleared
\* and the task, if it is not done, cancelled and awaited.
CancelSim ==
  /\ simOn' = FALSE
  /\ IF simTask # 0 /\ sim[simTask] # "done"
     THEN sim' = [sim EXCEPT ![simTask] = "cancelled"] /\ stopping' = stopping \cup {simTask}
     ELSE UNCHANGED <<sim, stopping>>
  /\ UNCHANGED simTask

\* Stops overlap each other, and starts between them.
StopSimulation ==
  /\ phase = "up"
  /\ CancelSim
  /\ UNCHANGED <<phase, pher, fileVars, telemetry, beating, workVars, starts, known>>

\* The stops that wait for task t return.
StopReturns(t) ==
  /\ phase = "up" /\ t \in stopping /\ sim[t] = "done"
  /\ stopping' = stopping \ {t}
  /\ UNCHANGED <<phase, pher, fileVars, simOn, simTask, sim, telemetry, beating,
                 workVars, starts, known>>

\* The CancelledError reaches the task at the await it is in.
SimEnds(t) ==
  /\ sim[t] = "cancelled"
  /\ sim' = [sim EXCEPT ![t] = "done"]
  /\ UNCHANGED <<phase, pher, fileVars, simOn, simTask, stopping, telemetry, beating,
                 workVars, starts, known>>

\* It is cancelled, or a tick has raised (module Telemetry).
TelemetryEnds ==
  /\ telemetry = "cancelled"
  /\ telemetry' = "done"
  /\ UNCHANGED <<phase, pher, fileVars, simVars, beating, workVars, starts, known>>

TelemetryFails ==
  /\ telemetry = "live" /\ at[<<"drain">>] = "idle"
  /\ telemetry' = "done"
  /\ UNCHANGED <<phase, pher, fileVars, simVars, beating, workVars, starts, known>>

-----------------------------------------------------------------------------
(* The shutdown: the rest of lifespan, one action up to each await *)

\* The server has answered the last request.
Shutdown ==
  /\ phase = "up" /\ at[<<"post">>] = "idle" /\ stopping = {}
  /\ phase' = "stopSim"
  /\ CancelSim
  /\ UNCHANGED <<pher, fileVars, telemetry, beating, workVars, starts, known>>

\* (Bug: the telemetry task is awaited and not cancelled.)
StopTelemetryWaiting ==
  /\ phase = "stopSim" /\ \A t \in stopping : sim[t] = "done"
  /\ phase' = "stopTelemetry"
  /\ UNCHANGED <<pher, fileVars, simVars, telemetry, beating, workVars, starts, known>>

StopTelemetry ==
  /\ phase = "stopSim" /\ \A t \in stopping : sim[t] = "done"
  /\ phase' = "stopTelemetry"
  /\ telemetry' = IF telemetry = "live" THEN "cancelled" ELSE telemetry
  /\ UNCHANGED <<pher, fileVars, simVars, beating, workVars, starts, known>>

AwaitTelemetry ==
  /\ phase = "stopTelemetry" /\ telemetry = "done"
  /\ phase' = "stopAgents"
  /\ UNCHANGED <<pher, fileVars, taskVars, workVars, starts, known>>

\* agent.stop(), in turn; the heartbeats of the others go on meanwhile.
StopAgent(n) ==
  /\ phase = "stopAgents" /\ n \in beating /\ \A m \in beating : n <= m
  /\ beating' = beating \ {n}
  /\ UNCHANGED <<phase, pher, fileVars, simVars, telemetry, workVars, starts, known>>

\* save_pheromone_snapshot: no lock, and json.dump walks the live dict.
SaveBegin ==
  /\ phase = "stopAgents" /\ beating = {}
  /\ phase' = "saving" /\ dumped' = <<>>
  /\ save' = [from |-> pher, torn |-> \E w \in Holder : ~Awaited(w)]
  /\ UNCHANGED <<pher, file, kept, taskVars, workVars, starts, known>>

\* (Bug: the file itself is written, not a temporary one.)
DumpInPlace ==
  /\ phase = "saving" /\ Cardinality(DOMAIN dumped) < N
  /\ LET n == Cardinality(DOMAIN dumped) + 1
     IN  dumped' = [m \in 1..n |-> IF m = n THEN pher[n] ELSE dumped[m]]
  /\ file' = [kind |-> "vector", val |-> dumped']
  /\ kept' = save
  /\ UNCHANGED <<phase, pher, save, taskVars, workVars, starts, known>>

Dump ==
  /\ phase = "saving" /\ Cardinality(DOMAIN dumped) < N
  /\ LET n == Cardinality(DOMAIN dumped) + 1
     IN  dumped' = [m \in 1..n |-> IF m = n THEN pher[n] ELSE dumped[m]]
  /\ UNCHANGED <<phase, pher, file, save, kept, taskVars, workVars, starts, known>>

\* os.replace
Replace ==
  /\ phase = "saving" /\ Cardinality(DOMAIN dumped) = N
  /\ file' = [kind |-> "vector", val |-> dumped]
  /\ kept' = save
  /\ phase' = "saved"
  /\ UNCHANGED <<pher, dumped, save, taskVars, workVars, starts, known>>

\* An OSError is logged, and the old file stays.
SaveFails ==
  /\ phase = "saving"
  /\ phase' = "saved"
  /\ UNCHANGED <<pher, fileVars, taskVars, workVars, starts, known>>

\* The interpreter waits for the threads.
Exit ==
  /\ phase = "saved" /\ at = Idle
  /\ Vanish

-----------------------------------------------------------------------------
Work == \E w \in Workers : Choose(w) \/ ChooseNone(w) \/ Update(w)
Down == StopTelemetry \/ AwaitTelemetry \/ (\E n \in Nodes : StopAgent(n))
          \/ SaveBegin \/ Dump \/ Replace \/ SaveFails \/ Exit
Ends == TelemetryEnds \/ \E t \in SimIds : SimEnds(t)

Next ==
  \/ Start \/ Crash \/ Shutdown \/ Work \/ Down \/ Ends
  \/ TelemetryFails \/ StartSimulation \/ StopSimulation
  \/ \E t \in SimIds : StopReturns(t)
  \/ \E w \in Workers : Call(w)

\* Threads run, and the event loop gives every task its turn.
Spec == Init /\ [][Next]_vars /\ WF_vars(Work) /\ WF_vars(Down) /\ WF_vars(Ends)
-----------------------------------------------------------------------------
(* What the life of the process guarantees *)

\* Whatever the snapshot held -- levels out of range, negative, NaN, since the
\* load clamps nothing -- the first placement brings every node's level back
\* between TAU_MIN and TAU_MAX, and none ever leaves it again.
PlacementsBound ==
  known = "placed" => \A n \in Nodes : pher[n] # NaN /\ pher[n] \in Floor..Ceiling

\* After a restart the service knows what it knew when the last completed save
\* began, through crashes in and after that save, failed saves and starts that
\* placed nothing -- unless an orphaned thread was at work during the save,
\* which can mix two moments.
KnowledgeSurvives ==
  phase = "up" /\ known = "loaded" /\ ~kept.torn => pher = kept.from

\* A file the service wrote, even one an orphan tore, always loads completely.
OwnFileLoads ==
  kept # NotOurs => ~Refuses(file) /\ Restored(file) = Nodes

\* Only orphans are left when the snapshot is written: no simulation task, no
\* telemetry task and no heartbeat.
SavesLast ==
  phase \in {"saving", "saved"} =>
    /\ \A t \in SimIds : sim[t] \in {"none", "done"}
    /\ telemetry = "done" /\ beating = {}

\* However starts and stops of the simulation overlap, at most one task submits
\* jobs, it is the one _sim_task names, and the flag tells whether there is one.
OneSimulation ==
  phase = "up" =>
    /\ \A t \in SimIds : sim[t] = "live" => t = simTask
    /\ simOn <=> simTask # 0 /\ sim[simTask] = "live"

\* A shutdown ends, also with orphans that still wait for the lock.
ShutdownEnds == phase \in Stages ~> phase = "down"
=============================================================================
