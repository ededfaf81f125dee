-------------------------- MODULE ServiceLifeProofs --------------------------
(***************************************************************************)
(* The API process, for any number of nodes: its life (ServiceLife) and its*)
(* telemetry loop (Telemetry).                                             *)
(*                                                                         *)
(* Life.  For any number of simulation tasks and any file at the path:     *)
(* what was saved is found again, the first placement repairs what was     *)
(* read, and starts and stops of the simulation leave one task at most.    *)
(* From the first line of the save on, every task that could still hand    *)
(* work to a thread has ended (Tasks), so a vector that changes under the  *)
(* save is changed by an orphan, which the history variable save.torn      *)
(* records.                                                                *)
(*                                                                         *)
(* Loop.  A node's own baseline is never lost to a spike, and the fit of a *)
(* predictor lags at most one refit interval.  The second rests on where   *)
(* the node stood at the last refit (FitAtRefit).                          *)
(***************************************************************************)
EXTENDS ServiceLife, Telemetry, FiniteSetTheorems, TLAPS

-----------------------------------------------------------------------------
(* The inductive invariant *)

\* Who may run in which phase.
Tasks ==
  /\ phase \in {"down", "failed"} =>
       /\ at = Idle /\ telemetry = "none"
       /\ simTask = 0 /\ stopping = {} /\ \A t \in SimIds : sim[t] = "none"
  /\ \A t \in SimIds :
       /\ t > simTask => sim[t] = "none"
       /\ sim[t] = "live" => t = simTask /\ phase = "up"
       /\ sim[t] = "cancelled" => t \in stopping /\ phase \in {"up", "stopSim"}
  /\ simOn <=> simTask # 0 /\ sim[simTask] = "live"
  /\ phase \in Stages => at[<<"post">>] = "idle"
  /\ phase \in {"stopAgents", "saving", "saved"} => telemetry = "done"
  /\ phase \in {"saving", "saved"} => beating = {}

InBounds(v) == v # NaN /\ v \in Floor..Ceiling

\* How far the holder of the lock has come in repairing the vector.
Learning ==
  /\ \A v, w \in Holder : v = w
  /\ Holder # {} /\ known = "loaded" => pos = 1
  /\ known = "touched" => Holder # {} /\ \A n \in Nodes : n < pos => InBounds(pher[n])
  /\ known = "placed" => \A n \in Nodes : InBounds(pher[n])
  /\ phase = "up" /\ known = "loaded" => pher = Loaded(file)

\* What the save has written, and what the file holds.
Written ==
  /\ phase = "saving" =>
       \E m \in 0..N :
         /\ dumped \in [1..m -> Levels]
         /\ ~save.torn => pher = save.from /\ \A n \in 1..m : dumped[n] = pher[n]
  /\ save = [from |-> save.from, torn |-> save.torn]
  /\ file.kind = "vector" => \A n \in DOMAIN file.val : file.val[n] \in Levels \cup {Text, Null}
  /\ kept # NotOurs =>
       /\ file.kind = "vector" /\ file.val \in [Nodes -> Levels]
       /\ ~kept.torn => file.val = kept.from

IInv == TypeOK /\ Tasks /\ Learning /\ Written

-----------------------------------------------------------------------------
(* Facts *)

LEMMA WorkerFacts ==
  /\ <<"post">> \in Workers /\ <<"drain">> \in Workers
  /\ \A w \in Workers : \/ \E t \in SimIds : w = <<"sim", t>>
                        \/ w = <<"drain">> \/ w = <<"post">>
  BY DEF Workers

\* In a save, whoever still works and is not a request is an orphan.
LEMMA OnlyOrphans ==
  ASSUME IInv, phase = "saving", NEW w \in Workers, at[w] # "idle"
  PROVE  ~Awaited(w)
<1>1. w # <<"post">> /\ telemetry = "done" /\ \A t \in SimIds : sim[t] # "live"
  BY DEF IInv, Tasks, Stages
<1>2. CASE w = <<"drain">>
  BY <1>1, <1>2 DEF Awaited
<1>3. CASE \E t \in SimIds : w = <<"sim", t>>
  BY <1>1, <1>3 DEF Awaited
<1>4. QED BY <1>1, <1>2, <1>3, WorkerFacts

LEMMA LoadedLevels ==
  ASSUME file.kind = "vector" => \A n \in DOMAIN file.val : file.val[n] \in Levels \cup {Text, Null}
  PROVE  Loaded(file) \in [Nodes -> Levels]
<1>1. ASSUME NEW n \in Restored(file) PROVE file.val[n] \in Levels
  <2>1. file.kind = "vector" /\ n \in DOMAIN file.val /\ n \in 1..N /\ n \in 1..n
    BY LifeAssumption DEF Restored, Nodes
  <2>2. Number(file.val[n])
    BY <2>1 DEF Restored
  <2>3. QED BY <2>1, <2>2 DEF Number
<1>2. Initial \in Levels
  BY LifeAssumption DEF Levels
<1>3. QED BY <1>1, <1>2 DEF Loaded

LEMMA FreshFacts ==
  /\ Fresh \in [Nodes -> Levels] /\ Idle \in [Workers -> {"idle", "lock", "update"}]
  /\ NotOurs.torn \in BOOLEAN
  /\ [t \in SimIds |-> "none"] \in [SimIds -> {"none", "live", "cancelled", "done"}]
<1>1. Initial \in Levels
  BY LifeAssumption DEF Levels
<1>2. QED BY <1>1 DEF Fresh, Idle, NotOurs

LEMMA LevelFacts ==
  /\ \A v \in Levels : Number(v) /\ (v # NaN => v \in Int)
  /\ NaN \notin Int
  BY LifeAssumption DEF Levels, Number

LEMMA EvaporatedBounds == \A v \in Levels : InBounds(Evaporated(v)) /\ Evaporated(v) \in Levels
<1> SUFFICES ASSUME NEW v \in Levels PROVE InBounds(Evaporated(v)) /\ Evaporated(v) \in Levels
  OBVIOUS
<1>1. Floor \in Nat /\ Ceiling \in Nat /\ Floor <= Ceiling /\ NaN \notin Int
  BY LifeAssumption
<1>2. CASE v = NaN
  BY <1>1, <1>2 DEF Evaporated, InBounds, Levels
<1>3. CASE v # NaN
  <2>1. v \in Int /\ (v * 9) \div 10 \in Int
    BY <1>3, LevelFacts
  <2>2. Evaporated(v) \in Floor..Ceiling
    BY <1>1, <1>3, <2>1 DEF Evaporated
  <2>3. QED BY <1>1, <2>2 DEF InBounds, Levels
<1>4. QED BY <1>2, <1>3

LEMMA DepositedBounds == \A v : InBounds(v) => InBounds(Deposited(v)) /\ Deposited(v) \in Levels
<1>1. Floor \in Nat /\ Ceiling \in Nat /\ Floor <= Ceiling /\ NaN \notin Int /\ Deposit \in Nat
  BY LifeAssumption
<1>2. QED BY <1>1 DEF Deposited, InBounds, Levels

LEMMA SameLearning ==
  ASSUME IInv, UNCHANGED <<at, pos, pher, known, file>>, phase' = "up" => phase = "up"
  PROVE  Learning'
  BY DEF IInv, Learning, Holder, InBounds, Loaded, Restored

LEMMA SameWritten ==
  ASSUME IInv, UNCHANGED <<dumped, pher, file, save, kept>>, phase' = "saving" => phase = "saving"
  PROVE  Written'
  BY DEF IInv, Written

-----------------------------------------------------------------------------
(* Start and end of the process *)

LEMMA InitInv == Init => IInv
<1> SUFFICES ASSUME Init PROVE IInv
  OBVIOUS
<1>1. TypeOK
  <2>1. pher \in [Nodes -> Levels] /\ at \in [Workers -> {"idle", "lock", "update"}]
        /\ save.torn \in BOOLEAN /\ sim \in [SimIds -> {"none", "live", "cancelled", "done"}]
    BY FreshFacts DEF Init
  <2>2. pos \in 1..(N + 1) /\ chosen \in Nodes /\ simTask \in 0..Sims /\ stopping \subseteq SimIds
    BY LifeAssumption DEF Init, Nodes
  <2>3. QED BY <2>1, <2>2 DEF Init, TypeOK
<1>2. Tasks
  BY LifeAssumption DEF Init, Tasks, Stages
<1>3. Learning
  BY DEF Init, Learning, Holder, Idle
<1>4. Written
  BY LifeAssumption DEF Init, Written, NotOurs, Levels
<1>5. QED BY <1>1, <1>2, <1>3, <1>4 DEF IInv

LEMMA StartKeepsInv ==
  ASSUME IInv, Start
  PROVE  IInv'
<1>1. phase \in {"down", "failed"} /\ phase' \in {"up", "failed"} /\ pher' = Loaded(file)
      /\ known' = "loaded" /\ UNCHANGED <<file, dumped, save, kept, simOn, simTask, sim, stopping,
                                          at, pos, chosen>>
  BY DEF Start, fileVars, simVars, workVars
<1>2. Loaded(file) \in [Nodes -> Levels]
  BY LoadedLevels DEF IInv, Written
<1>3. TypeOK'
  BY <1>1, <1>2 DEF Start, IInv, TypeOK
<1>4. at = Idle /\ Holder' = {}
  BY <1>1 DEF IInv, Tasks, Holder, Idle
<1>5. Tasks'
  <2>1. phase' = "failed" => telemetry' = telemetry
    BY DEF Start
  <2>2. QED BY <1>1, <2>1 DEF IInv, Tasks, Stages
<1>6. Learning'
  BY <1>1, <1>4 DEF Learning, Loaded, Restored
<1>7. Written'
  BY <1>1 DEF IInv, Written
<1>8. QED BY <1>3, <1>5, <1>6, <1>7 DEF IInv

LEMMA VanishKeepsInv ==
  ASSUME IInv, Vanish
  PROVE  IInv'
<1>1. TypeOK'
  <2>1. pher' \in [Nodes -> Levels] /\ at' \in [Workers -> {"idle", "lock", "update"}]
        /\ save'.torn \in BOOLEAN /\ sim' \in [SimIds -> {"none", "live", "cancelled", "done"}]
    BY FreshFacts DEF Vanish
  <2>2. pos' \in 1..(N + 1) /\ chosen' \in Nodes /\ simTask' \in 0..Sims /\ stopping' \subseteq SimIds
    BY LifeAssumption DEF Vanish, Nodes
  <2>3. QED BY <2>1, <2>2 DEF Vanish, TypeOK
<1>2. Tasks'
  BY DEF Vanish, Tasks, Stages
<1>3. Learning'
  BY DEF Vanish, Learning, Holder, Idle
<1>4. Written'
  BY DEF Vanish, IInv, Written, NotOurs
<1>5. QED BY <1>1, <1>2, <1>3, <1>4 DEF IInv

-----------------------------------------------------------------------------
(* Placements *)

LEMMA CallKeepsInv ==
  ASSUME IInv, NEW w \in Workers, Call(w)
  PROVE  IInv'
<1>1. /\ at[w] = "idle" /\ at' = [at EXCEPT ![w] = "lock"] /\ at \in [Workers -> {"idle", "lock", "update"}]
      /\ UNCHANGED <<phase, pher, file, dumped, save, kept, simOn, simTask, sim, stopping,
                     telemetry, beating, pos, chosen, known>>
  BY DEF Call, fileVars, taskVars, simVars, IInv, TypeOK
<1>2. TypeOK'
  BY <1>1 DEF IInv, TypeOK
<1>3. phase \notin {"down", "failed"}
  <2>1. ASSUME phase \in {"down", "failed"} PROVE FALSE
    <3>1. (\A t \in SimIds : sim[t] = "none") /\ telemetry = telemetry
      BY <2>1 DEF IInv, Tasks
    <3>2. CASE w = <<"post">>
      BY <2>1, <3>2 DEF Call
    <3>3. CASE \E t \in SimIds : w = <<"sim", t>>
      BY <3>1, <3>3 DEF Call
    <3>4. CASE w = <<"drain">>
      BY <3>4, <2>1 DEF Call, IInv, Tasks
    <3>5. QED BY <3>2, <3>3, <3>4, WorkerFacts
  <2>2. QED BY <2>1
<1>4. phase \in Stages => w # <<"post">>
  BY DEF Call, Stages
<1>5. Tasks'
  BY <1>1, <1>3, <1>4, WorkerFacts DEF IInv, Tasks
<1>6. Holder' = Holder
  BY <1>1 DEF Holder
<1>7. Learning'
  BY <1>1, <1>6 DEF IInv, Learning, InBounds, Loaded, Restored
<1>8. QED BY <1>1, <1>2, <1>5, <1>7, SameWritten DEF IInv

LEMMA ChooseKeepsInv ==
  ASSUME IInv, NEW w \in Workers, Choose(w) \/ ChooseNone(w)
  PROVE  IInv'
<1>1. /\ at[w] = "lock" /\ Holder = {} /\ at \in [Workers -> {"idle", "lock", "update"}]
      /\ at' \in {[at EXCEPT ![w] = "update"], [at EXCEPT ![w] = "idle"]}
      /\ UNCHANGED <<phase, pher, file, dumped, save, kept, simOn, simTask, sim, stopping,
                     telemetry, beating, known>>
      /\ (at' = [at EXCEPT ![w] = "update"] => pos' = 1)
  BY DEF Choose, ChooseNone, fileVars, taskVars, simVars, IInv, TypeOK
<1>2. TypeOK'
  BY <1>1, LifeAssumption DEF Choose, ChooseNone, IInv, TypeOK
<1>3. Tasks'
  <2>1. phase \notin {"down", "failed"}
    BY <1>1 DEF IInv, Tasks, Idle
  <2>2. phase \in Stages => w # <<"post">>
    BY <1>1 DEF IInv, Tasks
  <2>3. QED BY <1>1, <2>1, <2>2, WorkerFacts DEF IInv, Tasks
<1>4. Holder' \subseteq {w} /\ (Holder' # {} => pos' = 1)
  BY <1>1 DEF Holder
<1>5. known # "touched"
  BY <1>1 DEF IInv, Learning
<1>6. Learning'
  BY <1>1, <1>4, <1>5 DEF IInv, Learning, InBounds, Loaded, Restored
<1>7. QED BY <1>1, <1>2, <1>3, <1>6, SameWritten DEF IInv

LEMMA UpdateKeepsInv ==
  ASSUME IInv, NEW w \in Workers, Update(w)
  PROVE  IInv'
<1>1. /\ at[w] = "update" /\ Holder = {w} /\ at \in [Workers -> {"idle", "lock", "update"}]
      /\ UNCHANGED <<phase, file, dumped, kept, simOn, simTask, sim, stopping,
                     telemetry, beating, chosen>>
      /\ save' = [save EXCEPT !.torn = @ \/ Tears(w)]
      /\ pos \in 1..(N + 1) /\ N \in Nat \ {0} /\ chosen \in Nodes /\ pher \in [Nodes -> Levels]
      /\ (known = "loaded" => pos = 1)
  <2>1. at[w] = "update" /\ w \in Holder
    BY DEF Update, Holder
  <2>2. Holder = {w}
    BY <2>1 DEF IInv, Learning
  <2>3. QED BY <2>1, <2>2, LifeAssumption DEF Update, taskVars, simVars, IInv, TypeOK, Learning
<1>2. save' = [from |-> save.from, torn |-> save.torn \/ Tears(w)] /\ save.torn \in BOOLEAN
  <2>1. save = [from |-> save.from, torn |-> save.torn] /\ save.torn \in BOOLEAN
    BY DEF IInv, Written, TypeOK
  <2>2. QED BY <1>1, <2>1
<1>3. Tears(w) \in BOOLEAN
  BY DEF Tears
<1>4. phase = "saving" => save'.torn
  <2>1. phase = "saving" => Tears(w)
    BY <1>1, OnlyOrphans DEF Tears
  <2>2. QED BY <1>2, <2>1
<1>5. Written'
  <2>1. phase' = "saving" =>
          \E m \in 0..N : /\ dumped' \in [1..m -> Levels]
                          /\ ~save'.torn => pher' = save'.from /\ \A n \in 1..m : dumped'[n] = pher'[n]
    BY <1>1, <1>4 DEF IInv, Written
  <2>2. save' = [from |-> save'.from, torn |-> save'.torn]
    BY <1>2
  <2>3. QED BY <1>1, <2>1, <2>2 DEF IInv, Written
<1>6. save'.torn \in BOOLEAN
  BY <1>2, <1>3
<1>7. CASE pos <= N
  <2>1. /\ pher' = [pher EXCEPT ![pos] = Evaporated(@)] /\ pos' = pos + 1 /\ at' = at
        /\ known' = IF known = "loaded" THEN "touched" ELSE known
    BY <1>1, <1>7 DEF Update
  <2>2. pos \in Nodes /\ Evaporated(pher[pos]) \in Levels /\ InBounds(Evaporated(pher[pos]))
    BY <1>1, <1>7, EvaporatedBounds DEF Nodes
  <2>3. TypeOK'
    BY <1>1, <1>6, <1>7, <2>1, <2>2 DEF IInv, TypeOK
  <2>4. Tasks'
    BY <1>1, <2>1 DEF IInv, Tasks
  <2>5. Learning'
    <3>1. Holder' = Holder /\ known' # "loaded"
      BY <2>1 DEF Holder, IInv, TypeOK
    <3>2. pher'[pos] = Evaporated(pher[pos]) /\ \A n \in Nodes : n # pos => pher'[n] = pher[n]
      BY <1>1, <2>1, <2>2
    <3>3. \A n \in Nodes : n < pos' => n < pos \/ n = pos
      BY <1>1, <2>1 DEF Nodes
    <3>4. known' = "touched" => \A n \in Nodes : n < pos' => InBounds(pher'[n])
      <4>1. ASSUME known' = "touched", NEW n \in Nodes, n < pos' PROVE InBounds(pher'[n])
        <5>1. CASE n = pos
          BY <5>1, <3>2, <2>2
        <5>2. CASE n < pos
          <6>1. known = "touched" /\ n # pos
            BY <4>1, <5>2, <2>1, <1>1 DEF Nodes
          <6>2. InBounds(pher[n])
            BY <5>2, <6>1 DEF IInv, Learning
          <6>3. QED BY <6>1, <6>2, <3>2
        <5>3. QED BY <4>1, <3>3, <5>1, <5>2
      <4>2. QED BY <4>1
    <3>5. known' = "placed" => \A n \in Nodes : InBounds(pher'[n])
      <4>1. ASSUME known' = "placed", NEW n \in Nodes PROVE InBounds(pher'[n])
        <5>1. known = "placed"
          BY <4>1, <2>1
        <5>2. InBounds(pher[n])
          BY <5>1 DEF IInv, Learning
        <5>3. QED BY <5>2, <3>2, <2>2
      <4>2. QED BY <4>1
    <3>6. QED BY <1>1, <3>1, <3>4, <3>5 DEF Learning, InBounds
  <2>6. QED BY <1>5, <2>3, <2>4, <2>5 DEF IInv
<1>8. CASE ~(pos <= N)
  <2>1. /\ pher' = [pher EXCEPT ![chosen] = Deposited(@)] /\ pos' = 1
        /\ at' = [at EXCEPT ![w] = "idle"] /\ pos = N + 1
    BY <1>1, <1>8 DEF Update
  <2>2. known # "loaded"
    BY <1>1, <2>1
  <2>3. known' = "placed" /\ \A n \in Nodes : InBounds(pher[n])
    <3>1. at'[w] = "idle"
      BY <1>1, <2>1
    <3>2. known' = "placed"
      BY <2>2, <3>1 DEF Update
    <3>3. known \in {"touched", "placed"} /\ \A n \in Nodes : n < pos
      BY <2>1, <2>2, <1>1 DEF Nodes, IInv, TypeOK
    <3>4. QED BY <3>2, <3>3 DEF IInv, Learning
  <2>4. InBounds(Deposited(pher[chosen])) /\ Deposited(pher[chosen]) \in Levels
    BY <1>1, <2>3, DepositedBounds
  <2>5. TypeOK'
    BY <1>1, <1>6, <2>1, <2>3, <2>4 DEF IInv, TypeOK
  <2>6. Tasks'
    <3>1. phase \notin {"down", "failed"}
      BY <1>1 DEF IInv, Tasks, Idle
    <3>2. QED BY <1>1, <2>1, <3>1, WorkerFacts DEF IInv, Tasks
  <2>7. Learning'
    <3>1. Holder' = {}
      BY <1>1, <2>1 DEF Holder
    <3>2. \A n \in Nodes : InBounds(pher'[n])
      BY <1>1, <2>1, <2>3, <2>4
    <3>3. QED BY <2>3, <3>1, <3>2 DEF Learning, InBounds
  <2>8. QED BY <1>5, <2>5, <2>6, <2>7 DEF IInv
<1>9. QED BY <1>7, <1>8

-----------------------------------------------------------------------------
(* The tasks *)

LEMMA StartSimulationKeepsInv ==
  ASSUME IInv, StartSimulation
  PROVE  IInv'
<1>1. /\ UNCHANGED <<phase, pher, file, dumped, save, kept, telemetry, beating, at, pos, chosen,
                     stopping, known>>
      /\ phase = "up" /\ ~simOn /\ simOn' = TRUE /\ simTask' = simTask + 1
      /\ sim' = [sim EXCEPT ![simTask + 1] = "live"]
      /\ simTask \in 0..Sims /\ simTask < Sims /\ Sims \in Nat /\ simTask + 1 \in SimIds
      /\ sim \in [SimIds -> {"none", "live", "cancelled", "done"}]
  BY LifeAssumption DEF StartSimulation, fileVars, workVars, IInv, TypeOK, SimIds
<1>2. TypeOK'
  BY <1>1 DEF IInv, TypeOK
<1>3. \A t \in SimIds : sim[t] # "live"
  BY <1>1 DEF IInv, Tasks, SimIds
<1>4. \A t \in SimIds : /\ t > simTask + 1 => sim'[t] = "none"
                        /\ sim'[t] = "live" => t = simTask + 1
                        /\ sim'[t] = "cancelled" => t \in stopping
  BY <1>1, <1>3 DEF IInv, Tasks, SimIds
<1>5. sim'[simTask'] = "live" /\ simTask' # 0 /\ simTask' \in SimIds /\ phase \notin Stages
  BY <1>1, <1>2 DEF TypeOK, SimIds, Stages
<1>6. Tasks'
  BY <1>1, <1>4, <1>5 DEF IInv, Tasks
<1>7. QED BY <1>1, <1>2, <1>6, SameLearning, SameWritten DEF IInv

\* What CancelSim does to the tasks of the simulation.
LEMMA CancelSimFacts ==
  ASSUME IInv, phase = "up", CancelSim
  PROVE  /\ simOn' = FALSE /\ simTask' = simTask /\ stopping' \subseteq SimIds
         /\ sim' \in [SimIds -> {"none", "live", "cancelled", "done"}]
         /\ \A t \in SimIds : /\ t > simTask => sim'[t] = "none"
                              /\ sim'[t] # "live"
                              /\ sim'[t] = "cancelled" => t \in stopping'
<1>1. /\ simOn' = FALSE /\ simTask' = simTask
  BY DEF CancelSim
<1>2. /\ simTask \in 0..Sims /\ Sims \in Nat /\ stopping \subseteq SimIds
      /\ sim \in [SimIds -> {"none", "live", "cancelled", "done"}]
      /\ \A t \in SimIds : /\ t > simTask => sim[t] = "none"
                           /\ sim[t] = "live" => t = simTask
                           /\ sim[t] = "cancelled" => t \in stopping
  BY LifeAssumption DEF IInv, Tasks, TypeOK
<1>3. CASE simTask # 0 /\ sim[simTask] # "done"
  <2>1. /\ sim' = [sim EXCEPT ![simTask] = "cancelled"] /\ stopping' = stopping \cup {simTask}
        /\ simTask \in SimIds
    BY <1>2, <1>3 DEF CancelSim, SimIds
  <2>2. \A t \in SimIds : t > simTask => t # simTask
    BY <1>2 DEF SimIds
  <2>3. QED BY <1>1, <1>2, <2>1, <2>2
<1>4. CASE ~(simTask # 0 /\ sim[simTask] # "done")
  <2>1. sim' = sim /\ stopping' = stopping
    BY <1>4 DEF CancelSim
  <2>2. \A t \in SimIds : sim[t] # "live"
    BY <1>2, <1>4 DEF SimIds
  <2>3. QED BY <1>1, <1>2, <2>1, <2>2
<1>5. QED BY <1>3, <1>4

LEMMA StopSimulationKeepsInv ==
  ASSUME IInv, StopSimulation \/ Shutdown
  PROVE  IInv'
<1>1. /\ UNCHANGED <<pher, file, dumped, save, kept, telemetry, beating, at, pos, chosen, known>>
      /\ phase = "up" /\ CancelSim /\ phase' \in {"up", "stopSim"}
      /\ (phase' = "stopSim" => at[<<"post">>] = "idle")
  BY DEF StopSimulation, Shutdown, fileVars, workVars
<1>2. TypeOK'
  BY <1>1, CancelSimFacts DEF IInv, TypeOK, Stages
<1>3. Tasks'
  <2>1. simTask' # 0 => simTask' \in SimIds
    BY <1>1, <1>2 DEF TypeOK, SimIds
  <2>2. QED BY <1>1, <2>1, CancelSimFacts DEF Tasks, Stages
<1>4. QED BY <1>1, <1>2, <1>3, SameLearning, SameWritten DEF IInv

LEMMA StopReturnsKeepsInv ==
  ASSUME IInv, NEW t \in SimIds, StopReturns(t)
  PROVE  IInv'
<1>1. /\ UNCHANGED <<phase, pher, file, dumped, save, kept, simOn, simTask, sim, telemetry, beating,
                     at, pos, chosen, known>>
      /\ phase = "up" /\ stopping' = stopping \ {t} /\ sim[t] = "done"
  BY DEF StopReturns, fileVars, workVars
<1>2. TypeOK'
  BY <1>1 DEF IInv, TypeOK
<1>3. \A s \in SimIds : sim[s] = "cancelled" => s \in stopping'
  BY <1>1 DEF IInv, Tasks
<1>4. Tasks'
  BY <1>1, <1>3 DEF IInv, Tasks, Stages
<1>5. QED BY <1>1, <1>2, <1>4, SameLearning, SameWritten DEF IInv

LEMMA SimEndsKeepsInv ==
  ASSUME IInv, NEW t \in SimIds, SimEnds(t)
  PROVE  IInv'
<1>1. /\ UNCHANGED <<phase, pher, file, dumped, save, kept, simOn, simTask, stopping, telemetry,
                     beating, at, pos, chosen, known>>
      /\ sim[t] = "cancelled" /\ sim' = [sim EXCEPT ![t] = "done"]
      /\ sim \in [SimIds -> {"none", "live", "cancelled", "done"}] /\ simTask \in 0..Sims
  BY DEF SimEnds, fileVars, workVars, IInv, TypeOK
<1>2. TypeOK'
  BY <1>1 DEF IInv, TypeOK
<1>3. \A s \in SimIds : /\ (sim'[s] = "live") <=> (sim[s] = "live")
                        /\ (sim'[s] = "none") <=> (sim[s] = "none")
                        /\ sim'[s] = "cancelled" => sim[s] = "cancelled"
  BY <1>1
<1>4. simTask = 0 \/ simTask \in SimIds
  BY <1>1 DEF SimIds
<1>5. phase \notin {"down", "failed"}
  BY <1>1 DEF IInv, Tasks
<1>6. Tasks'
  BY <1>1, <1>3, <1>4, <1>5 DEF IInv, Tasks
<1>7. QED BY <1>1, <1>2, <1>6, SameLearning, SameWritten DEF IInv

LEMMA TelemetryKeepsInv ==
  ASSUME IInv, TelemetryEnds \/ TelemetryFails
  PROVE  IInv'
<1>1. /\ UNCHANGED <<phase, pher, file, dumped, save, kept, simOn, simTask, sim, stopping, beating,
                     at, pos, chosen, known>>
      /\ telemetry \in {"cancelled", "live"} /\ telemetry' = "done"
  BY DEF TelemetryEnds, TelemetryFails, fileVars, simVars, workVars
<1>2. TypeOK' /\ Tasks'
  BY <1>1 DEF IInv, TypeOK, Tasks
<1>3. QED BY <1>1, <1>2, SameLearning, SameWritten DEF IInv

-----------------------------------------------------------------------------
(* The shutdown *)

LEMMA StopTelemetryKeepsInv ==
  ASSUME IInv, StopTelemetry
  PROVE  IInv'
<1>1. /\ UNCHANGED <<pher, file, dumped, save, kept, simOn, simTask, sim, stopping, beating,
                     at, pos, chosen, known>>
      /\ phase = "stopSim" /\ phase' = "stopTelemetry" /\ \A t \in stopping : sim[t] = "done"
      /\ telemetry' \in {telemetry, "cancelled"}
  BY DEF StopTelemetry, fileVars, simVars, workVars
<1>2. \A t \in SimIds : sim[t] # "cancelled"
  BY <1>1 DEF IInv, Tasks, SimIds
<1>3. TypeOK' /\ Tasks'
  BY <1>1, <1>2 DEF IInv, TypeOK, Tasks, Stages
<1>4. QED BY <1>1, <1>3, SameLearning, SameWritten DEF IInv

LEMMA AwaitTelemetryKeepsInv ==
  ASSUME IInv, AwaitTelemetry
  PROVE  IInv'
<1>1. /\ UNCHANGED <<pher, file, dumped, save, kept, simOn, simTask, sim, stopping, telemetry, beating,
                     at, pos, chosen, known>>
      /\ phase = "stopTelemetry" /\ phase' = "stopAgents" /\ telemetry = "done"
  BY DEF AwaitTelemetry, fileVars, taskVars, simVars, workVars
<1>2. TypeOK' /\ Tasks'
  BY <1>1 DEF IInv, TypeOK, Tasks, Stages
<1>3. QED BY <1>1, <1>2, SameLearning, SameWritten DEF IInv

LEMMA StopAgentKeepsInv ==
  ASSUME IInv, NEW n \in Nodes, StopAgent(n)
  PROVE  IInv'
<1>1. /\ UNCHANGED <<phase, pher, file, dumped, save, kept, simOn, simTask, sim, stopping, telemetry,
                     at, pos, chosen, known>>
      /\ phase = "stopAgents" /\ beating' = beating \ {n}
  BY DEF StopAgent, fileVars, simVars, workVars
<1>2. TypeOK' /\ Tasks'
  BY <1>1 DEF IInv, TypeOK, Tasks
<1>3. QED BY <1>1, <1>2, SameLearning, SameWritten DEF IInv

LEMMA SaveBeginKeepsInv ==
  ASSUME IInv, SaveBegin
  PROVE  IInv'
<1>1. /\ UNCHANGED <<pher, file, kept, simOn, simTask, sim, stopping, telemetry, beating,
                     at, pos, chosen, known>>
      /\ phase = "stopAgents" /\ phase' = "saving" /\ dumped' = <<>> /\ beating = {}
      /\ save' = [from |-> pher, torn |-> \E w \in Holder : ~Awaited(w)]
  BY DEF SaveBegin, taskVars, simVars, workVars
<1>2. TypeOK' /\ Tasks'
  BY <1>1 DEF IInv, TypeOK, Tasks, Stages
<1>3. Written'
  <2>1. dumped' \in [1..0 -> Levels] /\ 0 \in 0..N
    BY <1>1, LifeAssumption
  <2>2. save'.from = pher'
    BY <1>1
  <2>3. QED BY <1>1, <2>1, <2>2 DEF IInv, Written
<1>4. Learning'
  BY <1>1, SameLearning
<1>5. QED BY <1>2, <1>3, <1>4 DEF IInv

LEMMA DumpKeepsInv ==
  ASSUME IInv, Dump
  PROVE  IInv'
<1> DEFINE c == Cardinality(DOMAIN dumped)
           n == c + 1
<1>1. /\ UNCHANGED <<phase, pher, file, save, kept, simOn, simTask, sim, stopping, telemetry, beating,
                     at, pos, chosen, known>>
      /\ phase = "saving" /\ c < N /\ N \in Nat /\ pher \in [Nodes -> Levels]
      /\ dumped' = [m \in 1..n |-> IF m = n THEN pher[n] ELSE dumped[m]]
  BY LifeAssumption DEF Dump, taskVars, simVars, workVars, IInv, TypeOK
<1>2. PICK m \in 0..N : /\ dumped \in [1..m -> Levels]
                        /\ ~save.torn => pher = save.from /\ \A x \in 1..m : dumped[x] = pher[x]
  BY <1>1 DEF IInv, Written
<1>3. c = m
  <2>1. DOMAIN dumped = 1..m
    BY <1>2
  <2>2. Cardinality(1..m) = IF 1 > m THEN 0 ELSE m - 1 + 1
    BY FS_Interval
  <2>3. QED BY <2>1, <2>2
<1> HIDE DEF c
<1>4. TypeOK' /\ Tasks'
  BY <1>1 DEF IInv, TypeOK, Tasks
<1>5. Written'
  <2>1. n \in Nodes /\ n \in 0..N /\ \A x \in 1..n : x = n \/ x \in 1..m
    BY <1>1, <1>3 DEF Nodes
  <2>2. dumped' \in [1..n -> Levels]
    BY <1>1, <1>2, <2>1
  <2>3. ~save.torn => pher = save.from /\ \A x \in 1..n : dumped'[x] = pher[x]
    BY <1>1, <1>2, <2>1
  <2>4. QED BY <1>1, <2>1, <2>2, <2>3 DEF IInv, Written
<1>6. QED BY <1>1, <1>4, <1>5, SameLearning DEF IInv

LEMMA ReplaceKeepsInv ==
  ASSUME IInv, Replace
  PROVE  IInv'
<1>1. /\ UNCHANGED <<pher, dumped, save, simOn, simTask, sim, stopping, telemetry, beating,
                     at, pos, chosen, known>>
      /\ phase = "saving" /\ phase' = "saved" /\ Cardinality(DOMAIN dumped) = N
      /\ file' = [kind |-> "vector", val |-> dumped] /\ kept' = save
      /\ pher \in [Nodes -> Levels] /\ N \in Nat
  BY LifeAssumption DEF Replace, taskVars, simVars, workVars, IInv, TypeOK
<1>2. PICK m \in 0..N : /\ dumped \in [1..m -> Levels]
                        /\ ~save.torn => pher = save.from /\ \A x \in 1..m : dumped[x] = pher[x]
  BY <1>1 DEF IInv, Written
<1>3. m = N
  <2>1. DOMAIN dumped = 1..m
    BY <1>2
  <2>2. Cardinality(1..m) = IF 1 > m THEN 0 ELSE m - 1 + 1
    BY FS_Interval
  <2>3. QED BY <1>1, <2>1, <2>2
<1>4. dumped \in [Nodes -> Levels] /\ (~save.torn => dumped = save.from)
  BY <1>1, <1>2, <1>3 DEF Nodes
<1>5. TypeOK' /\ Tasks'
  BY <1>1 DEF IInv, TypeOK, Tasks, Stages
<1>6. Written'
  BY <1>1, <1>4 DEF IInv, Written
<1>7. Learning'
  BY <1>1 DEF IInv, Learning, Holder, InBounds
<1>8. QED BY <1>5, <1>6, <1>7 DEF IInv

LEMMA SaveFailsKeepsInv ==
  ASSUME IInv, SaveFails
  PROVE  IInv'
<1>1. /\ UNCHANGED <<pher, file, dumped, save, kept, simOn, simTask, sim, stopping, telemetry, beating,
                     at, pos, chosen, known>>
      /\ phase = "saving" /\ phase' = "saved"
  BY DEF SaveFails, fileVars, taskVars, simVars, workVars
<1>2. TypeOK' /\ Tasks'
  BY <1>1 DEF IInv, TypeOK, Tasks, Stages
<1>3. QED BY <1>1, <1>2, SameLearning, SameWritten DEF IInv

LEMMA StepKeepsInv == IInv /\ [Next]_vars => IInv'
<1> SUFFICES ASSUME IInv, [Next]_vars PROVE IInv'
  OBVIOUS
<1>1. CASE Start
  BY <1>1, StartKeepsInv
<1>2. CASE Crash
  BY <1>2, VanishKeepsInv DEF Crash
<1>3. CASE Shutdown \/ StopSimulation
  BY <1>3, StopSimulationKeepsInv
<1>4. CASE Work
  BY <1>4, ChooseKeepsInv, UpdateKeepsInv DEF Work
<1>5. CASE Down
  <2>1. CASE StopTelemetry
    BY <2>1, StopTelemetryKeepsInv
  <2>2. CASE AwaitTelemetry
    BY <2>2, AwaitTelemetryKeepsInv
  <2>3. CASE \E n \in Nodes : StopAgent(n)
    BY <2>3, StopAgentKeepsInv
  <2>4. CASE SaveBegin
    BY <2>4, SaveBeginKeepsInv
  <2>5. CASE Dump
    BY <2>5, DumpKeepsInv
  <2>6. CASE Replace
    BY <2>6, ReplaceKeepsInv
  <2>7. CASE SaveFails
    BY <2>7, SaveFailsKeepsInv
  <2>8. CASE Exit
    BY <2>8, VanishKeepsInv DEF Exit
  <2>9. QED BY <1>5, <2>1, <2>2, <2>3, <2>4, <2>5, <2>6, <2>7, <2>8 DEF Down
<1>6. CASE Ends
  BY <1>6, TelemetryKeepsInv, SimEndsKeepsInv DEF Ends
<1>7. CASE TelemetryFails
  BY <1>7, TelemetryKeepsInv
<1>8. CASE StartSimulation
  BY <1>8, StartSimulationKeepsInv
<1>9. CASE \E t \in SimIds : StopReturns(t)
  BY <1>9, StopReturnsKeepsInv
<1>10. CASE \E w \in Workers : Call(w)
  BY <1>10, CallKeepsInv
<1>11. CASE UNCHANGED vars
  <2>1. TypeOK' /\ Tasks'
    BY <1>11 DEF vars, IInv, TypeOK, Tasks
  <2>2. QED BY <1>11, <2>1, SameLearning, SameWritten DEF vars, IInv
<1>12. QED BY <1>1, <1>2, <1>3, <1>4, <1>5, <1>6, <1>7, <1>8, <1>9, <1>10, <1>11 DEF Next

LEMMA Invariant == Spec => []IInv
<1>1. QED BY InitInv, StepKeepsInv, PTL DEF Spec

-----------------------------------------------------------------------------
(* What follows *)

\* Every variable keeps its type, whatever lies at the path of the snapshot.
THEOREM TypeCorrect == Spec => []TypeOK
<1>1. IInv => TypeOK
  BY DEF IInv
<1>2. QED BY Invariant, <1>1, PTL

\* The first placement brings every level into its bounds, for any snapshot.
THEOREM Repaired == Spec => []PlacementsBound
<1>1. IInv => PlacementsBound
  BY DEF IInv, Learning, PlacementsBound, InBounds
<1>2. QED BY Invariant, <1>1, PTL

\* A file the service wrote loads completely.
LEMMA OwnFile == IInv => OwnFileLoads
<1> SUFFICES ASSUME IInv, kept # NotOurs PROVE ~Refuses(file) /\ Restored(file) = Nodes
  BY DEF OwnFileLoads
<1>1. file.kind = "vector" /\ file.val \in [Nodes -> Levels] /\ DOMAIN file.val = Nodes
  BY DEF IInv, Written
<1>2. \A n \in Nodes : Number(file.val[n])
  BY <1>1, LevelFacts
<1>3. ~Refuses(file)
  BY <1>1, <1>2 DEF Refuses, Number
<1>4. Restored(file) = Nodes
  BY <1>1, <1>2 DEF Restored
<1>5. QED BY <1>3, <1>4

\* The same as a theorem of the specification.
THEOREM OwnFilesLoad == Spec => []OwnFileLoads
<1>1. QED BY Invariant, OwnFile, PTL

\* Crashes, failed saves, restarts and idle runs lose nothing of the last
\* completed save that no orphan disturbed.
THEOREM Survives == Spec => []KnowledgeSurvives
<1>1. IInv => KnowledgeSurvives
  <2> SUFFICES ASSUME IInv, phase = "up", known = "loaded", ~kept.torn PROVE pher = kept.from
    BY DEF KnowledgeSurvives
  <2>1. kept # NotOurs
    BY DEF NotOurs
  <2>2. file.val \in [Nodes -> Levels] /\ file.val = kept.from
    BY <2>1 DEF IInv, Written
  <2>3. Restored(file) = Nodes
    BY <2>1, OwnFile DEF OwnFileLoads
  <2>4. Loaded(file) = file.val
    BY <2>2, <2>3 DEF Loaded
  <2>5. QED BY <2>2, <2>4 DEF IInv, Learning
<1>2. QED BY Invariant, <1>1, PTL

\* The snapshot is written after every task has ended; only orphans are left.
THEOREM SavedLast == Spec => []SavesLast
<1>1. IInv => SavesLast
  BY DEF IInv, TypeOK, Tasks, SavesLast
<1>2. QED BY Invariant, <1>1, PTL

\* For any number of starts and stops of the simulation, however they overlap,
\* at most one task submits jobs.
THEOREM SingleSimulation == Spec => []OneSimulation
<1>1. IInv => OneSimulation
  BY DEF IInv, Tasks, OneSimulation
<1>2. QED BY Invariant, <1>1, PTL

-----------------------------------------------------------------------------
(* The telemetry loop: counting modulo the interval                        *)

LEMMA OneRemainder ==
  ASSUME NEW i \in Nat \ {0}, NEW q \in Int, NEW r \in 0..(i - 1)
  PROVE  (i * q + r) % i = r
<1> DEFINE a == i * q + r
           p == a \div i
           s == a % i
<1>1. a \in Int /\ p \in Int /\ s \in 0..(i - 1) /\ a = i * p + s
  OBVIOUS
<1>2. i * q + r = i * p + s
  BY <1>1
<1> HIDE DEF p, s
<1>3. CASE q < p
  <2>1. i * (q + 1) <= i * p
    <3>1. i * (p - q - 1) >= 0
      BY <1>1, <1>3
    <3>2. i * (p - q - 1) = i * p - i * (q + 1)
      BY <1>1
    <3>3. i * p \in Int /\ i * (q + 1) \in Int
      BY <1>1
    <3>4. QED BY <3>1, <3>2, <3>3
  <2>2. QED BY <1>1, <1>2, <2>1
<1>4. CASE p < q
  <2>1. i * (p + 1) <= i * q
    <3>1. i * (q - p - 1) >= 0
      BY <1>1, <1>4
    <3>2. i * (q - p - 1) = i * q - i * (p + 1)
      BY <1>1
    <3>3. i * q \in Int /\ i * (p + 1) \in Int
      BY <1>1
    <3>4. QED BY <3>1, <3>2, <3>3
  <2>2. QED BY <1>1, <1>2, <2>1
<1>5. CASE p = q
  BY <1>1, <1>2, <1>5 DEF s
<1>6. QED BY <1>1, <1>3, <1>4, <1>5

LEMMA NextRemainder ==
  ASSUME NEW i \in Nat \ {0}, NEW a \in Nat
  PROVE  /\ a % i \in 0..(i - 1)
         /\ (a + 1) % i = IF (a % i) + 1 = i THEN 0 ELSE (a % i) + 1
<1> DEFINE p == a \div i
           s == a % i
<1>1. p \in Int /\ s \in 0..(i - 1) /\ a = i * p + s
  OBVIOUS
<1> HIDE DEF p, s
<1>2. CASE s + 1 = i
  <2>1. a + 1 = i * (p + 1) + 0
    BY <1>1, <1>2
  <2>2. (i * (p + 1) + 0) % i = 0
    BY <1>1, OneRemainder
  <2>3. QED BY <1>1, <1>2, <2>1, <2>2 DEF s
<1>3. CASE s + 1 # i
  <2>1. a + 1 = i * p + (s + 1) /\ s + 1 \in 0..(i - 1)
    BY <1>1, <1>3
  <2>2. (i * p + (s + 1)) % i = s + 1
    BY <1>1, <2>1, OneRemainder
  <2>3. QED BY <1>1, <1>3, <2>1, <2>2 DEF s
<1>4. QED BY <1>2, <1>3

\* Ticks are counted modulo a multiple of the interval.
LEMMA NextTick ==
  ASSUME NEW t \in 0..(Period - 1)
  PROVE  /\ (t + 1) % Period \in 0..(Period - 1)
         /\ t % Interval \in 0..(Interval - 1)
         /\ ((t + 1) % Period) % Interval = IF (t % Interval) + 1 = Interval THEN 0
                                            ELSE (t % Interval) + 1
<1>1. Period \in Nat \ {0} /\ Interval \in Nat \ {0} /\ Period % Interval = 0
  BY TelemetryAssumption
<1>2. t % Interval \in 0..(Interval - 1)
      /\ (t + 1) % Interval = IF (t % Interval) + 1 = Interval THEN 0 ELSE (t % Interval) + 1
  <2>1. t \in Nat
    BY <1>1
  <2>2. QED BY <1>1, <2>1, NextRemainder
<1>3. CASE t + 1 < Period
  <2>1. (t + 1) % Period = t + 1
    BY <1>1, <1>3
  <2>2. QED BY <1>1, <1>2, <1>3, <2>1
<1>4. CASE t + 1 = Period
  <2>1. (t + 1) % Period = 0 /\ 0 % Interval = 0
    <3>1. Period = Period * 1 + 0 /\ 0 = Interval * 0 + 0
      BY <1>1
    <3>2. (Period * 1 + 0) % Period = 0 /\ (Interval * 0 + 0) % Interval = 0
      BY <1>1, OneRemainder
    <3>3. QED BY <1>4, <3>1, <3>2
  <2>2. (t + 1) % Interval = 0
    BY <1>1, <1>4
  <2>3. QED BY <1>1, <1>2, <2>1, <2>2
<1>5. QED BY <1>1, <1>3, <1>4

-----------------------------------------------------------------------------
(* The invariant *)

\* The step of the interval the loop is in: a tick that will refit is its last.
StepOfInterval == IF ticks % Interval = 0 THEN Interval ELSE ticks % Interval

\* Samples of node n since the loop last came past a refit.
Since(n) ==
  IF loop \in {"sleep", "drain"} THEN ticks % Interval
  ELSE IF n < k THEN StepOfInterval ELSE StepOfInterval - 1

\* Until the window is full, every refit finds a full interval of new samples:
\* so a predictor is trained exactly when the last refit had enough of them,
\* and with all there were.
FitAtRefit ==
  \A n \in Polled : count[n] < Window =>
    LET then == count[n] - Since(n)
    IN  /\ then >= 0
        /\ trained[n] <=> (then >= Enough /\ then > Lookback)
        /\ IF trained[n] THEN lastFit[n] = then /\ age[n] = Since(n) ELSE lastFit[n] = 0

LoopInv == LoopTypeOK /\ BaselineComesBack /\ FitAtRefit

LEMMA LoopInitInv == ASSUME LoopInit PROVE LoopInv
<1> USE TelemetryAssumption DEF LoopInit
<1>1. LoopTypeOK
  <2>1. /\ 1 \in 1..(NodeCount + 1) /\ 0 \in 0..(Period - 1) /\ 0 \in 0..SpikeTicks /\ 0 \in 0..Window
        /\ 0 \in 0..(Interval + 1) /\ 0 \in 0..MaxSpikes
    OBVIOUS
  <2>2. QED BY <2>1 DEF LoopTypeOK
<1>2. BaselineComesBack
  BY DEF BaselineComesBack
<1>3. 0 % Interval = 0
  <2>1. 0 = Interval * 0 + 0 /\ (Interval * 0 + 0) % Interval = 0
    BY OneRemainder
  <2>2. QED BY <2>1
<1>4. FitAtRefit
  BY <1>3 DEF FitAtRefit, Since
<1>5. QED BY <1>1, <1>2, <1>4 DEF LoopInv

LEMMA StepBounds ==
  ASSUME LoopTypeOK
  PROVE  /\ ticks % Interval \in 0..(Interval - 1) /\ StepOfInterval \in 1..Interval
         /\ \A n \in Polled : Since(n) \in 0..Interval
<1>1. ticks % Interval \in 0..(Interval - 1) /\ Interval \in Nat \ {0}
  BY NextTick, TelemetryAssumption DEF LoopTypeOK
<1>2. StepOfInterval \in 1..Interval
  BY <1>1 DEF StepOfInterval
<1> HIDE DEF StepOfInterval
<1>3. QED BY <1>1, <1>2 DEF Since

-----------------------------------------------------------------------------
(* The steps of a tick *)

LEMMA TickBeginKeepsInv == ASSUME LoopInv, TickBegin PROVE LoopInv'
<1>1. /\ loop = "sleep" /\ loop' = "tick" /\ k' = 1 /\ ticks' = (ticks + 1) % Period
      /\ UNCHANGED <<adapter, spikeVars, count, fitVars, age, spikes>>
  BY DEF TickBegin
<1>2. ticks \in 0..(Period - 1) /\ NodeCount \in Nat \ {0} /\ Interval \in Nat \ {0}
  BY TelemetryAssumption DEF LoopInv, LoopTypeOK
<1>3. /\ ticks' \in 0..(Period - 1) /\ ticks % Interval \in 0..(Interval - 1)
      /\ ticks' % Interval = IF (ticks % Interval) + 1 = Interval THEN 0 ELSE (ticks % Interval) + 1
  BY <1>1, <1>2, NextTick
<1>4. LoopTypeOK'
  BY <1>1, <1>2, <1>3 DEF LoopInv, LoopTypeOK, spikeVars, fitVars
<1>5. BaselineComesBack'
  BY <1>1 DEF LoopInv, BaselineComesBack, spikeVars
<1>6. \A n \in Polled : Since(n)' = Since(n)
  <2>1. StepOfInterval' = (ticks % Interval) + 1
    <3> DEFINE r == ticks % Interval
               s == ticks' % Interval
    <3>1. StepOfInterval' = IF s = 0 THEN Interval ELSE s
      BY DEF StepOfInterval
    <3>2. r \in 0..(Interval - 1) /\ s = IF r + 1 = Interval THEN 0 ELSE r + 1
      BY <1>3
    <3> HIDE DEF r, s
    <3>3. StepOfInterval' = r + 1
      BY <1>2, <3>1, <3>2
    <3>4. QED BY <3>3 DEF r
  <2>2. \A n \in Polled : ~(n < k')
    BY <1>1 DEF Polled
  <2>3. \A n \in Polled : Since(n)' = StepOfInterval' - 1
    BY <1>1, <2>2 DEF Since
  <2>4. QED BY <1>1, <1>3, <2>1, <2>3 DEF Since
<1>7. FitAtRefit'
  BY <1>1, <1>6 DEF LoopInv, FitAtRefit, fitVars
<1>8. QED BY <1>4, <1>5, <1>7 DEF LoopInv

LEMMA SampleKeepsInv == ASSUME LoopInv, Sample PROVE LoopInv'
<1>1. /\ loop = "tick" /\ k \in Polled /\ k' = k + 1 /\ k \in Nat /\ NodeCount \in Nat /\ k <= NodeCount
      /\ count' = [count EXCEPT ![k] = Grown(count[k])]
      /\ age' = [age EXCEPT ![k] = IF age[k] > Interval THEN age[k] ELSE age[k] + 1]
      /\ CountDown(k)
      /\ UNCHANGED <<loop, ticks, adapter, fitVars, spikes>>
  BY TelemetryAssumption DEF Sample, LoopInv, LoopTypeOK, Polled
<1>2. /\ Window \in Nat /\ Interval \in Nat \ {0} /\ SpikeTicks \in Nat \ {0}
      /\ count \in [Polled -> 0..Window] /\ age \in [Polled -> 0..(Interval + 1)]
      /\ left \in [Polled -> 0..SpikeTicks] /\ lastFit \in [Polled -> 0..Window]
      /\ base \in [Polled -> {"normal", "spike"}]
      /\ saved \in [Polled -> {"none", "normal", "spike"}]
  BY TelemetryAssumption DEF LoopInv, LoopTypeOK
<1>3. /\ count' \in [Polled -> 0..Window] /\ age' \in [Polled -> 0..(Interval + 1)]
      /\ count[k] < Window => count'[k] = count[k] + 1
      /\ count[k] = Window => count'[k] = Window
      /\ age[k] <= Interval => age'[k] = age[k] + 1
      /\ \A n \in Polled \ {k} : count'[n] = count[n] /\ age'[n] = age[n]
  <2>1. Grown(count[k]) \in 0..Window
        /\ Grown(count[k]) = IF count[k] = Window THEN Window ELSE count[k] + 1
    BY <1>1, <1>2 DEF Grown
  <2> DEFINE a == IF age[k] > Interval THEN age[k] ELSE age[k] + 1
  <2>2. a \in 0..(Interval + 1) /\ (age[k] <= Interval => a = age[k] + 1)
    BY <1>1, <1>2
  <2> HIDE DEF a
  <2>3. count' \in [Polled -> 0..Window] /\ age' \in [Polled -> 0..(Interval + 1)]
    BY <1>1, <1>2, <2>1, <2>2 DEF a
  <2>4. count'[k] = Grown(count[k]) /\ age'[k] = a
    BY <1>1, <1>2 DEF a
  <2>5. \A n \in Polled \ {k} : count'[n] = count[n] /\ age'[n] = age[n]
    BY <1>1, <1>2
  <2>6. QED BY <1>1, <1>2, <2>1, <2>2, <2>3, <2>4, <2>5
<1>4. left' = [left EXCEPT ![k] = IF left[k] > 0 THEN left[k] - 1 ELSE 0]
      /\ IF left[k] = 1
         THEN /\ base' = [base EXCEPT ![k] = IF saved[k] = "none" THEN base[k] ELSE saved[k]]
              /\ saved' = [saved EXCEPT ![k] = "none"]
         ELSE UNCHANGED <<base, saved>>
  BY <1>1 DEF CountDown
<1>5. /\ left' \in [Polled -> 0..SpikeTicks]
      /\ base' \in [Polled -> {"normal", "spike"}]
      /\ saved' \in [Polled -> {"none", "normal", "spike"}]
  <2>1. (IF left[k] > 0 THEN left[k] - 1 ELSE 0) \in 0..SpikeTicks
    BY <1>1, <1>2
  <2>2. left' \in [Polled -> 0..SpikeTicks]
    BY <1>1, <1>2, <1>4, <2>1
  <2>3. CASE left[k] = 1
    BY <1>1, <1>2, <1>4, <2>2, <2>3
  <2>4. CASE left[k] # 1
    BY <1>2, <1>4, <2>2, <2>4
  <2>5. QED BY <2>3, <2>4
<1>6. LoopTypeOK'
  <2>1. k' \in 1..(NodeCount + 1)
    BY <1>1
  <2>2. QED BY <1>1, <1>3, <1>5, <2>1 DEF LoopInv, LoopTypeOK, fitVars
<1>7. BaselineComesBack'
  <2>1. SUFFICES ASSUME NEW n \in Polled
                 PROVE  IF left'[n] = 0 THEN base'[n] = "normal" ELSE saved'[n] = "normal"
    BY DEF BaselineComesBack, Polled
  <2>2. IF left[n] = 0 THEN base[n] = "normal" ELSE saved[n] = "normal"
    BY DEF LoopInv, BaselineComesBack
  <2>3. CASE n # k
    <3>1. left'[n] = left[n] /\ base'[n] = base[n] /\ saved'[n] = saved[n]
      BY <1>1, <1>2, <1>4, <2>3
    <3>2. QED BY <2>2, <3>1
  <2>4. CASE n = k /\ left[k] = 1
    <3>1. saved[k] = "normal"
      BY <2>2, <2>4
    <3>2. left'[k] = 0 /\ base'[k] = "normal"
      BY <1>1, <1>2, <1>4, <2>4, <3>1
    <3>3. QED BY <2>4, <3>2
  <2>5. CASE n = k /\ left[k] # 1
    <3>1. base' = base /\ saved' = saved
      BY <1>4, <2>5
    <3>2. left[k] = 0 => left'[k] = 0
      BY <1>1, <1>2, <1>4
    <3>3. left[k] # 0 => left'[k] # 0
      BY <1>1, <1>2, <1>4, <2>5
    <3>4. QED BY <2>2, <2>5, <3>1, <3>2, <3>3
  <2>6. QED BY <2>3, <2>4, <2>5
<1>8. FitAtRefit'
  <2>1. StepOfInterval' = StepOfInterval /\ StepOfInterval \in 1..Interval
    BY <1>1, StepBounds DEF StepOfInterval, LoopInv
  <2>2. PICK j \in Polled : j = k
    BY <1>1
  <2>3. Since(j)' = Since(j) + 1 /\ \A n \in Polled \ {j} : Since(n)' = Since(n)
    <3> HIDE DEF StepOfInterval
    <3>1. Since(j) = StepOfInterval - 1 /\ Since(j)' = StepOfInterval
      BY <1>1, <2>1, <2>2 DEF Since
    <3>2. \A n \in Polled \ {j} : (n < k') <=> (n < k)
      <4>1. SUFFICES ASSUME NEW n \in Polled \ {j} PROVE (n < k') <=> (n < k)
        OBVIOUS
      <4>2. n \in Int /\ n # k /\ k' = k + 1 /\ k \in Int
        BY <1>1, <2>2 DEF Polled
      <4>3. QED BY <4>2
    <3>3. \A n \in Polled \ {j} : Since(n)' = Since(n)
      BY <1>1, <2>1, <3>2 DEF Since
    <3>4. QED BY <2>1, <3>1, <3>3
  <2>4. \A n \in Polled : Since(n) \in 0..Interval
    BY StepBounds DEF LoopInv
  <2>5. Since(j) + 1 <= Interval
    <3> HIDE DEF StepOfInterval
    <3>1. QED BY <1>1, <2>1, <2>2 DEF Since
  <2>6. SUFFICES ASSUME NEW n \in Polled, count'[n] < Window
                 PROVE  LET then == count'[n] - Since(n)'
                        IN  /\ then >= 0
                            /\ trained'[n] <=> (then >= Enough /\ then > Lookback)
                            /\ IF trained'[n] THEN lastFit'[n] = then /\ age'[n] = Since(n)'
                                              ELSE lastFit'[n] = 0
    BY DEF FitAtRefit, Polled
  <2>7. trained' = trained /\ lastFit' = lastFit
    BY <1>1 DEF fitVars
  <2>8. CASE n # j
    BY <1>3, <2>2, <2>3, <2>6, <2>7, <2>8 DEF LoopInv, FitAtRefit
  <2>9. CASE n = j
    <3>1. count[n] < Window /\ count'[n] = count[n] + 1 /\ count[n] \in Nat
      BY <1>2, <1>3, <2>2, <2>6, <2>9
    <3>2. count'[n] - Since(n)' = count[n] - Since(n)
      BY <2>3, <2>4, <2>9, <3>1
    <3>3. age[n] = Since(n) => age'[n] = Since(n)'
      BY <1>2, <1>3, <2>2, <2>3, <2>4, <2>9
    <3>4. QED BY <2>7, <3>1, <3>2, <3>3 DEF LoopInv, FitAtRefit
  <2>10. QED BY <2>8, <2>9
<1>9. QED BY <1>6, <1>7, <1>8 DEF LoopInv

LEMMA TickEndKeepsInv == ASSUME LoopInv, TickEnd PROVE LoopInv'
<1>1. /\ loop = "tick" /\ k > NodeCount /\ loop' = "drain"
      /\ IF ticks % Interval = 0 THEN Refit ELSE UNCHANGED <<fitVars, age>>
      /\ UNCHANGED <<k, ticks, adapter, spikeVars, count, spikes>>
  BY DEF TickEnd
<1>2. /\ Window \in Nat /\ Interval \in Nat \ {0} /\ Threshold \in 1..Interval /\ NodeCount \in Nat
      /\ Enough \in 1..(Lookback + 1) /\ Lookback \in Nat
      /\ count \in [Polled -> 0..Window] /\ age \in [Polled -> 0..(Interval + 1)]
      /\ lastFit \in [Polled -> 0..Window] /\ trained \in [Polled -> BOOLEAN]
      /\ cached \in [Polled -> {"none", "cold", "warm"}] /\ k \in Nat
  BY TelemetryAssumption DEF LoopInv, LoopTypeOK
<1>3. BaselineComesBack'
  BY <1>1 DEF LoopInv, BaselineComesBack, spikeVars
<1>4. \A n \in Polled : Since(n) = StepOfInterval /\ Since(n)' = ticks % Interval
  <2>1. \A n \in Polled : n < k
    BY <1>1, <1>2 DEF Polled
  <2>2. QED BY <1>1, <2>1 DEF Since
<1>5. CASE ticks % Interval # 0
  <2>1. \A n \in Polled : Since(n)' = Since(n)
    BY <1>4, <1>5 DEF StepOfInterval
  <2>2. UNCHANGED <<lastFit, trained, cached, age>>
    BY <1>1, <1>5 DEF fitVars
  <2>3. LoopTypeOK'
    BY <1>1, <2>2 DEF LoopInv, LoopTypeOK, spikeVars
  <2>4. FitAtRefit'
    BY <1>1, <2>1, <2>2 DEF LoopInv, FitAtRefit
  <2>5. QED BY <1>3, <2>3, <2>4 DEF LoopInv
<1>6. CASE ticks % Interval = 0
  <2>1. Refit
    BY <1>1, <1>6
  <2>2. /\ lastFit' \in [Polled -> 0..Window] /\ trained' \in [Polled -> BOOLEAN]
        /\ age' \in [Polled -> 0..(Interval + 1)]
        /\ cached' \in [Polled -> {"none", "cold", "warm"}]
    <3>1. \A n \in Polled : CanTrain(n) \in BOOLEAN
      BY DEF CanTrain
    <3>2. lastFit' \in [Polled -> 0..Window] /\ age' \in [Polled -> 0..(Interval + 1)]
      BY <1>2, <2>1 DEF Refit
    <3>3. trained' \in [Polled -> BOOLEAN]
      BY <1>2, <2>1, <3>1, Zenon DEF Refit
    <3>4. \A n \in Polled : Predicted(trained'[n], count[n]) \in {"cold", "warm"}
      BY DEF Predicted
    <3>5. cached' \in [Polled -> {"none", "cold", "warm"}]
      BY <2>1, <3>4 DEF Refit
    <3>6. QED BY <3>2, <3>3, <3>5
  <2>3. LoopTypeOK'
    BY <1>1, <2>2 DEF LoopInv, LoopTypeOK, spikeVars
  <2>4. FitAtRefit'
    <3>1. SUFFICES ASSUME NEW n \in Polled, count[n] < Window
                   PROVE  /\ count[n] >= 0
                          /\ trained'[n] <=> (count[n] >= Enough /\ count[n] > Lookback)
                          /\ IF trained'[n] THEN lastFit'[n] = count[n] /\ age'[n] = 0
                                            ELSE lastFit'[n] = 0
      <4>1. \A n \in Polled : count'[n] - Since(n)' = count[n] /\ count'[n] = count[n] /\ Since(n)' = 0
        BY <1>1, <1>2, <1>4, <1>6
      <4>2. QED BY <3>1, <4>1 DEF FitAtRefit, Polled
    <3> DEFINE before == count[n] - Interval
    <3>2. /\ before >= 0 /\ (trained[n] <=> (before >= Enough /\ before > Lookback))
          /\ IF trained[n] THEN lastFit[n] = before ELSE lastFit[n] = 0
      <4>1. Since(n) = Interval
        BY <1>4, <1>6 DEF StepOfInterval
      <4>2. QED BY <3>1, <4>1 DEF LoopInv, FitAtRefit
    <3>3. count[n] \in Nat /\ lastFit[n] \in Nat /\ before \in Int
      BY <1>2
    <3>4. FitIsDue(n)
      <4>1. lastFit[n] <= before
        BY <3>2, <3>3
      <4>2. QED BY <1>2, <3>3, <4>1 DEF FitIsDue
    <3>5. /\ trained'[n] = CanTrain(n)
          /\ lastFit'[n] = IF CanTrain(n) THEN count[n] ELSE lastFit[n]
          /\ age'[n] = IF CanTrain(n) THEN 0 ELSE age[n]
      BY <2>1, <3>4 DEF Refit
    <3>6. CanTrain(n) <=> (count[n] >= Enough /\ count[n] > Lookback)
      BY DEF CanTrain
    <3>7. ~CanTrain(n) => ~trained[n]
      BY <1>2, <3>2, <3>3, <3>6
    <3>8. QED BY <3>2, <3>3, <3>5, <3>6, <3>7
  <2>5. QED BY <1>3, <2>3, <2>4 DEF LoopInv
<1>7. QED BY <1>5, <1>6

-----------------------------------------------------------------------------
(* The other steps, and the whole loop *)

\* What leaves the samples and the fits alone, and the loop in its place.
LEMMA FitsAlone ==
  ASSUME LoopInv, UNCHANGED <<k, ticks, count, lastFit, trained, age>>,
         \/ UNCHANGED loop
         \/ loop = "tick" /\ loop' = "dead"
         \/ loop = "drain" /\ loop' = "sleep"
  PROVE  FitAtRefit'
<1>1. \A n \in Polled : Since(n)' = Since(n)
  BY DEF Since, StepOfInterval
<1>2. QED BY <1>1 DEF LoopInv, FitAtRefit

LEMMA InjectSpikeKeepsInv ==
  ASSUME LoopInv, NEW n \in Polled, InjectSpike(n)
  PROVE  LoopInv'
<1>1. /\ spikes < MaxSpikes /\ spikes' = spikes + 1
      /\ saved' = [saved EXCEPT ![n] = IF left[n] = 0 THEN base[n] ELSE saved[n]]
      /\ base' = [base EXCEPT ![n] = "spike"] /\ left' = [left EXCEPT ![n] = SpikeTicks]
      /\ UNCHANGED <<loop, k, ticks, adapter, count, fitVars, age>>
  BY DEF InjectSpike
<1>2. SpikeTicks \in Nat \ {0} /\ MaxSpikes \in Nat
  BY TelemetryAssumption
<1>3. LoopTypeOK'
  BY <1>1, <1>2 DEF LoopInv, LoopTypeOK, fitVars
<1>4. BaselineComesBack'
  BY <1>1, <1>2 DEF LoopInv, LoopTypeOK, BaselineComesBack, Polled
<1>5. FitAtRefit'
  BY <1>1, FitsAlone DEF fitVars
<1>6. QED BY <1>3, <1>4, <1>5 DEF LoopInv

LEMMA OthersKeepInv ==
  ASSUME LoopInv, \/ Fail \/ Drain \/ \E f \in Uploads : Upload(f)
  PROVE  LoopInv'
<1>1. /\ UNCHANGED <<k, ticks, spikeVars, count, fitVars, age, spikes>>
      /\ UNCHANGED loop \/ (loop = "tick" /\ loop' = "dead") \/ (loop = "drain" /\ loop' = "sleep")
  BY DEF Fail, Drain, Upload, LoopInv, LoopTypeOK
<1>2. adapter' \in Traces \cup {NoTrace}
  <2>1. ASSUME NEW f \in Uploads, Upload(f) PROVE adapter' \in Traces
    BY <2>1 DEF Upload, Traces
  <2>2. QED BY <2>1 DEF Fail, Drain, LoopInv, LoopTypeOK
<1>3. LoopTypeOK'
  BY <1>1, <1>2 DEF LoopInv, LoopTypeOK, spikeVars, fitVars
<1>4. BaselineComesBack'
  BY <1>1 DEF LoopInv, BaselineComesBack, spikeVars
<1>5. FitAtRefit'
  BY <1>1, FitsAlone DEF fitVars
<1>6. QED BY <1>3, <1>4, <1>5 DEF LoopInv

LEMMA LoopNextInv == ASSUME LoopInv, [LoopNext]_loopVars PROVE LoopInv'
<1>1. CASE UNCHANGED loopVars
  BY <1>1 DEF loopVars, LoopInv, LoopTypeOK, BaselineComesBack, FitAtRefit, Since, StepOfInterval
<1>2. QED BY <1>1, TickBeginKeepsInv, SampleKeepsInv, TickEndKeepsInv, InjectSpikeKeepsInv, OthersKeepInv
          DEF LoopNext, TelemetryLoop

LEMMA LoopInvariant == LoopSpec => []LoopInv
<1>1. LoopInit => LoopInv
  BY LoopInitInv
<1>2. LoopInv /\ [LoopNext]_loopVars => LoopInv'
  BY LoopNextInv
<1>3. QED BY <1>1, <1>2, PTL DEF LoopSpec

\* The state of the loop has its type: no window outgrows max_samples, a spike
\* never counts below zero, the loop never runs past its nodes.
THEOREM LoopTypeCorrect == LoopSpec => []LoopTypeOK
<1>1. LoopInv => LoopTypeOK
  BY DEF LoopInv
<1>2. QED BY <1>1, LoopInvariant, PTL

\* inject_spike and the countdown of _generate_telemetry: however injections
\* overlap, a node gets its own baseline back.
THEOREM BaselineKept == LoopSpec => []BaselineComesBack
<1>1. LoopInv => BaselineComesBack
  BY DEF LoopInv
<1>2. QED BY <1>1, LoopInvariant, PTL

\* refit_if_needed: as long as the window is not full a fit is at most one
\* interval old, and the first refit past the lookback trains.
THEOREM FitsFollow == LoopSpec => []FitLagsAtMost
<1>1. LoopInv => FitLagsAtMost
  <2>1. SUFFICES ASSUME LoopInv, NEW n \in Polled, count[n] < Window
                 PROVE  /\ trained[n] => age[n] <= Interval
                        /\ loop = "sleep" /\ count[n] >= Lookback + Interval => trained[n]
    BY DEF FitLagsAtMost
  <2>2. /\ ticks % Interval \in 0..(Interval - 1) /\ Since(n) \in 0..Interval
        /\ loop = "sleep" => Since(n) = ticks % Interval
    BY <2>1, StepBounds DEF LoopInv, Since
  <2>3. count[n] \in Nat /\ Interval \in Nat /\ Enough \in 1..(Lookback + 1) /\ Lookback \in Nat
    BY <2>1, TelemetryAssumption DEF LoopInv, LoopTypeOK
  <2>4. /\ trained[n] <=> (count[n] - Since(n) >= Enough /\ count[n] - Since(n) > Lookback)
        /\ trained[n] => age[n] = Since(n)
    BY <2>1 DEF LoopInv, FitAtRefit
  <2>5. QED BY <2>2, <2>3, <2>4
<1>2. QED BY <1>1, LoopInvariant, PTL
=============================================================================
