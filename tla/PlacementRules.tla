--------------------------- MODULE PlacementRules ---------------------------
(***************************************************************************)
(* The rules a placement is decided by, as operators on records: admission,*)
(* the intent router's strategies, the fit of a job on a node, the cost    *)
(* engine's score, the heuristic of the ants and the draw of one of them.  *)
(*                                                                         *)
(* Factors are whole percents, prices are cents per hour, times are        *)
(* seconds.  A product of factors is compared with zero and with other     *)
(* such products, never read as a number.                                  *)
(*                                                                         *)
(* A job has type, gpu, gpuCount, preemptible, priority, due (seconds to   *)
(* its deadline), cpu, mem, ceiling (cost_ceiling_usd) and arches (all of  *)
(* them when arch_required is not set).  A node has arch, inst, cost, prob,*)
(* cpu, mem, gpus, the amounts in use usedCpu, usedMem and usedGpu, util   *)
(* (the last reading or NoReading), running (workload types) and spike and *)
(* trust, the prediction for it (spike = 0 when there is none).            *)
(***************************************************************************)
EXTENDS Integers, Sequences

Arches    == {"x86", "arm", "gpu"}
Instances == {"on_demand", "spot"}
Types     == {"latency", "batch", "stream"}
NoReading == -1
NoDue     == 1000000
NoCeiling == 1000000

Least(a, b)    == IF a <= b THEN a ELSE b
Greatest(a, b) == IF a >= b THEN a ELSE b

-----------------------------------------------------------------------------
(* models.py: what pydantic admits *)

JobRequest ==
  [type : Types, priority : 1..100, due : Int, ceiling : Nat, preemptible : BOOLEAN,
   arches : SUBSET Arches,
   cpu : Nat \ {0}, mem : Nat \ {0}, gpu : BOOLEAN, gpuCount : Nat \ {0}]

\* Nodes without CPU are admitted, but the service has none.
ComputeNode ==
  [arch : Arches, inst : Instances, cost : Nat, prob : 0..100,
   cpu : Nat \ {0}, mem : Nat, gpus : Nat,
   usedCpu : Nat, usedMem : Nat, usedGpu : Nat, util : 0..100 \cup {NoReading},
   running : SUBSET Types, spike : 0..100, trust : 0..100]

-----------------------------------------------------------------------------
(* admission_controller.py *)

Admissible(job) ==
  /\ job.type = "latency" => job.priority >= 80
  /\ ~job.gpu => job.gpuCount <= 1
  /\ job.due > 0

-----------------------------------------------------------------------------
(* intent_router.py *)

Strategy(arches, insts, fast, sla, spike, spot, avoid) ==
  [arches |-> arches, insts |-> insts, fast |-> fast, sla |-> sla,
   spike |-> spike, spot |-> spot, avoid |-> avoid]

GpuInference     == Strategy({"gpu"}, {"on_demand"}, TRUE, 30, 100, 0, {"batch"})
CpuServing       == Strategy({"x86", "arm"}, {"on_demand"}, TRUE, 25, 80, 0, {})
GpuTraining      == Strategy({"gpu"}, Instances, FALSE, 5, 20, 50, {})
PreemptibleActor == Strategy({"x86", "arm"}, Instances, FALSE, 5, 10, 70, {})
StatefulStream   == Strategy(Arches, {"on_demand"}, FALSE, 15, 40, 0, {})
Generic          == Strategy(Arches, Instances, FALSE, 20, 50, 30, {})

\* The first rule that matches; written with guards that exclude each other.
BaseStrategy(job) ==
  CASE job.type = "latency" /\ job.gpu                   -> GpuInference
    [] job.type = "latency" /\ ~job.gpu                  -> CpuServing
    [] job.type = "batch" /\ job.gpu /\ ~job.preemptible -> GpuTraining
    [] job.type # "latency" /\ job.preemptible           -> PreemptibleActor
    [] job.type = "stream" /\ ~job.preemptible           -> StatefulStream
    [] OTHER                                             -> Generic

\* DEADLINE_URGENT_WINDOW_S
Urgent(job) == job.due < 60

Classify(job) ==
  LET s == BaseStrategy(job)
  IN  IF Urgent(job)
      THEN [s EXCEPT !.fast = TRUE, !.sla = Least(s.sla + 10, 90),
                     !.avoid = @ \cup {"batch", "stream"}]
      ELSE s

-----------------------------------------------------------------------------
(* models.py: what is free on a node, and whether a job fits.  Every node of
   the service is HEALTHY, and no source of telemetry reports a temperature. *)

FreeCpu(n) == n.cpu - n.usedCpu
FreeMem(n) == n.mem - n.usedMem
Idle(n)    == [n EXCEPT !.usedCpu = 0, !.usedMem = 0, !.usedGpu = 0]

CanFit(job, n) ==
  /\ job.cpu <= FreeCpu(n) /\ job.mem <= FreeMem(n)
  /\ job.gpu => n.gpus > 0 /\ job.gpuCount <= n.gpus - n.usedGpu

\* The strategy's part of aco_schedule's filter.
Matches(job, n) == n.arch \in Classify(job).arches /\ n.inst \in Classify(job).insts

\* (Bug: the amounts are not asked.)
CouldEverFitByKind(job, n) == job.gpu => n.gpus > 0

\* submit_job, after a failed search: could some node hold the job when idle?
CouldEverFit(job, n) ==
  job.cpu <= n.cpu /\ job.mem <= n.mem /\ (job.gpu => n.gpus > 0)

\* cpu_utilisation_pct
Utilisation(n) == IF n.util # NoReading THEN n.util ELSE (100 * n.usedCpu) \div n.cpu

-----------------------------------------------------------------------------
(* cost_engine.py, with the thresholds of the strategy *)

Reliability(job, n) ==
  IF n.inst = "on_demand" THEN 100
  ELSE IF job.type # "latency" THEN Greatest(0, 100 - (3 * n.prob) \div 10)
  ELSE IF n.prob > Classify(job).spot THEN 0
  ELSE Greatest(0, 100 - n.prob)

CostEfficiency(n) == 10000 \div (100 + n.cost)

SlaHeadroom(job, n) ==
  LET headroom == 100 - Utilisation(n)
  IN  IF job.type # "latency" THEN Greatest(headroom, 10)
      ELSE IF headroom < Classify(job).sla THEN 0 ELSE headroom

Prediction(job, n) ==
  Greatest(50, 100 - (n.spike * Classify(job).spike * n.trust) \div 10000)

\* CostEngine.score_node; zero is the hard gate.
ScoreNode(job, n) ==
  Reliability(job, n) * CostEfficiency(n) * SlaHeadroom(job, n) * Prediction(job, n)

-----------------------------------------------------------------------------
(* ant.py: the ants' own heuristic *)

ResourceHeadroom(job, n) ==
  Least(100, Greatest(0, Least((100 * FreeCpu(n)) \div job.cpu, (100 * FreeMem(n)) \div job.mem)))

\* Full score up to the ceiling, none from 20% above it on.
CostScore(job, n) ==
  IF n.cost <= job.ceiling THEN 100
  ELSE IF 10 * n.cost > 12 * job.ceiling THEN 0
  ELSE 100 - (500 * (n.cost - job.ceiling)) \div job.ceiling

WorkloadAffinity(job, n) ==
  IF n.arch \notin job.arches THEN 0
  ELSE IF n.arch = "gpu" /\ job.type = "batch" THEN 150
  ELSE IF n.arch = "gpu" /\ job.type = "latency" THEN 50 ELSE 100

Urgency(job) == 100 + job.priority

Heuristic(job, n) ==
  ResourceHeadroom(job, n) * CostScore(job, n) * WorkloadAffinity(job, n) * Urgency(job)

\* The row of the heuristic matrix: zero for a node the job does not fit.
EtaRow(job, nodes) ==
  [k \in DOMAIN nodes |-> IF CanFit(job, nodes[k]) THEN Heuristic(job, nodes[k]) ELSE 0]

-----------------------------------------------------------------------------
(* The choice among candidates 1..Len(row) with scores row[k] *)

AllZero(row) == \A k \in DOMAIN row : row[k] = 0

\* argmax returns the first of the greatest.
FirstBest(row) ==
  CHOOSE k \in DOMAIN row :
    /\ \A j \in DOMAIN row : row[j] <= row[k]
    /\ \A j \in 1..(k - 1) : row[j] < row[k]

\* _select_node: a candidate with a positive weight; or the first one, when the
\* uniform draw is 0.0 exactly; or the last one, when rounding leaves the sum of
\* the probabilities below the draw.
Drawable(row) ==
  IF AllZero(row) THEN {} ELSE {k \in DOMAIN row : row[k] > 0} \cup {1, Len(row)}
=============================================================================
