------------------------ MODULE MCPlacementDecision ------------------------
(* The service's own cluster in small: an on-demand x86 node, the largest, a  *)
(* spot arm node, an on-demand GPU node; each idle or with one job on it.     *)
EXTENDS PlacementDecision, TLC

Node0(arch, inst, cost, prob, cpu, gpus) ==
  [arch |-> arch, inst |-> inst, cost |-> cost, prob |-> prob, cpu |-> cpu, mem |-> cpu,
   gpus |-> gpus, usedCpu |-> 0, usedMem |-> 0, usedGpu |-> 0, util |-> NoReading,
   running |-> {}, spike |-> 0, trust |-> 0]

Busy(n, amount, type) ==
  [n EXCEPT !.usedCpu = amount, !.usedMem = amount, !.usedGpu = n.gpus, !.running = {type}]

\* As it is before the first reading, or read as all but saturated.
States(n, amount, type) ==
  {n, Busy(n, amount, type), [Busy(n, 2, "latency") EXCEPT !.usedGpu = 0, !.util = 90]}

X86 == Node0("x86", "on_demand", 48, 0, 8, 0)
Arm == Node0("arm", "spot", 12, 15, 6, 0)
Gpu == Node0("gpu", "on_demand", 320, 0, 6, 1)

MCClusters ==
  {<<x, a, g>> : x \in States(X86, 6, "batch"), a \in {Arm, Busy(Arm, 3, "stream")},
                 g \in States(Gpu, 4, "batch")}

ASSUME ServiceClusters == \A c \in MCClusters : ServiceLike(c)

Shape(gpu, gpuCount, cpu) == [gpu |-> gpu, gpuCount |-> gpuCount, cpu |-> cpu]

Shapes == {Shape(FALSE, 1, 3), Shape(FALSE, 1, 7), Shape(TRUE, 1, 2), Shape(TRUE, 2, 2), Shape(TRUE, 1, 7)}

JobOf(type, s, preemptible, due) ==
  [type |-> type, gpu |-> s.gpu, gpuCount |-> s.gpuCount, preemptible |-> preemptible,
   priority |-> 80, due |-> due, cpu |-> s.cpu, mem |-> s.cpu, ceiling |-> NoCeiling,
   arches |-> Arches]

MCJobSet ==
  {JobOf(t, s, p, d) : t \in Types, s \in Shapes, p \in BOOLEAN, d \in {NoDue, 30}}
    \cup {[JobOf("latency", s, FALSE, NoDue) EXCEPT !.priority = 79] : s \in Shapes}
    \cup {JobOf("batch", s, FALSE, 0) : s \in Shapes}
    \cup {JobOf("batch", Shape(FALSE, 2, 3), FALSE, NoDue), JobOf("stream", Shape(FALSE, 1, 9), FALSE, NoDue)}

MCSpike == [spike |-> 90, trust |-> 80]
============================================================================
