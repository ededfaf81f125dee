---------------------------- MODULE MCAntColony ----------------------------
(* Lists of one and two jobs, on a node of each architecture. *)
EXTENDS AntColony, TLC

Job(type, gpu, cpu, ceiling, arches) ==
  [type |-> type, gpu |-> gpu, gpuCount |-> 1, preemptible |-> FALSE, priority |-> 80,
   due |-> NoDue, cpu |-> cpu, mem |-> 4, ceiling |-> ceiling, arches |-> arches]

Node(arch, inst, cost, gpus, usedCpu) ==
  [arch |-> arch, inst |-> inst, cost |-> cost, prob |-> 0, cpu |-> 8, mem |-> 16,
   gpus |-> gpus, usedCpu |-> usedCpu, usedMem |-> 0, usedGpu |-> 0, util |-> NoReading,
   running |-> {}, spike |-> 0, trust |-> 0]

\* A job that fits everywhere; one with a ceiling below some prices, between
\* ceiling and limit for others; one bound to an architecture; one too big.
Small  == Job("batch", FALSE, 2, NoCeiling, Arches)
Thrift == Job("batch", FALSE, 2, 100, Arches)
Bound  == Job("stream", FALSE, 4, NoCeiling, {"arm"})
Serve  == Job("latency", FALSE, 4, NoCeiling, Arches)
Picky  == Job("latency", FALSE, 4, NoCeiling, {"arm"})
Big    == Job("batch", TRUE, 6, NoCeiling, Arches)

MCJobLists == {<<Small>>, <<Thrift>>, <<Serve>>, <<Picky>>, <<Big>>,
               <<Thrift, Small>>, <<Bound, Small>>, <<Big, Thrift>>}

Cluster(a, b, c) ==
  <<Node("x86", "on_demand", 100, 0, a), Node("arm", "spot", 110, 0, b), Node("gpu", "on_demand", 300, 1, c)>>

MCNodeLists == {Cluster(0, 0, 0), Cluster(5, 8, 0), Cluster(5, 8, 4)}

MCEtaRows == {<<0, 0, 3>>, <<0, 5, 0>>, <<2, 1, 2>>, <<0, 0, 0>>}
MCTauRows == {<<>>, <<0, 0, 5000>>}
============================================================================
