-------------------------- MODULE PlacementDecision --------------------------
(***************************************************************************)
(* One decision of submit_job: admission, classification, aco_schedule with*)
(* its filter, its scores and its three ways to choose, and what becomes of*)
(* a job that cannot be placed.                                            *)
(*                                                                         *)
(* The caller holds the service's lock, which the telemetry of a node is   *)
(* written under, too.  Meanwhile the event loop completes jobs without it *)
(* (the amounts are released first, then the workload type leaves the list *)
(* the map shares with its copy), and the telemetry thread replaces entries*)
(* of the prediction cache, which is passed by reference.  So the filter   *)
(* and the scores are taken node by node.                                  *)
(*                                                                         *)
(* The colony is what ColonyPromise says of it.  The node pheromone is     *)
(* handed to it and never read.                                            *)
(***************************************************************************)
EXTENDS PlacementRules, FiniteSets

CONSTANTS
  JobSet,    \* the jobs submitted
  Clusters,  \* node lists, in the order of node_state
  Spike      \* [spike, trust]: a prediction a refit may come to

ASSUME DecisionAssumption ==
  /\ JobSet \subseteq JobRequest
  /\ Clusters \subseteq Seq(ComputeNode)
  /\ Spike.spike \in 0..100 /\ Spike.trust \in 0..100

VARIABLES
  job,
  nodes,
  pc,        \* "admit", "filter", "score", "choose", "naive", "refused", "done"
  k,         \* the node the loop has reached
  feasible,  \* feasible_nodes, as positions in nodes
  eta,       \* the scores so far
  chosen,    \* the position of the selected node, 0 for none
  outcome,   \* "none", "SCHEDULED", "QUEUED", "REJECTED"
  via,       \* history: what made the choice
  roomy      \* history: the nodes that passed the filter's test at its start

locals == <<job, k, feasible, eta>>
vars == <<job, nodes, pc, k, feasible, eta, chosen, outcome, via, roomy>>

TypeOK ==
  /\ job \in JobSet /\ nodes \in Seq(ComputeNode)
  /\ pc \in {"admit", "filter", "score", "choose", "naive", "refused", "done"}
  /\ k \in 1..(Len(nodes) + 1)
  /\ feasible \in Seq(DOMAIN nodes)
  /\ eta \in Seq(Nat) /\ Len(eta) <= Len(feasible)
  /\ chosen \in 0..Len(nodes)
  /\ outcome \in {"none", "SCHEDULED", "QUEUED", "REJECTED"}
  /\ (outcome = "SCHEDULED") = (chosen # 0)
  /\ via \in {"none", "fast", "colony", "naive"}
  /\ roomy \subseteq DOMAIN nodes

Init ==
  /\ job \in JobSet /\ nodes \in Clusters
  /\ pc = "admit" /\ k = 1
  /\ feasible = <<>> /\ eta = <<>>
  /\ chosen = 0 /\ outcome = "none"
  /\ via = "none" /\ roomy = {}

-----------------------------------------------------------------------------
(* submit_job and aco_schedule *)

Suits(i) == CanFit(job, nodes[i]) /\ Matches(job, nodes[i])

Refuse(result) ==
  /\ pc' = "done" /\ outcome' = result
  /\ UNCHANGED <<locals, nodes, chosen, via, roomy>>

Select(i, how) ==
  /\ pc' = "done" /\ outcome' = "SCHEDULED"
  /\ chosen' = i /\ via' = how
  /\ UNCHANGED <<locals, nodes, roomy>>

Reject == pc = "admit" /\ ~Admissible(job) /\ Refuse("REJECTED")

Admit ==
  /\ pc = "admit" /\ Admissible(job)
  /\ pc' = "filter"
  /\ roomy' = {i \in DOMAIN nodes : Suits(i)}
  /\ UNCHANGED <<locals, nodes, chosen, outcome, via>>

\* (Bug: nodes that are running avoided types are filtered out for good.)
FilterAvoiding ==
  /\ pc = "filter" /\ k <= Len(nodes)
  /\ feasible' = IF Suits(k) /\ nodes[k].running \cap Classify(job).avoid = {}
                 THEN Append(feasible, k) ELSE feasible
  /\ k' = k + 1
  /\ UNCHANGED <<job, nodes, pc, eta, chosen, outcome, via, roomy>>

Filter ==
  /\ pc = "filter" /\ k <= Len(nodes)
  /\ feasible' = IF Suits(k) THEN Append(feasible, k) ELSE feasible
  /\ k' = k + 1
  /\ UNCHANGED <<job, nodes, pc, eta, chosen, outcome, via, roomy>>

Filtered ==
  /\ pc = "filter" /\ k > Len(nodes)
  /\ pc' = IF feasible = <<>> THEN "refused" ELSE "score"
  /\ k' = 1
  /\ UNCHANGED <<job, nodes, feasible, eta, chosen, outcome, via, roomy>>

\* A node with a neighbour to be avoided gets zero, the others the cost
\* engine's score.
Score ==
  /\ pc = "score" /\ k <= Len(feasible)
  /\ LET n == nodes[feasible[k]]
     IN  eta' = Append(eta, IF n.running \cap Classify(job).avoid # {} THEN 0
                            ELSE ScoreNode(job, n))
  /\ k' = k + 1
  /\ UNCHANGED <<job, nodes, pc, feasible, chosen, outcome, via, roomy>>

Scored ==
  /\ pc = "score" /\ k > Len(feasible)
  /\ pc' = IF AllZero(eta) THEN "naive" ELSE "choose"
  /\ UNCHANGED <<locals, nodes, chosen, outcome, via, roomy>>

Hurried == job.type = "latency" \/ Classify(job).fast

\* (Bug: the first feasible node instead of the best.)
ChooseFastFirst ==
  /\ pc = "choose" /\ Hurried
  /\ Select(feasible[1], "fast")

ChooseFast ==
  /\ pc = "choose" /\ Hurried
  /\ Select(feasible[FirstBest(eta)], "fast")

\* The scores are not all zero, so the colony does not fail.
ChooseByColony ==
  /\ pc = "choose" /\ ~Hurried
  /\ \E d \in Drawable(eta) : Select(feasible[d], "colony")

FirstFit(candidates) ==
  LET fits == {i \in DOMAIN candidates : CanFit(job, nodes[candidates[i]])}
  IN  candidates[CHOOSE i \in fits : \A j \in fits : i <= j]

\* (Bug: any node the job fits on.)
ChooseNaivelyFromAll ==
  /\ pc = "naive"
  /\ Select(FirstFit([i \in DOMAIN nodes |-> i]), "naive")

\* The hard gate is a last word only while some node is open: when all are
\* gated, the first that fits is taken.  What fitted before still fits.
ChooseNaively ==
  /\ pc = "naive"
  /\ Select(FirstFit(feasible), "naive")

\* SchedulingFailedError in submit_job, with room in the queue.
Estimate ==
  /\ pc = "refused"
  /\ Refuse(IF \E i \in DOMAIN nodes : CouldEverFit(job, nodes[i]) THEN "QUEUED" ELSE "REJECTED")

-----------------------------------------------------------------------------
(* Meanwhile *)

\* complete_job gives back what the jobs of a node hold ...
Release(i) ==
  /\ nodes[i] # Idle(nodes[i])
  /\ nodes' = [nodes EXCEPT ![i] = Idle(nodes[i])]
  /\ UNCHANGED <<locals, pc, chosen, outcome, via, roomy>>

\* ... and then takes them out of the map of workload types.
Forget(i) ==
  /\ nodes[i] = Idle(nodes[i]) /\ nodes[i].running # {}
  /\ nodes' = [nodes EXCEPT ![i].running = {}]
  /\ UNCHANGED <<locals, pc, chosen, outcome, via, roomy>>

\* The collector's refit writes a new prediction.
Refit(i) ==
  /\ nodes[i].spike # Spike.spike
  /\ nodes' = [nodes EXCEPT ![i].spike = Spike.spike, ![i].trust = Spike.trust]
  /\ UNCHANGED <<locals, pc, chosen, outcome, via, roomy>>

Decide == \/ Reject \/ Admit \/ Filter \/ Filtered \/ Score \/ Scored
          \/ ChooseFast \/ ChooseByColony \/ ChooseNaively \/ Estimate

Next == Decide \/ \E i \in DOMAIN nodes : Release(i) \/ Forget(i) \/ Refit(i)

Spec == Init /\ [][Next]_vars
-----------------------------------------------------------------------------
(* What a decision guarantees *)

\* What the cluster of _initialize_mock_nodes has: an on-demand x86 node that is
\* as large as any, and an on-demand GPU node as large as any with GPUs.
ServiceLike(c) ==
  /\ \E b \in DOMAIN c :
       /\ c[b].arch = "x86" /\ c[b].inst = "on_demand"
       /\ \A i \in DOMAIN c : c[i].cpu <= c[b].cpu /\ c[i].mem <= c[b].mem
  /\ \E g \in DOMAIN c :
       /\ c[g].arch = "gpu" /\ c[g].inst = "on_demand"
       /\ \A i \in DOMAIN c : c[i].gpus > 0 =>
            c[i].cpu <= c[g].cpu /\ c[i].mem <= c[g].mem /\ c[i].gpus <= c[g].gpus

Placed == outcome = "SCHEDULED"
Node   == nodes[chosen]

\* A placed job fits its node at the moment of the answer and from then on, and
\* the node is one the strategy asks for, by whatever fallback it was found:
\* the filter read the nodes one by one while others were being freed.
PlacedNodeSuits == Placed => Suits(chosen)

\* No job is refused that some node could have taken when the search began,
\* whatever neighbours, readings and predictions that node has: these only rank.
RefusedOnlyWithoutRoom ==
  pc = "refused" \/ outcome = "QUEUED" => roomy = {}

\* A job that serves requests or keeps state is never put on a spot instance,
\* nor one that serves without a GPU on a GPU node, not even as a last resort.
NoEvictionRisk ==
  Placed /\ (job.type = "latency" \/ (job.type = "stream" /\ ~job.preemptible)) =>
    /\ Node.inst = "on_demand"
    /\ job.type = "latency" => (Node.arch = "gpu") = job.gpu

\* A gated node is taken only when every feasible node is gated, or by an ant's
\* draw at the edge of its range; the fast path takes a best one.
GatedIsLastResort ==
  Placed /\ ~AllZero(eta) =>
    \E d \in DOMAIN feasible :
      /\ feasible[d] = chosen
      /\ via = "fast" => \A e \in DOMAIN eta : eta[e] <= eta[d]
      /\ via = "colony" /\ eta[d] = 0 => d \in {1, Len(eta)}

\* A job close to its deadline is placed without the ants, and beside batch or
\* stream work only when every feasible node was closed to it.
UrgentKeepsApart ==
  Placed /\ Urgent(job) =>
    /\ via # "colony"
    /\ Node.running \cap {"batch", "stream"} # {} => AllZero(eta)

\* A queued job has a node to wait for, or it wants GPUs: the estimate after a
\* failed search does not look at the strategy, nor at the number of GPUs, so
\* preemptible GPU jobs, and those that want more GPUs than any node has, are
\* queued though no node will ever take them.  (That no other job is, holds
\* of clusters that are ServiceLike.)
OnlyGpuJobsWaitInVain ==
  outcome = "QUEUED" =>
    \/ \E i \in DOMAIN nodes : Matches(job, nodes[i]) /\ CanFit(job, Idle(nodes[i]))
    \/ job.gpu /\ (job.preemptible \/ \A i \in DOMAIN nodes : nodes[i].gpus < job.gpuCount)
=============================================================================
