------------------------------ MODULE Extender ------------------------------
(***************************************************************************)
(* The Kubernetes scheduler extender: /filter, /prioritize and /reset, and *)
(* the pheromone tables they keep in memory, one for each tenant.  A       *)
(* handler has no await, so each is one step.  kube-scheduler (external)   *)
(* asks it to filter the candidates of a pod and then to rank what is left.*)
(*                                                                         *)
(* A quantity is [n, unit] or Absent; unit "bad" stands for text no parser *)
(* takes.  CPU is counted in thousandths of a core, memory in 1/1024 of a  *)
(* GB, scores in percent and levels in hundredths, rounded down; a deposit *)
(* is rounded up, since it is never nothing.                               *)
(*                                                                         *)
(* The other service that scores for kube-scheduler is SidecarScoring; the *)
(* names here that a specification of any component has carry Ext, so that *)
(* both can be extended.                                                   *)
(***************************************************************************)
EXTENDS PlacementRules, FiniteSets, SequencesExt

CONSTANTS
  Pods,      \* pods: [containers, hint, tenant], containers [cpu, mem, gpu]
  Lists,     \* candidates: sequences of nodes [name, cpu, mem, gpu, count, price, spot]
  Names,     \* names of nodes
  Tenants,   \* values of the label aco/tenant
  Absent,    \* no quantity or label
  Keep,      \* 100 - _EVAPORATION, in percent
  MaxRankings \* bound: calls of /prioritize

Amount    == [n : Nat, unit : STRING] \cup {Absent}
PodInfo   == [containers : Seq([cpu : Amount, mem : Amount, gpu : BOOLEAN]),
              hint : STRING, tenant : Tenants]
Candidate == [name : Names, cpu : Amount, mem : Amount, gpu : STRING, count : STRING,
              price : Int, spot : BOOLEAN]

\* Keep divides so that rounding a level down never costs a winner more than
\* what the least deposit brings.  A node is listed once: Kubernetes' names of
\* nodes are unique.
ASSUME ExtenderAssumption ==
  /\ Keep \in 50..99 /\ 100 % (100 - Keep) = 0 /\ MaxRankings \in Nat
  /\ Pods \subseteq PodInfo /\ Lists \subseteq Seq(Candidate)
  /\ \A nodes \in Lists : \A i, j \in DOMAIN nodes : nodes[i].name = nodes[j].name => i = j
  /\ Absent \notin Tenants

-----------------------------------------------------------------------------
(* Parsing *)

Bad(q) == q # Absent /\ q.unit = "bad"

ParseCpu(q) == IF q = Absent THEN 0 ELSE IF q.unit = "m" THEN q.n ELSE 1000 * q.n

\* A G counts as a Gi, an M and a K as decimal parts of it.
ParseMemory(q) ==
  IF q = Absent THEN 0
  ELSE CASE q.unit = "Ki"        -> q.n \div 1024
         [] q.unit = "Mi"        -> q.n
         [] q.unit \in {"Gi", "G"} -> 1024 * q.n
         [] q.unit = "Ti"        -> 1048576 * q.n
         [] q.unit = "M"         -> (1024 * q.n) \div 1000
         [] q.unit = "K"         -> (1024 * q.n) \div 1000000
         [] OTHER                -> q.n \div 1048576

SumOf(s) == FoldSeq(LAMBDA x, y : x + y, 0, s)

\* _pod_resources
PodCpu(pod) == SumOf([i \in DOMAIN pod.containers |-> ParseCpu(pod.containers[i].cpu)])
PodMem(pod) == SumOf([i \in DOMAIN pod.containers |-> ParseMemory(pod.containers[i].mem)])
PodGpu(pod) == \E i \in DOMAIN pod.containers : pod.containers[i].gpu
BadPod(pod) == \E i \in DOMAIN pod.containers :
                 Bad(pod.containers[i].cpu) \/ Bad(pod.containers[i].mem)

\* "or 4.0", "or 8.0": a node that states nothing, or zero.
NodeCpu(n) == IF ParseCpu(n.cpu) = 0 THEN 4000 ELSE ParseCpu(n.cpu)
NodeMem(n) == IF ParseMemory(n.mem) = 0 THEN 8192 ELSE ParseMemory(n.mem)
BadAmounts(n) == Bad(n.cpu) \/ Bad(n.mem)

-----------------------------------------------------------------------------
(* Scoring *)

\* _node_to_state: int() and float() of labels, and a validated price; the
\* label of the price is in cents, or Absent.
BadNode(n) == BadAmounts(n) \/ (n.gpu # "none" /\ n.count = "bad") \/ n.price < 0
Price(n) == n.price

\* score_node without a prediction and for an idle node, with the engine's own
\* threshold for spot nodes, which their 10% never passes. From about a hundred
\* dollars an hour on a score is below one percent, and counts as none here; the
\* label "inf" makes it exactly that.
Score(pod, n) ==
  LET r == IF ~n.spot THEN 100 ELSE IF pod.hint = "latency-critical" THEN 90 ELSE 97
  IN  (r * CostEfficiency([cost |-> Price(n)])) \div 100

Level(t, name) == IF name \in DOMAIN t THEN t[name] ELSE 100

EvaporatedLevel(v) == Greatest(1, (v * Keep) \div 100)

\* (Bug: the first node is evaporated twice.)
EvaporateFirstTwice(t, nodes) ==
  LET listed == {nodes[i].name : i \in DOMAIN nodes}
  IN  [name \in DOMAIN t \cup listed |->
         IF name = nodes[1].name THEN EvaporatedLevel(EvaporatedLevel(Level(t, name)))
         ELSE IF name \in listed THEN EvaporatedLevel(Level(t, name)) ELSE t[name]]

\* _evaporate_pheromone: the nodes that are listed, not all the table knows.
Evaporate(t, nodes) ==
  LET listed == {nodes[i].name : i \in DOMAIN nodes}
  IN  [name \in DOMAIN t \cup listed |->
         IF name \in listed THEN EvaporatedLevel(Level(t, name)) ELSE t[name]]

\* The product with the level, in hundredths of a percent.
Raw(pod, t, n) == Score(pod, n) * Level(t, n.name)

\* max() over the dict takes the first of the greatest.
Best(pod, t, nodes) == FirstBest([i \in DOMAIN nodes |-> Raw(pod, t, nodes[i])])

\* A deposit of 1.0 in hundredths, on a product in hundredths of a percent.
Quantum == 100 * 10000

\* Quantum over a divisor, rounded up.
Share(divisor) == (Quantum + divisor - 1) \div divisor

\* (Bug: the product is the divisor without a bound.)
DepositFreely(raw) == Share(Greatest(raw, 1))

\* Q / max(score, 0.01): the better the score, the smaller the deposit.
DepositOf(raw) == Share(Greatest(raw, 100))

\* round(raw / max(max, 1e-9) * 10)
Ranked(pod, t, nodes) ==
  LET top == Greatest(1, Raw(pod, t, nodes[Best(pod, t, nodes)]))
  IN  [i \in DOMAIN nodes |-> (20 * Raw(pod, t, nodes[i]) + top) \div (2 * top)]
-----------------------------------------------------------------------------
VARIABLES
  table,   \* _pheromone: a table of levels for each tenant
  cycle,   \* the scheduling cycle: [step, pod, nodes]
  reply,   \* the last answer: [kind, ...]
  last,    \* history: the last ranking whose table has not been touched since
  rankings \* calls of /prioritize

extVars == <<table, cycle, reply, last, rankings>>

Empty    == [name \in {} |-> 0]
NoCycle  == [step |-> "idle"]
NoReply  == [kind |-> "none"]
Unranked == [tenant |-> Absent]

ExtTypeOK ==
  /\ \A t \in Tenants : DOMAIN table[t] \subseteq Names
  /\ \A t \in Tenants : \A name \in DOMAIN table[t] : table[t][name] \in Nat \ {0}
  /\ cycle.step \in {"idle", "filter", "prioritize"}
  /\ cycle.step = "prioritize" => cycle.nodes # <<>>
  /\ reply.kind \in {"none", "viable", "scores", "error"}
  /\ last.tenant \in Tenants \cup {Absent} /\ rankings \in 0..MaxRankings

ExtInit ==
  /\ table = [t \in Tenants |-> Empty]
  /\ cycle = NoCycle /\ reply = NoReply /\ last = Unranked /\ rankings = 0

-----------------------------------------------------------------------------
(* kube-scheduler *)

Begin(pod, nodes) ==
  /\ cycle.step = "idle"
  /\ cycle' = [step |-> "filter", pod |-> pod, nodes |-> nodes]
  /\ UNCHANGED <<table, reply, last, rankings>>

-----------------------------------------------------------------------------
(* Handlers *)

\* The checks of filter_nodes; the label is compared as it is written.
Viable(pod, n) ==
  /\ PodCpu(pod) <= NodeCpu(n) /\ PodMem(pod) <= NodeMem(n)
  /\ PodGpu(pod) => n.gpu # "none"

\* The candidates that pass them, in their order.
ViableNodes(pod, nodes) ==
  LET kept[i \in 0..Len(nodes)] ==
        IF i = 0 THEN <<>>
        ELSE IF Viable(pod, nodes[i]) THEN Append(kept[i - 1], nodes[i]) ELSE kept[i - 1]
  IN  kept[Len(nodes)]

\* (Bug: also without a candidate.)
AfterFilterAlways(viable) == [cycle EXCEPT !.step = "prioritize", !.nodes = viable]

\* kube-scheduler has the rest ranked, if there is one.
AfterFilter(viable) ==
  IF viable = <<>> THEN NoCycle
                   ELSE [cycle EXCEPT !.step = "prioritize", !.nodes = viable]

\* One malformed quantity, in the pod or in any node, is an error (HTTP 500);
\* otherwise the cycle goes on with the nodes that are viable, if there are any.
Filter ==
  /\ cycle.step = "filter"
  /\ LET viable == ViableNodes(cycle.pod, cycle.nodes) IN
       IF BadPod(cycle.pod) \/ \E i \in DOMAIN cycle.nodes : BadAmounts(cycle.nodes[i])
       THEN reply' = [kind |-> "error"] /\ cycle' = NoCycle
       ELSE /\ reply' = [kind |-> "viable", pod |-> cycle.pod, nodes |-> viable]
            /\ cycle' = AfterFilter(viable)
  /\ UNCHANGED <<table, last, rankings>>

\* The deposit on the best, and the ranking.
Rank(pod, nodes, t) ==
  LET b    == Best(pod, t, nodes)
      name == nodes[b].name
      t2   == [t EXCEPT ![name] = @ + DepositOf(Raw(pod, t, nodes[b]))]
  IN  /\ table' = [table EXCEPT ![pod.tenant] = t2]
      /\ reply' = [kind |-> "scores", pod |-> pod, nodes |-> nodes,
                   scores |-> Ranked(pod, t, nodes)]
      /\ last' = [tenant |-> pod.tenant, pod |-> pod, nodes |-> nodes, best |-> name]

\* A node whose labels do not parse is an error that leaves the table
\* evaporated: evaporation comes first, and the conversion is outside the try.
Prioritize ==
  /\ cycle.step = "prioritize" /\ rankings < MaxRankings
  /\ rankings' = rankings + 1 /\ cycle' = NoCycle
  /\ LET pod == cycle.pod
         t   == Evaporate(table[pod.tenant], cycle.nodes)
     IN  IF \E i \in DOMAIN cycle.nodes : BadNode(cycle.nodes[i])
         THEN /\ table' = [table EXCEPT ![pod.tenant] = t]
              /\ reply' = [kind |-> "error"]
              /\ last' = IF last.tenant = pod.tenant THEN Unranked ELSE last
         ELSE Rank(pod, cycle.nodes, t)

\* /reset, of one tenant or of all.
Reset(ts) ==
  /\ table' = [t \in Tenants |-> IF t \in ts THEN Empty ELSE table[t]]
  /\ last' = IF last.tenant \in ts THEN Unranked ELSE last
  /\ UNCHANGED <<cycle, reply, rankings>>

ExtNext ==
  \/ \E pod \in Pods, nodes \in Lists : Begin(pod, nodes)
  \/ Filter \/ Prioritize
  \/ \E t \in Tenants : Reset({t})
  \/ Reset(Tenants)

ExtSpec == ExtInit /\ [][ExtNext]_extVars
-----------------------------------------------------------------------------
(* What the extender guarantees *)

\* The level at which evaporation takes what the largest deposit brings, a
\* hundred times a new node's level: with the code's 5 percent 2000.
Saturation == 10000 * (100 \div (100 - Keep))

\* Every level stays between the floor and that level, although deposits have no
\* ceiling, a node may score nothing again and again, and its price may change
\* from one ranking to the next: what a node that is ranked gains at most, it
\* loses at the next evaporation (_evaporate_pheromone, _deposit_pheromone).
LevelsBounded ==
  \A t \in Tenants : \A name \in DOMAIN table[t] : table[t][name] \in 1..Saturation

\* A node that has won wins again when the same pod and candidates come back:
\* evaporation and the inverse deposit never make a winner lose to a node it
\* has just beaten.
WinnersStay ==
  [][ last # Unranked /\ last'.tenant = last.tenant /\ last' # Unranked
        /\ last'.pod = last.pod /\ last'.nodes = last.nodes => last'.best = last.best ]_extVars
=============================================================================
