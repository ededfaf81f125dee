----------------------- MODULE PlacementDecisionProofs -----------------------
(***************************************************************************)
(* For every job, every cluster and every prediction: a decision places a  *)
(* job on a node that suits it, refuses none that had room, and takes a    *)
(* gated node last.                                                        *)
(*                                                                         *)
(* The filter and the scores read the nodes one by one while other threads *)
(* change them.  The argument: what others do to a node can only make room *)
(* on it and take neighbours away (Kinder), so what the loops have found   *)
(* out about the nodes behind them stays true (Stable).                    *)
(***************************************************************************)
EXTENDS PlacementDecision, LedgerSumsTheorems, SequenceTheorems

-----------------------------------------------------------------------------
(* The rules *)

LEMMA ProductNat == ASSUME NEW a \in Nat, NEW b \in Nat PROVE a * b \in Nat
  OBVIOUS

LEMMA ClassifyFacts ==
  ASSUME NEW j \in JobRequest
  PROVE  /\ Classify(j).sla \in Nat \ {0} /\ Classify(j).spike \in Nat
         /\ Classify(j).arches = BaseStrategy(j).arches
         /\ Classify(j).insts = BaseStrategy(j).insts
         /\ Urgent(j) => Classify(j).fast /\ {"batch", "stream"} \subseteq Classify(j).avoid
<1>1. BaseStrategy(j) \in {GpuInference, CpuServing, GpuTraining, PreemptibleActor,
                           StatefulStream, Generic}
  BY DEF JobRequest, BaseStrategy, Types
<1> DEFINE Strategies == [arches : SUBSET Arches, insts : SUBSET Instances, fast : BOOLEAN,
                          sla : 1..30, spike : Nat, spot : Nat, avoid : SUBSET Types]
<1>2. BaseStrategy(j) \in Strategies
  <2>1. GpuInference \in Strategies
    BY DEF GpuInference, Strategy, Arches, Instances, Types
  <2>2. CpuServing \in Strategies
    BY DEF CpuServing, Strategy, Arches, Instances, Types
  <2>3. GpuTraining \in Strategies
    BY DEF GpuTraining, Strategy, Arches, Instances, Types
  <2>4. PreemptibleActor \in Strategies
    BY DEF PreemptibleActor, Strategy, Arches, Instances, Types
  <2>5. StatefulStream \in Strategies
    BY DEF StatefulStream, Strategy, Arches, Instances, Types
  <2>6. Generic \in Strategies
    BY DEF Generic, Strategy, Arches, Instances, Types
  <2> HIDE DEF Strategies
  <2>7. QED BY <1>1, <2>1, <2>2, <2>3, <2>4, <2>5, <2>6
<1>3. QED BY <1>2 DEF Classify, Least

\* The cost engine never scores below zero, not even on a node that is in use
\* beyond what it has.
LEMMA ScoreNat ==
  ASSUME NEW j \in JobRequest, NEW n \in ComputeNode
  PROVE  ScoreNode(j, n) \in Nat
<1>1. Reliability(j, n) \in Nat
  <2>1. n.prob \in 0..100
    BY DEF ComputeNode
  <2>2. (3 * n.prob) \div 10 \in Int
    BY <2>1
  <2>3. QED BY <2>1, <2>2 DEF Reliability, Greatest
<1>2. CostEfficiency(n) \in Nat
  <2>1. n.cost \in Nat
    BY DEF ComputeNode
  <2>2. QED BY <2>1 DEF CostEfficiency
<1>3. SlaHeadroom(j, n) \in Nat
  <2>1. Utilisation(n) \in Int
    BY DEF ComputeNode, Utilisation, NoReading
  <2>2. Classify(j).sla \in Nat
    BY ClassifyFacts
  <2>3. QED BY <2>1, <2>2 DEF SlaHeadroom, Greatest
<1>4. Prediction(j, n) \in Nat
  <2>1. n.spike \in Nat /\ n.trust \in Nat /\ Classify(j).spike \in Nat
    BY ClassifyFacts DEF ComputeNode
  <2>2. n.spike * Classify(j).spike \in Nat
    BY <2>1, ProductNat
  <2>3. n.spike * Classify(j).spike * n.trust \in Nat
    BY <2>1, <2>2, ProductNat
  <2>4. (n.spike * Classify(j).spike * n.trust) \div 10000 \in Int
    BY <2>3
  <2>5. QED BY <2>4 DEF Prediction, Greatest
<1>5. Reliability(j, n) * CostEfficiency(n) \in Nat
  BY <1>1, <1>2, ProductNat
<1>6. Reliability(j, n) * CostEfficiency(n) * SlaHeadroom(j, n) \in Nat
  BY <1>3, <1>5, ProductNat
<1>7. QED BY <1>4, <1>6, ProductNat DEF ScoreNode

\* argmax of a row of naturals that is not all zero.
LEMMA FirstBestIsBest ==
  ASSUME NEW row \in Seq(Nat), ~AllZero(row)
  PROVE  /\ FirstBest(row) \in DOMAIN row
         /\ \A d \in DOMAIN row : row[d] <= row[FirstBest(row)]
         /\ row[FirstBest(row)] > 0
<1>1. PICK d \in DOMAIN row : row[d] # 0
  BY DEF AllZero
<1>2. DOMAIN row = 1..Len(row) /\ Len(row) \in Nat \ {0} /\ row \in [1..Len(row) -> Int]
  BY <1>1
<1>3. \E b \in DOMAIN row : /\ \A j \in DOMAIN row : row[j] <= row[b]
                            /\ \A j \in 1..(b - 1) : row[j] < row[b]
  BY <1>2, FirstGreatest
<1>4. FirstBest(row) \in DOMAIN row /\ \A j \in DOMAIN row : row[j] <= row[FirstBest(row)]
  BY <1>3 DEF FirstBest
<1>5. row[d] \in Nat /\ row[FirstBest(row)] \in Nat /\ row[d] <= row[FirstBest(row)]
  BY <1>1, <1>4
<1>6. QED BY <1>1, <1>4, <1>5

LEMMA FirstFitFits ==
  ASSUME NEW c \in Seq(DOMAIN nodes), NEW e \in DOMAIN c, CanFit(job, nodes[c[e]])
  PROVE  \E d \in DOMAIN c : FirstFit(c) = c[d] /\ CanFit(job, nodes[c[d]])
<1> DEFINE fits == {i \in DOMAIN c : CanFit(job, nodes[c[i]])}
<1>1. fits # {} /\ fits \subseteq Nat
  OBVIOUS
<1>2. \E i \in fits : \A j \in fits : i <= j
  BY <1>1, LeastElement
<1>3. (CHOOSE i \in fits : \A j \in fits : i <= j) \in fits
  BY <1>2
<1>4. QED BY <1>3 DEF FirstFit

-----------------------------------------------------------------------------
(* What others do to the nodes meanwhile *)

\* The same node with no more in use on it and no new neighbours.
Kinder(n, m) ==
  /\ m.arch = n.arch /\ m.inst = n.inst
  /\ m.cpu = n.cpu /\ m.mem = n.mem /\ m.gpus = n.gpus
  /\ m.usedCpu <= n.usedCpu /\ m.usedMem <= n.usedMem /\ m.usedGpu <= n.usedGpu
  /\ m.running \subseteq n.running

LEMMA KinderSuits ==
  ASSUME NEW j \in JobRequest, NEW n \in ComputeNode, NEW m \in ComputeNode,
         Kinder(n, m), CanFit(j, n), Matches(j, n)
  PROVE  CanFit(j, m) /\ Matches(j, m)
<1>1. Matches(j, m)
  BY DEF Matches, Kinder
<1>2. CanFit(j, m)
  BY DEF CanFit, FreeCpu, FreeMem, Kinder, ComputeNode, JobRequest
<1>3. QED BY <1>1, <1>2

LEMMA KindChanges ==
  ASSUME NEW n \in ComputeNode
  PROVE  /\ Kinder(n, n)
         /\ Idle(n) \in ComputeNode /\ Kinder(n, Idle(n))
         /\ [n EXCEPT !.running = {}] \in ComputeNode
         /\ Kinder(n, [n EXCEPT !.running = {}])
         /\ [n EXCEPT !.spike = Spike.spike, !.trust = Spike.trust] \in ComputeNode
         /\ Kinder(n, [n EXCEPT !.spike = Spike.spike, !.trust = Spike.trust])
<1>1. /\ n.usedCpu <= n.usedCpu /\ n.usedMem <= n.usedMem /\ n.usedGpu <= n.usedGpu
      /\ 0 <= n.usedCpu /\ 0 <= n.usedMem /\ 0 <= n.usedGpu
  BY DEF ComputeNode
<1>2. Kinder(n, n)
  BY <1>1 DEF Kinder
<1>3. Idle(n) \in ComputeNode
  BY DEF Idle, ComputeNode
<1>4. Kinder(n, Idle(n))
  <2> DEFINE m == Idle(n)
  <2>1. /\ m.arch = n.arch /\ m.inst = n.inst /\ m.cpu = n.cpu /\ m.mem = n.mem
        /\ m.gpus = n.gpus /\ m.running = n.running
        /\ m.usedCpu = 0 /\ m.usedMem = 0 /\ m.usedGpu = 0
    BY DEF Idle, ComputeNode
  <2>2. Kinder(n, m)
    BY <1>1, <2>1 DEF Kinder
  <2>3. QED BY <2>2
<1>5. [n EXCEPT !.running = {}] \in ComputeNode
  BY DEF ComputeNode
<1>6. Kinder(n, [n EXCEPT !.running = {}])
  <2> DEFINE m == [n EXCEPT !.running = {}]
  <2>1. /\ m.arch = n.arch /\ m.inst = n.inst /\ m.cpu = n.cpu /\ m.mem = n.mem
        /\ m.gpus = n.gpus /\ m.running = {}
        /\ m.usedCpu = n.usedCpu /\ m.usedMem = n.usedMem /\ m.usedGpu = n.usedGpu
    BY DEF ComputeNode
  <2> HIDE DEF m
  <2>2. QED BY <1>1, <2>1 DEF Kinder
<1>7. [n EXCEPT !.spike = Spike.spike, !.trust = Spike.trust] \in ComputeNode
  BY DecisionAssumption DEF ComputeNode
<1>8. Kinder(n, [n EXCEPT !.spike = Spike.spike, !.trust = Spike.trust])
  <2> DEFINE m == [n EXCEPT !.spike = Spike.spike, !.trust = Spike.trust]
  <2>1. /\ m.arch = n.arch /\ m.inst = n.inst /\ m.cpu = n.cpu /\ m.mem = n.mem
        /\ m.gpus = n.gpus /\ m.running = n.running
        /\ m.usedCpu = n.usedCpu /\ m.usedMem = n.usedMem /\ m.usedGpu = n.usedGpu
    BY DEF ComputeNode
  <2> HIDE DEF m
  <2>2. QED BY <1>1, <2>1 DEF Kinder
<1>9. QED BY <1>2, <1>3, <1>4, <1>5, <1>6, <1>7, <1>8

LEMMA OthersAreKind ==
  ASSUME nodes \in Seq(ComputeNode), NEW i \in DOMAIN nodes,
         Release(i) \/ Forget(i) \/ Refit(i)
  PROVE  /\ nodes' \in Seq(ComputeNode) /\ Len(nodes') = Len(nodes)
         /\ \A x \in DOMAIN nodes : Kinder(nodes[x], nodes'[x])
         /\ UNCHANGED <<job, k, feasible, eta, pc, chosen, outcome, via, roomy>>
<1> DEFINE n == nodes[i]
<1>1. n \in ComputeNode /\ \A x \in DOMAIN nodes : nodes[x] \in ComputeNode
  OBVIOUS
<1>2. PICK m : nodes' = [nodes EXCEPT ![i] = m] /\ m \in ComputeNode /\ Kinder(n, m)
  <2>1. CASE Release(i)
    <3>1. Idle(n) \in ComputeNode /\ Kinder(n, Idle(n))
      BY <1>1, KindChanges
    <3>2. QED BY <2>1, <3>1 DEF Release
  <2>2. CASE Forget(i)
    <3> DEFINE m == [n EXCEPT !.running = {}]
    <3>1. m \in ComputeNode /\ Kinder(n, m)
      BY <1>1, KindChanges
    <3>2. nodes' = [nodes EXCEPT ![i] = m]
      BY <2>2 DEF Forget
    <3>3. QED BY <3>1, <3>2
  <2>3. CASE Refit(i)
    <3> DEFINE m == [n EXCEPT !.spike = Spike.spike, !.trust = Spike.trust]
    <3>1. m \in ComputeNode /\ Kinder(n, m)
      BY <1>1, KindChanges
    <3>2. nodes' = [nodes EXCEPT ![i] = m]
      BY <2>3 DEF Refit
    <3>3. QED BY <3>1, <3>2
  <2>4. QED BY <2>1, <2>2, <2>3
<1>3. nodes' \in Seq(ComputeNode) /\ Len(nodes') = Len(nodes)
  BY <1>2, ExceptSeq
<1>4. \A x \in DOMAIN nodes : Kinder(nodes[x], nodes'[x])
  <2>1. ASSUME NEW x \in DOMAIN nodes PROVE Kinder(nodes[x], nodes'[x])
    <3>1. CASE x = i
      BY <1>2, <3>1
    <3>2. CASE x # i
      <4>1. nodes'[x] = nodes[x]
        BY <1>2, <3>2
      <4>2. QED BY <1>1, <4>1, KindChanges
    <3>3. QED BY <3>1, <3>2
  <2>2. QED BY <2>1
<1>5. UNCHANGED <<job, k, feasible, eta, pc, chosen, outcome, via, roomy>>
  BY DEF Release, Forget, Refit, locals
<1>6. QED BY <1>3, <1>4, <1>5

-----------------------------------------------------------------------------
(* The inductive invariant *)

\* What each phase has done and not yet done.
Phases ==
  /\ pc = "admit" => k = 1 /\ feasible = <<>>
  /\ pc \in {"admit", "filter"} => eta = <<>> /\ Len(feasible) < k
  /\ Len(feasible) <= Len(nodes)
  /\ pc = "score" => Len(eta) = k - 1
  /\ pc \in {"choose", "naive"} => Len(eta) = Len(feasible)
  /\ pc = "choose" => ~AllZero(eta)
  /\ pc = "naive" => AllZero(eta)
  /\ pc \in {"score", "choose", "naive"} => feasible # <<>>
  /\ pc # "done" => outcome = "none" /\ chosen = 0 /\ via = "none"

CandidatesSuit == \A d \in DOMAIN feasible : Suits(feasible[d])

\* Every node that suited at the start is a candidate or is still to be visited.
NothingMissed ==
  pc = "filter" =>
    \A i \in roomy : IF i < k THEN \E d \in DOMAIN feasible : feasible[d] = i ELSE Suits(i)

\* A positive score is that of a node without a neighbour to be avoided.
OpenApart ==
  \A d \in DOMAIN eta :
    eta[d] > 0 => nodes[feasible[d]].running \cap Classify(job).avoid = {}

IInv ==
  /\ TypeOK /\ Phases /\ CandidatesSuit /\ NothingMissed /\ OpenApart
  /\ PlacedNodeSuits /\ RefusedOnlyWithoutRoom /\ GatedIsLastResort /\ UrgentKeepsApart

-----------------------------------------------------------------------------
(* The proof *)

LEMMA JobIsRequest == TypeOK => job \in JobRequest
  BY DecisionAssumption DEF TypeOK

LEMMA SomeCandidate ==
  ASSUME TypeOK, feasible # <<>>
  PROVE  Len(feasible) \in Nat \ {0} /\ DOMAIN feasible = 1..Len(feasible)
  BY DEF TypeOK

LEMMA InitInv == Init => IInv
<1> SUFFICES ASSUME Init PROVE IInv
  OBVIOUS
<1>1. TypeOK
  BY DecisionAssumption DEF Init, TypeOK
<1>2. Phases /\ CandidatesSuit /\ NothingMissed /\ OpenApart
  BY DecisionAssumption DEF Init, Phases, CandidatesSuit, NothingMissed, OpenApart
<1>3. PlacedNodeSuits /\ RefusedOnlyWithoutRoom /\ GatedIsLastResort /\ UrgentKeepsApart
  BY DEF Init, PlacedNodeSuits, RefusedOnlyWithoutRoom, GatedIsLastResort, UrgentKeepsApart, Placed
<1>4. QED BY <1>1, <1>2, <1>3 DEF IInv

\* Nothing that depends on the nodes changes in a step that leaves them, the
\* job, the candidates and the scores alone.
LEMMA SameCandidates ==
  ASSUME IInv, UNCHANGED <<job, nodes, feasible, eta>>
  PROVE  CandidatesSuit' /\ OpenApart'
  BY DEF IInv, CandidatesSuit, OpenApart, Suits

LEMMA RefusingKeepsInv ==
  ASSUME IInv, Reject \/ Estimate
  PROVE  IInv'
<1>1. pc \in {"admit", "refused"} /\ pc' = "done" /\ outcome' \in {"QUEUED", "REJECTED"}
  BY DEF Reject, Estimate, Refuse
<1>2. UNCHANGED <<job, k, feasible, eta, nodes, chosen, via, roomy>> /\ chosen = 0
  BY <1>1 DEF Reject, Estimate, Refuse, locals, IInv, Phases
<1>3. TypeOK'
  BY <1>1, <1>2 DEF IInv, TypeOK
<1>4. Phases' /\ NothingMissed'
  BY <1>1, <1>2 DEF IInv, Phases, NothingMissed
<1>5. RefusedOnlyWithoutRoom'
  BY <1>1, <1>2 DEF IInv, RefusedOnlyWithoutRoom, Reject, Estimate, Refuse
<1>6. PlacedNodeSuits' /\ GatedIsLastResort' /\ UrgentKeepsApart'
  BY <1>1 DEF PlacedNodeSuits, GatedIsLastResort, UrgentKeepsApart, Placed
<1>7. QED BY <1>2, <1>3, <1>4, <1>5, <1>6, SameCandidates DEF IInv

\* A step that has not answered yet keeps what is said of an answer.
LEMMA NoAnswerYet ==
  ASSUME outcome' = "none"
  PROVE  PlacedNodeSuits' /\ GatedIsLastResort' /\ UrgentKeepsApart'
  BY DEF PlacedNodeSuits, GatedIsLastResort, UrgentKeepsApart, Placed

LEMMA AdmitKeepsInv ==
  ASSUME IInv, Admit
  PROVE  IInv'
<1>1. outcome' = "none" /\ UNCHANGED <<job, nodes, feasible, eta>>
  BY DEF Admit, IInv, Phases, locals
<1>2. TypeOK'
  BY DEF Admit, locals, IInv, TypeOK
<1>3. Phases'
  BY DEF Admit, locals, IInv, Phases
<1>4. NothingMissed'
  BY DEF Admit, locals, IInv, Phases, TypeOK, NothingMissed, Suits
<1>5. RefusedOnlyWithoutRoom'
  BY <1>1 DEF Admit, RefusedOnlyWithoutRoom
<1>6. QED BY <1>1, <1>2, <1>3, <1>4, <1>5, SameCandidates, NoAnswerYet DEF IInv

LEMMA FilterKeepsInv ==
  ASSUME IInv, Filter
  PROVE  IInv'
<1>1. outcome' = "none" /\ eta = <<>> /\ UNCHANGED <<job, nodes, eta, pc, roomy>> /\ pc = "filter"
  BY DEF Filter, IInv, Phases
<1>2. k \in Nat /\ k \in DOMAIN nodes /\ k' = k + 1
      /\ feasible \in Seq(DOMAIN nodes) /\ Len(feasible) < k
  BY DEF Filter, IInv, TypeOK, Phases
<1>3. CASE Suits(k)
  <2>1. feasible' = Append(feasible, k)
    BY <1>3 DEF Filter
  <2>2. feasible' \in Seq(DOMAIN nodes) /\ Len(feasible') = Len(feasible) + 1
    BY <1>2, <2>1
  <2>3. \A d \in DOMAIN feasible : d \in DOMAIN feasible' /\ feasible'[d] = feasible[d]
    BY <1>2, <2>1
  <2>4. Len(feasible') \in DOMAIN feasible' /\ feasible'[Len(feasible')] = k
    BY <1>2, <2>1
  <2>5. TypeOK'
    BY <1>1, <1>2, <2>2 DEF Filter, IInv, TypeOK
  <2>6. Phases'
    BY <1>1, <1>2, <2>2 DEF Filter, IInv, TypeOK, Phases
  <2>7. CandidatesSuit'
    <3>1. ASSUME NEW d \in DOMAIN feasible' PROVE Suits(feasible'[d])
      <4>1. d \in DOMAIN feasible \/ d = Len(feasible')
        BY <1>2, <2>1
      <4>2. QED BY <4>1, <2>3, <2>4, <1>3 DEF IInv, CandidatesSuit
    <3>2. QED BY <3>1, <1>1 DEF CandidatesSuit, Suits
  <2>8. NothingMissed'
    <3>1. ASSUME NEW i \in roomy
          PROVE  IF i < k + 1 THEN \E d \in DOMAIN feasible' : feasible'[d] = i ELSE Suits(i)
      <4>1. i \in Nat
        BY DEF IInv, TypeOK
      <4>2. CASE i < k
        BY <4>2, <4>1, <1>1, <1>2, <2>3 DEF IInv, NothingMissed
      <4>3. CASE i = k
        BY <4>3, <1>2, <2>4
      <4>4. CASE i > k
        BY <4>4, <4>1, <1>1, <1>2 DEF IInv, NothingMissed
      <4>5. QED BY <4>1, <4>2, <4>3, <4>4, <1>2
    <3>2. QED BY <3>1, <1>1, <1>2 DEF NothingMissed, Suits
  <2>9. OpenApart' /\ RefusedOnlyWithoutRoom'
    BY <1>1 DEF OpenApart, RefusedOnlyWithoutRoom
  <2>10. QED BY <1>1, <2>5, <2>6, <2>7, <2>8, <2>9, NoAnswerYet DEF IInv
<1>4. CASE ~Suits(k)
  <2>1. feasible' = feasible
    BY <1>4 DEF Filter
  <2>2. TypeOK'
    BY <1>1, <1>2, <2>1 DEF Filter, IInv, TypeOK
  <2>3. Phases'
    BY <1>1, <1>2, <2>1 DEF Filter, IInv, TypeOK, Phases
  <2>4. NothingMissed'
    <3>1. ASSUME NEW i \in roomy
          PROVE  IF i < k + 1 THEN \E d \in DOMAIN feasible : feasible[d] = i ELSE Suits(i)
      <4>1. i \in Nat /\ i # k
        BY <1>1, <1>2, <1>4 DEF IInv, TypeOK, NothingMissed
      <4>2. QED BY <4>1, <1>1, <1>2 DEF IInv, NothingMissed
    <3>2. QED BY <3>1, <1>1, <1>2, <2>1 DEF NothingMissed, Suits
  <2>5. RefusedOnlyWithoutRoom'
    BY <1>1 DEF RefusedOnlyWithoutRoom
  <2>6. QED BY <1>1, <2>1, <2>2, <2>3, <2>4, <2>5, SameCandidates, NoAnswerYet DEF IInv
<1>5. QED BY <1>3, <1>4

LEMMA FilteredKeepsInv ==
  ASSUME IInv, Filtered
  PROVE  IInv'
<1>1. outcome' = "none" /\ eta = <<>> /\ UNCHANGED <<job, nodes, feasible, eta, roomy>>
      /\ pc = "filter" /\ k > Len(nodes) /\ k' = 1
  BY DEF Filtered, IInv, Phases
<1>2. TypeOK'
  BY <1>1 DEF Filtered, IInv, TypeOK
<1>3. Phases'
  BY <1>1 DEF Filtered, IInv, TypeOK, Phases
<1>4. NothingMissed'
  BY <1>1 DEF Filtered, NothingMissed
<1>5. RefusedOnlyWithoutRoom'
  <2>1. CASE feasible = <<>>
    <3>1. ASSUME NEW i \in roomy PROVE FALSE
      <4>1. i \in Nat /\ k \in Nat /\ Len(nodes) \in Nat /\ i <= Len(nodes)
        BY DEF IInv, TypeOK
      <4>2. i < k
        BY <1>1, <4>1
      <4>3. QED BY <1>1, <2>1, <4>2 DEF IInv, NothingMissed
    <3>2. QED BY <3>1, <1>1 DEF RefusedOnlyWithoutRoom
  <2>2. CASE feasible # <<>>
    BY <1>1, <2>2 DEF Filtered, RefusedOnlyWithoutRoom
  <2>3. QED BY <2>1, <2>2
<1>6. QED BY <1>1, <1>2, <1>3, <1>4, <1>5, SameCandidates, NoAnswerYet DEF IInv

LEMMA ScoreKeepsInv ==
  ASSUME IInv, Score
  PROVE  IInv'
<1> DEFINE n == nodes[feasible[k]]
           a == Classify(job).avoid
           v == IF n.running \cap a # {} THEN 0 ELSE ScoreNode(job, n)
<1>1. outcome' = "none" /\ UNCHANGED <<job, nodes, feasible, pc, roomy>> /\ pc = "score"
      /\ k' = k + 1 /\ eta' = Append(eta, v)
  BY DEF Score, IInv, Phases
<1>2. k \in Nat /\ k \in DOMAIN feasible /\ Len(eta) = k - 1 /\ eta \in Seq(Nat)
      /\ feasible \in Seq(DOMAIN nodes) /\ Len(feasible) <= Len(nodes) /\ Len(nodes) \in Nat
  BY DEF Score, IInv, TypeOK, Phases
<1>3. feasible[k] \in DOMAIN nodes /\ n \in ComputeNode /\ job \in JobRequest
  BY <1>2, JobIsRequest DEF IInv, TypeOK
<1>4. v \in Nat
  <2>1. ScoreNode(job, n) \in Nat
    BY <1>3, ScoreNat
  <2>2. QED BY <2>1
<1> HIDE DEF v
<1>5. eta' \in Seq(Nat) /\ Len(eta') = k
  BY <1>1, <1>2, <1>4
<1>6. TypeOK'
  BY <1>1, <1>2, <1>5 DEF Score, IInv, TypeOK
<1>7. Phases'
  BY <1>1, <1>2, <1>5 DEF Score, IInv, Phases
<1>8. CandidatesSuit' /\ NothingMissed' /\ RefusedOnlyWithoutRoom'
  BY <1>1 DEF IInv, CandidatesSuit, NothingMissed, RefusedOnlyWithoutRoom, Suits
<1>9. OpenApart'
  <2>1. ASSUME NEW d \in DOMAIN eta', eta'[d] > 0
        PROVE  nodes[feasible[d]].running \cap a = {}
    <3>1. CASE d = k
      <4>1. eta'[d] = v
        BY <3>1, <1>1, <1>2
      <4>2. v # 0
        BY <4>1, <2>1
      <4>3. QED BY <4>2, <3>1 DEF v
    <3>2. CASE d # k
      <4>1. d \in DOMAIN eta /\ eta'[d] = eta[d]
        BY <3>2, <1>1, <1>2
      <4>2. QED BY <4>1, <2>1 DEF IInv, OpenApart
    <3>3. QED BY <3>1, <3>2
  <2>2. QED BY <2>1, <1>1 DEF OpenApart
<1>10. QED BY <1>1, <1>6, <1>7, <1>8, <1>9, NoAnswerYet DEF IInv

LEMMA ScoredKeepsInv ==
  ASSUME IInv, Scored
  PROVE  IInv'
<1>1. outcome' = "none" /\ UNCHANGED <<job, k, nodes, feasible, eta, roomy>> /\ pc = "score"
      /\ k > Len(feasible) /\ pc' = IF AllZero(eta) THEN "naive" ELSE "choose"
  BY DEF Scored, IInv, Phases, locals
<1>2. TypeOK'
  BY <1>1 DEF Scored, IInv, TypeOK
<1>3. Len(eta) = Len(feasible)
  <2>1. Len(eta) = k - 1 /\ Len(eta) <= Len(feasible) /\ k \in Nat /\ Len(feasible) \in Nat
    BY <1>1 DEF IInv, TypeOK, Phases
  <2>2. QED BY <2>1, <1>1
<1>4. Phases'
  BY <1>1, <1>3 DEF Scored, IInv, Phases
<1>5. NothingMissed' /\ RefusedOnlyWithoutRoom'
  BY <1>1 DEF NothingMissed, RefusedOnlyWithoutRoom
<1>6. QED BY <1>1, <1>2, <1>4, <1>5, SameCandidates, NoAnswerYet DEF IInv

\* What an answer must be for the invariant: a candidate the job fits, and what
\* GatedIsLastResort and UrgentKeepsApart ask of the way it was found.
LEMMA SelectKeepsInv ==
  ASSUME IInv, pc # "done", NEW d \in DOMAIN feasible, NEW how \in {"fast", "colony", "naive"},
         Select(feasible[d], how),
         ~AllZero(eta) =>
           /\ how = "fast" => \A e \in DOMAIN eta : eta[e] <= eta[d]
           /\ how = "colony" /\ eta[d] = 0 => d \in {1, Len(eta)},
         Urgent(job) =>
           /\ how # "colony"
           /\ nodes[feasible[d]].running \cap {"batch", "stream"} # {} => AllZero(eta)
  PROVE  IInv'
<1>1. /\ pc' = "done" /\ outcome' = "SCHEDULED" /\ chosen' = feasible[d] /\ via' = how
      /\ UNCHANGED <<job, k, nodes, feasible, eta, roomy>>
  BY DEF Select, locals
<1>2. feasible[d] \in 1..Len(nodes) /\ Len(nodes) \in Nat
  BY DEF IInv, TypeOK
<1>3. TypeOK'
  BY <1>1, <1>2 DEF IInv, TypeOK
<1>4. Phases' /\ NothingMissed' /\ RefusedOnlyWithoutRoom'
  BY <1>1 DEF IInv, Phases, NothingMissed, RefusedOnlyWithoutRoom
<1>5. PlacedNodeSuits'
  BY <1>1 DEF IInv, CandidatesSuit, PlacedNodeSuits, Suits
<1>6. GatedIsLastResort'
  BY <1>1 DEF GatedIsLastResort
<1>7. UrgentKeepsApart'
  BY <1>1 DEF UrgentKeepsApart, Node
<1>8. QED BY <1>1, <1>3, <1>4, <1>5, <1>6, <1>7, SameCandidates DEF IInv

LEMMA ChooseFastKeepsInv ==
  ASSUME IInv, ChooseFast
  PROVE  IInv'
<1>1. pc = "choose" /\ ~AllZero(eta) /\ eta \in Seq(Nat) /\ Len(eta) = Len(feasible)
      /\ feasible \in Seq(DOMAIN nodes)
  BY DEF ChooseFast, IInv, Phases, TypeOK
<1> DEFINE d == FirstBest(eta)
<1>2. d \in DOMAIN eta /\ eta[d] > 0 /\ \A e \in DOMAIN eta : eta[e] <= eta[d]
  BY <1>1, FirstBestIsBest
<1>3. d \in DOMAIN feasible /\ Select(feasible[d], "fast")
  BY <1>1, <1>2 DEF ChooseFast
<1>4. nodes[feasible[d]].running \cap Classify(job).avoid = {}
  BY <1>2 DEF IInv, OpenApart
<1>5. Urgent(job) => nodes[feasible[d]].running \cap {"batch", "stream"} = {}
  BY <1>4, JobIsRequest, ClassifyFacts DEF IInv
<1> HIDE DEF d
<1>6. QED BY <1>1, <1>2, <1>3, <1>5, SelectKeepsInv

LEMMA ChooseByColonyKeepsInv ==
  ASSUME IInv, ChooseByColony
  PROVE  IInv'
<1>1. pc = "choose" /\ ~AllZero(eta) /\ eta \in Seq(Nat) /\ Len(eta) = Len(feasible)
      /\ feasible \in Seq(DOMAIN nodes) /\ feasible # <<>> /\ ~Hurried
  BY DEF ChooseByColony, IInv, Phases, TypeOK
<1>2. PICK d \in Drawable(eta) : Select(feasible[d], "colony")
  BY DEF ChooseByColony
<1>3. d \in {x \in DOMAIN eta : eta[x] > 0} \cup {1, Len(eta)}
  BY <1>1, <1>2 DEF Drawable
<1>4. d \in DOMAIN feasible /\ (eta[d] = 0 => d \in {1, Len(eta)})
  BY <1>1, <1>3
<1>5. ~Urgent(job)
  BY <1>1, JobIsRequest, ClassifyFacts DEF IInv, Hurried
<1>6. QED BY <1>1, <1>2, <1>4, <1>5, SelectKeepsInv

LEMMA ChooseNaivelyKeepsInv ==
  ASSUME IInv, ChooseNaively
  PROVE  IInv'
<1>1. pc = "naive" /\ AllZero(eta) /\ feasible \in Seq(DOMAIN nodes) /\ feasible # <<>>
  BY DEF ChooseNaively, IInv, Phases, TypeOK
<1>2. 1 \in DOMAIN feasible
  BY <1>1
<1>3. CanFit(job, nodes[feasible[1]])
  BY <1>2 DEF IInv, CandidatesSuit, Suits
<1>4. PICK d \in DOMAIN feasible : FirstFit(feasible) = feasible[d]
  BY <1>1, <1>2, <1>3, FirstFitFits
<1>5. Select(feasible[d], "naive")
  BY <1>4 DEF ChooseNaively
<1>6. QED BY <1>1, <1>5, SelectKeepsInv

LEMMA OthersKeepInv ==
  ASSUME IInv, NEW i \in DOMAIN nodes, Release(i) \/ Forget(i) \/ Refit(i)
  PROVE  IInv'
<1>1. /\ nodes \in Seq(ComputeNode) /\ nodes' \in Seq(ComputeNode) /\ Len(nodes') = Len(nodes)
      /\ \A x \in DOMAIN nodes : Kinder(nodes[x], nodes'[x])
      /\ UNCHANGED <<job, k, feasible, eta, pc, chosen, outcome, via, roomy>>
  BY OthersAreKind DEF IInv, TypeOK
<1>2. DOMAIN nodes' = DOMAIN nodes /\ DOMAIN nodes = 1..Len(nodes)
      /\ \A x \in DOMAIN nodes : nodes[x] \in ComputeNode /\ nodes'[x] \in ComputeNode
  BY <1>1
<1>3. \A x \in DOMAIN nodes : Suits(x) => Suits(x)'
  <2>1. job \in JobRequest
    BY JobIsRequest DEF IInv
  <2>2. ASSUME NEW x \in DOMAIN nodes, Suits(x) PROVE CanFit(job, nodes'[x]) /\ Matches(job, nodes'[x])
    BY <1>1, <1>2, <2>1, <2>2, KinderSuits DEF Suits
  <2>3. QED BY <2>2, <1>1 DEF Suits
<1>4. feasible \in Seq(DOMAIN nodes) /\ \A d \in DOMAIN feasible : feasible[d] \in DOMAIN nodes
  BY DEF IInv, TypeOK
<1>5. TypeOK'
  BY <1>1, <1>2 DEF IInv, TypeOK
<1>6. Phases'
  BY <1>1 DEF IInv, Phases
<1>7. CandidatesSuit'
  BY <1>1, <1>3, <1>4 DEF IInv, CandidatesSuit
<1>8. NothingMissed'
  <2>1. roomy \subseteq DOMAIN nodes
    BY DEF IInv, TypeOK
  <2>2. QED BY <1>1, <1>3, <2>1 DEF IInv, NothingMissed
<1>9. OpenApart'
  <2>1. ASSUME NEW d \in DOMAIN eta, eta[d] > 0
        PROVE  nodes'[feasible[d]].running \cap Classify(job).avoid = {}
    <3>1. d \in DOMAIN feasible
      BY <1>4 DEF IInv, TypeOK
    <3>2. nodes'[feasible[d]].running \subseteq nodes[feasible[d]].running
      BY <3>1, <1>1, <1>4 DEF Kinder
    <3>3. nodes[feasible[d]].running \cap Classify(job).avoid = {}
      BY <2>1 DEF IInv, OpenApart
    <3>4. QED BY <3>2, <3>3
  <2>2. QED BY <2>1, <1>1 DEF OpenApart
<1>10. Placed => chosen \in DOMAIN nodes
  BY <1>2 DEF IInv, TypeOK, Placed
<1>11. PlacedNodeSuits' /\ RefusedOnlyWithoutRoom' /\ GatedIsLastResort'
  BY <1>1, <1>3, <1>10 DEF IInv, PlacedNodeSuits, Placed, RefusedOnlyWithoutRoom, GatedIsLastResort
<1>12. UrgentKeepsApart'
  <2>1. Placed => nodes'[chosen].running \subseteq nodes[chosen].running
    BY <1>1, <1>10 DEF Kinder
  <2>2. QED BY <1>1, <2>1 DEF IInv, UrgentKeepsApart, Placed, Node
<1>13. QED BY <1>5, <1>6, <1>7, <1>8, <1>9, <1>11, <1>12 DEF IInv

LEMMA StepKeepsInv == IInv /\ [Next]_vars => IInv'
<1> SUFFICES ASSUME IInv, [Next]_vars PROVE IInv'
  OBVIOUS
<1>1. CASE Reject \/ Estimate
  BY <1>1, RefusingKeepsInv
<1>2. CASE Admit
  BY <1>2, AdmitKeepsInv
<1>3. CASE Filter
  BY <1>3, FilterKeepsInv
<1>4. CASE Filtered
  BY <1>4, FilteredKeepsInv
<1>5. CASE Score
  BY <1>5, ScoreKeepsInv
<1>6. CASE Scored
  BY <1>6, ScoredKeepsInv
<1>7. CASE ChooseFast
  BY <1>7, ChooseFastKeepsInv
<1>8. CASE ChooseByColony
  BY <1>8, ChooseByColonyKeepsInv
<1>9. CASE ChooseNaively
  BY <1>9, ChooseNaivelyKeepsInv
<1>10. ASSUME NEW i \in DOMAIN nodes, Release(i) \/ Forget(i) \/ Refit(i) PROVE IInv'
  BY <1>10, OthersKeepInv
<1>11. CASE UNCHANGED vars
  BY <1>11 DEF vars, locals, IInv, TypeOK, Phases, CandidatesSuit, NothingMissed, OpenApart, Suits,
     PlacedNodeSuits, RefusedOnlyWithoutRoom, GatedIsLastResort, UrgentKeepsApart, Placed, Node
<1>12. QED BY <1>1, <1>2, <1>3, <1>4, <1>5, <1>6, <1>7, <1>8, <1>9, <1>10, <1>11 DEF Next, Decide

LEMMA Invariant == Spec => []IInv
<1>1. QED BY InitInv, StepKeepsInv, PTL DEF Spec

\* Whatever jobs, clusters and predictions there are, every variable keeps its
\* type: a loop never runs past its list, and a score is never negative.
THEOREM TypeCorrect == Spec => []TypeOK
<1>1. IInv => TypeOK
  BY DEF IInv
<1>2. QED BY Invariant, <1>1, PTL

\* However jobs complete and predictions change between the nodes the filter
\* and the scores visit, the answer is a node the job fits on and the strategy
\* asks for.
THEOREM PlacedSuits == Spec => []PlacedNodeSuits
<1>1. IInv => PlacedNodeSuits
  BY DEF IInv
<1>2. QED BY Invariant, <1>1, PTL

\* No job is refused that had room when the search began.
THEOREM RefusedWithoutRoom == Spec => []RefusedOnlyWithoutRoom
<1>1. IInv => RefusedOnlyWithoutRoom
  BY DEF IInv
<1>2. QED BY Invariant, <1>1, PTL

\* A gated node is taken only when all are, or by a draw at the edge.
THEOREM GatedLast == Spec => []GatedIsLastResort
<1>1. IInv => GatedIsLastResort
  BY DEF IInv
<1>2. QED BY Invariant, <1>1, PTL

\* A job near its deadline never waits for the ants, and is put beside batch or
\* stream work only when every candidate is closed to it.
THEOREM UrgentApart == Spec => []UrgentKeepsApart
<1>1. IInv => UrgentKeepsApart
  BY DEF IInv
<1>2. QED BY Invariant, <1>1, PTL

\* Serving and stateful jobs never land on a spot instance, whatever fallback
\* chose the node, and serving jobs get a GPU node exactly when they ask.
THEOREM NoEviction == Spec => []NoEvictionRisk
<1>1. IInv => NoEvictionRisk
  <2> SUFFICES ASSUME IInv, Placed PROVE NoEvictionRisk
    BY DEF NoEvictionRisk
  <2>1. job \in JobRequest /\ Matches(job, Node)
    BY JobIsRequest DEF IInv, PlacedNodeSuits, Suits, Node
  <2>2. Node.arch \in BaseStrategy(job).arches /\ Node.inst \in BaseStrategy(job).insts
    BY <2>1, ClassifyFacts DEF Matches
  <2>3. job.gpu \in BOOLEAN /\ job.preemptible \in BOOLEAN
    BY <2>1 DEF JobRequest
  <2>4. CASE job.type = "latency" /\ job.gpu
    <3>1. BaseStrategy(job) = GpuInference
      BY <2>4 DEF BaseStrategy
    <3>2. Node.arch = "gpu" /\ Node.inst = "on_demand"
      BY <2>2, <3>1 DEF GpuInference, Strategy
    <3>3. job.gpu = TRUE
      BY <2>3, <2>4
    <3>4. QED BY <2>4, <3>2, <3>3 DEF NoEvictionRisk
  <2>5. CASE job.type = "latency" /\ ~job.gpu
    <3>1. BaseStrategy(job) = CpuServing
      BY <2>5 DEF BaseStrategy
    <3>2. Node.arch # "gpu" /\ Node.inst = "on_demand"
      BY <2>2, <3>1 DEF CpuServing, Strategy
    <3>3. QED BY <2>3, <2>5, <3>2 DEF NoEvictionRisk
  <2>6. CASE job.type = "stream" /\ ~job.preemptible
    <3>1. BaseStrategy(job) = StatefulStream
      BY <2>6 DEF BaseStrategy
    <3>2. QED BY <2>2, <2>6, <3>1 DEF StatefulStream, Strategy, NoEvictionRisk
  <2>7. CASE job.type # "latency" /\ ~(job.type = "stream" /\ ~job.preemptible)
    BY <2>7 DEF NoEvictionRisk
  <2>8. QED BY <2>3, <2>4, <2>5, <2>6, <2>7
<1>2. QED BY Invariant, <1>1, PTL

-----------------------------------------------------------------------------
(* What a queued job waits for *)

\* What a node has does not change, so the cluster stays what it was, and a
\* node that was large enough for a queued job still is.
WaitInv ==
  /\ ServiceLike(nodes)
  /\ outcome = "QUEUED" => \E i \in DOMAIN nodes : CouldEverFit(job, nodes[i])

\* The strategies ask for any on-demand x86 node for a job without a GPU, and
\* for any on-demand GPU node for one with, unless it is preemptible.
LEMMA StrategyNodes ==
  ASSUME NEW j \in JobRequest, NEW n, n.inst = "on_demand"
  PROVE  /\ ~j.gpu /\ n.arch = "x86" => Matches(j, n)
         /\ j.gpu /\ ~j.preemptible /\ n.arch = "gpu" => Matches(j, n)
<1>1. /\ Classify(j).arches = BaseStrategy(j).arches
      /\ Classify(j).insts = BaseStrategy(j).insts
  BY ClassifyFacts
<1>2. j.type \in Types /\ j.gpu \in BOOLEAN /\ j.preemptible \in BOOLEAN
  BY DEF JobRequest
<1>3. CASE ~j.gpu
  <2>1. BaseStrategy(j) \in {CpuServing, PreemptibleActor, StatefulStream, Generic}
    BY <1>2, <1>3 DEF BaseStrategy, Types
  <2>2. "x86" \in BaseStrategy(j).arches /\ "on_demand" \in BaseStrategy(j).insts
    BY <2>1 DEF CpuServing, PreemptibleActor, StatefulStream, Generic, Strategy, Arches, Instances
  <2>3. QED BY <1>1, <1>3, <2>2 DEF Matches
<1>4. CASE j.gpu /\ ~j.preemptible
  <2>1. BaseStrategy(j) \in {GpuInference, GpuTraining, StatefulStream}
    BY <1>2, <1>4 DEF BaseStrategy, Types
  <2>2. "gpu" \in BaseStrategy(j).arches /\ "on_demand" \in BaseStrategy(j).insts
    BY <2>1 DEF GpuInference, GpuTraining, StatefulStream, Strategy, Arches, Instances
  <2>3. QED BY <1>1, <1>4, <2>2 DEF Matches
<1>5. QED BY <1>2, <1>3, <1>4

\* An idle node has all it has.
LEMMA IdleFits ==
  ASSUME NEW j \in JobRequest, NEW n \in ComputeNode, j.cpu <= n.cpu, j.mem <= n.mem,
         j.gpu => n.gpus > 0 /\ j.gpuCount <= n.gpus
  PROVE  CanFit(j, Idle(n))
<1> DEFINE m == Idle(n)
<1>1. /\ m.cpu = n.cpu /\ m.mem = n.mem /\ m.gpus = n.gpus
      /\ m.usedCpu = 0 /\ m.usedMem = 0 /\ m.usedGpu = 0
  BY DEF Idle, ComputeNode
<1>2. n.cpu \in Nat /\ n.mem \in Nat /\ n.gpus \in Nat
  BY DEF ComputeNode
<1> HIDE DEF m
<1>3. CanFit(j, m)
  BY <1>1, <1>2 DEF CanFit, FreeCpu, FreeMem
<1>4. QED BY <1>3 DEF m

LEMMA WaitsForSomething ==
  ASSUME IInv, WaitInv
  PROVE  OnlyGpuJobsWaitInVain
<1>1. job \in JobRequest /\ \A i \in DOMAIN nodes : nodes[i] \in ComputeNode
  BY JobIsRequest DEF IInv, TypeOK
<1>2. job.gpu \in BOOLEAN /\ job.preemptible \in BOOLEAN
      /\ job.cpu \in Nat /\ job.mem \in Nat /\ job.gpuCount \in Nat
  BY <1>1 DEF JobRequest
<1>3. \A i \in DOMAIN nodes : nodes[i].cpu \in Nat /\ nodes[i].mem \in Nat /\ nodes[i].gpus \in Nat
  BY <1>1 DEF ComputeNode
<1>4. SUFFICES ASSUME outcome = "QUEUED"
               PROVE  \/ \E i \in DOMAIN nodes :
                           Matches(job, nodes[i]) /\ CanFit(job, Idle(nodes[i]))
                      \/ job.gpu /\ (job.preemptible \/
                           \A i \in DOMAIN nodes : nodes[i].gpus < job.gpuCount)
  BY DEF OnlyGpuJobsWaitInVain
<1>5. PICK i \in DOMAIN nodes :
        job.cpu <= nodes[i].cpu /\ job.mem <= nodes[i].mem /\ (job.gpu => nodes[i].gpus > 0)
  BY <1>4 DEF WaitInv, CouldEverFit
<1>6. CASE ~job.gpu
  <2>1. PICK b \in DOMAIN nodes :
          /\ nodes[b].arch = "x86" /\ nodes[b].inst = "on_demand"
          /\ nodes[i].cpu <= nodes[b].cpu /\ nodes[i].mem <= nodes[b].mem
    BY <1>5 DEF WaitInv, ServiceLike
  <2>2. job.cpu <= nodes[b].cpu /\ job.mem <= nodes[b].mem
    BY <1>2, <1>3, <1>5, <2>1
  <2>3. Matches(job, nodes[b]) /\ CanFit(job, Idle(nodes[b]))
    BY <1>1, <1>6, <2>1, <2>2, StrategyNodes, IdleFits
  <2>4. QED BY <2>3
<1>7. CASE job.gpu /\ ~job.preemptible /\ \E x \in DOMAIN nodes : ~(nodes[x].gpus < job.gpuCount)
  <2>1. PICK x \in DOMAIN nodes : nodes[x].gpus >= job.gpuCount
    BY <1>2, <1>3, <1>7
  <2>2. job.gpuCount > 0
    BY <1>1 DEF JobRequest
  <2>3. PICK g \in DOMAIN nodes :
          /\ nodes[g].arch = "gpu" /\ nodes[g].inst = "on_demand"
          /\ \A y \in DOMAIN nodes : nodes[y].gpus > 0 =>
               /\ nodes[y].cpu <= nodes[g].cpu /\ nodes[y].mem <= nodes[g].mem
               /\ nodes[y].gpus <= nodes[g].gpus
    BY DEF WaitInv, ServiceLike
  <2>4. job.cpu <= nodes[g].cpu /\ job.mem <= nodes[g].mem
    BY <1>2, <1>3, <1>5, <1>7, <2>3
  <2>5. job.gpuCount <= nodes[g].gpus /\ nodes[g].gpus > 0
    BY <1>2, <1>3, <2>1, <2>2, <2>3
  <2>6. Matches(job, nodes[g]) /\ CanFit(job, Idle(nodes[g]))
    BY <1>1, <1>7, <2>3, <2>4, <2>5, StrategyNodes, IdleFits
  <2>7. QED BY <2>6
<1>8. QED BY <1>2, <1>6, <1>7

LEMMA WaitStep == IInv /\ WaitInv /\ [Next]_vars => WaitInv'
<1> SUFFICES ASSUME IInv, WaitInv, [Next]_vars PROVE WaitInv'
  OBVIOUS
<1>1. CASE Estimate
  BY <1>1 DEF Estimate, Refuse, locals, WaitInv
<1>2. CASE \/ Reject \/ Admit \/ Filter \/ Filtered \/ Score \/ Scored
           \/ ChooseFast \/ ChooseByColony \/ ChooseNaively \/ UNCHANGED vars
  <2>1. UNCHANGED <<job, nodes>> /\ (outcome' = "QUEUED" => outcome = "QUEUED")
    BY <1>2 DEF Reject, Admit, Filter, Filtered, Score, Scored, ChooseFast, ChooseByColony,
       ChooseNaively, Refuse, Select, locals, vars
  <2>2. QED BY <2>1 DEF WaitInv
<1>3. ASSUME NEW i \in DOMAIN nodes, Release(i) \/ Forget(i) \/ Refit(i) PROVE WaitInv'
  <2>1. /\ nodes \in Seq(ComputeNode) /\ nodes' \in Seq(ComputeNode) /\ Len(nodes') = Len(nodes)
        /\ \A x \in DOMAIN nodes : Kinder(nodes[x], nodes'[x])
        /\ UNCHANGED <<job, outcome>>
    BY <1>3, OthersAreKind DEF IInv, TypeOK
  <2>2. DOMAIN nodes' = DOMAIN nodes /\ \A x \in DOMAIN nodes :
          /\ nodes'[x].arch = nodes[x].arch /\ nodes'[x].inst = nodes[x].inst
          /\ nodes'[x].cpu = nodes[x].cpu /\ nodes'[x].mem = nodes[x].mem
          /\ nodes'[x].gpus = nodes[x].gpus
    BY <2>1 DEF Kinder
  <2>3. ServiceLike(nodes)'
    BY <2>2 DEF WaitInv, ServiceLike
  <2>4. \A x \in DOMAIN nodes : CouldEverFit(job, nodes[x]) => CouldEverFit(job, nodes'[x])
    BY <2>2 DEF CouldEverFit
  <2>5. QED BY <2>1, <2>2, <2>3, <2>4 DEF WaitInv
<1>4. QED BY <1>1, <1>2, <1>3 DEF Next, Decide

\* In a cluster like the service's no job waits for a node that cannot take it,
\* but those with GPUs that are preemptible or want more than any node has.
THEOREM WaitInVain ==
  ASSUME \A c \in Clusters : ServiceLike(c)
  PROVE  Spec => []OnlyGpuJobsWaitInVain
<1>1. Init => WaitInv
  BY DEF Init, WaitInv
<1>2. IInv /\ WaitInv => OnlyGpuJobsWaitInVain
  BY WaitsForSomething
<1>3. QED BY <1>1, <1>2, WaitStep, Invariant, PTL DEF Spec
=============================================================================
