--------------------------- MODULE AntColonyProofs ---------------------------
(***************************************************************************)
(* For every list of jobs and nodes, every row of scores and any number of *)
(* iterations: the colony's bookkeeping is right, and apart from its       *)
(* liveness it implements ColonyPromise.                                   *)
(*                                                                         *)
(* The argument: pheromone never reaches zero, so what the ants can draw is*)
(* the same in every iteration (StableSolutions): the first iteration      *)
(* already tells whether the colony will fail.                             *)
(***************************************************************************)
EXTENDS AntColony, LedgerSumsTheorems, SequenceTheorems

-----------------------------------------------------------------------------
(* The heuristic and the prices are never negative *)

LEMMA ProductNat == ASSUME NEW a \in Nat, NEW b \in Nat PROVE a * b \in Nat
  OBVIOUS

LEMMA QuotientBound ==
  ASSUME NEW x \in Nat, NEW c \in Nat \ {0}, x <= 100 * c
  PROVE  x \div c <= 100
<1> DEFINE q == x \div c
<1>1. q \in Int /\ q * c <= x
  BY SMTT(30)
<1> HIDE DEF q
<1>2. ASSUME q > 100 PROVE FALSE
  <2>1. q * c >= 101 * c
    BY <1>1, <1>2, SMTT(30)
  <2>2. QED BY <1>1, <2>1
<1>3. q <= 100
  BY <1>1, <1>2
<1>4. QED BY <1>3 DEF q

LEMMA HeuristicNat ==
  ASSUME NEW j \in JobRequest, NEW n \in ComputeNode
  PROVE  Heuristic(j, n) \in Nat
<1>1. ResourceHeadroom(j, n) \in Nat
  <2>1. j.cpu \in Nat \ {0} /\ j.mem \in Nat \ {0} /\ FreeCpu(n) \in Int /\ FreeMem(n) \in Int
    BY DEF JobRequest, ComputeNode, FreeCpu, FreeMem
  <2>2. (100 * FreeCpu(n)) \div j.cpu \in Int /\ (100 * FreeMem(n)) \div j.mem \in Int
    BY <2>1
  <2>3. QED BY <2>2 DEF ResourceHeadroom, Least, Greatest
<1>2. CostScore(j, n) \in Nat
  <2>1. n.cost \in Nat /\ j.ceiling \in Nat
    BY DEF JobRequest, ComputeNode
  <2>2. CASE n.cost <= j.ceiling
    BY <2>2 DEF CostScore
  <2>3. CASE n.cost > j.ceiling /\ 10 * n.cost > 12 * j.ceiling
    BY <2>1, <2>3 DEF CostScore
  <2>4. CASE n.cost > j.ceiling /\ ~(10 * n.cost > 12 * j.ceiling)
    <3> DEFINE x == 500 * (n.cost - j.ceiling)
    <3>1. x \in Nat /\ j.ceiling \in Nat \ {0} /\ x <= 100 * j.ceiling
      BY <2>1, <2>4
    <3>2. x \div j.ceiling <= 100 /\ x \div j.ceiling \in Int
      <4> HIDE DEF x
      <4>1. x \div j.ceiling <= 100
        BY <3>1, QuotientBound
      <4>2. x \div j.ceiling \in Int
        BY <3>1
      <4>3. QED BY <4>1, <4>2
    <3>3. CostScore(j, n) = 100 - x \div j.ceiling
      BY <2>1, <2>4 DEF CostScore
    <3> HIDE DEF x
    <3>4. QED BY <3>2, <3>3
  <2>5. QED BY <2>1, <2>2, <2>3, <2>4
<1>3. WorkloadAffinity(j, n) \in Nat
  BY DEF WorkloadAffinity
<1>4. Urgency(j) \in Nat
  BY DEF Urgency, JobRequest
<1>5. ResourceHeadroom(j, n) * CostScore(j, n) \in Nat
  BY <1>1, <1>2, ProductNat
<1>6. ResourceHeadroom(j, n) * CostScore(j, n) * WorkloadAffinity(j, n) \in Nat
  BY <1>3, <1>5, ProductNat
<1>7. QED BY <1>4, <1>6, ProductNat DEF Heuristic

LEMMA PriceNat ==
  ASSUME NEW j \in JobRequest, NEW n \in ComputeNode
  PROVE  JobPrice(j, n) \in Nat
<1>1. n.cost \in Nat /\ j.cpu \in Nat /\ n.cpu \in Nat \ {0}
  BY DEF JobRequest, ComputeNode
<1>2. n.cost * j.cpu \in Nat
  BY <1>1, ProductNat
<1>3. (n.cost * j.cpu) \div n.cpu \in Nat
  BY <1>1, <1>2
<1>4. QED BY <1>3 DEF JobPrice

-----------------------------------------------------------------------------
(* The inductive invariant *)

Answers == {p \in Plans : \A j \in Jobs : p[j] \in Drawable(eta[j])}

Shape ==
  /\ eta \in Seq([Nodes -> Nat]) /\ eta # <<>>
  /\ fast = <<>> \/ (fast \in [Nodes -> Int] /\ Len(eta) = 1)
  /\ price \in [Jobs -> [Nodes -> Nat]]
  /\ tau \in [Jobs -> [Nodes -> TauMin..TauMax]]
  /\ NoPlan \notin Plans /\ Failed \notin Plans

Counts ==
  /\ iteration \in 0..NIterations /\ stagnation \in 0..StagnationLimit
  /\ improved \in 0..iteration /\ stagnation = iteration - improved
  /\ answer \in Plans \cup {NoPlan, Failed}
  /\ answer # NoPlan /\ fast = <<>> => iteration = NIterations \/ stagnation = StagnationLimit

Bests ==
  /\ offered \subseteq Plans
  /\ IF best = NoPlan THEN offered = {} ELSE best \in offered
  /\ best # NoPlan => best \in Answers
  /\ iteration > 0 /\ best = NoPlan => Answers = {}
  /\ \A p \in offered : PlanCost(best) <= PlanCost(p)

IInv == Shape /\ Counts /\ Bests

LEMMA ColonyShape ==
  ASSUME NEW js \in JobLists, NEW ns \in NodeLists, NEW row \in TauRows, RunColony(js, ns, row)
  PROVE  Shape
<1>1. js \in Seq(JobRequest) /\ Len(js) \in Nat \ {0} /\ DOMAIN js = 1..Len(js)
      /\ ns \in [Nodes -> ComputeNode] /\ DOMAIN ns = Nodes /\ 1 \in DOMAIN js
  BY ColonyAssumption DEF Nodes
<1>2. ASSUME NEW j \in DOMAIN js PROVE EtaRow(js[j], ns) \in [Nodes -> Nat]
  <2>1. js[j] \in JobRequest /\ \A x \in Nodes : ns[x] \in ComputeNode
    BY <1>1
  <2>2. \A x \in Nodes : Heuristic(js[j], ns[x]) \in Nat
    BY <2>1, HeuristicNat
  <2>3. QED BY <1>1, <2>2 DEF EtaRow
<1>3. eta \in [1..Len(js) -> [Nodes -> Nat]]
  BY <1>1, <1>2 DEF RunColony
<1>4. eta \in Seq([Nodes -> Nat]) /\ Len(eta) = Len(js) /\ eta # <<>> /\ Jobs = DOMAIN js
  BY <1>1, <1>3 DEF Jobs
<1>5. fast = <<>> \/ (fast \in [Nodes -> Int] /\ Len(eta) = 1)
  <2>1. \A x \in Nodes : Heuristic(js[1], ns[x]) \in Nat
    BY <1>1, HeuristicNat
  <2>2. FastScores(js[1], ns) \in [Nodes -> Int]
    BY <1>1, <2>1 DEF FastScores
  <2>3. QED BY <1>4, <2>2 DEF RunColony
<1>6. price \in [Jobs -> [Nodes -> Nat]]
  <2>1. \A j \in DOMAIN js, x \in Nodes : JobPrice(js[j], ns[x]) \in Nat
    BY <1>1, PriceNat
  <2>2. QED BY <1>4, <2>1 DEF RunColony
<1>7. Seeded(row) \in [Nodes -> TauMin..TauMax]
  BY ColonyAssumption DEF Seeded, Nodes, Greatest, Least
<1>8. tau \in [Jobs -> [Nodes -> TauMin..TauMax]]
  BY <1>4, <1>7 DEF RunColony
<1>9. NoPlan \notin Plans /\ Failed \notin Plans
  BY <1>4, ColonyAssumption DEF Plans, Nodes
<1>10. QED BY <1>4, <1>5, <1>6, <1>8, <1>9 DEF Shape

LEMMA EtaShape ==
  ASSUME NEW js \in JobLists, NEW ns \in NodeLists, NEW row \in EtaRows, NEW force \in BOOLEAN,
         Len(js) = 1, RunWithEta(row, js, ns, force)
  PROVE  Shape
<1>1. js \in Seq(JobRequest) /\ DOMAIN js = 1..1 /\ js[1] \in JobRequest
      /\ ns \in [Nodes -> ComputeNode] /\ row \in [Nodes -> Nat]
  BY ColonyAssumption DEF Nodes
<1>2. eta = <<row>> /\ eta \in Seq([Nodes -> Nat]) /\ Len(eta) = 1 /\ eta # <<>> /\ Jobs = 1..1
  BY <1>1 DEF RunWithEta, Jobs
<1>3. fast = <<>> \/ (fast \in [Nodes -> Int] /\ Len(eta) = 1)
  BY <1>1, <1>2 DEF RunWithEta
<1>4. price \in [Jobs -> [Nodes -> Nat]]
  <2> DEFINE f == [k \in Nodes |-> JobPrice(js[1], ns[k])]
  <2>1. f \in [Nodes -> Nat]
    BY <1>1, PriceNat
  <2>2. price = <<f>>
    BY DEF RunWithEta
  <2> HIDE DEF f
  <2>3. QED BY <1>2, <2>1, <2>2
<1>5. tau \in [Jobs -> [Nodes -> TauMin..TauMax]]
  <2>1. Seeded(<<>>) \in [Nodes -> TauMin..TauMax]
    BY ColonyAssumption DEF Seeded, Nodes
  <2>2. tau = <<Seeded(<<>>)>>
    BY DEF RunWithEta
  <2>3. QED BY <1>2, <2>1, <2>2
<1>6. NoPlan \notin Plans /\ Failed \notin Plans
  BY <1>1, <1>2, ColonyAssumption DEF Plans, Nodes
<1>7. QED BY <1>2, <1>3, <1>4, <1>5, <1>6 DEF Shape

LEMMA InitInv == Init => IInv
<1> SUFFICES ASSUME Init PROVE IInv
  OBVIOUS
<1>1. Shape
  BY ColonyShape, EtaShape DEF Init
<1>2. Counts /\ Bests
  BY ColonyAssumption, <1>1 DEF Init, Counts, Bests, Shape
<1>3. QED BY <1>1, <1>2 DEF IInv

-----------------------------------------------------------------------------
(* The steps *)

LEMMA RowFacts ==
  ASSUME Shape
  PROVE  /\ Jobs = 1..Len(eta) /\ Len(eta) \in Nat \ {0} /\ 1 \in Jobs
         /\ \A j \in Jobs : eta[j] \in [Nodes -> Nat] /\ DOMAIN eta[j] = Nodes
         /\ Nodes = 1..K /\ K \in Nat \ {0} /\ 1 \in Nodes
  BY ColonyAssumption DEF Shape, Jobs, Nodes

\* Pheromone is positive, so it takes no node away from the ants.
LEMMA StableSolutions ==
  ASSUME Shape
  PROVE  Solutions = Answers
<1>1. ASSUME NEW j \in Jobs PROVE Weights(j) = eta[j]
  <2>1. \A x \in Nodes : tau[j][x] > 0
    BY ColonyAssumption DEF Shape
  <2>2. eta[j] \in [Nodes -> Nat]
    BY RowFacts
  <2>3. QED BY <2>1, <2>2 DEF Weights
<1>2. QED BY <1>1 DEF Solutions, Answers

LEMMA CostNat ==
  ASSUME Shape, NEW p \in Plans
  PROVE  PlanCost(p) \in Nat
<1>1. [j \in 1..Len(eta) |-> price[j][p[j]]] \in [1..Len(eta) -> Nat]
  BY RowFacts DEF Shape, Plans
<1>2. Len(eta) \in Nat
  BY RowFacts
<1>3. QED BY <1>1, <1>2, TotalNat DEF PlanCost

LEMMA LevelsBounded ==
  ASSUME NEW t \in TauMin..TauMax, NEW cost \in Nat
  PROVE  Evaporated(t) \in TauMin..TauMax /\ Deposited(t, cost) \in TauMin..TauMax
<1>1. TauMin \in Nat /\ TauMax \in Nat /\ TauMin <= TauMax /\ t \in Nat
  BY ColonyAssumption
<1>2. (9 * t) \div 10 \in Int
  BY <1>1
<1>3. Evaporated(t) \in TauMin..TauMax
  BY <1>1, <1>2 DEF Evaporated, Least, Greatest
<1>4. CASE cost = 0
  BY <1>3, <1>4 DEF Deposited
<1>5. CASE cost # 0
  <2>1. Q \div cost \in Nat
    BY <1>5, ColonyAssumption
  <2>2. Deposited(t, cost) = Least(TauMax, t + Q \div cost)
    BY <1>5 DEF Deposited
  <2>3. QED BY <1>1, <1>3, <2>1, <2>2 DEF Least
<1>6. QED BY <1>4, <1>5

\* What every step of the loop leaves alone.
LEMMA SameInputs ==
  ASSUME IInv, UNCHANGED inputs, tau' \in [Jobs -> [Nodes -> TauMin..TauMax]]
  PROVE  Shape' /\ Answers' = Answers /\ Plans' = Plans /\ Jobs' = Jobs
         /\ \A p \in Plans : PlanCost(p)' = PlanCost(p)
  BY DEF IInv, Shape, inputs, Jobs, Plans, Answers, PlanCost, Nodes

LEMMA IterateKeepsInv ==
  ASSUME IInv, NEW p \in Plans, Iterate(p)
  PROVE  IInv'
<1>1. Shape /\ p \in Answers /\ UNCHANGED <<inputs, answer>> /\ Running
      /\ iteration' = iteration + 1 /\ offered' = offered \cup {p}
  BY StableSolutions DEF Iterate, IInv
<1>2. tau' \in [Jobs -> [Nodes -> TauMin..TauMax]]
  <2>1. PlanCost(p) \in Nat
    BY <1>1, CostNat
  <2>2. \A j \in Jobs, x \in Nodes : tau[j][x] \in TauMin..TauMax
    BY <1>1 DEF Shape
  <2>3. \A j \in Jobs, x \in Nodes :
          Evaporated(tau[j][x]) \in TauMin..TauMax
            /\ Deposited(Evaporated(tau[j][x]), PlanCost(p)) \in TauMin..TauMax
    BY <2>1, <2>2, LevelsBounded
  <2>4. QED BY <2>3 DEF Iterate
<1>3. Shape' /\ Answers' = Answers /\ Plans' = Plans
      /\ \A q \in Plans : PlanCost(q)' = PlanCost(q)
  BY <1>1, <1>2, SameInputs
<1>4. /\ iteration \in Nat /\ stagnation \in Nat /\ improved \in 0..iteration
      /\ stagnation = iteration - improved /\ iteration < NIterations
      /\ stagnation < StagnationLimit /\ NIterations \in Nat /\ StagnationLimit \in Nat
      /\ answer = NoPlan
  BY <1>1, ColonyAssumption DEF Running, IInv, Counts
<1>5. NoPlan \notin Plans
  BY <1>1 DEF Shape
<1>6. CASE Improves(p)
  <2>1. best' = p /\ stagnation' = 0 /\ improved' = iteration + 1
    BY <1>6 DEF Iterate
  <2>2. Counts'
    BY <1>1, <1>3, <1>4, <2>1 DEF Counts
  <2>3. ASSUME NEW q \in offered PROVE PlanCost(p) <= PlanCost(q)
    <3>1. best # NoPlan /\ best \in offered /\ best \in Plans /\ q \in Plans
          /\ PlanCost(best) <= PlanCost(q)
      BY DEF IInv, Bests
    <3>2. PlanCost(p) < PlanCost(best)
      BY <3>1, <1>6 DEF Improves
    <3>3. PlanCost(p) \in Nat /\ PlanCost(q) \in Nat /\ PlanCost(best) \in Nat
      BY <3>1, <1>1, CostNat
    <3>4. QED BY <3>1, <3>2, <3>3
  <2>4. PlanCost(p) <= PlanCost(p)
    BY <1>1, CostNat
  <2>5. offered' \subseteq Plans /\ \A q \in offered' : PlanCost(p) <= PlanCost(q)
    BY <1>1, <2>3, <2>4 DEF IInv, Bests
  <2>6. Bests'
    BY <1>1, <1>3, <1>5, <2>1, <2>5 DEF Bests
  <2>7. QED BY <1>3, <2>2, <2>6 DEF IInv
<1>7. CASE ~Improves(p)
  <2>1. best' = best /\ stagnation' = stagnation + 1 /\ improved' = improved /\ best # NoPlan
    BY <1>7 DEF Iterate, Improves
  <2>2. Counts'
    BY <1>1, <1>3, <1>4, <2>1 DEF Counts
  <2>3. best \in offered /\ best \in Plans /\ offered \subseteq Plans
    BY <2>1 DEF IInv, Bests
  <2>4. PlanCost(best) <= PlanCost(p)
    <3>1. PlanCost(p) \in Nat /\ PlanCost(best) \in Nat
      BY <2>3, <1>1, CostNat
    <3>2. QED BY <3>1, <2>1, <1>7 DEF Improves
  <2>5. Bests'
    BY <1>1, <1>3, <2>1, <2>3, <2>4 DEF IInv, Bests
  <2>6. QED BY <1>3, <2>2, <2>5 DEF IInv
<1>8. QED BY <1>6, <1>7

LEMMA IterateInVainKeepsInv ==
  ASSUME IInv, IterateInVain
  PROVE  IInv'
<1>1. Shape /\ Answers = {} /\ UNCHANGED <<inputs, best, answer, offered, improved>> /\ Running
      /\ iteration' = iteration + 1 /\ stagnation' = stagnation + 1
  BY StableSolutions DEF IterateInVain, IInv
<1>2. tau' \in [Jobs -> [Nodes -> TauMin..TauMax]]
  <2>1. \A j \in Jobs, x \in Nodes : tau[j][x] \in TauMin..TauMax
    BY <1>1 DEF Shape
  <2>2. \A j \in Jobs, x \in Nodes : Evaporated(tau[j][x]) \in TauMin..TauMax
    BY <2>1, LevelsBounded
  <2>3. QED BY <2>2 DEF IterateInVain
<1>3. Shape' /\ Answers' = Answers /\ Plans' = Plans
      /\ \A q \in Plans : PlanCost(q)' = PlanCost(q)
  BY <1>1, <1>2, SameInputs
<1>4. Counts'
  BY <1>1, <1>3, ColonyAssumption DEF IInv, Counts, Running
<1>5. Bests'
  BY <1>1, <1>3 DEF IInv, Bests
<1>6. QED BY <1>3, <1>4, <1>5 DEF IInv

LEMMA FinishKeepsInv ==
  ASSUME IInv, Finish
  PROVE  IInv'
<1>1. /\ UNCHANGED <<inputs, tau, iteration, best, stagnation, offered, improved>>
      /\ answer' \in {Failed, best} /\ (best = NoPlan => answer' = Failed)
      /\ iteration = NIterations \/ stagnation = StagnationLimit
  BY DEF Finish
<1>2. Shape' /\ Answers' = Answers /\ Plans' = Plans
      /\ \A q \in Plans : PlanCost(q)' = PlanCost(q)
  BY <1>1, SameInputs DEF IInv, Shape
<1>3. best = NoPlan \/ best \in Plans
  BY DEF IInv, Bests
<1>4. Counts'
  BY <1>1, <1>2, <1>3 DEF IInv, Counts
<1>5. Bests'
  BY <1>1, <1>2 DEF IInv, Bests
<1>6. QED BY <1>2, <1>4, <1>5 DEF IInv

LEMMA FastChoice ==
  ASSUME Shape, fast # <<>>
  PROVE  FirstBest(fast) \in Nodes /\ <<FirstBest(fast)>> \in Plans
<1>1. fast \in [1..K -> Int] /\ Len(eta) = 1 /\ Jobs = 1..1
  BY RowFacts DEF Shape
<1>2. \E b \in 1..K : (\A j \in 1..K : fast[j] <= fast[b]) /\ \A j \in 1..(b - 1) : fast[j] < fast[b]
  BY <1>1, ColonyAssumption, FirstGreatest
<1>3. FirstBest(fast) \in Nodes
  BY <1>1, <1>2, RowFacts DEF FirstBest
<1>4. QED BY <1>1, <1>3 DEF Plans

LEMMA FastPathKeepsInv ==
  ASSUME IInv, FastPath
  PROVE  IInv'
<1>1. /\ UNCHANGED <<inputs, tau, iteration, best, stagnation, offered, improved>>
      /\ fast # <<>> /\ answer' \in {Failed, <<FirstBest(fast)>>}
  BY DEF FastPath
<1>2. Shape' /\ Answers' = Answers /\ Plans' = Plans
      /\ \A q \in Plans : PlanCost(q)' = PlanCost(q)
  BY <1>1, SameInputs DEF IInv, Shape
<1>3. Counts'
  BY <1>1, <1>2, FastChoice DEF IInv, Counts, inputs
<1>4. Bests'
  BY <1>1, <1>2 DEF IInv, Bests
<1>5. QED BY <1>2, <1>3, <1>4 DEF IInv

LEMMA StepKeepsInv == IInv /\ [Next]_vars => IInv'
<1> SUFFICES ASSUME IInv, [Next]_vars PROVE IInv'
  OBVIOUS
<1>1. ASSUME NEW p \in Plans, Iterate(p) PROVE IInv'
  BY <1>1, IterateKeepsInv
<1>2. CASE IterateInVain
  BY <1>2, IterateInVainKeepsInv
<1>3. CASE Finish
  BY <1>3, FinishKeepsInv
<1>4. CASE FastPath
  BY <1>4, FastPathKeepsInv
<1>5. CASE UNCHANGED vars
  <2>1. Shape' /\ Answers' = Answers /\ Plans' = Plans
        /\ \A q \in Plans : PlanCost(q)' = PlanCost(q)
    BY <1>5, SameInputs DEF vars, IInv, Shape
  <2>2. Counts' /\ Bests'
    BY <1>5, <2>1 DEF vars, inputs, IInv, Counts, Bests
  <2>3. QED BY <2>1, <2>2 DEF IInv
<1>6. QED BY <1>1, <1>2, <1>3, <1>4, <1>5 DEF Next

LEMMA Invariant == Spec => []IInv
<1>1. QED BY InitInv, StepKeepsInv, PTL DEF Spec

-----------------------------------------------------------------------------
(* What follows *)

\* The variables of a run keep their types, and no counter passes its limit.
THEOREM TypeCorrect == Spec => []TypeOK
<1>1. IInv => TypeOK
  BY ColonyAssumption DEF IInv, Shape, Counts, Bests, TypeOK, Answers
<1>2. QED BY Invariant, <1>1, PTL

\* Pheromone never leaves its bounds, whatever row it is seeded with.
THEOREM Bounded == Spec => []TauBounded
<1>1. IInv => TauBounded
  BY DEF IInv, Shape, TauBounded
<1>2. QED BY Invariant, <1>1, PTL

\* The best plan is the cheapest of all iteration bests, for any prices.
THEOREM Cheapest == Spec => []BestIsCheapest
<1>1. IInv => BestIsCheapest
  BY DEF IInv, Bests, BestIsCheapest
<1>2. QED BY Invariant, <1>1, PTL

\* The loop ends before its last iteration only when it is stale.
THEOREM Stale == Spec => []StopsOnlyWhenStale
<1>1. IInv => StopsOnlyWhenStale
  BY ColonyAssumption DEF IInv, Counts, StopsOnlyWhenStale
<1>2. QED BY Invariant, <1>1, PTL

\* Some plan can be drawn exactly when every job has a node with a weight.
LEMMA Drawing ==
  ASSUME Shape
  PROVE  (Answers = {}) <=> (\E j \in Jobs : AllZero(eta[j]))
<1>1. ASSUME NEW j \in Jobs, AllZero(eta[j]) PROVE Answers = {}
  BY <1>1 DEF Answers, Drawable
<1>2. ASSUME \A j \in Jobs : ~AllZero(eta[j]) PROVE Answers # {}
  <2> DEFINE p == [j \in Jobs |-> 1]
  <2>1. p \in Plans
    BY RowFacts DEF Plans
  <2>2. \A j \in Jobs : 1 \in Drawable(eta[j])
    BY <1>2 DEF Drawable
  <2>3. p \in Answers
    BY <2>1, <2>2 DEF Answers
  <2>4. QED BY <2>3
<1>3. QED BY <1>1, <1>2

\* Apart from its liveness the colony implements ColonyPromise: its answer is
\* drawable for every job, and it fails exactly when some job has no node to go
\* to, although it sees that only through the draws of its ants.
THEOREM ImplementsPromise == Spec => Promise!Init /\ [][Promise!Answer]_(Promise!vars)
<1>1. Init => Promise!Init
  BY DEF Init, Promise!Init
<1>2. ASSUME IInv, [Next]_vars PROVE [Promise!Answer]_(Promise!vars)
  <2>1. Shape
    BY <1>2 DEF IInv
  <2>2. CASE Finish
    <3>1. /\ fast = <<>> /\ answer = NoPlan /\ UNCHANGED <<eta, fast>>
          /\ answer' = IF best = NoPlan THEN Failed ELSE best
      BY <2>2 DEF Finish, inputs
    <3>2. iteration > 0
      BY <1>2, <2>2, ColonyAssumption DEF Finish, IInv, Counts
    <3>3. IF \E j \in Jobs : AllZero(eta[j]) THEN answer' = Failed ELSE answer' \in Answers
      BY <1>2, <2>1, <3>1, <3>2, Drawing DEF IInv, Bests
    <3>4. Answers = {p \in [DOMAIN eta -> DOMAIN eta[1]] :
                       \A j \in DOMAIN eta : p[j] \in Promise!Drawable(eta[j])}
      BY <2>1, RowFacts DEF Answers, Plans, Jobs, Drawable, AllZero, Promise!Drawable, Promise!AllZero
    <3>5. QED BY <3>1, <3>3, <3>4
              DEF Promise!Answer, Promise!AnswerByAnts, Promise!AllZero, AllZero, Jobs
  <2>3. CASE FastPath
    <3>1. FirstBest(fast) = Promise!FirstBest(fast)
      BY DEF FirstBest, Promise!FirstBest
    <3>2. QED BY <2>3, <3>1 DEF FastPath, inputs, Promise!Answer, Promise!AnswerFast
  <2>4. CASE UNCHANGED <<eta, fast, answer>>
    BY <2>4 DEF Promise!vars
  <2>5. QED BY <1>2, <2>2, <2>3, <2>4 DEF Next, Iterate, IterateInVain, inputs, vars
<1>3. QED BY <1>1, <1>2, Invariant, PTL DEF Spec
=============================================================================
