------------------------------ MODULE AntColony ------------------------------
(***************************************************************************)
(* One run of the ant colony: Colony.run, with the ants' own heuristic and *)
(* an optional initial pheromone row, and _run_colony_with_eta, the loop   *)
(* the scheduler runs for a single job with the cost engine's scores.      *)
(*                                                                         *)
(* The ants of an iteration are independent draws from one matrix, so any  *)
(* drawable plan may turn out to be the cheapest of the iteration: it is   *)
(* chosen at once.  An ant does not keep account of what it has already    *)
(* put on a node.  Pheromone is in hundredths.                             *)
(***************************************************************************)
EXTENDS PlacementRules, LedgerSums

CONSTANTS
  NoPlan, Failed,   \* no plan yet / ColonyFailedError
  NIterations,      \* N_ITERATIONS
  StagnationLimit,  \* STAGNATION_LIMIT
  TauMin, TauInitial, TauMax,
  Q,                \* a deposit is Q divided by the cost of the plan
  K,                \* number of nodes
  JobLists,         \* job lists, in order of priority, for Colony.run
  NodeLists,        \* node lists of length K
  EtaRows,          \* rows of scores the scheduler hands over
  TauRows           \* initial_tau rows, <<>> for None

ASSUME ColonyAssumption ==
  /\ K \in Nat \ {0}
  /\ NIterations \in Nat \ {0} /\ StagnationLimit \in Nat \ {0}
  /\ TauMin \in Nat \ {0} /\ TauInitial \in Nat /\ TauMax \in Nat
  /\ TauMin <= TauInitial /\ TauInitial <= TauMax
  /\ Q \in Nat
  /\ NoPlan # Failed
  /\ JobLists \subseteq Seq(JobRequest) \ {<<>>}
  /\ \A js \in JobLists : {NoPlan, Failed} \cap [DOMAIN js -> 1..K] = {}
  /\ NodeLists \subseteq [1..K -> ComputeNode]
  /\ EtaRows \subseteq [1..K -> Nat]
  /\ \A row \in TauRows : row = <<>> \/ row \in [1..K -> Int]

VARIABLES
  eta,         \* eta[j][k]: _eta, shared by all ants
  fast,        \* the scores of the fast path, <<>> when the loop runs
  price,       \* price[j][k]: what node k costs for job j
  tau,         \* the pheromone matrix
  iteration,   \* iterations done
  best,        \* best_solution
  stagnation,
  answer,
  offered,     \* history: the iteration bests
  improved     \* history: the last iteration that improved best

inputs == <<eta, fast, price>>
vars == <<inputs, tau, iteration, best, stagnation, answer, offered, improved>>

Jobs  == DOMAIN eta
Nodes == 1..K
Plans == [Jobs -> Nodes]

TypeOK ==
  /\ eta \in Seq([Nodes -> Nat]) /\ eta # <<>>
  /\ fast = <<>> \/ (fast \in [Nodes -> Int] /\ Len(eta) = 1)
  /\ price \in [Jobs -> [Nodes -> Nat]]
  /\ tau \in [Jobs -> [Nodes -> Int]]
  /\ iteration \in 0..NIterations
  /\ best \in Plans \cup {NoPlan}
  /\ stagnation \in 0..StagnationLimit
  /\ answer \in Plans \cup {NoPlan, Failed}
  /\ offered \subseteq Plans
  /\ improved \in 0..iteration

-----------------------------------------------------------------------------
(* The two ways in *)

\* construct: the share of the node's price that the job's CPU request makes.
JobPrice(job, n) == (n.cost * job.cpu) \div n.cpu

\* Colony._fast_path_latency_critical: any node the job fits is acceptable,
\* one with the score zero included.
FastScores(job, ns) ==
  [k \in DOMAIN ns |-> IF CanFit(job, ns[k]) THEN Heuristic(job, ns[k]) ELSE -1]

\* PheromoneMatrix.__init__
Seeded(row) ==
  IF row = <<>> THEN [k \in Nodes |-> TauInitial]
  ELSE [k \in Nodes |-> Greatest(TauMin, Least(TauMax, row[k]))]

RunColony(js, ns, row) ==
  /\ eta = [j \in DOMAIN js |-> EtaRow(js[j], ns)]
  /\ fast = IF Len(js) = 1 /\ js[1].type = "latency" THEN FastScores(js[1], ns) ELSE <<>>
  /\ price = [j \in DOMAIN js |-> [k \in Nodes |-> JobPrice(js[j], ns[k])]]
  /\ tau = [j \in DOMAIN js |-> Seeded(row)]

\* The scheduler's loop: scores of its own, for one job; its fast path accepts
\* no zero.  It builds its matrix without the colony's initial_tau.
RunWithEta(row, js, ns, force) ==
  /\ eta = <<row>>
  /\ fast = IF force \/ js[1].type = "latency"
            THEN [k \in Nodes |-> IF row[k] = 0 THEN -1 ELSE row[k]] ELSE <<>>
  /\ price = <<[k \in Nodes |-> JobPrice(js[1], ns[k])]>>
  /\ tau = <<Seeded(<<>>)>>

Init ==
  /\ \E js \in JobLists, ns \in NodeLists :
       \/ \E row \in TauRows : RunColony(js, ns, row)
       \/ Len(js) = 1 /\ \E row \in EtaRows, force \in BOOLEAN : RunWithEta(row, js, ns, force)
  /\ iteration = 0 /\ stagnation = 0
  /\ best = NoPlan /\ answer = NoPlan
  /\ offered = {} /\ improved = 0

-----------------------------------------------------------------------------
(* The loop *)

\* An ant weighs a node by pheromone times the square of eta.
Weights(j) == [k \in Nodes |-> IF tau[j][k] > 0 THEN eta[j][k] ELSE 0]

\* Ant.construct: what the ants of one iteration can come up with.
Solutions == {p \in Plans : \A j \in Jobs : p[j] \in Drawable(Weights(j))}

PlanCost(p) == Total([j \in 1..Len(eta) |-> price[j][p[j]]], Len(eta))

\* (Bug: the last iteration wins.)
ImprovesAlways(p) == TRUE

Improves(p) == best = NoPlan \/ PlanCost(p) < PlanCost(best)

Evaporated(t) == Greatest(TauMin, Least(TauMax, (9 * t) \div 10))

\* PheromoneMatrix.deposit
Deposited(t, cost) == IF cost <= 0 THEN t ELSE Least(TauMax, t + Q \div cost)

Running == fast = <<>> /\ answer = NoPlan /\ iteration < NIterations /\ stagnation < StagnationLimit

\* (Bug: the count of stale iterations goes on.)
IterateCountingAll(p) ==
  /\ Running /\ p \in Solutions
  /\ IF Improves(p) THEN best' = p /\ improved' = iteration + 1 ELSE UNCHANGED <<best, improved>>
  /\ stagnation' = stagnation + 1
  /\ tau' = [j \in Jobs |-> [k \in Nodes |->
               IF p[j] = k THEN Deposited(Evaporated(tau[j][k]), PlanCost(p))
                           ELSE Evaporated(tau[j][k])]]
  /\ offered' = offered \cup {p}
  /\ iteration' = iteration + 1
  /\ UNCHANGED <<inputs, answer>>

\* An iteration whose cheapest ant has solution p.
Iterate(p) ==
  /\ Running /\ p \in Solutions
  /\ IF Improves(p) THEN best' = p /\ stagnation' = 0 /\ improved' = iteration + 1
                    ELSE stagnation' = stagnation + 1 /\ UNCHANGED <<best, improved>>
  /\ tau' = [j \in Jobs |-> [k \in Nodes |->
               IF p[j] = k THEN Deposited(Evaporated(tau[j][k]), PlanCost(p))
                           ELSE Evaporated(tau[j][k])]]
  /\ offered' = offered \cup {p}
  /\ iteration' = iteration + 1
  /\ UNCHANGED <<inputs, answer>>

\* No ant can place every job: nothing is deposited.
IterateInVain ==
  /\ Running /\ Solutions = {}
  /\ stagnation' = stagnation + 1
  /\ tau' = [j \in Jobs |-> [k \in Nodes |-> Evaporated(tau[j][k])]]
  /\ iteration' = iteration + 1
  /\ UNCHANGED <<inputs, best, answer, offered, improved>>

Finish ==
  /\ fast = <<>> /\ answer = NoPlan
  /\ iteration = NIterations \/ stagnation = StagnationLimit
  /\ answer' = IF best = NoPlan THEN Failed ELSE best
  /\ UNCHANGED <<inputs, tau, iteration, best, stagnation, offered, improved>>

\* (Bug: the greatest score even if it is not acceptable.)
FastPathUnchecked ==
  /\ fast # <<>> /\ answer = NoPlan
  /\ answer' = <<FirstBest(fast)>>
  /\ UNCHANGED <<inputs, tau, iteration, best, stagnation, offered, improved>>

FastPath ==
  /\ fast # <<>> /\ answer = NoPlan
  /\ LET k == FirstBest(fast) IN answer' = IF fast[k] = -1 THEN Failed ELSE <<k>>
  /\ UNCHANGED <<inputs, tau, iteration, best, stagnation, offered, improved>>

Next == (\E p \in Plans : Iterate(p)) \/ IterateInVain \/ Finish \/ FastPath

Spec == Init /\ [][Next]_vars

\* The colony runs in the caller's thread until it returns.
FairSpec == Spec /\ WF_vars(Next)
-----------------------------------------------------------------------------
(* What a run guarantees *)

\* Pheromone never leaves its bounds, whatever row it was seeded with: no node
\* is ever lost to the ants (its weight stays positive), none ever dominates.
TauBounded == \A j \in Jobs, k \in Nodes : tau[j][k] \in TauMin..TauMax

\* The answer is the cheapest of all iteration bests: a later, dearer iteration
\* or the decay of the matrix never replaces it.
BestIsCheapest ==
  /\ offered # {} => best \in offered
  /\ \A p \in offered : PlanCost(best) <= PlanCost(p)

\* The loop gives up before its last iteration only when that many iterations
\* in a row brought nothing better.
StopsOnlyWhenStale ==
  answer # NoPlan /\ fast = <<>> =>
    iteration = NIterations \/ iteration - improved >= StagnationLimit

\* The caller's view: a fast answer is the first best acceptable node, the ants'
\* answer is drawable for every job, and the colony fails exactly when some job
\* has no node to go to, however the pheromone has developed; and it answers.
Promise == INSTANCE ColonyPromise
KeepsPromise == Promise!Spec
=============================================================================
