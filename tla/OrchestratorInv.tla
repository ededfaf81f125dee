--------------------------- MODULE OrchestratorInv ---------------------------
(***************************************************************************)
(* The inductive invariant of the orchestrator: what the steps of          *)
(* submit_job, the drain and complete_job rely on, in named parts.         *)
(***************************************************************************)
EXTENDS Orchestrator

\* submit_job is somewhere between its first and its last line.
Submitting == pc \in {"place", "alloc", "store", "record"}

\* It has chosen a node.
Placing == pc \in {"alloc", "store", "record"}

\* What the program counter of the lock's holder says of its locals.
HolderInv ==
  /\ lock = "free" <=> pc = "idle"
  /\ pc = "next" => lock = "drain"
  /\ Submitting => cur \in Requests
  /\ lock = "drain" => queue = <<>>
  /\ Submitting /\ lock = "drain" => batch # <<>> /\ Head(batch).req = cur
  /\ Placing => step \in 1..(NumRes + 1) /\ at[nextId] \in Nodes /\ job[nextId] = cur
  /\ pc = "store" => step \in Res /\ Demand[cur][step] > 0
  /\ pc = "record" => step = NumRes + 1

\* A submission under way has a job id left.
BudgetInv ==
  /\ lock \in {"api", "sim", "orphan"} => nextId <= MaxIds
  /\ lock = "drain" => nextId + Len(batch) <= MaxIds + 1

\* What is known of the ids given out so far, and of complete_job's locals.
JobInv ==
  /\ active \subseteq 1..(nextId - 1)
  /\ \A k \in 1..(nextId - 1) : job[k] \in Requests /\ at[k] \in Nodes
  /\ executing \subseteq active /\ handoff \subseteq active
  /\ executing \cap handoff = {}
  /\ cpc = "idle" <=> cid = 0
  /\ cpc # "idle" => /\ cid \in active \ (executing \cup handoff)
                     /\ cstep \in 1..(NumRes + 1)
  /\ cpc = "store" => cstep \in Res /\ Demand[job[cid]][cstep] > 0
  /\ cpc \in {"drop", "retire"} => cstep = NumRes + 1

\* Under the accounting's proviso nothing exceeds a node's capacity, neither
\* what is promised nor what submit_job is about to add.
CapacityInv ==
  ~torn => /\ \A n \in Nodes, i \in Res : alloc[n][i] <= Capacity[n][i]
           /\ Placing => \A i \in Res :
                i >= step /\ Demand[cur][i] > 0 =>
                  alloc[at[nextId]][i] + Demand[cur][i] <= Capacity[at[nextId]][i]

\* In order from some entry on; the copies a failed retry has put before it are
\* of the same request.
Ordered(s) ==
  s = <<>> \/ \E m \in DOMAIN s :
               /\ \A j \in 1..m : s[j].req = s[m].req
               /\ \A j, k \in m..Len(s) : j <= k => s[j].at <= s[k].at

Waited(s) == \A k \in DOMAIN s : s[k].at <= now

\* The queue and the drain's batch are of the form a failed drain leaves, and
\* only the drain has a batch, which is no longer than the queue was.
QueueInv ==
  /\ lock # "drain" => batch = <<>>
  /\ Len(queue) <= QueueMax /\ Len(batch) <= QueueMax
  /\ Ordered(queue) /\ Waited(queue)
  /\ Ordered(batch) /\ Waited(batch)
  /\ NoQueuedRequestLost

StructInv == TypeOK /\ HolderInv /\ BudgetInv /\ JobInv

IInv == StructInv /\ AccountingExact /\ CapacityInv
=============================================================================
