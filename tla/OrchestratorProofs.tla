------------------------- MODULE OrchestratorProofs -------------------------
(***************************************************************************)
(* Proofs about the orchestrator, for every cluster, every set of requests *)
(* and every bound.  StructInv is inductive on its own; on top of it come  *)
(* what is said of the queue and then the reservations: every counter is   *)
(* the sum of what the jobs placed on its node hold, and nothing exceeds a *)
(* node's capacity.                                                        *)
(***************************************************************************)
EXTENDS OrchestratorInv, LedgerSumsTheorems, FiniteSetTheorems

USE CapacityAssumption, RequestAssumption, BoundAssumption

-----------------------------------------------------------------------------
(* Typing lemmas *)

LEMMA UpdateTyped ==
  ASSUME NEW A, NEW B, NEW S, NEW f \in [A -> [B -> S]],
         NEW a \in A, NEW b \in B, NEW v \in S
  PROVE  [f EXCEPT ![a][b] = v] \in [A -> [B -> S]]
OBVIOUS

LEMMA EntryFacts ==
  ASSUME NEW s \in Seq(Entries), s # <<>>
  PROVE  /\ Tail(s) \in Seq(Entries)
         /\ Len(s) \in Nat \ {0} /\ Len(Tail(s)) = Len(s) - 1
         /\ Head(s).req \in Requests
<1>1. Head(s) \in Entries
  OBVIOUS
<1>2. QED
  BY <1>1 DEF Entries

LEMMA KeepLastSeq ==
  ASSUME NEW S, NEW s \in Seq(S)
  PROVE  KeepLast(s) \in Seq(S)
<1>1. CASE Len(s) <= QueueMax
  BY <1>1 DEF KeepLast
<1>2. CASE ~(Len(s) <= QueueMax)
  <2>1. Len(s) \in Nat /\ \A i \in 1..Len(s) : s[i] \in S
    OBVIOUS
  <2>2. SubSeq(s, Len(s) - QueueMax + 1, Len(s)) \in Seq(S)
    BY <1>2, <2>1
  <2>3. QED
    BY <1>2, <2>2 DEF KeepLast
<1>3. QED
  BY <1>1, <1>2

-----------------------------------------------------------------------------
(* What StructInv says of the locals of the two routines *)

\* The drain's batch.
BatchFacts ==
  batch # <<>> => /\ Tail(batch) \in Seq(Entries)
                  /\ Len(batch) \in Nat \ {0} /\ Len(Tail(batch)) = Len(batch) - 1
                  /\ Head(batch).req \in Requests

\* The numbers of BudgetInv.
IdFacts == nextId \in Nat /\ MaxIds \in Nat /\ Len(batch) \in Nat

\* submit_job: a request, and an id that has not been given out.
SubmittingFacts ==
  Submitting => /\ cur \in Requests /\ WType[cur] \in WTypes
                /\ nextId \in Ids /\ lock # "free"
                /\ lock = "drain" => batch # <<>>

\* _allocate_resources: a node, and counters that are numbers.
PlacingFacts ==
  Placing => /\ at[nextId] \in Nodes /\ job[nextId] = cur
             /\ \A i \in Res : Demand[cur][i] \in Nat /\ alloc[at[nextId]][i] \in Nat

\* complete_job: the id it completes was given out, with a request and a node.
CompletingFacts ==
  cpc # "idle" =>
    /\ cid \in Ids /\ cid \in 1..(nextId - 1)
    /\ cid \in active /\ cid \notin executing /\ cid \notin handoff
    /\ job[cid] \in Requests /\ at[cid] \in Nodes /\ WType[job[cid]] \in WTypes
    /\ cstep \in 1..(NumRes + 1)
    /\ \A i \in Res : Demand[job[cid]][i] \in Nat /\ alloc[at[cid]][i] \in Nat

\* The queue after a failed retry.
QueueFacts ==
  cur \in Requests =>
    /\ KeepLast(Append(queue, [req |-> cur, at |-> now])) \in Seq(Entries)
    /\ KeepLast(Append(queue, [req |-> cur, at |-> now]) \o batch) \in Seq(Entries)

LEMMA LocalFacts ==
  ASSUME StructInv
  PROVE  IdFacts /\ BatchFacts /\ SubmittingFacts /\ PlacingFacts /\ CompletingFacts /\ QueueFacts
<1>0. IdFacts
  BY BoundAssumption DEF StructInv, TypeOK, IdFacts
<1>1. BatchFacts
  BY EntryFacts DEF StructInv, TypeOK, BatchFacts
<1>2. SubmittingFacts
  <2> SUFFICES ASSUME Submitting
               PROVE  /\ cur \in Requests /\ WType[cur] \in WTypes
                      /\ nextId \in Ids /\ lock # "free"
                      /\ lock = "drain" => batch # <<>>
    BY DEF SubmittingFacts
  <2>1. cur \in Requests /\ lock # "free" /\ (lock = "drain" => batch # <<>>)
    BY DEF StructInv, HolderInv, Submitting
  <2>2. nextId \in Ids
    BY <1>1, <2>1 DEF StructInv, BudgetInv, TypeOK, Ids, BatchFacts
  <2>3. QED
    BY <2>1, <2>2
<1>3. PlacingFacts
  BY <1>2 DEF StructInv, HolderInv, TypeOK, Submitting, Placing, SubmittingFacts, PlacingFacts
<1>4. CompletingFacts
  <2> SUFFICES ASSUME cpc # "idle" PROVE CompletingFacts
    BY DEF CompletingFacts
  <2>1. /\ cid \in active /\ cid \notin executing /\ cid \notin handoff
        /\ active \subseteq 1..(nextId - 1) /\ active \subseteq Ids
        /\ cstep \in 1..(NumRes + 1)
    BY DEF StructInv, JobInv, TypeOK
  <2>2. cid \in Ids /\ cid \in 1..(nextId - 1)
    BY <2>1
  <2>3. job[cid] \in Requests /\ at[cid] \in Nodes
    BY <2>2 DEF StructInv, JobInv
  <2>4. QED
    BY <2>1, <2>2, <2>3 DEF CompletingFacts, StructInv, TypeOK
<1>5. QueueFacts
  <2> SUFFICES ASSUME cur \in Requests PROVE QueueFacts
    BY DEF QueueFacts
  <2> DEFINE more == Append(queue, [req |-> cur, at |-> now])
  <2>1. queue \in Seq(Entries) /\ batch \in Seq(Entries) /\ [req |-> cur, at |-> now] \in Entries
    BY DEF StructInv, TypeOK, Entries
  <2>2. more \in Seq(Entries)
    BY <2>1
  <2>3. more \o batch \in Seq(Entries)
    BY <2>1, <2>2
  <2>4. QED
    BY <2>2, <2>3, KeepLastSeq DEF QueueFacts
<1>6. QED
  BY <1>0, <1>1, <1>2, <1>3, <1>4, <1>5

-----------------------------------------------------------------------------
(* The structural invariant *)

LEMMA StructInit == Init => StructInv
<1> SUFFICES ASSUME Init PROVE StructInv
  OBVIOUS
<1>1. TypeOK
  <2>1. batch \in Seq(Entries) /\ queue \in Seq(Entries)
    BY DEF Init
  <2>2. /\ alloc \in [Nodes -> [Res -> Nat]] /\ colo \in [Nodes -> [WTypes -> Int]]
        /\ job \in [Ids -> Requests \cup {None}] /\ at \in [Ids -> Nodes \cup {None}]
    BY DEF Init
  <2>3. status \in [Requests -> {"new", "pending", "SCHEDULED", "QUEUED", "REJECTED", "EXPIRED"}]
    BY DEF Init
  <2>4. /\ now \in 0..MaxNow /\ drainNow \in 0..MaxNow /\ nextId \in 1..(MaxIds + 1)
        /\ step \in 0..(NumRes + 1) /\ cstep \in 0..(NumRes + 1)
        /\ tmp \in Nat /\ ctmp \in Nat /\ cid \in Ids \cup {0}
    BY DEF Init
  <2>5. /\ active \subseteq Ids /\ completed \subseteq Ids
        /\ executing \subseteq Ids /\ handoff \subseteq Ids
        /\ lock = "free" /\ pc = "idle" /\ cpc = "idle" /\ cur = None
        /\ simRunning = FALSE /\ torn = FALSE
    BY DEF Init
  <2>6. QED
    BY <2>1, <2>2, <2>3, <2>4, <2>5 DEF TypeOK
<1>2. HolderInv /\ BudgetInv
  BY DEF Init, HolderInv, BudgetInv, Submitting, Placing
<1>3. JobInv
  BY DEF Init, JobInv
<1>4. QED
  BY <1>1, <1>2, <1>3 DEF StructInv

\* A list found empty loses nothing with its key.
LEMMA DropChangesNothing ==
  ASSUME StructInv, DropEmpty
  PROVE  colo' = colo
<1> DEFINE n == at[cid]
           none == [w \in WTypes |-> 0]
<1>1. colo \in [Nodes -> [WTypes -> Int]] /\ n \in Nodes
  BY LocalFacts DEF DropEmpty, CompletingFacts, StructInv, TypeOK
<1>2. CASE Emptied(n)
  <2>1. colo' = [colo EXCEPT ![n] = none]
    BY <1>2 DEF DropEmpty
  <2>2. colo[n] = none
    BY <1>1, <1>2 DEF Emptied
  <2>3. QED
    BY <1>1, <2>1, <2>2
<1>3. CASE ~Emptied(n)
  BY <1>3 DEF DropEmpty
<1>4. QED
  BY <1>2, <1>3

LEMMA StructStep ==
  ASSUME StructInv, [Next]_vars
  PROVE  StructInv'
<1>f. IdFacts /\ BatchFacts /\ SubmittingFacts /\ PlacingFacts /\ CompletingFacts /\ QueueFacts
  BY LocalFacts
<1> USE DEF StructInv, vars, holderVars, queueVars, jobVars, loopVars, launchVars
<1>1. ASSUME NEW who \in {"api", "sim"}, NEW r \in Requests, SubmitBegin(who, r) PROVE StructInv'
  <2>1. TypeOK'
    BY <1>1 DEF TypeOK, Res, Ids, SubmitBegin, LoopIdle
  <2>2. HolderInv'
    BY <1>1 DEF TypeOK, HolderInv, Submitting, Placing, Res, Ids, SubmitBegin, LoopIdle
  <2>3. BudgetInv'
    BY <1>1, <1>f DEF BudgetInv, HolderInv, IdFacts, BatchFacts, Submitting, LoopIdle, SubmitBegin
  <2>4. JobInv'
    BY <1>1 DEF JobInv, SubmitBegin
  <2>5. QED
    BY <2>1, <2>2, <2>3, <2>4
<1>2. ASSUME Refuse PROVE StructInv'
  <2>1. TypeOK'
    BY <1>2, <1>f DEF TypeOK, Res, Ids, BatchFacts, SubmittingFacts, Submitting, Refuse, Return
  <2>2. HolderInv'
    BY <1>2 DEF TypeOK, HolderInv, Submitting, Placing, Res, Ids, Refuse, Return
  <2>3. BudgetInv'
    BY <1>2, <1>f DEF BudgetInv, HolderInv, IdFacts, BatchFacts, Submitting, Refuse, Return
  <2>4. JobInv'
    BY <1>2 DEF JobInv, Refuse, Return
  <2>5. QED
    BY <2>1, <2>2, <2>3, <2>4
<1>3. ASSUME NEW n \in Nodes, Place(n) PROVE StructInv'
  <2>1. TypeOK'
    <3>1. nextId \in Ids /\ cur \in Requests
      BY <1>3, <1>f DEF SubmittingFacts, Submitting, Place
    <3>2. job' \in [Ids -> Requests \cup {None}] /\ at' \in [Ids -> Nodes \cup {None}]
      BY <1>3, <3>1 DEF Place, TypeOK
    <3>3. step' \in 0..(NumRes + 1) /\ pc' = "alloc"
      BY <1>3, CapacityAssumption DEF Place
    <3>4. UNCHANGED <<now, lock, cur, tmp, queueVars, status, alloc, colo, nextId,
                      active, completed, launchVars, loopVars, torn>>
      BY <1>3 DEF Place
    <3>5. QED
      BY <3>2, <3>3, <3>4 DEF TypeOK
  <2>2. HolderInv'
    BY <1>3, <1>f DEF TypeOK, HolderInv, Submitting, Placing, Res, Ids, SubmittingFacts, Place, Feasible
  <2>3. BudgetInv'
    BY <1>3 DEF BudgetInv, Place
  <2>4. JobInv'
    <3>1. nextId \in Ids
      BY <1>3, <1>f DEF Place, SubmittingFacts, Submitting
    <3>2. \A j \in 1..(nextId - 1) : job'[j] = job[j] /\ at'[j] = at[j]
      BY <1>3, <3>1 DEF Place, TypeOK, Ids
    <3>3. cpc # "idle" => job'[cid] = job[cid]
      BY <1>f, <3>2 DEF CompletingFacts
    <3>4. UNCHANGED <<nextId, active, executing, handoff, cpc, cid, cstep>>
      BY <1>3 DEF Place
    <3>5. QED
      BY <3>2, <3>3, <3>4 DEF JobInv
  <2>5. QED
    BY <2>1, <2>2, <2>3, <2>4
<1>4. ASSUME RejectUnplaceable PROVE StructInv'
  <2>1. TypeOK'
    BY <1>4, <1>f DEF TypeOK, Res, Ids, BatchFacts, SubmittingFacts, Submitting, RejectUnplaceable, Return
  <2>2. HolderInv'
    BY <1>4 DEF TypeOK, HolderInv, Submitting, Placing, Res, Ids, RejectUnplaceable, Return
  <2>3. BudgetInv'
    BY <1>4, <1>f DEF BudgetInv, HolderInv, IdFacts, BatchFacts, Submitting, RejectUnplaceable, Return
  <2>4. JobInv'
    BY <1>4 DEF JobInv, RejectUnplaceable, Return
  <2>5. QED
    BY <2>1, <2>2, <2>3, <2>4
<1>5. ASSUME Enqueue PROVE StructInv'
  <2>1. TypeOK'
    BY <1>5, <1>f DEF TypeOK, Res, Ids, SubmittingFacts, QueueFacts, Submitting, Enqueue, Return
  <2>2. HolderInv'
    BY <1>5 DEF TypeOK, HolderInv, Submitting, Placing, Res, Ids, Enqueue, Return
  <2>3. BudgetInv'
    BY <1>5, <1>f DEF BudgetInv, HolderInv, IdFacts, BatchFacts, Submitting, Enqueue, Return
  <2>4. JobInv'
    BY <1>5 DEF JobInv, Enqueue, Return
  <2>5. QED
    BY <2>1, <2>2, <2>3, <2>4
<1>6. ASSUME Requeue PROVE StructInv'
  <2>1. TypeOK'
    <3>1. cur \in Requests
      BY <1>6, <1>f DEF SubmittingFacts, Submitting, Requeue
    <3>2. queue' \in Seq(Entries)
      BY <1>6, <1>f, <3>1 DEF QueueFacts, Requeue
    <3>3. status' \in [Requests -> {"new", "pending", "SCHEDULED", "QUEUED", "REJECTED", "EXPIRED"}]
      BY <1>6, <3>1 DEF Requeue, TypeOK
    <3>4. batch' = <<>> /\ cur' = None /\ pc' = "idle" /\ lock' = "free"
      BY <1>6 DEF Requeue
    <3>5. UNCHANGED <<now, step, tmp, drainNow, alloc, colo, jobVars, active,
                      completed, launchVars, loopVars, torn>>
      BY <1>6 DEF Requeue
    <3>6. QED
      BY <3>2, <3>3, <3>4, <3>5 DEF TypeOK
  <2>2. HolderInv'
    BY <1>6 DEF TypeOK, HolderInv, Submitting, Placing, Res, Ids, Requeue
  <2>3. BudgetInv'
    BY <1>6, <1>f DEF BudgetInv, HolderInv, IdFacts, BatchFacts, Submitting, Requeue
  <2>4. JobInv'
    BY <1>6 DEF JobInv, Requeue
  <2>5. QED
    BY <2>1, <2>2, <2>3, <2>4
<1>7. ASSUME AllocRead PROVE StructInv'
  <2>1. TypeOK'
    <3>1. step \in 1..NumRes /\ Placing
      BY <1>7 DEF AllocRead, Placing, Res
    <3>2. tmp' \in Nat
      BY <1>7, <1>f, <3>1 DEF AllocRead, PlacingFacts, TypeOK, Res
    <3>3. step' \in 0..(NumRes + 1) /\ pc' \in {"alloc", "store"}
      BY <1>7, <3>1 DEF AllocRead, TypeOK
    <3>4. QED
      BY <1>7, <3>2, <3>3 DEF AllocRead, TypeOK
  <2>2. HolderInv'
    <3>1. /\ step' \in 1..(NumRes + 1) /\ Placing /\ Placing'
          /\ pc' = "store" => step' \in Res /\ Demand[cur][step'] > 0
          /\ pc \notin {"idle", "next", "record"} /\ pc' \in {"alloc", "store"}
      BY <1>7 DEF AllocRead, Placing, Res
    <3>2. UNCHANGED <<lock, cur, batch, queue, at, nextId, job>>
      BY <1>7 DEF AllocRead
    <3>3. QED
      BY <3>1, <3>2 DEF HolderInv, Submitting, Placing
  <2>3. BudgetInv'
    BY <1>7 DEF BudgetInv, AllocRead
  <2>4. JobInv'
    BY <1>7 DEF JobInv, AllocRead
  <2>5. QED
    BY <2>1, <2>2, <2>3, <2>4
<1>8. ASSUME AllocWrite PROVE StructInv'
  <2>1. TypeOK'
    <3>1. Placing /\ step \in Res /\ Submitting
      BY <1>8 DEF AllocWrite, Placing, Submitting, HolderInv
    <3>2. tmp + Demand[cur][step] \in Nat /\ at[nextId] \in Nodes
      BY <1>f, <3>1 DEF PlacingFacts, TypeOK
    <3>2a. alloc' = [alloc EXCEPT ![at[nextId]][step] = tmp + Demand[cur][step]]
      BY <1>8 DEF AllocWrite
    <3>3. alloc' \in [Nodes -> [Res -> Nat]]
      BY <3>1, <3>2, <3>2a, UpdateTyped DEF TypeOK
    <3>4. step' \in 0..(NumRes + 1)
      BY <1>8, <3>1 DEF AllocWrite, Res
    <3>5. torn' \in BOOLEAN
      BY <1>8 DEF AllocWrite
    <3>6. QED
      BY <1>8, <3>3, <3>4, <3>5 DEF AllocWrite, TypeOK
  <2>2. HolderInv'
    BY <1>8, <1>f DEF TypeOK, HolderInv, Submitting, Placing, Res, Ids, SubmittingFacts, PlacingFacts, Submitting, Placing, AllocWrite
  <2>3. BudgetInv'
    BY <1>8 DEF BudgetInv, AllocWrite
  <2>4. JobInv'
    BY <1>8 DEF JobInv, AllocWrite
  <2>5. QED
    BY <2>1, <2>2, <2>3, <2>4
<1>8a. ASSUME Colocate PROVE StructInv'
  <2>1. Placing /\ Submitting /\ step = NumRes + 1
    BY <1>8a DEF Colocate, Placing, Submitting
  <2>2. TypeOK'
    <3>1. at[nextId] \in Nodes /\ WType[cur] \in WTypes
      BY <1>f, <2>1 DEF PlacingFacts, SubmittingFacts
    <3>2. colo[at[nextId]][WType[cur]] + 1 \in Int
      BY <3>1 DEF TypeOK
    <3>3. colo' \in [Nodes -> [WTypes -> Int]]
      BY <1>8a, <3>1, <3>2, UpdateTyped DEF Colocate, TypeOK
    <3>4. QED
      BY <1>8a, <3>3 DEF Colocate, TypeOK
  <2>3. HolderInv'
    BY <1>8a, <2>1 DEF HolderInv, Submitting, Placing, Colocate
  <2>4. BudgetInv'
    BY <1>8a DEF BudgetInv, Colocate
  <2>5. JobInv'
    BY <1>8a DEF JobInv, Colocate
  <2>6. QED
    BY <2>2, <2>3, <2>4, <2>5
<1>9. ASSUME Record PROVE StructInv'
  <2>1. TypeOK'
    <3>1. Placing /\ Submitting
      BY <1>9 DEF Record, Placing, Submitting
    <3>2. at[nextId] \in Nodes /\ nextId \in Ids /\ cur \in Requests
      BY <1>f, <3>1 DEF PlacingFacts, SubmittingFacts
    <3>4. active' \subseteq Ids /\ executing' \subseteq Ids /\ handoff' \subseteq Ids
      BY <1>9, <3>2 DEF Record, TypeOK
    <3>5. nextId' \in 1..(MaxIds + 1)
      BY <1>9, <3>2 DEF Record, Ids
    <3>6. /\ batch' \in Seq(Entries) /\ cur' \in Requests \cup {None}
          /\ status' \in [Requests -> {"new", "pending", "SCHEDULED", "QUEUED", "REJECTED", "EXPIRED"}]
          /\ lock' \in {"free", "api", "sim", "orphan", "drain"} /\ pc' \in {"idle", "next"}
      BY <1>9, <1>f, <3>1, <3>2 DEF Record, Return, TypeOK, BatchFacts, SubmittingFacts
    <3>7. step' \in 0..(NumRes + 1)
      BY <1>9 DEF Record
    <3>8. QED
      BY <1>9, <3>4, <3>5, <3>6, <3>7 DEF Record, TypeOK
  <2>2. HolderInv'
    BY <1>9 DEF TypeOK, HolderInv, Submitting, Placing, Res, Ids, Record, Return
  <2>3. BudgetInv'
    <3>1. nextId' = nextId + 1 /\ lock' \in {"free", "drain"}
      BY <1>9 DEF Record, Return
    <3>2. lock' = "drain" => lock = "drain" /\ batch' = Tail(batch) /\ batch # <<>>
      BY <1>9 DEF Record, Return, HolderInv, Submitting
    <3>3. lock' = "drain" => Len(batch') = Len(batch) - 1
      BY <1>f, <3>2 DEF BatchFacts
    <3>4. QED
      BY <1>f, <3>1, <3>2, <3>3 DEF BudgetInv, IdFacts
  <2>4. JobInv'
    <3>1. Placing /\ Submitting
      BY <1>9 DEF Record, Placing, Submitting
    <3>2. nextId \in Ids /\ job[nextId] \in Requests /\ at[nextId] \in Nodes
      BY <1>f, <3>1 DEF PlacingFacts, SubmittingFacts
    <3>3. /\ active' \subseteq 1..(nextId' - 1)
          /\ \A k \in 1..(nextId' - 1) : job'[k] \in Requests /\ at'[k] \in Nodes
      <4>1. nextId' = nextId + 1 /\ active' = active \cup {nextId} /\ UNCHANGED <<job, at>>
        BY <1>9 DEF Record
      <4>2. \A i : i \in 1..(nextId' - 1) <=> i \in 1..(nextId - 1) \/ i = nextId
        <5>1. nextId \in Nat \ {0} /\ nextId' - 1 = nextId
          <6>1. nextId \in Nat /\ nextId >= 1
            BY ONLY <3>2, <1>f DEF Ids, IdFacts
          <6>2. QED
            BY ONLY <4>1, <6>1
        <5>2. \A i \in Int : i \in 1..nextId <=> i \in 1..(nextId - 1) \/ i = nextId
          BY <5>1
        <5>3. QED
          BY ONLY <5>1, <5>2, SMT
      <4>3. active' \subseteq 1..(nextId' - 1)
        BY <4>1, <4>2 DEF JobInv
      <4>4. ASSUME NEW k \in 1..(nextId' - 1) PROVE job'[k] \in Requests /\ at'[k] \in Nodes
        <5>1. k \in 1..(nextId - 1) => job[k] \in Requests /\ at[k] \in Nodes
          BY DEF JobInv
        <5>2. QED
          BY <3>2, <4>1, <4>2, <5>1
      <4>5. QED
        BY <4>3, <4>4
    <3>4. nextId \notin active
      BY <3>2 DEF JobInv, Ids
    <3>5. /\ executing' \subseteq active' /\ handoff' \subseteq active'
          /\ executing' \cap handoff' = {}
      <4>1. active' = active \cup {nextId}
        BY <1>9 DEF Record
      <4>2. /\ executing' \in {executing, executing \cup {nextId}}
            /\ handoff' \in {handoff, handoff \cup {nextId}}
            /\ executing' = executing \/ handoff' = handoff
        BY <1>9 DEF Record
      <4>3. QED
        BY <3>4, <4>1, <4>2 DEF JobInv
    <3>6. cpc # "idle" => cid \in active' \ (executing' \cup handoff')
      BY <1>9, <3>4 DEF Record, JobInv
    <3>7. UNCHANGED <<cpc, cid, cstep, job>>
      BY <1>9 DEF Record
    <3>8. QED
      BY <3>3, <3>5, <3>6, <3>7 DEF JobInv
  <2>5. QED
    BY <2>1, <2>2, <2>3, <2>4
<1>10. ASSUME DrainBegin PROVE StructInv'
  <2>1. TypeOK'
    BY <1>10 DEF TypeOK, Res, Ids, DrainBegin
  <2>2. HolderInv'
    BY <1>10 DEF TypeOK, HolderInv, Submitting, Placing, Res, Ids, DrainBegin
  <2>3. BudgetInv'
    BY <1>10, <1>f DEF BudgetInv, HolderInv, IdFacts, BatchFacts, Submitting, DrainBegin
  <2>4. JobInv'
    BY <1>10 DEF JobInv, DrainBegin
  <2>5. QED
    BY <2>1, <2>2, <2>3, <2>4
<1>11. ASSUME DrainExpire PROVE StructInv'
  <2>1. TypeOK'
    <3>1. batch' \in Seq(Entries) /\ Head(batch).req \in Requests
      BY <1>11, <1>f DEF BatchFacts, DrainExpire
    <3>2. status' \in [Requests -> {"new", "pending", "SCHEDULED", "QUEUED", "REJECTED", "EXPIRED"}]
      BY <1>11, <3>1 DEF TypeOK, DrainExpire
    <3>3. QED
      BY <1>11, <3>1, <3>2 DEF TypeOK, DrainExpire
  <2>2. HolderInv'
    BY <1>11 DEF TypeOK, HolderInv, Submitting, Placing, Res, Ids, DrainExpire
  <2>3. BudgetInv'
    <3>1. batch # <<>> /\ batch' = Tail(batch) /\ UNCHANGED <<lock, nextId>>
      BY <1>11 DEF DrainExpire
    <3>2. Len(batch') = Len(batch) - 1
      BY ONLY <1>f, <3>1 DEF BatchFacts
    <3>3. lock' # "free" /\ (lock = "drain" => nextId + Len(batch) <= MaxIds + 1)
      BY <1>11, <3>1 DEF BudgetInv, HolderInv, DrainExpire
    <3>4. pc = "next" /\ lock = "drain"
      BY <1>11 DEF DrainExpire, HolderInv
    <3>5. QED
      BY ONLY <1>f, <3>1, <3>2, <3>3, <3>4 DEF BudgetInv, IdFacts
  <2>4. JobInv'
    BY <1>11 DEF JobInv, DrainExpire
  <2>5. QED
    BY <2>1, <2>2, <2>3, <2>4
<1>12. ASSUME DrainRetry PROVE StructInv'
  <2>1. TypeOK'
    BY <1>12, <1>f DEF TypeOK, Res, Ids, BatchFacts, DrainRetry
  <2>2. HolderInv'
    BY <1>12, <1>f DEF TypeOK, HolderInv, Submitting, Placing, Res, Ids, BatchFacts, DrainRetry
  <2>3. BudgetInv'
    BY <1>12 DEF BudgetInv, DrainRetry
  <2>4. JobInv'
    BY <1>12 DEF JobInv, DrainRetry
  <2>5. QED
    BY <2>1, <2>2, <2>3, <2>4
<1>13. ASSUME DrainEnd PROVE StructInv'
  <2>1. TypeOK'
    BY <1>13 DEF TypeOK, Res, Ids, DrainEnd
  <2>2. HolderInv'
    BY <1>13 DEF TypeOK, HolderInv, Submitting, Placing, Res, Ids, DrainEnd
  <2>3. BudgetInv'
    BY <1>13, <1>f DEF BudgetInv, HolderInv, IdFacts, BatchFacts, Submitting, DrainEnd
  <2>4. JobInv'
    BY <1>13 DEF JobInv, DrainEnd
  <2>5. QED
    BY <2>1, <2>2, <2>3, <2>4
<1>14. ASSUME SimStart PROVE StructInv'
  <2>1. TypeOK'
    BY <1>14 DEF TypeOK, Res, Ids, SimStart, LoopIdle
  <2>2. HolderInv'
    BY <1>14 DEF HolderInv, Submitting, Placing, SimStart
  <2>3. BudgetInv'
    BY <1>14 DEF BudgetInv, SimStart
  <2>4. JobInv'
    BY <1>14 DEF JobInv, SimStart
  <2>5. QED
    BY <2>1, <2>2, <2>3, <2>4
<1>15. ASSUME SimStop PROVE StructInv'
  <2>1. TypeOK'
    BY <1>15 DEF TypeOK, Res, Ids, SimStop, LoopIdle
  <2>2. HolderInv'
    BY <1>15 DEF TypeOK, HolderInv, Submitting, Placing, Res, Ids, SimStop, LoopIdle
  <2>3. BudgetInv'
    BY <1>15, <1>f DEF BudgetInv, HolderInv, IdFacts, BatchFacts, Submitting, SimStop
  <2>4. JobInv'
    BY <1>15 DEF TypeOK, JobInv, HolderInv, BudgetInv, Submitting, Placing, Res, Ids, SimStop, LoopIdle
  <2>5. QED
    BY <2>1, <2>2, <2>3, <2>4
<1>16. ASSUME NEW k \in Ids, SimLaunch(k) PROVE StructInv'
  <2>1. TypeOK'
    BY <1>16 DEF TypeOK, Res, Ids, SimLaunch, LoopIdle
  <2>2. HolderInv'
    BY <1>16 DEF HolderInv, Submitting, Placing, SimLaunch
  <2>3. BudgetInv'
    BY <1>16 DEF BudgetInv, SimLaunch
  <2>4. JobInv'
    BY <1>16 DEF TypeOK, JobInv, HolderInv, BudgetInv, Submitting, Placing, Res, Ids, SimLaunch, LoopIdle
  <2>5. QED
    BY <2>1, <2>2, <2>3, <2>4
<1>17. ASSUME NEW k \in Ids, CompleteBegin(k) PROVE StructInv'
  <2>1. TypeOK'
    BY <1>17 DEF TypeOK, Res, Ids, CompleteBegin, LoopIdle
  <2>2. HolderInv'
    BY <1>17 DEF HolderInv, Submitting, Placing, CompleteBegin
  <2>3. BudgetInv'
    BY <1>17 DEF BudgetInv, CompleteBegin
  <2>4. JobInv'
    <3>1. UNCHANGED <<nextId, active, job, at, handoff>>
      BY <1>17 DEF CompleteBegin
    <3>2. /\ cid' = k /\ k \in active /\ k \in executing /\ k # 0
          /\ cpc' = "release" /\ cstep' = 1 /\ executing' = executing \ {k}
      BY <1>17 DEF CompleteBegin, Ids
    <3>3. 1 \in 1..(NumRes + 1)
      OBVIOUS
    <3>4. QED
      BY <3>1, <3>2, <3>3 DEF JobInv
  <2>5. QED
    BY <2>1, <2>2, <2>3, <2>4
<1>18. ASSUME ReleaseRead PROVE StructInv'
  <2>1. TypeOK'
    <3>1. cstep \in 1..NumRes /\ cpc # "idle"
      BY <1>18 DEF ReleaseRead, Res
    <3>2. ctmp' \in Nat
      <4>1. ctmp \in Nat /\ alloc[at[cid]][cstep] \in Nat
        BY <1>f, <3>1 DEF CompletingFacts, TypeOK, Res
      <4>2. ctmp' \in {ctmp, alloc[at[cid]][cstep]}
        BY <1>18, <3>1 DEF ReleaseRead
      <4>3. QED
        BY <4>1, <4>2
    <3>3. cstep' \in 0..(NumRes + 1) /\ cpc' \in {"release", "store"}
      BY <1>18, <3>1 DEF ReleaseRead, TypeOK
    <3>4. QED
      BY <1>18, <3>2, <3>3 DEF ReleaseRead, TypeOK
  <2>2. HolderInv'
    BY <1>18 DEF HolderInv, Submitting, Placing, ReleaseRead
  <2>3. BudgetInv'
    BY <1>18 DEF BudgetInv, ReleaseRead
  <2>4. JobInv'
    <3>1. /\ cstep' \in 1..(NumRes + 1) /\ cpc # "idle" /\ cpc' # "idle"
          /\ cpc' = "store" => cstep' \in Res /\ Demand[job[cid]][cstep'] > 0
          /\ cpc' \in {"release", "store"}
      BY <1>18 DEF ReleaseRead, Res
    <3>2. UNCHANGED <<nextId, active, job, at, executing, handoff, cid>>
      BY <1>18 DEF ReleaseRead
    <3>3. QED
      BY <3>1, <3>2 DEF JobInv
  <2>5. QED
    BY <2>1, <2>2, <2>3, <2>4
<1>19. ASSUME ReleaseWrite PROVE StructInv'
  <2>1. TypeOK'
    <3> DEFINE left == ctmp - Demand[job[cid]][cstep]
    <3>1. cpc # "idle" /\ cstep \in Res
      BY <1>19 DEF ReleaseWrite, JobInv
    <3>2. (IF left > 0 THEN left ELSE 0) \in Nat
      BY <1>f, <3>1 DEF CompletingFacts, TypeOK
    <3>3. alloc' \in [Nodes -> [Res -> Nat]]
      <4>1. at[cid] \in Nodes /\ alloc \in [Nodes -> [Res -> Nat]]
        BY <1>f, <3>1 DEF CompletingFacts, TypeOK
      <4>2. alloc' = [alloc EXCEPT ![at[cid]][cstep] = IF left > 0 THEN left ELSE 0]
        BY <1>19 DEF ReleaseWrite
      <4> HIDE DEF left
      <4>3. QED
        BY <3>1, <3>2, <4>1, <4>2, UpdateTyped
    <3>4. cstep' \in 0..(NumRes + 1)
      BY <1>19, <3>1 DEF ReleaseWrite, Res
    <3>5. torn' \in BOOLEAN
      BY <1>19 DEF ReleaseWrite
    <3>6. QED
      BY <1>19, <3>3, <3>4, <3>5 DEF ReleaseWrite, TypeOK
  <2>2. HolderInv'
    BY <1>19 DEF HolderInv, Submitting, Placing, ReleaseWrite
  <2>3. BudgetInv'
    BY <1>19 DEF BudgetInv, ReleaseWrite
  <2>4. JobInv'
    <3>1. cstep \in Res
      BY <1>19 DEF ReleaseWrite, JobInv
    <3>2. cstep' \in 1..(NumRes + 1) /\ cpc = "store" /\ cpc' = "release"
      BY <1>19, <3>1 DEF ReleaseWrite, Res
    <3>3. UNCHANGED <<nextId, active, job, at, executing, handoff, cid>>
      BY <1>19 DEF ReleaseWrite
    <3>4. QED
      BY <3>2, <3>3 DEF JobInv
  <2>5. QED
    BY <2>1, <2>2, <2>3, <2>4
<1>20. ASSUME Unmap PROVE StructInv'
  <2>1. TypeOK'
    <3> DEFINE n == at[cid]
               w == WType[job[cid]]
    <3>1. n \in Nodes /\ w \in WTypes
      BY <1>20, <1>f DEF Unmap, CompletingFacts
    <3>2. (IF colo[n][w] > 0 THEN colo[n][w] - 1 ELSE colo[n][w]) \in Int
      BY <3>1 DEF TypeOK
    <3>3. colo' = [colo EXCEPT ![n][w] = IF colo[n][w] > 0 THEN colo[n][w] - 1 ELSE colo[n][w]]
      BY <1>20, <3>1 DEF Unmap, TypeOK
    <3> HIDE DEF n, w
    <3>4. colo' \in [Nodes -> [WTypes -> Int]]
      BY <3>1, <3>2, <3>3, UpdateTyped DEF TypeOK
    <3>5. QED
      BY <1>20, <3>4 DEF Unmap, TypeOK
  <2>2. HolderInv'
    BY <1>20 DEF HolderInv, Submitting, Placing, Unmap
  <2>3. BudgetInv'
    BY <1>20 DEF BudgetInv, Unmap
  <2>4. JobInv'
    BY <1>20 DEF JobInv, Unmap
  <2>5. QED
    BY <2>1, <2>2, <2>3, <2>4
<1>20a. ASSUME DropEmpty PROVE StructInv'
  <2>1. colo' = colo
    BY <1>20a, DropChangesNothing
  <2>2. TypeOK'
    BY <1>20a, <2>1 DEF TypeOK, DropEmpty
  <2>3. HolderInv'
    BY <1>20a DEF HolderInv, Submitting, Placing, DropEmpty
  <2>4. BudgetInv'
    BY <1>20a DEF BudgetInv, DropEmpty
  <2>5. JobInv'
    BY <1>20a DEF JobInv, DropEmpty
  <2>6. QED
    BY <2>2, <2>3, <2>4, <2>5
<1>20b. ASSUME Retire PROVE StructInv'
  <2>1. TypeOK'
    <3>1. cid \in Ids
      BY <1>20b, <1>f DEF Retire, CompletingFacts
    <3>2. active' \subseteq Ids /\ completed' \subseteq Ids
      BY <1>20b, <3>1 DEF Retire, TypeOK
    <3>3. QED
      BY <1>20b, <3>2 DEF Retire, TypeOK
  <2>2. HolderInv'
    BY <1>20b DEF HolderInv, Submitting, Placing, Retire
  <2>3. BudgetInv'
    BY <1>20b DEF BudgetInv, Retire
  <2>4. JobInv'
    BY <1>20b DEF TypeOK, JobInv, HolderInv, BudgetInv, Submitting, Placing, Res, Ids, Retire
  <2>5. QED
    BY <2>1, <2>2, <2>3, <2>4
<1>21. ASSUME Tick PROVE StructInv'
  <2>1. TypeOK'
    BY <1>21 DEF TypeOK, Res, Ids, Tick
  <2>2. HolderInv'
    BY <1>21 DEF HolderInv, Submitting, Placing, Tick
  <2>3. BudgetInv'
    BY <1>21 DEF BudgetInv, Tick
  <2>4. JobInv'
    BY <1>21 DEF JobInv, Tick
  <2>5. QED
    BY <2>1, <2>2, <2>3, <2>4
<1>22. ASSUME UNCHANGED vars PROVE StructInv'
  <2>1. TypeOK'
    BY <1>22 DEF TypeOK, Res, Ids
  <2>2. HolderInv'
    BY <1>22 DEF HolderInv, Submitting, Placing
  <2>3. BudgetInv'
    BY <1>22 DEF BudgetInv
  <2>4. JobInv'
    BY <1>22 DEF JobInv
  <2>5. QED
    BY <2>1, <2>2, <2>3, <2>4
<1>23. QED
  BY <1>1, <1>2, <1>3, <1>4, <1>5, <1>6, <1>7, <1>8, <1>8a, <1>9, <1>10, <1>11, <1>12, <1>13, <1>14, <1>15, <1>16, <1>17, <1>18, <1>19, <1>20, <1>20a, <1>20b, <1>21, <1>22
     DEF Next, Submission, Drain, Completion

\* Every reachable state satisfies the structural invariant.
THEOREM StructInvariant == Spec => []StructInv
<1>1. StructInv /\ [Next]_vars => StructInv'
  BY StructStep
<1>2. QED
  BY <1>1, StructInit, PTL DEF Spec

\* Type correctness of every routine: in particular no reservation counter goes
\* below zero, and every id in active_jobs was given out.
THEOREM TypeCorrect == Spec => []TypeOK
<1>1. StructInv => TypeOK
  BY DEF StructInv
<1>2. QED
  BY <1>1, StructInvariant, PTL

-----------------------------------------------------------------------------
(* Leaks *)

LEMMA LeakStep ==
  ASSUME StructInv, [Next]_vars
  PROVE  \/ (active' \ Attended') \subseteq (active \ Attended)
         \/ lock \in {"drain", "orphan"} \/ (simRunning /\ ~simRunning')
<1> DEFINE NoNewLeak == \/ (active' \ Attended') \subseteq (active \ Attended)
                        \/ lock \in {"drain", "orphan"} \/ (simRunning /\ ~simRunning')
<1> SUFFICES NoNewLeak
  OBVIOUS
<1> USE DEF vars, holderVars, queueVars, jobVars, loopVars, launchVars
<1>1. ASSUME NEW who \in {"api", "sim"}, NEW r \in Requests, SubmitBegin(who, r) PROVE NoNewLeak
  BY <1>1 DEF Attended, SubmitBegin, LoopIdle
<1>2. ASSUME Refuse PROVE NoNewLeak
  BY <1>2 DEF Attended, Refuse, Return
<1>3. ASSUME NEW m \in Nodes, Place(m) PROVE NoNewLeak
  BY <1>3 DEF Attended, Place, Feasible
<1>4. ASSUME RejectUnplaceable PROVE NoNewLeak
  BY <1>4 DEF Attended, RejectUnplaceable, Return
<1>5. ASSUME Enqueue PROVE NoNewLeak
  BY <1>5 DEF Attended, Enqueue, Return
<1>6. ASSUME Requeue PROVE NoNewLeak
  BY <1>6 DEF Attended, Requeue
<1>7. ASSUME AllocRead PROVE NoNewLeak
  BY <1>7 DEF Attended, AllocRead
<1>8. ASSUME AllocWrite PROVE NoNewLeak
  BY <1>8 DEF Attended, AllocWrite
<1>8a. ASSUME Colocate PROVE NoNewLeak
  BY <1>8a DEF Attended, Colocate
<1>9. ASSUME Record PROVE NoNewLeak
  <2>1. lock \in {"api", "sim", "drain", "orphan"}
    BY <1>9 DEF Record, StructInv, TypeOK, HolderInv
  <2>2. QED
    BY <1>9, <2>1 DEF Attended, Record
<1>10. ASSUME DrainBegin PROVE NoNewLeak
  BY <1>10 DEF Attended, DrainBegin
<1>11. ASSUME DrainExpire PROVE NoNewLeak
  BY <1>11 DEF Attended, DrainExpire
<1>12. ASSUME DrainRetry PROVE NoNewLeak
  BY <1>12 DEF Attended, DrainRetry
<1>13. ASSUME DrainEnd PROVE NoNewLeak
  BY <1>13 DEF Attended, DrainEnd
<1>14. ASSUME SimStart PROVE NoNewLeak
  BY <1>14 DEF Attended, SimStart, LoopIdle
<1>15. ASSUME SimStop PROVE NoNewLeak
  BY <1>15 DEF Attended, SimStop, LoopIdle
<1>16. ASSUME NEW k \in Ids, SimLaunch(k) PROVE NoNewLeak
  BY <1>16 DEF Attended, SimLaunch, LoopIdle
<1>17. ASSUME NEW k \in Ids, CompleteBegin(k) PROVE NoNewLeak
  <2>1. cid \notin active /\ active' = active
    BY <1>17 DEF CompleteBegin, LoopIdle, StructInv, JobInv, TypeOK, Ids
  <2>2. executing' = executing \ {k} /\ handoff' = handoff /\ cid' = k
    BY <1>17 DEF CompleteBegin
  <2>3. QED
    BY <2>1, <2>2 DEF Attended
<1>18. ASSUME ReleaseRead PROVE NoNewLeak
  BY <1>18 DEF Attended, ReleaseRead
<1>19. ASSUME ReleaseWrite PROVE NoNewLeak
  BY <1>19 DEF Attended, ReleaseWrite
<1>20. ASSUME Unmap PROVE NoNewLeak
  BY <1>20 DEF Attended, Unmap
<1>20a. ASSUME DropEmpty PROVE NoNewLeak
  BY <1>20a DEF Attended, DropEmpty
<1>20b. ASSUME Retire PROVE NoNewLeak
  BY <1>20b DEF Attended, Retire
<1>21. ASSUME Tick PROVE NoNewLeak
  BY <1>21 DEF Attended, Tick
<1>22. ASSUME UNCHANGED vars PROVE NoNewLeak
  BY <1>22 DEF Attended
<1>23. QED
  BY <1>1, <1>2, <1>3, <1>4, <1>5, <1>6, <1>7, <1>8, <1>8a, <1>9, <1>10, <1>11, <1>12, <1>13, <1>14, <1>15, <1>16, <1>17, <1>18, <1>19, <1>20, <1>20a, <1>20b, <1>21, <1>22
     DEF Next, Submission, Drain, Completion

\* A job is left in active_jobs with nobody to complete it only by a drain or by
\* the cancellation of the simulation task, whatever else runs meanwhile.
THEOREM Leaks == Spec => LeaksOnlyByDrainOrCancel
<1>1. StructInv /\ [Next]_vars =>
        [(active' \ Attended') \subseteq (active \ Attended)
           \/ lock \in {"drain", "orphan"} \/ (simRunning /\ ~simRunning')]_vars
  BY LeakStep
<1>2. QED
  BY <1>1, StructInvariant, PTL DEF Spec, LeaksOnlyByDrainOrCancel

-----------------------------------------------------------------------------
(* The queue *)

\* What is left of a sequence of entries behind its first.
LEMMA TailFacts ==
  ASSUME NEW s \in Seq(Entries), s # <<>>
  PROVE  /\ Len(s) \in Nat \ {0} /\ DOMAIN s = 1..Len(s)
         /\ Len(Tail(s)) = Len(s) - 1 /\ DOMAIN Tail(s) = 1..(Len(s) - 1)
         /\ \A k \in 1..(Len(s) - 1) : Tail(s)[k] = s[k + 1]
         /\ \A k \in 1..Len(s) : s[k].req \in Requests /\ s[k].at \in 0..MaxNow
         /\ Head(s) = s[1]
<1>1. \A k \in 1..Len(s) : s[k] \in Entries
  OBVIOUS
<1>2. QED BY <1>1 DEF Entries

LEMMA OrderedTail ==
  ASSUME NEW s \in Seq(Entries), s # <<>>, Ordered(s), Waited(s)
  PROVE  Ordered(Tail(s)) /\ Waited(Tail(s))
<1>0. /\ Len(s) \in Nat \ {0} /\ DOMAIN s = 1..Len(s) /\ Head(s) = s[1]
      /\ Len(Tail(s)) = Len(s) - 1 /\ DOMAIN Tail(s) = 1..(Len(s) - 1) /\ Tail(s) \in Seq(Entries)
      /\ \A k \in 1..(Len(s) - 1) : Tail(s)[k] = s[k + 1]
      /\ \A k \in 1..Len(s) : s[k].req \in Requests /\ s[k].at \in 0..MaxNow
  BY TailFacts
<1>1. PICK m \in 1..Len(s) : /\ \A j \in 1..m : s[j].req = s[m].req
                             /\ \A j, k \in m..Len(s) : j <= k => s[j].at <= s[k].at
  BY <1>0 DEF Ordered
<1>2. CASE Len(s) = 1
  <2>1. Tail(s) \in Seq(Entries) /\ Len(Tail(s)) = 0
    BY <1>0, <1>2
  <2>2. Tail(s) = <<>>
    <3>1. ASSUME Tail(s) # <<>> PROVE FALSE
      <4>1. Len(Tail(s)) \in Nat \ {0}
        BY <2>1, <3>1, TailFacts
      <4>2. QED BY <2>1, <4>1
    <3>2. QED BY <3>1
  <2>3. QED BY <2>2 DEF Ordered, Waited
<1>3. CASE Len(s) # 1
  <2> DEFINE i == IF m = 1 THEN 1 ELSE m - 1
  <2>1. i \in 1..(Len(s) - 1)
    BY <1>0, <1>3
  <2>2. \A j \in 1..i : Tail(s)[j].req = Tail(s)[i].req
    BY <1>0, <1>1, <2>1
  <2>3. \A j, k \in i..(Len(s) - 1) : j <= k => Tail(s)[j].at <= Tail(s)[k].at
    BY <1>0, <1>1, <2>1
  <2> HIDE DEF i
  <2>4. Ordered(Tail(s))
    BY <2>1, <2>2, <2>3, <1>0 DEF Ordered
  <2>5. QED BY <2>4, <1>0 DEF Waited
<1>4. QED BY <1>2, <1>3

\* Another copy of the first entry, with a new time, is put in front.
LEMMA OrderedPrepend ==
  ASSUME NEW s \in Seq(Entries), s # <<>>, Ordered(s), Waited(s),
         NEW e \in Entries, e.req = Head(s).req, e.at = now
  PROVE  /\ Ordered(<<e>> \o s) /\ Waited(<<e>> \o s) /\ Len(<<e>> \o s) = Len(s) + 1
         /\ \A r \in Requests : (\E k \in DOMAIN s : s[k].req = r)
              => \E k \in DOMAIN (<<e>> \o s) : (<<e>> \o s)[k].req = r
<1>0. /\ Len(s) \in Nat \ {0} /\ DOMAIN s = 1..Len(s) /\ Head(s) = s[1]
      /\ Len(Tail(s)) = Len(s) - 1 /\ DOMAIN Tail(s) = 1..(Len(s) - 1) /\ Tail(s) \in Seq(Entries)
      /\ \A k \in 1..(Len(s) - 1) : Tail(s)[k] = s[k + 1]
      /\ \A k \in 1..Len(s) : s[k].req \in Requests /\ s[k].at \in 0..MaxNow
  BY TailFacts
<1> DEFINE t == <<e>> \o s
<1>1. /\ Len(t) = Len(s) + 1 /\ DOMAIN t = 1..(Len(s) + 1)
      /\ t[1] = e /\ \A k \in 1..Len(s) : t[k + 1] = s[k]
  BY <1>0
<1>2. PICK m \in 1..Len(s) : /\ \A j \in 1..m : s[j].req = s[m].req
                             /\ \A j, k \in m..Len(s) : j <= k => s[j].at <= s[k].at
  BY <1>0 DEF Ordered
<1>3. \A k \in 2..(Len(s) + 1) : k - 1 \in 1..Len(s) /\ t[k] = s[k - 1]
  <2> TAKE k \in 2..(Len(s) + 1)
  <2>1. k - 1 \in 1..Len(s) /\ (k - 1) + 1 = k
    BY <1>0
  <2>2. QED BY <1>1, <2>1
<1> HIDE DEF t
<1>4. m + 1 \in DOMAIN t /\ t[m + 1] = s[m] /\ s[1].req = s[m].req
  BY <1>1, <1>2
<1>5. ASSUME NEW j \in 1..(m + 1) PROVE t[j].req = t[m + 1].req
  <2>1. CASE j = 1
    BY <1>0, <1>1, <1>4, <2>1
  <2>2. CASE j # 1
    <3>1. j \in 2..(Len(s) + 1) /\ j - 1 \in 1..m
      BY <1>0, <2>2
    <3>2. QED BY <1>2, <1>3, <1>4, <3>1
  <2>3. QED BY <2>1, <2>2
<1>6. ASSUME NEW j \in (m + 1)..(Len(s) + 1), NEW k \in (m + 1)..(Len(s) + 1), j <= k
      PROVE  t[j].at <= t[k].at
  <2>1. /\ j \in 2..(Len(s) + 1) /\ k \in 2..(Len(s) + 1)
        /\ j - 1 \in m..Len(s) /\ k - 1 \in m..Len(s) /\ j - 1 <= k - 1
    BY <1>0, <1>6
  <2>2. QED BY <1>2, <1>3, <2>1
<1>7. Ordered(t)
  BY <1>1, <1>4, <1>5, <1>6 DEF Ordered
<1>8. Waited(t)
  <2> SUFFICES ASSUME NEW k \in 1..(Len(s) + 1) PROVE t[k].at <= now
    BY <1>1 DEF Waited
  <2>1. CASE k = 1
    BY <1>1, <2>1 DEF Entries
  <2>2. CASE k # 1
    <3>1. k \in 2..(Len(s) + 1)
      BY <1>0, <2>2
    <3>2. k - 1 \in DOMAIN s /\ t[k] = s[k - 1]
      BY <1>0, <1>3, <3>1
    <3>3. QED BY <3>2 DEF Waited
  <2>3. QED BY <2>1, <2>2
<1>9. ASSUME NEW r \in Requests, NEW k \in DOMAIN s, s[k].req = r
      PROVE  \E i \in DOMAIN t : t[i].req = r
  <2>1. k + 1 \in DOMAIN t /\ t[k + 1].req = r
    BY <1>0, <1>1, <1>9
  <2>2. QED BY <2>1
<1>10. QED BY <1>1, <1>7, <1>8, <1>9 DEF t

LEMMA OrderedAppend ==
  ASSUME NEW s \in Seq(Entries), Ordered(s), Waited(s), NEW e \in Entries, e.at = now
  PROVE  Ordered(Append(s, e)) /\ Waited(Append(s, e))
<1> DEFINE t == Append(s, e)
<1>1. /\ Len(s) \in Nat /\ DOMAIN s = 1..Len(s)
      /\ Len(t) = Len(s) + 1 /\ DOMAIN t = 1..(Len(s) + 1)
      /\ t[Len(s) + 1] = e /\ \A k \in 1..Len(s) : t[k] = s[k]
  OBVIOUS
<1>2. \A k \in 1..Len(s) : s[k].at <= now /\ s[k].at \in Int
  <2>1. CASE s = <<>>
    BY <1>1, <2>1
  <2>2. CASE s # <<>>
    BY <1>1, <2>2, TailFacts DEF Waited
  <2>3. QED BY <2>1, <2>2
<1>3. e.at \in Int /\ now \in Int
  BY DEF Entries
<1> HIDE DEF t
<1>4. Waited(t)
  BY <1>1, <1>2, <1>3 DEF Waited
<1>5. Ordered(t)
  <2>1. CASE s = <<>>
    <3>1. Len(s) = 0
      BY <2>1
    <3>2. 1 \in DOMAIN t /\ Len(t) = 1 /\ \A j \in 1..1 : j = 1
      BY <1>1, <3>1
    <3>3. \A j, k \in 1..1 : j <= k => t[j].at <= t[k].at
      BY <1>1, <1>3, <3>1
    <3>4. QED BY <3>2, <3>3 DEF Ordered
  <2>2. CASE s # <<>>
    <3>1. PICK m \in 1..Len(s) : /\ \A j \in 1..m : s[j].req = s[m].req
                                 /\ \A j, k \in m..Len(s) : j <= k => s[j].at <= s[k].at
      BY <1>1, <2>2 DEF Ordered
    <3>2. \A j \in 1..m : t[j].req = t[m].req
      BY <1>1, <3>1
    <3>3. ASSUME NEW j \in m..(Len(s) + 1), NEW k \in m..(Len(s) + 1), j <= k
          PROVE  t[j].at <= t[k].at
      <4>1. CASE k # Len(s) + 1
        <5>1. j \in m..Len(s) /\ k \in m..Len(s) /\ j \in 1..Len(s) /\ k \in 1..Len(s)
          BY <1>1, <3>3, <4>1
        <5>2. QED BY <1>1, <3>1, <3>3, <5>1
      <4>2. CASE k = Len(s) + 1 /\ j # k
        <5>1. j \in 1..Len(s)
          BY <1>1, <3>3, <4>2
        <5>2. QED BY <1>1, <1>2, <4>2, <5>1
      <4>3. CASE k = Len(s) + 1 /\ j = k
        BY <1>1, <1>3, <4>3
      <4>4. QED BY <4>1, <4>2, <4>3
    <3>4. m \in DOMAIN t
      BY <1>1
    <3>5. QED BY <1>1, <3>2, <3>3, <3>4 DEF Ordered
  <2>3. QED BY <2>1, <2>2
<1>6. QED BY <1>4, <1>5 DEF t

\* An ordered queue is fair: a request before an entry has a copy in the ordered
\* part that is as old, or is that of the entry itself.
LEMMA OrderedIsFair ==
  ASSUME queue \in Seq(Entries), Ordered(queue)
  PROVE  QueueIsFair
<1> SUFFICES ASSUME NEW k \in DOMAIN queue, NEW j \in 1..k
             PROVE  Oldest(queue[j].req) <= queue[k].at
  BY DEF QueueIsFair
<1>1. /\ Len(queue) \in Nat \ {0} /\ DOMAIN queue = 1..Len(queue) /\ queue # <<>>
      /\ \A i \in 1..Len(queue) : queue[i].at \in 0..MaxNow
  BY TailFacts
<1>2. PICK m \in 1..Len(queue) :
        /\ \A i \in 1..m : queue[i].req = queue[m].req
        /\ \A h, i \in m..Len(queue) : h <= i => queue[h].at <= queue[i].at
  BY <1>1 DEF Ordered
<1>3. PICK i \in 1..Len(queue) : queue[i].req = queue[j].req /\ queue[i].at <= queue[k].at
  <2>1. CASE k <= m
    <3>1. queue[k].req = queue[j].req
      BY <1>1, <1>2, <2>1
    <3>2. QED BY <1>1, <3>1
  <2>2. CASE k > m /\ j <= m
    <3>1. queue[m].req = queue[j].req /\ queue[m].at <= queue[k].at
      BY <1>1, <1>2, <2>2
    <3>2. QED BY <3>1
  <2>3. CASE k > m /\ j > m
    <3>1. queue[j].at <= queue[k].at /\ j \in 1..Len(queue)
      BY <1>1, <1>2, <2>3
    <3>2. QED BY <3>1
  <2>4. QED BY <1>1, <2>1, <2>2, <2>3
<1> DEFINE stamps == {queue[h].at : h \in {m1 \in DOMAIN queue : queue[m1].req = queue[j].req}}
<1>4. stamps \subseteq Nat /\ queue[i].at \in stamps
  <2>1. queue[i].at \in stamps
    BY <1>1, <1>3
  <2>2. ASSUME NEW u \in stamps PROVE u \in Nat
    <3>1. PICK h \in DOMAIN queue : u = queue[h].at
      OBVIOUS
    <3>2. queue[h].at \in 0..MaxNow
      BY <1>1
    <3>3. QED BY <3>1, <3>2
  <2>3. QED BY <2>1, <2>2
<1>5. \E t \in stamps : \A u \in stamps : t <= u
  <2> HIDE DEF stamps
  <2>1. stamps # {}
    BY <1>4
  <2>2. QED BY <1>4, <2>1, LeastElement
<1>6. Oldest(queue[j].req) = CHOOSE t \in stamps : \A u \in stamps : t <= u
  BY DEF Oldest
<1>7. Oldest(queue[j].req) \in stamps /\ Oldest(queue[j].req) <= queue[i].at
  <2> DEFINE o == Oldest(queue[j].req)
  <2> HIDE DEF stamps
  <2>1. o \in stamps /\ \A u \in stamps : o <= u
    BY <1>5, <1>6
  <2> HIDE DEF o
  <2>2. o <= queue[i].at
    BY <1>4, <2>1
  <2>3. QED BY <2>1, <2>2 DEF o
<1>8. QED BY <1>1, <1>3, <1>4, <1>7

\* Steps that leave queue, batch and every status alone.
LEMMA SameQueue ==
  ASSUME StructInv, QueueInv, UNCHANGED <<queue, batch, status>>,
         now' = now \/ now' = now + 1, lock' # "drain" => lock # "drain" \/ batch = <<>>
  PROVE  QueueInv'
<1>1. now \in Nat /\ now <= now'
  BY DEF StructInv, TypeOK
<1>2. \A k \in DOMAIN queue : queue[k].at \in Int
  BY TailFacts DEF StructInv, TypeOK
<1>3. \A k \in DOMAIN batch : batch[k].at \in Int
  BY TailFacts DEF StructInv, TypeOK
<1>4. Waited(queue)' /\ Waited(batch)'
  BY <1>1, <1>2, <1>3 DEF QueueInv, Waited
<1>5. QED BY <1>4 DEF QueueInv, Ordered, NoQueuedRequestLost, InQueue, InBatch

\* A drain drops the first entry of its batch, whose request has got an answer.
LEMMA BatchShrinks ==
  ASSUME StructInv, QueueInv, batch # <<>>, lock = "drain", lock' = "drain", NEW st, st # "QUEUED",
         UNCHANGED <<now, queue>>, batch' = Tail(batch),
         status' = [status EXCEPT ![Head(batch).req] = st]
  PROVE  QueueInv'
<1>1. /\ batch \in Seq(Entries) /\ Head(batch) = batch[1] /\ batch[1].req \in Requests
      /\ Len(batch) \in Nat \ {0} /\ DOMAIN batch = 1..Len(batch)
      /\ Len(batch') = Len(batch) - 1 /\ DOMAIN batch' = 1..(Len(batch) - 1)
      /\ \A k \in 1..(Len(batch) - 1) : batch'[k] = batch[k + 1]
      /\ status \in [Requests -> {"new", "pending", "SCHEDULED", "QUEUED", "REJECTED", "EXPIRED"}]
  BY TailFacts DEF StructInv, TypeOK
<1>2. Ordered(batch)' /\ Waited(batch)'
  <2>1. Ordered(Tail(batch)) /\ Waited(Tail(batch))
    BY <1>1, OrderedTail DEF QueueInv
  <2>2. QED BY <2>1 DEF Ordered, Waited
<1>3. Ordered(queue)' /\ Waited(queue)'
  BY DEF QueueInv, Ordered, Waited
<1>4. NoQueuedRequestLost'
  <2> SUFFICES ASSUME NEW r \in Requests, status'[r] = "QUEUED" PROVE InQueue(r)' \/ InBatch(r)'
    BY DEF NoQueuedRequestLost
  <2>1. r # batch[1].req /\ status[r] = "QUEUED"
    BY <1>1
  <2>2. CASE InQueue(r)
    BY <2>2 DEF InQueue
  <2>3. CASE InBatch(r)
    <3>1. PICK k \in 1..Len(batch) : batch[k].req = r
      BY <1>1, <2>3 DEF InBatch
    <3>2. k - 1 \in DOMAIN batch' /\ batch'[k - 1] = batch[k]
      <4>1. k # 1
        BY <2>1, <3>1
      <4>2. k - 1 \in 1..(Len(batch) - 1) /\ (k - 1) + 1 = k
        BY <1>1, <4>1
      <4>3. QED BY <1>1, <4>2
    <3>3. QED BY <3>1, <3>2 DEF InBatch
  <2>4. QED BY <2>1, <2>2, <2>3 DEF QueueInv, NoQueuedRequestLost
<1>5. /\ Len(queue') <= QueueMax /\ Len(batch') <= QueueMax /\ QueueMax \in Nat
  BY <1>1, BoundAssumption DEF QueueInv
<1>6. QED BY <1>2, <1>3, <1>4, <1>5 DEF QueueInv

\* A submission ends with an answer other than QUEUED.
LEMMA AnswerKeeps ==
  ASSUME StructInv, QueueInv, Submitting, NEW st, st # "QUEUED", Return(st),
         UNCHANGED <<now, queue>>
  PROVE  QueueInv'
<1>1. cur \in Requests
  BY DEF StructInv, HolderInv
<1>2. CASE lock = "drain"
  <2>1. batch # <<>> /\ Head(batch).req = cur
    BY <1>2 DEF StructInv, HolderInv
  <2>2. batch' = Tail(batch) /\ lock' = lock /\ status' = [status EXCEPT ![Head(batch).req] = st]
    BY <1>2, <2>1 DEF Return
  <2>3. QED BY <1>2, <2>1, <2>2, BatchShrinks
<1>3. CASE lock # "drain"
  <2>1. batch' = batch /\ lock' = "free" /\ batch = <<>>
    BY <1>3 DEF Return, QueueInv
  <2>2. \A r \in Requests : status'[r] = "QUEUED" => status[r] = "QUEUED"
    BY DEF Return, StructInv, TypeOK
  <2>3. QED
    BY <2>1, <2>2 DEF QueueInv, Ordered, Waited, NoQueuedRequestLost, InQueue, InBatch
<1>4. QED BY <1>2, <1>3

LEMMA EnqueueKeeps ==
  ASSUME StructInv, QueueInv, Enqueue
  PROVE  QueueInv'
<1> DEFINE e == [req |-> cur, at |-> now]
           t == Append(queue, e)
<1>1. /\ cur \in Requests /\ queue \in Seq(Entries) /\ e \in Entries /\ e.at = now
      /\ Len(queue) \in Nat /\ Len(queue) < QueueMax /\ QueueMax \in Nat
  BY BoundAssumption DEF Enqueue, StructInv, TypeOK, HolderInv, Submitting, Entries
<1> HIDE DEF e
<1>2. /\ Ordered(t) /\ Waited(t) /\ Len(t) = Len(queue) + 1
      /\ DOMAIN t = 1..(Len(queue) + 1) /\ DOMAIN queue = 1..Len(queue)
      /\ t[Len(queue) + 1] = e /\ \A k \in 1..Len(queue) : t[k] = queue[k]
  <2>1. Ordered(queue) /\ Waited(queue)
    BY DEF QueueInv
  <2>2. Ordered(t) /\ Waited(t)
    BY <1>1, <2>1, OrderedAppend
  <2>3. QED BY <1>1, <2>2
<1>3. \E k \in DOMAIN t : t[k].req = cur
  <2>1. Len(queue) + 1 \in DOMAIN t /\ t[Len(queue) + 1].req = cur
    BY <1>1, <1>2 DEF e
  <2>2. QED BY <2>1
<1>4. queue' = t
  <2>1. queue' = KeepLast(t)
    BY DEF Enqueue, e
  <2>2. QED BY <1>1, <1>2, <2>1 DEF KeepLast
<1> HIDE DEF t
<1>5. /\ batch = <<>> /\ batch' = batch /\ now' = now /\ lock' = "free"
      /\ status' = [status EXCEPT ![cur] = "QUEUED"]
  BY DEF Enqueue, Return, QueueInv
<1>6. Ordered(queue)' /\ Waited(queue)' /\ Len(queue') <= QueueMax
  <2>1. Ordered(queue)'
    BY <1>2, <1>4 DEF Ordered
  <2>2. Waited(queue)'
    BY <1>2, <1>4, <1>5 DEF Waited
  <2>3. QED BY <1>1, <1>2, <1>4, <2>1, <2>2
<1>7. NoQueuedRequestLost'
  <2> SUFFICES ASSUME NEW r \in Requests, status'[r] = "QUEUED" PROVE InQueue(r)'
    BY DEF NoQueuedRequestLost
  <2>1. CASE r = cur
    BY <1>3, <1>4, <2>1 DEF InQueue
  <2>2. CASE r # cur
    <3>1. status[r] = "QUEUED" /\ ~InBatch(r)
      BY <1>5, <2>2 DEF StructInv, TypeOK, InBatch
    <3>2. InQueue(r)
      BY <3>1 DEF QueueInv, NoQueuedRequestLost
    <3>3. PICK k \in 1..Len(queue) : queue[k].req = r
      BY <1>2, <3>2 DEF InQueue
    <3>4. k \in DOMAIN t /\ t[k].req = r
      BY <1>1, <1>2, <3>3
    <3>5. QED BY <1>4, <3>4 DEF InQueue
  <2>3. QED BY <2>1, <2>2
<1>8. QED BY <1>5, <1>6, <1>7 DEF QueueInv, Ordered, Waited

\* The deque may drop the new copy of the failed entry, never the old one.
LEMMA RequeueKeeps ==
  ASSUME StructInv, QueueInv, Requeue
  PROVE  QueueInv'
<1> DEFINE e == [req |-> cur, at |-> now]
           t == <<e>> \o batch
<1>1. /\ cur \in Requests /\ queue = <<>> /\ batch \in Seq(Entries) /\ batch # <<>>
      /\ Head(batch).req = cur /\ e \in Entries /\ e.at = now
      /\ Len(batch) \in Nat \ {0} /\ DOMAIN batch = 1..Len(batch) /\ Head(batch) = batch[1]
      /\ Len(batch) <= QueueMax /\ QueueMax \in Nat
  BY TailFacts, BoundAssumption DEF Requeue, StructInv, TypeOK, HolderInv, Submitting, Entries, QueueInv
<1>2. /\ Ordered(t) /\ Waited(t) /\ Len(t) = Len(batch) + 1
      /\ \A r \in Requests : InBatch(r) => \E k \in DOMAIN t : t[k].req = r
  BY <1>1, OrderedPrepend DEF QueueInv, InBatch
<1>3. queue' = KeepLast(t)
  BY <1>1 DEF Requeue
<1>4. (queue' = t /\ Len(t) <= QueueMax) \/ queue' = batch
  <2>1. CASE Len(t) <= QueueMax
    BY <1>3, <2>1 DEF KeepLast
  <2>2. CASE ~(Len(t) <= QueueMax)
    <3>1. QueueMax = Len(batch) /\ SubSeq(t, 2, Len(batch) + 1) = batch
      BY <1>1, <1>2, <2>2
    <3>2. QED BY <1>2, <1>3, <2>2, <3>1 DEF KeepLast
  <2>3. QED BY <2>1, <2>2
<1> HIDE DEF e, t
<1>5. Len(queue') <= QueueMax
  BY <1>1, <1>4
<1>6. /\ batch' = <<>> /\ now' = now /\ lock' = "free"
      /\ status' = [status EXCEPT ![cur] = "QUEUED"]
  BY DEF Requeue
<1>7. Ordered(queue)' /\ Waited(queue)'
  <2>1. Ordered(batch) /\ Waited(batch)
    BY DEF QueueInv
  <2>2. Ordered(queue)'
    <3>1. CASE queue' = t
      BY <1>2, <3>1 DEF Ordered
    <3>2. CASE queue' = batch
      BY <2>1, <3>2 DEF Ordered
    <3>3. QED BY <1>4, <3>1, <3>2
  <2>3. Waited(queue)'
    BY <1>2, <1>4, <1>6, <2>1 DEF Waited
  <2>4. QED BY <2>2, <2>3
<1>8. NoQueuedRequestLost'
  <2> SUFFICES ASSUME NEW r \in Requests, status'[r] = "QUEUED" PROVE InQueue(r)'
    BY DEF NoQueuedRequestLost
  <2>1. InBatch(r)
    <3>1. CASE r = cur
      <4>1. 1 \in DOMAIN batch /\ batch[1].req = r
        BY <1>1, <3>1
      <4>2. QED BY <4>1 DEF InBatch
    <3>2. CASE r # cur
      <4>1. status[r] = "QUEUED" /\ ~InQueue(r)
        BY <1>1, <1>6, <3>2 DEF StructInv, TypeOK, InQueue
      <4>2. QED BY <4>1 DEF QueueInv, NoQueuedRequestLost
    <3>3. QED BY <3>1, <3>2
  <2>2. QED BY <1>2, <1>4, <2>1 DEF InBatch, InQueue
<1>9. Ordered(batch)' /\ Waited(batch)' /\ Len(batch') <= QueueMax
  BY <1>1, <1>6 DEF Ordered, Waited
<1>10. QED BY <1>5, <1>6, <1>7, <1>8, <1>9 DEF QueueInv

LEMMA DrainBeginKeeps ==
  ASSUME StructInv, QueueInv, DrainBegin
  PROVE  QueueInv'
<1>1. batch = <<>> /\ batch' = queue /\ queue' = <<>> /\ lock' = "drain" /\ UNCHANGED <<now, status>>
  BY DEF DrainBegin, QueueInv
<1>2. \A r \in Requests : ~InBatch(r)
  BY <1>1 DEF InBatch
<1>3. NoQueuedRequestLost'
  BY <1>1, <1>2 DEF QueueInv, NoQueuedRequestLost, InQueue, InBatch
<1>4. Ordered(batch)' /\ Waited(batch)' /\ Ordered(queue)' /\ Waited(queue)'
  BY <1>1 DEF QueueInv, Ordered, Waited
<1>5. Len(queue') <= QueueMax /\ Len(batch') <= QueueMax
  BY <1>1, BoundAssumption DEF QueueInv
<1>6. QED BY <1>1, <1>3, <1>4, <1>5 DEF QueueInv

LEMMA QueueStep ==
  ASSUME StructInv, QueueInv, [Next]_vars
  PROVE  QueueInv'
<1> USE DEF vars, holderVars, queueVars, jobVars, loopVars, launchVars
<1>1. ASSUME NEW who \in {"api", "sim"}, NEW r \in Requests, SubmitBegin(who, r) PROVE QueueInv'
  <2>1. /\ batch = <<>> /\ lock' # "drain" /\ UNCHANGED <<now, queue, batch>>
        /\ status' = [status EXCEPT ![r] = "pending"]
    BY <1>1 DEF SubmitBegin, QueueInv
  <2>2. \A q \in Requests : status'[q] = "QUEUED" => status[q] = "QUEUED"
    BY <2>1 DEF StructInv, TypeOK
  <2>3. QED
    BY <2>1, <2>2 DEF QueueInv, Ordered, Waited, NoQueuedRequestLost, InQueue, InBatch
<1>2. CASE Refuse
  BY <1>2, AnswerKeeps DEF Refuse, Submitting
<1>3. ASSUME NEW m \in Nodes, Place(m) PROVE QueueInv'
  BY <1>3, SameQueue DEF Place
<1>4. CASE RejectUnplaceable
  BY <1>4, AnswerKeeps DEF RejectUnplaceable, Submitting
<1>5. CASE Enqueue
  BY <1>5, EnqueueKeeps
<1>6. CASE Requeue
  BY <1>6, RequeueKeeps
<1>7. CASE AllocRead \/ AllocWrite \/ Colocate
  BY <1>7, SameQueue DEF AllocRead, AllocWrite, Colocate
<1>8. CASE Record
  BY <1>8, AnswerKeeps DEF Record, Submitting
<1>9. CASE DrainBegin
  BY <1>9, DrainBeginKeeps
<1>10. CASE DrainExpire
  <2>1. lock = "drain" /\ lock' = lock
    BY <1>10 DEF DrainExpire, StructInv, HolderInv
  <2>2. QED BY <1>10, <2>1, BatchShrinks DEF DrainExpire
<1>11. CASE DrainRetry \/ DrainEnd
  BY <1>11, SameQueue DEF DrainRetry, DrainEnd
<1>12. CASE SimStart \/ SimStop
  BY <1>12, SameQueue DEF SimStart, SimStop
<1>13. ASSUME NEW k \in Ids, SimLaunch(k) \/ CompleteBegin(k) PROVE QueueInv'
  BY <1>13, SameQueue DEF SimLaunch, CompleteBegin
<1>14. CASE Completion
  BY <1>14, SameQueue DEF Completion, ReleaseRead, ReleaseWrite, Unmap, DropEmpty, Retire
<1>15. CASE Tick
  BY <1>15, SameQueue DEF Tick
<1>16. CASE UNCHANGED vars
  BY <1>16, SameQueue
<1>17. QED
  BY <1>1, <1>2, <1>3, <1>4, <1>5, <1>6, <1>7, <1>8, <1>9, <1>10, <1>11, <1>12, <1>13, <1>14, <1>15, <1>16
     DEF Next, Submission, Drain, Completion

LEMMA QueueInit == Init => QueueInv
<1> SUFFICES ASSUME Init PROVE QueueInv
  OBVIOUS
<1>1. queue = <<>> /\ batch = <<>> /\ QueueMax \in Nat /\ \A r \in Requests : status[r] = "new"
  BY BoundAssumption DEF Init
<1>2. QED BY <1>1 DEF QueueInv, Ordered, Waited, NoQueuedRequestLost

\* Through drains that fail half way, copies of entries and a full deque, for
\* any number of requests and any length of the queue.
LEMMA QueueInvariant == Spec => []QueueInv
<1>1. StructInv /\ QueueInv /\ [Next]_vars => QueueInv'
  BY QueueStep
<1>2. QED BY <1>1, QueueInit, StructInvariant, PTL DEF Spec

\* No request last reported QUEUED is ever lost by the queue or by a drain.
THEOREM NothingLost == Spec => []NoQueuedRequestLost
<1>1. QueueInv => NoQueuedRequestLost
  BY DEF QueueInv
<1>2. QED BY <1>1, QueueInvariant, PTL

\* The queue stays first come, first served.
THEOREM Fair == Spec => []QueueIsFair
<1>1. StructInv /\ QueueInv => QueueIsFair
  BY OrderedIsFair DEF StructInv, TypeOK, QueueInv
<1>2. QED BY <1>1, StructInvariant, QueueInvariant, PTL

-----------------------------------------------------------------------------
(* The reservation counters *)

LEMMA AllocTyped ==
  ASSUME StructInv, NEW n \in Nodes, NEW i \in Res
  PROVE  alloc[n][i] \in Nat
BY DEF StructInv, TypeOK

\* The shares are functions that the lemmas about totals apply to.
LEMMA AmountTyped ==
  ASSUME StructInv, NEW n \in Nodes, NEW i \in Res, NEW k \in Ids
  PROVE  Amount(k, n, i) \in Nat
<1>1. ASSUME k \in active PROVE Demand[job[k]][i] \in Nat
  <2>1. job[k] \in Requests
    BY <1>1 DEF StructInv, JobInv
  <2>2. QED
    BY <2>1
<1>2. Placing => Demand[job[nextId]][i] \in Nat
  BY LocalFacts DEF PlacingFacts
<1>3. QED
  BY <1>1, <1>2 DEF Amount, Held, Placing

LEMMA ShareTyped ==
  ASSUME StructInv, NEW n \in Nodes, NEW i \in Res
  PROVE  Share(n, i) \in [1..MaxIds -> Nat]
BY AmountTyped DEF Share, Ids

\* A step that changes no counter and no amount keeps the accounting.
LEMMA SameAmounts ==
  ASSUME AccountingExact, alloc' = alloc, torn' = torn,
         \A n \in Nodes, i \in Res, k \in Ids : Amount(k, n, i)' = Amount(k, n, i)
  PROVE  AccountingExact'
<1>1. ASSUME NEW n \in Nodes, NEW i \in Res PROVE Share(n, i)' = Share(n, i)
  BY DEF Share
<1>2. QED
  BY <1>1 DEF AccountingExact

\* A counter that changes by as much as one job's amount stays exact.
LEMMA OneAmount ==
  ASSUME StructInv, AccountingExact, ~torn,
         NEW k \in Ids, NEW n \in Nodes, NEW i \in Res,
         Amount(k, n, i)' \in Nat,
         \A j \in Ids \ {k} : Amount(j, n, i)' = Amount(j, n, i),
         alloc'[n][i] = alloc[n][i] - Amount(k, n, i) + Amount(k, n, i)'
  PROVE  alloc'[n][i] = Total(Share(n, i)', MaxIds)
<1> DEFINE f == Share(n, i)
           g == Share(n, i)'
<1>1. f \in [1..MaxIds -> Nat]
  BY ShareTyped
<1>2. \A j \in 1..MaxIds : f[j] = Amount(j, n, i) /\ g[j] = Amount(j, n, i)'
  BY DEF Share, Ids
<1>3. \A j \in 1..MaxIds : j # k => g[j] = f[j]
  BY <1>2 DEF Ids
<1>4. g \in [1..MaxIds -> Nat]
  <2>1. \A j \in 1..MaxIds : g[j] \in Nat
    BY <1>1, <1>2, <1>3
  <2>2. g = [j \in 1..MaxIds |-> Amount(j, n, i)']
    BY DEF Share, Ids
  <2>3. QED
    BY <2>1, <2>2
<1>5. k \in 1..MaxIds /\ MaxIds \in Nat
  BY DEF Ids
<1>6. Total(g, MaxIds) = Total(f, MaxIds) - f[k] + g[k]
  <2>1. \A F, G \in [1..MaxIds -> Nat], m \in 1..MaxIds :
          (\A j \in 1..MaxIds : j # m => G[j] = F[j]) =>
             Total(G, MaxIds) = Total(F, MaxIds) - F[m] + G[m]
    BY <1>5, TotalUpdate
  <2> HIDE DEF f, g
  <2>2. k \in 1..MaxIds /\ \A j \in 1..MaxIds : j # k => g[j] = f[j]
    BY ONLY <1>3, <1>5
  <2>3. QED
    BY ONLY <1>1, <1>4, <2>1, <2>2
<1>7. alloc[n][i] = Total(f, MaxIds)
  BY DEF AccountingExact
<1>8. QED
  BY <1>2, <1>5, <1>6, <1>7

LEMMA AccountingStep ==
  ASSUME StructInv, StructInv', AccountingExact, [Next]_vars
  PROVE  AccountingExact'
<1>f. SubmittingFacts /\ PlacingFacts /\ CompletingFacts
  BY LocalFacts
<1> USE DEF vars, holderVars, queueVars, jobVars, loopVars, launchVars
<1>1. ASSUME NEW who \in {"api", "sim"}, NEW r \in Requests, SubmitBegin(who, r) PROVE AccountingExact'
  <2>1. ASSUME NEW n \in Nodes, NEW i \in Res, NEW j \in Ids PROVE Amount(j, n, i)' = Amount(j, n, i)
    BY <1>1, <1>f DEF Amount, Held, StructInv, HolderInv, JobInv, Placing, Submitting, SubmittingFacts, PlacingFacts, CompletingFacts, Res, Ids, SubmitBegin, LoopIdle
  <2>2. QED
    BY <1>1, <2>1, SameAmounts DEF SubmitBegin, LoopIdle
<1>2. ASSUME Refuse PROVE AccountingExact'
  <2>1. ASSUME NEW n \in Nodes, NEW i \in Res, NEW j \in Ids PROVE Amount(j, n, i)' = Amount(j, n, i)
    BY <1>2, <1>f DEF Amount, Held, StructInv, HolderInv, JobInv, Placing, Submitting, SubmittingFacts, PlacingFacts, CompletingFacts, Res, Ids, Refuse, Return
  <2>2. QED
    BY <1>2, <2>1, SameAmounts DEF Refuse, Return
<1>3. ASSUME NEW m \in Nodes, Place(m) PROVE AccountingExact'
  <2>1. nextId \in Ids /\ nextId \notin active /\ pc = "place"
    BY <1>3, <1>f DEF Place, StructInv, JobInv, SubmittingFacts, Submitting, Ids
  <2>2. ASSUME NEW n \in Nodes, NEW i \in Res, NEW j \in Ids
        PROVE  Amount(j, n, i)' = Amount(j, n, i)
    <3>1. CASE j = nextId
      <4>1. ~Held(j, n, i)
        BY <2>1, <3>1 DEF Held
      <4>2. ~Held(j, n, i)'
        BY <1>3, <2>1, <3>1 DEF Held, Place, Res
      <4>3. QED
        BY <4>1, <4>2 DEF Amount
    <3>2. CASE j # nextId
      BY <1>3, <3>2 DEF Place, Amount, Held, StructInv, TypeOK
    <3>3. QED
      BY <3>1, <3>2
  <2>3. QED
    BY <1>3, <2>2, SameAmounts DEF Place
<1>4. ASSUME RejectUnplaceable PROVE AccountingExact'
  <2>1. ASSUME NEW n \in Nodes, NEW i \in Res, NEW j \in Ids PROVE Amount(j, n, i)' = Amount(j, n, i)
    BY <1>4, <1>f DEF Amount, Held, StructInv, HolderInv, JobInv, Placing, Submitting, SubmittingFacts, PlacingFacts, CompletingFacts, Res, Ids, RejectUnplaceable, Return
  <2>2. QED
    BY <1>4, <2>1, SameAmounts DEF RejectUnplaceable, Return
<1>5. ASSUME Enqueue PROVE AccountingExact'
  <2>1. ASSUME NEW n \in Nodes, NEW i \in Res, NEW j \in Ids PROVE Amount(j, n, i)' = Amount(j, n, i)
    BY <1>5, <1>f DEF Amount, Held, StructInv, HolderInv, JobInv, Placing, Submitting, SubmittingFacts, PlacingFacts, CompletingFacts, Res, Ids, Enqueue, Return
  <2>2. QED
    BY <1>5, <2>1, SameAmounts DEF Enqueue, Return
<1>6. ASSUME Requeue PROVE AccountingExact'
  <2>1. ASSUME NEW n \in Nodes, NEW i \in Res, NEW j \in Ids PROVE Amount(j, n, i)' = Amount(j, n, i)
    BY <1>6, <1>f DEF Amount, Held, StructInv, HolderInv, JobInv, Placing, Submitting, SubmittingFacts, PlacingFacts, CompletingFacts, Res, Ids, Requeue
  <2>2. QED
    BY <1>6, <2>1, SameAmounts DEF Requeue
<1>7. ASSUME AllocRead PROVE AccountingExact'
  <2>1. /\ Placing /\ nextId \notin active /\ job[nextId] = cur
        /\ step \in Res /\ Demand[cur][step] \in Nat
    BY <1>7, <1>f DEF AllocRead, StructInv, JobInv, TypeOK, PlacingFacts, Placing
  <2>2. ASSUME NEW n \in Nodes, NEW i \in Res, NEW j \in Ids
        PROVE  Amount(j, n, i)' = Amount(j, n, i)
    <3>1. CASE j # nextId \/ i # step \/ Demand[cur][step] > 0
      <4>1. j = nextId => (i < step' <=> i < step)
        BY <1>7, <2>1, <3>1 DEF AllocRead, Res
      <4>2. Held(j, n, i)' <=> Held(j, n, i)
        BY <1>7, <2>1, <4>1 DEF AllocRead, Held, Placing
      <4>3. QED
        BY <1>7, <4>2 DEF AllocRead, Amount
    <3>2. CASE j = nextId /\ i = step /\ ~(Demand[cur][step] > 0)
      BY <1>7, <2>1, <3>2 DEF AllocRead, Amount
    <3>3. QED
      BY <3>1, <3>2
  <2>3. QED
    BY <1>7, <2>2, SameAmounts DEF AllocRead
<1>8. ASSUME AllocWrite PROVE AccountingExact'
  <2> SUFFICES ASSUME ~torn', NEW n \in Nodes, NEW i \in Res
               PROVE  alloc'[n][i] = Total(Share(n, i)', MaxIds)
    BY DEF AccountingExact
  <2>1. ~torn /\ alloc[at[nextId]][step] = tmp
    BY <1>8 DEF AllocWrite, StructInv, TypeOK
  <2>2. /\ nextId \in Ids /\ nextId \notin active /\ at[nextId] \in Nodes /\ job[nextId] = cur
        /\ step \in Res /\ Demand[cur][step] \in Nat
    BY <1>8, <1>f DEF AllocWrite, StructInv, JobInv, HolderInv, TypeOK, SubmittingFacts,
                      PlacingFacts, Placing, Submitting
  <2> PICK m \in Ids : m = nextId
    BY <2>2
  <2>3. \A j \in Ids \ {m} : Amount(j, n, i)' = Amount(j, n, i)
    BY <1>8 DEF AllocWrite, Amount, Held
  <2>4. CASE n = at[nextId] /\ i = step
    <3>1. Amount(m, n, i) = 0
      BY <2>2, <2>4 DEF Amount, Held, Res
    <3>2. Amount(m, n, i)' = Demand[cur][step]
      BY <1>8, <2>2, <2>4 DEF AllocWrite, Amount, Held, Res
    <3>3. alloc'[n][i] = alloc[n][i] + Demand[cur][step] /\ alloc[n][i] \in Nat
      BY <1>8, <2>1, <2>2, <2>4 DEF AllocWrite, StructInv, TypeOK
    <3>4. QED
      BY <2>1, <2>2, <2>3, <3>1, <3>2, <3>3, OneAmount
  <2>5. CASE ~(n = at[nextId] /\ i = step)
    <3>1. Amount(m, n, i)' = Amount(m, n, i)
      <4>1. n = at[m] => (i < step + 1 <=> i < step)
        BY ONLY <2>2, <2>5, m = nextId DEF Res
      <4>2. /\ pc = "store" /\ pc' = "alloc" /\ step' = step + 1
            /\ UNCHANGED <<nextId, at, job, active, cid, cstep>>
        BY <1>8 DEF AllocWrite
      <4>3. Held(m, n, i)' <=> Held(m, n, i)
        BY ONLY <2>2, <4>1, <4>2, m = nextId DEF Held
      <4>4. QED
        BY ONLY <4>2, <4>3 DEF Amount
    <3>2. Amount(m, n, i) \in Nat /\ alloc[n][i] \in Nat
      BY AmountTyped, AllocTyped
    <3>3. alloc'[n][i] = alloc[n][i]
      BY <1>8, <2>2, <2>5 DEF AllocWrite, StructInv, TypeOK
    <3>4. QED
      BY <2>1, <2>2, <2>3, <3>1, <3>2, <3>3, OneAmount
  <2>6. QED
    BY <2>4, <2>5
<1>8a. ASSUME Colocate PROVE AccountingExact'
  <2>1. ASSUME NEW n \in Nodes, NEW i \in Res, NEW j \in Ids PROVE Amount(j, n, i)' = Amount(j, n, i)
    BY <1>8a DEF Amount, Held, Colocate
  <2>2. QED
    BY <1>8a, <2>1, SameAmounts DEF Colocate
<1>9. ASSUME Record PROVE AccountingExact'
  <2>1. ASSUME NEW n \in Nodes, NEW i \in Res, NEW j \in Ids PROVE Amount(j, n, i)' = Amount(j, n, i)
    <3>1. pc = "record" /\ step = NumRes + 1 /\ nextId \in Ids /\ nextId \notin active /\ i < step
      BY <1>9, <1>f DEF Record, StructInv, HolderInv, JobInv, SubmittingFacts, Submitting, Res, Ids
    <3>2. /\ active' = active \cup {nextId} /\ nextId' = nextId + 1 /\ pc' \in {"idle", "next"}
          /\ UNCHANGED <<at, job, cid, cstep>>
      BY <1>9 DEF Record, Return, loopVars
    <3>3. cid # nextId
      BY <1>f, <3>1 DEF CompletingFacts, StructInv, JobInv, Ids
    <3>4. Held(j, n, i)' <=> Held(j, n, i)
      BY ONLY <3>1, <3>2, <3>3 DEF Held
    <3>5. QED
      BY ONLY <3>2, <3>4 DEF Amount
  <2>2. QED
    BY <1>9, <2>1, SameAmounts DEF Record, Return
<1>10. ASSUME DrainBegin PROVE AccountingExact'
  <2>1. ASSUME NEW n \in Nodes, NEW i \in Res, NEW j \in Ids PROVE Amount(j, n, i)' = Amount(j, n, i)
    BY <1>10, <1>f DEF Amount, Held, StructInv, HolderInv, JobInv, Placing, Submitting, SubmittingFacts, PlacingFacts, CompletingFacts, Res, Ids, DrainBegin
  <2>2. QED
    BY <1>10, <2>1, SameAmounts DEF DrainBegin
<1>11. ASSUME DrainExpire PROVE AccountingExact'
  <2>1. ASSUME NEW n \in Nodes, NEW i \in Res, NEW j \in Ids PROVE Amount(j, n, i)' = Amount(j, n, i)
    BY <1>11, <1>f DEF Amount, Held, StructInv, HolderInv, JobInv, Placing, Submitting, SubmittingFacts, PlacingFacts, CompletingFacts, Res, Ids, DrainExpire
  <2>2. QED
    BY <1>11, <2>1, SameAmounts DEF DrainExpire
<1>12. ASSUME DrainRetry PROVE AccountingExact'
  <2>1. ASSUME NEW n \in Nodes, NEW i \in Res, NEW j \in Ids PROVE Amount(j, n, i)' = Amount(j, n, i)
    BY <1>12, <1>f DEF Amount, Held, StructInv, HolderInv, JobInv, Placing, Submitting, SubmittingFacts, PlacingFacts, CompletingFacts, Res, Ids, DrainRetry
  <2>2. QED
    BY <1>12, <2>1, SameAmounts DEF DrainRetry
<1>13. ASSUME DrainEnd PROVE AccountingExact'
  <2>1. ASSUME NEW n \in Nodes, NEW i \in Res, NEW j \in Ids PROVE Amount(j, n, i)' = Amount(j, n, i)
    BY <1>13, <1>f DEF Amount, Held, StructInv, HolderInv, JobInv, Placing, Submitting, SubmittingFacts, PlacingFacts, CompletingFacts, Res, Ids, DrainEnd
  <2>2. QED
    BY <1>13, <2>1, SameAmounts DEF DrainEnd
<1>14. ASSUME SimStart PROVE AccountingExact'
  <2>1. ASSUME NEW n \in Nodes, NEW i \in Res, NEW j \in Ids PROVE Amount(j, n, i)' = Amount(j, n, i)
    BY <1>14, <1>f DEF Amount, Held, StructInv, HolderInv, JobInv, Placing, Submitting, SubmittingFacts, PlacingFacts, CompletingFacts, Res, Ids, SimStart, LoopIdle
  <2>2. QED
    BY <1>14, <2>1, SameAmounts DEF SimStart, LoopIdle
<1>15. ASSUME SimStop PROVE AccountingExact'
  <2>1. ASSUME NEW n \in Nodes, NEW i \in Res, NEW j \in Ids PROVE Amount(j, n, i)' = Amount(j, n, i)
    BY <1>15, <1>f DEF Amount, Held, StructInv, HolderInv, JobInv, Placing, Submitting, SubmittingFacts, PlacingFacts, CompletingFacts, Res, Ids, SimStop, LoopIdle
  <2>2. QED
    BY <1>15, <2>1, SameAmounts DEF SimStop, LoopIdle
<1>16. ASSUME NEW k \in Ids, SimLaunch(k) PROVE AccountingExact'
  <2>1. ASSUME NEW n \in Nodes, NEW i \in Res, NEW j \in Ids PROVE Amount(j, n, i)' = Amount(j, n, i)
    BY <1>16, <1>f DEF Amount, Held, StructInv, HolderInv, JobInv, Placing, Submitting, SubmittingFacts, PlacingFacts, CompletingFacts, Res, Ids, SimLaunch, LoopIdle
  <2>2. QED
    BY <1>16, <2>1, SameAmounts DEF SimLaunch, LoopIdle
<1>17. ASSUME NEW k \in Ids, CompleteBegin(k) PROVE AccountingExact'
  <2>1. ASSUME NEW n \in Nodes, NEW i \in Res, NEW j \in Ids PROVE Amount(j, n, i)' = Amount(j, n, i)
    BY <1>17, <1>f DEF Amount, Held, StructInv, HolderInv, JobInv, Placing, Submitting, SubmittingFacts, PlacingFacts, CompletingFacts, Res, Ids, CompleteBegin, LoopIdle
  <2>2. QED
    BY <1>17, <2>1, SameAmounts DEF CompleteBegin, LoopIdle
<1>18. ASSUME ReleaseRead PROVE AccountingExact'
  <2>1. cpc # "idle" /\ cstep \in Res /\ cid # nextId /\ Demand[job[cid]][cstep] \in Nat
    BY <1>18, <1>f DEF ReleaseRead, CompletingFacts, StructInv, TypeOK
  <2>2. ASSUME NEW n \in Nodes, NEW i \in Res, NEW j \in Ids
        PROVE  Amount(j, n, i)' = Amount(j, n, i)
    <3>1. CASE j # cid \/ i # cstep \/ Demand[job[cid]][cstep] > 0
      <4>1. j = cid => (i < cstep' <=> i < cstep)
        BY <1>18, <2>1, <3>1 DEF ReleaseRead, Res
      <4>2. Held(j, n, i)' <=> Held(j, n, i)
        BY <1>18, <4>1 DEF ReleaseRead, Held
      <4>3. QED
        BY <1>18, <4>2 DEF ReleaseRead, Amount
    <3>2. CASE j = cid /\ i = cstep /\ ~(Demand[job[cid]][cstep] > 0)
      BY <1>18, <2>1, <3>2 DEF ReleaseRead, Amount
    <3>3. QED
      BY <3>1, <3>2
  <2>3. QED
    BY <1>18, <2>2, SameAmounts DEF ReleaseRead
<1>19. ASSUME ReleaseWrite PROVE AccountingExact'
  <2> SUFFICES ASSUME ~torn', NEW n \in Nodes, NEW i \in Res
               PROVE  alloc'[n][i] = Total(Share(n, i)', MaxIds)
    BY DEF AccountingExact
  <2> DEFINE d == Demand[job[cid]][cstep]
  <2>1. ~torn /\ alloc[at[cid]][cstep] = ctmp
    BY <1>19 DEF ReleaseWrite, StructInv, TypeOK
  <2>2. /\ cid \in Ids /\ cid \in active /\ cid # nextId /\ at[cid] \in Nodes
        /\ cstep \in Res /\ d \in Nat
    BY <1>19, <1>f DEF ReleaseWrite, StructInv, JobInv, TypeOK, CompletingFacts
  <2> PICK m \in Ids : m = cid
    BY <2>2
  <2>3. \A j \in Ids \ {m} : Amount(j, n, i)' = Amount(j, n, i)
    BY <1>19 DEF ReleaseWrite, Amount, Held
  <2>4. CASE n = at[cid] /\ i = cstep
    <3>1. Amount(m, n, i) = d
      BY <2>2, <2>4 DEF Amount, Held, Res
    <3>2. Amount(m, n, i)' = 0
      BY <1>19, <2>2, <2>4 DEF ReleaseWrite, Amount, Held, Res
    <3>3. d <= alloc[n][i] /\ alloc[n][i] \in Nat
      <4>1. Share(n, i)[m] = d /\ m \in 1..MaxIds /\ MaxIds \in Nat
        BY <2>2, <3>1 DEF Share, Ids
      <4>2. Share(n, i)[m] <= Total(Share(n, i), MaxIds)
        BY <4>1, ShareTyped, TotalAtLeast
      <4>3. QED
        BY <2>1, <4>1, <4>2, AllocTyped DEF AccountingExact
    <3>4. alloc'[n][i] = alloc[n][i] - d
      <4>1. alloc[n][i] = ctmp
        BY <2>1, <2>4
      <4>2. (IF ctmp - d > 0 THEN ctmp - d ELSE 0) = ctmp - d
        BY <2>2, <3>3, <4>1
      <4>3. QED
        BY <1>19, <2>2, <2>4, <4>1, <4>2 DEF ReleaseWrite, StructInv, TypeOK
    <3>5. Amount(m, n, i)' \in Nat /\ d \in Nat
      BY <2>2, <3>2
    <3>6. alloc'[n][i] = alloc[n][i] - Amount(m, n, i) + Amount(m, n, i)'
      BY ONLY <3>1, <3>2, <3>3, <3>4, <3>5
    <3>7. QED
      BY <2>1, <2>3, <3>5, <3>6, OneAmount
  <2>5. CASE ~(n = at[cid] /\ i = cstep)
    <3>1. Amount(m, n, i)' = Amount(m, n, i)
      <4>1. n = at[m] => (i < cstep + 1 <=> i < cstep)
        BY ONLY <2>2, <2>5, m = cid DEF Res
      <4>2. cstep' = cstep + 1 /\ UNCHANGED <<nextId, pc, step, at, job, active, cid>>
        BY <1>19 DEF ReleaseWrite, holderVars, jobVars
      <4>3. Held(m, n, i)' <=> Held(m, n, i)
        BY ONLY <2>2, <4>1, <4>2, m = cid DEF Held
      <4>4. QED
        BY ONLY <4>2, <4>3 DEF Amount
    <3>2. Amount(m, n, i) \in Nat /\ alloc[n][i] \in Nat
      BY AmountTyped, AllocTyped
    <3>3. alloc'[n][i] = alloc[n][i]
      BY <1>19, <2>2, <2>5 DEF ReleaseWrite, StructInv, TypeOK
    <3>4. QED
      BY <2>1, <2>2, <2>3, <3>1, <3>2, <3>3, OneAmount
  <2>6. QED
    BY <2>4, <2>5
<1>20. ASSUME Unmap PROVE AccountingExact'
  <2>1. ASSUME NEW n \in Nodes, NEW i \in Res, NEW j \in Ids PROVE Amount(j, n, i)' = Amount(j, n, i)
    BY <1>20 DEF Amount, Held, Unmap
  <2>2. QED
    BY <1>20, <2>1, SameAmounts DEF Unmap
<1>20a. ASSUME DropEmpty PROVE AccountingExact'
  <2>1. ASSUME NEW n \in Nodes, NEW i \in Res, NEW j \in Ids PROVE Amount(j, n, i)' = Amount(j, n, i)
    BY <1>20a DEF Amount, Held, DropEmpty
  <2>2. QED
    BY <1>20a, <2>1, SameAmounts DEF DropEmpty
<1>20b. ASSUME Retire PROVE AccountingExact'
  <2>0. cstep = NumRes + 1
    BY <1>20b DEF Retire, StructInv, JobInv
  <2>1. ASSUME NEW n \in Nodes, NEW i \in Res, NEW j \in Ids PROVE Amount(j, n, i)' = Amount(j, n, i)
    BY <1>20b, <1>f, <2>0 DEF Amount, Held, StructInv, HolderInv, JobInv, Placing, Submitting, SubmittingFacts, PlacingFacts, CompletingFacts, Res, Ids, Retire
  <2>2. QED
    BY <1>20b, <2>1, SameAmounts DEF Retire
<1>21. ASSUME Tick PROVE AccountingExact'
  <2>1. ASSUME NEW n \in Nodes, NEW i \in Res, NEW j \in Ids PROVE Amount(j, n, i)' = Amount(j, n, i)
    BY <1>21, <1>f DEF Amount, Held, StructInv, HolderInv, JobInv, Placing, Submitting, SubmittingFacts, PlacingFacts, CompletingFacts, Res, Ids, Tick
  <2>2. QED
    BY <1>21, <2>1, SameAmounts DEF Tick
<1>22. ASSUME UNCHANGED vars PROVE AccountingExact'
  <2>1. ASSUME NEW n \in Nodes, NEW i \in Res, NEW j \in Ids PROVE Amount(j, n, i)' = Amount(j, n, i)
    BY <1>22, <1>f DEF Amount, Held, StructInv, HolderInv, JobInv, Placing, Submitting, SubmittingFacts, PlacingFacts, CompletingFacts, Res, Ids
  <2>2. QED
    BY <1>22, <2>1, SameAmounts DEF vars
<1>23. QED
  BY <1>1, <1>2, <1>3, <1>4, <1>5, <1>6, <1>7, <1>8, <1>8a, <1>9, <1>10, <1>11, <1>12, <1>13, <1>14, <1>15, <1>16, <1>17, <1>18, <1>19, <1>20, <1>20a, <1>20b, <1>21, <1>22
     DEF Next, Submission, Drain, Completion

-----------------------------------------------------------------------------
(* Capacity *)

LEMMA CapacityStep ==
  ASSUME StructInv, CapacityInv, [Next]_vars
  PROVE  CapacityInv'
<1>f. SubmittingFacts /\ PlacingFacts /\ CompletingFacts
  BY LocalFacts
<1> USE DEF vars, holderVars, queueVars, jobVars, loopVars, launchVars
<1>1. ASSUME NEW who \in {"api", "sim"}, NEW r \in Requests, SubmitBegin(who, r) PROVE CapacityInv'
  BY <1>1 DEF CapacityInv, StructInv, HolderInv, Placing, SubmitBegin, LoopIdle
<1>2. ASSUME Refuse PROVE CapacityInv'
  BY <1>2 DEF CapacityInv, StructInv, HolderInv, Placing, Refuse, Return
<1>3. ASSUME NEW m \in Nodes, Place(m) PROVE CapacityInv'
  <2>1. nextId \in Ids /\ cur \in Requests /\ pc = "place"
    BY <1>3, <1>f DEF Place, SubmittingFacts, Submitting
  <2>2. cur' = cur /\ alloc' = alloc /\ torn' = torn /\ step' = 1 /\ at'[nextId'] = m
    BY <1>3, <2>1 DEF Place, StructInv, TypeOK
  <2>3. CanFit(m, cur)
    BY <1>3 DEF Place, Feasible
  <2>4. QED
    BY <2>2, <2>3 DEF CapacityInv, CanFit
<1>4. ASSUME RejectUnplaceable PROVE CapacityInv'
  BY <1>4 DEF CapacityInv, StructInv, HolderInv, Placing, RejectUnplaceable, Return
<1>5. ASSUME Enqueue PROVE CapacityInv'
  BY <1>5 DEF CapacityInv, StructInv, HolderInv, Placing, Enqueue, Return
<1>6. ASSUME Requeue PROVE CapacityInv'
  BY <1>6 DEF CapacityInv, StructInv, HolderInv, Placing, Requeue
<1>7. ASSUME AllocRead PROVE CapacityInv'
  <2>1. UNCHANGED <<cur, at, nextId, alloc, torn>> /\ Placing
    BY <1>7 DEF AllocRead, Placing
  <2>2. step \in Res /\ (step' = step \/ step' = step + 1)
    BY <1>7 DEF AllocRead
  <2>3. \A i \in Res : i >= step' => i >= step
    BY <2>2 DEF Res
  <2>4. QED
    BY <2>1, <2>3 DEF CapacityInv
<1>8. ASSUME AllocWrite PROVE CapacityInv'
  <2> SUFFICES ASSUME ~torn' PROVE CapacityInv'
    BY DEF CapacityInv
  <2>1. ~torn /\ alloc[at[nextId]][step] = tmp
    BY <1>8 DEF AllocWrite, StructInv, TypeOK
  <2>2. /\ Placing /\ cur \in Requests /\ at[nextId] \in Nodes
        /\ step \in Res /\ Demand[cur][step] \in Nat /\ Demand[cur][step] > 0
    BY <1>8, <1>f DEF AllocWrite, StructInv, HolderInv, SubmittingFacts, PlacingFacts,
                      Placing, Submitting
  <2>3. UNCHANGED <<cur, at, nextId>> /\ step' = step + 1
    BY <1>8 DEF AllocWrite
  <2>4. ASSUME NEW n \in Nodes, NEW i \in Res
        PROVE  alloc'[n][i] = IF n = at[nextId] /\ i = step THEN tmp + Demand[cur][step] ELSE alloc[n][i]
    BY <1>8, <2>2 DEF AllocWrite, StructInv, TypeOK
  <2>5. alloc[at[nextId]][step] + Demand[cur][step] <= Capacity[at[nextId]][step]
    <3>1. step >= step
      BY <2>2 DEF Res
    <3>2. QED
      BY <2>1, <2>2, <3>1 DEF CapacityInv
  <2>6. \A n \in Nodes, i \in Res : alloc'[n][i] <= Capacity[n][i]
    BY <2>1, <2>4, <2>5 DEF CapacityInv
  <2>7. ASSUME NEW i \in Res, i >= step', Demand[cur][i] > 0
        PROVE  alloc'[at[nextId]][i] + Demand[cur][i] <= Capacity[at[nextId]][i]
    <3>1. i >= step /\ i # step
      BY <2>2, <2>3, <2>7 DEF Res
    <3>2. QED
      BY <2>1, <2>2, <2>4, <2>7, <3>1 DEF CapacityInv
  <2>8. QED
    BY <2>3, <2>6, <2>7 DEF CapacityInv
<1>8a. ASSUME Colocate PROVE CapacityInv'
  BY <1>8a DEF CapacityInv, StructInv, HolderInv, Placing, Colocate
<1>9. ASSUME Record PROVE CapacityInv'
  BY <1>9 DEF CapacityInv, StructInv, HolderInv, Placing, Record, Return
<1>10. ASSUME DrainBegin PROVE CapacityInv'
  BY <1>10 DEF CapacityInv, StructInv, HolderInv, Placing, DrainBegin
<1>11. ASSUME DrainExpire PROVE CapacityInv'
  BY <1>11 DEF CapacityInv, StructInv, HolderInv, Placing, DrainExpire
<1>12. ASSUME DrainRetry PROVE CapacityInv'
  BY <1>12 DEF CapacityInv, StructInv, HolderInv, Placing, DrainRetry
<1>13. ASSUME DrainEnd PROVE CapacityInv'
  BY <1>13 DEF CapacityInv, StructInv, HolderInv, Placing, DrainEnd
<1>14. ASSUME SimStart PROVE CapacityInv'
  BY <1>14 DEF CapacityInv, StructInv, HolderInv, Placing, SimStart, LoopIdle
<1>15. ASSUME SimStop PROVE CapacityInv'
  BY <1>15 DEF CapacityInv, StructInv, HolderInv, Placing, SimStop, LoopIdle
<1>16. ASSUME NEW k \in Ids, SimLaunch(k) PROVE CapacityInv'
  BY <1>16 DEF CapacityInv, StructInv, HolderInv, Placing, SimLaunch, LoopIdle
<1>17. ASSUME NEW k \in Ids, CompleteBegin(k) PROVE CapacityInv'
  BY <1>17 DEF CapacityInv, StructInv, HolderInv, Placing, CompleteBegin, LoopIdle
<1>18. ASSUME ReleaseRead PROVE CapacityInv'
  BY <1>18 DEF CapacityInv, StructInv, HolderInv, Placing, ReleaseRead
<1>19. ASSUME ReleaseWrite PROVE CapacityInv'
  <2> SUFFICES ASSUME ~torn' PROVE CapacityInv'
    BY DEF CapacityInv
  <2>1. ~torn /\ alloc[at[cid]][cstep] = ctmp
    BY <1>19 DEF ReleaseWrite, StructInv, TypeOK
  <2>2. /\ at[cid] \in Nodes /\ cstep \in Res /\ Demand[job[cid]][cstep] \in Nat
    BY <1>19, <1>f DEF ReleaseWrite, StructInv, JobInv, CompletingFacts
  <2>3. UNCHANGED <<cur, at, nextId, step, pc>>
    BY <1>19 DEF ReleaseWrite
  <2>4. ASSUME NEW n \in Nodes, NEW i \in Res
        PROVE  alloc'[n][i] \in Nat /\ alloc'[n][i] <= alloc[n][i]
    <3>1. CASE n = at[cid] /\ i = cstep
      <4>1. alloc[n][i] = ctmp /\ ctmp \in Nat
        BY <2>1, <3>1, AllocTyped
      <4>2. alloc'[n][i] = IF ctmp - Demand[job[cid]][cstep] > 0
                           THEN ctmp - Demand[job[cid]][cstep] ELSE 0
        BY <1>19, <2>2, <3>1 DEF ReleaseWrite, StructInv, TypeOK
      <4>3. QED
        BY <2>2, <4>1, <4>2
    <3>2. CASE ~(n = at[cid] /\ i = cstep)
      <4>1. alloc'[n][i] = alloc[n][i]
        BY <1>19, <2>2, <3>2 DEF ReleaseWrite, StructInv, TypeOK
      <4>2. QED
        BY <4>1, AllocTyped
    <3>3. QED
      BY <3>1, <3>2
  <2>5. \A n \in Nodes, i \in Res : alloc'[n][i] <= Capacity[n][i]
    BY <2>1, <2>4, AllocTyped DEF CapacityInv
  <2>6. ASSUME Placing, NEW i \in Res, i >= step, Demand[cur][i] > 0
        PROVE  alloc'[at[nextId]][i] + Demand[cur][i] <= Capacity[at[nextId]][i]
    <3>1. /\ at[nextId] \in Nodes /\ Demand[cur][i] \in Nat
          /\ Capacity[at[nextId]][i] \in Nat
      BY <1>f, <2>6 DEF PlacingFacts
    <3>2. alloc[at[nextId]][i] + Demand[cur][i] <= Capacity[at[nextId]][i]
      BY <2>1, <2>6 DEF CapacityInv
    <3>3. QED
      BY <2>4, <3>1, <3>2, AllocTyped
  <2>7. QED
    BY <2>3, <2>5, <2>6 DEF CapacityInv, Placing
<1>20. ASSUME Unmap PROVE CapacityInv'
  BY <1>20 DEF CapacityInv, StructInv, HolderInv, Placing, Unmap
<1>20a. ASSUME DropEmpty PROVE CapacityInv'
  BY <1>20a DEF CapacityInv, StructInv, HolderInv, Placing, DropEmpty
<1>20b. ASSUME Retire PROVE CapacityInv'
  BY <1>20b DEF CapacityInv, StructInv, HolderInv, Placing, Retire
<1>21. ASSUME Tick PROVE CapacityInv'
  BY <1>21 DEF CapacityInv, StructInv, HolderInv, Placing, Tick
<1>22. ASSUME UNCHANGED vars PROVE CapacityInv'
  BY <1>22 DEF CapacityInv, StructInv, HolderInv, Placing
<1>23. QED
  BY <1>1, <1>2, <1>3, <1>4, <1>5, <1>6, <1>7, <1>8, <1>8a, <1>9, <1>10, <1>11, <1>12, <1>13, <1>14, <1>15, <1>16, <1>17, <1>18, <1>19, <1>20, <1>20a, <1>20b, <1>21, <1>22
     DEF Next, Submission, Drain, Completion

-----------------------------------------------------------------------------
(* The theorems *)

LEMMA LedgerInit == Init => AccountingExact /\ CapacityInv
<1> SUFFICES ASSUME Init PROVE AccountingExact /\ CapacityInv
  OBVIOUS
<1>1. StructInv
  BY StructInit
<1>2. ASSUME NEW n \in Nodes, NEW i \in Res PROVE alloc[n][i] = Total(Share(n, i), MaxIds)
  <2>1. \A k \in 1..MaxIds : Share(n, i)[k] = 0
    BY DEF Init, Share, Amount, Held, Ids
  <2>2. Total(Share(n, i), MaxIds) = 0
    BY <1>1, <2>1, ShareTyped, TotalZero
  <2>3. QED
    BY <2>2 DEF Init
<1>3. CapacityInv
  BY DEF Init, CapacityInv, Placing
<1>4. QED
  BY <1>2, <1>3 DEF AccountingExact

\* IInv is inductive.
THEOREM InductiveInvariant == Spec => []IInv
<1>1. Init => IInv
  BY StructInit, LedgerInit DEF IInv
<1>2. IInv /\ [Next]_vars => IInv'
  <2> SUFFICES ASSUME IInv, [Next]_vars PROVE IInv'
    OBVIOUS
  <2>1. StructInv'
    BY StructStep DEF IInv
  <2>2. AccountingExact'
    BY <2>1, AccountingStep DEF IInv
  <2>3. CapacityInv'
    BY CapacityStep DEF IInv
  <2>4. QED
    BY <2>1, <2>2, <2>3 DEF IInv
<1>3. QED
  BY <1>1, <1>2, PTL DEF Spec

\* Every reservation counter is the sum of what the jobs on its node hold, as
\* long as no counter write of _allocate_resources or _release_resources was
\* based on a stale read: the clamp at zero never acts, however submissions,
\* drains, completions and cancellations interleave.
THEOREM Accounting == Spec => []AccountingExact
<1>1. IInv => AccountingExact
  BY DEF IInv
<1>2. QED
  BY <1>1, InductiveInvariant, PTL

\* Under the same condition no node runs more than it has: the feasibility test
\* in aco_schedule and the reservation that follows it need not be one step.
THEOREM Capacities == Spec => []NoOvercommit
<1>1. IInv => NoOvercommit
  <2> SUFFICES ASSUME IInv, ~torn, NEW n \in Nodes, NEW i \in Res
               PROVE  Total(RunningShare(n, i), MaxIds) <= Capacity[n][i]
    BY DEF NoOvercommit
  <2>1. StructInv /\ alloc[n][i] = Total(Share(n, i), MaxIds) /\ alloc[n][i] <= Capacity[n][i]
    BY DEF IInv, AccountingExact, CapacityInv
  <2>2. ASSUME NEW k \in Ids
        PROVE  RunningShare(n, i)[k] \in Nat /\ RunningShare(n, i)[k] <= Share(n, i)[k]
    <3>1. Amount(k, n, i) \in Nat /\ Share(n, i)[k] = Amount(k, n, i)
      BY <2>1, AmountTyped DEF Share
    <3>2. CASE k \in active \ {cid} /\ at[k] = n
      BY <3>1, <3>2 DEF RunningShare, Amount, Held
    <3>3. CASE ~(k \in active \ {cid} /\ at[k] = n)
      BY <3>1, <3>3 DEF RunningShare
    <3>4. QED
      BY <3>2, <3>3
  <2>3. RunningShare(n, i) \in [1..MaxIds -> Nat]
    BY <2>2 DEF RunningShare, Ids
  <2>4. Share(n, i) \in [1..MaxIds -> Nat] /\ MaxIds \in Nat
    BY <2>1, ShareTyped
  <2>5. Total(RunningShare(n, i), MaxIds) <= Total(Share(n, i), MaxIds)
    BY <2>2, <2>3, <2>4, TotalMonotone DEF Ids
  <2>6. Total(RunningShare(n, i), MaxIds) \in Nat /\ Total(Share(n, i), MaxIds) \in Nat
    BY <2>3, <2>4, TotalNat
  <2>7. QED
    BY <2>1, <2>5, <2>6
<1>2. QED
  BY <1>1, InductiveInvariant, PTL

-----------------------------------------------------------------------------
(* The colocation map *)

\* The executions of type w on node n that the map should list.
Colocated(n, w) == {k \in Ids : Mapped(k) /\ at[k] = n /\ WType[job[k]] = w}

LEMMA ColocatedFinite ==
  ASSUME NEW n \in Nodes, NEW w \in WTypes
  PROVE  IsFiniteSet(Colocated(n, w)) /\ Cardinality(Colocated(n, w)) \in Nat
<1>1. IsFiniteSet(Ids)
  BY FS_Interval DEF Ids
<1>2. Colocated(n, w) \subseteq Ids
  BY DEF Colocated
<1>3. QED
  BY <1>1, <1>2, FS_Subset, FS_CardinalityType

\* A step that changes neither the map nor who is mapped keeps them in agreement.
LEMMA SameColocated ==
  ASSUME ColocationExact, colo' = colo,
         \A k \in Ids : /\ Mapped(k)' <=> Mapped(k)
                        /\ Mapped(k) => at'[k] = at[k] /\ job'[k] = job[k]
  PROVE  ColocationExact'
<1>1. ASSUME NEW n \in Nodes, NEW w \in WTypes PROVE Colocated(n, w)' = Colocated(n, w)
  BY DEF Colocated
<1>2. \A n \in Nodes, w \in WTypes : colo[n][w] = Cardinality(Colocated(n, w))
  BY DEF ColocationExact, Colocated
<1>3. \A n \in Nodes, w \in WTypes : colo'[n][w] = Cardinality(Colocated(n, w)')
  BY <1>1, <1>2
<1>4. QED
  BY <1>3 DEF ColocationExact, Colocated

\* The same, for the many steps that touch neither a job's record nor the moments
\* in which the map and active_jobs differ.
LEMMA SameMapped ==
  ASSUME ColocationExact,
         UNCHANGED <<colo, active, nextId, job, at, cid>>,
         pc = "record" <=> pc' = "record",
         cpc \in {"drop", "retire"} <=> cpc' \in {"drop", "retire"}
  PROVE  ColocationExact'
BY SameColocated DEF Mapped

LEMMA ColocationStep ==
  ASSUME StructInv, ColocationExact, [Next]_vars
  PROVE  ColocationExact'
<1>f. SubmittingFacts /\ PlacingFacts /\ CompletingFacts
  BY LocalFacts
<1> USE DEF vars, holderVars, queueVars, jobVars, loopVars, launchVars
<1>1. ASSUME NEW who \in {"api", "sim"}, NEW r \in Requests, SubmitBegin(who, r) PROVE ColocationExact'
  <2>1. pc # "record"
    BY <1>1 DEF SubmitBegin, StructInv, HolderInv
  <2>2. QED
    BY <1>1, <2>1, SameMapped DEF SubmitBegin
<1>2. ASSUME Refuse PROVE ColocationExact'
  BY <1>2, SameMapped DEF Refuse, Return
<1>3. ASSUME NEW m \in Nodes, Place(m) PROVE ColocationExact'
  <2>1. nextId \in Ids /\ nextId \notin active /\ pc = "place" /\ pc' = "alloc"
    BY <1>3, <1>f DEF Place, StructInv, JobInv, SubmittingFacts, Submitting, Ids
  <2>2. ASSUME NEW k \in Ids
        PROVE  (Mapped(k)' <=> Mapped(k)) /\ (Mapped(k) => at'[k] = at[k] /\ job'[k] = job[k])
    BY <1>3, <2>1 DEF Mapped, Place, StructInv, TypeOK
  <2>3. QED
    BY <1>3, <2>2, SameColocated DEF Place
<1>4. ASSUME RejectUnplaceable PROVE ColocationExact'
  BY <1>4, SameMapped DEF RejectUnplaceable, Return
<1>5. ASSUME Enqueue PROVE ColocationExact'
  BY <1>5, SameMapped DEF Enqueue, Return
<1>6. ASSUME Requeue PROVE ColocationExact'
  BY <1>6, SameMapped DEF Requeue
<1>7. ASSUME AllocRead PROVE ColocationExact'
  BY <1>7, SameMapped DEF AllocRead
<1>8. ASSUME AllocWrite PROVE ColocationExact'
  BY <1>8, SameMapped DEF AllocWrite
<1>8a. ASSUME Colocate PROVE ColocationExact'
  <2>1. /\ nextId \in Ids /\ nextId \notin active /\ at[nextId] \in Nodes
        /\ WType[cur] \in WTypes /\ job[nextId] = cur /\ pc = "alloc" /\ pc' = "record"
    BY <1>8a, <1>f DEF Colocate, StructInv, JobInv, SubmittingFacts, PlacingFacts, Submitting,
                      Placing, Ids
  <2>2. /\ UNCHANGED <<active, nextId, job, at, cid, cpc>>
        /\ colo' = [colo EXCEPT ![at[nextId]][WType[cur]] = colo[at[nextId]][WType[cur]] + 1]
    BY <1>8a, <2>1 DEF Colocate, StructInv, TypeOK
  <2>3. /\ \A k \in Ids : Mapped(k)' <=> Mapped(k) \/ k = nextId
        /\ ~Mapped(nextId)
    BY <2>1, <2>2 DEF Mapped
  <2> SUFFICES ASSUME NEW n \in Nodes, NEW w \in WTypes
               PROVE  colo'[n][w] = Cardinality(Colocated(n, w)')
    BY DEF ColocationExact, Colocated
  <2>4. colo[n][w] = Cardinality(Colocated(n, w)) /\ IsFiniteSet(Colocated(n, w))
    BY ColocatedFinite DEF ColocationExact, Colocated
  <2>5. CASE n = at[nextId] /\ w = WType[cur]
    <3>1. Colocated(n, w)' = Colocated(n, w) \cup {nextId} /\ nextId \notin Colocated(n, w)
      BY <2>1, <2>2, <2>3, <2>5 DEF Colocated
    <3>2. Cardinality(Colocated(n, w)') = Cardinality(Colocated(n, w)) + 1
      BY <2>4, <3>1, FS_AddElement
    <3>3. colo'[n][w] = colo[n][w] + 1
      BY <2>1, <2>2, <2>5 DEF StructInv, TypeOK
    <3>4. QED
      BY <2>4, <3>2, <3>3
  <2>6. CASE ~(n = at[nextId] /\ w = WType[cur])
    <3>1. Colocated(n, w)' = Colocated(n, w)
      BY <2>1, <2>2, <2>3, <2>6 DEF Colocated
    <3>2. colo'[n][w] = colo[n][w]
      BY <2>1, <2>2, <2>6 DEF StructInv, TypeOK
    <3>3. QED
      BY <2>4, <3>1, <3>2
  <2>7. QED
    BY <2>5, <2>6
<1>9. ASSUME Record PROVE ColocationExact'
  <2>1. /\ nextId \in Ids /\ nextId \notin active /\ nextId # nextId + 1
        /\ pc = "record" /\ pc' # "record"
    BY <1>9, <1>f DEF Record, Return, StructInv, JobInv, SubmittingFacts, Submitting, Ids
  <2>2. /\ active' = active \cup {nextId} /\ nextId' = nextId + 1
        /\ UNCHANGED <<colo, job, at, cid, cpc>>
    BY <1>9 DEF Record
  <2>3. cpc # "idle" => cid # nextId
    BY <1>f, <2>1 DEF CompletingFacts
  <2>4. \A k \in Ids : Mapped(k)' <=> Mapped(k)
    BY <2>1, <2>2, <2>3 DEF Mapped
  <2>5. QED
    BY <2>2, <2>4, SameColocated
<1>10. ASSUME DrainBegin PROVE ColocationExact'
  <2>1. pc # "record"
    BY <1>10 DEF DrainBegin, StructInv, HolderInv
  <2>2. QED
    BY <1>10, <2>1, SameMapped DEF DrainBegin
<1>11. ASSUME DrainExpire PROVE ColocationExact'
  BY <1>11, SameMapped DEF DrainExpire
<1>12. ASSUME DrainRetry PROVE ColocationExact'
  BY <1>12, SameMapped DEF DrainRetry
<1>13. ASSUME DrainEnd PROVE ColocationExact'
  BY <1>13, SameMapped DEF DrainEnd
<1>14. ASSUME SimStart PROVE ColocationExact'
  BY <1>14, SameMapped DEF SimStart
<1>15. ASSUME SimStop PROVE ColocationExact'
  BY <1>15, SameMapped DEF SimStop
<1>16. ASSUME NEW k \in Ids, SimLaunch(k) PROVE ColocationExact'
  BY <1>16, SameMapped DEF SimLaunch
<1>17. ASSUME NEW k \in Ids, CompleteBegin(k) PROVE ColocationExact'
  <2>1. cpc = "idle" /\ cpc' = "release" /\ UNCHANGED <<colo, active, nextId, job, at, pc>>
    BY <1>17 DEF CompleteBegin, LoopIdle
  <2>2. \A j \in Ids : Mapped(j)' <=> Mapped(j)
    BY <2>1 DEF Mapped
  <2>3. QED
    BY <2>1, <2>2, SameColocated
<1>18. ASSUME ReleaseRead PROVE ColocationExact'
  BY <1>18, SameMapped DEF ReleaseRead
<1>19. ASSUME ReleaseWrite PROVE ColocationExact'
  BY <1>19, SameMapped DEF ReleaseWrite
<1>20. ASSUME Unmap PROVE ColocationExact'
  <2> DEFINE m == at[cid]
             v == WType[job[cid]]
  <2>1. /\ cid \in active /\ cid \in Ids /\ m \in Nodes /\ v \in WTypes /\ cid # nextId
        /\ cpc = "release" /\ cpc' = "drop"
    BY <1>20, <1>f DEF Unmap, CompletingFacts, StructInv, TypeOK
  <2>2. /\ UNCHANGED <<active, nextId, job, at, cid, pc>>
        /\ colo' = [colo EXCEPT ![m][v] = IF colo[m][v] > 0 THEN colo[m][v] - 1 ELSE colo[m][v]]
    BY <1>20, <2>1 DEF Unmap, StructInv, TypeOK
  <2>a. /\ \A k \in Ids : Mapped(k)' <=> Mapped(k) /\ k # cid
        /\ Mapped(cid)
    BY <2>1, <2>2 DEF Mapped
  <2> SUFFICES ASSUME NEW n \in Nodes, NEW w \in WTypes
               PROVE  colo'[n][w] = Cardinality(Colocated(n, w)')
    BY DEF ColocationExact, Colocated
  <2> HIDE DEF m, v
  <2>3. /\ IsFiniteSet(Colocated(n, w)) /\ Cardinality(Colocated(n, w)) \in Nat
        /\ colo[n][w] = Cardinality(Colocated(n, w))
    <3>1. colo[n][w] = Cardinality(Colocated(n, w))
      BY DEF ColocationExact, Colocated
    <3>2. QED
      BY <3>1, ColocatedFinite
  <2>4. CASE n = m /\ w = v
    <3>1. Colocated(n, w)' = Colocated(n, w) \ {cid} /\ cid \in Colocated(n, w)
      BY <2>1, <2>2, <2>a, <2>4 DEF Colocated, m, v
    <3>2. Cardinality(Colocated(n, w)') = Cardinality(Colocated(n, w)) - 1
      <4>1. \A S, x : IsFiniteSet(S) /\ x \in S => Cardinality(S \ {x}) = Cardinality(S) - 1
        BY FS_RemoveElement
      <4>2. QED
        BY <2>3, <3>1, <4>1
    <3>3. Cardinality(Colocated(n, w)') \in Nat
      BY <2>3, <3>1, FS_RemoveElement, FS_CardinalityType
    <3>4. colo'[n][w] = IF colo[n][w] > 0 THEN colo[n][w] - 1 ELSE colo[n][w]
      BY <2>1, <2>2, <2>4 DEF StructInv, TypeOK
    <3>5. QED
      BY <2>3, <3>2, <3>3, <3>4
  <2>5. CASE ~(n = m /\ w = v)
    <3>1. Colocated(n, w)' = Colocated(n, w)
      BY <2>1, <2>2, <2>a, <2>5 DEF Colocated, m, v
    <3>2. colo'[n][w] = colo[n][w]
      BY <2>1, <2>2, <2>5 DEF StructInv, TypeOK
    <3>3. QED
      BY <2>3, <3>1, <3>2
  <2>6. QED
    BY <2>4, <2>5
<1>20a. ASSUME DropEmpty PROVE ColocationExact'
  <2>1. colo' = colo
    BY <1>20a, DropChangesNothing
  <2>2. QED
    BY <1>20a, <2>1, SameMapped DEF DropEmpty
<1>20b. ASSUME Retire PROVE ColocationExact'
  <2>1. /\ cid \in active /\ cid # nextId /\ cpc = "retire" /\ cpc' = "idle"
        /\ active' = active \ {cid} /\ UNCHANGED <<colo, nextId, job, at, pc>>
    BY <1>20b, <1>f DEF Retire, CompletingFacts
  <2>2. \A k \in Ids : Mapped(k)' <=> Mapped(k)
    BY <2>1 DEF Mapped
  <2>3. QED
    BY <2>1, <2>2, SameColocated
<1>21. ASSUME Tick PROVE ColocationExact'
  BY <1>21, SameMapped DEF Tick
<1>22. ASSUME UNCHANGED vars PROVE ColocationExact'
  BY <1>22, SameMapped
<1>23. QED
  BY <1>1, <1>2, <1>3, <1>4, <1>5, <1>6, <1>7, <1>8, <1>8a, <1>9, <1>10, <1>11, <1>12, <1>13, <1>14, <1>15, <1>16, <1>17, <1>18, <1>19, <1>20, <1>20a, <1>20b, <1>21, <1>22
     DEF Next, Submission, Drain, Completion

\* For any number of nodes, types and jobs: the append of _allocate_resources and
\* the removal, test and del of _release_resources, with active_jobs changed at
\* moments of their own, keep every entry of the colocation map and leave none
\* behind, also when a reservation counter has been torn.
THEOREM Colocation == Spec => []ColocationExact
<1>1. Init => ColocationExact
  <2> SUFFICES ASSUME Init, NEW n \in Nodes, NEW w \in WTypes
               PROVE  colo[n][w] = Cardinality(Colocated(n, w))
    BY DEF ColocationExact, Colocated
  <2>1. Colocated(n, w) = {}
    BY DEF Init, Colocated, Mapped
  <2>2. QED
    BY <2>1, FS_EmptySet DEF Init
<1>2. StructInv /\ ColocationExact /\ [Next]_vars => ColocationExact'
  BY ColocationStep
<1>3. QED
  BY <1>1, <1>2, StructInvariant, PTL DEF Spec
=============================================================================
