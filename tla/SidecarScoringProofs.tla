------------------------- MODULE SidecarScoringProofs -------------------------
(***************************************************************************)
(* The two services that score for kube-scheduler.                         *)
(*                                                                         *)
(* The sidecar, for every set of nodes, requests and threads: the counters *)
(* of the threshold manager are runs, trust follows the samples, and no    *)
(* sample is lost but by a race the history variable names.                *)
(*                                                                         *)
(* The extender, for every set of pods, lists of candidates and tenants:   *)
(* levels stay bounded, and a node that has won wins again.                *)
(***************************************************************************)
EXTENDS SidecarScoring, Extender, LedgerSumsTheorems, FiniteSetTheorems, SequenceTheorems

-----------------------------------------------------------------------------
(* Percents *)

LEMMA PercentOf ==
  ASSUME NEW a \in 0..100, NEW b \in 0..100
  PROVE  (a * b) \div 100 \in 0..100
<1>1. a * b \in Int /\ 0 <= a * b /\ a * b <= 100 * b
  <2>1. 0 <= a * b
    OBVIOUS
  <2>2. 0 <= (100 - a) * b
    OBVIOUS
  <2>3. (100 - a) * b = 100 * b - a * b
    OBVIOUS
  <2>4. QED BY <2>1, <2>2, <2>3
<1>2. QED BY <1>1

LEMMA QuotientNat ==
  ASSUME NEW a \in Nat, NEW b \in Nat \ {0}
  PROVE  a \div b \in Nat
<1>1. a \div b \in Int /\ a = b * (a \div b) + (a % b) /\ a % b \in 0..(b - 1)
  OBVIOUS
<1>2. CASE a \div b < 0
  <2>1. b * (a \div b) <= b * (0 - 1)
    BY <1>1, <1>2
  <2>2. QED BY <1>1, <2>1
<1>3. QED BY <1>1, <1>2

LEMMA LeftOver ==
  ASSUME NEW x \in Nat
  PROVE  AtLeast0(100 - x) \in 0..100
BY DEF AtLeast0

LEMMA ConsistencyPercent ==
  ASSUME NEW whole \in Int, NEW x \in Int, NEW y \in Int
  PROVE  Consistency(whole, x, y) \in 0..100
<1>1. CASE whole <= 0
  BY <1>1 DEF Consistency
<1>2. CASE whole > 0
  <2>1. 100 * Distance(x, y) \in Nat
    BY DEF Distance
  <2>2. (100 * Distance(x, y)) \div whole \in Nat
    BY <1>2, <2>1, QuotientNat
  <2>3. QED BY <1>2, <2>2, LeftOver DEF Consistency
<1>3. QED BY <1>1, <1>2

LEMMA FreshnessPercent ==
  ASSUME NEW age \in Int, NEW tMax \in Nat \ {0}
  PROVE  Freshness(age, tMax) \in 0..100
<1>1. CASE age < 0
  BY <1>1 DEF Freshness
<1>2. CASE age >= 0
  <2>1. (100 * age) \div tMax \in Nat
    BY <1>2, QuotientNat
  <2>2. QED BY <1>2, <2>1, LeftOver DEF Freshness
<1>3. QED BY <1>1, <1>2

LEMMA CvNat ==
  ASSUME NEW x, Len(x) \in Nat
  PROVE  Cv(x) \in Nat
<1> DEFINE S == 1..(100 * Len(x))
           sum == SumUp(x)
           d == Len(x) * SumUp([i \in DOMAIN x |-> x[i] * x[i]]) - sum * sum
           T == {p \in S : p * p * sum * sum <= 10000 * d}
<1>1. IsFiniteSet(S)
  BY FS_Interval
<1>2. T \subseteq S
  OBVIOUS
<1>3. Cardinality(T) \in Nat
  <2> HIDE DEF S, T
  <2>1. QED BY <1>1, <1>2, FS_Subset, FS_CardinalityType
<1>4. Cv(x) = Cardinality(T)
  BY DEF Cv
<1>5. QED BY <1>3, <1>4

LEMMA CadencePercent ==
  ASSUME NEW s, Len(s) \in Nat, NEW cvMax \in Nat \ {0}
  PROVE  Cadence(s, cvMax) \in 0..100
<1>1. 100 * Cv(s) \in Nat
  BY CvNat
<1>2. (100 * Cv(s)) \div cvMax \in Nat
  BY <1>1, QuotientNat
<1>3. AtLeast0(100 - (100 * Cv(s)) \div cvMax) \in 0..100
  BY <1>2, LeftOver
<1>4. QED BY <1>3 DEF Cadence

-----------------------------------------------------------------------------
(* Requests and samples *)

Phases == {"evaluate", "read", "look", "create", "record", "update"}

Calls == [pc : Phases, req : Requests, i : Nat \ {0}, th : {Stable, Degraded},
          slot : Slots \cup {None}]

Trackers == [trust : 0..100, count : Nat, beats : Seq(Int), th : {Stable, Degraded}]

LEMMA RequestFacts ==
  ASSUME NEW req \in Requests
  PROVE  req.podOk \in BOOLEAN /\ req.cands \in Seq(NodeCandidate)
BY ScoringAssumption

LEMMA NowIsTime ==
  ASSUME NEW req \in Requests, req.cands # <<>>
  PROVE  Now(req) \in Int
<1> DEFINE n == Len(req.cands)
           f == [k \in 1..n |-> req.cands[k].beat]
           beats == {req.cands[k].beat : k \in DOMAIN req.cands}
<1>1. n \in Nat \ {0} /\ DOMAIN req.cands = 1..n /\ \A k \in 1..n : req.cands[k] \in NodeCandidate
  BY RequestFacts
<1>2. \A k \in 1..n : req.cands[k].beat \in Int
  BY <1>1 DEF NodeCandidate
<1>3. f \in [1..n -> Int]
  BY <1>2
<1>4. PICK k \in 1..n : \A j \in 1..n : f[j] <= f[k]
  BY <1>1, <1>3, FirstGreatest
<1>5. req.cands[k].beat \in beats /\ \A b \in beats : b <= req.cands[k].beat
  BY <1>1, <1>4
<1>6. beats \subseteq Int
  BY <1>1, <1>2
<1>7. Now(req) = CHOOSE t \in beats : \A b \in beats : b <= t
  BY DEF Now
<1>8. (CHOOSE t \in beats : \A b \in beats : b <= t) \in beats
  <2> HIDE DEF beats
  <2>1. QED BY <1>5
<1>9. QED BY <1>6, <1>7, <1>8

LEMMA SamplePercent ==
  ASSUME NEW c \in NodeCandidate, NEW t \in Trackers, NEW now \in Int
  PROVE  Sample(c, t, now) \in 0..100
<1> DEFINE internal == Consistency(c.alloc, c.alloc - c.used, c.free)
           cross == Consistency(c.total, c.expected, c.free)
           fresh == IF c.intervals # <<>>
                    THEN IF c.beat > 0 THEN Freshness(AtLeast0(now - c.beat), t.th.tMax) ELSE 100
                    ELSE IF t.beats = <<>> THEN 10 ELSE Freshness(now - Last(t.beats), t.th.tMax)
           cadence == IF c.intervals # <<>> THEN Cadence(c.intervals, t.th.cvMax)
                                            ELSE Cadence(Gaps(t.beats), t.th.cvMax)
<1>1. /\ c.alloc \in Int /\ c.used \in Int /\ c.free \in Int /\ c.total \in Int
      /\ c.expected \in Int /\ c.beat \in Int /\ c.intervals \in Seq(Nat)
  BY DEF NodeCandidate
<1>2. t.beats \in Seq(Int) /\ t.th.tMax \in Nat \ {0} /\ t.th.cvMax \in Nat \ {0}
  BY DEF Trackers, Stable, Degraded
<1>3. internal \in 0..100 /\ cross \in 0..100
  <2>1. c.alloc - c.used \in Int
    BY <1>1
  <2>2. QED BY <1>1, <2>1, ConsistencyPercent
<1>4. fresh \in 0..100
  <2>1. AtLeast0(now - c.beat) \in Int
    BY <1>1 DEF AtLeast0
  <2>2. t.beats # <<>> => Last(t.beats) \in Int
    BY <1>2 DEF Last
  <2>3. Freshness(AtLeast0(now - c.beat), t.th.tMax) \in 0..100
    BY <1>2, <2>1, FreshnessPercent
  <2>4. ASSUME t.beats # <<>> PROVE Freshness(now - Last(t.beats), t.th.tMax) \in 0..100
    <3>1. now - Last(t.beats) \in Int
      BY <2>2, <2>4
    <3>2. QED BY <1>2, <3>1, FreshnessPercent
  <2>5. QED BY <2>3, <2>4
<1>5. cadence \in 0..100
  <2>1. Len(c.intervals) \in Nat
    BY <1>1
  <2>2. Len(Gaps(t.beats)) \in Nat
    <3>1. AtLeast0(Len(t.beats) - 1) \in Nat
      BY <1>2 DEF AtLeast0
    <3>2. QED BY <3>1 DEF Gaps
  <2>3. QED BY <1>2, <2>1, <2>2, CadencePercent
<1> HIDE DEF internal, cross, fresh, cadence
<1>6. (internal * fresh) \div 100 \in 0..100
  BY <1>3, <1>4, PercentOf
<1>7. (((internal * fresh) \div 100) * cadence) \div 100 \in 0..100
  BY <1>5, <1>6, PercentOf
<1>8. (((((internal * fresh) \div 100) * cadence) \div 100) * cross) \div 100 \in 0..100
  BY <1>3, <1>7, PercentOf
<1>9. QED BY <1>7, <1>8 DEF Sample, internal, cross, fresh, cadence

LEMMA MeanCvNat ==
  ASSUME NEW req \in Requests, Reporting(req) # {}
  PROVE  MeanCv(req) \in Nat
<1> DEFINE n == Len(req.cands)
           f == [k \in DOMAIN req.cands |->
                   IF k \in Reporting(req) THEN Cv(req.cands[k].intervals) ELSE 0]
<1>1. DOMAIN req.cands = 1..n /\ n \in Nat /\ \A k \in 1..n : req.cands[k] \in NodeCandidate
  BY RequestFacts
<1>2. \A k \in 1..n : Cv(req.cands[k].intervals) \in Nat
  <2>1. SUFFICES ASSUME NEW k \in 1..n PROVE Cv(req.cands[k].intervals) \in Nat
    OBVIOUS
  <2>2. req.cands[k].intervals \in Seq(Nat)
    BY <1>1 DEF NodeCandidate
  <2>3. QED BY <2>2, CvNat
<1>3. f \in [1..n -> Nat] /\ Len(f) = n
  BY <1>1, <1>2
<1>4. SumUp(f) \in Nat
  BY <1>1, <1>3, TotalNat DEF SumUp
<1>5. Cardinality(Reporting(req)) \in Nat \ {0}
  <2>1. Reporting(req) \subseteq 1..n
    BY <1>1 DEF Reporting
  <2>2. IsFiniteSet(1..n)
    BY <1>1, FS_Interval
  <2>3. IsFiniteSet(Reporting(req))
    BY <2>1, <2>2, FS_Subset
  <2>4. QED BY <2>3, FS_CardinalityType, FS_EmptySet
<1>6. MeanCv(req) = SumUp(f) \div Cardinality(Reporting(req))
  BY DEF MeanCv
<1> HIDE DEF f
<1>7. QED BY <1>4, <1>5, <1>6, QuotientNat

-----------------------------------------------------------------------------
(* The invariant *)

Values ==
  /\ manager \in [state : {"STABLE", "DEGRADED"}, stable : 0..(Leave - 1),
                  degraded : 0..(Enter - 1)]
  /\ of \in [NodeIds -> Slots \cup {None}]
  /\ heap \in [Slots -> Trackers] /\ \A s \in Slots : Len(heap[s].beats) <= History
  /\ rpc \in [Rpcs -> {Free} \cup Calls]
  /\ calls \in 0..MaxCalls
  /\ run \in [side : {"none", "high", "low", "middle"}, n : 0..MaxRun]
  /\ like \in [Slots -> [full : Nat \ {0}, empty : Nat \ {0}]]
  /\ given \in [NodeIds -> Nat] /\ raced \subseteq NodeIds

AtNode(r) == rpc[r].pc \in {"look", "create", "record", "update"}

\* Where a call stands, it has what the next step needs.
CallsReady ==
  \A r \in Rpcs :
    /\ rpc[r].pc = "evaluate" => Reporting(rpc[r].req) # {}
    /\ rpc[r].pc \in {"evaluate", "read"} => rpc[r].i = 1
    /\ AtNode(r) => rpc[r].i \in DOMAIN rpc[r].req.cands
    /\ rpc[r].pc \in {"record", "update"} => rpc[r].slot \in Slots

\* Nodes share no tracker, also not with a call for another node; and a node
\* that is not raced has the tracker its calls hold, and none yet as long as
\* one is about to create it.
Owned ==
  /\ \A n, m \in NodeIds : of[n] = of[m] /\ of[n] # None => n = m
  /\ \A r \in Rpcs, n, m \in NodeIds : Holds(r, n) /\ of[m] = rpc[r].slot => m = n
  /\ \A r \in Rpcs, n \in NodeIds \ raced :
       /\ Holds(r, n) => of[n] = rpc[r].slot
       /\ rpc[r].pc = "create" /\ Cand(r).node = n => of[n] = None
  /\ \A n \in NodeIds \ raced : of[n] = None => given[n] = 0
  /\ SamplesKept

IInv == Values /\ CallsReady /\ CountersAreRuns /\ TrustFollows /\ Owned

LEMMA InitInv == Init => IInv
<1> SUFFICES ASSUME Init PROVE IInv
  OBVIOUS
<1> USE ScoringAssumption DEF Init
<1>1. Values
  <2>1. NoTracker \in Trackers /\ Len(NoTracker.beats) = 0
    BY DEF NoTracker, NewTracker, Trackers, Stable
  <2>2. QED BY <2>1 DEF Values, NoRun
<1>2. CallsReady
  BY DEF CallsReady, AtNode, Free
<1>3. CountersAreRuns
  BY DEF CountersAreRuns
<1>4. TrustFollows
  BY DEF TrustFollows, NoTracker, NewTracker, NoRun
<1>5. Owned
  BY DEF Owned, Holds, Free, SamplesKept
<1>6. QED BY <1>1, <1>2, <1>3, <1>4, <1>5 DEF IInv

\* A call in progress, and what its candidate is.
LEMMA CallFacts ==
  ASSUME Values, CallsReady, NEW r \in Rpcs, rpc[r].pc # "free"
  PROVE  /\ rpc[r] \in Calls /\ rpc[r].req \in Requests
         /\ AtNode(r) => Cand(r) \in NodeCandidate /\ Cand(r).node \in NodeIds
                         /\ rpc[r].req.cands # <<>>
<1>1. rpc[r] \in Calls
  BY DEF Values, Free
<1>2. rpc[r].req \in Requests /\ rpc[r].req.cands \in Seq(NodeCandidate)
  BY <1>1, RequestFacts DEF Calls
<1>3. ASSUME AtNode(r) PROVE Cand(r) \in NodeCandidate /\ Cand(r).node \in NodeIds
  <2>1. rpc[r].i \in DOMAIN rpc[r].req.cands
    BY <1>3 DEF CallsReady
  <2>2. Cand(r) \in NodeCandidate
    BY <1>2, <2>1 DEF Cand
  <2>3. QED BY <2>2 DEF NodeCandidate
<1>4. AtNode(r) => rpc[r].req.cands # <<>>
  BY <1>2 DEF CallsReady
<1>5. QED BY <1>1, <1>2, <1>3, <1>4

\* A step of one call that moves it on, keeps its tracker or lets go of it, and
\* creates nothing, leaves the ownership as it is.
LEMMA MovingOn ==
  ASSUME IInv, NEW r \in Rpcs, NEW v, rpc' = [rpc EXCEPT ![r] = v],
         UNCHANGED <<of, raced>>,
         \A n \in NodeIds \ raced : of[n] = None => given'[n] = 0,
         SamplesKept',
         \/ v.pc \notin {"create", "record", "update"}
         \/ /\ v.req = rpc[r].req /\ v.i = rpc[r].i
            /\ \/ v.pc = "update" /\ rpc[r].pc = "record" /\ v.slot = rpc[r].slot
               \/ v.pc = "record" /\ v.slot = of[Cand(r).node] /\ v.slot \in Slots /\ rpc[r].pc = "look"
               \/ v.pc = "create" /\ of[Cand(r).node] = None
  PROVE  Owned'
<1>1. rpc'[r] = v /\ \A q \in Rpcs \ {r} : rpc'[q] = rpc[q]
  BY DEF IInv, Values
<1>2. \A q \in Rpcs \ {r} : Cand(q)' = Cand(q) /\ \A n \in NodeIds : Holds(q, n)' = Holds(q, n)
  BY <1>1 DEF Cand, Holds
<1>3. v.pc \in {"create", "record", "update"} => Cand(r)' = Cand(r)
  BY <1>1 DEF Cand
<1>4. v.pc \in {"record", "update"} => \A m \in NodeIds : of[m] = v.slot => m = Cand(r).node
  <2>1. ASSUME v.pc = "update", NEW m \in NodeIds, of[m] = v.slot PROVE m = Cand(r).node
    <3>1. rpc[r].pc = "record" /\ v.slot = rpc[r].slot
      BY <2>1
    <3>2. Cand(r).node \in NodeIds
      BY <3>1, CallFacts DEF IInv, AtNode
    <3>3. Holds(r, Cand(r).node)
      BY <3>1 DEF Holds
    <3>4. QED BY <2>1, <3>1, <3>2, <3>3 DEF IInv, Owned
  <2>2. ASSUME v.pc = "record", NEW m \in NodeIds, of[m] = v.slot PROVE m = Cand(r).node
    <3>1. rpc[r].pc = "look" /\ v.slot = of[Cand(r).node] /\ v.slot \in Slots
      BY <2>2
    <3>2. Cand(r).node \in NodeIds
      BY <3>1, CallFacts DEF IInv, AtNode
    <3>3. QED BY <2>2, <3>1, <3>2, ScoringAssumption DEF IInv, Owned
  <2>3. QED BY <2>1, <2>2
<1>5. \A q \in Rpcs, n, m \in NodeIds : Holds(q, n)' /\ of'[m] = rpc'[q].slot => m = n
  <2>1. SUFFICES ASSUME NEW q \in Rpcs, NEW n \in NodeIds, NEW m \in NodeIds,
                        Holds(q, n)', of'[m] = rpc'[q].slot
                 PROVE  m = n
    OBVIOUS
  <2>2. CASE q = r
    BY <1>1, <1>3, <1>4, <2>1, <2>2 DEF Holds
  <2>3. CASE q # r
    BY <1>1, <1>2, <2>1, <2>3 DEF IInv, Owned
  <2>4. QED BY <2>2, <2>3
<1>6. \A q \in Rpcs, n \in NodeIds \ raced : Holds(q, n)' => of[n] = rpc'[q].slot
  <2>1. SUFFICES ASSUME NEW q \in Rpcs, NEW n \in NodeIds \ raced, Holds(q, n)'
                 PROVE  of[n] = rpc'[q].slot
    OBVIOUS
  <2>2. CASE q = r
    <3>1. v.pc \in {"record", "update"} /\ Cand(r).node = n
      BY <1>1, <1>3, <2>1, <2>2 DEF Holds
    <3>2. rpc[r].pc = "record" => Holds(r, n)
      BY <3>1 DEF Holds
    <3>3. QED BY <1>1, <2>1, <2>2, <3>1, <3>2 DEF IInv, Owned
  <2>3. CASE q # r
    BY <1>1, <1>2, <2>1, <2>3 DEF IInv, Owned
  <2>4. QED BY <2>2, <2>3
<1>7. \A q \in Rpcs, n \in NodeIds \ raced :
        rpc'[q].pc = "create" /\ Cand(q)'.node = n => of[n] = None
  BY <1>1, <1>2, <1>3 DEF IInv, Owned
<1>8. QED BY <1>5, <1>6, <1>7 DEF IInv, Owned

-----------------------------------------------------------------------------
(* The head of the handler *)

\* What a step that leaves trackers alone has to show.
LEMMA TrackersAlone ==
  ASSUME IInv, UNCHANGED trackerVars, NEW r \in Rpcs, NEW v \in {Free} \cup Calls,
         rpc' = [rpc EXCEPT ![r] = v],
         v.pc = "evaluate" => Reporting(v.req) # {},
         v.pc \in {"evaluate", "read"} => v.i = 1,
         v.pc \in {"look", "create", "record", "update"} => v.i \in DOMAIN v.req.cands,
         v.pc \in {"record", "update"} => v.slot \in Slots,
         calls' \in 0..MaxCalls,
         \/ UNCHANGED <<manager, run>>
         \/ CountersAreRuns' /\ manager' \in [state : {"STABLE", "DEGRADED"},
                                  stable : 0..(Leave - 1), degraded : 0..(Enter - 1)]
                             /\ run' \in [side : {"none", "high", "low", "middle"}, n : 0..MaxRun],
         \/ v.pc \notin {"create", "record", "update"}
         \/ /\ v.req = rpc[r].req /\ v.i = rpc[r].i /\ rpc[r].pc = "look"
            /\ \/ v.pc = "record" /\ v.slot = of[Cand(r).node] /\ v.slot \in Slots
               \/ v.pc = "create" /\ of[Cand(r).node] = None
  PROVE  IInv'
<1> USE DEF trackerVars
<1>1. rpc'[r] = v /\ \A q \in Rpcs \ {r} : rpc'[q] = rpc[q]
  BY DEF IInv, Values
<1>2. Values'
  BY DEF IInv, Values
<1>3. CallsReady'
  BY <1>1 DEF IInv, CallsReady, AtNode
<1>4. CountersAreRuns'
  BY DEF IInv, CountersAreRuns
<1>5. TrustFollows'
  BY DEF IInv, TrustFollows
<1>6. SamplesKept'
  BY DEF IInv, Owned, SamplesKept
<1>7. Owned'
  BY <1>6, MovingOn DEF IInv, Owned
<1>8. QED BY <1>2, <1>3, <1>4, <1>5, <1>7 DEF IInv

LEMMA ReceiveKeepsInv ==
  ASSUME IInv, NEW r \in Rpcs, NEW req \in Requests, Receive(r, req)
  PROVE  IInv'
<1> DEFINE v == [pc |-> IF Reporting(req) = {} THEN "read" ELSE "evaluate",
                 req |-> req, i |-> 1, th |-> Stable, slot |-> None]
<1>1. v \in Calls
  BY DEF Calls, Phases
<1>2. rpc' = [rpc EXCEPT ![r] = v] /\ UNCHANGED <<manager, trackerVars, run>>
      /\ calls' \in 0..MaxCalls
  BY ScoringAssumption DEF Receive, IInv, Values
<1>3. v.pc \in {"read", "evaluate"} /\ (v.pc = "evaluate" => Reporting(v.req) # {}) /\ v.i = 1
  OBVIOUS
<1> HIDE DEF v
<1>4. QED BY <1>1, <1>2, <1>3, TrackersAlone

LEMMA EvaluateKeepsInv ==
  ASSUME IInv, NEW r \in Rpcs, Evaluate(r)
  PROVE  IInv'
<1> DEFINE cv == MeanCv(rpc[r].req)
           v == [rpc[r] EXCEPT !.pc = "read"]
<1>1. rpc[r].pc = "evaluate" /\ rpc[r] \in Calls /\ rpc[r].req \in Requests
  BY CallFacts DEF Evaluate, IInv
<1>2. cv \in Nat
  BY <1>1, MeanCvNat DEF IInv, CallsReady
<1>3. /\ manager' = Evaluated(manager, cv)
      /\ run' = IF manager'.state # manager.state THEN [side |-> "none", n |-> 0]
                ELSE IF Side(cv) = run.side THEN [run EXCEPT !.n = IF @ < MaxRun THEN @ + 1 ELSE @]
                ELSE [side |-> Side(cv), n |-> 1]
      /\ rpc' = [rpc EXCEPT ![r] = v] /\ UNCHANGED <<trackerVars, calls>>
  BY DEF Evaluate, Goto
<1>4. v \in Calls /\ v.pc = "read" /\ v.i = 1
  BY <1>1 DEF Calls, Phases, IInv, CallsReady
<1>5. /\ manager.state \in {"STABLE", "DEGRADED"} /\ manager.stable \in 0..(Leave - 1)
      /\ manager.degraded \in 0..(Enter - 1)
      /\ manager = [state |-> manager.state, stable |-> manager.stable, degraded |-> manager.degraded]
      /\ run.side \in {"none", "high", "low", "middle"} /\ run.n \in 0..MaxRun
      /\ run = [side |-> run.side, n |-> run.n]
  BY DEF IInv, Values
<1>6. /\ manager.degraded = IF manager.state = "STABLE" /\ run.side = "high" THEN run.n ELSE 0
      /\ manager.stable = IF manager.state = "DEGRADED" /\ run.side = "low" THEN run.n ELSE 0
  BY DEF IInv, CountersAreRuns
<1> HIDE DEF cv, v
<1>7. /\ manager' \in [state : {"STABLE", "DEGRADED"}, stable : 0..(Leave - 1),
                       degraded : 0..(Enter - 1)]
      /\ run' \in [side : {"none", "high", "low", "middle"}, n : 0..MaxRun]
      /\ CountersAreRuns'
  <2>1. Side(cv) \in {"high", "low", "middle"} /\ (Side(cv) = "high" <=> cv > 25)
        /\ (Side(cv) = "low" <=> cv < 15)
    BY <1>2 DEF Side
  <2>2. manager'.state = manager.state =>
          /\ run'.side = Side(cv)
          /\ Side(cv) = run.side => run'.n = IF run.n < MaxRun THEN run.n + 1 ELSE run.n
          /\ Side(cv) # run.side => run'.n = 1
    BY <1>3, <1>5
  <2>3. manager'.state # manager.state => run'.side = "none" /\ run'.n = 0
    BY <1>3
  <2>4. run' \in [side : {"none", "high", "low", "middle"}, n : 0..MaxRun]
    BY <1>3, <1>5, <2>1, ScoringAssumption
  <2> USE ScoringAssumption DEF CountersAreRuns
  <2>5. CASE manager.state = "STABLE" /\ cv <= 25
    <3>1. manager' = [state |-> "STABLE", stable |-> manager.stable, degraded |-> 0]
      BY <1>2, <1>3, <1>5, <2>5 DEF Evaluated
    <3>2. QED BY <1>2, <1>5, <1>6, <2>1, <2>2, <2>3, <2>4, <2>5, <3>1
  <2>6. CASE manager.state = "STABLE" /\ cv > 25 /\ manager.degraded + 1 < Enter
    <3>1. manager' = [state |-> "STABLE", stable |-> manager.stable, degraded |-> manager.degraded + 1]
      BY <1>2, <1>3, <1>5, <2>6 DEF Evaluated
    <3>2. QED BY <1>2, <1>5, <1>6, <2>1, <2>2, <2>3, <2>4, <2>6, <3>1
  <2>7. CASE manager.state = "STABLE" /\ cv > 25 /\ ~(manager.degraded + 1 < Enter)
    <3>1. ~(cv <= 25)
      BY <1>2, <2>7
    <3>2. manager' = [manager EXCEPT !.state = "DEGRADED", !.degraded = 0]
      BY <1>3, <2>7, <3>1 DEF Evaluated
    <3>3. manager' = [state |-> "DEGRADED", stable |-> manager.stable, degraded |-> 0]
      BY <1>5, <3>2
    <3>4. QED BY <1>2, <1>5, <1>6, <2>1, <2>2, <2>3, <2>4, <2>7, <3>3
  <2>8. CASE manager.state = "DEGRADED" /\ cv >= 15
    <3>1. manager' = [state |-> "DEGRADED", stable |-> 0, degraded |-> manager.degraded]
      BY <1>2, <1>3, <1>5, <2>8 DEF Evaluated
    <3>2. QED BY <1>2, <1>5, <1>6, <2>1, <2>2, <2>3, <2>4, <2>8, <3>1
  <2>9. CASE manager.state = "DEGRADED" /\ cv < 15 /\ manager.stable + 1 < Leave
    <3>1. manager' = [state |-> "DEGRADED", stable |-> manager.stable + 1, degraded |-> manager.degraded]
      BY <1>2, <1>3, <1>5, <2>9 DEF Evaluated
    <3>2. QED BY <1>2, <1>5, <1>6, <2>1, <2>2, <2>3, <2>4, <2>9, <3>1
  <2>10. CASE manager.state = "DEGRADED" /\ cv < 15 /\ ~(manager.stable + 1 < Leave)
    <3>1. manager.state # "STABLE" /\ ~(cv >= 15)
      BY <1>2, <2>10
    <3>2. manager' = [manager EXCEPT !.state = "STABLE", !.stable = 0]
      BY <1>3, <2>10, <3>1 DEF Evaluated
    <3>3. manager' = [state |-> "STABLE", stable |-> 0, degraded |-> manager.degraded]
      BY <1>5, <3>2
    <3>4. QED BY <1>2, <1>5, <1>6, <2>1, <2>2, <2>3, <2>4, <2>10, <3>3
  <2>11. QED BY <1>2, <1>5, <2>5, <2>6, <2>7, <2>8, <2>9, <2>10
<1>8. calls' \in 0..MaxCalls
  BY <1>3 DEF IInv, Values
<1>9. QED BY <1>3, <1>4, <1>7, <1>8, TrackersAlone

LEMMA ReadKeepsInv ==
  ASSUME IInv, NEW r \in Rpcs, Read(r)
  PROVE  IInv'
<1> DEFINE v == IF rpc[r].req.podOk /\ rpc[r].req.cands # <<>>
                THEN [rpc[r] EXCEPT !.pc = "look", !.th = Thresholds(manager.state)]
                ELSE Free
<1>1. rpc[r].pc = "read" /\ rpc[r] \in Calls /\ rpc[r].req \in Requests
  BY CallFacts DEF Read, IInv
<1>2. rpc' = [rpc EXCEPT ![r] = v] /\ UNCHANGED <<manager, trackerVars, calls, run>>
  BY DEF Read
<1>3. v \in {Free} \cup Calls
  BY <1>1 DEF Calls, Phases, Thresholds
<1>4. v = Free \/ (v.pc = "look" /\ v.i \in DOMAIN v.req.cands)
  <2>1. ASSUME rpc[r].req.cands # <<>> PROVE 1 \in DOMAIN rpc[r].req.cands
    BY <1>1, <2>1, RequestFacts
  <2>2. rpc[r].i = 1
    BY <1>1 DEF IInv, CallsReady
  <2>3. QED BY <1>1, <2>1, <2>2 DEF Calls
<1>5. v.pc \in {"free", "look"}
  BY <1>4 DEF Free
<1> HIDE DEF v
<1>6. calls' \in 0..MaxCalls
  BY <1>2 DEF IInv, Values
<1>7. QED BY <1>2, <1>3, <1>4, <1>5, <1>6, TrackersAlone DEF Free

LEMMA LookKeepsInv ==
  ASSUME IInv, NEW r \in Rpcs, Look(r)
  PROVE  IInv'
<1> DEFINE s == of[Cand(r).node]
           v == [rpc[r] EXCEPT !.pc = IF s = None THEN "create" ELSE "record", !.slot = s]
<1>1. rpc[r].pc = "look" /\ rpc[r] \in Calls /\ Cand(r).node \in NodeIds
  BY CallFacts DEF Look, IInv, AtNode
<1>2. rpc' = [rpc EXCEPT ![r] = v] /\ UNCHANGED <<manager, trackerVars, calls, run>>
  BY DEF Look
<1>3. s \in Slots \cup {None}
  BY <1>1 DEF IInv, Values
<1>4. v \in Calls /\ v.req = rpc[r].req /\ v.i = rpc[r].i /\ v.slot = s
      /\ v.pc = IF s = None THEN "create" ELSE "record"
  BY <1>1, <1>3 DEF Calls, Phases
<1>5. v.i \in DOMAIN v.req.cands
  BY <1>1, <1>4 DEF IInv, CallsReady, AtNode
<1> HIDE DEF v
<1>6. calls' \in 0..MaxCalls
  BY <1>2 DEF IInv, Values
<1>7. QED BY <1>1, <1>2, <1>3, <1>4, <1>5, <1>6, TrackersAlone

-----------------------------------------------------------------------------
(* Trackers *)

LEMMA ImageSize ==
  ASSUME NEW S, IsFiniteSet(S), NEW f, f = [x \in S |-> f[x]]
  PROVE  /\ IsFiniteSet({f[x] : x \in S})
         /\ Cardinality({f[x] : x \in S}) <= Cardinality(S)
<1> DEFINE T == {f[x] : x \in S}
<1>1. f \in [S -> T]
  OBVIOUS
<1>2. \A t \in T : \E x \in S : f[x] = t
  OBVIOUS
<1> HIDE DEF T
<1>3. f \in Surjection(S, T)
  BY <1>1, <1>2 DEF Surjection
<1>4. IsFiniteSet(T) /\ Cardinality(T) <= Cardinality(S)
  BY <1>3, FS_Surjection
<1>5. QED BY <1>4 DEF T

\* The nodes and the calls refer to fewer trackers than there are.
LEMMA UnusedIsNew ==
  ASSUME Values
  PROVE  Unused \in Slots /\ Unused \notin Reached(of, rpc)
<1> DEFINE Busy == {q \in Rpcs : rpc[q].pc # "free"}
           f == [q \in Busy |-> rpc[q].slot]
           A == {of[n] : n \in NodeIds}
           B == {f[q] : q \in Busy}
<1>1. IsFiniteSet(A) /\ Cardinality(A) <= Cardinality(NodeIds)
  <2>1. IsFiniteSet(NodeIds) /\ of = [x \in NodeIds |-> of[x]]
    BY ScoringAssumption DEF Values
  <2>2. IsFiniteSet({of[x] : x \in NodeIds})
        /\ Cardinality({of[x] : x \in NodeIds}) <= Cardinality(NodeIds)
    BY <2>1, ImageSize
  <2>3. QED BY <2>2
<1>2. IsFiniteSet(Busy) /\ Cardinality(Busy) <= Cardinality(Rpcs)
  BY FS_Subset, ScoringAssumption
<1>3. IsFiniteSet(B) /\ Cardinality(B) <= Cardinality(Busy)
  <2>1. f = [q \in Busy |-> f[q]]
    OBVIOUS
  <2> HIDE DEF f, Busy
  <2>2. QED BY <1>2, <2>1, ImageSize
<1>4. Reached(of, rpc) = A \cup B
  BY DEF Reached
<1> HIDE DEF A, B, Busy, f
<1>5. IsFiniteSet(A \cup B) /\ Cardinality(A \cup B) <= Cardinality(A) + Cardinality(B)
  <2>1. IsFiniteSet(A \cap B)
    BY <1>1, FS_Subset
  <2>2. Cardinality(A \cap B) \in Nat /\ Cardinality(A) \in Nat /\ Cardinality(B) \in Nat
    BY <1>1, <1>3, <2>1, FS_CardinalityType
  <2>3. /\ IsFiniteSet(A \cup B)
        /\ Cardinality(A \cup B) = Cardinality(A) + Cardinality(B) - Cardinality(A \cap B)
    BY <1>1, <1>3, FS_Union
  <2>4. QED BY <2>2, <2>3
<1>6. \E s \in Slots : s \notin A \cup B
  <2>1. SUFFICES ASSUME Slots \subseteq A \cup B PROVE FALSE
    OBVIOUS
  <2>2. Cardinality(Slots) <= Cardinality(A \cup B)
    BY <1>5, <2>1, FS_Subset
  <2>3. /\ Cardinality(Slots) \in Nat /\ Cardinality(NodeIds) \in Nat /\ Cardinality(Rpcs) \in Nat
        /\ Cardinality(A) \in Nat /\ Cardinality(B) \in Nat /\ Cardinality(Busy) \in Nat
        /\ Cardinality(A \cup B) \in Nat
    BY <1>1, <1>2, <1>3, <1>5, FS_CardinalityType, ScoringAssumption
  <2>4. QED BY <1>1, <1>2, <1>3, <1>5, <2>2, <2>3, ScoringAssumption
<1>7. (CHOOSE s \in Slots : s \notin Reached(of, rpc)) \in Slots
      /\ (CHOOSE s \in Slots : s \notin Reached(of, rpc)) \notin Reached(of, rpc)
  BY <1>4, <1>6
<1>8. QED BY <1>7 DEF Unused

LEMMA ReachedByNode ==
  ASSUME NEW o, NEW c, NEW n \in NodeIds
  PROVE  o[n] \in Reached(o, c)
BY DEF Reached

LEMMA ReachedByCall ==
  ASSUME NEW o, NEW c, NEW r \in Rpcs, c[r].pc # "free"
  PROVE  c[r].slot \in Reached(o, c)
BY DEF Reached

\* Forgetting the trackers nobody refers to keeps what is said of each.
LEMMA Forgetting ==
  ASSUME NEW h \in [Slots -> Trackers], \A s \in Slots : Len(h[s].beats) <= History,
         NEW l \in [Slots -> [full : Nat \ {0}, empty : Nat \ {0}]],
         \A s \in Slots : /\ (100 - h[s].trust) * l[s].full < 100 + l[s].full
                          /\ h[s].trust * l[s].empty <= 100,
         heap' = Kept(h, NoTracker), like' = Kept(l, NoRun)
  PROVE  /\ heap' \in [Slots -> Trackers] /\ \A s \in Slots : Len(heap'[s].beats) <= History
         /\ like' \in [Slots -> [full : Nat \ {0}, empty : Nat \ {0}]]
         /\ TrustFollows'
         /\ \A s \in Slots : s \in Reached(of', rpc') => heap'[s] = h[s]
<1>1. /\ NoTracker \in Trackers /\ Len(NoTracker.beats) <= History /\ NoTracker.trust = 70
      /\ NoRun \in [full : Nat \ {0}, empty : Nat \ {0}] /\ NoRun.full = 1 /\ NoRun.empty = 1
  BY ScoringAssumption DEF NoTracker, NewTracker, Trackers, Stable, NoRun
<1>2. heap' = [s \in Slots |-> IF s \in Reached(of', rpc') THEN h[s] ELSE NoTracker]
      /\ like' = [s \in Slots |-> IF s \in Reached(of', rpc') THEN l[s] ELSE NoRun]
  BY DEF Kept
<1>3. heap' \in [Slots -> Trackers] /\ \A s \in Slots : Len(heap'[s].beats) <= History
  BY <1>1, <1>2
<1>4. like' \in [Slots -> [full : Nat \ {0}, empty : Nat \ {0}]]
  BY <1>1, <1>2
<1>5. TrustFollows'
  <2>1. SUFFICES ASSUME NEW s \in Slots
                 PROVE  /\ (100 - heap'[s].trust) * like'[s].full < 100 + like'[s].full
                        /\ heap'[s].trust * like'[s].empty <= 100
    BY DEF TrustFollows
  <2>2. CASE s \in Reached(of', rpc')
    BY <1>2, <2>2
  <2>3. CASE s \notin Reached(of', rpc')
    <3>1. heap'[s].trust = 70 /\ like'[s].full = 1 /\ like'[s].empty = 1
      BY <1>1, <1>2, <2>3
    <3>2. QED BY <3>1
  <2>4. QED BY <2>2, <2>3
<1>6. QED BY <1>2, <1>3, <1>4, <1>5

LEMMA CreateKeepsInv ==
  ASSUME IInv, NEW r \in Rpcs, Create(r)
  PROVE  IInv'
<1> DEFINE n == Cand(r).node
           u == Unused
           v == [rpc[r] EXCEPT !.pc = "record", !.slot = u]
           h == [heap EXCEPT ![u] = NewTracker(rpc[r].th)]
           l == [like EXCEPT ![u] = NoRun]
<1>1. rpc[r].pc = "create" /\ rpc[r] \in Calls /\ n \in NodeIds
  BY CallFacts DEF Create, IInv, AtNode
<1>2. u \in Slots /\ u \notin Reached(of, rpc)
  BY UnusedIsNew DEF IInv
<1>3. /\ of' = [of EXCEPT ![n] = u] /\ rpc' = [rpc EXCEPT ![r] = v]
      /\ raced' = IF \E q \in Rpcs \ {r} : rpc[q].pc = "create" /\ Cand(q).node = n
                  THEN raced \cup {n} ELSE raced
      /\ heap' = Kept(h, NoTracker) /\ like' = Kept(l, NoRun)
      /\ UNCHANGED <<manager, calls, run, given>>
  BY DEF Create
<1>4. v \in Calls /\ v.pc = "record" /\ v.slot = u /\ v.i = rpc[r].i /\ v.req = rpc[r].req
  BY <1>1, <1>2 DEF Calls, Phases
<1>5. NewTracker(rpc[r].th) \in Trackers /\ Len(NewTracker(rpc[r].th).beats) <= History
      /\ NewTracker(rpc[r].th).trust = 70 /\ NewTracker(rpc[r].th).count = 0
  BY <1>1, ScoringAssumption DEF NewTracker, Trackers, Calls
<1>6. h \in [Slots -> Trackers] /\ \A s \in Slots : Len(h[s].beats) <= History
  BY <1>2, <1>5 DEF IInv, Values
<1>7. l \in [Slots -> [full : Nat \ {0}, empty : Nat \ {0}]]
  BY <1>2 DEF IInv, Values, NoRun
<1>8. ASSUME NEW s \in Slots
      PROVE  /\ (100 - h[s].trust) * l[s].full < 100 + l[s].full
             /\ h[s].trust * l[s].empty <= 100
  <2>1. CASE s = u
    <3>1. h[s].trust = 70 /\ l[s].full = 1 /\ l[s].empty = 1
      BY <1>2, <1>5, <2>1 DEF IInv, Values, NoRun
    <3>2. QED BY <3>1
  <2>2. CASE s # u
    BY <2>2 DEF IInv, TrustFollows, Values
  <2>3. QED BY <2>1, <2>2
<1> HIDE DEF h, l, v, u
<1>9. /\ heap' \in [Slots -> Trackers] /\ \A s \in Slots : Len(heap'[s].beats) <= History
      /\ like' \in [Slots -> [full : Nat \ {0}, empty : Nat \ {0}]]
      /\ TrustFollows'
      /\ \A s \in Slots : s \in Reached(of', rpc') => heap'[s] = h[s]
  BY <1>3, <1>6, <1>7, <1>8, Forgetting
<1>10. rpc'[r] = v /\ \A q \in Rpcs \ {r} : rpc'[q] = rpc[q]
  BY <1>3 DEF IInv, Values
<1>11. of'[n] = u /\ \A m \in NodeIds \ {n} : of'[m] = of[m]
  BY <1>1, <1>3 DEF IInv, Values
<1>12. Values'
  BY <1>1, <1>2, <1>3, <1>4, <1>9 DEF IInv, Values
<1>13. CallsReady'
  BY <1>1, <1>2, <1>4, <1>10 DEF IInv, CallsReady, AtNode
<1>14. CountersAreRuns'
  BY <1>3 DEF IInv, CountersAreRuns
<1>15. Cand(r)' = Cand(r) /\ \A q \in Rpcs : Cand(q)' = Cand(q)
  BY <1>4, <1>10 DEF Cand
<1>16. \A q \in Rpcs \ {r} : \A m \in NodeIds : Holds(q, m)' = Holds(q, m)
  BY <1>10, <1>15 DEF Holds
<1>17. \A q \in Rpcs : rpc[q].pc # "free" => rpc[q].slot # u
  BY <1>2, ReachedByCall
<1>18. \A m \in NodeIds : of[m] # u
  BY <1>2, ReachedByNode
<1>19. u # None
  BY <1>2, ScoringAssumption
<1>20. n \notin raced => of[n] = None /\ given[n] = 0
  BY <1>1 DEF IInv, Owned
<1>21. \A q \in Rpcs \ {r}, m \in NodeIds \ raced' : Holds(q, m) => m # n
  <2>1. SUFFICES ASSUME NEW q \in Rpcs \ {r}, n \notin raced', Holds(q, n) PROVE FALSE
    OBVIOUS
  <2>2. n \notin raced
    BY <1>3, <2>1
  <2>3. rpc[q].slot = None
    BY <1>1, <1>20, <2>1, <2>2 DEF IInv, Owned
  <2>4. QED BY <2>1, <2>3, ScoringAssumption DEF Holds, IInv, CallsReady
<1>22. raced' \subseteq raced \cup {n} /\ raced \subseteq raced'
  BY <1>3
<1>23. \A a, m \in NodeIds : of'[a] = of'[m] /\ of'[a] # None => a = m
  BY <1>11, <1>18, <1>19 DEF IInv, Owned
<1>24. \A q \in Rpcs, a, m \in NodeIds : Holds(q, a)' /\ of'[m] = rpc'[q].slot => m = a
  <2>1. SUFFICES ASSUME NEW q \in Rpcs, NEW a \in NodeIds, NEW m \in NodeIds,
                        Holds(q, a)', of'[m] = rpc'[q].slot
                 PROVE  m = a
    OBVIOUS
  <2>2. CASE q = r
    <3>1. a = n /\ of'[m] = u
      BY <1>4, <1>10, <1>15, <2>1, <2>2 DEF Holds
    <3>2. QED BY <1>11, <1>18, <3>1
  <2>3. CASE q # r
    <3>1. Holds(q, a) /\ rpc'[q] = rpc[q] /\ rpc[q].slot # u
      BY <1>10, <1>16, <1>17, <2>1, <2>3 DEF Holds
    <3>2. m # n
      BY <1>11, <2>1, <3>1
    <3>3. QED BY <1>11, <2>1, <3>1, <3>2 DEF IInv, Owned
  <2>4. QED BY <2>2, <2>3
<1>25. \A q \in Rpcs, m \in NodeIds \ raced' :
         /\ Holds(q, m)' => of'[m] = rpc'[q].slot
         /\ rpc'[q].pc = "create" /\ Cand(q)'.node = m => of'[m] = None
  <2>1. SUFFICES ASSUME NEW q \in Rpcs, NEW m \in NodeIds \ raced'
                 PROVE  /\ Holds(q, m)' => of'[m] = rpc'[q].slot
                        /\ rpc'[q].pc = "create" /\ Cand(q)'.node = m => of'[m] = None
    OBVIOUS
  <2>2. CASE q = r
    BY <1>4, <1>10, <1>11, <1>15, <2>1, <2>2 DEF Holds
  <2>3. CASE q # r
    <3>1. ASSUME Holds(q, m)' PROVE of'[m] = rpc'[q].slot
      <4>1. Holds(q, m) /\ m # n /\ m \notin raced
        BY <1>16, <1>21, <1>22, <2>1, <2>3, <3>1
      <4>2. QED BY <1>10, <1>11, <2>1, <2>3, <4>1 DEF IInv, Owned
    <3>2. ASSUME rpc'[q].pc = "create", Cand(q)'.node = m PROVE of'[m] = None
      <4>1. rpc[q].pc = "create" /\ Cand(q).node = m
        BY <1>10, <1>15, <2>3, <3>2
      <4>2. m # n
        BY <1>3, <2>1, <2>3, <4>1
      <4>3. QED BY <1>11, <1>22, <2>1, <4>1, <4>2 DEF IInv, Owned
    <3>3. QED BY <3>1, <3>2
  <2>4. QED BY <2>2, <2>3
<1>26. \A m \in NodeIds \ raced' : of'[m] = None => given'[m] = 0
  BY <1>3, <1>11, <1>19, <1>22 DEF IInv, Owned
<1>27. SamplesKept'
  <2>1. SUFFICES ASSUME NEW m \in NodeIds \ raced', of'[m] # None
                 PROVE  heap'[of'[m]].count = given'[m]
    BY DEF SamplesKept
  <2>2. of'[m] \in Slots /\ heap'[of'[m]] = h[of'[m]]
    <3>1. of'[m] \in Slots
      BY <1>12, <2>1 DEF Values
    <3>2. QED BY <1>9, <2>1, <3>1, ReachedByNode
  <2>3. CASE m = n
    <3>1. h[u].count = 0
      BY <1>2, <1>5 DEF h, IInv, Values
    <3>2. QED BY <1>3, <1>11, <1>20, <1>22, <2>1, <2>2, <2>3, <3>1
  <2>4. CASE m # n
    <3>1. of'[m] = of[m] /\ of[m] # u
      BY <1>11, <1>18, <2>1, <2>4
    <3>2. h[of[m]] = heap[of[m]]
      BY <2>2, <3>1 DEF h, IInv, Values
    <3>3. QED BY <1>3, <1>22, <2>1, <2>2, <2>4, <3>1, <3>2 DEF IInv, Owned, SamplesKept
  <2>5. QED BY <2>3, <2>4
<1>28. Owned'
  BY <1>23, <1>24, <1>25, <1>26, <1>27 DEF Owned
<1>29. QED BY <1>9, <1>12, <1>13, <1>14, <1>28 DEF IInv

-----------------------------------------------------------------------------
(* A candidate's sample *)

LEMMA RecordedBeats ==
  ASSUME NEW beats \in Seq(Int), Len(beats) <= History, NEW t \in Int
  PROVE  Recorded(beats, t) \in Seq(Int) /\ Len(Recorded(beats, t)) <= History
<1>1. /\ Append(beats, t) \in Seq(Int) /\ Append(beats, t) # <<>>
      /\ Len(Append(beats, t)) = Len(beats) + 1
  BY AppendProperties
<1>2. Tail(Append(beats, t)) \in Seq(Int) /\ Len(Tail(Append(beats, t))) = Len(beats)
  BY <1>1, HeadTailProperties
<1>3. CASE Len(beats) < History
  BY <1>1, <1>3, ScoringAssumption DEF Recorded
<1>4. CASE ~(Len(beats) < History)
  BY <1>2, <1>4 DEF Recorded
<1>5. QED BY <1>3, <1>4

LEMMA RecordKeepsInv ==
  ASSUME IInv, NEW r \in Rpcs, Record(r)
  PROVE  IInv'
<1> DEFINE s == rpc[r].slot
           b == IF Cand(r).beat > 0 THEN Recorded(heap[s].beats, Cand(r).beat) ELSE heap[s].beats
           t == [heap[s] EXCEPT !.th = rpc[r].th, !.beats = b]
           v == [rpc[r] EXCEPT !.pc = "update"]
<1>1. rpc[r].pc = "record" /\ rpc[r] \in Calls /\ Cand(r) \in NodeCandidate
  BY CallFacts DEF Record, IInv, AtNode
<1>2. s \in Slots /\ heap[s] \in Trackers /\ Len(heap[s].beats) <= History
  BY <1>1 DEF IInv, CallsReady, Values
<1>3. b \in Seq(Int) /\ Len(b) <= History
  <2>1. heap[s].beats \in Seq(Int) /\ Cand(r).beat \in Int
    BY <1>1, <1>2 DEF Trackers, NodeCandidate
  <2>2. QED BY <1>2, <2>1, RecordedBeats
<1>4. /\ rpc' = [rpc EXCEPT ![r] = v] /\ UNCHANGED <<manager, calls, run, of, like, given, raced>>
  BY DEF Record, Goto
<1>5. heap' = [heap EXCEPT ![s] = t]
  BY <1>2 DEF Record, IInv, Values, Trackers
<1> HIDE DEF b
<1>6. /\ t \in Trackers /\ Len(t.beats) <= History
      /\ t.trust = heap[s].trust /\ t.count = heap[s].count
  BY <1>1, <1>2, <1>3 DEF Trackers, Calls
<1>7. v \in Calls /\ v.pc = "update" /\ v.slot = s /\ v.i = rpc[r].i /\ v.req = rpc[r].req
  BY <1>1 DEF Calls, Phases
<1> HIDE DEF t, v
<1>8. heap' \in [Slots -> Trackers] /\ \A x \in Slots : Len(heap'[x].beats) <= History
  BY <1>2, <1>5, <1>6 DEF IInv, Values
<1>9. \A x \in Slots : heap'[x].trust = heap[x].trust /\ heap'[x].count = heap[x].count
  BY <1>2, <1>5, <1>6 DEF IInv, Values
<1>10. Values'
  BY <1>4, <1>7, <1>8 DEF IInv, Values
<1>11. CallsReady'
  <2>1. rpc'[r] = v /\ \A q \in Rpcs \ {r} : rpc'[q] = rpc[q]
    BY <1>4 DEF IInv, Values
  <2>2. rpc[r].i \in DOMAIN rpc[r].req.cands
    BY <1>1 DEF IInv, CallsReady, AtNode
  <2>3. QED BY <1>2, <1>7, <2>1, <2>2 DEF IInv, CallsReady, AtNode
<1>12. CountersAreRuns'
  BY <1>4 DEF IInv, CountersAreRuns
<1>13. TrustFollows'
  BY <1>4, <1>9 DEF IInv, TrustFollows
<1>14. SamplesKept'
  <2>1. SUFFICES ASSUME NEW n \in NodeIds \ raced, of[n] # None
                 PROVE  heap'[of[n]].count = given[n]
    BY <1>4 DEF SamplesKept
  <2>2. of[n] \in Slots
    BY <2>1 DEF IInv, Values
  <2>3. QED BY <1>9, <2>1, <2>2 DEF IInv, Owned, SamplesKept
<1>15. Owned'
  <2>1. \A n \in NodeIds \ raced : of[n] = None => given'[n] = 0
    BY <1>4 DEF IInv, Owned
  <2>2. QED BY <1>1, <1>4, <1>7, <1>14, <2>1, MovingOn
<1>16. QED BY <1>10, <1>11, <1>12, <1>13, <1>15 DEF IInv

\* A full sample halves the distrust that is left, an empty one the trust.
LEMMA TrustHalves ==
  ASSUME NEW t \in 0..100, NEW x \in 0..100, NEW full \in Nat \ {0}, NEW empty \in Nat \ {0},
         (100 - t) * full < 100 + full, t * empty <= 100
  PROVE  LET l == Counted([full |-> full, empty |-> empty], x)
             u == Smoothed(t, x)
         IN  /\ u \in 0..100
             /\ l \in [full : Nat \ {0}, empty : Nat \ {0}]
             /\ (100 - u) * l.full < 100 + l.full /\ u * l.empty <= 100
<1> DEFINE l == Counted([full |-> full, empty |-> empty], x)
           u == Smoothed(t, x)
<1>1. u \in 0..100 /\ 2 * u <= x + t /\ x + t <= 2 * u + 1
  BY DEF Smoothed
<1>2. /\ l.full = IF x < 100 THEN 1 ELSE Doubled(full)
      /\ l.empty = IF x > 0 THEN 1 ELSE Doubled(empty)
      /\ l = [full |-> l.full, empty |-> l.empty]
  BY DEF Counted
<1>3. Doubled(full) \in {full, 2 * full} /\ Doubled(empty) \in {empty, 2 * empty}
  BY DEF Doubled
<1> HIDE DEF l, u
<1>4. l.full \in Nat \ {0} /\ l.empty \in Nat \ {0}
  BY <1>2, <1>3
<1>5. (100 - u) * l.full < 100 + l.full
  <2>1. CASE x < 100
    BY <1>1, <1>2, <2>1
  <2>2. CASE x = 100
    <3> DEFINE d == 100 - t
               e == 100 - u
    <3>1. d \in Nat /\ e \in Nat /\ 2 * e <= d + 1 /\ e <= d /\ d * full < 100 + full
      BY <1>1, <2>2
    <3>2. l.full = full \/ l.full = 2 * full
      BY <1>2, <1>3, <2>2
    <3> HIDE DEF d, e
    <3>3. e * full <= d * full
      <4>1. (d - e) * full >= 0 /\ (d - e) * full = d * full - e * full
        BY <3>1
      <4>2. d * full \in Int /\ e * full \in Int
        BY <3>1
      <4>3. QED BY <4>1, <4>2
    <3>4. e * (2 * full) <= d * full + full
      <4>1. (d + 1 - 2 * e) * full >= 0
        BY <3>1
      <4>2. (d + 1 - 2 * e) * full = d * full + full - e * (2 * full)
        BY <3>1
      <4>3. d * full \in Int /\ e * (2 * full) \in Int
        BY <3>1
      <4>4. QED BY <4>1, <4>2, <4>3
    <3>5. e * l.full < 100 + l.full
      <4>1. d * full \in Int /\ e * full \in Int /\ e * (2 * full) \in Int
        BY <3>1
      <4>2. CASE l.full = full
        BY <3>1, <3>3, <4>1, <4>2
      <4>3. CASE l.full = 2 * full
        BY <3>1, <3>4, <4>1, <4>3
      <4>4. QED BY <3>2, <4>2, <4>3
    <3>6. QED BY <3>5 DEF e
  <2>3. QED BY <2>1, <2>2
<1>6. u * l.empty <= 100
  <2>1. CASE x > 0
    BY <1>1, <1>2, <2>1
  <2>2. CASE x = 0
    <3>1. 2 * u <= t /\ u <= t
      BY <1>1, <2>2
    <3>2. l.empty = empty \/ l.empty = 2 * empty
      BY <1>2, <1>3, <2>2
    <3>3. u * empty <= t * empty
      <4>1. (t - u) * empty >= 0 /\ (t - u) * empty = t * empty - u * empty
        BY <1>1, <3>1
      <4>2. t * empty \in Int /\ u * empty \in Int
        BY <1>1
      <4>3. QED BY <4>1, <4>2
    <3>4. u * (2 * empty) <= t * empty
      <4>1. (t - 2 * u) * empty >= 0 /\ (t - 2 * u) * empty = t * empty - u * (2 * empty)
        BY <1>1, <3>1
      <4>2. t * empty \in Int /\ u * (2 * empty) \in Int
        BY <1>1
      <4>3. QED BY <4>1, <4>2
    <3>5. QED BY <1>1, <3>2, <3>3, <3>4
  <2>3. QED BY <2>1, <2>2
<1>7. QED BY <1>1, <1>2, <1>4, <1>5, <1>6 DEF l, u

LEMMA UpdateKeepsInv ==
  ASSUME IInv, NEW r \in Rpcs, Update(r)
  PROVE  IInv'
<1> DEFINE c == Cand(r)
           s == rpc[r].slot
           x == Sample(c, heap[s], Now(rpc[r].req))
           v == IF Valid(c) /\ rpc[r].i < Len(rpc[r].req.cands)
                THEN [rpc[r] EXCEPT !.pc = "look", !.i = rpc[r].i + 1, !.slot = None] ELSE Free
           t == [heap[s] EXCEPT !.trust = Smoothed(heap[s].trust, x), !.count = heap[s].count + 1]
           h == [heap EXCEPT ![s] = t]
           k == Counted(like[s], x)
           l == [like EXCEPT ![s] = k]
<1>1. /\ rpc[r].pc = "update" /\ rpc[r] \in Calls /\ rpc[r].req \in Requests
      /\ c \in NodeCandidate /\ c.node \in NodeIds /\ rpc[r].req.cands # <<>>
  BY CallFacts DEF Update, IInv, AtNode
<1>2. s \in Slots /\ heap[s] \in Trackers /\ Len(heap[s].beats) <= History
  BY <1>1 DEF IInv, CallsReady, Values
<1>3. x \in 0..100
  BY <1>1, <1>2, NowIsTime, SamplePercent
<1>4. /\ rpc' = [rpc EXCEPT ![r] = v] /\ UNCHANGED <<manager, calls, run, of, raced>>
      /\ given' = [given EXCEPT ![c.node] = given[c.node] + 1]
      /\ like' = Kept(l, NoRun)
  <2>1. UNCHANGED <<manager, calls, run, of, raced>> /\ rpc' = [rpc EXCEPT ![r] = v]
    BY DEF Update
  <2>2. given' = [given EXCEPT ![c.node] = given[c.node] + 1]
    BY DEF Update
  <2>3. like' = Kept(l, NoRun)
    BY DEF Update
  <2>4. QED BY <2>1, <2>2, <2>3
<1>5. heap' = Kept(h, NoTracker)
  <2>1. [heap EXCEPT ![s].trust = Smoothed(@, x), ![s].count = @ + 1] = h
    BY <1>2 DEF IInv, Values, Trackers
  <2>2. heap' = Kept([heap EXCEPT ![s].trust = Smoothed(@, x), ![s].count = @ + 1], NoTracker)
    BY DEF Update
  <2>3. QED BY <2>1, <2>2
<1>6. Holds(r, c.node)
  BY <1>1 DEF Holds
<1> HIDE DEF x
<1>7. /\ k \in [full : Nat \ {0}, empty : Nat \ {0}]
      /\ Smoothed(heap[s].trust, x) \in 0..100
      /\ (100 - Smoothed(heap[s].trust, x)) * k.full < 100 + k.full
      /\ Smoothed(heap[s].trust, x) * k.empty <= 100
  <2>1. /\ like[s].full \in Nat \ {0} /\ like[s].empty \in Nat \ {0}
        /\ like[s] = [full |-> like[s].full, empty |-> like[s].empty]
    BY <1>2 DEF IInv, Values
  <2>2. heap[s].trust \in 0..100
    BY <1>2 DEF Trackers
  <2>3. (100 - heap[s].trust) * like[s].full < 100 + like[s].full
        /\ heap[s].trust * like[s].empty <= 100
    BY <1>2 DEF IInv, TrustFollows
  <2>4. \A a, b \in Nat \ {0} :
          /\ (100 - heap[s].trust) * a < 100 + a
          /\ heap[s].trust * b <= 100
          => /\ Smoothed(heap[s].trust, x) \in 0..100
             /\ Counted([full |-> a, empty |-> b], x) \in [full : Nat \ {0}, empty : Nat \ {0}]
             /\ (100 - Smoothed(heap[s].trust, x)) * Counted([full |-> a, empty |-> b], x).full
                   < 100 + Counted([full |-> a, empty |-> b], x).full
             /\ Smoothed(heap[s].trust, x) * Counted([full |-> a, empty |-> b], x).empty <= 100
    BY <1>3, <2>2, TrustHalves
  <2>5. QED BY <2>1, <2>3, <2>4
<1>8. /\ t \in Trackers /\ Len(t.beats) <= History
      /\ t.trust = Smoothed(heap[s].trust, x) /\ t.count = heap[s].count + 1
  <2>1. heap[s].count + 1 \in Nat
    BY <1>2 DEF Trackers
  <2>2. QED BY <1>2, <1>7, <2>1 DEF Trackers
<1> HIDE DEF t, k
<1>9. h \in [Slots -> Trackers] /\ \A y \in Slots : Len(h[y].beats) <= History
  BY <1>2, <1>8 DEF IInv, Values
<1>10. l \in [Slots -> [full : Nat \ {0}, empty : Nat \ {0}]]
  BY <1>2, <1>7 DEF IInv, Values
<1>11. ASSUME NEW y \in Slots
       PROVE  /\ (100 - h[y].trust) * l[y].full < 100 + l[y].full
              /\ h[y].trust * l[y].empty <= 100
  <2>1. CASE y = s
    <3>1. h[y] = t /\ l[y] = k
      BY <1>2, <2>1 DEF IInv, Values
    <3>2. QED BY <1>7, <1>8, <3>1
  <2>2. CASE y # s
    BY <2>2 DEF IInv, TrustFollows, Values
  <2>3. QED BY <2>1, <2>2
<1>12. h[s] = t /\ \A y \in Slots \ {s} : h[y] = heap[y]
  BY <1>2 DEF IInv, Values
<1> HIDE DEF h, l
<1>13. /\ heap' \in [Slots -> Trackers] /\ \A y \in Slots : Len(heap'[y].beats) <= History
       /\ like' \in [Slots -> [full : Nat \ {0}, empty : Nat \ {0}]]
       /\ TrustFollows'
       /\ \A y \in Slots : y \in Reached(of', rpc') => heap'[y] = h[y]
  BY <1>4, <1>5, <1>9, <1>10, <1>11, Forgetting
<1>14. v = Free \/ (v \in Calls /\ v.pc = "look" /\ v.i \in DOMAIN v.req.cands)
  <2>1. CASE Valid(c) /\ rpc[r].i < Len(rpc[r].req.cands)
    <3>1. v = [rpc[r] EXCEPT !.pc = "look", !.i = rpc[r].i + 1, !.slot = None]
      BY <2>1
    <3>3. rpc[r].req.cands \in Seq(NodeCandidate) /\ rpc[r].i \in Nat \ {0} /\ rpc[r].i + 1 \in Nat \ {0}
      BY <1>1, RequestFacts DEF Calls
    <3> HIDE DEF v
    <3>2. v \in Calls /\ v.pc = "look" /\ v.i = rpc[r].i + 1 /\ v.req = rpc[r].req
      BY <1>1, <3>1, <3>3 DEF Calls, Phases
    <3>4. QED BY <2>1, <3>2, <3>3
  <2>2. CASE ~(Valid(c) /\ rpc[r].i < Len(rpc[r].req.cands))
    BY <2>2
  <2>3. QED BY <2>1, <2>2
<1>15. v.pc \in {"free", "look"} /\ v \in {Free} \cup Calls
  BY <1>14 DEF Free
<1> HIDE DEF v
<1>16. given' \in [NodeIds -> Nat]
  BY <1>1, <1>4 DEF IInv, Values
<1>17. Values'
  BY <1>4, <1>13, <1>15, <1>16 DEF IInv, Values
<1>18. CallsReady'
  <2>1. rpc'[r] = v /\ \A q \in Rpcs \ {r} : rpc'[q] = rpc[q]
    BY <1>4 DEF IInv, Values
  <2>2. QED BY <1>14, <1>15, <2>1 DEF IInv, CallsReady, AtNode, Free
<1>19. CountersAreRuns'
  BY <1>4 DEF IInv, CountersAreRuns
<1>20. \A n \in NodeIds \ raced : of[n] = None => given'[n] = 0
  <2>1. SUFFICES ASSUME NEW n \in NodeIds \ raced, of[n] = None PROVE given'[n] = 0
    OBVIOUS
  <2>2. n # c.node
    BY <1>2, <1>6, <2>1, ScoringAssumption DEF IInv, Owned
  <2>3. QED BY <1>4, <2>1, <2>2 DEF IInv, Owned, Values
<1>21. SamplesKept'
  <2>1. SUFFICES ASSUME NEW n \in NodeIds \ raced, of[n] # None
                 PROVE  heap'[of[n]].count = given'[n]
    BY <1>4 DEF SamplesKept
  <2>2. of[n] \in Slots /\ heap'[of[n]] = h[of[n]]
    <3>1. of[n] \in Slots
      BY <2>1 DEF IInv, Values
    <3>2. of'[n] \in Reached(of', rpc')
      BY ReachedByNode
    <3>3. QED BY <1>4, <1>13, <3>1, <3>2
  <2>3. heap[of[n]].count = given[n]
    BY <2>1 DEF IInv, Owned, SamplesKept
  <2>4. CASE of[n] = s
    <3>1. n = c.node
      BY <1>1, <1>6, <2>4 DEF IInv, Owned
    <3>2. QED BY <1>1, <1>4, <1>8, <1>12, <2>2, <2>3, <2>4, <3>1 DEF IInv, Values
  <2>5. CASE of[n] # s
    <3>1. n # c.node
      BY <1>6, <2>1, <2>5 DEF IInv, Owned
    <3>2. given'[n] = given[n]
      BY <1>4, <3>1 DEF IInv, Values
    <3>3. QED BY <1>12, <2>2, <2>3, <2>5, <3>2
  <2>6. QED BY <2>4, <2>5
<1>22. Owned'
  BY <1>4, <1>15, <1>20, <1>21, MovingOn
<1>23. QED BY <1>13, <1>17, <1>18, <1>19, <1>22 DEF IInv

-----------------------------------------------------------------------------
(* The reset, and the whole service *)

LEMMA ResetKeepsInv ==
  ASSUME IInv, ResetCall
  PROVE  IInv'
<1>1. /\ calls' \in 0..MaxCalls /\ UNCHANGED <<manager, rpc, run>>
      /\ of' = [n \in NodeIds |-> None] /\ given' = [n \in NodeIds |-> 0]
      /\ raced' = {n \in NodeIds : \E r \in Rpcs : Holds(r, n)}
      /\ heap' = Kept(heap, NoTracker) /\ like' = Kept(like, NoRun)
  BY ScoringAssumption DEF ResetCall, IInv, Values
<1>2. /\ heap' \in [Slots -> Trackers] /\ \A s \in Slots : Len(heap'[s].beats) <= History
      /\ like' \in [Slots -> [full : Nat \ {0}, empty : Nat \ {0}]]
      /\ TrustFollows'
  BY <1>1, Forgetting DEF IInv, Values, TrustFollows
<1>3. Values'
  BY <1>1, <1>2 DEF IInv, Values
<1>4. CallsReady' /\ CountersAreRuns'
  BY <1>1 DEF IInv, CallsReady, CountersAreRuns, AtNode
<1>5. \A r \in Rpcs, n \in NodeIds : (Holds(r, n)' <=> Holds(r, n))
                                     /\ (Holds(r, n) => rpc[r].slot \in Slots)
  BY <1>1 DEF Holds, Cand, IInv, CallsReady
<1>6. Owned'
  BY <1>1, <1>5, ScoringAssumption DEF Owned, SamplesKept
<1>7. QED BY <1>2, <1>3, <1>4, <1>6 DEF IInv

LEMMA NextInv == IInv /\ [Next]_vars => IInv'
<1> SUFFICES ASSUME IInv, [Next]_vars PROVE IInv'
  OBVIOUS
<1>1. ASSUME NEW r \in Rpcs, Handle(r) PROVE IInv'
  BY <1>1, EvaluateKeepsInv, ReadKeepsInv, LookKeepsInv, CreateKeepsInv, RecordKeepsInv,
     UpdateKeepsInv DEF Handle
<1>2. ASSUME NEW r \in Rpcs, NEW req \in Requests, Receive(r, req) PROVE IInv'
  BY <1>2, ReceiveKeepsInv
<1>3. CASE UNCHANGED vars
  BY <1>3 DEF vars, trackerVars, IInv, Values, CallsReady, AtNode, CountersAreRuns, TrustFollows, Owned,
     Holds, Cand, SamplesKept
<1>4. QED BY <1>1, <1>2, <1>3, ResetKeepsInv DEF Next

LEMMA Invariant == Spec => []IInv
BY InitInv, NextInv, PTL DEF Spec

\* The state of the sidecar has its type: trust is a percentage, the counters
\* of the manager stay below their bounds, no history grows beyond its length.
THEOREM TypeCorrect == Spec => []TypeOK
<1>1. IInv => TypeOK
  BY DEF IInv, Values, TypeOK, Trackers, Calls, Phases, Free
<1>2. QED BY <1>1, Invariant, PTL

\* The manager's counters are the lengths of the runs it means to count.
THEOREM RunsCounted == Spec => []CountersAreRuns
<1>1. IInv => CountersAreRuns
  BY DEF IInv
<1>2. QED BY <1>1, Invariant, PTL

\* Trust follows the samples, at the pace of a half per sample.
THEOREM TrustIsEarned == Spec => []TrustFollows
<1>1. IInv => TrustFollows
  BY DEF IInv
<1>2. QED BY <1>1, Invariant, PTL

\* No sample is lost but to the two races the code has.
THEOREM NoSampleLost == Spec => []SamplesKept
<1>1. IInv => SamplesKept
  BY DEF IInv, Owned
<1>2. QED BY <1>1, Invariant, PTL

-----------------------------------------------------------------------------
(* The extender: what its filter lets pass *)

LEMMA ViableSequence ==
  ASSUME NEW pod, NEW nodes \in Seq(Candidate)
  PROVE  ViableNodes(pod, nodes) \in Seq(Candidate)
<1> DEFINE n == Len(nodes)
           V == Seq(Candidate)
           Next1(k, x) == IF Viable(pod, nodes[k]) THEN Append(x, nodes[k]) ELSE x
           g == [k \in 1..n |-> [x \in V |-> Next1(k, x)]]
           Step(s) == [k \in 0..n |-> IF k = 0 THEN <<>> ELSE Next1(k, s[k - 1])]
<1>1. n \in Nat /\ <<>> \in V /\ \A k \in 1..n : nodes[k] \in Candidate
  OBVIOUS
<1>2. ASSUME NEW k \in 1..n, NEW x \in V PROVE Next1(k, x) \in V
  <2>1. Append(x, nodes[k]) \in V
    BY <1>1, AppendProperties
  <2>2. QED BY <2>1
<1>3. ViableNodes(pod, nodes) = (CHOOSE s : s = Step(s))[n]
  BY DEF ViableNodes
<1> HIDE DEF Next1, V, n
<1>4. g \in Steps(n, V)
  BY <1>2 DEF Steps
<1>5. PICK t \in [0..n -> V] : t[0] = <<>> /\ \A k \in 1..n : t[k] = g[k][t[k - 1]]
  <2> HIDE DEF g
  <2>1. Recursion(n, V, <<>>, g) # {}
    BY <1>1, <1>4, RecursionExists
  <2>2. QED BY <2>1 DEF Recursion
<1>6. t = Step(t)
  <2>1. ASSUME NEW k \in 1..n PROVE t[k] = Next1(k, t[k - 1])
    <3>1. (k - 1) \in 0..n
      BY <1>1
    <3>2. t[k - 1] \in V
      BY <3>1
    <3>3. t[k] = g[k][t[k - 1]] /\ g[k] = [x \in V |-> Next1(k, x)]
      BY <1>5
    <3>4. QED BY <3>2, <3>3
  <2>2. \A k \in 0..n : k = 0 \/ k \in 1..n
    BY <1>1
  <2>3. QED BY <1>5, <2>1, <2>2
<1> DEFINE p == CHOOSE s : s = Step(s)
<1>7. p = Step(p)
  <2> HIDE DEF Step
  <2>1. QED BY <1>6
<1> HIDE DEF p
<1>8. p[0] = <<>> /\ \A k \in 1..n : p[k] = Next1(k, p[k - 1])
  BY <1>1, <1>7
<1> DEFINE Good == {k \in 0..n : p[k] \in V}
<1>9. 0 \in Good
  BY <1>1, <1>8
<1>10. ASSUME NEW k \in 1..n, (k - 1) \in Good PROVE k \in Good
  BY <1>1, <1>2, <1>8, <1>10
<1> HIDE DEF Good
<1>11. \A k \in 0..n : k \in Good
  BY <1>1, <1>9, <1>10, BoundedInduction
<1>12. p[n] \in V
  BY <1>1, <1>11 DEF Good
<1>13. QED BY <1>3, <1>12 DEF p, V

-----------------------------------------------------------------------------
(* Scores and levels *)

LEMMA DivisionFacts ==
  ASSUME NEW g \in Nat \ {0}, NEW q \in Nat
  PROVE  q \div g \in Int /\ q % g \in 0..(g - 1) /\ q = g * (q \div g) + (q % g)
OBVIOUS

LEMMA ProductMonotone ==
  ASSUME NEW a \in Nat, NEW b \in Int, NEW c \in Int, b <= c
  PROVE  a * b <= a * c /\ a * b \in Int /\ a * c \in Int
<1>1. a * (c - b) >= 0 /\ a * (c - b) = a * c - a * b /\ a * b \in Int /\ a * c \in Int
  OBVIOUS
<1>2. QED BY <1>1

LEMMA ScoreBounds ==
  ASSUME NEW pod, NEW n \in Candidate, n.price >= 0
  PROVE  Score(pod, n) \in 0..100
<1> DEFINE c == 10000 \div (100 + n.price)
           r == IF ~n.spot THEN 100 ELSE IF pod.hint = "latency-critical" THEN 90 ELSE 97
<1>1. n.price \in Nat
  BY DEF Candidate
<1>2. c \in 0..100
  BY <1>1
<1>3. Score(pod, n) = (r * c) \div 100
  BY DEF Score, CostEfficiency, Price
<1>4. r \in 0..100
  OBVIOUS
<1> HIDE DEF c, r
<1>5. r * c <= r * 100 /\ r * 0 <= r * c /\ r * c \in Int
  BY <1>2, <1>4, ProductMonotone
<1>6. r * c \in Nat /\ r * c <= 100 * 100
  BY <1>4, <1>5
<1>7. (r * c) \div 100 \in 0..100
  BY <1>6
<1>8. QED BY <1>3, <1>7

\* What evaporation leaves of a level at most.
Rest == Saturation - 10000

\* A level that is full loses the largest deposit.
LEMMA SaturationFacts ==
  /\ Saturation \in Nat /\ Rest \in Nat /\ Rest >= 10000 /\ Saturation = Rest + 10000
  /\ Keep * Saturation = 100 * Rest
<1> DEFINE g == 100 - Keep
           m == 100 \div g
<1>1. Keep \in 50..99 /\ g \in 1..50 /\ 100 % g = 0
  BY ExtenderAssumption
<1>2. m \in Int /\ g * m = 100
  BY <1>1
<1>3. Saturation = 10000 * m
  BY DEF Saturation
<1> HIDE DEF m
<1>4. m >= 2
  <2>1. SUFFICES ASSUME m <= 1 PROVE FALSE
    BY <1>2
  <2>2. g * m <= g * 1
    BY <1>1, <1>2, <2>1, ProductMonotone
  <2>3. QED BY <1>1, <1>2, <2>2
<1>5. Keep * m = 100 * m - 100
  <2>1. g * m = 100 * m - Keep * m /\ Keep * m \in Int
    BY <1>1, <1>2
  <2>2. QED BY <1>2, <2>1
<1>6. Keep * (10000 * m) = 10000 * (Keep * m)
  BY <1>1, <1>2
<1>7. QED BY <1>2, <1>3, <1>4, <1>5, <1>6, SMT DEF Rest

LEMMA EvaporatedBounds ==
  ASSUME NEW v \in Nat, v >= 1, v <= Saturation
  PROVE  EvaporatedLevel(v) \in Nat /\ EvaporatedLevel(v) >= 1 /\ EvaporatedLevel(v) <= Rest
<1>1. Keep \in 50..99
  BY ExtenderAssumption
<1> DEFINE p == v * Keep
           x == p \div 100
<1>2. Keep * v <= Keep * Saturation /\ p = Keep * v /\ Keep * 0 <= Keep * v /\ Keep * v \in Int
  BY <1>1, SaturationFacts, ProductMonotone
<1>3. EvaporatedLevel(v) = Greatest(1, x)
  BY DEF EvaporatedLevel
<1> HIDE DEF p
<1>4. p \in Nat /\ p <= 100 * Rest
  BY <1>1, <1>2, SaturationFacts
<1>5. x \in Int /\ p % 100 \in 0..99 /\ p = 100 * x + (p % 100)
  BY <1>4
<1> HIDE DEF x
<1>6. x <= Rest
  BY <1>4, <1>5, SaturationFacts
<1>7. QED BY <1>3, <1>5, <1>6, SaturationFacts DEF Greatest

\* A deposit is large where the product is small, and never nothing.
LEMMA DepositBounds ==
  ASSUME NEW raw \in Nat
  PROVE  /\ DepositOf(raw) \in Nat /\ DepositOf(raw) >= 1 /\ DepositOf(raw) <= 10000
         /\ raw < 300 => DepositOf(raw) >= 3333
<1> DEFINE g == Greatest(raw, 100)
           n == Quantum + g - 1
           d == n \div g
           r == n % g
<1>1. g \in Nat /\ g >= 100 /\ (raw < 300 => g < 300)
  BY DEF Greatest
<1>2. Quantum \in Nat /\ Quantum = 1000000
  BY SMT DEF Quantum
<1>3. DepositOf(raw) = d
  BY DEF DepositOf, Share
<1> HIDE DEF g
<1>4. n \in Nat
  BY <1>1, <1>2
<1>5. d \in Int /\ r \in 0..(g - 1) /\ n = g * d + (r)
  <2> HIDE DEF n
  <2>1. QED BY <1>1, <1>4, DivisionFacts
<1> HIDE DEF d, r
<1>6. g * d \in Int /\ g * d <= Quantum + g - 1 /\ g * d >= Quantum
  BY <1>1, <1>2, <1>5, SMT
<1> HIDE DEF n
<1>7. d >= 1
  <2>1. SUFFICES ASSUME d <= 0 PROVE FALSE
    BY <1>5
  <2>2. g * d <= g * 0
    BY <1>1, <1>5, <2>1, ProductMonotone
  <2>3. QED BY <1>1, <1>2, <1>6, <2>2, SMT
<1>8. d <= 10000
  <2>1. SUFFICES ASSUME d >= 10001 PROVE FALSE
    BY <1>5
  <2>2. g * 10001 <= g * d
    BY <1>1, <1>5, <2>1, ProductMonotone
  <2>3. QED BY <1>1, <1>2, <1>6, <2>2, SMT
<1>9. ASSUME raw < 300 PROVE d >= 3333
  <2>1. SUFFICES ASSUME d <= 3332 PROVE FALSE
    BY <1>5
  <2>2. g * d <= g * 3332
    BY <1>1, <1>5, <2>1, ProductMonotone
  <2>3. QED BY <1>1, <1>2, <1>6, <1>9, <2>2, SMT
<1>10. QED BY <1>3, <1>5, <1>7, <1>8, <1>9

LEMMA ProductBounds ==
  ASSUME NEW s \in 1..100, NEW e \in Nat
  PROVE  s * e \in Nat /\ e <= s * e /\ s * e <= 100 * e
<1>1. e * 1 <= e * s /\ e * s <= e * 100 /\ e * s \in Int /\ s * e = e * s
  BY ProductMonotone
<1>2. QED BY <1>1

\* A deposit makes up for what evaporation and rounding take.
LEMMA EvaporationLag ==
  ASSUME NEW e \in Nat, e >= 1, NEW d \in Nat, d >= 1
  PROVE  100 * EvaporatedLevel(e + d) >= Keep * (e + d - 1)
<1> DEFINE g == 100 - Keep
           m == 100 \div g
           v == e + d
           q == (v * Keep) \div 100
           r == (v * Keep) % 100
           z == (m - 1) * v - m * q
<1>1. Keep \in 50..99 /\ g \in 1..50 /\ 100 % g = 0
  BY ExtenderAssumption
<1>2. m \in Int /\ g * m = 100
  BY <1>1
<1>3. v * Keep \in Nat
  BY <1>1
<1>4. q \in Int /\ r \in 0..99 /\ v * Keep = 100 * q + r
  BY <1>3
<1> HIDE DEF q, r, m
<1>5. g * z = r
  <2>1. g * z = (g * m) * v - g * v - (g * m) * q
    BY <1>1, <1>2, <1>4
  <2>2. g * z = 100 * v - g * v - 100 * q
    BY <1>2, <2>1
  <2>3. g * v = 100 * v - Keep * v
    BY <1>1
  <2>4. Keep * v = v * Keep /\ Keep * v \in Int
    BY <1>1
  <2>5. QED BY <1>4, <2>2, <2>3, <2>4
<1>6. z \in Int
  BY <1>2, <1>4
<1> HIDE DEF z
<1>7. z <= m - 1
  <2>1. SUFFICES ASSUME z >= m PROVE FALSE
    BY <1>2, <1>6
  <2>2. g * (z - m) >= 0 /\ g * (z - m) = g * z - g * m
    BY <1>1, <1>2, <1>6, <2>1
  <2>3. QED BY <1>2, <1>4, <1>5, <2>2
<1>8. r <= Keep
  <2>1. g * (m - 1 - z) >= 0 /\ g * (m - 1 - z) = g * m - g - g * z
    BY <1>1, <1>2, <1>6, <1>7
  <2>2. QED BY <1>1, <1>2, <1>4, <1>5, <2>1
<1>9. 100 * q >= Keep * (v - 1)
  <2>1. Keep * (v - 1) = v * Keep - Keep
    BY <1>1
  <2>2. QED BY <1>1, <1>3, <1>4, <1>8, <2>1
<1>10. EvaporatedLevel(v) >= q /\ EvaporatedLevel(v) \in Int
  BY <1>4 DEF EvaporatedLevel, Greatest, q
<1>11. Keep * (v - 1) \in Int
  BY <1>1
<1>12. QED BY <1>4, <1>9, <1>10, <1>11

\* What a winner has over the others, in whole products: it survives that all
\* levels are evaporated and rounded down, once it has had its deposit.  A level
\* that rounds to nothing is put back to the floor; then the winner's product is
\* beyond that of any score on the floor.
LEMMA StillBest ==
  ASSUME NEW sb \in Nat, sb >= 1, sb <= 100, NEW sj \in Nat, sj <= 100,
         NEW e \in Nat, e >= 1, e <= Rest, NEW x \in Nat, x >= 1, x <= Rest,
         NEW rb, rb = sb * e, NEW rj, rj = sj * x, rj <= rb,
         NEW eb, eb = EvaporatedLevel(e + DepositOf(rb)), NEW ej, ej = EvaporatedLevel(x)
  PROVE  /\ sj * ej <= sb * eb
         /\ rj < rb => sj * ej < sb * eb
<1>1. rb \in Nat /\ rj \in Nat
  BY SMT
<1>2. PICK d : d = DepositOf(rb)
  OBVIOUS
<1>3. d \in Nat /\ d >= 1 /\ d <= 10000 /\ e + d <= Saturation /\ (rb < 300 => d >= 3333)
  <2>1. d \in Nat /\ d >= 1 /\ d <= 10000 /\ (rb < 300 => d >= 3333)
    BY <1>1, <1>2, DepositBounds
  <2>2. QED BY <2>1, SaturationFacts
<1>4. Keep \in Nat /\ Keep >= 50 /\ Keep <= 99
  BY ExtenderAssumption
<1>5. eb \in Nat /\ eb >= 1 /\ ej \in Nat /\ ej >= 1
  <2>1. e + d \in Nat /\ e + d >= 1
    BY <1>3
  <2>2. x <= Saturation
    BY SaturationFacts
  <2>3. QED BY <1>2, <1>3, <2>1, <2>2, EvaporatedBounds
<1>6. 100 * eb >= Keep * (e + d - 1)
  BY <1>2, <1>3, EvaporationLag
<1>7. 100 * eb >= Keep * e /\ Keep * e \in Nat
  <2>1. Keep * e <= Keep * (e + d - 1)
    BY <1>3, <1>4, ProductMonotone
  <2>2. Keep * (e + d - 1) \in Int /\ Keep * e \in Nat
    BY <1>3, <1>4
  <2>3. QED BY <1>5, <1>6, <2>1, <2>2
<1>8. 100 * (sb * eb) >= Keep * rb /\ Keep * rb \in Nat /\ sb * eb \in Nat
  <2>1. sb * (Keep * e) <= sb * (100 * eb)
    BY <1>5, <1>7, ProductMonotone
  <2>2. sb * (Keep * e) = Keep * rb
    BY <1>4
  <2>3. sb * (100 * eb) = 100 * (sb * eb)
    BY <1>5
  <2>4. Keep * rb \in Nat /\ sb * eb \in Nat
    BY <1>1, <1>4, <1>5
  <2>5. QED BY <2>1, <2>2, <2>3, <2>4
<1> DEFINE p == x * Keep
           q == p \div 100
<1>9. ej = Greatest(1, q)
  BY DEF EvaporatedLevel
<1>10. p \in Nat
  BY <1>4
<1>11. Keep * rj = sj * p
  BY <1>4
<1> HIDE DEF p
<1>12. q \in Int /\ 100 * q <= p
  BY <1>10
<1> HIDE DEF q
<1>13. CASE q >= 1
  <2>1. ej = q
    BY <1>9, <1>12, <1>13 DEF Greatest
  <2>2. 100 * (sj * ej) <= Keep * rj /\ sj * ej \in Nat
    <3>1. sj * (100 * ej) <= sj * p
      BY <1>5, <1>10, <1>12, <2>1, ProductMonotone
    <3>2. sj * (100 * ej) = 100 * (sj * ej) /\ sj * ej \in Nat
      BY <1>5
    <3>3. QED BY <1>11, <3>1, <3>2
  <2>3. Keep * rj <= Keep * rb /\ Keep * rj \in Int
    BY <1>1, <1>4, ProductMonotone
  <2>4. rj < rb => Keep * rj < Keep * rb
    <3>1. SUFFICES ASSUME rj < rb PROVE Keep * rj < Keep * rb
      OBVIOUS
    <3>2. Keep * (rj + 1) <= Keep * rb
      BY <1>1, <1>4, <3>1, ProductMonotone
    <3>3. Keep * (rj + 1) = Keep * rj + Keep
      BY <1>1, <1>4
    <3>4. QED BY <1>4, <1>8, <2>3, <3>2, <3>3
  <2>5. QED BY <1>8, <2>2, <2>3, <2>4
<1>14. CASE ~(q >= 1)
  <2>1. ej = 1 /\ sj * ej <= 100
    BY <1>9, <1>12, <1>14 DEF Greatest
  <2>2. sb * eb > 100
    <3>1. CASE rb >= 300
      <4>1. Keep * 300 <= Keep * rb
        BY <1>1, <1>4, <3>1, ProductMonotone
      <4>2. QED BY <1>4, <1>8, <4>1
    <3>2. CASE rb < 300
      <4>1. Keep * 3333 <= Keep * (e + d - 1)
        BY <1>3, <1>4, <3>2, ProductMonotone
      <4>2. Keep * (e + d - 1) \in Int
        BY <1>3, <1>4
      <4>3. eb > 100
        BY <1>4, <1>5, <1>6, <4>1, <4>2
      <4>4. sb \in 1..100 /\ eb <= sb * eb
        <5>1. sb \in 1..100
          OBVIOUS
        <5>2. QED BY <1>5, <5>1, ProductBounds
      <4>5. QED BY <1>5, <1>8, <4>3, <4>4
    <3>3. QED BY <1>1, <3>1, <3>2
  <2>3. QED BY <1>5, <1>8, <2>1, <2>2
<1>15. QED BY <1>12, <1>13, <1>14

-----------------------------------------------------------------------------
(* Tables, and the best of a list *)

LevelRange == 1..Saturation
Tables == UNION {[D -> LevelRange] : D \in SUBSET Names}

LEMMA UpdatedFunction ==
  ASSUME NEW D, NEW R, NEW f \in [D -> R], NEW a, NEW v \in R
  PROVE  [f EXCEPT ![a] = v] \in [D -> R]
OBVIOUS

LEMMA InRange ==
  /\ \A v \in LevelRange : v \in Nat /\ v >= 1 /\ v <= Saturation
  /\ \A v \in Nat : v >= 1 /\ v <= Saturation => v \in LevelRange
BY SaturationFacts DEF LevelRange

LEMMA TableFacts ==
  ASSUME NEW t \in Tables
  PROVE  /\ DOMAIN t \subseteq Names /\ t \in [DOMAIN t -> LevelRange]
         /\ \A name : Level(t, name) \in LevelRange
<1>1. PICK D \in SUBSET Names : t \in [D -> LevelRange]
  BY DEF Tables
<1>2. DOMAIN t = D /\ \A name \in D : t[name] \in LevelRange
  BY <1>1
<1>3. 100 \in LevelRange
  BY SaturationFacts, InRange
<1>4. QED BY <1>1, <1>2, <1>3 DEF Level

LEMMA EvaporateFacts ==
  ASSUME NEW t \in Tables, NEW nodes \in Seq(Candidate)
  PROVE  /\ Evaporate(t, nodes) \in Tables
         /\ \A i \in DOMAIN nodes :
              /\ nodes[i].name \in DOMAIN Evaporate(t, nodes)
              /\ Evaporate(t, nodes)[nodes[i].name] = EvaporatedLevel(Level(t, nodes[i].name))
              /\ Evaporate(t, nodes)[nodes[i].name] <= Rest
<1> DEFINE listed == {nodes[i].name : i \in DOMAIN nodes}
           D == DOMAIN t \cup listed
           u == Evaporate(t, nodes)
<1>1. \A i \in DOMAIN nodes : nodes[i].name \in Names
  <2>1. \A i \in DOMAIN nodes : nodes[i] \in Candidate
    OBVIOUS
  <2>2. \A c \in Candidate : c.name \in Names
    BY DEF Candidate
  <2>3. QED BY <2>1, <2>2
<1>2. D \subseteq Names
  BY <1>1, TableFacts
<1>3. u = [name \in D |-> IF name \in listed THEN EvaporatedLevel(Level(t, name)) ELSE t[name]]
  BY DEF Evaporate
<1>4. \A name : /\ EvaporatedLevel(Level(t, name)) \in LevelRange
                /\ EvaporatedLevel(Level(t, name)) <= Rest
  <2>1. ASSUME NEW name
        PROVE  /\ EvaporatedLevel(Level(t, name)) \in Nat /\ EvaporatedLevel(Level(t, name)) >= 1
               /\ EvaporatedLevel(Level(t, name)) <= Rest
    BY TableFacts, InRange, EvaporatedBounds
  <2>2. \A k \in Nat : k <= Rest => k <= Saturation
    BY SaturationFacts
  <2>3. QED BY <2>1, <2>2, InRange
<1>5. \A name \in DOMAIN t : t[name] \in LevelRange
  <2>1. t \in [DOMAIN t -> LevelRange]
    BY TableFacts
  <2>2. QED BY <2>1
<1> HIDE DEF u
<1>6. u \in [D -> LevelRange]
  BY <1>3, <1>4, <1>5
<1>7. u \in Tables
  BY <1>2, <1>6 DEF Tables
<1>8. \A i \in DOMAIN nodes :
        /\ nodes[i].name \in DOMAIN u
        /\ u[nodes[i].name] = EvaporatedLevel(Level(t, nodes[i].name))
  BY <1>3
<1>9. QED BY <1>4, <1>7, <1>8 DEF u

\* max() over the dict: position b has the greatest product, and none before
\* it has as much.
IsBest(pod, t, nodes, b) ==
  /\ b \in DOMAIN nodes
  /\ \A j \in DOMAIN nodes : Raw(pod, t, nodes[j]) <= Raw(pod, t, nodes[b])
  /\ \A j \in 1..(b - 1) : Raw(pod, t, nodes[j]) < Raw(pod, t, nodes[b])

\* What can be ranked: labels that parse, on at least one node.
Rankable(nodes) ==
  /\ nodes \in Seq(Candidate) /\ nodes # <<>>
  /\ \A i \in DOMAIN nodes : nodes[i].price >= 0

LEMMA RawFacts ==
  ASSUME NEW pod, NEW t \in Tables, NEW nodes, Rankable(nodes), NEW i \in DOMAIN nodes
  PROVE  /\ Score(pod, nodes[i]) \in Nat /\ Score(pod, nodes[i]) <= 100
         /\ Raw(pod, t, nodes[i]) = Score(pod, nodes[i]) * Level(t, nodes[i].name)
         /\ Raw(pod, t, nodes[i]) \in Nat
<1>1. nodes[i] \in Candidate /\ nodes[i].price >= 0
  BY DEF Rankable
<1>2. Score(pod, nodes[i]) \in 0..100
  BY <1>1, ScoreBounds
<1>3. Level(t, nodes[i].name) \in Nat
  BY TableFacts, InRange
<1>4. Raw(pod, t, nodes[i]) = Score(pod, nodes[i]) * Level(t, nodes[i].name)
  BY DEF Raw
<1>5. \A a, b \in Nat : a * b \in Nat
  OBVIOUS
<1>6. QED BY <1>2, <1>3, <1>4, <1>5

LEMMA BestIs ==
  ASSUME NEW pod, NEW t \in Tables, NEW nodes, Rankable(nodes)
  PROVE  /\ IsBest(pod, t, nodes, Best(pod, t, nodes))
         /\ \A b : IsBest(pod, t, nodes, b) => b = Best(pod, t, nodes)
<1> DEFINE row == [i \in DOMAIN nodes |-> Raw(pod, t, nodes[i])]
           First(k) == /\ \A j \in DOMAIN row : row[j] <= row[k]
                       /\ \A j \in 1..(k - 1) : row[j] < row[k]
<1>1. PICK n \in Nat \ {0} : DOMAIN nodes = 1..n
  BY DEF Rankable
<1>2. row \in [1..n -> Int]
  BY <1>1, RawFacts
<1>3. Best(pod, t, nodes) = CHOOSE k \in DOMAIN row : First(k)
  BY DEF Best, FirstBest
<1>4. \A k \in 1..n : IsBest(pod, t, nodes, k) <=> First(k)
  <2>1. SUFFICES ASSUME NEW k \in 1..n PROVE IsBest(pod, t, nodes, k) <=> First(k)
    OBVIOUS
  <2>2. \A j \in 1..(k - 1) : j \in 1..n
    OBVIOUS
  <2>3. \A j \in 1..n : row[j] = Raw(pod, t, nodes[j])
    BY <1>1
  <2> HIDE DEF row
  <2>4. DOMAIN row = 1..n
    BY <1>2
  <2>5. QED BY <1>1, <2>2, <2>3, <2>4 DEF IsBest
<1> HIDE DEF row
<1>5. DOMAIN row = 1..n
  BY <1>2
<1>6. \E k \in 1..n : First(k)
  BY <1>2, <1>5, FirstGreatest
<1>7. \A k, m \in 1..n : First(k) /\ First(m) => k = m
  <2>1. SUFFICES ASSUME NEW k \in 1..n, NEW m \in 1..n, First(k), First(m), k < m PROVE FALSE
    OBVIOUS
  <2>2. k \in 1..(m - 1) /\ row[k] \in Int /\ row[m] \in Int
    BY <1>2, <2>1
  <2>3. row[k] < row[m] /\ row[m] <= row[k]
    BY <1>5, <2>1, <2>2
  <2>4. QED BY <2>2, <2>3
<1>8. \A b : IsBest(pod, t, nodes, b) => b \in 1..n
  BY <1>1 DEF IsBest
<1> HIDE DEF First
<1>9. Best(pod, t, nodes) \in 1..n /\ First(Best(pod, t, nodes))
  BY <1>3, <1>5, <1>6
<1>10. QED BY <1>4, <1>7, <1>8, <1>9

-----------------------------------------------------------------------------
(* The inductive invariant *)

Wins == [tenant : Tenants, pod : Pods, nodes : Seq(Candidate), best : Names]

Typed ==
  /\ table \in [Tenants -> Tables]
  /\ \/ cycle = NoCycle
     \/ cycle \in [step : {"filter"}, pod : Pods, nodes : Lists]
     \/ cycle \in [step : {"prioritize"}, pod : Pods, nodes : Seq(Candidate) \ {<<>>}]
  /\ reply.kind \in {"none", "viable", "scores", "error"}
  /\ last = Unranked \/ last \in Wins
  /\ rankings \in 0..MaxRankings

\* The nodes of a list after evaporation, and the table after the deposit.
Settled(t, nodes) ==
  \A i \in DOMAIN nodes : nodes[i].name \in DOMAIN t /\ t[nodes[i].name] <= Rest
Reinforced(pod, t, nodes, b) ==
  [t EXCEPT ![nodes[b].name] = t[nodes[b].name] + DepositOf(Raw(pod, t, nodes[b]))]

\* The last ranking chose the best by some evaporated table t, and what the
\* tenant's table is now is t with the deposit.
Won ==
  last # Unranked =>
    /\ Rankable(last.nodes) /\ last.pod.tenant = last.tenant
    /\ \E t \in Tables : \E b \in DOMAIN last.nodes :
         /\ last.best = last.nodes[b].name
         /\ Settled(t, last.nodes) /\ IsBest(last.pod, t, last.nodes, b)
         /\ table[last.tenant] = Reinforced(last.pod, t, last.nodes, b)

ExtInv == Typed /\ Won

LEMMA ExtInitInv == ExtInit => ExtInv
<1>1. SUFFICES ASSUME ExtInit PROVE ExtInv
  OBVIOUS
<1>2. Empty \in Tables
  <2>1. Empty \in [{} -> LevelRange] /\ {} \in SUBSET Names
    BY DEF Empty
  <2>2. QED BY <2>1 DEF Tables
<1>3. Typed
  BY <1>1, <1>2, ExtenderAssumption DEF ExtInit, Typed, NoReply
<1>4. QED BY <1>1, <1>3 DEF ExtInit, ExtInv, Won

\* The table of a rank: a deposit on the best of the evaporated table.
LEMMA RankFacts ==
  ASSUME NEW pod \in Pods, NEW t \in Tables, NEW nodes, Rankable(nodes),
         Settled(t, nodes), NEW b \in DOMAIN nodes
  PROVE  Reinforced(pod, t, nodes, b) \in Tables
<1> DEFINE name == nodes[b].name
           raw == Raw(pod, t, nodes[b])
           v == t[name] + DepositOf(raw)
<1>1. /\ name \in DOMAIN t /\ t[name] <= Rest /\ t[name] \in Nat /\ t[name] >= 1
  <2>1. name \in DOMAIN t /\ t[name] <= Rest
    BY DEF Settled
  <2>2. QED BY <2>1, TableFacts, InRange
<1>2. raw \in Nat
  BY RawFacts
<1> HIDE DEF raw, name
<1>4. v \in LevelRange
  <2>1. DepositOf(raw) \in Nat /\ DepositOf(raw) <= 10000
    BY <1>2, DepositBounds
  <2>2. v \in Nat /\ v >= 1 /\ v <= Saturation
    BY <1>1, <2>1, SaturationFacts
  <2>3. QED BY <2>2, InRange
<1> HIDE DEF v
<1>5. PICK D \in SUBSET Names : t \in [D -> LevelRange]
  BY DEF Tables
<1>6. [t EXCEPT ![name] = v] \in [D -> LevelRange]
  BY <1>4, <1>5, UpdatedFunction
<1>7. [t EXCEPT ![name] = v] \in Tables
  BY <1>5, <1>6 DEF Tables
<1>8. QED BY <1>7 DEF v, name, raw, Reinforced

-----------------------------------------------------------------------------
(* Every step keeps it *)

\* What leaves the last ranking and its tenant's table alone.
LEMMA StillWon ==
  ASSUME Won, last' = last, last # Unranked => table'[last.tenant] = table[last.tenant]
  PROVE  Won'
BY DEF Won

LEMMA BeginKeepsInv ==
  ASSUME ExtInv, NEW pod \in Pods, NEW nodes \in Lists, Begin(pod, nodes)
  PROVE  ExtInv'
<1>1. cycle' = [step |-> "filter", pod |-> pod, nodes |-> nodes]
      /\ UNCHANGED <<table, reply, last, rankings>>
  BY DEF Begin
<1>2. Typed'
  BY <1>1 DEF ExtInv, Typed
<1>3. Won'
  BY <1>1, StillWon DEF ExtInv
<1>4. QED BY <1>2, <1>3 DEF ExtInv

LEMMA FilterKeepsInv == ASSUME ExtInv, Filter PROVE ExtInv'
<1>1. cycle \in [step : {"filter"}, pod : Pods, nodes : Lists]
      /\ UNCHANGED <<table, last, rankings>>
  BY DEF ExtInv, Typed, Filter, NoCycle
<1>2. cycle.nodes \in Seq(Candidate)
  BY <1>1, ExtenderAssumption
<1> DEFINE viable == ViableNodes(cycle.pod, cycle.nodes)
<1>3. viable \in Seq(Candidate)
  BY <1>2, ViableSequence
<1> HIDE DEF viable
<1>4. \/ reply' = [kind |-> "error"] /\ cycle' = NoCycle
      \/ /\ reply' = [kind |-> "viable", pod |-> cycle.pod, nodes |-> viable]
         /\ cycle' = AfterFilter(viable)
  BY DEF Filter, viable
<1>5. \/ cycle' = NoCycle
      \/ cycle' \in [step : {"prioritize"}, pod : Pods, nodes : Seq(Candidate) \ {<<>>}]
  <2>1. CASE cycle' = NoCycle
    BY <2>1
  <2>2. CASE cycle' # NoCycle
    <3>1. viable # <<>> /\ cycle' = [cycle EXCEPT !.step = "prioritize", !.nodes = viable]
      BY <1>4, <2>2 DEF AfterFilter
    <3>2. QED BY <1>1, <1>3, <3>1
  <2>3. QED BY <2>1, <2>2
<1>6. reply'.kind \in {"viable", "error"}
  BY <1>4
<1>7. Typed'
  BY <1>1, <1>5, <1>6 DEF ExtInv, Typed
<1>8. Won'
  BY <1>1, StillWon DEF ExtInv
<1>9. QED BY <1>7, <1>8 DEF ExtInv

LEMMA ExtResetKeepsInv ==
  ASSUME ExtInv, NEW ts \in SUBSET Tenants, Reset(ts)
  PROVE  ExtInv'
<1>1. /\ table' = [t \in Tenants |-> IF t \in ts THEN Empty ELSE table[t]]
      /\ last' = IF last.tenant \in ts THEN Unranked ELSE last
      /\ UNCHANGED <<cycle, reply, rankings>>
  BY DEF Reset
<1>2. Empty \in Tables
  <2>1. Empty \in [{} -> LevelRange] /\ {} \in SUBSET Names
    BY DEF Empty
  <2>2. QED BY <2>1 DEF Tables
<1>3. table' \in [Tenants -> Tables]
  BY <1>1, <1>2 DEF ExtInv, Typed
<1>4. Typed'
  BY <1>1, <1>3 DEF ExtInv, Typed
<1>5. CASE last.tenant \in ts
  BY <1>1, <1>4, <1>5 DEF ExtInv, Won
<1>6. CASE last.tenant \notin ts
  <2>1. last' = last
    BY <1>1, <1>6
  <2>2. last # Unranked => last.tenant \in Tenants
    BY DEF ExtInv, Typed, Wins
  <2>3. last # Unranked => table'[last.tenant] = table[last.tenant]
    BY <1>1, <1>6, <2>2
  <2>4. Won'
    BY <2>1, <2>3, StillWon DEF ExtInv
  <2>5. QED BY <1>4, <2>4 DEF ExtInv
<1>7. QED BY <1>5, <1>6

\* What a call of /prioritize finds, and what the table is after evaporation.
LEMMA PrioritizeFacts ==
  ASSUME ExtInv, Prioritize
  PROVE  LET pod == cycle.pod
             t   == Evaporate(table[pod.tenant], cycle.nodes)
         IN  /\ pod \in Pods /\ pod.tenant \in Tenants
             /\ cycle.nodes \in Seq(Candidate) /\ cycle.nodes # <<>>
             /\ table[pod.tenant] \in Tables /\ t \in Tables
             /\ Settled(t, cycle.nodes)
             /\ (\A i \in DOMAIN cycle.nodes : ~BadNode(cycle.nodes[i])) => Rankable(cycle.nodes)
<1>1. cycle \in [step : {"prioritize"}, pod : Pods, nodes : Seq(Candidate) \ {<<>>}]
  BY DEF ExtInv, Typed, Prioritize, NoCycle
<1>2. cycle.pod \in Pods /\ cycle.nodes \in Seq(Candidate) /\ cycle.nodes # <<>>
  BY <1>1
<1>3. cycle.pod.tenant \in Tenants
  <2>1. cycle.pod \in PodInfo
    BY <1>2, ExtenderAssumption
  <2>2. QED BY <2>1 DEF PodInfo
<1>4. table[cycle.pod.tenant] \in Tables
  BY <1>3 DEF ExtInv, Typed
<1>5. \A i \in DOMAIN cycle.nodes : ~BadNode(cycle.nodes[i]) => cycle.nodes[i].price >= 0
  <2>1. SUFFICES ASSUME NEW i \in DOMAIN cycle.nodes, ~(cycle.nodes[i].price < 0)
                 PROVE  cycle.nodes[i].price >= 0
    BY DEF BadNode
  <2>2. cycle.nodes[i] \in Candidate
    BY <1>2
  <2>3. cycle.nodes[i].price \in Int
    BY <2>2 DEF Candidate
  <2>4. QED BY <2>1, <2>3
<1>6. QED BY <1>2, <1>3, <1>4, <1>5, EvaporateFacts DEF Rankable, Settled

\* A ranking of the candidates by table t: the deposit, the answer, the record.
LEMMA RankKeepsInv ==
  ASSUME ExtInv, NEW pod \in Pods, pod.tenant \in Tenants, NEW t \in Tables,
         NEW nodes, Rankable(nodes),
         Settled(t, nodes),
         Rank(pod, nodes, t), cycle' = NoCycle, rankings' \in 0..MaxRankings
  PROVE  ExtInv'
<1> DEFINE b  == Best(pod, t, nodes)
           name == nodes[b].name
           t2 == Reinforced(pod, t, nodes, b)
<1>1. IsBest(pod, t, nodes, b) /\ b \in DOMAIN nodes
  <2>1. IsBest(pod, t, nodes, b)
    BY BestIs
  <2>2. QED BY <2>1 DEF IsBest
<1>2. nodes \in Seq(Candidate) /\ name \in Names
  <2>1. nodes \in Seq(Candidate)
    BY DEF Rankable
  <2>2. nodes[b] \in Candidate
    BY <1>1, <2>1
  <2>3. QED BY <2>1, <2>2 DEF Candidate
<1>3. /\ table' = [table EXCEPT ![pod.tenant] = t2]
      /\ reply' = [kind |-> "scores", pod |-> pod, nodes |-> nodes,
                   scores |-> Ranked(pod, t, nodes)]
      /\ last' = [tenant |-> pod.tenant, pod |-> pod, nodes |-> nodes, best |-> name]
  BY DEF Rank, Reinforced
<1>4. t2 \in Tables
  BY <1>1, RankFacts
<1> HIDE DEF b, t2
<1>5. table \in [Tenants -> Tables]
  BY DEF ExtInv, Typed
<1>6. table' \in [Tenants -> Tables] /\ table'[pod.tenant] = t2
  BY <1>3, <1>4, <1>5
<1>7. last' \in Wins
  BY <1>2, <1>3 DEF Wins
<1>8. reply'.kind = "scores"
  BY <1>3
<1>9. Typed'
  BY <1>6, <1>7, <1>8 DEF Typed
<1>10. /\ last'.nodes = nodes /\ last'.pod = pod /\ last'.tenant = pod.tenant
       /\ last'.best = nodes[b].name
  BY <1>3
<1>11. table'[last'.tenant] = Reinforced(last'.pod, t, last'.nodes, b)
  BY <1>6, <1>10 DEF t2
<1>12. Won'
  BY <1>1, <1>10, <1>11 DEF Won
<1>13. QED BY <1>9, <1>12 DEF ExtInv

LEMMA PrioritizeKeepsInv == ASSUME ExtInv, Prioritize PROVE ExtInv'
<1> DEFINE pod   == cycle.pod
           nodes == cycle.nodes
           t     == Evaporate(table[pod.tenant], nodes)
<1>1. /\ pod \in Pods /\ pod.tenant \in Tenants
      /\ t \in Tables
      /\ Settled(t, nodes)
      /\ (\A i \in DOMAIN nodes : ~BadNode(nodes[i])) => Rankable(nodes)
  BY PrioritizeFacts
<1>2. cycle' = NoCycle /\ rankings' \in 0..MaxRankings
  BY ExtenderAssumption DEF ExtInv, Typed, Prioritize
<1>3. CASE \E i \in DOMAIN nodes : BadNode(nodes[i])
  <2>1. /\ table' = [table EXCEPT ![pod.tenant] = t]
        /\ reply' = [kind |-> "error"]
        /\ last' = IF last.tenant = pod.tenant THEN Unranked ELSE last
    BY <1>3 DEF Prioritize
  <2> HIDE DEF t
  <2>2. table' \in [Tenants -> Tables]
    BY <1>1, <2>1 DEF ExtInv, Typed
  <2>3. Typed'
    BY <1>2, <2>1, <2>2 DEF ExtInv, Typed
  <2>4. CASE last.tenant = pod.tenant
    BY <2>1, <2>3, <2>4 DEF ExtInv, Won
  <2>5. CASE last.tenant # pod.tenant
    <3>1. last' = last /\ (last # Unranked => table'[last.tenant] = table[last.tenant])
      <4>1. last # Unranked => last.tenant \in Tenants
        BY DEF ExtInv, Typed, Wins
      <4>2. QED BY <2>1, <2>5, <4>1 DEF ExtInv, Typed
    <3>2. Won'
      BY <3>1, StillWon DEF ExtInv
    <3>3. QED BY <2>3, <3>2 DEF ExtInv
  <2>6. QED BY <2>4, <2>5
<1>4. CASE ~ \E i \in DOMAIN nodes : BadNode(nodes[i])
  <2>1. Rank(pod, nodes, t) /\ Rankable(nodes)
    BY <1>1, <1>4 DEF Prioritize
  <2> HIDE DEF pod, nodes, t
  <2>2. QED BY <1>1, <1>2, <2>1, RankKeepsInv
<1>5. QED BY <1>3, <1>4

LEMMA ExtNextInv == ExtInv /\ [ExtNext]_extVars => ExtInv'
<1>1. SUFFICES ASSUME ExtInv, [ExtNext]_extVars PROVE ExtInv'
  OBVIOUS
<1>2. CASE \E pod \in Pods, nodes \in Lists : Begin(pod, nodes)
  BY <1>1, <1>2, BeginKeepsInv
<1>3. CASE Filter
  BY <1>1, <1>3, FilterKeepsInv
<1>4. CASE Prioritize
  BY <1>1, <1>4, PrioritizeKeepsInv
<1>5. CASE \E t \in Tenants : Reset({t})
  <2>1. \A t \in Tenants : {t} \in SUBSET Tenants
    OBVIOUS
  <2>2. QED BY <1>1, <1>5, <2>1, ExtResetKeepsInv
<1>6. CASE Reset(Tenants)
  BY <1>1, <1>6, ExtResetKeepsInv
<1>7. CASE UNCHANGED extVars
  BY <1>1, <1>7, StillWon DEF extVars, ExtInv, Typed
<1>8. QED BY <1>1, <1>2, <1>3, <1>4, <1>5, <1>6, <1>7 DEF ExtNext

THEOREM ExtInvariant == ExtSpec => []ExtInv
<1>1. QED BY ExtInitInv, ExtNextInv, PTL DEF ExtSpec

\* The tables know names only, no level is ever zero, a call of /prioritize
\* follows a filter that let a node pass, and the answers are those the handlers
\* give.
THEOREM ExtTypeCorrect == ExtSpec => []ExtTypeOK
<1>1. ExtInv => ExtTypeOK
  <2>1. SUFFICES ASSUME ExtInv PROVE ExtTypeOK
    OBVIOUS
  <2>2. ASSUME NEW t \in Tenants
        PROVE  /\ DOMAIN table[t] \subseteq Names
               /\ \A name \in DOMAIN table[t] : table[t][name] \in Nat \ {0}
    <3>1. table[t] \in Tables
      BY <2>1 DEF ExtInv, Typed
    <3>2. DOMAIN table[t] \subseteq Names /\ table[t] \in [DOMAIN table[t] -> LevelRange]
      BY <3>1, TableFacts
    <3>3. QED BY <3>2, InRange
  <2>3. /\ cycle.step \in {"idle", "filter", "prioritize"}
        /\ cycle.step = "prioritize" => cycle.nodes # <<>>
    BY <2>1 DEF ExtInv, Typed, NoCycle
  <2>4. last.tenant \in Tenants \cup {Absent}
    BY <2>1 DEF ExtInv, Typed, Unranked, Wins
  <2>5. QED BY <2>1, <2>2, <2>3, <2>4 DEF ExtInv, Typed, ExtTypeOK
<1>2. QED BY <1>1, ExtInvariant, PTL

\* However often pods are ranked and tables reset, whatever the nodes' prices are
\* and become, the one that scores nothing included: no level leaves the floor, and
\* none passes the level at which evaporation takes what the largest deposit brings.
THEOREM LevelsStayBounded == ExtSpec => []LevelsBounded
<1>1. ASSUME ExtInv, NEW t \in Tenants, NEW name \in DOMAIN table[t]
      PROVE  table[t][name] \in 1..Saturation
  <2>1. table[t] \in Tables
    BY <1>1 DEF ExtInv, Typed
  <2>2. QED BY <2>1, TableFacts DEF LevelRange
<1>2. ExtInv => LevelsBounded
  BY <1>1 DEF LevelsBounded
<1>3. QED BY <1>2, ExtInvariant, PTL

-----------------------------------------------------------------------------
(* A winner wins again *)

\* One candidate against the winner, before the deposit and after the next
\* evaporation.  A candidate of the winner's own name has its level, so the two
\* scores decide, as they did.
LEMMA StillBeaten ==
  ASSUME NEW sb \in Nat, NEW sj \in Nat, NEW e \in Nat, e >= 1, NEW eb \in Nat, eb >= 1,
         sj * e <= sb * e
  PROVE  /\ sj * eb <= sb * eb
         /\ sj * e < sb * e => sj * eb < sb * eb
<1>1. sj <= sb
  <2>1. SUFFICES ASSUME sj >= sb + 1 PROVE FALSE
    OBVIOUS
  <2>2. e * (sb + 1) <= e * sj /\ e * (sb + 1) = sb * e + e /\ e * sj = sj * e
        /\ sb * e \in Int /\ sj * e \in Int
    BY <2>1, ProductMonotone
  <2>3. QED BY <2>2
<1>2. eb * sj <= eb * sb /\ eb * sj = sj * eb /\ eb * sb = sb * eb
      /\ sj * eb \in Int /\ sb * eb \in Int
  BY <1>1, ProductMonotone
<1>3. ASSUME sj * e < sb * e PROVE sj * eb < sb * eb
  <2>1. sj # sb
    <3>1. sj * e \in Int
      OBVIOUS
    <3>2. QED BY <1>3, <3>1
  <2>2. eb * (sj + 1) <= eb * sb /\ eb * (sj + 1) = sj * eb + eb
    BY <1>1, <2>1, ProductMonotone
  <2>3. QED BY <1>2, <2>2
<1>4. QED BY <1>2, <1>3

\* With the deposit on its level, and all levels evaporated, the winner of a
\* ranking is the best of the same candidates again.
LEMMA BestAgain ==
  ASSUME NEW pod, NEW t \in Tables, NEW nodes, Rankable(nodes), NEW b \in DOMAIN nodes,
         Settled(t, nodes), IsBest(pod, t, nodes, b),
         NEW u \in Tables, u = Reinforced(pod, t, nodes, b)
  PROVE  IsBest(pod, Evaporate(u, nodes), nodes, b)
<1> DEFINE w     == Evaporate(u, nodes)
           S(j)  == Score(pod, nodes[j])
           e     == t[nodes[b].name]
           R(j)  == Raw(pod, t, nodes[j])
           R2(j) == Raw(pod, w, nodes[j])
<1>0. nodes \in Seq(Candidate)
  BY DEF Rankable
<1>1. w \in Tables /\ \A i \in DOMAIN nodes :
        /\ nodes[i].name \in DOMAIN w
        /\ w[nodes[i].name] = EvaporatedLevel(Level(u, nodes[i].name))
  <2> HIDE DEF w
  <2>1. w \in Tables
    BY <1>0, EvaporateFacts DEF w
  <2>2. \A i \in DOMAIN nodes :
          /\ nodes[i].name \in DOMAIN w
          /\ w[nodes[i].name] = EvaporatedLevel(Level(u, nodes[i].name))
    BY <1>0, EvaporateFacts DEF w
  <2>3. QED BY <2>1, <2>2
<1> HIDE DEF w
<1>2. \A i \in DOMAIN nodes : /\ S(i) \in Nat /\ S(i) <= 100
                              /\ R(i) = S(i) * t[nodes[i].name]
                              /\ R2(i) = S(i) * w[nodes[i].name]
  <2>1. \A i \in DOMAIN nodes : /\ Level(t, nodes[i].name) = t[nodes[i].name]
                                /\ Level(w, nodes[i].name) = w[nodes[i].name]
    BY <1>1 DEF Level, Settled
  <2>2. QED BY <1>1, <2>1, RawFacts
<1>3. \A i \in DOMAIN nodes : /\ t[nodes[i].name] \in Nat /\ t[nodes[i].name] >= 1
                              /\ t[nodes[i].name] <= Rest
  <2>1. \A i \in DOMAIN nodes : t[nodes[i].name] \in LevelRange
    BY TableFacts DEF Settled
  <2>2. QED BY <2>1, InRange DEF Settled
<1>4. \A i \in DOMAIN nodes :
        /\ nodes[i].name = nodes[b].name => Level(u, nodes[i].name) = e + DepositOf(R(b))
        /\ nodes[i].name # nodes[b].name => Level(u, nodes[i].name) = t[nodes[i].name]
  BY TableFacts DEF Level, Settled, Reinforced
<1>5. \A i \in DOMAIN nodes : R(i) <= R(b)
  BY DEF IsBest
<1>6. \A i \in 1..(b - 1) : R(i) < R(b)
  BY DEF IsBest
<1>7. \A i \in DOMAIN nodes : w[nodes[i].name] \in Nat /\ w[nodes[i].name] >= 1
  <2>1. \A i \in DOMAIN nodes : w[nodes[i].name] = Level(w, nodes[i].name)
    BY <1>1 DEF Level
  <2>2. \A i \in DOMAIN nodes : w[nodes[i].name] \in LevelRange
    BY <1>1, <2>1, TableFacts
  <2>3. QED BY <2>2, InRange
<1> HIDE DEF S, R, R2
<1>8. ASSUME NEW j \in DOMAIN nodes
      PROVE  R2(j) <= R2(b) /\ (R(j) < R(b) => R2(j) < R2(b))
  <2> DEFINE sb == S(b)
             sj == S(j)
             x  == t[nodes[j].name]
             eb == w[nodes[b].name]
             ej == w[nodes[j].name]
             rb == R(b)
             rj == R(j)
  <2>1. /\ sb \in Nat /\ sb <= 100 /\ sj \in Nat /\ sj <= 100
        /\ rb = sb * e /\ rj = sj * x /\ R2(j) = sj * ej /\ R2(b) = sb * eb /\ rj <= rb
    BY <1>2, <1>5
  <2>2. /\ e \in Nat /\ e >= 1 /\ e <= Rest /\ x \in Nat /\ x >= 1 /\ x <= Rest
        /\ eb \in Nat /\ eb >= 1 /\ ej \in Nat
    BY <1>3, <1>7
  <2>3. eb = EvaporatedLevel(e + DepositOf(rb))
    <3>1. Level(u, nodes[b].name) = e + DepositOf(rb)
      BY <1>4
    <3>2. eb = EvaporatedLevel(Level(u, nodes[b].name))
      BY <1>1
    <3>3. QED BY <3>1, <3>2
  <2>4. nodes[j].name # nodes[b].name => ej = EvaporatedLevel(x)
    <3>1. nodes[j].name # nodes[b].name => Level(u, nodes[j].name) = x
      BY <1>4
    <3>2. ej = EvaporatedLevel(Level(u, nodes[j].name))
      BY <1>1
    <3>3. QED BY <3>1, <3>2
  <2>5. nodes[j].name = nodes[b].name => ej = eb /\ x = e
    OBVIOUS
  <2> HIDE DEF sb, sj, x, eb, ej, rb, rj, e
  <2>6. CASE nodes[j].name = nodes[b].name
    <3>1. sj * e <= sb * e
      BY <2>1, <2>5, <2>6
    <3>2. sj * eb <= sb * eb /\ (sj * e < sb * e => sj * eb < sb * eb)
      BY <2>1, <2>2, <3>1, StillBeaten
    <3>3. QED BY <2>1, <2>5, <2>6, <3>2 DEF rb, rj
  <2>7. CASE nodes[j].name # nodes[b].name
    <3>1. CASE sb >= 1
      <4>1. sj * ej <= sb * eb /\ (rj < rb => sj * ej < sb * eb)
        BY <2>1, <2>2, <2>3, <2>4, <2>7, <3>1, StillBest
      <4>2. QED BY <2>1, <4>1 DEF rb, rj
    <3>2. CASE sb = 0
      <4>1. rb = 0 /\ sb * eb = 0
        BY <2>1, <2>2, <3>2
      <4>2. sj = 0
        <5>1. SUFFICES ASSUME sj >= 1 PROVE FALSE
          BY <2>1
        <5>2. x * 1 <= x * sj /\ x * sj = sj * x /\ sj * x \in Int
          BY <2>1, <2>2, <5>1, ProductMonotone
        <5>3. QED BY <2>1, <2>2, <4>1, <5>2
      <4>3. sj * ej = 0 /\ rj = 0
        BY <2>1, <2>2, <4>2
      <4>4. QED BY <2>1, <4>1, <4>3 DEF rb, rj
    <3>3. QED BY <2>1, <3>1, <3>2
  <2>8. QED BY <2>6, <2>7
<1>9. \A j \in DOMAIN nodes : R2(j) <= R2(b)
  BY <1>8
<1>10. \A j \in 1..(b - 1) : R2(j) < R2(b)
  <2>1. \A j \in 1..(b - 1) : j \in DOMAIN nodes
    BY DEF Rankable
  <2>2. QED BY <1>6, <1>8, <2>1
<1>11. IsBest(pod, w, nodes, b)
  BY <1>9, <1>10 DEF IsBest, R2
<1>12. QED BY <1>11 DEF w

\* If the same pod and candidates are ranked again before anything else touches
\* the tenant's table, the node that won wins.
THEOREM WinnersKeepWinning == ExtSpec => WinnersStay
<1> DEFINE Stay == /\ last # Unranked /\ last'.tenant = last.tenant /\ last' # Unranked
                   /\ last'.pod = last.pod /\ last'.nodes = last.nodes
<1>1. ASSUME ExtInv, [ExtNext]_extVars, Stay PROVE last'.best = last.best
  <2>1. CASE last' = last
    BY <2>1
  <2>2. CASE last' # last
    <3>1. Prioritize
      <4>1. CASE \E pod \in Pods, nodes \in Lists : Begin(pod, nodes)
        BY <2>2, <4>1 DEF Begin
      <4>2. CASE Filter
        BY <2>2, <4>2 DEF Filter
      <4>3. CASE \E t \in Tenants : Reset({t})
        BY <1>1, <2>2, <4>3 DEF Reset
      <4>4. CASE Reset(Tenants)
        BY <1>1, <2>2, <4>4 DEF Reset
      <4>5. CASE UNCHANGED extVars
        BY <2>2, <4>5 DEF extVars
      <4>6. QED BY <1>1, <4>1, <4>2, <4>3, <4>4, <4>5 DEF ExtNext
    <3> DEFINE pod   == cycle.pod
               nodes == cycle.nodes
               w     == Evaporate(table[pod.tenant], nodes)
    <3>2. Rank(pod, nodes, w)
      BY <1>1, <2>2, <3>1 DEF Prioritize
    <3>3. w \in Tables /\ pod.tenant \in Tenants /\ table[pod.tenant] \in Tables
      BY <1>1, <3>1, PrioritizeFacts
    <3>4. /\ last'.tenant = pod.tenant /\ last'.pod = pod /\ last'.nodes = nodes
          /\ last'.best = nodes[Best(pod, w, nodes)].name
      BY <3>2 DEF Rank
    <3> HIDE DEF w, pod, nodes
    <3>5. last.pod = pod /\ last.nodes = nodes /\ last.tenant = pod.tenant
      BY <1>1, <3>4
    <3>6. Rankable(nodes)
      BY <1>1, <3>5 DEF ExtInv, Won
    <3>7. PICK t \in Tables, b \in DOMAIN nodes :
            /\ last.best = nodes[b].name
            /\ Settled(t, nodes) /\ IsBest(pod, t, nodes, b)
            /\ table[pod.tenant] = Reinforced(pod, t, nodes, b)
      BY <1>1, <3>5 DEF ExtInv, Won
    <3>8. IsBest(pod, Evaporate(table[pod.tenant], nodes), nodes, b)
      BY <3>3, <3>6, <3>7, BestAgain
    <3>9. b = Best(pod, w, nodes)
      BY <3>3, <3>6, <3>8, BestIs DEF w
    <3>10. QED BY <3>4, <3>7, <3>9
  <2>3. QED BY <2>1, <2>2
<1>2. ExtInv /\ [ExtNext]_extVars =>
        [last # Unranked /\ last'.tenant = last.tenant /\ last' # Unranked
           /\ last'.pod = last.pod /\ last'.nodes = last.nodes => last'.best = last.best]_extVars
  BY <1>1
<1>3. QED BY <1>2, ExtInvariant, PTL DEF ExtSpec, WinnersStay

=============================================================================
