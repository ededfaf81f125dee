--------------------------- MODULE SidecarScoring ---------------------------
(***************************************************************************)
(* ScoreNodes of the gRPC sidecar: how far it trusts each node's reports.  *)
(* A tracker per node smooths the samples; a manager chooses between two   *)
(* sets of thresholds by how unsteady the heartbeats of the last calls     *)
(* were.  Calls run in a pool of threads and share both without a lock: a  *)
(* call the plugin has given up goes on beside the next.  The interpreter  *)
(* switches threads at calls of functions, so a step reaches from one such *)
(* place that matters to the next.                                         *)
(*                                                                         *)
(* Ratios are whole percents, rounded down; times are seconds.             *)
(***************************************************************************)
EXTENDS LedgerSums, Sequences, SequencesExt, FiniteSets

CONSTANTS
  NodeIds,   \* node_id
  Requests,  \* [podOk, cands]; a candidate is [node, beat, intervals, alloc, used,
             \*  free, total, expected]: what the node reports, what the plugin knows
  Rpcs,      \* threads of the pool
  Slots,     \* trackers in memory
  Enter,     \* 3: high samples in a row that degrade
  Leave,     \* 5: low samples in a row that stabilise
  History,   \* _max_history
  MaxCalls,  \* bound: calls
  MaxRun     \* runs of like samples are counted no further

CONSTANT None

NodeCandidate ==
  [node : NodeIds, beat : Int, intervals : Seq(Nat), alloc : Int, used : Int, free : Int,
   total : Int, expected : Int]

ASSUME ScoringAssumption ==
  /\ Enter \in Nat \ {0} /\ Leave \in Nat \ {0} /\ History \in Nat \ {0}
  /\ Requests \subseteq [podOk : BOOLEAN, cands : Seq(NodeCandidate)]
  /\ IsFiniteSet(NodeIds) /\ IsFiniteSet(Rpcs) /\ IsFiniteSet(Slots) /\ None \notin Slots
  /\ Cardinality(Slots) > Cardinality(NodeIds) + Cardinality(Rpcs)
  /\ MaxCalls \in Nat /\ MaxRun \in Nat /\ MaxRun >= Enter /\ MaxRun >= Leave

SumUp(s)       == Total(s, Len(s))
AtLeast0(x)   == IF x < 0 THEN 0 ELSE x
Distance(x, y) == IF x > y THEN x - y ELSE y - x

-----------------------------------------------------------------------------
(* confidence.py *)

\* The part of a whole two figures for the same thing agree in:
\* calculate_internal_consistency and calculate_cross_consistency.
Consistency(whole, x, y) ==
  IF whole <= 0 THEN 0 ELSE AtLeast0(100 - (100 * Distance(x, y)) \div whole)

\* calculate_freshness; a report from the future is not fresh.
Freshness(age, tMax) == IF age < 0 THEN 0 ELSE AtLeast0(100 - (100 * age) \div tMax)

\* Standard deviation over mean: with n intervals of sum s and sum of squares q
\* it is the root of (n q - s s) / (s s), at most the root of n - 1: there are
\* as many numbers up to it as it says.
Cv(intervals) ==
  LET s == SumUp(intervals)
      q == SumUp([i \in DOMAIN intervals |-> intervals[i] * intervals[i]])
      d == Len(intervals) * q - s * s
  IN  Cardinality({p \in 1..(100 * Len(intervals)) : p * p * s * s <= 10000 * d})

\* calculate_heartbeat_consistency
Cadence(intervals, cvMax) ==
  IF Len(intervals) < 2 THEN 100
  ELSE IF SumUp(intervals) = 0 THEN 0 ELSE AtLeast0(100 - (100 * Cv(intervals)) \div cvMax)

\* get_intervals
Gaps(beats) == [i \in 1..AtLeast0(Len(beats) - 1) |-> beats[i + 1] - beats[i]]

\* record_heartbeat
Recorded(beats, t) ==
  IF beats # <<>> /\ t <= Last(beats) THEN beats
  ELSE IF Len(beats) < History THEN Append(beats, t) ELSE Tail(Append(beats, t))

\* (Bug: the weights are swapped for a slower average.)
SmoothedSlowly(trust, sample) == (sample + 3 * trust) \div 4

\* EMA.update, alpha 0.5
Smoothed(trust, sample) == (sample + trust) \div 2

Stable   == [cvMax |-> 30, tMax |-> 15]
Degraded == [cvMax |-> 80, tMax |-> 60]
Thresholds(state) == IF state = "STABLE" THEN Stable ELSE Degraded

NewTracker(th) == [trust |-> 70, count |-> 0, beats |-> <<>>, th |-> th]
-----------------------------------------------------------------------------
VARIABLES
  manager,  \* threshold_manager: [state, stable, degraded]
  of,       \* confidence_trackers: a slot for each node, None without one
  heap,     \* the trackers themselves
  rpc,      \* every thread: [pc, req, i, th, slot]
  calls,    \* calls so far
  \* history
  run,      \* samples in a row on one side: [side, n]
  like,     \* for each tracker, 2^k after k full, or k empty, samples in a row
  given,    \* samples taken of each node since the last reset
  raced     \* nodes whose tracker two calls created, or a reset took from a call

vars == <<manager, of, heap, rpc, calls, run, like, given, raced>>
trackerVars == <<of, heap, like, given, raced>>

NoTracker == NewTracker(Stable)
Free      == [pc |-> "free"]
NoRun     == [full |-> 1, empty |-> 1]

TypeOK ==
  /\ manager.state \in {"STABLE", "DEGRADED"}
  /\ manager.stable \in 0..(Leave - 1) /\ manager.degraded \in 0..(Enter - 1)
  /\ of \in [NodeIds -> Slots \cup {None}]
  /\ \A s \in Slots : heap[s].trust \in 0..100 /\ Len(heap[s].beats) <= History
  /\ \A r \in Rpcs : rpc[r].pc \in {"free", "evaluate", "read", "look", "create", "record", "update"}
  /\ calls \in 0..MaxCalls

Init ==
  /\ manager = [state |-> "STABLE", stable |-> 0, degraded |-> 0]
  /\ of = [n \in NodeIds |-> None] /\ heap = [s \in Slots |-> NoTracker]
  /\ rpc = [r \in Rpcs |-> Free] /\ calls = 0
  /\ run = [side |-> "none", n |-> 0] /\ like = [s \in Slots |-> NoRun]
  /\ given = [n \in NodeIds |-> 0] /\ raced = {}

Cand(r)   == rpc[r].req.cands[rpc[r].i]
Holds(r, n) == rpc[r].pc \in {"record", "update"} /\ Cand(r).node = n
Goto(r, pc) == rpc' = [rpc EXCEPT ![r].pc = pc]

-----------------------------------------------------------------------------
(* The head of the handler *)

\* The mean CV of the candidates that report two intervals or more.
Reporting(req) ==
  {k \in DOMAIN req.cands : LET s == req.cands[k].intervals IN Len(s) >= 2 /\ SumUp(s) > 0}
MeanCv(req) ==
  SumUp([k \in DOMAIN req.cands |->
           IF k \in Reporting(req) THEN Cv(req.cands[k].intervals) ELSE 0])
    \div Cardinality(Reporting(req))

Receive(r, req) ==
  /\ rpc[r] = Free /\ calls < MaxCalls
  /\ calls' = calls + 1
  /\ rpc' = [rpc EXCEPT ![r] = [pc |-> IF Reporting(req) = {} THEN "read" ELSE "evaluate",
                                req |-> req, i |-> 1, th |-> Stable, slot |-> None]]
  /\ UNCHANGED <<manager, trackerVars, run>>

\* (Bug: a sample between the bounds does not end a run.)
EvaluatedLoosely(m, cv) ==
  IF m.state = "STABLE"
  THEN IF cv <= 25 THEN m
       ELSE IF m.degraded + 1 < Enter THEN [m EXCEPT !.degraded = @ + 1]
       ELSE [m EXCEPT !.state = "DEGRADED", !.degraded = 0]
  ELSE IF cv >= 15 THEN m
       ELSE IF m.stable + 1 < Leave THEN [m EXCEPT !.stable = @ + 1]
       ELSE [m EXCEPT !.state = "STABLE", !.stable = 0]

\* (Bug: the counter is not cleared with the transition.)
EvaluatedKeeping(m, cv) ==
  IF m.state = "STABLE"
  THEN IF cv <= 25 THEN [m EXCEPT !.degraded = 0]
       ELSE IF m.degraded + 1 < Enter THEN [m EXCEPT !.degraded = @ + 1]
       ELSE [m EXCEPT !.state = "DEGRADED", !.degraded = @ + 1]
  ELSE IF cv >= 15 THEN [m EXCEPT !.stable = 0]
       ELSE IF m.stable + 1 < Leave THEN [m EXCEPT !.stable = @ + 1]
       ELSE [m EXCEPT !.state = "STABLE", !.stable = 0]

\* evaluate_state; the state RECOVERING is never entered.
Evaluated(m, cv) ==
  IF m.state = "STABLE"
  THEN IF cv <= 25 THEN [m EXCEPT !.degraded = 0]
       ELSE IF m.degraded + 1 < Enter THEN [m EXCEPT !.degraded = @ + 1]
       ELSE [m EXCEPT !.state = "DEGRADED", !.degraded = 0]
  ELSE IF cv >= 15 THEN [m EXCEPT !.stable = 0]
       ELSE IF m.stable + 1 < Leave THEN [m EXCEPT !.stable = @ + 1]
       ELSE [m EXCEPT !.state = "STABLE", !.stable = 0]

Side(cv) == IF cv > 25 THEN "high" ELSE IF cv < 15 THEN "low" ELSE "middle"

Evaluate(r) ==
  /\ rpc[r].pc = "evaluate"
  /\ LET cv == MeanCv(rpc[r].req)
     IN  /\ manager' = Evaluated(manager, cv)
         /\ run' = IF manager'.state # manager.state THEN [side |-> "none", n |-> 0]
                   ELSE IF Side(cv) = run.side THEN [run EXCEPT !.n = IF @ < MaxRun THEN @ + 1 ELSE @]
                   ELSE [side |-> Side(cv), n |-> 1]
  /\ Goto(r, "read")
  /\ UNCHANGED <<trackerVars, calls>>

\* get_thresholds, and the JobRequest: a pod without CPU or memory is refused,
\* after its heartbeats have been counted; one without candidates is answered.
Read(r) ==
  /\ rpc[r].pc = "read"
  /\ rpc' = [rpc EXCEPT ![r] =
       IF rpc[r].req.podOk /\ rpc[r].req.cands # <<>>
       THEN [@ EXCEPT !.pc = "look", !.th = Thresholds(manager.state)]
       ELSE Free]
  /\ UNCHANGED <<manager, trackerVars, calls, run>>

-----------------------------------------------------------------------------
(* One candidate *)

\* (Bug: every call makes a tracker of its own.)
LookNever(r) ==
  /\ rpc[r].pc = "look"
  /\ Goto(r, "create")
  /\ UNCHANGED <<manager, trackerVars, calls, run>>

Look(r) ==
  /\ rpc[r].pc = "look"
  /\ LET s == of[Cand(r).node]
     IN  rpc' = [rpc EXCEPT ![r].pc = IF s = None THEN "create" ELSE "record", ![r].slot = s]
  /\ UNCHANGED <<manager, trackerVars, calls, run>>

\* Trackers the dict or a call refers to; the others are garbage.
Reached(o, calling) ==
  {o[n] : n \in NodeIds} \cup {calling[r].slot : r \in {q \in Rpcs : calling[q].pc # "free"}}
Unused == CHOOSE s \in Slots : s \notin Reached(of, rpc)
Kept(f, empty) == [s \in Slots |-> IF s \in Reached(of', rpc') THEN f[s] ELSE empty]

\* The constructor has run; another call may have stored a tracker meanwhile,
\* which is lost with what it has learnt.
Create(r) ==
  /\ rpc[r].pc = "create"
  /\ LET n == Cand(r).node IN
       /\ of' = [of EXCEPT ![n] = Unused]
       /\ rpc' = [rpc EXCEPT ![r].pc = "record", ![r].slot = Unused]
       /\ raced' = IF \E q \in Rpcs \ {r} : rpc[q].pc = "create" /\ Cand(q).node = n
                   THEN raced \cup {n} ELSE raced
  /\ heap' = Kept([heap EXCEPT ![Unused] = NewTracker(rpc[r].th)], NoTracker)
  /\ like' = Kept([like EXCEPT ![Unused] = NoRun], NoRun)
  /\ UNCHANGED <<manager, calls, run, given>>

\* The thresholds are the tracker's from here on, for other calls as well.
Record(r) ==
  /\ rpc[r].pc = "record"
  /\ heap' = [heap EXCEPT ![rpc[r].slot].th = rpc[r].th,
                          ![rpc[r].slot].beats = IF Cand(r).beat > 0 THEN Recorded(@, Cand(r).beat)
                                                                     ELSE @]
  /\ Goto(r, "update")
  /\ UNCHANGED <<manager, calls, run, of, like, given, raced>>

\* current_time: the latest heartbeat of the request (some clock without one).
Now(req) ==
  LET beats == {req.cands[k].beat : k \in DOMAIN req.cands}
  IN  CHOOSE t \in beats : \A b \in beats : b <= t

\* With intervals from the plugin the age is the request's own; without, it is
\* that of the tracker's last heartbeat, which a later request may have brought.
Sample(c, t, now) ==
  LET internal == Consistency(c.alloc, c.alloc - c.used, c.free)
      cross    == Consistency(c.total, c.expected, c.free)
      fresh    == IF c.intervals # <<>>
                  THEN IF c.beat > 0 THEN Freshness(AtLeast0(now - c.beat), t.th.tMax) ELSE 100
                  ELSE IF t.beats = <<>> THEN 10 ELSE Freshness(now - Last(t.beats), t.th.tMax)
      cadence  == IF c.intervals # <<>> THEN Cadence(c.intervals, t.th.cvMax)
                                        ELSE Cadence(Gaps(t.beats), t.th.cvMax)
      product  == (((internal * fresh) \div 100) * cadence) \div 100
  IN  IF c.intervals # <<>> THEN (product * cross) \div 100 ELSE product

\* NodeTelemetry and ComputeNode refuse shares above 100% and negative amounts.
Valid(c) ==
  /\ c.alloc > 0 => c.used \in 0..c.alloc
  /\ c.total >= 0 /\ c.expected <= c.total

Doubled(power) == IF power < 2^MaxRun THEN 2 * power ELSE power

Counted(l, sample) ==
  [full  |-> IF sample < 100 THEN 1 ELSE Doubled(l.full),
   empty |-> IF sample > 0 THEN 1 ELSE Doubled(l.empty)]

\* The tracker is updated before the figures are validated: an invalid one ends
\* the call without an answer, and the samples taken so far stay.
Update(r) ==
  /\ rpc[r].pc = "update"
  /\ UNCHANGED <<manager, calls, run, of, raced>>
  /\ LET c == Cand(r)
         s == rpc[r].slot
         x == Sample(c, heap[s], Now(rpc[r].req))
     IN  /\ given' = [given EXCEPT ![c.node] = @ + 1]
         /\ rpc' = [rpc EXCEPT ![r] =
              IF Valid(c) /\ rpc[r].i < Len(rpc[r].req.cands)
              THEN [@ EXCEPT !.pc = "look", !.i = rpc[r].i + 1, !.slot = None] ELSE Free]
         /\ heap' = Kept([heap EXCEPT ![s].trust = Smoothed(@, x), ![s].count = @ + 1], NoTracker)
         /\ like' = Kept([like EXCEPT ![s] = Counted(@, x)], NoRun)

\* The pod uid "reset": trackers (and the counters of module PlacementStore)
\* are cleared, the manager is not.
ResetCall ==
  /\ calls < MaxCalls /\ \E r \in Rpcs : rpc[r] = Free
  /\ calls' = calls + 1
  /\ of' = [n \in NodeIds |-> None]
  /\ given' = [n \in NodeIds |-> 0]
  /\ raced' = {n \in NodeIds : \E r \in Rpcs : Holds(r, n)}
  /\ UNCHANGED <<manager, rpc, run>>
  /\ heap' = Kept(heap, NoTracker) /\ like' = Kept(like, NoRun)

Handle(r) == Evaluate(r) \/ Read(r) \/ Look(r) \/ Create(r) \/ Record(r) \/ Update(r)

Next ==
  \/ \E r \in Rpcs : Handle(r) \/ \E req \in Requests : Receive(r, req)
  \/ ResetCall

Spec == Init /\ [][Next]_vars
-----------------------------------------------------------------------------
(* What the scores can rely on *)

\* The manager leaves a state exactly after Enter high, or Leave low, samples
\* in a row, in the order the calls were evaluated in, however they overlapped,
\* and although failed calls count too; a sample of the middle ends a run.
CountersAreRuns ==
  /\ manager.degraded = IF manager.state = "STABLE" /\ run.side = "high" THEN run.n ELSE 0
  /\ manager.stable = IF manager.state = "DEGRADED" /\ run.side = "low" THEN run.n ELSE 0

\* Whatever a tracker saw before, after k full samples in a row at most the
\* 2^k-th part of distrust is left, and after k empty ones of trust.
TrustFollows ==
  \A s \in Slots :
    /\ (100 - heap[s].trust) * like[s].full < 100 + like[s].full
    /\ heap[s].trust * like[s].empty <= 100

\* Every sample a call took of a node, answered or not, is in the node's
\* tracker, unless two calls created it at once or a reset came in between.
SamplesKept ==
  \A n \in NodeIds \ raced : of[n] # None => heap[of[n]].count = given[n]
=============================================================================
