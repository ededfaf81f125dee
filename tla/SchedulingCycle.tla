-------------------------- MODULE SchedulingCycle --------------------------
(***************************************************************************)
(* The scoring half of a scheduling cycle of the Go plugin: PreScore with  *)
(* its score cache, its circuit breaker and the gRPC call to the sidecar,  *)
(* and the Score calls that follow.                                        *)
(*                                                                         *)
(* kube-scheduler runs one scheduling cycle at a time, so the breaker and  *)
(* the cache have one caller; what interleaves with it is the sidecar      *)
(* (which stops and comes back), the configuration watcher and the clock.  *)
(*                                                                         *)
(* Times are ages in ticks of an arbitrary length, kept only up to MaxAge: *)
(* they are compared with bounds below MaxAge and with nothing else.       *)
(***************************************************************************)
EXTENDS Integers

CONSTANTS Pods, Nodes,
          Configs,     \* the configurations the watched file may hold
          Base, Cap,   \* calculateBackoff: base and longest back-off
          RetryDelay,  \* kube-scheduler's back-off before a pod is tried again
          MaxAge,      \* bound: older than anything is ever compared with
          MaxFailures, \* bound: failures counted, never below a threshold
          NoPod, NoEntry

ASSUME TimesAssumption ==
  /\ Base \in Nat /\ Cap \in Nat /\ RetryDelay \in Nat
  /\ MaxAge \in Nat /\ Cap < MaxAge /\ RetryDelay < MaxAge
ASSUME ConfigsAssumption ==
  /\ Configs \subseteq [threshold : Int, ttl : Nat]
  /\ MaxFailures \in Nat \ {0}
  /\ \A c \in Configs : c.threshold <= MaxFailures /\ c.ttl < MaxAge
ASSUME NamesAssumption == NoPod \notin Pods /\ NoEntry \notin [nodes : SUBSET Nodes, age : 0..MaxAge]

VARIABLES
  state, failureCount, recoveryAttempts,  \* CircuitBreaker, and its
  sinceFailure, failureThreshold,         \*   lastFailure as an age
  cache,                                  \* ScoringCache
  cfg,                                    \* ConfigWatcher.config
  pod, nodes,                             \* the cycle's pod and candidates
  call,                                   \* its ScoreNodes call
  outcome, scored,                        \* how PreScore ended, whom it scored
  bound,                                  \* pods that need no further cycle
  up                                      \* the sidecar answers in time

breaker == <<state, failureCount, recoveryAttempts, failureThreshold>>
cycle == <<pod, nodes, call, outcome, scored>>
vars == <<breaker, sinceFailure, cache, cfg, cycle, bound, up>>

Entry == [nodes : SUBSET Nodes, age : 0..MaxAge]
Outcomes == {"none", "cached", "rejected", "answered", "failed"}

\* Types, and that exactly the phases of PreScore occur: idle, waiting for
\* the sidecar, or done with the scores written to the CycleState.
TypeOK ==
  /\ state \in {"Closed", "Open", "HalfOpen"}
  /\ failureCount \in 0..MaxFailures
  /\ recoveryAttempts \in Nat
  /\ sinceFailure \in 0..MaxAge
  /\ cfg \in Configs
  /\ \E c \in Configs : failureThreshold = c.threshold
  /\ cache \in [Pods -> Entry \union {NoEntry}]
  /\ pod \in Pods \union {NoPod}
  /\ nodes \in SUBSET Nodes /\ scored \in SUBSET Nodes
  /\ call \in {"none", "good", "doomed"}
  /\ outcome \in Outcomes
  /\ bound \in SUBSET Pods
  /\ up \in BOOLEAN
  /\ pod = NoPod <=> call = "none" /\ outcome = "none"
  /\ call = "none" \/ outcome = "none"

-----------------------------------------------------------------------------
Older(age) == IF age < MaxAge THEN age + 1 ELSE age

\* base * 2^(attempts-1), at most Cap. For attempts = 0 the factor is 0.5,
\* and time.Duration truncates it to zero.
calculateBackoff(attempts) ==
  IF attempts = 0 THEN 0
  ELSE LET backoff == Base * 2^(attempts - 1) IN IF backoff > Cap THEN Cap ELSE backoff

\* (Bug: one failure too late.)
recordFailureLate ==
  /\ sinceFailure' = 0
  /\ failureCount' = IF failureCount < MaxFailures THEN failureCount + 1 ELSE failureCount
  /\ state' = IF state = "Closed" /\ failureCount >= failureThreshold THEN "Open" ELSE state
  /\ UNCHANGED <<recoveryAttempts, failureThreshold>>

\* (Bug: failures are not counted.)
recordFailureUncounted ==
  /\ sinceFailure' = 0
  /\ state' = IF state = "Closed" /\ failureCount >= failureThreshold THEN "Open" ELSE state
  /\ UNCHANGED <<failureCount, recoveryAttempts, failureThreshold>>

recordFailure ==
  LET failures == IF failureCount < MaxFailures THEN failureCount + 1 ELSE failureCount
  IN /\ sinceFailure' = 0
     /\ failureCount' = failures
     /\ state' = IF state = "Closed" /\ failures >= failureThreshold THEN "Open" ELSE state
     /\ UNCHANGED <<recoveryAttempts, failureThreshold>>

\* (Bug: a closed breaker's count is not reset.)
recordSuccessKeepsCount ==
  /\ failureCount' = IF state = "Closed" THEN failureCount ELSE 0
  /\ recoveryAttempts' = 0
  /\ state' = IF state = "HalfOpen" THEN "Closed" ELSE state
  /\ UNCHANGED <<sinceFailure, failureThreshold>>

\* (Bug: only the counters are reset.)
recordSuccessNotClosing ==
  /\ failureCount' = 0
  /\ recoveryAttempts' = 0
  /\ UNCHANGED <<state, sinceFailure, failureThreshold>>

recordSuccess ==
  /\ failureCount' = 0
  /\ recoveryAttempts' = 0
  /\ state' = IF state = "HalfOpen" THEN "Closed" ELSE state
  /\ UNCHANGED <<sinceFailure, failureThreshold>>

\* ScoringCache.Get finds an entry that is not older than the TTL; PreScore
\* does not look when the TTL is zero.
CacheHit(p) ==
  /\ cfg.ttl > 0
  /\ cache[p] # NoEntry
  /\ cache[p].age <= cfg.ttl

-----------------------------------------------------------------------------
\* A new breaker takes its threshold from the configuration of that moment.
Init ==
  /\ cfg \in Configs
  /\ failureThreshold = cfg.threshold
  /\ state = "Closed" /\ failureCount = 0 /\ recoveryAttempts = 0
  /\ sinceFailure = MaxAge  \* lastFailure is the zero time
  /\ cache = [p \in Pods |-> NoEntry]
  /\ pod = NoPod /\ nodes = {} /\ call = "none" /\ outcome = "none" /\ scored = {}
  /\ bound = {}
  /\ up \in BOOLEAN

\* A pod reaches PreScore with the nodes that passed the filters. A pod whose
\* earlier cycle did not bind it comes back only after the scheduler's back-off.
Begin(p, ns) ==
  /\ pod = NoPod
  /\ p \notin bound
  /\ cache[p] # NoEntry => cache[p].age >= RetryDelay
  /\ ns # {}
  /\ pod' = p /\ nodes' = ns
  /\ UNCHANGED <<cache, cfg, bound, up, sinceFailure>>

UseCache(p, ns) ==
  /\ Begin(p, ns)
  /\ CacheHit(p)
  /\ outcome' = "cached" /\ scored' = cache[p].nodes
  /\ UNCHANGED <<breaker, call>>

\* AttemptCall while Open and before the back-off has passed: every candidate
\* gets the neutral score.
Reject(p, ns) ==
  /\ Begin(p, ns)
  /\ ~CacheHit(p)
  /\ state = "Open" /\ sinceFailure <= calculateBackoff(recoveryAttempts)
  /\ outcome' = "rejected" /\ scored' = ns
  /\ UNCHANGED <<breaker, call>>

\* The RPC is issued. One issued while the sidecar does not answer fails, even
\* if the sidecar comes back meanwhile: the channel does not wait for readiness.
Issue(p, ns) ==
  /\ Begin(p, ns)
  /\ ~CacheHit(p)
  /\ call' = (IF up THEN "good" ELSE "doomed")
  /\ UNCHANGED <<outcome, scored>>

Call(p, ns) ==
  /\ Issue(p, ns)
  /\ state # "Open"
  /\ UNCHANGED breaker

Probe(p, ns) ==
  /\ Issue(p, ns)
  /\ state = "Open" /\ sinceFailure > calculateBackoff(recoveryAttempts)
  /\ state' = "HalfOpen"
  /\ recoveryAttempts' = recoveryAttempts + 1
  /\ UNCHANGED <<failureCount, failureThreshold>>

\* The scores are cached whatever the TTL.
Answered ==
  /\ call = "good"
  /\ recordSuccess
  /\ cache' = [cache EXCEPT ![pod] = [nodes |-> nodes, age |-> 0]]
  /\ call' = "none" /\ outcome' = "answered" /\ scored' = nodes
  /\ UNCHANGED <<cfg, pod, nodes, bound, up>>

\* (Bug: an early return without scores.)
FailedWithoutScores ==
  /\ call = "doomed"
  /\ recordFailure
  /\ call' = "none"
  /\ UNCHANGED <<cache, cfg, pod, nodes, outcome, scored, bound, up>>

\* An error or the gRPC deadline: neutral scores, nothing cached.
Failed ==
  /\ call = "doomed"
  /\ recordFailure
  /\ call' = "none" /\ outcome' = "failed" /\ scored' = nodes
  /\ UNCHANGED <<cache, cfg, pod, nodes, bound, up>>

\* Score has been called for every candidate; the pod is bound, or it will be
\* back (a reservation, PreBind or the binding failed).
Finish ==
  /\ outcome # "none"
  /\ bound' \in {bound, bound \union {pod}}
  /\ pod' = NoPod /\ nodes' = {} /\ outcome' = "none" /\ scored' = {}
  /\ UNCHANGED <<breaker, sinceFailure, cache, cfg, call, up>>

\* The watcher swaps the configuration; nobody tells the breaker.
Reload(c) ==
  /\ c # cfg
  /\ cfg' = c
  /\ UNCHANGED <<breaker, sinceFailure, cache, cycle, bound, up>>

SidecarStops ==
  /\ up
  /\ up' = FALSE
  /\ call' = (IF call = "good" THEN "doomed" ELSE call)
  /\ UNCHANGED <<breaker, sinceFailure, cache, cfg, pod, nodes, outcome, scored, bound>>

SidecarReturns ==
  /\ ~up
  /\ up' = TRUE
  /\ UNCHANGED <<breaker, sinceFailure, cache, cfg, cycle, bound>>

Tick ==
  /\ sinceFailure' = Older(sinceFailure)
  /\ cache' = [p \in Pods |-> IF cache[p] = NoEntry THEN NoEntry
                              ELSE [cache[p] EXCEPT !.age = Older(@)]]
  /\ UNCHANGED <<breaker, cfg, cycle, bound, up>>

PreScore(p, ns) == UseCache(p, ns) \/ Reject(p, ns) \/ Call(p, ns) \/ Probe(p, ns)

Next ==
  \/ \E p \in Pods, ns \in SUBSET Nodes : PreScore(p, ns)
  \/ Answered
  \/ Failed
  \/ Finish
  \/ \E c \in Configs : Reload(c)
  \/ SidecarStops
  \/ SidecarReturns
  \/ Tick

Spec == Init /\ [][Next]_vars

\* Every RPC has a deadline, and a cycle that has scores goes on to its end.
\* Nothing is assumed of pods, of the sidecar, of the watcher or of the clock.
FairSpec == Spec /\ WF_vars(Answered) /\ WF_vars(Failed) /\ WF_vars(Finish)

-----------------------------------------------------------------------------
\* The threshold in effect: a first failure trips a breaker whose threshold is
\* zero or negative (Validate does not look at it).
Limit == IF failureThreshold < 1 THEN 1 ELSE failureThreshold

\* The state and the counter, two fields written apart, agree at every moment:
\* the breaker is closed exactly as long as fewer calls in a row have failed
\* than the threshold asks for (CircuitBreaker.recordFailure, recordSuccess).
TripsExactly == state = "Closed" <=> failureCount < Limit

\* What the code promises a caller, without its half-open state, its times and
\* its cache.
Promise == INSTANCE BreakerPromise
  WITH limit <- Limit, open <- (state # "Closed"),
       streak <- (IF failureCount < Limit THEN failureCount ELSE Limit)

\* Every cycle sees the decisions BreakerPromise allows.
KeepsPromise == Promise!Spec

\* The sidecar answers again and calls are made: the breaker closes for good.
Recovers == (<>[]up /\ []<>(call # "none")) => <>[](state = "Closed")

\* The sidecar stays away and calls are made: the breaker trips for good, and
\* no cached score or configuration reload hides the outage from it.
NoticesOutage == (<>[]~up /\ []<>(call # "none")) => <>[](state # "Closed")

-----------------------------------------------------------------------------
(* What the texts say, and the code does not hold *)

\* learning/Project_Tutor.md, Q4, and BENCHMARKS.md: a breaker that has tripped
\* is left in peace for the base of the back-off, at least, after each failure
\* before the sidecar is called again. The code counts an attempt only when it
\* has computed the back-off, and base * 2^(0-1) is truncated to zero.
ProbesAfterCoolDown ==
  [][state # "Closed" /\ call = "none" /\ call' # "none" => sinceFailure >= Base]_vars
=============================================================================
