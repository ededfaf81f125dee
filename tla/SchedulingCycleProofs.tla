----------------------- MODULE SchedulingCycleProofs -----------------------
(***************************************************************************)
(* The circuit breaker, for every set of pods, nodes and configurations    *)
(* and every choice of the time constants.                                 *)
(***************************************************************************)
EXTENDS SchedulingCycle, TLAPS

\* No call is outstanding while the breaker is open, so an answer never meets
\* an open breaker (which recordSuccess would leave open with a count of zero).
NoCallWhileOpen == call # "none" => state # "Open"

\* The attempts are counted after the back-off is computed, and a breaker that
\* is half open does not open again.
NoCoolDown ==
  /\ recoveryAttempts = IF state = "HalfOpen" THEN 1 ELSE 0
  /\ state = "Open" => calculateBackoff(recoveryAttempts) = 0

BreakerInv == TypeOK /\ TripsExactly /\ NoCoolDown /\ NoCallWhileOpen

LEMMA LimitType ==
  ASSUME TypeOK
  PROVE  failureThreshold \in Int /\ Limit \in 1..MaxFailures /\ Limit \in Nat \ {0}
BY ConfigsAssumption DEF TypeOK, Limit

LEMMA OlderType ==
  ASSUME NEW age \in 0..MaxAge
  PROVE  Older(age) \in 0..MaxAge
BY TimesAssumption DEF Older

\* Type correctness.
LEMMA TypeStep == TypeOK /\ [Next]_vars => TypeOK'
<1> SUFFICES ASSUME TypeOK, [Next]_vars PROVE TypeOK'
    OBVIOUS
<1> USE DEF TypeOK, Entry, Outcomes
<1>1. ASSUME NEW p \in Pods, NEW ns \in SUBSET Nodes, UseCache(p, ns) PROVE TypeOK'
  <2>1. cache[p].nodes \in SUBSET Nodes
    BY <1>1 DEF UseCache, CacheHit
  <2> QED BY <1>1, <2>1, NamesAssumption DEF UseCache, Begin, breaker
<1>2. ASSUME NEW p \in Pods, NEW ns \in SUBSET Nodes, Reject(p, ns) PROVE TypeOK'
  BY <1>2, NamesAssumption DEF Reject, Begin, breaker
<1>3. ASSUME NEW p \in Pods, NEW ns \in SUBSET Nodes, Call(p, ns) PROVE TypeOK'
  BY <1>3, NamesAssumption DEF Call, Issue, Begin, breaker
<1>4. ASSUME NEW p \in Pods, NEW ns \in SUBSET Nodes, Probe(p, ns) PROVE TypeOK'
  BY <1>4, NamesAssumption DEF Probe, Issue, Begin
<1>5. CASE Answered
  <2>1. pod \in Pods /\ pod # NoPod
    BY <1>5 DEF Answered
  <2>2. [nodes |-> nodes, age |-> 0] \in Entry
    BY TimesAssumption
  <2>3. cache' \in [Pods -> Entry \union {NoEntry}]
    BY <1>5, <2>1, <2>2 DEF Answered
  <2>4. failureCount' \in 0..MaxFailures
    BY <1>5, ConfigsAssumption DEF Answered, recordSuccess
  <2> QED BY <1>5, <2>1, <2>3, <2>4 DEF Answered, recordSuccess
<1>6. CASE Failed
  <2>1. failureCount' \in 0..MaxFailures
    BY <1>6, ConfigsAssumption DEF Failed, recordFailure
  <2>2. sinceFailure' \in 0..MaxAge
    BY <1>6, TimesAssumption DEF Failed, recordFailure
  <2> QED BY <1>6, <2>1, <2>2 DEF Failed, recordFailure
<1>7. CASE Finish
  BY <1>7 DEF Finish, breaker
<1>8. ASSUME NEW c \in Configs, Reload(c) PROVE TypeOK'
  BY <1>8 DEF Reload, breaker, cycle
<1>9. CASE SidecarStops
  BY <1>9 DEF SidecarStops, breaker
<1>10. CASE SidecarReturns
  BY <1>10 DEF SidecarReturns, breaker, cycle
<1>11. CASE Tick
  <2>1. \A p \in Pods : cache[p] # NoEntry => [cache[p] EXCEPT !.age = Older(cache[p].age)] \in Entry
    BY OlderType
  <2>2. cache' \in [Pods -> Entry \union {NoEntry}]
    BY <1>11, <2>1 DEF Tick
  <2>3. sinceFailure' \in 0..MaxAge
    BY <1>11, OlderType DEF Tick
  <2> QED BY <1>11, <2>2, <2>3 DEF Tick, breaker, cycle
<1>12. CASE UNCHANGED vars
  BY <1>12 DEF vars, breaker, cycle
<1> QED BY <1>1, <1>2, <1>3, <1>4, <1>5, <1>6, <1>7, <1>8, <1>9, <1>10, <1>11, <1>12 DEF Next, PreScore

LEMMA InitInv == Init => BreakerInv
<1> SUFFICES ASSUME Init PROVE BreakerInv
    OBVIOUS
<1>1. TypeOK
  BY TimesAssumption, ConfigsAssumption, NamesAssumption DEF Init, TypeOK, Outcomes, Entry
<1>2. TripsExactly
  BY <1>1, LimitType DEF Init, TripsExactly
<1>3. NoCoolDown /\ NoCallWhileOpen
  BY DEF Init, NoCoolDown, NoCallWhileOpen
<1> QED BY <1>1, <1>2, <1>3 DEF BreakerInv

\* The three conjuncts that speak of the breaker, in the steps that change it.
LEMMA FailedStep == BreakerInv /\ Failed => TripsExactly' /\ NoCoolDown' /\ NoCallWhileOpen'
<1> SUFFICES ASSUME BreakerInv, Failed PROVE TripsExactly' /\ NoCoolDown' /\ NoCallWhileOpen'
    OBVIOUS
<1> USE DEF BreakerInv
<1>1. Limit \in 1..MaxFailures /\ failureThreshold \in Int /\ Limit' = Limit
  BY LimitType DEF Failed, recordFailure, Limit
<1>2. failureCount \in 0..MaxFailures /\ MaxFailures \in Nat \ {0} /\ state \in {"Closed", "HalfOpen"}
  BY ConfigsAssumption DEF TypeOK, NoCallWhileOpen, Failed
<1>3. TripsExactly'
  BY <1>1, <1>2 DEF Failed, recordFailure, TripsExactly, Limit
<1>4. NoCoolDown'
  <2>1. recoveryAttempts' = recoveryAttempts
    BY DEF Failed, recordFailure
  <2>2. CASE state' = state
    BY <1>2, <2>1, <2>2 DEF NoCoolDown
  <2>3. CASE state = "Closed" /\ state' = "Open"
    BY <2>1, <2>3 DEF NoCoolDown, calculateBackoff
  <2> QED BY <2>2, <2>3 DEF Failed, recordFailure
<1>5. NoCallWhileOpen'
  BY DEF Failed, NoCallWhileOpen
<1> QED BY <1>3, <1>4, <1>5

LEMMA AnsweredStep == BreakerInv /\ Answered => TripsExactly' /\ NoCoolDown' /\ NoCallWhileOpen'
<1> SUFFICES ASSUME BreakerInv, Answered PROVE TripsExactly' /\ NoCoolDown' /\ NoCallWhileOpen'
    OBVIOUS
<1>1. Limit' = Limit /\ Limit \in 1..MaxFailures /\ MaxFailures \in Nat
  BY LimitType, ConfigsAssumption DEF BreakerInv, Answered, recordSuccess, Limit
<1>2. state' = "Closed" /\ failureCount' = 0 /\ recoveryAttempts' = 0
  BY DEF BreakerInv, TypeOK, NoCallWhileOpen, Answered, recordSuccess
<1>3. TripsExactly'
  BY <1>1, <1>2 DEF TripsExactly
<1> QED BY <1>2, <1>3 DEF NoCoolDown, NoCallWhileOpen

LEMMA ProbeStep ==
  ASSUME NEW p \in Pods, NEW ns \in SUBSET Nodes, BreakerInv, Probe(p, ns)
  PROVE  TripsExactly' /\ NoCoolDown' /\ NoCallWhileOpen'
<1>1. Limit' = Limit
  BY DEF Probe, Limit
<1>2. TripsExactly'
  BY <1>1 DEF BreakerInv, TripsExactly, Probe
<1>3. recoveryAttempts' = 1 /\ state' = "HalfOpen"
  BY DEF BreakerInv, NoCoolDown, Probe
<1> QED BY <1>2, <1>3 DEF NoCoolDown, NoCallWhileOpen

LEMMA BreakerStep == BreakerInv /\ [Next]_vars => BreakerInv'
<1> SUFFICES ASSUME BreakerInv, [Next]_vars PROVE TripsExactly' /\ NoCoolDown' /\ NoCallWhileOpen'
    BY TypeStep DEF BreakerInv
<1>1. ASSUME UNCHANGED breaker, call' = "none" \/ call # "none" \/ state # "Open"
      PROVE  TripsExactly' /\ NoCoolDown' /\ NoCallWhileOpen'
  BY <1>1 DEF breaker, BreakerInv, TripsExactly, NoCoolDown, NoCallWhileOpen, Limit, calculateBackoff
<1>2. ASSUME NEW p \in Pods, NEW ns \in SUBSET Nodes, PreScore(p, ns)
      PROVE  TripsExactly' /\ NoCoolDown' /\ NoCallWhileOpen'
  <2>1. CASE UseCache(p, ns) \/ Reject(p, ns)
    BY <2>1, <1>1 DEF UseCache, Reject, Begin, BreakerInv, TypeOK
  <2>2. CASE Call(p, ns)
    BY <2>2, <1>1 DEF Call
  <2>3. CASE Probe(p, ns)
    BY <2>3, ProbeStep
  <2> QED BY <1>2, <2>1, <2>2, <2>3 DEF PreScore
<1>3. CASE Finish \/ (\E c \in Configs : Reload(c)) \/ SidecarStops \/ SidecarReturns \/ Tick \/ UNCHANGED vars
  BY <1>3, <1>1 DEF Finish, Reload, SidecarStops, SidecarReturns, Tick, vars, cycle
<1> QED BY <1>2, <1>3, FailedStep, AnsweredStep DEF Next

\* Every variable keeps its type, and PreScore passes through its phases only.
THEOREM TypeCorrect == Spec => []TypeOK
<1>1. Init => TypeOK
  BY InitInv DEF BreakerInv
<1> QED BY <1>1, TypeStep, PTL DEF Spec

THEOREM BreakerInvariant == Spec => []BreakerInv
BY InitInv, BreakerStep, PTL DEF Spec

\* The breaker is closed exactly while fewer calls in a row have failed than
\* the threshold, whatever the outages and the reloads.
THEOREM Trips == Spec => []TripsExactly
<1>1. BreakerInv => TripsExactly
  BY DEF BreakerInv
<1> QED BY <1>1, BreakerInvariant, PTL

\* Why the cool-down of the texts (ProbesAfterCoolDown) does not happen: the
\* back-off is zero in every state in which AttemptCall consults it, for every
\* base and every cap.
THEOREM ZeroBackoff == Spec => []NoCoolDown
<1>1. BreakerInv => NoCoolDown
  BY DEF BreakerInv
<1> QED BY <1>1, BreakerInvariant, PTL

-----------------------------------------------------------------------------
\* The plugin's cycle implements BreakerPromise.
Streak == IF failureCount < Limit THEN failureCount ELSE Limit

LEMMA PromiseInit == Init => Promise!Init
<1> SUFFICES ASSUME Init PROVE Promise!Init
    OBVIOUS
<1>1. TypeOK
  BY InitInv DEF BreakerInv
<1> QED BY <1>1, LimitType DEF Promise!Init, Init

LEMMA PromiseStep == BreakerInv /\ BreakerInv' /\ [Next]_vars => [Promise!Next]_Promise!vars
<1> SUFFICES ASSUME BreakerInv, BreakerInv', [Next]_vars PROVE [Promise!Next]_Promise!vars
    OBVIOUS
<1>1. Limit \in 1..MaxFailures /\ failureCount \in 0..MaxFailures /\ MaxFailures \in Nat \ {0}
  BY LimitType, ConfigsAssumption DEF BreakerInv, TypeOK
<1>2. ASSUME UNCHANGED breaker, outcome' = outcome PROVE UNCHANGED Promise!vars
  BY <1>2 DEF breaker, Promise!vars, Limit
<1>3. ASSUME NEW p \in Pods, NEW ns \in SUBSET Nodes, PreScore(p, ns) PROVE [Promise!Next]_Promise!vars
  <2>0. Begin(p, ns) => outcome = "none"
    BY DEF Begin, BreakerInv, TypeOK
  <2>1. CASE UseCache(p, ns)
    <3>1. Promise!Cached
      BY <2>0, <2>1 DEF UseCache, Promise!Cached, Promise!Decide, breaker, Limit
    <3> QED BY <3>1 DEF Promise!Next
  <2>2. CASE Reject(p, ns)
    <3>1. Promise!Bypass
      BY <2>0, <2>2 DEF Reject, Promise!Bypass, Promise!Decide, breaker, Limit
    <3> QED BY <3>1 DEF Promise!Next
  <2>3. CASE Call(p, ns)
    BY <1>2, <2>3 DEF Call, Issue
  <2>4. CASE Probe(p, ns)
    BY <2>4 DEF Probe, Issue, Promise!vars, Limit
  <2> QED BY <1>3, <2>1, <2>2, <2>3, <2>4 DEF PreScore
<1>4. CASE Answered
  <2>1. outcome = "none" /\ outcome' = "answered" /\ Limit' = Limit
    BY <1>4 DEF Answered, recordSuccess, BreakerInv, TypeOK, Limit
  <2>2. failureCount' = 0 /\ state' = "Closed"
    BY <1>4 DEF Answered, recordSuccess, BreakerInv, TypeOK, NoCallWhileOpen
  <2>3. Promise!Answer
    BY <1>1, <2>1, <2>2 DEF Promise!Answer, Promise!Decide
  <2> QED BY <2>3 DEF Promise!Next
<1>5. CASE Failed
  <2>1. outcome = "none" /\ outcome' = "failed" /\ Limit' = Limit
    BY <1>5 DEF Failed, recordFailure, BreakerInv, TypeOK, Limit
  <2>2. failureCount' = IF failureCount < MaxFailures THEN failureCount + 1 ELSE failureCount
    BY <1>5 DEF Failed, recordFailure
  <2>3. Streak' = IF Streak < Limit THEN Streak + 1 ELSE Limit
    BY <1>1, <2>1, <2>2 DEF Streak
  <2>4. (state' # "Closed") <=> Streak' = Limit
    BY <1>1, <2>1, <2>2 DEF BreakerInv, TripsExactly, Streak
  <2>5. Promise!Fail
    BY <2>1, <2>3, <2>4 DEF Promise!Fail, Promise!Decide, Streak
  <2> QED BY <2>5 DEF Promise!Next
<1>6. CASE Finish
  <2>1. Promise!NextCycle
    BY <1>6 DEF Finish, Promise!NextCycle, breaker, Limit
  <2> QED BY <2>1 DEF Promise!Next
<1>7. CASE (\E c \in Configs : Reload(c)) \/ SidecarStops \/ SidecarReturns \/ Tick \/ UNCHANGED vars
  BY <1>2, <1>7 DEF Reload, SidecarStops, SidecarReturns, Tick, vars, cycle
<1> QED BY <1>3, <1>4, <1>5, <1>6, <1>7 DEF Next

\* Seen from its callers, the breaker with its half-open state, its times and
\* the cache in front of it is the one BreakerPromise describes.
THEOREM ImplementsPromise == Spec => KeepsPromise
BY PromiseInit, PromiseStep, BreakerInvariant, PTL DEF Spec, KeepsPromise, Promise!Spec
=============================================================================
