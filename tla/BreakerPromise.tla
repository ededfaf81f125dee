--------------------------- MODULE BreakerPromise ---------------------------
(***************************************************************************)
(* What a caller of the plugin's CircuitBreaker.AttemptCall may rely on.   *)
(* Each cycle ends in one outcome; the breaker opens with the limit-th     *)
(* failure in a row, never earlier and never later, stays open until a     *)
(* call is answered, and rejects calls only while it is open. A cached     *)
(* outcome is none of its business. When an open breaker lets a call       *)
(* through is not promised.                                                *)
(***************************************************************************)
EXTENDS Integers

VARIABLES limit, streak, open, outcome

vars == <<limit, streak, open, outcome>>

Init ==
  /\ limit \in Nat \ {0}
  /\ streak = 0
  /\ open = FALSE
  /\ outcome = "none"

Decide(o) == outcome = "none" /\ outcome' = o

Answer ==
  /\ Decide("answered")
  /\ streak' = 0
  /\ open' = FALSE
  /\ UNCHANGED limit

Fail ==
  /\ Decide("failed")
  /\ streak' = IF streak < limit THEN streak + 1 ELSE limit
  /\ open' = (streak' = limit)
  /\ UNCHANGED limit

Bypass ==
  /\ Decide("rejected")
  /\ open
  /\ UNCHANGED <<limit, streak, open>>

Cached ==
  /\ Decide("cached")
  /\ UNCHANGED <<limit, streak, open>>

NextCycle ==
  /\ outcome # "none"
  /\ outcome' = "none"
  /\ UNCHANGED <<limit, streak, open>>

Next == Answer \/ Fail \/ Bypass \/ Cached \/ NextCycle

Spec == Init /\ [][Next]_vars
=============================================================================
