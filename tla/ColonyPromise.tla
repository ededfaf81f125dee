---------------------------- MODULE ColonyPromise ----------------------------
(***************************************************************************)
(* What a caller of the colony relies on: it answers, and either names for *)
(* every job a node an ant can draw for it, or fails, which it does exactly*)
(* when some job has no node with a positive weight.  The fast path answers*)
(* with the first of the best nodes, unless none is acceptable.            *)
(***************************************************************************)
EXTENDS PlacementRules

CONSTANTS NoPlan, Failed

VARIABLES
  eta,    \* eta[j][k]: the weight of node k for job j
  fast,   \* the scores the fast path compares (-1: not acceptable), or <<>>
  answer  \* a plan, NoPlan before the answer, or Failed

vars == <<eta, fast, answer>>

Init == answer = NoPlan

AnswerFast ==
  /\ answer = NoPlan /\ fast # <<>>
  /\ LET best == FirstBest(fast)
     IN  answer' = IF fast[best] = -1 THEN Failed ELSE <<best>>
  /\ UNCHANGED <<eta, fast>>

AnswerByAnts ==
  /\ answer = NoPlan /\ fast = <<>>
  /\ IF \E j \in DOMAIN eta : AllZero(eta[j])
     THEN answer' = Failed
     ELSE answer' \in {p \in [DOMAIN eta -> DOMAIN eta[1]] :
                         \A j \in DOMAIN eta : p[j] \in Drawable(eta[j])}
  /\ UNCHANGED <<eta, fast>>

Answer == AnswerFast \/ AnswerByAnts

Spec == Init /\ [][Answer]_vars /\ WF_vars(Answer)
=============================================================================
