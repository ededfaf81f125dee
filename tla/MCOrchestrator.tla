--------------------------- MODULE MCOrchestrator ---------------------------
(* Small clusters for TLC.  Amounts are in units of the smallest request. *)
EXTENDS OrchestratorInv, TLC

CONSTANTS r1, r2, r3, n1, n2, batch_t, lc_t

TypesMixed == r1 :> batch_t @@ r2 :> lc_t @@ r3 :> batch_t

\* One node, one counter: three jobs that contend for it.
CapOne == n1 :> <<2>>
DemandOne == r1 :> <<1>> @@ r2 :> <<1>> @@ r3 :> <<2>>
EligibleOne == [r \in {r1, r2, r3} |-> {n1}]
NoDeadlines == [r \in {r1, r2, r3} |-> MaxNow + 1]
DeadlineR2 == [NoDeadlines EXCEPT ![r2] = 1]

\* Two nodes, CPU and GPU.  r1 and r2 share n2 or wait while r3 fills it, which
\* may as well go to n1.
CapGpu == n1 :> <<2, 1>> @@ n2 :> <<2, 1>>
DemandGpu == r1 :> <<1, 0>> @@ r2 :> <<1, 1>> @@ r3 :> <<2, 1>>
EligibleGpu == r1 :> {n2} @@ r2 :> {n2} @@ r3 :> {n1, n2}
=============================================================================
