----------------------------- MODULE LedgerSums -----------------------------
(***************************************************************************)
(* The sum of a function on 1..n, as a recursive function (not a RECURSIVE *)
(* operator), so that the accounting of the orchestrator can be both       *)
(* evaluated by TLC and reasoned about by TLAPS.                           *)
(***************************************************************************)
EXTENDS Integers

\* PartialSums(f, n)[k] = f[1] + ... + f[k], for k in 0..n.
PartialSums(f, n) ==
  LET s[k \in 0..n] == IF k = 0 THEN 0 ELSE s[k - 1] + f[k]
  IN  s

Total(f, n) == PartialSums(f, n)[n]
=============================================================================
