------------------------- MODULE MCSchedulingCycle -------------------------
(* Small instances of the scheduling cycle for TLC.  Only the order of the  *)
(* time constants matters: the short TTL ends before a pod can come back,   *)
(* the long one after.                                                      *)
EXTENDS SchedulingCycle

CONSTANTS p1, p2, n1, n2

AllConfigs == {[threshold |-> 2, ttl |-> 3], [threshold |-> 0, ttl |-> 1], [threshold |-> 3, ttl |-> 0]}
=============================================================================
