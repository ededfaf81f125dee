----------------------------- MODULE MCExtender -----------------------------
(* Two tenants; pods with two containers, with a GPU, and one that does not   *)
(* parse; nodes that are cheap, dear and badly labelled, and the dear one at  *)
(* a price that scores nothing.                                               *)
EXTENDS Extender

Q(n, unit) == [n |-> n, unit |-> unit]
Box(cpu, mem, gpu) == [cpu |-> cpu, mem |-> mem, gpu |-> gpu]
Pod(containers, hint, tenant) == [containers |-> containers, hint |-> hint, tenant |-> tenant]

MCPods ==
  { Pod(<<Box(Q(500, "m"), Q(512, "Mi"), FALSE), Box(Q(1, ""), Q(300000, "K"), FALSE)>>, "batch", "a"),
    Pod(<<Box(Q(1, ""), Q(9, "G"), TRUE)>>, "latency-critical", "b"),
    Pod(<<Box(Q(1, "bad"), Absent, FALSE)>>, "batch", "a") }

Node(name, cpu, mem, gpu, count, price, spot) ==
  [name |-> name, cpu |-> cpu, mem |-> mem, gpu |-> gpu, count |-> count,
   price |-> price, spot |-> spot]

Cheap  == Node("cheap", Q(4, ""), Q(8388608, "Ki"), "a100", "1", 50, FALSE)
Dear   == Node("dear", Absent, Q(16000, "M"), "a100", "1", 3200, TRUE)
Unpriced == Node("dear", Absent, Q(1, "Ti"), "a100", "1", 100000, FALSE)
Broken == Node("broken", Q(0, ""), Absent, "none", "1", -1, FALSE)

MCLists == { <<Cheap, Dear>>, <<Unpriced>>, <<Cheap>>, <<Dear, Broken>> }
============================================================================
