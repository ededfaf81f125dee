--------------------------- MODULE MCServiceLife ---------------------------
(* Two nodes; files with no level for a node, with levels beyond the bounds,*)
(* with other values, and with something else altogether.                   *)
EXTENDS ServiceLife, TLC

Vector(val) == [kind |-> "vector", val |-> val]
Other(kind) == [kind |-> kind, val |-> <<>>]
MCFiles ==
  { Other("list"), Vector(<<NaN, Text>>), Vector(2 :> 950), Vector(<<-500, Null>>) }
============================================================================
