-------------------------- MODULE MCSidecarScoring --------------------------
(* Two nodes, one with intervals and one without; calls with steady, middling *)
(* and unsteady heartbeats, for a pod that is refused, with an invalid report *)
(* and with late heartbeats.                                                  *)
EXTENDS SidecarScoring

Cand0(node, beat, intervals, used, free, expected) ==
  [node |-> node, beat |-> beat, intervals |-> intervals,
   alloc |-> 10, used |-> used, free |-> free, total |-> 10, expected |-> expected]
Req(podOk, cands) == [podOk |-> podOk, cands |-> cands]

MCRequests ==
  { Req(TRUE, <<Cand0("a", 20, <<5, 5>>, 4, 6, 6), Cand0("b", 20, <<>>, 4, 6, 6)>>),
    Req(TRUE, <<Cand0("b", 10, <<>>, 12, 0, 6), Cand0("a", 10, <<4, 6>>, 4, 6, 6)>>),
    Req(TRUE, <<Cand0("a", 30, <<1, 9>>, 4, 6, 6)>>),
    Req(FALSE, <<Cand0("a", 30, <<1, 9>>, 4, 6, 6)>>) }
============================================================================
