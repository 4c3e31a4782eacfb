----------------------------- MODULE MCSession -----------------------------
(* First calls on the arbitrary programs of MCEngine, and on buffered and  *)
(* streamed ones whose queues and buffer have one slot; next calls on a    *)
(* list that waits for an instruction of the first call.                   *)
EXTENDS MCEngine, Session

OneSlot(jobs) == {j \in jobs : j.depth = Depths(1, 1) /\ j.parent = OneCore}

LinkOfOne == {j \in Streamed : j.latency = <<0, 1, 1>>}

FirstPrograms == Merged(Merged(OneSlot(Buffered), OneSlot(LinkOfOne)), Tangled)

Dependent ==
  {[n |-> 2, unit |-> <<"p", "q">>, deps |-> << <<Outside>>, << >> >>,
    streams |-> All(2, {}), latency |-> All(2, 0), cost |-> <<1, 2>>,
    dst |-> None_n(2), depth |-> Depths(1, 1), parent |-> OneCore]}
=============================================================================
