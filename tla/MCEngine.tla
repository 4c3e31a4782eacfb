------------------------------ MODULE MCEngine ------------------------------
(* Families of small programs for TLC: two execution units p and q and a   *)
(* buffer b, on one core or on two.                                        *)
EXTENDS Engine

UnitsOfChip == {"p", "q", "b"}
CoresOfChip == {"c1", "c2"}

OneCore  == [u \in UnitsOfChip |-> "c1"]
TwoCores == [OneCore EXCEPT !["q"] = "c2"]

Depths(queues, buffer) == [u \in UnitsOfChip |-> IF u = "b" THEN buffer ELSE queues]

None_n(n) == [i \in 1 .. n |-> None]
All(n, x) == [i \in 1 .. n |-> x]

(* The elements of a set of positions as a list. *)
Listed(S) == SelectSeq(<<1, 2, 3, 4>>, LAMBDA k : k \in S)

(* Unit assignments, up to the names of p and q. *)
Placements(n) == {f \in [1 .. n -> {"p", "q"}] : f[1] = "p"}

(* An earlier and a later position of the list. *)
Pairs(n) == {<<k, i>> \in (1 .. n) \X (1 .. n) : k < i}

(* Buffered programs: every result is read by at most one later            *)
(* instruction and lands in b or outside the modelled region.              *)
ReaderMaps(n) == {r \in [1 .. n -> 0 .. n] : \A i \in 1 .. n : r[i] = 0 \/ r[i] > i}

Buffered ==
  {[n |-> 4, unit |-> pl,
    deps |-> [i \in 1 .. 4 |-> Listed({k \in 1 .. 4 : r[k] = i})],
    streams |-> All(4, {}), latency |-> All(4, 0), cost |-> <<1, 2, 1, 2>>,
    dst |-> [i \in 1 .. 4 |-> IF i \in buffered THEN "b" ELSE None],
    depth |-> Depths(q, b), parent |-> pa] :
     pl \in Placements(4), r \in ReaderMaps(4), buffered \in SUBSET (1 .. 3),
     q \in 1 .. 2, b \in 1 .. 2, pa \in {OneCore, TwoCores}}

(* Streamed programs: each later instruction ignores, depends on or streams *)
(* from each earlier one, with a link latency and costs on both sides of it. *)
Streamed ==
  {[n |-> 3, unit |-> pl,
    deps |-> [i \in 1 .. 3 |-> Listed({k \in 1 .. i - 1 : e[<<k, i>>] = "dep"})],
    streams |-> [i \in 1 .. 3 |-> {k \in 1 .. i - 1 : e[<<k, i>>] = "stream"}],
    latency |-> <<0, l2, l3>>, cost |-> c, dst |-> None_n(3),
    depth |-> Depths(q, 1), parent |-> OneCore] :
     pl \in Placements(3), e \in [Pairs(3) -> {"none", "dep", "stream"}],
     l2 \in {0, 1}, l3 \in {1, 3}, c \in [1 .. 3 -> {0, 2}], q \in {1, 3}}

(* Arbitrary programs: each instruction has at most one input, of either   *)
(* kind and from anywhere in the list, itself or outside it; buffers and   *)
(* queues may have no slot at all, and one cost may raise.                 *)
Tangled ==
  {[n |-> 3, unit |-> pl,
    deps |-> [i \in 1 .. 3 |-> IF e[i][1] = "dep" THEN <<e[i][2]>> ELSE << >>],
    streams |-> [i \in 1 .. 3 |-> IF e[i][1] = "stream" THEN {e[i][2]} ELSE {}],
    latency |-> All(3, 1), cost |-> c, dst |-> <<"b", "b", None>>,
    depth |-> Depths(q, 1), parent |-> OneCore] :
     pl \in Placements(3),
     e \in [1 .. 3 -> {<<"none", 0>>} \cup {"dep", "stream"} \X {0, 1, 2, 3}],
     c \in {<<1, 2, 0>>, <<1, None, 1>>}, q \in {0, 1}}

(* Ordered programs: each later instruction ignores, depends on or streams *)
(* from each earlier one, so that results are read many times; all of them *)
(* land in b, which holds them all; the queues hold one instruction.       *)
Ordered ==
  {[n |-> 4, unit |-> pl,
    deps |-> [i \in 1 .. 4 |-> Listed({k \in 1 .. i - 1 : e[<<k, i>>] = "dep"})],
    streams |-> [i \in 1 .. 4 |-> {k \in 1 .. i - 1 : e[<<k, i>>] = "stream"}],
    latency |-> All(4, 1), cost |-> <<2, 1, 1, 2>>, dst |-> All(4, "b"),
    depth |-> Depths(1, 4), parent |-> OneCore] :
     pl \in Placements(4), e \in [Pairs(4) -> {"none", "dep", "stream"}]}

(* Their union.  Counting the sets first lets TLC sort them once, instead  *)
(* of comparing every program of the one with every program of the other.  *)
Merged(A, B) == IF Cardinality(A) + Cardinality(B) = 0 THEN {} ELSE A \cup B

AllPrograms == Merged(Merged(Buffered, Streamed), Merged(Ordered, Tangled))

(* One result read by two instructions while its producer goes on. *)
FanOut ==
  {[n |-> 4, unit |-> <<"p", "q", "q", "p">>,
    deps |-> << << >>, <<1>>, <<1>>, << >> >>, streams |-> All(4, {}),
    latency |-> All(4, 0), cost |-> <<1, 3, 1, c>>, dst |-> <<"b", None, None, "b">>,
    depth |-> Depths(4, 1), parent |-> OneCore] : c \in 1 .. 2}
=============================================================================
