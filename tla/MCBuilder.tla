------------------------------ MODULE MCBuilder ------------------------------
(***************************************************************************)
(* Chip dicts for modules Builder and Validation: a root with a memory GM and a core of    *)
(* one or two replicas that holds a buffer, a pipe and, in some, a module  *)
(* that is counted as well; every path of a small set of references in the *)
(* root, a few inside.  And chips made by hand, with names that repeat.    *)
(***************************************************************************)
EXTENDS Validation

Unit(kind, name) ==
  [kind |-> kind, name |-> name, count |-> 1, children |-> << >>, paths |-> << >>]

Module(name, count, children, paths) ==
  [kind |-> "module", name |-> name, count |-> count, children |-> children, paths |-> paths]

PipeUnit(name, kinds, names) ==
  [kind |-> "pipe", name |-> name, count |-> 1, children |-> << >>, paths |-> << >>,
   from |-> [kinds |-> kinds, names |-> None],
   to |-> [kinds |-> kinds, names |-> names]]

Path(src, dst, engine) == [src |-> src, dst |-> dst, engine |-> engine, stream |-> FALSE]

Stream(src, dst) == [Path(src, dst, << >>) EXCEPT !.stream = TRUE]

GM == Unit("storage", "GM")
UB == Unit("storage", "UB")
DMA == PipeUnit("DMA", {"storage"}, None)
ToUB == PipeUnit("DMA", {}, {"UB", "GM"})

(* A core, and what is inside it. *)
Tile(count, paths) == Module("Tile", count, <<UB>>, paths)

Inside ==
  {<<UB, DMA>>, <<Unit("compute", "Vec"), UB, ToUB>>, <<UB, DMA, GM>>}
    \cup {<<DMA, UB, Tile(n, ps)>> : n \in 1 .. 2,
            ps \in {<< >>, <<Path(<<"UB">>, <<"GM">>, << >>)>>}}

InnerPaths ==
  {<< >>, <<Path(<<"UB">>, <<"GM">>, <<"DMA">>)>>, <<Path(<<"Vec">>, <<"UB">>, << >>)>>}

Core(count, children, paths) == Module("Core", count, children, paths)

(* References of the paths of the root: plain, into the core, into a       *)
(* replica, into a peer, dangling.                                         *)
Refs ==
  {<<"GM">>, <<"Core", "UB">>, <<"Core", "DMA">>, <<"Core0", "UB">>,
   <<"Core", "Tile", "UB">>, <<"Peer", "UB">>}

RootPaths == {<<Path(s, d, e)>> : s, d \in Refs, e \in {<< >>, <<"Core", "DMA">>, <<"GM">>}}

Chip(kids, paths) == Module("NPU", 1, kids, paths)

Peer(count) == Module("Peer", count, <<UB>>, << >>)

OneCore ==
  {Chip(<<GM, Core(n, inside, inner)>>, outer) :
     n \in 1 .. 2, inside \in Inside, inner \in InnerPaths, outer \in RootPaths}

TwoKinds ==
  {Chip(<<GM, Core(n, <<UB, DMA>>, << >>), Peer(m)>>, outer) :
     n \in 1 .. 2, m \in 1 .. 3, outer \in RootPaths}

(* Streaming links inside a core, between a core and a unit of the root and *)
(* back, and a plain path next to them.                                    *)
Vec == Unit("compute", "Vec")
Cube == Unit("compute", "Cube")

StreamRefs == {<<"Core", "Vec">>, <<"Core", "UB">>, <<"Host">>}

Streaming ==
  {Chip(<<Unit("compute", "Host"), Core(n, <<Vec, Cube, UB>>, inner)>>, outer) :
     n \in 1 .. 3,
     inner \in {<< >>, <<Stream(<<"Cube">>, <<"Vec">>)>>,
               <<Path(<<"Cube">>, <<"Vec">>, << >>), Stream(<<"Vec">>, <<"Host">>)>>},
     outer \in {<<Stream(s, d)>> : s, d \in StreamRefs}
               \cup {<<Stream(<<"Host">>, d), Stream(s, <<"Host">>)>> : s, d \in StreamRefs}
               \cup {<<Stream(<<"Core", "Vec">>, d), Path(<<"Core", "Vec">>, d, << >>)>> : d \in StreamRefs}}

(* Names that repeat, counts and kinds that are refused, no paths at all.  *)
Odd ==
  {Chip(kids, outer) :
     kids \in {<<GM, Core(2, <<UB, DMA>>, << >>), Unit("storage", "Core0")>>,
               <<Core(2, <<UB, DMA>>, << >>), Core(3, <<UB, DMA>>, << >>), GM>>,
               <<GM, [UB EXCEPT !.count = 2]>>,
               <<GM, Unit("external", "Host")>>}
       \cup {<<GM, Core(1, <<UB, DMA>>, ps), Core(1, <<DMA, UB>>, ps)>> : ps \in InnerPaths}
       \cup {<<GM, Unit("compute", "Core"), Core(1, <<UB, DMA>>, ps)>> : ps \in InnerPaths},
     outer \in {<< >>, <<Path(<<"GM">>, <<"Core", "UB">>, <<"Core", "DMA">>)>>,
                <<Path(<<"GM">>, <<"Core0", "UB">>, << >>)>>}}
  \cup {GM}

(* Their union.  Counting the sets first lets TLC sort them once, instead  *)
(* of comparing every dict of the one with every dict of the other.        *)
Merged(A, B) == IF Cardinality(A) + Cardinality(B) = 0 THEN {} ELSE A \cup B

MCDicts == Merged(Merged(OneCore, TwoKinds), Merged(Streaming, Odd))

(* Made by hand: a path of the core between any two units of the chip.     *)
Address == {<<1>>, <<2>>, <<2, 1>>, <<2, 2>>}

ByHand ==
  {Chip(<<GM, Core(1, inside, <<Path(s, d, << >>)>>)>>, << >>) :
     inside \in {<<UB, DMA>>, <<GM, DMA>>}, s, d \in Address}

NoDicts == {}
NoChips == {}
=============================================================================
