--------------------------- MODULE LoweringProofs ---------------------------
(***************************************************************************)
(* What module Lowering guarantees for every graph: its types, the order of*)
(* the list it returns, that its dict lookups succeed, and that the list   *)
(* orders the computations as the graph does, each result stored once or   *)
(* streamed once.  The last section finds the list of a graph that streams *)
(* results in the list of the same graph that streams none.                *)
(***************************************************************************)
EXTENDS Lowering, FiniteSetTheorems, WellFoundedInduction, TLAPS

Instruction == [unit : CoreUnits, tensor : Tensor, deps : Seq(Nat), streams : SUBSET Nat]

WaitsOf(r) == {r.deps[k] : k \in DOMAIN r.deps} \cup r.streams

(* s may follow b instructions: it waits for these and for its own part    *)
(* before it.                                                              *)
Follows(s, b) ==
  /\ s \in Seq(Instruction)
  /\ \A i \in 1 .. Len(s) : WaitsOf(s[i]) \subseteq 1 .. b + i - 1

(* While the list is being built the dicts point into it. *)
Recorded ==
  pc \in {"lower", "done"} =>
    \A k \in Ops : /\ storeOf[k] # None => storeOf[k] \in Index
                   /\ computeOf[k] # None => computeOf[k] \in Index

(* Every op behind the loop has its computation in the list, and its store *)
(* unless it was fused.                                                    *)
Behind ==
  \A k \in Ops : k < at =>
    computeOf[k] # None /\ (storeOf[k] # None \/ IsFused(k))

Inv == TypeOK /\ Recorded /\ ProducersFirst /\ Behind /\ ResolvesAll

-----------------------------------------------------------------------------
LEMMA GraphFacts ==
  ASSUME IsGraph(graph)
  PROVE  /\ Len(graph.ops) \in Nat /\ Ops = 1 .. Len(graph.ops)
         /\ \A k \in Ops : /\ Op(k).kind \in {"add", "matmul", "other"}
                           /\ \A i \in Operand : Source(k, i) \in 0 .. Len(graph.ops)
                           /\ \A x \in 1 .. Work : TensorOf(k, x) \in Tensor
                           /\ \A x \in Operand \cup {Out, Work} : TensorOf(k, x) \in Tensor
<1> DEFINE R == [kind : {"add", "matmul", "other"}, in_sources : Seq(0 .. Len(graph.ops)),
                 tensors : [1 .. Work -> Tensor], big : SUBSET (Operand \cup {Out})]
<1>1. graph.ops \in Seq(R)
  BY DEF IsGraph
<1>2. Len(graph.ops) \in Nat /\ \A k \in Ops : graph.ops[k] \in R
  <2> HIDE DEF R
  <2> QED  BY <1>1 DEF Ops
<1>3. ASSUME NEW k \in Ops, NEW i \in Operand
      PROVE  Source(k, i) \in 0 .. Len(graph.ops)
  <2>1. Op(k).in_sources \in Seq(0 .. Len(graph.ops))
    BY <1>2 DEF Op
  <2>2. i \in 1 .. 2
    BY DEF Operand
  <2> QED  BY <1>2, <2>1, <2>2 DEF Source
<1>4. ASSUME NEW k \in Ops, NEW x \in 1 .. Work PROVE TensorOf(k, x) \in Tensor
  <2>1. graph.ops[k].tensors \in [1 .. Work -> Tensor]
    BY <1>2
  <2> QED  BY <2>1 DEF TensorOf, Op
<1>5. Operand \cup {Out, Work} \subseteq 1 .. Work
  BY DEF Operand, Out, Work
<1> QED  BY <1>2, <1>3, <1>4, <1>5 DEF Op, Ops

(* The parts of the list follow one another. *)
LEMMA Concatenation ==
  ASSUME NEW b \in Nat, NEW s, NEW t, Follows(s, b), Follows(t, b + Len(s))
  PROVE  /\ Follows(s \o t, b)
         /\ Len(s) \in Nat /\ Len(t) \in Nat
         /\ Len(s \o t) = Len(s) + Len(t)
<1>1. s \in Seq(Instruction) /\ t \in Seq(Instruction)
  BY DEF Follows
<1>2. /\ s \o t \in Seq(Instruction) /\ Len(s) \in Nat /\ Len(t) \in Nat
      /\ Len(s \o t) = Len(s) + Len(t)
      /\ \A i \in 1 .. Len(s) + Len(t) :
           (s \o t)[i] = IF i <= Len(s) THEN s[i] ELSE t[i - Len(s)]
  BY <1>1
<1>3. ASSUME NEW i \in 1 .. Len(s) + Len(t)
      PROVE  WaitsOf((s \o t)[i]) \subseteq 1 .. b + i - 1
  <2>1. CASE i <= Len(s)
    <3>1. i \in 1 .. Len(s) /\ (s \o t)[i] = s[i]
      BY <1>2, <2>1
    <3> QED  BY <3>1 DEF Follows
  <2>2. CASE ~(i <= Len(s))
    <3>1. i - Len(s) \in 1 .. Len(t) /\ (s \o t)[i] = t[i - Len(s)]
      BY <1>2, <2>2
    <3>2. (b + Len(s)) + (i - Len(s)) - 1 = b + i - 1
      BY <1>2
    <3>3. WaitsOf(t[i - Len(s)]) \subseteq 1 .. (b + Len(s)) + (i - Len(s)) - 1
      BY <3>1 DEF Follows
    <3> QED  BY <3>1, <3>2, <3>3
  <2> QED  BY <2>1, <2>2
<1> QED  BY <1>2, <1>3 DEF Follows

LEMMA OneInstruction ==
  ASSUME NEW b \in Nat, NEW r \in Instruction, WaitsOf(r) \subseteq 1 .. b
  PROVE  Follows(<<r>>, b) /\ Len(<<r>>) = 1
<1>1. <<r>> \in Seq(Instruction) /\ Len(<<r>>) = 1 /\ <<r>>[1] = r /\ b + 1 - 1 = b
  OBVIOUS
<1> QED  BY <1>1 DEF Follows

LEMMA Elements ==
  /\ {<< >>[j] : j \in DOMAIN << >>} = {}
  /\ \A x : {<<x>>[j] : j \in DOMAIN <<x>>} = {x}
  /\ \A x, y : {<<x, y>>[j] : j \in DOMAIN <<x, y>>} = {x, y}
<1>1. {<< >>[j] : j \in DOMAIN << >>} = {}
  OBVIOUS
<1>2. ASSUME NEW x PROVE {<<x>>[j] : j \in DOMAIN <<x>>} = {x}
  <2>1. DOMAIN <<x>> = {1} /\ <<x>>[1] = x
    OBVIOUS
  <2> QED  BY <2>1
<1>3. ASSUME NEW x, NEW y PROVE {<<x, y>>[j] : j \in DOMAIN <<x, y>>} = {x, y}
  <2>1. DOMAIN <<x, y>> = {1, 2} /\ <<x, y>>[1] = x /\ <<x, y>>[2] = y
    OBVIOUS
  <2> QED  BY <2>1
<1> QED  BY <1>1, <1>2, <1>3

(* ProducersFirst and the list's type, in one. *)
LEMMA ListFollows ==
  TypeOK => (ProducersFirst <=> Follows(instrs, 0))
<1> SUFFICES ASSUME TypeOK PROVE ProducersFirst <=> Follows(instrs, 0)
  OBVIOUS
<1>1. instrs \in Seq(Instruction) /\ Index = 1 .. Len(instrs)
  BY DEF TypeOK, Instruction, Index
<1>2. \A i \in Index : Waits(i) = WaitsOf(instrs[i]) /\ 0 + i - 1 = i - 1
  BY <1>1 DEF Waits, WaitsOf, DepsOf
<1> QED  BY <1>1, <1>2 DEF ProducersFirst, Follows

LEMMA SameGraph ==
  ASSUME graph' = graph
  PROVE  /\ Ops' = Ops /\ InOrder' = InOrder
         /\ \A k : Op(k)' = Op(k) /\ IsFused(k)' = IsFused(k)
         /\ \A k, i : Source(k, i)' = Source(k, i) /\ Streams(k, i)' = Streams(k, i)
         /\ \A k, x : TensorOf(k, x)' = TensorOf(k, x)
<1>1. Ops' = Ops
  BY DEF Ops
<1>2. \A k, i : Op(k)' = Op(k) /\ Source(k, i)' = Source(k, i)
  BY DEF Op, Source
<1>3. InOrder' = InOrder
  BY <1>1, <1>2 DEF InOrder
<1>4. \A k : Uses(k)' = Uses(k)
  BY <1>1, <1>2 DEF Uses
<1>5. \A k, c : Fuses(k, c)' = Fuses(k, c)
  BY <1>2, <1>4 DEF Fuses
<1>6. \A k, i : Streams(k, i)' = Streams(k, i)
  BY <1>2, <1>5 DEF Streams
<1>7. \A k : IsFused(k)' = IsFused(k)
  BY <1>1, <1>5 DEF IsFused
<1>8. \A k, x : TensorOf(k, x)' = TensorOf(k, x)
  BY <1>2 DEF TensorOf
<1> QED  BY <1>1, <1>2, <1>3, <1>6, <1>7, <1>8

(* lower() is called on graph. *)
Fresh ==
  /\ IsGraph(graph)
  /\ pc = "lower" /\ at = 1 /\ instrs = << >>
  /\ storeOf = [k \in Ops |-> None]
  /\ computeOf = [k \in Ops |-> None]

LEMMA FreshInv == Fresh => Inv
<1> SUFFICES ASSUME Fresh PROVE Inv
  OBVIOUS
<1>1. TypeOK
  BY GraphFacts DEF Fresh, TypeOK, Outcomes
<1>2. Index = {}
  BY DEF Fresh, Index
<1>3. Recorded /\ ProducersFirst
  BY <1>2 DEF Fresh, Recorded, ProducersFirst
<1>4. Behind /\ ResolvesAll
  BY GraphFacts DEF Fresh, Behind, ResolvesAll
<1> QED  BY <1>1, <1>3, <1>4 DEF Inv

LEMMA InitInv == Init => Inv
BY GraphsAssumption, FreshInv DEF Init, Fresh

-----------------------------------------------------------------------------
(* What op k adds to the list when all its lookups succeed. *)

LEMMA LookedUp ==
  ASSUME Inv, pc = "lower", NEW k \in Ops, Missing(k) = {}, NEW i \in Operand,
         Source(k, i) # 0
  PROVE  IF Op(k).kind = "add" /\ Streams(k, i)
         THEN computeOf[Source(k, i)] \in Index
         ELSE storeOf[Source(k, i)] \in Index
<1>1. Source(k, i) \in Ops
  BY GraphFacts DEF Inv, TypeOK
<1> QED  BY <1>1 DEF Inv, Recorded, Missing

LEMMA InstrTyped ==
  ASSUME NEW u \in CoreUnits, NEW t \in Tensor, NEW ds \in Seq(Nat)
  PROVE  /\ Instr(u, t, ds) \in Instruction
         /\ WaitsOf(Instr(u, t, ds)) = {ds[j] : j \in DOMAIN ds}
BY DEF Instr, Instruction, WaitsOf

(* A load waits for at most one store, which is in the list. *)
LEMMA SrcDepTyped ==
  ASSUME Inv, pc = "lower", NEW k \in Ops, Missing(k) = {}, NEW i \in Operand,
         ~(Op(k).kind = "add" /\ Streams(k, i))
  PROVE  /\ SrcDep(k, i) \in Seq(Nat)
         /\ {SrcDep(k, i)[j] : j \in DOMAIN SrcDep(k, i)} \subseteq Index
<1>1. CASE Source(k, i) = 0
  BY <1>1, Elements DEF SrcDep
<1>2. CASE Source(k, i) # 0
  <2>1. storeOf[Source(k, i)] \in Index /\ Index \subseteq Nat
    BY <1>2, LookedUp DEF Index
  <2>2. SrcDep(k, i) = <<storeOf[Source(k, i)]>>
    BY <1>2 DEF SrcDep
  <2> QED  BY <2>1, <2>2, Elements
<1> QED  BY <1>1, <1>2

LEMMA MatmulFollows ==
  ASSUME Inv, pc = "lower", NEW k \in Ops, Missing(k) = {}, Op(k).kind = "matmul"
  PROVE  /\ Follows(MatmulInstrs(k, Len(instrs)), Len(instrs))
         /\ Len(MatmulInstrs(k, Len(instrs))) = IF IsFused(k) THEN 5 ELSE 6
<1> DEFINE b  == Len(instrs)
           l1 == LoadInstr(k, 1)
           l2 == LoadInstr(k, 2)
           m1 == Instr("MTE1", TensorOf(k, 1), <<b + 1>>)
           m2 == Instr("MTE1", TensorOf(k, 2), <<b + 2>>)
           mm == Instr("Cube", TensorOf(k, Work), <<b + 3, b + 4>>)
           st == Instr("FixPipe", TensorOf(k, Out), <<b + 5>>)
<1>1. b \in Nat /\ Index = 1 .. b
  BY DEF Inv, TypeOK, Index
<1>t. \A x \in Operand \cup {Out, Work} : TensorOf(k, x) \in Tensor
  BY GraphFacts DEF Inv, TypeOK
<1>2. /\ l1 \in Instruction /\ WaitsOf(l1) \subseteq 1 .. b
      /\ l2 \in Instruction /\ WaitsOf(l2) \subseteq 1 .. b
  <2>1. "MTE2" \in CoreUnits /\ 1 \in Operand /\ 2 \in Operand
    BY DEF CoreUnits, Operand
  <2> QED  BY <1>1, <1>t, <2>1, SrcDepTyped, InstrTyped DEF LoadInstr
<1>3. /\ m1 \in Instruction /\ WaitsOf(m1) = {b + 1}
      /\ m2 \in Instruction /\ WaitsOf(m2) = {b + 2}
      /\ mm \in Instruction /\ WaitsOf(mm) = {b + 3, b + 4}
      /\ st \in Instruction /\ WaitsOf(st) = {b + 5}
  <2>1. <<b + 1>> \in Seq(Nat) /\ <<b + 2>> \in Seq(Nat) /\ <<b + 3, b + 4>> \in Seq(Nat)
        /\ <<b + 5>> \in Seq(Nat)
    BY <1>1
  <2>2. {"MTE1", "Cube", "FixPipe"} \subseteq CoreUnits
    BY DEF CoreUnits
  <2>3. /\ TensorOf(k, 1) \in Tensor /\ TensorOf(k, 2) \in Tensor
        /\ TensorOf(k, Out) \in Tensor /\ TensorOf(k, Work) \in Tensor
    BY <1>t DEF Operand
  <2>4. m1 \in Instruction /\ WaitsOf(m1) = {b + 1}
    BY <2>1, <2>2, <2>3, Elements DEF Instr, Instruction, WaitsOf
  <2>5. m2 \in Instruction /\ WaitsOf(m2) = {b + 2}
    BY <2>1, <2>2, <2>3, Elements DEF Instr, Instruction, WaitsOf
  <2>6. mm \in Instruction /\ WaitsOf(mm) = {b + 3, b + 4}
    BY <2>1, <2>2, <2>3, Elements DEF Instr, Instruction, WaitsOf
  <2>7. st \in Instruction /\ WaitsOf(st) = {b + 5}
    BY <2>1, <2>2, <2>3, Elements DEF Instr, Instruction, WaitsOf
  <2> QED  BY <2>4, <2>5, <2>6, <2>7
<1> HIDE DEF l1, l2, m1, m2, mm, st
<1> DEFINE q == <<l1, l2, m1, m2, mm>>
<1>4. Follows(q, b) /\ Len(q) = 5
  BY <1>1, <1>2, <1>3 DEF Follows
<1>5. MatmulInstrs(k, b) = q \o (IF IsFused(k) THEN << >> ELSE <<st>>)
  BY DEF MatmulInstrs, StoreUnlessFused, l1, l2, m1, m2, mm, st
<1> HIDE DEF q
<1>6. CASE IsFused(k)
  <2>1. q \o << >> = q
    BY <1>4 DEF Follows
  <2> QED  BY <1>4, <1>5, <1>6, <2>1
<1>7. CASE ~IsFused(k)
  <2> DEFINE t == <<st>>
  <2>1. Follows(t, b + Len(q)) /\ Len(t) = 1
    BY <1>1, <1>3, <1>4, OneInstruction
  <2>2. MatmulInstrs(k, b) = q \o t
    BY <1>5, <1>7
  <2> HIDE DEF t
  <2>3. Follows(q \o t, b) /\ Len(q \o t) = Len(q) + Len(t)
    BY <1>1, <1>4, <2>1, Concatenation, Zenon
  <2> QED  BY <1>4, <1>7, <2>1, <2>2, <2>3
<1> QED  BY <1>6, <1>7

(* The streamed and the loaded operands of an add. *)
LEMMA LoadFollows ==
  ASSUME Inv, pc = "lower", NEW k \in Ops, Missing(k) = {}, Op(k).kind = "add",
         NEW i \in Operand, NEW b \in Nat, b >= Len(instrs)
  PROVE  Follows(Load(k, i), b) /\ Len(Load(k, i)) \in {0, 1}
<1>1. CASE Streams(k, i)
  BY <1>1 DEF Load, Follows
<1>2. CASE ~Streams(k, i)
  <2> DEFINE r == LoadInstr(k, i)
  <2>1. Index \subseteq 1 .. b
    BY DEF Inv, TypeOK, Index
  <2>2. r \in Instruction /\ WaitsOf(r) \subseteq 1 .. b
    <3>1. "MTE2" \in CoreUnits /\ TensorOf(k, i) \in Tensor
      BY GraphFacts DEF CoreUnits, Inv, TypeOK
    <3> QED  BY <1>2, <2>1, <3>1, SrcDepTyped, InstrTyped DEF LoadInstr
  <2>3. Load(k, i) = <<r>>
    BY <1>2 DEF Load
  <2> HIDE DEF r
  <2> QED  BY <2>2, <2>3, OneInstruction
<1> QED  BY <1>1, <1>2

LEMMA AddFollows ==
  ASSUME Inv, pc = "lower", NEW k \in Ops, Missing(k) = {}, Op(k).kind = "add"
  PROVE  /\ Follows(AddInstrs(k, Len(instrs)), Len(instrs))
         /\ Len(AddInstrs(k, Len(instrs))) >= 2
<1> DEFINE b     == Len(instrs)
           loads == Load(k, 1) \o Load(k, 2)
           n     == Len(loads)
           fed   == {computeOf[Source(k, i)] : i \in {i \in Operand : Streams(k, i)}}
           comp  == [unit |-> "Vector", tensor |-> TensorOf(k, Out),
                     deps |-> [j \in 1 .. n |-> b + j], streams |-> fed]
           st    == Instr("MTE3", TensorOf(k, Out), <<b + n + 1>>)
<1>1. b \in Nat /\ Index = 1 .. b
  BY DEF Inv, TypeOK, Index
<1>t. TensorOf(k, Out) \in Tensor
  BY GraphFacts DEF Inv, TypeOK
<1>2. Follows(loads, b) /\ n \in Nat
  <2>1. Follows(Load(k, 1), b) /\ Len(Load(k, 1)) \in Nat
    BY <1>1, LoadFollows DEF Operand
  <2>2. Follows(Load(k, 2), b + Len(Load(k, 1)))
    BY <1>1, <2>1, LoadFollows DEF Operand
  <2> QED  BY <1>1, <2>1, <2>2, Concatenation
<1>3. fed \subseteq Index
  BY LookedUp DEF Streams
<1> HIDE DEF loads, n, fed
<1>4. comp \in Instruction /\ WaitsOf(comp) \subseteq 1 .. b + n
  <2>1. comp.deps \in Seq(Nat) /\ DOMAIN comp.deps = 1 .. n /\ \A j \in 1 .. n : comp.deps[j] = b + j
    <3>1. [j \in 1 .. n |-> b + j] \in [1 .. n -> Nat]
      BY <1>1, <1>2
    <3> QED  BY <3>1, <1>2
  <2>2. comp.unit \in CoreUnits /\ comp.streams \in SUBSET Nat /\ comp.streams = fed
    BY <1>1, <1>3 DEF CoreUnits
  <2>3. comp \in Instruction
    BY <1>t, <2>1, <2>2 DEF Instruction
  <2>4. WaitsOf(comp) = {comp.deps[j] : j \in 1 .. n} \cup fed
    BY <2>1, <2>2 DEF WaitsOf
  <2> HIDE DEF comp
  <2>5. \A j \in 1 .. n : comp.deps[j] \in 1 .. b + n
    BY <1>1, <1>2, <2>1
  <2>6. fed \subseteq 1 .. b + n
    BY <1>1, <1>2, <1>3
  <2> QED  BY <2>3, <2>4, <2>5, <2>6
<1>5. st \in Instruction /\ WaitsOf(st) = {b + n + 1}
  <2>1. "MTE3" \in CoreUnits /\ <<b + n + 1>> \in Seq(Nat)
    BY <1>1, <1>2 DEF CoreUnits
  <2> QED  BY <1>t, <2>1, InstrTyped, Elements
<1>6. AddInstrs(k, b) = loads \o <<comp, st>>
  BY DEF AddInstrs, loads, n, fed
<1> HIDE DEF comp, st
<1>7. Follows(<<comp, st>>, b + n) /\ Len(<<comp, st>>) = 2
  BY <1>1, <1>2, <1>4, <1>5 DEF Follows
<1> QED  BY <1>1, <1>2, <1>6, <1>7, Concatenation DEF n

-----------------------------------------------------------------------------
(* The invariant survives a step that lowers op at, whichever its kind: is *)
(* is what it adds to the list, st its store's and c its computation's     *)
(* place in it.                                                            *)
LEMMA LoweredOp ==
  ASSUME Inv, [Next]_vars, pc = "lower", at \in Ops,
         NEW is, Follows(is, Len(instrs)), instrs' = instrs \o is,
         NEW c \in 1 .. Len(instrs) + Len(is),
         computeOf' = [computeOf EXCEPT ![at] = c],
         NEW st \in 1 .. Len(instrs) + Len(is),
         storeOf' = IF IsFused(at) THEN storeOf ELSE [storeOf EXCEPT ![at] = st],
         at' = at + 1, UNCHANGED <<graph, pc>>
  PROVE  Inv'
<1>1. /\ Len(instrs) \in Nat /\ Len(is) \in Nat /\ Follows(instrs', 0)
      /\ Len(instrs') = Len(instrs) + Len(is) /\ instrs' \in Seq(Instruction)
  <2>1. Follows(instrs, 0) /\ Len(instrs) \in Nat
    BY ListFollows DEF Inv, TypeOK
  <2>2. Follows(is, 0 + Len(instrs))
    BY <2>1
  <2>3. /\ Follows(instrs \o is, 0) /\ Len(is) \in Nat
        /\ Len(instrs \o is) = Len(instrs) + Len(is)
    <3>1. 0 \in Nat
      OBVIOUS
    <3> QED  BY <2>1, <2>2, <3>1, Concatenation, Zenon
  <2> QED  BY <2>1, <2>3 DEF Follows
<1>2. Ops' = Ops /\ Ops = 1 .. Len(graph.ops) /\ Len(graph.ops) \in Nat
  BY GraphFacts DEF Ops, Inv, TypeOK
<1>3. storeOf \in [Ops -> Nat \cup {None}] /\ computeOf \in [Ops -> Nat \cup {None}]
  BY DEF Inv, TypeOK
<1>4. c \in Nat \ {None} /\ st \in Nat \ {None}
  BY <1>1, NoneIsNoNumber
<1>5. /\ storeOf' \in [Ops -> Nat \cup {None}] /\ computeOf' \in [Ops -> Nat \cup {None}]
      /\ \A k \in Ops \ {at} : storeOf'[k] = storeOf[k] /\ computeOf'[k] = computeOf[k]
      /\ computeOf'[at] = c
      /\ storeOf'[at] = IF IsFused(at) THEN storeOf[at] ELSE st
  BY <1>3, <1>4
<1>6. TypeOK'
  BY <1>1, <1>2, <1>5 DEF Inv, TypeOK, Instruction
<1>7. Recorded'
  <2>1. Index \subseteq Index' /\ c \in Index' /\ st \in Index'
    BY <1>1 DEF Index
  <2> QED  BY <1>2, <1>5, <2>1 DEF Inv, Recorded
<1>8. ProducersFirst'
  <2>1. Follows(instrs, 0)'
    BY <1>1
  <2> QED  BY <1>6, <2>1, ListFollows, PTL
<1>9. Behind'
  <2> SUFFICES ASSUME NEW k \in Ops, k < at + 1
               PROVE  computeOf'[k] # None /\ (storeOf'[k] # None \/ IsFused(k))
    BY <1>2, SameGraph DEF Behind
  <2>1. CASE k = at
    BY <2>1, <1>4, <1>5
  <2>2. CASE k # at
    BY <2>2, <1>2, <1>5 DEF Inv, Behind
  <2> QED  BY <2>1, <2>2
<1>10. ResolvesAll'
  BY DEF ResolvesAll
<1> QED  BY <1>6, <1>7, <1>8, <1>9, <1>10 DEF Inv

LEMMA NextInv == Inv /\ [Next]_vars => Inv'
<1> SUFFICES ASSUME Inv, [Next]_vars PROVE Inv'
  OBVIOUS
<1>1. Len(instrs) \in Nat
  BY DEF Inv, TypeOK
<1>2. CASE LowerAdd
  <2> DEFINE is == AddInstrs(at, Len(instrs))
  <2>1. /\ pc = "lower" /\ at \in Ops /\ Missing(at) = {} /\ Op(at).kind = "add"
        /\ instrs' = instrs \o is /\ at' = at + 1 /\ UNCHANGED <<graph, pc>>
        /\ storeOf' = [storeOf EXCEPT ![at] = Len(instrs')]
        /\ computeOf' = [computeOf EXCEPT ![at] = Len(instrs') - 1]
    BY <1>2 DEF LowerAdd
  <2>2. Follows(is, Len(instrs)) /\ Len(is) >= 2
    BY <2>1, AddFollows
  <2> HIDE DEF is
  <2>3. /\ Len(instrs') = Len(instrs) + Len(is) /\ Len(is) \in Nat
    BY <2>1, <2>2 DEF Inv, TypeOK, Follows, Instruction
  <2>4. Len(instrs') \in 1 .. Len(instrs) + Len(is) /\ Len(instrs') - 1 \in 1 .. Len(instrs) + Len(is)
    BY <2>2, <2>3, <1>1
  <2>5. ~IsFused(at)
    BY <2>1 DEF IsFused, Fuses
  <2> QED  BY <2>1, <2>2, <2>4, <2>5, LoweredOp
<1>3. CASE LowerMatmul
  <2> DEFINE is == MatmulInstrs(at, Len(instrs))
             n  == Len(instrs)
             st == IF IsFused(at) THEN n + 5 ELSE n + 6
  <2>1. /\ pc = "lower" /\ at \in Ops /\ Missing(at) = {} /\ Op(at).kind = "matmul"
        /\ instrs' = instrs \o is /\ at' = at + 1 /\ UNCHANGED <<graph, pc>>
        /\ storeOf' = IF IsFused(at) THEN storeOf ELSE [storeOf EXCEPT ![at] = st]
        /\ computeOf' = [computeOf EXCEPT ![at] = n + 5]
    BY <1>3 DEF LowerMatmul
  <2>2. Follows(is, n) /\ Len(is) = IF IsFused(at) THEN 5 ELSE 6
    BY <2>1, MatmulFollows
  <2>3. st \in 1 .. n + Len(is) /\ n + 5 \in 1 .. n + Len(is)
    BY <2>2, <1>1
  <2> HIDE DEF is, st
  <2> QED  BY <2>1, <2>2, <2>3, LoweredOp
<1>4. CASE Return
  <2>1. pc' = "done" /\ pc = "lower" /\ UNCHANGED <<graph, at, instrs, storeOf, computeOf>>
    BY <1>4 DEF Return
  <2>2. TypeOK' /\ Behind'
    BY <2>1, SameGraph DEF Inv, TypeOK, Behind, Outcomes
  <2>3. Recorded' /\ ProducersFirst' /\ ResolvesAll'
    BY <2>1, SameGraph DEF Inv, Recorded, ProducersFirst, ResolvesAll, Index, Waits, DepsOf
  <2> QED  BY <2>2, <2>3 DEF Inv
<1>5. ASSUME NEW e \in Outcomes \ {"done"}, Raise(e), InOrder => e # "KeyError"
      PROVE  Inv'
  <2>1. pc' = e /\ instrs' = << >> /\ UNCHANGED <<graph, at, storeOf, computeOf>>
    BY <1>5 DEF Raise
  <2>2. TypeOK' /\ Behind'
    BY <2>1, SameGraph DEF Inv, TypeOK, Behind, Outcomes
  <2>3. ProducersFirst' /\ Recorded' /\ ResolvesAll'
    BY <2>1, <1>5, SameGraph DEF ProducersFirst, Recorded, ResolvesAll, Index, Outcomes
  <2> QED  BY <2>2, <2>3 DEF Inv
<1>6. CASE RaiseValueError
  BY <1>5, <1>6 DEF RaiseValueError, Outcomes
<1>7. CASE RaiseKeyError
  <2>1. InOrder => FALSE
    <3> SUFFICES ASSUME InOrder PROVE FALSE
      OBVIOUS
    <3>1. at \in Ops /\ pc = "lower"
      BY <1>7 DEF RaiseKeyError
    <3>2. PICK i \in Operand : i \in Missing(at)
      BY <1>7 DEF RaiseKeyError, Missing
    <3> DEFINE s == Source(at, i)
    <3>3. s # 0 /\ s < at /\ s \in Ops
      BY <3>1, <3>2, GraphFacts DEF Missing, InOrder, Inv, TypeOK
    <3>4. computeOf[s] # None /\ (storeOf[s] # None \/ IsFused(s))
      BY <3>3 DEF Inv, Behind
    <3>5. ~(Op(at).kind = "add" /\ Streams(at, i)) /\ storeOf[s] = None
      BY <3>2, <3>4 DEF Missing
    <3>6. PICK x \in Ops : Fuses(s, x)
      BY <3>4, <3>5 DEF IsFused
    <3>7. <<at, i>> \in Uses(s)
      BY <3>1 DEF Uses
    <3>8. x = at
      BY <3>6, <3>7 DEF Fuses
    <3>9. Streams(at, i) /\ Op(at).kind = "add"
      BY <3>3, <3>6, <3>8 DEF Streams, Fuses
    <3> QED  BY <3>5, <3>9
  <2> QED  BY <1>5, <1>7, <2>1 DEF RaiseKeyError, Outcomes
<1>8. CASE RaiseNotImplemented
  BY <1>5, <1>8 DEF RaiseNotImplemented, Outcomes
<1>9. CASE UNCHANGED vars
  <2>1. UNCHANGED <<graph, pc, at, instrs, storeOf, computeOf>>
    BY <1>9 DEF vars
  <2>2. TypeOK' /\ Behind'
    BY <2>1, SameGraph DEF Inv, TypeOK, Behind
  <2>3. Recorded' /\ ProducersFirst' /\ ResolvesAll'
    BY <2>1, SameGraph DEF Inv, Recorded, ProducersFirst, ResolvesAll, Index, Waits, DepsOf
  <2> QED  BY <2>2, <2>3 DEF Inv
<1> QED  BY <1>2, <1>3, <1>4, <1>6, <1>7, <1>8, <1>9 DEF Next, Finished

-----------------------------------------------------------------------------
(* Nothing is streamed on a chip without the link, so whatever is streamed *)
(* has the link's latency to wait for.                                     *)
Plain == {r \in Instruction : r.streams = {}}

Unlinked == graph.link = None => instrs \in Seq(Plain)

LEMMA InstrPlain ==
  ASSUME NEW u \in CoreUnits, NEW t \in Tensor, NEW ds \in Seq(Nat)
  PROVE  Instr(u, t, ds) \in Plain
<1>1. Instr(u, t, ds).streams = {}
  BY DEF Instr
<1> QED  BY <1>1, InstrTyped DEF Plain

LEMMA FreshUnlinked == Fresh => Unlinked
BY DEF Fresh, Unlinked

LEMMA UnlinkedNext == Inv /\ Unlinked /\ [Next]_vars => Unlinked'
<1> SUFFICES ASSUME Inv, Unlinked, [Next]_vars, graph'.link = None
             PROVE  instrs' \in Seq(Plain)
  BY DEF Unlinked
<1>1. graph' = graph /\ graph.link = None
  BY DEF Next, vars, LowerAdd, LowerMatmul, Return, RaiseValueError, RaiseKeyError,
         RaiseNotImplemented, Raise, Finished
<1>2. instrs \in Seq(Plain) /\ Len(instrs) \in Nat
  BY <1>1 DEF Unlinked, Inv, TypeOK
<1>3. \A k, i : ~Streams(k, i)
  BY <1>1 DEF Streams, Fuses
<1>t. at \in Ops => \A x \in Operand \cup {Out, Work} : TensorOf(at, x) \in Tensor
  BY GraphFacts DEF Inv, TypeOK
<1>4. \A u \in CoreUnits : \A t \in Tensor : \A ds \in Seq(Nat) :
        <<Instr(u, t, ds)>> \in Seq(Plain)
  <2>1. \A r \in Plain : <<r>> \in Seq(Plain)
    OBVIOUS
  <2> QED  BY <2>1, InstrPlain
<1>5. \A s, t \in Seq(Plain) : s \o t \in Seq(Plain)
  OBVIOUS
<1>6. CASE LowerAdd
  <2>1. /\ pc = "lower" /\ at \in Ops /\ Missing(at) = {} /\ Op(at).kind = "add"
        /\ instrs' = instrs \o AddInstrs(at, Len(instrs))
    BY <1>6 DEF LowerAdd
  <2> DEFINE b     == Len(instrs)
             loads == Load(at, 1) \o Load(at, 2)
             n     == Len(loads)
             fed   == {computeOf[Source(at, i)] : i \in {i \in Operand : Streams(at, i)}}
             comp  == [unit |-> "Vector", tensor |-> TensorOf(at, Out),
                       deps |-> [j \in 1 .. n |-> b + j], streams |-> fed]
             st    == Instr("MTE3", TensorOf(at, Out), <<b + n + 1>>)
  <2>2. loads \in Seq(Plain) /\ n \in Nat
    <3>1. \A i \in Operand : Load(at, i) \in Seq(Plain)
      <4>1. \A i \in Operand : SrcDep(at, i) \in Seq(Nat)
        BY <1>3, <2>1, SrcDepTyped
      <4>2. \A i \in Operand : <<LoadInstr(at, i)>> \in Seq(Plain)
        BY <1>4, <1>t, <2>1, <4>1 DEF CoreUnits, LoadInstr
      <4> QED  BY <1>3, <4>2 DEF Load
    <3>2. 1 \in Operand /\ 2 \in Operand
      BY DEF Operand
    <3>3. loads \in Seq(Plain)
      BY <1>5, <3>1, <3>2
    <3> QED  BY <3>3
  <2>3. fed = {}
    BY <1>3
  <2> HIDE DEF loads, n, fed, b
  <2>4. comp \in Plain
    <3>1. b \in Nat
      BY <1>2 DEF b
    <3>2. [j \in 1 .. n |-> b + j] \in [1 .. n -> Nat]
      BY <2>2, <3>1
    <3>3. [j \in 1 .. n |-> b + j] \in Seq(Nat)
      BY <2>2, <3>2
    <3> QED  BY <1>t, <2>1, <2>3, <3>3 DEF Plain, Instruction, CoreUnits
  <2>5. st \in Plain
    <3>1. <<b + n + 1>> \in Seq(Nat)
      BY <1>2, <2>2 DEF b
    <3> QED  BY <1>t, <2>1, <3>1, InstrPlain DEF CoreUnits
  <2>6. AddInstrs(at, b) = loads \o <<comp, st>>
    BY DEF AddInstrs, loads, n, fed
  <2> HIDE DEF comp, st
  <2>7. <<comp, st>> \in Seq(Plain)
    BY <2>4, <2>5
  <2> QED  BY <1>2, <1>5, <2>1, <2>2, <2>6, <2>7 DEF b
<1>7. CASE LowerMatmul
  <2> DEFINE b  == Len(instrs)
             l1 == LoadInstr(at, 1)
             l2 == LoadInstr(at, 2)
             m1 == Instr("MTE1", TensorOf(at, 1), <<b + 1>>)
             m2 == Instr("MTE1", TensorOf(at, 2), <<b + 2>>)
             mm == Instr("Cube", TensorOf(at, Work), <<b + 3, b + 4>>)
             st == Instr("FixPipe", TensorOf(at, Out), <<b + 5>>)
  <2>1. /\ pc = "lower" /\ at \in Ops /\ Missing(at) = {} /\ Op(at).kind = "matmul"
        /\ instrs' = instrs \o MatmulInstrs(at, b)
    BY <1>7 DEF LowerMatmul
  <2>2. l1 \in Plain /\ l2 \in Plain
    <3>1. SrcDep(at, 1) \in Seq(Nat) /\ SrcDep(at, 2) \in Seq(Nat)
      BY <1>3, <2>1, SrcDepTyped DEF Operand
    <3> QED  BY <1>t, <2>1, <3>1, InstrPlain DEF CoreUnits, LoadInstr, Operand
  <2>3. m1 \in Plain /\ m2 \in Plain /\ mm \in Plain /\ st \in Plain
    <3>1. <<b + 1>> \in Seq(Nat) /\ <<b + 2>> \in Seq(Nat) /\ <<b + 3, b + 4>> \in Seq(Nat)
          /\ <<b + 5>> \in Seq(Nat)
      BY <1>2
    <3>2. m1 \in Plain
      BY <1>t, <2>1, <3>1 DEF Instr, Instruction, Plain, CoreUnits, Operand
    <3>3. m2 \in Plain
      BY <1>t, <2>1, <3>1 DEF Instr, Instruction, Plain, CoreUnits, Operand
    <3>4. mm \in Plain
      BY <1>t, <2>1, <3>1 DEF Instr, Instruction, Plain, CoreUnits, Operand
    <3>5. st \in Plain
      BY <1>t, <2>1, <3>1 DEF Instr, Instruction, Plain, CoreUnits, Operand
    <3> QED  BY <3>2, <3>3, <3>4, <3>5
  <2>4. MatmulInstrs(at, b) = <<l1, l2, m1, m2, mm>> \o <<st>>
    <3>1. ~IsFused(at)
      BY <1>1 DEF IsFused, Fuses
    <3> QED  BY <3>1 DEF MatmulInstrs, StoreUnlessFused
  <2> HIDE DEF l1, l2, m1, m2, mm, st
  <2>5. <<l1, l2, m1, m2, mm>> \in Seq(Plain) /\ <<st>> \in Seq(Plain)
    BY <2>2, <2>3
  <2>6. MatmulInstrs(at, b) \in Seq(Plain)
    <3>1. <<l1, l2, m1, m2, mm>> \o <<st>> \in Seq(Plain)
      BY <1>5, <2>5
    <3> QED  BY <2>4, <3>1
  <2> QED  BY <1>2, <1>5, <2>1, <2>6
<1>8. instrs' = << >> \/ instrs' = instrs => instrs' \in Seq(Plain)
  <2>1. << >> \in Seq(Plain)
    OBVIOUS
  <2> QED  BY <1>2, <2>1
<1> QED
  BY <1>6, <1>7, <1>8 DEF Next, vars, Return, RaiseValueError, RaiseKeyError,
                          RaiseNotImplemented, Raise, Finished

-----------------------------------------------------------------------------
(* What concatenation and short lists are made of. *)

LEMMA Pieces ==
  ASSUME NEW X, NEW s \in Seq(X), NEW t \in Seq(X)
  PROVE  /\ s \o t \in Seq(X) /\ Len(s) \in Nat /\ Len(t) \in Nat
         /\ Len(s \o t) = Len(s) + Len(t)
         /\ \A i \in 1 .. Len(s) : (s \o t)[i] = s[i]
         /\ \A i \in 1 .. Len(t) : (s \o t)[Len(s) + i] = t[i]
OBVIOUS

LEMMA ShortLists ==
  ASSUME NEW X, NEW a \in X, NEW b \in X, NEW c \in X, NEW d \in X, NEW e \in X
  PROVE  /\ << >> \in Seq(X) /\ Len(<< >>) = 0
         /\ <<a>> \in Seq(X) /\ Len(<<a>>) = 1 /\ <<a>>[1] = a
         /\ <<a, b>> \in Seq(X) /\ Len(<<a, b>>) = 2
         /\ <<a, b>>[1] = a /\ <<a, b>>[2] = b
         /\ <<a, b, c, d, e>> \in Seq(X) /\ Len(<<a, b, c, d, e>>) = 5
         /\ <<a, b, c, d, e>>[1] = a /\ <<a, b, c, d, e>>[2] = b
         /\ <<a, b, c, d, e>>[3] = c /\ <<a, b, c, d, e>>[4] = d
         /\ <<a, b, c, d, e>>[5] = e
OBVIOUS

-----------------------------------------------------------------------------
(* The instructions op k adds to a list of b. *)
OpInstrs(k, b) == IF Op(k).kind = "add" THEN AddInstrs(k, b) ELSE MatmulInstrs(k, b)

(* How many instructions of the list come before those of op k, and the    *)
(* places of these.                                                        *)
Loads(k) == Load(k, 1) \o Load(k, 2)
Size(k)  == IF Op(k).kind = "add" THEN Len(Loads(k)) + 2 ELSE IF IsFused(k) THEN 5 ELSE 6
Base(k)  == computeOf[k] - (IF Op(k).kind = "add" THEN Len(Loads(k)) + 1 ELSE 5)
End(k)   == Base(k) + Size(k)
Part(k)  == Base(k) + 1 .. End(k)

(* Op k has been lowered: the list holds what it adds, the dicts say where,*)
(* and its sources were lowered before it.                                 *)
Emitted(k) ==
  /\ Op(k).kind \in {"add", "matmul"}
  /\ computeOf[k] \in Nat /\ Base(k) \in Nat /\ End(k) <= Len(instrs)
  /\ storeOf[k] = IF IsFused(k) THEN None ELSE computeOf[k] + 1
  /\ \A i \in Operand : Source(k, i) < k
  /\ \A b \in {Base(k)} :
       \A m \in 1 .. Size(k) : instrs[b + m] = OpInstrs(k, b)[m]

(* The list is what the ops behind the loop added to it, one after the     *)
(* other, and nothing else.                                                *)
Laid ==
  pc \in {"lower", "done"} =>
    /\ \A k \in Ops : k < at => Emitted(k)
    /\ \A k \in Ops : k >= at => storeOf[k] = None /\ computeOf[k] = None
    /\ \A j, k \in Ops : j < k /\ k < at => End(j) <= Base(k)
    /\ \A i \in Index : \E k \in Ops : k < at /\ i \in Part(k)
    /\ pc = "done" => at = Len(graph.ops) + 1

(* What Lowering's AddInstrs and MatmulInstrs list, place by place.        *)
LEMMA MatmulShape ==
  ASSUME NEW k, NEW b \in Nat
  PROVE  LET is == MatmulInstrs(k, b)
         IN  /\ Len(is) = IF IsFused(k) THEN 5 ELSE 6
             /\ is[1] = LoadInstr(k, 1) /\ is[2] = LoadInstr(k, 2)
             /\ is[3] = Instr("MTE1", TensorOf(k, 1), <<b + 1>>)
             /\ is[4] = Instr("MTE1", TensorOf(k, 2), <<b + 2>>)
             /\ is[5] = Instr("Cube", TensorOf(k, Work), <<b + 3, b + 4>>)
             /\ ~IsFused(k) => is[6] = Instr("FixPipe", TensorOf(k, Out), <<b + 5>>)
<1> DEFINE l1 == LoadInstr(k, 1)
           l2 == LoadInstr(k, 2)
           m1 == Instr("MTE1", TensorOf(k, 1), <<b + 1>>)
           m2 == Instr("MTE1", TensorOf(k, 2), <<b + 2>>)
           mm == Instr("Cube", TensorOf(k, Work), <<b + 3, b + 4>>)
           st == Instr("FixPipe", TensorOf(k, Out), <<b + 5>>)
           X  == {l1, l2, m1, m2, mm, st}
           q  == <<l1, l2, m1, m2, mm>>
           t  == IF IsFused(k) THEN << >> ELSE <<st>>
<1>1. MatmulInstrs(k, b) = q \o t
  BY DEF MatmulInstrs, StoreUnlessFused
<1> HIDE DEF l1, l2, m1, m2, mm, st
<1>2. /\ q \in Seq(X) /\ Len(q) = 5 /\ t \in Seq(X) /\ Len(t) = IF IsFused(k) THEN 0 ELSE 1
      /\ q[1] = l1 /\ q[2] = l2 /\ q[3] = m1 /\ q[4] = m2 /\ q[5] = mm
      /\ ~IsFused(k) => t[1] = st
  <2>1. l1 \in X /\ l2 \in X /\ m1 \in X /\ m2 \in X /\ mm \in X /\ st \in X
    OBVIOUS
  <2> HIDE DEF X
  <2>2. /\ q \in Seq(X) /\ Len(q) = 5
        /\ q[1] = l1 /\ q[2] = l2 /\ q[3] = m1 /\ q[4] = m2 /\ q[5] = mm
    BY <2>1, ShortLists, Zenon
  <2>3. /\ << >> \in Seq(X) /\ Len(<< >>) = 0
        /\ <<st>> \in Seq(X) /\ Len(<<st>>) = 1 /\ <<st>>[1] = st
    BY <2>1
  <2>4. CASE IsFused(k)
    BY <2>2, <2>3, <2>4
  <2>5. CASE ~IsFused(k)
    BY <2>2, <2>3, <2>5
  <2> QED  BY <2>4, <2>5
<1> HIDE DEF q, t, X
<1>3. /\ Len(q \o t) = 5 + Len(t)
      /\ \A i \in 1 .. 5 : (q \o t)[i] = q[i]
      /\ \A i \in 1 .. Len(t) : (q \o t)[5 + i] = t[i]
  <2>1. q \in Seq(X) /\ t \in Seq(X)
    BY <1>2
  <2>2. /\ Len(q \o t) = Len(q) + Len(t)
        /\ \A i \in 1 .. Len(q) : (q \o t)[i] = q[i]
        /\ \A i \in 1 .. Len(t) : (q \o t)[Len(q) + i] = t[i]
    BY <2>1, Pieces
  <2> QED  BY <1>2, <2>2
<1>4. ~IsFused(k) => (q \o t)[6] = st
  BY <1>2, <1>3
<1>5. /\ Len(q \o t) = IF IsFused(k) THEN 5 ELSE 6
      /\ (q \o t)[1] = l1 /\ (q \o t)[2] = l2 /\ (q \o t)[3] = m1
      /\ (q \o t)[4] = m2 /\ (q \o t)[5] = mm
  BY <1>2, <1>3
<1> QED  BY <1>1, <1>4, <1>5 DEF l1, l2, m1, m2, mm, st

(* The operands of an add that are loaded, in the order of their loads.    *)
LEMMA LoadPlaces ==
  ASSUME NEW k
  PROVE  LET n == Len(Loads(k))
         IN  /\ Loads(k) \in Seq({LoadInstr(k, i) : i \in Operand})
             /\ n = (IF Streams(k, 1) THEN 0 ELSE 1) + (IF Streams(k, 2) THEN 0 ELSE 1)
             /\ ~Streams(k, 1) => Loads(k)[1] = LoadInstr(k, 1)
             /\ ~Streams(k, 2) => Loads(k)[n] = LoadInstr(k, 2)
<1> DEFINE l(i) == LoadInstr(k, i)
           X == {l(i) : i \in Operand}
<1>1. Operand = {1, 2} /\ l(1) \in X /\ l(2) \in X
  BY DEF Operand
<1>2. \A i \in Operand : Load(k, i) = IF Streams(k, i) THEN << >> ELSE <<l(i)>>
  BY DEF Load
<1> HIDE DEF l, X
<1>3. \A i \in Operand : Load(k, i) \in Seq(X) /\ Len(Load(k, i)) = IF Streams(k, i) THEN 0 ELSE 1
  <2> SUFFICES ASSUME NEW i \in Operand
               PROVE  Load(k, i) \in Seq(X) /\ Len(Load(k, i)) = IF Streams(k, i) THEN 0 ELSE 1
    OBVIOUS
  <2>1. l(i) \in X
    BY <1>1
  <2>2. << >> \in Seq(X) /\ Len(<< >>) = 0 /\ <<l(i)>> \in Seq(X) /\ Len(<<l(i)>>) = 1
    BY <2>1, ShortLists, Zenon
  <2> QED  BY <1>2, <2>2
<1>4. /\ Loads(k) \in Seq(X) /\ Len(Loads(k)) = Len(Load(k, 1)) + Len(Load(k, 2))
      /\ \A i \in 1 .. Len(Load(k, 1)) : Loads(k)[i] = Load(k, 1)[i]
      /\ \A i \in 1 .. Len(Load(k, 2)) : Loads(k)[Len(Load(k, 1)) + i] = Load(k, 2)[i]
  <2>1. Load(k, 1) \in Seq(X) /\ Load(k, 2) \in Seq(X)
    BY <1>1, <1>3
  <2> QED  BY <2>1, Pieces DEF Loads
<1>5. Len(Loads(k)) = (IF Streams(k, 1) THEN 0 ELSE 1) + (IF Streams(k, 2) THEN 0 ELSE 1)
  BY <1>1, <1>3, <1>4
<1>6. ASSUME ~Streams(k, 1) PROVE Loads(k)[1] = l(1)
  <2>1. Load(k, 1) = <<l(1)>> /\ Len(Load(k, 1)) = 1
    BY <1>1, <1>2, <1>3, <1>6
  <2>2. <<l(1)>>[1] = l(1)
    OBVIOUS
  <2> QED  BY <1>4, <2>1, <2>2
<1>7. ASSUME ~Streams(k, 2) PROVE Loads(k)[Len(Loads(k))] = l(2)
  <2>1. Load(k, 2) = <<l(2)>> /\ Len(Load(k, 2)) = 1
    BY <1>1, <1>2, <1>3, <1>7
  <2>2. <<l(2)>>[1] = l(2) /\ 1 \in 1 .. 1
    OBVIOUS
  <2>3. Loads(k)[Len(Load(k, 1)) + 1] = l(2)
    BY <1>4, <2>1, <2>2
  <2> QED  BY <1>4, <2>1, <2>3
<1> QED  BY <1>4, <1>5, <1>6, <1>7 DEF l, X

LEMMA LoadsShape ==
  ASSUME NEW k
  PROVE  LET n == Len(Loads(k))
         IN  /\ n \in 0 .. 2
             /\ Loads(k) \in Seq({LoadInstr(k, i) : i \in Operand})
             /\ \A m \in 1 .. n : \E i \in Operand :
                  ~Streams(k, i) /\ Loads(k)[m] = LoadInstr(k, i)
             /\ \A i \in Operand : ~Streams(k, i) =>
                  \E m \in 1 .. n : Loads(k)[m] = LoadInstr(k, i)
<1> DEFINE n == Len(Loads(k))
           l(i) == LoadInstr(k, i)
<1>1. Operand = {1, 2} /\ 1 \in Operand /\ 2 \in Operand
  BY DEF Operand
<1>2. /\ Loads(k) \in Seq({LoadInstr(k, i) : i \in Operand})
      /\ n = (IF Streams(k, 1) THEN 0 ELSE 1) + (IF Streams(k, 2) THEN 0 ELSE 1)
      /\ ~Streams(k, 1) => Loads(k)[1] = l(1)
      /\ ~Streams(k, 2) => Loads(k)[n] = l(2)
  BY LoadPlaces
<1> HIDE DEF n, l
<1>3. /\ n \in 0 .. 2
      /\ ~Streams(k, 1) => 1 \in 1 .. n
      /\ ~Streams(k, 2) => n \in 1 .. n
  BY <1>2
<1>4. \A i \in Operand : ~Streams(k, i) => \E m \in 1 .. n : Loads(k)[m] = l(i)
  BY <1>1, <1>2, <1>3
<1>5. ASSUME NEW m \in 1 .. n
      PROVE  \E i \in Operand : ~Streams(k, i) /\ Loads(k)[m] = l(i)
  <2>1. CASE ~Streams(k, 1) /\ m = 1
    BY <1>1, <1>2, <2>1
  <2>2. CASE ~Streams(k, 2) /\ m = n
    BY <1>1, <1>2, <2>2
  <2>3. (~Streams(k, 1) /\ m = 1) \/ (~Streams(k, 2) /\ m = n)
    BY <1>2
  <2> QED  BY <2>1, <2>2, <2>3
<1> QED  BY <1>2, <1>3, <1>4, <1>5 DEF n, l

(* What the computation of op k is fed by stream. *)
Streamed(k) == {computeOf[Source(k, i)] : i \in {i \in Operand : Streams(k, i)}}

LEMMA AddShape ==
  ASSUME NEW k, NEW b \in Nat
  PROVE  LET is == AddInstrs(k, b)
             n  == Len(Loads(k))
         IN  /\ Len(is) = n + 2
             /\ \A m \in 1 .. n : is[m] = Loads(k)[m]
             /\ is[n + 1] = [unit |-> "Vector", tensor |-> TensorOf(k, Out),
                             deps |-> [j \in 1 .. n |-> b + j],
                             streams |-> Streamed(k)]
             /\ is[n + 2] = Instr("MTE3", TensorOf(k, Out), <<b + n + 1>>)
<1> DEFINE n == Len(Loads(k))
           v == [unit |-> "Vector", tensor |-> TensorOf(k, Out),
                 deps |-> [j \in 1 .. n |-> b + j], streams |-> Streamed(k)]
           st == Instr("MTE3", TensorOf(k, Out), <<b + n + 1>>)
           Y == {LoadInstr(k, i) : i \in Operand}
           X == Y \cup {v, st}
           t == <<v, st>>
<1>1. AddInstrs(k, b) = Loads(k) \o t
  BY DEF AddInstrs, Loads, Streamed
<1>2. Loads(k) \in Seq(Y) /\ n \in Nat
  BY LoadsShape
<1> HIDE DEF v, st, Y
<1>3. t \in Seq(X) /\ Len(t) = 2 /\ t[1] = v /\ t[2] = st /\ Loads(k) \in Seq(X)
  <2>1. v \in X /\ st \in X /\ Y \subseteq X
    OBVIOUS
  <2>2. Loads(k) \in Seq(X)
    BY <1>2, <2>1
  <2> HIDE DEF X
  <2> QED  BY <2>1, <2>2, ShortLists, Zenon
<1> HIDE DEF t, X
<1>4. /\ Len(Loads(k) \o t) = n + 2
      /\ \A i \in 1 .. n : (Loads(k) \o t)[i] = Loads(k)[i]
      /\ \A i \in 1 .. 2 : (Loads(k) \o t)[n + i] = t[i]
  <2>1. Loads(k) \in Seq(X) /\ t \in Seq(X)
    BY <1>3
  <2>2. /\ Len(Loads(k) \o t) = n + Len(t)
        /\ \A i \in 1 .. n : (Loads(k) \o t)[i] = Loads(k)[i]
        /\ \A i \in 1 .. Len(t) : (Loads(k) \o t)[n + i] = t[i]
    BY <2>1, Pieces
  <2> QED  BY <1>3, <2>2
<1>5. /\ (Loads(k) \o t)[n + 1] = v
      /\ (Loads(k) \o t)[n + 2] = st
  BY <1>3, <1>4
<1> QED  BY <1>1, <1>4, <1>5 DEF v, st

-----------------------------------------------------------------------------
(* The layout survives every step. *)

(* What op k adds depends on the dicts at its sources only.                *)
LEMMA SameSources ==
  ASSUME graph' = graph, NEW k,
         \A i \in Operand : Source(k, i) # 0 =>
           /\ storeOf'[Source(k, i)] = storeOf[Source(k, i)]
           /\ computeOf'[Source(k, i)] = computeOf[Source(k, i)]
  PROVE  Loads(k)' = Loads(k) /\ \A b : OpInstrs(k, b)' = OpInstrs(k, b)
<1>1. 1 \in Operand /\ 2 \in Operand
  BY DEF Operand
<1>2. \A i \in Operand : SrcDep(k, i)' = SrcDep(k, i)
  BY SameGraph DEF SrcDep
<1>3. \A i \in Operand : Load(k, i)' = Load(k, i)
  BY <1>2, SameGraph DEF Load, LoadInstr, Instr
<1>4. Loads(k)' = Loads(k)
  BY <1>1, <1>3 DEF Loads
<1>5. Streamed(k)' = Streamed(k)
  <2>1. \A i \in Operand : /\ Streams(k, i)' = Streams(k, i)
                           /\ Streams(k, i) => computeOf'[Source(k, i)'] = computeOf[Source(k, i)]
    BY SameGraph DEF Streams
  <2> QED  BY <2>1 DEF Streamed
<1>6. \A b : AddInstrs(k, b)' = AddInstrs(k, b)
  <2>1. \A b : AddInstrs(k, b) =
          Loads(k) \o <<[unit    |-> "Vector",
                         tensor  |-> TensorOf(k, Out),
                         deps    |-> [j \in 1 .. Len(Loads(k)) |-> b + j],
                         streams |-> Streamed(k)],
                        Instr("MTE3", TensorOf(k, Out), <<b + Len(Loads(k)) + 1>>)>>
    BY DEF AddInstrs, Loads, Streamed
  <2>2. \A b : AddInstrs(k, b)' =
          Loads(k)' \o <<[unit    |-> "Vector",
                         tensor  |-> TensorOf(k, Out),
                         deps    |-> [j \in 1 .. Len(Loads(k)') |-> b + j],
                         streams |-> Streamed(k)'],
                        Instr("MTE3", TensorOf(k, Out), <<b + Len(Loads(k)') + 1>>)>>
    BY SameGraph DEF AddInstrs, Loads, Streamed, Instr
  <2> QED  BY <1>4, <1>5, <2>1, <2>2
<1>7. \A b : MatmulInstrs(k, b)' = MatmulInstrs(k, b)
  <2>1. \A b : StoreUnlessFused(k, b)' = StoreUnlessFused(k, b)
    BY SameGraph DEF StoreUnlessFused, Instr
  <2> QED  BY <1>1, <1>2, <2>1, SameGraph DEF MatmulInstrs, LoadInstr, Instr
<1>8. Op(k)' = Op(k)
  BY SameGraph
<1> QED  BY <1>4, <1>6, <1>7, <1>8 DEF OpInstrs

(* How far the computation of op k is from the start of its instructions. *)
LEMMA OpShape ==
  ASSUME NEW k, NEW b \in Nat, Op(k).kind \in {"add", "matmul"}
  PROVE  /\ Len(Loads(k)) \in 0 .. 2 /\ Size(k) \in Nat
         /\ Len(OpInstrs(k, b)) = Size(k)
<1>1. Op(k).kind = "add" => OpInstrs(k, b) = AddInstrs(k, b)
  BY DEF OpInstrs
<1>2. Op(k).kind = "matmul" => OpInstrs(k, b) = MatmulInstrs(k, b)
  BY DEF OpInstrs
<1>3. Len(Loads(k)) \in 0 .. 2
  BY LoadsShape
<1>4. Len(AddInstrs(k, b)) = Len(Loads(k)) + 2
  BY AddShape
<1>5. Len(MatmulInstrs(k, b)) = IF IsFused(k) THEN 5 ELSE 6
  BY MatmulShape
<1> QED  BY <1>1, <1>2, <1>3, <1>4, <1>5 DEF Size

(* The op the loop is at reads ops behind it. *)
LEMMA SourcesBehind ==
  ASSUME Inv, Laid, pc = "lower", at \in Ops, Missing(at) = {}, NEW i \in Operand
  PROVE  Source(at, i) < at
<1>1. at \in Nat /\ at > 0 /\ Source(at, i) \in Int
  BY GraphFacts DEF Inv, TypeOK
<1>2. CASE Source(at, i) = 0
  BY <1>1, <1>2
<1>3. CASE Source(at, i) # 0
  <2>1. computeOf[Source(at, i)] # None \/ storeOf[Source(at, i)] # None
    BY <1>3 DEF Missing
  <2>2. Source(at, i) \in Ops
    BY <1>3, GraphFacts DEF Inv, TypeOK
  <2>3. ~(Source(at, i) >= at)
    BY <2>1, <2>2 DEF Laid
  <2> QED  BY <1>1, <2>3
<1> QED  BY <1>2, <1>3

(* The layout survives lowering one op: c is its computation's place.       *)
LEMMA LaidOp ==
  ASSUME Inv, Laid, pc = "lower", NEW a \in Ops, a = at, Op(a).kind \in {"add", "matmul"},
         Missing(a) = {},
         NEW is, is = OpInstrs(a, Len(instrs)), Follows(is, Len(instrs)),
         instrs' = instrs \o is,
         NEW c,
         c = Len(instrs) + (IF Op(a).kind = "add" THEN Len(Loads(a)) + 1 ELSE 5),
         computeOf' = [computeOf EXCEPT ![a] = c],
         storeOf' = IF IsFused(a) THEN storeOf ELSE [storeOf EXCEPT ![a] = c + 1],
         at' = a + 1, UNCHANGED <<graph, pc>>
  PROVE  Laid'
<1> DEFINE n == Len(instrs)
<1>1. n \in Nat /\ instrs \in Seq(Instruction) /\ is \in Seq(Instruction)
  BY DEF Inv, TypeOK, Instruction, Follows
<1>2. /\ Len(is) \in Nat /\ Len(instrs') = n + Len(is)
      /\ \A i \in 1 .. n : instrs'[i] = instrs[i]
      /\ \A i \in 1 .. Len(is) : instrs'[n + i] = is[i]
  <2>1. /\ Len(is) \in Nat /\ Len(instrs \o is) = n + Len(is)
        /\ \A i \in 1 .. n : (instrs \o is)[i] = instrs[i]
        /\ \A i \in 1 .. Len(is) : (instrs \o is)[n + i] = is[i]
    BY <1>1, Pieces
  <2> QED  BY <2>1
<1>3. Ops' = Ops /\ Ops = 1 .. Len(graph.ops) /\ Len(graph.ops) \in Nat /\ a \in Nat
  BY GraphFacts DEF Ops, Inv, TypeOK
<1>4. c \in Nat /\ Len(Loads(a)) \in Nat
  BY <1>1, LoadsShape
<1>5. /\ \A k \in Ops \ {a} : storeOf'[k] = storeOf[k] /\ computeOf'[k] = computeOf[k]
      /\ computeOf'[a] = c
      /\ storeOf'[a] = IF IsFused(a) THEN None ELSE c + 1
  <2>1. storeOf \in [Ops -> Nat \cup {None}] /\ computeOf \in [Ops -> Nat \cup {None}]
    BY DEF Inv, TypeOK
  <2>2. storeOf[a] = None
    BY <1>3 DEF Laid
  <2> QED  BY <2>1, <2>2
<1>6. \A k \in Ops : k <= a =>
        \A i \in Operand : Source(k, i) < a /\ Source(k, i) \in 0 .. Len(graph.ops)
  <2> SUFFICES ASSUME NEW k \in Ops, k <= a, NEW i \in Operand
               PROVE  Source(k, i) < a /\ Source(k, i) \in 0 .. Len(graph.ops)
    OBVIOUS
  <2>1. Source(k, i) \in 0 .. Len(graph.ops)
    BY GraphFacts DEF Inv, TypeOK
  <2>2. CASE k = a
    BY <2>1, <2>2, SourcesBehind
  <2>3. CASE k # a
    <3>1. k < a
      BY <1>3, <2>3
    <3>2. Source(k, i) < k
      BY <3>1 DEF Laid, Emitted
    <3> QED  BY <1>3, <2>1, <3>1, <3>2
  <2> QED  BY <2>2, <2>3
<1>7. \A k \in Ops : k <= a =>
        /\ Loads(k)' = Loads(k) /\ Op(k)' = Op(k) /\ IsFused(k)' = IsFused(k)
        /\ Size(k)' = Size(k)
        /\ \A i : Source(k, i)' = Source(k, i)
        /\ \A b : OpInstrs(k, b)' = OpInstrs(k, b)
  <2> SUFFICES ASSUME NEW k \in Ops, k <= a
               PROVE  /\ Loads(k)' = Loads(k) /\ Op(k)' = Op(k) /\ IsFused(k)' = IsFused(k)
                      /\ Size(k)' = Size(k)
                      /\ \A i : Source(k, i)' = Source(k, i)
                      /\ \A b : OpInstrs(k, b)' = OpInstrs(k, b)
    OBVIOUS
  <2>1. \A i \in Operand : Source(k, i) # 0 =>
           /\ storeOf'[Source(k, i)] = storeOf[Source(k, i)]
           /\ computeOf'[Source(k, i)] = computeOf[Source(k, i)]
    BY <1>3, <1>5, <1>6
  <2>2. Loads(k)' = Loads(k) /\ \A b : OpInstrs(k, b)' = OpInstrs(k, b)
    BY <2>1, SameSources
  <2>3. Op(k)' = Op(k) /\ IsFused(k)' = IsFused(k) /\ \A i : Source(k, i)' = Source(k, i)
    BY SameGraph
  <2> QED  BY <2>2, <2>3 DEF Size
<1>8. \A k \in Ops : k < a =>
        /\ Base(k)' = Base(k) /\ End(k)' = End(k) /\ Part(k)' = Part(k)
        /\ Base(k) \in Nat /\ End(k) \in Nat /\ End(k) <= n
        /\ Size(k) \in Nat
  <2> SUFFICES ASSUME NEW k \in Ops, k < a
               PROVE  /\ Base(k)' = Base(k) /\ End(k)' = End(k) /\ Part(k)' = Part(k)
                      /\ Base(k) \in Nat /\ End(k) \in Nat /\ End(k) <= n
                      /\ Size(k) \in Nat
    OBVIOUS
  <2>1. Base(k)' = Base(k)
    BY <1>3, <1>5, <1>7 DEF Base
  <2>2. End(k)' = End(k)
    BY <2>1, <1>3, <1>7 DEF End
  <2>3. Part(k)' = Part(k)
    BY <2>1, <2>2 DEF Part
  <2>4. Emitted(k)
    BY DEF Laid
  <2>5. Base(k) \in Nat /\ End(k) <= n
    BY <2>4 DEF Emitted
  <2>6. Size(k) \in Nat
    BY <2>4, <2>5, OpShape DEF Emitted
  <2> QED  BY <2>1, <2>2, <2>3, <2>5, <2>6 DEF End
<1>9. Base(a)' = n /\ End(a)' = n + Len(is) /\ Part(a)' = n + 1 .. n + Len(is)
  <2>1. Base(a)' = n
    BY <1>1, <1>3, <1>4, <1>5, <1>7 DEF Base
  <2>2. End(a)' = n + Len(is)
    <3>1. Len(is) = Size(a) /\ Size(a)' = Size(a)
      BY <1>1, <1>3, <1>7, OpShape
    <3> QED  BY <2>1, <3>1 DEF End
  <2> QED  BY <2>1, <2>2 DEF Part
<1>10. ASSUME NEW k \in Ops, k < a
       PROVE  Emitted(k)'
  <2>1. Emitted(k)
    BY <1>10 DEF Laid
  <2>2. k \in Ops \ {a} /\ k <= a
    BY <1>3, <1>10
  <2>3. /\ Op(k)' = Op(k) /\ IsFused(k)' = IsFused(k) /\ Base(k)' = Base(k)
        /\ End(k)' = End(k) /\ Size(k)' = Size(k)
        /\ computeOf'[k] = computeOf[k] /\ storeOf'[k] = storeOf[k]
        /\ \A i : Source(k, i)' = Source(k, i)
        /\ \A b : OpInstrs(k, b)' = OpInstrs(k, b)
    BY <2>2, <1>5, <1>7, <1>8, <1>10
  <2>4. End(k) <= Len(instrs')
    BY <1>1, <1>2, <1>8, <1>10
  <2>5. ASSUME NEW b \in Nat, b = Base(k), NEW m \in 1 .. Size(k)
        PROVE  instrs'[b + m] = OpInstrs(k, b)[m]
    <3>1. instrs[b + m] = OpInstrs(k, b)[m]
      BY <2>1, <2>5 DEF Emitted
    <3>2. b + m \in 1 .. n
      BY <2>5, <1>1, <1>8, <1>10 DEF End
    <3> QED  BY <1>2, <3>1, <3>2
  <2>6. /\ Op(k)'.kind \in {"add", "matmul"} /\ computeOf'[k] \in Nat
        /\ Base(k)' \in Nat /\ End(k)' <= Len(instrs')
        /\ storeOf'[k] = IF IsFused(k)' THEN None ELSE computeOf'[k] + 1
        /\ \A i \in Operand : Source(k, i)' < k
    BY <2>1, <2>3, <2>4 DEF Emitted
  <2>7. \A b \in {Base(k)'} : \A m \in 1 .. Size(k)' : instrs'[b + m] = OpInstrs(k, b)'[m]
    <3> SUFFICES ASSUME NEW b \in {Base(k)'}, NEW m \in 1 .. Size(k)'
                 PROVE  instrs'[b + m] = OpInstrs(k, b)'[m]
      OBVIOUS
    <3>1. b = Base(k) /\ b \in Nat /\ m \in 1 .. Size(k)
      BY <1>8, <1>10, <2>3
    <3>2. instrs'[b + m] = OpInstrs(k, b)[m]
      BY <2>5, <3>1
    <3>3. OpInstrs(k, b)' = OpInstrs(k, b)
      BY <2>3
    <3> QED  BY <3>2, <3>3
  <2> QED  BY <2>6, <2>7 DEF Emitted
<1>11. Emitted(a)'
  <2>1. /\ Op(a)' = Op(a) /\ IsFused(a)' = IsFused(a) /\ Size(a)' = Size(a)
        /\ \A i : Source(a, i)' = Source(a, i)
        /\ \A b : OpInstrs(a, b)' = OpInstrs(a, b)
    BY <1>3, <1>7
  <2>2. \A i \in Operand : Source(a, i) < a
    BY SourcesBehind
  <2>3. Len(is) = Size(a)
    BY <1>1, OpShape
  <2>4. /\ Op(a)'.kind \in {"add", "matmul"} /\ computeOf'[a] \in Nat
        /\ Base(a)' \in Nat /\ End(a)' <= Len(instrs')
        /\ storeOf'[a] = IF IsFused(a)' THEN None ELSE computeOf'[a] + 1
        /\ \A i \in Operand : Source(a, i)' < a
    BY <1>1, <1>2, <1>4, <1>5, <1>9, <2>1, <2>2
  <2>5. \A b \in {Base(a)'} : \A m \in 1 .. Size(a)' : instrs'[b + m] = OpInstrs(a, b)'[m]
    <3> SUFFICES ASSUME NEW b \in {Base(a)'}, NEW m \in 1 .. Size(a)'
                 PROVE  instrs'[b + m] = OpInstrs(a, b)'[m]
      OBVIOUS
    <3>1. b = n /\ m \in 1 .. Size(a)
      BY <1>9, <2>1
    <3>2. instrs'[b + m] = OpInstrs(a, b)[m]
      BY <1>2, <2>3, <3>1
    <3>3. OpInstrs(a, b)' = OpInstrs(a, b)
      BY <2>1
    <3> QED  BY <3>2, <3>3
  <2> QED  BY <2>4, <2>5 DEF Emitted
<1>12. \A k \in Ops : k >= a + 1 => storeOf'[k] = None /\ computeOf'[k] = None
  BY <1>3, <1>5 DEF Laid
<1>13. ASSUME NEW j \in Ops, NEW k \in Ops, j < k, k < a + 1
       PROVE  End(j)' <= Base(k)'
  <2>1. CASE k = a
    BY <2>1, <1>8, <1>9, <1>13
  <2>2. CASE k # a
    <3>1. k < a /\ j < a
      BY <2>2, <1>3, <1>13
    <3> QED  BY <3>1, <1>8, <1>13 DEF Laid
  <2> QED  BY <2>1, <2>2
<1>14. ASSUME NEW i \in 1 .. n + Len(is)
       PROVE  \E k \in Ops : k < a + 1 /\ i \in Part(k)'
  <2>1. CASE i \in 1 .. n
    <3>1. PICK k \in Ops : k < a /\ i \in Part(k)
      BY <2>1 DEF Laid, Index
    <3>2. k < a + 1 /\ i \in Part(k)'
      BY <3>1, <1>3, <1>8
    <3> QED  BY <3>2
  <2>2. CASE i \notin 1 .. n
    <3>1. a < a + 1 /\ i \in Part(a)'
      BY <2>2, <1>1, <1>2, <1>3, <1>9
    <3> QED  BY <3>1
  <2> QED  BY <2>1, <2>2
<1>15. \A k \in Ops : k < a + 1 => Emitted(k)'
  BY <1>3, <1>10, <1>11
<1>16. Index' = 1 .. n + Len(is)
  BY <1>2 DEF Index
<1> QED
  BY <1>3, <1>12, <1>13, <1>14, <1>15, <1>16 DEF Laid

LEMMA LaidFresh == Fresh => Laid
<1> SUFFICES ASSUME Fresh PROVE Laid
  OBVIOUS
<1>1. Index = {} /\ at = 1 /\ Ops = 1 .. Len(graph.ops) /\ Len(graph.ops) \in Nat /\ pc = "lower"
  BY GraphFacts DEF Fresh, Index
<1> QED  BY <1>1 DEF Fresh, Laid

LEMMA InitLaid == Init => Laid
BY GraphsAssumption, LaidFresh DEF Init, Fresh

LEMMA Unmoved ==
  ASSUME UNCHANGED <<graph, at, instrs, storeOf, computeOf>>
  PROVE  /\ Ops' = Ops /\ Index' = Index
         /\ \A k : /\ (Emitted(k)' <=> Emitted(k))
                   /\ Base(k)' = Base(k) /\ End(k)' = End(k) /\ Part(k)' = Part(k)
<1>1. Ops' = Ops /\ Index' = Index
  BY DEF Ops, Index
<1> SUFFICES ASSUME NEW k
             PROVE  /\ (Emitted(k)' <=> Emitted(k))
                    /\ Base(k)' = Base(k) /\ End(k)' = End(k) /\ Part(k)' = Part(k)
  BY <1>1
<1>2. Loads(k)' = Loads(k) /\ \A b : OpInstrs(k, b)' = OpInstrs(k, b)
  BY SameSources
<1>3. Op(k)' = Op(k) /\ IsFused(k)' = IsFused(k) /\ \A i : Source(k, i)' = Source(k, i)
  BY SameGraph
<1>4. Size(k)' = Size(k)
  BY <1>2, <1>3 DEF Size
<1>5. Base(k)' = Base(k) /\ End(k)' = End(k) /\ Part(k)' = Part(k)
  BY <1>2, <1>3, <1>4 DEF Base, End, Part
<1>6. (\A b \in {Base(k)} : \A m \in 1 .. Size(k) : instrs[b + m] = OpInstrs(k, b)[m])'
        <=> \A b \in {Base(k)} : \A m \in 1 .. Size(k) : instrs[b + m] = OpInstrs(k, b)[m]
  BY <1>2, <1>4, <1>5, Zenon
<1>7. Emitted(k)' <=> Emitted(k)
  BY <1>3, <1>5, <1>6 DEF Emitted
<1> QED  BY <1>5, <1>7

LEMMA LaidNext == Inv /\ Laid /\ [Next]_vars => Laid'
<1> SUFFICES ASSUME Inv, Laid, [Next]_vars PROVE Laid'
  OBVIOUS
<1>1. Len(instrs) \in Nat
  BY DEF Inv, TypeOK
<1>2. CASE LowerAdd
  <2> DEFINE is == AddInstrs(at, Len(instrs))
             c  == Len(instrs) + Len(Loads(at)) + 1
  <2>1. /\ pc = "lower" /\ at \in Ops /\ Missing(at) = {} /\ Op(at).kind = "add"
        /\ instrs' = instrs \o is /\ at' = at + 1 /\ UNCHANGED <<graph, pc>>
        /\ storeOf' = [storeOf EXCEPT ![at] = Len(instrs')]
        /\ computeOf' = [computeOf EXCEPT ![at] = Len(instrs') - 1]
    BY <1>2 DEF LowerAdd
  <2>2. Follows(is, Len(instrs)) /\ is = OpInstrs(at, Len(instrs))
    BY <2>1, AddFollows DEF OpInstrs
  <2>3. Len(is) = Len(Loads(at)) + 2 /\ Len(Loads(at)) \in Nat
    <3>1. Len(is) = Len(Loads(at)) + 2
      BY <1>1, AddShape, Zenon
    <3>2. Len(Loads(at)) \in Nat
      BY LoadsShape
    <3> QED  BY <3>1, <3>2
  <2> HIDE DEF is
  <2>4. Len(instrs') = Len(instrs) + Len(is)
    BY <2>1, <2>2 DEF Inv, TypeOK, Follows, Instruction
  <2>5. Len(instrs') - 1 = c /\ Len(instrs') = c + 1
    BY <1>1, <2>3, <2>4
  <2>6. ~IsFused(at)
    BY <2>1 DEF IsFused, Fuses
  <2>7. c = Len(instrs) + (IF Op(at).kind = "add" THEN Len(Loads(at)) + 1 ELSE 5)
    BY <1>1, <2>1, <2>3
  <2>8. /\ computeOf' = [computeOf EXCEPT ![at] = c]
        /\ storeOf' = IF IsFused(at) THEN storeOf ELSE [storeOf EXCEPT ![at] = c + 1]
    BY <2>1, <2>5, <2>6
  <2> HIDE DEF c
  <2> QED  BY <2>1, <2>2, <2>7, <2>8, LaidOp
<1>3. CASE LowerMatmul
  <2> DEFINE is == MatmulInstrs(at, Len(instrs))
             c  == Len(instrs) + 5
  <2>1. /\ pc = "lower" /\ at \in Ops /\ Missing(at) = {} /\ Op(at).kind = "matmul"
        /\ instrs' = instrs \o is /\ at' = at + 1 /\ UNCHANGED <<graph, pc>>
        /\ storeOf' = IF IsFused(at) THEN storeOf ELSE [storeOf EXCEPT ![at] = Len(instrs) + 6]
        /\ computeOf' = [computeOf EXCEPT ![at] = c]
    BY <1>3 DEF LowerMatmul
  <2>2. Follows(is, Len(instrs)) /\ is = OpInstrs(at, Len(instrs))
    BY <2>1, MatmulFollows DEF OpInstrs
  <2>3. c + 1 = Len(instrs) + 6
    BY <1>1
  <2>4. c = Len(instrs) + (IF Op(at).kind = "add" THEN Len(Loads(at)) + 1 ELSE 5)
    BY <2>1
  <2> HIDE DEF is, c
  <2> QED  BY <2>1, <2>2, <2>3, <2>4, LaidOp
<1>4. CASE Return
  <2>1. /\ pc' = "done" /\ pc = "lower" /\ at \notin Ops
        /\ UNCHANGED <<graph, at, instrs, storeOf, computeOf>>
    BY <1>4 DEF Return
  <2>2. at = Len(graph.ops) + 1
    BY <2>1, GraphFacts DEF Inv, TypeOK
  <2>3. /\ Ops' = Ops /\ Index' = Index
        /\ \A k : /\ (Emitted(k)' <=> Emitted(k))
                  /\ Base(k)' = Base(k) /\ End(k)' = End(k) /\ Part(k)' = Part(k)
    BY <2>1, Unmoved
  <2> QED  BY <2>1, <2>2, <2>3 DEF Laid
<1>5. CASE UNCHANGED vars
  <2>1. UNCHANGED <<graph, pc, at, instrs, storeOf, computeOf>>
    BY <1>5 DEF vars
  <2>2. /\ Ops' = Ops /\ Index' = Index
        /\ \A k : /\ (Emitted(k)' <=> Emitted(k))
                  /\ Base(k)' = Base(k) /\ End(k)' = End(k) /\ Part(k)' = Part(k)
    BY <2>1, Unmoved
  <2> QED  BY <2>1, <2>2 DEF Laid
<1>6. pc' \notin {"lower", "done"} => Laid'
  BY DEF Laid
<1> QED
  BY <1>2, <1>3, <1>4, <1>5, <1>6
     DEF Next, Finished, RaiseValueError, RaiseKeyError, RaiseNotImplemented, Raise

-----------------------------------------------------------------------------
(* What a laid-out list says of each instruction. *)

LEMMA LoadDeps ==
  ASSUME NEW k, NEW i
  PROVE  {SrcDep(k, i)[j] : j \in DOMAIN SrcDep(k, i)} =
           IF Source(k, i) = 0 THEN {} ELSE {storeOf[Source(k, i)]}
<1>1. CASE Source(k, i) = 0
  BY <1>1, Elements DEF SrcDep
<1>2. CASE Source(k, i) # 0
  BY <1>2, Elements DEF SrcDep
<1> QED  BY <1>1, <1>2

LEMMA DepsAre ==
  ASSUME NEW i
  PROVE  /\ \A x : instrs[i].deps = <<x>> => DepsOf(i) = {x}
         /\ \A x, y : instrs[i].deps = <<x, y>> => DepsOf(i) = {x, y}
<1>1. ASSUME NEW x, instrs[i].deps = <<x>> PROVE DepsOf(i) = {x}
  BY <1>1, Elements DEF DepsOf
<1>2. ASSUME NEW x, NEW y, instrs[i].deps = <<x, y>> PROVE DepsOf(i) = {x, y}
  BY <1>2, Elements DEF DepsOf
<1> QED  BY <1>1, <1>2

LEMMA InstrLoad ==
  ASSUME NEW i, NEW k, NEW o, instrs[i] = LoadInstr(k, o)
  PROVE  /\ instrs[i].unit = "MTE2" /\ instrs[i].tensor = TensorOf(k, o)
         /\ instrs[i].streams = {} /\ Waits(i) = DepsOf(i)
         /\ DepsOf(i) = IF Source(k, o) = 0 THEN {} ELSE {storeOf[Source(k, o)]}
<1> DEFINE ds == SrcDep(k, o)
<1>1. /\ instrs[i].unit = "MTE2" /\ instrs[i].tensor = TensorOf(k, o)
      /\ instrs[i].streams = {} /\ instrs[i].deps = ds
  BY DEF LoadInstr, Instr
<1>2. DepsOf(i) = {ds[j] : j \in DOMAIN ds}
  BY <1>1 DEF DepsOf
<1> QED  BY <1>1, <1>2, LoadDeps DEF Waits

(* What the list of a lowered add is. *)
LEMMA AddLaid ==
  ASSUME Inv, Laid, pc \in {"lower", "done"}, NEW k, k \in Ops, k < at, Op(k).kind = "add"
  PROVE  LET b == Base(k)
             n == Len(Loads(k))
             c == computeOf[k]
         IN  /\ b \in Nat /\ n \in 0 .. 2 /\ c = b + n + 1 /\ storeOf[k] = c + 1
             /\ Part(k) = b + 1 .. c + 1 /\ c + 1 <= Len(instrs)
             /\ \A m \in 1 .. n : \E i \in Operand :
                  ~Streams(k, i) /\ instrs[b + m] = LoadInstr(k, i)
             /\ \A i \in Operand : ~Streams(k, i) =>
                  \E m \in 1 .. n : instrs[b + m] = LoadInstr(k, i)
             /\ instrs[c].unit = "Vector" /\ instrs[c].tensor = TensorOf(k, Out)
             /\ DepsOf(c) = b + 1 .. b + n /\ instrs[c].streams = Streamed(k)
             /\ instrs[c + 1] = Instr("MTE3", TensorOf(k, Out), <<c>>)
<1> DEFINE b == Base(k)
           n == Len(Loads(k))
           c == computeOf[k]
           is == AddInstrs(k, b)
<1>1. Emitted(k)
  BY DEF Laid
<1>2. b \in Nat /\ computeOf[k] \in Nat /\ End(k) <= Len(instrs)
  BY <1>1 DEF Emitted
<1>3. n \in 0 .. 2
  BY LoadsShape
<1>4. c = b + n + 1
  BY <1>2, <1>3 DEF Base
<1>5. ~IsFused(k)
  BY DEF IsFused, Fuses
<1>6. storeOf[k] = c + 1 /\ Size(k) = n + 2
  BY <1>1, <1>5 DEF Emitted, Size
<1>7. End(k) = c + 1 /\ Part(k) = b + 1 .. c + 1
  BY <1>2, <1>3, <1>4, <1>6 DEF End, Part
<1>8. \A m \in 1 .. n + 2 : instrs[b + m] = is[m]
  BY <1>1, <1>6 DEF Emitted, OpInstrs
<1>9. /\ \A m \in 1 .. n : is[m] = Loads(k)[m]
      /\ is[n + 1] = [unit |-> "Vector", tensor |-> TensorOf(k, Out),
                      deps |-> [j \in 1 .. n |-> b + j],
                      streams |-> Streamed(k)]
      /\ is[n + 2] = Instr("MTE3", TensorOf(k, Out), <<b + n + 1>>)
  BY <1>2, AddShape
<1> HIDE DEF is
<1>10. \A m \in 1 .. n : instrs[b + m] = Loads(k)[m]
  BY <1>3, <1>8, <1>9
<1>11. instrs[c] = [unit |-> "Vector", tensor |-> TensorOf(k, Out),
                    deps |-> [j \in 1 .. n |-> b + j], streams |-> Streamed(k)]
  <2>1. n + 1 \in 1 .. n + 2 /\ c = b + (n + 1)
    BY <1>2, <1>3, <1>4
  <2> QED  BY <1>8, <1>9, <2>1
<1>12. instrs[c + 1] = Instr("MTE3", TensorOf(k, Out), <<c>>)
  <2>1. n + 2 \in 1 .. n + 2 /\ c + 1 = b + (n + 2)
    BY <1>2, <1>3, <1>4
  <2> QED  BY <1>4, <1>8, <1>9, <2>1
<1>13. DepsOf(c) = b + 1 .. b + n
  <2>1. DepsOf(c) = {b + j : j \in 1 .. n}
    BY <1>11 DEF DepsOf
  <2>2. ASSUME NEW x \in b + 1 .. b + n PROVE x \in {b + j : j \in 1 .. n}
    <3>1. x - b \in 1 .. n /\ b + (x - b) = x
      BY <1>2, <1>3
    <3> QED  BY <3>1
  <2>3. {b + j : j \in 1 .. n} \subseteq b + 1 .. b + n
    BY <1>2, <1>3
  <2> QED  BY <2>1, <2>2, <2>3
<1>14. /\ \A m \in 1 .. n : \E i \in Operand :
            ~Streams(k, i) /\ Loads(k)[m] = LoadInstr(k, i)
       /\ \A i \in Operand : ~Streams(k, i) =>
            \E m \in 1 .. n : Loads(k)[m] = LoadInstr(k, i)
  BY LoadsShape
<1>15. /\ \A m \in 1 .. n : \E i \in Operand :
            ~Streams(k, i) /\ instrs[b + m] = LoadInstr(k, i)
       /\ \A i \in Operand : ~Streams(k, i) =>
            \E m \in 1 .. n : instrs[b + m] = LoadInstr(k, i)
  BY <1>10, <1>14
<1>16. /\ instrs[c].unit = "Vector" /\ instrs[c].tensor = TensorOf(k, Out)
       /\ instrs[c].streams = Streamed(k)
  BY <1>11
<1> QED  BY <1>2, <1>3, <1>4, <1>6, <1>7, <1>12, <1>13, <1>15, <1>16

(* What the list of a lowered matmul is. *)
LEMMA MatmulLaid ==
  ASSUME Inv, Laid, pc \in {"lower", "done"}, NEW k, k \in Ops, k < at, Op(k).kind # "add"
  PROVE  LET b == Base(k)
             c == computeOf[k]
         IN  /\ Op(k).kind = "matmul" /\ b \in Nat /\ c = b + 5
             /\ storeOf[k] = IF IsFused(k) THEN None ELSE c + 1
             /\ Part(k) = b + 1 .. (IF IsFused(k) THEN c ELSE c + 1)
             /\ (IF IsFused(k) THEN c ELSE c + 1) <= Len(instrs)
             /\ instrs[b + 1] = LoadInstr(k, 1)
             /\ instrs[b + 2] = LoadInstr(k, 2)
             /\ instrs[b + 3] = Instr("MTE1", TensorOf(k, 1), <<b + 1>>)
             /\ instrs[b + 4] = Instr("MTE1", TensorOf(k, 2), <<b + 2>>)
             /\ instrs[c] = Instr("Cube", TensorOf(k, Work), <<b + 3, b + 4>>)
             /\ ~IsFused(k) => instrs[c + 1] = Instr("FixPipe", TensorOf(k, Out), <<c>>)
<1> DEFINE b == Base(k)
           c == computeOf[k]
           is == MatmulInstrs(k, b)
<1>1. Emitted(k)
  BY DEF Laid
<1>2. Op(k).kind = "matmul" /\ b \in Nat /\ computeOf[k] \in Nat /\ End(k) <= Len(instrs)
  BY <1>1 DEF Emitted
<1>3. c = b + 5 /\ Size(k) = IF IsFused(k) THEN 5 ELSE 6
  BY <1>2 DEF Base, Size
<1>4. storeOf[k] = IF IsFused(k) THEN None ELSE c + 1
  BY <1>1 DEF Emitted
<1>5. End(k) = (IF IsFused(k) THEN c ELSE c + 1)
  <2>1. CASE IsFused(k)
    BY <1>2, <1>3, <2>1 DEF End
  <2>2. CASE ~IsFused(k)
    BY <1>2, <1>3, <2>2 DEF End
  <2> QED  BY <2>1, <2>2
<1>6. \A m \in 1 .. Size(k) : instrs[b + m] = is[m]
  BY <1>1, <1>2 DEF Emitted, OpInstrs
<1>7. /\ is[1] = LoadInstr(k, 1) /\ is[2] = LoadInstr(k, 2)
      /\ is[3] = Instr("MTE1", TensorOf(k, 1), <<b + 1>>)
      /\ is[4] = Instr("MTE1", TensorOf(k, 2), <<b + 2>>)
      /\ is[5] = Instr("Cube", TensorOf(k, Work), <<b + 3, b + 4>>)
      /\ ~IsFused(k) => is[6] = Instr("FixPipe", TensorOf(k, Out), <<b + 5>>)
  BY <1>2, MatmulShape
<1> HIDE DEF is
<1>8. /\ instrs[b + 1] = is[1] /\ instrs[b + 2] = is[2] /\ instrs[b + 3] = is[3]
      /\ instrs[b + 4] = is[4] /\ instrs[b + 5] = is[5]
      /\ ~IsFused(k) => instrs[b + 6] = is[6]
  BY <1>3, <1>6
<1>9. c + 1 = b + 6
  BY <1>2, <1>3
<1> QED  BY <1>2, <1>3, <1>4, <1>5, <1>7, <1>8, <1>9 DEF Part

(* The ops the loop is past. *)
Lowered(k) == k \in Ops /\ k < at

LEMMA PartFacts ==
  ASSUME Inv, Laid, pc \in {"lower", "done"}, NEW k, Lowered(k)
  PROVE  /\ Part(k) \subseteq Index /\ computeOf[k] \in Part(k)
         /\ storeOf[k] # None <=> ~IsFused(k)
         /\ storeOf[k] # None => /\ storeOf[k] \in Part(k)
                                 /\ DepsOf(storeOf[k]) = {computeOf[k]}
                                 /\ instrs[storeOf[k]].streams = {}
                                 /\ instrs[storeOf[k]].unit \in {"MTE3", "FixPipe"}
<1> DEFINE c == computeOf[k]
           b == Base(k)
<1>1. Index = 1 .. Len(instrs) /\ Len(instrs) \in Nat /\ k \in Ops /\ k < at
  BY DEF Index, Inv, TypeOK, Lowered
<1>2. CASE Op(k).kind = "add"
  <2> DEFINE n == Len(Loads(k))
  <2>1. /\ b \in Nat /\ n \in 0 .. 2 /\ c = b + n + 1 /\ storeOf[k] = c + 1
        /\ Part(k) = b + 1 .. c + 1 /\ c + 1 <= Len(instrs)
        /\ instrs[c + 1] = Instr("MTE3", TensorOf(k, Out), <<c>>)
    BY <1>1, <1>2, AddLaid, Zenon
  <2>2. ~IsFused(k)
    BY <1>2 DEF IsFused, Fuses
  <2>3. instrs[c + 1].unit = "MTE3" /\ instrs[c + 1].streams = {} /\ DepsOf(c + 1) = {c}
    <3>1. instrs[c + 1] = Instr("MTE3", TensorOf(k, Out), <<c>>)
      BY <2>1
    <3> HIDE DEF c
    <3> QED  BY <3>1, DepsAre DEF Instr
  <2> HIDE DEF n, b, c
  <2>4. /\ Part(k) \subseteq Index /\ c \in Part(k) /\ c + 1 \in Part(k) /\ c + 1 # None
    BY <1>1, <2>1, NoneIsNoNumber
  <2> QED  BY <2>1, <2>2, <2>3, <2>4 DEF c
<1>3. CASE Op(k).kind # "add"
  <2>1. /\ b \in Nat /\ c = b + 5
        /\ storeOf[k] = IF IsFused(k) THEN None ELSE c + 1
        /\ Part(k) = b + 1 .. (IF IsFused(k) THEN c ELSE c + 1)
        /\ (IF IsFused(k) THEN c ELSE c + 1) <= Len(instrs)
        /\ ~IsFused(k) => instrs[c + 1] = Instr("FixPipe", TensorOf(k, Out), <<c>>)
    BY <1>1, <1>3, MatmulLaid
  <2>2. ~IsFused(k) => /\ instrs[c + 1].unit = "FixPipe" /\ instrs[c + 1].streams = {}
                       /\ DepsOf(c + 1) = {c}
    <3>1. ~IsFused(k) => instrs[c + 1] = Instr("FixPipe", TensorOf(k, Out), <<c>>)
      BY <2>1
    <3> HIDE DEF c
    <3> QED  BY <3>1, DepsAre DEF Instr
  <2> HIDE DEF b, c
  <2>3. Part(k) \subseteq Index /\ c \in Part(k) /\ c + 1 # None
    BY <1>1, <2>1, NoneIsNoNumber
  <2>4. ~IsFused(k) => c + 1 \in Part(k)
    BY <2>1
  <2> QED  BY <2>1, <2>2, <2>3, <2>4 DEF c
<1> QED  BY <1>2, <1>3

(* The instructions of op k: loads, moves, its computation and its store. *)
LEMMA Places ==
  ASSUME Inv, Laid, pc \in {"lower", "done"}, NEW k, Lowered(k), NEW i \in Part(k)
  PROVE  \/ \E o \in Operand : ~Streams(k, o) /\ instrs[i] = LoadInstr(k, o)
         \/ \E l \in Part(k), o \in Operand : instrs[i] = Instr("MTE1", TensorOf(k, o), <<l>>)
         \/ /\ i = computeOf[k] /\ instrs[i].unit \in {"Cube", "Vector"}
            /\ DepsOf(i) \subseteq Part(k) /\ instrs[i].streams = Streamed(k)
         \/ i = storeOf[k] /\ storeOf[k] # None
<1> DEFINE c == computeOf[k]
           b == Base(k)
<1>1. Index = 1 .. Len(instrs) /\ Len(instrs) \in Nat /\ k \in Ops /\ k < at
  BY DEF Index, Inv, TypeOK, Lowered
<1>2. CASE Op(k).kind = "add"
  <2> DEFINE n == Len(Loads(k))
  <2>1. /\ b \in Nat /\ n \in 0 .. 2 /\ c = b + n + 1 /\ storeOf[k] = c + 1
        /\ Part(k) = b + 1 .. c + 1
        /\ \A m \in 1 .. n : \E o \in Operand :
              ~Streams(k, o) /\ instrs[b + m] = LoadInstr(k, o)
        /\ instrs[c].unit = "Vector" /\ DepsOf(c) = b + 1 .. b + n
        /\ instrs[c].streams = Streamed(k)
    BY <1>1, <1>2, AddLaid, Zenon
  <2> HIDE DEF n, b, c
  <2>2. CASE i = c
    <3>1. b + 1 .. b + n \subseteq Part(k)
      BY <2>1
    <3> QED  BY <2>1, <2>2, <3>1 DEF c
  <2>3. CASE i = c + 1
    BY <2>1, <2>3, NoneIsNoNumber
  <2>4. CASE i # c /\ i # c + 1
    <3>1. i - b \in 1 .. n /\ b + (i - b) = i
      BY <2>1, <2>4
    <3> QED  BY <2>1, <3>1
  <2> QED  BY <2>2, <2>3, <2>4
<1>3. CASE Op(k).kind # "add"
  <2>1. /\ b \in Nat /\ c = b + 5
        /\ storeOf[k] = IF IsFused(k) THEN None ELSE c + 1
        /\ Part(k) = b + 1 .. (IF IsFused(k) THEN c ELSE c + 1)
        /\ instrs[b + 1] = LoadInstr(k, 1)
        /\ instrs[b + 2] = LoadInstr(k, 2)
        /\ instrs[b + 3] = Instr("MTE1", TensorOf(k, 1), <<b + 1>>)
        /\ instrs[b + 4] = Instr("MTE1", TensorOf(k, 2), <<b + 2>>)
        /\ instrs[c] = Instr("Cube", TensorOf(k, Work), <<b + 3, b + 4>>)
    BY <1>1, <1>3, MatmulLaid
  <2>2. \A o \in Operand : ~Streams(k, o)
    BY <1>3 DEF Streams, Fuses
  <2>3. DepsOf(c) = {b + 3, b + 4} /\ instrs[c].unit = "Cube" /\ instrs[c].streams = {}
    <3>1. instrs[c] = Instr("Cube", TensorOf(k, Work), <<b + 3, b + 4>>)
      BY <2>1
    <3> HIDE DEF b, c
    <3>2. DepsOf(c) = {b + 3, b + 4}
      BY <3>1, DepsAre DEF Instr
    <3>3. instrs[c].unit = "Cube" /\ instrs[c].streams = {}
      BY <3>1 DEF Instr
    <3> QED  BY <3>2, <3>3
  <2>4. Streamed(k) = {}
    BY <2>2 DEF Streamed
  <2> HIDE DEF b, c
  <2>5. /\ b + 1 \in Part(k) /\ b + 2 \in Part(k) /\ b + 3 \in Part(k) /\ b + 4 \in Part(k)
        /\ i \in {b + 1, b + 2, b + 3, b + 4, c, c + 1}
    BY <2>1
  <2>6. CASE i = c
    BY <2>3, <2>4, <2>5, <2>6 DEF c
  <2>7. CASE i = c + 1
    <3>1. ~IsFused(k)
      BY <2>1, <2>7
    <3> QED  BY <2>1, <2>7, <3>1, NoneIsNoNumber
  <2>8. CASE i \in {b + 1, b + 2}
    BY <2>1, <2>2, <2>8 DEF Operand
  <2>9. CASE i \in {b + 3, b + 4}
    <3>1. CASE i = b + 3
      BY <2>1, <2>5, <3>1 DEF Operand
    <3>2. CASE i = b + 4
      BY <2>1, <2>5, <3>2 DEF Operand
    <3> QED  BY <2>9, <3>1, <3>2
  <2> QED  BY <2>5, <2>6, <2>7, <2>8, <2>9
<1> QED  BY <1>2, <1>3

LEMMA SourceLowered ==
  ASSUME Inv, Laid, pc \in {"lower", "done"}, NEW k, Lowered(k), NEW o \in Operand,
         Source(k, o) # 0
  PROVE  Lowered(Source(k, o)) /\ Source(k, o) < k
<1>1. Source(k, o) \in Ops /\ k \in Nat /\ at \in Nat
  BY GraphFacts DEF Inv, TypeOK, Lowered
<1>2. Source(k, o) < k
  BY DEF Laid, Emitted, Lowered
<1>3. Source(k, o) \in Nat /\ k < at
  BY <1>1, GraphFacts DEF Inv, TypeOK, Lowered
<1>4. Source(k, o) < at
  BY <1>1, <1>2, <1>3
<1> QED  BY <1>1, <1>2, <1>4 DEF Lowered

(* A load waits for a store that is in the list. *)
LEMMA LoadWaits ==
  ASSUME Inv, Laid, pc \in {"lower", "done"}, NEW k, Lowered(k), NEW o \in Operand,
         NEW i \in Index, instrs[i] = LoadInstr(k, o)
  PROVE  /\ Waits(i) = DepsOf(i) /\ DepsOf(i) = IF Source(k, o) = 0 THEN {} ELSE {storeOf[Source(k, o)]}
         /\ Source(k, o) # 0 => storeOf[Source(k, o)] # None
<1>1. /\ Waits(i) = DepsOf(i)
      /\ DepsOf(i) = IF Source(k, o) = 0 THEN {} ELSE {storeOf[Source(k, o)]}
  BY InstrLoad, Zenon
<1>2. Waits(i) \subseteq 1 .. i - 1
  BY DEF Inv, ProducersFirst
<1> QED  BY <1>1, <1>2, NoneIsNoNumber

(* The instructions of two ops are apart, and every instruction is one of an op's. *)
LEMMA PartsApart ==
  ASSUME Inv, Laid, pc \in {"lower", "done"}, NEW j, Lowered(j), NEW k, Lowered(k),
         NEW i \in Part(j), i \in Part(k)
  PROVE  j = k
<1>1. \A p, q \in Ops : p < q /\ q < at => Part(p) \cap Part(q) = {}
  <2> SUFFICES ASSUME NEW p \in Ops, NEW q \in Ops, p < q, q < at, NEW x \in Part(p), x \in Part(q)
               PROVE  FALSE
    OBVIOUS
  <2>1. p < at
    BY GraphFacts DEF Inv, TypeOK
  <2>2. /\ End(p) <= Base(q) /\ Base(p) \in Nat /\ Base(q) \in Nat
        /\ Op(p).kind \in {"add", "matmul"} /\ Op(q).kind \in {"add", "matmul"}
    BY <2>1 DEF Laid, Emitted
  <2>3. Size(p) \in Nat /\ Size(q) \in Nat
    BY <2>2, OpShape
  <2>4. End(p) \in Nat /\ End(q) \in Nat
    BY <2>2, <2>3 DEF End
  <2> QED  BY <2>2, <2>4 DEF Part
<1>2. j \in Nat /\ k \in Nat /\ j \in Ops /\ k \in Ops /\ j < at /\ k < at
  BY GraphFacts DEF Lowered, Inv, TypeOK
<1>3. j < k \/ k < j \/ j = k
  BY <1>2
<1> QED  BY <1>1, <1>2, <1>3

LEMMA PartsCover ==
  ASSUME Inv, Laid, pc \in {"lower", "done"}, NEW i \in Index
  PROVE  \E k \in Ops : Lowered(k) /\ i \in Part(k)
BY DEF Laid, Lowered

(* The computations of two ops are two. *)
LEMMA OneComputation ==
  ASSUME Inv, Laid, pc \in {"lower", "done"}, NEW j, Lowered(j), NEW k, Lowered(k),
         computeOf[j] = computeOf[k]
  PROVE  j = k
<1>1. computeOf[j] \in Part(j) /\ computeOf[k] \in Part(k)
  BY PartFacts
<1> QED  BY <1>1, PartsApart

(* An instruction of op k waits for instructions of op k and of the ops    *)
(* whose results k reads.                                                  *)
LEMMA WaitsLaid ==
  ASSUME Inv, Laid, pc \in {"lower", "done"}, NEW k, Lowered(k), NEW i \in Part(k),
         NEW w \in Waits(i)
  PROVE  \/ w \in Part(k)
         \/ \E o \in Operand : Source(k, o) # 0 /\ w \in Part(Source(k, o))
<1>1. i \in Index
  BY PartFacts
<1>2. CASE \E o \in Operand : ~Streams(k, o) /\ instrs[i] = LoadInstr(k, o)
  <2>1. PICK o \in Operand : ~Streams(k, o) /\ instrs[i] = LoadInstr(k, o)
    BY <1>2
  <2>2. Source(k, o) # 0 /\ w = storeOf[Source(k, o)] /\ w # None
    BY <1>1, <2>1, LoadWaits
  <2>3. w \in Part(Source(k, o))
    BY <2>2, SourceLowered, PartFacts
  <2> QED  BY <2>2, <2>3
<1>3. CASE \E l \in Part(k), o \in Operand : instrs[i] = Instr("MTE1", TensorOf(k, o), <<l>>)
  <2>1. PICK l \in Part(k), o \in Operand : instrs[i] = Instr("MTE1", TensorOf(k, o), <<l>>)
    BY <1>3
  <2>2. Waits(i) = {l}
    BY <2>1, DepsAre DEF Instr, Waits
  <2> QED  BY <2>1, <2>2
<1>4. CASE /\ i = computeOf[k] /\ DepsOf(i) \subseteq Part(k)
           /\ instrs[i].streams = Streamed(k)
  <2>1. CASE w \in DepsOf(i)
    BY <1>4, <2>1
  <2>2. CASE w \in Streamed(k)
    <3>1. PICK o \in Operand : Streams(k, o) /\ w = computeOf[Source(k, o)]
      BY <2>2 DEF Streamed
    <3>2. Source(k, o) # 0
      BY <3>1 DEF Streams
    <3>3. w \in Part(Source(k, o))
      BY <3>1, <3>2, SourceLowered, PartFacts
    <3> QED  BY <3>2, <3>3
  <2> QED  BY <1>4, <2>1, <2>2 DEF Waits
<1>5. CASE i = storeOf[k] /\ storeOf[k] # None
  <2>1. w = computeOf[k]
    BY <1>5, PartFacts DEF Waits
  <2> QED  BY <2>1, PartFacts
<1> QED  BY <1>2, <1>3, <1>4, <1>5, Places

(* How the computation of op k comes to its operand o: by stream, or by a  *)
(* load of what the producer stored.                                       *)
LEMMA ReadLaid ==
  ASSUME Inv, Laid, pc \in {"lower", "done"}, NEW k, Lowered(k), NEW o \in Operand,
         Source(k, o) # 0
  PROVE  IF Streams(k, o)
         THEN computeOf[Source(k, o)] \in instrs[computeOf[k]].streams
         ELSE /\ storeOf[Source(k, o)] # None
              /\ \E l \in Part(k) :
                   /\ storeOf[Source(k, o)] \in DepsOf(l)
                   /\ \/ l \in DepsOf(computeOf[k])
                      \/ \E m \in Part(k) : m \in DepsOf(computeOf[k]) /\ l \in DepsOf(m)
<1> DEFINE s == storeOf[Source(k, o)]
           c == computeOf[k]
           b == Base(k)
<1>1. k \in Ops /\ k < at /\ Part(k) \subseteq Index
  BY PartFacts DEF Lowered
<1>2. ASSUME NEW l \in Part(k), instrs[l] = LoadInstr(k, o)
      PROVE  s # None /\ s \in DepsOf(l)
  <2>1. l \in Index
    BY <1>1
  <2> QED  BY <1>2, <2>1, LoadWaits
<1>3. CASE Op(k).kind = "add"
  <2> DEFINE n == Len(Loads(k))
  <2>1. /\ b \in Nat /\ n \in 0 .. 2 /\ c = b + n + 1 /\ Part(k) = b + 1 .. c + 1
        /\ \A i \in Operand : ~Streams(k, i) =>
             \E m \in 1 .. n : instrs[b + m] = LoadInstr(k, i)
        /\ DepsOf(c) = b + 1 .. b + n /\ instrs[c].streams = Streamed(k)
    BY <1>1, <1>3, AddLaid, Zenon
  <2>2. CASE Streams(k, o)
    BY <2>1, <2>2 DEF Streamed
  <2>3. CASE ~Streams(k, o)
    <3>1. PICK m \in 1 .. n : instrs[b + m] = LoadInstr(k, o)
      BY <2>1, <2>3
    <3> HIDE DEF b, c, n
    <3>2. b + m \in Part(k) /\ b + m \in DepsOf(c)
      BY <2>1
    <3>3. s # None /\ s \in DepsOf(b + m)
      BY <1>2, <3>1, <3>2
    <3> QED  BY <2>3, <3>2, <3>3 DEF c
  <2> QED  BY <2>2, <2>3
<1>4. CASE Op(k).kind # "add"
  <2>1. /\ b \in Nat /\ c = b + 5 /\ Part(k) = b + 1 .. (IF IsFused(k) THEN c ELSE c + 1)
        /\ instrs[b + 1] = LoadInstr(k, 1)
        /\ instrs[b + 2] = LoadInstr(k, 2)
        /\ instrs[b + 3] = Instr("MTE1", TensorOf(k, 1), <<b + 1>>)
        /\ instrs[b + 4] = Instr("MTE1", TensorOf(k, 2), <<b + 2>>)
        /\ instrs[c] = Instr("Cube", TensorOf(k, Work), <<b + 3, b + 4>>)
    BY <1>1, <1>4, MatmulLaid
  <2>2. ~Streams(k, o)
    BY <1>4 DEF Streams, Fuses
  <2> HIDE DEF b, c
  <2>3. /\ b + 1 \in Part(k) /\ b + 2 \in Part(k) /\ b + 3 \in Part(k) /\ b + 4 \in Part(k)
    BY <2>1
  <2>4. DepsOf(c) = {b + 3, b + 4}
    BY <2>1, DepsAre DEF Instr
  <2>5. DepsOf(b + 3) = {b + 1} /\ DepsOf(b + 4) = {b + 2}
    BY <2>1, DepsAre DEF Instr
  <2>6. CASE o = 1
    <3>1. s # None /\ s \in DepsOf(b + 1)
      BY <1>2, <2>1, <2>3, <2>6
    <3> QED  BY <2>2, <2>3, <2>4, <2>5, <3>1 DEF c
  <2>7. CASE o = 2
    <3>1. s # None /\ s \in DepsOf(b + 2)
      BY <1>2, <2>1, <2>3, <2>7
    <3> QED  BY <2>2, <2>3, <2>4, <2>5, <3>1 DEF c
  <2> QED  BY <2>6, <2>7 DEF Operand
<1> QED  BY <1>3, <1>4

(* The only instructions of op k on a storing unit, and with a stream.     *)
LEMMA StoreLaid ==
  ASSUME Inv, Laid, pc \in {"lower", "done"}, NEW k, Lowered(k), NEW i \in Part(k)
  PROVE  /\ instrs[i].unit \in {"MTE3", "FixPipe"} => i = storeOf[k] /\ storeOf[k] # None
         /\ instrs[i].streams # {} => i = computeOf[k] /\ instrs[i].streams = Streamed(k)
<1>1. CASE \E o \in Operand : instrs[i] = LoadInstr(k, o)
  BY <1>1, InstrLoad
<1>2. CASE \E l \in Part(k), o \in Operand : instrs[i] = Instr("MTE1", TensorOf(k, o), <<l>>)
  <2>1. PICK l \in Part(k), o \in Operand : instrs[i] = Instr("MTE1", TensorOf(k, o), <<l>>)
    BY <1>2
  <2>2. instrs[i].unit = "MTE1" /\ instrs[i].streams = {}
    BY <2>1 DEF Instr
  <2> QED  BY <2>2
<1>3. CASE i = storeOf[k] /\ storeOf[k] # None
  BY <1>3, PartFacts
<1> QED  BY <1>1, <1>2, <1>3, Places

-----------------------------------------------------------------------------
(* What a relation of everybody to earlier ones reaches: the least closed  *)
(* set.  A recursive function over it can only be this one, so Upstream and*)
(* Ancestors need no induction in what follows.                            *)

(* Whoever every closed set that holds the ones i waits for must hold.     *)
Reach(n, w, i) ==
  {j \in 1 .. n : \A T \in SUBSET (1 .. n) :
     w[i] \subseteq T /\ (\A x \in T : w[x] \subseteq T) => j \in T}

LEMMA ReachIsClosed ==
  ASSUME NEW n \in Nat, NEW w, \A i \in 1 .. n : w[i] \subseteq 1 .. i - 1, NEW i \in 1 .. n
  PROVE  /\ Reach(n, w, i) \subseteq 1 .. n
         /\ w[i] \subseteq Reach(n, w, i)
         /\ \A x \in Reach(n, w, i) : w[x] \subseteq Reach(n, w, i)
<1>1. \A j \in 1 .. n : w[j] \subseteq 1 .. n
  OBVIOUS
<1>2. w[i] \subseteq Reach(n, w, i)
  BY <1>1 DEF Reach
<1>3. ASSUME NEW x \in Reach(n, w, i), NEW y \in w[x] PROVE y \in Reach(n, w, i)
  <2>1. x \in 1 .. n /\ y \in 1 .. n
    BY <1>1, <1>3 DEF Reach
  <2> QED  BY <2>1 DEF Reach
<1> QED  BY <1>2, <1>3 DEF Reach

LEMMA ReachIsLeast ==
  ASSUME NEW n, NEW w, NEW i, NEW T \in SUBSET (1 .. n),
         w[i] \subseteq T, \A x \in T : w[x] \subseteq T
  PROVE  Reach(n, w, i) \subseteq T
BY DEF Reach

LEMMA ReachEquation ==
  ASSUME NEW n \in Nat, NEW w, \A i \in 1 .. n : w[i] \subseteq 1 .. i - 1, NEW i \in 1 .. n
  PROVE  Reach(n, w, i) = w[i] \cup UNION {Reach(n, w, j) : j \in w[i]}
<1> DEFINE U == w[i] \cup UNION {Reach(n, w, j) : j \in w[i]}
<1>1. \A j \in 1 .. n : w[j] \subseteq 1 .. n
  OBVIOUS
<1>2. \A j \in 1 .. n : /\ Reach(n, w, j) \subseteq 1 .. n /\ w[j] \subseteq Reach(n, w, j)
                        /\ \A x \in Reach(n, w, j) : w[x] \subseteq Reach(n, w, j)
  BY ReachIsClosed
<1>3. U \in SUBSET (1 .. n) /\ w[i] \subseteq U
  BY <1>1, <1>2
<1>4. \A x \in U : w[x] \subseteq U
  BY <1>1, <1>2
<1>5. Reach(n, w, i) \subseteq U
  <2> HIDE DEF U
  <2> QED  BY <1>3, <1>4, ReachIsLeast
<1>6. ASSUME NEW j \in w[i] PROVE Reach(n, w, j) \subseteq Reach(n, w, i)
  <2>1. j \in 1 .. n /\ j \in Reach(n, w, i)
    BY <1>1, <1>2
  <2>2. w[j] \subseteq Reach(n, w, i) /\ \A x \in Reach(n, w, i) : w[x] \subseteq Reach(n, w, i)
    BY <1>2, <2>1
  <2> QED  BY <1>2, <2>2, ReachIsLeast
<1> QED  BY <1>2, <1>5, <1>6

LEMMA ReachTransitive ==
  ASSUME NEW n \in Nat, NEW w, \A i \in 1 .. n : w[i] \subseteq 1 .. i - 1,
         NEW i \in 1 .. n, NEW j \in Reach(n, w, i)
  PROVE  Reach(n, w, j) \subseteq Reach(n, w, i)
<1>1. /\ Reach(n, w, i) \subseteq 1 .. n
      /\ \A x \in Reach(n, w, i) : w[x] \subseteq Reach(n, w, i)
  BY ReachIsClosed
<1> QED  BY <1>1, ReachIsLeast

LEMMA ReachIsBelow ==
  ASSUME NEW n \in Nat, NEW w, \A i \in 1 .. n : w[i] \subseteq 1 .. i - 1, NEW i \in 1 .. n
  PROVE  Reach(n, w, i) \subseteq 1 .. i - 1
<1>1. 1 .. i - 1 \in SUBSET (1 .. n) /\ \A x \in 1 .. i - 1 : w[x] \subseteq 1 .. i - 1
  OBVIOUS
<1> QED  BY <1>1, ReachIsLeast

(* f recurses along w. *)
Solves(n, w, f) == \A i \in 1 .. n : f[i] = w[i] \cup UNION {f[j] : j \in w[i]}

LEMMA ReachIsUnique ==
  ASSUME NEW n \in Nat, NEW w, \A i \in 1 .. n : w[i] \subseteq 1 .. i - 1,
         NEW f, Solves(n, w, f)
  PROVE  \A i \in 1 .. n : f[i] = Reach(n, w, i)
<1> DEFINE Bad == {i \in 1 .. n : f[i] # Reach(n, w, i)}
<1>1. Bad = {}
  <2> SUFFICES ASSUME Bad # {} PROVE FALSE
    OBVIOUS
  <2>1. Bad \subseteq Nat
    OBVIOUS
  <2>2. PICK i \in Bad : \A j \in Bad : ~ (<<j, i>> \in OpToRel(<, Nat))
    BY <2>1, NatLessThanWellFounded, WFMin
  <2>3. \A j \in w[i] : j \in 1 .. n /\ j < i
    OBVIOUS
  <2>4. \A j \in w[i] : f[j] = Reach(n, w, j)
    BY <2>1, <2>2, <2>3 DEF OpToRel
  <2>5. {f[j] : j \in w[i]} = {Reach(n, w, j) : j \in w[i]}
    BY <2>4
  <2>6. f[i] = w[i] \cup UNION {Reach(n, w, j) : j \in w[i]}
    BY <2>5 DEF Solves
  <2>7. Reach(n, w, i) = w[i] \cup UNION {Reach(n, w, j) : j \in w[i]}
    BY ReachEquation
  <2> QED  BY <2>6, <2>7
<1> QED  BY <1>1

LEMMA ReachSolves ==
  ASSUME NEW n \in Nat, NEW w, \A i \in 1 .. n : w[i] \subseteq 1 .. i - 1,
         NEW h, h = [i \in 1 .. n |-> Reach(n, w, i)]
  PROVE  Solves(n, w, h)
<1> SUFFICES ASSUME NEW i \in 1 .. n
             PROVE  h[i] = w[i] \cup UNION {h[j] : j \in w[i]}
  BY DEF Solves
<1>1. \A j \in w[i] : h[j] = Reach(n, w, j)
  OBVIOUS
<1>2. {h[j] : j \in w[i]} = {Reach(n, w, j) : j \in w[i]}
  BY <1>1
<1> QED  BY <1>2, ReachEquation

LEMMA UpstreamReaches ==
  ASSUME TypeOK, ProducersFirst, NEW n, n = Len(instrs), NEW w, w = [i \in Index |-> Waits(i)]
  PROVE  /\ n \in Nat /\ Index = 1 .. n /\ \A i \in 1 .. n : w[i] \subseteq 1 .. i - 1
         /\ \A i \in Index : Upstream[i] = Reach(n, w, i)
<1>1. n \in Nat /\ Index = 1 .. n
  BY DEF TypeOK, Index
<1>2. \A i \in 1 .. n : w[i] \subseteq 1 .. i - 1
  BY <1>1 DEF ProducersFirst
<1> DEFINE h == [i \in 1 .. n |-> Reach(n, w, i)]
           Body(g) == g = [i \in Index |->
                             LET u == {j \in Waits(i) : j < i} IN u \cup UNION {g[j] : j \in u}]
<1>3. \A i \in Index : {j \in Waits(i) : j < i} = w[i]
  BY <1>1, <1>2
<1>4. Body(h)
  <2>2. h = [i \in 1 .. n |-> h[i]] /\ h = [i \in 1 .. n |-> Reach(n, w, i)]
    OBVIOUS
  <2> HIDE DEF h
  <2>1. Solves(n, w, h)
    BY <1>1, <1>2, <2>2, ReachSolves
  <2> QED  BY <1>1, <1>3, <2>1, <2>2 DEF Solves
<1>5. Upstream = CHOOSE g : Body(g)
  BY DEF Upstream
<1>6. Body(Upstream)
  <2> HIDE DEF Body, h
  <2> QED  BY <1>4, <1>5, Zenon
<1>7. \A i \in 1 .. n : Upstream[i] = w[i] \cup UNION {Upstream[j] : j \in w[i]}
  BY <1>1, <1>3, <1>6
<1>8. \A i \in 1 .. n : Upstream[i] = Reach(n, w, i)
  <2> DEFINE f == Upstream
  <2> HIDE DEF f
  <2>1. Solves(n, w, f)
    BY <1>7 DEF f, Solves
  <2>2. \A i \in 1 .. n : f[i] = Reach(n, w, i)
    BY <1>1, <1>2, <2>1, ReachIsUnique
  <2> QED  BY <2>2 DEF f
<1> QED  BY <1>1, <1>2, <1>8

(* The ops whose results k reads. *)
Sources(k) == {Source(k, i) : i \in Operand} \ {0}

LEMMA AncestorsReach ==
  ASSUME Inv, Laid, pc = "done",
         NEW n, n = Len(graph.ops), NEW w, w = [k \in Ops |-> Sources(k)]
  PROVE  /\ n \in Nat /\ Ops = 1 .. n /\ \A k \in 1 .. n : w[k] \subseteq 1 .. k - 1
         /\ \A k \in Ops : Ancestors[k] = Reach(n, w, k)
<1>1. n \in Nat /\ Ops = 1 .. n
  BY GraphFacts DEF Inv, TypeOK
<1>2. \A k \in Ops : Lowered(k)
  BY <1>1 DEF Laid, Lowered
<1>3. \A k \in 1 .. n : w[k] \subseteq 1 .. k - 1
  <2> SUFFICES ASSUME NEW k \in Ops, NEW i \in Operand, Source(k, i) # 0
               PROVE  Source(k, i) \in 1 .. k - 1
    BY <1>1 DEF Sources
  <2>1. Source(k, i) < k /\ Source(k, i) \in Nat
    BY <1>1, <1>2, SourceLowered DEF Lowered
  <2> QED  BY <1>1, <2>1
<1> DEFINE h == [k \in 1 .. n |-> Reach(n, w, k)]
           Body(g) == g = [k \in Ops |->
                             LET u == {Source(k, i) : i \in Operand} \ {0}
                             IN  u \cup UNION {g[s] : s \in u}]
<1>4. \A k \in Ops : {Source(k, i) : i \in Operand} \ {0} = w[k]
  BY DEF Sources
<1>5. Body(h)
  <2>1. h = [i \in 1 .. n |-> h[i]] /\ h = [i \in 1 .. n |-> Reach(n, w, i)]
    OBVIOUS
  <2> HIDE DEF h
  <2>2. Solves(n, w, h)
    BY <1>1, <1>3, <2>1, ReachSolves
  <2> QED  BY <1>1, <1>4, <2>1, <2>2 DEF Solves
<1>6. Ancestors = CHOOSE g : Body(g)
  BY DEF Ancestors
<1>7. Body(Ancestors)
  <2> HIDE DEF Body, h
  <2> QED  BY <1>5, <1>6, Zenon
<1>8. \A i \in 1 .. n : Ancestors[i] = w[i] \cup UNION {Ancestors[j] : j \in w[i]}
  BY <1>1, <1>4, <1>7
<1>9. \A i \in 1 .. n : Ancestors[i] = Reach(n, w, i)
  <2> DEFINE f == Ancestors
  <2> HIDE DEF f
  <2>1. Solves(n, w, f)
    BY <1>8 DEF f, Solves
  <2>2. \A i \in 1 .. n : f[i] = Reach(n, w, i)
    BY <1>1, <1>3, <2>1, ReachIsUnique
  <2> QED  BY <2>2 DEF f
<1> QED  BY <1>1, <1>3, <1>9

(* A read orders the two computations, by the stream or through GM. *)
LEMMA ReadOrders ==
  ASSUME Inv, Laid, pc = "done", NEW k \in Ops, NEW o \in Operand, Source(k, o) # 0
  PROVE  /\ computeOf[Source(k, o)] \in Upstream[computeOf[k]]
         /\ \/ computeOf[Source(k, o)] \in instrs[computeOf[k]].streams
            \/ /\ storeOf[Source(k, o)] # None
               /\ storeOf[Source(k, o)] \in Upstream[computeOf[k]]
<1> DEFINE s == Source(k, o)
           c == computeOf[k]
           n == Len(instrs)
           w == [i \in Index |-> Waits(i)]
<1>1. /\ n \in Nat /\ Index = 1 .. n /\ \A i \in 1 .. n : w[i] \subseteq 1 .. i - 1
      /\ \A i \in Index : Upstream[i] = Reach(n, w, i)
  BY UpstreamReaches DEF Inv
<1>2. \A j \in Ops : Lowered(j)
  BY GraphFacts DEF Laid, Lowered, Inv, TypeOK
<1>3. Lowered(s) /\ Part(k) \subseteq Index /\ c \in Index
  BY <1>2, SourceLowered, PartFacts
<1>4. DepsOf(c) \cup instrs[c].streams = w[c]
  BY <1>3 DEF Waits
<1> HIDE DEF w
<1>5. /\ Upstream[c] \subseteq 1 .. n /\ w[c] \subseteq Upstream[c]
      /\ \A x \in Upstream[c] : w[x] \subseteq Upstream[c]
  <2>1. Upstream[c] = Reach(n, w, c)
    BY <1>1, <1>3
  <2> QED  BY <1>1, <1>3, <2>1, ReachIsClosed
<1>6. CASE Streams(k, o)
  <2>1. computeOf[s] \in instrs[c].streams
    BY <1>2, <1>6, ReadLaid
  <2> QED  BY <1>4, <1>5, <2>1
<1>7. CASE ~Streams(k, o)
  <2>1. storeOf[s] # None
    BY <1>2, <1>7, ReadLaid
  <2>2. PICK l \in Part(k) :
          /\ storeOf[s] \in DepsOf(l)
          /\ \/ l \in DepsOf(c)
             \/ \E m \in Part(k) : m \in DepsOf(c) /\ l \in DepsOf(m)
    BY <1>2, <1>7, ReadLaid
  <2>3. \A i \in Index : DepsOf(i) \subseteq w[i]
    BY DEF Waits, w
  <2>4. l \in Upstream[c] /\ l \in Index
    BY <1>3, <1>4, <1>5, <2>2, <2>3
  <2>5. storeOf[s] \in Upstream[c] /\ storeOf[s] \in Index
    BY <1>1, <1>5, <2>2, <2>3, <2>4
  <2>6. computeOf[s] \in DepsOf(storeOf[s])
    BY <1>3, <2>1, PartFacts
  <2>7. computeOf[s] \in Upstream[c]
    BY <1>5, <2>3, <2>5, <2>6
  <2> QED  BY <2>1, <2>5, <2>7
<1> QED  BY <1>6, <1>7

LEMMA AncestorsAreUpstream ==
  ASSUME Inv, Laid, pc = "done", NEW k \in Ops, NEW s \in Ancestors[k]
  PROVE  s \in Ops /\ computeOf[s] \in Upstream[computeOf[k]]
<1> DEFINE c == computeOf[k]
           N == Len(graph.ops)
           A == [j \in Ops |-> Sources(j)]
           n == Len(instrs)
           w == [i \in Index |-> Waits(i)]
           T == {x \in Ops : computeOf[x] \in Upstream[c]}
<1>1. /\ n \in Nat /\ Index = 1 .. n /\ \A i \in 1 .. n : w[i] \subseteq 1 .. i - 1
      /\ \A i \in Index : Upstream[i] = Reach(n, w, i)
  BY UpstreamReaches DEF Inv
<1>2. /\ N \in Nat /\ Ops = 1 .. N /\ \A j \in 1 .. N : A[j] \subseteq 1 .. j - 1
      /\ \A j \in Ops : Ancestors[j] = Reach(N, A, j)
  BY AncestorsReach
<1>3. \A j \in Ops : computeOf[j] \in Index
  <2>1. \A j \in Ops : Lowered(j)
    BY GraphFacts DEF Laid, Lowered, Inv, TypeOK
  <2> QED  BY <2>1, PartFacts
<1>4. \A j \in Ops : \A x \in A[j] : x \in Ops /\ computeOf[x] \in Upstream[computeOf[j]]
  <2> SUFFICES ASSUME NEW j \in Ops, NEW o \in Operand, Source(j, o) # 0
               PROVE  Source(j, o) \in Ops /\ computeOf[Source(j, o)] \in Upstream[computeOf[j]]
    BY DEF Sources
  <2>1. Source(j, o) \in Ops
    BY GraphFacts DEF Inv, TypeOK
  <2> QED  BY <2>1, ReadOrders
<1> HIDE DEF A, w
<1>5. A[k] \subseteq T
  BY <1>4
<1>6. \A x \in T : A[x] \subseteq T
  <2> SUFFICES ASSUME NEW x \in T, NEW y \in A[x] PROVE y \in T
    OBVIOUS
  <2>1. y \in Ops /\ computeOf[y] \in Upstream[computeOf[x]]
    BY <1>4
  <2>2. Upstream[computeOf[x]] \subseteq Upstream[c]
    <3>1. computeOf[x] \in Reach(n, w, c) /\ c \in 1 .. n
      BY <1>1, <1>3
    <3>2. Reach(n, w, computeOf[x]) \subseteq Reach(n, w, c)
      BY <1>1, <3>1, ReachTransitive
    <3> QED  BY <1>1, <1>3, <3>2
  <2> QED  BY <2>1, <2>2
<1>7. Ancestors[k] \subseteq T
  <2>1. T \in SUBSET (1 .. N)
    BY <1>2
  <2> HIDE DEF T
  <2>2. Reach(N, A, k) \subseteq T
    BY <1>5, <1>6, <2>1, ReachIsLeast
  <2> QED  BY <1>2, <2>2
<1> QED  BY <1>7

LEMMA UpstreamAreAncestors ==
  ASSUME Inv, Laid, pc = "done", NEW k \in Ops, NEW s \in Ops,
         computeOf[s] \in Upstream[computeOf[k]]
  PROVE  s \in Ancestors[k]
<1> DEFINE c == computeOf[k]
           N == Len(graph.ops)
           A == [j \in Ops |-> Sources(j)]
           n == Len(instrs)
           w == [i \in Index |-> Waits(i)]
           T == {i \in Index : \E m \in {k} \cup Ancestors[k] : i \in Part(m)}
<1>1. /\ n \in Nat /\ Index = 1 .. n /\ \A i \in 1 .. n : w[i] \subseteq 1 .. i - 1
      /\ \A i \in Index : Upstream[i] = Reach(n, w, i)
  BY UpstreamReaches DEF Inv
<1>2. /\ N \in Nat /\ Ops = 1 .. N /\ \A j \in 1 .. N : A[j] \subseteq 1 .. j - 1
      /\ \A j \in Ops : Ancestors[j] = Reach(N, A, j)
  BY AncestorsReach
<1>3. \A j \in Ops : Lowered(j) /\ Part(j) \subseteq Index /\ computeOf[j] \in Part(j)
  <2>1. \A j \in Ops : Lowered(j)
    BY GraphFacts DEF Laid, Lowered, Inv, TypeOK
  <2> QED  BY <2>1, PartFacts
<1>4. \A j \in Ops : \A o \in Operand : Source(j, o) # 0 => Source(j, o) \in A[j]
  BY DEF Sources
<1>5. \A i \in Index : w[i] = Waits(i)
  OBVIOUS
<1> HIDE DEF A, w
<1>6. /\ Ancestors[k] \subseteq Ops /\ A[k] \subseteq Ancestors[k]
      /\ \A x \in Ancestors[k] : A[x] \subseteq Ancestors[k]
  <2>1. Ancestors[k] = Reach(N, A, k) /\ k \in 1 .. N
    BY <1>2
  <2> HIDE DEF N
  <2>2. /\ Reach(N, A, k) \subseteq 1 .. N /\ A[k] \subseteq Reach(N, A, k)
        /\ \A x \in Reach(N, A, k) : A[x] \subseteq Reach(N, A, k)
    BY <1>2, <2>1, ReachIsClosed
  <2> QED  BY <1>2, <2>1, <2>2
<1>7. ASSUME NEW m \in {k} \cup Ancestors[k], NEW i \in Part(m)
      PROVE  i \in Index /\ w[i] \subseteq T
  <2>1. m \in Ops /\ i \in Index /\ A[m] \subseteq Ancestors[k]
    BY <1>3, <1>6
  <2> SUFFICES ASSUME NEW x \in Waits(i) PROVE x \in T
    BY <1>5, <2>1
  <2>2. \/ x \in Part(m)
        \/ \E o \in Operand : Source(m, o) # 0 /\ x \in Part(Source(m, o))
    BY <1>3, <2>1, WaitsLaid
  <2>3. \E q \in {k} \cup Ancestors[k] : x \in Part(q)
    BY <1>4, <2>1, <2>2
  <2>4. x \in Index
    BY <1>3, <1>6, <2>3
  <2> QED  BY <2>3, <2>4
<1>8. c \in Index /\ w[c] \subseteq T
  BY <1>3, <1>7
<1>9. \A x \in T : w[x] \subseteq T
  BY <1>7
<1>10. computeOf[s] \in T
  <2>1. T \in SUBSET (1 .. n)
    BY <1>1
  <2>2. computeOf[s] \in Reach(n, w, c)
    BY <1>1, <1>8
  <2> HIDE DEF T
  <2> QED  BY <1>8, <1>9, <2>1, <2>2, ReachIsLeast
<1>11. PICK m \in {k} \cup Ancestors[k] : computeOf[s] \in Part(m)
  BY <1>10
<1>12. s = m
  <2>1. m \in Ops
    BY <1>6
  <2> QED  BY <1>3, <1>11, <2>1, PartsApart
<1>13. s # k
  <2>1. Reach(n, w, c) \subseteq 1 .. c - 1
    BY <1>1, <1>8, ReachIsBelow
  <2> QED  BY <1>1, <1>8, <2>1
<1> QED  BY <1>11, <1>12, <1>13

LEMMA DataflowLaid == Inv /\ Laid => DataflowKept
<1> SUFFICES ASSUME Inv, Laid, pc = "done", NEW k \in Ops, NEW s \in Ops
             PROVE  /\ computeOf[s] \in Upstream[computeOf[k]] <=> s \in Ancestors[k]
                    /\ (\E i \in Operand : Source(k, i) = s) =>
                         \/ computeOf[s] \in instrs[computeOf[k]].streams
                         \/ storeOf[s] # None /\ storeOf[s] \in Upstream[computeOf[k]]
  BY DEF DataflowKept
<1>1. computeOf[s] \in Upstream[computeOf[k]] <=> s \in Ancestors[k]
  BY AncestorsAreUpstream, UpstreamAreAncestors
<1>2. s # 0
  BY GraphFacts DEF Inv, TypeOK
<1> QED  BY <1>1, <1>2, ReadOrders

LEMMA StoredLaid == Inv /\ Laid => StoredOrStreamed
<1> SUFFICES ASSUME Inv, Laid, pc = "done", NEW s \in Ops
             PROVE  LET stores  == {i \in Index : instrs[i].unit \in {"MTE3", "FixPipe"}
                                                   /\ computeOf[s] \in DepsOf(i)}
                        readers == {i \in Index : computeOf[s] \in instrs[i].streams}
                    IN  /\ Cardinality(stores) + Cardinality(readers) = 1
                        /\ readers # {} => Cardinality(Uses(s)) = 1
  BY DEF StoredOrStreamed
<1> DEFINE stores  == {i \in Index : instrs[i].unit \in {"MTE3", "FixPipe"}
                                      /\ computeOf[s] \in DepsOf(i)}
           readers == {i \in Index : computeOf[s] \in instrs[i].streams}
<1>1. \A j \in Ops : Lowered(j) /\ Part(j) \subseteq Index /\ computeOf[j] \in Part(j)
  <2>1. \A j \in Ops : Lowered(j)
    BY GraphFacts DEF Laid, Lowered, Inv, TypeOK
  <2> QED  BY <2>1, PartFacts
<1>2. storeOf[s] # None <=> ~IsFused(s)
  BY <1>1, PartFacts
<1>3. \A i \in stores : i = storeOf[s] /\ storeOf[s] # None
  <2> SUFFICES ASSUME NEW i \in stores PROVE i = storeOf[s] /\ storeOf[s] # None
    OBVIOUS
  <2>1. PICK k \in Ops : i \in Part(k)
    BY PartsCover
  <2>2. i = storeOf[k] /\ storeOf[k] # None
    BY <1>1, <2>1, StoreLaid
  <2>3. computeOf[s] = computeOf[k]
    BY <1>1, <2>2, PartFacts
  <2> QED  BY <1>1, <2>2, <2>3, OneComputation
<1>4. storeOf[s] # None => storeOf[s] \in stores
  BY <1>1, PartFacts
<1>5. ASSUME NEW i \in readers
      PROVE  \E k \in Ops, o \in Operand : i = computeOf[k] /\ Streams(k, o) /\ Source(k, o) = s
  <2>1. PICK k \in Ops : i \in Part(k)
    BY PartsCover
  <2>2. i = computeOf[k] /\ instrs[i].streams = Streamed(k)
    BY <1>1, <2>1, StoreLaid
  <2>3. PICK o \in Operand : Streams(k, o) /\ computeOf[s] = computeOf[Source(k, o)]
    BY <2>2 DEF Streamed
  <2>4. Lowered(Source(k, o))
    BY <1>1, <2>3, SourceLowered DEF Streams
  <2>5. Source(k, o) = s
    BY <1>1, <2>3, <2>4, OneComputation
  <2> QED  BY <2>2, <2>3, <2>5
<1>6. CASE IsFused(s)
  <2>1. PICK x \in Ops : Fuses(s, x)
    BY <1>6 DEF IsFused
  <2>2. PICK o \in Operand : Uses(s) = {<<x, o>>}
    BY <2>1 DEF Fuses
  <2>3. Source(x, o) = s
    <3>1. <<x, o>> \in Uses(s)
      BY <2>2
    <3> QED  BY <3>1 DEF Uses
  <2>4. s # 0
    BY GraphFacts DEF Inv, TypeOK
  <2>5. Streams(x, o)
    BY <2>1, <2>3, <2>4 DEF Streams
  <2>6. computeOf[x] \in readers
    BY <1>1, <2>3, <2>4, <2>5, ReadLaid
  <2>7. \A i \in readers : i = computeOf[x]
    <3> SUFFICES ASSUME NEW i \in readers PROVE i = computeOf[x]
      OBVIOUS
    <3>1. PICK k \in Ops, p \in Operand : i = computeOf[k] /\ Source(k, p) = s
      BY <1>5
    <3>2. <<k, p>> \in Uses(s)
      BY <3>1 DEF Uses
    <3> QED  BY <2>2, <3>1, <3>2
  <2>8. readers = {computeOf[x]} /\ stores = {}
    BY <1>2, <1>3, <1>6, <2>6, <2>7
  <2> HIDE DEF readers, stores
  <2>9. Cardinality(readers) = 1 /\ Cardinality(stores) = 0 /\ Cardinality(Uses(s)) = 1
    BY <2>2, <2>8, FS_EmptySet, FS_Singleton
  <2> QED  BY <2>9 DEF readers, stores
<1>7. CASE ~IsFused(s)
  <2>1. readers = {}
    <3> SUFFICES ASSUME NEW i \in readers PROVE FALSE
      OBVIOUS
    <3>1. PICK k \in Ops, p \in Operand : Streams(k, p) /\ Source(k, p) = s
      BY <1>5
    <3> QED  BY <1>7, <3>1 DEF Streams, IsFused
  <2>2. stores = {storeOf[s]}
    BY <1>2, <1>3, <1>4, <1>7
  <2> HIDE DEF readers, stores
  <2>3. Cardinality(readers) = 0 /\ Cardinality(stores) = 1
    BY <2>1, <2>2, FS_EmptySet, FS_Singleton
  <2> QED  BY <2>1, <2>3 DEF readers, stores
<1> QED  BY <1>6, <1>7

-----------------------------------------------------------------------------
(* lower() keeps its types, for every graph. *)
THEOREM LoweringTypeCorrect == Spec => []TypeOK
<1>1. Inv => TypeOK
  BY DEF Inv
<1> QED  BY <1>1, InitInv, NextInv, PTL DEF Spec

(* Every list lower() builds is in producer-before-consumer order. *)
THEOREM LoweredProgramsAreOrdered == Spec => []ProducersFirst
<1>1. Inv => ProducersFirst
  BY DEF Inv
<1> QED  BY <1>1, InitInv, NextInv, PTL DEF Spec

(* On a graph in execution order no lookup of a store or of a streamed     *)
(* computation fails: fusion never leaves a reader behind.                 *)
THEOREM GraphsInOrderLower == Spec => []ResolvesAll
<1>1. Inv => ResolvesAll
  BY DEF Inv
<1> QED  BY <1>1, InitInv, NextInv, PTL DEF Spec

(* Every result either lands in GM, by one store, or is streamed to its    *)
(* only reader: fusion neither loses a result nor duplicates one, in a     *)
(* graph of any size and shape.                                            *)
THEOREM EveryResultIsStoredOrStreamed == Spec => []StoredOrStreamed
BY InitInv, NextInv, InitLaid, LaidNext, StoredLaid, PTL DEF Spec

(* The list orders two computations exactly if the graph makes one depend  *)
(* on the other, and what is not streamed has landed in GM before its      *)
(* reader computes.                                                        *)
THEOREM LoweringKeepsTheDataflow == Spec => []DataflowKept
BY InitInv, NextInv, InitLaid, LaidNext, DataflowLaid, PTL DEF Spec
-----------------------------------------------------------------------------
(***************************************************************************)
(*                       What streaming leaves out                         *)
(*                                                                         *)
(* The list of a graph next to the one the same graph is lowered to on a   *)
(* chip without the stream link: the shorter one is part of the longer one,*)
(* in the same order, on the same units and with the same dependences; what*)
(* it leaves out are the stores of the streamed results and their reloads. *)
(***************************************************************************)

(* Instruction x of list s is one of unit u on tensor t and waits for ds. *)
DepsIn(s, x) == {s[x].deps[j] : j \in DOMAIN s[x].deps}
Does(s, x, u, t, ds) == s[x].unit = u /\ s[x].tensor = t /\ DepsIn(s, x) = ds

(* What the load of operand i of op k waits for, if every result is stored *)
(* right after its computation and C says where that is.                   *)
Stored(C, k, i) == IF Source(k, i) = 0 THEN {} ELSE {C[Source(k, i)] + 1}

(* What comes before the computation of op k. *)
Lead(k) == IF Op(k).kind = "add" THEN 2 ELSE 4
Block(C, k) == C[k] - Lead(k) .. C[k] + 1

UnfusedOp(s, C, k) ==
  LET c == C[k]
  IN  /\ c \in Nat /\ c > Lead(k) /\ c + 1 <= Len(s)
      /\ Does(s, c - Lead(k), "MTE2", TensorOf(k, 1), Stored(C, k, 1))
      /\ Does(s, c - Lead(k) + 1, "MTE2", TensorOf(k, 2), Stored(C, k, 2))
      /\ Op(k).kind = "add" =>
           /\ Does(s, c, "Vector", TensorOf(k, Out), {c - 2, c - 1})
           /\ Does(s, c + 1, "MTE3", TensorOf(k, Out), {c})
      /\ Op(k).kind # "add" =>
           /\ Does(s, c - 2, "MTE1", TensorOf(k, 1), {c - 4})
           /\ Does(s, c - 1, "MTE1", TensorOf(k, 2), {c - 3})
           /\ Does(s, c, "Cube", TensorOf(k, Work), {c - 2, c - 1})
           /\ Does(s, c + 1, "FixPipe", TensorOf(k, Out), {c})

(* s is the list of the graph if nothing is streamed, its computations are *)
(* at the places C.                                                        *)
Unfused(s, C) ==
  /\ Len(s) \in Nat
  /\ \A k \in Ops : UnfusedOp(s, C, k)
  /\ \A j, k \in Ops : j < k => C[j] + 1 < C[k] - Lead(k)
  /\ \A x \in 1 .. Len(s) : \E k \in Ops : x \in Block(C, k)

(* f finds every instruction of the list in s: in the same order, on the   *)
(* same unit and the same tensor, after the same inputs.  Where op k is    *)
(* streamed its operand o, s has a store y of the producer's result and a  *)
(* reload x instead; it has nothing else besides.                          *)
LeftOut(f, x) == \A i \in Index : f[i] # x

Detour(f, s, k, o, y, x) ==
  LET p == Source(k, o)
  IN  /\ y \in 1 .. Len(s) /\ LeftOut(f, y)
      /\ Does(s, y, "FixPipe", TensorOf(p, Out), {f[computeOf[p]]})
      /\ x \in 1 .. Len(s) /\ LeftOut(f, x) /\ Does(s, x, "MTE2", TensorOf(k, o), {y})

(* Producer p is streamed to the one that x delivers to in s. *)
Detours(f, s, p, x) ==
  \E k \in Ops, o \in Operand, y \in 1 .. Len(s) :
    /\ Streams(k, o) /\ p = computeOf[Source(k, o)]
    /\ Detour(f, s, k, o, y, x)

Embeds(f, s) ==
  /\ f \in [Index -> 1 .. Len(s)]
  /\ \A i, j \in Index : i < j => f[i] < f[j]
  /\ \A i \in Index :
       /\ s[f[i]].unit = instrs[i].unit /\ s[f[i]].tensor = instrs[i].tensor
       /\ \A d \in DepsOf(i) : d \in Index /\ f[d] \in DepsIn(s, f[i])
       /\ \A p \in instrs[i].streams : p \in Index /\
            \E x \in DepsIn(s, f[i]) : Detours(f, s, p, x)
  /\ \A x \in 1 .. Len(s) : LeftOut(f, x) =>
       \E p \in Index :
         \/ DepsIn(s, x) = {f[p]}
         \/ \E y \in 1 .. Len(s) : LeftOut(f, y) /\ DepsIn(s, x) = {y} /\ DepsIn(s, y) = {f[p]}

(* The instructions of a lowered op, each at its distance from the op's    *)
(* computation.                                                            *)
LEMMA LoadDoes ==
  ASSUME Inv, Laid, pc \in {"lower", "done"}, NEW k, Lowered(k), NEW o \in Operand,
         NEW i \in Index, instrs[i] = LoadInstr(k, o)
  PROVE  /\ Does(instrs, i, "MTE2", TensorOf(k, o), Stored(computeOf, k, o))
         /\ instrs[i].streams = {}
<1>1. /\ DepsIn(instrs, i) = DepsOf(i)
      /\ instrs[i].unit = "MTE2" /\ instrs[i].tensor = TensorOf(k, o) /\ instrs[i].streams = {}
  <2>1. DepsIn(instrs, i) = DepsOf(i)
    BY DEF DepsIn, DepsOf
  <2>2. /\ instrs[i].unit = "MTE2" /\ instrs[i].tensor = TensorOf(k, o)
        /\ instrs[i].streams = {}
    BY DEF LoadInstr, Instr
  <2> QED  BY <2>1, <2>2
<1>2. /\ DepsOf(i) = IF Source(k, o) = 0 THEN {} ELSE {storeOf[Source(k, o)]}
      /\ Source(k, o) # 0 => storeOf[Source(k, o)] # None
  BY LoadWaits
<1>3. Source(k, o) # 0 => storeOf[Source(k, o)] = computeOf[Source(k, o)] + 1
  <2> SUFFICES ASSUME Source(k, o) # 0
               PROVE  storeOf[Source(k, o)] = computeOf[Source(k, o)] + 1
    OBVIOUS
  <2>1. Emitted(Source(k, o))
    BY SourceLowered DEF Laid, Lowered
  <2> QED  BY <1>2, <2>1 DEF Emitted
<1> QED  BY <1>1, <1>2, <1>3 DEF Does, Stored

LEMMA OneDoes ==
  ASSUME NEW i, NEW u, NEW t, NEW x, instrs[i] = Instr(u, t, <<x>>)
  PROVE  Does(instrs, i, u, t, {x}) /\ instrs[i].streams = {}
<1>1. /\ instrs[i].unit = u /\ instrs[i].tensor = t /\ instrs[i].streams = {}
      /\ instrs[i].deps = <<x>>
  BY DEF Instr
<1>2. DepsOf(i) = {x}
  BY <1>1, DepsAre
<1> QED  BY <1>1, <1>2 DEF Does, DepsIn, DepsOf

LEMMA TwoDoes ==
  ASSUME NEW i, NEW u, NEW t, NEW x, NEW y, instrs[i] = Instr(u, t, <<x, y>>)
  PROVE  Does(instrs, i, u, t, {x, y}) /\ instrs[i].streams = {}
<1>1. /\ instrs[i].unit = u /\ instrs[i].tensor = t /\ instrs[i].streams = {}
      /\ instrs[i].deps = <<x, y>>
  BY DEF Instr
<1>2. DepsOf(i) = {x, y}
  BY <1>1, DepsAre
<1> QED  BY <1>1, <1>2 DEF Does, DepsIn, DepsOf

LEMMA AddTable ==
  ASSUME Inv, Laid, pc \in {"lower", "done"}, NEW k, Lowered(k), Op(k).kind = "add"
  PROVE  LET c == computeOf[k]
             n == Len(Loads(k))
         IN  /\ n = (IF Streams(k, 1) THEN 0 ELSE 1) + (IF Streams(k, 2) THEN 0 ELSE 1)
             /\ c \in Nat /\ c > n /\ c + 1 <= Len(instrs)
             /\ Part(k) = c - n .. c + 1
             /\ ~Streams(k, 1) =>
                  /\ Does(instrs, c - n, "MTE2", TensorOf(k, 1), Stored(computeOf, k, 1))
                  /\ instrs[c - n].streams = {}
             /\ ~Streams(k, 2) =>
                  /\ Does(instrs, c - 1, "MTE2", TensorOf(k, 2), Stored(computeOf, k, 2))
                  /\ instrs[c - 1].streams = {}
             /\ Does(instrs, c, "Vector", TensorOf(k, Out), c - n .. c - 1)
             /\ instrs[c].streams = Streamed(k)
             /\ Does(instrs, c + 1, "MTE3", TensorOf(k, Out), {c})
             /\ instrs[c + 1].streams = {}
<1> DEFINE c == computeOf[k]
           n == Len(Loads(k))
           b == Base(k)
<1>1. k \in Ops /\ k < at /\ Index = 1 .. Len(instrs) /\ Len(instrs) \in Nat
  BY DEF Lowered, Index, Inv, TypeOK
<1>2. /\ b \in Nat /\ n \in 0 .. 2 /\ c = b + n + 1
      /\ Part(k) = b + 1 .. c + 1 /\ c + 1 <= Len(instrs)
      /\ instrs[c].unit = "Vector" /\ instrs[c].tensor = TensorOf(k, Out)
      /\ DepsOf(c) = b + 1 .. b + n /\ instrs[c].streams = Streamed(k)
      /\ instrs[c + 1] = Instr("MTE3", TensorOf(k, Out), <<c>>)
  BY <1>1, AddLaid, Zenon
<1>3. /\ n = (IF Streams(k, 1) THEN 0 ELSE 1) + (IF Streams(k, 2) THEN 0 ELSE 1)
      /\ ~Streams(k, 1) => Loads(k)[1] = LoadInstr(k, 1)
      /\ ~Streams(k, 2) => Loads(k)[n] = LoadInstr(k, 2)
  BY LoadPlaces
<1>4. ASSUME NEW m \in 1 .. n PROVE instrs[b + m] = Loads(k)[m]
  <2>1. Emitted(k) /\ Size(k) = n + 2
    BY <1>1 DEF Laid, Size
  <2>2. m \in 1 .. n + 2
    BY <1>2
  <2>3. instrs[b + m] = AddInstrs(k, b)[m]
    BY <2>1, <2>2 DEF Emitted, OpInstrs
  <2>4. AddInstrs(k, b)[m] = Loads(k)[m]
    BY <1>2, AddShape
  <2> QED  BY <2>3, <2>4
<1> HIDE DEF b, n, c
<1>5. /\ c - n = b + 1 /\ c - 1 = b + n /\ c \in Nat /\ c > n
      /\ b + 1 .. c + 1 = c - n .. c + 1 /\ b + 1 .. b + n = c - n .. c - 1
  BY <1>2
<1>6. ASSUME ~Streams(k, 1)
      PROVE  /\ Does(instrs, c - n, "MTE2", TensorOf(k, 1), Stored(computeOf, k, 1))
             /\ instrs[c - n].streams = {}
  <2>1. 1 \in 1 .. n /\ c - n \in Index /\ 1 \in Operand
    BY <1>1, <1>2, <1>3, <1>6 DEF Operand
  <2>2. instrs[c - n] = LoadInstr(k, 1)
    BY <1>3, <1>4, <1>5, <1>6, <2>1
  <2> QED  BY <2>1, <2>2, LoadDoes
<1>7. ASSUME ~Streams(k, 2)
      PROVE  /\ Does(instrs, c - 1, "MTE2", TensorOf(k, 2), Stored(computeOf, k, 2))
             /\ instrs[c - 1].streams = {}
  <2>1. n \in 1 .. n /\ c - 1 \in Index /\ 2 \in Operand
    BY <1>1, <1>2, <1>3, <1>7 DEF Operand
  <2>2. instrs[c - 1] = LoadInstr(k, 2)
    BY <1>3, <1>4, <1>5, <1>7, <2>1
  <2> QED  BY <2>1, <2>2, LoadDoes
<1>8. Does(instrs, c, "Vector", TensorOf(k, Out), c - n .. c - 1)
  BY <1>2, <1>5 DEF Does, DepsIn, DepsOf
<1>9. Does(instrs, c + 1, "MTE3", TensorOf(k, Out), {c}) /\ instrs[c + 1].streams = {}
  BY <1>2, OneDoes
<1> QED  BY <1>2, <1>3, <1>5, <1>6, <1>7, <1>8, <1>9 DEF c, n

LEMMA MatmulTable ==
  ASSUME Inv, Laid, pc \in {"lower", "done"}, NEW k, Lowered(k), Op(k).kind # "add"
  PROVE  LET c == computeOf[k]
             e == IF IsFused(k) THEN c ELSE c + 1
         IN  /\ Op(k).kind = "matmul" /\ c \in Nat /\ c > 4 /\ e <= Len(instrs)
             /\ Part(k) = c - 4 .. e
             /\ Does(instrs, c - 4, "MTE2", TensorOf(k, 1), Stored(computeOf, k, 1))
             /\ Does(instrs, c - 3, "MTE2", TensorOf(k, 2), Stored(computeOf, k, 2))
             /\ Does(instrs, c - 2, "MTE1", TensorOf(k, 1), {c - 4})
             /\ Does(instrs, c - 1, "MTE1", TensorOf(k, 2), {c - 3})
             /\ Does(instrs, c, "Cube", TensorOf(k, Work), {c - 2, c - 1})
             /\ ~IsFused(k) => Does(instrs, c + 1, "FixPipe", TensorOf(k, Out), {c})
             /\ \A i \in Part(k) : instrs[i].streams = {}
<1> DEFINE c == computeOf[k]
           b == Base(k)
           e == IF IsFused(k) THEN c ELSE c + 1
<1>1. k \in Ops /\ k < at /\ Index = 1 .. Len(instrs) /\ Len(instrs) \in Nat
      /\ 1 \in Operand /\ 2 \in Operand
  BY DEF Lowered, Index, Inv, TypeOK, Operand
<1>2. /\ Op(k).kind = "matmul" /\ b \in Nat /\ c = b + 5
      /\ Part(k) = b + 1 .. e /\ e <= Len(instrs)
      /\ instrs[b + 1] = LoadInstr(k, 1)
      /\ instrs[b + 2] = LoadInstr(k, 2)
      /\ instrs[b + 3] = Instr("MTE1", TensorOf(k, 1), <<b + 1>>)
      /\ instrs[b + 4] = Instr("MTE1", TensorOf(k, 2), <<b + 2>>)
      /\ instrs[c] = Instr("Cube", TensorOf(k, Work), <<b + 3, b + 4>>)
      /\ ~IsFused(k) => instrs[c + 1] = Instr("FixPipe", TensorOf(k, Out), <<c>>)
  BY <1>1, MatmulLaid
<1>3. e = IF IsFused(k) THEN c ELSE c + 1
  OBVIOUS
<1> HIDE DEF b, c, e
<1>4. /\ b + 1 = c - 4 /\ b + 2 = c - 3 /\ b + 3 = c - 2 /\ b + 4 = c - 1
      /\ c \in Nat /\ c > 4 /\ Part(k) = c - 4 .. e
      /\ c - 4 \in Index /\ c - 3 \in Index
  BY <1>1, <1>2, <1>3
<1>5. /\ Does(instrs, c - 4, "MTE2", TensorOf(k, 1), Stored(computeOf, k, 1))
      /\ instrs[c - 4].streams = {}
      /\ Does(instrs, c - 3, "MTE2", TensorOf(k, 2), Stored(computeOf, k, 2))
      /\ instrs[c - 3].streams = {}
  <2>1. /\ instrs[c - 4] = LoadInstr(k, 1)
        /\ instrs[c - 3] = LoadInstr(k, 2)
    BY <1>2, <1>4
  <2>2. /\ Does(instrs, c - 4, "MTE2", TensorOf(k, 1), Stored(computeOf, k, 1))
        /\ instrs[c - 4].streams = {}
    BY <1>1, <1>4, <2>1, LoadDoes
  <2>3. /\ Does(instrs, c - 3, "MTE2", TensorOf(k, 2), Stored(computeOf, k, 2))
        /\ instrs[c - 3].streams = {}
    BY <1>1, <1>4, <2>1, LoadDoes
  <2> QED  BY <2>2, <2>3
<1>6. /\ Does(instrs, c - 2, "MTE1", TensorOf(k, 1), {c - 4})
      /\ instrs[c - 2].streams = {}
      /\ Does(instrs, c - 1, "MTE1", TensorOf(k, 2), {c - 3})
      /\ instrs[c - 1].streams = {}
      /\ Does(instrs, c, "Cube", TensorOf(k, Work), {c - 2, c - 1})
      /\ instrs[c].streams = {}
      /\ ~IsFused(k) => /\ Does(instrs, c + 1, "FixPipe", TensorOf(k, Out), {c})
                        /\ instrs[c + 1].streams = {}
  <2>1. /\ instrs[c - 2] = Instr("MTE1", TensorOf(k, 1), <<c - 4>>)
        /\ instrs[c - 1] = Instr("MTE1", TensorOf(k, 2), <<c - 3>>)
        /\ instrs[c] = Instr("Cube", TensorOf(k, Work), <<c - 2, c - 1>>)
    BY <1>2, <1>4
  <2>2. /\ Does(instrs, c - 2, "MTE1", TensorOf(k, 1), {c - 4})
        /\ instrs[c - 2].streams = {}
        /\ Does(instrs, c - 1, "MTE1", TensorOf(k, 2), {c - 3})
        /\ instrs[c - 1].streams = {}
    BY <2>1, OneDoes
  <2>3. /\ Does(instrs, c, "Cube", TensorOf(k, Work), {c - 2, c - 1})
        /\ instrs[c].streams = {}
    BY <2>1, TwoDoes
  <2>4. ~IsFused(k) => /\ Does(instrs, c + 1, "FixPipe", TensorOf(k, Out), {c})
                       /\ instrs[c + 1].streams = {}
    BY <1>2, OneDoes
  <2> QED  BY <2>2, <2>3, <2>4
<1>7. ASSUME NEW i \in Part(k) PROVE instrs[i].streams = {}
  <2>1. i \in {c - 4, c - 3, c - 2, c - 1, c} \/ (i = c + 1 /\ ~IsFused(k))
    BY <1>3, <1>4
  <2> QED  BY <1>5, <1>6, <2>1
<1> QED  BY <1>2, <1>4, <1>5, <1>6, <1>7 DEF c, e

(* On a chip without the link nothing is left out. *)
LEMMA UnfusedList ==
  ASSUME Inv, Laid, pc = "done", graph.link = None
  PROVE  Unfused(instrs, computeOf)
<1>1. /\ \A k \in Ops, i \in Operand : ~Streams(k, i)
      /\ \A k \in Ops : ~IsFused(k) /\ Lowered(k)
      /\ Len(instrs) \in Nat /\ Ops \subseteq Nat
  <2>1. at = Len(graph.ops) + 1 /\ Len(graph.ops) \in Nat
    BY GraphFacts DEF Laid, Inv, TypeOK
  <2> QED  BY <2>1 DEF Streams, IsFused, Fuses, Lowered, Ops, Inv, TypeOK
<1>2. ASSUME NEW k \in Ops
      PROVE  UnfusedOp(instrs, computeOf, k) /\ Part(k) = Block(computeOf, k)
  <2> DEFINE c == computeOf[k]
  <2>1. CASE Op(k).kind = "add"
    <3>1. /\ Len(Loads(k)) = 2 /\ c \in Nat /\ c > 2 /\ c + 1 <= Len(instrs)
          /\ Part(k) = c - 2 .. c + 1
          /\ Does(instrs, c - 2, "MTE2", TensorOf(k, 1), Stored(computeOf, k, 1))
          /\ Does(instrs, c - 1, "MTE2", TensorOf(k, 2), Stored(computeOf, k, 2))
          /\ Does(instrs, c, "Vector", TensorOf(k, Out), c - 2 .. c - 1)
          /\ Does(instrs, c + 1, "MTE3", TensorOf(k, Out), {c})
      <4>1. 1 \in Operand /\ 2 \in Operand
        BY DEF Operand
      <4>2. ~Streams(k, 1) /\ ~Streams(k, 2) /\ Lowered(k)
        BY <1>1, <4>1
      <4>3. Len(Loads(k)) = (IF Streams(k, 1) THEN 0 ELSE 1) + (IF Streams(k, 2) THEN 0 ELSE 1)
        BY LoadPlaces
      <4>4. Len(Loads(k)) = 2
        BY <4>2, <4>3
      <4> QED  BY <2>1, <4>2, <4>4, AddTable
    <3> HIDE DEF c
    <3>2. c - 2 .. c - 1 = {c - 2, c - 1} /\ c - 2 + 1 = c - 1
      BY <3>1
    <3>3. Lead(k) = 2
      BY <2>1 DEF Lead
    <3> QED  BY <2>1, <3>1, <3>2, <3>3 DEF UnfusedOp, Block, c
  <2>2. CASE Op(k).kind # "add"
    <3>1. /\ c \in Nat /\ c > 4 /\ c + 1 <= Len(instrs) /\ Part(k) = c - 4 .. c + 1
          /\ Does(instrs, c - 4, "MTE2", TensorOf(k, 1), Stored(computeOf, k, 1))
          /\ Does(instrs, c - 3, "MTE2", TensorOf(k, 2), Stored(computeOf, k, 2))
          /\ Does(instrs, c - 2, "MTE1", TensorOf(k, 1), {c - 4})
          /\ Does(instrs, c - 1, "MTE1", TensorOf(k, 2), {c - 3})
          /\ Does(instrs, c, "Cube", TensorOf(k, Work), {c - 2, c - 1})
          /\ Does(instrs, c + 1, "FixPipe", TensorOf(k, Out), {c})
      BY <1>1, <2>2, MatmulTable
    <3> HIDE DEF c
    <3>2. c - 4 + 1 = c - 3
      BY <3>1
    <3>3. Lead(k) = 4
      BY <2>2 DEF Lead
    <3> QED  BY <2>2, <3>1, <3>2, <3>3 DEF UnfusedOp, Block, c
  <2> QED  BY <2>1, <2>2
<1>3. ASSUME NEW j \in Ops, NEW k \in Ops, j < k
      PROVE  computeOf[j] + 1 < computeOf[k] - Lead(k)
  <2>1. /\ computeOf[j] + 1 \in Part(j) /\ computeOf[k] - Lead(k) \in Part(k)
        /\ computeOf[j] \in Nat /\ computeOf[k] \in Nat
    <3>1. Lead(k) \in {2, 4} /\ Lead(j) \in {2, 4}
      BY DEF Lead
    <3>2. /\ computeOf[j] \in Nat /\ computeOf[k] \in Nat
          /\ Part(j) = computeOf[j] - Lead(j) .. computeOf[j] + 1
          /\ Part(k) = computeOf[k] - Lead(k) .. computeOf[k] + 1
      BY <1>2 DEF UnfusedOp, Block
    <3>3. ASSUME NEW c \in Nat, NEW l \in {2, 4}
          PROVE  c + 1 \in c - l .. c + 1 /\ c - l \in c - l .. c + 1
      OBVIOUS
    <3> QED  BY <3>1, <3>2, <3>3
  <2>2. End(j) <= Base(k)
    BY <1>1, <1>3 DEF Laid, Lowered
  <2>3. Base(k) \in Nat /\ Base(j) \in Nat /\ Size(j) \in Nat
    <3>1. Emitted(j) /\ Emitted(k)
      BY <1>1 DEF Laid, Lowered
    <3> QED  BY <3>1, OpShape DEF Emitted
  <2> QED  BY <2>1, <2>2, <2>3 DEF Part, End
<1>4. ASSUME NEW x \in 1 .. Len(instrs) PROVE \E k \in Ops : x \in Block(computeOf, k)
  BY <1>2, PartsCover DEF Index
<1> QED  BY <1>1, <1>2, <1>3, <1>4 DEF Unfused

(* Where instruction i of op k is found: as far from the op's computation, *)
(* unless it is the first load of an add that streams the second operand.  *)
Shift(C, k, i) ==
  LET gap == IF Op(k).kind = "add" /\ Streams(k, 2) /\ i < computeOf[k] THEN 1 ELSE 0
  IN  C[k] + i - computeOf[k] - gap

Lands(f, C) == \A k \in Ops : \A i \in Part(k) : f[i] = Shift(C, k, i)

(* The places of op k at which nothing lands. *)
Skipped(k, C) ==
  {x \in {C[k] - 2} : Op(k).kind = "add" /\ Streams(k, 1)}
    \cup {x \in {C[k] - 1} : Op(k).kind = "add" /\ Streams(k, 2)}
    \cup {x \in {C[k] + 1} : Op(k).kind # "add" /\ IsFused(k)}

LEMMA AddLands ==
  ASSUME Inv, Laid, pc \in {"lower", "done"}, NEW k, Lowered(k), Op(k).kind = "add",
         NEW f, NEW C, Lands(f, C), C[k] \in Nat
  PROVE  LET c == computeOf[k]
             n == Len(Loads(k))
         IN  /\ f[c] = C[k] /\ f[c + 1] = C[k] + 1
             /\ ~Streams(k, 1) => f[c - n] = C[k] - 2
             /\ ~Streams(k, 2) => f[c - 1] = C[k] - 1
             /\ \A i \in Part(k) : f[i] \in Block(C, k) \ Skipped(k, C)
             /\ \A i, j \in Part(k) : i < j => f[i] < f[j]
             /\ \A x \in Block(C, k) \ Skipped(k, C) : \E i \in Part(k) : f[i] = x
<1> DEFINE c == computeOf[k]
           n == Len(Loads(k))
           e == C[k]
<1>1. /\ n = (IF Streams(k, 1) THEN 0 ELSE 1) + (IF Streams(k, 2) THEN 0 ELSE 1)
      /\ c \in Nat /\ c > n /\ Part(k) = c - n .. c + 1
  BY AddTable
<1>2. /\ Block(C, k) = e - 2 .. e + 1
      /\ Skipped(k, C) = {x \in {e - 2} : Streams(k, 1)} \cup {x \in {e - 1} : Streams(k, 2)}
  BY DEF Block, Skipped, Lead
<1>3. \A i \in Part(k) : f[i] = e + i - c - (IF Streams(k, 2) /\ i < c THEN 1 ELSE 0)
  BY DEF Lands, Shift, Lowered
<1> HIDE DEF c, n, e
<1>4. e \in Nat /\ Block(C, k) = {e - 2, e - 1, e, e + 1}
  <2>1. e \in Nat
    BY DEF e
  <2> QED  BY <1>2, <2>1
<1>5. CASE ~Streams(k, 1) /\ ~Streams(k, 2)
  <2>1. n = 2
    BY <1>1, <1>5
  <2>2. Skipped(k, C) = {} /\ \A i \in Part(k) : f[i] = e + i - c
    BY <1>1, <1>2, <1>3, <1>4, <1>5
  <2>3. /\ f[c] = e /\ f[c + 1] = e + 1 /\ f[c - n] = e - 2 /\ f[c - 1] = e - 1
    <3>1. c \in Part(k) /\ c + 1 \in Part(k) /\ c - 2 \in Part(k) /\ c - 1 \in Part(k)
      BY <1>1, <2>1
    <3>2. /\ f[c] = e + c - c /\ f[c + 1] = e + (c + 1) - c
          /\ f[c - 2] = e + (c - 2) - c /\ f[c - 1] = e + (c - 1) - c
      BY <2>2, <3>1
    <3> QED  BY <1>1, <1>4, <2>1, <3>2
  <2>4. /\ \A i \in Part(k) : f[i] \in Block(C, k) \ Skipped(k, C)
        /\ \A i, j \in Part(k) : i < j => f[i] < f[j]
    <3>1. ASSUME NEW i \in Part(k)
          PROVE  i \in {c - 2, c - 1, c, c + 1} /\ f[i] = e + i - c
      BY <1>1, <2>1, <2>2
    <3>2. ASSUME NEW i \in Part(k) PROVE f[i] \in Block(C, k) \ Skipped(k, C)
      BY <1>1, <1>4, <2>2, <3>1
    <3>3. ASSUME NEW i \in Part(k), NEW j \in Part(k), i < j PROVE f[i] < f[j]
      BY <1>1, <1>4, <3>1, <3>3
    <3> QED  BY <3>2, <3>3
  <2>5. ASSUME NEW x \in Block(C, k) \ Skipped(k, C) PROVE \E i \in Part(k) : f[i] = x
    <3>1. c + x - e \in Part(k) /\ f[c + x - e] = x
      BY <1>1, <1>2, <1>4, <2>1, <2>2
    <3> QED  BY <3>1
  <2> QED  BY <2>3, <2>4, <2>5 DEF c, n, e
<1>6. CASE Streams(k, 1) /\ ~Streams(k, 2)
  <2>1. n = 1
    BY <1>1, <1>6
  <2>2. Skipped(k, C) = {e - 2} /\ Part(k) = {c - 1, c, c + 1}
    BY <1>1, <1>2, <1>4, <1>6, <2>1
  <2>3. f[c] = e /\ f[c + 1] = e + 1 /\ f[c - 1] = e - 1
    <3>1. \A i \in Part(k) : f[i] = e + i - c - 0
      BY <1>3, <1>6
    <3>2. f[c] = e + c - c - 0 /\ f[c + 1] = e + (c + 1) - c - 0 /\ f[c - 1] = e + (c - 1) - c - 0
      BY <2>2, <3>1
    <3> QED  BY <1>1, <1>4, <3>2
  <2>4. Block(C, k) \ Skipped(k, C) = {e, e + 1, e - 1}
    BY <1>4, <2>2
  <2>5. \A i, j \in Part(k) : i < j => f[i] < f[j]
    BY <1>1, <1>4, <2>2, <2>3
  <2> QED  BY <1>6, <2>1, <2>2, <2>3, <2>4, <2>5 DEF c, n, e
<1>7. CASE ~Streams(k, 1) /\ Streams(k, 2)
  <2>1. n = 1
    BY <1>1, <1>7
  <2>2. /\ Skipped(k, C) = {e - 1} /\ f[c] = e /\ f[c + 1] = e + 1 /\ f[c - 1] = e - 2
        /\ Part(k) = {c - 1, c, c + 1}
    <3>1. Skipped(k, C) = {e - 1} /\ Part(k) = {c - 1, c, c + 1}
      BY <1>1, <1>2, <1>4, <1>7, <2>1
    <3>2. \A i \in Part(k) : f[i] = e + i - c - (IF i < c THEN 1 ELSE 0)
      BY <1>3, <1>7
    <3>3. ASSUME NEW i \in Part(k)
          PROVE  i \in Int /\ f[i] = IF i < c THEN e + i - c - 1 ELSE e + i - c
      BY <1>1, <1>4, <3>1, <3>2
    <3>4. c - 1 < c /\ ~ c < c /\ ~ c + 1 < c
      BY <1>1
    <3>5. /\ f[c] = e + c - c /\ f[c + 1] = e + (c + 1) - c
          /\ f[c - 1] = e + (c - 1) - c - 1
      BY <3>1, <3>3, <3>4
    <3> QED  BY <1>1, <1>4, <3>1, <3>5
  <2>3. Block(C, k) \ Skipped(k, C) = {e - 2, e, e + 1}
    BY <1>4, <2>2
  <2>4. \A i, j \in Part(k) : i < j => f[i] < f[j]
    BY <1>1, <1>4, <2>2
  <2> QED  BY <1>7, <2>1, <2>2, <2>3, <2>4 DEF c, n, e
<1>8. CASE Streams(k, 1) /\ Streams(k, 2)
  <2>1. n = 0
    BY <1>1, <1>8
  <2>2. /\ Skipped(k, C) = {e - 2, e - 1} /\ f[c] = e /\ f[c + 1] = e + 1
        /\ Part(k) = {c, c + 1}
    BY <1>1, <1>2, <1>3, <1>4, <1>8, <2>1
  <2>3. Block(C, k) \ Skipped(k, C) = {e, e + 1}
    BY <1>4, <2>2
  <2>4. \A i, j \in Part(k) : i < j => f[i] < f[j]
    BY <1>1, <1>4, <2>2
  <2> QED  BY <1>8, <2>2, <2>3, <2>4 DEF c, n, e
<1> QED  BY <1>5, <1>6, <1>7, <1>8

LEMMA MatmulLands ==
  ASSUME Inv, Laid, pc \in {"lower", "done"}, NEW k, Lowered(k), Op(k).kind # "add",
         NEW f, NEW C, Lands(f, C), C[k] \in Nat
  PROVE  LET c == computeOf[k]
         IN  /\ \A m \in 0 .. 4 : c - m \in Part(k) /\ f[c - m] = C[k] - m
             /\ ~IsFused(k) => f[c + 1] = C[k] + 1
             /\ \A i \in Part(k) : f[i] \in Block(C, k) \ Skipped(k, C)
             /\ \A i, j \in Part(k) : i < j => f[i] < f[j]
             /\ \A x \in Block(C, k) \ Skipped(k, C) : \E i \in Part(k) : f[i] = x
<1> DEFINE c == computeOf[k]
           e == C[k]
<1>1. c \in Nat /\ c > 4 /\ Part(k) = c - 4 .. (IF IsFused(k) THEN c ELSE c + 1)
  BY MatmulTable
<1>2. /\ Block(C, k) = e - 4 .. e + 1
      /\ Skipped(k, C) = {x \in {e + 1} : IsFused(k)}
  BY DEF Block, Skipped, Lead
<1>3. \A i \in Part(k) : f[i] = e + i - c - 0
  BY DEF Lands, Shift, Lowered
<1> HIDE DEF c, e
<1>4. e \in Nat /\ \A i \in Part(k) : f[i] = e + i - c
  <2>1. e \in Nat
    BY DEF e
  <2> QED  BY <1>1, <1>3, <2>1
<1>5. /\ \A m \in 0 .. 4 : c - m \in Part(k) /\ f[c - m] = e - m
      /\ ~IsFused(k) => f[c + 1] = e + 1
  <2>1. ASSUME NEW m \in 0 .. 4 PROVE c - m \in Part(k) /\ f[c - m] = e - m
    <3>1. c - m \in Part(k)
      BY <1>1
    <3>2. f[c - m] = e + (c - m) - c
      BY <1>4, <3>1
    <3> QED  BY <1>1, <1>4, <3>1, <3>2
  <2>2. ASSUME ~IsFused(k) PROVE f[c + 1] = e + 1
    BY <1>1, <1>4, <2>2
  <2> QED  BY <2>1, <2>2
<1>6. /\ \A i \in Part(k) : f[i] \in Block(C, k) \ Skipped(k, C)
      /\ \A i, j \in Part(k) : i < j => f[i] < f[j]
  BY <1>1, <1>2, <1>4
<1>7. ASSUME NEW x \in Block(C, k) \ Skipped(k, C) PROVE \E i \in Part(k) : f[i] = x
  <2>1. c + x - e \in Part(k) /\ f[c + x - e] = x
    BY <1>1, <1>2, <1>4
  <2> QED  BY <2>1
<1> QED  BY <1>5, <1>6, <1>7 DEF c, e

LEMMA PartLands ==
  ASSUME Inv, Laid, pc \in {"lower", "done"}, NEW k, Lowered(k),
         NEW f, NEW C, Lands(f, C), C[k] \in Nat
  PROVE  /\ f[computeOf[k]] = C[k] /\ computeOf[k] \in Part(k)
         /\ ~IsFused(k) => f[computeOf[k] + 1] = C[k] + 1 /\ computeOf[k] + 1 \in Part(k)
         /\ \A i \in Part(k) : f[i] \in Block(C, k) \ Skipped(k, C)
         /\ \A i, j \in Part(k) : i < j => f[i] < f[j]
         /\ \A x \in Block(C, k) \ Skipped(k, C) : \E i \in Part(k) : f[i] = x
<1>1. computeOf[k] \in Part(k) /\ (~IsFused(k) => computeOf[k] + 1 \in Part(k))
  <2>1. storeOf[k] = IF IsFused(k) THEN None ELSE computeOf[k] + 1
    BY DEF Laid, Emitted, Lowered
  <2> QED  BY <2>1, PartFacts
<1>2. CASE Op(k).kind = "add"
  BY <1>1, <1>2, AddLands
<1>3. CASE Op(k).kind # "add"
  <2>1. 0 \in 0 .. 4 /\ computeOf[k] \in Nat
    <3>1. computeOf[k] \in Nat
      BY <1>3, MatmulTable
    <3> QED  BY <3>1
  <2>2. f[computeOf[k] - 0] = C[k] - 0
    BY <1>3, <2>1, MatmulLands
  <2>3. f[computeOf[k]] = C[k]
    BY <2>1, <2>2
  <2> QED  BY <1>1, <1>3, <2>3, MatmulLands
<1> QED  BY <1>2, <1>3

LEMMA DoneFacts ==
  ASSUME Inv, Laid, pc = "done"
  PROVE  /\ \A k \in Ops : Lowered(k)
         /\ \A i \in Index : \E k \in Ops : i \in Part(k)
         /\ \A j, k \in Ops : j < k =>
               \A x \in Part(j), y \in Part(k) : x < y
         /\ \A k \in Ops : Part(k) \subseteq Index
         /\ Ops \subseteq Nat /\ Index \subseteq Nat
<1>1. /\ \A k \in Ops : Lowered(k)
      /\ Ops \subseteq Nat /\ Index \subseteq Nat
  <2>1. at = Len(graph.ops) + 1 /\ Len(graph.ops) \in Nat /\ Len(instrs) \in Nat
    BY GraphFacts DEF Laid, Inv, TypeOK
  <2> QED  BY <2>1 DEF Lowered, Ops, Index
<1>2. \A i \in Index : \E k \in Ops : i \in Part(k)
  BY PartsCover
<1>3. \A k \in Ops : Part(k) \subseteq Index
  BY <1>1, PartFacts
<1>4. ASSUME NEW j \in Ops, NEW k \in Ops, j < k, NEW x \in Part(j), NEW y \in Part(k)
      PROVE  x < y
  <2>1. Lowered(j) /\ Lowered(k)
    BY <1>1
  <2>2. End(j) <= Base(k)
    BY <1>4, <2>1 DEF Laid, Lowered
  <2>3. Base(k) \in Nat /\ Base(j) \in Nat /\ Size(j) \in Nat
    <3>1. Emitted(j) /\ Emitted(k)
      BY <2>1 DEF Laid, Lowered
    <3> QED  BY <3>1, OpShape DEF Emitted
  <2>4. End(j) \in Nat /\ x \in Nat /\ y \in Nat /\ x <= End(j) /\ Base(k) + 1 <= y
    <3>1. x \in Nat /\ y \in Nat
      BY <1>1, <1>3
    <3>2. End(j) \in Nat
      BY <2>3 DEF End
    <3> HIDE DEF End, Base
    <3> QED  BY <2>3, <3>1, <3>2 DEF Part
  <2> QED  BY <2>2, <2>3, <2>4
<1> QED  BY <1>1, <1>2, <1>3, <1>4

LEMMA BlockFacts ==
  ASSUME Inv, NEW s, NEW C, Unfused(s, C)
  PROVE  /\ \A k \in Ops : C[k] \in Nat /\ C[k] > 2 /\ Skipped(k, C) \subseteq Block(C, k)
         /\ \A k \in Ops : Block(C, k) \subseteq 1 .. Len(s)
         /\ \A j, k \in Ops : j < k => \A x \in Block(C, j), y \in Block(C, k) : x < y
<1>1. \A k \in Ops : /\ C[k] \in Nat /\ Lead(k) \in {2, 4} /\ C[k] > Lead(k)
                     /\ C[k] + 1 <= Len(s)
  BY DEF Unfused, UnfusedOp, Lead
<1>2. ASSUME NEW k \in Ops
      PROVE  C[k] \in Nat /\ C[k] > 2 /\ Skipped(k, C) \subseteq Block(C, k) /\ Block(C, k) \subseteq 1 .. Len(s)
  <2>1. C[k] > 2
    BY <1>1
  <2>2. Block(C, k) \subseteq 1 .. Len(s)
    BY <1>1 DEF Block, Unfused
  <2>3. Skipped(k, C) \subseteq Block(C, k)
    <3>1. C[k] - 2 \in Block(C, k) /\ C[k] - 1 \in Block(C, k) /\ C[k] + 1 \in Block(C, k)
      <4>1. ASSUME NEW c \in Nat, NEW l \in {2, 4}
            PROVE  c - 2 \in c - l .. c + 1 /\ c - 1 \in c - l .. c + 1 /\ c + 1 \in c - l .. c + 1
        OBVIOUS
      <4>2. C[k] \in Nat /\ Lead(k) \in {2, 4}
        BY <1>1
      <4> QED  BY <4>1, <4>2 DEF Block
    <3> QED  BY <3>1 DEF Skipped
  <2> QED  BY <1>1, <2>1, <2>2, <2>3
<1>3. ASSUME NEW j \in Ops, NEW k \in Ops, j < k,
             NEW x \in Block(C, j), NEW y \in Block(C, k)
      PROVE  x < y
  <2>1. C[j] + 1 < C[k] - Lead(k)
    BY <1>3 DEF Unfused
  <2>2. x \in Int /\ x <= C[j] + 1 /\ y \in Int /\ C[k] - Lead(k) <= y
    BY <1>1 DEF Block
  <2>3. C[j] \in Nat /\ C[k] - Lead(k) \in Int
    BY <1>1
  <2> QED  BY <2>1, <2>2, <2>3
<1> QED  BY <1>2, <1>3

(* The list lies in s in order, and misses just what the ops skip. *)
LEMMA ListLands ==
  ASSUME Inv, Laid, pc = "done", NEW s, NEW C, Unfused(s, C), NEW f, Lands(f, C)
  PROVE  /\ \A i \in Index : f[i] \in 1 .. Len(s)
         /\ \A i, j \in Index : i < j => f[i] < f[j]
         /\ \A k \in Ops : \A x \in Skipped(k, C) : x \in 1 .. Len(s) /\ LeftOut(f, x)
         /\ \A x \in 1 .. Len(s) : LeftOut(f, x) => \E k \in Ops : x \in Skipped(k, C)
<1>1. \A k \in Ops : /\ \A i \in Part(k) : f[i] \in Block(C, k) \ Skipped(k, C)
                     /\ \A i, j \in Part(k) : i < j => f[i] < f[j]
                     /\ \A x \in Block(C, k) \ Skipped(k, C) : \E i \in Part(k) : f[i] = x
  <2> SUFFICES ASSUME NEW k \in Ops
               PROVE  /\ \A i \in Part(k) : f[i] \in Block(C, k) \ Skipped(k, C)
                      /\ \A i, j \in Part(k) : i < j => f[i] < f[j]
                      /\ \A x \in Block(C, k) \ Skipped(k, C) : \E i \in Part(k) : f[i] = x
    OBVIOUS
  <2>1. Lowered(k) /\ C[k] \in Nat
    BY DoneFacts, BlockFacts
  <2> QED  BY <2>1, PartLands
<1>2. \A i \in Index : \E k \in Ops : i \in Part(k)
  BY DoneFacts
<1>3. ASSUME NEW i \in Index PROVE f[i] \in 1 .. Len(s)
  BY <1>1, <1>2, BlockFacts
<1>4. ASSUME NEW i \in Index, NEW j \in Index, i < j PROVE f[i] < f[j]
  <2>1. PICK p \in Ops : i \in Part(p)
    BY <1>2
  <2>2. PICK q \in Ops : j \in Part(q)
    BY <1>2
  <2>3. p \in Nat /\ q \in Nat /\ i \in Nat /\ j \in Nat
    BY DoneFacts
  <2>4. ~(q < p)
    <3>1. q < p => j < i
      BY <2>1, <2>2, DoneFacts
    <3> QED  BY <1>4, <2>3, <3>1
  <2>5. CASE p = q
    BY <1>1, <1>4, <2>1, <2>2, <2>5
  <2>6. CASE p < q
    <3>1. f[i] \in Block(C, p) /\ f[j] \in Block(C, q)
      BY <1>1, <2>1, <2>2
    <3> QED  BY <2>6, <3>1, BlockFacts
  <2> QED  BY <2>3, <2>4, <2>5, <2>6
<1>5. ASSUME NEW k \in Ops, NEW x \in Skipped(k, C) PROVE x \in 1 .. Len(s) /\ LeftOut(f, x)
  <2>1. x \in Block(C, k) /\ Block(C, k) \subseteq 1 .. Len(s)
    BY BlockFacts
  <2>2. ASSUME NEW i \in Index, f[i] = x PROVE FALSE
    <3>1. PICK p \in Ops : i \in Part(p)
      BY <1>2
    <3>2. p \in Nat /\ k \in Nat
      BY DoneFacts
    <3>3. x \in Block(C, p) /\ x \notin Skipped(p, C)
      BY <1>1, <2>2, <3>1
    <3>4. x \in Nat
      BY <2>1
    <3>5. ~(p < k) /\ ~(k < p)
      <4>1. p < k => x < x
        BY <2>1, <3>3, BlockFacts
      <4>2. k < p => x < x
        BY <2>1, <3>3, BlockFacts
      <4> QED  BY <3>4, <4>1, <4>2
    <3>6. p = k
      BY <3>2, <3>5
    <3> QED  BY <3>3, <3>6
  <2> QED  BY <2>1, <2>2 DEF LeftOut
<1>6. ASSUME NEW x \in 1 .. Len(s), LeftOut(f, x) PROVE \E k \in Ops : x \in Skipped(k, C)
  <2>1. PICK k \in Ops : x \in Block(C, k)
    BY DEF Unfused
  <2>2. ASSUME x \notin Skipped(k, C) PROVE FALSE
    <3>1. PICK i \in Part(k) : f[i] = x
      BY <1>1, <2>1, <2>2
    <3>2. i \in Index
      BY DoneFacts
    <3> QED  BY <1>6, <3>1, <3>2 DEF LeftOut
  <2> QED  BY <2>2
<1> QED  BY <1>3, <1>4, <1>5, <1>6

(* What is not streamed is stored. *)
LEMMA NotStreamed ==
  ASSUME Inv, NEW k \in Ops, NEW o \in Operand, Source(k, o) # 0, ~Streams(k, o)
  PROVE  ~IsFused(Source(k, o))
<1> SUFFICES ASSUME NEW c \in Ops, Fuses(Source(k, o), c) PROVE FALSE
  BY DEF IsFused
<1>1. PICK i \in Operand : Uses(Source(k, o)) = {<<c, i>>}
  BY DEF Fuses
<1>2. <<k, o>> \in Uses(Source(k, o))
  BY DEF Uses
<1>3. c = k
  BY <1>1, <1>2
<1> QED  BY <1>3 DEF Streams

LEMMA StreamsFused ==
  ASSUME Inv, NEW k \in Ops, NEW o \in Operand, Streams(k, o)
  PROVE  /\ Source(k, o) \in Ops /\ IsFused(Source(k, o)) /\ Op(Source(k, o)).kind = "matmul"
         /\ Op(k).kind = "add"
<1>1. Source(k, o) # 0 /\ Fuses(Source(k, o), k)
  BY DEF Streams
<1>2. Source(k, o) \in Ops
  BY <1>1, GraphFacts DEF Inv, TypeOK
<1> QED  BY <1>1, <1>2 DEF IsFused, Fuses

(* The unit, the tensor and the inputs of instruction i are those of its   *)
(* place in s.                                                             *)
Mirrors(f, s, i) ==
  /\ s[f[i]].unit = instrs[i].unit /\ s[f[i]].tensor = instrs[i].tensor
  /\ \A d \in DepsOf(i) : d \in Index /\ f[d] \in DepsIn(s, f[i])

LEMMA LoadMirrors ==
  ASSUME Inv, Laid, pc = "done", NEW s, NEW C, Unfused(s, C), NEW f, Lands(f, C),
         NEW k \in Ops, NEW o \in Operand, ~Streams(k, o), NEW i \in Index,
         Does(instrs, i, "MTE2", TensorOf(k, o), Stored(computeOf, k, o)),
         Does(s, f[i], "MTE2", TensorOf(k, o), Stored(C, k, o))
  PROVE  Mirrors(f, s, i)
<1> DEFINE p == Source(k, o)
<1>1. CASE p = 0
  BY <1>1 DEF Mirrors, Does, Stored, DepsOf, DepsIn
<1>2. CASE p # 0
  <2>1. ~IsFused(p) /\ Lowered(p) /\ p \in Ops
    BY <1>2, NotStreamed, DoneFacts, SourceLowered DEF Lowered
  <2>2. C[p] \in Nat
    BY <2>1, BlockFacts
  <2>3. f[computeOf[p] + 1] = C[p] + 1 /\ computeOf[p] + 1 \in Part(p)
    BY <2>1, <2>2, PartLands
  <2>4. computeOf[p] + 1 \in Index
    BY <2>1, <2>3, DoneFacts
  <2>5. DepsOf(i) = {computeOf[p] + 1} /\ DepsIn(s, f[i]) = {C[p] + 1}
    BY <1>2 DEF Does, Stored, DepsOf, DepsIn
  <2>6. s[f[i]].unit = instrs[i].unit /\ s[f[i]].tensor = instrs[i].tensor
    BY DEF Does
  <2> HIDE DEF p
  <2> QED  BY <2>3, <2>4, <2>5, <2>6 DEF Mirrors
<1> QED  BY <1>1, <1>2

LEMMA DoesMirror ==
  ASSUME NEW s, NEW f, NEW u, NEW t, NEW D, NEW E, NEW i,
         Does(instrs, i, u, t, D), Does(s, f[i], u, t, E),
         \A d \in D : d \in Index /\ f[d] \in E
  PROVE  Mirrors(f, s, i)
BY DEF Mirrors, Does, DepsIn, DepsOf

LEMMA AddMirrors ==
  ASSUME Inv, Laid, pc = "done", NEW s, NEW C, Unfused(s, C), NEW f, Lands(f, C),
         NEW k \in Ops, Op(k).kind = "add", NEW i \in Part(k)
  PROVE  /\ Mirrors(f, s, i)
         /\ instrs[i].streams # {} => i = computeOf[k] /\ instrs[i].streams = Streamed(k)
<1> DEFINE c == computeOf[k]
           n == Len(Loads(k))
           e == C[k]
<1>1. Lowered(k) /\ e \in Nat /\ e > 2 /\ Part(k) \subseteq Index
  BY DoneFacts, BlockFacts
<1>2. /\ n = (IF Streams(k, 1) THEN 0 ELSE 1) + (IF Streams(k, 2) THEN 0 ELSE 1)
      /\ c \in Nat /\ c > n /\ Part(k) = c - n .. c + 1
      /\ ~Streams(k, 1) =>
           /\ Does(instrs, c - n, "MTE2", TensorOf(k, 1), Stored(computeOf, k, 1))
           /\ instrs[c - n].streams = {}
      /\ ~Streams(k, 2) =>
           /\ Does(instrs, c - 1, "MTE2", TensorOf(k, 2), Stored(computeOf, k, 2))
           /\ instrs[c - 1].streams = {}
      /\ Does(instrs, c, "Vector", TensorOf(k, Out), c - n .. c - 1)
      /\ instrs[c].streams = Streamed(k)
      /\ Does(instrs, c + 1, "MTE3", TensorOf(k, Out), {c})
      /\ instrs[c + 1].streams = {}
  BY <1>1, AddTable
<1>3. /\ f[c] = e /\ f[c + 1] = e + 1
      /\ ~Streams(k, 1) => f[c - n] = e - 2
      /\ ~Streams(k, 2) => f[c - 1] = e - 1
  BY <1>1, AddLands
<1>4. /\ Does(s, e - 2, "MTE2", TensorOf(k, 1), Stored(C, k, 1))
      /\ Does(s, e - 1, "MTE2", TensorOf(k, 2), Stored(C, k, 2))
      /\ Does(s, e, "Vector", TensorOf(k, Out), {e - 2, e - 1})
      /\ Does(s, e + 1, "MTE3", TensorOf(k, Out), {e})
  <2>1. Lead(k) = 2 /\ UnfusedOp(s, C, k)
    BY DEF Lead, Unfused
  <2>2. e - 2 + 1 = e - 1
    BY <1>1
  <2> QED  BY <2>1, <2>2 DEF UnfusedOp
<1> HIDE DEF c, n, e
<1>5. \A x \in c - n .. c - 1 : (x = c - n /\ ~Streams(k, 1)) \/ (x = c - 1 /\ ~Streams(k, 2))
  BY <1>2
<1>6. CASE i = c
  <2>1. \A x \in c - n .. c - 1 : x \in Index /\ f[x] \in {e - 2, e - 1}
    <3>1. c - n .. c - 1 \subseteq Part(k)
      BY <1>2
    <3> QED  BY <1>1, <1>3, <1>5, <3>1
  <2>2. /\ Does(instrs, i, "Vector", TensorOf(k, Out), c - n .. c - 1)
        /\ Does(s, f[i], "Vector", TensorOf(k, Out), {e - 2, e - 1})
    BY <1>2, <1>3, <1>4, <1>6
  <2>3. Mirrors(f, s, i)
    BY <2>1, <2>2, DoesMirror, Zenon
  <2> QED  BY <1>2, <1>6, <2>3 DEF c
<1>7. CASE i = c + 1
  <2>1. \A x \in {c} : x \in Index /\ f[x] \in {e}
    <3>1. c \in Part(k)
      BY <1>2
    <3> QED  BY <1>1, <1>3, <3>1
  <2>2. /\ Does(instrs, i, "MTE3", TensorOf(k, Out), {c})
        /\ Does(s, f[i], "MTE3", TensorOf(k, Out), {e})
    BY <1>2, <1>3, <1>4, <1>7
  <2>3. Mirrors(f, s, i)
    BY <2>1, <2>2 DEF Mirrors, Does, DepsIn, DepsOf
  <2> QED  BY <1>2, <1>7, <2>3
<1>8. CASE i = c - n /\ ~Streams(k, 1)
  <2>1. Mirrors(f, s, i)
    <3>1. 1 \in Operand /\ i \in Index
      BY <1>1 DEF Operand
    <3>2. /\ Does(instrs, i, "MTE2", TensorOf(k, 1), Stored(computeOf, k, 1))
          /\ Does(s, f[i], "MTE2", TensorOf(k, 1), Stored(C, k, 1))
      BY <1>2, <1>3, <1>4, <1>8
    <3> QED  BY <1>8, <3>1, <3>2, LoadMirrors
  <2> QED  BY <1>2, <1>8, <2>1
<1>9. CASE i = c - 1 /\ ~Streams(k, 2)
  <2>1. Mirrors(f, s, i)
    <3>1. 2 \in Operand /\ i \in Index
      BY <1>1 DEF Operand
    <3>2. /\ Does(instrs, i, "MTE2", TensorOf(k, 2), Stored(computeOf, k, 2))
          /\ Does(s, f[i], "MTE2", TensorOf(k, 2), Stored(C, k, 2))
      BY <1>2, <1>3, <1>4, <1>9
    <3> QED  BY <1>9, <3>1, <3>2, LoadMirrors
  <2> QED  BY <1>2, <1>9, <2>1
<1>10. i \in c - n .. c - 1 \/ i = c \/ i = c + 1
  BY <1>2
<1> QED  BY <1>5, <1>6, <1>7, <1>8, <1>9, <1>10

LEMMA MatmulMirrors ==
  ASSUME Inv, Laid, pc = "done", NEW s, NEW C, Unfused(s, C), NEW f, Lands(f, C),
         NEW k \in Ops, Op(k).kind # "add", NEW i \in Part(k)
  PROVE  Mirrors(f, s, i) /\ instrs[i].streams = {}
<1> DEFINE c == computeOf[k]
           e == C[k]
<1>1. Lowered(k) /\ e \in Nat /\ e > 2 /\ Part(k) \subseteq Index
  BY DoneFacts, BlockFacts
<1>2. /\ c \in Nat /\ c > 4 /\ Part(k) = c - 4 .. (IF IsFused(k) THEN c ELSE c + 1)
      /\ Does(instrs, c - 4, "MTE2", TensorOf(k, 1), Stored(computeOf, k, 1))
      /\ Does(instrs, c - 3, "MTE2", TensorOf(k, 2), Stored(computeOf, k, 2))
      /\ Does(instrs, c - 2, "MTE1", TensorOf(k, 1), {c - 4})
      /\ Does(instrs, c - 1, "MTE1", TensorOf(k, 2), {c - 3})
      /\ Does(instrs, c, "Cube", TensorOf(k, Work), {c - 2, c - 1})
      /\ ~IsFused(k) => Does(instrs, c + 1, "FixPipe", TensorOf(k, Out), {c})
      /\ \A j \in Part(k) : instrs[j].streams = {}
  BY <1>1, MatmulTable
<1>3. /\ \A m \in 0 .. 4 : c - m \in Part(k) /\ f[c - m] = e - m
      /\ ~IsFused(k) => f[c + 1] = e + 1
  BY <1>1, MatmulLands
<1>4. /\ Does(s, e - 4, "MTE2", TensorOf(k, 1), Stored(C, k, 1))
      /\ Does(s, e - 3, "MTE2", TensorOf(k, 2), Stored(C, k, 2))
      /\ Does(s, e - 2, "MTE1", TensorOf(k, 1), {e - 4})
      /\ Does(s, e - 1, "MTE1", TensorOf(k, 2), {e - 3})
      /\ Does(s, e, "Cube", TensorOf(k, Work), {e - 2, e - 1})
      /\ Does(s, e + 1, "FixPipe", TensorOf(k, Out), {e})
  <2>1. Lead(k) = 4 /\ UnfusedOp(s, C, k)
    BY DEF Lead, Unfused
  <2>2. e - 4 + 1 = e - 3
    BY <1>1
  <2> QED  BY <2>1, <2>2 DEF UnfusedOp
<1>5. ~Streams(k, 1) /\ ~Streams(k, 2)
  BY DEF Streams, Fuses
<1> HIDE DEF c, e
<1>6. /\ f[c - 4] = e - 4 /\ f[c - 3] = e - 3 /\ f[c - 2] = e - 2 /\ f[c - 1] = e - 1 /\ f[c] = e
      /\ c - 4 \in Index /\ c - 3 \in Index /\ c - 2 \in Index /\ c - 1 \in Index /\ c \in Index
  <2>1. c - 0 = c /\ e - 0 = e
    BY <1>1, <1>2 DEF e
  <2>2. /\ f[c - 4] = e - 4 /\ f[c - 3] = e - 3 /\ f[c - 2] = e - 2 /\ f[c - 1] = e - 1
        /\ f[c - 0] = e - 0
        /\ {c - 4, c - 3, c - 2, c - 1, c - 0} \subseteq Part(k)
    BY <1>3
  <2> QED  BY <1>1, <2>1, <2>2
<1>7. 1 \in Operand /\ 2 \in Operand /\ i \in Index
  BY <1>1 DEF Operand
<1>8. CASE i = c - 4
  <2>1. /\ Does(instrs, i, "MTE2", TensorOf(k, 1), Stored(computeOf, k, 1))
        /\ Does(s, f[i], "MTE2", TensorOf(k, 1), Stored(C, k, 1))
    BY <1>2, <1>4, <1>6, <1>8
  <2> QED  BY <1>2, <1>5, <1>7, <2>1, LoadMirrors
<1>9. CASE i = c - 3
  <2>1. /\ Does(instrs, i, "MTE2", TensorOf(k, 2), Stored(computeOf, k, 2))
        /\ Does(s, f[i], "MTE2", TensorOf(k, 2), Stored(C, k, 2))
    BY <1>2, <1>4, <1>6, <1>9
  <2> QED  BY <1>2, <1>5, <1>7, <2>1, LoadMirrors
<1>10. CASE i = c - 2
  <2>1. /\ Does(instrs, i, "MTE1", TensorOf(k, 1), {c - 4})
        /\ Does(s, f[i], "MTE1", TensorOf(k, 1), {e - 4})
        /\ \A d \in {c - 4} : d \in Index /\ f[d] \in {e - 4}
    BY <1>2, <1>4, <1>6, <1>10
  <2>2. Mirrors(f, s, i)
    BY <2>1 DEF Mirrors, Does, DepsIn, DepsOf
  <2> QED  BY <1>2, <2>2
<1>11. CASE i = c - 1
  <2>1. /\ Does(instrs, i, "MTE1", TensorOf(k, 2), {c - 3})
        /\ Does(s, f[i], "MTE1", TensorOf(k, 2), {e - 3})
        /\ \A d \in {c - 3} : d \in Index /\ f[d] \in {e - 3}
    BY <1>2, <1>4, <1>6, <1>11
  <2>2. Mirrors(f, s, i)
    BY <2>1 DEF Mirrors, Does, DepsIn, DepsOf
  <2> QED  BY <1>2, <2>2
<1>12. CASE i = c
  <2>1. /\ Does(instrs, i, "Cube", TensorOf(k, Work), {c - 2, c - 1})
        /\ Does(s, f[i], "Cube", TensorOf(k, Work), {e - 2, e - 1})
        /\ \A d \in {c - 2, c - 1} : d \in Index /\ f[d] \in {e - 2, e - 1}
    BY <1>2, <1>4, <1>6, <1>12
  <2>2. Mirrors(f, s, i)
    BY <2>1 DEF Mirrors, Does, DepsIn, DepsOf
  <2> QED  BY <1>2, <2>2
<1>13. CASE i = c + 1 /\ ~IsFused(k)
  <2>1. /\ Does(instrs, i, "FixPipe", TensorOf(k, Out), {c})
        /\ Does(s, f[i], "FixPipe", TensorOf(k, Out), {e})
        /\ \A d \in {c} : d \in Index /\ f[d] \in {e}
    BY <1>2, <1>3, <1>4, <1>6, <1>13
  <2>2. Mirrors(f, s, i)
    BY <2>1 DEF Mirrors, Does, DepsIn, DepsOf
  <2> QED  BY <1>2, <2>2
<1>14. i \in {c - 4, c - 3, c - 2, c - 1, c} \/ (i = c + 1 /\ ~IsFused(k))
  BY <1>2
<1> QED  BY <1>8, <1>9, <1>10, <1>11, <1>12, <1>13, <1>14

(* A streamed result p = computeOf[Source(k, o)] misses its store and the  *)
(* reload op k would have waited for.                                      *)
LEMMA StreamDetours ==
  ASSUME Inv, Laid, pc = "done", NEW s, NEW C, Unfused(s, C), NEW f, Lands(f, C),
         NEW k \in Ops, NEW o \in Operand, Streams(k, o)
  PROVE  LET p == computeOf[Source(k, o)]
             x == C[k] - 3 + o
         IN  /\ p \in Index /\ x \in DepsIn(s, f[computeOf[k]])
             /\ Detour(f, s, k, o, C[Source(k, o)] + 1, x)
<1> DEFINE q == Source(k, o)
<1>1. q \in Ops /\ IsFused(q) /\ Op(q).kind = "matmul" /\ Op(k).kind = "add" /\ q # 0
  BY StreamsFused DEF Streams
<1>2. C[k] \in Nat /\ C[q] \in Nat /\ Lowered(k) /\ Lowered(q)
  BY <1>1, BlockFacts, DoneFacts
<1>3. f[computeOf[k]] = C[k] /\ f[computeOf[q]] = C[q] /\ computeOf[q] \in Index
  BY <1>1, <1>2, PartLands, DoneFacts
<1>4. /\ Does(s, C[k] - 2, "MTE2", TensorOf(k, 1), Stored(C, k, 1))
      /\ Does(s, C[k] - 1, "MTE2", TensorOf(k, 2), Stored(C, k, 2))
      /\ Does(s, C[k], "Vector", TensorOf(k, Out), {C[k] - 2, C[k] - 1})
  <2>1. Lead(k) = 2 /\ UnfusedOp(s, C, k)
    BY <1>1 DEF Lead, Unfused
  <2>2. C[k] - 2 + 1 = C[k] - 1
    BY <1>2
  <2> QED  BY <1>1, <2>1, <2>2 DEF UnfusedOp
<1>5. Does(s, C[q] + 1, "FixPipe", TensorOf(q, Out), {C[q]})
  BY <1>1 DEF Unfused, UnfusedOp
<1>6. C[q] + 1 \in Skipped(q, C)
  BY <1>1 DEF Skipped
<1>7. /\ C[k] - 3 + o \in Skipped(k, C) /\ C[k] - 3 + o \in {C[k] - 2, C[k] - 1}
      /\ Does(s, C[k] - 3 + o, "MTE2", TensorOf(k, o), Stored(C, k, o))
  <2>1. CASE o = 1
    <3>1. C[k] - 3 + o = C[k] - 2
      BY <1>2, <2>1
    <3> QED  BY <1>1, <1>4, <2>1, <3>1 DEF Skipped
  <2>2. CASE o = 2
    <3>1. C[k] - 3 + o = C[k] - 1
      BY <1>2, <2>2
    <3> QED  BY <1>1, <1>4, <2>2, <3>1 DEF Skipped
  <2> QED  BY <2>1, <2>2 DEF Operand
<1>8. Stored(C, k, o) = {C[q] + 1}
  BY <1>1 DEF Stored
<1>9. /\ C[q] + 1 \in 1 .. Len(s) /\ LeftOut(f, C[q] + 1)
      /\ C[k] - 3 + o \in 1 .. Len(s) /\ LeftOut(f, C[k] - 3 + o)
  BY <1>1, <1>6, <1>7, ListLands
<1>10. C[k] - 3 + o \in DepsIn(s, f[computeOf[k]])
  BY <1>3, <1>4, <1>7 DEF Does
<1> HIDE DEF q
<1>11. Detour(f, s, k, o, C[q] + 1, C[k] - 3 + o)
  BY <1>3, <1>5, <1>7, <1>8, <1>9 DEF Detour, q
<1> QED  BY <1>3, <1>10, <1>11 DEF q

LEMMA Embedding ==
  ASSUME Inv, Laid, pc = "done", NEW s, NEW C, Unfused(s, C)
  PROVE  \E f : Embeds(f, s)
<1> DEFINE f == [i \in Index |-> Shift(C, CHOOSE k \in Ops : i \in Part(k), i)]
<1>1. Lands(f, C)
  <2> SUFFICES ASSUME NEW k \in Ops, NEW i \in Part(k) PROVE f[i] = Shift(C, k, i)
    BY DEF Lands
  <2>1. i \in Index
    BY DoneFacts
  <2>2. \A j \in Ops : i \in Part(j) => j = k
    BY DoneFacts, PartsApart
  <2>3. (CHOOSE j \in Ops : i \in Part(j)) = k
    BY <2>2
  <2> QED  BY <2>1, <2>3
<1>2. f \in [Index -> 1 .. Len(s)]
  <2>1. \A i \in Index : f[i] \in 1 .. Len(s)
    BY <1>1, ListLands
  <2> QED  BY <2>1
<1> HIDE DEF f
<1>3. \A i, j \in Index : i < j => f[i] < f[j]
  BY <1>1, ListLands
<1>4. ASSUME NEW i \in Index
      PROVE  /\ Mirrors(f, s, i)
             /\ \A p \in instrs[i].streams : p \in Index /\
                  \E x \in DepsIn(s, f[i]) : Detours(f, s, p, x)
  <2>1. PICK k \in Ops : i \in Part(k)
    BY DoneFacts
  <2>2. CASE Op(k).kind = "add"
    <3>1. /\ Mirrors(f, s, i)
          /\ instrs[i].streams # {} => i = computeOf[k] /\ instrs[i].streams = Streamed(k)
      BY <1>1, <2>1, <2>2, AddMirrors
    <3>2. ASSUME NEW p \in instrs[i].streams
          PROVE  p \in Index /\
                   \E x \in DepsIn(s, f[i]) : Detours(f, s, p, x)
      <4>1. i = computeOf[k] /\ p \in Streamed(k)
        BY <3>1
      <4>2. PICK o \in Operand : Streams(k, o) /\ p = computeOf[Source(k, o)]
        BY <4>1 DEF Streamed
      <4>3. /\ p \in Index /\ C[k] - 3 + o \in DepsIn(s, f[i])
            /\ Detour(f, s, k, o, C[Source(k, o)] + 1, C[k] - 3 + o)
        BY <1>1, <4>1, <4>2, StreamDetours
      <4>4. C[Source(k, o)] + 1 \in 1 .. Len(s)
        BY <4>3 DEF Detour
      <4>5. Detours(f, s, p, C[k] - 3 + o)
        BY <4>2, <4>3, <4>4 DEF Detours
      <4> QED  BY <4>3, <4>5
    <3> QED  BY <3>1, <3>2
  <2>3. CASE Op(k).kind # "add"
    BY <1>1, <2>1, <2>3, MatmulMirrors
  <2> QED  BY <2>2, <2>3
<1>5. ASSUME NEW x \in 1 .. Len(s), LeftOut(f, x)
      PROVE  \E p \in Index :
               \/ DepsIn(s, x) = {f[p]}
               \/ \E y \in 1 .. Len(s) : LeftOut(f, y) /\ DepsIn(s, x) = {y} /\ DepsIn(s, y) = {f[p]}
  <2>1. PICK k \in Ops : x \in Skipped(k, C)
    BY <1>1, <1>5, ListLands
  <2>2. C[k] \in Nat /\ Lowered(k)
    BY BlockFacts, DoneFacts
  <2>3. CASE x = C[k] + 1 /\ Op(k).kind # "add" /\ IsFused(k)
    <3>1. Does(s, C[k] + 1, "FixPipe", TensorOf(k, Out), {C[k]})
      BY <2>3 DEF Unfused, UnfusedOp
    <3>2. f[computeOf[k]] = C[k] /\ computeOf[k] \in Index
      BY <1>1, <2>2, PartLands, DoneFacts
    <3> QED  BY <2>3, <3>1, <3>2 DEF Does
  <2>4. ASSUME NEW o \in Operand, Streams(k, o), x = C[k] - 3 + o
        PROVE  \E p \in Index : \E y \in 1 .. Len(s) :
                  LeftOut(f, y) /\ DepsIn(s, x) = {y} /\ DepsIn(s, y) = {f[p]}
    <3>1. /\ computeOf[Source(k, o)] \in Index
          /\ Detour(f, s, k, o, C[Source(k, o)] + 1, x)
      BY <1>1, <2>4, StreamDetours
    <3> QED  BY <3>1 DEF Detour, Does
  <2>5. 1 \in Operand /\ 2 \in Operand
    BY DEF Operand
  <2>6. CASE x = C[k] - 2 /\ Streams(k, 1)
    <3>1. x = C[k] - 3 + 1
      BY <2>2, <2>6
    <3> QED  BY <2>4, <2>5, <2>6, <3>1
  <2>7. CASE x = C[k] - 1 /\ Streams(k, 2)
    <3>1. x = C[k] - 3 + 2
      BY <2>2, <2>7
    <3> QED  BY <2>4, <2>5, <2>7, <3>1
  <2> QED  BY <2>1, <2>3, <2>6, <2>7 DEF Skipped
<1>6. Embeds(f, s)
  BY <1>2, <1>3, <1>4, <1>5 DEF Embeds, Mirrors
<1> QED  BY <1>6
=============================================================================
