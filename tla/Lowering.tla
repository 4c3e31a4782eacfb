------------------------------ MODULE Lowering ------------------------------
(***************************************************************************)
(* lower() of arch_sim/frontend/linalg_lowering.py: an ir.Graph of tensor  *)
(* ops becomes the list of Instructions simulate() runs.  One action lowers*)
(* one op; an op's operands travel through GM (its loads depend on the     *)
(* stores of their producers) unless a matmul's result is streamed into    *)
(* the add that reads it.                                                  *)
(*                                                                         *)
(* Ops and instructions are known by their position in graph.ops and in    *)
(* the list; 0 stands for a graph input.  What a tensor is (its shape, its *)
(* element type) is left open: lower() only hands it on to an Instruction, *)
(* whose cost depends on it, and asks whether it fits a buffer.            *)
(***************************************************************************)
EXTENDS Integers, Sequences, FiniteSets

CONSTANTS
  None,     \* Python's None, and "no such key" in a dict
  Tensor,   \* the tensors an op may have
  Graphs    \* the (graph, chip) pairs lower() may be called with

Operand == 1 .. 2   \* the inputs of an op, as parse() makes them
Out     == 3        \* its result
Work    == 4        \* the (M, N, K) iteration space of a matmul

(***************************************************************************)
(* in_sources may be shorter than the inputs.  tensors holds those of the  *)
(* inputs, of the result, and the one lower() makes of their dimensions for*)
(* the Cube.  big holds the operands that exceed a buffer's capacity_bytes;*)
(* link is the stream_latency of the chip's Cube->Vector stream link, None *)
(* where it declares no such link.                                         *)
(***************************************************************************)
IsGraph(g) ==
  LET n == Len(g.ops)
  IN  /\ g \in [ops  : Seq([kind : {"add", "matmul", "other"},
                             in_sources : Seq(0 .. n),
                             tensors : [1 .. Work -> Tensor],
                             big : SUBSET (Operand \cup {Out})]),
                 link : Nat \cup {None}]
      /\ \A k \in 1 .. n : Len(g.ops[k].in_sources) <= 2

ASSUME NoneIsNoNumber == None \notin Nat
ASSUME GraphsAssumption == \A g \in Graphs : IsGraph(g)

VARIABLES
  graph,      \* the input
  pc,         \* "lower", "done", or the exception that left lower()
  at,         \* the op of the for loop
  instrs,     \* the instructions emitted so far
  storeOf,    \* op -> the store that lands its result in GM, if any
  computeOf   \* op -> its compute instruction

vars == <<graph, pc, at, instrs, storeOf, computeOf>>

Ops == 1 .. Len(graph.ops)
Op(k) == graph.ops[k]
TensorOf(k, x) == Op(k).tensors[x]

(* The producer of operand i of op k, 0 if it is a graph input. *)
Source(k, i) == IF i <= Len(Op(k).in_sources) THEN Op(k).in_sources[i] ELSE 0

(* Who reads the result of op s: one entry per operand, not per op.        *)
Uses(s) == {e \in Ops \X Operand : Source(e[1], e[2]) = s}

(* Slip: into any sole reader. *)
FusesAny(s, k) ==
  /\ graph.link # None
  /\ Op(s).kind = "matmul"
  /\ \E i \in Operand : Uses(s) = {<<k, i>>}

(* _fusion_targets: matmul s streams into op k. *)
Fuses(s, k) ==
  /\ graph.link # None
  /\ Op(s).kind = "matmul" /\ Op(k).kind = "add"
  /\ \E i \in Operand : Uses(s) = {<<k, i>>}

Streams(k, i) == Source(k, i) # 0 /\ Fuses(Source(k, i), k)

-----------------------------------------------------------------------------
(* What can go wrong with op k.  A streamed operand is never loaded and so *)
(* never checked against a buffer; a dict lookup fails with KeyError.      *)

Unfit(k) == {i \in Op(k).big : ~(Op(k).kind = "add" /\ i # Out /\ Streams(k, i))}

(* Slip: get(), which answers None instead. *)
MissingNothing(k) == {}

Missing(k) ==
  {i \in Operand : /\ Source(k, i) # 0
                   /\ IF Op(k).kind = "add" /\ Streams(k, i)
                      THEN computeOf[Source(k, i)] = None
                      ELSE storeOf[Source(k, i)] = None}

(* An add checks and looks up one operand after the other, a matmul checks *)
(* all of them first.                                                      *)
Overflows(k) ==
  \E i \in Unfit(k) : Op(k).kind = "add" => \A j \in Missing(k) : i <= j

-----------------------------------------------------------------------------
(* The instructions. *)

Instr(u, t, ds) == [unit |-> u, tensor |-> t, deps |-> ds, streams |-> {}]

(* Slip: the reload waits for the producer's computation, not its store.   *)
SrcDepEarly(k, i) == IF Source(k, i) = 0 THEN << >> ELSE <<computeOf[Source(k, i)]>>

SrcDep(k, i) == IF Source(k, i) = 0 THEN << >> ELSE <<storeOf[Source(k, i)]>>

LoadInstr(k, i) == Instr("MTE2", TensorOf(k, i), SrcDep(k, i))

Load(k, i) == IF Streams(k, i) THEN << >> ELSE <<LoadInstr(k, i)>>

(* b instructions come before those of op k. *)
AddInstrs(k, b) ==
  LET loads == Load(k, 1) \o Load(k, 2)
      n     == Len(loads)
  IN  loads \o
      <<[unit    |-> "Vector",
         tensor  |-> TensorOf(k, Out),
         deps    |-> [j \in 1 .. n |-> b + j],
         streams |-> {computeOf[Source(k, i)] : i \in {i \in Operand : Streams(k, i)}}],
        Instr("MTE3", TensorOf(k, Out), <<b + n + 1>>)>>

(* Slip: a fused matmul is stored as well. *)
StoreAlways(k, b) == <<Instr("FixPipe", TensorOf(k, Out), <<b + 5>>)>>

IsFused(k) == \E c \in Ops : Fuses(k, c)

StoreUnlessFused(k, b) ==
  IF IsFused(k) THEN << >> ELSE <<Instr("FixPipe", TensorOf(k, Out), <<b + 5>>)>>

(* Slip: the stores are emitted ahead of the computation they wait for.    *)
MatmulStoreFirst(k, b) ==
  <<LoadInstr(k, 1), LoadInstr(k, 2),
    Instr("MTE1", TensorOf(k, 1), <<b + 1>>), Instr("FixPipe", TensorOf(k, Out), <<b + 5>>),
    Instr("Cube", TensorOf(k, Work), <<b + 3, b + 6>>), Instr("MTE1", TensorOf(k, 2), <<b + 2>>)>>

MatmulInstrs(k, b) ==
  <<LoadInstr(k, 1), LoadInstr(k, 2),
    Instr("MTE1", TensorOf(k, 1), <<b + 1>>), Instr("MTE1", TensorOf(k, 2), <<b + 2>>),
    Instr("Cube", TensorOf(k, Work), <<b + 3, b + 4>>)>> \o StoreUnlessFused(k, b)

-----------------------------------------------------------------------------
Init ==
  /\ graph \in Graphs
  /\ pc = "lower"
  /\ at = 1
  /\ instrs = << >>
  /\ storeOf = [k \in Ops |-> None]
  /\ computeOf = [k \in Ops |-> None]

LowerAdd ==
  /\ pc = "lower" /\ at \in Ops /\ Op(at).kind = "add"
  /\ Unfit(at) = {} /\ Missing(at) = {}
  /\ instrs' = instrs \o AddInstrs(at, Len(instrs))
  /\ storeOf' = [storeOf EXCEPT ![at] = Len(instrs')]
  /\ computeOf' = [computeOf EXCEPT ![at] = Len(instrs') - 1]
  /\ at' = at + 1
  /\ UNCHANGED <<graph, pc>>

LowerMatmul ==
  /\ pc = "lower" /\ at \in Ops /\ Op(at).kind = "matmul"
  /\ Unfit(at) = {} /\ Missing(at) = {}
  /\ instrs' = instrs \o MatmulInstrs(at, Len(instrs))
  /\ storeOf' = IF IsFused(at) THEN storeOf
                ELSE [storeOf EXCEPT ![at] = Len(instrs) + 6]
  /\ computeOf' = [computeOf EXCEPT ![at] = Len(instrs) + 5]
  /\ at' = at + 1
  /\ UNCHANGED <<graph, pc>>

Return ==
  /\ pc = "lower" /\ at \notin Ops
  /\ pc' = "done"
  /\ UNCHANGED <<graph, at, instrs, storeOf, computeOf>>

(* The exception leaves lower(); the instructions so far are lost with it. *)
Raise(error) ==
  /\ pc' = error
  /\ instrs' = << >>
  /\ UNCHANGED <<graph, at, storeOf, computeOf>>

RaiseValueError ==
  /\ pc = "lower" /\ at \in Ops /\ Op(at).kind # "other"
  /\ Overflows(at)
  /\ Raise("ValueError")

RaiseKeyError ==
  /\ pc = "lower" /\ at \in Ops /\ Op(at).kind # "other"
  /\ Missing(at) # {} /\ ~Overflows(at)
  /\ Raise("KeyError")

RaiseNotImplemented ==
  /\ pc = "lower" /\ at \in Ops /\ Op(at).kind = "other"
  /\ Raise("NotImplementedError")

Outcomes == {"done", "ValueError", "KeyError", "NotImplementedError"}

Finished == pc \in Outcomes /\ UNCHANGED vars

Next ==
  \/ LowerAdd
  \/ LowerMatmul
  \/ Return
  \/ RaiseValueError
  \/ RaiseKeyError
  \/ RaiseNotImplemented
  \/ Finished

Spec == Init /\ [][Next]_vars

-----------------------------------------------------------------------------
(***************************************************************************)
(*                              Properties                                 *)
(***************************************************************************)

Index == 1 .. Len(instrs)

DepsOf(i) == {instrs[i].deps[k] : k \in DOMAIN instrs[i].deps}
Waits(i)  == DepsOf(i) \cup instrs[i].streams

CoreUnits == {"MTE1", "MTE2", "MTE3", "Cube", "Vector", "FixPipe"}

(* The types of the state; instructions and dict entries are positions.    *)
TypeOK ==
  /\ IsGraph(graph)
  /\ pc \in {"lower"} \cup Outcomes
  /\ at \in 1 .. Len(graph.ops) + 1
  /\ instrs \in Seq([unit : CoreUnits, tensor : Tensor, deps : Seq(Nat), streams : SUBSET Nat])
  /\ storeOf \in [Ops -> Nat \cup {None}]
  /\ computeOf \in [Ops -> Nat \cup {None}]

(* The list is in producer-before-consumer order: an instruction waits only*)
(* for instructions emitted before it.  simulate() issues in list order, so*)
(* anything else could stall a dispatcher for good.                        *)
ProducersFirst ==
  \A i \in Index : Waits(i) \subseteq 1 .. i - 1

(* A graph in execution order (ir/graph.py) lowers without KeyError: no op *)
(* asks for the store of a matmul that was fused away (the comment "src_dep*)
(* must never see it"), none for an op that is not lowered yet.            *)
InOrder == \A k \in Ops : \A i \in Operand : Source(k, i) < k

ResolvesAll == InOrder => pc # "KeyError"

(* What instruction i waits for, directly or through others.               *)
Upstream ==
  LET up[i \in Index] ==
        LET w == {j \in Waits(i) : j < i} IN w \cup UNION {up[j] : j \in w}
  IN  up

Ancestors ==
  LET anc[k \in Ops] ==
        LET w == {Source(k, i) : i \in Operand} \ {0} IN w \cup UNION {anc[s] : s \in w}
  IN  anc

(* The list orders two computations exactly if the graph does: lowering    *)
(* loses no dependence and invents none; and what is not streamed has      *)
(* landed in GM before its reader computes.                                *)
DataflowKept ==
  pc = "done" =>
    LET up == Upstream
        anc == Ancestors
    IN  \A k, s \in Ops :
          /\ computeOf[s] \in up[computeOf[k]] <=> s \in anc[k]
          /\ (\E i \in Operand : Source(k, i) = s) =>
               \/ computeOf[s] \in instrs[computeOf[k]].streams
               \/ storeOf[s] # None /\ storeOf[s] \in up[computeOf[k]]

(* Every result either lands in GM, by one store, or is streamed to one op *)
(* that is the only one to read it: never both and never neither.          *)
StoredOrStreamed ==
  pc = "done" =>
    \A s \in Ops :
      LET stores  == {i \in Index : instrs[i].unit \in {"MTE3", "FixPipe"}
                                     /\ computeOf[s] \in DepsOf(i)}
          readers == {i \in Index : computeOf[s] \in instrs[i].streams}
      IN  /\ Cardinality(stores) + Cardinality(readers) = 1
          /\ readers # {} => Cardinality(Uses(s)) = 1
=============================================================================
