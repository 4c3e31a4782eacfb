------------------------------ MODULE Frontend ------------------------------
(***************************************************************************)
(* parse() of arch_sim/frontend/mlir_parser.py followed by lower(): linalg *)
(* text becomes an ir.Graph, the graph a list of Instructions.  The two    *)
(* are called one after the other; module Lowering's actions are taken as  *)
(* they are, once the text has been read.  A graph may also be built by    *)
(* hand (Graph.add), without a text.                                       *)
(*                                                                         *)
(* The operations of the text (those of the first block of every func.func,*)
(* as IREE's MLIR bindings list them) are known by their position, and so  *)
(* are their results; 0 is a block argument.                               *)
(***************************************************************************)
EXTENDS Lowering

CONSTANT Texts   \* the (text, chip) pairs

KindOf ==   \* _SUPPORTED
  [name \in {"linalg.add", "linalg.matmul"} |-> IF name = "linalg.add" THEN "add" ELSE "matmul"]

Linalg == {"linalg.add", "linalg.matmul", "linalg.sub"}

(* operands lists the inputs, then the outs/init; typed means that every   *)
(* operand is a ranked tensor of an element type in _DTYPES; tensors are   *)
(* those of the inputs and of the result (see IsGraph).                    *)
IsText(t) ==
  /\ t.body \in Seq([name : Linalg \cup {"func.call"}, operands : Seq(Nat),
                     typed : BOOLEAN, tensors : [1 .. Work -> Tensor],
                     big : SUBSET (Operand \cup {Out})])
  /\ \A p \in DOMAIN t.body :
       /\ t.body[p].name \in Linalg => Len(t.body[p].operands) = 3
       /\ \A k \in DOMAIN t.body[p].operands : t.body[p].operands[k] \in 0 .. p - 1
  /\ t.link \in Nat \cup {None}

ASSUME TextsAssumption == \A t \in Texts : IsText(t)

VARIABLES
  text,       \* the input, None where the graph is built by hand
  cursor,     \* the operation parse() is at
  produced    \* operation -> the op of the graph that produces its result

parserVars == <<text, cursor, produced>>

Body == IF text = None THEN << >> ELSE text.body
Operation == Body[cursor]

ParserInit ==
  /\ text \in Texts
  /\ cursor = 1
  /\ produced = [p \in DOMAIN Body |-> 0]
  /\ graph = [ops |-> << >>, link |-> text.link]
  /\ pc = "lower"
  /\ at = 1
  /\ instrs = << >>
  /\ storeOf = << >>
  /\ computeOf = << >>

GraphInit == Init /\ text = None /\ cursor = 1 /\ produced = << >>

Parsing == pc = "lower" /\ cursor \in DOMAIN Body

(* Slip: the position in the text instead of that in the graph. *)
PositionInText == cursor

Position == Len(graph.ops) + 1

(* Slip: the outs operand and the last input. *)
SourceOfOuts(i) ==
  LET v == Operation.operands[i + 1] IN IF v = 0 THEN 0 ELSE produced[v]

(* produced.get(v) of the i-th input, the outs operand being left out. *)
SourceOf(i) ==
  LET v == Operation.operands[i] IN IF v = 0 THEN 0 ELSE produced[v]

ParseOp ==
  /\ Parsing /\ Operation.name \in DOMAIN KindOf /\ Operation.typed
  /\ graph' = [graph EXCEPT !.ops = Append(@,
       [kind       |-> KindOf[Operation.name],
        in_sources |-> [i \in Operand |-> SourceOf(i)],
        tensors    |-> Operation.tensors,
        big        |-> Operation.big])]
  /\ produced' = [produced EXCEPT ![cursor] = Position]
  /\ cursor' = cursor + 1
  /\ storeOf' = [k \in 1 .. Position |-> None]
  /\ computeOf' = [k \in 1 .. Position |-> None]
  /\ UNCHANGED <<text, pc, at, instrs>>

(* What is not linalg is passed over, whatever it reads and produces. *)
SkipOp ==
  /\ Parsing /\ Operation.name \notin Linalg
  /\ cursor' = cursor + 1
  /\ UNCHANGED <<text, produced, vars>>

ParseFails ==
  /\ Parsing /\ Operation.name \in Linalg
  /\ Operation.name \notin DOMAIN KindOf \/ ~Operation.typed
  /\ Raise(IF Operation.name \in DOMAIN KindOf THEN "ValueError" ELSE "NotImplementedError")
  /\ UNCHANGED parserVars

(* lower(parse(text), chip) *)
Lower == ~Parsing /\ Next /\ UNCHANGED parserVars

FrontendNext ==
  \/ ParseOp
  \/ SkipOp
  \/ ParseFails
  \/ Lower

FrontendSpec == (ParserInit \/ GraphInit) /\ [][FrontendNext]_<<vars, parserVars>>

-----------------------------------------------------------------------------
(***************************************************************************)
(*                              Properties                                 *)
(***************************************************************************)

(* Whatever the text, parse() hands lower() a graph in execution order with*)
(* every source among its own ops, so that lower() never fails to find one.*)
ParsedGraphsLower ==
  text # None => /\ IsGraph(graph) /\ InOrder
                 /\ pc # "KeyError"

(* What the operations of the text read as inputs, through linalg only.    *)
ReadsOf(p) ==
  IF Body[p].name \in Linalg THEN {Body[p].operands[i] : i \in Operand} \ {0} ELSE {}

(* The linalg operations whose results p reads, directly or through others.*)
Reads ==
  LET reads[p \in DOMAIN Body] ==
        {q \in ReadsOf(p) : Body[q].name \in Linalg} \cup UNION {reads[q] : q \in ReadsOf(p)}
  IN  reads

(* The computations of the list are those of the text's linalg operations, *)
(* and they are ordered exactly as the inputs of these operations demand.  *)
InputsArrive ==
  text # None /\ pc = "done" =>
    LET reads == Reads
        up == Upstream
        Computes(p) == computeOf[produced[p]]
        Computed == {p \in DOMAIN Body : Body[p].name \in Linalg}
    IN  /\ {i \in Index : instrs[i].unit \in {"Vector", "Cube"}} = {Computes(p) : p \in Computed}
        /\ \A p, q \in Computed : Computes(q) \in up[Computes(p)] <=> q \in reads[p]

(* The operations that need the result of p: linalg.matmul adds its product*)
(* to its outs, so it reads that as well.                                  *)
Feeds(p, q) ==
  LET o == Body[q].operands
  IN  \/ Body[q].name \in Linalg /\ p \in {o[1], o[2]}
      \/ Body[q].name = "linalg.matmul" /\ p = o[3]

(* linalg_lowering.py: a matmul is streamed, and its result never lands in *)
(* GM, when "the matmul's result feeds exactly one op".                    *)
FusedFeedsOneOp ==
  pc = "done" =>
    \A p \in DOMAIN Body :
      produced[p] # 0 /\ IsFused(produced[p]) =>
        Cardinality({q \in DOMAIN Body : Feeds(p, q)}) = 1
=============================================================================
