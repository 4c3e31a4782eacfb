----------------------------- MODULE MCFrontend -----------------------------
(***************************************************************************)
(* All texts of three operations: every way to use the earlier results as  *)
(* inputs, and as outs where OutsUsed says so.  All graphs of at most three*)
(* ops built by hand: every way to wire two operands (to the op itself and *)
(* to a later one included), with and without a stream link; and the       *)
(* failing checks on graphs of two ops.                                    *)
(***************************************************************************)
EXTENDS Frontend

CONSTANT OutsUsed   \* may an operation's outs be an earlier result?

(* No property depends on the tensors. *)
AnyTensors == [1 .. Work -> Tensor]

Operations(p) ==
  [name : Linalg \cup {"func.call"},
   operands : {<<a, b, c>> : a, b \in 0 .. p - 1, c \in IF OutsUsed THEN 0 .. p - 1 ELSE {0}},
   typed : {TRUE}, tensors : AnyTensors, big : {{}}]

First(typed, big) ==
  [name : {"linalg.add"}, operands : {<<0, 0, 0>>}, typed : typed, tensors : AnyTensors, big : big]

Untyped   == First({FALSE}, {{}})
Oversized == First({TRUE}, {{1}})

Bodies == {<<a, b, c>> : a \in Operations(1), b \in Operations(2) \cup Untyped \cup Oversized,
                         c \in Operations(3)}

MCTexts == {[body |-> b, link |-> l] : b \in Bodies, l \in {None, 0}}

-----------------------------------------------------------------------------
Sources(n) == {<< >>} \cup {<<s>> : s \in 0 .. n} \cup ((0 .. n) \X (0 .. n))

OpsOf(n, kinds, sources, big) ==
  [1 .. n -> [kind : kinds, in_sources : sources, tensors : AnyTensors, big : big]]

GraphsOf(ops, links) == {[ops |-> o, link |-> l] : o \in ops, l \in links}

(* Any wiring, in or out of order. *)
Wired ==
  GraphsOf(OpsOf(2, {"add", "matmul"}, Sources(2), {{}}), {None, 8})
    \cup GraphsOf(OpsOf(3, {"add", "matmul"}, {<<s, t>> : s, t \in 0 .. 2}, {{}}), {8})

(* Operands that do not fit, kinds that are not implemented. *)
Faulty ==
  GraphsOf(OpsOf(2, {"add", "matmul", "other"}, {<<0, 0>>, <<1, 0>>, <<1, 2>>},
                 SUBSET (Operand \cup {Out})), {None, 8})

MCGraphs == Wired \cup Faulty
=============================================================================
