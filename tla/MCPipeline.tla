----------------------------- MODULE MCPipeline -----------------------------
(***************************************************************************)
(* Graphs of up to three ops in execution order, run without and then with *)
(* a stream link.  Results have 16 or 64 rows, so that M and N of a matmul *)
(* differ and its two loads take 64 and 256 cycles.  The chips are npu.yaml*)
(* itself, npu.yaml with loads or the Cube four times slower, and with the *)
(* Cube's tile for the Vector, which no operand of an add fits; their      *)
(* queues hold one or two.  On npu.yaml a store and a reload take 32 + 64  *)
(* cycles with 16 rows and 128 + 256 with 64: the links are as slow as     *)
(* that, or cost nothing.  And the scripts of examples/.                   *)
(***************************************************************************)
EXTENDS Scripts

OpsOf(sources, rows) ==
  {AddOp(s, <<rows, 64>>) : s \in sources} \cup {MatmulOp(s, rows, 64, 64) : s \in sources}

First(rows)  == OpsOf({<<0, 0>>}, rows)
Second(rows) == OpsOf({<<0, 0>>, <<1, 0>>}, rows)
Third(rows)  == OpsOf({<<0, 2>>, <<1, 2>>}, rows)

(* An operand is the very value its producer yields. *)
WellTyped(o) ==
  \A k \in DOMAIN o : \A x \in 1 .. 2 :
    LET s == o[k].in_sources[x] IN s # 0 => o[s].tensors[3] = o[k].tensors[x]

Programs ==
  LET Rows == {16, 64}
  IN  {<< >>} \cup {t.ops : t \in LoweredTests}
        \cup UNION {First(m) \X (OpsOf({<<1, 1>>}, n) \cup Second(n)) : m, n \in Rows}
        \cup UNION {First(m) \X Second(m) \X Third(m) : m \in Rows}

MCGraphs == {[ops |-> o, link |-> None] : o \in {o \in Programs : WellTyped(o)}}

MCTensor ==
  {Float32(s) : s \in {Vec, <<16, 64>>, <<64, 64>>, <<16, 64, 64>>, <<64, 64, 64>>}}

SlowLoads   == [Npu EXCEPT !["MTE2"].rate = 16]
SlowCube    == [Npu EXCEPT !["Cube"].rate = 1024]
TiledVector == [Npu EXCEPT !["Vector"].tile = <<16, 16, 16>>]

Variants == {Npu, SlowLoads, SlowCube, TiledVector}

MCChips ==
  {ChipOf(Npu, 1), ChipOf(SlowLoads, 2), ChipOf(SlowCube, 1), ChipOf(TiledVector, 2)}

ASSUME WholeCyclesAssumption ==
  \A units \in Variants : \A u \in DOMAIN units : \A t \in MCTensor : Whole(units[u], t)

MCUnit == ScriptUnits

MCLinks == {0, 96, 384}

MCOddDims == {1, 15, 16, 17, 33}
=============================================================================
