------------------------------ MODULE Scripts ------------------------------
(***************************************************************************)
(* The scripts of examples/ that build their instructions by hand and run  *)
(* them on specs/npu.yaml: the third way, besides parse() and lower(), that*)
(* simulate() gets its input.  Each example states the list of its script, *)
(* the queue depths that the script sets, and the schedule docs/examples.md*)
(* (or the script's own header) gives for it.  And the graphs that the     *)
(* tests build, lower and run there.                                       *)
(***************************************************************************)
EXTENDS Pipeline, Cost

CONSTANT OddDims   \* the dimensions K the matmul is also run with

ASSUME OddDimsAssumption == OddDims \subseteq Nat \ {0}

(* specs/npu.yaml; the second core of npu-2core.yaml has units named _1.   *)
SecondCore == {"MTE2_1", "MTE3_1", "Vector_1"}
ScriptUnits == L!CoreUnits \cup SecondCore \cup {"UB", "L0C"}

Pipe(bandwidth) == [kind |-> "pipe", rate |-> bandwidth]
Compute(throughput, tile) == [kind |-> "compute", rate |-> throughput, tile |-> tile]

UnitSpec(u) ==
  CASE u = "MTE1" -> Pipe(256)
    [] u \in {"MTE2", "MTE3", "MTE2_1", "MTE3_1"} -> Pipe(64)
    [] u = "FixPipe" -> Pipe(128)
    [] u = "Cube" -> Compute(4096, <<16, 16, 16>>)
    [] u \in {"Vector", "Vector_1"} -> Compute(128, Raises)

ASSUME RaisesAssumption == Raises = None
ASSUME ScriptUnitsAssumption == ScriptUnits \subseteq Unit /\ "AICore1" \in Core

(* A chip whose core has these units; storage has no cost().               *)
ChipOf(units, depth) ==
  [cost  |-> [u \in Unit |-> [t \in Tensor |->
                IF u \in DOMAIN units THEN CostOf(units[u], t) ELSE None]],
   depth |-> [u \in Unit |-> depth]]

Npu == [u \in L!CoreUnits |-> UnitSpec(u)]

Float32(shape) == [shape |-> shape, esize |-> 4]

(* Instruction(unit, tensor, deps).                                        *)
Instruction(u, shape, deps) ==
  [unit |-> u, tensor |-> Float32(shape), deps |-> deps, streams |-> {}, dst |-> None]

Into(i, buffer) == [i EXCEPT !.dst = buffer]
Streaming(i, producer) == [i EXCEPT !.streams = {producer}]

Vec == <<1024>>
Mat == <<64, 64>>

(* depth: the queue depths that are not the default 1.  schedule: entries  *)
(* <<i, start, end, retire>>.                                              *)
Example(is, depth, schedule, total) ==
  [instrs |-> is, depth |-> depth, schedule |-> schedule, total |-> total]

Default == [u \in {} |-> 1]

-----------------------------------------------------------------------------
AddOn(mte2, vector, mte3, b) ==
  <<Instruction(mte2, Vec, << >>), Instruction(mte2, Vec, << >>),
    Instruction(vector, Vec, <<b + 1, b + 2>>), Instruction(mte3, Vec, <<b + 3>>)>>

AddSchedule(b) ==
  {<<b + 1, 0, 64, 64>>, <<b + 2, 64, 128, 128>>, <<b + 3, 128, 136, 136>>,
   <<b + 4, 136, 200, 200>>}

run_add == Example(AddOn("MTE2", "Vector", "MTE3", 0), Default, AddSchedule(0), 200)

run_parallel_add_2core ==
  Example(AddOn("MTE2", "Vector", "MTE3", 0) \o AddOn("MTE2_1", "Vector_1", "MTE3_1", 4),
          Default, AddSchedule(0) \cup AddSchedule(4), 200)

(* M = N = 64. *)
LoadsOfMatmul(k) ==
  <<Instruction("MTE2", <<64, k>>, << >>), Instruction("MTE2", <<k, 64>>, << >>),
    Instruction("MTE1", <<64, k>>, <<1>>), Instruction("MTE1", <<k, 64>>, <<2>>)>>

Cube(k) == Instruction("Cube", <<64, 64, k>>, <<3, 4>>)

Matmul(k) == LoadsOfMatmul(k) \o <<Cube(k), Instruction("FixPipe", Mat, <<5>>)>>

OddMatmul(k) == Example(Matmul(k), Default, {}, None)

run_matmul ==
  Example(Matmul(64), Default,
          {<<1, 0, 256, 256>>, <<2, 256, 512, 512>>, <<3, 256, 320, 320>>,
           <<4, 512, 576, 576>>, <<5, 576, 640, 640>>, <<6, 640, 768, 768>>}, 768)

run_softmax ==
  Example(<<Instruction("MTE2", Vec, << >>), Instruction("Vector", Vec, <<1>>),
            Instruction("Vector", Vec, <<2>>), Instruction("Vector", Vec, <<3>>),
            Instruction("MTE3", Vec, <<4>>)>>, Default,
          {<<1, 0, 64, 64>>, <<2, 64, 72, 72>>, <<3, 72, 80, 80>>, <<4, 80, 88, 88>>,
           <<5, 88, 152, 152>>}, 152)

run_parallel_add ==
  Example([i \in 1 .. 4 |-> Instruction("MTE2", Vec, << >>)] \o
          <<Instruction("Vector", Vec, <<1, 2>>), Instruction("Vector", Vec, <<3, 4>>),
            Instruction("Vector", Vec, <<5, 6>>), Instruction("MTE3", Vec, <<7>>)>>, Default,
          {<<1, 0, 64, 64>>, <<2, 64, 128, 128>>, <<3, 128, 192, 192>>, <<4, 192, 256, 256>>,
           <<5, 128, 136, 136>>, <<6, 256, 264, 264>>, <<7, 264, 272, 272>>,
           <<8, 272, 336, 336>>}, 336)

(* The header of run_stream_fusion.py: the streamed Vector op "starts as   *)
(* soon as the Cube starts producing and is paced by it".                  *)
run_stream_fusion ==
  {Example(LoadsOfMatmul(64) \o
           <<Cube(64), Into(Streaming(Instruction("Vector", Mat, << >>), 5), "UB"),
             Instruction("MTE3", Mat, <<6>>)>>, Default,
           {<<5, 576, 640, 640>>, <<6, 576, 640, 640>>}, None),
   Example(LoadsOfMatmul(64) \o
           <<Into(Cube(64), "L0C"), Into(Instruction("FixPipe", Mat, <<5>>), "UB"),
             Into(Instruction("Vector", Mat, <<6>>), "UB"), Instruction("MTE3", Mat, <<7>>)>>,
           Default, {<<5, 576, 640, 640>>}, None)}

(* Two results fit UB; with queues of one, "the same workload still totals *)
(* 264 cycles" (run_vector_stall.py).                                      *)
Burst ==
  [i \in 1 .. 8 |-> IF i % 2 = 1 THEN Into(Instruction("Vector", Vec, << >>), "UB")
                    ELSE Instruction("MTE3", Vec, <<i - 1>>)]

run_vector_stall ==
  {Example(Burst, [UB |-> 2, Vector |-> 8, MTE3 |-> 8],
           {<<1, 0, 8, 8>>, <<2, 8, 72, 72>>, <<3, 8, 16, 16>>, <<4, 72, 136, 136>>,
            <<5, 16, 24, 24>>, <<6, 136, 200, 200>>, <<7, 24, 32, 72>>, <<8, 200, 264, 264>>},
           264),
   Example(Burst, [UB |-> 2], {}, 264)}

run_issue_depth ==
  {Example(<<Instruction("MTE2", Vec, << >>), Instruction("MTE2", Vec, << >>),
             Instruction("Vector", Vec, << >>)>>, [MTE2 |-> d],
           {<<1, 0, 64, 64>>, <<2, 64, 128, 128>>,
            IF d = 1 THEN <<3, 64, 72, 72>> ELSE <<3, 0, 8, 8>>}, 128) : d \in {1, 2}}

Examples ==
  {run_add, run_parallel_add_2core, run_matmul, run_softmax, run_parallel_add}
    \cup run_stream_fusion \cup run_vector_stall \cup run_issue_depth
    \cup {OddMatmul(k) : k \in OddDims}

ASSUME WholeCycles ==
  \A e \in Examples : \A i \in DOMAIN e.instrs :
    Whole(UnitSpec(e.instrs[i].unit), e.instrs[i].tensor)

(* TensorOp(kind, ins, out, in_sources), in tensors that fit every buffer. *)
AddOp(sources, shape) ==
  [kind |-> "add", in_sources |-> sources, big |-> {},
   tensors |-> LET t == Float32(shape) IN <<t, t, t, t>>]

MatmulOp(sources, m, k, n) ==
  [kind |-> "matmul", in_sources |-> sources, big |-> {},
   tensors |-> <<Float32(<<m, k>>), Float32(<<k, n>>), Float32(<<m, n>>),
                 Float32(<<m, n, k>>)>>]

(* The graphs of tests/frontend/test_streaming_fusion.py, and their totals *)
(* on npu.yaml, whose stream link has no latency.                          *)
LoweredTests ==
  LET test(ops, total) == [ops |-> ops, total |-> total]
      matmul == MatmulOp(<<0, 0>>, 64, 64, 64)
  IN  {test(<<AddOp(<<0, 0>>, Vec)>>, 200),
       test(<<matmul>>, 768),
       test(<<AddOp(<<0, 0>>, Vec), AddOp(<<1, 0>>, Vec)>>, 400),
       test(<<matmul, AddOp(<<1, 0>>, Mat)>>, 1056)}

-----------------------------------------------------------------------------
JobOfExample(e) ==
  LET is == e.instrs
      N  == 1 .. Len(is)
  IN  [n       |-> Len(is),
       unit    |-> [i \in N |-> is[i].unit],
       deps    |-> [i \in N |-> is[i].deps],
       streams |-> [i \in N |-> is[i].streams],
       latency |-> [i \in N |-> 0],
       cost    |-> [i \in N |-> CostOf(UnitSpec(is[i].unit), is[i].tensor)],
       dst     |-> [i \in N |-> is[i].dst],
       depth   |-> [u \in Unit |-> IF u \in DOMAIN e.depth THEN e.depth[u] ELSE 1],
       parent  |-> [u \in Unit |-> IF u \in SecondCore THEN "AICore1" ELSE "AICore"]]

(* Sim(chip, instructions).run(), without parse() and lower().             *)
ScriptInit ==
  /\ graph = [ops |-> << >>, link |-> None]
  /\ lpc = "done" /\ at = 1
  /\ instrs = << >> /\ storeOf = << >> /\ computeOf = << >>
  /\ chip = ChipOf(Npu, 1)
  /\ baseline = None
  /\ \E e \in Examples : job = JobOfExample(e)
  /\ Called

ScriptsSpec ==
  (PipelineInit \/ ScriptInit) /\ [][PipelineNext]_pipelineVars /\ PipelineFairness

-----------------------------------------------------------------------------
(***************************************************************************)
(*                              Properties                                 *)
(***************************************************************************)

(* The example whose run has just returned. *)
Returned(e) == pc = "done" /\ job.n > 0 /\ instrs = << >> /\ job = JobOfExample(e)

(* Every total that docs/examples.md, a script's header or a test gives is *)
(* what simulate() returns.                                                *)
DocumentedTotals ==
  /\ \A e \in Examples : Returned(e) /\ e.total # None => TotalCycles = e.total
  /\ \A t \in LoweredTests :
       graph = [ops |-> t.ops, link |-> 0] /\ chip = ChipOf(Npu, 1) /\ job.n > 0 /\ pc = "done" =>
         TotalCycles = t.total

(* ... and so is every line of the schedules.                              *)
DocumentedSchedules ==
  \A e \in Examples : Returned(e) =>
    \A x \in e.schedule :
      startTime[x[1]] = x[2] /\ endTime[x[1]] = x[3] /\ retireTime[x[1]] = x[4]

(* "17 rounds up to 32" (docs/cost-model.md): the Cube is busy for a whole *)
(* number of tiles (64 * 64 * 16 operations are 16 cycles), the least that *)
(* covers K, and the loads for K itself.                                   *)
PaddingIsTight ==
  \A k \in OddDims : Returned(OddMatmul(k)) =>
    LET busy == endTime[5] - startTime[5]
    IN  busy % 16 = 0 /\ k <= busy /\ busy < k + 16 /\ endTime[1] = 4 * k
=============================================================================
