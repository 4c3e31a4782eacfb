------------------------------ MODULE Pipeline ------------------------------
(***************************************************************************)
(* simulate(lower(graph, chip)), as examples/run_stream_fusion.py and the  *)
(* frontend tests call it: module Lowering turns the graph into a list of  *)
(* instructions, module Engine runs that list.                             *)
(*                                                                         *)
(* The engine's variables keep the values of a call on the empty list until*)
(* lower() has returned.  A script may then lower and run the same graph on*)
(* the chip with a Cube->Vector stream link, to compare the totals         *)
(* (tests/frontend/test_streaming_fusion.py).                              *)
(***************************************************************************)
EXTENDS Engine

CONSTANTS
  Tensor,   \* the tensors of the ops: their shapes and element types
  Graphs,   \* the graphs, with the chip's stream link
  Chips,    \* what the rest of the chip's spec says of the core's units
  Links     \* the stream latencies a link may be added with

VARIABLES
  graph, lpc, at, instrs, storeOf, computeOf,   \* module Lowering
  chip,
  baseline   \* the total without the link, None as long as there is none

L == INSTANCE Lowering WITH pc <- lpc

lowerVars == <<graph, lpc, at, instrs, storeOf, computeOf>>

(* How long each unit takes for each tensor, None where cost() raises (a   *)
(* tile of another rank); every unit has a queue_depth of at least 1 (the  *)
(* builder's default).                                                     *)
IsChip(c) ==
  /\ c.cost \in [Unit -> [Tensor -> Nat \cup {None}]]
  /\ c.depth \in [Unit -> Nat \ {0}]

ASSUME UnitsAssumption == L!CoreUnits \subseteq Unit
ASSUME CoreAssumption == "AICore" \in Core
ASSUME GraphsAssumption == \A g \in Graphs : L!IsGraph(g)
ASSUME ChipsAssumption == \A c \in Chips : IsChip(c)
ASSUME LinksAssumption == Links \subseteq Nat

(* lower() sets no dst; the streamed instructions wait for the link's fill *)
(* latency, and all units are children of one core.                        *)
JobOf(is) ==
  LET N == 1 .. Len(is)
  IN  [n       |-> Len(is),
       unit    |-> [i \in N |-> is[i].unit],
       deps    |-> [i \in N |-> is[i].deps],
       streams |-> [i \in N |-> is[i].streams],
       latency |-> [i \in N |-> IF is[i].streams = {} THEN 0 ELSE graph.link],
       cost    |-> [i \in N |-> chip.cost[is[i].unit][is[i].tensor]],
       dst     |-> [i \in N |-> None],
       depth   |-> chip.depth,
       parent  |-> [u \in Unit |-> "AICore"]]

PipelineInit ==
  /\ L!Init
  /\ chip \in Chips
  /\ baseline = None
  /\ job = JobOf(<< >>)
  /\ Called

Lower == lpc = "lower" /\ L!Next /\ UNCHANGED <<chip, baseline, vars>>

(* simulate() is called on the list: Called of module Engine, primed. *)
Simulate ==
  /\ lpc = "done" /\ job.n = 0 /\ instrs # << >>
  /\ job' = JobOf(instrs)
  /\ LET unset == [i \in 0 .. Len(instrs) |-> None]
     IN  startTime' = unset /\ endTime' = unset /\ retireTime' = unset
  /\ pc' = "retire"
  /\ todo' = {instrs[i].unit : i \in 1 .. Len(instrs)}
  /\ waiting' = 1 .. Len(instrs)
  /\ remaining' = Len(instrs)
  /\ UNCHANGED <<progress, now, inflight, freeAt, occ, lowerVars, chip, baseline>>

Run == job.n > 0 /\ Next /\ UNCHANGED <<lowerVars, chip, baseline>>

(* The same graph again, with new instructions, on the chip with the link. *)
WithLink ==
  /\ lpc = "done" /\ job.n > 0 /\ pc = "done"
  /\ graph.ops # << >> /\ graph.link = None
  /\ baseline' = TotalCycles
  /\ \E l \in Links : graph' = [graph EXCEPT !.link = l]
  /\ lpc' = "lower" /\ at' = 1 /\ instrs' = << >>
  /\ storeOf' = [k \in L!Ops |-> None] /\ computeOf' = [k \in L!Ops |-> None]
  /\ job' = JobOf(<< >>)
  /\ LET unset == [i \in {0} |-> None]
     IN  startTime' = unset /\ endTime' = unset /\ retireTime' = unset
  /\ now' = 0 /\ waiting' = {} /\ remaining' = 0 /\ todo' = {}
  /\ inflight' = [u \in Unit |-> << >>]
  /\ freeAt' = [u \in Unit |-> 0] /\ occ' = [u \in Unit |-> 0]
  /\ UNCHANGED <<chip, pc, progress>>

Over == lpc # "lower" /\ pc \in Outcomes /\ (instrs = << >> \/ job.n > 0)

pipelineVars == <<lowerVars, chip, baseline, vars>>

PipelineFinished == Over /\ UNCHANGED pipelineVars

PipelineNext == Lower \/ Simulate \/ Run \/ WithLink \/ PipelineFinished

(* Both functions are sequential loops that nothing suspends. *)
PipelineFairness == WF_pipelineVars(Lower \/ Simulate \/ Run)

PipelineSpec == PipelineInit /\ [][PipelineNext]_pipelineVars /\ PipelineFairness

-----------------------------------------------------------------------------
(***************************************************************************)
(*                              Properties                                 *)
(***************************************************************************)

(* What lower() hands over is an input simulate() is made for, and one that*)
(* by WellOrderedNeverDeadlocks it gets to the end of.                     *)
LoweredIsWellOrdered == instrs # << >> => IsJob(job) /\ WellOrdered

(* lower() asks whether a tensor fits a buffer, never whether a unit can   *)
(* compute it: simulate() raises on some instruction whose cost() does.    *)
Uncomputable == \E i \in 1 .. job.n : job.cost[i] = None

(* Whatever the graph, the wiring of its ops, the shapes of its tensors,   *)
(* the units' speeds and queue depths: the simulation of a lowered graph   *)
(* ends with every instruction retired, or in cost() (instruction.py 31-34,*)
(* cost.py 14-17); it neither deadlocks nor runs for ever.                 *)
LoweredProgramsFinish ==
  lpc = "done" ~> \/ pc = "done" /\ \A i \in 1 .. Len(instrs) : i <= job.n /\ Retired(i)
                  \/ pc = "raised" /\ Uncomputable

(* The timeline respects the graph across both phases: an op that reads the*)
(* result of another starts computing after that has retired from GM's     *)
(* store; if it is streamed, once the first elements have crossed the link,*)
(* and it does not retire before the last ones have.                       *)
TimelineFollowsGraph ==
  job.n > 0 /\ pc = "done" =>
    \A k \in L!Ops : \A o \in L!Operand :
      L!Source(k, o) # 0 =>
        LET c == computeOf[k]
            p == computeOf[L!Source(k, o)]
            s == storeOf[L!Source(k, o)]
        IN  IF s = None
            THEN /\ startTime[p] + graph.link <= startTime[c]
                 /\ endTime[p] + graph.link <= retireTime[c]
            ELSE endTime[p] <= startTime[s] /\ retireTime[s] <= startTime[c]

(* The first elements of each streamed result cross the link no later than*)
(* its own store and its reader's reload would deliver them.               *)
LinkIsFast ==
  \A k \in L!Ops : \A o \in L!Operand :
    L!Streams(k, o) =>
      graph.link <= chip.cost["FixPipe"][L!TensorOf(L!Source(k, o), L!Out)]
                    + chip.cost["MTE2"][L!TensorOf(k, o)]

(* "Fusion beats the unfused round trip" (test_streaming_fusion.py 95-110),*)
(* of graphs of tensors of any shapes, each unit taking its own time for   *)
(* each tensor: if the program ran through without the link, it does with  *)
(* it (fusion asks no unit for a cost the round trip did not), and over a  *)
(* link that is fast it does not take longer, whatever else its            *)
(* instructions queue for.                                                 *)
FusionNeverSlows ==
  baseline # None /\ job.n > 0 =>
    /\ pc # "raised"
    /\ pc = "done" /\ LinkIsFast => TotalCycles <= baseline
=============================================================================
