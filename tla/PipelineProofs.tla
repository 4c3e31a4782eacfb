--------------------------- MODULE PipelineProofs ---------------------------
(***************************************************************************)
(* What simulate(lower(graph, chip)) guarantees for every graph and chip:  *)
(* the invariants of module Lowering carry over to the program it hands to *)
(* simulate(), those of module Engine to every run of that program, and the*)
(* run of a graph that streams results is compared with the run of the same*)
(* graph that streams none.                                                *)
(***************************************************************************)
EXTENDS Pipeline, TimingProofs

(* Module Lowering once more, with what is proved of it. *)
LP == INSTANCE LoweringProofs WITH pc <- lpc

LEMMA SameOperators ==
  /\ \A g : LP!IsGraph(g) <=> L!IsGraph(g)
  /\ LP!CoreUnits = L!CoreUnits
  /\ LP!Ops = L!Ops /\ LP!Operand = L!Operand
  /\ \A k, i : LP!Source(k, i) = L!Source(k, i) /\ (LP!Streams(k, i) <=> L!Streams(k, i))
  /\ \A k, x : LP!TensorOf(k, x) = L!TensorOf(k, x)
  /\ LP!Out = L!Out
<1>1. LP!Operand = L!Operand /\ LP!Out = L!Out /\ LP!CoreUnits = L!CoreUnits /\ LP!Ops = L!Ops
  BY Zenon DEF LP!Operand, L!Operand, LP!Out, L!Out, LP!CoreUnits, L!CoreUnits, LP!Ops, L!Ops
<1>2. \A g : LP!IsGraph(g) <=> L!IsGraph(g)
  BY Zenon DEF LP!IsGraph, L!IsGraph, LP!Operand, L!Operand, LP!Out, L!Out, LP!Work, L!Work
<1>3. \A k, x : LP!TensorOf(k, x) = L!TensorOf(k, x)
  BY Zenon DEF LP!TensorOf, L!TensorOf, LP!Op, L!Op
<1>4. \A k, i : LP!Source(k, i) = L!Source(k, i)
  BY Zenon DEF LP!Source, L!Source, LP!Op, L!Op
<1>5. \A k, i : LP!Streams(k, i) <=> L!Streams(k, i)
  BY Zenon DEF LP!Streams, L!Streams, LP!Fuses, L!Fuses, LP!Uses, L!Uses, LP!Ops, L!Ops,
     LP!Operand, L!Operand, LP!Source, L!Source, LP!Op, L!Op
<1> QED  BY <1>1, <1>2, <1>3, <1>4, <1>5, Zenon

LEMMA SameNext == L!Next => LP!Next
<1>1. L!LowerAdd => LP!LowerAdd
  BY Zenon DEF L!LowerAdd, LP!LowerAdd, L!Ops, LP!Ops, L!Op, LP!Op, L!Unfit, LP!Unfit,
     L!Missing, LP!Missing, L!AddInstrs, LP!AddInstrs, L!Source, LP!Source, L!Streams,
     LP!Streams, L!Fuses, LP!Fuses, L!Uses, LP!Uses, L!Operand, LP!Operand, L!Load, LP!Load,
     L!Instr, LP!Instr, L!LoadInstr, LP!LoadInstr, L!SrcDep, LP!SrcDep, L!TensorOf,
     LP!TensorOf, L!Out, LP!Out
<1>2. L!LowerMatmul => LP!LowerMatmul
  BY Zenon DEF L!LowerMatmul, LP!LowerMatmul, L!Ops, LP!Ops, L!Op, LP!Op, L!Unfit, LP!Unfit,
     L!Missing, LP!Missing, L!MatmulInstrs, LP!MatmulInstrs, L!StoreUnlessFused,
     LP!StoreUnlessFused, L!IsFused, LP!IsFused, L!Source, LP!Source, L!Streams,
     LP!Streams, L!Fuses, LP!Fuses, L!Uses, LP!Uses, L!Operand, LP!Operand,
     L!Instr, LP!Instr, L!LoadInstr, LP!LoadInstr, L!SrcDep, LP!SrcDep, L!TensorOf,
     LP!TensorOf, L!Out, LP!Out, L!Work, LP!Work
<1>3. L!Return => LP!Return
  BY Zenon DEF L!Return, LP!Return, L!Ops, LP!Ops
<1>4. L!RaiseValueError => LP!RaiseValueError
  BY Zenon DEF L!RaiseValueError, LP!RaiseValueError, L!Raise, LP!Raise, L!Overflows,
     LP!Overflows, L!Ops, LP!Ops, L!Op, LP!Op, L!Unfit, LP!Unfit,
     L!Missing, LP!Missing, L!Source, LP!Source, L!Streams,
     LP!Streams, L!Fuses, LP!Fuses, L!Uses, LP!Uses, L!Operand, LP!Operand, L!Out, LP!Out
<1>5. L!RaiseKeyError => LP!RaiseKeyError
  BY Zenon DEF L!RaiseKeyError, LP!RaiseKeyError, L!Raise, LP!Raise, L!Overflows,
     LP!Overflows, L!Ops, LP!Ops, L!Op, LP!Op, L!Unfit, LP!Unfit,
     L!Missing, LP!Missing, L!Source, LP!Source, L!Streams,
     LP!Streams, L!Fuses, LP!Fuses, L!Uses, LP!Uses, L!Operand, LP!Operand, L!Out, LP!Out
<1>6. L!RaiseNotImplemented => LP!RaiseNotImplemented
  BY Zenon DEF L!RaiseNotImplemented, LP!RaiseNotImplemented, L!Raise, LP!Raise,
     L!Ops, LP!Ops, L!Op, LP!Op
<1>7. L!Finished => LP!Finished
  BY Zenon DEF L!Finished, LP!Finished, L!Outcomes, LP!Outcomes, L!vars, LP!vars
<1> QED  BY <1>1, <1>2, <1>3, <1>4, <1>5, <1>6, <1>7 DEF L!Next, LP!Next

(* What module Lowering proves, in terms of this module. *)
LoweringInv == LP!Inv /\ LP!Unlinked /\ LP!Laid

LEMMA LoweredFresh == LP!Fresh => LoweringInv
BY SameOperators, GraphsAssumption, NoneAssumption, LP!FreshInv, LP!FreshUnlinked, LP!LaidFresh
DEF LoweringInv

LEMMA LoweredStep == LoweringInv /\ (L!Next \/ UNCHANGED lowerVars) => LoweringInv'
<1> SUFFICES ASSUME LoweringInv, L!Next \/ UNCHANGED lowerVars PROVE LoweringInv'
  OBVIOUS
<1>1. [LP!Next]_(LP!vars)
  <2>1. UNCHANGED lowerVars => UNCHANGED LP!vars
    BY DEF lowerVars, LP!vars
  <2> QED  BY <2>1, SameNext
<1> QED
  BY <1>1, SameOperators, GraphsAssumption, NoneAssumption, LP!NextInv, LP!UnlinkedNext, LP!LaidNext
  DEF LoweringInv

-----------------------------------------------------------------------------
(* The job made of a list: its types, and WellOrdered for a list with no   *)
(* destinations.                                                           *)
OrderedJob(j) ==
  /\ IsJob(j)
  /\ \A i \in 1 .. j.n :
       {j.deps[i][k] : k \in DOMAIN j.deps[i]} \cup j.streams[i] \subseteq 1 .. i - 1
  /\ \A u \in Unit : j.depth[u] > 0
  /\ \A i \in 1 .. j.n : j.dst[i] = None

LEMMA OrderedJobFacts ==
  ASSUME OrderedJob(job)
  PROVE  IsJob(job) /\ WellOrdered
<1>1. IsJob(job) /\ Units \subseteq Unit
  BY JobFacts DEF OrderedJob
<1> QED  BY <1>1 DEF OrderedJob, WellOrdered, Instrs, DepsOf

LEMMA JobOfOrdered ==
  ASSUME IsChip(chip), NEW is, LP!Follows(is, 0),
         graph.link \in Nat \/ is \in Seq(LP!Plain)
  PROVE  OrderedJob(JobOf(is))
<1> DEFINE n == Len(is)
           N == 1 .. n
           j == JobOf(is)
<1>1. is \in Seq(LP!Instruction) /\ n \in Nat /\ DOMAIN is = N
      /\ \A i \in N : LP!WaitsOf(is[i]) \subseteq 1 .. 0 + i - 1
  BY DEF LP!Follows
<1>2. ASSUME NEW i \in N
      PROVE  /\ is[i].unit \in Unit /\ is[i].tensor \in Tensor
             /\ is[i].deps \in Seq(0 .. n)
             /\ is[i].streams \in SUBSET (0 .. n)
             /\ {is[i].deps[k] : k \in DOMAIN is[i].deps} \cup is[i].streams \subseteq 1 .. i - 1
             /\ (IF is[i].streams = {} THEN 0 ELSE graph.link) \in Nat
  <2>1. is[i] \in LP!Instruction
    BY <1>1
  <2>2. is[i].unit \in Unit /\ is[i].tensor \in Tensor /\ is[i].deps \in Seq(Nat)
    BY <2>1, UnitsAssumption, SameOperators DEF LP!Instruction
  <2>3. {is[i].deps[k] : k \in DOMAIN is[i].deps} \cup is[i].streams \subseteq 1 .. i - 1
    <3>1. 0 + i - 1 = i - 1
      BY <1>1
    <3> QED  BY <1>1, <3>1 DEF LP!WaitsOf
  <2>4. 1 .. i - 1 \subseteq 0 .. n
    BY <1>1
  <2>5. is[i].deps \in Seq(0 .. n)
    <3>1. \A k \in DOMAIN is[i].deps : is[i].deps[k] \in 0 .. n
      BY <2>3, <2>4
    <3> DEFINE d == is[i].deps
    <3>2. Len(d) \in Nat /\ DOMAIN d = 1 .. Len(d) /\ d = [k \in 1 .. Len(d) |-> d[k]]
      BY <2>2
    <3>3. d \in [1 .. Len(d) -> 0 .. n]
      <4> HIDE DEF d, n
      <4>1. \A k \in 1 .. Len(d) : d[k] \in 0 .. n
        BY <3>1, <3>2 DEF d
      <4> QED  BY <3>2, <4>1, Zenon
    <3> HIDE DEF d, n
    <3>4. d \in Seq(0 .. n)
      BY <3>2, <3>3, SeqDef
    <3> QED  BY <3>4 DEF d
  <2>6. is[i].streams \in SUBSET (0 .. n)
    BY <2>3, <2>4
  <2>7. is \in Seq(LP!Plain) => is[i].streams = {}
    <3>1. is \in Seq(LP!Plain) => is[i] \in LP!Plain
      BY <1>1
    <3> QED  BY <3>1 DEF LP!Plain
  <2> QED  BY <2>2, <2>3, <2>5, <2>6, <2>7
<1>3. /\ j.n = n
      /\ j.unit = [i \in N |-> is[i].unit]
      /\ j.deps = [i \in N |-> is[i].deps]
      /\ j.streams = [i \in N |-> is[i].streams]
      /\ j.latency = [i \in N |-> IF is[i].streams = {} THEN 0 ELSE graph.link]
      /\ j.cost = [i \in N |-> chip.cost[is[i].unit][is[i].tensor]]
      /\ j.dst = [i \in N |-> None]
      /\ j.depth = chip.depth
      /\ j.parent = [u \in Unit |-> "AICore"]
  BY DEF JobOf
<1>r. j = [n |-> j.n, unit |-> j.unit, deps |-> j.deps, streams |-> j.streams,
           latency |-> j.latency, cost |-> j.cost, dst |-> j.dst,
           depth |-> j.depth, parent |-> j.parent]
  BY DEF JobOf
<1> HIDE DEF j, N
<1>4. chip.cost \in [Unit -> [Tensor -> Nat \cup {None}]] /\ chip.depth \in [Unit -> Nat \ {0}]
  BY DEF IsChip
<1>5. IsJob(j)
  <2>1. /\ j.unit \in [N -> Unit] /\ j.deps \in [N -> Seq(0 .. n)]
        /\ j.streams \in [N -> SUBSET (0 .. n)]
    BY <1>2, <1>3
  <2>2. j.latency \in [N -> Nat]
    BY <1>2, <1>3
  <2>3. j.cost \in [N -> Nat \cup {None}] /\ j.dst \in [N -> Unit \cup {None}]
    BY <1>2, <1>3, <1>4
  <2>4. j.depth \in [Unit -> Nat] /\ j.parent \in [Unit -> Core]
    BY <1>3, <1>4, CoreAssumption
  <2>5. j.n \in Nat /\ N = 1 .. j.n
    BY <1>1, <1>3 DEF N
  <2> QED  BY <1>3, <1>r, <2>1, <2>2, <2>3, <2>4, <2>5 DEF IsJob
<1>6. \A i \in N : {j.deps[i][k] : k \in DOMAIN j.deps[i]} \cup j.streams[i] \subseteq 1 .. i - 1
  <2>1. \A i \in N : j.deps[i] = is[i].deps /\ j.streams[i] = is[i].streams
    BY <1>3
  <2> QED  BY <1>2, <2>1
<1>7. \A u \in Unit : j.depth[u] > 0
  BY <1>3, <1>4
<1>8. \A i \in N : j.dst[i] = None
  BY <1>3
<1> QED  BY <1>3, <1>5, <1>6, <1>7, <1>8 DEF OrderedJob, N, j

LEMMA NoJob ==
  ASSUME IsChip(chip)
  PROVE  OrderedJob(JobOf(<< >>)) /\ JobOf(<< >>).n = 0
<1>1. LP!Follows(<< >>, 0) /\ << >> \in Seq(LP!Plain)
  BY DEF LP!Follows
<1> QED  BY <1>1, JobOfOrdered DEF JobOf

LEMMA LoweredJob ==
  ASSUME LoweringInv, IsChip(chip)
  PROVE  OrderedJob(JobOf(instrs)) /\ JobOf(instrs).n = Len(instrs)
<1>1. LP!TypeOK /\ LP!ProducersFirst
  BY DEF LoweringInv, LP!Inv
<1>2. LP!Follows(instrs, 0)
  BY <1>1, LP!ListFollows, SameOperators, GraphsAssumption, NoneAssumption
<1>3. graph.link \in Nat \/ instrs \in Seq(LP!Plain)
  BY <1>1 DEF LoweringInv, LP!Unlinked, LP!TypeOK, LP!IsGraph
<1> QED  BY <1>2, <1>3, JobOfOrdered DEF JobOf

-----------------------------------------------------------------------------
(* A call that has returned has nothing left in its sweep's flag: the      *)
(* variables of a call that has not been made again start from this.       *)
Calm == pc = "done" => ~progress

LEMMA CalmNext == Calm /\ [Next]_vars => Calm'
<1> SUFFICES ASSUME Calm, [Next]_vars, pc' = "done" PROVE ~progress'
  BY DEF Calm
<1>1. ASSUME NEW u \in Units, RetireHead(u) \/ RetireSkips(u) PROVE FALSE
  BY <1>1 DEF RetireHead, RetireSkips, Leave
<1>2. ASSUME NEW u \in Units, StartHead(u) \/ StartSkips(u) \/ StartFaults(u) PROVE FALSE
  BY <1>2 DEF StartHead, StartSkips, StartFaults, Leave
<1>3. ASSUME NEW c \in Cores, IssueNext(c) PROVE FALSE
  BY <1>3 DEF IssueNext
<1>4. ASSUME NEW c \in Cores, DispatcherStops(c) PROVE ~progress'
  BY <1>4 DEF DispatcherStops, Leave, AfterSweep
<1>5. CASE AdvanceClock \/ RaiseDeadlock
  BY <1>5 DEF AdvanceClock, RaiseDeadlock
<1>6. CASE Finished \/ UNCHANGED vars
  BY <1>6 DEF Finished, vars, Calm
<1> QED  BY <1>1, <1>2, <1>3, <1>4, <1>5, <1>6 DEF Next

(* simulate() raises in cost() only. *)
Explained == pc = "raised" => Uncomputable

LEMMA ExplainedNext ==
  ASSUME Typed, Explained, [Next]_vars
  PROVE  Explained'
<1>1. job' = job
  BY JobFixed
<1>2. CASE pc = "raised"
  BY <1>1, <1>2 DEF Explained, Uncomputable
<1>3. CASE pc # "raised"
  <2>1. ASSUME NEW u \in Units, StartFaults(u) PROVE Explained'
    <3>1. Head(inflight[u]) \in 1 .. job.n
      BY <2>1, HeadOfQueue DEF StartFaults, CanStart, Typed, Instrs
    <3>2. job.cost[Head(inflight[u])] = None
      BY <2>1 DEF StartFaults
    <3> QED  BY <1>1, <3>1, <3>2 DEF Explained, Uncomputable
  <2>2. ASSUME NEW u \in Units, RetireHead(u) \/ RetireSkips(u) \/ StartHead(u) \/ StartSkips(u)
        PROVE  pc' # "raised"
    BY <1>3, <2>2 DEF RetireHead, RetireSkips, StartHead, StartSkips, Leave
  <2>3. ASSUME NEW c \in Cores, IssueNext(c) \/ DispatcherStops(c)
        PROVE  pc' # "raised"
    BY <1>3, <2>3 DEF IssueNext, DispatcherStops, Leave, AfterSweep
  <2>4. CASE AdvanceClock \/ RaiseDeadlock
    BY <1>3, <2>4 DEF AdvanceClock, RaiseDeadlock, Explained
  <2>5. CASE Finished \/ UNCHANGED vars
    BY <1>3, <2>5 DEF Finished, vars, Explained
  <2> QED  BY <2>1, <2>2, <2>3, <2>4, <2>5 DEF Next, Explained
<1> QED  BY <1>2, <1>3

(* What is proved of a run of simulate(). *)
RunInv ==
  /\ Inv /\ OccBounded /\ Calm /\ Explained
  /\ Flowing /\ Forward /\ LastIsNow /\ DoneIsEmpty

(* The program in simulate()'s hands is the list lower() has returned. *)
Handed ==
  job.n # 0 =>
    /\ lpc = "done" /\ job.n = Len(instrs)
    /\ \A i \in Instrs :
         /\ job.deps[i] = instrs[i].deps /\ job.streams[i] = instrs[i].streams
         /\ job.latency[i] = IF instrs[i].streams = {} THEN 0 ELSE graph.link

(* Every state of the composition: module Lowering's invariant, a job that *)
(* lower() made, and module Engine's invariant of the run of that job.     *)
Composed ==
  /\ LoweringInv
  /\ IsChip(chip)
  /\ OrderedJob(job)
  /\ job.n = 0 => Called
  /\ Handed
  /\ RunInv

LEMMA RunInvNext == RunInv /\ [Next]_vars => RunInv'
BY TypedNext, PlacedNext, CountedNext, SettledNext, OccBoundedNext, CalmNext, ExplainedNext,
   FlowingNext, ForwardNext, LastIsNowNext DEF RunInv, Inv

(* It still has the same list in hand. *)
LEMMA HandedStill ==
  ASSUME Handed, job' = job, UNCHANGED lowerVars
  PROVE  Handed'
<1>1. Instrs' = Instrs
  BY DEF Instrs
<1> QED  BY <1>1 DEF Handed, lowerVars

(* It is still called on the same job. *)
LEMMA CalledStill ==
  ASSUME Called, UNCHANGED vars
  PROVE  Called'
<1>1. Instrs' = Instrs /\ Units' = Units
  BY DEF vars, Instrs, Units
<1> QED  BY <1>1 DEF vars, times, Called

LEMMA CalledFacts ==
  ASSUME OrderedJob(job), Called
  PROVE  RunInv
<1>1. Begun
  BY DEF Begun, OrderedJob
<1>2. LastIsNow /\ DoneIsEmpty /\ Calm /\ Explained
  BY DEF Called, LastIsNow, DoneIsEmpty, Calm, Explained
<1> QED  BY <1>1, <1>2, TypedInit, PlacedInit, CountedInit, SettledInit, OccBoundedInit,
            FlowingInit, ForwardInit DEF Inv, RunInv

LEMMA ComposedInit == PipelineInit => Composed
<1> SUFFICES ASSUME PipelineInit PROVE Composed
  OBVIOUS
<1>1. IsChip(chip) /\ Called
  BY ChipsAssumption DEF PipelineInit
<1>2. OrderedJob(job)
  BY <1>1, NoJob DEF PipelineInit
<1>3. LP!Fresh
  BY SameOperators, GraphsAssumption DEF PipelineInit, L!Init, LP!Fresh
<1>4. Handed
  BY <1>1, NoJob DEF PipelineInit, Handed
<1> QED  BY <1>1, <1>2, <1>3, <1>4, LoweredFresh, CalledFacts DEF Composed

(* A step of the engine keeps its invariant; it takes none while the job is*)
(* the empty list.                                                         *)
LEMMA EngineStep ==
  ASSUME Composed, [Next]_vars, UNCHANGED <<lowerVars, chip>>, job.n = 0 => UNCHANGED vars
  PROVE  Composed'
<1>1. RunInv'
  BY RunInvNext DEF Composed
<1>2. job' = job
  BY JobFixed
<1>3. LoweringInv'
  BY LoweredStep DEF Composed
<1>4. (job.n = 0 => Called)'
  <2> SUFFICES ASSUME job.n = 0 PROVE Called'
    BY <1>2
  <2> QED  BY CalledStill DEF Composed
<1>5. Handed'
  BY <1>2, HandedStill DEF Composed
<1> QED  BY <1>1, <1>2, <1>3, <1>4, <1>5 DEF Composed, OrderedJob

(* simulate() is called, on the list or on none at all. *)
LEMMA CallStep ==
  ASSUME LoweringInv', IsChip(chip)', OrderedJob(job'), Called', Handed'
  PROVE  Composed'
<1>1. OrderedJob(job)'
  BY DEF OrderedJob
<1>2. RunInv'
  BY <1>1, CalledFacts, PTL
<1> QED  BY <1>1, <1>2 DEF Composed

LEMMA SimulateCalls ==
  ASSUME Composed, Simulate
  PROVE  /\ OrderedJob(job') /\ job' = JobOf(instrs) /\ job'.n = Len(instrs) /\ job'.n > 0
         /\ Called'
<1>1. /\ job.n = 0 /\ instrs # << >> /\ job' = JobOf(instrs)
      /\ UNCHANGED <<progress, now, inflight, freeAt, occ>>
  BY DEF Simulate
<1>2. OrderedJob(job') /\ job'.n = Len(instrs)
  BY <1>1, LoweredJob DEF Composed
<1>3. Len(instrs) \in Nat /\ Len(instrs) # 0
  BY <1>1, EmptySeq DEF Composed, LoweringInv, LP!Inv, LP!TypeOK
<1>4. Called'
  <2>1. Called
    BY <1>1 DEF Composed
  <2>2. Instrs' = 1 .. Len(instrs)
    BY <1>2 DEF Instrs
  <2>3. \A i \in 1 .. Len(instrs) : job'.unit[i] = instrs[i].unit
    BY <1>1 DEF JobOf
  <2>4. Units' = {instrs[i].unit : i \in 1 .. Len(instrs)}
    BY <2>2, <2>3 DEF Units
  <2>5. startTime' = [i \in 0 .. job'.n |-> None] /\ endTime' = [i \in 0 .. job'.n |-> None]
        /\ retireTime' = [i \in 0 .. job'.n |-> None]
    BY <1>2 DEF Simulate
  <2>6. pc' = "retire" /\ todo' = Units' /\ waiting' = Instrs' /\ remaining' = job'.n
    BY <1>2, <2>2, <2>4 DEF Simulate
  <2>7. /\ progress' = FALSE /\ now' = 0 /\ inflight' = [u \in Unit |-> << >>]
        /\ freeAt' = [u \in Unit |-> 0] /\ occ' = [u \in Unit |-> 0]
    BY <1>1, <2>1 DEF Called
  <2> QED  BY <1>2, <1>3, <2>5, <2>6, <2>7 DEF Called
<1> QED  BY <1>1, <1>2, <1>3, <1>4

LEMMA SimulateComposed == Composed /\ Simulate => Composed'
<1> SUFFICES ASSUME Composed, Simulate PROVE Composed'
  OBVIOUS
<1>1. UNCHANGED <<lowerVars, chip>>
  BY DEF Simulate
<1>2. LoweringInv' /\ IsChip(chip)'
  BY <1>1, LoweredStep DEF Composed
<1>3. OrderedJob(job') /\ job' = JobOf(instrs) /\ job'.n = Len(instrs) /\ Called'
  BY SimulateCalls
<1>4. Handed'
  <2>1. Instrs' = 1 .. Len(instrs) /\ instrs' = instrs /\ graph' = graph /\ lpc' = "done"
    BY <1>1, <1>3 DEF Instrs, Simulate, lowerVars
  <2>2. \A i \in 1 .. Len(instrs) :
          /\ job'.deps[i] = instrs[i].deps /\ job'.streams[i] = instrs[i].streams
          /\ job'.latency[i] = IF instrs[i].streams = {} THEN 0 ELSE graph.link
    BY <1>3 DEF JobOf
  <2> QED  BY <1>3, <2>1, <2>2 DEF Handed
<1> QED  BY <1>2, <1>3, <1>4, CallStep

LEMMA WithLinkComposed == Composed /\ WithLink => Composed'
<1> SUFFICES ASSUME Composed, WithLink PROVE Composed'
  OBVIOUS
<1>1. /\ pc = "done" /\ job' = JobOf(<< >>)
      /\ UNCHANGED <<chip, pc, progress>>
  BY DEF WithLink
<1>2. IsChip(chip)' /\ OrderedJob(job') /\ job'.n = 0
  BY <1>1, NoJob DEF Composed, IsChip
<1>3. LoweringInv'
  <2>1. PICK l \in Links : graph' = [graph EXCEPT !.link = l]
    BY DEF WithLink
  <2>2. LP!IsGraph(graph) /\ l \in Nat
    BY LinksAssumption DEF Composed, LoweringInv, LP!Inv, LP!TypeOK
  <2> DEFINE R == Seq([kind : {"add", "matmul", "other"}, in_sources : Seq(0 .. Len(graph.ops)),
                       tensors : [1 .. LP!Work -> Tensor], big : SUBSET (LP!Operand \cup {LP!Out})])
  <2>3. graph'.ops = graph.ops /\ graph'.link = l /\ graph' \in [ops : R, link : Nat \cup {None}]
    <3>1. graph \in [ops : R, link : Nat \cup {None}]
      BY <2>2 DEF LP!IsGraph
    <3> HIDE DEF R
    <3> QED  BY <2>1, <2>2, <3>1
  <2>4. LP!IsGraph(graph')
    BY <2>2, <2>3 DEF LP!IsGraph
  <2>5. LP!Ops' = L!Ops
    BY <2>3 DEF LP!Ops, L!Ops
  <2>6. LP!Fresh'
    BY <2>4, <2>5 DEF WithLink, LP!Fresh
  <2> QED  BY <2>6, LoweredFresh, PTL
<1>4. Called'
  <2>1. Instrs' = {} /\ 0 .. job'.n = {0}
    BY <1>2 DEF Instrs
  <2>2. Units' = {}
    BY <2>1 DEF Units
  <2>3. ~progress /\ progress \in BOOLEAN
    BY <1>1 DEF Composed, RunInv, Calm, Inv, Typed, TypeOK
  <2>4. startTime' = [i \in 0 .. job'.n |-> None] /\ endTime' = [i \in 0 .. job'.n |-> None]
        /\ retireTime' = [i \in 0 .. job'.n |-> None]
    BY <2>1 DEF WithLink
  <2>5. /\ now' = 0 /\ waiting' = {} /\ remaining' = 0 /\ todo' = {}
        /\ inflight' = [u \in Unit |-> << >>]
        /\ freeAt' = [u \in Unit |-> 0] /\ occ' = [u \in Unit |-> 0]
    BY DEF WithLink
  <2>6. pc' = "done" /\ progress' = FALSE
    BY <1>1, <2>3
  <2> QED  BY <1>2, <2>1, <2>2, <2>4, <2>5, <2>6 DEF Called
<1>5. Handed'
  BY <1>2 DEF Handed
<1> QED  BY <1>2, <1>3, <1>4, <1>5, CallStep

LEMMA ComposedNext == Composed /\ [PipelineNext]_pipelineVars => Composed'
<1> SUFFICES ASSUME Composed, [PipelineNext]_pipelineVars PROVE Composed'
  OBVIOUS
<1>1. CASE Lower
  <2>1. L!Next /\ UNCHANGED chip /\ UNCHANGED vars
    BY <1>1 DEF Lower
  <2>2. LoweringInv'
    BY <2>1, LoweredStep DEF Composed
  <2>3. job' = job /\ (job.n = 0 => Called)'
    BY <2>1, CalledStill DEF Composed, vars
  <2>4. RunInv'
    BY <2>1, RunInvNext DEF Composed
  <2>5. Handed'
    BY <1>1, <2>3 DEF Composed, Handed, Lower
  <2> QED  BY <2>1, <2>2, <2>3, <2>4, <2>5 DEF Composed, IsChip, OrderedJob
<1>2. CASE Simulate
  BY <1>2, SimulateComposed
<1>3. CASE Run
  <2>1. [Next]_vars /\ UNCHANGED <<lowerVars, chip>> /\ job.n # 0
    BY <1>3 DEF Run, Composed, OrderedJob, IsJob
  <2> QED  BY <2>1, EngineStep
<1>4. CASE WithLink
  BY <1>4, WithLinkComposed
<1>5. CASE PipelineFinished \/ UNCHANGED pipelineVars
  <2>1. UNCHANGED <<lowerVars, chip>> /\ UNCHANGED vars
    BY <1>5 DEF PipelineFinished, pipelineVars
  <2> QED  BY <2>1, EngineStep
<1> QED  BY <1>1, <1>2, <1>3, <1>4, <1>5 DEF PipelineNext

LEMMA Composition == PipelineSpec => []Composed
BY ComposedInit, ComposedNext, PTL DEF PipelineSpec

-----------------------------------------------------------------------------
(* What lower() hands to simulate() is an input simulate() is made for and *)
(* in producer-before-consumer order, for every graph, chip and link.      *)
THEOREM LoweredProgramsAreWellOrdered == PipelineSpec => []LoweredIsWellOrdered
<1>1. Composed => LoweredIsWellOrdered
  BY OrderedJobFacts DEF Composed, LoweredIsWellOrdered
<1> QED  BY <1>1, Composition, PTL

(* So the simulation of a lowered graph never deadlocks, whatever the graph*)
(* and however short the queues of the chip; and all that can raise is the *)
(* cost() of an instruction.                                               *)
THEOREM LoweredProgramsNeverDeadlock ==
  PipelineSpec => [](pc # "deadlock" /\ (pc = "raised" => Uncomputable))
<1>1. Composed => pc # "deadlock" /\ (pc = "raised" => Uncomputable)
  BY OrderedJobFacts, OrderedNotStuck DEF Composed, RunInv, Explained
<1> QED  BY <1>1, Composition, PTL

-----------------------------------------------------------------------------
(***************************************************************************)
(*                         The timeline of a graph                         *)
(***************************************************************************)

(* When simulate() has returned, every instruction of the list has run. *)
LEMMA RunOver ==
  ASSUME Composed, job.n > 0, pc = "done"
  PROVE  /\ lpc = "done" /\ Instrs = LP!Index
         /\ \A i \in Instrs :
              /\ Started(i) /\ Retired(i)
              /\ startTime[i] \in Nat /\ endTime[i] \in Nat /\ retireTime[i] \in Nat
              /\ startTime[i] <= endTime[i] /\ endTime[i] <= retireTime[i]
<1>1. Typed /\ TypeOK /\ Placed /\ Counted /\ Instrs \subseteq 0 .. job.n /\ remaining = 0
  BY JobFacts DEF Composed, RunInv, Inv, Typed, TypeOK, DoneIsEmpty
<1>2. lpc = "done" /\ Instrs = LP!Index
  BY <1>1, JobFacts DEF Composed, Handed, Instrs, LP!Index
<1>3. ASSUME NEW i \in Instrs
      PROVE  /\ Started(i) /\ Retired(i)
             /\ startTime[i] \in Nat /\ endTime[i] \in Nat /\ retireTime[i] \in Nat
             /\ startTime[i] <= endTime[i] /\ endTime[i] <= retireTime[i]
  <2>1. Retired(i) /\ i \in 0 .. job.n
    BY <1>1, NoneLeft
  <2>2. Started(i)
    BY <1>1, <2>1 DEF Placed, SomewhereOnce
  <2>3. startTime[i] \in Nat /\ retireTime[i] \in Nat /\ endTime[i] \in Nat
    BY <1>1, <2>1, <2>2, TimesArePast, EndsArePlanned DEF Composed
  <2>4. startTime[i] <= endTime[i] /\ endTime[i] <= retireTime[i]
    BY <2>1, <2>3, NoneAssumption DEF Composed, RunInv, Flowing, Forward, EndedFirst
  <2> QED  BY <2>1, <2>2, <2>3, <2>4
<1> QED  BY <1>2, <1>3

(* ... after those it waits for. *)
LEMMA RunInOrder ==
  ASSUME Composed, job.n > 0, pc = "done", NEW i \in LP!Index
  PROVE  /\ \A d \in LP!DepsOf(i) : retireTime[d] <= startTime[i]
         /\ \A s \in instrs[i].streams :
              /\ startTime[s] + graph.link <= startTime[i]
              /\ endTime[s] + graph.link <= endTime[i]
<1>1. i \in Instrs /\ Started(i) /\ Retired(i)
  BY RunOver
<1>2. /\ job.deps[i] = instrs[i].deps /\ job.streams[i] = instrs[i].streams
      /\ instrs[i].streams # {} => job.latency[i] = graph.link
  BY <1>1 DEF Composed, Handed
<1>3. LP!DepsOf(i) = DepsOf(i)
  BY <1>2 DEF LP!DepsOf, DepsOf
<1>4. InputsFirst
  BY DEF Composed, RunInv, Flowing
<1> QED  BY <1>1, <1>2, <1>3, <1>4 DEF InputsFirst

(* The timeline of a finished run respects the data flow of its graph:     *)
(* an op that reads the result of another computes after that has landed   *)
(* in GM, or, streamed, no earlier than the link lets it through.          *)
THEOREM TimelinesFollowTheGraph == PipelineSpec => []TimelineFollowsGraph
<1>1. Composed => TimelineFollowsGraph
  <2> SUFFICES ASSUME Composed, job.n > 0, pc = "done",
                      NEW k \in L!Ops, NEW o \in L!Operand, L!Source(k, o) # 0
               PROVE  LET c == computeOf[k]
                          p == computeOf[L!Source(k, o)]
                          s == storeOf[L!Source(k, o)]
                      IN  IF s = None
                          THEN /\ startTime[p] + graph.link <= startTime[c]
                               /\ endTime[p] + graph.link <= retireTime[c]
                          ELSE endTime[p] <= startTime[s] /\ retireTime[s] <= startTime[c]
    BY DEF TimelineFollowsGraph
  <2> DEFINE a == LP!Source(k, o)
             c == computeOf[k]
             p == computeOf[a]
             s == storeOf[a]
  <2>1. /\ LP!Inv /\ LP!Laid /\ lpc = "done" /\ lpc \in {"lower", "done"}
        /\ k \in LP!Ops /\ o \in LP!Operand /\ a # 0 /\ L!Source(k, o) = a
    BY RunOver, SameOperators DEF Composed, LoweringInv
  <2>2. LP!Lowered(k)
    BY <2>1 DEF LP!Laid, LP!Lowered, LP!Inv, LP!TypeOK, LP!Ops
  <2>3. LP!Lowered(a)
    BY <2>1, <2>2, LP!SourceLowered, SameOperators, GraphsAssumption, NoneAssumption
  <2>4. /\ LP!Part(k) \subseteq LP!Index /\ c \in LP!Index /\ p \in LP!Index
        /\ s # None <=> ~LP!IsFused(a)
        /\ s # None => s \in LP!Index /\ p \in LP!DepsOf(s)
    BY <2>1, <2>2, <2>3, LP!PartFacts, SameOperators, GraphsAssumption, NoneAssumption
  <2>5. IF LP!Streams(k, o)
        THEN p \in instrs[c].streams
        ELSE /\ s # None
             /\ \E l \in LP!Part(k) :
                  /\ s \in LP!DepsOf(l)
                  /\ \/ l \in LP!DepsOf(c)
                     \/ \E m \in LP!Part(k) : m \in LP!DepsOf(c) /\ l \in LP!DepsOf(m)
    BY <2>1, <2>2, LP!ReadLaid, SameOperators, GraphsAssumption, NoneAssumption
  <2>6. LP!Streams(k, o) => LP!IsFused(a)
    BY <2>1 DEF LP!Streams, LP!IsFused
  <2> HIDE DEF c, p, s, a
  <2>7. \A i \in LP!Index : /\ startTime[i] \in Nat /\ endTime[i] \in Nat /\ retireTime[i] \in Nat
                            /\ startTime[i] <= endTime[i] /\ endTime[i] <= retireTime[i]
    BY RunOver
  <2>8. CASE s = None
    <3>1. p \in instrs[c].streams
      BY <2>5, <2>8
    <3>2. startTime[p] + graph.link <= startTime[c] /\ endTime[p] + graph.link <= endTime[c]
      BY <2>4, <3>1, RunInOrder
    <3>3. graph.link \in Nat
      BY <2>1, <2>4, <2>8 DEF LP!IsFused, LP!Fuses, LP!Inv, LP!TypeOK, LP!IsGraph
    <3>4. endTime[p] + graph.link <= retireTime[c]
      BY <2>4, <2>7, <3>2, <3>3
    <3> QED  BY <2>1, <2>8, <3>2, <3>4 DEF s, p, c
  <2>9. CASE s # None
    <3>1. ~LP!Streams(k, o)
      BY <2>4, <2>6, <2>9
    <3>2. PICK l \in LP!Part(k) :
             /\ s \in LP!DepsOf(l)
             /\ \/ l \in LP!DepsOf(c)
                \/ \E m \in LP!Part(k) : m \in LP!DepsOf(c) /\ l \in LP!DepsOf(m)
      BY <2>5, <3>1
    <3>3. retireTime[s] <= startTime[l] /\ l \in LP!Index /\ s \in LP!Index
      BY <2>4, <2>9, <3>2, RunInOrder
    <3>4. retireTime[l] <= startTime[c]
      <4>1. CASE l \in LP!DepsOf(c)
        BY <2>4, <4>1, RunInOrder
      <4>2. CASE \E m \in LP!Part(k) : m \in LP!DepsOf(c) /\ l \in LP!DepsOf(m)
        <5>1. PICK m \in LP!Part(k) : m \in LP!DepsOf(c) /\ l \in LP!DepsOf(m)
          BY <4>2
        <5>2. m \in LP!Index /\ retireTime[l] <= startTime[m] /\ retireTime[m] <= startTime[c]
          BY <2>4, <5>1, RunInOrder
        <5> QED  BY <2>4, <2>7, <3>3, <5>2
      <4> QED  BY <3>2, <4>1, <4>2
    <3>5. retireTime[s] <= startTime[c]
      BY <2>4, <2>7, <3>3, <3>4
    <3>6. retireTime[p] <= startTime[s] /\ endTime[p] <= startTime[s]
      <4>1. retireTime[p] <= startTime[s]
        BY <2>4, <2>9, RunInOrder
      <4> QED  BY <2>4, <2>7, <2>9, <4>1
    <3> QED  BY <2>1, <2>9, <3>5, <3>6 DEF s, p, c
  <2> QED  BY <2>8, <2>9
<1> QED  BY <1>1, Composition, PTL

-----------------------------------------------------------------------------
(***************************************************************************)
(*                        The same graph, streamed                         *)
(*                                                                         *)
(* The run without the link can be replayed (last section of TimingProofs),*)
(* and the streamed list is part of the list it ran (last section of       *)
(* LoweringProofs): leaving out its stores and reloads, what remains is a  *)
(* replay of the streamed list, to which its own run can be compared.      *)
(***************************************************************************)

(* o holds a list, where its computations are and the times of its run.    *)
Positions(o) == 1 .. Len(o.list)
Earlier(o, x) == {y \in 1 .. x - 1 : o.list[y].unit = o.list[x].unit}

MayStartAgain(o, x, B) ==
  /\ Earlier(o, x) \cup LP!DepsIn(o.list, x) \subseteq B
  /\ \A y \in 1 .. x : Cardinality(Earlier(o, y) \ B) < chip.depth[o.list[y].unit]

MissingFrom(o, t, A, B) ==
  \A z \in Positions(o) : /\ z \notin A => t <= o.start[z]
                          /\ z \notin B => t <= o.retire[z]

RunsAgain(o) ==
  \A A \in SUBSET Positions(o) : \A B \in SUBSET A :
    \/ B = Positions(o)
    \/ \E x \in Positions(o) \ A : MayStartAgain(o, x, B) /\ MissingFrom(o, o.start[x], A, B)
    \/ \E x \in A \ B : MissingFrom(o, o.retire[x], A, B)

(* How long its instruction x takes. *)
CostOf(o, x) == chip.cost[o.list[x].unit][o.list[x].tensor]

(* o is a run of the graph with nothing streamed, over by cycle t. *)
UnfusedRun(o, t) ==
  /\ LP!Unfused(o.list, o.compute)
  /\ \A x \in Positions(o) :
       /\ o.list[x].unit \in Unit /\ CostOf(o, x) \in Nat
       /\ o.start[x] \in Nat /\ o.end[x] \in Nat /\ o.retire[x] \in Nat
       /\ o.start[x] + CostOf(o, x) <= o.end[x]
       /\ o.end[x] <= o.retire[x] /\ o.retire[x] <= t
       /\ \A d \in LP!DepsIn(o.list, x) : d \in Positions(o) /\ o.retire[d] <= o.start[x]
  /\ RunsAgain(o)

(* Without the link, what has been run is such a run.                      *)
LEMMA FirstRunTold ==
  ASSUME Composed, Recorded, job = JobOf(instrs), job.n > 0, pc = "done", graph.link = None
  PROVE  \E o : UnfusedRun(o, TotalCycles)
<1> DEFINE o == [list |-> instrs, compute |-> computeOf, start |-> startTime,
                 end |-> endTime, retire |-> retireTime]
           N == Positions(o)
<1>1. /\ LP!Inv /\ LP!Laid /\ lpc = "done" /\ Instrs = LP!Index /\ LP!Index = N
      /\ Inv /\ Typed /\ TypeOK /\ Placed /\ Counted /\ DoneIsEmpty /\ IsChip(chip)
  BY RunOver DEF Composed, LoweringInv, RunInv, Inv, Typed, LP!Index, Positions
<1>2. LP!Unfused(instrs, computeOf)
  BY <1>1, LP!UnfusedList, SameOperators, GraphsAssumption, NoneAssumption
<1>3. \A x \in N : /\ instrs[x].unit \in Unit /\ job.unit[x] = instrs[x].unit
                   /\ job.cost[x] = CostOf(o, x)
                   /\ job.dst[x] = None /\ CoreOf[x] = "AICore"
                   /\ DepsOf(x) = LP!DepsIn(instrs, x)
                   /\ LP!DepsOf(x) = LP!DepsIn(instrs, x)
  <2>1. \A x \in N : job.unit[x] = instrs[x].unit /\ job.unit[x] \in Unit
    BY <1>1, JobFacts DEF JobOf, Positions, Typed, TypeOK
  <2>2. \A x \in N : job.deps[x] = instrs[x].deps /\ job.parent[job.unit[x]] = "AICore"
    BY <2>1 DEF JobOf, Positions
  <2>3. \A x \in N : CoreOf[x] = "AICore"
    BY <1>1, <2>2 DEF CoreOf
  <2>4. \A x \in N : job.cost[x] = CostOf(o, x) /\ job.dst[x] = None
    BY DEF JobOf, Positions, CostOf
  <2> QED  BY <2>1, <2>2, <2>3, <2>4 DEF DepsOf, LP!DepsIn, LP!DepsOf
<1>4. \A x \in N : Before(x) = Earlier(o, x) /\ Earlier(o, x) \subseteq N /\ N \subseteq Nat
  <2>1. Len(instrs) \in Nat
    BY <1>1 DEF LP!Inv, LP!TypeOK
  <2>2. \A x \in N : 1 .. x - 1 \subseteq N /\ x \in Nat
    BY <2>1 DEF Positions
  <2> QED  BY <1>3, <2>2 DEF Before, Earlier
<1>5. \A x \in N : /\ startTime[x] \in Nat /\ endTime[x] \in Nat /\ retireTime[x] \in Nat
                   /\ startTime[x] + job.cost[x] <= endTime[x]
                   /\ endTime[x] <= retireTime[x] /\ job.cost[x] \in Nat
  BY <1>1, DoneTells, JobFacts DEF Typed, TypeOK
<1>6. \A x \in N : retireTime[x] <= TotalCycles
  <2>1. TotalCycles = now /\ \A x \in Instrs : Retired(x)
    BY <1>1, ClockIsTotal DEF Composed, RunInv, TotalIsLastRetirement
  <2>2. Instrs \subseteq 0 .. job.n
    BY <1>1, JobFacts DEF Typed, TypeOK
  <2> QED  BY <1>1, <2>1, <2>2, TimesArePast
<1>7. \A x \in N : \A d \in LP!DepsIn(instrs, x) : d \in N /\ retireTime[d] <= startTime[x]
  <2> SUFFICES ASSUME NEW x \in N, NEW d \in LP!DepsIn(instrs, x)
               PROVE  d \in N /\ retireTime[d] <= startTime[x]
    OBVIOUS
  <2>1. x \in LP!Index /\ d \in LP!DepsOf(x) /\ x \in Nat
    BY <1>1, <1>3, <1>4
  <2>2. d \in 1 .. x - 1
    BY <1>1, <2>1 DEF LP!Inv, LP!ProducersFirst, LP!Waits
  <2>3. 1 .. x - 1 \subseteq N
    BY <1>1 DEF LP!Inv, LP!TypeOK, Positions
  <2> QED  BY <2>1, <2>2, <2>3, RunInOrder
<1>8. RunsAgain(o)
  <2> SUFFICES ASSUME NEW A \in SUBSET N, NEW B \in SUBSET A
               PROVE  \/ B = N
                      \/ \E x \in N \ A : MayStartAgain(o, x, B) /\ MissingFrom(o, o.start[x], A, B)
                      \/ \E x \in A \ B : MissingFrom(o, o.retire[x], A, B)
    BY DEF RunsAgain
  <2>1. \A x \in N : startTime[x] # None /\ retireTime[x] # None
    BY <1>5, NoneAssumption
  <2>2. \A t : NoneBefore(t, startTime, retireTime, A, B) => MissingFrom(o, t, A, B)
    BY <1>1, <2>1 DEF NoneBefore, MissingFrom
  <2>3. \/ \A k \in N : (startTime[k] # None => k \in A) /\ (retireTime[k] # None => k \in B)
        \/ \E i \in N \ A : /\ startTime[i] # None /\ MayStart(i, A, B, job.depth)
                            /\ NoneBefore(startTime[i], startTime, retireTime, A, B)
        \/ \E i \in N \ B : /\ retireTime[i] # None /\ MayRetire(i, A, job.depth)
                            /\ NoneBefore(retireTime[i], startTime, retireTime, A, B)
    BY <1>1 DEF Recorded, Replayable
  <2>4. CASE \A k \in N : (startTime[k] # None => k \in A) /\ (retireTime[k] # None => k \in B)
    <3>1. B = N
      BY <2>1, <2>4
    <3> QED  BY <3>1
  <2>5. ASSUME NEW i \in N \ A, MayStart(i, A, B, job.depth),
               NoneBefore(startTime[i], startTime, retireTime, A, B)
        PROVE  MayStartAgain(o, i, B) /\ MissingFrom(o, o.start[i], A, B)
    <3>1. Before(i) \cup DepsOf(i) \subseteq B
      BY <2>5 DEF MayStart
    <3>2. \A j \in 1 .. i : j \in N
      BY <1>1 DEF LP!Inv, LP!TypeOK, Positions
    <3>3. \A j \in 1 .. i : Cardinality(Before(j) \ B) < job.depth[job.unit[j]]
      BY <1>3, <2>5, <3>2 DEF MayStart
    <3>4. job.depth = chip.depth
      BY DEF JobOf
    <3>5. \A j \in 1 .. i : Cardinality(Earlier(o, j) \ B) < chip.depth[instrs[j].unit]
      BY <1>3, <1>4, <3>2, <3>3, <3>4
    <3> QED  BY <1>3, <1>4, <2>2, <2>5, <3>1, <3>5 DEF MayStartAgain
  <2>6. ASSUME NEW i \in N \ B, MayRetire(i, A, job.depth),
               NoneBefore(retireTime[i], startTime, retireTime, A, B)
        PROVE  i \in A \ B /\ MissingFrom(o, o.retire[i], A, B)
    BY <2>2, <2>6 DEF MayRetire
  <2> QED  BY <2>3, <2>4, <2>5, <2>6
<1>9. UnfusedRun(o, TotalCycles)
  BY <1>2, <1>3, <1>5, <1>6, <1>7, <1>8 DEF UnfusedRun
<1> QED  BY <1>9

(* What it says of the graph does not depend on the link. *)
LEMMA UnfusedRunStays ==
  ASSUME NEW o, NEW t, UnfusedRun(o, t), graph'.ops = graph.ops, chip' = chip
  PROVE  UnfusedRun(o, t)'
<1>1. LP!Ops' = LP!Ops /\ \A k, i : LP!Source(k, i)' = LP!Source(k, i) /\ LP!Op(k)' = LP!Op(k)
  BY DEF LP!Ops, LP!Op, LP!Source
<1>t. \A k, x : LP!TensorOf(k, x)' = LP!TensorOf(k, x)
  BY <1>1 DEF LP!TensorOf
<1>2. /\ \A C, k, i : LP!Stored(C, k, i)' = LP!Stored(C, k, i)
      /\ \A k : LP!Lead(k)' = LP!Lead(k)
      /\ \A C, k : LP!Block(C, k)' = LP!Block(C, k)
  BY <1>1 DEF LP!Stored, LP!Lead, LP!Block
<1>3. \A s, C, k : LP!UnfusedOp(s, C, k)' <=> LP!UnfusedOp(s, C, k)
  BY <1>1, <1>t, <1>2 DEF LP!UnfusedOp
<1>4. \A s, C : LP!Unfused(s, C)' <=> LP!Unfused(s, C)
  BY <1>1, <1>2, <1>3 DEF LP!Unfused
<1>5. RunsAgain(o)'
  BY DEF UnfusedRun, RunsAgain, MayStartAgain, MissingFrom, Positions, Earlier
<1>6. LP!Unfused(o.list, o.compute)'
  BY <1>4 DEF UnfusedRun
<1>7. \A x : CostOf(o, x)' = CostOf(o, x)
  BY DEF CostOf
<1> QED  BY <1>5, <1>6, <1>7 DEF UnfusedRun, Positions

(* The list is that of the graph with its streams, o a run without them;   *)
(* f finds the one in the other.                                           *)
Streamable(o, f, t) ==
  /\ UnfusedRun(o, t) /\ LP!Embeds(f, o.list)
  /\ LoweringInv /\ IsChip(chip) /\ OrderedJob(job) /\ job = JobOf(instrs)

LEMMA StreamableFacts ==
  ASSUME NEW o, NEW f, NEW t, Streamable(o, f, t)
  PROVE  /\ Instrs = LP!Index /\ Instrs \subseteq Nat /\ \A i \in Instrs : 1 .. i \subseteq Instrs
         /\ \A i \in Instrs : /\ f[i] \in Positions(o) /\ f[i] \in Nat
                              /\ job.unit[i] \in Unit /\ job.unit[i] = o.list[f[i]].unit
                              /\ job.cost[i] = CostOf(o, f[i]) /\ job.cost[i] \in Nat
                              /\ job.dst[i] = None /\ job.streams[i] = instrs[i].streams
                              /\ job.latency[i] = IF job.streams[i] = {} THEN 0 ELSE graph.link
                              /\ \A d \in DepsOf(i) : /\ d \in Instrs
                                                        /\ f[d] \in LP!DepsIn(o.list, f[i])
                              /\ \A p \in job.streams[i] : p \in Instrs /\
                                   \E x \in LP!DepsIn(o.list, f[i]) : LP!Detours(f, o.list, p, x)
         /\ \A i, j \in Instrs : (i < j => f[i] < f[j]) /\ (f[i] = f[j] => i = j)
         /\ job.depth = chip.depth /\ \A u \in Unit : chip.depth[u] \in Nat
<1>1. IsJob(job) /\ Instrs = LP!Index /\ job.n = Len(instrs) /\ job.depth = chip.depth
  BY DEF Streamable, OrderedJob, JobOf, Instrs, LP!Index
<1>2. Instrs \subseteq Nat /\ \A i \in Instrs : 1 .. i \subseteq Instrs
  BY <1>1 DEF IsJob, Instrs
<1>3. \A i, j \in Instrs : (i < j => f[i] < f[j]) /\ f[i] \in Positions(o) /\ f[i] \in Nat
  BY <1>1 DEF Streamable, LP!Embeds, Positions
<1>4. \A i, j \in Instrs : f[i] = f[j] => i = j
  <2> SUFFICES ASSUME NEW i \in Instrs, NEW j \in Instrs, f[i] = f[j] PROVE i = j
    OBVIOUS
  <2>1. i \in Nat /\ j \in Nat /\ f[i] \in Nat
    BY <1>2, <1>3
  <2>2. ~(i < j) /\ ~(j < i)
    BY <1>3, <2>1
  <2> QED  BY <2>1, <2>2
<1>5. ASSUME NEW i \in Instrs
      PROVE  /\ job.unit[i] \in Unit /\ job.unit[i] = instrs[i].unit
             /\ job.deps[i] = instrs[i].deps /\ job.streams[i] = instrs[i].streams
             /\ job.latency[i] = IF job.streams[i] = {} THEN 0 ELSE graph.link
             /\ job.cost[i] = chip.cost[instrs[i].unit][instrs[i].tensor]
             /\ job.dst[i] = None
  <2>1. i \in 1 .. Len(instrs) /\ i \in 1 .. job.n
    BY <1>1 DEF Instrs
  <2>2. job.unit[i] \in Unit
    BY <1>1, <2>1 DEF IsJob
  <2>3. /\ job.unit[i] = instrs[i].unit
        /\ job.deps[i] = instrs[i].deps /\ job.streams[i] = instrs[i].streams
        /\ job.latency[i] = IF instrs[i].streams = {} THEN 0 ELSE graph.link
        /\ job.cost[i] = chip.cost[instrs[i].unit][instrs[i].tensor] /\ job.dst[i] = None
    BY <2>1 DEF Streamable, JobOf
  <2> QED  BY <2>2, <2>3
<1>6. ASSUME NEW i \in Instrs
      PROVE  /\ job.unit[i] = o.list[f[i]].unit
             /\ job.cost[i] = CostOf(o, f[i]) /\ job.cost[i] \in Nat
             /\ \A d \in DepsOf(i) : d \in Instrs /\ f[d] \in LP!DepsIn(o.list, f[i])
             /\ \A p \in job.streams[i] : p \in Instrs /\
                  \E x \in LP!DepsIn(o.list, f[i]) : LP!Detours(f, o.list, p, x)
  <2>1. DepsOf(i) = LP!DepsOf(i)
    BY <1>5 DEF DepsOf, LP!DepsOf
  <2>2. /\ o.list[f[i]].unit = instrs[i].unit /\ o.list[f[i]].tensor = instrs[i].tensor
        /\ \A d \in LP!DepsOf(i) : d \in LP!Index /\ f[d] \in LP!DepsIn(o.list, f[i])
        /\ \A p \in instrs[i].streams : p \in LP!Index /\
             \E x \in LP!DepsIn(o.list, f[i]) : LP!Detours(f, o.list, p, x)
    BY <1>1 DEF Streamable, LP!Embeds
  <2>3. job.cost[i] = CostOf(o, f[i])
    BY <1>5, <2>2 DEF CostOf
  <2>4. CostOf(o, f[i]) \in Nat
    BY <1>3 DEF Streamable, UnfusedRun
  <2> QED  BY <1>1, <1>5, <2>1, <2>2, <2>3, <2>4
<1>7. \A u \in Unit : chip.depth[u] \in Nat
  BY DEF Streamable, IsChip
<1> QED  BY <1>1, <1>2, <1>3, <1>4, <1>5, <1>6, <1>7

(* LinkIsFast, of the graph as module LoweringProofs sees it.              *)
LEMMA FastLink ==
  ASSUME LinkIsFast, NEW k \in LP!Ops, NEW w \in LP!Operand, LP!Streams(k, w)
  PROVE  graph.link <= chip.cost["FixPipe"][LP!TensorOf(LP!Source(k, w), LP!Out)]
                       + chip.cost["MTE2"][LP!TensorOf(k, w)]
<1>1. k \in L!Ops /\ w \in L!Operand /\ L!Streams(k, w)
  BY SameOperators
<1>2. graph.link <= chip.cost["FixPipe"][L!TensorOf(L!Source(k, w), L!Out)]
                    + chip.cost["MTE2"][L!TensorOf(k, w)]
  BY <1>1 DEF LinkIsFast
<1> QED  BY <1>2, SameOperators

(* Through a store and a reload a result comes no sooner than by the link. *)
LEMMA LinkIsNoSlower ==
  ASSUME NEW o, NEW f, NEW t, Streamable(o, f, t), NEW i \in Instrs, NEW p \in job.streams[i],
         graph.link \in Nat, LinkIsFast
  PROVE  /\ p \in Instrs
         /\ o.end[f[p]] + job.latency[i] <= o.end[f[i]]
         /\ o.start[f[p]] + job.latency[i] <= o.start[f[i]]
<1>1. /\ p \in Instrs /\ f[p] \in Positions(o) /\ f[i] \in Positions(o)
      /\ job.latency[i] = graph.link
  BY StreamableFacts
<1>2. PICK x \in LP!DepsIn(o.list, f[i]) : LP!Detours(f, o.list, p, x)
  BY StreamableFacts
<1>3. PICK k \in LP!Ops, w \in LP!Operand, y \in Positions(o) :
         /\ LP!Streams(k, w) /\ p = computeOf[LP!Source(k, w)]
         /\ LP!Detour(f, o.list, k, w, y, x)
  BY <1>2 DEF LP!Detours, Positions
<1>4. /\ x \in Positions(o) /\ o.list[x].unit = "MTE2" /\ o.list[x].tensor = LP!TensorOf(k, w)
      /\ y \in LP!DepsIn(o.list, x)
      /\ o.list[y].unit = "FixPipe"
      /\ o.list[y].tensor = LP!TensorOf(LP!Source(k, w), LP!Out)
      /\ f[p] \in LP!DepsIn(o.list, y)
  BY <1>3 DEF LP!Detour, LP!Does, Positions
<1>5. graph.link <= CostOf(o, y) + CostOf(o, x)
  BY <1>3, <1>4, FastLink DEF CostOf
<1>6. \A z \in Positions(o) :
        /\ CostOf(o, z) \in Nat
        /\ o.start[z] \in Nat /\ o.end[z] \in Nat /\ o.retire[z] \in Nat
        /\ o.start[z] + CostOf(o, z) <= o.end[z] /\ o.end[z] <= o.retire[z]
        /\ \A d \in LP!DepsIn(o.list, z) : o.retire[d] <= o.start[z]
  BY DEF Streamable, UnfusedRun
<1>7. /\ o.retire[f[p]] <= o.start[y] /\ o.retire[y] <= o.start[x] /\ o.retire[x] <= o.start[f[i]]
  BY <1>1, <1>2, <1>3, <1>4, <1>6
<1>8. /\ o.start[y] + CostOf(o, y) <= o.end[y] /\ o.end[y] <= o.retire[y]
      /\ o.start[x] + CostOf(o, x) <= o.end[x] /\ o.end[x] <= o.retire[x]
      /\ o.start[f[p]] + CostOf(o, f[p]) <= o.end[f[p]] /\ o.end[f[p]] <= o.retire[f[p]]
      /\ o.start[f[i]] + CostOf(o, f[i]) <= o.end[f[i]]
  BY <1>1, <1>3, <1>4, <1>6
<1>9. /\ o.start[x] \in Nat /\ o.end[x] \in Nat /\ o.retire[x] \in Nat
      /\ o.start[y] \in Nat /\ o.end[y] \in Nat /\ o.retire[y] \in Nat
      /\ o.start[f[p]] \in Nat /\ o.end[f[p]] \in Nat /\ o.retire[f[p]] \in Nat
      /\ o.start[f[i]] \in Nat /\ o.end[f[i]] \in Nat
      /\ CostOf(o, x) \in Nat /\ CostOf(o, y) \in Nat
      /\ CostOf(o, f[p]) \in Nat /\ CostOf(o, f[i]) \in Nat
  BY <1>1, <1>3, <1>4, <1>6
<1>10. o.end[f[p]] + graph.link <= o.start[f[i]]
  BY <1>5, <1>7, <1>8, <1>9
<1> QED  BY <1>1, <1>8, <1>9, <1>10

(* What the streamed list has no place for: a store or a reload on the way *)
(* from the result of p.  With p's start it counts as done.                *)
OnTheWay(o, f, p, x) ==
  \/ LP!DepsIn(o.list, x) = {f[p]}
  \/ \E y \in Positions(o) :
       LP!LeftOut(f, y) /\ LP!DepsIn(o.list, x) = {y} /\ LP!DepsIn(o.list, y) = {f[p]}

Passed(o, f, A) == {x \in Positions(o) : LP!LeftOut(f, x) /\ \E p \in A : OnTheWay(o, f, p, x)}

Counterpart(o, f, A, B) == {f[i] : i \in B} \cup Passed(o, f, A)

LEMMA CounterpartFacts ==
  ASSUME NEW o, NEW f, NEW t, Streamable(o, f, t), NEW A \in SUBSET Instrs, NEW B \in SUBSET A
  PROVE  /\ \A i \in Instrs : f[i] \in Counterpart(o, f, A, B) <=> i \in B
         /\ \A x \in Positions(o) : LP!LeftOut(f, x) =>
              (x \in Counterpart(o, f, A, B) <=> \E p \in A : OnTheWay(o, f, p, x))
         /\ Counterpart(o, f, A, A) \subseteq Positions(o)
         /\ Counterpart(o, f, A, B) \subseteq Counterpart(o, f, A, A)
         /\ \A x \in Counterpart(o, f, A, A) \ Counterpart(o, f, A, B) : \E i \in A \ B : x = f[i]
<1>1. \A i, j \in Instrs : f[i] = f[j] => i = j
  BY StreamableFacts
<1>2. \A i \in Instrs : f[i] \in Positions(o)
  BY StreamableFacts
<1>3. \A x : LP!LeftOut(f, x) <=> \A i \in Instrs : f[i] # x
  BY StreamableFacts DEF LP!LeftOut
<1> QED  BY <1>1, <1>2, <1>3 DEF Counterpart, Passed

(* A result that is on the way comes from one instruction. *)
LEMMA OneWay ==
  ASSUME NEW o, NEW f, NEW t, Streamable(o, f, t), NEW p \in Instrs, NEW q \in Instrs, NEW x,
         OnTheWay(o, f, p, x), OnTheWay(o, f, q, x)
  PROVE  p = q
<1>1. \A i, j \in Instrs : f[i] = f[j] => i = j
  BY StreamableFacts
<1>2. \A y : LP!LeftOut(f, y) <=> \A i \in Instrs : f[i] # y
  BY StreamableFacts DEF LP!LeftOut
<1>3. CASE LP!DepsIn(o.list, x) = {f[p]}
  <2>1. LP!DepsIn(o.list, x) = {f[q]}
    <3>1. \A y : LP!LeftOut(f, y) => LP!DepsIn(o.list, x) # {y}
      BY <1>2, <1>3
    <3> QED  BY <3>1 DEF OnTheWay
  <2> QED  BY <1>1, <1>3, <2>1
<1>4. CASE LP!DepsIn(o.list, x) # {f[p]}
  <2>1. PICK y : LP!LeftOut(f, y) /\ LP!DepsIn(o.list, x) = {y} /\ LP!DepsIn(o.list, y) = {f[p]}
    BY <1>4 DEF OnTheWay
  <2>2. LP!DepsIn(o.list, x) # {f[q]}
    BY <1>2, <2>1
  <2>3. PICK z : LP!LeftOut(f, z) /\ LP!DepsIn(o.list, x) = {z} /\ LP!DepsIn(o.list, z) = {f[q]}
    BY <2>2 DEF OnTheWay
  <2>4. y = z
    BY <2>1, <2>3
  <2> QED  BY <1>1, <2>1, <2>3, <2>4
<1> QED  BY <1>3, <1>4

(* What is on the way is not the next to start: its inputs are there only  *)
(* when it counts as done.                                                 *)
LEMMA NothingIsOnTheWay ==
  ASSUME NEW o, NEW f, NEW t, Streamable(o, f, t), NEW A \in SUBSET Instrs, NEW B \in SUBSET A,
         NEW x \in Positions(o) \ Counterpart(o, f, A, A),
         LP!DepsIn(o.list, x) \subseteq Counterpart(o, f, A, B)
  PROVE  \E i \in Instrs \ A : x = f[i]
<1>1. CASE LP!LeftOut(f, x)
  <2>1. PICK p \in Instrs : OnTheWay(o, f, p, x)
    <3>1. \E p \in LP!Index : \/ LP!DepsIn(o.list, x) = {f[p]}
                              \/ \E y \in 1 .. Len(o.list) :
                                   LP!LeftOut(f, y) /\ LP!DepsIn(o.list, x) = {y}
                                                    /\ LP!DepsIn(o.list, y) = {f[p]}
      BY <1>1 DEF Streamable, LP!Embeds, Positions
    <3>2. LP!Index = Instrs
      BY StreamableFacts
    <3> QED  BY <3>1, <3>2 DEF OnTheWay, Positions
  <2>2. p \in A
    <3>1. CASE LP!DepsIn(o.list, x) = {f[p]}
      <4>1. f[p] \in Counterpart(o, f, A, B)
        BY <3>1
      <4> QED  BY <2>1, <4>1, CounterpartFacts
    <3>2. CASE LP!DepsIn(o.list, x) # {f[p]}
      <4>1. PICK y \in Positions(o) : LP!LeftOut(f, y) /\ LP!DepsIn(o.list, x) = {y}
                                      /\ LP!DepsIn(o.list, y) = {f[p]}
        BY <2>1, <3>2 DEF OnTheWay
      <4>2. PICK q \in A : OnTheWay(o, f, q, y)
        BY <4>1, CounterpartFacts
      <4>3. OnTheWay(o, f, p, y)
        BY <4>1 DEF OnTheWay
      <4> QED  BY <4>2, <4>3, OneWay
    <3> QED  BY <3>1, <3>2
  <2>3. x \in Counterpart(o, f, A, A)
    BY <1>1, <2>1, <2>2, CounterpartFacts
  <2> QED  BY <2>3
<1>2. CASE ~LP!LeftOut(f, x)
  <2>1. PICK i \in Instrs : x = f[i]
    BY <1>2, StreamableFacts DEF LP!LeftOut
  <2>2. i \notin A
    BY <2>1, CounterpartFacts
  <2> QED  BY <2>1, <2>2
<1> QED  BY <1>1, <1>2

(* The queues of the streamed list hold no more than those of the other.   *)
LEMMA QueuesAreShorter ==
  ASSUME NEW o, NEW f, NEW t, Streamable(o, f, t), NEW A \in SUBSET Instrs, NEW B \in SUBSET A,
         NEW j \in Instrs
  PROVE  LET S == Before(j) \ B
             T == Earlier(o, f[j]) \ Counterpart(o, f, A, B)
         IN  Cardinality(S) <= Cardinality(T) /\ Cardinality(S) \in Nat /\ Cardinality(T) \in Nat
<1> DEFINE S == Before(j) \ B
           T == Earlier(o, f[j]) \ Counterpart(o, f, A, B)
           g == [k \in S |-> f[k]]
<1>1. IsFiniteSet(T) /\ Cardinality(T) \in Nat
  <2>1. f[j] \in Nat
    BY StreamableFacts
  <2>2. IsFiniteSet(1 .. f[j] - 1)
    BY <2>1, FS_Interval
  <2>3. T \subseteq 1 .. f[j] - 1
    BY DEF Earlier
  <2> QED  BY <2>2, <2>3, FS_Subset, FS_CardinalityType
<1>2. \A k \in S : k \in Instrs /\ k < j /\ k \notin B /\ job.unit[k] = job.unit[j]
  <2>1. j \in Nat /\ 1 .. j \subseteq Instrs
    BY StreamableFacts
  <2> QED  BY <2>1 DEF Before
<1>3. \A k \in S : f[k] \in T
  <2> SUFFICES ASSUME NEW k \in S PROVE f[k] \in T
    OBVIOUS
  <2>1. k \in Instrs /\ k < j /\ k \notin B /\ job.unit[k] = job.unit[j]
    BY <1>2
  <2>2. f[k] < f[j] /\ f[k] \in Nat /\ f[j] \in Nat /\ f[k] \in Positions(o)
    BY <2>1, StreamableFacts
  <2>3. o.list[f[k]].unit = o.list[f[j]].unit
    BY <2>1, StreamableFacts
  <2>4. f[k] \notin Counterpart(o, f, A, B)
    BY <2>1, CounterpartFacts
  <2>5. f[k] \in 1 .. f[j] - 1
    BY <2>2 DEF Positions
  <2> QED  BY <2>3, <2>4, <2>5 DEF Earlier
<1>4. \A k, l \in S : f[k] = f[l] => k = l
  BY <1>2, StreamableFacts
<1> HIDE DEF S, T
<1>5. g \in Injection(S, T)
  BY <1>3, <1>4 DEF Injection, IsInjective
<1>6. IsFiniteSet(S) /\ Cardinality(S) <= Cardinality(T)
  BY <1>1, <1>5, FS_Injection
<1>7. Cardinality(S) \in Nat
  BY <1>6, FS_CardinalityType
<1> QED  BY <1>1, <1>6, <1>7 DEF S, T

LEMMA StreamedStart ==
  ASSUME NEW o, NEW f, NEW t, Streamable(o, f, t), NEW A \in SUBSET Instrs, NEW B \in SUBSET A,
         NEW i \in Instrs, MayStartAgain(o, f[i], Counterpart(o, f, A, B))
  PROVE  MayStart(i, A, B, job.depth)
<1> DEFINE X == Counterpart(o, f, A, B)
<1>1. 1 .. i \subseteq Instrs /\ i \in Nat /\ f[i] \in Nat
  BY StreamableFacts
<1>2. ASSUME NEW k \in Before(i) PROVE k \in B
  <2>1. k \in Instrs /\ k < i /\ job.unit[k] = job.unit[i]
    BY <1>1 DEF Before
  <2>2. f[k] < f[i] /\ f[k] \in Nat /\ f[k] \in Positions(o) /\ o.list[f[k]].unit = o.list[f[i]].unit
    BY <2>1, StreamableFacts
  <2>3. f[k] \in 1 .. f[i] - 1
    BY <1>1, <2>2 DEF Positions
  <2>4. f[k] \in X
    BY <2>2, <2>3 DEF MayStartAgain, Earlier
  <2> QED  BY <2>1, <2>4, CounterpartFacts
<1>3. ASSUME NEW d \in DepsOf(i) PROVE d \in B
  <2>1. d \in Instrs /\ f[d] \in LP!DepsIn(o.list, f[i])
    BY StreamableFacts
  <2>2. f[d] \in X
    BY <2>1 DEF MayStartAgain
  <2> QED  BY <2>1, <2>2, CounterpartFacts
<1>4. ASSUME NEW p \in job.streams[i] PROVE p \in A
  <2>1. p \in Instrs
    BY StreamableFacts
  <2>2. PICK x \in LP!DepsIn(o.list, f[i]) : LP!Detours(f, o.list, p, x)
    BY StreamableFacts
  <2>3. x \in X /\ x \in Positions(o) /\ LP!LeftOut(f, x)
    BY <2>2 DEF MayStartAgain, LP!Detours, LP!Detour, Positions
  <2>4. PICK q \in A : OnTheWay(o, f, q, x)
    BY <2>3, CounterpartFacts
  <2>5. OnTheWay(o, f, p, x)
    BY <2>2 DEF OnTheWay, LP!Detours, LP!Detour, LP!Does, Positions
  <2> QED  BY <2>1, <2>4, <2>5, OneWay
<1>5. ASSUME NEW j \in 1 .. i PROVE Cardinality(Before(j) \ B) < job.depth[job.unit[j]]
  <2>1. j \in Instrs /\ j <= i /\ j \in Nat
    BY <1>1
  <2>2. /\ f[j] \in Positions(o) /\ f[j] \in Nat /\ job.unit[j] = o.list[f[j]].unit
        /\ job.unit[j] \in Unit /\ job.depth = chip.depth /\ chip.depth[job.unit[j]] \in Nat
    BY <2>1, StreamableFacts
  <2>3. f[j] <= f[i]
    <3>1. j = i \/ j < i
      BY <1>1, <2>1
    <3> QED  BY <1>1, <2>1, <3>1, StreamableFacts
  <2>4. f[j] \in 1 .. f[i]
    BY <1>1, <2>2, <2>3 DEF Positions
  <2>5. Cardinality(Earlier(o, f[j]) \ X) < chip.depth[o.list[f[j]].unit]
    BY <2>4 DEF MayStartAgain
  <2>6. /\ Cardinality(Before(j) \ B) <= Cardinality(Earlier(o, f[j]) \ X)
        /\ Cardinality(Before(j) \ B) \in Nat /\ Cardinality(Earlier(o, f[j]) \ X) \in Nat
    BY <2>1, QueuesAreShorter
  <2> HIDE DEF X
  <2> QED  BY <2>2, <2>5, <2>6
<1> QED  BY <1>2, <1>3, <1>4, <1>5 DEF MayStart

(* The times of the run without streams, at the places of the streamed list. *)
TimesOf(o, f) ==
  [start  |-> [i \in Instrs |-> o.start[f[i]]],
   end    |-> [i \in Instrs |-> o.end[f[i]]],
   retire |-> [i \in Instrs |-> o.retire[f[i]]],
   depth  |-> job.depth]

LEMMA StreamedReplays ==
  ASSUME NEW o, NEW f, NEW t, Streamable(o, f, t)
  PROVE  Replayable(TimesOf(o, f).start, TimesOf(o, f).retire, job.depth)
<1> DEFINE S == TimesOf(o, f).start
           R == TimesOf(o, f).retire
<1>1. \A i \in Instrs : /\ S[i] = o.start[f[i]] /\ R[i] = o.retire[f[i]] /\ f[i] \in Positions(o)
                        /\ S[i] # None /\ R[i] # None /\ job.dst[i] = None
  <2>1. \A i \in Instrs : S[i] = o.start[f[i]] /\ R[i] = o.retire[f[i]]
    BY DEF TimesOf
  <2>2. \A i \in Instrs : f[i] \in Positions(o) /\ job.dst[i] = None
    BY StreamableFacts
  <2>3. \A x \in Positions(o) : o.start[x] \in Nat /\ o.retire[x] \in Nat
    BY DEF Streamable, UnfusedRun
  <2> QED  BY <2>1, <2>2, <2>3, NoneAssumption
<1> HIDE DEF S, R
<1>2. ASSUME NEW A \in SUBSET Instrs, NEW B \in SUBSET A
      PROVE  \/ \A k \in Instrs : k \in A /\ k \in B
             \/ \E i \in Instrs \ A : MayStart(i, A, B, job.depth) /\ NoneBefore(S[i], S, R, A, B)
             \/ \E i \in Instrs \ B : MayRetire(i, A, job.depth) /\ NoneBefore(R[i], S, R, A, B)
  <2> DEFINE X == Counterpart(o, f, A, A)
             Y == Counterpart(o, f, A, B)
  <2>1. /\ X \in SUBSET Positions(o) /\ Y \in SUBSET X
        /\ \A k \in Instrs : (f[k] \in X <=> k \in A) /\ (f[k] \in Y <=> k \in B)
        /\ \A x \in X \ Y : \E i \in A \ B : x = f[i]
    BY CounterpartFacts
  <2>2. \A c : MissingFrom(o, c, X, Y) => NoneBefore(c, S, R, A, B)
    BY <1>1, <2>1 DEF MissingFrom, NoneBefore
  <2>3. RunsAgain(o)
    BY DEF Streamable, UnfusedRun
  <2>4. \/ Y = Positions(o)
        \/ \E x \in Positions(o) \ X : MayStartAgain(o, x, Y) /\ MissingFrom(o, o.start[x], X, Y)
        \/ \E x \in X \ Y : MissingFrom(o, o.retire[x], X, Y)
    <3> HIDE DEF X, Y
    <3> QED  BY <2>1, <2>3 DEF RunsAgain
  <2>5. CASE Y = Positions(o)
    BY <1>1, <2>1, <2>5
  <2>6. ASSUME NEW x \in Positions(o) \ X, MayStartAgain(o, x, Y), MissingFrom(o, o.start[x], X, Y)
        PROVE  \E i \in Instrs \ A : MayStart(i, A, B, job.depth) /\ NoneBefore(S[i], S, R, A, B)
    <3>1. LP!DepsIn(o.list, x) \subseteq Y
      BY <2>6 DEF MayStartAgain
    <3>2. PICK i \in Instrs \ A : x = f[i]
      BY <3>1, NothingIsOnTheWay
    <3>3. MayStart(i, A, B, job.depth)
      BY <2>6, <3>2, StreamedStart
    <3>4. NoneBefore(S[i], S, R, A, B)
      BY <1>1, <2>2, <2>6, <3>2
    <3> QED  BY <3>3, <3>4
  <2>7. ASSUME NEW x \in X \ Y, MissingFrom(o, o.retire[x], X, Y)
        PROVE  \E i \in Instrs \ B : MayRetire(i, A, job.depth) /\ NoneBefore(R[i], S, R, A, B)
    <3>1. PICK i \in A \ B : x = f[i]
      BY <2>1
    <3>2. MayRetire(i, A, job.depth)
      BY <1>1 DEF MayRetire
    <3>3. NoneBefore(R[i], S, R, A, B)
      BY <1>1, <2>2, <2>7, <3>1
    <3> QED  BY <3>2, <3>3
  <2> HIDE DEF X, Y
  <2> QED  BY <2>4, <2>5, <2>6, <2>7
<1>3. Replayable(S, R, job.depth)
  BY <1>1, <1>2 DEF Replayable
<1> QED  BY <1>3 DEF S, R

(* So they are times its own run can be compared to.                       *)
LEMMA StreamedCompares ==
  ASSUME NEW o, NEW f, NEW t, Streamable(o, f, t),
         graph.link \in Nat, LinkIsFast
  PROVE  /\ Compared(TimesOf(o, f))
         /\ \A i \in Instrs : /\ TimesOf(o, f).start[i] \in Nat
                              /\ TimesOf(o, f).retire[i] \in Nat /\ TimesOf(o, f).retire[i] <= t
<1> DEFINE r == TimesOf(o, f)
<1>1. /\ r.depth = job.depth
      /\ \A i \in Instrs : /\ r.start[i] = o.start[f[i]] /\ r.end[i] = o.end[f[i]]
                           /\ r.retire[i] = o.retire[f[i]]
  BY DEF TimesOf
<1>2. Replayable(r.start, r.retire, r.depth)
  BY <1>1, StreamedReplays
<1> HIDE DEF r
<1>3. \A x \in Positions(o) :
        /\ o.start[x] \in Nat /\ o.end[x] \in Nat /\ o.retire[x] \in Nat
        /\ o.start[x] + CostOf(o, x) <= o.end[x]
        /\ o.end[x] <= o.retire[x] /\ o.retire[x] <= t
  BY DEF Streamable, UnfusedRun
<1>4. ASSUME NEW i \in Instrs
      PROVE  /\ r.start[i] \in Nat /\ r.end[i] \in Nat /\ r.retire[i] \in Nat
             /\ job.cost[i] # None /\ r.start[i] + job.cost[i] <= r.end[i]
             /\ r.end[i] <= r.retire[i] /\ r.retire[i] <= t
  <2>1. f[i] \in Positions(o) /\ job.cost[i] = CostOf(o, f[i]) /\ job.cost[i] # None
    BY StreamableFacts, NoneAssumption
  <2> QED  BY <1>1, <1>3, <2>1
<1>5. ASSUME NEW i \in Instrs, NEW p \in job.streams[i]
      PROVE  /\ p \in Instrs
             /\ r.end[p] + job.latency[i] <= r.end[i]
             /\ r.start[p] + job.latency[i] <= r.start[i]
  BY <1>1, LinkIsNoSlower
<1>6. \A u \in Unit : r.depth[u] \in Nat /\ r.depth[u] <= job.depth[u]
  BY <1>1, StreamableFacts
<1>7. Compared(r)
  BY <1>2, <1>4, <1>5, <1>6 DEF Compared
<1> QED  BY <1>4, <1>7 DEF r

LEMMA RunsCompare ==
  LoweringInv /\ lpc = "done" /\ IsChip(chip) /\ OrderedJob(job) /\ job = JobOf(instrs)
    /\ (\E o : UnfusedRun(o, baseline))
  => /\ ~Uncomputable
     /\ graph.link \in Nat /\ LinkIsFast =>
          \E r : /\ Compared(r)
                 /\ \A i \in Instrs : /\ r.start[i] \in Nat /\ r.retire[i] \in Nat
                                      /\ r.retire[i] <= baseline
<1> SUFFICES ASSUME LoweringInv, lpc = "done", IsChip(chip), OrderedJob(job), job = JobOf(instrs),
                    NEW o, UnfusedRun(o, baseline)
             PROVE  /\ ~Uncomputable
                    /\ graph.link \in Nat /\ LinkIsFast =>
                         \E r : /\ Compared(r)
                                /\ \A i \in Instrs : /\ r.start[i] \in Nat
                                                     /\ r.retire[i] \in Nat
                                                     /\ r.retire[i] <= baseline
  OBVIOUS
<1>1. PICK f : LP!Embeds(f, o.list)
  <2>1. LP!Inv /\ LP!Laid /\ LP!Unfused(o.list, o.compute)
    BY DEF LoweringInv, UnfusedRun
  <2> QED  BY <2>1, LP!Embedding, SameOperators, GraphsAssumption, NoneAssumption
<1>2. Streamable(o, f, baseline)
  BY <1>1 DEF Streamable
<1>3. ~Uncomputable
  BY <1>2, StreamableFacts, NoneAssumption DEF Uncomputable, Instrs
<1> QED  BY <1>2, <1>3, StreamedCompares

(* What is remembered of the run without the link, as long as its total is:*)
(* the run itself until the graph is simulated again, then that every cost *)
(* is known, and times that this second run is to keep to.                 *)
Measured ==
  /\ Recorded
  /\ job.n # 0 => job = JobOf(instrs)
  /\ baseline # None =>
       /\ baseline \in Nat /\ graph.link \in Nat
       /\ job.n = 0 => \E o : UnfusedRun(o, baseline)
       /\ job.n # 0 => ~Uncomputable
       /\ job.n # 0 /\ LinkIsFast =>
            \E r : Compared(r) /\ InTime(r) /\ \A i \in Instrs : r.retire[i] <= baseline

LEMMA MeasuredInit == PipelineInit => Measured
<1> SUFFICES ASSUME PipelineInit PROVE Measured
  OBVIOUS
<1>1. IsChip(chip) /\ job = JobOf(<< >>) /\ Called /\ baseline = None
  BY ChipsAssumption DEF PipelineInit
<1>2. OrderedJob(job) /\ job.n = 0
  BY <1>1, NoJob
<1>3. Begun
  BY <1>1, <1>2 DEF Begun, OrderedJob
<1> QED  BY <1>1, <1>2, <1>3, RecordedInit DEF Measured

(* Nothing lowered has a destination. *)
LEMMA NoBuffers ==
  ASSUME OrderedJob(job)
  PROVE  OrderedBuffers
BY DEF OrderedJob, OrderedBuffers, Buffers, Instrs

LEMMA SameJobOf ==
  ASSUME UNCHANGED <<graph, chip>>
  PROVE  \A is : JobOf(is)' = JobOf(is)
BY DEF JobOf

LEMMA SameLink ==
  ASSUME UNCHANGED <<graph, chip>>
  PROVE  LinkIsFast' <=> LinkIsFast
BY DEF LinkIsFast, L!Ops, L!Operand, L!Streams, L!Fuses, L!Uses, L!Source, L!Op, L!TensorOf, L!Out

(* The graph's second run does not raise. *)
LEMMA NoFault ==
  ASSUME Composed, Measured, baseline # None, job.n # 0
  PROVE  pc # "raised"
BY DEF Composed, RunInv, Explained, Measured

LEMMA MeasuredRuns ==
  ASSUME Composed, Measured, [Next]_vars, UNCHANGED <<lowerVars, chip, baseline>>
  PROVE  Measured'
<1>1. /\ Inv /\ Typed /\ Placed /\ Recorded /\ OrderedBuffers
      /\ job' = job /\ Instrs' = Instrs
  BY NoBuffers, JobFixed DEF Composed, RunInv, Inv, Measured, Instrs
<1>2. Recorded'
  BY <1>1, RecordedNext
<1>3. graph' = graph /\ instrs' = instrs /\ chip' = chip /\ baseline' = baseline
  BY DEF lowerVars
<1>4. (job.n # 0 => job = JobOf(instrs))'
  BY <1>1, <1>3, SameJobOf DEF Measured
<1>5. ASSUME NEW o, UnfusedRun(o, baseline) PROVE UnfusedRun(o, baseline)'
  <2>1. PICK t : t = baseline
    OBVIOUS
  <2>2. UnfusedRun(o, t)'
    BY <1>3, <1>5, <2>1, UnfusedRunStays
  <2> QED  BY <1>3, <2>1, <2>2
<1>6. ASSUME pc # "raised", NEW r, Compared(r), InTime(r), \A i \in Instrs : r.retire[i] <= baseline
      PROVE  Compared(r)' /\ InTime(r)' /\ \A i \in Instrs' : r.retire[i] <= baseline'
  <2>1. Compared(r)'
    BY <1>1, <1>6, ComparedStays
  <2>2. InTime(r)'
    BY <1>1, <1>6, InTimeNext DEF Recorded
  <2> QED  BY <1>1, <1>3, <1>6, <2>1, <2>2
<1>7. (baseline # None => baseline \in Nat /\ graph.link \in Nat)'
  BY <1>3 DEF Measured
<1>8. (baseline # None /\ job.n = 0 => \E o : UnfusedRun(o, baseline))'
  BY <1>1, <1>3, <1>5 DEF Measured
<1>9. (baseline # None /\ job.n # 0 => ~Uncomputable)'
  BY <1>1, <1>3 DEF Measured, Uncomputable
<1>10. (baseline # None /\ job.n # 0 /\ LinkIsFast =>
          \E r : Compared(r) /\ InTime(r) /\ \A i \in Instrs : r.retire[i] <= baseline)'
  <2>1. LinkIsFast' <=> LinkIsFast
    BY <1>3, SameLink
  <2> QED  BY <1>1, <1>3, <1>6, <2>1, NoFault DEF Measured
<1> QED  BY <1>2, <1>4, <1>7, <1>8, <1>9, <1>10 DEF Measured

(* While lower() runs, simulate() has not been called on its list. *)
LEMMA MeasuredLower ==
  ASSUME Composed, Measured, Lower
  PROVE  Measured'
<1>1. /\ L!Next /\ lpc = "lower" /\ UNCHANGED <<chip, baseline>> /\ UNCHANGED vars
  BY DEF Lower
<1>2. graph' = graph
  BY <1>1 DEF L!Next, L!LowerAdd, L!LowerMatmul, L!Return, L!RaiseValueError, L!RaiseKeyError,
     L!RaiseNotImplemented, L!Raise, L!Finished, L!vars
<1>3. job.n = 0 /\ job' = job
  BY <1>1 DEF Composed, Handed, vars
<1>4. Recorded'
  BY <1>1, RecordedNext DEF Composed, RunInv, Inv, Measured
<1>5. ASSUME baseline # None PROVE (\E o : UnfusedRun(o, baseline))'
  <2>1. PICK t : t = baseline
    OBVIOUS
  <2>2. PICK o : UnfusedRun(o, t)
    BY <1>3, <1>5, <2>1 DEF Measured
  <2>3. UnfusedRun(o, t)'
    BY <1>1, <1>2, <2>2, UnfusedRunStays
  <2> QED  BY <1>1, <2>1, <2>3
<1>6. (baseline # None => baseline \in Nat /\ graph.link \in Nat)'
  BY <1>1, <1>2 DEF Measured
<1> QED  BY <1>1, <1>3, <1>4, <1>5, <1>6 DEF Measured

LEMMA MeasuredSimulate ==
  ASSUME Composed, Measured, Simulate
  PROVE  Measured'
<1>1. /\ OrderedJob(job') /\ job' = JobOf(instrs) /\ job'.n > 0 /\ Called' /\ job.n = 0
      /\ lpc = "done" /\ UNCHANGED <<lowerVars, chip, baseline>>
  BY SimulateCalls DEF Simulate
<1>2. graph' = graph /\ instrs' = instrs /\ chip' = chip /\ baseline' = baseline /\ lpc' = lpc
  BY <1>1 DEF lowerVars
<1>3. Begun'
  BY <1>1 DEF Begun, OrderedJob
<1>4. Recorded'
  BY <1>3, RecordedInit, PTL
<1>5. (job = JobOf(instrs))'
  BY <1>1, <1>2, SameJobOf
<1>6. (baseline # None => baseline \in Nat /\ graph.link \in Nat)'
  BY <1>2 DEF Measured
<1>7. ASSUME baseline # None
      PROVE  (/\ ~Uncomputable
              /\ LinkIsFast =>
                   \E r : Compared(r) /\ InTime(r) /\ \A i \in Instrs : r.retire[i] <= baseline)'
  <2>1. (LoweringInv /\ lpc = "done" /\ IsChip(chip) /\ OrderedJob(job) /\ job = JobOf(instrs))'
    <3>1. LoweringInv' /\ IsChip(chip)'
      BY SimulateComposed DEF Composed
    <3> QED  BY <1>1, <1>2, <1>5, <3>1 DEF OrderedJob
  <2>2. (\E o : UnfusedRun(o, baseline))'
    <3>1. PICK t : t = baseline
      OBVIOUS
    <3>2. PICK o : UnfusedRun(o, t)
      BY <1>1, <1>7, <3>1 DEF Measured
    <3>3. UnfusedRun(o, t)'
      BY <1>2, <3>2, UnfusedRunStays
    <3> QED  BY <1>2, <3>1, <3>3
  <2>3. (graph.link \in Nat)'
    BY <1>2, <1>7 DEF Measured
  <2>4. (/\ ~Uncomputable
         /\ LinkIsFast =>
              \E r : /\ Compared(r)
                     /\ \A i \in Instrs : /\ r.start[i] \in Nat /\ r.retire[i] \in Nat
                                          /\ r.retire[i] <= baseline)'
    BY <2>1, <2>2, <2>3, RunsCompare, PTL
  <2> SUFFICES ASSUME LinkIsFast'
               PROVE  (\E r : /\ Compared(r) /\ InTime(r)
                              /\ \A i \in Instrs : r.retire[i] <= baseline)'
    BY <2>4
  <2>5. PICK r : /\ Compared(r)'
                 /\ \A i \in Instrs' : /\ r.start[i] \in Nat /\ r.retire[i] \in Nat
                                       /\ r.retire[i] <= baseline'
    BY <2>4
  <2>6. now' = 0 /\ \A i \in Instrs' : startTime'[i] = None /\ retireTime'[i] = None
    BY <1>1, <1>3, JobFacts DEF Called, Instrs
  <2>7. InTime(r)'
    BY <2>5, <2>6 DEF InTime, Started, Retired
  <2> QED  BY <2>5, <2>7
<1>8. job'.n # 0
  BY <1>1 DEF OrderedJob, IsJob
<1> QED  BY <1>2, <1>4, <1>5, <1>6, <1>7, <1>8 DEF Measured

(* The total without the link becomes the baseline. *)
LEMMA MeasuredWithLink ==
  ASSUME Composed, Measured, WithLink
  PROVE  Measured'
<1>1. /\ job.n > 0 /\ pc = "done" /\ graph.link = None /\ job' = JobOf(<< >>)
      /\ baseline' = TotalCycles /\ chip' = chip
  BY DEF WithLink
<1>2. job'.n = 0 /\ job.n # 0
  <2>1. job.n \in Nat
    BY DEF Composed, OrderedJob, IsJob
  <2> QED  BY <1>1, <2>1, NoJob DEF Composed
<1>3. Recorded'
  <2>1. OrderedJob(job)' /\ Called'
    BY <1>2, WithLinkComposed DEF Composed
  <2>2. Begun'
    BY <2>1 DEF Begun, OrderedJob
  <2> QED  BY <2>2, RecordedInit, PTL
<1>4. \E o : UnfusedRun(o, TotalCycles)
  BY <1>1, <1>2, FirstRunTold DEF Measured
<1>5. graph'.ops = graph.ops /\ graph'.link \in Nat
  <2>1. PICK l \in Links : graph' = [graph EXCEPT !.link = l]
    BY DEF WithLink
  <2>2. LP!IsGraph(graph)
    BY DEF Composed, LoweringInv, LP!Inv, LP!TypeOK
  <2>3. "link" \in DOMAIN graph /\ "ops" \in DOMAIN graph
    BY <2>2 DEF LP!IsGraph
  <2> QED  BY <2>1, <2>3, LinksAssumption
<1>6. (\E o : UnfusedRun(o, baseline))'
  <2>1. PICK t : t = TotalCycles
    OBVIOUS
  <2>2. PICK o : UnfusedRun(o, t)
    BY <1>4, <2>1
  <2>3. UnfusedRun(o, t)'
    BY <1>1, <1>5, <2>2, UnfusedRunStays
  <2> QED  BY <1>1, <2>1, <2>3
<1>7. baseline' \in Nat
  <2>1. TotalCycles = now
    BY <1>1, ClockIsTotal DEF Composed, RunInv, TotalIsLastRetirement
  <2> QED  BY <1>1, <2>1 DEF Composed, RunInv, Inv, Typed, TypeOK
<1> QED  BY <1>2, <1>3, <1>5, <1>6, <1>7 DEF Measured

LEMMA MeasuredNext == Composed /\ Measured /\ [PipelineNext]_pipelineVars => Measured'
<1> SUFFICES ASSUME Composed, Measured, [PipelineNext]_pipelineVars PROVE Measured'
  OBVIOUS
<1>1. CASE Run \/ PipelineFinished \/ UNCHANGED pipelineVars
  <2>1. [Next]_vars /\ UNCHANGED <<lowerVars, chip, baseline>>
    BY <1>1 DEF Run, PipelineFinished, pipelineVars
  <2> QED  BY <2>1, MeasuredRuns
<1> QED  BY <1>1, MeasuredLower, MeasuredSimulate, MeasuredWithLink DEF PipelineNext

(* Streaming never makes a program slower, whatever the graph, the shapes  *)
(* of its tensors, the time each unit takes for each of them and the       *)
(* queues: a program that ran through without the link runs through with   *)
(* it, and if the link is no slower than the store and the reload of each  *)
(* streamed result, it is over no later.                                   *)
THEOREM FusionIsNeverSlower == PipelineSpec => []FusionNeverSlows
<1>1. Composed /\ Measured => FusionNeverSlows
  <2>0. ASSUME Composed, Measured, baseline # None, job.n > 0 PROVE pc # "raised"
    <3>1. job.n # 0
      BY <2>0 DEF Composed, OrderedJob, IsJob
    <3> QED  BY <2>0, <3>1, NoFault
  <2> SUFFICES ASSUME Composed, Measured, baseline # None, job.n > 0, pc = "done", LinkIsFast
               PROVE  TotalCycles <= baseline
    BY <2>0 DEF FusionNeverSlows
  <2>1. job.n # 0 /\ baseline \in Nat
    BY DEF Measured, Composed, OrderedJob, IsJob
  <2>2. PICK r : Compared(r) /\ InTime(r) /\ \A i \in Instrs : r.retire[i] <= baseline
    BY <2>1 DEF Measured
  <2>3. /\ TotalCycles = now /\ now \in Nat /\ remaining = 0
        /\ now # 0 => \E i \in Instrs : retireTime[i] = now
    BY ClockIsTotal
    DEF Composed, RunInv, Inv, Typed, TypeOK, TotalIsLastRetirement, LastIsNow, DoneIsEmpty
  <2>4. CASE now = 0
    BY <2>1, <2>3, <2>4
  <2>5. CASE now # 0
    <3>1. PICK i \in Instrs : retireTime[i] = now
      BY <2>3, <2>5
    <3>2. now <= r.retire[i]
      BY <3>1, <2>2, RunOver DEF InTime
    <3>3. r.retire[i] \in Nat /\ r.retire[i] <= baseline
      BY <2>2, <3>1 DEF Compared
    <3> QED  BY <2>1, <2>3, <3>2, <3>3
  <2> QED  BY <2>4, <2>5
<1>2. Composed /\ Measured /\ [PipelineNext]_pipelineVars => (Composed /\ Measured)'
  BY ComposedNext, MeasuredNext
<1> QED  BY <1>1, <1>2, ComposedInit, MeasuredInit, PTL DEF PipelineSpec
=============================================================================
