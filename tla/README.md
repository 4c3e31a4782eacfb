# Archaludon in TLA+

A formal model of the NPU cycle simulator `arch_sim` (`src/src/arch_sim`): what the
functions that have state or an algorithm do, properties of them that TLC checks on
families of small inputs, and theorems that TLAPS proves for inputs of every size.
The code is sequential Python without threads, I/O loops or persistence; what is hard in
it is the *simulated* concurrency (units, dispatchers, buffers, streams), the fixpoint
and clock loops that produce it, and the tree and graph algorithms around it.

## 1. Inventory

| Component (source) | State | Operations | Talks to |
|---|---|---|---|
| Simulator engine (`sim/engine.py`, `sim/instruction.py`) | times of each instruction (they outlive the call); dispatcher index; in-flight queue and `free_at` of each unit; `occ` slots of each destination; `now`, `remaining` | `simulate` (retire, start, issue sweeps; advance; deadlock report), `total_cycles`; `Sim` forwards to them | reads `queue_depth`, `parent` of units, calls `cost()` |
| Cost model (`cost/cost.py`) | none | `Op` (tile padding), `Move` | called by the engine when an instruction starts; may raise |
| Lowering (`frontend/linalg_lowering.py`) | `instrs`, `store_of`, `compute_of`, fusion targets | `lower` with `src_dep`, `_fusion_targets`, `_check_fits` | reads a graph and a chip, makes the engine's input |
| MLIR parser (`frontend/mlir_parser.py`) | `produced`, the graph | `parse` | IREE bindings (external); makes lowering's input |
| IR (`ir/graph.py`, `ir/ops.py`) | list of ops with sources | `Graph.add` | between the two |
| Primitives (`arch/base.py`, `pipe.py`, `storage.py`, `compute.py`, `control.py`) | the Module tree and its paths | `add_*`, `connect`, `walk`, `find`, `Pipe.validate`, `can_serve` | used by everything |
| Builder (`arch/builder.py`) | the dict being expanded, the tree being built | `build`, `expand_counts`, path resolution | dict → tree |
| Loader (`arch/loader.py`) | none | `load`, `loads`, `dump` | tree ↔ dict ↔ YAML (external) |
| Validator (`arch/validator.py`) | a report; colours and path of the stream search | `validate`, `_find_stream_cycle` | reads a tree |
| Example scripts (`examples/run_*.py`) | none | hand-made instruction lists, `queue_depth`s set by hand, repeated runs | chip files and the engine |
| Visualizer (`arch/visualize.py`) | none | Graphviz text | reads a tree |
| Stubs (`sim/queue.py`, `sim/report.py`, `scheduler/`, `report/`, `cli.py`, …) | none | none | – |

What makes each correct, and what is hard to test there (every hazard with its line is in
`PROJECT.json`):

* **Engine.** Instructions compete for queue places, units and buffer slots; the simulator
  must schedule them as the machine its header describes (in-order issue with head-of-line
  stalls, in-order units, blocking after service, streaming overlap), must not let its
  clock jump over a possible event, and must report a deadlock exactly when there is one.
  Hard: three loops that enable each other at one instant, slots freed by other units,
  streams that start on one event and end on another, an exception out of `cost()`, and
  instructions that come from an earlier call with times in them.
* **Lowering and parser.** The instruction list must carry exactly the data dependences of
  the program, in an order the dispatchers cannot wedge on. Hard: fusion removes a store
  that other ops may look for; outs operands; ops out of order.
* **Builder and loader.** Names are resolved in a context; a count rewrites names in some
  contexts only; a dump writes names for another context than the one they came from.
* **Validator.** The depth-first search must report a real cycle and miss none; the other
  checks must judge a replicated module as they judge the module it replicates.
* **Cost model and scripts.** Padding must be tight at every boundary; the totals and
  schedules written down for the examples must be those of the simulator.

## 2. Plan

Abstract machines and compositions come right after their parts. All of it is done.

| Module | What |
|---|---|
| `Program` → `Engine` | one call of `simulate` |
| `BAS` | abstract blocking-after-service machine, refined by `Engine` |
| `EngineProofs`, `TimingProofs` | eleven theorems about `Engine`, the refinement included |
| `Session`, `SessionProofs` | two calls of `simulate`, on the same, on other or on as many new instructions; three theorems |
| `Lowering`, `LoweringProofs` | `lower`; five theorems |
| `Frontend`, `FrontendProofs` | `parse` in front of `Lowering`; three theorems |
| `Pipeline`, `PipelineProofs` | `Lowering` feeding `Engine`, without and with a stream link; four theorems |
| `Cost` | tile padding, rank errors; one theorem |
| `Scripts` | the hand-made lists of `examples/` on `Cost` and `Pipeline` |
| `StreamCycle`, `StreamCycleProofs` | the validator's search; three theorems |
| `Builder` | `build`, `dump` |
| `Validation` | the other checks of `validate` over `Builder`'s trees |

The `MC*` modules hold the families of inputs, each `.cfg` is one run.

## 3. The models

Instructions, ops and text operations are known by their position in their list, 0
standing for "outside"; `None` is Python's. Times are integers. Ops
carry their tensors as far as the cost of an instruction: a chip says what each unit takes
for each tensor, or `None` where `cost()` raises; otherwise the code only asks of a tensor
whether it fits a buffer. Operators whose comment begins
with *Slip* are not part of a model: each is a definition with a plausible bug in it, kept
next to the right one to show that the properties notice.

**`Program`** is what `simulate` is given: for each instruction its unit, `deps` (a
sequence, since duplicates matter), `stream_deps`, link latency, cost (`None`: `cost()`
raises) and destination; for each unit its `queue_depth` and parent. `job` is a variable
that a call never changes, so that one run sweeps a whole family of programs.

**`Engine`** (`engine.py` 33–198) has one action per iteration of each loop:

| Action | Code |
|---|---|
| `RetireHead`, `RetireSkips` | 82–97: the head of a unit's queue retires, or not |
| `StartHead`, `StartFaults`, `StartSkips` | 101–127: it starts and frees its inputs' slots; `cost()` raises at 120 after `start_time` was set; or it does not start |
| `IssueNext`, `DispatcherStops` | 130–137: a dispatcher issues, or stops at a full queue |
| `AdvanceClock`, `RaiseDeadlock` | 139–186: next event, or `RuntimeError` |

`Turn` makes the loops visit units and dispatchers in first-seen order, `Leave` hands
control to the next loop, `AfterSweep` decides whether to sweep again. The variables are
the code's; `waiting` is what lies at or after `prog_idx`.

**`BAS`** is the header of `engine.py` read as a machine without time: `Issue`, `Start`,
`Retire` in any order the rules allow. Its buffers hold *live results* (retired, with a
reader that has not started), not counters.

**`Session`** makes a second call after the first has ended. Its queues, clock and slot
counters are fresh; the times in the instructions are what the first call left there.
`CallAgain` passes the same instructions (`Sim.run` twice, also after an exception),
`CallWider` new ones for the same program on a chip with a `queue_depth` raised
(`run_issue_depth.py`), `CallNext` another list that depends on an instruction of the
first. `TypeErrorRaised` is the one thing such a call can do that a first one cannot:
compare a time with the missing end of an instruction whose `cost()` had raised.

**`Lowering`** lowers one op per action (`LowerAdd`, `LowerMatmul`), with the exceptions
as outcomes (`RaiseValueError`, `RaiseKeyError`, `RaiseNotImplemented`). **`Frontend`**
puts `ParseOp`, `SkipOp`, `ParseFails` before it, or starts from a graph built by hand
(`GraphInit`). **`Pipeline`** runs lowering to its end (`Lower`), turns the list into a job
for a chip (`Simulate`, `JobOf`) and runs the engine (`Run`); `WithLink` then lowers and
runs the same graph on the chip with a Cube→Vector link, as
`tests/frontend/test_streaming_fusion.py` does, and keeps the first total as `baseline`.
An instruction costs what its unit takes for its own tensor (`IsChip`, `JobOf`): a matmul's
two loads differ, and the cost of an instruction may be missing, because `lower` checks
capacities and never the rank that a tile asks for.

**`Cost`** has `Op` (`Padded`, `Work`) and `Move` as operators over shapes; `CostOf` is
`Raises` where the code throws. The code divides into a float; the quotient is rounded
down, and an assumption of `Scripts` (`WholeCycles`) checks that nothing is lost on any
instruction that is run. **`Scripts`** states each list of `examples/` once, with the
schedule and total that `docs/examples.md` or the script's header gives, on the units of
`specs/npu.yaml` and `npu-2core.yaml`; `ScriptInit` starts `Pipeline` from such a list
instead of a graph. `ChipOf` is a spec's chip (each unit's cost of each tensor, by `Cost`),
`AddOp` and `MatmulOp` make ops over tensors, and `LoweredTests` are the graphs whose totals
`tests/frontend/test_streaming_fusion.py` pins.

**`StreamCycle`** models the recursive `dfs` with an explicit stack: `StartAt`, `Descend`,
`PassBy`, `CloseCycle`, `Backtrack`, `GiveUp`. The order of a unit's links and of the
units depends on the chip file, so it is left open.

**`Builder`** models whole calls: `LoadChip`/`LoadFails` (`build` after `yaml.safe_load`)
and `DumpChip`. A dict is a tree of records; a built chip the same tree whose paths hold
addresses (index paths) where the dict had names. `ExpandCounts`, `Find`, `Resolve`,
`Connections`, `Dump` are the functions of the code. `build` raises different exceptions;
all end the call and leave no chip, so one outcome `failed` stands for them. Not kept:
scalar attributes except a path's `stream`, path names, zero padding (counts are below ten).

**`Validation`** states what each check of `validate` is about, as a set of units or paths
of such a chip: `Collisions`, `PathErrors`, `Orphans`, `StreamWarnings`, `CyclicUnits` (what
`StreamCycle` shows of the search's answer), `PathsAt` (the counts the port check compares);
`Valid` is `report.ok`.

## 4. The runs

| Run | Inputs | Shows |
|---|---|---|
| `engine` | some 37 000 programs: 4 instructions whose results are read at most once, through a buffer and queues of 1–2 slots, 1 or 2 dispatchers; 3 instructions with every mix of dependences and streams, latencies 0–3 and costs 0/2 around each other, queues of 1 or 3; 4 instructions with results read many times; 3 with cyclic, missing and self inputs, queues without a slot, a cost that raises | every instruction is in one place and counted (`Accounted`); the slot counter is the number of live results and fits (`BufferWithinCapacity`); units run in program order (`ProgramOrder`); times follow the data (`DataflowTiming`) and are as early as possible (`EagerTiming`, `NoMissedWakeup`); deadlocks are real and never hit an ordered program (`DeadlockIsReal`, `WellOrderedNeverDeadlocks`); the returned total (`TotalIsLastRetirement`); refinement of `BAS` (`ImplementsBAS`) |
| `session` | first calls on the programs above with queues and buffer of one slot, and the cyclic and raising ones; then again, wider or next | a reused list never returns a total (`ReuseFailsLoudly`) and spoils none (`ResultsKept`); one more slot delays nothing, where no two units share a tight buffer (`WideningHelps`); every call ends (`CallsEnd`) |
| `frontend` | all texts of 3 operations, supported or not; all graphs of 2 ops, binary ones of 3, oversized, unimplemented, reading themselves or later ones; with and without a link | `ParsedGraphsLower`, `InputsArrive`, `ProducersFirst`, `ResolvesAll`, `DataflowKept`, `StoredOrStreamed` |
| `pipeline` | graphs of up to 3 ops with results of 16 or 64 rows, on npu.yaml, with slower loads, a slower Cube, and the Cube's tile for the Vector (whose adds then raise in `cost()`), queues of 1 or 2, links of latency 0, 96 and 384; the examples, the matmul also with `K` of 1, 15, 16, 17, 33 | `LoweredIsWellOrdered`, `TimelineFollowsGraph`; every instruction retires, or the call ends in `cost()` (`LoweredProgramsFinish`); streaming adds no error and, over a link that is no slower than each store and reload, never loses against the round trip (`FusionNeverSlows`); totals of documents and tests (`DocumentedTotals`), `PaddingIsTight` |
| `stream_cycle` | all links of 3 units, up to 5 links of 4 | `ReportedCycleIsReal`, `AcceptedIsAcyclic`, `Termination` |
| `builder` | 5404 dicts: one or two counted modules, counted modules in counted modules, streaming links, repeated names, refused kinds, dangling names | `RoundTrips`, `CountsReplicate`; name collisions are exactly lost names (`CollisionsAreLostNames`); replicas are judged alike (`VerdictReplicates`) |

`engine`, `frontend`, `stream_cycle` and `builder` check their module's type invariant
too. Runs that must end in a counterexample are in section 6.

**Bounds and why they are enough.** Two units are the least that give competition for a
buffer, cross-unit dependences and head-of-line blocking; with four instructions each unit
can have one instruction running, one queued and one still waiting, and a buffer of one
slot has a holder, a blocked producer and a reader. Depths 1 and 2 separate "full" from "a
place left". Latencies lie below, at and above the costs, so that a stream's end is decided
once by the producer and once by the consumer. Three ops are a fused pair and a third that
may read either; the two sizes make the loads of one matmul differ and give results of
different size to the ops of one graph; on npu.yaml the links of `pipeline` are as slow as
the store and reload of the small result and of the large one, or cost nothing. Four units allow a cycle that is entered
through a tail. In `builder`, a count of 2 next to one of 3 tells "the wrong module's
count" apart, and every reference a path can make is tried in each of its three places.
Two calls are all a session needs: the second finds whatever state a call can leave behind.
No variable needs a cut-off: every input is finite and every call ends.

**Fairness.** `simulate`, `lower` and `dfs` are loops of a single thread that nothing
suspends: as long as the function has not returned, its next iteration happens. That is
weak fairness of the steps of a call and is the only fairness used (`FairSession`,
`PipelineFairness`, `FairSpec`). Making a second call, with a link or with used
instructions, is a script's choice and never fair. The other runs use none.

## 5. The proofs

All for every value of the constants: lists of any length, any number of units, any
dependences. Assumptions: `None` is not a number or a unit (`NoneAssumption`,
`NoneIsNoNumber`), and the inputs are well typed (`JobsAssumption`, `GraphsAssumption`,
`ChipsAssumption`, `LinksAssumption`; `UnitsAssumption` and `CoreAssumption` name the units
lowering uses).

**`EngineProofs`** (`Spec => []…`): `TypeCorrect`, `InstructionsAccountedFor`,
`UnitsRunInProgramOrder`, `NoWakeupIsLost`, `ReportedDeadlocksAreReal`,
`OrderedProgramsNeverDeadlock`. The inductive invariant `Inv` is built in layers, each
proved on top of the earlier ones:

* `Typed` – `TypeOK`, and every started instruction has an end unless `cost()` raised;
* `Placed` – `SomewhereOnce`, `QueuesInOrder`, `IssuedInOrder`: neither of the first two is
  inductive without knowing that what is issued comes before what is waiting;
* `Counted` – `remaining` is the number of unretired instructions;
* `Settled` – what the loops that already ran in a sweep without `progress` have
  established: no unit can retire, no unit can start, each dispatcher is done or stalled.
  It holds per loop and per unit already visited, and is what makes `AdvanceClock` and
  `RaiseDeadlock` safe: at that point nothing can happen *now*, so an event is only lost if
  the list of future events misses it.

`OrderedProgramsNeverDeadlock` takes `DeadlockIsReal` and `OccBounded` (a counter never
exceeds the results that landed, so a buffer with room for all never blocks) and follows
the smallest instruction that has not retired: nothing it waits for can be missing.

**`TimingProofs`** proves what the timestamps mean.

* `TimesFollowDataflow`: `Flowing` adds to the property what a start has to know of its
  inputs' *planned* ends (an end is fixed at the start, before the producer has drained).
* `TotalIsTheClock`: `LastIsNow` – once nothing remains, something retired at the present
  instant, so the clock did not move after the last retirement.
* `SweepsAddNoDelay`: the converse of the guards. `OnTime` says that a head whose inputs
  are known has one bound (its unit, an input, a stream) that is not yet past, and
  `NoneOverdue` that no running head's end is past. Both survive the clock's jump only
  because the jump goes to the next event, hence the use of `Settled` and of the events'
  definition.

It also proves `BuffersHoldTheirResults` and `SimulatorImplementsBAS`, for
programs in which no result is read twice. `Buffered` says that the counter of a buffer is
the number of its live results; a retirement makes exactly one result live
(`RetiredBecomesLive`), and a start ends the life of exactly the results it reads, as many
as the slots it gives back (`StartFreesItsInputs`), which fails as soon as a second reader
exists. The refinement then maps `RetireHead` to `Retire`, `StartHead` and `StartFaults` to
`Start`, `IssueNext` to `Issue`, and everything else to a stutter.

Its last part serves the two theorems that compare two runs (`WiderIsNeverLater`,
`FusionIsNeverSlower`). Comparing two runs step by step does not work: with one more slot,
or with fewer instructions, the two may take the events of a cycle in different orders. So
the first run leaves a certificate that mentions no order. `Replayable` says that whatever
part of its starts and retirements is given (any two sets), the earliest missing ones
include one that is possible with just that part. A step extends it because what an event
needs (`MayStart`, `MayRetire`) only becomes easier when the two sets or the depths grow.
`MayStart` and `MayRetire` speak of the two sets alone, which takes three more invariants of
the run: `SlotsExact` (a slot counter is what landed minus what the started readers gave
back), `Admitted` (who is in a queue was behind fewer than `queue_depth` unretired ones) and
`Paid` (an end is at least the cost after the start). The second run is given the certificate
as `Compared`. There `InTime` says that what has happened was not late, and what has not is
not late yet. The clock is the only step that could break it, and `NoneIsLate` shows that it
does not: when a sweep changes nothing, everything that the certificate has before the next
wake is done, since otherwise the earliest missing event would be possible now (its unit's
head, its queue's place and its buffer's slot are there), which `Settled` and
`NoWakeupIsLost` exclude.

**`SessionProofs`** follows a second call over the times of the first
(`SecondRunNeverReturns`, `FirstResultsStay`). Most of `Engine`'s invariants are false there
(what is waiting has started, `remaining` counts retired instructions), so `SessionInv`
keeps its own:

* `Kinds` – the types, without what ties the times to the clock or the stages;
* `Leftover` – the second call counts `remaining` down from the whole list, but what the
  first one retired it cannot retire (`CanRetire` looks at `retire_time`), so `remaining`
  exceeds the number of unretired instructions by `Kept`, what the first call retired;
* `Hopeless` – why the count never reaches 0: `Kept` is not empty; or an instruction has no
  end, which can never retire; or nothing has retired and `Wedged` holds: the set `D` of
  instructions behind full queues and the blocked first instruction of each unit, which is
  what the deadlock of the first call leaves, can be left by no step of the second;
* `Untouched` (before anything has retired the queues hold all that was issued and no buffer
  was written), `FirstRun` (the engine's `Inv`, and that a raised call left an instruction
  without an end) establish these when the second call is made;
* `EndsMet` – a sweep that changed nothing has met no head without an end, so the clock
  never compares with a missing time, which would be a `TypeError` the model has elsewhere.

`WiderIsNeverLater` compares two calls on two chips, with the certificate of `TimingProofs`:
`WideningBegins` hands the times of the first call to the second as they are, since what was
possible with fewer slots is possible with more, and `Widened` keeps `Compared` and `InTime`.
For the reason that nothing is late there is no deadlock either: something of the first call
is missing as long as anything remains.

**`LoweringProofs`**: `LoweringTypeCorrect`, `LoweredProgramsAreOrdered`,
`GraphsInOrderLower`, `EveryResultIsStoredOrStreamed`, `LoweringKeepsTheDataflow`. The
invariant adds to the first three properties `Recorded` (what `store_of` and `compute_of`
hold lies in the list) and `Behind` (every op before the current one has a computation, and
a store unless it is fused); `KeyError` is impossible because the only reader of a fused op
is the op it is fused into. `Unlinked` (nothing is streamed without a link) serves the
composition. The two dataflow theorems need to know what the list *is*: `Laid` says, for
each op that is done, at which place its computation lies, which loads stand before it,
what they depend on, and where its store is; each of `LowerAdd` and `LowerMatmul` extends
it. `DataflowKept` compares two recursive functions, the list's `Upstream` and the graph's
`Ancestors`. Their values need no induction principle: each is shown to be the least set
that is closed under the inputs, a missing or an extra member having a smallest one (the
natural numbers are well founded, which is a theorem without operator parameters).

`Embedding` compares the two lists of one graph. Without the link `lower` makes a list of
known shape (`Unfused`: two or four instructions, the computation and its store for each
op); with it the list is part of that one (`Embeds`): a strictly increasing map that keeps
units, tensors and the instructions waited for. What it leaves out are exactly the store of
each streamed result and its reload, of that operand's tensors on FixPipe and MTE2, and each
consumer of a stream waits in the longer list for that store and reload (`Detour`,
`Detours`).

**`FrontendProofs`**: `FrontendKeepsLowering` takes all of the above over to parsed graphs,
`ParsedGraphsAreInOrder`, and `TextsBecomeTheirDataflow`, from the operands of the text
through the graph to the order of the instructions. `FrontInv` adds `Read` to lowering's
invariants: the operations read so far and the ops of the graph correspond one for one and in
order (`produced` is the op of an operation, and nothing for a skipped one), each with the
sources its operands stand for. `Unread` says that `lower` has not begun while the parser is
at work; afterwards `Read` is kept because `lower` does not touch the graph.

**`PipelineProofs`** puts the two halves together. `Composed` holds lowering's invariant,
the engine's, and that the job is one that `lower` made: `OrderedJob` is what `ProducersFirst`
becomes in the hands of `simulate`. From it `LoweredProgramsAreWellOrdered`;
`TimelinesFollowTheGraph`, from `Laid` and the engine's `Flowing`, both kept by the
composition; and, with the argument of `OrderedProgramsNeverDeadlock`,
`LoweredProgramsNeverDeadlock`: no graph, chip or link makes the simulation of a lowered
list deadlock, and it raises only if some instruction's `cost()` does, by `Explained` (a call
that raised met an instruction without a cost). The engine's invariants are established by the call (`Begun`), not by the
initial state, so that a call in the middle of a behaviour establishes them too.

`FusionIsNeverSlower` compares the run of a graph on a chip with the link to the run of the
same graph without. The two lists differ, so three things bring them together. The first run
leaves a description of itself (`UnfusedRun`: its list, its times, and that they can be
replayed), which outlives the instructions that `lower` throws away. `Embedding` finds the
streamed list in it. And the times of the shorter list are those of the longer one with the
stores and reloads left out: to ask the replay about a part of the streamed program
(`Counterpart`), a left-out instruction counts as done as soon as its producer has started,
whenever it was really done (`Passed`). This stays a replay (`StreamedReplays`) because a
queue has only fewer instructions in front of the same one (`QueuesAreShorter`), and because
a consumer that waited for a store and a reload waits long enough for the link
(`LinkIsNoSlower`): that is where the bound on the latency is needed, in the costs of the
very tensors that are stored and reloaded (`LinkIsFast`). Nor can the streamed run raise where
the other returned: it asks for no cost that the longer list did not have (`Measured`).
`Measured` carries all this along a behaviour of `Pipeline` and ends in `Compared` and
`InTime`, as in `SessionProofs`. Nothing lowered is written to a buffer, so no assumption on buffers is left.

**`Cost`**: `TilesCoverOperands`, that padding gives the least whole number of tiles that
covers a dimension, from Euclidean division.

**`StreamCycleProofs`**: `SearchTypeCorrect`, `SearchIsSound`, `SearchIsComplete`. `IInv`
says that the stack is a path of links whose units are exactly the grey ones, that links a
unit was already asked about lead to coloured units, that black units only lead to black
ones (`Closed`), and that there is no cycle among black units; the last is what a cycle
that was missed would contradict.

**Only model-checked:** liveness (`CallsEnd`, `LoweredProgramsFinish`, `Termination`: out of
the prover's reach); the documented numbers (`DocumentedTotals`, and `PaddingIsTight` on the
simulated timeline), which are facts about single programs; all of `Builder` and `Validation`
(they walk trees with `RECURSIVE` operators, which the prover cannot handle).

## 6. Disagreements between the code and what is written about it

Each is a run that finds a counterexample to what a document or comment says.

* `engine_fan_out` (`LiveResultsFit`): `engine.py` 124–126 gives a slot back at every start
  that names the producer. A result with two readers frees its slot twice, the counter
  falls below the number of live results, and a buffer holds more than `queue_depth`
  results. `BufferWithinCapacity` shows that the accounting is exact when each result is
  read at most once.
* `session_next` (`OnlyTimeNeverDeadlocks`): the comment at `engine.py` 156–157 promises a
  wake for every head that is blocked only on time, "deps retired" included. The code
  (158–165) never looks at `retire_time`. Within one call no dep retires in the future; a
  list that depends on an instruction of an earlier call meets one that does, since its own
  clock starts at 0, and gets `RuntimeError(deadlock)`.
* `frontend_outs` (`FusedFeedsOneOp`): an operation that accumulates into a matmul's result
  (its outs) is not counted as a reader, so the matmul is fused away under it.
* `example_schedules` (`DocumentedSchedules`): `docs/examples.md` 73 (and the drawing in
  `docs/simulator.md` 90–91) let the Vector unit of `run_parallel_add` run 128..136 next to
  the third load; the in-order dispatcher stops at that load's full queue and issues the add
  only at 192. All documented totals are right (`DocumentedTotals`).
* `builder_counts` (`CountsNeverBreak`): a path that reaches into two counted modules is
  replicated for the first one only, and `build` then fails on the other's bare name.
  `CountsReplicate` shows that everything else replicates as documented.
* `builder_by_hand` (`RoundTrips`): a chip made with the fluent API whose inner module has a
  unit with the name of a unit of the root, and a path from the latter (root GM → Core), is
  read back with a path from the former (Core.GM); a path to the root's unit likewise.
  For chips that came from a dict the round trip is exact (run `builder`). A path whose end is the root itself cannot be read back either.

Also seen: `docs/architecture-model.md` 44–46 and `docs/chip-specs.md` 71–73 still say that
the default `Sim` ignores `queue_depth` (and link to a separate backpressure engine), but
`Sim` now calls `simulate`, which enforces it (`engine.py` 90–92 and 133); the start
formula of the repository's README (line 60) leaves the dispatcher out, behind whose first full queue an instruction for an idle unit waits too; `free_at` is
never ahead of `now` (`TypeOK` of `Engine`, proved), so the tests of it in `engine.py` 106
and 158 never fire; where two units write into one tight buffer, one more slot can make
a program slower or deadlock it, because the wrong unit's result comes first. That is true
of a deeper issue queue, and also of a deeper *buffer*: with buffers `a` and `b` of one slot,
written by two units each, a result kept out of `a` can keep another from filling `b`, and
once `a` has two slots `b` is taken by results whose readers wait for the one it keeps out.
`WideningHelps` is therefore about `OrderedBuffers`: one writing unit, or room for all.

## 7. Not modelled, and why

* The visualizer is one pass over a tree that formats Graphviz text: it has no state, no
  other part depends on it, and what could be wrong in it is wording and layout (that it
  draws nodes for the units a path names needs no model).
* The stubs have no behaviour. Storage, compute and control units are attribute records
  (their depths, capacities and rates are inputs of the models); `can_serve` has no caller.
* Floats are integers: the clock is only compared with values it was set from, and the
  costs of every instruction that is run are whole numbers (`WholeCycles`).
* `fifo_depth` is reserved by the code (`pipe.py` 35) and read by nobody.
* A matmul over operands of fewer than two dimensions (`IndexError` at
  `linalg_lowering.py` 116–117), which no `linalg.matmul` has.
* Recursion limits, memory, the IREE bindings and the YAML library are outside the models.
* Of the primitives, `find` with an empty part and fluent calls after a dump are not
  enumerated; of the validator, the messages and the numbers of ports.
