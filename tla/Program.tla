------------------------------ MODULE Program ------------------------------
(***************************************************************************)
(* The input of arch_sim/sim/engine.py's simulate(): a list of Instruction *)
(* objects (arch_sim/sim/instruction.py) on the units of a chip, as far as *)
(* the simulator looks at it.  It is a variable, chosen at the start and   *)
(* never changed, so that one run of TLC sweeps a whole family of programs.*)
(*                                                                         *)
(* An instruction is known by its position in the list; Outside is one     *)
(* that another instruction depends on but that is not in the list.        *)
(***************************************************************************)
EXTENDS Integers, Sequences, FiniteSets

CONSTANTS
  Unit,   \* the BaseUnit objects: pipes, compute units, destination buffers
  Core,   \* the modules that own units (unit.parent); each has a dispatcher
  None,   \* Python's None
  Jobs    \* the inputs simulate() may be called with

Outside == 0

(***************************************************************************)
(* cost[i] = None when Instruction.cost() raises (bandwidth 0.0, an operand*)
(* of the wrong rank).  deps is a list, in which a dependence may be       *)
(* repeated; stream_deps is only ever quantified over, so it is a set.     *)
(* Cycles are natural numbers: the code's floats are only added, compared. *)
(***************************************************************************)
IsJob(j) ==
  j \in [n       : Nat,
         unit    : [1 .. j.n -> Unit],
         deps    : [1 .. j.n -> Seq(0 .. j.n)],
         streams : [1 .. j.n -> SUBSET (0 .. j.n)],
         latency : [1 .. j.n -> Nat],
         cost    : [1 .. j.n -> Nat \cup {None}],
         dst     : [1 .. j.n -> Unit \cup {None}],
         depth   : [Unit -> Nat],
         parent  : [Unit -> Core]]

ASSUME NoneAssumption == None \notin Nat /\ None \notin Unit
ASSUME JobsAssumption == \A j \in Jobs : IsJob(j)

VARIABLE job

Instrs    == 1 .. job.n
Units     == {job.unit[i] : i \in Instrs}
CoreOf    == [i \in Instrs |-> job.parent[job.unit[i]]]
Cores     == {CoreOf[i] : i \in Instrs}
DepsOf(i) == {job.deps[i][k] : k \in DOMAIN job.deps[i]}

(* The instructions that read the result of i from the buffer it lands in. *)
Readers(i) == {r \in Instrs : i \in DepsOf(r)}

(* Every buffered result is read by one instruction, which names it once.  *)
SingleReader ==
  \A i, r, s \in Instrs : job.dst[i] # None =>
    \A k \in DOMAIN job.deps[r], m \in DOMAIN job.deps[s] :
      job.deps[r][k] = i /\ job.deps[s][m] = i => r = s /\ k = m

(* The list names producers before their consumers, each queue holds at    *)
(* least one instruction, and each buffer all the results it is ever sent. *)
WellOrdered ==
  /\ \A i \in Instrs : DepsOf(i) \cup job.streams[i] \subseteq 1 .. i - 1
  /\ \A u \in Units : job.depth[u] > 0
  /\ \A i \in Instrs : job.dst[i] # None =>
       Cardinality({k \in Instrs : job.dst[k] = job.dst[i]}) <= job.depth[job.dst[i]]

(* The results of each buffer come from one unit, or all have a slot.      *)
Buffers == {job.dst[i] : i \in Instrs} \ {None}

Results(b) == {i \in Instrs : job.dst[i] = b}

OneWriter(b) == \A i, k \in Results(b) : job.unit[i] = job.unit[k]

OrderedBuffers == \A b \in Buffers : OneWriter(b) \/ Cardinality(Results(b)) <= job.depth[b]

(* Every queue holds all the instructions its unit is ever issued. *)
RoomyQueues ==
  \A u \in Units : Cardinality({i \in Instrs : job.unit[i] = u}) <= job.depth[u]
=============================================================================
