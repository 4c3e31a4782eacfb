----------------------------- MODULE Validation -----------------------------
(***************************************************************************)
(* validate() of arch_sim/arch/validator.py on the chips of module Builder:*)
(* what each check of the report is about, as sets of units or paths.  The *)
(* search for a cycle of streaming links is module StreamCycle; here it is *)
(* what that module shows of its answer.  Messages are left out, and of    *)
(* the port check everything but the count it compares with the ports.     *)
(***************************************************************************)
EXTENDS Builder

(* The paths of all modules. *)
AllPaths(tree) ==
  LET ids == ModuleIds(tree)
  IN  FlattenSeq([k \in DOMAIN ids |-> At(tree, ids[k]).paths])

(* Slip: the names seen in one module are kept for the next. *)
CollisionsAnywhere(tree) ==
  LET units == ToSet(Addresses(tree)) \ {<< >>}
  IN  {id \in units : \E other \in units \ {id} : At(tree, other).name = At(tree, id).name}

(* _check_name_collisions: the children that come after a namesake.        *)
Collisions(tree) ==
  LET IsSecond(u, j) == ChildNamed(u, u.children[j].name) < j
  IN  UNION {{Append(id, j) : j \in {j \in DOMAIN At(tree, id).children : IsSecond(At(tree, id), j)}}
             : id \in ToSet(ModuleIds(tree))}

(* _check_pipe_paths *)
PathErrors(tree) ==
  {p \in ToSet(AllPaths(tree)) :
     \/ {p.src, p.dst, p.engine} \ ToSet(Addresses(tree)) # {}
     \/ /\ p.engine # << >>
        /\ \/ ~Admits(At(tree, p.engine).from, At(tree, p.src))
           \/ ~Admits(At(tree, p.engine).to, At(tree, p.dst))}

(* _check_orphans *)
Orphans(tree) ==
  LET referenced == UNION {{p.src, p.dst} : p \in ToSet(AllPaths(tree))}
  IN  {id \in ToSet(Addresses(tree)) :
         At(tree, id).kind \in {"storage", "compute"} /\ id \notin referenced}

(* _check_stream_paths *)
StreamPaths(tree) == {p \in ToSet(AllPaths(tree)) : p.stream}

StreamWarnings(tree) ==
  {p \in StreamPaths(tree) :
     \/ At(tree, p.src).kind # "compute"
     \/ At(tree, p.dst).kind # "compute"
     \/ p.engine # << >>}

(* The units that streaming links lead to from u, and those on a cycle.    *)
StreamedFrom(tree, u) ==
  LET links == StreamPaths(tree)
      Ahead(units) == {p.dst : p \in {p \in links : p.src \in units}}
  IN  FoldSet(LAMBDA p, reached : reached \cup Ahead(reached), Ahead({u}), links)

CyclicUnits(tree) ==
  {p.src : p \in {p \in StreamPaths(tree) : p.src \in StreamedFrom(tree, p.src)}}

(* Slip: the counts are kept by name, not by unit. *)
PathsAtNamesakes(tree, end, id) ==
  Len(SelectSeq(AllPaths(tree), LAMBDA p : At(tree, p[end]).name = At(tree, id).name))

(* _check_port_oversubscription: src_count and dst_count.                  *)
PathsAt(tree, end, id) == Len(SelectSeq(AllPaths(tree), LAMBDA p : p[end] = id))

(* report.ok *)
Valid(tree) ==
  /\ Collisions(tree) = {}
  /\ PathErrors(tree) = {}
  /\ CyclicUnits(tree) = {}

-----------------------------------------------------------------------------
(***************************************************************************)
(*                              Properties                                 *)
(***************************************************************************)

(* The name check finds exactly the chips in which some unit cannot be had *)
(* by its own dotted name, because find() and the paths of a dict that use *)
(* the name get another one: namesakes in different modules are no error,  *)
(* replicas that got the name of a neighbour are.                          *)
CollisionsAreLostNames ==
  pc = "chip" =>
    (Collisions(chip) # {} <=>
       \E id \in ToSet(Addresses(chip)) : Find(chip, NamesTo(chip, id)) # id)

NamesOf(tree, ids) == {NamesTo(tree, id) : id \in ids}

RenamedAll(units, spec) == {Renamed(u, f) : u \in units, f \in ReplicaChoices(spec)}

(* The paths that replication makes of those of `one` and that have a unit *)
(* of that name at this end.                                               *)
Fanned(one, spec, end, name) ==
  LET Of(id, k) == Link(one, id, At(one, id).paths[k])
      all == {<<id, k>> \in ToSet(Addresses(one)) \X (1 .. Len(AllPaths(one))) :
                k \in DOMAIN At(one, id).paths}
  IN  {l \in {<<w, RenamedLink(Of(w[1], w[2]), f)>> : w \in all, f \in ReplicaChoices(spec)} :
         l[2][end] = name}

(* The verdicts on tree, built from spec with its counts, against those on *)
(* one, built from the same spec with every count 1.                       *)
JudgedAlike(tree, one, spec) ==
  /\ NamesOf(tree, Orphans(tree)) = RenamedAll(NamesOf(one, Orphans(one)), spec)
  /\ NamesOf(tree, CyclicUnits(tree)) = RenamedAll(NamesOf(one, CyclicUnits(one)), spec)
  /\ StreamWarnings(tree) = {} <=> StreamWarnings(one) = {}
  /\ \A id \in ToSet(Addresses(tree)), end \in {"src", "dst"} :
       PathsAt(tree, end, id) = Cardinality(Fanned(one, spec, end, NamesTo(tree, id)))
  /\ Valid(tree) <=> CyclicUnits(one) = {}

(* Replicas are judged like the module they replicate: the warnings of the *)
(* orphan check and the cycles of streaming links of a chip with counts    *)
(* are those of the chip with counts 1, once for every replica, and the    *)
(* port check finds at a unit the paths the replication gave to that unit, *)
(* not those of its namesakes in other replicas.                           *)
VerdictReplicates ==
  pc = "chip" /\ Replicable(dict) /\ OneCounted(dict) /\ Buildable(Single(dict)) =>
    JudgedAlike(chip, Build(Single(dict)), dict)
=============================================================================
