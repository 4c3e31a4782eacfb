------------------------------ MODULE Builder ------------------------------
(***************************************************************************)
(* The chip descriptions of arch_sim/arch: build() turns a nested dict     *)
(* into a Module tree (builder.py), expanding `count: N` modules, and      *)
(* dump() turns a tree back into a dict (loader.py).                       *)
(*                                                                         *)
(* A unit of a dict is a record with its kind, name, count, children and   *)
(* paths; a pipe also says what it may carry.  A dotted name is a sequence *)
(* of names.  In a Module tree a unit is known by its address, the indices *)
(* that lead to it from the root, and a path holds addresses where that of *)
(* a dict holds dotted names; << >> stands for a path without an engine.   *)
(* A path also says whether it is a streaming link; the other scalar       *)
(* attributes (capacity, bandwidth, ...) and YAML text are left out.       *)
(***************************************************************************)
EXTENDS Integers, Sequences, FiniteSets, SequencesExt, TLC

CONSTANTS
  None,    \* "no such unit"; no chip built yet
  Dicts,   \* the dicts build() may be called with
  Chips    \* trees made with the fluent API (add_module, connect, ...)

VARIABLES
  pc,     \* "dict": about to load; "chip": loaded; "failed": build() raised
  dict,   \* what load() reads and dump() writes
  chip    \* the Module tree

vars == <<pc, dict, chip>>

UnitKinds == {"module", "storage", "compute", "control", "pipe"}

(* What a path refers to. *)
Ends == {"src", "dst", "engine"}

-----------------------------------------------------------------------------
(* Trees. *)

At(tree, id) == FoldLeft(LAMBDA u, i : u.children[i], tree, id)

(* The first child of that name, 0 if there is none. *)
ChildNamed(u, name) == SelectInSeq(u.children, LAMBDA c : c.name = name)

(* Module.find: each part names the first child that has this name.        *)
Find(tree, dotted) ==
  LET Into(id, part) ==
        IF id = None \/ ChildNamed(At(tree, id), part) = 0 THEN None
        ELSE Append(id, ChildNamed(At(tree, id), part))
  IN  FoldLeft(Into, << >>, dotted)

NamesTo(tree, id) ==
  [k \in DOMAIN id |-> At(tree, SubSeq(id, 1, k)).name]

(* All addresses, those below a unit before the unit itself.               *)
RECURSIVE Addresses(_)
Addresses(u) ==
  LET Below(i) == LET ids == Addresses(u.children[i])
                  IN  [k \in DOMAIN ids |-> <<i>> \o ids[k]]
  IN  Append(FlattenSeq([i \in DOMAIN u.children |-> Below(i)]), << >>)

(* The tree with other paths in it: of[id] for the unit at id.             *)
RECURSIVE WithPaths(_, _, _)
WithPaths(u, id, of) ==
  [u EXCEPT !.paths = of[id],
            !.children = [i \in DOMAIN @ |-> WithPaths(@[i], Append(id, i), of)]]

-----------------------------------------------------------------------------
(* expand_counts *)

Replica(name, i) == name \o ToString(i - 1)

IsCounted(c) == c.count > 1

Copies(c) ==
  IF IsCounted(c)
  THEN [i \in 1 .. c.count |-> [c EXCEPT !.name = Replica(c.name, i), !.count = 1]]
  ELSE <<c>>

CountedNames(kids) == {kids[i].name : i \in {i \in DOMAIN kids : IsCounted(kids[i])}}

(* counted[name]: of two children with one name, the last one wins.        *)
CountOf(kids, name) ==
  kids[SelectLastInSeq(kids, LAMBDA c : IsCounted(c) /\ c.name = name)].count

(* Slip: only the endpoints are looked at. *)
EndpointReferences(p, counted) ==
  SelectSeq(<<p.src, p.dst>>, LAMBDA ref : ref[1] \in counted)

(* _path_references: the references that start at a counted module; the    *)
(* first of them decides what the path is replicated for.                  *)
PathReferences(p, counted) ==
  SelectSeq(<<p.src, p.dst, p.engine>>, LAMBDA ref : ref # << >> /\ ref[1] \in counted)

SubstituteHead(p, orig, new) ==
  LET Sub(ref) == IF ref # << >> /\ ref[1] = orig THEN <<new>> \o Tail(ref) ELSE ref
  IN  [p EXCEPT !.src = Sub(@), !.dst = Sub(@), !.engine = Sub(@)]

PathCopies(p, kids) ==
  LET refs == PathReferences(p, CountedNames(kids))
      orig == refs[1][1]
  IN  IF refs = << >> THEN <<p>>
      ELSE [i \in 1 .. CountOf(kids, orig) |-> SubstituteHead(p, orig, Replica(orig, i))]

RECURSIVE ExpandCounts(_)
ExpandCounts(spec) ==
  LET kids == [i \in DOMAIN spec.children |-> ExpandCounts(spec.children[i])]
  IN  [spec EXCEPT
         !.children = FlattenSeq([i \in DOMAIN kids |-> Copies(kids[i])]),
         !.paths = FlattenSeq([k \in DOMAIN @ |-> PathCopies(@[k], kids)])]

-----------------------------------------------------------------------------
(* build *)

(* _resolve: an undotted name may be that of a child of `current`.         *)
Resolve(tree, current, ref) ==
  LET local == ChildNamed(At(tree, current), ref[1])
  IN  IF Len(ref) = 1 /\ local # 0 THEN Append(current, local) ELSE Find(tree, ref)

(* Pipe.validate; an empty list of kinds and no list of names allow all.   *)
Admits(allowed, unit) ==
  /\ allowed.kinds # {} => unit.kind \in allowed.kinds
  /\ allowed.names # None => unit.name \in allowed.names

(* Slip: whatever the engine is, it is taken. *)
ConnectableAnyhow(tree, p) == None \notin {p.src, p.dst, p.engine}

Connectable(tree, p) ==
  /\ None \notin {p.src, p.dst, p.engine}
  /\ p.engine # << >> =>
       LET pipe == At(tree, p.engine)
       IN  /\ pipe.kind = "pipe"
           /\ Admits(pipe.from, At(tree, p.src))
           /\ Admits(pipe.to, At(tree, p.dst))

(* current.find(name), level by level: None if that is not a module.       *)
ModuleAt(tree, id) ==
  LET found == Find(tree, NamesTo(tree, id))
  IN  IF found # None /\ At(tree, found).kind # "module" THEN None ELSE found

ModuleIds(tree) == SelectSeq(Addresses(tree), LAMBDA id : At(tree, id).kind = "module")

(* What _build_paths hands to connect(), in its order.                     *)
Connections(tree) ==
  LET Resolved(current, p) ==
        [current |-> current,
         stream |-> p.stream,
         src |-> Resolve(tree, current, p.src),
         dst |-> Resolve(tree, current, p.dst),
         engine |-> IF p.engine = << >> THEN << >> ELSE Resolve(tree, current, p.engine)]
      Of(id) == [k \in DOMAIN At(tree, id).paths |->
                   Resolved(ModuleAt(tree, id), At(tree, id).paths[k])]
      ids == ModuleIds(tree)
  IN  FlattenSeq([k \in DOMAIN ids |-> Of(ids[k])])

(* Nothing build() or a function it calls raises an exception for, but for *)
(* the values of attributes that are not kept: the ValueErrors of an       *)
(* unknown UnitKind in a pipe's constraints (builder.py 130-131) and of an *)
(* unknown Direction (161) are left out.                                   *)
Buildable(spec) ==
  LET tree == ExpandCounts(spec)
  IN  /\ spec.kind = "module"
      /\ \A id \in ToSet(Addresses(spec)) :
           IsCounted(At(spec, id)) => At(spec, id).kind = "module"
      /\ \A id \in ToSet(Addresses(tree)) : At(tree, id).kind \in UnitKinds
      /\ None \notin {ModuleAt(tree, id) : id \in ToSet(ModuleIds(tree))}
      /\ \A p \in ToSet(Connections(tree)) : Connectable(tree, p)

Build(spec) ==
  LET tree  == ExpandCounts(spec)
      links == Connections(tree)
      Of(id) == LET own == SelectSeq(links, LAMBDA p : p.current = id)
                IN  [k \in DOMAIN own |-> [end \in Ends \cup {"stream"} |-> own[k][end]]]
  IN  WithPaths(tree, << >>, [id \in ToSet(Addresses(tree)) |-> Of(id)])

-----------------------------------------------------------------------------
(* dump *)

(* Slip: a unit is named from the module it is in. *)
UnqualifiedName(tree, id) == <<At(tree, id).name>>

(* _qualified_from; the root itself has an empty name.                     *)
QualifiedFrom(tree, id) == IF id = << >> THEN <<"">> ELSE NamesTo(tree, id)

Dump(tree) ==
  LET Named(p) ==
        [p EXCEPT !.src = QualifiedFrom(tree, @),
                  !.dst = QualifiedFrom(tree, @),
                  !.engine = IF @ = << >> THEN << >> ELSE QualifiedFrom(tree, @)]
      Of(id) == [k \in DOMAIN At(tree, id).paths |-> Named(At(tree, id).paths[k])]
  IN  WithPaths(tree, << >>, [id \in ToSet(Addresses(tree)) |-> Of(id)])

-----------------------------------------------------------------------------
Init ==
  /\ pc = "dict"
  /\ dict \in Dicts
  /\ chip = None

(* A chip put together in Python; connect() checks its paths too.          *)
FluentInit ==
  /\ pc = "chip"
  /\ dict = None
  /\ chip \in Chips

LoadChip ==
  /\ pc = "dict"
  /\ Buildable(dict)
  /\ chip' = Build(dict)
  /\ pc' = "chip"
  /\ UNCHANGED dict

LoadFails ==
  /\ pc = "dict"
  /\ ~Buildable(dict)
  /\ pc' = "failed"
  /\ UNCHANGED <<dict, chip>>

DumpChip ==
  /\ pc = "chip"
  /\ dict' = Dump(chip)
  /\ pc' = "dict"
  /\ UNCHANGED chip

Failed == pc = "failed" /\ UNCHANGED vars

Next ==
  \/ LoadChip
  \/ LoadFails
  \/ DumpChip
  \/ Failed

Spec == Init /\ [][Next]_vars

FluentSpec == FluentInit /\ [][Next]_vars

-----------------------------------------------------------------------------
(***************************************************************************)
(*                              Properties                                 *)
(***************************************************************************)

(* The chip is as connect() leaves one, also after it was read back: every *)
(* path joins units of the tree and its engine is a pipe that admits both. *)
TypeOK ==
  /\ pc \in {"dict", "chip", "failed"}
  /\ chip # None =>
       \A id \in ToSet(Addresses(chip)) :
         LET u == At(chip, id)
         IN  /\ u.kind \in UnitKinds /\ u.count <= 1
             /\ \A p \in ToSet(u.paths) :
                  /\ {p.src, p.dst, p.engine} \subseteq ToSet(Addresses(chip))
                  /\ p.engine # << >> =>
                       LET pipe == At(chip, p.engine)
                       IN  /\ pipe.kind = "pipe"
                           /\ Admits(pipe.from, At(chip, p.src))
                           /\ Admits(pipe.to, At(chip, p.dst))

(* A chip survives dump() and load(): the tree that is read back has the   *)
(* same units and paths between the same units (loader.py: "Round-trips a  *)
(* Module tree via dotted-path references").                               *)
RoundTrips ==
  [][pc = "dict" /\ chip # None => pc' = "chip" /\ chip' = chip]_vars

(***************************************************************************)
(* What count: N means, by names.  A choice picks a replica of every       *)
(* counted module; the chip has the units and paths of the same dict with  *)
(* all counts 1, once for every choice.                                    *)
(***************************************************************************)
Counted(spec) ==
  {At(spec, id) : id \in {id \in ToSet(Addresses(spec)) : IsCounted(At(spec, id))}}

RECURSIVE Single(_)
Single(spec) ==
  [spec EXCEPT !.count = 1, !.children = [i \in DOMAIN @ |-> Single(@[i])]]

ReplicaChoices(spec) ==
  LET counts == [name \in {c.name : c \in Counted(spec)} |->
                   (CHOOSE c \in Counted(spec) : c.name = name).count]
      most == CHOOSE m \in Range(counts) : \A n \in Range(counts) : n <= m
  IN  IF Counted(spec) = {} THEN {<< >>}
      ELSE {f \in [DOMAIN counts -> 1 .. most] : \A n \in DOMAIN f : f[n] <= counts[n]}

Renamed(names, f) ==
  [k \in DOMAIN names |->
     IF names[k] \in DOMAIN f THEN Replica(names[k], f[names[k]]) ELSE names[k]]

UnitNames(tree) == {NamesTo(tree, id) : id \in ToSet(Addresses(tree))}

(* Where a path is and what it joins. *)
Link(tree, id, p) ==
  [at |-> NamesTo(tree, id), stream |-> p.stream, src |-> NamesTo(tree, p.src),
   dst |-> NamesTo(tree, p.dst), engine |-> NamesTo(tree, p.engine)]

Links(tree) ==
  UNION {{Link(tree, id, p) : p \in ToSet(At(tree, id).paths)} : id \in ToSet(Addresses(tree))}

RenamedLink(l, f) ==
  [end \in DOMAIN l |-> IF end = "stream" THEN l[end] ELSE Renamed(l[end], f)]

Replicated(tree, spec) ==
  LET one == Build(Single(spec))
  IN  /\ UnitNames(tree) = {Renamed(u, f) : u \in UnitNames(one), f \in ReplicaChoices(spec)}
      /\ Links(tree) = {RenamedLink(l, f) : l \in Links(one), f \in ReplicaChoices(spec)}

(* Paths that can be replicated: inside a module they name its children or *)
(* units of the root that are not replicated, in the root they name what   *)
(* is directly below a counted module.                                     *)
HeadsOnly(spec) ==
  LET counted == {c.name : c \in Counted(spec)}
  IN  \A id \in ToSet(Addresses(spec)) : \A p \in ToSet(At(spec, id).paths) :
        \A end \in Ends : \A k \in DOMAIN p[end] :
          /\ id # << >> => Len(p[end]) = 1
          /\ p[end][k] \in counted =>
               /\ k = 1 /\ Len(p[end]) = 2
               /\ p[end][k] \in CountedNames(At(spec, id).children)

(* ... and only one such module each. *)
OneCounted(spec) ==
  \A id \in ToSet(Addresses(spec)) : \A p \in ToSet(At(spec, id).paths) :
    Cardinality({p[end][1] : end \in {end \in Ends : p[end] # << >>}}
                \cap CountedNames(At(spec, id).children)) <= 1

(* Only modules are counted, a counted module shares its name with no other*)
(* unit, and no two children of a module have one name once all replicas   *)
(* are there.                                                              *)
DistinctNames(spec) ==
  LET tree == ExpandCounts(spec)
      ids  == ToSet(Addresses(spec))
  IN  /\ \A id, other \in ids : IsCounted(At(spec, id)) =>
           /\ At(spec, id).kind = "module"
           /\ At(spec, other).name = At(spec, id).name => other = id
      /\ \A id \in ToSet(Addresses(tree)) :
           LET kids == At(tree, id).children
           IN  \A i, j \in DOMAIN kids : kids[i].name = kids[j].name => i = j

Replicable(spec) == HeadsOnly(spec) /\ DistinctNames(spec)

(* `count: N` replicates the module with its inside and the paths that     *)
(* reach into it, each replica's paths stay within the replica, and no dict*)
(* that builds with a count of 1 fails with N (docs/chip-specs.md, "What   *)
(* replication does").                                                     *)
CountsReplicate ==
  [][pc = "dict" /\ chip = None /\ Replicable(dict) /\ OneCounted(dict)
       /\ Buildable(Single(dict))
     => pc' = "chip" /\ Replicated(chip', dict)]_vars

(* README.md of a counted module: "the builder replicates it (...),        *)
(* including the top-level paths that reference it": a dict whose paths    *)
(* reach into counted modules builds with any count if it builds with 1.   *)
CountsNeverBreak ==
  [][pc = "dict" /\ chip = None /\ Replicable(dict) /\ Buildable(Single(dict))
     => pc' = "chip"]_vars
=============================================================================
