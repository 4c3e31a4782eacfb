----------------------------- MODULE StreamCycle -----------------------------
(***************************************************************************)
(* _find_stream_cycle of arch_sim/arch/validator.py: a depth-first search  *)
(* of the chip's streaming links for a cycle.  The recursion is kept as the*)
(* stack the code passes along, with what each frame's loop has yet to look*)
(* at; the order of the loops, which only decides which of several cycles  *)
(* is reported, is left open.                                              *)
(***************************************************************************)
EXTENDS Integers, Sequences

CONSTANTS
  Unit,    \* the compute units
  Chips    \* the sets of links <<src, dst>> it may be given

ASSUME ChipsAssumption == \A c \in Chips : c \subseteq Unit \X Unit

VARIABLES
  links,   \* the input: the stream paths, each as <<src, dst>>
  pc,      \* "search", or the answer: "cyclic", "acyclic"
  color,
  stack,
  rest,    \* u -> the successors dfs(u)'s loop has not come to
  chain    \* the answer's unit chain

vars == <<links, pc, color, stack, rest, chain>>

Nodes == {l[1] : l \in links} \cup {l[2] : l \in links}

Succ(u) == {v \in Nodes : <<u, v>> \in links}

Init ==
  /\ links \in Chips
  /\ pc = "search"
  /\ color = [u \in Nodes |-> "WHITE"]
  /\ stack = << >>
  /\ rest = [u \in Nodes |-> Succ(u)]
  /\ chain = << >>

(* Slip: a unit is finished with as soon as it is entered. *)
EnterDone(u) ==
  /\ color[u] = "WHITE"
  /\ color' = [color EXCEPT ![u] = "BLACK"]
  /\ stack' = Append(stack, u)

(* dfs(u) is called. *)
Enter(u) ==
  /\ color[u] = "WHITE"
  /\ color' = [color EXCEPT ![u] = "GRAY"]
  /\ stack' = Append(stack, u)

StartAt(u) ==
  /\ pc = "search" /\ stack = << >>
  /\ Enter(u)
  /\ UNCHANGED <<links, pc, rest, chain>>

(* The loop of the innermost dfs, that of the top of the stack, comes to v. *)
Top == stack[Len(stack)]

Visits(v) ==
  /\ pc = "search" /\ stack # << >>
  /\ v \in rest[Top]
  /\ rest' = [rest EXCEPT ![Top] = @ \ {v}]

Descend(v) ==
  /\ Visits(v)
  /\ Enter(v)
  /\ UNCHANGED <<links, pc, chain>>

PassBy(v) ==
  /\ Visits(v)
  /\ color[v] = "BLACK"
  /\ UNCHANGED <<links, pc, color, stack, chain>>

(* Slip: the whole stack, with the way that led to the cycle. *)
WholeStack(v) == Append(stack, v)

(* stack[stack.index(v):] + [v] *)
BackTo(v) ==
  LET k == CHOOSE k \in DOMAIN stack : stack[k] = v
  IN  [i \in 1 .. Len(stack) - k + 2 |->
         IF i = Len(stack) - k + 2 THEN v ELSE stack[k + i - 1]]

(* A back edge; every pending call returns the chain. *)
CloseCycle(v) ==
  /\ Visits(v)
  /\ color[v] = "GRAY"
  /\ pc' = "cyclic"
  /\ chain' = BackTo(v)
  /\ UNCHANGED <<links, color, stack>>

(* Slip: the colour is reset, as it is for simple paths. *)
BacktrackWhite ==
  /\ pc = "search" /\ stack # << >> /\ rest[Top] = {}
  /\ color' = [color EXCEPT ![Top] = "WHITE"]
  /\ stack' = SubSeq(stack, 1, Len(stack) - 1)
  /\ UNCHANGED <<links, pc, rest, chain>>

(* dfs returns None. *)
Backtrack ==
  /\ pc = "search" /\ stack # << >> /\ rest[Top] = {}
  /\ color' = [color EXCEPT ![Top] = "BLACK"]
  /\ stack' = SubSeq(stack, 1, Len(stack) - 1)
  /\ UNCHANGED <<links, pc, rest, chain>>

GiveUp ==
  /\ pc = "search" /\ stack = << >>
  /\ \A u \in Nodes : color[u] # "WHITE"
  /\ pc' = "acyclic"
  /\ UNCHANGED <<links, color, stack, rest, chain>>

Finished == pc # "search" /\ UNCHANGED vars

Next ==
  \/ \E u \in Nodes : StartAt(u)
  \/ \E v \in Nodes : Descend(v)
  \/ \E v \in Nodes : PassBy(v)
  \/ \E v \in Nodes : CloseCycle(v)
  \/ Backtrack
  \/ GiveUp
  \/ Finished

Spec == Init /\ [][Next]_vars

(* A recursive function that nothing suspends. *)
FairSpec == Spec /\ WF_vars(Next)

-----------------------------------------------------------------------------
(***************************************************************************)
(*                              Properties                                 *)
(***************************************************************************)

(* The types of the state; the stack holds the units that are gray, each   *)
(* once.                                                                   *)
TypeOK ==
  /\ links \subseteq Unit \X Unit
  /\ pc \in {"search", "cyclic", "acyclic"}
  /\ color \in [Nodes -> {"WHITE", "GRAY", "BLACK"}]
  /\ stack \in Seq(Nodes)
  /\ \A j, k \in DOMAIN stack : stack[j] = stack[k] => j = k
  /\ {stack[k] : k \in DOMAIN stack} = {u \in Nodes : color[u] = "GRAY"}
  /\ rest \in [Nodes -> SUBSET Nodes]
  /\ chain \in Seq(Nodes)

IsCycle(c) ==
  /\ Len(c) > 1
  /\ c[1] = c[Len(c)]
  /\ \A k \in 1 .. Len(c) - 1 : <<c[k], c[k + 1]>> \in links

(* An error is never a false alarm: the chain in the report is a cycle of  *)
(* declared links, closed, and without the way that led to it.             *)
ReportedCycleIsReal ==
  pc = "cyclic" =>
    /\ IsCycle(chain)
    /\ \A j, k \in 1 .. Len(chain) - 1 : chain[j] = chain[k] => j = k

(* Every nonempty set of units has one with no link back into the set:     *)
(* there is no cycle, and nowhere to start one.                            *)
Acyclic(S) == \A T \in SUBSET S : T # {} => \E u \in T : Succ(u) \cap T = {}

(* A chip that passes has no cycle of stream links at all, whichever units *)
(* the search started from and whatever it had finished with before.       *)
AcceptedIsAcyclic == pc = "acyclic" => Acyclic(Nodes)

(* The search ends, though links may form any number of cycles. *)
Termination == <>(pc # "search")
=============================================================================
