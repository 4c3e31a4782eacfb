------------------------- MODULE StreamCycleProofs -------------------------
(***************************************************************************)
(* The search of module StreamCycle is exact for any chip: what it reports *)
(* is a cycle of links (soundness), and if it reports none there is none   *)
(* (completeness).                                                         *)
(***************************************************************************)
EXTENDS StreamCycle, TLAPS

Black == {u \in Nodes : color[u] = "BLACK"}

RestIsSucc == \A u \in Nodes : rest[u] \subseteq Succ(u)

(* The stack is a path of links. *)
StackIsPath ==
  \A k \in 1 .. Len(stack) - 1 : <<stack[k], stack[k + 1]>> \in links

(* A successor that u's loop has come to is finished with, or it is the one*)
(* whose dfs was called from that loop, next to u on the stack.            *)
LookedAt ==
  \A u \in Nodes : \A v \in Succ(u) \ rest[u] :
    \/ color[v] = "BLACK"
    \/ \E k \in 1 .. Len(stack) - 1 : stack[k] = u /\ stack[k + 1] = v

(* A unit that is finished with has only successors that are. *)
Closed == \A u \in Black : Succ(u) \subseteq Black

IInv ==
  /\ TypeOK
  /\ RestIsSucc
  /\ StackIsPath
  /\ pc = "search" => LookedAt
  /\ Closed
  /\ Acyclic(Black)
  /\ ReportedCycleIsReal
  /\ pc = "acyclic" => Black = Nodes

-----------------------------------------------------------------------------
LEMMA InitIInv == Init => IInv
<1> SUFFICES ASSUME Init PROVE IInv
  OBVIOUS
<1>1. links \subseteq Unit \X Unit
  BY ChipsAssumption DEF Init
<1>2. TypeOK /\ RestIsSucc
  BY <1>1 DEF Init, TypeOK, RestIsSucc, Succ
<1>3. Black = {}
  BY DEF Init, Black
<1>4. StackIsPath /\ LookedAt
  BY DEF Init, StackIsPath, LookedAt
<1>5. Closed /\ Acyclic(Black)
  BY <1>3 DEF Closed, Acyclic
<1>6. pc = "search"
  BY DEF Init
<1> QED  BY <1>2, <1>4, <1>5, <1>6 DEF IInv, ReportedCycleIsReal

(* No step changes the links, or what is defined by them alone. *)
LEMMA SameGraph ==
  ASSUME [Next]_vars
  PROVE  links' = links /\ Nodes' = Nodes /\ \A u : Succ(u)' = Succ(u)
<1>1. links' = links
  BY DEF Next, vars, StartAt, Descend, PassBy, CloseCycle, Backtrack, GiveUp, Finished
<1> QED  BY <1>1 DEF Nodes, Succ

(* Everything the invariant says of finished units survives a step that    *)
(* finishes with none.                                                     *)
LEMMA SameBlack ==
  ASSUME [Next]_vars, Black' = Black, Closed, Acyclic(Black)
  PROVE  Closed' /\ Acyclic(Black)'
BY SameGraph DEF Closed, Acyclic

(* Entering unit u, with the stack empty or from the loop of its top.      *)
LEMMA EnterTyped ==
  ASSUME TypeOK, NEW u \in Nodes, Enter(u), links' = links
  PROVE  /\ color' \in [Nodes -> {"WHITE", "GRAY", "BLACK"}]
         /\ stack' \in Seq(Nodes)
         /\ Len(stack') = Len(stack) + 1
         /\ stack'[Len(stack) + 1] = u
         /\ \A k \in 1 .. Len(stack) : stack'[k] = stack[k] /\ stack[k] # u
         /\ \A j, k \in DOMAIN stack' : stack'[j] = stack'[k] => j = k
         /\ {stack'[k] : k \in DOMAIN stack'} = {w \in Nodes : color'[w] = "GRAY"}
         /\ Black' = Black
<1>1. stack \in Seq(Nodes) /\ DOMAIN stack = 1 .. Len(stack) /\ Len(stack) \in Nat
  BY DEF TypeOK
<1>2. color' = [color EXCEPT ![u] = "GRAY"] /\ stack' = Append(stack, u) /\ color[u] = "WHITE"
  BY DEF Enter
<1>3. color \in [Nodes -> {"WHITE", "GRAY", "BLACK"}]
  BY DEF TypeOK
<1>4. /\ stack' \in Seq(Nodes)
      /\ Len(stack') = Len(stack) + 1
      /\ stack'[Len(stack) + 1] = u
      /\ DOMAIN stack' = 1 .. Len(stack) + 1
      /\ \A k \in 1 .. Len(stack) : stack'[k] = stack[k]
  BY <1>1, <1>2
<1>5. \A k \in 1 .. Len(stack) : stack[k] # u
  BY <1>1, <1>2 DEF TypeOK
<1>6. \A j, k \in DOMAIN stack' : stack'[j] = stack'[k] => j = k
  BY <1>1, <1>4, <1>5 DEF TypeOK
<1>7. {stack'[k] : k \in DOMAIN stack'} = {stack[k] : k \in DOMAIN stack} \cup {u}
  BY <1>1, <1>4
<1>8. {w \in Nodes : color'[w] = "GRAY"} = {w \in Nodes : color[w] = "GRAY"} \cup {u}
  BY <1>2, <1>3
<1>9. {stack[k] : k \in DOMAIN stack} = {w \in Nodes : color[w] = "GRAY"}
  BY DEF TypeOK
<1>10. Black' = Black
  BY <1>2, <1>3 DEF Black, Nodes
<1> QED  BY <1>2, <1>3, <1>4, <1>5, <1>6, <1>7, <1>8, <1>9, <1>10

LEMMA StartInductive ==
  ASSUME IInv, [Next]_vars, NEW u \in Nodes, StartAt(u)
  PROVE  IInv'
<1>1. TypeOK /\ Enter(u) /\ links' = links /\ Len(stack) = 0 /\ stack = << >>
  BY SameGraph DEF StartAt, IInv
<1>2. pc = "search" /\ UNCHANGED <<links, pc, rest, chain>>
  BY DEF StartAt
<1>3. TypeOK'
  BY <1>1, <1>2, EnterTyped, SameGraph DEF TypeOK
<1>4. RestIsSucc' /\ StackIsPath'
  BY <1>1, <1>2, EnterTyped, SameGraph DEF IInv, RestIsSucc, StackIsPath
<1>5. LookedAt'
  <2> SUFFICES ASSUME NEW w \in Nodes, NEW v \in Succ(w) \ rest[w]
               PROVE  color'[v] = "BLACK"
    BY <1>2, SameGraph DEF LookedAt
  <2>1. color[v] = "BLACK" /\ v \in Nodes
    BY <1>1, <1>2 DEF IInv, LookedAt, Succ
  <2> QED  BY <2>1, <1>1 DEF Enter, TypeOK
<1>6. Closed' /\ Acyclic(Black)'
  BY <1>1, EnterTyped, SameBlack DEF IInv
<1> QED  BY <1>2, <1>3, <1>4, <1>5, <1>6 DEF IInv, ReportedCycleIsReal

(* The loop at the top of the stack comes to v. *)
LEMMA VisitFacts ==
  ASSUME IInv, NEW v \in Nodes, Visits(v)
  PROVE  /\ Top \in Nodes /\ Len(stack) \in Nat /\ Len(stack) > 0
         /\ <<Top, v>> \in links
         /\ rest' \in [Nodes -> SUBSET Nodes]
         /\ \A w \in Nodes : w # Top => rest'[w] = rest[w]
         /\ rest'[Top] = rest[Top] \ {v}
<1>1. stack \in Seq(Nodes) /\ Len(stack) \in Nat /\ stack # << >>
  BY DEF IInv, TypeOK, Visits
<1>2. Len(stack) > 0 /\ Top \in Nodes
  BY <1>1 DEF Top
<1>3. v \in Succ(Top)
  BY <1>2 DEF IInv, RestIsSucc, Visits
<1>4. rest \in [Nodes -> SUBSET Nodes] /\ rest' = [rest EXCEPT ![Top] = @ \ {v}]
  BY DEF IInv, TypeOK, Visits
<1> QED  BY <1>1, <1>2, <1>3, <1>4 DEF Succ

LEMMA DescendInductive ==
  ASSUME IInv, [Next]_vars, NEW v \in Nodes, Descend(v)
  PROVE  IInv'
<1>1. TypeOK /\ Enter(v) /\ Visits(v) /\ links' = links
  BY SameGraph DEF Descend, IInv
<1>0. /\ Top \in Nodes /\ Len(stack) \in Nat /\ Len(stack) > 0
      /\ <<Top, v>> \in links
      /\ rest' \in [Nodes -> SUBSET Nodes]
      /\ \A w \in Nodes : rest'[w] = IF w = Top THEN rest[w] \ {v} ELSE rest[w]
  BY <1>1, VisitFacts
<1>a. /\ Len(stack') = Len(stack) + 1
      /\ stack'[Len(stack) + 1] = v
      /\ \A k \in 1 .. Len(stack) : stack'[k] = stack[k]
      /\ Black' = Black
  BY <1>1, EnterTyped
<1>2. pc = "search" /\ UNCHANGED <<links, pc, chain>>
  BY DEF Descend, Visits
<1>3. TypeOK'
  BY <1>0, <1>1, <1>2, EnterTyped, SameGraph DEF TypeOK
<1>4. RestIsSucc'
  BY <1>0, SameGraph DEF IInv, RestIsSucc
<1>5. StackIsPath'
  <2> SUFFICES ASSUME NEW k \in 1 .. Len(stack)
               PROVE  <<stack'[k], stack'[k + 1]>> \in links
    BY <1>0, <1>1, <1>a DEF StackIsPath
  <2>1. CASE k = Len(stack)
    BY <2>1, <1>0, <1>a DEF Top
  <2>2. CASE k # Len(stack)
    <3>1. k \in 1 .. Len(stack) - 1 /\ k + 1 \in 1 .. Len(stack)
      BY <2>2, <1>0
    <3> QED  BY <3>1, <1>a DEF IInv, StackIsPath
  <2> QED  BY <2>1, <2>2
<1>6. LookedAt'
  <2> SUFFICES ASSUME NEW u \in Nodes, NEW w \in Succ(u) \ rest'[u]
               PROVE  \/ color'[w] = "BLACK"
                      \/ \E k \in 1 .. Len(stack) : stack'[k] = u /\ stack'[k + 1] = w
    BY <1>0, <1>a, SameGraph DEF LookedAt
  <2>1. CASE u = Top /\ w = v
    <3>1. Len(stack) \in 1 .. Len(stack) /\ stack'[Len(stack)] = Top
      BY <1>0, <1>a DEF Top
    <3> QED  BY <2>1, <3>1, <1>a
  <2>2. CASE ~(u = Top /\ w = v)
    <3>1. w \in Succ(u) \ rest[u]
      BY <2>2, <1>0
    <3>2. CASE color[w] = "BLACK"
      BY <3>2, <1>1 DEF Enter, TypeOK, Succ
    <3>3. CASE \E k \in 1 .. Len(stack) - 1 : stack[k] = u /\ stack[k + 1] = w
      <4>1. PICK k \in 1 .. Len(stack) - 1 : stack[k] = u /\ stack[k + 1] = w
        BY <3>3
      <4>2. k \in 1 .. Len(stack) /\ k + 1 \in 1 .. Len(stack)
        BY <1>0
      <4> QED  BY <4>1, <4>2, <1>a
    <3> QED  BY <3>1, <3>2, <3>3, <1>2 DEF IInv, LookedAt
  <2> QED  BY <2>1, <2>2
<1>7. Closed' /\ Acyclic(Black)'
  BY <1>a, SameBlack DEF IInv
<1> QED  BY <1>2, <1>3, <1>4, <1>5, <1>6, <1>7 DEF IInv, ReportedCycleIsReal

LEMMA PassByInductive ==
  ASSUME IInv, [Next]_vars, NEW v \in Nodes, PassBy(v)
  PROVE  IInv'
<1>1. Visits(v) /\ pc = "search" /\ color[v] = "BLACK" /\ UNCHANGED <<links, pc, color, stack, chain>>
  BY DEF PassBy, Visits
<1>0. /\ rest' \in [Nodes -> SUBSET Nodes]
      /\ \A w \in Nodes : rest'[w] \subseteq rest[w]
      /\ \A w \in Nodes : \A x \in rest[w] \ rest'[w] : w = Top /\ x = v
  BY <1>1, VisitFacts
<1>2. TypeOK'
  BY <1>0, <1>1, SameGraph DEF IInv, TypeOK
<1>3. RestIsSucc' /\ StackIsPath'
  BY <1>0, <1>1, SameGraph DEF IInv, RestIsSucc, StackIsPath
<1>4. LookedAt'
  BY <1>0, <1>1, SameGraph DEF IInv, LookedAt
<1>5. Black' = Black
  BY <1>1, SameGraph DEF Black
<1> QED  BY <1>1, <1>2, <1>3, <1>4, <1>5, SameBlack DEF IInv, ReportedCycleIsReal

(* stack.index(v) finds v, and the chain is a closed path without repeats. *)
LEMMA ChainIsCycle ==
  ASSUME IInv, NEW v \in Nodes, Visits(v), color[v] = "GRAY"
  PROVE  /\ BackTo(v) \in Seq(Nodes)
         /\ IsCycle(BackTo(v))
         /\ \A i, j \in 1 .. Len(BackTo(v)) - 1 : BackTo(v)[i] = BackTo(v)[j] => i = j
<1> DEFINE k == CHOOSE k \in DOMAIN stack : stack[k] = v
           n == Len(stack) - k + 2
           c == [i \in 1 .. n |-> IF i = n THEN v ELSE stack[k + i - 1]]
<1>1. stack \in Seq(Nodes) /\ DOMAIN stack = 1 .. Len(stack) /\ Len(stack) \in Nat
  BY DEF IInv, TypeOK
<1>2. k \in 1 .. Len(stack) /\ stack[k] = v
  <2>1. v \in {stack[i] : i \in DOMAIN stack}
    BY DEF IInv, TypeOK
  <2> QED  BY <2>1, <1>1
<1> HIDE DEF k
<1>0. \A i, j \in 1 .. Len(stack) : stack[i] = stack[j] => i = j
  BY <1>1 DEF IInv, TypeOK
<1>3. n \in Nat /\ n >= 2
  BY <1>1, <1>2
<1>4. \A i \in 1 .. n - 1 : k + i - 1 \in 1 .. Len(stack) /\ c[i] = stack[k + i - 1]
  BY <1>1, <1>2, <1>3
<1>5. c \in Seq(Nodes) /\ Len(c) = n /\ DOMAIN c = 1 .. n
  <2>1. \A i \in 1 .. n : c[i] \in Nodes
    BY <1>1, <1>2, <1>3
  <2>2. c \in [1 .. n -> Nodes]
    BY <2>1
  <2> HIDE DEF c, n
  <2> QED  BY <2>2, <1>3
<1>6. IsCycle(c)
  <2>1. c[1] = v /\ c[n] = v
    BY <1>2, <1>3, <1>4
  <2>2. ASSUME NEW i \in 1 .. n - 1
        PROVE  <<c[i], c[i + 1]>> \in links
    <3>1. CASE i = n - 1
      <4>1. c[i] = Top /\ c[i + 1] = v
        <5>1. k + i - 1 = Len(stack)
          BY <3>1, <1>1, <1>2
        <5> QED  BY <5>1, <3>1, <1>3, <1>4, <2>1 DEF Top
      <4> QED  BY <4>1, VisitFacts
    <3>2. CASE i # n - 1
      <4>1. i + 1 \in 1 .. n - 1 /\ k + i - 1 \in 1 .. Len(stack) - 1 /\ k + (i + 1) - 1 = (k + i - 1) + 1
        BY <3>2, <1>1, <1>2, <1>3
      <4>2. c[i] = stack[k + i - 1] /\ c[i + 1] = stack[(k + i - 1) + 1]
        BY <4>1, <1>4
      <4> QED  BY <4>1, <4>2 DEF IInv, StackIsPath
    <3> QED  BY <3>1, <3>2
  <2> HIDE DEF c, n
  <2> QED  BY <1>3, <1>5, <2>1, <2>2 DEF IsCycle
<1>7. \A i, j \in 1 .. n - 1 : c[i] = c[j] => i = j
  <2> SUFFICES ASSUME NEW i \in 1 .. n - 1, NEW j \in 1 .. n - 1, c[i] = c[j] PROVE i = j
    OBVIOUS
  <2>1. k + i - 1 = k + j - 1
    BY <1>0, <1>4
  <2> QED  BY <2>1, <1>1, <1>2, <1>3
<1>8. BackTo(v) = c
  BY DEF BackTo, k
<1> QED  BY <1>5, <1>6, <1>7, <1>8

LEMMA CloseInductive ==
  ASSUME IInv, [Next]_vars, NEW v \in Nodes, CloseCycle(v)
  PROVE  IInv'
<1>1. /\ Visits(v) /\ color[v] = "GRAY"
      /\ pc' = "cyclic" /\ chain' = BackTo(v) /\ UNCHANGED <<links, color, stack>>
  BY DEF CloseCycle
<1>0. /\ rest' \in [Nodes -> SUBSET Nodes]
      /\ \A w \in Nodes : rest'[w] \subseteq rest[w]
      /\ \A w \in Nodes : \A x \in rest[w] \ rest'[w] : w = Top /\ x = v
  BY <1>1, VisitFacts
<1>2. TypeOK'
  BY <1>0, <1>1, ChainIsCycle, SameGraph DEF IInv, TypeOK
<1>3. RestIsSucc' /\ StackIsPath'
  BY <1>0, <1>1, SameGraph DEF IInv, RestIsSucc, StackIsPath
<1>4. ReportedCycleIsReal'
  BY <1>1, ChainIsCycle DEF ReportedCycleIsReal, IsCycle
<1>5. Black' = Black
  BY <1>1, SameGraph DEF Black
<1> QED  BY <1>1, <1>2, <1>3, <1>4, <1>5, SameBlack DEF IInv

(* The last unit of the stack is finished with: all its successors are, it *)
(* is none of them, and no unit finished before has a link to it.          *)
LEMMA BacktrackInductive ==
  ASSUME IInv, [Next]_vars, Backtrack
  PROVE  IInv'
<1> DEFINE u == Top
           m == Len(stack) - 1
<1>1. /\ stack \in Seq(Nodes) /\ stack # << >> /\ Len(stack) \in Nat
      /\ DOMAIN stack = 1 .. Len(stack)
      /\ color \in [Nodes -> {"WHITE", "GRAY", "BLACK"}]
  BY DEF IInv, TypeOK, Backtrack
<1>2. /\ pc = "search" /\ rest[u] = {}
      /\ color' = [color EXCEPT ![u] = "BLACK"]
      /\ stack' = SubSeq(stack, 1, m)
      /\ UNCHANGED <<links, pc, rest, chain>>
  BY DEF Backtrack
<1>3. u \in Nodes /\ m \in Nat /\ u = stack[m + 1] /\ m + 1 = Len(stack)
  BY <1>1 DEF Top
<1>4. /\ stack' \in Seq(Nodes) /\ Len(stack') = m /\ DOMAIN stack' = 1 .. m
      /\ \A k \in 1 .. m : stack'[k] = stack[k] /\ stack[k] # u
  <2>1. stack' \in Seq(Nodes) /\ Len(stack') = m /\ \A k \in 1 .. m : stack'[k] = stack[k]
    BY <1>1, <1>2, <1>3
  <2>2. \A j, k \in DOMAIN stack : stack[j] = stack[k] => j = k
    BY DEF IInv, TypeOK
  <2>3. \A k \in 1 .. m : stack[k] # stack[m + 1]
    BY <2>2, <1>1, <1>3
  <2> QED  BY <2>1, <2>3, <1>3
<1>5. color[u] = "GRAY" /\ Black' = Black \cup {u} /\ u \notin Black
  <2>1. u \in {stack[k] : k \in DOMAIN stack}
    BY <1>1, <1>3
  <2>2. color[u] = "GRAY"
    BY <2>1 DEF IInv, TypeOK
  <2> QED  BY <2>2, <1>1, <1>2, <1>3, SameGraph DEF Black
<1>6. Succ(u) \subseteq Black
  <2> SUFFICES ASSUME NEW v \in Succ(u) PROVE color[v] = "BLACK"
    BY DEF Black, Succ
  <2>1. \/ color[v] = "BLACK"
        \/ \E k \in 1 .. Len(stack) - 1 : stack[k] = u /\ stack[k + 1] = v
    BY <1>2, <1>3 DEF IInv, LookedAt
  <2> QED  BY <2>1, <1>4
<1>7. TypeOK'
  <2>1. color' \in [Nodes -> {"WHITE", "GRAY", "BLACK"}]
    BY <1>1, <1>2
  <2>2. \A j, k \in DOMAIN stack' : stack'[j] = stack'[k] => j = k
    <3> TAKE j, k \in DOMAIN stack'
    <3>1. /\ j \in DOMAIN stack /\ k \in DOMAIN stack
          /\ stack'[j] = stack[j] /\ stack'[k] = stack[k]
      BY <1>1, <1>3, <1>4
    <3> QED  BY <3>1 DEF IInv, TypeOK
  <2>3. {stack'[k] : k \in DOMAIN stack'} = {stack[k] : k \in DOMAIN stack} \ {u}
    BY <1>1, <1>3, <1>4
  <2>4. {w \in Nodes : color'[w] = "GRAY"} = {w \in Nodes : color[w] = "GRAY"} \ {u}
    BY <1>1, <1>2
  <2>5. {stack[k] : k \in DOMAIN stack} = {w \in Nodes : color[w] = "GRAY"}
    BY DEF IInv, TypeOK
  <2> QED  BY <1>2, <1>4, <2>1, <2>2, <2>3, <2>4, <2>5, SameGraph DEF IInv, TypeOK
<1>8. RestIsSucc'
  BY <1>2, SameGraph DEF IInv, RestIsSucc
<1>9. StackIsPath'
  <2> SUFFICES ASSUME NEW k \in 1 .. m - 1 PROVE <<stack'[k], stack'[k + 1]>> \in links
    BY <1>2, <1>4 DEF StackIsPath
  <2>1. k \in 1 .. m /\ k + 1 \in 1 .. m /\ k \in 1 .. Len(stack) - 1
    BY <1>3
  <2> QED  BY <2>1, <1>4 DEF IInv, StackIsPath
<1>10. LookedAt'
  <2> SUFFICES ASSUME NEW w \in Nodes, NEW v \in Succ(w) \ rest[w]
               PROVE  \/ color'[v] = "BLACK"
                      \/ \E k \in 1 .. m - 1 : stack'[k] = w /\ stack'[k + 1] = v
    BY <1>2, <1>4, SameGraph DEF LookedAt
  <2>1. CASE color[v] = "BLACK"
    BY <2>1, <1>1, <1>2 DEF Succ
  <2>2. CASE \E k \in 1 .. m : stack[k] = w /\ stack[k + 1] = v
    <3>1. PICK k \in 1 .. m : stack[k] = w /\ stack[k + 1] = v
      BY <2>2
    <3>2. CASE k = m
      <4>1. v = u
        BY <3>1, <3>2, <1>3
      <4> QED  BY <4>1, <1>1, <1>2, <1>3
    <3>3. CASE k # m
      <4>0. m \in Nat
        BY <1>3
      <4>1. k \in 1 .. m - 1 /\ k + 1 \in 1 .. m
        <5> HIDE DEF m
        <5> QED  BY <3>3, <4>0
      <4> QED  BY <4>1, <3>1, <1>4
    <3> QED  BY <3>2, <3>3
  <2> QED  BY <2>1, <2>2, <1>2, <1>3 DEF IInv, LookedAt
<1>11. Closed'
  BY <1>5, <1>6, SameGraph DEF IInv, Closed
<1>12. Acyclic(Black)'
  <2> SUFFICES ASSUME NEW T \in SUBSET (Black \cup {u}), T # {}
               PROVE  \E w \in T : Succ(w) \cap T = {}
    BY <1>5, SameGraph DEF Acyclic
  <2>1. CASE T = {u}
    BY <2>1, <1>5, <1>6
  <2>2. CASE T # {u}
    <3>1. T \ {u} \in SUBSET Black /\ T \ {u} # {}
      BY <2>2
    <3>2. PICK w \in T \ {u} : Succ(w) \cap (T \ {u}) = {}
      BY <3>1 DEF IInv, Acyclic
    <3>3. u \notin Succ(w)
      BY <3>1, <1>5 DEF IInv, Closed
    <3> QED  BY <3>2, <3>3
  <2> QED  BY <2>1, <2>2
<1> QED  BY <1>2, <1>7, <1>8, <1>9, <1>10, <1>11, <1>12 DEF IInv, ReportedCycleIsReal

(* With the stack empty and nothing white everything is finished with. *)
LEMMA GiveUpInductive ==
  ASSUME IInv, [Next]_vars, GiveUp
  PROVE  IInv'
<1>1. stack = << >> /\ pc' = "acyclic" /\ UNCHANGED <<links, color, stack, rest, chain>>
  BY DEF GiveUp
<1>2. Black = Nodes
  <2>1. {u \in Nodes : color[u] = "GRAY"} = {}
    BY <1>1 DEF IInv, TypeOK
  <2> QED  BY <2>1 DEF IInv, TypeOK, GiveUp, Black
<1>3. TypeOK' /\ RestIsSucc' /\ StackIsPath' /\ Black' = Black
  BY <1>1, SameGraph DEF IInv, TypeOK, RestIsSucc, StackIsPath, Black
<1> QED  BY <1>1, <1>2, <1>3, SameBlack, SameGraph DEF IInv, ReportedCycleIsReal

LEMMA NextIInv == IInv /\ [Next]_vars => IInv'
<1> SUFFICES ASSUME IInv, [Next]_vars PROVE IInv'
  OBVIOUS
<1>1. CASE \E u \in Nodes : StartAt(u)
  BY <1>1, StartInductive
<1>2. CASE \E v \in Nodes : Descend(v)
  BY <1>2, DescendInductive
<1>3. CASE \E v \in Nodes : PassBy(v)
  BY <1>3, PassByInductive
<1>4. CASE \E v \in Nodes : CloseCycle(v)
  BY <1>4, CloseInductive
<1>5. CASE Backtrack
  BY <1>5, BacktrackInductive
<1>6. CASE GiveUp
  BY <1>6, GiveUpInductive
<1>7. CASE UNCHANGED vars
  <2>1. UNCHANGED <<links, pc, color, stack, rest, chain>>
    BY <1>7 DEF vars
  <2>2. TypeOK' /\ RestIsSucc' /\ StackIsPath' /\ LookedAt' = LookedAt /\ Black' = Black
    BY <2>1, SameGraph DEF IInv, TypeOK, RestIsSucc, StackIsPath, LookedAt, Black
  <2>3. ReportedCycleIsReal'
    BY <2>1 DEF IInv, ReportedCycleIsReal, IsCycle
  <2> QED  BY <2>1, <2>2, <2>3, SameBlack, SameGraph DEF IInv
<1> QED  BY <1>1, <1>2, <1>3, <1>4, <1>5, <1>6, <1>7 DEF Next, Finished

-----------------------------------------------------------------------------
(* The search keeps its types, and its stack and colours agree. *)
THEOREM SearchTypeCorrect == Spec => []TypeOK
<1>1. IInv => TypeOK
  BY DEF IInv
<1> QED  BY <1>1, InitIInv, NextIInv, PTL DEF Spec

(* Soundness: a cycle that validate() reports is one, for every chip. *)
THEOREM SearchIsSound == Spec => []ReportedCycleIsReal
<1>1. IInv => ReportedCycleIsReal
  BY DEF IInv
<1> QED  BY <1>1, InitIInv, NextIInv, PTL DEF Spec

(* Completeness: a chip whose links validate() accepts has no cycle. *)
THEOREM SearchIsComplete == Spec => []AcceptedIsAcyclic
<1>1. IInv => AcceptedIsAcyclic
  BY DEF IInv, AcceptedIsAcyclic
<1> QED  BY <1>1, InitIInv, NextIInv, PTL DEF Spec
=============================================================================
