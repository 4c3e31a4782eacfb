--------------------------- MODULE FrontendProofs ---------------------------
(***************************************************************************)
(* What lower(parse(text), chip) guarantees for every text and every graph *)
(* built by hand: what is proved of module Lowering holds of both, and the *)
(* list is ordered as the inputs of the text's operations demand.          *)
(***************************************************************************)
EXTENDS Frontend, LoweringProofs, SequenceTheorems

IsLinalg(p) == Body[p].name \in Linalg

(* As long as parse() has operations to read, lower() has not begun. *)
Unread ==
  /\ text # None => IsText(text)
  /\ cursor \in DOMAIN Body => Fresh \/ pc \notin {"lower", "done"}

(* The ops of the graph are the linalg operations that have been read, in  *)
(* the order of the text, each with the ops that produce its inputs.       *)
InTextOrder ==
  \A p, q \in DOMAIN Body :
    p < q /\ produced[p] # 0 /\ produced[q] # 0 => produced[p] < produced[q]

Translated(p) ==
  \A k \in {produced[p]} :
    /\ Op(k).kind \in {"add", "matmul"}
    /\ \A i \in Operand :
         LET v == Body[p].operands[i] IN Source(k, i) = IF v = 0 THEN 0 ELSE produced[v]

Read ==
  text # None =>
    /\ cursor \in 1 .. Len(Body) + 1
    /\ produced \in [DOMAIN Body -> 0 .. Len(graph.ops)]
    /\ \A p \in DOMAIN Body : produced[p] # 0 <=> p < cursor /\ IsLinalg(p)
    /\ InTextOrder
    /\ \A k \in Ops : \E p \in DOMAIN Body : produced[p] = k
    /\ \A p \in DOMAIN Body : produced[p] # 0 => Translated(p)

FrontInv == Inv /\ Laid /\ Unread /\ Read

-----------------------------------------------------------------------------
LEMMA BodyFacts ==
  ASSUME IsText(text), text # None
  PROVE  /\ Len(Body) \in Nat /\ DOMAIN Body = 1 .. Len(Body)
         /\ \A p \in DOMAIN Body : /\ Body[p].name \in Linalg \cup {"func.call"}
                                   /\ Body[p].tensors \in [1 .. Work -> Tensor]
                           /\ Body[p].big \in SUBSET (Operand \cup {Out})
         /\ \A p \in DOMAIN Body : IsLinalg(p) =>
              \A i \in Operand : Body[p].operands[i] \in 0 .. p - 1
<1> DEFINE R == [name : Linalg \cup {"func.call"}, operands : Seq(Nat),
                 typed : BOOLEAN, tensors : [1 .. Work -> Tensor],
                 big : SUBSET (Operand \cup {Out})]
<1>1. Body = text.body /\ text.body \in Seq(R)
  BY DEF Body, IsText
<1>2. Len(Body) \in Nat /\ DOMAIN Body = 1 .. Len(Body) /\ \A p \in DOMAIN Body : Body[p] \in R
  <2> HIDE DEF R
  <2> QED  BY <1>1
<1>3. ASSUME NEW p \in DOMAIN Body, IsLinalg(p), NEW i \in Operand
      PROVE  Body[p].operands[i] \in 0 .. p - 1
  <2>1. Len(Body[p].operands) = 3 /\ Body[p].operands \in Seq(Nat)
    BY <1>1, <1>2, <1>3 DEF IsText, IsLinalg
  <2>2. i \in DOMAIN Body[p].operands
    BY <2>1 DEF Operand
  <2> QED  BY <1>1, <2>2 DEF IsText
<1> QED  BY <1>2, <1>3

LEMMA Kinds ==
  /\ DOMAIN KindOf = {"linalg.add", "linalg.matmul"}
  /\ \A n \in DOMAIN KindOf : n \in Linalg /\ KindOf[n] \in {"add", "matmul"}
BY DEF KindOf, Linalg

LEMMA PairIsList ==
  ASSUME NEW S, NEW f \in [1 .. 2 -> S]
  PROVE  f \in Seq(S) /\ Len(f) = 2
<1>1. f \in Seq(S)
  BY SeqDef
<1> QED  BY <1>1

-----------------------------------------------------------------------------
(* Both ways to start: a text, or a graph built by hand. *)
LEMMA FrontInit == ParserInit \/ GraphInit => FrontInv
<1>1. CASE ParserInit
  <2>1. IsText(text) /\ Len(graph.ops) = 0 /\ graph = [ops |-> << >>, link |-> text.link]
        /\ graph.ops = << >> /\ graph.link = text.link
    BY <1>1, TextsAssumption DEF ParserInit
  <2>2. IsGraph(graph)
    BY <2>1 DEF IsGraph, IsText
  <2>3. Fresh
    BY <1>1, <2>1, <2>2 DEF ParserInit, Fresh, Ops
  <2>4. ASSUME text # None PROVE Read
    <3>1. /\ cursor = 1 /\ produced = [p \in DOMAIN Body |-> 0] /\ Ops = {}
          /\ Len(Body) \in Nat /\ DOMAIN Body = 1 .. Len(Body)
      BY <1>1, <2>1, <2>4, BodyFacts DEF ParserInit, Ops
    <3> QED  BY <2>1, <3>1 DEF Read, InTextOrder
  <2> QED  BY <2>1, <2>3, <2>4, FreshInv, LaidFresh DEF FrontInv, Unread, Read
<1>2. CASE GraphInit
  <2>1. text = None /\ Init
    BY <1>2 DEF GraphInit
  <2>2. DOMAIN Body = {}
    BY <2>1 DEF Body
  <2> QED  BY <2>1, <2>2, InitInv, InitLaid DEF FrontInv, Unread, Read
<1> QED  BY <1>1, <1>2

(* An operation parse() reads adds an op to the graph. *)
LEMMA ParseOpStep ==
  ASSUME FrontInv, ParseOp
  PROVE  /\ Fresh' /\ IsText(text) /\ text # None
         /\ cursor \in DOMAIN Body /\ IsLinalg(cursor)
         /\ cursor' = cursor + 1 /\ text' = text /\ Body' = Body
         /\ Position \in Nat /\ Len(graph'.ops) = Position /\ Ops' = 1 .. Position
         /\ produced' = [produced EXCEPT ![cursor] = Position]
         /\ \A k \in Ops : Op(k)' = Op(k)
         /\ \A k \in {Position} :
              /\ Op(k)'.kind \in {"add", "matmul"}
              /\ \A i \in Operand : Source(k, i)' =
                   LET v == Body[cursor].operands[i] IN IF v = 0 THEN 0 ELSE produced[v]
<1> DEFINE c == cursor
           n == Len(graph.ops)
           r == [kind       |-> KindOf[Operation.name],
                 in_sources |-> [i \in Operand |-> SourceOf(i)],
                 tensors    |-> Operation.tensors,
                 big        |-> Operation.big]
           R == [kind : {"add", "matmul", "other"}, in_sources : Seq(0 .. n + 1),
                 tensors : [1 .. Work -> Tensor], big : SUBSET (Operand \cup {Out})]
<1>1. /\ c \in DOMAIN Body /\ pc = "lower" /\ Operation.name \in DOMAIN KindOf
      /\ graph' = [graph EXCEPT !.ops = Append(@, r)]
      /\ produced' = [produced EXCEPT ![c] = Position]
      /\ c' = c + 1 /\ UNCHANGED <<text, pc, at, instrs>>
      /\ storeOf' = [k \in 1 .. Position |-> None]
      /\ computeOf' = [k \in 1 .. Position |-> None]
  BY DEF ParseOp, Parsing
<1>2. text # None
  BY <1>1 DEF Body
<1>3. Fresh /\ IsText(text) /\ Read
  BY <1>1, <1>2 DEF FrontInv, Unread
<1>4. /\ c \in 1 .. Len(Body) /\ Len(Body) \in Nat /\ IsLinalg(c)
      /\ \A i \in Operand : Body[c].operands[i] \in 0 .. c - 1
      /\ Body[c].tensors \in [1 .. Work -> Tensor]
      /\ Body[c].big \in SUBSET (Operand \cup {Out})
  BY <1>1, <1>2, <1>3, BodyFacts, Kinds DEF IsLinalg, Operation
<1>5. /\ IsGraph(graph) /\ n \in Nat /\ Ops = 1 .. n /\ Position = n + 1
  BY <1>3, GraphFacts DEF Fresh, Position
<1>6. \A i \in Operand : SourceOf(i) \in 0 .. n
  <2> SUFFICES ASSUME NEW i \in Operand PROVE SourceOf(i) \in 0 .. n
    OBVIOUS
  <2>1. Body[c].operands[i] \in 0 .. c - 1
    BY <1>4
  <2>2. Body[c].operands[i] # 0 => Body[c].operands[i] \in DOMAIN Body
    BY <1>2, <1>3, <1>4, <2>1, BodyFacts
  <2>3. Body[c].operands[i] # 0 => produced[Body[c].operands[i]] \in 0 .. n
    BY <1>2, <1>3, <2>2 DEF Read
  <2> QED  BY <1>5, <2>3 DEF SourceOf, Operation
<1>7. /\ r.in_sources \in Seq(0 .. n + 1) /\ Len(r.in_sources) = 2
      /\ \A i \in Operand : r.in_sources[i] = SourceOf(i)
  <2> DEFINE f == [i \in Operand |-> SourceOf(i)]
  <2>1. f \in [1 .. 2 -> 0 .. n + 1] /\ \A i \in Operand : f[i] = SourceOf(i)
    BY <1>5, <1>6 DEF Operand
  <2> HIDE DEF f
  <2>2. f \in Seq(0 .. n + 1) /\ Len(f) = 2
    BY <2>1, PairIsList
  <2>3. r.in_sources = f
    BY DEF f
  <2> QED  BY <2>1, <2>2, <2>3
<1>8. /\ r.kind \in {"add", "matmul"} /\ r.tensors \in [1 .. Work -> Tensor]
      /\ r.big \in SUBSET (Operand \cup {Out})
  BY <1>1, <1>4, Kinds DEF Operation
<1>9. r \in [kind : {"add", "matmul", "other"}, in_sources : Seq(0 .. n + 1),
             tensors : [1 .. Work -> Tensor], big : SUBSET (Operand \cup {Out})]
  BY <1>7, <1>8
<1> HIDE DEF r, n
<1>10. graph \in [ops : Seq(R), link : Nat \cup {None}]
  <2> DEFINE Q == [kind : {"add", "matmul", "other"}, in_sources : Seq(0 .. n),
                   tensors : [1 .. Work -> Tensor], big : SUBSET (Operand \cup {Out})]
  <2>1. graph \in [ops : Seq(Q), link : Nat \cup {None}]
    BY <1>5 DEF IsGraph, n
  <2>2. Q \subseteq R
    <3>1. Seq(0 .. n) \subseteq Seq(0 .. n + 1)
      BY <1>5
    <3> QED  BY <3>1
  <2> HIDE DEF Q, R
  <2>3. Seq(Q) \subseteq Seq(R)
    BY <2>2
  <2> QED  BY <2>1, <2>3
<1>11. r \in R
  BY <1>9
<1> HIDE DEF R
<1>12. /\ graph'.ops = Append(graph.ops, r) /\ graph'.link = graph.link
       /\ graph' \in [ops : Seq(R), link : Nat \cup {None}]
  <2>1. Append(graph.ops, r) \in Seq(R)
    BY <1>10, <1>11
  <2>2. graph' = [graph EXCEPT !.ops = Append(graph.ops, r)]
    BY <1>1
  <2> DEFINE X == Append(graph.ops, r)
             S == Seq(R)
             T == Nat \cup {None}
  <2>3. X \in S /\ graph \in [ops : S, link : T] /\ graph' = [graph EXCEPT !.ops = X]
    BY <1>10, <2>1, <2>2
  <2> HIDE DEF X, S, T
  <2>4. graph'.ops = X /\ graph'.link = graph.link /\ graph' \in [ops : S, link : T]
    BY <2>3
  <2> QED  BY <2>4 DEF X, S, T
<1>13. /\ Len(graph'.ops) = n + 1 /\ graph'.ops[n + 1] = r
       /\ \A k \in 1 .. n : graph'.ops[k] = graph.ops[k]
  BY <1>10, <1>11, <1>12 DEF n
<1>14. IsGraph(graph')
  <2>1. \A k \in 1 .. n + 1 : Len(graph'.ops[k].in_sources) <= 2
    <3>1. \A k \in 1 .. n : Len(graph.ops[k].in_sources) <= 2
      BY <1>5 DEF IsGraph, n
    <3>2. \A k \in 1 .. n + 1 : k = n + 1 \/ k \in 1 .. n
      BY <1>5
    <3>3. graph'.ops[n + 1] = r /\ Len(r.in_sources) = 2
      BY <1>7, <1>13
    <3>4. ASSUME NEW k \in 1 .. n + 1 PROVE Len(graph'.ops[k].in_sources) <= 2
      <4>1. CASE k = n + 1
        <5>1. Len(graph'.ops[k].in_sources) = 2
          BY <3>3, <4>1, Zenon
        <5> QED  BY <5>1
      <4>2. CASE k \in 1 .. n
          <5>1. graph'.ops[k] = graph.ops[k]
          BY <1>13, <4>2
        <5> QED  BY <3>1, <4>2, <5>1
      <4> QED  BY <3>2, <4>1, <4>2
    <3> QED  BY <3>4
  <2> QED  BY <1>12, <1>13, <2>1 DEF IsGraph, R
<1>15. Fresh'
  <2>1. Ops' = 1 .. Position
    BY <1>5, <1>13 DEF Ops
  <2> QED  BY <1>1, <1>3, <1>14, <2>1 DEF Fresh
<1>16. /\ \A k \in Ops : Op(k)' = Op(k)
       /\ \A k \in {Position} : Op(k)' = r
  BY <1>5, <1>13 DEF Op
<1>17. ASSUME NEW k \in {Position}
       PROVE  /\ Op(k)'.kind \in {"add", "matmul"}
              /\ \A i \in Operand : Source(k, i)' = SourceOf(i)
  <2>1. Op(k)' = r
    BY <1>16
  <2>2. \A i \in Operand : Source(k, i)' = r.in_sources[i]
    BY <1>7, <2>1 DEF Source, Operand
  <2> QED  BY <1>7, <1>8, <2>1, <2>2
<1> QED
  BY <1>1, <1>2, <1>3, <1>4, <1>5, <1>13, <1>15, <1>16, <1>17 DEF SourceOf, Operation, Body, Ops

LEMMA ParseOpKeeps == FrontInv /\ ParseOp => FrontInv'
<1> SUFFICES ASSUME FrontInv, ParseOp PROVE FrontInv'
  OBVIOUS
<1> DEFINE c == cursor
           n == Position
<1>1. /\ Fresh' /\ IsText(text) /\ text # None
      /\ c \in DOMAIN Body /\ IsLinalg(c)
      /\ cursor' = c + 1 /\ text' = text /\ Body' = Body
      /\ n \in Nat /\ Len(graph'.ops) = n /\ Ops' = 1 .. n
      /\ produced' = [produced EXCEPT ![c] = n]
      /\ \A k \in Ops : Op(k)' = Op(k)
      /\ \A k \in {n} :
           /\ Op(k)'.kind \in {"add", "matmul"}
           /\ \A i \in Operand : Source(k, i)' =
                LET v == Body[c].operands[i] IN IF v = 0 THEN 0 ELSE produced[v]
  BY ParseOpStep
<1>2. Inv' /\ Laid'
  BY <1>1, FreshInv, LaidFresh, PTL
<1>3. Unread'
  BY <1>1 DEF Unread
<1>4. /\ Len(Body) \in Nat /\ DOMAIN Body = 1 .. Len(Body) /\ c \in 1 .. Len(Body)
      /\ \A p \in DOMAIN Body : IsLinalg(p) =>
           \A i \in Operand : Body[p].operands[i] \in 0 .. p - 1
  BY <1>1, BodyFacts
<1>5. /\ produced \in [DOMAIN Body -> 0 .. n - 1] /\ Ops = 1 .. n - 1 /\ n # 0
      /\ \A p \in DOMAIN Body : produced[p] # 0 <=> p < c /\ IsLinalg(p)
      /\ InTextOrder
      /\ \A k \in Ops : \E p \in DOMAIN Body : produced[p] = k
      /\ \A p \in DOMAIN Body : produced[p] # 0 => Translated(p)
  BY <1>1 DEF FrontInv, Read, Position, Ops
<1> HIDE DEF n, c
<1>6. /\ produced'[c] = n
      /\ \A p \in DOMAIN Body : p # c => produced'[p] = produced[p]
      /\ produced' \in [DOMAIN Body -> 0 .. n]
  BY <1>1, <1>4, <1>5
<1>7. \A p \in DOMAIN Body : produced'[p] # 0 <=> p < cursor' /\ IsLinalg(p)
  <2> SUFFICES ASSUME NEW p \in DOMAIN Body
               PROVE  produced'[p] # 0 <=> p < c + 1 /\ IsLinalg(p)
    BY <1>1
  <2>1. p \in Nat /\ c \in Nat
    BY <1>4
  <2>2. CASE p = c
    BY <1>1, <1>5, <1>6, <2>1, <2>2
  <2>3. CASE p # c
    <3>1. p < c <=> p < c + 1
      BY <2>1, <2>3
    <3> QED  BY <1>5, <1>6, <2>3, <3>1
  <2> QED  BY <2>2, <2>3
<1>8. InTextOrder'
  <2> SUFFICES ASSUME NEW p \in DOMAIN Body, NEW q \in DOMAIN Body,
                      p < q, produced'[p] # 0, produced'[q] # 0
               PROVE  produced'[p] < produced'[q]
    BY <1>1 DEF InTextOrder
  <2>1. p \in Nat /\ q \in Nat /\ c \in Nat /\ p <= c /\ q <= c
    BY <1>1, <1>4, <1>7
  <2>2. p # c /\ produced'[p] = produced[p] /\ produced[p] \in 0 .. n - 1
    BY <1>5, <1>6, <2>1
  <2>3. CASE q = c
    BY <1>1, <1>6, <2>2, <2>3
  <2>4. CASE q # c
    BY <1>5, <1>6, <2>2, <2>4 DEF InTextOrder
  <2> QED  BY <2>3, <2>4
<1>9. \A k \in Ops' : \E p \in DOMAIN Body : produced'[p] = k
  <2> SUFFICES ASSUME NEW k \in 1 .. n PROVE \E p \in DOMAIN Body : produced'[p] = k
    BY <1>1
  <2>1. CASE k = n
    BY <1>1, <1>6, <2>1
  <2>2. CASE k \in 1 .. n - 1
    <3>1. PICK p \in DOMAIN Body : produced[p] = k
      BY <1>5, <2>2
    <3>2. p # c
      BY <1>4, <1>5, <2>2, <3>1
    <3> QED  BY <1>6, <3>1, <3>2
  <2> QED  BY <1>1, <2>1, <2>2
<1>10. ASSUME NEW p \in DOMAIN Body, produced'[p] # 0 PROVE Translated(p)'
  <2>1. \A i \in Operand : Body[p].operands[i] \in 0 .. p - 1
    BY <1>4, <1>7, <1>10
  <2>2. p <= c
    BY <1>1, <1>4, <1>7, <1>10
  <2>3. \A i \in Operand : LET v == Body[p].operands[i] IN v # 0 => produced'[v] = produced[v]
    BY <1>4, <1>6, <2>1, <2>2
  <2>4. CASE p = c
    BY <1>1, <1>6, <2>3, <2>4 DEF Translated
  <2>5. CASE p # c
    <3>1. Translated(p) /\ produced'[p] = produced[p] /\ produced[p] \in Ops
      BY <1>5, <1>6, <1>10, <2>5
    <3>2. ASSUME NEW k \in {produced[p]}
          PROVE  Op(k)' = Op(k) /\ \A i \in Operand : Source(k, i)' = Source(k, i)
      <4>1. Op(k)' = Op(k)
        BY <1>1, <3>1
      <4> QED  BY <4>1 DEF Source
    <3> QED  BY <1>1, <2>3, <3>1, <3>2 DEF Translated
  <2> QED  BY <2>4, <2>5
<1> QED
  BY <1>1, <1>2, <1>3, <1>4, <1>6, <1>7, <1>8, <1>9, <1>10 DEF FrontInv, Read, IsLinalg

LEMMA SkipOpKeeps == FrontInv /\ SkipOp => FrontInv'
<1> SUFFICES ASSUME FrontInv, SkipOp PROVE FrontInv'
  OBVIOUS
<1>1. /\ cursor \in DOMAIN Body /\ pc = "lower" /\ ~IsLinalg(cursor)
      /\ cursor' = cursor + 1 /\ UNCHANGED <<text, produced>> /\ UNCHANGED vars /\ Body' = Body
  BY DEF SkipOp, Parsing, IsLinalg, Operation, Body
<1>2. UNCHANGED <<graph, pc, at, instrs, storeOf, computeOf>> /\ Ops' = Ops
  BY <1>1 DEF vars, Ops
<1>3. text # None /\ IsText(text) /\ Fresh
  BY <1>1 DEF FrontInv, Unread, Body
<1>4. /\ Len(Body) \in Nat /\ DOMAIN Body = 1 .. Len(Body)
  BY <1>3, BodyFacts
<1>5. Fresh'
  BY <1>2, <1>3 DEF Fresh
<1>6. Inv' /\ Laid'
  BY <1>5, FreshInv, LaidFresh, PTL
<1>7. Unread'
  BY <1>1, <1>3, <1>5 DEF Unread
<1>8. \A p \in DOMAIN Body : p < cursor + 1 /\ IsLinalg(p) <=> p < cursor /\ IsLinalg(p)
  <2> SUFFICES ASSUME NEW p \in DOMAIN Body, p # cursor PROVE p < cursor + 1 <=> p < cursor
    BY <1>1, <1>4
  <2> QED  BY <1>1, <1>4
<1>9. \A p \in DOMAIN Body : Translated(p)' <=> Translated(p)
  BY <1>1, <1>2 DEF Translated, Op, Source
<1>10. Read'
  <2>1. cursor' \in 1 .. Len(Body) + 1
    BY <1>1, <1>4
  <2> QED  BY <1>1, <1>2, <1>3, <1>8, <1>9, <2>1 DEF FrontInv, Read, InTextOrder, IsLinalg
<1> QED  BY <1>6, <1>7, <1>10 DEF FrontInv

(* What has been read stays read. *)
LEMMA ReadStays ==
  ASSUME Read, graph' = graph, UNCHANGED parserVars
  PROVE  Read'
<1>1. UNCHANGED <<text, cursor, produced>> /\ Body' = Body /\ Ops' = Ops
  BY DEF parserVars, Body, Ops
<1>2. \A p : Translated(p)' <=> Translated(p)
  BY <1>1 DEF Translated, Op, Source
<1> QED  BY <1>1, <1>2 DEF Read, InTextOrder, IsLinalg

LEMMA ParseFailsKeeps == FrontInv /\ ParseFails => FrontInv'
<1> SUFFICES ASSUME FrontInv, ParseFails PROVE FrontInv'
  OBVIOUS
<1>1. /\ cursor \in DOMAIN Body /\ pc = "lower" /\ pc' \in {"ValueError", "NotImplementedError"}
      /\ instrs' = << >> /\ UNCHANGED <<graph, at, storeOf, computeOf>> /\ UNCHANGED parserVars
  BY DEF ParseFails, Parsing, Raise
<1>2. Fresh
  BY <1>1 DEF FrontInv, Unread
<1>3. /\ Ops' = Ops /\ Index' = {} /\ at' = 1
      /\ \A k \in Ops : ~(k < 1)
  BY <1>1, <1>2, GraphFacts DEF Fresh, Ops, Index
<1>4. TypeOK'
  BY <1>1, <1>3 DEF FrontInv, Inv, TypeOK, Outcomes
<1>5. Inv'
  BY <1>1, <1>3, <1>4 DEF Inv, Recorded, ProducersFirst, Behind, ResolvesAll
<1>6. Laid' /\ Unread'
  BY <1>1 DEF FrontInv, Laid, Unread, parserVars
<1> QED  BY <1>1, <1>5, <1>6, ReadStays DEF FrontInv

LEMMA LowerKeeps == FrontInv /\ Lower => FrontInv'
<1> SUFFICES ASSUME FrontInv, Lower PROVE FrontInv'
  OBVIOUS
<1>1. ~Parsing /\ Next /\ UNCHANGED parserVars /\ graph' = graph
  BY DEF Lower, Next, LowerAdd, LowerMatmul, Return, RaiseValueError, RaiseKeyError,
         RaiseNotImplemented, Raise, Finished, vars
<1>2. Inv' /\ Laid'
  BY <1>1, NextInv, LaidNext DEF FrontInv
<1>3. Unread'
  <2>1. UNCHANGED <<text, cursor>> /\ Body' = Body
    BY <1>1 DEF parserVars, Body
  <2>2. ASSUME cursor \in DOMAIN Body PROVE pc' \notin {"lower", "done"}
    <3>1. pc \notin {"lower", "done"}
      BY <1>1, <2>2 DEF Parsing, FrontInv, Unread, Fresh
    <3> QED
      BY <1>1, <3>1 DEF Next, LowerAdd, LowerMatmul, Return, RaiseValueError, RaiseKeyError,
                        RaiseNotImplemented, Finished, vars
  <2> QED  BY <2>1, <2>2 DEF FrontInv, Unread
<1> QED  BY <1>1, <1>2, <1>3, ReadStays DEF FrontInv

LEMMA FrontNext == FrontInv /\ [FrontendNext]_<<vars, parserVars>> => FrontInv'
<1> SUFFICES ASSUME FrontInv, UNCHANGED <<vars, parserVars>> PROVE FrontInv'
  BY ParseOpKeeps, SkipOpKeeps, ParseFailsKeeps, LowerKeeps DEF FrontendNext
<1>1. UNCHANGED parserVars /\ UNCHANGED vars
  OBVIOUS
<1>2. UNCHANGED <<graph, pc, at, instrs, storeOf, computeOf>> /\ UNCHANGED <<text, cursor>>
      /\ Body' = Body /\ Ops' = Ops
  BY <1>1 DEF vars, parserVars, Body, Ops
<1>3. Inv' /\ Laid'
  BY <1>1, NextInv, LaidNext DEF FrontInv
<1>4. Unread'
  BY <1>2 DEF FrontInv, Unread, Fresh
<1> QED  BY <1>1, <1>2, <1>3, <1>4, ReadStays DEF FrontInv

LEMMA FrontInvariance == FrontendSpec => []FrontInv
BY FrontInit, FrontNext, PTL DEF FrontendSpec

-----------------------------------------------------------------------------
(* Whether its graph was parsed or built by hand, lower() keeps what is    *)
(* proved of it: its types, the order of the list, the lookups that cannot *)
(* fail, the data flow and where the results go.                           *)
THEOREM FrontendKeepsLowering ==
  FrontendSpec => [](TypeOK /\ ProducersFirst /\ ResolvesAll /\ DataflowKept /\ StoredOrStreamed)
<1>1. FrontInv => TypeOK /\ ProducersFirst /\ ResolvesAll /\ DataflowKept /\ StoredOrStreamed
  BY DataflowLaid, StoredLaid DEF FrontInv, Inv
<1> QED  BY <1>1, FrontInvariance, PTL

(* The graph of any text is in execution order, so that lowering it raises *)
(* no KeyError: parse() only ever names ops it has appended before.        *)
THEOREM ParsedGraphsAreInOrder == FrontendSpec => []ParsedGraphsLower
<1>1. FrontInv => ParsedGraphsLower
  <2> SUFFICES ASSUME FrontInv, text # None
               PROVE  IsGraph(graph) /\ InOrder /\ pc # "KeyError"
    BY DEF ParsedGraphsLower
  <2>1. IsGraph(graph) /\ IsText(text) /\ Read /\ ResolvesAll
    BY DEF FrontInv, Inv, TypeOK, Unread
  <2>2. ASSUME NEW k \in Ops, NEW i \in Operand PROVE Source(k, i) < k
    <3>1. PICK p \in DOMAIN Body : produced[p] = k
      BY <2>1 DEF Read
    <3>2. k \in Nat /\ k # 0
      BY <2>1, GraphFacts
    <3> DEFINE v == Body[p].operands[i]
    <3>3. IsLinalg(p) /\ Source(k, i) = IF v = 0 THEN 0 ELSE produced[v]
      BY <2>1, <3>1, <3>2 DEF Read, Translated
    <3>4. v \in 0 .. p - 1 /\ (v # 0 => v \in DOMAIN Body /\ v < p)
      BY <2>1, <3>3, BodyFacts
    <3>5. v # 0 /\ produced[v] # 0 => produced[v] < k
      BY <2>1, <3>1, <3>2, <3>4 DEF Read, InTextOrder
    <3> QED  BY <3>2, <3>3, <3>5
  <2> QED  BY <2>1, <2>2 DEF InOrder, ResolvesAll
<1> QED  BY <1>1, FrontInvariance, PTL

-----------------------------------------------------------------------------
(* The inputs of the text's operations, followed back through the text.    *)

Inputs(p) == {q \in ReadsOf(p) : IsLinalg(q)}

LEMMA EmptyShares ==
  ASSUME NEW f, NEW R, NEW W, W \subseteq R, \A q \in R \ W : f[q] = {}
  PROVE  UNION {f[q] : q \in R} = UNION {f[q] : q \in W}
<1>1. UNION {f[q] : q \in W} \subseteq UNION {f[q] : q \in R}
  OBVIOUS
<1>2. ASSUME NEW x \in UNION {f[q] : q \in R} PROVE x \in UNION {f[q] : q \in W}
  <2>1. PICK q \in R : x \in f[q]
    OBVIOUS
  <2>2. q \in W
    BY <2>1
  <2> QED  BY <2>1, <2>2
<1> QED  BY <1>1, <1>2

LEMMA ReadsReach ==
  ASSUME IsText(text), text # None,
         NEW n, n = Len(Body), NEW w, w = [p \in DOMAIN Body |-> Inputs(p)]
  PROVE  /\ n \in Nat /\ DOMAIN Body = 1 .. n /\ \A p \in 1 .. n : w[p] \subseteq 1 .. p - 1
         /\ \A p \in DOMAIN Body : Reads[p] = Reach(n, w, p)
<1>1. n \in Nat /\ DOMAIN Body = 1 .. n
  BY BodyFacts
<1>2. \A p \in 1 .. n : ReadsOf(p) \subseteq 1 .. p - 1
  <2> SUFFICES ASSUME NEW p \in 1 .. n, IsLinalg(p), NEW i \in Operand, Body[p].operands[i] # 0
               PROVE  Body[p].operands[i] \in 1 .. p - 1
    BY DEF ReadsOf, IsLinalg
  <2>1. Body[p].operands[i] \in 0 .. p - 1
    BY <1>1, BodyFacts
  <2> QED  BY <2>1
<1>3. \A p \in 1 .. n : w[p] = Inputs(p) /\ w[p] \subseteq 1 .. p - 1 /\ w[p] \subseteq ReadsOf(p)
  BY <1>1, <1>2 DEF Inputs
<1>4. \A p \in 1 .. n : \A q \in ReadsOf(p) \ w[p] : q \in 1 .. n /\ w[q] = {} /\ ReadsOf(q) = {}
  BY <1>1, <1>2, <1>3 DEF Inputs, ReadsOf, IsLinalg
<1> DEFINE h == [p \in 1 .. n |-> Reach(n, w, p)]
           Eqn(g) == g = [p \in DOMAIN Body |->
                            {q \in ReadsOf(p) : Body[q].name \in Linalg}
                              \cup UNION {g[q] : q \in ReadsOf(p)}]
<1>5. \A p \in DOMAIN Body : {q \in ReadsOf(p) : Body[q].name \in Linalg} = w[p]
  BY <1>1, <1>3 DEF Inputs, IsLinalg
<1>6. Eqn(h)
  <2>1. h = [p \in 1 .. n |-> h[p]] /\ h = [p \in 1 .. n |-> Reach(n, w, p)]
    OBVIOUS
  <2> HIDE DEF h
  <2>2. Solves(n, w, h)
    BY <1>1, <1>3, <2>1, ReachSolves
  <2>3. ASSUME NEW p \in 1 .. n PROVE h[p] = w[p] \cup UNION {h[q] : q \in ReadsOf(p)}
    <3>1. h[p] = w[p] \cup UNION {h[q] : q \in w[p]}
      BY <2>2 DEF Solves
    <3>2. \A q \in ReadsOf(p) \ w[p] : h[q] = {}
      <4> SUFFICES ASSUME NEW q \in ReadsOf(p) \ w[p] PROVE h[q] = {}
        OBVIOUS
      <4>1. q \in 1 .. n /\ w[q] = {}
        BY <1>4
      <4>2. h[q] = w[q] \cup UNION {h[j] : j \in w[q]}
        BY <2>2, <4>1 DEF Solves
      <4>3. {h[j] : j \in w[q]} = {}
        BY <4>1
      <4> QED  BY <4>1, <4>2, <4>3
    <3>3. UNION {h[q] : q \in ReadsOf(p)} = UNION {h[q] : q \in w[p]}
      <4> DEFINE R == ReadsOf(p)
                 W == w[p]
      <4>1. W \subseteq R /\ \A q \in R \ W : h[q] = {}
        BY <1>3, <3>2
      <4> HIDE DEF R, W
      <4>2. UNION {h[q] : q \in R} = UNION {h[q] : q \in W}
        BY <4>1, EmptyShares
      <4> QED  BY <4>2 DEF R, W
    <3> QED  BY <3>1, <3>3
  <2> QED  BY <1>1, <1>5, <2>1, <2>3
<1>7. Reads = CHOOSE g : Eqn(g)
  BY DEF Reads
<1>8. Eqn(Reads)
  <2> HIDE DEF Eqn, h
  <2> QED  BY <1>6, <1>7, Zenon
<1>9. \A p \in 1 .. n : Reads[p] = w[p] \cup UNION {Reads[q] : q \in ReadsOf(p)}
  BY <1>1, <1>5, <1>8
<1>10. \A p \in 1 .. n : Reads[p] = Reach(n, w, p)
  <2> DEFINE f == Reads
  <2> HIDE DEF f
  <2>1. ASSUME NEW p \in 1 .. n PROVE f[p] = w[p] \cup UNION {f[q] : q \in w[p]}
    <3>1. f[p] = w[p] \cup UNION {f[q] : q \in ReadsOf(p)}
      BY <1>9 DEF f
    <3>2. \A q \in ReadsOf(p) \ w[p] : f[q] = {}
      <4> SUFFICES ASSUME NEW q \in ReadsOf(p) \ w[p] PROVE f[q] = {}
        OBVIOUS
      <4>1. q \in 1 .. n /\ w[q] = {} /\ ReadsOf(q) = {}
        BY <1>4
      <4>2. f[q] = w[q] \cup UNION {f[j] : j \in ReadsOf(q)}
        BY <1>9, <4>1 DEF f
      <4>3. {f[j] : j \in ReadsOf(q)} = {}
        BY <4>1
      <4> QED  BY <4>1, <4>2, <4>3
    <3>3. UNION {f[q] : q \in ReadsOf(p)} = UNION {f[q] : q \in w[p]}
      <4> DEFINE R == ReadsOf(p)
                 W == w[p]
      <4>1. W \subseteq R /\ \A q \in R \ W : f[q] = {}
        BY <1>3, <3>2
      <4> HIDE DEF R, W
      <4>2. UNION {f[q] : q \in R} = UNION {f[q] : q \in W}
        BY <4>1, EmptyShares
      <4> QED  BY <4>2 DEF R, W
    <3> QED  BY <3>1, <3>3
  <2>2. Solves(n, w, f)
    BY <2>1 DEF Solves
  <2>3. \A p \in 1 .. n : f[p] = Reach(n, w, p)
    BY <1>1, <1>3, <2>2, ReachIsUnique
  <2> QED  BY <2>3 DEF f
<1> QED  BY <1>1, <1>3, <1>10

(* When lower() returns, every linalg operation of the text has its op, and*)
(* that has the operation's inputs for its sources.                        *)
LEMMA AllRead ==
  ASSUME FrontInv, text # None, pc = "done"
  PROVE  /\ IsText(text) /\ InTextOrder
         /\ \A p \in DOMAIN Body : IsLinalg(p) <=> produced[p] # 0
         /\ \A p \in DOMAIN Body : IsLinalg(p) =>
              /\ produced[p] \in Ops
              /\ \A k \in {produced[p]} : Sources(k) = {produced[v] : v \in Inputs(p)}
         /\ \A k \in Ops : \E p \in DOMAIN Body : IsLinalg(p) /\ produced[p] = k
<1>1. IsText(text) /\ cursor \notin DOMAIN Body /\ Read
  BY DEF FrontInv, Unread, Fresh
<1>2. Len(Body) \in Nat /\ DOMAIN Body = 1 .. Len(Body) /\ cursor \in 1 .. Len(Body) + 1
  BY <1>1, BodyFacts DEF Read
<1>3. \A p \in DOMAIN Body : p < cursor
  BY <1>1, <1>2
<1>4. \A p \in DOMAIN Body : IsLinalg(p) <=> produced[p] # 0
  BY <1>1, <1>3 DEF Read
<1>5. Ops = 1 .. Len(graph.ops) /\ Len(graph.ops) \in Nat
  BY GraphFacts DEF FrontInv, Inv, TypeOK
<1>6. \A p \in DOMAIN Body : IsLinalg(p) => produced[p] \in Ops
  BY <1>1, <1>4, <1>5 DEF Read
<1>7. \A k \in Ops : \E p \in DOMAIN Body : IsLinalg(p) /\ produced[p] = k
  <2> SUFFICES ASSUME NEW k \in Ops PROVE \E p \in DOMAIN Body : IsLinalg(p) /\ produced[p] = k
    OBVIOUS
  <2>1. k # 0
    BY <1>5
  <2>2. PICK p \in DOMAIN Body : produced[p] = k
    BY <1>1 DEF Read
  <2> QED  BY <1>4, <2>1, <2>2
<1>8. ASSUME NEW p \in DOMAIN Body, IsLinalg(p), NEW k \in {produced[p]}
      PROVE  Sources(k) = {produced[v] : v \in Inputs(p)}
  <2>1. \A i \in Operand : /\ Body[p].operands[i] \in 0 .. p - 1
                           /\ Source(k, i) = IF Body[p].operands[i] = 0 THEN 0
                                             ELSE produced[Body[p].operands[i]]
    BY <1>1, <1>4, <1>8, BodyFacts DEF Read, Translated
  <2>2. ReadsOf(p) = {Body[p].operands[i] : i \in Operand} \ {0}
    BY <1>8 DEF ReadsOf, IsLinalg
  <2>3. \A v \in ReadsOf(p) : v \in DOMAIN Body
    BY <1>2, <2>1, <2>2
  <2>4. \A v \in ReadsOf(p) : v \in Inputs(p) <=> produced[v] # 0
    BY <1>4, <2>3 DEF Inputs
  <2>5. ASSUME NEW i \in Operand, Source(k, i) # 0
        PROVE  \E v \in Inputs(p) : Source(k, i) = produced[v]
    BY <2>1, <2>2, <2>4, <2>5
  <2>6. ASSUME NEW v \in Inputs(p)
        PROVE  produced[v] # 0 /\ \E i \in Operand : Source(k, i) = produced[v]
    <3>1. v \in ReadsOf(p)
      BY DEF Inputs
    <3> QED  BY <2>1, <2>2, <2>4, <3>1
  <2> QED  BY <2>5, <2>6 DEF Sources
<1> QED  BY <1>1, <1>4, <1>6, <1>7, <1>8 DEF Read

(* The graph makes one computation depend on another exactly if the text   *)
(* makes the one operation read, through others, the other's result.       *)
LEMMA OrdersMatch ==
  ASSUME FrontInv, text # None, pc = "done",
         NEW p \in DOMAIN Body, IsLinalg(p), NEW q \in DOMAIN Body, IsLinalg(q)
  PROVE  produced[q] \in Ancestors[produced[p]] <=> q \in Reads[p]
<1> DEFINE n == Len(Body)
           w == [x \in DOMAIN Body |-> Inputs(x)]
           N == Len(graph.ops)
           A == [k \in Ops |-> Sources(k)]
           k == produced[p]
<1>1. /\ IsText(text) /\ InTextOrder
      /\ \A x \in DOMAIN Body : IsLinalg(x) <=> produced[x] # 0
      /\ \A x \in DOMAIN Body : IsLinalg(x) => produced[x] \in Ops
      /\ \A x \in DOMAIN Body : IsLinalg(x) => A[produced[x]] = {produced[v] : v \in Inputs(x)}
  BY AllRead
<1>2. /\ n \in Nat /\ DOMAIN Body = 1 .. n /\ \A x \in 1 .. n : w[x] \subseteq 1 .. x - 1
      /\ \A x \in DOMAIN Body : Reads[x] = Reach(n, w, x) /\ w[x] = Inputs(x)
  BY <1>1, ReadsReach
<1>3. /\ N \in Nat /\ Ops = 1 .. N /\ \A x \in 1 .. N : A[x] \subseteq 1 .. x - 1
      /\ \A x \in Ops : Ancestors[x] = Reach(N, A, x)
  BY AncestorsReach DEF FrontInv
<1>4. \A x \in DOMAIN Body : Inputs(x) \subseteq DOMAIN Body /\ \A v \in Inputs(x) : IsLinalg(v)
  BY <1>2 DEF Inputs
<1>5. \A x, y \in DOMAIN Body : IsLinalg(x) /\ IsLinalg(y) /\ produced[x] = produced[y] => x = y
  <2> SUFFICES ASSUME NEW x \in DOMAIN Body, NEW y \in DOMAIN Body, IsLinalg(x), IsLinalg(y),
                      produced[x] = produced[y]
               PROVE  x = y
    OBVIOUS
  <2>1. produced[x] \in Nat /\ produced[y] \in Nat /\ x \in Nat /\ y \in Nat
    BY <1>1, <1>2, <1>3
  <2>2. ~(produced[x] < produced[y]) /\ ~(produced[y] < produced[x])
    BY <2>1
  <2>3. ~(x < y) /\ ~(y < x)
    BY <1>1, <2>2 DEF InTextOrder
  <2> QED  BY <2>1, <2>3
<1>6. k \in Ops /\ A[k] = {produced[v] : v \in Inputs(p)}
  BY <1>1
<1> HIDE DEF n, w, N, A, k
<1>7. ASSUME q \in Reach(n, w, p) PROVE produced[q] \in Reach(N, A, k)
  <2> DEFINE T == {x \in 1 .. n : IsLinalg(x) /\ produced[x] \in Reach(N, A, k)}
  <2>1. /\ A[k] \subseteq Reach(N, A, k)
        /\ \A x \in Reach(N, A, k) : A[x] \subseteq Reach(N, A, k)
    BY <1>3, <1>6, ReachIsClosed
  <2>2. w[p] \subseteq T
    BY <1>2, <1>4, <1>6, <2>1
  <2>3. ASSUME NEW x \in T PROVE w[x] \subseteq T
    <3>1. A[produced[x]] = {produced[v] : v \in Inputs(x)} /\ A[produced[x]] \subseteq Reach(N, A, k)
      BY <1>1, <1>2, <2>1
    <3> QED  BY <1>2, <1>4, <3>1
  <2>4. Reach(n, w, p) \subseteq T
    <3> HIDE DEF T
    <3>1. T \in SUBSET (1 .. n)
      BY DEF T
    <3> QED  BY <2>2, <2>3, <3>1, ReachIsLeast
  <2> QED  BY <1>7, <2>4
<1>8. ASSUME produced[q] \in Reach(N, A, k) PROVE q \in Reach(n, w, p)
  <2> DEFINE T == {produced[x] : x \in {y \in Reach(n, w, p) : IsLinalg(y)}}
  <2>1. /\ Reach(n, w, p) \subseteq 1 .. n
        /\ w[p] \subseteq Reach(n, w, p)
        /\ \A x \in Reach(n, w, p) : w[x] \subseteq Reach(n, w, p)
    BY <1>2, ReachIsClosed
  <2>2. A[k] \subseteq T
    BY <1>2, <1>4, <1>6, <2>1
  <2>3. ASSUME NEW s \in T PROVE A[s] \subseteq T
    <3>1. PICK x \in Reach(n, w, p) : IsLinalg(x) /\ s = produced[x]
      OBVIOUS
    <3>2. x \in DOMAIN Body /\ w[x] = Inputs(x) /\ w[x] \subseteq Reach(n, w, p)
      BY <1>2, <2>1
    <3>3. A[s] = {produced[v] : v \in Inputs(x)}
      BY <1>1, <3>1, <3>2
    <3> QED  BY <1>4, <3>2, <3>3
  <2>4. T \in SUBSET (1 .. N)
    BY <1>1, <1>2, <1>3, <2>1
  <2>5. produced[q] \in T
    <3> HIDE DEF T
    <3> QED  BY <1>8, <2>2, <2>3, <2>4, ReachIsLeast
  <2>6. PICK x \in Reach(n, w, p) : IsLinalg(x) /\ produced[q] = produced[x]
    BY <2>5
  <2> QED  BY <1>2, <1>5, <2>1, <2>6
<1> QED  BY <1>2, <1>3, <1>6, <1>7, <1>8 DEF k

(* The instructions on the units that compute. *)
LEMMA ComputationsLaid ==
  ASSUME Inv, Laid, pc = "done"
  PROVE  {i \in Index : instrs[i].unit \in {"Vector", "Cube"}} = {computeOf[k] : k \in Ops}
<1>1. \A k \in Ops : Lowered(k)
  BY GraphFacts DEF Laid, Lowered, Inv, TypeOK
<1>2. ASSUME NEW i \in Index, instrs[i].unit \in {"Vector", "Cube"}
      PROVE  \E k \in Ops : i = computeOf[k]
  <2>1. PICK k \in Ops : i \in Part(k)
    BY PartsCover
  <2>2. ~ \E o \in Operand : instrs[i] = LoadInstr(k, o)
    BY <1>2, InstrLoad
  <2>3. ~ \E l \in Part(k), o \in Operand : instrs[i] = Instr("MTE1", TensorOf(k, o), <<l>>)
    <3> SUFFICES ASSUME NEW l \in Part(k), NEW o \in Operand,
                        instrs[i] = Instr("MTE1", TensorOf(k, o), <<l>>)
                 PROVE  FALSE
      OBVIOUS
    <3>1. instrs[i].unit = "MTE1"
      BY DEF Instr
    <3> QED  BY <1>2, <3>1
  <2>4. ~ (i = storeOf[k] /\ storeOf[k] # None)
    BY <1>1, <1>2, PartFacts
  <2> QED  BY <1>1, <2>1, <2>2, <2>3, <2>4, Places
<1>3. ASSUME NEW k \in Ops
      PROVE  computeOf[k] \in Index /\ instrs[computeOf[k]].unit \in {"Vector", "Cube"}
  <2>1. k < at /\ computeOf[k] \in Index
    BY <1>1, PartFacts DEF Lowered
  <2>2. CASE Op(k).kind = "add"
    BY <2>1, <2>2, AddLaid, Zenon
  <2>3. CASE Op(k).kind # "add"
    <3>1. PICK ds : instrs[computeOf[k]] = Instr("Cube", TensorOf(k, Work), ds)
      BY <2>1, <2>3, MatmulLaid
    <3> QED  BY <2>1, <3>1 DEF Instr
  <2> QED  BY <2>1, <2>2, <2>3
<1> QED  BY <1>2, <1>3

(* End to end, for a text of any length: the list computes each linalg     *)
(* operation of the text once, and orders two of these computations exactly*)
(* if the text passes the result of one, through others, to the other.     *)
THEOREM TextsBecomeTheirDataflow == FrontendSpec => []InputsArrive
<1>1. FrontInv => InputsArrive
  <2> DEFINE Computed == {p \in DOMAIN Body : IsLinalg(p)}
  <2> SUFFICES ASSUME FrontInv, text # None, pc = "done"
               PROVE  /\ {i \in Index : instrs[i].unit \in {"Vector", "Cube"}}
                           = {computeOf[produced[p]] : p \in Computed}
                      /\ \A p, q \in Computed :
                           computeOf[produced[q]] \in Upstream[computeOf[produced[p]]]
                             <=> q \in Reads[p]
    BY DEF InputsArrive, IsLinalg
  <2>1. /\ \A p \in Computed : produced[p] \in Ops
        /\ \A k \in Ops : \E p \in Computed : produced[p] = k
    BY AllRead
  <2>2. {computeOf[k] : k \in Ops} = {computeOf[produced[p]] : p \in Computed}
    BY <2>1
  <2>3. {i \in Index : instrs[i].unit \in {"Vector", "Cube"}}
          = {computeOf[produced[p]] : p \in Computed}
    BY <2>2, ComputationsLaid DEF FrontInv
  <2>4. ASSUME NEW p \in Computed, NEW q \in Computed
        PROVE  computeOf[produced[q]] \in Upstream[computeOf[produced[p]]] <=> q \in Reads[p]
    <3>1. computeOf[produced[q]] \in Upstream[computeOf[produced[p]]]
            <=> produced[q] \in Ancestors[produced[p]]
      BY <2>1, AncestorsAreUpstream, UpstreamAreAncestors DEF FrontInv
    <3> QED  BY <3>1, OrdersMatch
  <2> QED  BY <2>3, <2>4
<1> QED  BY <1>1, FrontInvariance, PTL
=============================================================================
