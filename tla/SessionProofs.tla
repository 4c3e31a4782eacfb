--------------------------- MODULE SessionProofs ---------------------------
(***************************************************************************)
(* Theorems about two calls of simulate() on the same instructions: what   *)
(* the first call wrote stays readable, and the second never passes for a  *)
(* run.  And about a call on a chip with deeper queues or buffers: it is   *)
(* nowhere later than the call before it.                                  *)
(***************************************************************************)
EXTENDS Session, TimingProofs

(* The types of two calls on the same instructions.  In the second one the *)
(* times that it finds are of another clock, so they may lie ahead of now. *)
Kinds ==
  /\ IsJob(job)
  /\ now \in Nat
  /\ startTime \in [0 .. job.n -> Nat \cup {None}]
  /\ endTime \in [0 .. job.n -> Nat \cup {None}]
  /\ retireTime \in [0 .. job.n -> Nat \cup {None}]
  /\ freeAt \in [Unit -> Nat]
  /\ pc \in {"retire", "start", "issue", "advance"} \cup Outcomes
  /\ todo \subseteq Units \cup Cores
  /\ progress \in BOOLEAN
  /\ waiting \subseteq Instrs
  /\ inflight \in [Unit -> Seq(Instrs)]
  /\ occ \in [Unit -> Int]
  /\ remaining \in Int

(* As long as no instruction has retired, the queue of a unit holds all    *)
(* that was issued to it, the unit's first instruction at its head, and no *)
(* buffer has been written or read.                                        *)
NoneRetired == \A i \in Instrs : ~Retired(i)

IssuedTo(u, left) == {i \in Instrs : job.unit[i] = u /\ i \notin left}

First(i) == \A k \in Instrs : job.unit[k] = job.unit[i] => i <= k

Untouched ==
  NoneRetired =>
    /\ \A u \in Units : Len(inflight[u]) = Cardinality(IssuedTo(u, waiting))
    /\ \A u \in Units : inflight[u] # << >> =>
         LET h == Head(inflight[u]) IN job.unit[h] = u /\ h \notin waiting /\ First(h)
    /\ \A b \in Unit : occ[b] = 0

(* What the first call leaves behind when cost() throws out of it: the     *)
(* instruction that has started and has no end.                            *)
NoEnd(i) == Started(i) /\ ~Retired(i) /\ endTime[i] = None

Unended == \A i \in 0 .. job.n : ~Started(i) => endTime[i] = None

FaultIsKept == pc = "raised" => \E i \in Instrs : NoEnd(i)

(* What it leaves behind when it deadlocks before anything has retired:    *)
(* the instructions D are behind queues that are full of the others, and   *)
(* no unit can start or retire the first of its own.                       *)
Wedged(D) ==
  /\ \A i \in Instrs \ D : First(i) =>
       IF Started(i) THEN job.dst[i] # None /\ job.depth[job.dst[i]] = 0
       ELSE (\E d \in DepsOf(i) : ~Retired(d)) \/ (\E s \in job.streams[i] : ~Started(s))
  /\ \A i \in D : (\A k \in D : CoreOf[k] = CoreOf[i] => i <= k) =>
       Cardinality(IssuedTo(job.unit[i], D)) >= job.depth[job.unit[i]]
  /\ \A i \in D, k \in Instrs \ D : CoreOf[i] = CoreOf[k] => k < i

(* A sweep that has changed nothing so far has met no head without an end. *)
HeadHasNoEnd(u) == inflight[u] # << >> /\ NoEnd(Head(inflight[u]))

EndsMet ==
  /\ pc = "retire" /\ ~progress => \A u \in Units \ todo : ~HeadHasNoEnd(u)
  /\ pc \in {"start", "issue"} /\ ~progress => \A u \in Units : ~HeadHasNoEnd(u)
  /\ pc = "advance" => \A u \in Units : ~HeadHasNoEnd(u)

(* The second call counts down from job.n, but what the first one retired  *)
(* it can never retire.                                                    *)
Kept == {i \in Instrs : first.retire[i] # None}

Leftover == remaining = Cardinality({i \in Instrs : ~Retired(i)}) + Cardinality(Kept)

(* Why it never finishes: something is retired already, or can never end,  *)
(* or nothing can move.                                                    *)
Hopeless ==
  \/ Kept # {}
  \/ \E i \in Instrs : NoEnd(i)
  \/ pc # "raised" => NoneRetired /\ \E D \in SUBSET waiting : Wedged(D)

Rerun ==
  /\ job.n > 0 /\ pc # "done"
  /\ \A i \in Instrs : Retired(i) => Started(i)
  /\ EndsMet /\ Leftover /\ Hopeless

FirstRun == Inv /\ DoneIsEmpty /\ Unended /\ FaultIsKept

SessionInv ==
  /\ call = "first" => FirstRun
  /\ call \in {"first", "again"} => Kinds /\ Untouched
  /\ call = "again" => Rerun

-----------------------------------------------------------------------------
(***************************************************************************)
(*                       Types of the second call                          *)
(***************************************************************************)

LEMMA KindsFromTypes == TypeOK => Kinds
<1> SUFFICES ASSUME TypeOK PROVE Kinds
  OBVIOUS
<1>1. now \in Nat /\ (0 .. now) \subseteq Nat
  BY DEF TypeOK
<1>2. /\ startTime \in [0 .. job.n -> Nat \cup {None}]
      /\ retireTime \in [0 .. job.n -> Nat \cup {None}]
      /\ freeAt \in [Unit -> Nat]
  BY <1>1 DEF TypeOK
<1> QED  BY <1>1, <1>2 DEF TypeOK, Kinds

LEMMA HeadKinds ==
  ASSUME Kinds, NEW u \in Units
  PROVE  /\ u \in Unit /\ inflight[u] \in Seq(Instrs) /\ Len(inflight[u]) \in Nat
         /\ Instrs \subseteq 0 .. job.n
         /\ inflight[u] # << >> => /\ Head(inflight[u]) \in Instrs
                                  /\ Head(inflight[u]) \in 0 .. job.n
                                  /\ Tail(inflight[u]) \in Seq(Instrs)
<1>1. u \in Unit /\ Instrs \subseteq 0 .. job.n
  BY JobFacts DEF Kinds
<1>2. inflight[u] \in Seq(Instrs)
  BY <1>1 DEF Kinds
<1> QED  BY <1>1, <1>2, HeadTailProperties, LenProperties

(* The end that a start computes is a number, unless a producer has none.  *)
LEMMA EndKinds ==
  ASSUME Kinds, NEW h \in Instrs, job.cost[h] # None,
         \A s \in job.streams[h] : endTime[s] # None
  PROVE  EndOf(h) \in Nat
<1> DEFINE F == {endTime[s] + job.latency[h] : s \in job.streams[h]}
           S == {now + job.cost[h]} \cup F
<1>1. now + job.cost[h] \in Nat /\ job.latency[h] \in Nat
  BY JobFacts DEF Kinds
<1>2. \A s \in job.streams[h] : endTime[s] \in Nat
  BY JobFacts DEF Kinds
<1>3. S \subseteq Nat /\ S # {}
  BY <1>1, <1>2
<1>4. IsFiniteSet(S)
  <2>1. IsFiniteSet(F)
    BY StreamTimesFinite DEF Kinds
  <2> HIDE DEF F
  <2>2. IsFiniteSet({now + job.cost[h]})
    BY FS_Singleton
  <2> QED  BY <2>1, <2>2, FS_Union
<1>5. Max(S) \in Nat
  <2> HIDE DEF S
  <2> QED  BY <1>3, <1>4, MaxOfNats
<1> QED  BY <1>5 DEF EndOf

LEMMA WakeKinds ==
  ASSUME Kinds, \A u \in Units : ~HeadHasNoEnd(u)
  PROVE  Wakes \subseteq Nat
<1> SUFFICES ASSUME NEW u \in Units, NEW t \in WakesOf(u) PROVE t \in Nat
  BY DEF Wakes
<1> DEFINE h == Head(inflight[u])
<1>1. inflight[u] # << >>
  BY DEF WakesOf
<1>2. h \in Instrs /\ h \in 0 .. job.n /\ u \in Unit
  BY <1>1, HeadKinds
<1>3. CASE Started(h)
  <2>1. t = endTime[h] /\ ~Retired(h)
    BY <1>1, <1>3 DEF WakesOf
  <2>2. endTime[h] # None
    BY <1>1, <1>3, <2>1 DEF HeadHasNoEnd, NoEnd
  <2> QED  BY <1>2, <2>1, <2>2 DEF Kinds
<1>4. CASE ~Started(h)
  <2>1. t = freeAt[u] \/ (AwaitsFeeds(h) /\ t = ReadyAt(h))
    BY <1>1, <1>4 DEF WakesOf
  <2>2. AwaitsFeeds(h) => ReadyAt(h) \in Nat
    <3> SUFFICES ASSUME AwaitsFeeds(h) PROVE ReadyAt(h) \in Nat
      OBVIOUS
    <3>1. \A s \in job.streams[h] : startTime[s] \in Nat
      BY <1>2, JobFacts DEF Kinds, AwaitsFeeds, Started
    <3>2. job.latency[h] \in Nat
      BY <1>2, JobFacts DEF Kinds
    <3>3. Feeds(h) \subseteq Nat
      BY <3>1, <3>2 DEF Feeds
    <3>4. IsFiniteSet(Feeds(h)) /\ Feeds(h) # {}
      BY <1>2, StreamTimesFinite DEF Kinds, Feeds, AwaitsFeeds
    <3> QED  BY <3>3, <3>4, MaxOfNats DEF ReadyAt
  <2> QED  BY <1>2, <2>1, <2>2 DEF Kinds
<1> QED  BY <1>3, <1>4

(* No unit takes its turn at an instruction without an end.                *)
Guarded == \A u \in Units : ~ (Turn(u, job.unit) /\ MeetsNoEnd(u))

LEMMA KindsNext ==
  ASSUME Kinds, EndsMet, Guarded, [Next]_vars
  PROVE  Kinds'
<1>f. job' = job /\ Instrs' = Instrs /\ Units' = Units /\ Cores' = Cores
  BY JobFixed
<1> DEFINE Places == {"retire", "start", "issue", "advance"} \cup Outcomes
<1>t. ASSUME NEW x, NEW next \in Places, NEW fresh \in SUBSET (Units \cup Cores),
             Leave(x, next, fresh)
      PROVE  pc' \in Places /\ todo' \subseteq Units \cup Cores
  BY <1>t DEF Kinds, Leave
<1>1. ASSUME NEW u \in Units, RetireHead(u) PROVE Kinds'
  <2>1. inflight[u] # << >>
    BY <1>1 DEF RetireHead, CanRetire
  <2>2. Head(inflight[u]) \in Instrs /\ Head(inflight[u]) \in 0 .. job.n /\ u \in Unit
        /\ Tail(inflight[u]) \in Seq(Instrs)
    BY <2>1, HeadKinds
  <2>3. /\ retireTime' \in [0 .. job.n -> Nat \cup {None}]
        /\ inflight' \in [Unit -> Seq(Instrs)]
        /\ freeAt' \in [Unit -> Nat]
    BY <1>1, <2>2 DEF RetireHead, Kinds
  <2>4. occ' \in [Unit -> Int]
    <3>1. job.dst[Head(inflight[u])] \in Unit \cup {None}
      BY <2>2, JobFacts DEF Kinds
    <3>2. occ' = occ \/ \E b \in Unit : occ' = [occ EXCEPT ![b] = @ + 1]
      BY <1>1, <3>1 DEF RetireHead
    <3> QED  BY <3>2 DEF Kinds
  <2>5. pc' \in Places /\ todo' \subseteq Units \cup Cores
    BY <1>1, <1>t DEF RetireHead
  <2>6. /\ UNCHANGED <<job, startTime, endTime, now, waiting>>
        /\ progress' = TRUE /\ remaining' = remaining - 1
    BY <1>1 DEF RetireHead
  <2> QED  BY <1>f, <2>3, <2>4, <2>5, <2>6 DEF Kinds
<1>2. ASSUME NEW u \in Units, RetireSkips(u) \/ StartSkips(u) PROVE Kinds'
  <2>1. pc' \in Places /\ todo' \subseteq Units \cup Cores
    BY <1>2, <1>t DEF RetireSkips, StartSkips
  <2> QED  BY <1>f, <1>2, <2>1 DEF RetireSkips, StartSkips, times, Kinds
<1>3. ASSUME NEW u \in Units, StartHead(u) PROVE Kinds'
  <2> DEFINE h == Head(inflight[u])
  <2>1. /\ inflight[u] # << >> /\ pc = "start" /\ Turn(u, job.unit) /\ CanStart(u, now)
        /\ job.cost[h] # None
    BY <1>3 DEF StartHead, CanStart
  <2>2. h \in Instrs /\ h \in 0 .. job.n
    BY <2>1, HeadKinds
  <2>3. \A s \in job.streams[h] : endTime[s] # None
    BY <2>1 DEF Guarded, MeetsNoEnd
  <2>4. EndOf(h) \in Nat
    BY <2>1, <2>2, <2>3, EndKinds
  <2>5. /\ startTime' \in [0 .. job.n -> Nat \cup {None}]
        /\ endTime' \in [0 .. job.n -> Nat \cup {None}]
    BY <1>3, <2>2, <2>4 DEF StartHead, Kinds
  <2>6. occ' \in [Unit -> Int]
    <3>1. \A b \in Unit : Frees(h, b) \in Nat
      BY <2>2, FreesNat DEF Kinds
    <3>2. \A b \in Unit : occ[b] - Frees(h, b) \in Int
      BY <3>1 DEF Kinds
    <3> QED  BY <1>3, <3>2 DEF StartHead
  <2>7. pc' \in Places /\ todo' \subseteq Units \cup Cores
    BY <1>3, <1>t DEF StartHead
  <2>8. /\ UNCHANGED <<job, retireTime, now, waiting, inflight, freeAt, remaining>>
        /\ progress' = TRUE
    BY <1>3 DEF StartHead
  <2> QED  BY <1>f, <2>5, <2>6, <2>7, <2>8 DEF Kinds
<1>4. ASSUME NEW u \in Units, StartFaults(u) PROVE Kinds'
  <2>1. Head(inflight[u]) \in 0 .. job.n
    BY <1>4, HeadKinds DEF StartFaults, CanStart
  <2>2. startTime' \in [0 .. job.n -> Nat \cup {None}]
    BY <1>4, <2>1 DEF StartFaults, Kinds
  <2> QED  BY <1>f, <1>4, <2>2 DEF StartFaults, Kinds, Outcomes
<1>5. ASSUME NEW c \in Cores, IssueNext(c) PROVE Kinds'
  <2>1. PICK i \in waiting : /\ inflight' = [inflight EXCEPT ![job.unit[i]] = Append(@, i)]
                            /\ waiting' = waiting \ {i}
    BY <1>5 DEF IssueNext
  <2>2. i \in Instrs /\ job.unit[i] \in Unit
    BY JobFacts DEF Kinds
  <2>3. Append(inflight[job.unit[i]], i) \in Seq(Instrs)
    BY <2>2, AppendProperties DEF Kinds
  <2>4. inflight' \in [Unit -> Seq(Instrs)] /\ waiting' \subseteq Instrs
    BY <2>1, <2>2, <2>3 DEF Kinds
  <2> QED  BY <1>f, <1>5, <2>4 DEF IssueNext, times, Kinds
<1>6. ASSUME NEW c \in Cores, DispatcherStops(c) PROVE Kinds'
  <2>1. pc' \in Places /\ todo' \subseteq Units \cup Cores
    BY <1>6, <1>t DEF DispatcherStops, AfterSweep, Outcomes
  <2> QED  BY <1>f, <1>6, <2>1 DEF DispatcherStops, times, Kinds
<1>7. ASSUME AdvanceClock PROVE Kinds'
  <2>1. now' \in Nat
    <3>1. pc = "advance" /\ now' \in Wakes
      BY <1>7 DEF AdvanceClock
    <3> QED  BY <3>1, WakeKinds DEF EndsMet
  <2> QED  BY <1>f, <1>7, <2>1 DEF AdvanceClock, times, Kinds
<1>8. CASE RaiseDeadlock \/ Finished \/ UNCHANGED vars
  BY <1>f, <1>8 DEF RaiseDeadlock, Finished, vars, times, Kinds, Outcomes
<1> QED  BY <1>1, <1>2, <1>3, <1>4, <1>5, <1>6, <1>7, <1>8 DEF Next

-----------------------------------------------------------------------------
(***************************************************************************)
(*                     As long as nothing has retired                      *)
(***************************************************************************)

LEMMA IssuedFinite ==
  ASSUME Kinds, NEW u, NEW S
  PROVE  IsFiniteSet(IssuedTo(u, S)) /\ Cardinality(IssuedTo(u, S)) \in Nat
<1>1. IsFiniteSet(IssuedTo(u, S))
  BY JobFacts, FS_Subset DEF IssuedTo, Kinds
<1> QED  BY <1>1, FS_CardinalityType

LEMMA UntouchedInit == Begun => Untouched
<1> SUFFICES ASSUME Begun PROVE Untouched
  OBVIOUS
<1>1. /\ Units \subseteq Unit /\ waiting = Instrs
      /\ \A u \in Unit : inflight[u] = << >> /\ occ[u] = 0
  BY JobFacts DEF Begun, Called
<1>2. \A u : IssuedTo(u, waiting) = {}
  BY <1>1 DEF IssuedTo
<1>3. Cardinality({}) = 0 /\ Len(<< >>) = 0
  BY FS_EmptySet
<1> QED  BY <1>1, <1>2, <1>3 DEF Untouched

LEMMA UntouchedIssue ==
  ASSUME Kinds, Untouched, NEW c \in Cores, IssueNext(c)
  PROVE  Untouched'
<1>1. PICK i \in waiting : /\ CanIssue(c, i)
                          /\ inflight' = [inflight EXCEPT ![job.unit[i]] = Append(@, i)]
                          /\ waiting' = waiting \ {i}
  BY DEF IssueNext
<1> DEFINE v == job.unit[i]
<1>2. i \in Instrs /\ v \in Units /\ v \in Unit /\ Units \subseteq Unit
  BY JobFacts DEF Kinds
<1>3. UNCHANGED <<job, retireTime, occ>> /\ Instrs' = Instrs /\ Units' = Units
  BY DEF IssueNext, times, Instrs, Units
<1> SUFFICES ASSUME NoneRetired PROVE Untouched'
  BY <1>3 DEF Untouched, NoneRetired, Retired
<1>4. /\ \A u \in Units : Len(inflight[u]) = Cardinality(IssuedTo(u, waiting))
      /\ \A u \in Units : inflight[u] # << >> =>
           /\ job.unit[Head(inflight[u])] = u
           /\ Head(inflight[u]) \notin waiting
           /\ First(Head(inflight[u]))
      /\ \A b \in Unit : occ[b] = 0
  BY DEF Untouched
<1>5. \A k : First(k)' <=> First(k)
  BY <1>3 DEF First
<1>6. ASSUME NEW u \in Units
      PROVE  /\ Len(inflight'[u]) = Cardinality(IssuedTo(u, waiting'))
             /\ inflight'[u] # << >> =>
                  /\ job.unit[Head(inflight'[u])] = u
                  /\ Head(inflight'[u]) \notin waiting'
                  /\ First(Head(inflight'[u]))
  <2>1. inflight[u] \in Seq(Instrs) /\ Len(inflight[u]) \in Nat
    BY HeadKinds
  <2>2. CASE u # v
    <3>1. inflight'[u] = inflight[u]
      BY <1>1, <1>2, <2>2 DEF Kinds
    <3>2. IssuedTo(u, waiting') = IssuedTo(u, waiting)
      BY <1>1, <2>2 DEF IssuedTo
    <3>3. Len(inflight'[u]) = Cardinality(IssuedTo(u, waiting'))
      BY <1>4, <3>1, <3>2
    <3>4. inflight[u] # << >> => Head(inflight[u]) \notin waiting'
      BY <1>1, <1>4
    <3> QED  BY <1>4, <3>1, <3>3, <3>4
  <2>3. CASE u = v
    <3>1. inflight'[u] = Append(inflight[u], i)
      BY <1>1, <1>2, <2>3 DEF Kinds
    <3>2. Len(inflight'[u]) = Len(inflight[u]) + 1
      BY <1>2, <2>1, <3>1, AppendProperties
    <3>3. IssuedTo(u, waiting') = IssuedTo(u, waiting) \cup {i} /\ i \notin IssuedTo(u, waiting)
      BY <1>1, <1>2, <2>3 DEF IssuedTo
    <3>4. Cardinality(IssuedTo(u, waiting')) = Cardinality(IssuedTo(u, waiting)) + 1
      BY <3>3, IssuedFinite, FS_AddElement
    <3>5. CASE inflight[u] # << >>
      <4>1. Head(inflight'[u]) = Head(inflight[u])
        BY <2>1, <3>1, <3>5
      <4> QED  BY <1>1, <1>4, <3>2, <3>4, <3>5, <4>1
    <3>6. CASE inflight[u] = << >>
      <4>1. Head(inflight'[u]) = i
        BY <3>1, <3>6
      <4>2. IssuedTo(u, waiting) = {}
        BY <1>4, <3>6, IssuedFinite, FS_EmptySet
      <4>3. ASSUME NEW k \in Instrs, job.unit[k] = u PROVE i <= k
        <5>1. k \in waiting
          BY <4>2, <4>3 DEF IssuedTo
        <5>2. CoreOf[k] = CoreOf[i] /\ CoreOf[i] = c
          BY <1>1, <1>2, <2>3, <4>3 DEF CoreOf, CanIssue
        <5> QED  BY <1>1, <5>1, <5>2 DEF CanIssue
      <4>4. First(i)
        BY <2>3, <4>3 DEF First
      <4> QED  BY <1>1, <1>4, <2>3, <3>2, <3>4, <4>1, <4>4
    <3> QED  BY <3>5, <3>6
  <2> QED  BY <2>2, <2>3
<1>7. \A u \in Units : IssuedTo(u, waiting)' = IssuedTo(u, waiting')
  BY <1>3 DEF IssuedTo
<1> QED  BY <1>3, <1>4, <1>5, <1>6, <1>7 DEF Untouched

(* What starts when nothing has retired reads no buffer.                   *)
LEMMA UntouchedStart ==
  ASSUME Kinds, Untouched, NEW u \in Units, StartHead(u)
  PROVE  Untouched'
<1> DEFINE h == Head(inflight[u])
<1>1. /\ UNCHANGED <<job, retireTime, waiting, inflight>> /\ Instrs' = Instrs /\ Units' = Units
      /\ inflight[u] # << >> /\ \A d \in DepsOf(h) : Retired(d)
      /\ occ' = [b \in Unit |-> occ[b] - Frees(h, b)]
  BY DEF StartHead, CanStart, Instrs, Units
<1>2. h \in Instrs
  BY <1>1, HeadKinds
<1> SUFFICES ASSUME NoneRetired PROVE Untouched'
  BY <1>1 DEF Untouched, NoneRetired, Retired
<1>3. ASSUME NEW b \in Unit PROVE Frees(h, b) = 0
  <2> DEFINE F == {k \in DOMAIN job.deps[h] :
                     job.deps[h][k] # Outside /\ job.dst[job.deps[h][k]] = b}
  <2>1. ASSUME NEW k \in F PROVE FALSE
    <3>1. job.deps[h][k] \in DepsOf(h) /\ job.deps[h][k] # Outside
      BY DEF DepsOf
    <3>2. job.deps[h][k] \in Instrs
      <4>1. DepsOf(h) \subseteq 0 .. job.n /\ job.n \in Nat
        BY <1>2, JobFacts DEF Kinds
      <4>2. job.deps[h][k] \in 0 .. job.n
        BY <3>1, <4>1
      <4> HIDE DEF F
      <4> QED  BY <3>1, <4>1, <4>2 DEF Instrs, Outside
    <3>3. Retired(job.deps[h][k])
      BY <1>1, <3>1
    <3> HIDE DEF F
    <3> QED  BY <3>2, <3>3 DEF NoneRetired
  <2>2. F = {}
    BY <2>1
  <2> QED  BY <2>2, FS_EmptySet DEF Frees
<1>4. \A b \in Unit : occ'[b] = 0
  BY <1>1, <1>3 DEF Untouched
<1>5. \A k : First(k)' <=> First(k)
  BY <1>1 DEF First
<1>6. \A v \in Units : IssuedTo(v, waiting)' = IssuedTo(v, waiting)
  BY <1>1 DEF IssuedTo
<1> QED  BY <1>1, <1>4, <1>5, <1>6 DEF Untouched

LEMMA UntouchedUnmoved ==
  ASSUME Untouched, UNCHANGED <<job, retireTime, waiting, inflight, occ>>
  PROVE  Untouched'
<1>1. Instrs' = Instrs /\ Units' = Units
  BY DEF Instrs, Units
<1>2. \A k : First(k)' <=> First(k)
  BY <1>1 DEF First
<1>3. \A v : IssuedTo(v, waiting)' = IssuedTo(v, waiting)
  BY <1>1 DEF IssuedTo
<1>4. NoneRetired' <=> NoneRetired
  BY <1>1 DEF NoneRetired, Retired
<1> QED  BY <1>1, <1>2, <1>3, <1>4 DEF Untouched

LEMMA UntouchedNext == Kinds /\ Untouched /\ [Next]_vars => Untouched'
<1> SUFFICES ASSUME Kinds, Untouched, [Next]_vars PROVE Untouched'
  OBVIOUS
<1>1. ASSUME NEW u \in Units, RetireHead(u) PROVE Untouched'
  <2> DEFINE h == Head(inflight[u])
  <2>1. h \in Instrs /\ h \in 0 .. job.n /\ job' = job
        /\ retireTime' = [retireTime EXCEPT ![h] = now]
    BY <1>1, HeadKinds DEF RetireHead, CanRetire
  <2>2. retireTime'[h] # None /\ h \in Instrs'
    BY <2>1, NoneAssumption DEF Kinds, Instrs
  <2> QED  BY <2>2 DEF Untouched, NoneRetired, Retired
<1>2. ASSUME NEW u \in Units, StartHead(u) PROVE Untouched'
  BY <1>2, UntouchedStart
<1>3. ASSUME NEW u \in Units, RetireSkips(u) \/ StartFaults(u) \/ StartSkips(u) PROVE Untouched'
  BY <1>3, UntouchedUnmoved DEF RetireSkips, StartFaults, StartSkips, times
<1>4. ASSUME NEW c \in Cores, IssueNext(c) PROVE Untouched'
  BY <1>4, UntouchedIssue
<1>5. ASSUME NEW c \in Cores, DispatcherStops(c) PROVE Untouched'
  BY <1>5, UntouchedUnmoved DEF DispatcherStops, times
<1>6. CASE AdvanceClock \/ RaiseDeadlock \/ Finished \/ UNCHANGED vars
  BY <1>6, UntouchedUnmoved DEF AdvanceClock, RaiseDeadlock, Finished, vars, times
<1> QED  BY <1>1, <1>2, <1>3, <1>4, <1>5, <1>6 DEF Next

-----------------------------------------------------------------------------
(***************************************************************************)
(*                     What the first call leaves behind                   *)
(***************************************************************************)

LEMMA UnendedNext == Typed /\ Unended /\ [Next]_vars => Unended'
<1> SUFFICES ASSUME Typed, Unended, [Next]_vars PROVE Unended'
  OBVIOUS
<1>f. job' = job
  BY JobFixed
<1>1. ASSUME NEW u \in Units, StartHead(u) \/ StartFaults(u) PROVE Unended'
  <2> DEFINE h == Head(inflight[u])
  <2>1. /\ startTime' = [startTime EXCEPT ![h] = now]
        /\ endTime' = endTime \/ \E e : endTime' = [endTime EXCEPT ![h] = e]
    BY <1>1 DEF StartHead, StartFaults
  <2>2. now # None /\ DOMAIN startTime = 0 .. job.n /\ DOMAIN endTime = 0 .. job.n
    BY NoneAssumption DEF Typed, TypeOK
  <2> SUFFICES ASSUME NEW i \in 0 .. job.n, startTime'[i] = None PROVE endTime'[i] = None
    BY <1>f DEF Unended, Started
  <2>3. i # h /\ ~Started(i)
    BY <2>1, <2>2 DEF Started
  <2>4. endTime[i] = None
    BY <2>3 DEF Unended
  <2> QED  BY <2>1, <2>2, <2>3, <2>4
<1>2. CASE UNCHANGED <<startTime, endTime>>
  BY <1>f, <1>2 DEF Unended, Started
<1> QED
  BY <1>1, <1>2 DEF Next, RetireHead, RetireSkips, StartSkips, IssueNext, DispatcherStops,
     AdvanceClock, RaiseDeadlock, Finished, vars, times

LEMMA FaultIsKeptNext ==
  Typed /\ Placed /\ Unended /\ FaultIsKept /\ [Next]_vars => FaultIsKept'
<1> SUFFICES ASSUME Typed, Placed, Unended, FaultIsKept, [Next]_vars, pc' = "raised"
             PROVE  \E i \in Instrs : NoEnd(i)'
  BY JobFixed DEF FaultIsKept
<1>1. ASSUME NEW u \in Units, StartFaults(u) PROVE \E i \in Instrs : NoEnd(i)'
  <2> DEFINE h == Head(inflight[u])
  <2>1. /\ inflight[u] # << >> /\ ~Started(h)
        /\ startTime' = [startTime EXCEPT ![h] = now]
        /\ UNCHANGED <<endTime, retireTime>>
    BY <1>1 DEF StartFaults, CanStart
  <2>2. h \in Instrs /\ h \in 0 .. job.n
    BY <2>1, HeadOfQueue, JobFacts DEF Typed, TypeOK
  <2>3. endTime[h] = None /\ ~Retired(h)
    BY <2>1, <2>2 DEF Unended, Placed, SomewhereOnce
  <2>4. startTime'[h] # None
    BY <2>1, <2>2, NoneAssumption DEF Typed, TypeOK
  <2> QED  BY <2>1, <2>2, <2>3, <2>4 DEF NoEnd, Started, Retired
<1>2. CASE pc = "raised" /\ UNCHANGED times
  BY <1>2 DEF FaultIsKept, NoEnd, Started, Retired, times
<1>3. ASSUME NEW x, NEW next, NEW fresh, pc # "raised", next # "raised", Leave(x, next, fresh)
      PROVE  FALSE
  BY <1>3 DEF Leave
<1> QED
  BY <1>1, <1>2, <1>3 DEF Next, RetireHead, RetireSkips, StartHead, StartSkips, IssueNext,
     DispatcherStops, AfterSweep, AdvanceClock, RaiseDeadlock, Finished, vars, Outcomes

LEMMA DoneIsEmptyNext == DoneIsEmpty /\ [Next]_vars => DoneIsEmpty'
<1> SUFFICES ASSUME DoneIsEmpty, [Next]_vars, pc' = "done" PROVE remaining' = 0
  BY DEF DoneIsEmpty
<1>1. CASE UNCHANGED <<pc, remaining>>
  BY <1>1 DEF DoneIsEmpty
<1>2. ASSUME NEW c \in Cores, DispatcherStops(c) PROVE remaining' = 0
  <2>1. remaining' = remaining /\ pc = "issue" /\ (pc' = AfterSweep \/ pc' = pc)
    BY <1>2 DEF DispatcherStops, Leave
  <2> QED  BY <2>1 DEF AfterSweep
<1> QED
  BY <1>1, <1>2 DEF Next, RetireHead, RetireSkips, StartHead, StartFaults, StartSkips, IssueNext,
     Leave, AdvanceClock, RaiseDeadlock, Finished, vars

LEMMA FirstRunInit == SessionInit => FirstRun
<1> SUFFICES ASSUME SessionInit PROVE FirstRun
  OBVIOUS
<1>1. Begun
  BY InitBegins DEF SessionInit
<1>2. Inv
  BY <1>1, TypedInit, PlacedInit, CountedInit, SettledInit DEF Inv
<1>3. Unended /\ FaultIsKept /\ DoneIsEmpty
  BY <1>1 DEF Begun, Called, Unended, FaultIsKept, DoneIsEmpty
<1> QED  BY <1>2, <1>3 DEF FirstRun

LEMMA FirstRunNext == FirstRun /\ [Next]_vars => FirstRun'
BY TypedNext, PlacedNext, CountedNext, SettledNext, UnendedNext, FaultIsKeptNext, DoneIsEmptyNext
   DEF FirstRun, Inv

(* No instruction of a first call lacks an end before cost() has thrown.   *)
LEMMA FirstMeetsEnds ==
  ASSUME FirstRun, NEW u \in Units
  PROVE  ~MeetsNoEnd(u)
<1> SUFFICES ASSUME MeetsNoEnd(u) PROVE FALSE
  OBVIOUS
<1> DEFINE h == Head(inflight[u])
<1>1. Typed /\ TypeOK /\ pc # "raised" /\ inflight[u] # << >>
  BY DEF FirstRun, Inv, Typed, MeetsNoEnd
<1>2. h \in Instrs /\ h \in 0 .. job.n /\ job.streams[h] \subseteq 0 .. job.n
  BY <1>1, HeadOfQueue, JobFacts DEF TypeOK
<1>3. \A i \in 0 .. job.n : Started(i) => endTime[i] # None
  BY <1>1 DEF Typed, EndsKnown
<1> QED  BY <1>2, <1>3 DEF MeetsNoEnd, CanStart

LEMMA WedgedAtDeadlock ==
  ASSUME Inv, Untouched, NoneRetired, pc = "deadlock"
  PROVE  Wedged(waiting)
<1>1. /\ TypeOK /\ IsJob(job) /\ waiting \subseteq Instrs /\ Instrs \subseteq Nat
      /\ SomewhereOnce /\ IssuedInOrder
  BY DEF Inv, Typed, TypeOK, Placed, Instrs
<1>2. /\ \A u \in Units : Len(inflight[u]) = Cardinality(IssuedTo(u, waiting))
      /\ \A u \in Units : inflight[u] # << >> =>
           job.unit[Head(inflight[u])] = u /\ First(Head(inflight[u]))
      /\ \A b \in Unit : occ[b] = 0
  BY DEF Untouched
<1>3. ASSUME NEW i \in Instrs \ waiting, First(i)
      PROVE  IF Started(i) THEN job.dst[i] # None /\ job.depth[job.dst[i]] = 0
             ELSE (\E d \in DepsOf(i) : ~Retired(d)) \/ (\E s \in job.streams[i] : ~Started(s))
  <2> DEFINE u == job.unit[i]
  <2>1. u \in Units /\ u \in Unit
    BY <1>1, JobFacts
  <2>2. PICK k \in 1 .. Len(inflight[u]) : inflight[u][k] = i
    BY <1>1 DEF SomewhereOnce, NoneRetired
  <2>3. inflight[u] # << >>
    BY <2>2
  <2>4. Head(inflight[u]) \in Instrs /\ job.unit[Head(inflight[u])] = u /\ First(Head(inflight[u]))
    BY <1>1, <1>2, <2>1, <2>3, HeadOfQueue
  <2>5. Head(inflight[u]) = i
    <3>1. i <= Head(inflight[u]) /\ Head(inflight[u]) <= i
      BY <1>3, <2>4 DEF First
    <3>2. i \in Nat /\ Head(inflight[u]) \in Nat
      BY <1>1, <2>4
    <3> QED  BY <3>1, <3>2
  <2>6. IF Started(i) THEN ~HasFreeSlot(job.dst[i])
        ELSE (\E d \in DepsOf(i) : ~Retired(d)) \/ (\E s \in job.streams[i] : ~Started(s))
    BY <2>1, <2>3, <2>5, BlockedHeads DEF Blocked
  <2>7. ~HasFreeSlot(job.dst[i]) => job.dst[i] # None /\ job.depth[job.dst[i]] = 0
    BY <1>1, <1>2, JobFacts DEF HasFreeSlot
  <2> QED  BY <2>6, <2>7
<1>4. ASSUME NEW i \in waiting, \A k \in waiting : CoreOf[k] = CoreOf[i] => i <= k
      PROVE  Cardinality(IssuedTo(job.unit[i], waiting)) >= job.depth[job.unit[i]]
  <2>1. PICK k \in waiting : /\ CoreOf[k] = CoreOf[i]
                            /\ \A j \in waiting : CoreOf[j] = CoreOf[i] => k <= j
                            /\ Len(inflight[job.unit[k]]) >= job.depth[job.unit[k]]
    BY StalledDispatcher
  <2>2. k = i
    <3>1. i <= k /\ k <= i
      BY <1>4, <2>1
    <3>2. i \in Nat /\ k \in Nat
      BY <1>1
    <3> QED  BY <3>1, <3>2
  <2>3. job.unit[i] \in Units
    BY <1>1, JobFacts
  <2> QED  BY <1>2, <2>1, <2>2, <2>3
<1>5. \A i \in waiting, k \in Instrs \ waiting : CoreOf[i] = CoreOf[k] => k < i
  BY <1>1 DEF IssuedInOrder
<1> QED  BY <1>3, <1>4, <1>5 DEF Wedged

-----------------------------------------------------------------------------
(***************************************************************************)
(*                     The second call, step by step                       *)
(***************************************************************************)

LEMMA WedgedSame ==
  ASSUME NEW D, UNCHANGED <<job, startTime, retireTime>>
  PROVE  Wedged(D)' <=> Wedged(D)
<1>1. Instrs' = Instrs /\ CoreOf' = CoreOf
  BY DEF Instrs, CoreOf
<1>2. \A i : First(i)' <=> First(i)
  BY <1>1 DEF First
<1>3. \A i : DepsOf(i)' = DepsOf(i)
  BY DEF DepsOf
<1>4. \A i : (Started(i)' <=> Started(i)) /\ (Retired(i)' <=> Retired(i))
  BY DEF Started, Retired
<1>5. \A i : IssuedTo(job.unit[i], D)' = IssuedTo(job.unit[i], D)
  BY <1>1 DEF IssuedTo
<1> QED  BY <1>1, <1>2, <1>3, <1>4, <1>5 DEF Wedged

LEMMA RetiredOrNot ==
  ASSUME IsJob(job), NEW f
  PROVE  /\ job.n = Cardinality({i \in Instrs : f[i] = None})
                    + Cardinality({i \in Instrs : f[i] # None})
         /\ Cardinality({i \in Instrs : f[i] = None}) \in Nat
         /\ Cardinality({i \in Instrs : f[i] # None}) \in Nat
<1> DEFINE S == {i \in Instrs : f[i] = None}
           T == {i \in Instrs : f[i] # None}
<1>1. IsFiniteSet(S) /\ IsFiniteSet(T)
  BY JobFacts, FS_Subset
<1>2. Cardinality(S \cup T) = Cardinality(S) + Cardinality(T) - Cardinality(S \cap T)
  BY <1>1, FS_Union
<1>3. S \cup T = Instrs /\ S \cap T = {}
  OBVIOUS
<1>4. Cardinality(Instrs) = job.n /\ Cardinality({}) = 0 /\ job.n \in Nat
  BY JobFacts, FS_Interval, FS_EmptySet DEF Instrs
<1>5. Cardinality(S) \in Nat /\ Cardinality(T) \in Nat
  BY <1>1, FS_CardinalityType
<1>6. job.n = Cardinality(S) + Cardinality(T)
  <2>1. Cardinality(S \cup T) = job.n /\ Cardinality(S \cap T) = 0
    BY <1>3, <1>4
  <2> HIDE DEF S, T
  <2> QED  BY <1>2, <1>5, <2>1
<1> QED  BY <1>5, <1>6

(* simulate() is called again: its locals are fresh, the times are not.    *)
LEMMA RerunBegins ==
  ASSUME FirstRun, Kinds, Untouched, CallAgain
  PROVE  Kinds' /\ Untouched' /\ Rerun'
<1>1. /\ UNCHANGED <<job, startTime, endTime, retireTime>>
      /\ Instrs' = Instrs /\ Units' = Units /\ Cores' = Cores
      /\ pc' = "retire" /\ todo' = Units /\ progress' = FALSE /\ now' = 0
      /\ waiting' = Instrs /\ inflight' = [u \in Unit |-> << >>]
      /\ freeAt' = [u \in Unit |-> 0] /\ occ' = [u \in Unit |-> 0]
      /\ remaining' = job.n /\ job.n > 0 /\ pc \in Outcomes
      /\ first'.retire = retireTime
  BY DEF CallAgain, Calls, Remembers, times, Instrs, Units, Cores, CoreOf
<1>2. IsJob(job) /\ job.n \in Nat /\ Units \subseteq Unit /\ 1 \in Instrs
  BY <1>1, JobFacts DEF Kinds, Instrs
<1>3. Kinds'
  <2>1. << >> \in Seq(Instrs)
    OBVIOUS
  <2>2. inflight' \in [Unit -> Seq(Instrs)]
    BY <1>1, <2>1
  <2>3. freeAt' \in [Unit -> Nat] /\ occ' \in [Unit -> Int] /\ now' \in Nat /\ remaining' \in Int
    BY <1>1, <1>2
  <2>4. /\ pc' \in {"retire", "start", "issue", "advance"} \cup Outcomes
        /\ todo' \subseteq Units' \cup Cores' /\ progress' \in BOOLEAN /\ waiting' \subseteq Instrs'
    BY <1>1
  <2> QED  BY <1>1, <2>2, <2>3, <2>4 DEF Kinds
<1>4. Untouched'
  <2>1. \A u : IssuedTo(u, waiting)' = {}
    BY <1>1 DEF IssuedTo
  <2>2. Cardinality({}) = 0 /\ Len(<< >>) = 0
    BY FS_EmptySet
  <2> QED  BY <1>1, <1>2, <2>1, <2>2 DEF Untouched
<1>5. \A i \in Instrs : Retired(i)' => Started(i)'
  <2>1. \A i \in Instrs : Retired(i) => Started(i)
    BY DEF FirstRun, Inv, Placed, SomewhereOnce
  <2> QED  BY <1>1, <2>1 DEF Retired, Started
<1>6. EndsMet'
  BY <1>1 DEF EndsMet
<1>7. Leftover'
  BY <1>1, <1>2, RetiredOrNot DEF Leftover, Kept, Retired
<1>8. Hopeless'
  <2>1. CASE \E i \in Instrs : Retired(i)
    <3>1. Kept' # {}
      BY <1>1, <2>1 DEF Kept, Retired
    <3> QED  BY <3>1 DEF Hopeless
  <2>2. CASE pc = "done"
    BY <1>2, <2>1, <2>2, NoneLeft DEF FirstRun, Inv, DoneIsEmpty
  <2>3. CASE pc = "raised"
    <3>1. \E i \in Instrs : NoEnd(i)'
      BY <1>1, <2>3 DEF FirstRun, FaultIsKept, NoEnd, Started, Retired
    <3> QED  BY <1>1, <3>1 DEF Hopeless
  <2>4. CASE pc = "deadlock" /\ NoneRetired
    <3>1. PICK D : D = waiting
      OBVIOUS
    <3>2. Wedged(D) /\ D \subseteq Instrs
      BY <2>4, <3>1, WedgedAtDeadlock DEF FirstRun, Kinds
    <3>3. Wedged(D)' /\ D \subseteq waiting'
      BY <1>1, <3>2, WedgedSame
    <3>4. NoneRetired'
      BY <1>1, <2>4 DEF NoneRetired, Retired
    <3> QED  BY <3>3, <3>4 DEF Hopeless
  <2> QED  BY <1>1, <2>1, <2>2, <2>3, <2>4 DEF Outcomes, NoneRetired
<1> QED  BY <1>1, <1>3, <1>4, <1>5, <1>6, <1>7, <1>8 DEF Rerun

(* In a wedge no unit can do anything, and no dispatcher can get past it.  *)
LEMMA WedgedUnits ==
  ASSUME Kinds, Untouched, NoneRetired, NEW D \in SUBSET waiting, Wedged(D), NEW u \in Units
  PROVE  ~CanRetire(u, now) /\ ~CanStart(u, now)
<1> SUFFICES ASSUME inflight[u] # << >> PROVE ~CanRetire(u, now) /\ ~CanStart(u, now)
  BY DEF CanRetire, CanStart
<1> DEFINE h == Head(inflight[u])
<1>1. h \in Instrs /\ h \notin D /\ First(h)
  BY HeadKinds DEF Untouched
<1>2. IF Started(h) THEN job.dst[h] # None /\ job.depth[job.dst[h]] = 0
      ELSE (\E d \in DepsOf(h) : ~Retired(d)) \/ (\E s \in job.streams[h] : ~Started(s))
  BY <1>1 DEF Wedged
<1>3. ~CanStart(u, now)
  BY <1>2 DEF CanStart
<1>4. ASSUME CanRetire(u, now) PROVE FALSE
  <2>1. Started(h) /\ HasFreeSlot(job.dst[h])
    BY <1>4 DEF CanRetire
  <2>2. job.dst[h] \in Unit
    BY <1>1, <1>2, <2>1, JobFacts DEF Kinds
  <2>3. occ[job.dst[h]] = 0
    BY <2>2 DEF Untouched
  <2> QED  BY <1>2, <2>1, <2>3 DEF HasFreeSlot
<1> QED  BY <1>3, <1>4

LEMMA WedgedCores ==
  ASSUME Kinds, Untouched, NoneRetired, NEW D \in SUBSET waiting, Wedged(D), NEW c, NEW i \in D
  PROVE  ~CanIssue(c, i)
<1> SUFFICES ASSUME CanIssue(c, i) PROVE FALSE
  OBVIOUS
<1> DEFINE u == job.unit[i]
<1>1. i \in Instrs /\ u \in Units /\ u \in Unit /\ Instrs \subseteq Nat /\ waiting \subseteq Instrs
  BY JobFacts DEF Kinds, Instrs
<1>2. \A k \in waiting : CoreOf[k] = CoreOf[i] => i <= k
  BY DEF CanIssue
<1>3. Cardinality(IssuedTo(u, D)) >= job.depth[u]
  BY <1>2 DEF Wedged
<1>4. ASSUME NEW x \in IssuedTo(u, D) PROVE x \in IssuedTo(u, waiting)
  <2>1. x \in Instrs /\ job.unit[x] = u /\ x \notin D
    BY DEF IssuedTo
  <2>2. CoreOf[x] = CoreOf[i]
    BY <1>1, <2>1 DEF CoreOf
  <2>3. x < i
    BY <2>1, <2>2 DEF Wedged
  <2>4. x \notin waiting
    <3> SUFFICES ASSUME x \in waiting PROVE FALSE
      OBVIOUS
    <3>1. i <= x
      BY <1>2, <2>2
    <3> QED  BY <1>1, <2>1, <2>3, <3>1
  <2> QED  BY <2>1, <2>4 DEF IssuedTo
<1>5. Cardinality(IssuedTo(u, D)) <= Cardinality(IssuedTo(u, waiting))
  BY <1>4, IssuedFinite, FS_Subset
<1>6. Cardinality(IssuedTo(u, D)) \in Nat /\ Cardinality(IssuedTo(u, waiting)) \in Nat
      /\ job.depth[u] \in Nat
  BY <1>1, IssuedFinite, JobFacts DEF Kinds
<1>7. Len(inflight[u]) = Cardinality(IssuedTo(u, waiting))
  BY <1>1 DEF Untouched
<1>8. Len(inflight[u]) < job.depth[u]
  BY DEF CanIssue
<1> QED  BY <1>3, <1>5, <1>6, <1>7, <1>8

LEMMA WedgedNext ==
  ASSUME Kinds, Untouched, NoneRetired, NEW D \in SUBSET waiting, Wedged(D), [Next]_vars
  PROVE  UNCHANGED <<job, startTime, retireTime>> /\ D \subseteq waiting'
<1>1. \A u \in Units : ~CanRetire(u, now) /\ ~CanStart(u, now)
  BY WedgedUnits
<1>2. ASSUME NEW c \in Cores, IssueNext(c)
      PROVE  UNCHANGED <<job, startTime, retireTime>> /\ D \subseteq waiting'
  <2>1. PICK i \in waiting : CanIssue(c, i) /\ waiting' = waiting \ {i}
    BY <1>2 DEF IssueNext
  <2>2. i \notin D
    BY <2>1, WedgedCores
  <2> QED  BY <1>2, <2>1, <2>2 DEF IssueNext, times
<1>3. CASE UNCHANGED <<job, startTime, retireTime, waiting>>
  BY <1>3
<1> QED
  BY <1>1, <1>2, <1>3 DEF Next, RetireHead, RetireSkips, StartHead, StartFaults, StartSkips,
     DispatcherStops, AdvanceClock, RaiseDeadlock, Finished, vars, times

-----------------------------------------------------------------------------

EndedBeforeStarted == \A i \in Instrs : Retired(i) => Started(i)

(* The only instruction a step writes is one that has not retired.         *)
LEMMA RetiredUntouched ==
  ASSUME Kinds, EndedBeforeStarted, [Next]_vars, NEW i \in Instrs, Retired(i)
  PROVE  /\ startTime'[i] = startTime[i] /\ endTime'[i] = endTime[i]
         /\ retireTime'[i] = retireTime[i]
<1>1. Started(i) /\ i \in 0 .. job.n
  BY JobFacts DEF EndedBeforeStarted, Kinds
<1>2. ASSUME NEW u \in Units, RetireHead(u)
      PROVE  UNCHANGED <<startTime, endTime>> /\ retireTime'[i] = retireTime[i]
  <2>1. ~Retired(Head(inflight[u]))
    BY <1>2 DEF RetireHead, CanRetire
  <2> QED  BY <1>1, <1>2, <2>1 DEF RetireHead, Kinds
<1>3. ASSUME NEW u \in Units, StartHead(u) \/ StartFaults(u)
      PROVE  /\ startTime'[i] = startTime[i] /\ endTime'[i] = endTime[i]
             /\ retireTime' = retireTime
  <2>1. ~Started(Head(inflight[u]))
    BY <1>3 DEF StartHead, StartFaults, CanStart
  <2> QED  BY <1>1, <1>3, <2>1 DEF StartHead, StartFaults, Kinds
<1>4. CASE UNCHANGED times
  BY <1>4 DEF times
<1> QED
  BY <1>2, <1>3, <1>4 DEF Next, RetireSkips, StartSkips, IssueNext, DispatcherStops,
     AdvanceClock, RaiseDeadlock, Finished, vars

LEMMA EndedBeforeStartedNext ==
  ASSUME Kinds, EndedBeforeStarted, [Next]_vars
  PROVE  EndedBeforeStarted'
<1>1. Instrs' = Instrs
  BY JobFixed
<1> SUFFICES ASSUME NEW i \in Instrs, retireTime'[i] # None PROVE startTime'[i] # None
  BY <1>1 DEF EndedBeforeStarted, Retired, Started
<1>2. CASE Retired(i)
  BY <1>2, RetiredUntouched DEF EndedBeforeStarted, Started
<1>3. CASE ~Retired(i)
  <2>1. PICK u \in Units : RetireHead(u)
    BY <1>3 DEF Next, StartHead, StartFaults, RetireSkips, StartSkips, IssueNext, DispatcherStops,
       AdvanceClock, RaiseDeadlock, Finished, vars, times, Retired
  <2>2. i = Head(inflight[u])
    BY <1>3, <2>1 DEF RetireHead, Retired, Kinds
  <2> QED  BY <2>1, <2>2 DEF RetireHead, CanRetire, Started
<1> QED  BY <1>2, <1>3

LEMMA EndsMetNext ==
  ASSUME EndsMet, Guarded, [Next]_vars
  PROVE  EndsMet'
<1>1. Units' = Units
  BY JobFixed
<1>2. CASE progress' = TRUE /\ pc' # "advance"
  BY <1>2 DEF EndsMet
<1>3. ASSUME NEW u \in Units, RetireHead(u) \/ StartHead(u) PROVE EndsMet'
  BY <1>2, <1>3 DEF RetireHead, StartHead, Leave
<1>4. ASSUME NEW c \in Cores, IssueNext(c) PROVE EndsMet'
  BY <1>2, <1>4 DEF IssueNext
<1>5. ASSUME UNCHANGED <<times, inflight>>
      PROVE  \A u : HeadHasNoEnd(u)' <=> HeadHasNoEnd(u)
  BY <1>5 DEF times, HeadHasNoEnd, NoEnd, Started, Retired
<1>6. ASSUME NEW u \in Units, RetireSkips(u) PROVE EndsMet'
  <2>1. /\ \A v : HeadHasNoEnd(v)' <=> HeadHasNoEnd(v)
        /\ pc = "retire" /\ progress' = progress /\ ~HeadHasNoEnd(u)
    BY <1>5, <1>6 DEF RetireSkips, Guarded, MeetsNoEnd, HeadHasNoEnd, NoEnd
  <2>2. CASE todo = {u}
    <3>1. pc' = "start"
      BY <1>6, <2>2 DEF RetireSkips, Leave
    <3> QED  BY <1>1, <2>1, <2>2, <3>1 DEF EndsMet
  <2>3. CASE todo # {u}
    <3>1. pc' = "retire" /\ todo' = todo \ {u}
      BY <1>6, <2>1, <2>3 DEF RetireSkips, Leave
    <3> QED  BY <1>1, <2>1, <3>1 DEF EndsMet
  <2> QED  BY <2>2, <2>3
<1>7. ASSUME NEW u \in Units, StartSkips(u) PROVE EndsMet'
  <2>1. /\ \A v : HeadHasNoEnd(v)' <=> HeadHasNoEnd(v)
        /\ pc = "start" /\ progress' = progress /\ pc' \in {"start", "issue"}
    BY <1>5, <1>7 DEF StartSkips, Leave
  <2> QED  BY <1>1, <2>1 DEF EndsMet
<1>8. ASSUME NEW c \in Cores, DispatcherStops(c) PROVE EndsMet'
  <2>1. /\ \A v : HeadHasNoEnd(v)' <=> HeadHasNoEnd(v)
        /\ pc = "issue"
    BY <1>5, <1>8 DEF DispatcherStops
  <2>2. CASE todo = {c} /\ progress
    <3>1. pc' = "retire" /\ todo' = Units
      BY <1>8, <2>2 DEF DispatcherStops, Leave, AfterSweep
    <3> QED  BY <1>1, <3>1 DEF EndsMet
  <2>3. CASE todo = {c} /\ ~progress
    <3>1. pc' \in {"done", "advance"}
      BY <1>8, <2>3 DEF DispatcherStops, Leave, AfterSweep
    <3> QED  BY <1>1, <2>1, <2>3, <3>1 DEF EndsMet
  <2>4. CASE todo # {c}
    <3>1. pc' = "issue" /\ progress' = progress
      BY <1>8, <2>1, <2>4 DEF DispatcherStops, Leave
    <3> QED  BY <1>1, <2>1, <3>1 DEF EndsMet
  <2> QED  BY <2>2, <2>3, <2>4
<1>9. ASSUME NEW u \in Units, StartFaults(u) PROVE EndsMet'
  BY <1>9 DEF StartFaults, EndsMet
<1>10. CASE AdvanceClock
  <2>1. pc' = "retire" /\ todo' = Units
    BY <1>10 DEF AdvanceClock
  <2> QED  BY <1>1, <2>1 DEF EndsMet
<1>11. CASE RaiseDeadlock
  BY <1>11 DEF RaiseDeadlock, EndsMet
<1>12. CASE Finished \/ UNCHANGED vars
  <2>1. /\ \A v : HeadHasNoEnd(v)' <=> HeadHasNoEnd(v)
        /\ UNCHANGED <<pc, progress, todo>>
    BY <1>5, <1>12 DEF Finished, vars
  <2> QED  BY <1>1, <2>1 DEF EndsMet
<1> QED  BY <1>3, <1>4, <1>6, <1>7, <1>8, <1>9, <1>10, <1>11, <1>12 DEF Next

LEMMA LeftoverNext ==
  ASSUME Kinds, Leftover, [Next]_vars, first' = first
  PROVE  Leftover'
<1> DEFINE Left == {i \in Instrs : ~Retired(i)}
<1>f. Instrs' = Instrs
  BY JobFixed
<1>k. Kept' = Kept
  BY <1>f DEF Kept
<1>1. ASSUME NEW u \in Units, RetireHead(u) PROVE Leftover'
  <2> DEFINE h == Head(inflight[u])
  <2>1. h \in Instrs /\ h \in 0 .. job.n /\ ~Retired(h)
    BY <1>1, HeadKinds DEF RetireHead, CanRetire
  <2>2. retireTime' = [retireTime EXCEPT ![h] = now] /\ remaining' = remaining - 1
    BY <1>1 DEF RetireHead
  <2>3. {i \in Instrs : retireTime'[i] = None} = Left \ {h}
    BY <2>1, <2>2, JobFacts, NoneAssumption DEF Retired, Kinds
  <2>4. IsFiniteSet(Left) /\ IsFiniteSet(Kept)
    BY JobFacts, FS_Subset DEF Kinds, Kept
  <2>5. Cardinality(Left \ {h}) = Cardinality(Left) - 1
    BY <2>1, <2>4, FS_RemoveElement
  <2>6. Cardinality(Left) \in Nat /\ Cardinality(Kept) \in Nat
    BY <2>4, FS_CardinalityType
  <2>7. remaining = Cardinality(Left) + Cardinality(Kept)
    BY DEF Leftover
  <2>8. {i \in Instrs : ~Retired(i)}' = Left \ {h}
    BY <1>f, <2>3 DEF Retired
  <2>9. remaining' = Cardinality(Left \ {h}) + Cardinality(Kept)
    BY <2>2, <2>5, <2>6, <2>7
  <2> QED  BY <1>k, <2>8, <2>9 DEF Leftover
<1>2. CASE UNCHANGED <<retireTime, remaining>>
  BY <1>f, <1>k, <1>2 DEF Leftover, Retired
<1> QED
  BY <1>1, <1>2 DEF Next, RetireSkips, StartHead, StartFaults, StartSkips, IssueNext,
     DispatcherStops, AdvanceClock, RaiseDeadlock, Finished, vars, times

(* The instruction without an end never retires: no unit gets past it.     *)
LEMMA HopelessNext ==
  ASSUME Kinds, Untouched, Hopeless, Guarded, [Next]_vars, first' = first
  PROVE  Hopeless'
<1>f. Instrs' = Instrs
  BY JobFixed
<1>1. CASE Kept # {}
  <2>1. Kept' = Kept
    BY <1>f DEF Kept
  <2> QED  BY <1>1, <2>1 DEF Hopeless
<1>2. ASSUME NEW i \in Instrs, NoEnd(i) PROVE Hopeless'
  <2>1. i \in 0 .. job.n /\ Started(i) /\ ~Retired(i) /\ endTime[i] = None
    BY <1>2, JobFacts DEF NoEnd, Kinds
  <2>2. ASSUME NEW u \in Units, RetireHead(u) PROVE NoEnd(i)'
    <3>1. Head(inflight[u]) # i
      BY <2>1, <2>2 DEF RetireHead, CanRetire, Guarded, MeetsNoEnd
    <3>2. UNCHANGED <<startTime, endTime>> /\ retireTime'[i] = retireTime[i]
      BY <2>1, <2>2, <3>1 DEF RetireHead, Kinds
    <3> QED  BY <2>1, <3>2 DEF NoEnd, Started, Retired
  <2>3. ASSUME NEW u \in Units, StartHead(u) \/ StartFaults(u) PROVE NoEnd(i)'
    <3>1. Head(inflight[u]) # i
      BY <2>1, <2>3 DEF StartHead, StartFaults, CanStart
    <3>2. /\ startTime'[i] = startTime[i] /\ endTime'[i] = endTime[i]
          /\ retireTime' = retireTime
      BY <2>1, <2>3, <3>1 DEF StartHead, StartFaults, Kinds
    <3> QED  BY <2>1, <3>2 DEF NoEnd, Started, Retired
  <2>4. ASSUME UNCHANGED times PROVE NoEnd(i)'
    BY <2>1, <2>4 DEF times, NoEnd, Started, Retired
  <2>5. NoEnd(i)'
    BY <2>2, <2>3, <2>4 DEF Next, RetireSkips, StartSkips, IssueNext, DispatcherStops,
       AdvanceClock, RaiseDeadlock, Finished, vars
  <2> QED  BY <1>f, <2>5 DEF Hopeless
<1>3. CASE pc = "raised"
  <2>1. pc' = "raised"
    BY <1>3 DEF Next, RetireHead, RetireSkips, StartHead, StartFaults, StartSkips, IssueNext,
       DispatcherStops, AdvanceClock, RaiseDeadlock, Finished, vars, Outcomes
  <2> QED  BY <2>1 DEF Hopeless
<1>4. ASSUME NoneRetired, NEW D \in SUBSET waiting, Wedged(D) PROVE Hopeless'
  <2>1. UNCHANGED <<job, startTime, retireTime>> /\ D \subseteq waiting'
    BY <1>4, WedgedNext
  <2>2. Wedged(D)'
    BY <1>4, <2>1, WedgedSame
  <2>3. NoneRetired'
    BY <1>f, <1>4, <2>1 DEF NoneRetired, Retired
  <2> QED  BY <2>1, <2>2, <2>3 DEF Hopeless
<1> QED  BY <1>1, <1>2, <1>3, <1>4 DEF Hopeless

LEMMA SomethingLeft ==
  ASSUME Kinds, Rerun, pc # "raised"
  PROVE  remaining # 0
<1> SUFFICES ASSUME remaining = 0 PROVE FALSE
  OBVIOUS
<1> DEFINE Left == {i \in Instrs : ~Retired(i)}
<1>1. IsFiniteSet(Left) /\ IsFiniteSet(Kept)
  BY JobFacts, FS_Subset DEF Kinds, Kept
<1>2. Cardinality(Left) \in Nat /\ Cardinality(Kept) \in Nat
  BY <1>1, FS_CardinalityType
<1>3. 0 = Cardinality(Left) + Cardinality(Kept)
  BY DEF Rerun, Leftover
<1>4. Cardinality(Left) = 0 /\ Cardinality(Kept) = 0
  <2> HIDE DEF Left
  <2> QED  BY <1>2, <1>3
<1>5. Left = {} /\ Kept = {}
  BY <1>1, <1>4, FS_EmptySet
<1>6. 1 \in Instrs
  BY JobFacts DEF Rerun, Kinds, Instrs
<1>7. \A i \in Instrs : Retired(i)
  BY <1>5
<1>8. ~NoneRetired /\ \A i \in Instrs : ~NoEnd(i)
  BY <1>6, <1>7 DEF NoneRetired, NoEnd
<1> QED  BY <1>5, <1>8 DEF Rerun, Hopeless

LEMMA RerunNext ==
  ASSUME Kinds, Untouched, Rerun, Guarded, [Next]_vars, first' = first
  PROVE  Rerun'
<1>1. job' = job
  BY JobFixed
<1>2. EndedBeforeStarted'
  BY EndedBeforeStartedNext DEF Rerun, EndedBeforeStarted
<1>3. EndsMet' /\ Leftover' /\ Hopeless'
  BY EndsMetNext, LeftoverNext, HopelessNext DEF Rerun
<1>4. pc' # "done"
  <2>1. ASSUME NEW c \in Cores, DispatcherStops(c) PROVE pc' # "done"
    <3>1. pc = "issue" /\ (pc' = AfterSweep \/ pc' = pc)
      BY <2>1 DEF DispatcherStops, Leave
    <3> QED  BY <3>1, SomethingLeft DEF AfterSweep
  <2> QED
    BY <2>1 DEF Rerun, Next, RetireHead, RetireSkips, StartHead, StartFaults, StartSkips, IssueNext,
       Leave, AdvanceClock, RaiseDeadlock, Finished, vars
<1> QED  BY <1>1, <1>2, <1>3, <1>4 DEF Rerun, EndedBeforeStarted

(* A TypeError ends the call, and writes at most the start of an           *)
(* instruction that had not started.                                       *)
LEMMA TypeErrorWrites ==
  ASSUME Kinds, NEW u \in Units, TypeErrorRaised(u)
  PROVE  \/ UNCHANGED startTime
         \/ \E h \in Instrs : ~Started(h) /\ startTime' = [startTime EXCEPT ![h] = now]
<1>1. MeetsNoEnd(u) /\ inflight[u] # << >>
  BY DEF TypeErrorRaised, MeetsNoEnd
<1>2. Head(inflight[u]) \in Instrs
  BY <1>1, HeadKinds
<1>3. pc = "start" => ~Started(Head(inflight[u]))
  BY <1>1 DEF MeetsNoEnd, CanStart
<1> QED  BY <1>2, <1>3 DEF TypeErrorRaised

LEMMA RerunStops ==
  ASSUME Kinds, Untouched, Rerun, NEW u \in Units, TypeErrorRaised(u)
  PROVE  Kinds' /\ Untouched' /\ Rerun'
<1>1. /\ pc' = "raised"
      /\ UNCHANGED <<job, endTime, retireTime, todo, progress, now, waiting, inflight,
                     freeAt, occ, remaining, first>>
      /\ Instrs' = Instrs /\ Units' = Units /\ Cores' = Cores
  BY DEF TypeErrorRaised, session, Instrs, Units, Cores, CoreOf
<1>2. startTime' \in [0 .. job.n -> Nat \cup {None}]
      /\ \A i \in Instrs : Started(i) => startTime'[i] # None
  <2>1. Instrs \subseteq 0 .. job.n /\ now \in Nat /\ startTime \in [0 .. job.n -> Nat \cup {None}]
    BY JobFacts DEF Kinds
  <2>2. CASE UNCHANGED startTime
    BY <2>1, <2>2 DEF Started
  <2>3. ASSUME NEW h \in Instrs, startTime' = [startTime EXCEPT ![h] = now]
        PROVE  startTime' \in [0 .. job.n -> Nat \cup {None}]
               /\ \A i \in Instrs : Started(i) => startTime'[i] # None
    BY <2>1, <2>3, NoneAssumption DEF Started
  <2> QED  BY <2>2, <2>3, TypeErrorWrites
<1>3. Kinds'
  BY <1>1, <1>2 DEF Kinds, Outcomes
<1>4. Untouched'
  BY <1>1, UntouchedUnmoved
<1>5. Leftover' /\ EndsMet' /\ Hopeless'
  BY <1>1 DEF Rerun, Leftover, Kept, Retired, EndsMet, Hopeless
<1>6. \A i \in Instrs' : Retired(i)' => Started(i)'
  BY <1>1, <1>2 DEF Rerun, Retired, Started
<1> QED  BY <1>1, <1>3, <1>4, <1>5, <1>6 DEF Rerun

LEMMA SessionInvInit == SessionInit => SessionInv
<1> SUFFICES ASSUME SessionInit PROVE SessionInv
  OBVIOUS
<1>1. call = "first" /\ Begun
  BY InitBegins DEF SessionInit
<1> QED
  BY <1>1, FirstRunInit, TypedInit, KindsFromTypes, UntouchedInit DEF SessionInv, Typed

LEMMA SessionInvNext == SessionInv /\ [SessionNext]_<<vars, session>> => SessionInv'
<1> SUFFICES ASSUME SessionInv, [SessionNext]_<<vars, session>> PROVE SessionInv'
  OBVIOUS
<1>1. CASE call' \notin {"first", "again"}
  BY <1>1 DEF SessionInv
<1>2. ASSUME call = "first", [Next]_vars, UNCHANGED session PROVE SessionInv'
  <2>1. FirstRun' /\ Untouched'
    BY <1>2, FirstRunNext, UntouchedNext DEF SessionInv
  <2>2. TypeOK'
    BY <2>1 DEF FirstRun, Inv, Typed
  <2>3. Kinds'
    BY <2>2, KindsFromTypes, PTL
  <2> QED  BY <1>2, <2>1, <2>3 DEF SessionInv, session
<1>3. ASSUME call = "again", Guarded, [Next]_vars, UNCHANGED session PROVE SessionInv'
  <2>1. Kinds /\ Untouched /\ Rerun /\ first' = first /\ call' = "again"
    BY <1>3 DEF SessionInv, session
  <2>2. Kinds' /\ Untouched' /\ Rerun'
    BY <1>3, <2>1, KindsNext, UntouchedNext, RerunNext DEF Rerun
  <2> QED  BY <2>1, <2>2 DEF SessionInv
<1>4. CASE UNCHANGED <<vars, session>>
  <2>1. CASE call = "first"
    BY <1>2, <1>4, <2>1
  <2>2. CASE call = "again"
    <3>1. Kinds /\ Untouched /\ Rerun
      BY <2>2 DEF SessionInv
    <3>2. Kinds' <=> Kinds
      BY <1>4 DEF vars, times, Kinds, Instrs, Units, Cores, CoreOf
    <3>3. Untouched'
      BY <1>4, <3>1, UntouchedUnmoved DEF vars, times
    <3>4. Instrs' = Instrs /\ Units' = Units /\ first' = first /\ call' = call
      BY <1>4 DEF vars, session, Instrs, Units
    <3>5. \A i : (Retired(i)' <=> Retired(i)) /\ (Started(i)' <=> Started(i)) /\ (NoEnd(i)' <=> NoEnd(i))
      BY <1>4 DEF vars, times, Started, Retired, NoEnd
    <3>6. EndsMet' /\ Leftover'
      BY <1>4, <3>1, <3>4, <3>5 DEF vars, Rerun, EndsMet, HeadHasNoEnd, Leftover, Kept
    <3>7. Hopeless'
      <4>1. ASSUME NEW D \in SUBSET waiting, Wedged(D) PROVE Wedged(D)' /\ D \in SUBSET waiting'
        BY <1>4, <4>1, WedgedSame DEF vars, times
      <4>2. pc' = pc /\ (NoneRetired' <=> NoneRetired) /\ Kept' = Kept
        BY <1>4, <3>4, <3>5 DEF vars, NoneRetired, Kept
      <4> QED  BY <3>1, <3>4, <3>5, <4>1, <4>2 DEF Rerun, Hopeless
    <3>8. job' = job /\ pc' = pc
      BY <1>4 DEF vars
    <3>9. Rerun'
      BY <3>1, <3>4, <3>5, <3>6, <3>7, <3>8 DEF Rerun
    <3> QED  BY <2>2, <3>1, <3>2, <3>3, <3>4, <3>9 DEF SessionInv
  <2>3. CASE call \notin {"first", "again"}
    BY <1>1, <1>4, <2>3 DEF session
  <2> QED  BY <2>1, <2>2, <2>3
<1>5. CASE Runs
  <2>1. Guarded /\ [Next]_vars /\ UNCHANGED session
    BY <1>5 DEF Runs, Guarded
  <2>2. call' = call
    BY <2>1 DEF session
  <2> QED  BY <1>1, <1>2, <1>3, <2>1, <2>2
<1>6. ASSUME NEW u \in Units, TypeErrorRaised(u) PROVE SessionInv'
  <2>1. call' = call
    BY <1>6 DEF TypeErrorRaised, session
  <2>2. CASE call = "first"
    BY <1>6, <2>2, FirstMeetsEnds DEF SessionInv, TypeErrorRaised
  <2>3. CASE call = "again"
    BY <1>6, <2>1, <2>3, RerunStops DEF SessionInv
  <2> QED  BY <1>1, <2>1, <2>2, <2>3
<1>7. CASE CallAgain
  <2>1. call = "first" /\ call' = "again"
    BY <1>7 DEF CallAgain
  <2>2. Kinds' /\ Untouched' /\ Rerun'
    BY <1>7, <2>1, RerunBegins DEF SessionInv
  <2> QED  BY <2>1, <2>2 DEF SessionInv
<1>8. CASE CallWider \/ CallNext
  BY <1>1, <1>8 DEF CallWider, CallNext
<1> QED  BY <1>4, <1>5, <1>6, <1>7, <1>8 DEF SessionNext

LEMMA SessionInvariance == SessionSpec => []SessionInv
<1> QED  BY SessionInvInit, SessionInvNext, PTL DEF SessionSpec

(* Sim.run() called twice never returns a total the second time, on any    *)
(* program and however the first call ended.                               *)
THEOREM SecondRunNeverReturns == SessionSpec => []ReuseFailsLoudly
<1>1. SessionInv => ReuseFailsLoudly
  BY DEF SessionInv, Rerun, ReuseFailsLoudly
<1> QED  BY <1>1, SessionInvariance, PTL

(* ... and writes no time of an instruction that has retired.              *)
THEOREM FirstResultsStay == SessionSpec => ResultsKept
<1> DEFINE Stays == call' = "again" =>
             \A i \in Instrs : Retired(i) =>
               startTime'[i] = startTime[i] /\ endTime'[i] = endTime[i]
                 /\ retireTime'[i] = retireTime[i]
<1>1. SessionInv /\ [SessionNext]_<<vars, session>> => [Stays]_<<vars, session>>
  <2> SUFFICES ASSUME SessionInv, SessionNext, call' = "again", NEW i \in Instrs, Retired(i)
               PROVE  startTime'[i] = startTime[i] /\ endTime'[i] = endTime[i]
                        /\ retireTime'[i] = retireTime[i]
    OBVIOUS
  <2>1. CASE CallAgain
    BY <2>1 DEF CallAgain, times
  <2>2. ASSUME call = "again" PROVE Kinds /\ EndedBeforeStarted
    BY <2>2 DEF SessionInv, Rerun, EndedBeforeStarted
  <2>3. CASE Runs
    <3>1. [Next]_vars /\ call = "again"
      BY <2>3 DEF Runs, session
    <3> QED  BY <2>2, <3>1, RetiredUntouched
  <2>4. ASSUME NEW u \in Units, TypeErrorRaised(u)
        PROVE  startTime'[i] = startTime[i] /\ UNCHANGED <<endTime, retireTime>>
    <3>1. call = "again" /\ UNCHANGED <<endTime, retireTime>>
      BY <2>4 DEF TypeErrorRaised, session
    <3>2. Kinds /\ Started(i) /\ i \in 0 .. job.n
      BY <2>2, <3>1, JobFacts DEF EndedBeforeStarted, Kinds
    <3>3. CASE UNCHANGED startTime
      BY <3>1, <3>3
    <3>4. ASSUME NEW h \in Instrs, ~Started(h), startTime' = [startTime EXCEPT ![h] = now]
          PROVE  startTime'[i] = startTime[i]
      BY <3>2, <3>4 DEF Kinds
    <3> QED  BY <2>4, <3>1, <3>2, <3>3, <3>4, TypeErrorWrites
  <2>5. CASE CallWider \/ CallNext
    BY <2>5 DEF CallWider, CallNext
  <2> QED  BY <2>1, <2>3, <2>4, <2>5 DEF SessionNext
<1> QED  BY <1>1, SessionInvariance, PTL DEF SessionSpec, ResultsKept

-----------------------------------------------------------------------------
(* The second call, on the wider chip: it is an ordinary run of its program *)
(* (Inv, ProgramOrder, SlotsExact), which the times of the first one can    *)
(* lead (Compared) and which, where no buffer is fought over, is not behind *)
(* them (InTime).                                                           *)
Widened ==
  /\ Inv /\ ProgramOrder /\ SlotsExact /\ Compared(first)
  /\ pc # "raised"
  /\ OrderedBuffers => InTime(first) /\ pc # "deadlock"

WideInv ==
  /\ call = "first" => Recorded
  /\ call = "wider" => Widened

LEMMA WidenedNext ==
  ASSUME Widened, [Next]_vars, first' = first
  PROVE  Widened'
<1> PICK f : f = first
  OBVIOUS
<1>0. (Compared(f)' <=> Compared(first)') /\ (InTime(f)' <=> InTime(first)')
  BY DEF Compared, InTime
<1>1. Inv /\ Typed /\ Placed /\ TypeOK /\ ProgramOrder /\ SlotsExact /\ Compared(f) /\ pc # "raised" /\ job' = job
  BY JobFixed DEF Widened, Inv, Typed
<1>2. Inv' /\ ProgramOrder' /\ SlotsExact' /\ Compared(f)'
  <2>1. Typed' /\ Placed' /\ Counted' /\ Settled'
    BY <1>1, TypedNext, PlacedNext, CountedNext, SettledNext DEF Inv
  <2> QED  BY <1>1, <2>1, ProgramOrderNext, SlotsExactNext, ComparedStays DEF Inv
<1>3. pc' # "raised"
  <2>1. ASSUME NEW u \in Units, StartFaults(u) PROVE FALSE
    BY <1>1, <2>1, HeadOfQueue DEF StartFaults, CanStart, Compared
  <2> QED
    BY <1>1, <2>1 DEF Next, RetireHead, RetireSkips, StartHead, StartSkips, IssueNext,
       DispatcherStops, Leave, AfterSweep, AdvanceClock, RaiseDeadlock, Finished, vars
<1>4. ASSUME OrderedBuffers' PROVE InTime(f)' /\ pc' # "deadlock"
  <2>1. OrderedBuffers
    BY <1>1, <1>4 DEF OrderedBuffers, Buffers, OneWriter, Results, Instrs
  <2>2. InTime(f) /\ pc # "deadlock"
    BY <2>1 DEF Widened
  <2>3. InTime(f)'
    BY <1>1, <2>1, <2>2, InTimeNext
  <2>4. ~RaiseDeadlock
    BY <1>1, <2>1, <2>2, NoDeadlockInTime DEF RaiseDeadlock
  <2>5. pc' # "deadlock"
    BY <2>2, <2>4 DEF Next, RetireHead, RetireSkips, StartHead, StartFaults, StartSkips, IssueNext,
       DispatcherStops, Leave, AfterSweep, AdvanceClock, Finished, vars
  <2> QED  BY <2>3, <2>5
<1> QED  BY <1>0, <1>2, <1>3, <1>4 DEF Widened

LEMMA WideningBegins ==
  ASSUME FirstRun, Recorded, CallWider
  PROVE  Widened'
<1>1. TypeOK /\ IsJob(job) /\ pc = "done" /\ Typed /\ Placed /\ Counted /\ DoneIsEmpty
  BY DEF FirstRun, Inv, Typed, TypeOK, CallWider
<1>2. PICK W \in (SUBSET Units \cup {Buffers}) \ {{}} :
        job' = [job EXCEPT !.depth = [u \in Unit |-> IF u \in W THEN @[u] + 1 ELSE @[u]]]
  BY DEF CallWider
<1> DEFINE D == [u \in Unit |-> IF u \in W THEN job.depth[u] + 1 ELSE job.depth[u]]
<1>3. job' = [job EXCEPT !.depth = D]
  BY <1>2
<1>4. D \in [Unit -> Nat] /\ \A u \in Unit : job.depth[u] \in Nat /\ job.depth[u] <= D[u]
  BY <1>1, JobFacts
<1>5. /\ job'.n = job.n /\ job'.unit = job.unit /\ job'.deps = job.deps /\ job'.streams = job.streams
      /\ job'.latency = job.latency /\ job'.cost = job.cost /\ job'.dst = job.dst
      /\ job'.depth = D /\ job'.parent = job.parent
      /\ IsJob(job')
  <2> HIDE DEF D
  <2> QED  BY <1>1, <1>3, <1>4 DEF IsJob
<1>6. Instrs' = Instrs /\ Units' = Units /\ job.n # 0 /\ job.n \in Nat
  BY <1>1, <1>5, JobFacts DEF Instrs, Units, CallWider
<1>7. Begun'
  <2>1. Units' = {job.unit[i] : i \in 1 .. job.n}
    BY <1>6 DEF Units, Instrs
  <2> QED  BY <1>5, <1>6, <2>1 DEF CallWider, Calls, Begun, Called, Instrs
<1>8. Typed' /\ Placed' /\ Counted' /\ Settled' /\ ProgramOrder' /\ SlotsExact'
  BY <1>7, TypedInit, PlacedInit, CountedInit, SettledInit, ProgramOrderInit, SlotsExactInit, PTL
<1>9. first' = [start |-> startTime, end |-> endTime, retire |-> retireTime, depth |-> job.depth]
  BY DEF CallWider, Remembers
<1>10. Compared(first)'
  <2>1. Replayable(first.start, first.retire, first.depth)'
    <3>1. PICK S, R, E : S = startTime /\ R = retireTime /\ E = job.depth
      OBVIOUS
    <3>2. Replayable(S, R, E)' <=> Replayable(S, R, E)
      BY <1>5, SameReplay
    <3>3. Replayable(S, R, E)
      BY <3>1 DEF Recorded
    <3> QED  BY <1>9, <3>1, <3>2, <3>3
  <2>2. \A u \in Unit : first'.depth[u] \in Nat /\ first'.depth[u] <= job'.depth[u]
    BY <1>4, <1>5, <1>9
  <2>3. \A i \in Instrs :
          /\ first'.start[i] \in Nat /\ first'.end[i] \in Nat /\ first'.retire[i] \in Nat
          /\ job'.cost[i] # None /\ first'.start[i] + job'.cost[i] <= first'.end[i]
          /\ first'.end[i] <= first'.retire[i]
          /\ \A s \in job'.streams[i] : /\ s \in Instrs
                                        /\ first'.end[s] + job'.latency[i] <= first'.end[i]
                                        /\ first'.start[s] + job'.latency[i] <= first'.start[i]
    BY <1>1, <1>5, <1>9, DoneTells
  <2> QED  BY <1>6, <2>1, <2>2, <2>3 DEF Compared
<1>11. InTime(first)'
  <2>1. \A i \in Instrs : first'.start[i] \in Nat /\ first'.retire[i] \in Nat
    BY <1>1, <1>9, DoneTells
  <2>2. now' = 0 /\ \A i \in Instrs : startTime'[i] = None /\ retireTime'[i] = None
    BY <1>1, JobFacts DEF CallWider, Calls
  <2> QED  BY <1>6, <2>1, <2>2 DEF InTime, Started, Retired
<1>12. pc' = "retire"
  BY DEF CallWider, Calls
<1> QED  BY <1>8, <1>10, <1>11, <1>12 DEF Widened, Inv

LEMMA WideInvInit == SessionInit => WideInv
<1> SUFFICES ASSUME SessionInit PROVE WideInv
  OBVIOUS
<1>1. call = "first" /\ Begun
  BY InitBegins DEF SessionInit
<1> QED  BY <1>1, RecordedInit DEF WideInv

LEMMA WideInvNext ==
  SessionInv /\ WideInv /\ [SessionNext]_<<vars, session>> => WideInv'
<1> SUFFICES ASSUME SessionInv, WideInv, [SessionNext]_<<vars, session>> PROVE WideInv'
  OBVIOUS
<1>1. ASSUME call = "first" PROVE FirstRun /\ Typed /\ Placed /\ Recorded
  BY <1>1 DEF SessionInv, WideInv, FirstRun, Inv
<1>2. ASSUME [Next]_vars, UNCHANGED session PROVE WideInv'
  <2>1. call' = call /\ first' = first
    BY <1>2 DEF session
  <2>2. call = "first" => Recorded'
    BY <1>1, <1>2, RecordedNext
  <2>3. call = "wider" => Widened'
    BY <1>2, <2>1, WidenedNext DEF WideInv
  <2> QED  BY <2>1, <2>2, <2>3 DEF WideInv
<1>3. CASE Runs \/ UNCHANGED <<vars, session>>
  BY <1>2, <1>3 DEF Runs
<1>4. ASSUME NEW u \in Units, TypeErrorRaised(u) PROVE WideInv'
  <2>1. MeetsNoEnd(u) /\ call' = call
    BY <1>4 DEF TypeErrorRaised, session
  <2>2. CASE call = "first"
    BY <1>1, <2>1, <2>2, FirstMeetsEnds
  <2>3. CASE call = "wider"
    <3>1. Typed /\ TypeOK /\ pc # "raised"
      BY <2>3 DEF WideInv, Widened, Inv, Typed
    <3>2. \A i \in 0 .. job.n : Started(i) => endTime[i] # None
      BY <3>1 DEF Typed, EndsKnown
    <3>3. inflight[u] # << >> /\ Head(inflight[u]) \in Instrs
      BY <2>1, <3>1, HeadOfQueue DEF MeetsNoEnd
    <3>4. Instrs \subseteq 0 .. job.n /\ job.streams[Head(inflight[u])] \subseteq 0 .. job.n
      BY <3>1, <3>3, JobFacts DEF TypeOK
    <3> QED  BY <2>1, <3>2, <3>3, <3>4 DEF MeetsNoEnd, CanStart
  <2>4. CASE call \notin {"first", "wider"}
    BY <2>1, <2>4 DEF WideInv
  <2> QED  BY <2>2, <2>3, <2>4
<1>5. CASE CallWider
  <2>1. Widened' /\ call' = "wider"
    BY <1>1, <1>5, WideningBegins DEF CallWider
  <2> QED  BY <2>1 DEF WideInv
<1>6. CASE CallAgain \/ CallNext
  BY <1>6 DEF CallAgain, CallNext, WideInv
<1> QED  BY <1>3, <1>4, <1>5, <1>6 DEF SessionNext

(* One more slot never hurts, on programs of any size: on a chip with      *)
(* deeper queues or buffers a call that returned returns again, and does   *)
(* nothing later, if no two units share a buffer that could fill up.       *)
THEOREM WiderIsNeverLater == SessionSpec => []WideningHelps
<1>1. WideInv => WideningHelps
  BY DEF WideInv, Widened, InTime, WideningHelps
<1>2. SessionSpec => []WideInv
  BY WideInvInit, WideInvNext, SessionInvariance, PTL DEF SessionSpec
<1> QED  BY <1>1, <1>2, PTL
=============================================================================
