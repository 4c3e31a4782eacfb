---------------------------- MODULE EngineProofs ----------------------------
(***************************************************************************)
(* Theorems about module Engine, for every program and every chip.         *)
(***************************************************************************)
EXTENDS Engine, FiniteSetTheorems, SequenceTheorems, WellFoundedInduction, TLAPS

(* A set of naturals that is not empty has a least element. *)
LEMMA LeastNat ==
  ASSUME NEW S, S \subseteq Nat, S # {}
  PROVE  \E x \in S : \A y \in S : x <= y
<1>1. PICK x \in S : \A y \in S : ~ (<<y, x>> \in OpToRel(<, Nat))
  BY NatLessThanWellFounded, WFMin
<1>2. \A y \in S : ~ (y < x)
  BY <1>1 DEF OpToRel
<1> QED  BY <1>2

(* max() of a finite collection of naturals: it is one of them, and none   *)
(* is larger.                                                              *)
LEMMA MaxOfNats ==
  ASSUME NEW S, S \subseteq Nat, IsFiniteSet(S), S # {}
  PROVE  Max(S) \in S /\ \A y \in S : y <= Max(S)
<1> DEFINE Top(X) == \E x \in X : \A y \in X : y <= x
           Bad == {n \in Nat : \E X \in SUBSET S : X # {} /\ Cardinality(X) = n /\ ~Top(X)}
<1>1. Bad = {}
  <2> SUFFICES ASSUME Bad # {} PROVE FALSE
    OBVIOUS
  <2>1. PICK n \in Bad : \A m \in Bad : n <= m
    BY LeastNat
  <2>2. PICK X \in SUBSET S : X # {} /\ Cardinality(X) = n /\ ~Top(X)
    BY <2>1
  <2>3. PICK x \in X : TRUE
    BY <2>2
  <2>4. IsFiniteSet(X)
    BY FS_Subset
  <2>5. Cardinality(X \ {x}) = n - 1 /\ n \in Nat /\ n - 1 \in Nat
    <3>1. IsFiniteSet(X \ {x}) /\ Cardinality(X \ {x}) = Cardinality(X) - 1
      BY <2>3, <2>4, FS_RemoveElement
    <3>2. Cardinality(X \ {x}) \in Nat
      BY <3>1, FS_CardinalityType
    <3> QED  BY <2>1, <2>2, <3>1, <3>2
  <2>6. n - 1 \notin Bad
    BY <2>1, <2>5
  <2>7. X \ {x} = {} \/ Top(X \ {x})
    BY <2>5, <2>6
  <2>8. Top(X)
    <3>1. CASE X \ {x} = {}
      BY <2>3, <3>1
    <3>2. CASE Top(X \ {x})
      <4>1. PICK m \in X \ {x} : \A y \in X \ {x} : y <= m
        BY <3>2
      <4>2. CASE x <= m
        BY <4>1, <4>2
      <4>3. CASE m <= x
        <5>1. \A y \in X : y \in Nat
          OBVIOUS
        <5>2. \A y \in X : y <= x
          BY <4>1, <4>3, <5>1, <2>3
        <5> QED  BY <5>2, <2>3
      <4>4. m \in Nat /\ x \in Nat
        BY <4>1, <2>3
      <4> QED  BY <4>2, <4>3, <4>4
    <3> QED  BY <2>7, <3>1, <3>2
  <2> QED  BY <2>2, <2>8
<1>2. Cardinality(S) \in Nat
  BY FS_CardinalityType
<1>3. Top(S)
  BY <1>1, <1>2
<1>4. \E x \in S : \A y \in S : x >= y
  BY <1>3
<1> QED  BY <1>4 DEF Max

-----------------------------------------------------------------------------
(***************************************************************************)
(*                          Types, and the clock                           *)
(***************************************************************************)

(* As long as cost() has not raised, whatever started has an end_time: the *)
(* max() over streamed producers never meets a None.                       *)
EndsKnown == pc # "raised" => \A i \in 0 .. job.n : Started(i) => endTime[i] # None

Typed == TypeOK /\ EndsKnown

LEMMA JobFacts ==
  ASSUME IsJob(job)
  PROVE  /\ job.n \in Nat
         /\ Instrs \subseteq 0 .. job.n
         /\ IsFiniteSet(Instrs)
         /\ Units \subseteq Unit
         /\ \A i \in Instrs : job.unit[i] \in Units
         /\ \A i \in Instrs : DepsOf(i) \subseteq 0 .. job.n
         /\ \A i \in Instrs : job.streams[i] \subseteq 0 .. job.n
         /\ \A i \in Instrs : IsFiniteSet(job.streams[i])
         /\ \A i \in Instrs : job.latency[i] \in Nat
         /\ \A i \in Instrs : job.cost[i] \in Nat \cup {None}
         /\ \A i \in Instrs : job.dst[i] \in Unit \cup {None}
         /\ \A u \in Unit : job.depth[u] \in Nat
<1>1. job.n \in Nat /\ Instrs \subseteq 0 .. job.n
  BY DEF IsJob, Instrs
<1>2. IsFiniteSet(Instrs) /\ IsFiniteSet(0 .. job.n)
  BY <1>1, FS_Interval DEF Instrs
<1>3. \A i \in Instrs : job.unit[i] \in Unit
  BY DEF IsJob, Instrs
<1>4. \A i \in Instrs : DepsOf(i) \subseteq 0 .. job.n
  <2> TAKE i \in Instrs
  <2>1. job.deps[i] \in Seq(0 .. job.n)
    BY DEF IsJob, Instrs
  <2>2. \A k \in DOMAIN job.deps[i] : job.deps[i][k] \in 0 .. job.n
    BY <2>1, LenProperties, ElementOfSeq
  <2> QED  BY <2>2 DEF DepsOf
<1>5. \A i \in Instrs : job.streams[i] \subseteq 0 .. job.n
  BY DEF IsJob, Instrs
<1>6. \A i \in Instrs : IsFiniteSet(job.streams[i])
  BY <1>2, <1>5, FS_Subset
<1>7. \A i \in Instrs : job.latency[i] \in Nat /\ job.cost[i] \in Nat \cup {None}
  BY DEF IsJob, Instrs
<1>8. /\ \A i \in Instrs : job.dst[i] \in Unit \cup {None}
      /\ \A u \in Unit : job.depth[u] \in Nat
  BY DEF IsJob, Instrs
<1> QED  BY <1>1, <1>2, <1>3, <1>4, <1>5, <1>6, <1>7, <1>8 DEF Units

LEMMA HeadOfQueue ==
  ASSUME TypeOK, NEW u \in Units, inflight[u] # << >>
  PROVE  /\ Head(inflight[u]) \in Instrs
         /\ Tail(inflight[u]) \in Seq(Instrs)
         /\ u \in Unit
<1>1. u \in Unit
  BY JobFacts DEF TypeOK
<1>2. inflight[u] \in Seq(Instrs)
  BY <1>1 DEF TypeOK
<1> QED  BY <1>1, <1>2, HeadTailProperties

(* The times of a set of streamed producers form a finite set. *)
LEMMA StreamTimesFinite ==
  ASSUME IsJob(job), NEW h \in Instrs, NEW f
  PROVE  IsFiniteSet({f[s] + job.latency[h] : s \in job.streams[h]})
<1> DEFINE T == {f[s] + job.latency[h] : s \in job.streams[h]}
           g == [s \in job.streams[h] |-> f[s] + job.latency[h]]
<1>1. g \in Surjection(job.streams[h], T)
  BY DEF Surjection
<1>2. IsFiniteSet(job.streams[h])
  BY JobFacts
<1> QED  BY <1>1, <1>2, FS_Surjection

(* The end computed at a start is a cycle not before now + cost, nor       *)
(* before any streamed producer's end plus the link's latency.             *)
LEMMA EndOfFacts ==
  ASSUME Typed, pc # "raised", NEW h \in Instrs, job.cost[h] # None,
         \A s \in job.streams[h] : Started(s)
  PROVE  /\ EndOf(h) \in Nat
         /\ now + job.cost[h] <= EndOf(h)
         /\ \A s \in job.streams[h] : endTime[s] + job.latency[h] <= EndOf(h)
<1> DEFINE F == {endTime[s] + job.latency[h] : s \in job.streams[h]}
           S == {now + job.cost[h]} \cup F
<1>1. now \in Nat /\ job.cost[h] \in Nat /\ job.latency[h] \in Nat
  BY JobFacts DEF Typed, TypeOK
<1>2. \A s \in job.streams[h] : endTime[s] \in Nat
  <2> TAKE s \in job.streams[h]
  <2>1. s \in 0 .. job.n
    BY JobFacts DEF Typed, TypeOK
  <2>2. endTime[s] # None
    BY <2>1 DEF Typed, EndsKnown
  <2> QED  BY <2>1, <2>2 DEF Typed, TypeOK
<1>3. F \subseteq Nat
  BY <1>1, <1>2
<1>4. IsFiniteSet(F)
  BY StreamTimesFinite DEF Typed, TypeOK
<1>5. IsFiniteSet(S) /\ S \subseteq Nat /\ S # {}
  <2>1. IsFiniteSet({now + job.cost[h]})
    BY FS_Singleton
  <2>2. IsFiniteSet(S)
    BY <1>4, <2>1, FS_Union
  <2>3. S \subseteq Nat /\ now + job.cost[h] \in S
    BY <1>1, <1>3
  <2> QED  BY <2>2, <2>3
<1>6. Max(S) \in Nat /\ \A y \in S : y <= Max(S)
  BY <1>5, MaxOfNats
<1>7. EndOf(h) = Max(S)
  BY DEF EndOf
<1> QED  BY <1>6, <1>7

(* A stalled head becomes ready when its last streamed producer's first    *)
(* result has crossed the link.                                            *)
LEMMA ReadyAtFacts ==
  ASSUME TypeOK, NEW h \in Instrs, AwaitsFeeds(h)
  PROVE  /\ ReadyAt(h) \in Nat
         /\ \E s \in job.streams[h] : ReadyAt(h) = startTime[s] + job.latency[h]
         /\ \A s \in job.streams[h] : startTime[s] + job.latency[h] <= ReadyAt(h)
<1>1. IsFiniteSet(Feeds(h))
  BY StreamTimesFinite DEF TypeOK, Feeds
<1>2. \A s \in job.streams[h] : startTime[s] \in Nat
  <2> TAKE s \in job.streams[h]
  <2>1. s \in 0 .. job.n /\ Started(s)
    BY JobFacts DEF TypeOK, AwaitsFeeds
  <2> QED  BY <2>1 DEF TypeOK, Started
<1>3. job.latency[h] \in Nat
  BY JobFacts DEF TypeOK
<1>4. Feeds(h) \subseteq Nat
  BY <1>2, <1>3 DEF Feeds
<1>5. Feeds(h) # {}
  BY DEF Feeds, AwaitsFeeds
<1>6. Max(Feeds(h)) \in Feeds(h) /\ \A y \in Feeds(h) : y <= Max(Feeds(h))
  BY <1>1, <1>4, <1>5, MaxOfNats
<1> QED  BY <1>4, <1>6 DEF ReadyAt, Feeds

(* Every event the call schedules is a cycle later than now. *)
LEMMA WakesAreLater ==
  ASSUME Typed, pc # "raised"
  PROVE  \A t \in Wakes : t \in Nat /\ t > now
<1> SUFFICES ASSUME NEW u \in Units, NEW t \in WakesOf(u)
             PROVE  t \in Nat /\ t > now
  BY DEF Wakes
<1>1. inflight[u] # << >> /\ t > now
  BY DEF WakesOf
<1> DEFINE h == Head(inflight[u])
<1>2. h \in Instrs /\ u \in Unit
  BY <1>1, HeadOfQueue DEF Typed
<1>3. CASE Started(h)
  <2>1. t = endTime[h]
    BY <1>1, <1>3 DEF WakesOf
  <2>2. endTime[h] \in Nat
    BY <1>2, <1>3, JobFacts DEF Typed, TypeOK, EndsKnown
  <2> QED  BY <1>1, <2>1, <2>2
<1>4. CASE ~Started(h)
  <2>1. t = freeAt[u] \/ (AwaitsFeeds(h) /\ t = ReadyAt(h))
    BY <1>1, <1>4 DEF WakesOf
  <2>2. freeAt[u] \in Nat
    BY <1>2 DEF Typed, TypeOK
  <2> QED  BY <1>1, <1>2, <2>1, <2>2, ReadyAtFacts DEF Typed
<1> QED  BY <1>3, <1>4

LEMMA FreesNat ==
  ASSUME IsJob(job), NEW i \in Instrs, NEW b
  PROVE  Frees(i, b) \in Nat
<1>1. job.deps[i] \in Seq(0 .. job.n)
  BY DEF IsJob, Instrs
<1>2. DOMAIN job.deps[i] = 1 .. Len(job.deps[i]) /\ Len(job.deps[i]) \in Nat
  BY <1>1, LenProperties
<1>3. IsFiniteSet(DOMAIN job.deps[i])
  BY <1>2, FS_Interval
<1> DEFINE F == {k \in DOMAIN job.deps[i] :
                   job.deps[i][k] # Outside /\ job.dst[job.deps[i][k]] = b}
<1>4. IsFiniteSet(F)
  BY <1>3, FS_Subset
<1> QED  BY <1>4, FS_CardinalityType DEF Frees

(* simulate() never changes the program it was given. *)
LEMMA JobFixed ==
  ASSUME [Next]_vars
  PROVE  job' = job /\ Instrs' = Instrs /\ Units' = Units /\ Cores' = Cores
<1>1. job' = job
  BY DEF Next, vars, RetireHead, RetireSkips, StartHead, StartFaults, StartSkips,
         IssueNext, DispatcherStops, AdvanceClock, RaiseDeadlock, Finished
<1> QED  BY <1>1 DEF Instrs, Units, Cores, CoreOf

(* simulate() has just been called. *)
Begun == IsJob(job) /\ Called

LEMMA InitBegins == Init => Begun
BY JobsAssumption DEF Init, Begun

LEMMA TypedInit == Begun => Typed
<1> SUFFICES ASSUME Begun PROVE Typed
  OBVIOUS
<1>1. IsJob(job)
  BY DEF Begun
<1>2. \A u \in Unit : << >> \in Seq(Instrs)
  OBVIOUS
<1>3. TypeOK
  <2>1. 0 \in 0 .. 0 /\ job.n \in Nat
    BY <1>1, JobFacts
  <2>2. /\ now \in Nat /\ occ \in [Unit -> Int] /\ remaining \in Int
        /\ freeAt \in [Unit -> 0 .. now]
    BY <2>1 DEF Begun, Called
  <2>3. /\ startTime \in [0 .. job.n -> (0 .. now) \cup {None}]
        /\ endTime \in [0 .. job.n -> Nat \cup {None}]
        /\ retireTime \in [0 .. job.n -> (0 .. now) \cup {None}]
    BY DEF Begun, Called
  <2>4. /\ inflight \in [Unit -> Seq(Instrs)]
        /\ waiting \subseteq Instrs /\ todo \subseteq Units \cup Cores
    BY <1>2 DEF Begun, Called
  <2>5. pc \in {"retire", "done"} /\ progress \in BOOLEAN
    BY DEF Begun, Called
  <2> QED  BY <1>1, <2>2, <2>3, <2>4, <2>5 DEF TypeOK, Outcomes
<1>4. EndsKnown
  BY DEF Begun, Called, EndsKnown, Started
<1> QED  BY <1>3, <1>4 DEF Typed

(* A step of a loop that leaves x moves pc and todo only within their types. *)
LEMMA LeaveTyped ==
  ASSUME TypeOK, NEW x, NEW next \in {"retire", "start", "issue", "advance"} \cup Outcomes,
         NEW fresh \in SUBSET (Units \cup Cores), Leave(x, next, fresh)
  PROVE  /\ pc' \in {"retire", "start", "issue", "advance"} \cup Outcomes
         /\ todo' \subseteq Units \cup Cores
BY DEF TypeOK, Leave

LEMMA TypedNext == Typed /\ [Next]_vars => Typed'
<1> SUFFICES ASSUME Typed, [Next]_vars PROVE Typed'
  OBVIOUS
<1> USE DEF Typed
<1>f. job' = job /\ Instrs' = Instrs /\ Units' = Units /\ Cores' = Cores
  BY JobFixed
<1>0. /\ job.n \in Nat /\ now \in Nat /\ Instrs \subseteq 0 .. job.n
      /\ now \in 0 .. now
  BY JobFacts DEF TypeOK
<1>1. ASSUME NEW u \in Units, RetireHead(u) PROVE Typed'
  <2>1. inflight[u] # << >>
    BY <1>1 DEF RetireHead, CanRetire
  <2>2. Head(inflight[u]) \in 0 .. job.n /\ Tail(inflight[u]) \in Seq(Instrs) /\ u \in Unit
    BY <1>0, <2>1, HeadOfQueue
  <2>3. retireTime' \in [0 .. job.n -> (0 .. now) \cup {None}]
    BY <1>0, <1>1, <2>2 DEF RetireHead, TypeOK
  <2>4. inflight' \in [Unit -> Seq(Instrs)] /\ freeAt' \in [Unit -> 0 .. now]
    BY <1>0, <1>1, <2>2 DEF RetireHead, TypeOK
  <2>5. occ' \in [Unit -> Int]
    <3>1. job.dst[Head(inflight[u])] \in Unit \cup {None}
      BY <2>1, HeadOfQueue, JobFacts DEF TypeOK
    <3>2. \/ occ' = occ
          \/ \E b \in Unit : occ' = [occ EXCEPT ![b] = @ + 1]
      BY <1>1, <3>1 DEF RetireHead
    <3>3. occ \in [Unit -> Int]
      BY DEF TypeOK
    <3> QED  BY <3>2, <3>3
  <2>6. pc' \in {"retire", "start", "issue", "advance"} \cup Outcomes /\ todo' \subseteq Units \cup Cores
    BY <1>1, LeaveTyped DEF RetireHead
  <2>7. TypeOK'
    <3>1. /\ UNCHANGED <<job, startTime, endTime, now, waiting>>
          /\ progress' = TRUE /\ remaining' = remaining - 1
      BY <1>1 DEF RetireHead
    <3> QED  BY <1>f, <2>3, <2>4, <2>5, <2>6, <3>1 DEF TypeOK
  <2>8. EndsKnown'
    BY <1>1 DEF RetireHead, EndsKnown, Started
  <2> QED  BY <2>7, <2>8
<1>2. ASSUME NEW u \in Units, RetireSkips(u) PROVE Typed'
  <2>1. pc' \in {"retire", "start", "issue", "advance"} \cup Outcomes /\ todo' \subseteq Units \cup Cores
    BY <1>2, LeaveTyped DEF RetireSkips
  <2>2. TypeOK'
    BY <1>f, <1>2, <2>1 DEF RetireSkips, times, TypeOK
  <2>3. EndsKnown'
    BY <1>2 DEF RetireSkips, times, EndsKnown, Started
  <2> QED  BY <2>2, <2>3
<1>3. ASSUME NEW u \in Units, StartHead(u) PROVE Typed'
  <2> DEFINE h == Head(inflight[u])
  <2>1. inflight[u] # << >> /\ pc # "raised" /\ job.cost[h] # None
        /\ \A s \in job.streams[h] : Started(s)
    BY <1>3 DEF StartHead, CanStart
  <2>2. h \in Instrs /\ h \in 0 .. job.n
    BY <1>0, <2>1, HeadOfQueue
  <2>3. EndOf(h) \in Nat
    BY <2>1, <2>2, EndOfFacts
  <2>4. startTime' \in [0 .. job.n -> (0 .. now) \cup {None}]
    BY <1>0, <1>3, <2>2 DEF StartHead, TypeOK
  <2>5. endTime' \in [0 .. job.n -> Nat \cup {None}]
    BY <1>3, <2>2, <2>3 DEF StartHead, TypeOK
  <2>6. occ' \in [Unit -> Int]
    <3>1. \A b \in Unit : Frees(h, b) \in Int
      BY <2>2, FreesNat DEF TypeOK
    <3>2. \A b \in Unit : occ[b] - Frees(h, b) \in Int
      BY <3>1 DEF TypeOK
    <3>3. occ' = [b \in Unit |-> occ[b] - Frees(h, b)]
      BY <1>3 DEF StartHead
    <3> QED  BY <3>2, <3>3
  <2>7. pc' \in {"retire", "start", "issue", "advance"} \cup Outcomes /\ todo' \subseteq Units \cup Cores
    BY <1>3, LeaveTyped DEF StartHead
  <2>8. TypeOK'
    BY <1>f, <1>3, <2>4, <2>5, <2>6, <2>7 DEF StartHead, TypeOK
  <2>9. EndsKnown'
    BY <1>3, <2>1, <2>2, <2>3, NoneAssumption DEF StartHead, EndsKnown, Started, TypeOK
  <2> QED  BY <2>8, <2>9
<1>4. ASSUME NEW u \in Units, StartFaults(u) PROVE Typed'
  <2>1. inflight[u] # << >>
    BY <1>4 DEF StartFaults, CanStart
  <2>2. Head(inflight[u]) \in 0 .. job.n
    BY <1>0, <2>1, HeadOfQueue
  <2>3. startTime' \in [0 .. job.n -> (0 .. now) \cup {None}]
    BY <1>0, <1>4, <2>2 DEF StartFaults, TypeOK
  <2>4. TypeOK'
    BY <1>f, <1>4, <2>3 DEF StartFaults, TypeOK, Outcomes
  <2>5. EndsKnown'
    BY <1>4 DEF StartFaults, EndsKnown
  <2> QED  BY <2>4, <2>5
<1>5. ASSUME NEW u \in Units, StartSkips(u) PROVE Typed'
  <2>1. pc' \in {"retire", "start", "issue", "advance"} \cup Outcomes /\ todo' \subseteq Units \cup Cores
    BY <1>5, LeaveTyped DEF StartSkips
  <2>2. TypeOK'
    BY <1>f, <1>5, <2>1 DEF StartSkips, times, TypeOK
  <2>3. EndsKnown'
    BY <1>5 DEF StartSkips, times, EndsKnown, Started
  <2> QED  BY <2>2, <2>3
<1>6. ASSUME NEW c \in Cores, IssueNext(c) PROVE Typed'
  <2>1. PICK i \in waiting :
          /\ inflight' = [inflight EXCEPT ![job.unit[i]] = Append(@, i)]
          /\ waiting' = waiting \ {i}
    BY <1>6 DEF IssueNext
  <2>2. i \in Instrs /\ job.unit[i] \in Unit
    BY JobFacts DEF TypeOK
  <2>3. Append(inflight[job.unit[i]], i) \in Seq(Instrs)
    BY <2>2, AppendProperties DEF TypeOK
  <2>4. inflight' \in [Unit -> Seq(Instrs)] /\ waiting' \subseteq Instrs
    BY <2>1, <2>2, <2>3 DEF TypeOK
  <2>5. TypeOK'
    BY <1>f, <1>6, <2>4 DEF IssueNext, times, TypeOK
  <2>6. EndsKnown'
    BY <1>6 DEF IssueNext, times, EndsKnown, Started
  <2> QED  BY <2>5, <2>6
<1>7. ASSUME NEW c \in Cores, DispatcherStops(c) PROVE Typed'
  <2>1. pc' \in {"retire", "start", "issue", "advance"} \cup Outcomes /\ todo' \subseteq Units \cup Cores
    BY <1>7, LeaveTyped DEF DispatcherStops, AfterSweep, Outcomes
  <2>2. TypeOK'
    BY <1>f, <1>7, <2>1 DEF DispatcherStops, times, TypeOK
  <2>3. EndsKnown'
    BY <1>7 DEF DispatcherStops, times, EndsKnown, Started
  <2> QED  BY <2>2, <2>3
<1>8. ASSUME AdvanceClock PROVE Typed'
  <2>1. now' \in Nat /\ now' > now
    BY <1>8, WakesAreLater DEF AdvanceClock
  <2>2. (0 .. now) \subseteq 0 .. now'
    BY <1>0, <2>1
  <2>3. /\ startTime' \in [0 .. job.n -> (0 .. now') \cup {None}]
        /\ retireTime' \in [0 .. job.n -> (0 .. now') \cup {None}]
        /\ freeAt' \in [Unit -> 0 .. now']
    BY <1>8, <2>2 DEF AdvanceClock, times, TypeOK
  <2>4. TypeOK'
    BY <1>f, <1>8, <2>1, <2>3 DEF AdvanceClock, times, TypeOK
  <2>5. EndsKnown'
    BY <1>8 DEF AdvanceClock, times, EndsKnown, Started
  <2> QED  BY <2>4, <2>5
<1>9. ASSUME RaiseDeadlock PROVE Typed'
  <2>1. TypeOK'
    BY <1>f, <1>9 DEF RaiseDeadlock, times, TypeOK, Outcomes
  <2>2. EndsKnown'
    BY <1>9 DEF RaiseDeadlock, times, EndsKnown, Started
  <2> QED  BY <2>1, <2>2
<1>10. ASSUME UNCHANGED vars PROVE Typed'
  <2>1. TypeOK'
    BY <1>f, <1>10 DEF vars, times, TypeOK
  <2>2. EndsKnown'
    BY <1>10 DEF vars, times, EndsKnown, Started
  <2> QED  BY <2>1, <2>2
<1> QED  BY <1>1, <1>2, <1>3, <1>4, <1>5, <1>6, <1>7, <1>8, <1>9, <1>10 DEF Next, Finished

(* TypeOK holds in every reachable state, of every program: in particular  *)
(* no timestamp and no unit's free_at lies in the future of the clock.     *)
THEOREM TypeCorrect == Spec => []TypeOK
<1>1. Typed => TypeOK
  BY DEF Typed
<1> QED  BY <1>1, InitBegins, TypedInit, TypedNext, PTL DEF Spec

-----------------------------------------------------------------------------
(***************************************************************************)
(*                  Where every instruction is, and in which order         *)
(***************************************************************************)

(* prog_idx splits each core's program: whatever it has passed comes       *)
(* before whatever is still waiting.                                       *)
IssuedInOrder ==
  \A i \in waiting, j \in Instrs \ waiting : CoreOf[i] = CoreOf[j] => j < i

Placed == SomewhereOnce /\ QueuesInOrder /\ IssuedInOrder

LEMMA QueueFacts ==
  ASSUME TypeOK, NEW u \in Unit
  PROVE  /\ inflight[u] \in Seq(Instrs)
         /\ Len(inflight[u]) \in Nat
         /\ \A k \in 1 .. Len(inflight[u]) : inflight[u][k] \in Instrs
         /\ inflight[u] # << >> =>
              /\ Len(inflight[u]) > 0
              /\ Head(inflight[u]) = inflight[u][1]
              /\ Len(Tail(inflight[u])) = Len(inflight[u]) - 1
              /\ \A k \in 1 .. Len(inflight[u]) - 1 :
                   Tail(inflight[u])[k] = inflight[u][k + 1]
<1>1. inflight[u] \in Seq(Instrs)
  BY DEF TypeOK
<1>2. Len(inflight[u]) \in Nat /\ \A k \in 1 .. Len(inflight[u]) : inflight[u][k] \in Instrs
  BY <1>1, LenProperties, ElementOfSeq
<1>3. ASSUME inflight[u] # << >>
      PROVE  /\ Len(inflight[u]) > 0
             /\ Head(inflight[u]) = inflight[u][1]
             /\ Len(Tail(inflight[u])) = Len(inflight[u]) - 1
             /\ \A k \in 1 .. Len(inflight[u]) - 1 :
                  Tail(inflight[u])[k] = inflight[u][k + 1]
  BY <1>1, <1>2, <1>3, HeadTailProperties, EmptySeq
<1> QED  BY <1>1, <1>2, <1>3

LEMMA PlacedInit == Begun => Placed
<1> SUFFICES ASSUME Begun PROVE Placed
  OBVIOUS
<1>1. IsJob(job)
  BY DEF Begun
<1>2. SomewhereOnce
  BY <1>1, JobFacts DEF Begun, Called, SomewhereOnce, Started, Retired
<1>3. QueuesInOrder
  BY <1>1, JobFacts DEF Begun, Called, QueuesInOrder
<1>4. IssuedInOrder
  BY DEF Begun, Called, IssuedInOrder
<1> QED  BY <1>2, <1>3, <1>4 DEF Placed

(* Steps that neither move nor start an instruction. *)
LEMMA PlacedUnmoved ==
  ASSUME Placed, UNCHANGED <<job, startTime, retireTime, waiting, inflight>>
  PROVE  Placed'
<1>1. Instrs' = Instrs /\ CoreOf' = CoreOf
  BY DEF Instrs, CoreOf
<1>2. \A i : (Started(i)' <=> Started(i)) /\ (Retired(i)' <=> Retired(i))
  BY DEF Started, Retired
<1>3. SomewhereOnce'
  BY <1>1, <1>2 DEF Placed, SomewhereOnce
<1>4. QueuesInOrder'
  BY <1>2 DEF Placed, QueuesInOrder
<1>5. IssuedInOrder'
  BY <1>1 DEF Placed, IssuedInOrder
<1> QED  BY <1>3, <1>4, <1>5 DEF Placed

(* Only heads start. *)
LEMMA PlacedStart ==
  ASSUME Typed, Placed, NEW u \in Units, inflight[u] # << >>,
         startTime' = [startTime EXCEPT ![Head(inflight[u])] = now],
         UNCHANGED <<job, retireTime, waiting, inflight>>
  PROVE  Placed'
<1> DEFINE h == Head(inflight[u])
<1>1. TypeOK /\ u \in Unit /\ h \in Instrs /\ h \in 0 .. job.n /\ h = inflight[u][1]
      /\ Len(inflight[u]) \in Nat /\ Len(inflight[u]) > 0
  BY HeadOfQueue, JobFacts, QueueFacts DEF Typed, TypeOK
<1>2. \A i \in Instrs : Started(i)' <=> Started(i) \/ i = h
  BY <1>1, JobFacts, NoneAssumption DEF Started, TypeOK
<1>3. h \notin waiting /\ ~Retired(h) /\ job.unit[h] = u
  BY <1>1 DEF Placed, QueuesInOrder
<1>4. SomewhereOnce'
  BY <1>2, <1>3 DEF Placed, SomewhereOnce, Retired, Instrs
<1>5. QueuesInOrder'
  <2> SUFFICES ASSUME NEW v \in Unit, NEW k \in 1 .. Len(inflight[v]), k > 1
               PROVE  ~Started(inflight[v][k])'
    BY DEF Placed, QueuesInOrder, Retired
  <2>1. Len(inflight[v]) \in Nat /\ inflight[v][k] \in Instrs
    BY <1>1, QueueFacts
  <2>2. inflight[v][k] # h
    <3>1. CASE v = u
      <4>1. inflight[u][1] < inflight[u][k]
        BY <1>1, <2>1, <3>1 DEF Placed, QueuesInOrder
      <4> QED  BY <1>1, <2>1, <3>1, <4>1 DEF Instrs
    <3>2. CASE v # u
      BY <1>3, <3>2 DEF Placed, QueuesInOrder
    <3> QED  BY <3>1, <3>2
  <2>3. ~Started(inflight[v][k])
    BY DEF Placed, QueuesInOrder
  <2> QED  BY <1>2, <2>1, <2>2, <2>3
<1>6. IssuedInOrder'
  BY DEF Placed, IssuedInOrder, Instrs, CoreOf
<1> QED  BY <1>4, <1>5, <1>6 DEF Placed

LEMMA PlacedRetire ==
  ASSUME Typed, Placed, NEW u \in Units, RetireHead(u)
  PROVE  Placed'
<1> DEFINE h == Head(inflight[u])
<1>1. TypeOK /\ inflight[u] # << >> /\ Started(h) /\ ~Retired(h)
  BY DEF RetireHead, CanRetire, Typed
<1>2. u \in Unit /\ h \in Instrs /\ h \in 0 .. job.n /\ h = inflight[u][1]
      /\ Len(inflight[u]) \in Nat /\ Len(inflight[u]) > 0
  BY <1>1, HeadOfQueue, JobFacts, QueueFacts DEF TypeOK
<1>3. /\ inflight' = [inflight EXCEPT ![u] = Tail(inflight[u])]
      /\ retireTime' = [retireTime EXCEPT ![h] = now]
      /\ UNCHANGED <<job, startTime, waiting>>
  BY DEF RetireHead
<1>4. \A i \in Instrs : /\ retireTime'[i] # None <=> Retired(i) \/ i = h
                        /\ startTime'[i] # None <=> Started(i)
  BY <1>1, <1>2, <1>3, JobFacts, NoneAssumption DEF Retired, Started, TypeOK
<1>5. h \notin waiting /\ job.unit[h] = u
  BY <1>2 DEF Placed, QueuesInOrder
<1>6. /\ Len(inflight'[u]) = Len(inflight[u]) - 1
      /\ \A k \in 1 .. Len(inflight[u]) - 1 : inflight'[u][k] = inflight[u][k + 1]
      /\ \A v \in Unit \ {u} : inflight'[v] = inflight[v]
  BY <1>1, <1>2, <1>3, QueueFacts DEF TypeOK
<1>7. SomewhereOnce'
  <2> SUFFICES ASSUME NEW i \in Instrs
               PROVE  \/ i \in waiting /\ startTime'[i] = None /\ retireTime'[i] = None
                      \/ /\ i \notin waiting /\ retireTime'[i] = None
                         /\ \E k \in 1 .. Len(inflight'[job.unit[i]]) :
                              inflight'[job.unit[i]][k] = i
                      \/ i \notin waiting /\ startTime'[i] # None /\ retireTime'[i] # None
    BY <1>3 DEF SomewhereOnce, Instrs, Started, Retired
  <2>1. CASE i = h
    BY <1>1, <1>4, <1>5, <2>1
  <2>2. CASE i # h /\ \E k \in 1 .. Len(inflight[job.unit[i]]) : inflight[job.unit[i]][k] = i
    <3>1. PICK k \in 1 .. Len(inflight[job.unit[i]]) : inflight[job.unit[i]][k] = i
      BY <2>2
    <3>2. job.unit[i] \in Unit
      BY JobFacts, <1>1 DEF TypeOK
    <3>3. i \notin waiting /\ ~Retired(i)
      BY <3>1, <3>2 DEF Placed, QueuesInOrder
    <3>4. \E m \in 1 .. Len(inflight'[job.unit[i]]) : inflight'[job.unit[i]][m] = i
      <4>1. CASE job.unit[i] = u
        <5>1. k # 1 /\ k \in Nat
          BY <1>2, <2>2, <3>1, <4>1
        <5>2. k - 1 \in 1 .. Len(inflight[u]) - 1
          BY <1>2, <3>1, <4>1, <5>1
        <5>3. inflight'[u][k - 1] = inflight[u][k - 1 + 1]
          BY <1>6, <5>2
        <5>4. k - 1 + 1 = k
          BY <5>1
        <5> QED  BY <1>6, <3>1, <4>1, <5>2, <5>3, <5>4
      <4>2. CASE job.unit[i] # u
        BY <1>6, <3>1, <3>2, <4>2
      <4> QED  BY <4>1, <4>2
    <3> QED  BY <1>4, <2>2, <3>3, <3>4
  <2>3. CASE i # h /\ ~ \E k \in 1 .. Len(inflight[job.unit[i]]) : inflight[job.unit[i]][k] = i
    BY <1>4, <2>3 DEF Placed, SomewhereOnce
  <2> QED  BY <2>1, <2>2, <2>3
<1>8. QueuesInOrder'
  <2>0. job' = job /\ waiting' = waiting
    BY <1>3
  <2> SUFFICES ASSUME NEW v \in Unit
               PROVE  /\ Len(inflight'[v]) <= job.depth[v]
                      /\ \A k \in 1 .. Len(inflight'[v]) :
                           /\ job.unit[inflight'[v][k]] = v
                           /\ inflight'[v][k] \notin waiting /\ retireTime'[inflight'[v][k]] = None
                           /\ k > 1 => startTime'[inflight'[v][k]] = None
                           /\ \A m \in 1 .. k - 1 : inflight'[v][m] < inflight'[v][k]
    BY <2>0 DEF QueuesInOrder, Started, Retired
  <2>1. /\ Len(inflight[v]) <= job.depth[v] /\ Len(inflight[v]) \in Nat /\ job.depth[v] \in Nat
        /\ \A k \in 1 .. Len(inflight[v]) : inflight[v][k] \in Instrs
    BY <1>1, QueueFacts, JobFacts DEF Placed, QueuesInOrder, TypeOK
  <2>2. CASE v = u
    <3>1. \A k \in 1 .. Len(inflight[u]) - 1 : k + 1 \in 1 .. Len(inflight[u]) /\ k + 1 > 1
      BY <1>2
    <3>2. \A k \in 1 .. Len(inflight[u]) - 1 :
            /\ job.unit[inflight[u][k + 1]] = u
            /\ inflight[u][k + 1] \notin waiting /\ ~Retired(inflight[u][k + 1])
            /\ ~Started(inflight[u][k + 1])
            /\ \A m \in 1 .. k : inflight[u][m] < inflight[u][k + 1]
      <4> TAKE k \in 1 .. Len(inflight[u]) - 1
      <4>1. \A m \in 1 .. (k + 1) - 1 : inflight[u][m] < inflight[u][k + 1]
        BY <1>2, <3>1 DEF Placed, QueuesInOrder
      <4>2. (k + 1) - 1 = k
        OBVIOUS
      <4>3. \A m \in 1 .. k : inflight[u][m] < inflight[u][k + 1]
        BY <4>1, <4>2
      <4> QED  BY <1>2, <3>1, <4>3 DEF Placed, QueuesInOrder
    <3>3. \A k \in 1 .. Len(inflight[u]) - 1 : inflight[u][k + 1] # h
      <4> TAKE k \in 1 .. Len(inflight[u]) - 1
      <4>1. inflight[u][1] < inflight[u][k + 1] /\ inflight[u][k + 1] \in Instrs
        BY <2>1, <2>2, <3>1, <3>2
      <4> QED  BY <1>2, <4>1 DEF Instrs
    <3>4. \A k \in 1 .. Len(inflight[u]) - 1 :
            retireTime'[inflight[u][k + 1]] = None /\ startTime'[inflight[u][k + 1]] = None
      BY <1>4, <2>1, <2>2, <3>1, <3>2, <3>3
    <3>5. \A k \in 1 .. Len(inflight[u]) - 1 :
            /\ job.unit[inflight'[u][k]] = u
            /\ inflight'[u][k] \notin waiting
            /\ retireTime'[inflight'[u][k]] = None
            /\ startTime'[inflight'[u][k]] = None
      <4> TAKE k \in 1 .. Len(inflight[u]) - 1
      <4>1. inflight'[u][k] = inflight[u][k + 1]
        BY <1>6
      <4> QED  BY <3>2, <3>4, <4>1
    <3>6. \A k \in 1 .. Len(inflight[u]) - 1 : \A m \in 1 .. k - 1 :
            inflight'[u][m] < inflight'[u][k]
      <4> TAKE k \in 1 .. Len(inflight[u]) - 1
      <4> TAKE m \in 1 .. k - 1
      <4>1. m \in 1 .. Len(inflight[u]) - 1 /\ m + 1 \in 1 .. k
        BY <1>2
      <4>2. inflight'[u][m] = inflight[u][m + 1] /\ inflight'[u][k] = inflight[u][k + 1]
        BY <1>6, <4>1
      <4> QED  BY <3>2, <4>1, <4>2
    <3>7. Len(inflight'[u]) = Len(inflight[u]) - 1
      BY <1>6
    <3>8. Len(inflight'[v]) <= job.depth[v]
      BY <2>1, <2>2, <3>7
    <3>9. 1 .. Len(inflight'[v]) = 1 .. Len(inflight[u]) - 1
      BY <2>2, <3>7
    <3> QED  BY <2>2, <3>5, <3>6, <3>8, <3>9, Zenon
  <2>3. CASE v # u
    <3>1. inflight'[v] = inflight[v]
      BY <1>6, <2>3
    <3>2. \A k \in 1 .. Len(inflight[v]) : inflight[v][k] # h
      BY <1>5, <2>3 DEF Placed, QueuesInOrder
    <3>3. \A k \in 1 .. Len(inflight[v]) :
            /\ retireTime'[inflight[v][k]] = None
            /\ k > 1 => startTime'[inflight[v][k]] = None
      BY <1>4, <2>1, <3>2 DEF Placed, QueuesInOrder
    <3>4. \A k \in 1 .. Len(inflight'[v]) :
            /\ retireTime'[inflight'[v][k]] = None
            /\ k > 1 => startTime'[inflight'[v][k]] = None
      BY <3>1, <3>3
    <3> QED  BY <3>1, <3>4 DEF Placed, QueuesInOrder
  <2> QED  BY <2>2, <2>3
<1>9. IssuedInOrder'
  <2>1. job' = job /\ waiting' = waiting
    BY <1>3
  <2> QED  BY <2>1 DEF Placed, IssuedInOrder, Instrs, CoreOf
<1> QED  BY <1>7, <1>8, <1>9 DEF Placed

LEMMA PlacedIssue ==
  ASSUME Typed, Placed, NEW c \in Cores, IssueNext(c)
  PROVE  Placed'
<1>1. PICK i \in waiting :
        /\ CanIssue(c, i)
        /\ inflight' = [inflight EXCEPT ![job.unit[i]] = Append(@, i)]
        /\ waiting' = waiting \ {i}
  BY DEF IssueNext
<1> DEFINE u == job.unit[i]
<1>2. TypeOK /\ i \in Instrs /\ u \in Unit /\ waiting \subseteq Instrs
  BY JobFacts DEF Typed, TypeOK
<1>3. UNCHANGED <<job, startTime, retireTime>>
  BY DEF IssueNext, times
<1>4. ~Started(i) /\ ~Retired(i)
  BY <1>2 DEF Placed, SomewhereOnce
<1>5. /\ \A j \in waiting : CoreOf[j] = CoreOf[i] => i <= j
      /\ Len(inflight[u]) < job.depth[u]
  BY <1>1 DEF CanIssue
<1>6. /\ Len(inflight[u]) \in Nat
      /\ Len(inflight'[u]) = Len(inflight[u]) + 1
      /\ \A k \in 1 .. Len(inflight[u]) : inflight'[u][k] = inflight[u][k]
      /\ inflight'[u][Len(inflight[u]) + 1] = i
      /\ \A v \in Unit \ {u} : inflight'[v] = inflight[v]
  BY <1>1, <1>2, AppendProperties, QueueFacts DEF TypeOK
<1>7. SomewhereOnce'
  <2> SUFFICES ASSUME NEW j \in Instrs
               PROVE  \/ j \in waiting' /\ ~Started(j) /\ ~Retired(j)
                      \/ /\ j \notin waiting' /\ ~Retired(j)
                         /\ \E k \in 1 .. Len(inflight'[job.unit[j]]) :
                              inflight'[job.unit[j]][k] = j
                      \/ j \notin waiting' /\ Started(j) /\ Retired(j)
    BY <1>3 DEF SomewhereOnce, Instrs, Started, Retired
  <2>1. CASE j = i
    <3>1. Len(inflight[u]) + 1 \in 1 .. Len(inflight'[u])
      BY <1>6
    <3> QED  BY <1>1, <1>4, <1>6, <2>1, <3>1
  <2>2. CASE j # i /\ \E k \in 1 .. Len(inflight[job.unit[j]]) : inflight[job.unit[j]][k] = j
    <3>1. PICK k \in 1 .. Len(inflight[job.unit[j]]) : inflight[job.unit[j]][k] = j
      BY <2>2
    <3>2. job.unit[j] \in Unit
      BY JobFacts, <1>2 DEF TypeOK
    <3>3. j \notin waiting /\ ~Retired(j)
      BY <3>1, <3>2 DEF Placed, QueuesInOrder
    <3>4. k \in 1 .. Len(inflight'[job.unit[j]]) /\ inflight'[job.unit[j]][k] = j
      BY <1>6, <3>1, <3>2
    <3> QED  BY <1>1, <3>3, <3>4
  <2>3. CASE j # i /\ ~ \E k \in 1 .. Len(inflight[job.unit[j]]) : inflight[job.unit[j]][k] = j
    BY <1>1, <2>3 DEF Placed, SomewhereOnce
  <2> QED  BY <2>1, <2>2, <2>3
<1>8. QueuesInOrder'
  <2> DEFINE Good(v) ==
               /\ Len(inflight'[v]) <= job.depth[v]
               /\ \A k \in 1 .. Len(inflight'[v]) :
                    /\ job.unit[inflight'[v][k]] = v
                    /\ inflight'[v][k] \notin waiting' /\ ~Retired(inflight'[v][k])
                    /\ k > 1 => ~Started(inflight'[v][k])
                    /\ \A m \in 1 .. k - 1 : inflight'[v][m] < inflight'[v][k]
  <2>1. Good(u)
    <3>1. Len(inflight'[u]) <= job.depth[u]
      BY <1>2, <1>5, <1>6, JobFacts DEF TypeOK
    <3>2. ASSUME NEW k \in 1 .. Len(inflight[u])
          PROVE  /\ job.unit[inflight'[u][k]] = u
                 /\ inflight'[u][k] \notin waiting' /\ ~Retired(inflight'[u][k])
                 /\ k > 1 => ~Started(inflight'[u][k])
                 /\ \A m \in 1 .. k - 1 : inflight'[u][m] < inflight'[u][k]
      <4>1. \A m \in 1 .. k - 1 : m \in 1 .. Len(inflight[u])
        BY <1>6
      <4> QED  BY <1>1, <1>2, <1>6, <4>1 DEF Placed, QueuesInOrder
    <3>3. \A m \in 1 .. Len(inflight[u]) : inflight[u][m] < i
      <4> TAKE m \in 1 .. Len(inflight[u])
      <4>1. /\ job.unit[inflight[u][m]] = u /\ inflight[u][m] \notin waiting
            /\ inflight[u][m] \in Instrs
        BY <1>2, QueueFacts DEF Placed, QueuesInOrder
      <4>2. CoreOf[inflight[u][m]] = CoreOf[i]
        BY <1>2, <4>1 DEF CoreOf
      <4> QED  BY <4>1, <4>2 DEF Placed, IssuedInOrder
    <3>4. ASSUME NEW k, k = Len(inflight[u]) + 1
          PROVE  /\ job.unit[inflight'[u][k]] = u
                 /\ inflight'[u][k] \notin waiting' /\ ~Retired(inflight'[u][k])
                 /\ k > 1 => ~Started(inflight'[u][k])
                 /\ \A m \in 1 .. k - 1 : inflight'[u][m] < inflight'[u][k]
      <4>1. inflight'[u][k] = i
        BY <1>6, <3>4
      <4>2. \A m \in 1 .. k - 1 : inflight'[u][m] < i
        BY <1>6, <3>3, <3>4
      <4>3. job.unit[inflight'[u][k]] = u
        BY <4>1
      <4>4. inflight'[u][k] \notin waiting'
        <5>1. i \notin waiting'
          BY <1>1
        <5> QED  BY <4>1, <5>1
      <4>5. ~Retired(inflight'[u][k]) /\ ~Started(inflight'[u][k])
        BY <1>4, <4>1
      <4>6. \A m \in 1 .. k - 1 : inflight'[u][m] < inflight'[u][k]
        BY <4>1, <4>2
      <4> QED  BY <4>3, <4>4, <4>5, <4>6
    <3>5. \A k \in 1 .. Len(inflight'[u]) : k \in 1 .. Len(inflight[u]) \/ k = Len(inflight[u]) + 1
      BY <1>6
    <3>6. \A k \in 1 .. Len(inflight'[u]) :
            /\ job.unit[inflight'[u][k]] = u
            /\ inflight'[u][k] \notin waiting' /\ ~Retired(inflight'[u][k])
            /\ k > 1 => ~Started(inflight'[u][k])
            /\ \A m \in 1 .. k - 1 : inflight'[u][m] < inflight'[u][k]
      BY <3>2, <3>4, <3>5
    <3> QED  BY <3>1, <3>6
  <2>2. ASSUME NEW v \in Unit \ {u} PROVE Good(v)
    <3>1. inflight'[v] = inflight[v]
      BY <1>6
    <3> QED  BY <1>1, <3>1 DEF Placed, QueuesInOrder
  <2>3. \A v \in Unit : Good(v)
    <3> HIDE DEF Good
    <3> QED  BY <2>1, <2>2
  <2> QED  BY <1>3, <2>3 DEF QueuesInOrder, Started, Retired
<1>9. IssuedInOrder'
  <2> SUFFICES ASSUME NEW a \in waiting \ {i}, NEW j \in Instrs \ (waiting \ {i}),
                      CoreOf[a] = CoreOf[j]
               PROVE  j < a
    BY <1>1, <1>3 DEF IssuedInOrder, Instrs, CoreOf
  <2>1. CASE j = i
    <3>1. i <= a /\ a # i /\ a \in Instrs
      BY <1>2, <1>5, <2>1
    <3> QED  BY <1>2, <2>1, <3>1 DEF Instrs
  <2>2. CASE j # i
    BY <2>2 DEF Placed, IssuedInOrder
  <2> QED  BY <2>1, <2>2
<1> QED  BY <1>7, <1>8, <1>9 DEF Placed

LEMMA PlacedNext == Typed /\ Placed /\ [Next]_vars => Placed'
<1> SUFFICES ASSUME Typed, Placed, [Next]_vars PROVE Placed'
  OBVIOUS
<1>1. ASSUME NEW u \in Units, RetireHead(u) PROVE Placed'
  BY <1>1, PlacedRetire
<1>2. ASSUME NEW u \in Units, RetireSkips(u) PROVE Placed'
  BY <1>2, PlacedUnmoved DEF RetireSkips, times
<1>3. ASSUME NEW u \in Units, StartHead(u) \/ StartFaults(u) PROVE Placed'
  BY <1>3, PlacedStart DEF StartHead, StartFaults, CanStart
<1>4. ASSUME NEW u \in Units, StartSkips(u) PROVE Placed'
  BY <1>4, PlacedUnmoved DEF StartSkips, times
<1>5. ASSUME NEW c \in Cores, IssueNext(c) PROVE Placed'
  BY <1>5, PlacedIssue
<1>6. ASSUME NEW c \in Cores, DispatcherStops(c) PROVE Placed'
  BY <1>6, PlacedUnmoved DEF DispatcherStops, times
<1>7. CASE AdvanceClock \/ RaiseDeadlock \/ Finished \/ UNCHANGED vars
  BY <1>7, PlacedUnmoved DEF AdvanceClock, RaiseDeadlock, Finished, vars, times
<1> QED  BY <1>1, <1>2, <1>3, <1>4, <1>5, <1>6, <1>7 DEF Next

(* remaining counts the instructions that have not retired. *)
Counted == remaining = Cardinality({i \in Instrs : ~Retired(i)})

LEMMA CountedInit == Begun => Counted
<1> SUFFICES ASSUME Begun PROVE Counted
  OBVIOUS
<1>1. job.n \in Nat
  BY JobFacts DEF Begun
<1>2. {i \in Instrs : ~Retired(i)} = 1 .. job.n
  BY <1>1 DEF Begun, Called, Retired, Instrs
<1>3. Cardinality(1 .. job.n) = job.n
  BY <1>1, FS_Interval
<1> QED  BY <1>2, <1>3 DEF Begun, Called, Counted

LEMMA CountedNext == Typed /\ Placed /\ Counted /\ [Next]_vars => Counted'
<1> SUFFICES ASSUME Typed, Placed, Counted, [Next]_vars PROVE Counted'
  OBVIOUS
<1> DEFINE Left == {i \in Instrs : ~Retired(i)}
<1>1. ASSUME NEW u \in Units, RetireHead(u) PROVE Counted'
  <2> DEFINE h == Head(inflight[u])
  <2>1. TypeOK /\ h \in Instrs /\ h \in 0 .. job.n /\ ~Retired(h)
    BY <1>1, HeadOfQueue, JobFacts DEF RetireHead, CanRetire, Typed, TypeOK
  <2>2. /\ retireTime' = [retireTime EXCEPT ![h] = now]
        /\ job' = job /\ remaining' = remaining - 1
    BY <1>1 DEF RetireHead
  <2>3. \A i \in Instrs : retireTime'[i] # None <=> Retired(i) \/ i = h
    BY <2>1, <2>2, JobFacts, NoneAssumption DEF Retired, TypeOK
  <2>4. {i \in Instrs : retireTime'[i] = None} = Left \ {h}
    BY <2>3
  <2>5. IsFiniteSet(Left)
    BY <2>1, JobFacts, FS_Subset DEF TypeOK
  <2>6. Cardinality(Left \ {h}) = Cardinality(Left) - 1
    BY <2>1, <2>5, FS_RemoveElement
  <2>7. Instrs' = Instrs
    BY JobFixed
  <2> QED  BY <2>2, <2>4, <2>6, <2>7 DEF Counted, Retired
<1>2. CASE UNCHANGED <<job, retireTime, remaining>>
  BY <1>2 DEF Counted, Retired, Instrs
<1>3. ASSUME NEW u \in Units, RetireSkips(u) \/ StartHead(u) \/ StartFaults(u) \/ StartSkips(u)
      PROVE  Counted'
  BY <1>2, <1>3 DEF RetireSkips, StartHead, StartFaults, StartSkips, times
<1>4. ASSUME NEW c \in Cores, IssueNext(c) \/ DispatcherStops(c) PROVE Counted'
  BY <1>2, <1>4 DEF IssueNext, DispatcherStops, times
<1>5. CASE AdvanceClock \/ RaiseDeadlock \/ Finished \/ UNCHANGED vars
  BY <1>2, <1>5 DEF AdvanceClock, RaiseDeadlock, Finished, vars, times
<1> QED  BY <1>1, <1>3, <1>4, <1>5 DEF Next

(* In every reachable state of every program, each instruction waits, is   *)
(* in its unit's queue or has retired, and the queues keep list order.     *)
THEOREM InstructionsAccountedFor == Spec => []Accounted
<1>1. Init => Typed /\ Placed /\ Counted
  BY InitBegins, TypedInit, PlacedInit, CountedInit
<1>2. Typed /\ Placed /\ Counted /\ [Next]_vars => (Typed /\ Placed /\ Counted)'
  BY TypedNext, PlacedNext, CountedNext
<1>3. Typed /\ Placed /\ Counted => Accounted
  BY DEF Placed, Counted, Accounted
<1> QED  BY <1>1, <1>2, <1>3, PTL DEF Spec

(* Whatever comes before the head of a queue on the same unit has retired. *)
LEMMA HeadIsNext ==
  ASSUME Typed, Placed, NEW u \in Units, inflight[u] # << >>,
         NEW i \in Instrs, i < Head(inflight[u]), job.unit[i] = u
  PROVE  Retired(i)
<1> DEFINE h == Head(inflight[u])
<1>1. TypeOK /\ u \in Unit /\ h \in Instrs /\ h = inflight[u][1]
      /\ Len(inflight[u]) \in Nat /\ Len(inflight[u]) > 0
  BY HeadOfQueue, QueueFacts DEF Typed
<1>2. h \notin waiting /\ job.unit[h] = u
  BY <1>1 DEF Placed, QueuesInOrder
<1>3. ASSUME i \in waiting PROVE FALSE
  <2>1. CoreOf[i] = CoreOf[h]
    BY <1>1, <1>2 DEF CoreOf
  <2>2. h < i
    BY <1>1, <1>2, <1>3, <2>1 DEF Placed, IssuedInOrder
  <2> QED  BY <1>1, <2>2 DEF Instrs
<1>4. ASSUME NEW k \in 1 .. Len(inflight[u]), inflight[u][k] = i PROVE FALSE
  <2>1. k # 1
    BY <1>1, <1>4 DEF Instrs
  <2>2. 1 \in 1 .. k - 1
    BY <1>1, <2>1
  <2>3. h < i
    BY <1>1, <1>4, <2>2 DEF Placed, QueuesInOrder
  <2> QED  BY <1>1, <2>3 DEF Instrs
<1> QED  BY <1>3, <1>4 DEF Placed, SomewhereOnce

LEMMA ProgramOrderNext ==
  Typed /\ Placed /\ ProgramOrder /\ [Next]_vars => ProgramOrder'
<1> SUFFICES ASSUME Typed, Placed, ProgramOrder, [Next]_vars PROVE ProgramOrder'
  OBVIOUS
<1>1. ASSUME NEW u \in Units, StartHead(u) \/ StartFaults(u) PROVE ProgramOrder'
  <2> DEFINE h == Head(inflight[u])
  <2>1. inflight[u] # << >> /\ job' = job /\ retireTime' = retireTime
        /\ startTime' = [startTime EXCEPT ![h] = now]
    BY <1>1 DEF StartHead, StartFaults, CanStart
  <2>2. TypeOK /\ h \in Instrs /\ job.unit[h] = u /\ now \in Nat /\ Instrs \subseteq 0 .. job.n
    <3>1. TypeOK /\ h \in Instrs /\ u \in Unit /\ h = inflight[u][1]
          /\ Len(inflight[u]) \in Nat /\ Len(inflight[u]) > 0
      BY <2>1, HeadOfQueue, QueueFacts DEF Typed
    <3> QED  BY <3>1, JobFacts DEF Placed, QueuesInOrder, TypeOK
  <2> SUFFICES ASSUME NEW i \in Instrs, NEW j \in Instrs,
                      i < j, job.unit[i] = job.unit[j], startTime'[j] # None
               PROVE  Retired(i) /\ retireTime[i] <= startTime'[j]
    BY <2>1 DEF ProgramOrder, Started, Retired, Instrs
  <2>3. CASE j = h
    <3>1. Retired(i)
      BY <2>1, <2>2, <2>3, HeadIsNext
    <3>2. retireTime[i] \in 0 .. now /\ startTime'[j] = now
      BY <2>1, <2>2, <2>3, <3>1 DEF TypeOK, Retired
    <3> QED  BY <2>2, <3>1, <3>2
  <2>4. CASE j # h
    BY <2>1, <2>2, <2>4 DEF ProgramOrder, Started, TypeOK
  <2> QED  BY <2>3, <2>4
<1>2. ASSUME NEW u \in Units, RetireHead(u) PROVE ProgramOrder'
  <2> DEFINE h == Head(inflight[u])
  <2>1. TypeOK /\ h \in Instrs /\ h \in 0 .. job.n /\ ~Retired(h)
    BY <1>2, HeadOfQueue, JobFacts DEF RetireHead, CanRetire, Typed, TypeOK
  <2>2. /\ retireTime' = [retireTime EXCEPT ![h] = now]
        /\ job' = job /\ startTime' = startTime
    BY <1>2 DEF RetireHead
  <2> SUFFICES ASSUME NEW i \in Instrs, NEW j \in Instrs,
                      i < j, job.unit[i] = job.unit[j], Started(j)
               PROVE  retireTime'[i] # None /\ retireTime'[i] <= startTime[j]
    BY <2>2 DEF ProgramOrder, Started, Retired, Instrs
  <2>3. Retired(i) /\ retireTime[i] <= startTime[j]
    BY DEF ProgramOrder
  <2>4. i # h
    BY <2>1, <2>3
  <2> QED  BY <2>1, <2>2, <2>3, <2>4, JobFacts DEF TypeOK, Retired
<1>3. CASE UNCHANGED <<job, startTime, retireTime>>
  BY <1>3 DEF ProgramOrder, Started, Retired, Instrs
<1>4. ASSUME NEW u \in Units, RetireSkips(u) \/ StartSkips(u) PROVE ProgramOrder'
  BY <1>3, <1>4 DEF RetireSkips, StartSkips, times
<1>5. ASSUME NEW c \in Cores, IssueNext(c) \/ DispatcherStops(c) PROVE ProgramOrder'
  BY <1>3, <1>5 DEF IssueNext, DispatcherStops, times
<1>6. CASE AdvanceClock \/ RaiseDeadlock \/ Finished \/ UNCHANGED vars
  BY <1>3, <1>6 DEF AdvanceClock, RaiseDeadlock, Finished, vars, times
<1> QED  BY <1>1, <1>2, <1>4, <1>5, <1>6 DEF Next

(* Each unit runs its instructions one at a time, in list order, and       *)
(* blocks after service, in every program on every chip.                   *)
THEOREM UnitsRunInProgramOrder == Spec => []ProgramOrder
<1>1. Init => Typed /\ Placed /\ ProgramOrder
  <2>1. Init => ProgramOrder
    <3> SUFFICES ASSUME Init PROVE ProgramOrder
      OBVIOUS
    <3>1. IsJob(job)
      BY JobsAssumption DEF Init, Called
    <3> QED  BY <3>1, JobFacts DEF Init, Called, ProgramOrder, Started
  <2> QED  BY <2>1, InitBegins, TypedInit, PlacedInit
<1>2. Typed /\ Placed /\ ProgramOrder /\ [Next]_vars => (Typed /\ Placed /\ ProgramOrder)'
  BY TypedNext, PlacedNext, ProgramOrderNext
<1> QED  BY <1>1, <1>2, PTL DEF Spec

-----------------------------------------------------------------------------
(***************************************************************************)
(*                  The sweep's fixpoint, and the deadlock report          *)
(*                                                                         *)
(* A sweep that has changed nothing so far has found nothing it could do.  *)
(* So when the call looks for the next event, no unit and no dispatcher    *)
(* can do anything at the present instant: the fact on which both the      *)
(* clock's jump and the deadlock report rest.                              *)
(***************************************************************************)

NoRetire == \A u \in Units : ~CanRetire(u, now)
NoStart  == \A u \in Units : ~CanStart(u, now)
NoIssue(S) == \A c \in S, i \in waiting : ~CanIssue(c, i)

Settled ==
  /\ pc = "retire" /\ ~progress => \A u \in Units \ todo : ~CanRetire(u, now)
  /\ pc = "start" /\ ~progress => NoRetire /\ \A u \in Units \ todo : ~CanStart(u, now)
  /\ pc = "issue" /\ ~progress => NoRetire /\ NoStart /\ NoIssue(Cores \ todo)
  /\ pc \in {"advance", "deadlock"} => NoRetire /\ NoStart /\ NoIssue(Cores) /\ remaining # 0
  /\ pc = "deadlock" => Wakes = {}

LEMMA SettledInit == Begun => Settled
<1> SUFFICES ASSUME Begun PROVE Settled
  OBVIOUS
<1>1. (pc = "retire" \/ pc = "done") /\ todo = Units
  BY DEF Begun, Called
<1> QED  BY <1>1 DEF Settled

(* Nothing a unit or a dispatcher can do depends on the loop's own state.  *)
LEMMA SameChances ==
  ASSUME UNCHANGED <<job, startTime, endTime, retireTime, now, waiting, inflight, freeAt, occ>>
  PROVE  /\ \A u : CanRetire(u, now)' <=> CanRetire(u, now)
         /\ \A u : CanStart(u, now)' <=> CanStart(u, now)
         /\ \A c, i : CanIssue(c, i)' <=> CanIssue(c, i)
         /\ Wakes' = Wakes
<1>1. \A u : CanRetire(u, now)' <=> CanRetire(u, now)
  BY DEF CanRetire, Started, Retired, HasFreeSlot
<1>2. \A u : CanStart(u, now)' <=> CanStart(u, now)
  BY DEF CanStart, Started, Retired, DepsOf
<1>3. \A c, i : CanIssue(c, i)' <=> CanIssue(c, i)
  BY DEF CanIssue, CoreOf, Instrs
<1>4. Wakes' = Wakes
  BY DEF Wakes, WakesOf, Units, Instrs, Started, Retired, AwaitsFeeds, ReadyAt, Feeds, DepsOf
<1> QED  BY <1>1, <1>2, <1>3, <1>4

LEMMA SettledNext == Settled /\ [Next]_vars => Settled'
<1> SUFFICES ASSUME Settled, [Next]_vars PROVE Settled'
  OBVIOUS
<1>f. job' = job /\ Units' = Units /\ Cores' = Cores
  BY JobFixed
<1>1. CASE progress' = TRUE /\ pc' \in {"retire", "start", "issue"}
  BY <1>1 DEF Settled
<1>2. ASSUME NEW u \in Units, RetireHead(u) PROVE Settled'
  BY <1>1, <1>2 DEF RetireHead, Leave
<1>3. ASSUME NEW u \in Units, StartHead(u) PROVE Settled'
  BY <1>1, <1>3 DEF StartHead, Leave
<1>4. ASSUME NEW u \in Units, StartFaults(u) PROVE Settled'
  BY <1>4 DEF StartFaults, Settled
<1>5. ASSUME NEW c \in Cores, IssueNext(c) PROVE Settled'
  BY <1>1, <1>5 DEF IssueNext
<1>6. ASSUME NEW u \in Units, RetireSkips(u) PROVE Settled'
  <2>1. /\ \A v : CanRetire(v, now)' <=> CanRetire(v, now)
        /\ pc = "retire" /\ ~CanRetire(u, now) /\ progress' = progress
    BY <1>6, SameChances DEF RetireSkips, times
  <2>2. CASE todo = {u}
    <3>1. pc' = "start" /\ todo' = Units
      BY <1>6, <2>2 DEF RetireSkips, Leave
    <3>2. ~progress => NoRetire
      BY <2>1, <2>2 DEF Settled, NoRetire
    <3> QED  BY <1>f, <2>1, <3>1, <3>2 DEF Settled, NoRetire
  <2>3. CASE todo # {u}
    <3>1. pc' = "retire" /\ todo' = todo \ {u}
      BY <1>6, <2>1, <2>3 DEF RetireSkips, Leave
    <3> QED  BY <1>f, <2>1, <3>1 DEF Settled
  <2> QED  BY <2>2, <2>3
<1>7. ASSUME NEW u \in Units, StartSkips(u) PROVE Settled'
  <2>1. /\ \A v : CanRetire(v, now)' <=> CanRetire(v, now)
        /\ \A v : CanStart(v, now)' <=> CanStart(v, now)
        /\ pc = "start" /\ ~CanStart(u, now) /\ progress' = progress
    BY <1>7, SameChances DEF StartSkips, times
  <2>2. ~progress => NoRetire /\ NoRetire'
    BY <1>f, <2>1 DEF Settled, NoRetire
  <2>3. CASE todo = {u}
    <3>1. pc' = "issue" /\ todo' = Cores
      BY <1>7, <2>3 DEF StartSkips, Leave
    <3>2. ~progress => NoStart'
      BY <1>f, <2>1, <2>3 DEF Settled, NoStart
    <3>3. NoIssue(Cores \ todo)'
      BY <1>f, <3>1 DEF NoIssue
    <3> QED  BY <2>1, <2>2, <3>1, <3>2, <3>3 DEF Settled
  <2>4. CASE todo # {u}
    <3>1. pc' = "start" /\ todo' = todo \ {u}
      BY <1>7, <2>1, <2>4 DEF StartSkips, Leave
    <3> QED  BY <1>f, <2>1, <2>2, <3>1 DEF Settled
  <2> QED  BY <2>3, <2>4
<1>8. ASSUME NEW c \in Cores, DispatcherStops(c) PROVE Settled'
  <2>1. /\ \A v : CanRetire(v, now)' <=> CanRetire(v, now)
        /\ \A v : CanStart(v, now)' <=> CanStart(v, now)
        /\ \A d, i : CanIssue(d, i)' <=> CanIssue(d, i)
        /\ pc = "issue" /\ \A i \in waiting : ~CanIssue(c, i)
        /\ waiting' = waiting /\ remaining' = remaining
    BY <1>8, SameChances DEF DispatcherStops, times
  <2>2. ~progress => NoRetire' /\ NoStart'
    BY <1>f, <2>1 DEF Settled, NoRetire, NoStart
  <2>3. CASE todo = {c} /\ progress
    <3>1. pc' = "retire" /\ todo' = Units
      BY <1>8, <2>3 DEF DispatcherStops, Leave, AfterSweep
    <3> QED  BY <1>f, <3>1 DEF Settled
  <2>4. CASE todo = {c} /\ ~progress
    <3>1. pc' = IF remaining = 0 THEN "done" ELSE "advance"
      BY <1>8, <2>4 DEF DispatcherStops, Leave, AfterSweep
    <3>2. NoIssue(Cores)'
      BY <1>f, <2>1, <2>4 DEF Settled, NoIssue
    <3> QED  BY <2>1, <2>2, <2>4, <3>1, <3>2 DEF Settled
  <2>5. CASE todo # {c}
    <3>1. pc' = "issue" /\ todo' = todo \ {c} /\ progress' = progress
      BY <1>8, <2>1, <2>5 DEF DispatcherStops, Leave
    <3>2. ~progress => NoIssue(Cores \ todo)'
      BY <1>f, <2>1, <3>1 DEF Settled, NoIssue
    <3> QED  BY <2>2, <3>1, <3>2 DEF Settled
  <2> QED  BY <2>3, <2>4, <2>5
<1>9. CASE AdvanceClock
  <2>1. pc' = "retire" /\ todo' = Units
    BY <1>9 DEF AdvanceClock
  <2> QED  BY <1>f, <2>1 DEF Settled
<1>10. CASE RaiseDeadlock
  <2>1. /\ \A v : CanRetire(v, now)' <=> CanRetire(v, now)
        /\ \A v : CanStart(v, now)' <=> CanStart(v, now)
        /\ \A d, i : CanIssue(d, i)' <=> CanIssue(d, i)
        /\ Wakes' = {} /\ pc = "advance" /\ pc' = "deadlock"
        /\ waiting' = waiting /\ remaining' = remaining
    BY <1>10, SameChances DEF RaiseDeadlock, times
  <2> QED  BY <1>f, <2>1 DEF Settled, NoRetire, NoStart, NoIssue
<1>11. CASE Finished \/ UNCHANGED vars
  <2>1. /\ \A v : CanRetire(v, now)' <=> CanRetire(v, now)
        /\ \A v : CanStart(v, now)' <=> CanStart(v, now)
        /\ \A d, i : CanIssue(d, i)' <=> CanIssue(d, i)
        /\ Wakes' = Wakes
        /\ UNCHANGED <<pc, todo, progress, waiting, remaining>>
    BY <1>11, SameChances DEF Finished, vars, times
  <2> QED  BY <1>f, <2>1 DEF Settled, NoRetire, NoStart, NoIssue
<1> QED  BY <1>2, <1>3, <1>4, <1>5, <1>6, <1>7, <1>8, <1>9, <1>10, <1>11 DEF Next

(* The inductive invariant the next theorems rest on. *)
Inv == Typed /\ Placed /\ Counted /\ Settled

LEMMA Invariance == Spec => []Inv
<1>1. Init => Inv
  BY InitBegins, TypedInit, PlacedInit, CountedInit, SettledInit DEF Inv
<1>2. Inv /\ [Next]_vars => Inv'
  BY TypedNext, PlacedNext, CountedNext, SettledNext DEF Inv
<1> QED  BY <1>1, <1>2, PTL DEF Spec

LEMMA TimesArePast ==
  ASSUME TypeOK, NEW i \in 0 .. job.n
  PROVE  /\ Started(i) => startTime[i] \in Nat /\ startTime[i] <= now
         /\ Retired(i) => retireTime[i] \in Nat /\ retireTime[i] <= now
<1>1. now \in Nat
  BY DEF TypeOK
<1>2. startTime[i] \in (0 .. now) \cup {None} /\ retireTime[i] \in (0 .. now) \cup {None}
  BY DEF TypeOK
<1>3. Started(i) => startTime[i] \in 0 .. now
  BY <1>2 DEF Started
<1>4. Retired(i) => retireTime[i] \in 0 .. now
  BY <1>2 DEF Retired
<1> QED  BY <1>1, <1>3, <1>4

LEMMA EndsArePlanned ==
  ASSUME Typed, pc # "raised", NEW i \in 0 .. job.n, Started(i)
  PROVE  endTime[i] \in Nat
<1>1. endTime[i] \in Nat \cup {None} /\ endTime[i] # None
  BY DEF Typed, TypeOK, EndsKnown
<1> QED  BY <1>1

(* A head that has all its inputs, but cannot start yet, is woken up when  *)
(* its streams have crossed the link.                                      *)
LEMMA ReadyHeadWakes ==
  ASSUME TypeOK, NEW u \in Units, inflight[u] # << >>, ~Started(Head(inflight[u])),
         \A d \in DepsOf(Head(inflight[u])) : Retired(d),
         \A s \in job.streams[Head(inflight[u])] : Started(s),
         ~CanStart(u, now)
  PROVE  /\ ReadyAt(Head(inflight[u])) \in Wakes
         /\ \E s \in job.streams[Head(inflight[u])] :
              ReadyAt(Head(inflight[u])) = startTime[s] + job.latency[Head(inflight[u])]
<1> DEFINE h == Head(inflight[u])
<1>1. h \in Instrs /\ u \in Unit /\ Instrs \subseteq 0 .. job.n /\ now \in Nat
  BY HeadOfQueue, JobFacts DEF TypeOK
<1>2. freeAt[u] <= now
  BY <1>1 DEF TypeOK
<1>3. \A d \in DepsOf(h) : retireTime[d] <= now
  BY <1>1, JobFacts, TimesArePast DEF TypeOK
<1>4. \E s \in job.streams[h] : ~(startTime[s] + job.latency[h] <= now)
  BY <1>2, <1>3 DEF CanStart
<1>5. AwaitsFeeds(h)
  BY <1>4 DEF AwaitsFeeds
<1>6. /\ ReadyAt(h) \in Nat
      /\ \E s \in job.streams[h] : ReadyAt(h) = startTime[s] + job.latency[h]
      /\ \A s \in job.streams[h] : startTime[s] + job.latency[h] <= ReadyAt(h)
  BY <1>1, <1>5, ReadyAtFacts
<1>7. \A s \in job.streams[h] : startTime[s] \in Nat /\ job.latency[h] \in Nat
  BY <1>1, JobFacts, TimesArePast DEF TypeOK
<1>8. ReadyAt(h) > now
  BY <1>1, <1>4, <1>6, <1>7
<1>9. ReadyAt(h) \in WakesOf(u)
  BY <1>5, <1>8 DEF WakesOf
<1> QED  BY <1>6, <1>9 DEF Wakes

(* A head that is still executing is woken up at its end. *)
LEMMA RunningHeadWakes ==
  ASSUME NEW u \in Units, inflight[u] # << >>,
         Started(Head(inflight[u])), ~Retired(Head(inflight[u])),
         endTime[Head(inflight[u])] > now
  PROVE  endTime[Head(inflight[u])] \in Wakes
<1>1. endTime[Head(inflight[u])] \in WakesOf(u)
  BY DEF WakesOf
<1> QED  BY <1>1 DEF Wakes

(* At a fixpoint, a unit's head can move only at a scheduled event: before *)
(* the first one nothing happens.                                          *)
LEMMA NothingBeforeWakes ==
  ASSUME Inv, pc \in {"advance", "deadlock"}, NEW u \in Units, NEW t \in Nat,
         now <= t, \A x \in Wakes : t < x
  PROVE  ~CanRetire(u, t) /\ ~CanStart(u, t)
<1>1. /\ TypeOK /\ Typed /\ pc # "raised" /\ now \in Nat
      /\ ~CanRetire(u, now) /\ ~CanStart(u, now)
  BY DEF Inv, Typed, TypeOK, Settled, NoRetire, NoStart
<1> DEFINE h == Head(inflight[u])
<1>2. SUFFICES ASSUME inflight[u] # << >>
               PROVE  ~CanRetire(u, t) /\ ~CanStart(u, t)
  BY DEF CanRetire, CanStart
<1>3. h \in Instrs /\ u \in Unit /\ Instrs \subseteq 0 .. job.n
  BY <1>1, <1>2, HeadOfQueue, JobFacts DEF TypeOK
<1>4. ASSUME CanRetire(u, t) PROVE FALSE
  <2>1. Started(h) /\ ~Retired(h) /\ endTime[h] <= t /\ HasFreeSlot(job.dst[h])
    BY <1>4 DEF CanRetire
  <2>2. endTime[h] \in Nat
    BY <1>1, <1>3, <2>1, EndsArePlanned
  <2>3. ~(endTime[h] <= now)
    BY <1>1, <1>2, <2>1 DEF CanRetire
  <2>4. endTime[h] \in Wakes
    BY <1>1, <1>2, <2>1, <2>2, <2>3, RunningHeadWakes
  <2> QED  BY <2>1, <2>2, <2>4
<1>5. ASSUME CanStart(u, t) PROVE FALSE
  <2>1. /\ ~Started(h)
        /\ \A d \in DepsOf(h) : Retired(d)
        /\ \A s \in job.streams[h] : Started(s) /\ startTime[s] + job.latency[h] <= t
    BY <1>5 DEF CanStart
  <2>2. ReadyAt(h) \in Wakes /\ \E s \in job.streams[h] : ReadyAt(h) = startTime[s] + job.latency[h]
    BY <1>1, <1>2, <2>1, ReadyHeadWakes
  <2>3. ReadyAt(h) <= t /\ t < ReadyAt(h)
    BY <2>1, <2>2
  <2>4. ReadyAt(h) \in Nat
    BY <1>1, <2>2, WakesAreLater
  <2> QED  BY <2>3, <2>4
<1> QED  BY <1>4, <1>5

(* The clock never jumps over an instant at which a unit could have moved: *)
(* no wake-up is lost, for any program, cost and link latency.             *)
THEOREM NoWakeupIsLost == Spec => NoMissedWakeup
<1> DEFINE Kept == \A t \in now + 1 .. now' - 1 : \A u \in Units :
                     ~CanRetire(u, t) /\ ~CanStart(u, t)
<1>1. Inv /\ [Next]_vars => [Kept]_vars
  <2> SUFFICES ASSUME Inv, Next PROVE Kept
    OBVIOUS
  <2>1. now \in Nat
    BY DEF Inv, Typed, TypeOK
  <2>2. CASE AdvanceClock
    <3>1. pc = "advance" /\ now' \in Wakes /\ \A x \in Wakes : now' <= x
      BY <2>2 DEF AdvanceClock
    <3>2. \A x \in Wakes : x \in Nat
      BY <3>1, WakesAreLater DEF Inv
    <3>3. ASSUME NEW t \in now + 1 .. now' - 1, NEW u \in Units
          PROVE  ~CanRetire(u, t) /\ ~CanStart(u, t)
      <4>1. t \in Nat /\ now <= t /\ \A x \in Wakes : t < x
        BY <2>1, <3>1, <3>2
      <4> QED  BY <3>1, <4>1, NothingBeforeWakes
    <3> QED  BY <3>3
  <2>3. CASE now' = now
    <3>1. \A t : t \notin now + 1 .. now - 1
      BY <2>1
    <3> QED  BY <2>3, <3>1
  <2> QED
    BY <2>2, <2>3 DEF Next, RetireHead, RetireSkips, StartHead, StartFaults, StartSkips,
       IssueNext, DispatcherStops, RaiseDeadlock, Finished, vars
<1> QED  BY <1>1, Invariance, PTL DEF Spec, NoMissedWakeup

(* A dispatcher that has work left is stalled by the queue of its first    *)
(* waiting instruction.                                                    *)
LEMMA StalledDispatcher ==
  ASSUME Inv, pc \in {"advance", "deadlock"}, NEW i \in waiting
  PROVE  \E k \in waiting : /\ k <= i /\ CoreOf[k] = CoreOf[i]
                            /\ \A j \in waiting : CoreOf[j] = CoreOf[i] => k <= j
                            /\ Len(inflight[job.unit[k]]) >= job.depth[job.unit[k]]
<1> DEFINE Rest == {k \in waiting : CoreOf[k] = CoreOf[i]}
<1>1. TypeOK /\ waiting \subseteq Instrs /\ Instrs \subseteq Nat /\ i \in Rest
  BY DEF Inv, Typed, TypeOK, Instrs
<1>2. PICK k \in Rest : \A j \in Rest : k <= j
  BY <1>1, LeastNat
<1>3. ~CanIssue(CoreOf[i], k)
  <2>1. CoreOf[i] \in Cores
    BY <1>1 DEF Cores
  <2> QED  BY <1>2, <2>1 DEF Inv, Settled, NoIssue
<1>4. job.unit[k] \in Unit
  BY <1>1, <1>2, JobFacts DEF TypeOK
<1>5. ~(Len(inflight[job.unit[k]]) < job.depth[job.unit[k]])
  BY <1>2, <1>3 DEF CanIssue
<1>6. Len(inflight[job.unit[k]]) \in Nat /\ job.depth[job.unit[k]] \in Nat
  BY <1>1, <1>4, QueueFacts, JobFacts DEF TypeOK
<1> QED  BY <1>2, <1>5, <1>6

LEMMA BlockedHeads ==
  ASSUME Inv, pc = "deadlock", NEW u \in Units
  PROVE  Blocked(u)
<1> SUFFICES ASSUME inflight[u] # << >> PROVE Blocked(u)
  BY DEF Blocked
<1> DEFINE h == Head(inflight[u])
<1>1. /\ TypeOK /\ Typed /\ pc # "raised" /\ now \in Nat /\ Wakes = {}
      /\ ~CanRetire(u, now) /\ ~CanStart(u, now)
  BY DEF Inv, Typed, TypeOK, Settled, NoRetire, NoStart
<1>2. h \in Instrs /\ u \in Unit /\ Instrs \subseteq 0 .. job.n
  BY <1>1, HeadOfQueue, JobFacts DEF TypeOK
<1>3. ~Retired(h)
  <2>1. h = inflight[u][1] /\ Len(inflight[u]) \in Nat /\ Len(inflight[u]) > 0
    BY <1>1, <1>2, QueueFacts
  <2> QED  BY <1>2, <2>1 DEF Inv, Placed, QueuesInOrder
<1>4. CASE Started(h)
  <2>1. endTime[h] \in Nat
    BY <1>1, <1>2, <1>4, EndsArePlanned
  <2>2. endTime[h] <= now
    BY <1>1, <1>3, <1>4, <2>1, RunningHeadWakes
  <2>3. ~HasFreeSlot(job.dst[h])
    BY <1>1, <1>3, <1>4, <2>2 DEF CanRetire
  <2> QED  BY <1>4, <2>2, <2>3 DEF Blocked
<1>5. CASE ~Started(h) /\ (\A d \in DepsOf(h) : Retired(d)) /\ \A s \in job.streams[h] : Started(s)
  BY <1>1, <1>5, ReadyHeadWakes
<1>6. CASE ~Started(h) /\ ~((\A d \in DepsOf(h) : Retired(d)) /\ \A s \in job.streams[h] : Started(s))
  BY <1>6 DEF Blocked
<1> QED  BY <1>4, <1>5, <1>6

(* RuntimeError("deadlock") is never a false alarm. *)
THEOREM ReportedDeadlocksAreReal == Spec => []DeadlockIsReal
<1>1. Inv => DeadlockIsReal
  <2> SUFFICES ASSUME Inv, pc = "deadlock"
               PROVE  /\ \E i \in Instrs : ~Retired(i)
                      /\ \A u \in Units : Blocked(u)
                      /\ \A i \in waiting : \E k \in waiting :
                           /\ k <= i /\ CoreOf[k] = CoreOf[i]
                           /\ Len(inflight[job.unit[k]]) >= job.depth[job.unit[k]]
    BY DEF DeadlockIsReal
  <2>1. remaining # 0 /\ remaining = Cardinality({i \in Instrs : ~Retired(i)})
    BY DEF Inv, Settled, Counted
  <2>2. \E i \in Instrs : ~Retired(i)
    BY <2>1, FS_EmptySet
  <2> QED  BY <2>2, BlockedHeads, StalledDispatcher
<1> QED  BY <1>1, Invariance, PTL

-----------------------------------------------------------------------------
(***************************************************************************)
(*              Ordered programs never deadlock                            *)
(***************************************************************************)

(* A buffer's counter never exceeds the results it has been sent. *)
Landed(b) == {i \in Instrs : Retired(i) /\ job.dst[i] = b}
OccBounded == \A b \in Unit : occ[b] <= Cardinality(Landed(b))

LEMMA LandedFinite ==
  ASSUME TypeOK, NEW b
  PROVE  IsFiniteSet(Landed(b)) /\ Cardinality(Landed(b)) \in Nat
<1>1. IsFiniteSet(Landed(b))
  BY JobFacts, FS_Subset DEF TypeOK, Landed
<1> QED  BY <1>1, FS_CardinalityType

LEMMA OccBoundedInit == Begun => OccBounded
<1> SUFFICES ASSUME Begun, NEW b \in Unit PROVE occ[b] <= Cardinality(Landed(b))
  BY DEF OccBounded
<1>1. occ[b] = 0
  BY DEF Begun, Called
<1>2. TypeOK
  BY TypedInit DEF Typed
<1> QED  BY <1>1, <1>2, LandedFinite

LEMMA OccBoundedNext == Typed /\ OccBounded /\ [Next]_vars => OccBounded'
<1> SUFFICES ASSUME Typed, OccBounded, [Next]_vars PROVE OccBounded'
  OBVIOUS
<1>1. ASSUME NEW u \in Units, RetireHead(u) PROVE OccBounded'
  <2> DEFINE h == Head(inflight[u])
  <2>1. TypeOK /\ h \in Instrs /\ h \in 0 .. job.n /\ ~Retired(h) /\ Instrs \subseteq 0 .. job.n
    BY <1>1, HeadOfQueue, JobFacts DEF RetireHead, CanRetire, Typed, TypeOK
  <2>2. /\ retireTime' = [retireTime EXCEPT ![h] = now]
        /\ occ' = IF job.dst[h] = None THEN occ ELSE [occ EXCEPT ![job.dst[h]] = @ + 1]
        /\ job' = job
    BY <1>1 DEF RetireHead
  <2>3. \A i \in Instrs : retireTime'[i] # None <=> Retired(i) \/ i = h
    BY <2>1, <2>2, NoneAssumption DEF Retired, TypeOK
  <2> SUFFICES ASSUME NEW b \in Unit
               PROVE  occ'[b] <= Cardinality({i \in Instrs : retireTime'[i] # None /\ job.dst[i] = b})
    BY <2>2 DEF OccBounded, Landed, Retired, Instrs
  <2>4. occ[b] \in Int /\ occ[b] <= Cardinality(Landed(b)) /\ Cardinality(Landed(b)) \in Nat
        /\ IsFiniteSet(Landed(b))
    BY <2>1, LandedFinite DEF OccBounded, TypeOK
  <2>5. CASE job.dst[h] = b
    <3>1. {i \in Instrs : retireTime'[i] # None /\ job.dst[i] = b} = Landed(b) \cup {h}
      BY <2>1, <2>3, <2>5 DEF Landed
    <3>2. h \notin Landed(b)
      BY <2>1 DEF Landed
    <3>3. Cardinality(Landed(b) \cup {h}) = Cardinality(Landed(b)) + 1
      BY <2>4, <3>2, FS_AddElement
    <3>4. occ'[b] = occ[b] + 1
      BY <2>1, <2>2, <2>5, NoneAssumption DEF TypeOK
    <3>5. Cardinality({i \in Instrs : retireTime'[i] # None /\ job.dst[i] = b})
          = Cardinality(Landed(b)) + 1
      BY <3>1, <3>3
    <3> QED  BY <2>4, <3>4, <3>5
  <2>6. CASE job.dst[h] # b
    <3>1. {i \in Instrs : retireTime'[i] # None /\ job.dst[i] = b} = Landed(b)
      BY <2>1, <2>3, <2>6 DEF Landed
    <3>2. occ'[b] = occ[b]
      BY <2>1, <2>2, <2>6 DEF TypeOK
    <3> QED  BY <2>4, <3>1, <3>2
  <2> QED  BY <2>5, <2>6
<1>2. ASSUME NEW u \in Units, StartHead(u) PROVE OccBounded'
  <2> DEFINE h == Head(inflight[u])
  <2>1. TypeOK /\ h \in Instrs /\ IsJob(job)
    BY <1>2, HeadOfQueue DEF StartHead, CanStart, Typed, TypeOK
  <2>2. occ' = [b \in Unit |-> occ[b] - Frees(h, b)] /\ retireTime' = retireTime /\ job' = job
    BY <1>2 DEF StartHead
  <2> SUFFICES ASSUME NEW b \in Unit PROVE occ'[b] <= Cardinality(Landed(b))
    BY <2>2 DEF OccBounded, Landed, Retired, Instrs
  <2>3. Frees(h, b) \in Nat /\ occ[b] \in Int /\ Cardinality(Landed(b)) \in Nat
    BY <2>1, FreesNat, LandedFinite DEF TypeOK
  <2>4. occ'[b] = occ[b] - Frees(h, b) /\ occ[b] <= Cardinality(Landed(b))
    BY <2>2 DEF OccBounded
  <2> QED  BY <2>3, <2>4
<1>3. CASE UNCHANGED <<job, retireTime, occ>>
  BY <1>3 DEF OccBounded, Landed, Retired, Instrs
<1>4. ASSUME NEW u \in Units, RetireSkips(u) \/ StartFaults(u) \/ StartSkips(u) PROVE OccBounded'
  BY <1>3, <1>4 DEF RetireSkips, StartFaults, StartSkips, times
<1>5. ASSUME NEW c \in Cores, IssueNext(c) \/ DispatcherStops(c) PROVE OccBounded'
  BY <1>3, <1>5 DEF IssueNext, DispatcherStops, times
<1>6. CASE AdvanceClock \/ RaiseDeadlock \/ Finished \/ UNCHANGED vars
  BY <1>3, <1>6 DEF AdvanceClock, RaiseDeadlock, Finished, vars, times
<1> QED  BY <1>1, <1>2, <1>4, <1>5, <1>6 DEF Next

(* In a buffer that holds everything it is sent there is room for a result *)
(* that has not landed yet.                                                *)
LEMMA RoomInBuffer ==
  ASSUME TypeOK, OccBounded, WellOrdered, NEW h \in Instrs, ~Retired(h)
  PROVE  HasFreeSlot(job.dst[h])
<1> SUFFICES ASSUME job.dst[h] # None PROVE occ[job.dst[h]] < job.depth[job.dst[h]]
  BY DEF HasFreeSlot
<1> DEFINE b == job.dst[h]
           Sent == {k \in Instrs : job.dst[k] = b}
<1>1. b \in Unit /\ job.depth[b] \in Nat /\ occ[b] \in Int /\ IsFiniteSet(Instrs)
  BY JobFacts DEF TypeOK
<1>2. Cardinality(Sent) <= job.depth[b]
  BY DEF WellOrdered
<1>3. IsFiniteSet(Sent) /\ Cardinality(Sent) \in Nat
  BY <1>1, FS_Subset, FS_CardinalityType
<1>4. Landed(b) \subseteq Sent \ {h} /\ h \in Sent
  BY DEF Landed
<1>5. IsFiniteSet(Sent \ {h}) /\ Cardinality(Sent \ {h}) = Cardinality(Sent) - 1
  BY <1>3, <1>4, FS_RemoveElement
<1>6. Cardinality(Landed(b)) <= Cardinality(Sent) - 1 /\ Cardinality(Landed(b)) \in Nat
  BY <1>4, <1>5, FS_Subset, LandedFinite
<1>7. occ[b] <= Cardinality(Landed(b))
  BY <1>1 DEF OccBounded
<1> QED  BY <1>1, <1>2, <1>3, <1>6, <1>7

(* The first instruction that has not retired is at the head of its queue: *)
(* so it is not blocked, if its inputs come before it.                     *)
LEMMA OrderedNotStuck ==
  ASSUME Inv, OccBounded, WellOrdered, pc = "deadlock"
  PROVE  FALSE
<1>1. TypeOK /\ Typed /\ Instrs \subseteq Nat /\ waiting \subseteq Instrs
  BY DEF Inv, Typed, TypeOK, Instrs
<1>2. {i \in Instrs : ~Retired(i)} # {}
  BY FS_EmptySet DEF Inv, Settled, Counted
<1>3. PICK i \in Instrs : ~Retired(i) /\ \A j \in Instrs : ~Retired(j) => i <= j
  <2>1. \E m \in {i \in Instrs : ~Retired(i)} : \A j \in {i \in Instrs : ~Retired(i)} : m <= j
    BY <1>1, <1>2, LeastNat
  <2> QED  BY <2>1
<1> DEFINE u == job.unit[i]
<1>4. u \in Units /\ u \in Unit /\ job.depth[u] \in Nat /\ job.depth[u] > 0
  BY <1>1, JobFacts DEF WellOrdered, TypeOK
<1>5. Len(inflight[u]) \in Nat /\ \A k \in 1 .. Len(inflight[u]) : inflight[u][k] \in Instrs
  BY <1>1, <1>4, QueueFacts
<1>6. ASSUME i \in waiting PROVE FALSE
  <2>1. PICK k \in waiting : /\ k <= i
                             /\ Len(inflight[job.unit[k]]) >= job.depth[job.unit[k]]
    BY <1>6, StalledDispatcher
  <2>2. k = i
    <3>1. ~Retired(k) /\ k \in Instrs
      BY <1>1, <2>1 DEF Inv, Placed, SomewhereOnce
    <3> QED  BY <1>1, <1>3, <2>1, <3>1
  <2>3. 1 \in 1 .. Len(inflight[u])
    BY <1>4, <1>5, <2>1, <2>2
  <2>4. /\ inflight[u][1] \in Instrs \ waiting /\ ~Retired(inflight[u][1])
        /\ job.unit[inflight[u][1]] = u
    BY <1>4, <1>5, <2>3 DEF Inv, Placed, QueuesInOrder
  <2>5. CoreOf[inflight[u][1]] = CoreOf[i]
    BY <2>4 DEF CoreOf
  <2>6. inflight[u][1] < i
    BY <1>6, <2>4, <2>5 DEF Inv, Placed, IssuedInOrder
  <2> QED  BY <1>1, <1>3, <2>4, <2>6
<1>7. PICK k \in 1 .. Len(inflight[u]) : inflight[u][k] = i
  BY <1>3, <1>6 DEF Inv, Placed, SomewhereOnce
<1>8. k = 1
  <2> SUFFICES ASSUME k # 1 PROVE FALSE
    OBVIOUS
  <2>1. 1 \in 1 .. k - 1 /\ 1 \in 1 .. Len(inflight[u])
    BY <1>5, <1>7
  <2>2. inflight[u][1] < i /\ inflight[u][1] \in Instrs /\ ~Retired(inflight[u][1])
    BY <1>4, <1>5, <1>7, <2>1 DEF Inv, Placed, QueuesInOrder
  <2>3. i <= inflight[u][1]
    BY <1>3, <2>2, Zenon
  <2>4. i \in Nat /\ inflight[u][1] \in Nat
    BY <1>1, <2>2
  <2> HIDE DEF u
  <2> QED  BY <2>2, <2>3, <2>4
<1>9. inflight[u] # << >> /\ Head(inflight[u]) = i
  <2>1. inflight[u] \in Seq(Instrs)
    BY <1>1, <1>4 DEF TypeOK
  <2>2. Len(inflight[u]) >= 1 /\ inflight[u][1] = i
    BY <1>5, <1>7, <1>8
  <2> HIDE DEF u
  <2> QED  BY <2>1, <2>2
<1>10. Blocked(u)
  BY <1>4, BlockedHeads
<1>11. \A d \in DepsOf(i) \cup job.streams[i] : d \in Instrs /\ Retired(d)
  <2> TAKE d \in DepsOf(i) \cup job.streams[i]
  <2>1. d \in 1 .. i - 1
    BY DEF WellOrdered
  <2>2. d \in Instrs /\ d < i
    BY <1>1, <1>3, <2>1, JobFacts DEF Instrs, TypeOK
  <2> QED  BY <1>1, <1>3, <2>2
<1>12. \A s \in job.streams[i] : Started(s)
  <2> TAKE s \in job.streams[i]
  <2>1. s \in Instrs /\ Retired(s)
    BY <1>11
  <2> QED  BY <2>1 DEF Inv, Placed, SomewhereOnce
<1> QED  BY <1>1, <1>3, <1>9, <1>10, <1>11, <1>12, RoomInBuffer DEF Blocked

(* In-order dispatch, head-of-line blocking and blocking after service     *)
(* never wedge a program whose instructions come after their inputs, on    *)
(* queues of any size and buffers that hold what they are sent.            *)
THEOREM OrderedProgramsNeverDeadlock == Spec => []WellOrderedNeverDeadlocks
<1>1. Inv /\ OccBounded => WellOrderedNeverDeadlocks
  BY OrderedNotStuck DEF WellOrderedNeverDeadlocks
<1>2. Spec => []OccBounded
  <2>1. Init => Typed /\ OccBounded
    BY InitBegins, TypedInit, OccBoundedInit
  <2>2. Typed /\ OccBounded /\ [Next]_vars => (Typed /\ OccBounded)'
    BY TypedNext, OccBoundedNext
  <2> QED  BY <2>1, <2>2, PTL DEF Spec
<1> QED  BY <1>1, <1>2, Invariance, PTL

=============================================================================
