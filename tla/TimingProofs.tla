---------------------------- MODULE TimingProofs ----------------------------
(***************************************************************************)
(* Theorems about the timestamps that module Engine gives instructions and *)
(* about the slots it counts in each buffer, for every program and every   *)
(* chip; and the refinement that rests on them: every program in which no  *)
(* result is read twice runs on the simulator as on the machine of module  *)
(* BAS.  The last section says how the times of one call bound those of    *)
(* another, for the modules that compare two.                              *)
(***************************************************************************)
EXTENDS EngineProofs

(* What has retired had ended.  What has started found its inputs retired  *)
(* and its streamed producers under way, and is planned to end after their *)
(* last results.  (The instruction whose cost() raised has no end.)        *)
EndedFirst ==
  \A d \in 0 .. job.n : Retired(d) => endTime[d] # None /\ endTime[d] <= retireTime[d]

InputsFirst ==
  \A i \in Instrs : Started(i) =>
    /\ \A d \in DepsOf(i) : Retired(d) /\ retireTime[d] <= startTime[i]
    /\ \A s \in job.streams[i] :
         /\ Started(s) /\ startTime[s] + job.latency[i] <= startTime[i]
         /\ pc # "raised" \/ Retired(i) =>
              endTime[i] # None /\ endTime[s] # None /\ endTime[s] + job.latency[i] <= endTime[i]

Flowing == EndedFirst /\ InputsFirst

LEMMA FlowingInit == Begun => Flowing
<1> SUFFICES ASSUME Begun PROVE Flowing
  OBVIOUS
<1>1. IsJob(job)
  BY DEF Begun
<1>2. Instrs \subseteq 0 .. job.n
  BY <1>1, JobFacts
<1>3. \A i \in 0 .. job.n : ~Started(i) /\ ~Retired(i)
  BY DEF Begun, Called, Started, Retired
<1> QED  BY <1>2, <1>3 DEF Flowing, EndedFirst, InputsFirst

(* Steps that change no timestamp. *)
LEMMA FlowingUntimed ==
  ASSUME Flowing, UNCHANGED <<job, times>>, pc' # "raised" => pc # "raised"
  PROVE  Flowing'
<1>1. UNCHANGED <<job, startTime, endTime, retireTime>>
  BY DEF times
<1>2. EndedFirst'
  BY <1>1 DEF Flowing, EndedFirst, Retired
<1>3. InputsFirst'
  BY <1>1 DEF Flowing, InputsFirst, Retired, Started, Instrs, DepsOf
<1> QED  BY <1>2, <1>3 DEF Flowing

LEMMA FlowingRetire ==
  ASSUME Typed, Placed, Flowing, NEW u \in Units, RetireHead(u)
  PROVE  Flowing'
<1> DEFINE h == Head(inflight[u])
<1>1. /\ TypeOK /\ h \in Instrs /\ Instrs \subseteq 0 .. job.n
      /\ Started(h) /\ ~Retired(h) /\ endTime[h] <= now /\ pc # "raised"
  BY HeadOfQueue, JobFacts DEF RetireHead, CanRetire, Typed, TypeOK
<1>2. /\ retireTime' = [retireTime EXCEPT ![h] = now]
      /\ UNCHANGED <<job, startTime, endTime>>
  BY DEF RetireHead
<1>3. endTime[h] # None
  BY <1>1 DEF Typed, EndsKnown
<1>4. \A i \in 0 .. job.n : i # h => retireTime'[i] = retireTime[i]
  BY <1>2 DEF TypeOK
<1>5. retireTime'[h] = now
  BY <1>1, <1>2 DEF TypeOK
<1>6. EndedFirst'
  BY <1>1, <1>2, <1>3, <1>4, <1>5 DEF Flowing, EndedFirst, Retired
<1>7. ASSUME NEW i \in Instrs, Started(i), NEW d \in DepsOf(i)
      PROVE  retireTime'[d] # None /\ retireTime'[d] <= startTime[i]
  <2>1. Retired(d) /\ retireTime[d] <= startTime[i] /\ d \in 0 .. job.n
    BY <1>1, <1>7, JobFacts DEF Flowing, InputsFirst, TypeOK
  <2> QED  BY <1>1, <1>4, <2>1 DEF Retired
<1>8. InputsFirst'
  BY <1>1, <1>2, <1>7 DEF Flowing, InputsFirst, Retired, Started, Instrs, DepsOf
<1> QED  BY <1>6, <1>8 DEF Flowing

(* A start, whether or not cost() raises: only the head's times change. *)
LEMMA FlowingStart ==
  ASSUME Typed, Placed, Flowing, NEW u \in Units, StartHead(u) \/ StartFaults(u)
  PROVE  Flowing'
<1> DEFINE h == Head(inflight[u])
<1>1. /\ TypeOK /\ h \in Instrs /\ Instrs \subseteq 0 .. job.n /\ u \in Unit
      /\ ~Started(h) /\ pc # "raised" /\ now \in Nat
      /\ \A d \in DepsOf(h) : Retired(d) /\ retireTime[d] <= now
      /\ \A s \in job.streams[h] : Started(s) /\ startTime[s] + job.latency[h] <= now
  BY HeadOfQueue, JobFacts DEF StartHead, StartFaults, CanStart, Typed, TypeOK
<1>2. ~Retired(h)
  <2>1. inflight[u] # << >> /\ h = inflight[u][1] /\ Len(inflight[u]) \in Nat /\ Len(inflight[u]) > 0
    BY <1>1, QueueFacts DEF StartHead, StartFaults, CanStart
  <2> QED  BY <1>1, <2>1 DEF Placed, QueuesInOrder
<1>3. /\ startTime' = [startTime EXCEPT ![h] = now]
      /\ UNCHANGED <<job, retireTime>>
  BY DEF StartHead, StartFaults
<1>4. /\ \A i \in 0 .. job.n : i # h => startTime'[i] = startTime[i] /\ endTime'[i] = endTime[i]
      /\ startTime'[h] = now
  BY <1>1, <1>3 DEF StartHead, StartFaults, TypeOK
<1>5. EndedFirst'
  BY <1>1, <1>2, <1>3, <1>4 DEF Flowing, EndedFirst, Retired
<1>6. \A i \in Instrs : /\ DepsOf(i) \subseteq 0 .. job.n
                        /\ job.streams[i] \subseteq 0 .. job.n
  BY <1>1, JobFacts DEF TypeOK
<1>7. ASSUME NEW i \in Instrs, i # h, startTime'[i] # None
      PROVE  /\ \A d \in DepsOf(i) : Retired(d) /\ retireTime[d] <= startTime'[i]
             /\ \A s \in job.streams[i] :
                  /\ startTime'[s] # None /\ startTime'[s] + job.latency[i] <= startTime'[i]
                  /\ pc' # "raised" \/ Retired(i) =>
                       /\ endTime'[i] # None /\ endTime'[s] # None
                       /\ endTime'[s] + job.latency[i] <= endTime'[i]
  <2>1. Started(i)
    BY <1>1, <1>4, <1>7 DEF Started
  <2>2. \A s \in job.streams[i] : s # h /\ s \in 0 .. job.n
    BY <1>1, <1>6, <2>1 DEF Flowing, InputsFirst
  <2> QED  BY <1>1, <1>4, <1>7, <2>1, <2>2 DEF Flowing, InputsFirst, Started
<1>8. \A s \in job.streams[h] :
        /\ startTime'[s] # None /\ startTime'[s] + job.latency[h] <= startTime'[h]
        /\ pc' # "raised" =>
             /\ endTime'[h] # None /\ endTime'[s] # None
             /\ endTime'[s] + job.latency[h] <= endTime'[h]
  <2> TAKE s \in job.streams[h]
  <2>1. s # h /\ s \in 0 .. job.n /\ Started(s)
    BY <1>1, <1>6
  <2>2. endTime[s] # None
    BY <1>1, <2>1 DEF Typed, EndsKnown
  <2>3. CASE StartHead(u)
    <3>1. endTime'[h] = EndOf(h) /\ job.cost[h] # None
      BY <1>1, <2>3 DEF StartHead, TypeOK
    <3>2. EndOf(h) \in Nat /\ endTime[s] + job.latency[h] <= EndOf(h)
      BY <1>1, <3>1, EndOfFacts
    <3> QED  BY <1>1, <1>4, <2>1, <2>2, <3>1, <3>2, NoneAssumption DEF Started
  <2>4. CASE StartFaults(u)
    BY <1>1, <1>4, <2>1, <2>4 DEF StartFaults, Started
  <2> QED  BY <2>3, <2>4
<1>9. InputsFirst'
  <2>1. job' = job /\ Instrs' = Instrs /\ \A i : DepsOf(i)' = DepsOf(i)
    BY <1>3 DEF Instrs, DepsOf
  <2>2. ASSUME NEW i \in Instrs, i = h
        PROVE  /\ \A d \in DepsOf(i) : Retired(d) /\ retireTime[d] <= startTime'[i]
               /\ \A s \in job.streams[i] :
                    /\ startTime'[s] # None /\ startTime'[s] + job.latency[i] <= startTime'[i]
                    /\ pc' # "raised" \/ Retired(i) =>
                         /\ endTime'[i] # None /\ endTime'[s] # None
                         /\ endTime'[s] + job.latency[i] <= endTime'[i]
    BY <1>1, <1>2, <1>4, <1>8, <2>2
  <2> QED  BY <1>3, <1>7, <2>1, <2>2 DEF InputsFirst, Started, Retired
<1> QED  BY <1>5, <1>9 DEF Flowing

LEMMA FlowingNext == Typed /\ Placed /\ Flowing /\ [Next]_vars => Flowing'
<1> SUFFICES ASSUME Typed, Placed, Flowing, [Next]_vars PROVE Flowing'
  OBVIOUS
<1>1. ASSUME NEW u \in Units, RetireHead(u) PROVE Flowing'
  BY <1>1, FlowingRetire
<1>2. ASSUME NEW u \in Units, StartHead(u) \/ StartFaults(u) PROVE Flowing'
  BY <1>2, FlowingStart
<1>3. ASSUME NEW u \in Units, RetireSkips(u) \/ StartSkips(u) PROVE Flowing'
  BY <1>3, FlowingUntimed DEF RetireSkips, StartSkips
<1>4. ASSUME NEW c \in Cores, IssueNext(c) \/ DispatcherStops(c) PROVE Flowing'
  BY <1>4, FlowingUntimed DEF IssueNext, DispatcherStops
<1>5. CASE AdvanceClock \/ RaiseDeadlock
  BY <1>5, FlowingUntimed DEF AdvanceClock, RaiseDeadlock
<1>6. CASE Finished \/ UNCHANGED vars
  BY <1>6, FlowingUntimed DEF Finished, vars
<1> QED  BY <1>1, <1>2, <1>3, <1>4, <1>5, <1>6 DEF Next

(* Nothing has an end that has not started, or one before its start.       *)
Forward ==
  \A i \in 0 .. job.n : endTime[i] # None => Started(i) /\ startTime[i] <= endTime[i]

LEMMA ForwardInit == Begun => Forward
BY DEF Begun, Called, Forward

LEMMA ForwardNext == Typed /\ Forward /\ [Next]_vars => Forward'
<1> SUFFICES ASSUME Typed, Forward, [Next]_vars PROVE Forward'
  OBVIOUS
<1>1. UNCHANGED <<job, startTime, endTime>> => Forward'
  BY DEF Forward, Started
<1>2. ASSUME NEW u \in Units, StartHead(u) \/ StartFaults(u) PROVE Forward'
  <2> DEFINE h == Head(inflight[u])
  <2>1. /\ TypeOK /\ h \in Instrs /\ Instrs \subseteq 0 .. job.n /\ now \in Nat /\ pc # "raised"
        /\ ~Started(h) /\ \A s \in job.streams[h] : Started(s)
    BY <1>2, HeadOfQueue, JobFacts DEF StartHead, StartFaults, CanStart, Typed, TypeOK
  <2>2. job' = job /\ startTime' = [startTime EXCEPT ![h] = now]
    BY <1>2 DEF StartHead, StartFaults
  <2>3. startTime'[h] = now /\ \A i \in 0 .. job.n : i # h => startTime'[i] = startTime[i]
    BY <2>1, <2>2 DEF TypeOK
  <2>4. CASE StartHead(u)
    <3>1. job.cost[h] # None /\ endTime' = [endTime EXCEPT ![h] = EndOf(h)]
      BY <2>4 DEF StartHead
    <3>2. EndOf(h) \in Nat /\ now + job.cost[h] <= EndOf(h) /\ job.cost[h] \in Nat
      BY <2>1, <3>1, EndOfFacts, JobFacts DEF TypeOK
    <3>3. endTime'[h] = EndOf(h) /\ \A i \in 0 .. job.n : i # h => endTime'[i] = endTime[i]
      BY <2>1, <3>1 DEF TypeOK
    <3>4. now <= EndOf(h) /\ now # None
      BY <2>1, <3>2, NoneAssumption
    <3>5. ASSUME NEW i \in 0 .. job.n, endTime'[i] # None
          PROVE  startTime'[i] # None /\ startTime'[i] <= endTime'[i]
      <4>1. CASE i = h
        BY <2>3, <3>3, <3>4, <4>1
      <4>2. CASE i # h
        BY <2>3, <3>3, <3>5, <4>2 DEF Forward, Started
      <4> QED  BY <4>1, <4>2
    <3> QED  BY <2>2, <3>5 DEF Forward, Started
  <2>5. CASE StartFaults(u)
    <3>1. endTime' = endTime /\ endTime[h] = None
      BY <2>1, <2>5 DEF StartFaults, Forward
    <3> QED  BY <2>2, <2>3, <3>1 DEF Forward, Started
  <2> QED  BY <1>2, <2>4, <2>5
<1>3. ASSUME NEW u \in Units, RetireHead(u) \/ RetireSkips(u) \/ StartSkips(u) PROVE Forward'
  BY <1>1, <1>3 DEF RetireHead, RetireSkips, StartSkips, times
<1>4. ASSUME NEW c \in Cores, IssueNext(c) \/ DispatcherStops(c) PROVE Forward'
  BY <1>1, <1>4 DEF IssueNext, DispatcherStops, times
<1>5. CASE AdvanceClock \/ RaiseDeadlock \/ Finished \/ UNCHANGED vars
  BY <1>1, <1>5 DEF AdvanceClock, RaiseDeadlock, Finished, vars, times
<1> QED  BY <1>1, <1>2, <1>3, <1>4, <1>5 DEF Next

(* The order of the timestamps follows the data flow of every program:     *)
(* simulate() starts no consumer before its inputs, and retires none before*)
(* what streams into it has drained.                                       *)
THEOREM TimesFollowDataflow == Spec => []DataflowTiming
<1>1. Init => Typed /\ Placed /\ Flowing
  BY InitBegins, TypedInit, PlacedInit, FlowingInit
<1>2. Typed /\ Placed /\ Flowing /\ [Next]_vars => (Typed /\ Placed /\ Flowing)'
  BY TypedNext, PlacedNext, FlowingNext
<1>3. Typed /\ Flowing => DataflowTiming
  <2> SUFFICES ASSUME Typed, Flowing, NEW i \in Instrs, Started(i)
               PROVE  /\ \A d \in DepsOf(i) : Retired(d) /\ endTime[d] <= startTime[i]
                      /\ \A s \in job.streams[i] :
                           /\ Started(s) /\ startTime[s] + job.latency[i] <= startTime[i]
                           /\ Retired(i) => endTime[s] + job.latency[i] <= retireTime[i]
    BY DEF DataflowTiming
  <2>1. /\ Instrs \subseteq 0 .. job.n /\ DepsOf(i) \subseteq 0 .. job.n
        /\ job.streams[i] \subseteq 0 .. job.n /\ job.latency[i] \in Nat
    BY JobFacts DEF Typed, TypeOK
  <2>2. \A k \in 0 .. job.n : /\ Started(k) => startTime[k] \in Nat
                              /\ Retired(k) => retireTime[k] \in Nat
                              /\ endTime[k] # None => endTime[k] \in Nat
    BY TimesArePast DEF Typed, TypeOK
  <2>3. ASSUME NEW d \in DepsOf(i) PROVE Retired(d) /\ endTime[d] <= startTime[i]
    <3>1. d \in 0 .. job.n /\ Retired(d) /\ retireTime[d] <= startTime[i]
      BY <2>1 DEF Flowing, InputsFirst
    <3>2. endTime[d] # None /\ endTime[d] <= retireTime[d]
      BY <3>1 DEF Flowing, EndedFirst
    <3> QED  BY <2>1, <2>2, <3>1, <3>2
  <2>4. ASSUME NEW s \in job.streams[i]
        PROVE  /\ Started(s) /\ startTime[s] + job.latency[i] <= startTime[i]
               /\ Retired(i) => endTime[s] + job.latency[i] <= retireTime[i]
    <3>1. /\ Started(s) /\ startTime[s] + job.latency[i] <= startTime[i]
          /\ Retired(i) => endTime[i] # None /\ endTime[s] # None
                           /\ endTime[s] + job.latency[i] <= endTime[i]
      BY DEF Flowing, InputsFirst
    <3>2. Retired(i) => endTime[i] <= retireTime[i]
      BY <2>1 DEF Flowing, EndedFirst
    <3> QED  BY <2>1, <2>2, <3>1, <3>2
  <2> QED  BY <2>3, <2>4
<1> QED  BY <1>1, <1>2, <1>3, PTL DEF Spec

-----------------------------------------------------------------------------
(***************************************************************************)
(*                        The number simulate() returns                    *)
(***************************************************************************)

(* The clock only moves on while there is something left to retire: when   *)
(* nothing is left, the last retirement was at the present instant.        *)
LastIsNow == remaining = 0 /\ now # 0 => \E i \in Instrs : Retired(i) /\ retireTime[i] = now

DoneIsEmpty == pc = "done" => remaining = 0

LEMMA LastIsNowNext ==
  Typed /\ Settled /\ LastIsNow /\ DoneIsEmpty /\ [Next]_vars => (LastIsNow /\ DoneIsEmpty)'
<1> SUFFICES ASSUME Typed, Settled, LastIsNow, DoneIsEmpty, [Next]_vars
             PROVE  (LastIsNow /\ DoneIsEmpty)'
  OBVIOUS
<1>f. job' = job /\ Instrs' = Instrs /\ Units' = Units
  BY JobFixed
<1>1. ASSUME NEW u \in Units, RetireHead(u) PROVE (LastIsNow /\ DoneIsEmpty)'
  <2> DEFINE h == Head(inflight[u])
  <2>1. TypeOK /\ h \in Instrs /\ h \in 0 .. job.n /\ now \in Nat
    BY <1>1, HeadOfQueue, JobFacts DEF RetireHead, CanRetire, Typed, TypeOK
  <2>2. retireTime' = [retireTime EXCEPT ![h] = now] /\ now' = now
    BY <1>1 DEF RetireHead
  <2>3. retireTime'[h] = now /\ now # None
    BY <2>1, <2>2, NoneAssumption DEF TypeOK
  <2>4. pc' # "done"
    BY <1>1 DEF RetireHead, Leave
  <2> QED  BY <1>f, <2>1, <2>2, <2>3, <2>4 DEF LastIsNow, DoneIsEmpty, Retired
<1>2. ASSUME NEW u \in Units, RetireSkips(u) \/ StartHead(u) \/ StartFaults(u) \/ StartSkips(u)
      PROVE  (LastIsNow /\ DoneIsEmpty)'
  <2>1. UNCHANGED <<job, retireTime, now, remaining>> /\ pc' # "done"
    BY <1>2 DEF RetireSkips, StartHead, StartFaults, StartSkips, Leave, times
  <2> QED  BY <1>f, <2>1 DEF LastIsNow, DoneIsEmpty, Retired
<1>3. ASSUME NEW c \in Cores, IssueNext(c) \/ DispatcherStops(c)
      PROVE  (LastIsNow /\ DoneIsEmpty)'
  <2>1. UNCHANGED <<job, retireTime, now, remaining>> /\ (pc' = "done" => remaining = 0)
    BY <1>3 DEF IssueNext, DispatcherStops, Leave, AfterSweep, times
  <2> QED  BY <1>f, <2>1 DEF LastIsNow, DoneIsEmpty, Retired
<1>4. CASE AdvanceClock
  <2>1. remaining # 0 /\ remaining' = remaining /\ pc' # "done"
    BY <1>4 DEF AdvanceClock, Settled
  <2> QED  BY <2>1 DEF LastIsNow, DoneIsEmpty
<1>5. CASE RaiseDeadlock \/ Finished \/ UNCHANGED vars
  <2>1. UNCHANGED <<job, retireTime, now, remaining>> /\ (pc' = "done" => pc = "done")
    BY <1>5 DEF RaiseDeadlock, Finished, vars, times
  <2> QED  BY <1>f, <2>1 DEF LastIsNow, DoneIsEmpty, Retired
<1> QED  BY <1>1, <1>2, <1>3, <1>4, <1>5 DEF Next

(* When nothing is left to retire, every instruction has retired. *)
LEMMA NoneLeft ==
  ASSUME Typed, Counted, remaining = 0
  PROVE  \A i \in Instrs : Retired(i)
<1> DEFINE Left == {i \in Instrs : ~Retired(i)}
<1>1. IsFiniteSet(Left)
  BY JobFacts, FS_Subset DEF Typed, TypeOK
<1>2. Cardinality(Left) = 0
  BY DEF Counted
<1>3. Left = {}
  BY <1>1, <1>2, FS_EmptySet
<1> QED  BY <1>3

(* When a call has returned its clock stands at its last retirement. *)
LEMMA ClockIsTotal == Inv /\ Flowing /\ LastIsNow /\ DoneIsEmpty => TotalIsLastRetirement
<1> SUFFICES ASSUME Inv, Flowing, LastIsNow, DoneIsEmpty, pc = "done"
             PROVE  /\ \A i \in Instrs : Retired(i) /\ endTime[i] <= retireTime[i]
                    /\ TotalCycles = now
  BY DEF TotalIsLastRetirement
<1>1. /\ Typed /\ TypeOK /\ now \in Nat /\ IsFiniteSet(Instrs)
      /\ Instrs \subseteq 0 .. job.n
  BY JobFacts DEF Inv, Typed, TypeOK
<1>2. \A i \in Instrs : Retired(i)
  BY NoneLeft DEF Inv, DoneIsEmpty
<1>3. \A i \in Instrs : endTime[i] <= retireTime[i]
  BY <1>1, <1>2 DEF Flowing, EndedFirst
<1> DEFINE T == {retireTime[i] : i \in Instrs}
           S == {0} \cup T
           f == [i \in Instrs |-> retireTime[i]]
<1>4. {IF Retired(i) THEN retireTime[i] ELSE endTime[i] :
          i \in {k \in Instrs : Retired(k) \/ endTime[k] # None}} = T
  BY <1>2
<1>5. TotalCycles = Max(S)
  BY <1>4 DEF TotalCycles
<1>6. IsFiniteSet(S)
  <2>1. f \in Surjection(Instrs, T)
    BY DEF Surjection
  <2>2. IsFiniteSet(T)
    BY <1>1, <2>1, FS_Surjection
  <2> QED  BY <2>2, FS_AddElement
<1>7. \A x \in S : x \in Nat /\ x <= now
  BY <1>1, <1>2, TimesArePast
<1>8. now \in S
  BY <1>1 DEF LastIsNow, DoneIsEmpty
<1>9. Max(S) \in S /\ now <= Max(S)
  BY <1>6, <1>7, <1>8, MaxOfNats
<1>10. TotalCycles \in Nat /\ TotalCycles <= now /\ now <= TotalCycles
  <2> HIDE DEF S
  <2> QED  BY <1>5, <1>7, <1>9
<1>11. TotalCycles = now
  BY <1>1, <1>10
<1> QED  BY <1>2, <1>3, <1>11

(* total_cycles() of a finished call is the clock at its last retirement:  *)
(* no instruction is left out of the maximum, and none retired later.      *)
THEOREM TotalIsTheClock == Spec => []TotalIsLastRetirement
<1> DEFINE J == Inv /\ Flowing /\ LastIsNow /\ DoneIsEmpty
<1>1. Init => J
  <2>1. Init => LastIsNow
    BY DEF Init, Called, LastIsNow
  <2>2. Init => DoneIsEmpty
    BY DEF Init, Called, DoneIsEmpty
  <2> QED  BY <2>1, <2>2, InitBegins, TypedInit, PlacedInit, CountedInit, SettledInit, FlowingInit DEF Inv
<1>2. J /\ [Next]_vars => J'
  BY TypedNext, PlacedNext, CountedNext, SettledNext, FlowingNext, LastIsNowNext DEF Inv
<1>3. J => TotalIsLastRetirement
  BY ClockIsTotal
<1> QED  BY <1>1, <1>2, <1>3, PTL DEF Spec

-----------------------------------------------------------------------------
(***************************************************************************)
(*                       Nothing waits longer than it must                 *)
(*                                                                         *)
(* EarliestStart(i) is the maximum of Bounds(i), which is known once       *)
(* everything i waits for has happened.                                    *)
(***************************************************************************)

Before(i) == {k \in 1 .. i - 1 : job.unit[k] = job.unit[i]}

Bounds(i) ==
  {0} \cup {retireTime[k] : k \in Before(i)} \cup {retireTime[d] : d \in DepsOf(i)}
      \cup {startTime[s] + job.latency[i] : s \in job.streams[i]}

Known(i) ==
  /\ \A k \in Before(i) : Retired(k)
  /\ \A d \in DepsOf(i) : Retired(d)
  /\ \A s \in job.streams[i] : Started(s)

(* Times are written once, at the present instant. *)
LEMMA TimesStay ==
  ASSUME Typed, Placed, [Next]_vars, NEW i \in 0 .. job.n
  PROVE  /\ retireTime'[i] = retireTime[i] \/ (~Retired(i) /\ retireTime'[i] = now /\ now' = now)
         /\ startTime'[i] = startTime[i] \/ (~Started(i) /\ startTime'[i] = now /\ now' = now)
<1>1. ASSUME NEW u \in Units, RetireHead(u)
      PROVE  /\ retireTime'[i] = retireTime[i] \/ (~Retired(i) /\ retireTime'[i] = now /\ now' = now)
             /\ startTime'[i] = startTime[i]
  <2>1. Head(inflight[u]) \in Instrs /\ ~Retired(Head(inflight[u]))
    BY <1>1, HeadOfQueue DEF RetireHead, CanRetire, Typed
  <2> QED  BY <1>1, <2>1 DEF RetireHead, Typed, TypeOK
<1>2. ASSUME NEW u \in Units, StartHead(u) \/ StartFaults(u)
      PROVE  /\ retireTime'[i] = retireTime[i]
             /\ startTime'[i] = startTime[i] \/ (~Started(i) /\ startTime'[i] = now /\ now' = now)
  <2>1. Head(inflight[u]) \in Instrs /\ ~Started(Head(inflight[u]))
    BY <1>2, HeadOfQueue DEF StartHead, StartFaults, CanStart, Typed
  <2> QED  BY <1>2, <2>1 DEF StartHead, StartFaults, Typed, TypeOK
<1>3. ASSUME NEW u \in Units, RetireSkips(u) \/ StartSkips(u) PROVE UNCHANGED times
  BY <1>3 DEF RetireSkips, StartSkips
<1>4. ASSUME NEW c \in Cores, IssueNext(c) \/ DispatcherStops(c) PROVE UNCHANGED times
  BY <1>4 DEF IssueNext, DispatcherStops
<1>5. ASSUME AdvanceClock \/ RaiseDeadlock \/ Finished \/ UNCHANGED vars PROVE UNCHANGED times
  BY <1>5 DEF AdvanceClock, RaiseDeadlock, Finished, vars
<1>6. CASE UNCHANGED times
  BY <1>6 DEF times
<1> QED  BY <1>1, <1>2, <1>3, <1>4, <1>5, <1>6 DEF Next

LEMMA SameQuestions ==
  ASSUME [Next]_vars
  PROVE  job' = job /\ \A i : Before(i)' = Before(i) /\ DepsOf(i)' = DepsOf(i)
BY JobFixed DEF Before, DepsOf

LEMMA BoundsTyped ==
  ASSUME TypeOK, NEW i \in Instrs
  PROVE  /\ Before(i) \subseteq 0 .. job.n /\ DepsOf(i) \subseteq 0 .. job.n
         /\ job.streams[i] \subseteq 0 .. job.n /\ job.latency[i] \in Nat
         /\ IsFiniteSet(Before(i)) /\ IsFiniteSet(DepsOf(i)) /\ IsFiniteSet(job.streams[i])
<1>1. /\ job.n \in Nat /\ i \in 1 .. job.n /\ DepsOf(i) \subseteq 0 .. job.n
      /\ job.streams[i] \subseteq 0 .. job.n /\ job.latency[i] \in Nat
  BY JobFacts DEF TypeOK, Instrs
<1>2. Before(i) \subseteq 0 .. job.n
  BY <1>1 DEF Before
<1>3. IsFiniteSet(0 .. job.n)
  <2>1. 0 \in Int /\ job.n \in Int
    BY <1>1
  <2> QED  BY <2>1, FS_Interval
<1> QED  BY <1>1, <1>2, <1>3, FS_Subset

(* What is known stays so, with the same bounds. *)
LEMMA BoundsStay ==
  ASSUME Typed, Placed, [Next]_vars, NEW i \in Instrs, Known(i)
  PROVE  Known(i)' /\ Bounds(i)' = Bounds(i)
<1>1. /\ Before(i) \subseteq 0 .. job.n /\ DepsOf(i) \subseteq 0 .. job.n
      /\ job.streams[i] \subseteq 0 .. job.n
  BY BoundsTyped DEF Typed
<1>2. /\ \A k \in Before(i) \cup DepsOf(i) : Retired(k) /\ retireTime'[k] = retireTime[k]
      /\ \A s \in job.streams[i] : Started(s) /\ startTime'[s] = startTime[s]
  BY <1>1, TimesStay DEF Known
<1>3. job' = job /\ Before(i)' = Before(i) /\ DepsOf(i)' = DepsOf(i)
  BY SameQuestions
<1>4. Known(i)'
  BY <1>2, <1>3 DEF Known, Retired, Started
<1>5. /\ {retireTime'[k] : k \in Before(i)} = {retireTime[k] : k \in Before(i)}
      /\ {retireTime'[d] : d \in DepsOf(i)} = {retireTime[d] : d \in DepsOf(i)}
      /\ {startTime'[s] + job.latency[i] : s \in job.streams[i]}
           = {startTime[s] + job.latency[i] : s \in job.streams[i]}
  BY <1>2
<1>6. Bounds(i)' = Bounds(i)
  BY <1>3, <1>5 DEF Bounds
<1> QED  BY <1>4, <1>6

(* When the last thing i waits for happens, its time is one of the bounds. *)
LEMMA BoundsAreMet ==
  ASSUME Typed, Placed, [Next]_vars, NEW i \in Instrs, ~Known(i), Known(i)'
  PROVE  \E x \in Bounds(i)' : now' <= x
<1>1. /\ Before(i) \subseteq 0 .. job.n /\ DepsOf(i) \subseteq 0 .. job.n
      /\ job.streams[i] \subseteq 0 .. job.n /\ job.latency[i] \in Nat /\ now \in Nat
  BY BoundsTyped DEF Typed, TypeOK
<1>2. job' = job /\ Before(i)' = Before(i) /\ DepsOf(i)' = DepsOf(i)
  BY SameQuestions
<1>3. \/ \E k \in Before(i) \cup DepsOf(i) : ~Retired(k) /\ retireTime'[k] # None
      \/ \E s \in job.streams[i] : ~Started(s) /\ startTime'[s] # None
  BY <1>2 DEF Known, Retired, Started
<1>4. ASSUME NEW k \in Before(i) \cup DepsOf(i), ~Retired(k), retireTime'[k] # None
      PROVE  \E x \in Bounds(i)' : now' <= x
  <2>1. retireTime'[k] = now /\ now' = now
    BY <1>1, <1>4, TimesStay DEF Retired
  <2>2. retireTime'[k] \in Bounds(i)'
    BY <1>2 DEF Bounds
  <2> QED  BY <1>1, <2>1, <2>2
<1>5. ASSUME NEW s \in job.streams[i], ~Started(s), startTime'[s] # None
      PROVE  \E x \in Bounds(i)' : now' <= x
  <2>1. startTime'[s] = now /\ now' = now
    BY <1>1, <1>5, TimesStay DEF Started
  <2>2. startTime'[s] + job.latency[i] \in Bounds(i)'
    BY <1>2 DEF Bounds
  <2> QED  BY <1>1, <2>1, <2>2
<1> QED  BY <1>3, <1>4, <1>5

(* The head of a queue changes when it retires, and when a dispatcher sends*)
(* the first instruction to an empty queue.                                *)
LEMMA HeadChanges ==
  ASSUME Typed, Placed, [Next]_vars, NEW u \in Units, inflight'[u] # << >>
  PROVE  \/ inflight[u] # << >> /\ Head(inflight'[u]) = Head(inflight[u])
         \/ inflight[u] = << >> /\ waiting # {} /\ now' = now /\ Head(inflight'[u]) \in waiting
         \/ /\ inflight[u] # << >> /\ ~Retired(Head(inflight[u]))
            /\ Head(inflight[u]) \in Before(Head(inflight'[u]))
<1>1. u \in Unit /\ TypeOK
  BY JobFacts DEF Typed, TypeOK
<1>2. ASSUME NEW v \in Units, RetireHead(v), v = u
      PROVE  /\ inflight[u] # << >> /\ ~Retired(Head(inflight[u]))
             /\ Head(inflight[u]) \in Before(Head(inflight'[u]))
  <2>1. inflight[u] # << >> /\ inflight'[u] = Tail(inflight[u]) /\ ~Retired(Head(inflight[u]))
    BY <1>1, <1>2 DEF RetireHead, CanRetire, TypeOK
  <2> DEFINE q == inflight[u]
  <2>2. /\ q \in Seq(Instrs) /\ Len(q) \in Nat /\ Len(q) > 0 /\ Head(q) = q[1]
        /\ Len(Tail(q)) = Len(q) - 1 /\ \A k \in 1 .. Len(q) - 1 : Tail(q)[k] = q[k + 1]
    BY <1>1, <2>1, QueueFacts
  <2>3. Tail(q) # << >> /\ Len(Tail(q)) # 0
    BY <2>1, <2>2, HeadTailProperties, EmptySeq
  <2>4. Head(Tail(q)) = q[2] /\ 2 \in 1 .. Len(q) /\ 1 \in 1 .. Len(q)
    <3>1. Tail(q) \in Seq(Instrs)
      BY <2>1, <2>2, HeadTailProperties
    <3>2. Head(Tail(q)) = Tail(q)[1]
      BY <2>3, <3>1, HeadTailProperties
    <3>3. 1 \in 1 .. Len(q) - 1
      BY <2>2, <2>3
    <3> QED  BY <2>2, <3>2, <3>3
  <2>5. q[1] < q[2] /\ job.unit[q[1]] = u /\ job.unit[q[2]] = u
    <3>1. 1 \in 1 .. 2 - 1
      OBVIOUS
    <3> QED  BY <1>1, <2>4, <3>1 DEF Placed, QueuesInOrder
  <2>6. q[1] \in Instrs /\ q[2] \in Instrs
    BY <1>1, <2>4, QueueFacts
  <2>7. job.n \in Nat
    BY <1>1 DEF TypeOK, IsJob
  <2>8. Head(inflight[u]) = q[1] /\ Head(inflight'[u]) = q[2]
    BY <2>1, <2>2, <2>4
  <2> HIDE DEF q
  <2>9. q[1] \in Before(q[2])
    BY <2>5, <2>6, <2>7 DEF Before, Instrs
  <2> QED  BY <2>1, <2>8, <2>9
<1>3. ASSUME NEW v \in Units, RetireHead(v), v # u
      PROVE  inflight'[u] = inflight[u]
  BY <1>1, <1>3 DEF RetireHead, TypeOK
<1>4. ASSUME NEW c \in Cores, IssueNext(c)
      PROVE  \/ inflight[u] # << >> /\ Head(inflight'[u]) = Head(inflight[u])
             \/ /\ inflight[u] = << >> /\ waiting # {} /\ now' = now
                /\ Head(inflight'[u]) \in waiting
  <2>1. PICK i \in waiting : inflight' = [inflight EXCEPT ![job.unit[i]] = Append(@, i)]
    BY <1>4 DEF IssueNext
  <2>2. now' = now
    BY <1>4 DEF IssueNext
  <2>3. CASE job.unit[i] # u
    <3>1. inflight'[u] = inflight[u]
      BY <1>1, <2>1, <2>3 DEF TypeOK
    <3> QED  BY <3>1
  <2>4. CASE job.unit[i] = u
    <3>1. inflight'[u] = Append(inflight[u], i) /\ inflight[u] \in Seq(Instrs) /\ i \in Instrs
      BY <1>1, <2>1, <2>4 DEF TypeOK
    <3>2. CASE inflight[u] = << >>
      BY <2>2, <3>1, <3>2
    <3>3. CASE inflight[u] # << >>
      <4>1. Len(inflight[u]) \in Nat /\ Len(inflight[u]) > 0
        BY <1>1, <3>3, QueueFacts
      <4> QED  BY <3>1, <3>3, <4>1
    <3> QED  BY <3>2, <3>3
  <2> QED  BY <2>3, <2>4
<1>5. CASE UNCHANGED inflight
  BY <1>5
<1>6. ASSUME NEW v \in Units, RetireSkips(v) \/ StartHead(v) \/ StartFaults(v) \/ StartSkips(v)
      PROVE  UNCHANGED inflight
  BY <1>6 DEF RetireSkips, StartHead, StartFaults, StartSkips
<1>7. ASSUME NEW c \in Cores, DispatcherStops(c) PROVE UNCHANGED inflight
  BY <1>7 DEF DispatcherStops
<1>8. ASSUME AdvanceClock \/ RaiseDeadlock \/ Finished \/ UNCHANGED vars
      PROVE  UNCHANGED inflight
  BY <1>8 DEF AdvanceClock, RaiseDeadlock, Finished, vars
<1> QED  BY <1>2, <1>3, <1>4, <1>5, <1>6, <1>7, <1>8 DEF Next

(* Queues with room for everything are filled before the clock first moves.*)
IssuedAtOnce == RoomyQueues => now = 0 \/ waiting = {}

LEMMA RoomForAll ==
  ASSUME Inv, RoomyQueues, pc = "advance"
  PROVE  waiting = {}
<1> SUFFICES ASSUME NEW j \in waiting PROVE FALSE
  OBVIOUS
<1>1. PICK i \in waiting : Len(inflight[job.unit[i]]) >= job.depth[job.unit[i]]
  BY StalledDispatcher
<1> DEFINE u == job.unit[i]
           S == {k \in Instrs : job.unit[k] = u}
           q == inflight[u]
           f == [k \in 1 .. Len(q) |-> q[k]]
<1>2. /\ TypeOK /\ i \in Instrs /\ u \in Units /\ u \in Unit
      /\ IsFiniteSet(Instrs) /\ job.depth[u] \in Nat
  BY JobFacts DEF Inv, Typed, TypeOK
<1>3. Cardinality(S) <= job.depth[u] /\ i \in S
  BY <1>2 DEF RoomyQueues
<1>4. Len(q) \in Nat /\ \A k \in 1 .. Len(q) : q[k] \in Instrs
  BY <1>2, QueueFacts
<1>5. f \in Injection(1 .. Len(q), S \ {i})
  <2>1. \A k \in 1 .. Len(q) : q[k] \in S \ {i}
    BY <1>2, <1>4 DEF Inv, Placed, QueuesInOrder
  <2>2. ASSUME NEW k \in 1 .. Len(q), NEW m \in 1 .. Len(q), m < k PROVE q[m] # q[k]
    <3>1. q[m] < q[k]
      BY <1>2, <1>4, <2>2 DEF Inv, Placed, QueuesInOrder
    <3>2. q[m] \in Nat
      BY <1>2, <1>4 DEF Instrs
    <3> QED  BY <3>1, <3>2
  <2>3. ASSUME NEW k \in 1 .. Len(q), NEW m \in 1 .. Len(q), q[m] = q[k] PROVE m = k
    BY <1>4, <2>2, <2>3
  <2> QED  BY <2>1, <2>3 DEF Injection, IsInjective
<1>6. IsFiniteSet(S) /\ Cardinality(S) \in Nat
  BY <1>2, FS_Subset, FS_CardinalityType
<1>7. IsFiniteSet(S \ {i}) /\ Cardinality(S \ {i}) = Cardinality(S) - 1
  BY <1>3, <1>6, FS_RemoveElement
<1>8. Cardinality(1 .. Len(q)) = Len(q)
  BY <1>4, FS_Interval
<1>9. Len(q) <= Cardinality(S) - 1
  BY <1>5, <1>7, <1>8, FS_Injection
<1> QED  BY <1>1, <1>2, <1>3, <1>4, <1>6, <1>9

LEMMA IssuedAtOnceNext == Inv /\ IssuedAtOnce /\ [Next]_vars => IssuedAtOnce'
<1> SUFFICES ASSUME Inv, IssuedAtOnce, [Next]_vars, RoomyQueues' PROVE now' = 0 \/ waiting' = {}
  BY DEF IssuedAtOnce
<1>1. RoomyQueues
  BY JobFixed DEF RoomyQueues
<1>2. CASE AdvanceClock
  <2>1. waiting = {} /\ waiting' = waiting
    BY <1>1, <1>2, RoomForAll DEF AdvanceClock
  <2> QED  BY <2>1
<1>3. CASE now' = now /\ waiting' \subseteq waiting
  BY <1>1, <1>3 DEF IssuedAtOnce
<1>4. ASSUME NEW u \in Units,
             RetireHead(u) \/ RetireSkips(u) \/ StartHead(u) \/ StartFaults(u) \/ StartSkips(u)
      PROVE  now' = now /\ waiting' \subseteq waiting
  BY <1>4 DEF RetireHead, RetireSkips, StartHead, StartFaults, StartSkips
<1>5. ASSUME NEW c \in Cores, IssueNext(c) \/ DispatcherStops(c)
      PROVE  now' = now /\ waiting' \subseteq waiting
  BY <1>5 DEF IssueNext, DispatcherStops
<1>6. ASSUME RaiseDeadlock \/ Finished \/ UNCHANGED vars
      PROVE  now' = now /\ waiting' \subseteq waiting
  BY <1>6 DEF RaiseDeadlock, Finished, vars
<1> QED  BY <1>2, <1>3, <1>4, <1>5, <1>6 DEF Next

(* A head that has all it waits for is not behind its earliest cycle. *)
OnTime ==
  RoomyQueues /\ pc # "raised" =>
    \A u \in Units, h \in Instrs :
      inflight[u] # << >> /\ h = Head(inflight[u]) /\ ~Started(h) /\ Known(h) =>
        \E x \in Bounds(h) : now <= x

LEMMA OnTimeNext == Inv /\ IssuedAtOnce /\ OnTime /\ [Next]_vars => OnTime'
<1> SUFFICES ASSUME Inv, IssuedAtOnce, OnTime, [Next]_vars, RoomyQueues', pc' # "raised",
                    NEW u \in Units, NEW h \in Instrs,
                    inflight'[u] # << >>, h = Head(inflight'[u]), startTime'[h] = None, Known(h)'
             PROVE  \E x \in Bounds(h)' : now' <= x
  BY JobFixed DEF OnTime, Started
<1>1. Typed /\ Placed /\ TypeOK /\ RoomyQueues /\ job' = job /\ now \in Nat
  BY JobFixed DEF Inv, Typed, TypeOK, RoomyQueues
<1>2. pc # "raised"
  BY DEF Next, RetireHead, RetireSkips, StartHead, StartFaults, StartSkips, IssueNext,
         DispatcherStops, AdvanceClock, RaiseDeadlock, Finished, vars
<1>3. h \in 0 .. job.n
  BY <1>1, JobFacts DEF TypeOK
<1>4. CASE ~Known(h)
  BY <1>1, <1>4, BoundsAreMet
<1>5. CASE Known(h)
  <2>1. Bounds(h)' = Bounds(h) /\ 0 \in Bounds(h)
    BY <1>1, <1>5, BoundsStay DEF Bounds
  <2>2. ~Started(h)
    <3>1. startTime'[h] = startTime[h] \/ startTime'[h] = now
      BY <1>1, <1>3, TimesStay
    <3>2. now # None
      BY <1>1, NoneAssumption
    <3> QED  BY <3>1, <3>2 DEF Started
  <2>3. CASE inflight[u] # << >> /\ h = Head(inflight[u])
    <3>1. CASE now' = now
      BY <1>1, <1>2, <1>5, <2>1, <2>2, <2>3, <3>1 DEF OnTime
    <3>2. CASE AdvanceClock
      <4>1. ~CanStart(u, now)
        BY <3>2 DEF AdvanceClock, Inv, Settled, NoStart
      <4>2. /\ ReadyAt(h) \in Wakes
            /\ \E s \in job.streams[h] : ReadyAt(h) = startTime[s] + job.latency[h]
        BY <1>1, <1>5, <2>2, <2>3, <4>1, ReadyHeadWakes DEF Known
      <4>3. ReadyAt(h) \in Bounds(h)
        BY <4>2 DEF Bounds
      <4>4. now' <= ReadyAt(h)
        BY <3>2, <4>2 DEF AdvanceClock
      <4> QED  BY <2>1, <4>3, <4>4
    <3> QED
      BY <3>1, <3>2 DEF Next, RetireHead, RetireSkips, StartHead, StartFaults, StartSkips,
         IssueNext, DispatcherStops, RaiseDeadlock, Finished, vars
  <2>4. CASE waiting # {} /\ now' = now
    <3>1. now' = 0
      BY <1>1, <2>4 DEF IssuedAtOnce
    <3> QED  BY <2>1, <3>1
  <2>5. CASE /\ inflight[u] # << >> /\ ~Retired(Head(inflight[u]))
             /\ Head(inflight[u]) \in Before(h)
    BY <1>5, <2>5 DEF Known
  <2> QED  BY <1>1, <2>3, <2>4, <2>5, HeadChanges
<1> QED  BY <1>4, <1>5

LEMMA StartedIsKnown ==
  ASSUME Typed, Flowing, ProgramOrder, NEW i \in Instrs, Started(i)
  PROVE  Known(i)
<1>1. \A k \in Before(i) : k \in Instrs /\ k < i /\ job.unit[k] = job.unit[i]
  <2>1. job.n \in Nat
    BY JobFacts DEF Typed, TypeOK
  <2> QED  BY <2>1 DEF Before, Instrs
<1>2. \A k \in Before(i) : Retired(k)
  BY <1>1 DEF ProgramOrder
<1> QED  BY <1>2 DEF Known, Flowing, InputsFirst

(* A head that starts does so at the latest of its bounds. *)
LEMMA StartsOnTime ==
  ASSUME Inv, OnTime, RoomyQueues, pc # "raised", NEW u \in Units, CanStart(u, now)
  PROVE  Known(Head(inflight[u])) /\ Max(Bounds(Head(inflight[u]))) = now
<1> DEFINE h == Head(inflight[u])
<1>1. /\ inflight[u] # << >> /\ ~Started(h)
      /\ \A d \in DepsOf(h) : Retired(d) /\ retireTime[d] <= now
      /\ \A s \in job.streams[h] : Started(s) /\ startTime[s] + job.latency[h] <= now
  BY DEF CanStart
<1>2. Typed /\ Placed /\ TypeOK /\ h \in Instrs /\ now \in Nat /\ u \in Unit
  BY <1>1, HeadOfQueue DEF Inv, Typed, TypeOK
<1>3. /\ Before(h) \subseteq 0 .. job.n /\ DepsOf(h) \subseteq 0 .. job.n
      /\ job.streams[h] \subseteq 0 .. job.n /\ job.latency[h] \in Nat
      /\ IsFiniteSet(Before(h)) /\ IsFiniteSet(DepsOf(h)) /\ IsFiniteSet(job.streams[h])
  BY <1>2, BoundsTyped
<1>4. job.unit[h] = u
  <2>1. h = inflight[u][1] /\ 1 \in 1 .. Len(inflight[u])
    BY <1>1, <1>2, QueueFacts
  <2> QED  BY <1>2, <2>1 DEF Placed, QueuesInOrder
<1>5. \A k \in Before(h) : Retired(k)
  <2> TAKE k \in Before(h)
  <2>1. k \in Instrs /\ k < h /\ job.unit[k] = u
    BY <1>2, <1>4, JobFacts DEF Before, Instrs, TypeOK
  <2> QED  BY <1>1, <1>2, <2>1, HeadIsNext
<1>6. Known(h)
  BY <1>1, <1>5 DEF Known
<1>7. \A x \in Bounds(h) : x \in Nat /\ x <= now
  <2>1. \A k \in Before(h) \cup DepsOf(h) : retireTime[k] \in Nat /\ retireTime[k] <= now
    BY <1>1, <1>2, <1>3, <1>5, TimesArePast
  <2>2. \A s \in job.streams[h] : startTime[s] + job.latency[h] \in Nat
    BY <1>1, <1>2, <1>3, TimesArePast
  <2> QED  BY <1>1, <1>2, <2>1, <2>2 DEF Bounds
<1>8. IsFiniteSet(Bounds(h))
  <2> DEFINE A == {retireTime[k] : k \in Before(h)}
             B == {retireTime[d] : d \in DepsOf(h)}
             C == {startTime[s] + job.latency[h] : s \in job.streams[h]}
  <2>1. IsFiniteSet(A)
    <3>1. [k \in Before(h) |-> retireTime[k]] \in Surjection(Before(h), A)
      BY DEF Surjection
    <3> QED  BY <1>3, <3>1, FS_Surjection
  <2>2. IsFiniteSet(B)
    <3>1. [d \in DepsOf(h) |-> retireTime[d]] \in Surjection(DepsOf(h), B)
      BY DEF Surjection
    <3> QED  BY <1>3, <3>1, FS_Surjection
  <2>3. IsFiniteSet(C)
    BY <1>2, StreamTimesFinite DEF TypeOK
  <2>4. IsFiniteSet({0} \cup A) /\ IsFiniteSet({0} \cup A \cup B)
    <3>1. IsFiniteSet({0})
      BY FS_Singleton
    <3>2. IsFiniteSet({0} \cup A)
      BY <2>1, <3>1, FS_Union
    <3> QED  BY <2>2, <3>2, FS_Union
  <2>5. IsFiniteSet({0} \cup A \cup B \cup C)
    BY <2>3, <2>4, FS_Union
  <2> QED  BY <2>5 DEF Bounds
<1>9. PICK x \in Bounds(h) : now <= x
  BY <1>1, <1>2, <1>6 DEF OnTime
<1>10. Max(Bounds(h)) \in Bounds(h) /\ x <= Max(Bounds(h))
  BY <1>7, <1>8, <1>9, MaxOfNats
<1>11. Max(Bounds(h)) = now
  BY <1>2, <1>7, <1>9, <1>10
<1> QED  BY <1>6, <1>11

(* No head that only waits for its end is still there after it. *)
NoneOverdue ==
  pc # "raised" =>
    \A u \in Units, h \in Instrs :
      inflight[u] # << >> /\ h = Head(inflight[u]) /\ Started(h) /\ job.dst[h] = None =>
        now <= endTime[h]

StartedOnTime == RoomyQueues => \A i \in Instrs : Started(i) => startTime[i] = Max(Bounds(i))

RetiredOnTime == \A i \in Instrs : Retired(i) /\ job.dst[i] = None => retireTime[i] = endTime[i]

LEMMA NoneOverdueNext ==
  Inv /\ Flowing /\ ProgramOrder /\ NoneOverdue /\ [Next]_vars => NoneOverdue'
<1> SUFFICES ASSUME Inv, Flowing, ProgramOrder, NoneOverdue, [Next]_vars, pc' # "raised",
                    NEW u \in Units, NEW h \in Instrs,
                    inflight'[u] # << >>, h = Head(inflight'[u]), startTime'[h] # None,
                    job.dst[h] = None
             PROVE  now' <= endTime'[h]
  BY JobFixed DEF NoneOverdue, Started
<1>1. /\ Typed /\ Placed /\ TypeOK /\ job' = job /\ now \in Nat /\ u \in Unit
      /\ h \in 0 .. job.n /\ waiting \subseteq Instrs
  BY JobFixed, JobFacts DEF Inv, Typed, TypeOK
<1>2. pc # "raised"
  BY DEF Next, RetireHead, RetireSkips, StartHead, StartFaults, StartSkips, IssueNext,
         DispatcherStops, AdvanceClock, RaiseDeadlock, Finished, vars
<1>3. CASE Started(h)
  <2>1. inflight[u] # << >> /\ h = Head(inflight[u])
    <3>1. h \notin waiting
      BY <1>1, <1>3 DEF Placed, SomewhereOnce
    <3>2. \A k \in Before(h) : Retired(k)
      BY <1>1, <1>3, StartedIsKnown DEF Known
    <3> QED  BY <1>1, <3>1, <3>2, HeadChanges
  <2>2. now <= endTime[h]
    BY <1>1, <1>2, <1>3, <2>1 DEF NoneOverdue
  <2>3. ASSUME AdvanceClock PROVE now' <= endTime'[h]
    <3>1. ~CanRetire(u, now) /\ ~Retired(h)
      <4>1. h = inflight[u][1] /\ 1 \in 1 .. Len(inflight[u])
        BY <1>1, <2>1, QueueFacts
      <4> QED  BY <1>1, <2>3, <4>1 DEF AdvanceClock, Inv, Settled, NoRetire, Placed, QueuesInOrder
    <3>2. endTime[h] \in Nat
      BY <1>1, <1>2, <1>3, EndsArePlanned
    <3>3. endTime[h] > now
      BY <1>1, <1>3, <2>1, <3>1, <3>2 DEF CanRetire, HasFreeSlot
    <3>4. endTime[h] \in Wakes
      BY <1>3, <2>1, <3>1, <3>3, RunningHeadWakes
    <3> QED  BY <2>3, <3>4 DEF AdvanceClock, times
  <2>4. ASSUME NEW v \in Units, StartHead(v) PROVE now' <= endTime'[h]
    <3>1. Head(inflight[v]) # h
      BY <1>3, <2>4 DEF StartHead, CanStart
    <3>2. endTime'[h] = endTime[h] /\ now' = now
      BY <1>1, <2>4, <3>1 DEF StartHead, TypeOK
    <3> QED  BY <2>2, <3>2
  <2>5. CASE endTime' = endTime /\ now' = now
    BY <2>2, <2>5
  <2> QED
    BY <2>3, <2>4, <2>5 DEF Next, RetireHead, RetireSkips, StartFaults, StartSkips,
       IssueNext, DispatcherStops, RaiseDeadlock, Finished, vars, times
<1>4. CASE ~Started(h)
  <2>1. PICK v \in Units : StartHead(v) /\ h = Head(inflight[v])
    <3>1. ASSUME NEW v \in Units, StartHead(v), h # Head(inflight[v]) PROVE FALSE
      BY <1>1, <1>4, <3>1 DEF StartHead, Started, TypeOK
    <3>2. ASSUME startTime' = startTime PROVE FALSE
      BY <1>4, <3>2 DEF Started
    <3> QED
      BY <3>1, <3>2 DEF Next, RetireHead, RetireSkips, StartFaults, StartSkips,
         IssueNext, DispatcherStops, AdvanceClock, RaiseDeadlock, Finished, vars, times
  <2>2. /\ endTime'[h] = EndOf(h) /\ now' = now /\ job.cost[h] # None
        /\ \A s \in job.streams[h] : Started(s)
    BY <1>1, <2>1 DEF StartHead, CanStart, TypeOK
  <2>3. EndOf(h) \in Nat /\ now + job.cost[h] <= EndOf(h) /\ job.cost[h] \in Nat
    BY <1>1, <1>2, <2>2, EndOfFacts, JobFacts DEF TypeOK
  <2> QED  BY <1>1, <2>2, <2>3
<1> QED  BY <1>3, <1>4

LEMMA StartedOnTimeNext ==
  Inv /\ Flowing /\ ProgramOrder /\ OnTime /\ StartedOnTime /\ [Next]_vars => StartedOnTime'
<1> SUFFICES ASSUME Inv, Flowing, ProgramOrder, OnTime, StartedOnTime, [Next]_vars, RoomyQueues',
                    NEW i \in Instrs, startTime'[i] # None
             PROVE  startTime'[i] = Max(Bounds(i)')
  BY JobFixed DEF StartedOnTime, Started
<1>1. Typed /\ Placed /\ TypeOK /\ RoomyQueues /\ i \in 0 .. job.n
  BY JobFixed, JobFacts DEF Inv, Typed, TypeOK, RoomyQueues
<1>2. CASE Started(i)
  <2>1. Bounds(i)' = Bounds(i)
    BY <1>1, <1>2, StartedIsKnown, BoundsStay
  <2>2. startTime'[i] = startTime[i]
    BY <1>1, <1>2, TimesStay
  <2> QED  BY <1>1, <1>2, <2>1, <2>2 DEF StartedOnTime
<1>3. CASE ~Started(i)
  <2>1. PICK u \in Units : (StartHead(u) \/ StartFaults(u)) /\ i = Head(inflight[u])
    <3>1. ASSUME NEW u \in Units, StartHead(u) \/ StartFaults(u), i # Head(inflight[u]) PROVE FALSE
      BY <1>1, <1>3, <3>1 DEF StartHead, StartFaults, Started, TypeOK
    <3>2. ASSUME startTime' = startTime PROVE FALSE
      BY <1>3, <3>2 DEF Started
    <3> QED
      BY <3>1, <3>2 DEF Next, RetireHead, RetireSkips, StartSkips,
         IssueNext, DispatcherStops, AdvanceClock, RaiseDeadlock, Finished, vars, times
  <2>2. CanStart(u, now) /\ pc # "raised" /\ startTime' = [startTime EXCEPT ![i] = now]
    BY <2>1 DEF StartHead, StartFaults
  <2>3. Known(i) /\ Max(Bounds(i)) = now
    BY <1>1, <2>1, <2>2, StartsOnTime
  <2>4. Bounds(i)' = Bounds(i)
    BY <1>1, <2>3, BoundsStay
  <2> QED  BY <1>1, <2>2, <2>3, <2>4 DEF TypeOK
<1> QED  BY <1>2, <1>3

LEMMA RetiredOnTimeNext ==
  Inv /\ NoneOverdue /\ RetiredOnTime /\ [Next]_vars => RetiredOnTime'
<1> SUFFICES ASSUME Inv, NoneOverdue, RetiredOnTime, [Next]_vars,
                    NEW i \in Instrs, retireTime'[i] # None, job.dst[i] = None
             PROVE  retireTime'[i] = endTime'[i]
  BY JobFixed DEF RetiredOnTime, Retired
<1>1. Typed /\ Placed /\ TypeOK /\ Instrs \subseteq 0 .. job.n /\ now \in Nat
  BY JobFixed, JobFacts DEF Inv, Typed, TypeOK
<1>2. ASSUME NEW u \in Units, RetireHead(u), i = Head(inflight[u])
      PROVE  retireTime'[i] = endTime'[i]
  <2>1. inflight[u] # << >> /\ Started(i) /\ endTime[i] <= now /\ pc # "raised"
    BY <1>2 DEF RetireHead, CanRetire
  <2>2. now <= endTime[i] /\ endTime[i] \in Nat
    BY <1>1, <1>2, <2>1, EndsArePlanned DEF NoneOverdue
  <2>3. retireTime'[i] = now /\ endTime' = endTime
    BY <1>1, <1>2 DEF RetireHead, TypeOK
  <2> QED  BY <1>1, <2>1, <2>2, <2>3
<1>3. ASSUME NEW u \in Units, RetireHead(u), i # Head(inflight[u])
      PROVE  retireTime'[i] = retireTime[i] /\ endTime'[i] = endTime[i]
  BY <1>1, <1>3 DEF RetireHead, TypeOK
<1>4. ASSUME NEW u \in Units, StartHead(u), retireTime[i] # None
      PROVE  retireTime'[i] = retireTime[i] /\ endTime'[i] = endTime[i]
  <2>1. Head(inflight[u]) # i
    <3>1. inflight[u] # << >> /\ u \in Unit
      BY <1>1, <1>4, HeadOfQueue DEF StartHead, CanStart
    <3>2. Head(inflight[u]) = inflight[u][1] /\ 1 \in 1 .. Len(inflight[u])
      BY <1>1, <3>1, QueueFacts
    <3> QED  BY <1>4, <3>1, <3>2 DEF Placed, QueuesInOrder, Inv, Retired
  <2> QED  BY <1>1, <1>4, <2>1 DEF StartHead, TypeOK
<1>5. CASE UNCHANGED <<endTime, retireTime>>
  BY <1>5 DEF RetiredOnTime, Retired
<1>6. CASE retireTime'[i] = retireTime[i] /\ endTime'[i] = endTime[i]
  BY <1>6 DEF RetiredOnTime, Retired
<1> QED
  BY <1>2, <1>3, <1>4, <1>5, <1>6 DEF Next, StartHead, RetireSkips, StartFaults, StartSkips,
     IssueNext, DispatcherStops, AdvanceClock, RaiseDeadlock, Finished, vars, times

(* The sweeps and the clock's jumps add no delay: where no dispatcher ever *)
(* stalls every instruction starts at the earliest cycle its unit and its  *)
(* inputs allow, and where no buffer blocks it retires the cycle it ends.  *)
THEOREM SweepsAddNoDelay == Spec => []EagerTiming
<1> DEFINE J == /\ Inv /\ Flowing /\ ProgramOrder /\ IssuedAtOnce
                /\ OnTime /\ NoneOverdue /\ StartedOnTime /\ RetiredOnTime
<1>1. Init => J
  <2> SUFFICES ASSUME Init PROVE J
    OBVIOUS
  <2>1. IsJob(job) /\ \A i \in 0 .. job.n : ~Started(i) /\ ~Retired(i)
    BY JobsAssumption DEF Init, Called, Started, Retired
  <2>2. /\ Instrs \subseteq 0 .. job.n /\ Units \subseteq Unit /\ now = 0
        /\ \A u \in Unit : inflight[u] = << >>
    BY <2>1, JobFacts DEF Init, Called
  <2>3. ProgramOrder /\ IssuedAtOnce /\ OnTime /\ NoneOverdue /\ StartedOnTime /\ RetiredOnTime
    BY <2>1, <2>2 DEF ProgramOrder, IssuedAtOnce, OnTime, NoneOverdue, StartedOnTime, RetiredOnTime
  <2> QED  BY <2>3, InitBegins, TypedInit, PlacedInit, CountedInit, SettledInit, FlowingInit DEF Inv
<1>2. J /\ [Next]_vars => J'
  <2>1. Inv /\ [Next]_vars => Inv'
    BY TypedNext, PlacedNext, CountedNext, SettledNext DEF Inv
  <2>2. Inv /\ Flowing /\ ProgramOrder /\ [Next]_vars => Flowing' /\ ProgramOrder'
    BY FlowingNext, ProgramOrderNext DEF Inv
  <2> QED  BY <2>1, <2>2, IssuedAtOnceNext, OnTimeNext, NoneOverdueNext, StartedOnTimeNext,
              RetiredOnTimeNext
<1>3. J => EagerTiming
  BY DEF EagerTiming, EarliestStart, StartedOnTime, RetiredOnTime, Bounds, Before
<1> QED  BY <1>1, <1>2, <1>3, PTL DEF Spec
-----------------------------------------------------------------------------
(***************************************************************************)
(*                    Slots of the buffers, and the refinement             *)
(***************************************************************************)

(* The object that is not in the list never runs. *)
OutsideIdle == ~Started(Outside) /\ ~Retired(Outside)

SlotsCounted ==
  SingleReader /\ pc # "raised" =>
    \A b \in Unit : /\ occ[b] = Cardinality(Live(b))
                    /\ occ[b] > 0 => occ[b] <= job.depth[b]

LEMMA OutsideNext == Typed /\ OutsideIdle /\ [Next]_vars => OutsideIdle'
<1> SUFFICES ASSUME Typed, OutsideIdle, [Next]_vars PROVE OutsideIdle'
  OBVIOUS
<1>1. Outside \notin Instrs /\ Outside \in 0 .. job.n /\ job.n \in Nat
  BY JobFacts DEF Typed, TypeOK, Instrs, Outside
<1>2. ASSUME NEW u \in Units, RetireHead(u) PROVE OutsideIdle'
  <2>1. Head(inflight[u]) \in Instrs
    BY <1>2, HeadOfQueue DEF RetireHead, CanRetire, Typed
  <2> QED  BY <1>1, <1>2, <2>1 DEF RetireHead, OutsideIdle, Started, Retired, Typed, TypeOK
<1>3. ASSUME NEW u \in Units, StartHead(u) \/ StartFaults(u) PROVE OutsideIdle'
  <2>1. Head(inflight[u]) \in Instrs
    BY <1>3, HeadOfQueue DEF StartHead, StartFaults, CanStart, Typed
  <2> QED  BY <1>1, <1>3, <2>1 DEF StartHead, StartFaults, OutsideIdle, Started, Retired, Typed, TypeOK
<1>4. CASE UNCHANGED <<startTime, retireTime>>
  BY <1>4 DEF OutsideIdle, Started, Retired
<1> QED
  BY <1>2, <1>3, <1>4 DEF Next, RetireSkips, StartSkips, IssueNext, DispatcherStops,
     AdvanceClock, RaiseDeadlock, Finished, vars, times

LEMMA LiveFinite ==
  ASSUME TypeOK, NEW b
  PROVE  IsFiniteSet(Live(b)) /\ Cardinality(Live(b)) \in Nat
<1>1. Live(b) \subseteq Instrs
  BY DEF Live
<1>2. IsFiniteSet(Live(b))
  BY <1>1, JobFacts, FS_Subset DEF TypeOK
<1> QED  BY <1>2, FS_CardinalityType

(* What retires becomes live: none of its readers can have started. *)
LEMMA RetiredBecomesLive ==
  ASSUME Typed, Placed, Flowing, NEW u \in Units, RetireHead(u), NEW b \in Unit
  PROVE  LET h == Head(inflight[u])
         IN  /\ h \notin Live(b)
             /\ Live(b)' = IF job.dst[h] = b THEN Live(b) \cup {h} ELSE Live(b)
<1> DEFINE h == Head(inflight[u])
<1>1. TypeOK /\ h \in Instrs /\ Instrs \subseteq 0 .. job.n /\ ~Retired(h) /\ now \in Nat
  BY HeadOfQueue, JobFacts DEF RetireHead, CanRetire, Typed, TypeOK
<1>2. job' = job /\ startTime' = startTime /\ retireTime' = [retireTime EXCEPT ![h] = now]
  BY DEF RetireHead
<1>3. \A i \in Instrs : retireTime'[i] # None <=> Retired(i) \/ i = h
  BY <1>1, <1>2, NoneAssumption DEF Retired, TypeOK
<1>4. \A r \in Readers(h) : ~Started(r)
  BY <1>1 DEF Readers, Flowing, InputsFirst
<1>5. Instrs' = Instrs /\ \A i : Readers(i)' = Readers(i)
  BY <1>2 DEF Readers, Instrs, DepsOf
<1>6. Live(b)' = {i \in Instrs : /\ Retired(i) \/ i = h
                                 /\ job.dst[i] = b
                                 /\ Readers(i) = {} \/ \E r \in Readers(i) : ~Started(r)}
  BY <1>2, <1>3, <1>5 DEF Live, Retired, Started
<1>7. h \notin Live(b)
  BY <1>1 DEF Live
<1>8. Readers(h) = {} \/ \E r \in Readers(h) : ~Started(r)
  BY <1>4
<1>9. Live(b)' = IF job.dst[h] = b THEN Live(b) \cup {h} ELSE Live(b)
  BY <1>1, <1>6, <1>8 DEF Live
<1> QED  BY <1>7, <1>9

(* A start gives back the slots of exactly the results it reads, once each.*)
LEMMA StartFreesItsInputs ==
  ASSUME Typed, Placed, OutsideIdle, SingleReader, NEW u \in Units, StartHead(u), NEW b \in Unit
  PROVE  /\ Frees(Head(inflight[u]), b) \in Nat
         /\ Frees(Head(inflight[u]), b) <= Cardinality(Live(b))
         /\ Cardinality(Live(b)') = Cardinality(Live(b)) - Frees(Head(inflight[u]), b)
<1> DEFINE h == Head(inflight[u])
           K == {k \in DOMAIN job.deps[h] :
                   job.deps[h][k] # Outside /\ job.dst[job.deps[h][k]] = b}
           g == [k \in K |-> job.deps[h][k]]
           D == {job.deps[h][k] : k \in K}
<1>1. /\ TypeOK /\ h \in Instrs /\ Instrs \subseteq 0 .. job.n /\ ~Started(h) /\ now \in Nat
      /\ \A d \in DepsOf(h) : Retired(d)
  BY HeadOfQueue, JobFacts DEF StartHead, CanStart, Typed, TypeOK
<1>2. job' = job /\ retireTime' = retireTime /\ startTime' = [startTime EXCEPT ![h] = now]
  BY DEF StartHead
<1>3. \A i \in Instrs : startTime'[i] # None <=> Started(i) \/ i = h
  BY <1>1, <1>2, NoneAssumption DEF Started, TypeOK
<1>4. job.deps[h] \in Seq(0 .. job.n)
  BY <1>1 DEF TypeOK, IsJob, Instrs
<1>5. b # None
  BY NoneAssumption
<1>6. D \subseteq Instrs /\ D = {d \in DepsOf(h) \ {Outside} : job.dst[d] = b}
  <2>1. \A d \in D : d \in DepsOf(h) /\ d # Outside /\ job.dst[d] = b
    BY DEF DepsOf
  <2>2. \A d \in DepsOf(h) : d # Outside /\ job.dst[d] = b => d \in D
    BY DEF DepsOf
  <2>3. DepsOf(h) \subseteq 0 .. job.n /\ job.n \in Nat
    BY <1>1, JobFacts DEF TypeOK
  <2>4. \A d \in DepsOf(h) : d # Outside => d \in Instrs
    BY <2>3 DEF Instrs, Outside
  <2> QED  BY <2>1, <2>2, <2>4
<1>7. \A d \in D : h \in Readers(d) /\ \A r \in Readers(d) : r = h
  <2> TAKE d \in D
  <2>1. d \in Instrs /\ job.dst[d] # None /\ d \in DepsOf(h)
    BY <1>5, <1>6
  <2>2. h \in Readers(d)
    BY <1>1, <2>1 DEF Readers
  <2>3. ASSUME NEW r \in Readers(d) PROVE r = h
    <3>1. r \in Instrs /\ d \in DepsOf(r)
      BY DEF Readers
    <3>2. PICK k \in DOMAIN job.deps[r] : job.deps[r][k] = d
      BY <3>1 DEF DepsOf
    <3>3. PICK m \in DOMAIN job.deps[h] : job.deps[h][m] = d
      BY <2>1 DEF DepsOf
    <3> QED  BY <1>1, <2>1, <3>1, <3>2, <3>3 DEF SingleReader
  <2> QED  BY <2>2, <2>3
<1>8. D \subseteq Live(b)
  BY <1>1, <1>6, <1>7 DEF Live
<1>9. Live(b)' = Live(b) \ D
  <2>1. Instrs' = Instrs /\ \A i : Readers(i)' = Readers(i)
    BY <1>2 DEF Readers, Instrs, DepsOf
  <2>2. Live(b)' = {i \in Instrs : /\ Retired(i) /\ job.dst[i] = b
                                   /\ Readers(i) = {} \/ \E r \in Readers(i) : ~(Started(r) \/ r = h)}
    <3>1. \A i \in Instrs : \A r \in Readers(i) : r \in Instrs
      BY DEF Readers
    <3> QED  BY <1>2, <1>3, <2>1, <3>1 DEF Live, Retired, Started
  <2>3. ASSUME NEW i \in Live(b), i \notin D PROVE i \in Live(b)'
    <3>1. h \notin Readers(i)
      <4> SUFFICES ASSUME h \in Readers(i) PROVE FALSE
        OBVIOUS
      <4>1. i \in DepsOf(h) /\ i \in Instrs /\ job.dst[i] = b
        BY <2>3 DEF Readers, Live
      <4>2. i # Outside
        BY <1>1, <4>1 DEF Instrs, Outside
      <4> QED  BY <1>6, <2>3, <4>1, <4>2
    <3> QED  BY <2>2, <2>3, <3>1 DEF Live
  <2>4. ASSUME NEW i \in Live(b)' PROVE i \in Live(b) /\ i \notin D
    BY <1>7, <2>2, <2>4 DEF Live
  <2> QED  BY <2>3, <2>4
<1>10. g \in Bijection(K, D)
  <2>1. ASSUME NEW k \in K, NEW m \in K, job.deps[h][k] = job.deps[h][m] PROVE k = m
    <3> DEFINE i == job.deps[h][k]
    <3>1. i \in Instrs /\ job.dst[i] # None
      BY <1>5, <1>6
    <3>2. k \in DOMAIN job.deps[h] /\ m \in DOMAIN job.deps[h] /\ job.deps[h][m] = i
      BY <2>1
    <3> HIDE DEF i, K
    <3>3. job.deps[h][k] = i
      BY DEF i
    <3> QED  BY <1>1, <3>1, <3>2, <3>3 DEF SingleReader
  <2> QED  BY <2>1 DEF Bijection, Injection, IsInjective, Surjection
<1>11. IsFiniteSet(K)
  <2>1. Len(job.deps[h]) \in Nat /\ DOMAIN job.deps[h] = 1 .. Len(job.deps[h])
    BY <1>4, LenProperties
  <2>2. IsFiniteSet(1 .. Len(job.deps[h]))
    BY <2>1, FS_Interval
  <2> QED  BY <2>1, <2>2, FS_Subset
<1>12. IsFiniteSet(D) /\ Cardinality(D) = Frees(h, b)
  <2>1. ExistsBijection(K, D)
    BY <1>10 DEF ExistsBijection
  <2>2. IsFiniteSet(D) /\ Cardinality(D) = Cardinality(K)
    BY <1>11, <2>1, FS_Bijection
  <2> QED  BY <2>2 DEF Frees
<1>13. IsFiniteSet(Live(b)) /\ Cardinality(Live(b)) \in Nat
  BY <1>1, LiveFinite
<1>14. Live(b) \cap D = D
  BY <1>8
<1>15. Cardinality(Live(b) \ D) = Cardinality(Live(b)) - Cardinality(D)
  BY <1>13, <1>14, FS_Difference
<1>16. Cardinality(D) \in Nat /\ Cardinality(D) <= Cardinality(Live(b))
  BY <1>8, <1>12, <1>13, FS_CardinalityType, FS_Subset
<1> QED  BY <1>9, <1>12, <1>15, <1>16

(* Nothing else moves a result in or out of a buffer. *)
LEMMA LiveUnmoved ==
  ASSUME UNCHANGED <<job, startTime, retireTime, occ>>, SlotsCounted, pc' # "raised" => pc # "raised"
  PROVE  SlotsCounted'
<1>1. /\ SingleReader' <=> SingleReader
      /\ \A b : Live(b)' = Live(b)
  BY DEF SingleReader, Live, Readers, Instrs, DepsOf, Started, Retired
<1> QED  BY <1>1 DEF SlotsCounted

LEMMA SlotsNext ==
  Typed /\ Placed /\ Flowing /\ OutsideIdle /\ SlotsCounted /\ [Next]_vars => SlotsCounted'
<1> SUFFICES ASSUME Typed, Placed, Flowing, OutsideIdle, SlotsCounted, [Next]_vars
             PROVE  SlotsCounted'
  OBVIOUS
<1>f. job' = job /\ TypeOK
  BY JobFixed DEF Typed
<1>1. ASSUME NEW u \in Units, RetireHead(u) PROVE SlotsCounted'
  <2> DEFINE h == Head(inflight[u])
  <2> SUFFICES ASSUME SingleReader, NEW b \in Unit
               PROVE  occ'[b] = Cardinality(Live(b)') /\ (occ'[b] > 0 => occ'[b] <= job.depth[b])
    BY <1>f DEF SlotsCounted, SingleReader, Instrs
  <2>1. h \in Instrs /\ pc # "raised" /\ HasFreeSlot(job.dst[h]) /\ job.dst[h] \in Unit \cup {None}
    BY <1>f, <1>1, HeadOfQueue, JobFacts DEF RetireHead, CanRetire, TypeOK
  <2>2. /\ occ[b] = Cardinality(Live(b)) /\ (occ[b] > 0 => occ[b] <= job.depth[b])
        /\ occ[b] \in Int /\ job.depth[b] \in Nat
    BY <1>f, <2>1, JobFacts DEF SlotsCounted, TypeOK
  <2>3. IsFiniteSet(Live(b)) /\ h \notin Live(b)
        /\ Live(b)' = IF job.dst[h] = b THEN Live(b) \cup {h} ELSE Live(b)
    BY <1>f, <1>1, LiveFinite, RetiredBecomesLive
  <2>4. CASE job.dst[h] = b
    <3>1. occ'[b] = occ[b] + 1
      BY <1>f, <1>1, <2>4, NoneAssumption DEF RetireHead, TypeOK
    <3>2. Cardinality(Live(b)') = Cardinality(Live(b)) + 1
      BY <2>3, <2>4, FS_AddElement
    <3>3. occ[b] < job.depth[b]
      BY <2>1, <2>4, NoneAssumption DEF HasFreeSlot
    <3> QED  BY <2>2, <3>1, <3>2, <3>3
  <2>5. CASE job.dst[h] # b
    <3>1. occ'[b] = occ[b]
      BY <1>f, <1>1, <2>1, <2>5 DEF RetireHead, TypeOK
    <3> QED  BY <2>2, <2>3, <2>5, <3>1
  <2> QED  BY <2>4, <2>5
<1>2. ASSUME NEW u \in Units, StartHead(u) PROVE SlotsCounted'
  <2> DEFINE h == Head(inflight[u])
  <2> SUFFICES ASSUME SingleReader, NEW b \in Unit
               PROVE  occ'[b] = Cardinality(Live(b)') /\ (occ'[b] > 0 => occ'[b] <= job.depth[b])
    BY <1>f DEF SlotsCounted, SingleReader, Instrs
  <2>1. pc # "raised" /\ occ'[b] = occ[b] - Frees(h, b)
    BY <1>2 DEF StartHead
  <2>2. /\ occ[b] = Cardinality(Live(b)) /\ (occ[b] > 0 => occ[b] <= job.depth[b])
        /\ occ[b] \in Int /\ job.depth[b] \in Nat
    BY <1>f, <2>1, JobFacts DEF SlotsCounted, TypeOK
  <2>3. /\ Frees(h, b) \in Nat
        /\ Cardinality(Live(b)') = Cardinality(Live(b)) - Frees(h, b)
    BY <1>2, StartFreesItsInputs
  <2> QED  BY <2>1, <2>2, <2>3
<1>3. ASSUME NEW u \in Units, StartFaults(u) PROVE SlotsCounted'
  BY <1>3 DEF StartFaults, SlotsCounted
<1>4. ASSUME NEW u \in Units, RetireSkips(u) \/ StartSkips(u) PROVE SlotsCounted'
  BY <1>4, LiveUnmoved DEF RetireSkips, StartSkips, times
<1>5. ASSUME NEW c \in Cores, IssueNext(c) \/ DispatcherStops(c) PROVE SlotsCounted'
  BY <1>5, LiveUnmoved DEF IssueNext, DispatcherStops, times
<1>6. CASE AdvanceClock \/ RaiseDeadlock \/ Finished \/ UNCHANGED vars
  BY <1>6, LiveUnmoved DEF AdvanceClock, RaiseDeadlock, Finished, vars, times
<1> QED  BY <1>1, <1>2, <1>3, <1>4, <1>5, <1>6 DEF Next

(* The inductive invariant of this module. *)
Buffered == Typed /\ Placed /\ Flowing /\ OutsideIdle /\ SlotsCounted

LEMMA BufferedInit == Init => Buffered
<1> SUFFICES ASSUME Init PROVE Buffered
  OBVIOUS
<1>1. Typed /\ Placed /\ Flowing
  BY InitBegins, TypedInit, PlacedInit, FlowingInit
<1>2. \A i \in 0 .. job.n : ~Started(i) /\ ~Retired(i)
  BY DEF Init, Called, Started, Retired
<1>3. Instrs \subseteq 0 .. job.n /\ Outside \in 0 .. job.n
  BY <1>1, JobFacts DEF Typed, TypeOK, Outside
<1>4. \A b : Live(b) = {}
  BY <1>2, <1>3 DEF Live
<1>5. \A b \in Unit : occ[b] = 0
  BY DEF Init, Called
<1>6. SlotsCounted
  BY <1>4, <1>5, FS_EmptySet DEF SlotsCounted
<1> QED  BY <1>1, <1>2, <1>3, <1>6 DEF Buffered, OutsideIdle

LEMMA BufferedNext == Buffered /\ [Next]_vars => Buffered'
BY TypedNext, PlacedNext, FlowingNext, OutsideNext, SlotsNext DEF Buffered

(* A buffer never holds more live results than its queue_depth, and the    *)
(* counters that decide it count them, in every program in which no result *)
(* is read twice.                                                          *)
THEOREM BuffersHoldTheirResults == Spec => []BufferWithinCapacity
<1>1. Buffered => BufferWithinCapacity
  BY DEF Buffered, SlotsCounted, BufferWithinCapacity
<1> QED  BY <1>1, BufferedInit, BufferedNext, PTL DEF Spec

-----------------------------------------------------------------------------
(***************************************************************************)
(*                 The machine of module BAS is implemented                *)
(***************************************************************************)

StartedOnes == {i \in Instrs : Started(i)}
RetiredOnes == {i \in Instrs : Retired(i)}

(* Module BAS counts the same live results, of the same program. *)
LEMMA SameProgram ==
  /\ Contract!Instrs = Instrs
  /\ \A i : Contract!DepsOf(i) = DepsOf(i) /\ Contract!Readers(i) = Readers(i)
  /\ Contract!CoreOf = CoreOf
  /\ Contract!Units = Units
BY DEF Contract!Units, Units, Contract!Instrs, Instrs, Contract!DepsOf, DepsOf, Contract!Readers, Readers,
       Contract!CoreOf, CoreOf

LEMMA SameLive ==
  ASSUME TypeOK, NEW b
  PROVE  Contract!Live(b) = Live(b)
<1>1. \A i : Readers(i) \subseteq Instrs
  BY DEF Readers
<1>2. \A i \in Instrs : Readers(i) \subseteq StartedOnes <=> \A r \in Readers(i) : Started(r)
  BY <1>1 DEF StartedOnes
<1> QED  BY <1>2, SameProgram DEF Contract!Live, Live, StartedOnes

LEMMA SameCardinality == \A S : Contract!Cardinality(S) = Cardinality(S)
BY Zenon DEF Contract!Cardinality, Cardinality

(* Steps of the loop that leave the machine as it is. *)
LEMMA MachineUnmoved ==
  ASSUME UNCHANGED <<job, waiting, inflight, startTime, retireTime>>
  PROVE  UNCHANGED Contract!vars
BY DEF Contract!vars, Started, Retired, Instrs

LEMMA RetireImplements ==
  ASSUME Buffered, SingleReader, NEW u \in Units, RetireHead(u)
  PROVE  Contract!Retire(u)
<1> DEFINE h == Head(inflight[u])
<1>1. /\ TypeOK /\ Typed /\ h \in Instrs /\ Instrs \subseteq 0 .. job.n /\ now \in Nat /\ u \in Unit
      /\ inflight[u] # << >> /\ Started(h) /\ pc # "raised"
  BY HeadOfQueue, JobFacts DEF RetireHead, CanRetire, Buffered, Typed, TypeOK
<1>2. /\ job' = job /\ startTime' = startTime /\ waiting' = waiting
      /\ retireTime' = [retireTime EXCEPT ![h] = now]
      /\ inflight' = [inflight EXCEPT ![u] = Tail(@)]
  BY DEF RetireHead
<1>3. /\ Instrs' = Instrs /\ StartedOnes' = StartedOnes
      /\ RetiredOnes' = RetiredOnes \cup {h}
  <2>1. \A i \in Instrs : retireTime'[i] # None <=> Retired(i) \/ i = h
    BY <1>1, <1>2, NoneAssumption DEF Retired, TypeOK
  <2> QED  BY <1>1, <1>2, <2>1 DEF Instrs, StartedOnes, RetiredOnes, Started, Retired
<1>4. job.dst[h] # None => Cardinality(Contract!Live(job.dst[h])) < job.depth[job.dst[h]]
  <2> SUFFICES ASSUME job.dst[h] # None
               PROVE  Cardinality(Contract!Live(job.dst[h])) < job.depth[job.dst[h]]
    OBVIOUS
  <2>1. job.dst[h] \in Unit /\ occ[job.dst[h]] < job.depth[job.dst[h]]
    BY <1>1, JobFacts DEF RetireHead, CanRetire, HasFreeSlot, TypeOK
  <2> QED  BY <1>1, <2>1, SameLive DEF Buffered, SlotsCounted
<1>5. h \in StartedOnes
  BY <1>1 DEF StartedOnes
<1>6. /\ {i \in Instrs : Retired(i)}' = {i \in Instrs : Retired(i)} \cup {h}
      /\ {i \in Instrs : Started(i)}' = {i \in Instrs : Started(i)}
      /\ h \in {i \in Instrs : Started(i)}
  BY <1>3, <1>5 DEF StartedOnes, RetiredOnes
<1>7. inflight[u] # << >>
  BY <1>1
<1> HIDE DEF h
<1>8. h = Head(inflight[u])
  BY DEF h
<1> QED  BY <1>2, <1>4, <1>6, <1>7, <1>8, SameCardinality DEF Contract!Retire

LEMMA StartImplements ==
  ASSUME Buffered, NEW u \in Units, StartHead(u) \/ StartFaults(u)
  PROVE  Contract!Start(u)
<1> DEFINE h == Head(inflight[u])
<1>1. /\ TypeOK /\ h \in Instrs /\ Instrs \subseteq 0 .. job.n /\ now \in Nat
      /\ inflight[u] # << >> /\ ~Started(h)
      /\ \A d \in DepsOf(h) : Retired(d)
      /\ \A s \in job.streams[h] : Started(s)
  BY HeadOfQueue, JobFacts DEF StartHead, StartFaults, CanStart, Buffered, Typed, TypeOK
<1>2. /\ UNCHANGED <<job, retireTime, waiting, inflight>>
      /\ startTime' = [startTime EXCEPT ![h] = now]
  BY DEF StartHead, StartFaults
<1>3. /\ Instrs' = Instrs /\ RetiredOnes' = RetiredOnes
      /\ StartedOnes' = StartedOnes \cup {h}
  <2>1. \A i \in Instrs : startTime'[i] # None <=> Started(i) \/ i = h
    BY <1>1, <1>2, NoneAssumption DEF Started, TypeOK
  <2> QED  BY <1>1, <1>2, <2>1 DEF Instrs, StartedOnes, RetiredOnes, Started, Retired
<1>4. DepsOf(h) \subseteq RetiredOnes /\ job.streams[h] \subseteq StartedOnes /\ h \notin StartedOnes
  <2>1. /\ DepsOf(h) \subseteq 0 .. job.n /\ job.streams[h] \subseteq 0 .. job.n
        /\ job.n \in Nat
    BY <1>1, JobFacts DEF TypeOK
  <2>2. \A d \in 0 .. job.n : Retired(d) \/ Started(d) => d \in Instrs
    BY <2>1 DEF Buffered, OutsideIdle, Instrs, Outside
  <2> QED  BY <1>1, <2>1, <2>2 DEF StartedOnes, RetiredOnes
<1> QED  BY <1>1, <1>2, <1>3, <1>4, SameProgram DEF Contract!Start, StartedOnes, RetiredOnes

LEMMA IssueImplements ==
  ASSUME Buffered, NEW c \in Cores, IssueNext(c)
  PROVE  \E i \in Instrs : Contract!Issue(i)
<1>1. PICK i \in waiting :
        /\ CanIssue(c, i)
        /\ inflight' = [inflight EXCEPT ![job.unit[i]] = Append(@, i)]
        /\ waiting' = waiting \ {i}
  BY DEF IssueNext
<1>2. UNCHANGED <<job, startTime, retireTime>>
  BY DEF IssueNext, times
<1>3. Instrs' = Instrs /\ StartedOnes' = StartedOnes /\ RetiredOnes' = RetiredOnes
  BY <1>2 DEF Instrs, StartedOnes, RetiredOnes, Started, Retired
<1>4. i \in Instrs
  BY <1>1 DEF Buffered, Typed, TypeOK
<1>5. Contract!Issue(i)
  BY <1>1, <1>2, <1>3, SameProgram DEF CanIssue, Contract!Issue, StartedOnes, RetiredOnes
<1> QED  BY <1>4, <1>5

LEMMA StepImplements ==
  Buffered /\ [Next]_vars => [SingleReader => Contract!Next]_(Contract!vars)
<1> SUFFICES ASSUME Buffered, [Next]_vars, SingleReader
             PROVE  Contract!Next \/ UNCHANGED Contract!vars
  OBVIOUS
<1>1. ASSUME NEW u \in Units, RetireHead(u) PROVE Contract!Next
  <2>1. Contract!Retire(u)
    BY <1>1, RetireImplements
  <2> QED  BY <2>1, SameProgram DEF Contract!Next
<1>2. ASSUME NEW u \in Units, StartHead(u) \/ StartFaults(u) PROVE Contract!Next
  <2>1. Contract!Start(u)
    BY <1>2, StartImplements
  <2> QED  BY <2>1, SameProgram DEF Contract!Next
<1>3. ASSUME NEW c \in Cores, IssueNext(c) PROVE Contract!Next
  BY <1>3, IssueImplements, SameProgram DEF Contract!Next
<1>4. ASSUME NEW u \in Units, RetireSkips(u) \/ StartSkips(u) PROVE UNCHANGED Contract!vars
  BY <1>4, MachineUnmoved DEF RetireSkips, StartSkips, times
<1>5. ASSUME NEW c \in Cores, DispatcherStops(c) PROVE UNCHANGED Contract!vars
  BY <1>5, MachineUnmoved DEF DispatcherStops, times
<1>6. CASE AdvanceClock \/ RaiseDeadlock \/ Finished \/ UNCHANGED vars
  BY <1>6, MachineUnmoved DEF AdvanceClock, RaiseDeadlock, Finished, vars, times
<1> QED  BY <1>1, <1>2, <1>3, <1>4, <1>5, <1>6 DEF Next

LEMMA InitImplements == Init => Contract!Init
<1> SUFFICES ASSUME Init PROVE Contract!Init
  OBVIOUS
<1>1. IsJob(job) /\ Typed
  BY JobsAssumption, InitBegins, TypedInit DEF Init, Called
<1>2. Instrs \subseteq 0 .. job.n
  BY <1>1, JobFacts
<1>3. \A i \in Instrs : ~Started(i) /\ ~Retired(i)
  BY <1>2 DEF Init, Called, Started, Retired
<1>4. waiting = Instrs /\ inflight = [u \in Unit |-> << >>]
  BY DEF Init, Called
<1>5. Contract!IsJob(job)
  BY <1>1 DEF Contract!IsJob, IsJob
<1> QED  BY <1>3, <1>4, <1>5, SameProgram DEF Contract!Init

(* engine.py's simulator implements the machine its header describes (in-  *)
(* order issue, one instruction at a time per unit, blocking after service)*)
(* on every program in which no result is read twice.                      *)
THEOREM SimulatorImplementsBAS == Spec => ImplementsBAS
<1>1. Spec => [][SingleReader => Contract!Next]_(Contract!vars)
  <2>1. Spec => []Buffered
    BY BufferedInit, BufferedNext, PTL DEF Spec
  <2> QED  BY <2>1, StepImplements, PTL DEF Spec
<1>2. Spec => (SingleReader => Contract!Init)
  BY InitImplements DEF Spec
<1> QED  BY <1>1, <1>2 DEF ImplementsBAS
-----------------------------------------------------------------------------
(***************************************************************************)
(*                              Run once more                              *)
(*                                                                         *)
(* What the times of one call say about another one: they can be replayed, *)
(* start by start and retirement by retirement, on queues and buffers that *)
(* are no smaller and with producers that are no later.                    *)
(***************************************************************************)

(* How the instructions of S read buffer b: one element for each slot that *)
(* their starts give back.                                                 *)
Reads(b, S) ==
  {p \in S \X Nat : /\ p[2] \in DOMAIN job.deps[p[1]]
                    /\ job.deps[p[1]][p[2]] # Outside
                    /\ job.dst[job.deps[p[1]][p[2]]] = b}

SlotsExact ==
  pc # "raised" =>
    \A b \in Unit : occ[b] = Cardinality(Landed(b)) - Cardinality(Reads(b, StartedOnes))

(* The dispatcher lets an instruction into its queue only when fewer than  *)
(* queue_depth of its unit's earlier ones are unretired.                   *)
Admitted ==
  \A j \in Instrs \ waiting : Cardinality(Before(j) \ RetiredOnes) < job.depth[job.unit[j]]

(* An end is set at the start, at least cost() after it.                   *)
Paid ==
  \A i \in Instrs : endTime[i] # None =>
    Started(i) /\ job.cost[i] # None /\ startTime[i] + job.cost[i] <= endTime[i]

(* What a call needs to start i, and to retire it, once the instructions in*)
(* A have started and those in B have retired, on queues of depth D.  Both *)
(* only become easier as A, B and D grow.                                  *)
MayStart(i, A, B, D) ==
  /\ Before(i) \cup DepsOf(i) \subseteq B
  /\ job.streams[i] \subseteq A
  /\ \A j \in 1 .. i : CoreOf[j] = CoreOf[i] => Cardinality(Before(j) \ B) < D[job.unit[j]]

SentBefore(i) == {k \in Before(i) : job.dst[k] = job.dst[i]}

MayRetire(i, A, D) ==
  /\ i \in A
  /\ job.dst[i] # None /\ OneWriter(job.dst[i]) =>
       Cardinality(SentBefore(i)) - Cardinality(Reads(job.dst[i], A)) < D[job.dst[i]]

(* Of the starts S and retirements R, those outside A and B are not before *)
(* t.                                                                      *)
NoneBefore(t, S, R, A, B) ==
  \A k \in Instrs : /\ S[k] # None /\ k \notin A => t <= S[k]
                    /\ R[k] # None /\ k \notin B => t <= R[k]

(* A call with the starts S and the retirements R can be replayed from any *)
(* part of it, starts A and retirements B of these: of what is missing, an *)
(* event that is among the earliest is possible.  (So no order of the      *)
(* events that share a cycle has to be remembered.)                        *)
Replayable(S, R, D) ==
  \A A \in SUBSET Instrs : \A B \in SUBSET A :
    \/ \A k \in Instrs : (S[k] # None => k \in A) /\ (R[k] # None => k \in B)
    \/ \E i \in Instrs \ A : S[i] # None /\ MayStart(i, A, B, D) /\ NoneBefore(S[i], S, R, A, B)
    \/ \E i \in Instrs \ B : R[i] # None /\ MayRetire(i, A, D) /\ NoneBefore(R[i], S, R, A, B)

Recorded ==
  /\ Flowing /\ ProgramOrder /\ OutsideIdle
  /\ SlotsExact /\ Admitted /\ Paid
  /\ Replayable(startTime, retireTime, job.depth)

(* The times f are good for a call of this program that is made with its   *)
(* instructions fresh: they keep its order and can be replayed on queues   *)
(* and buffers that are no deeper.                                         *)
Compared(f) ==
  /\ \A i \in Instrs :
       /\ f.start[i] \in Nat /\ f.end[i] \in Nat /\ f.retire[i] \in Nat
       /\ job.cost[i] # None /\ f.start[i] + job.cost[i] <= f.end[i]
       /\ f.end[i] <= f.retire[i]
       /\ \A s \in job.streams[i] : /\ s \in Instrs
                                    /\ f.end[s] + job.latency[i] <= f.end[i]
                                    /\ f.start[s] + job.latency[i] <= f.start[i]
  /\ \A u \in Unit : f.depth[u] \in Nat /\ f.depth[u] <= job.depth[u]
  /\ Replayable(f.start, f.retire, f.depth)

(* Nothing happens later than at the times f, and what has not happened    *)
(* yet is not late yet.                                                    *)
InTime(f) ==
  \A i \in Instrs :
    /\ IF Started(i) THEN startTime[i] <= f.start[i] /\ endTime[i] <= f.end[i]
       ELSE now <= f.start[i]
    /\ IF Retired(i) THEN retireTime[i] <= f.retire[i] ELSE now <= f.retire[i]

(* What the dispatchers have issued to a unit and has not retired is what  *)
(* its queue holds.                                                        *)
LEMMA QueueCount ==
  ASSUME Typed, Placed, NEW u \in Units, NEW S,
         S = {k \in Instrs : job.unit[k] = u /\ k \notin waiting /\ ~Retired(k)}
  PROVE  IsFiniteSet(S) /\ Cardinality(S) = Len(inflight[u])
<1> DEFINE q == inflight[u]
           f == [m \in 1 .. Len(q) |-> q[m]]
<1>1. /\ TypeOK /\ u \in Unit /\ Instrs \subseteq Nat
      /\ Len(q) \in Nat /\ \A m \in 1 .. Len(q) : q[m] \in Instrs
  BY JobFacts, QueueFacts DEF Typed, TypeOK, Instrs
<1>2. \A m \in 1 .. Len(q) : q[m] \in S
  BY <1>1 DEF Placed, QueuesInOrder
<1>3. ASSUME NEW m \in 1 .. Len(q), NEW k \in 1 .. Len(q), q[m] = q[k] PROVE m = k
  <2>1. ASSUME NEW x \in 1 .. Len(q), NEW y \in 1 .. x - 1 PROVE q[y] # q[x]
    <3>1. q[y] < q[x]
      BY <1>1, <2>1 DEF Placed, QueuesInOrder
    <3>2. y \in 1 .. Len(q)
      BY <1>1, <2>1
    <3>3. q[y] \in Nat
      BY <1>1, <3>2
    <3> QED  BY <3>1, <3>3
  <2> QED  BY <1>1, <1>3, <2>1
<1>4. ASSUME NEW k \in S PROVE \E m \in 1 .. Len(q) : q[m] = k
  BY <1>4 DEF Placed, SomewhereOnce
<1>5. f \in Bijection(1 .. Len(q), S)
  BY <1>2, <1>3, <1>4 DEF Bijection, Injection, Surjection, IsInjective
<1>6. IsFiniteSet(1 .. Len(q)) /\ Cardinality(1 .. Len(q)) = Len(q)
  BY <1>1, FS_Interval
<1> QED  BY <1>5, <1>6, FS_Bijection DEF ExistsBijection

LEMMA BeforeFinite ==
  ASSUME NEW i \in Instrs, NEW B
  PROVE  IsFiniteSet(Before(i) \ B) /\ Cardinality(Before(i) \ B) \in Nat
<1>1. IsFiniteSet(1 .. i - 1)
  BY FS_Interval DEF Instrs
<1>2. Before(i) \ B \in SUBSET (1 .. i - 1)
  BY DEF Before
<1> QED  BY <1>1, <1>2, FS_Subset, FS_CardinalityType

LEMMA FewerLeft ==
  ASSUME NEW i \in Instrs, NEW A, NEW B, A \subseteq B
  PROVE  Cardinality(Before(i) \ B) <= Cardinality(Before(i) \ A)
<1>1. IsFiniteSet(Before(i) \ A)
  BY BeforeFinite
<1>2. Before(i) \ B \in SUBSET (Before(i) \ A)
  OBVIOUS
<1> QED  BY <1>1, <1>2, FS_Subset

(* The next instruction of a core: those before it on its unit are all     *)
(* issued, so what the queue holds are those of them that have not retired.*)
LEMMA QueueBeforeNext ==
  ASSUME Typed, Placed, NEW i \in waiting,
         \A j \in waiting : CoreOf[j] = CoreOf[i] => i <= j
  PROVE  Cardinality(Before(i) \ RetiredOnes) = Len(inflight[job.unit[i]])
<1> DEFINE u == job.unit[i]
           Q == {k \in Instrs : job.unit[k] = u /\ k \notin waiting /\ ~Retired(k)}
<1>1. /\ TypeOK /\ i \in Instrs /\ u \in Units /\ waiting \subseteq Instrs
      /\ Instrs \subseteq Nat /\ job.n \in Nat
  BY JobFacts DEF Typed, TypeOK, Instrs
<1>2. ASSUME NEW k \in Q PROVE k \in Before(i) \ RetiredOnes
  <2>1. CoreOf[k] = CoreOf[i]
    BY <1>1 DEF CoreOf
  <2>2. k < i
    BY <1>1, <2>1 DEF Placed, IssuedInOrder
  <2> QED  BY <1>1, <2>2 DEF Before, RetiredOnes, Instrs
<1>3. ASSUME NEW k \in Before(i) \ RetiredOnes PROVE k \in Q
  <2>1. k \in Instrs /\ k < i /\ job.unit[k] = u
    BY <1>1 DEF Before, Instrs
  <2>2. CoreOf[k] = CoreOf[i]
    BY <1>1, <2>1 DEF CoreOf
  <2>3. k \notin waiting
    BY <1>1, <2>1, <2>2
  <2> QED  BY <2>1, <2>3 DEF RetiredOnes
<1>4. Before(i) \ RetiredOnes = Q
  BY <1>2, <1>3
<1>5. Cardinality(Q) = Len(inflight[u])
  BY <1>1, QueueCount
<1> QED  BY <1>4, <1>5

LEMMA AdmittedNext == Typed /\ Placed /\ Admitted /\ [Next]_vars => Admitted'
<1> SUFFICES ASSUME Typed, Placed, Admitted, [Next]_vars PROVE Admitted'
  OBVIOUS
<1>1. job' = job /\ Instrs' = Instrs /\ \A j : Before(j)' = Before(j)
  BY JobFixed, SameQuestions
<1>2. RetiredOnes \subseteq RetiredOnes'
  <2>1. \A i \in Instrs : i \in 0 .. job.n
    BY JobFacts DEF Typed, TypeOK
  <2>2. \A i \in Instrs : Retired(i) => retireTime'[i] # None
    BY <2>1, TimesStay DEF Retired
  <2> QED  BY <1>1, <2>2 DEF RetiredOnes, Retired
<1>3. ASSUME NEW j \in Instrs, j \notin waiting
      PROVE  Cardinality(Before(j) \ RetiredOnes') < job.depth[job.unit[j]]
  <2>1. Cardinality(Before(j) \ RetiredOnes) < job.depth[job.unit[j]]
    BY <1>3 DEF Admitted
  <2>2. Cardinality(Before(j) \ RetiredOnes') <= Cardinality(Before(j) \ RetiredOnes)
    BY <1>2, <1>3, FewerLeft
  <2>3. Cardinality(Before(j) \ RetiredOnes) \in Nat /\ Cardinality(Before(j) \ RetiredOnes') \in Nat
    BY <1>3, BeforeFinite
  <2>4. job.depth[job.unit[j]] \in Nat
    BY <1>3, JobFacts DEF Typed, TypeOK
  <2> QED  BY <2>1, <2>2, <2>3, <2>4
<1>4. CASE waiting' = waiting
  BY <1>1, <1>3, <1>4 DEF Admitted
<1>5. ASSUME NEW c \in Cores, IssueNext(c) PROVE Admitted'
  <2>1. PICK i \in waiting : CanIssue(c, i) /\ waiting' = waiting \ {i}
    BY <1>5 DEF IssueNext
  <2>2. RetiredOnes' = RetiredOnes
    BY <1>1, <1>5 DEF IssueNext, times, RetiredOnes, Retired
  <2>3. Cardinality(Before(i) \ RetiredOnes) < job.depth[job.unit[i]]
    BY <2>1, QueueBeforeNext DEF CanIssue
  <2> QED  BY <1>1, <1>3, <2>1, <2>2, <2>3 DEF Admitted
<1> QED
  BY <1>4, <1>5 DEF Next, RetireHead, RetireSkips, StartHead, StartFaults, StartSkips,
     DispatcherStops, AdvanceClock, RaiseDeadlock, Finished, vars

LEMMA InputsFinite ==
  ASSUME IsJob(job), NEW i \in Instrs
  PROVE  DOMAIN job.deps[i] \subseteq Nat /\ IsFiniteSet(DOMAIN job.deps[i])
<1>1. job.deps[i] \in Seq(0 .. job.n)
  BY DEF IsJob, Instrs
<1>2. DOMAIN job.deps[i] = 1 .. Len(job.deps[i]) /\ Len(job.deps[i]) \in Nat
  BY <1>1, LenProperties
<1>3. IsFiniteSet(1 .. Len(job.deps[i]))
  BY <1>2, FS_Interval
<1> QED  BY <1>2, <1>3

LEMMA ReadsFinite ==
  ASSUME IsJob(job), NEW b, NEW S, S \subseteq Instrs
  PROVE  IsFiniteSet(Reads(b, S)) /\ Cardinality(Reads(b, S)) \in Nat
<1> DEFINE Slots(i) == {i} \X DOMAIN job.deps[i]
           f == [i \in S |-> Slots(i)]
           Rows == {Slots(i) : i \in S}
<1>1. IsFiniteSet(S)
  BY JobFacts, FS_Subset
<1>2. f \in Surjection(S, Rows)
  BY DEF Surjection
<1>3. IsFiniteSet(Rows)
  BY <1>1, <1>2, FS_Surjection
<1>4. ASSUME NEW T \in Rows PROVE IsFiniteSet(T)
  <2>1. PICK i \in S : T = Slots(i)
    OBVIOUS
  <2>2. IsFiniteSet({i})
    BY FS_Singleton
  <2> QED  BY <2>1, <2>2, InputsFinite, FS_Product
<1>5. IsFiniteSet(UNION Rows)
  BY <1>3, <1>4, FS_UNION
<1>6. Reads(b, S) \in SUBSET (UNION Rows)
  <2> SUFFICES ASSUME NEW p \in Reads(b, S) PROVE p \in UNION Rows
    OBVIOUS
  <2>1. p \in S \X Nat /\ p[2] \in DOMAIN job.deps[p[1]]
    BY DEF Reads
  <2>2. p[1] \in S /\ p \in Slots(p[1])
    BY <2>1
  <2> QED  BY <2>2
<1> QED  BY <1>5, <1>6, FS_Subset, FS_CardinalityType

(* A start gives back as many slots of b as it reads results from b. *)
LEMMA ReadsGrow ==
  ASSUME IsJob(job), NEW b, NEW S, S \subseteq Instrs, NEW h \in Instrs, h \notin S
  PROVE  Cardinality(Reads(b, S \cup {h})) = Cardinality(Reads(b, S)) + Frees(h, b)
<1> DEFINE K == {k \in DOMAIN job.deps[h] :
                   job.deps[h][k] # Outside /\ job.dst[job.deps[h][k]] = b}
           f == [k \in K |-> <<h, k>>]
<1>1. IsFiniteSet(K) /\ K \subseteq Nat
  BY InputsFinite, FS_Subset
<1>2. f \in Bijection(K, Reads(b, {h}))
  <2>1. \A k \in K : <<h, k>> \in Reads(b, {h})
    BY <1>1 DEF Reads
  <2>2. ASSUME NEW p \in Reads(b, {h}) PROVE \E k \in K : p = <<h, k>>
    <3>1. p \in {h} \X Nat /\ p[2] \in DOMAIN job.deps[p[1]] /\ job.deps[p[1]][p[2]] # Outside
          /\ job.dst[job.deps[p[1]][p[2]]] = b
      BY DEF Reads
    <3>2. p[1] = h /\ p = <<h, p[2]>>
      BY <3>1
    <3> QED  BY <3>1, <3>2
  <2> QED  BY <2>1, <2>2 DEF Bijection, Injection, Surjection, IsInjective
<1>3. Cardinality(Reads(b, {h})) = Frees(h, b)
  BY <1>1, <1>2, FS_Bijection DEF ExistsBijection, Frees
<1>4. /\ IsFiniteSet(Reads(b, S)) /\ IsFiniteSet(Reads(b, {h}))
      /\ Cardinality(Reads(b, S)) \in Nat /\ Cardinality(Reads(b, {h})) \in Nat
  BY ReadsFinite
<1>5. Reads(b, S \cup {h}) = Reads(b, S) \cup Reads(b, {h})
  BY DEF Reads
<1>6. Reads(b, S) \cap Reads(b, {h}) = {}
  BY DEF Reads
<1>7. Cardinality(Reads(b, S) \cup Reads(b, {h}))
      = Cardinality(Reads(b, S)) + Cardinality(Reads(b, {h})) - Cardinality(Reads(b, S) \cap Reads(b, {h}))
  BY <1>4, FS_Union
<1>8. Cardinality(Reads(b, S) \cap Reads(b, {h})) = 0
  BY <1>6, FS_EmptySet
<1>9. Cardinality(Reads(b, S) \cup Reads(b, {h})) = Cardinality(Reads(b, S)) + Cardinality(Reads(b, {h}))
  BY <1>4, <1>7, <1>8
<1> QED  BY <1>3, <1>5, <1>9

LEMMA SlotsExactInit == Begun => SlotsExact
<1> SUFFICES ASSUME Begun, NEW b \in Unit
             PROVE  occ[b] = Cardinality(Landed(b)) - Cardinality(Reads(b, StartedOnes))
  BY DEF SlotsExact
<1>1. Instrs \subseteq 0 .. job.n /\ occ[b] = 0
  BY JobFacts DEF Begun, Called
<1>2. Landed(b) = {} /\ StartedOnes = {}
  BY <1>1 DEF Begun, Called, Landed, StartedOnes, Retired, Started
<1>3. Reads(b, StartedOnes) = {}
  BY <1>2 DEF Reads
<1> QED  BY <1>1, <1>2, <1>3, FS_EmptySet

LEMMA SlotsExactNext == Typed /\ Placed /\ SlotsExact /\ [Next]_vars => SlotsExact'
<1> SUFFICES ASSUME Typed, Placed, SlotsExact, [Next]_vars PROVE SlotsExact'
  OBVIOUS
<1>0. job' = job /\ Instrs' = Instrs /\ IsJob(job) /\ Instrs \subseteq 0 .. job.n /\ TypeOK
  BY JobFixed, JobFacts DEF Typed, TypeOK
<1>1. ASSUME NEW u \in Units, RetireHead(u) PROVE SlotsExact'
  <2> DEFINE h == Head(inflight[u])
  <2>1. h \in Instrs /\ h \in 0 .. job.n /\ ~Retired(h) /\ pc # "raised"
    BY <1>0, <1>1, HeadOfQueue DEF RetireHead, CanRetire
  <2>2. /\ retireTime' = [retireTime EXCEPT ![h] = now]
        /\ occ' = IF job.dst[h] = None THEN occ ELSE [occ EXCEPT ![job.dst[h]] = @ + 1]
        /\ startTime' = startTime
    BY <1>1 DEF RetireHead
  <2>3. \A i \in Instrs : retireTime'[i] # None <=> Retired(i) \/ i = h
    BY <1>0, <2>1, <2>2, NoneAssumption DEF Retired, TypeOK
  <2>4. \A b : Reads(b, StartedOnes)' = Reads(b, StartedOnes)
    BY <1>0, <2>2 DEF Reads, StartedOnes, Started
  <2>5. ASSUME NEW b \in Unit
        PROVE  occ'[b] = Cardinality(Landed(b)') - Cardinality(Reads(b, StartedOnes))
    <3>1. /\ occ[b] \in Int /\ occ[b] = Cardinality(Landed(b)) - Cardinality(Reads(b, StartedOnes))
          /\ IsFiniteSet(Landed(b)) /\ Cardinality(Landed(b)) \in Nat
      BY <1>0, <2>1, LandedFinite DEF SlotsExact, TypeOK
    <3>2. Cardinality(Reads(b, StartedOnes)) \in Nat
      BY <1>0, ReadsFinite DEF StartedOnes
    <3>3. CASE job.dst[h] = b
      <4>1. Landed(b)' = Landed(b) \cup {h} /\ h \notin Landed(b)
        BY <1>0, <2>1, <2>3, <3>3 DEF Landed, Retired
      <4>2. Cardinality(Landed(b) \cup {h}) = Cardinality(Landed(b)) + 1
        BY <3>1, <4>1, FS_AddElement
      <4>3. occ'[b] = occ[b] + 1
        BY <1>0, <2>2, <3>3, NoneAssumption DEF TypeOK
      <4> QED  BY <3>1, <3>2, <4>1, <4>2, <4>3
    <3>4. CASE job.dst[h] # b
      <4>1. Landed(b)' = Landed(b)
        BY <1>0, <2>1, <2>3, <3>4 DEF Landed, Retired
      <4>2. occ'[b] = occ[b]
        BY <1>0, <2>2, <3>4 DEF TypeOK
      <4> QED  BY <3>1, <4>1, <4>2
    <3> QED  BY <3>3, <3>4
  <2> QED  BY <2>4, <2>5 DEF SlotsExact
<1>2. ASSUME NEW u \in Units, StartHead(u) PROVE SlotsExact'
  <2> DEFINE h == Head(inflight[u])
  <2>1. h \in Instrs /\ h \in 0 .. job.n /\ ~Started(h) /\ pc # "raised" /\ now \in Nat
    BY <1>0, <1>2, HeadOfQueue DEF StartHead, CanStart, TypeOK
  <2>2. /\ startTime' = [startTime EXCEPT ![h] = now]
        /\ occ' = [b \in Unit |-> occ[b] - Frees(h, b)]
        /\ retireTime' = retireTime
    BY <1>2 DEF StartHead
  <2>3. StartedOnes' = StartedOnes \cup {h} /\ h \notin StartedOnes /\ StartedOnes \subseteq Instrs
    BY <1>0, <2>1, <2>2, NoneAssumption DEF StartedOnes, Started, TypeOK
  <2>4. ASSUME NEW b \in Unit
        PROVE  occ'[b] = Cardinality(Landed(b)') - Cardinality(Reads(b, StartedOnes)')
    <3>1. Landed(b)' = Landed(b)
      BY <1>0, <2>2 DEF Landed, Retired
    <3>2. Reads(b, StartedOnes)' = Reads(b, StartedOnes \cup {h})
      BY <1>0, <2>3 DEF Reads
    <3>3. Cardinality(Reads(b, StartedOnes \cup {h})) = Cardinality(Reads(b, StartedOnes)) + Frees(h, b)
      BY <1>0, <2>1, <2>3, ReadsGrow
    <3>4. occ[b] = Cardinality(Landed(b)) - Cardinality(Reads(b, StartedOnes)) /\ occ'[b] = occ[b] - Frees(h, b)
      BY <2>1, <2>2 DEF SlotsExact
    <3>5. Cardinality(Landed(b)) \in Nat /\ Cardinality(Reads(b, StartedOnes)) \in Nat /\ Frees(h, b) \in Nat
      BY <1>0, <2>1, <2>3, LandedFinite, ReadsFinite, FreesNat
    <3> QED  BY <3>1, <3>2, <3>3, <3>4, <3>5
  <2> QED  BY <2>4 DEF SlotsExact
<1>3. CASE UNCHANGED <<job, startTime, retireTime, occ>> /\ (pc' # "raised" => pc # "raised")
  <2>1. \A b : Landed(b)' = Landed(b) /\ Reads(b, StartedOnes)' = Reads(b, StartedOnes)
    BY <1>0, <1>3 DEF Landed, Retired, Reads, StartedOnes, Started
  <2> QED  BY <1>3, <2>1 DEF SlotsExact
<1>4. ASSUME NEW u \in Units, StartFaults(u) PROVE SlotsExact'
  BY <1>4 DEF StartFaults, SlotsExact
<1>5. ASSUME NEW u \in Units, RetireSkips(u) \/ StartSkips(u) PROVE SlotsExact'
  BY <1>3, <1>5 DEF RetireSkips, StartSkips, times
<1>6. ASSUME NEW c \in Cores, IssueNext(c) \/ DispatcherStops(c) PROVE SlotsExact'
  BY <1>3, <1>6 DEF IssueNext, DispatcherStops, times
<1>7. CASE AdvanceClock \/ RaiseDeadlock \/ Finished \/ UNCHANGED vars
  BY <1>3, <1>7 DEF AdvanceClock, RaiseDeadlock, Finished, vars, times
<1> QED  BY <1>1, <1>2, <1>4, <1>5, <1>6, <1>7 DEF Next

(* What has been sent to the buffer of a head before it, has landed; and   *)
(* from one writer nothing else has.                                       *)
LEMMA SentHaveLanded ==
  ASSUME Typed, Placed, NEW u \in Units, inflight[u] # << >>
  PROVE  LET h == Head(inflight[u])
         IN  Before(h) \subseteq RetiredOnes /\ SentBefore(h) \subseteq Landed(job.dst[h])
<1> DEFINE h == Head(inflight[u])
<1>1. h \in Instrs /\ job.n \in Nat /\ u \in Unit
  BY HeadOfQueue, JobFacts DEF Typed, TypeOK
<1>2. job.unit[h] = u
  <2>1. h = inflight[u][1] /\ 1 \in 1 .. Len(inflight[u])
    BY <1>1, QueueFacts DEF Typed
  <2> QED  BY <1>1, <2>1 DEF Placed, QueuesInOrder
<1>3. ASSUME NEW k \in Before(h) PROVE k \in Instrs /\ Retired(k)
  <2>1. k \in Instrs /\ k < h /\ job.unit[k] = u
    BY <1>1, <1>2 DEF Before, Instrs
  <2> QED  BY <2>1, HeadIsNext
<1> QED  BY <1>3 DEF RetiredOnes, SentBefore, Landed

LEMMA LandedWereSent ==
  ASSUME Typed, Placed, ProgramOrder, NEW i \in Instrs, ~Retired(i), OneWriter(job.dst[i])
  PROVE  Landed(job.dst[i]) \subseteq SentBefore(i)
<1> SUFFICES ASSUME NEW k \in Instrs, Retired(k), job.dst[k] = job.dst[i]
             PROVE  k \in SentBefore(i)
  BY DEF Landed
<1>1. job.unit[k] = job.unit[i]
  BY DEF OneWriter, Results
<1>2. Started(k)
  BY DEF Placed, SomewhereOnce
<1>3. ~(i < k) /\ k # i
  BY <1>1, <1>2 DEF ProgramOrder
<1>4. job.n \in Nat
  BY JobFacts DEF Typed, TypeOK
<1> QED  BY <1>1, <1>3, <1>4 DEF SentBefore, Before, Instrs


LEMMA PaidNext == Typed /\ Placed /\ Paid /\ [Next]_vars => Paid'
<1> SUFFICES ASSUME Typed, Placed, Paid, [Next]_vars PROVE Paid'
  OBVIOUS
<1>0. job' = job /\ Instrs' = Instrs /\ Instrs \subseteq 0 .. job.n /\ TypeOK /\ now \in Nat
  BY JobFixed, JobFacts DEF Typed, TypeOK
<1>1. CASE UNCHANGED <<startTime, endTime>>
  BY <1>0, <1>1 DEF Paid, Started
<1>2. ASSUME NEW u \in Units, StartHead(u) PROVE Paid'
  <2> DEFINE h == Head(inflight[u])
  <2>1. /\ h \in Instrs /\ h \in 0 .. job.n /\ pc # "raised" /\ job.cost[h] # None
        /\ \A s \in job.streams[h] : Started(s)
    BY <1>0, <1>2, HeadOfQueue DEF StartHead, CanStart
  <2>2. now + job.cost[h] <= EndOf(h)
    BY <2>1, EndOfFacts
  <2>3. /\ startTime' = [startTime EXCEPT ![h] = now]
        /\ endTime' = [endTime EXCEPT ![h] = EndOf(h)]
    BY <1>2 DEF StartHead
  <2>4. now # None
    BY <1>0, NoneAssumption
  <2> SUFFICES ASSUME NEW i \in Instrs, endTime'[i] # None
               PROVE  startTime'[i] # None /\ job.cost[i] # None /\ startTime'[i] + job.cost[i] <= endTime'[i]
    BY <1>0 DEF Paid, Started
  <2>5. CASE i = h
    BY <1>0, <2>1, <2>2, <2>3, <2>4, <2>5 DEF TypeOK
  <2>6. CASE i # h
    <3>1. startTime'[i] = startTime[i] /\ endTime'[i] = endTime[i]
      BY <1>0, <2>3, <2>6 DEF TypeOK
    <3> QED  BY <3>1 DEF Paid, Started
  <2> QED  BY <2>5, <2>6
<1>3. ASSUME NEW u \in Units, StartFaults(u) PROVE Paid'
  <2> DEFINE h == Head(inflight[u])
  <2>1. h \in 0 .. job.n /\ startTime' = [startTime EXCEPT ![h] = now] /\ endTime' = endTime /\ ~Started(h)
    BY <1>0, <1>3, HeadOfQueue DEF StartFaults, CanStart
  <2> SUFFICES ASSUME NEW i \in Instrs, endTime[i] # None
               PROVE  startTime'[i] # None /\ job.cost[i] # None /\ startTime'[i] + job.cost[i] <= endTime[i]
    BY <1>0, <2>1 DEF Paid, Started
  <2>2. Started(i) /\ i # h
    BY <2>1 DEF Paid
  <2>3. startTime'[i] = startTime[i]
    BY <1>0, <2>1, <2>2 DEF TypeOK
  <2> QED  BY <2>3 DEF Paid, Started
<1> QED
  BY <1>1, <1>2, <1>3 DEF Next, RetireHead, RetireSkips, StartSkips, IssueNext,
     DispatcherStops, AdvanceClock, RaiseDeadlock, Finished, vars, times

(* What a start asks of the state it asks of every part of the call that   *)
(* includes it.                                                            *)
LEMMA StartIsPossible ==
  ASSUME Typed, Placed, Admitted, OutsideIdle, NEW u \in Units, CanStart(u, now),
         NEW A \in SUBSET Instrs, NEW B \in SUBSET Instrs,
         StartedOnes \subseteq A, RetiredOnes \subseteq B
  PROVE  MayStart(Head(inflight[u]), A, B, job.depth)
<1> DEFINE h == Head(inflight[u])
<1>1. /\ TypeOK /\ h \in Instrs /\ inflight[u] # << >> /\ job.n \in Nat /\ IsJob(job) /\ u \in Unit
      /\ \A d \in DepsOf(h) : Retired(d) /\ d \in 0 .. job.n
      /\ \A s \in job.streams[h] : Started(s) /\ s \in 0 .. job.n
  BY HeadOfQueue, JobFacts DEF CanStart, Typed, TypeOK
<1>2. Before(h) \subseteq B
  BY <1>1, SentHaveLanded
<1>3. DepsOf(h) \subseteq B /\ job.streams[h] \subseteq A
  BY <1>1 DEF OutsideIdle, Outside, RetiredOnes, StartedOnes, Instrs
<1>4. ASSUME NEW j \in 1 .. h, CoreOf[j] = CoreOf[h]
      PROVE  Cardinality(Before(j) \ B) < job.depth[job.unit[j]]
  <2>1. j \in Instrs /\ j <= h /\ h \in Nat
    BY <1>1 DEF Instrs
  <2>2. h \notin waiting
    <3>1. h = inflight[u][1] /\ 1 \in 1 .. Len(inflight[u])
      BY <1>1, QueueFacts
    <3> QED  BY <1>1, <3>1 DEF Placed, QueuesInOrder
  <2>3. j \notin waiting
    <3> SUFFICES ASSUME j \in waiting PROVE FALSE
      OBVIOUS
    <3>1. h < j
      BY <1>1, <1>4, <2>2 DEF Placed, IssuedInOrder
    <3> QED  BY <2>1, <3>1
  <2>4. Cardinality(Before(j) \ RetiredOnes) < job.depth[job.unit[j]]
    BY <2>1, <2>3 DEF Admitted
  <2>5. Cardinality(Before(j) \ B) <= Cardinality(Before(j) \ RetiredOnes)
    BY <2>1, FewerLeft
  <2>6. /\ Cardinality(Before(j) \ B) \in Nat /\ Cardinality(Before(j) \ RetiredOnes) \in Nat
        /\ job.depth[job.unit[j]] \in Nat
    BY <1>1, <2>1, BeforeFinite, JobFacts
  <2> QED  BY <2>4, <2>5, <2>6
<1> QED  BY <1>2, <1>3, <1>4 DEF MayStart

LEMMA RetireIsPossible ==
  ASSUME Typed, Placed, SlotsExact, ProgramOrder, pc # "raised", NEW u \in Units, CanRetire(u, now),
         NEW A \in SUBSET Instrs, StartedOnes \subseteq A
  PROVE  MayRetire(Head(inflight[u]), A, job.depth)
<1> DEFINE h == Head(inflight[u])
           b == job.dst[h]
<1>1. /\ TypeOK /\ h \in Instrs /\ inflight[u] # << >> /\ IsJob(job)
      /\ Started(h) /\ ~Retired(h) /\ HasFreeSlot(b)
  BY HeadOfQueue DEF CanRetire, Typed, TypeOK
<1>2. h \in A
  BY <1>1 DEF StartedOnes
<1>3. ASSUME b # None, OneWriter(b)
      PROVE  Cardinality(SentBefore(h)) - Cardinality(Reads(b, A)) < job.depth[b]
  <2>1. b \in Unit /\ job.depth[b] \in Nat
    BY <1>1, <1>3, JobFacts
  <2>2. occ[b] < job.depth[b] /\ occ[b] = Cardinality(Landed(b)) - Cardinality(Reads(b, StartedOnes))
    BY <1>1, <1>3, <2>1 DEF HasFreeSlot, SlotsExact
  <2>3. IsFiniteSet(Landed(b)) /\ Cardinality(Landed(b)) \in Nat
    BY <1>1, LandedFinite
  <2>4. IsFiniteSet(Reads(b, A)) /\ Cardinality(Reads(b, A)) \in Nat
        /\ Cardinality(Reads(b, StartedOnes)) \in Nat
    BY <1>1, ReadsFinite
  <2>5. SentBefore(h) \in SUBSET Landed(b) /\ Reads(b, StartedOnes) \in SUBSET Reads(b, A)
    BY <1>1, SentHaveLanded DEF Reads
  <2>6. Cardinality(SentBefore(h)) <= Cardinality(Landed(b)) /\ IsFiniteSet(SentBefore(h))
    BY <2>3, <2>5, FS_Subset
  <2>7. Cardinality(Reads(b, StartedOnes)) <= Cardinality(Reads(b, A))
    BY <2>4, <2>5, FS_Subset
  <2>8. Cardinality(SentBefore(h)) \in Nat
    BY <2>6, FS_CardinalityType
  <2> HIDE DEF b, h
  <2> QED  BY <2>1, <2>2, <2>3, <2>4, <2>6, <2>7, <2>8
<1> QED  BY <1>2, <1>3 DEF MayRetire

LEMMA ReplayableInit == Begun => Replayable(startTime, retireTime, job.depth)
<1> SUFFICES ASSUME Begun PROVE Replayable(startTime, retireTime, job.depth)
  OBVIOUS
<1>1. \A k \in Instrs : startTime[k] = None /\ retireTime[k] = None
  BY JobFacts DEF Begun, Called
<1> QED  BY <1>1 DEF Replayable

(* The questions a replay asks are about the program, not about its depths.*)
LEMMA SameReplay ==
  ASSUME job'.n = job.n, job'.unit = job.unit, job'.deps = job.deps, job'.streams = job.streams,
         job'.dst = job.dst, job'.parent = job.parent
  PROVE  \A S, R, D : Replayable(S, R, D)' <=> Replayable(S, R, D)
<1>1. Instrs' = Instrs
  BY DEF Instrs
<1>2. /\ CoreOf' = CoreOf
      /\ \A i : Before(i)' = Before(i) /\ DepsOf(i)' = DepsOf(i) /\ SentBefore(i)' = SentBefore(i)
      /\ \A b : Results(b)' = Results(b)
      /\ \A b, S : Reads(b, S)' = Reads(b, S)
  BY <1>1 DEF CoreOf, Before, DepsOf, SentBefore, Results, Reads
<1>3. \A b : OneWriter(b)' <=> OneWriter(b)
  BY <1>2 DEF OneWriter
<1>4. \A i, A, B, D : MayStart(i, A, B, D)' <=> MayStart(i, A, B, D)
  BY <1>2 DEF MayStart
<1>5. \A i, A, D : MayRetire(i, A, D)' <=> MayRetire(i, A, D)
  BY <1>2, <1>3 DEF MayRetire
<1>6. \A t, S, R, A, B : NoneBefore(t, S, R, A, B)' <=> NoneBefore(t, S, R, A, B)
  BY <1>1 DEF NoneBefore
<1> SUFFICES ASSUME NEW S, NEW R, NEW D PROVE Replayable(S, R, D)' <=> Replayable(S, R, D)
  OBVIOUS
<1> DEFINE Starts(A, B, i) == S[i] # None /\ MayStart(i, A, B, D) /\ NoneBefore(S[i], S, R, A, B)
           Retires(A, B, i) == R[i] # None /\ MayRetire(i, A, D) /\ NoneBefore(R[i], S, R, A, B)
<1>7. \A A, B, i : (Starts(A, B, i)' <=> Starts(A, B, i)) /\ (Retires(A, B, i)' <=> Retires(A, B, i))
  BY <1>4, <1>5, <1>6
<1>8. Replayable(S, R, D) <=>
        \A A \in SUBSET Instrs : \A B \in SUBSET A :
          \/ \A k \in Instrs : (S[k] # None => k \in A) /\ (R[k] # None => k \in B)
          \/ \E i \in Instrs \ A : Starts(A, B, i)
          \/ \E i \in Instrs \ B : Retires(A, B, i)
  BY DEF Replayable
<1>9. Replayable(S, R, D)' <=>
        \A A \in SUBSET Instrs' : \A B \in SUBSET A :
          \/ \A k \in Instrs' : (S[k] # None => k \in A) /\ (R[k] # None => k \in B)
          \/ \E i \in Instrs' \ A : Starts(A, B, i)'
          \/ \E i \in Instrs' \ B : Retires(A, B, i)'
  BY DEF Replayable
<1> HIDE DEF Starts, Retires
<1> QED  BY <1>1, <1>7, <1>8, <1>9


(* One more start or retirement, at the present instant: of any part that  *)
(* lacks it and nothing else, it is possible; a part that lacks more lacks *)
(* something earlier.                                                      *)
LEMMA ReplayableStart ==
  ASSUME Typed, Placed, Admitted, OutsideIdle, Replayable(startTime, retireTime, job.depth),
         NEW u \in Units, CanStart(u, now), startTime' = [startTime EXCEPT ![Head(inflight[u])] = now],
         UNCHANGED <<job, retireTime>>
  PROVE  Replayable(startTime, retireTime, job.depth)'
<1> DEFINE h == Head(inflight[u])
           D == job.depth
<1>1. /\ TypeOK /\ h \in Instrs /\ h \in 0 .. job.n /\ Instrs \subseteq 0 .. job.n
      /\ ~Started(h) /\ now \in Nat /\ now # None
  BY HeadOfQueue, JobFacts, NoneAssumption DEF CanStart, Typed, TypeOK
<1>2. PICK S : S = startTime'
  OBVIOUS
<1>3. /\ S[h] = now
      /\ \A k \in Instrs : k # h => S[k] = startTime[k]
  BY <1>1, <1>2 DEF TypeOK
<1>4. \A k \in Instrs : (Started(k) => startTime[k] <= now) /\ (Retired(k) => retireTime[k] <= now)
  BY <1>1, TimesArePast
<1> SUFFICES Replayable(S, retireTime, D)
  <2>1. PICK R, E : R = retireTime /\ E = D
    OBVIOUS
  <2>2. Replayable(S, R, E) => Replayable(S, R, E)'
    BY SameReplay
  <2> QED  BY <1>2, <2>1, <2>2
<1> SUFFICES ASSUME NEW A \in SUBSET Instrs, NEW B \in SUBSET A
             PROVE  \/ \A k \in Instrs : (S[k] # None => k \in A) /\ (retireTime[k] # None => k \in B)
                    \/ \E i \in Instrs \ A : S[i] # None /\ MayStart(i, A, B, D)
                                             /\ NoneBefore(S[i], S, retireTime, A, B)
                    \/ \E i \in Instrs \ B : retireTime[i] # None /\ MayRetire(i, A, D)
                                             /\ NoneBefore(retireTime[i], S, retireTime, A, B)
  BY DEF Replayable
<1>5. CASE \A k \in Instrs : (Started(k) => k \in A) /\ (Retired(k) => k \in B)
  <2>1. CASE h \in A
    BY <1>3, <1>5, <2>1 DEF Started, Retired
  <2>2. CASE h \notin A
    <3>1. MayStart(h, A, B, D)
      <4>1. StartedOnes \subseteq A /\ RetiredOnes \subseteq B
        BY <1>5 DEF StartedOnes, RetiredOnes
      <4> QED  BY <4>1, StartIsPossible
    <3>2. NoneBefore(S[h], S, retireTime, A, B)
      BY <1>1, <1>3, <1>5 DEF NoneBefore, Started, Retired
    <3> QED  BY <1>1, <1>3, <2>2, <3>1, <3>2
  <2> QED  BY <2>1, <2>2
<1>6. ASSUME NEW t \in Nat, t <= now, NoneBefore(t, startTime, retireTime, A, B)
      PROVE  NoneBefore(t, S, retireTime, A, B)
  BY <1>3, <1>6 DEF NoneBefore
<1>7. ASSUME NEW i \in Instrs \ A, Started(i), MayStart(i, A, B, D),
             NoneBefore(startTime[i], startTime, retireTime, A, B)
      PROVE  S[i] # None /\ NoneBefore(S[i], S, retireTime, A, B)
  <2>1. startTime[i] \in Nat /\ startTime[i] <= now /\ i # h
    BY <1>1, <1>7, TimesArePast
  <2> QED  BY <1>3, <1>6, <1>7, <2>1 DEF Started
<1>8. ASSUME NEW i \in Instrs \ B, Retired(i), MayRetire(i, A, D),
             NoneBefore(retireTime[i], startTime, retireTime, A, B)
      PROVE  NoneBefore(retireTime[i], S, retireTime, A, B)
  <2>1. retireTime[i] \in Nat /\ retireTime[i] <= now
    BY <1>1, <1>8, TimesArePast
  <2> QED  BY <1>6, <1>8, <2>1
<1>9. \/ \A k \in Instrs : (Started(k) => k \in A) /\ (Retired(k) => k \in B)
      \/ \E i \in Instrs \ A : Started(i) /\ MayStart(i, A, B, D)
                               /\ NoneBefore(startTime[i], startTime, retireTime, A, B)
      \/ \E i \in Instrs \ B : Retired(i) /\ MayRetire(i, A, D)
                               /\ NoneBefore(retireTime[i], startTime, retireTime, A, B)
  BY DEF Replayable, Started, Retired
<1> QED  BY <1>5, <1>7, <1>8, <1>9 DEF Retired

LEMMA ReplayableRetire ==
  ASSUME Typed, Placed, SlotsExact, ProgramOrder, Replayable(startTime, retireTime, job.depth),
         NEW u \in Units, RetireHead(u)
  PROVE  Replayable(startTime, retireTime, job.depth)'
<1> DEFINE h == Head(inflight[u])
           D == job.depth
<1>0. /\ CanRetire(u, now) /\ pc # "raised"
      /\ retireTime' = [retireTime EXCEPT ![h] = now] /\ UNCHANGED <<job, startTime>>
  BY DEF RetireHead
<1>1. /\ TypeOK /\ h \in Instrs /\ h \in 0 .. job.n /\ Instrs \subseteq 0 .. job.n
      /\ ~Retired(h) /\ now \in Nat /\ now # None
  BY <1>0, HeadOfQueue, JobFacts, NoneAssumption DEF CanRetire, Typed, TypeOK
<1>2. PICK R : R = retireTime'
  OBVIOUS
<1>3. /\ R[h] = now
      /\ \A k \in Instrs : k # h => R[k] = retireTime[k]
  BY <1>0, <1>1, <1>2 DEF TypeOK
<1>4. \A k \in Instrs : (Started(k) => startTime[k] <= now) /\ (Retired(k) => retireTime[k] <= now)
  BY <1>1, TimesArePast
<1> SUFFICES Replayable(startTime, R, D)
  <2>1. PICK S, E : S = startTime /\ E = D
    OBVIOUS
  <2>2. Replayable(S, R, E) => Replayable(S, R, E)'
    BY <1>0, SameReplay
  <2> QED  BY <1>0, <1>2, <2>1, <2>2
<1> SUFFICES ASSUME NEW A \in SUBSET Instrs, NEW B \in SUBSET A
             PROVE  \/ \A k \in Instrs : (startTime[k] # None => k \in A) /\ (R[k] # None => k \in B)
                    \/ \E i \in Instrs \ A : startTime[i] # None /\ MayStart(i, A, B, D)
                                             /\ NoneBefore(startTime[i], startTime, R, A, B)
                    \/ \E i \in Instrs \ B : R[i] # None /\ MayRetire(i, A, D)
                                             /\ NoneBefore(R[i], startTime, R, A, B)
  BY DEF Replayable
<1>5. CASE \A k \in Instrs : (Started(k) => k \in A) /\ (Retired(k) => k \in B)
  <2>1. CASE h \in B
    BY <1>3, <1>5, <2>1 DEF Started, Retired
  <2>2. CASE h \notin B
    <3>1. MayRetire(h, A, D)
      <4>1. StartedOnes \subseteq A
        BY <1>5 DEF StartedOnes
      <4> QED  BY <1>0, <4>1, RetireIsPossible
    <3>2. NoneBefore(R[h], startTime, R, A, B)
      BY <1>1, <1>3, <1>5 DEF NoneBefore, Started, Retired
    <3> QED  BY <1>1, <1>3, <2>2, <3>1, <3>2
  <2> QED  BY <2>1, <2>2
<1>6. ASSUME NEW t \in Nat, t <= now, NoneBefore(t, startTime, retireTime, A, B)
      PROVE  NoneBefore(t, startTime, R, A, B)
  BY <1>3, <1>6 DEF NoneBefore
<1>7. ASSUME NEW i \in Instrs \ A, Started(i), MayStart(i, A, B, D),
             NoneBefore(startTime[i], startTime, retireTime, A, B)
      PROVE  NoneBefore(startTime[i], startTime, R, A, B)
  <2>1. startTime[i] \in Nat /\ startTime[i] <= now
    BY <1>1, <1>7, TimesArePast
  <2> QED  BY <1>6, <1>7, <2>1
<1>8. ASSUME NEW i \in Instrs \ B, Retired(i), MayRetire(i, A, D),
             NoneBefore(retireTime[i], startTime, retireTime, A, B)
      PROVE  R[i] # None /\ NoneBefore(R[i], startTime, R, A, B)
  <2>1. retireTime[i] \in Nat /\ retireTime[i] <= now /\ i # h
    BY <1>1, <1>8, TimesArePast
  <2> QED  BY <1>3, <1>6, <1>8, <2>1 DEF Retired
<1>9. \/ \A k \in Instrs : (Started(k) => k \in A) /\ (Retired(k) => k \in B)
      \/ \E i \in Instrs \ A : Started(i) /\ MayStart(i, A, B, D)
                               /\ NoneBefore(startTime[i], startTime, retireTime, A, B)
      \/ \E i \in Instrs \ B : Retired(i) /\ MayRetire(i, A, D)
                               /\ NoneBefore(retireTime[i], startTime, retireTime, A, B)
  BY DEF Replayable, Started, Retired
<1> QED  BY <1>5, <1>7, <1>8, <1>9 DEF Started

LEMMA ReplayableNext ==
  ASSUME Typed, Placed, Admitted, OutsideIdle, SlotsExact, ProgramOrder,
         Replayable(startTime, retireTime, job.depth), [Next]_vars
  PROVE  Replayable(startTime, retireTime, job.depth)'
<1>1. ASSUME NEW u \in Units, StartHead(u) \/ StartFaults(u)
      PROVE  Replayable(startTime, retireTime, job.depth)'
  BY <1>1, ReplayableStart DEF StartHead, StartFaults
<1>2. CASE UNCHANGED <<job, startTime, retireTime>>
  <2>1. PICK S, R, D : S = startTime /\ R = retireTime /\ D = job.depth
    OBVIOUS
  <2>2. Replayable(S, R, D)' <=> Replayable(S, R, D)
    BY <1>2, SameReplay
  <2> QED  BY <1>2, <2>1, <2>2
<1>3. ASSUME NEW u \in Units, RetireHead(u)
      PROVE  Replayable(startTime, retireTime, job.depth)'
  BY <1>3, ReplayableRetire
<1> QED
  BY <1>1, <1>2, <1>3 DEF Next, RetireSkips, StartSkips, IssueNext,
     DispatcherStops, AdvanceClock, RaiseDeadlock, Finished, vars, times

LEMMA ProgramOrderInit == Begun => ProgramOrder
<1> SUFFICES ASSUME Begun PROVE ProgramOrder
  OBVIOUS
<1>1. \A i \in Instrs : ~Started(i)
  BY JobFacts DEF Begun, Called, Started
<1> QED  BY <1>1 DEF ProgramOrder

LEMMA RecordedInit == Begun => Recorded
<1> SUFFICES ASSUME Begun PROVE Recorded
  OBVIOUS
<1>1. OutsideIdle
  <2>1. 0 \in 0 .. job.n
    BY JobFacts DEF Begun
  <2> QED  BY <2>1 DEF Begun, Called, OutsideIdle, Outside, Started, Retired
<1>2. Admitted /\ Paid
  <2>1. Instrs \subseteq 0 .. job.n
    BY JobFacts DEF Begun
  <2> QED  BY <2>1 DEF Begun, Called, Admitted, Paid
<1> QED
  BY <1>1, <1>2, FlowingInit, ProgramOrderInit, SlotsExactInit, ReplayableInit DEF Recorded

LEMMA RecordedNext == Typed /\ Placed /\ Recorded /\ [Next]_vars => Recorded'
BY FlowingNext, ProgramOrderNext, OutsideNext, SlotsExactNext, AdmittedNext, PaidNext, ReplayableNext
   DEF Recorded


(* There is room for the result of a running head whose retirement the     *)
(* replay asks for.                                                        *)
LEMMA RoomAgain ==
  ASSUME Inv, ProgramOrder, SlotsExact, OrderedBuffers, pc # "raised",
         NEW i \in Instrs, ~Retired(i), NEW D, \A u \in Unit : D[u] \in Nat /\ D[u] <= job.depth[u],
         MayRetire(i, StartedOnes, D)
  PROVE  HasFreeSlot(job.dst[i])
<1> DEFINE b == job.dst[i]
<1> SUFFICES ASSUME b # None PROVE occ[b] < job.depth[b]
  BY DEF HasFreeSlot
<1>1. /\ Typed /\ Placed /\ TypeOK /\ IsJob(job) /\ b \in Unit /\ b \in Buffers
      /\ IsFiniteSet(Instrs) /\ job.depth[b] \in Nat /\ job.n \in Nat
  BY JobFacts DEF Inv, Typed, TypeOK, Buffers
<1>2. occ[b] = Cardinality(Landed(b)) - Cardinality(Reads(b, StartedOnes))
  BY <1>1 DEF SlotsExact
<1>3. Cardinality(Landed(b)) \in Nat /\ Cardinality(Reads(b, StartedOnes)) \in Nat
  BY <1>1, LandedFinite, ReadsFinite DEF StartedOnes
<1>4. CASE OneWriter(b)
  <2>1. Cardinality(SentBefore(i)) - Cardinality(Reads(b, StartedOnes)) < D[b]
    BY <1>4 DEF MayRetire
  <2>2. Landed(b) \in SUBSET SentBefore(i)
    BY <1>1, <1>4, LandedWereSent
  <2>3. IsFiniteSet(SentBefore(i))
    <3>1. SentBefore(i) \in SUBSET Instrs
      BY <1>1 DEF SentBefore, Before, Instrs
    <3> QED  BY <1>1, <3>1, FS_Subset
  <2>4. Cardinality(Landed(b)) <= Cardinality(SentBefore(i)) /\ Cardinality(SentBefore(i)) \in Nat
    BY <2>2, <2>3, FS_Subset, FS_CardinalityType
  <2>5. D[b] \in Nat /\ D[b] <= job.depth[b]
    BY <1>1
  <2> HIDE DEF b
  <2> QED  BY <1>1, <1>2, <1>3, <2>1, <2>4, <2>5
<1>5. CASE ~OneWriter(b)
  <2>1. Cardinality(Results(b)) <= job.depth[b]
    BY <1>1, <1>5 DEF OrderedBuffers
  <2>2. Results(b) \in SUBSET Instrs /\ i \in Results(b)
    BY DEF Results
  <2>3. IsFiniteSet(Results(b)) /\ Cardinality(Results(b)) \in Nat
    BY <1>1, <2>2, FS_Subset, FS_CardinalityType
  <2>4. IsFiniteSet(Results(b) \ {i}) /\ Cardinality(Results(b) \ {i}) = Cardinality(Results(b)) - 1
    BY <2>2, <2>3, FS_RemoveElement
  <2>5. Landed(b) \in SUBSET (Results(b) \ {i})
    BY DEF Landed, Results
  <2>6. Cardinality(Landed(b)) <= Cardinality(Results(b)) - 1
    BY <2>4, <2>5, FS_Subset
  <2> HIDE DEF b
  <2> QED  BY <1>1, <1>2, <1>3, <2>1, <2>3, <2>6
<1> QED  BY <1>4, <1>5

(* A start that the replay asks for is that of a head.                     *)
LEMMA StartsAreHeads ==
  ASSUME Inv, pc \in {"advance", "deadlock"}, NEW i \in Instrs, ~Started(i),
         NEW D, \A u \in Unit : D[u] \in Nat /\ D[u] <= job.depth[u],
         MayStart(i, StartedOnes, RetiredOnes, D)
  PROVE  inflight[job.unit[i]] # << >> /\ Head(inflight[job.unit[i]]) = i
<1> DEFINE u == job.unit[i]
<1>1. /\ Typed /\ Placed /\ TypeOK /\ u \in Units /\ u \in Unit /\ job.n \in Nat /\ waiting \subseteq Instrs
  BY JobFacts DEF Inv, Typed, TypeOK
<1>2. i \notin waiting
  <2> SUFFICES ASSUME i \in waiting PROVE FALSE
    OBVIOUS
  <2>1. PICK k \in waiting : /\ k <= i /\ CoreOf[k] = CoreOf[i]
                             /\ \A j \in waiting : CoreOf[j] = CoreOf[i] => k <= j
                             /\ Len(inflight[job.unit[k]]) >= job.depth[job.unit[k]]
    BY StalledDispatcher
  <2>2. k \in 1 .. i /\ k \in Instrs /\ job.unit[k] \in Unit
    BY <1>1, <2>1, JobFacts DEF Instrs, TypeOK
  <2>3. Cardinality(Before(k) \ RetiredOnes) < D[job.unit[k]]
    BY <2>1, <2>2 DEF MayStart
  <2>4. Cardinality(Before(k) \ RetiredOnes) = Len(inflight[job.unit[k]])
    BY <1>1, <2>1, QueueBeforeNext
  <2>5. /\ D[job.unit[k]] \in Nat /\ D[job.unit[k]] <= job.depth[job.unit[k]]
        /\ Len(inflight[job.unit[k]]) \in Nat /\ job.depth[job.unit[k]] \in Nat
    BY <1>1, <2>2, QueueFacts, JobFacts DEF TypeOK
  <2> QED  BY <2>1, <2>3, <2>4, <2>5
<1>3. PICK m \in 1 .. Len(inflight[u]) : inflight[u][m] = i
  BY <1>1, <1>2 DEF Placed, SomewhereOnce
<1>4. Len(inflight[u]) \in Nat /\ inflight[u] # << >> /\ Head(inflight[u]) = inflight[u][1]
  BY <1>1, <1>3, QueueFacts, EmptySeq
<1>5. m = 1
  <2> SUFFICES ASSUME m # 1 PROVE FALSE
    OBVIOUS
  <2>1. 1 \in 1 .. m - 1 /\ 1 \in 1 .. Len(inflight[u])
    BY <1>4
  <2>2. inflight[u][1] < i /\ job.unit[inflight[u][1]] = u /\ ~Retired(inflight[u][1])
    BY <1>1, <1>3, <2>1 DEF Placed, QueuesInOrder
  <2>3. inflight[u][1] \in Instrs
    BY <1>1, <2>1, QueueFacts
  <2>4. inflight[u][1] \in Before(i)
    BY <1>1, <2>2, <2>3 DEF Before, Instrs
  <2> QED  BY <2>2, <2>4 DEF MayStart, RetiredOnes
<1> QED  BY <1>3, <1>4, <1>5

LEMMA RunningAreHeads ==
  ASSUME Typed, Placed, NEW i \in Instrs, Started(i), ~Retired(i)
  PROVE  inflight[job.unit[i]] # << >> /\ Head(inflight[job.unit[i]]) = i
<1> DEFINE u == job.unit[i]
<1>1. TypeOK /\ u \in Unit
  BY JobFacts DEF Typed, TypeOK
<1>2. PICK m \in 1 .. Len(inflight[u]) : inflight[u][m] = i
  BY DEF Placed, SomewhereOnce
<1>3. Len(inflight[u]) \in Nat /\ inflight[u] # << >> /\ Head(inflight[u]) = inflight[u][1]
  BY <1>1, <1>2, QueueFacts, EmptySeq
<1>4. ~(m > 1)
  BY <1>1, <1>2 DEF Placed, QueuesInOrder
<1> QED  BY <1>2, <1>3, <1>4

(* At a fixpoint of the second call, all that the first call had done by a *)
(* cycle before the next event has been done: the earliest thing missing   *)
(* would be possible at that cycle.                                        *)
LEMMA NoneIsLate ==
  ASSUME Inv, ProgramOrder, SlotsExact, NEW f, Compared(f), InTime(f), OrderedBuffers,
         pc \in {"advance", "deadlock"}, NEW t \in Nat, now <= t, \A x \in Wakes : t < x
  PROVE  \A k \in Instrs : /\ ~Started(k) => t < f.start[k]
                           /\ ~Retired(k) => t < f.retire[k]
<1>1. /\ Typed /\ Placed /\ TypeOK /\ pc # "raised" /\ now \in Nat
      /\ StartedOnes \in SUBSET Instrs /\ RetiredOnes \in SUBSET Instrs
      /\ \A i \in Instrs : job.unit[i] \in Units /\ job.unit[i] \in Unit /\ i \in 0 .. job.n
      /\ \A u \in Unit : f.depth[u] \in Nat /\ f.depth[u] <= job.depth[u]
  BY JobFacts DEF Inv, Typed, TypeOK, StartedOnes, RetiredOnes, Compared
<1>0. RetiredOnes \in SUBSET StartedOnes
  BY <1>1 DEF Placed, SomewhereOnce, StartedOnes, RetiredOnes
<1>2. \A i \in Instrs : f.start[i] \in Nat /\ f.start[i] # None
                        /\ f.retire[i] \in Nat /\ f.retire[i] # None
  BY NoneAssumption DEF Compared
<1>3. ASSUME NEW i \in Instrs, ~Started(i), f.start[i] <= t,
             MayStart(i, StartedOnes, RetiredOnes, f.depth)
      PROVE  FALSE
  <2> DEFINE u == job.unit[i]
  <2>1. inflight[u] # << >> /\ Head(inflight[u]) = i
    BY <1>1, <1>3, StartsAreHeads
  <2>2. ~CanStart(u, t)
    BY <1>1, NothingBeforeWakes
  <2>3. freeAt[u] <= t
    <3>1. freeAt[u] \in 0 .. now
      BY <1>1 DEF TypeOK
    <3> QED  BY <1>1, <3>1
  <2>4. ASSUME NEW d \in DepsOf(i) PROVE Retired(d) /\ retireTime[d] <= t
    <3>1. d \in Instrs /\ Retired(d)
      BY <1>3, <2>4 DEF MayStart, RetiredOnes
    <3>2. retireTime[d] \in Nat /\ retireTime[d] <= now
      BY <1>1, <3>1, TimesArePast
    <3> QED  BY <1>1, <3>1, <3>2
  <2>5. ASSUME NEW s \in job.streams[i] PROVE Started(s) /\ startTime[s] + job.latency[i] <= t
    <3>1. s \in Instrs /\ Started(s)
      BY <1>3, <2>5 DEF MayStart, StartedOnes
    <3>2. startTime[s] <= f.start[s] /\ f.start[s] + job.latency[i] <= f.start[i]
      BY <2>5, <3>1 DEF InTime, Compared
    <3>3. startTime[s] \in Nat /\ f.start[s] \in Nat /\ f.start[i] \in Nat /\ job.latency[i] \in Nat
      BY <1>1, <1>2, <3>1, TimesArePast, JobFacts DEF TypeOK
    <3> QED  BY <1>3, <3>1, <3>2, <3>3
  <2> QED  BY <1>3, <2>1, <2>2, <2>3, <2>4, <2>5 DEF CanStart
<1>4. ASSUME NEW i \in Instrs, ~Retired(i), f.retire[i] <= t,
             MayRetire(i, StartedOnes, f.depth)
      PROVE  FALSE
  <2> DEFINE u == job.unit[i]
  <2>1. Started(i)
    BY <1>4 DEF MayRetire, StartedOnes
  <2>2. inflight[u] # << >> /\ Head(inflight[u]) = i
    BY <1>1, <1>4, <2>1, RunningAreHeads
  <2>3. ~CanRetire(u, t)
    BY <1>1, NothingBeforeWakes
  <2>4. HasFreeSlot(job.dst[i])
    BY <1>1, <1>4, RoomAgain
  <2>5. endTime[i] <= t
    <3>1. endTime[i] <= f.end[i] /\ f.end[i] <= f.retire[i]
      BY <2>1 DEF InTime, Compared
    <3>2. endTime[i] \in Nat /\ f.end[i] \in Nat /\ f.retire[i] \in Nat
      BY <1>1, <2>1, EndsArePlanned DEF Compared
    <3> QED  BY <1>4, <3>1, <3>2
  <2> QED  BY <1>4, <2>1, <2>2, <2>3, <2>4, <2>5 DEF CanRetire
<1>5. ASSUME NEW x \in Nat, t < x, NoneBefore(x, f.start, f.retire, StartedOnes, RetiredOnes)
      PROVE  \A k \in Instrs : /\ ~Started(k) => t < f.start[k]
                               /\ ~Retired(k) => t < f.retire[k]
  BY <1>2, <1>5 DEF NoneBefore, StartedOnes, RetiredOnes
<1>6. \/ \A k \in Instrs : (f.start[k] # None => k \in StartedOnes)
                           /\ (f.retire[k] # None => k \in RetiredOnes)
      \/ \E i \in Instrs \ StartedOnes :
           /\ MayStart(i, StartedOnes, RetiredOnes, f.depth)
           /\ NoneBefore(f.start[i], f.start, f.retire, StartedOnes, RetiredOnes)
      \/ \E i \in Instrs \ RetiredOnes :
           /\ MayRetire(i, StartedOnes, f.depth)
           /\ NoneBefore(f.retire[i], f.start, f.retire, StartedOnes, RetiredOnes)
  BY <1>0, <1>1 DEF Compared, Replayable
<1>7. CASE \A k \in Instrs : (f.start[k] # None => k \in StartedOnes)
                             /\ (f.retire[k] # None => k \in RetiredOnes)
  BY <1>2, <1>7 DEF StartedOnes, RetiredOnes
<1>8. ASSUME NEW i \in Instrs \ StartedOnes, MayStart(i, StartedOnes, RetiredOnes, f.depth),
             NoneBefore(f.start[i], f.start, f.retire, StartedOnes, RetiredOnes)
      PROVE  \A k \in Instrs : /\ ~Started(k) => t < f.start[k]
                               /\ ~Retired(k) => t < f.retire[k]
  <2>1. t < f.start[i] /\ f.start[i] \in Nat
    BY <1>2, <1>3, <1>8 DEF StartedOnes
  <2> QED  BY <1>5, <1>8, <2>1
<1>9. ASSUME NEW i \in Instrs \ RetiredOnes, MayRetire(i, StartedOnes, f.depth),
             NoneBefore(f.retire[i], f.start, f.retire, StartedOnes, RetiredOnes)
      PROVE  \A k \in Instrs : /\ ~Started(k) => t < f.start[k]
                               /\ ~Retired(k) => t < f.retire[k]
  <2>1. t < f.retire[i] /\ f.retire[i] \in Nat
    BY <1>2, <1>4, <1>9 DEF RetiredOnes
  <2> QED  BY <1>5, <1>9, <2>1
<1> QED  BY <1>6, <1>7, <1>8, <1>9


LEMMA InTimeNext ==
  ASSUME Inv, ProgramOrder, SlotsExact, NEW f, Compared(f), InTime(f), OrderedBuffers, [Next]_vars,
         pc # "raised"
  PROVE  InTime(f)'
<1>0. /\ Typed /\ Placed /\ TypeOK /\ now \in Nat /\ job' = job /\ Instrs' = Instrs
      /\ Instrs \subseteq 0 .. job.n /\ Units \subseteq Unit
  BY JobFixed, JobFacts DEF Inv, Typed, TypeOK
<1>1. ASSUME NEW u \in Units, RetireHead(u) PROVE InTime(f)'
  <2> DEFINE h == Head(inflight[u])
  <2>1. /\ h \in 0 .. job.n /\ h \in Instrs /\ ~Retired(h)
        /\ retireTime' = [retireTime EXCEPT ![h] = now] /\ UNCHANGED <<startTime, endTime, now>>
    BY <1>0, <1>1, HeadOfQueue DEF RetireHead, CanRetire
  <2> SUFFICES ASSUME NEW i \in Instrs
               PROVE  IF retireTime'[i] # None THEN retireTime'[i] <= f.retire[i]
                      ELSE now <= f.retire[i]
    BY <1>0, <2>1 DEF InTime, Started, Retired
  <2>2. CASE i = h
    BY <1>0, <2>1, <2>2 DEF InTime, TypeOK
  <2>3. CASE i # h
    <3>1. retireTime'[i] = retireTime[i]
      BY <1>0, <2>1, <2>3 DEF TypeOK
    <3> QED  BY <3>1 DEF InTime, Retired
  <2> QED  BY <2>2, <2>3
<1>2. ASSUME NEW u \in Units, StartHead(u) PROVE InTime(f)'
  <2> DEFINE h == Head(inflight[u])
  <2>1. /\ h \in 0 .. job.n /\ h \in Instrs /\ ~Started(h) /\ job.cost[h] \in Nat /\ job.latency[h] \in Nat
        /\ \A s \in job.streams[h] : Started(s)
        /\ startTime' = [startTime EXCEPT ![h] = now] /\ endTime' = [endTime EXCEPT ![h] = EndOf(h)]
        /\ UNCHANGED <<retireTime, now>>
    BY <1>0, <1>2, HeadOfQueue, JobFacts DEF StartHead, CanStart, TypeOK
  <2>2. now <= f.start[h] /\ f.start[h] \in Nat /\ f.end[h] \in Nat
        /\ f.start[h] + job.cost[h] <= f.end[h]
    BY <2>1 DEF InTime, Compared
  <2>3. EndOf(h) <= f.end[h]
    <3> DEFINE T == {endTime[s] + job.latency[h] : s \in job.streams[h]}
               X == {now + job.cost[h]} \cup T
    <3>1. \A s \in job.streams[h] : endTime[s] \in Nat
      BY <1>0, <2>1, JobFacts, EndsArePlanned DEF TypeOK
    <3>2. \A s \in job.streams[h] : endTime[s] + job.latency[h] <= f.end[h]
      <4> TAKE s \in job.streams[h]
      <4>1. s \in Instrs /\ f.end[s] + job.latency[h] <= f.end[h]
        BY <2>1 DEF Compared
      <4>2. endTime[s] <= f.end[s] /\ f.end[s] \in Nat
        BY <2>1, <4>1 DEF InTime, Compared
      <4> QED  BY <2>1, <2>2, <3>1, <4>1, <4>2
    <3>3. X \subseteq Nat /\ X # {} /\ \A x \in X : x <= f.end[h]
      BY <1>0, <2>1, <2>2, <3>1, <3>2
    <3>4. IsFiniteSet(X)
      <4>1. IsFiniteSet(T)
        BY <1>0, <2>1, StreamTimesFinite DEF TypeOK
      <4>2. IsFiniteSet({now + job.cost[h]})
        BY FS_Singleton
      <4> QED  BY <4>1, <4>2, FS_Union
    <3>5. Max(X) \in X
      <4> HIDE DEF X
      <4> QED  BY <3>3, <3>4, MaxOfNats
    <3>6. EndOf(h) = Max(X)
      BY DEF EndOf
    <3> QED  BY <3>3, <3>5, <3>6
  <2> SUFFICES ASSUME NEW i \in Instrs
               PROVE  IF startTime'[i] # None
                      THEN startTime'[i] <= f.start[i] /\ endTime'[i] <= f.end[i]
                      ELSE now <= f.start[i]
    BY <1>0, <2>1 DEF InTime, Started, Retired
  <2>4. CASE i = h
    BY <1>0, <2>1, <2>2, <2>3, <2>4, NoneAssumption DEF TypeOK
  <2>5. CASE i # h
    <3>1. startTime'[i] = startTime[i] /\ endTime'[i] = endTime[i]
      BY <1>0, <2>1, <2>5 DEF TypeOK
    <3> QED  BY <3>1 DEF InTime, Started
  <2> QED  BY <2>4, <2>5
<1>3. ASSUME NEW u \in Units, StartFaults(u) PROVE FALSE
  BY <1>0, <1>3, HeadOfQueue DEF StartFaults, CanStart, Compared
<1>4. CASE UNCHANGED <<job, times, now>>
  BY <1>0, <1>4 DEF times, InTime, Started, Retired
<1>5. CASE AdvanceClock
  <2>1. /\ pc = "advance" /\ UNCHANGED times
        /\ now' \in Wakes /\ \A x \in Wakes : now' <= x
    BY <1>5 DEF AdvanceClock
  <2>2. now' \in Nat /\ now' > now /\ \A x \in Wakes : x \in Nat
    BY <1>0, <2>1, WakesAreLater
  <2>3. PICK t \in Nat : now' = t + 1
    BY <1>0, <2>2
  <2>4. now <= t /\ \A x \in Wakes : t < x
    BY <1>0, <2>1, <2>2, <2>3
  <2>5. \A k \in Instrs : (~Started(k) => t < f.start[k]) /\ (~Retired(k) => t < f.retire[k])
    BY <2>1, <2>4, NoneIsLate
  <2>6. \A k \in Instrs : f.start[k] \in Nat /\ f.retire[k] \in Nat
    BY DEF Compared
  <2>7. \A k \in Instrs : (~Started(k) => now' <= f.start[k]) /\ (~Retired(k) => now' <= f.retire[k])
    BY <2>3, <2>5, <2>6
  <2> QED  BY <1>0, <2>1, <2>7 DEF InTime, times, Started, Retired
<1> QED
  BY <1>1, <1>2, <1>3, <1>4, <1>5 DEF Next, RetireSkips, StartSkips, IssueNext,
     DispatcherStops, RaiseDeadlock, Finished, vars

(* ... and nothing is missing for ever. *)
LEMMA NoDeadlockInTime ==
  ASSUME Inv, ProgramOrder, SlotsExact, NEW f, Compared(f), InTime(f), OrderedBuffers,
         pc = "advance", Wakes = {}
  PROVE  FALSE
<1>1. /\ Typed /\ TypeOK /\ now \in Nat /\ remaining # 0
      /\ remaining = Cardinality({i \in Instrs : ~Retired(i)})
  BY DEF Inv, Typed, TypeOK, Settled, Counted
<1>2. PICK i \in Instrs : ~Retired(i)
  BY <1>1, FS_EmptySet
<1>3. f.retire[i] \in Nat
  BY DEF Compared
<1>4. PICK t \in Nat : now <= t /\ f.retire[i] <= t
  <2>1. CASE now <= f.retire[i]
    BY <1>3, <2>1
  <2>2. CASE f.retire[i] <= now
    BY <1>1, <2>2
  <2> QED  BY <1>1, <1>3, <2>1, <2>2
<1>5. t < f.retire[i]
  BY <1>2, <1>4, NoneIsLate
<1> QED  BY <1>3, <1>4, <1>5

LEMMA ComparedStays ==
  ASSUME NEW f, Compared(f), UNCHANGED job
  PROVE  Compared(f)'
<1>1. PICK S, R, D : S = f.start /\ R = f.retire /\ D = f.depth
  OBVIOUS
<1>2. Replayable(S, R, D)' <=> Replayable(S, R, D)
  BY SameReplay
<1>3. Replayable(f.start, f.retire, f.depth)'
  BY <1>1, <1>2 DEF Compared
<1>4. Instrs' = Instrs
  BY DEF Instrs
<1> QED  BY <1>3, <1>4 DEF Compared

(* A call that has returned has told all of its times.                     *)
LEMMA DoneTells ==
  ASSUME Typed, Placed, Counted, DoneIsEmpty, Recorded, pc = "done", NEW i \in Instrs
  PROVE  /\ startTime[i] \in Nat /\ endTime[i] \in Nat /\ retireTime[i] \in Nat
         /\ job.cost[i] # None /\ startTime[i] + job.cost[i] <= endTime[i]
         /\ endTime[i] <= retireTime[i]
         /\ \A s \in job.streams[i] : /\ s \in Instrs
                                      /\ endTime[s] + job.latency[i] <= endTime[i]
                                      /\ startTime[s] + job.latency[i] <= startTime[i]
<1>1. Typed /\ Placed /\ Counted /\ TypeOK /\ remaining = 0 /\ i \in 0 .. job.n
  BY JobFacts DEF Typed, TypeOK, DoneIsEmpty
<1>2. Retired(i) /\ Started(i)
  BY <1>1, NoneLeft DEF Placed, SomewhereOnce
<1>3. startTime[i] \in Nat /\ retireTime[i] \in Nat /\ endTime[i] \in Nat
  BY <1>1, <1>2, TimesArePast, EndsArePlanned
<1>4. job.cost[i] # None /\ startTime[i] + job.cost[i] <= endTime[i]
  BY <1>3, NoneAssumption DEF Recorded, Paid
<1>5. endTime[i] <= retireTime[i]
  BY <1>1, <1>2 DEF Recorded, Flowing, EndedFirst
<1>6. ASSUME NEW s \in job.streams[i]
      PROVE  /\ s \in Instrs
             /\ endTime[s] + job.latency[i] <= endTime[i]
             /\ startTime[s] + job.latency[i] <= startTime[i]
  <2>1. s \in 0 .. job.n /\ Started(s)
    BY <1>1, <1>2, JobFacts DEF TypeOK, Recorded, Flowing, InputsFirst
  <2>2. s # Outside
    BY <2>1 DEF Recorded, OutsideIdle
  <2>3. s \in Instrs
    BY <2>1, <2>2 DEF Instrs, Outside
  <2> QED  BY <1>2, <2>3 DEF Recorded, Flowing, InputsFirst
<1> QED  BY <1>3, <1>4, <1>5, <1>6
=============================================================================
