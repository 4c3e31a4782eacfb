------------------------------- MODULE Engine -------------------------------
(***************************************************************************)
(* The cycle simulator of arch_sim/sim/engine.py: one call of simulate().  *)
(*                                                                         *)
(* The call is a sequential loop.  At each instant `now' it sweeps the     *)
(* units and the dispatchers until a whole sweep changes nothing:          *)
(*                                                                         *)
(*    "retire"  the head of each unit's in-flight queue leaves it when its *)
(*              execution is over and its destination has a free slot      *)
(*              (blocking after service);                                  *)
(*    "start"   the head of each queue starts when its inputs are there;   *)
(*    "issue"   each core's in-order dispatcher fills its units' queues;   *)
(*                                                                         *)
(* and then moves `now' to the next event ("advance"), or raises           *)
(* RuntimeError when there is none.  One action is one iteration of one of *)
(* these loops.  The program it is given is the variable job of module     *)
(* Program.                                                                *)
(***************************************************************************)
EXTENDS Program, FiniteSetsExt

VARIABLES
  startTime,   \* Instruction.start_time, end_time, retire_time
  endTime,
  retireTime,
  pc,          \* the loop the call is in, or how it ended
  todo,        \* the units or cores that loop has still to visit
  progress,    \* has the current sweep changed anything?
  now,
  waiting,     \* instructions at or after prog_idx in their core's program
  inflight,    \* the in-order queue of each unit
  freeAt,      \* when each unit last retired an instruction
  occ,         \* the slots taken in each destination
  remaining    \* instructions that have not retired

times == <<startTime, endTime, retireTime>>
vars == <<job, times, pc, todo, progress, now, waiting, inflight, freeAt,
          occ, remaining>>

Started(i) == startTime[i] # None
Retired(i) == retireTime[i] # None

(* Slip: one slot is given back per buffer read, however many inputs. *)
FreesOnce(i, b) ==
  IF \E k \in DOMAIN job.deps[i] : job.deps[i][k] # Outside /\ job.dst[job.deps[i][k]] = b
  THEN 1 ELSE 0

(* How often instruction i frees a slot of b when it starts: once for each *)
(* entry of its deps that names an instruction with destination b.         *)
Frees(i, b) ==
  Cardinality({k \in DOMAIN job.deps[i] :
                 /\ job.deps[i][k] # Outside
                 /\ job.dst[job.deps[i][k]] = b})

(* Slip: off by one. *)
HasFreeSlotLate(b) == b # None => occ[b] <= job.depth[b]

HasFreeSlot(b) == b # None => occ[b] < job.depth[b]

-----------------------------------------------------------------------------
(* What the head of u's queue, or core c's dispatcher, can do at time t.   *)

(* Slip: what has retired may retire. *)
CanRetireAgain(u, t) ==
  /\ inflight[u] # << >>
  /\ LET h == Head(inflight[u])
     IN  Started(h) /\ endTime[h] <= t /\ HasFreeSlot(job.dst[h])

CanRetire(u, t) ==
  /\ inflight[u] # << >>
  /\ LET h == Head(inflight[u])
     IN  /\ Started(h) /\ ~Retired(h)
         /\ endTime[h] <= t
         /\ HasFreeSlot(job.dst[h])

CanStart(u, t) ==
  /\ inflight[u] # << >>
  /\ LET h == Head(inflight[u])
     IN  /\ ~Started(h)
         /\ freeAt[u] <= t
         /\ \A d \in DepsOf(h) : Retired(d) /\ retireTime[d] <= t
         /\ \A s \in job.streams[h] :
              Started(s) /\ startTime[s] + job.latency[h] <= t

(* Slips: any instruction may be issued, or into a queue that is just full, *)
(* or only into one with a second free place.                               *)
CanIssueAny(c, i) ==
  /\ i \in waiting /\ CoreOf[i] = c
  /\ Len(inflight[job.unit[i]]) < job.depth[job.unit[i]]

CanIssueLate(c, i) ==
  /\ i \in waiting /\ CoreOf[i] = c
  /\ \A j \in waiting : CoreOf[j] = c => i <= j
  /\ Len(inflight[job.unit[i]]) <= job.depth[job.unit[i]]

CanIssueEarly(c, i) ==
  /\ i \in waiting /\ CoreOf[i] = c
  /\ \A j \in waiting : CoreOf[j] = c => i <= j
  /\ Len(inflight[job.unit[i]]) + 1 < job.depth[job.unit[i]]

(* Instruction i is the next one of core c's program, and its queue has room. *)
CanIssue(c, i) ==
  /\ i \in waiting
  /\ CoreOf[i] = c
  /\ \A j \in waiting : CoreOf[j] = c => i <= j
  /\ Len(inflight[job.unit[i]]) < job.depth[job.unit[i]]

-----------------------------------------------------------------------------
(* The loops visit units and cores in the order the list first names them. *)

Turn(x, key) ==
  x \in {y \in todo : \A z \in todo \ {y} :
           \E i \in Instrs : key[i] = y /\ \A j \in 1 .. i : key[j] # z}

(* The loop is done with x; after the last one control goes to loop next.  *)
Leave(x, next, fresh) ==
  /\ pc' = IF todo = {x} THEN next ELSE pc
  /\ todo' = IF todo = {x} THEN fresh ELSE todo \ {x}

(* simulate() is called on job. *)
Called ==
  /\ startTime = [i \in 0 .. job.n |-> None]
  /\ endTime = [i \in 0 .. job.n |-> None]
  /\ retireTime = [i \in 0 .. job.n |-> None]
  /\ pc = IF job.n = 0 THEN "done" ELSE "retire"
  /\ todo = Units
  /\ progress = FALSE
  /\ now = 0
  /\ waiting = Instrs
  /\ inflight = [u \in Unit |-> << >>]
  /\ freeAt = [u \in Unit |-> 0]
  /\ occ = [u \in Unit |-> 0]
  /\ remaining = job.n

Init == job \in Jobs /\ Called

(* 1) Retire. *)
RetireHead(u) ==
  /\ pc = "retire" /\ Turn(u, job.unit) /\ CanRetire(u, now)
  /\ LET h == Head(inflight[u])
     IN  /\ retireTime' = [retireTime EXCEPT ![h] = now]
         /\ occ' = IF job.dst[h] = None THEN occ
                   ELSE [occ EXCEPT ![job.dst[h]] = @ + 1]
  /\ freeAt' = [freeAt EXCEPT ![u] = now]
  /\ inflight' = [inflight EXCEPT ![u] = Tail(@)]
  /\ remaining' = remaining - 1
  /\ progress' = TRUE
  /\ Leave(u, "start", Units)
  /\ UNCHANGED <<job, startTime, endTime, now, waiting>>

RetireSkips(u) ==
  /\ pc = "retire" /\ Turn(u, job.unit) /\ ~CanRetire(u, now)
  /\ Leave(u, "start", Units)
  /\ UNCHANGED <<job, times, progress, now, waiting, inflight, freeAt, occ,
                 remaining>>

(* Slip: the consumer's end ignores that its producer is still streaming. *)
EndOfItself(h) == now + job.cost[h]

(* Slip: the latency of the link is waited for at both ends. *)
EndOfTwice(h) ==
  Max({now + job.cost[h]} \cup {endTime[s] + 2 * job.latency[h] : s \in job.streams[h]})

(* 2) Start.  The end is known at the start: own cost, but never before    *)
(* the slowest streamed producer has drained.                              *)
EndOf(h) ==
  Max({now + job.cost[h]} \cup {endTime[s] + job.latency[h] : s \in job.streams[h]})

StartHead(u) ==
  /\ pc = "start" /\ Turn(u, job.unit) /\ CanStart(u, now)
  /\ LET h == Head(inflight[u])
     IN  /\ job.cost[h] # None
         /\ startTime' = [startTime EXCEPT ![h] = now]
         /\ endTime' = [endTime EXCEPT ![h] = EndOf(h)]
         /\ occ' = [b \in Unit |-> occ[b] - Frees(h, b)]
  /\ progress' = TRUE
  /\ Leave(u, "issue", Cores)
  /\ UNCHANGED <<job, retireTime, now, waiting, inflight, freeAt, remaining>>

(* cost() raises after start_time is written; the exception leaves simulate. *)
StartFaults(u) ==
  /\ pc = "start" /\ Turn(u, job.unit) /\ CanStart(u, now)
  /\ LET h == Head(inflight[u])
     IN  /\ job.cost[h] = None
         /\ startTime' = [startTime EXCEPT ![h] = now]
  /\ pc' = "raised"
  /\ UNCHANGED <<job, endTime, retireTime, todo, progress, now, waiting,
                 inflight, freeAt, occ, remaining>>

StartSkips(u) ==
  /\ pc = "start" /\ Turn(u, job.unit) /\ ~CanStart(u, now)
  /\ Leave(u, "issue", Cores)
  /\ UNCHANGED <<job, times, progress, now, waiting, inflight, freeAt, occ,
                 remaining>>

(* Slip: the newest instruction goes to the front of the queue. *)
IssueToFront(c) ==
  /\ pc = "issue" /\ Turn(c, CoreOf)
  /\ \E i \in waiting :
       /\ CanIssue(c, i)
       /\ inflight' = [inflight EXCEPT ![job.unit[i]] = <<i>> \o @]
       /\ waiting' = waiting \ {i}
  /\ progress' = TRUE
  /\ UNCHANGED <<job, times, pc, todo, now, freeAt, occ, remaining>>

(* 3) Issue.  A core keeps its turn until its next target is full or its   *)
(* program is over (head-of-line blocking).                                *)
IssueNext(c) ==
  /\ pc = "issue" /\ Turn(c, CoreOf)
  /\ \E i \in waiting :
       /\ CanIssue(c, i)
       /\ inflight' = [inflight EXCEPT ![job.unit[i]] = Append(@, i)]
       /\ waiting' = waiting \ {i}
  /\ progress' = TRUE
  /\ UNCHANGED <<job, times, pc, todo, now, freeAt, occ, remaining>>

(* Slip: one sweep per instant. *)
AfterOneSweep == IF remaining = 0 THEN "done" ELSE "advance"

(* The last core's turn ends the sweep: another one if it changed anything, *)
(* otherwise the call returns or looks for the next event.                  *)
AfterSweep ==
  IF progress THEN "retire" ELSE IF remaining = 0 THEN "done" ELSE "advance"

DispatcherStops(c) ==
  /\ pc = "issue" /\ Turn(c, CoreOf)
  /\ ~ \E i \in waiting : CanIssue(c, i)
  /\ Leave(c, AfterSweep, IF progress THEN Units ELSE {})
  /\ progress' = IF todo = {c} THEN FALSE ELSE progress
  /\ UNCHANGED <<job, times, now, waiting, inflight, freeAt, occ, remaining>>

-----------------------------------------------------------------------------
(* The event list, rebuilt whenever a sweep has changed nothing. *)

(* When the first result of every streamed producer of h will be there.    *)
Feeds(h)   == {startTime[s] + job.latency[h] : s \in job.streams[h]}
ReadyFirst(h) == Min(Feeds(h))   \* slip: the first producer's, not the last's
ReadyAt(h) == Max(Feeds(h))

AwaitsFeeds(h) ==
  /\ \A d \in DepsOf(h) : Retired(d)
  /\ \A s \in job.streams[h] : Started(s)
  /\ job.streams[h] # {}

(* Slips: a wake that is not in the future; an event that is; no wake-up   *)
(* for a stream's fill latency, the code the comment at line 142 explains. *)
WakesOfPast(u) ==
  IF inflight[u] = << >> THEN {}
  ELSE LET h == Head(inflight[u])
       IN  IF Started(h) THEN {t \in {endTime[h]} : t > now}
           ELSE {freeAt[u]} \cup {t \in {ReadyAt(k) : k \in {k \in {h} : AwaitsFeeds(k)}} : t > now}

WakesOfNow(u) ==
  IF inflight[u] = << >> THEN {}
  ELSE LET h == Head(inflight[u])
       IN  IF Started(h) THEN {t \in {endTime[h]} : t >= now}
           ELSE {t \in {ReadyAt(k) : k \in {k \in {h} : AwaitsFeeds(k)}} : t > now}

WakesOfEnds(u) ==
  IF inflight[u] = << >> THEN {}
  ELSE LET h == Head(inflight[u])
       IN  IF Started(h) THEN {t \in {endTime[h]} : t > now}
           ELSE {t \in {freeAt[u]} : t > now}

WakesOf(u) ==
  IF inflight[u] = << >> THEN {}
  ELSE LET h == Head(inflight[u])
       IN  {t \in IF Started(h) THEN IF Retired(h) THEN {} ELSE {endTime[h]}
                  ELSE {freeAt[u]} \cup IF AwaitsFeeds(h) THEN {ReadyAt(h)} ELSE {} :
              t > now}

Wakes == UNION {WakesOf(u) : u \in Units}

AdvanceClock ==
  /\ pc = "advance"
  /\ \E t \in Wakes : (\A x \in Wakes : t <= x) /\ now' = t
  /\ pc' = "retire"
  /\ todo' = Units
  /\ UNCHANGED <<job, times, progress, waiting, inflight, freeAt, occ,
                 remaining>>

RaiseDeadlock ==
  /\ pc = "advance"
  /\ Wakes = {}
  /\ pc' = "deadlock"
  /\ UNCHANGED <<job, times, todo, progress, now, waiting, inflight, freeAt,
                 occ, remaining>>

Outcomes == {"done", "deadlock", "raised"}

Finished == pc \in Outcomes /\ UNCHANGED vars

Next ==
  \/ \E u \in Units : RetireHead(u)
  \/ \E u \in Units : RetireSkips(u)
  \/ \E u \in Units : StartHead(u)
  \/ \E u \in Units : StartFaults(u)
  \/ \E u \in Units : StartSkips(u)
  \/ \E c \in Cores : IssueNext(c)
  \/ \E c \in Cores : DispatcherStops(c)
  \/ AdvanceClock
  \/ RaiseDeadlock
  \/ Finished

Spec == Init /\ [][Next]_vars

(* Slip: when the last instruction of the list retired. *)
TotalOfLast == retireTime[job.n]

(* total_cycles(): the latest retirement, or end where there is none. *)
TotalCycles ==
  Max({0} \cup {IF Retired(i) THEN retireTime[i] ELSE endTime[i] :
                  i \in {k \in Instrs : Retired(k) \/ endTime[k] # None}})

-----------------------------------------------------------------------------
(***************************************************************************)
(*                              Properties                                 *)
(***************************************************************************)

(* The types of the state.  No start or retirement, and no unit's free_at, *)
(* is ever ahead of the clock: the clock never runs backwards.             *)
TypeOK ==
  /\ IsJob(job)
  /\ now \in Nat
  /\ startTime \in [0 .. job.n -> (0 .. now) \cup {None}]
  /\ endTime \in [0 .. job.n -> Nat \cup {None}]
  /\ retireTime \in [0 .. job.n -> (0 .. now) \cup {None}]
  /\ freeAt \in [Unit -> 0 .. now]
  /\ pc \in {"retire", "start", "issue", "advance"} \cup Outcomes
  /\ todo \subseteq Units \cup Cores
  /\ progress \in BOOLEAN
  /\ waiting \subseteq Instrs
  /\ inflight \in [Unit -> Seq(Instrs)]
  /\ occ \in [Unit -> Int]
  /\ remaining \in Int

(* No instruction is lost, queued twice or run by another unit: it waits   *)
(* for its dispatcher, or is in the queue of its own unit, in list order   *)
(* and with only the head started, or has retired.  No queue outgrows the  *)
(* unit's queue_depth, and remaining counts what has not retired.          *)
SomewhereOnce ==
  \A i \in Instrs :
    \/ i \in waiting /\ ~Started(i) /\ ~Retired(i)
    \/ /\ i \notin waiting /\ ~Retired(i)
       /\ \E k \in 1 .. Len(inflight[job.unit[i]]) : inflight[job.unit[i]][k] = i
    \/ i \notin waiting /\ Started(i) /\ Retired(i)

QueuesInOrder ==
  \A u \in Unit :
    /\ Len(inflight[u]) <= job.depth[u]
    /\ \A k \in 1 .. Len(inflight[u]) :
         /\ job.unit[inflight[u][k]] = u
         /\ inflight[u][k] \notin waiting /\ ~Retired(inflight[u][k])
         /\ k > 1 => ~Started(inflight[u][k])
         /\ \A m \in 1 .. k - 1 : inflight[u][m] < inflight[u][k]

Accounted ==
  /\ SomewhereOnce
  /\ QueuesInOrder
  /\ remaining = Cardinality({i \in Instrs : ~Retired(i)})

(* A unit runs its instructions one at a time and in list order, blocking  *)
(* after service: the next one starts only when all before it have retired,*)
(* whatever queues, dispatchers and buffers did in between.                *)
ProgramOrder ==
  \A i, j \in Instrs :
    i < j /\ job.unit[i] = job.unit[j] /\ Started(j) =>
      Retired(i) /\ retireTime[i] <= startTime[j]

(* The timestamps respect the data flow: a consumer starts after its       *)
(* inputs have retired, or after its streamed producers' first results     *)
(* have crossed the link, and never retires before their last ones did.    *)
DataflowTiming ==
  \A i \in Instrs : Started(i) =>
    /\ \A d \in DepsOf(i) : Retired(d) /\ endTime[d] <= startTime[i]
    /\ \A s \in job.streams[i] :
         /\ Started(s) /\ startTime[s] + job.latency[i] <= startTime[i]
         /\ Retired(i) => endTime[s] + job.latency[i] <= retireTime[i]

(* The results in buffer b that some reader still has to pick up.          *)
Live(b) ==
  {i \in Instrs : /\ Retired(i) /\ job.dst[i] = b
                  /\ Readers(i) = {} \/ \E r \in Readers(i) : ~Started(r)}

(* The slot counters, bumped at retirements and decremented at starts of   *)
(* other units' instructions, count the live results of each buffer, and   *)
(* these always fit its queue_depth, when no result is read twice.  (A call*)
(* that cost() throws out of has not given back the slots of that start;   *)
(* its counters die with it.)                                              *)
BufferWithinCapacity ==
  SingleReader /\ pc # "raised" =>
    \A b \in Unit : /\ occ[b] = Cardinality(Live(b))
                    /\ occ[b] > 0 => occ[b] <= job.depth[b]

(* storage.py promises the same of every program: queue_depth is how many  *)
(* live results a buffer can hold.                                         *)
LiveResultsFit ==
  \A b \in Unit : Live(b) # {} => Cardinality(Live(b)) <= job.depth[b]

(* Nothing can ever happen to the head of u's queue again, however far the *)
(* clock runs, unless another unit moves first.                            *)
Blocked(u) ==
  inflight[u] # << >> =>
    LET h == Head(inflight[u])
    IN  IF Started(h) THEN endTime[h] <= now /\ ~HasFreeSlot(job.dst[h])
        ELSE \/ \E d \in DepsOf(h) : ~Retired(d)
             \/ \E s \in job.streams[h] : ~Started(s)

(* RuntimeError("deadlock") is never a false alarm: there is work left, and*)
(* every unit is blocked on another one and every dispatcher on a full     *)
(* queue, so waiting longer could not have helped.                         *)
DeadlockIsReal ==
  pc = "deadlock" =>
    /\ \E i \in Instrs : ~Retired(i)
    /\ \A u \in Units : Blocked(u)
    /\ \A i \in waiting : \E k \in waiting :
         /\ k <= i /\ CoreOf[k] = CoreOf[i]
         /\ Len(inflight[job.unit[k]]) >= job.depth[job.unit[k]]

(* A program whose lists are in producer-before-consumer order, on queues  *)
(* that hold something and buffers that hold everything, never deadlocks:  *)
(* in-order issue with head-of-line blocking cannot wedge it by itself.    *)
WellOrderedNeverDeadlocks == WellOrdered => pc # "deadlock"

(* The clock jumps over nothing: at no instant it skips could a unit have  *)
(* retired or started its head (the comment on a stream's fill latency).   *)
NoMissedWakeup ==
  [][\A t \in now + 1 .. now' - 1 : \A u \in Units :
       ~CanRetire(u, t) /\ ~CanStart(u, t)]_vars

(* Where dispatchers never stall, every instruction starts at the earliest *)
(* cycle its unit and inputs allow, and where its destination never blocks *)
(* it retires the cycle it ends: the sweeps and clock jumps add no delay.  *)
EarliestStart(i) ==
  Max({0} \cup {retireTime[k] : k \in {k \in 1 .. i - 1 : job.unit[k] = job.unit[i]}}
          \cup {retireTime[d] : d \in DepsOf(i)}
          \cup {startTime[s] + job.latency[i] : s \in job.streams[i]})

EagerTiming ==
  \A i \in Instrs :
    /\ RoomyQueues /\ Started(i) => startTime[i] = EarliestStart(i)
    /\ Retired(i) /\ job.dst[i] = None => retireTime[i] = endTime[i]

(* The number simulate() returns is the clock when the last instruction    *)
(* retired, and no instruction of the list was left behind.                *)
TotalIsLastRetirement ==
  pc = "done" => /\ \A i \in Instrs : Retired(i) /\ endTime[i] <= retireTime[i]
                 /\ TotalCycles = now

(* The simulator implements the blocking-after-service machine of module   *)
(* BAS on every program in which no result is read twice.                  *)
Contract == INSTANCE BAS WITH
  queue <- inflight,
  started <- {i \in Instrs : Started(i)},
  retired <- {i \in Instrs : Retired(i)}

ImplementsBAS ==
  /\ SingleReader => Contract!Init
  /\ [][SingleReader => Contract!Next]_(Contract!vars)
=============================================================================
