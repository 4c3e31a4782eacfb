------------------------------ MODULE Session ------------------------------
(***************************************************************************)
(* Two calls of simulate() (arch_sim/sim/engine.py) in one script.  The    *)
(* call keeps its queues, clock and slot counters in locals, but it writes *)
(* start_time, end_time and retire_time into the instructions, where the   *)
(* second call finds them.  It is made                                     *)
(*                                                                         *)
(*    "again"  with the same instructions (Sim.run() called twice);        *)
(*    "wider"  with new instructions for the same program, on the chip with*)
(*             some queue_depth raised (examples/run_issue_depth.py);      *)
(*    "next"   with the instructions of another list, one of which depends *)
(*             on a retired instruction of the first.                      *)
(*                                                                         *)
(* Both calls are calls of module Engine, whose actions are taken as they  *)
(* are.                                                                    *)
(***************************************************************************)
EXTENDS Engine

CONSTANT Followers   \* the lists a "next" call may be made with

ASSUME FollowersAssumption == \A j \in Followers : IsJob(j)

VARIABLES
  call,   \* "first", or how the second call was made
  first   \* what the first call left behind, None while it runs

session == <<call, first>>

SessionInit == Init /\ call = "first" /\ first = None

-----------------------------------------------------------------------------
(* The second call.  Its locals are fresh, whatever the first one left.    *)

Calls(j) ==
  /\ pc' = "retire"
  /\ todo' = {j.unit[i] : i \in 1 .. j.n}
  /\ progress' = FALSE
  /\ now' = 0
  /\ waiting' = 1 .. j.n
  /\ inflight' = [u \in Unit |-> << >>]
  /\ freeAt' = [u \in Unit |-> 0]
  /\ occ' = [u \in Unit |-> 0]
  /\ remaining' = j.n

Remembers ==
  first' = [start |-> startTime, end |-> endTime, retire |-> retireTime, depth |-> job.depth]

CallAgain ==
  /\ call = "first" /\ pc \in Outcomes /\ job.n > 0
  /\ call' = "again" /\ Remembers
  /\ Calls(job)
  /\ UNCHANGED <<job, times>>

(* The queues of some units, or all buffers, get one more slot.            *)
CallWider ==
  /\ call = "first" /\ pc = "done" /\ job.n > 0
  /\ \E W \in (SUBSET Units \cup {Buffers}) \ {{}} :
       job' = [job EXCEPT !.depth = [u \in Unit |-> IF u \in W THEN @[u] + 1 ELSE @[u]]]
  /\ call' = "wider" /\ Remembers
  /\ Calls(job)
  /\ LET unset == [i \in 0 .. job.n |-> None]
     IN  startTime' = unset /\ endTime' = unset /\ retireTime' = unset

(* What Outside is in this list is one of the first call's instructions.   *)
CallNext ==
  /\ call = "first" /\ pc = "done"
  /\ \E j \in Followers, d \in Instrs :
       LET Carried(time) == [i \in 0 .. j.n |-> IF i = 0 THEN time[d] ELSE None]
       IN  /\ job.dst[d] = None
           /\ job' = j
           /\ startTime' = Carried(startTime)
           /\ endTime' = Carried(endTime)
           /\ retireTime' = Carried(retireTime)
           /\ Calls(j)
  /\ call' = "next" /\ Remembers

(* The head of u's queue, or a streamed producer of it, was started by a   *)
(* call that its cost() threw out of: it has a start_time and no end_time. *)
MeetsNoEnd(u) ==
  /\ inflight[u] # << >>
  /\ LET h == Head(inflight[u])
     IN  \/ pc = "retire" /\ Started(h) /\ ~Retired(h) /\ endTime[h] = None
         \/ pc = "start" /\ CanStart(u, now) /\ \E s \in job.streams[h] : endTime[s] = None

(* None <= now, or None + stream_latency, is a TypeError.                  *)
TypeErrorRaised(u) ==
  /\ Turn(u, job.unit) /\ MeetsNoEnd(u)
  /\ startTime' = IF pc = "start" THEN [startTime EXCEPT ![Head(inflight[u])] = now]
                  ELSE startTime
  /\ pc' = "raised"
  /\ UNCHANGED <<job, endTime, retireTime, todo, progress, now, waiting, inflight,
                 freeAt, occ, remaining, session>>

Runs == (\A u \in Units : ~ (Turn(u, job.unit) /\ MeetsNoEnd(u))) /\ Next /\ UNCHANGED session

SessionNext ==
  \/ Runs
  \/ \E u \in Units : TypeErrorRaised(u)
  \/ CallAgain
  \/ CallWider
  \/ CallNext

SessionSpec == SessionInit /\ [][SessionNext]_<<vars, session>>

(* Nothing suspends a call; nobody has to make a second one. *)
FairSession ==
  SessionSpec /\ WF_<<vars, session>>(Runs \/ \E u \in Units : TypeErrorRaised(u))

-----------------------------------------------------------------------------
(***************************************************************************)
(*                              Properties                                 *)
(***************************************************************************)

(* Every call ends, on any program, and also on instructions that carry    *)
(* the times of an earlier call, whether that returned, found a deadlock or*)
(* was thrown out of half way.                                             *)
CallsEnd == pc \notin Outcomes ~> pc \in Outcomes

(* Instructions cannot be run again (simulate() resets no times), but the  *)
(* attempt is loud: it never returns a total, which would be the first     *)
(* call's.                                                                 *)
ReuseFailsLoudly == call = "again" => pc # "done"

(* ... and harmless: no time of an instruction that has retired is ever    *)
(* written again, so the first call's results can still be read.           *)
ResultsKept ==
  [][call' = "again" =>
       \A i \in Instrs : Retired(i) =>
         startTime'[i] = startTime[i] /\ endTime'[i] = endTime[i]
           /\ retireTime'[i] = retireTime[i]]_<<vars, session>>

(***************************************************************************)
(* One more slot never hurts: if a call returned, the one on the wider     *)
(* chip returns as well, and no instruction starts, ends or retires later  *)
(* than in the first.  This holds for OrderedBuffers.  Where two units     *)
(* share a tight buffer, more room before it may let one of them take the  *)
(* slot that the other needs first.                                        *)
(***************************************************************************)
WideningHelps ==
  call = "wider" /\ OrderedBuffers =>
    /\ pc \notin {"deadlock", "raised"}
    /\ \A i \in Instrs :
         /\ Started(i) => startTime[i] <= first.start[i] /\ endTime[i] <= first.end[i]
         /\ Retired(i) => retireTime[i] <= first.retire[i]

(* engine.py, on the event list: a head that is "blocked only on time" gets*)
(* a wake at that time, so a deadlock is reported only where every head    *)
(* waits for an instruction that has not retired or not started.           *)
OnlyTimeNeverDeadlocks ==
  pc = "deadlock" =>
    \A u \in Units : inflight[u] # << >> =>
      LET h == Head(inflight[u])
      IN  \/ Started(h)
          \/ \E d \in DepsOf(h) : ~Retired(d)
          \/ \E s \in job.streams[h] : ~Started(s)
=============================================================================
