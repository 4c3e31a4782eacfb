-------------------------------- MODULE BAS --------------------------------
(***************************************************************************)
(* What engine.py's header promises of the simulated machine, without time *)
(* and without the order in which the simulator looks at it:               *)
(*                                                                         *)
(*   - each core's dispatcher issues its instructions in program order to  *)
(*     bounded queues, and stalls at the first full one;                   *)
(*   - a unit runs the instructions of its queue one at a time, in order;  *)
(*   - an instruction starts once its inputs are complete (or, streamed,   *)
(*     have started);                                                      *)
(*   - blocking after service: it retires, and lets the next one start,    *)
(*     only when its destination buffer has room for one more live result. *)
(*                                                                         *)
(* A result is live from its retirement until each of its readers started. *)
(***************************************************************************)
EXTENDS Program

VARIABLES
  waiting,   \* instructions that have not been issued
  queue,     \* the in-order queue of each unit
  started,   \* instructions that have started, and those that have retired
  retired

vars == <<job, waiting, queue, started, retired>>

Live(b) ==
  {i \in retired : job.dst[i] = b /\ (Readers(i) = {} \/ ~ Readers(i) \subseteq started)}

Init ==
  /\ IsJob(job)
  /\ waiting = Instrs
  /\ queue = [u \in Unit |-> << >>]
  /\ started = {} /\ retired = {}

Issue(i) ==
  /\ i \in waiting
  /\ \A k \in waiting : CoreOf[k] = CoreOf[i] => i <= k
  /\ Len(queue[job.unit[i]]) < job.depth[job.unit[i]]
  /\ queue' = [queue EXCEPT ![job.unit[i]] = Append(@, i)]
  /\ waiting' = waiting \ {i}
  /\ UNCHANGED <<job, started, retired>>

Start(u) ==
  /\ queue[u] # << >>
  /\ LET h == Head(queue[u])
     IN  /\ h \notin started
         /\ DepsOf(h) \subseteq retired
         /\ job.streams[h] \subseteq started
         /\ started' = started \cup {h}
  /\ UNCHANGED <<job, waiting, queue, retired>>

Retire(u) ==
  /\ queue[u] # << >>
  /\ LET h == Head(queue[u])
     IN  /\ h \in started
         /\ job.dst[h] # None => Cardinality(Live(job.dst[h])) < job.depth[job.dst[h]]
         /\ retired' = retired \cup {h}
  /\ queue' = [queue EXCEPT ![u] = Tail(@)]
  /\ UNCHANGED <<job, waiting, started>>

Next ==
  \/ \E i \in Instrs : Issue(i)
  \/ \E u \in Units : Start(u) \/ Retire(u)

Spec == Init /\ [][Next]_vars
=============================================================================
