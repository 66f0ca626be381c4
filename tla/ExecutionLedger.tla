--------------------------- MODULE ExecutionLedger ---------------------------
(***************************************************************************)
(* Lifecycle telemetry (agentic/execution.py).  A run's start and terminal *)
(* events are put on one bounded FIFO queue without waiting; a few workers *)
(* take them off and post them.  A terminal job first waits, for a limited *)
(* time, until its start's attempt is over.  A post that timed out may     *)
(* still be on the wire and reach the gateway afterwards.                  *)
(***************************************************************************)
EXTENDS Naturals, Sequences

CONSTANTS
  Outcomes,    \* terminal events
  Frames,      \* one per top-level run
  Workers,     \* _EVENT_WORKERS threads
  QueueMax,    \* _EVENT_QUEUE_MAX
  Nothing

Jobs == [kind : {"start"}, frame : Frames, event : {"start"}]
          \cup [kind : {"finish"}, frame : Frames, event : Outcomes]

ASSUME QueueAssumption   == QueueMax \in Nat
ASSUME NothingAssumption == Nothing \notin Jobs

VARIABLES
  run,         \* what the application has done with each frame
  queue,       \* _event_queue: jobs in the order they were put
  job,         \* the job each worker has taken
  step,        \* what the worker is doing with it
  delivered,   \* frames whose start_delivered is set
  wire,        \* posts under way to the gateway
  ledger,      \* events the gateway has received, in order
  finalizing,  \* the interpreter is finalizing
  late,        \* history: frames whose start was given up on while under way
  lost         \* history: jobs that ended without a post, or never queued

vars == <<run, queue, job, step, delivered, wire, ledger, finalizing, late, lost>>

TypeOK ==
  /\ run \in [Frames -> {"new", "open", "closed"}]
  /\ queue \in Seq(Jobs) /\ Len(queue) <= QueueMax
  /\ job \in [Workers -> Jobs \cup {Nothing}]
  /\ step \in [Workers -> {"idle", "describe", "wait", "post"}]
  /\ delivered \in SUBSET Frames
  /\ wire \in SUBSET Jobs
  /\ ledger \in Seq(Jobs)
  /\ finalizing \in BOOLEAN
  /\ late \in SUBSET Frames
  /\ lost \in SUBSET Jobs

Init ==
  /\ run = [f \in Frames |-> "new"] /\ queue = <<>> /\ job = [w \in Workers |-> Nothing]
  /\ step = [w \in Workers |-> "idle"]
  /\ delivered = {} /\ wire = {} /\ ledger = <<>> /\ late = {} /\ lost = {}
  /\ finalizing = FALSE

Start(f)      == [kind |-> "start", frame |-> f, event |-> "start"]
Finish(f, ev) == [kind |-> "finish", frame |-> f, event |-> ev]

----------------------------------------------------------------------------
(* The application's side: two calls that never wait. *)

\* Mutant: the queue has no bound.
AcceptsAlways == ~finalizing

\* _dispatch: put_nowait, or the event is dropped.
Accepts == ~finalizing /\ Len(queue) < QueueMax

Dispatch(j) ==
  IF Accepts
  THEN queue' = Append(queue, j) /\ UNCHANGED lost
  ELSE lost' = lost \cup {j} /\ UNCHANGED queue

\* _emit_start: a start that was never scheduled must not be waited for.
EmitStart(f) ==
  /\ run[f] = "new" /\ run' = [run EXCEPT ![f] = "open"]
  /\ Dispatch(Start(f))
  /\ delivered' = IF Accepts THEN delivered ELSE delivered \cup {f}
  /\ UNCHANGED <<job, step, wire, ledger, finalizing, late>>

\* _emit_finish
EmitFinish(f, ev) ==
  /\ run[f] = "open" /\ run' = [run EXCEPT ![f] = "closed"]
  /\ Dispatch(Finish(f, ev))
  /\ UNCHANGED <<job, step, delivered, wire, ledger, finalizing, late>>

\* The interpreter begins to finalize.
Finalize ==
  /\ ~finalizing /\ finalizing' = TRUE
  /\ UNCHANGED <<run, queue, job, step, delivered, wire, ledger, late, lost>>

----------------------------------------------------------------------------
(* The workers. *)

Doing(w, kind, s) == /\ step[w] = s /\ job[w] # Nothing /\ job[w].kind = kind

\* The job's end: a start's finally sets start_delivered.
EndJob(w) ==
  /\ job' = [job EXCEPT ![w] = Nothing]
  /\ step' = [step EXCEPT ![w] = "idle"]
  /\ delivered' = IF job[w].kind = "start" THEN delivered \cup {job[w].frame} ELSE delivered

\* Mutant: the newest job first.
TakeNewest(w) ==
  /\ step[w] = "idle" /\ queue # <<>>
  /\ job' = [job EXCEPT ![w] = queue[Len(queue)]]
  /\ step' = [step EXCEPT ![w] = IF job'[w].kind = "start" THEN "describe" ELSE "wait"]
  /\ queue' = SubSeq(queue, 1, Len(queue) - 1)
  /\ UNCHANGED <<run, delivered, wire, ledger, finalizing, late, lost>>

\* _event_worker takes the oldest job.
Take(w) ==
  /\ step[w] = "idle" /\ queue # <<>>
  /\ job' = [job EXCEPT ![w] = Head(queue)]
  /\ step' = [step EXCEPT ![w] = IF Head(queue).kind = "start" THEN "describe" ELSE "wait"]
  /\ queue' = Tail(queue)
  /\ UNCHANGED <<run, delivered, wire, ledger, finalizing, late, lost>>

\* The request leaves ...
Post(w) ==
  /\ step' = [step EXCEPT ![w] = "post"]
  /\ wire' = wire \cup {job[w]}
  /\ UNCHANGED <<run, queue, job, delivered, ledger, finalizing, lost>>

\* Mutant: a job that raises ends its worker.
GiveUpForGood(w) ==
  /\ job' = [job EXCEPT ![w] = Nothing] /\ step' = [step EXCEPT ![w] = "gone"]
  /\ delivered' = delivered \cup {job[w].frame} /\ lost' = lost \cup {job[w]}
  /\ UNCHANGED <<run, queue, wire, ledger, finalizing, late>>

\* ... or describing the graph or building the headers raised.
GiveUp(w) ==
  /\ EndJob(w)
  /\ lost' = lost \cup {job[w]}
  /\ UNCHANGED <<run, queue, wire, ledger, finalizing, late>>

\* _post_start
PostStart(w) ==
  /\ Doing(w, "start", "describe")
  /\ (Post(w) /\ UNCHANGED late) \/ GiveUp(w)

\* Mutant: a terminal job is posted without waiting for its start.
PostFinishAtOnce(w) ==
  /\ Doing(w, "finish", "wait")
  /\ (Post(w) /\ UNCHANGED late) \/ GiveUp(w)

\* _post_finish: start_delivered is set, or the wait has run out.
PostFinish(w) ==
  /\ Doing(w, "finish", "wait")
  /\ \/ /\ Post(w)
        /\ late' = IF job[w].frame \in delivered THEN late ELSE late \cup {job[w].frame}
     \/ GiveUp(w)

\* _post_event gets its answer, whatever the status.
Answered(w) ==
  /\ step[w] = "post"
  /\ job[w] \in {ledger[i] : i \in DOMAIN ledger}
  /\ EndJob(w)
  /\ UNCHANGED <<run, queue, wire, ledger, finalizing, late, lost>>

\* _post_event times out; the request may still be under way.
TimesOut(w) ==
  /\ step[w] = "post" /\ job[w] \in wire
  /\ EndJob(w)
  /\ late' = IF job[w].kind = "start" THEN late \cup {job[w].frame} ELSE late
  /\ UNCHANGED <<run, queue, wire, ledger, finalizing, lost>>

\* The network: a request arrives.  One that is lost stays on the wire.
Arrive(m) ==
  /\ m \in wire
  /\ wire' = wire \ {m}
  /\ ledger' = Append(ledger, m)
  /\ UNCHANGED <<run, queue, job, step, delivered, finalizing, late, lost>>

WorkerStep(w) == Take(w) \/ PostStart(w) \/ PostFinish(w) \/ Answered(w) \/ TimesOut(w)

Next ==
  \/ \E f \in Frames : EmitStart(f) \/ \E ev \in Outcomes : EmitFinish(f, ev)
  \/ Finalize
  \/ \E w \in Workers : WorkerStep(w)
  \/ \E m \in wire : Arrive(m)

Spec     == Init /\ [][Next]_vars
FairSpec == Spec /\ \A w \in Workers : WF_vars(WorkerStep(w))

----------------------------------------------------------------------------
(* Properties. *)

\* The order _post_finish's wait is there for: the gateway hears of a run's
\* end before its start only when that wait ran out, or the start's own post
\* had timed out (execution.py:391-413).
EndAfterStart ==
  \A i, j \in DOMAIN ledger :
    (i < j /\ ledger[i].kind = "finish" /\ ledger[j].kind = "start"
       /\ ledger[i].frame = ledger[j].frame) => ledger[i].frame \in late

\* A terminal job waits for a start some worker has in hand, never for one
\* that still stands in the queue, so the workers cannot all wait for jobs
\* nobody is left to take (execution.py:288-340).
NobodyWaitsForTheQueue ==
  \A w \in Workers : Doing(w, "finish", "wait") =>
    /\ \A i \in DOMAIN queue : queue[i] # Start(job[w].frame)
    /\ job[w].frame \notin delivered =>
         \E v \in Workers : job[v] = Start(job[w].frame)

\* Both: a run's end follows its start except after the bounded wait, and that
\* wait always has somebody to end it (execution.py:366-413).
TerminalFollowsStart == EndAfterStart /\ NobodyWaitsForTheQueue

\* Every event that was queued is tried, whatever becomes of the others
\* (execution.py:325-340).
EventsAreTried == queue # <<>> ~> queue = <<>>
=============================================================================
