------------------------------ MODULE Discovery ------------------------------
(***************************************************************************)
(* Blueprint discovery: how a program's topology is reported to the        *)
(* gateway's registry, once per manifest and dedupe window, by the threads *)
(* of one process (agentic/registry.py: discover, its dedupe marks, its    *)
(* report flights, its background slots), and how a framework's run        *)
(* boundary waits for that report before application code runs             *)
(* (agentic/enforcement.py: report_topology, ensure_topology_reported).    *)
(*                                                                         *)
(* One engine is modelled: the dedupe key of the code is scoped to it.  A  *)
(* key stands for the hash of one complete manifest.                       *)
(***************************************************************************)
EXTENDS Integers, FiniteSets

CONSTANTS
  Reporters,     \* application threads that call the SDK
  Keys,          \* dedupe keys, one per distinct manifest
  Objects,       \* framework objects that can carry the reported marker
  Flights,       \* pool of _ReportFlight objects (one per background report)
  None,          \* no flight, no object, no key (Python's None)
  InflightMax,   \* _INFLIGHT_MAX
  SeenMax,       \* _SEEN_MAXSIZE
  Modes,         \* which calls are made: "run" (a run boundary, sync=True) and
                 \* "background" (a plain discover, sync=False)
  Scoped,        \* reporters that call inside one security_scope
  Interruptible, \* reporters a KeyboardInterrupt can reach (the main thread)
  MaxForget,     \* bound: marks that age out plus calls of reset_dedupe
  MaxFlips       \* bound: changes of the workspace's security setting

ASSUME LimitsAssumption ==
  /\ InflightMax \in Nat \ {0}
  /\ SeenMax \in Nat \ {0}
  /\ MaxForget \in Nat
  /\ MaxFlips \in Nat

ASSUME CallersAssumption ==
  /\ Modes \subseteq {"run", "background"}
  /\ Scoped \subseteq Reporters
  /\ Interruptible \subseteq Reporters

ASSUME FiniteAssumption == IsFiniteSet(Reporters) /\ IsFiniteSet(Flights)

ASSUME NoneAssumption == None \notin Flights \union Objects \union Keys

VARIABLES
  seen,          \* _seen: per key no mark, a mark inside the window, an old one
  reportFlights, \* _report_flights: key -> the unfinished background report
  inflight,      \* _inflight: background slots taken
  flight,        \* completion state of each flight object
  pc,            \* where each reporter thread is
  call,          \* arguments and locals of each reporter's current call
  job,           \* where the background thread of each flight is
  jobResult,     \* result of that thread's post, for its finally block
  jobKey,        \* the key that thread reports
  captured,      \* manifests whose tools are in _registration_captured_tools
  marker,        \* _deepintshield_reported_blueprint of each object
  acked,         \* history: manifests the gateway acknowledged
  security,      \* the workspace's Agentic Security setting at the gateway
  forgets, flips \* how often the bounded environment steps happened

local == <<pc, call>>
jobs  == <<job, jobResult, jobKey>>
env   == <<security, forgets, flips>>
vars  == <<seen, reportFlights, inflight, flight, local, jobs,
           captured, marker, acked, env>>

SyncPcs  == {"post", "settle", "wait", "record"}
AsyncPcs == {"spawn", "start", "unslot", "unmark", "close", "pop"}
ReporterPcs == {"idle", "check", "mark", "lookup", "running"} \union SyncPcs \union AsyncPcs
JobPcs == {"none", "post", "settle", "close", "pop", "release"}

Results == {"none", "native", "known", "skipped", "accepted", "deduped", "error"}
Calls == [mode : {"run", "background"}, obj : Objects \union {None},
          key : Keys \union {None}, flight : Flights \union {None}, result : Results]
NewCall(mode, o, k, result) ==
  [mode |-> mode, obj |-> o, key |-> k, flight |-> None, result |-> result]
NoCall == NewCall("run", None, None, "none")

(* The marks the process can hold: time inside the 300 s window or past it. *)
MarkStates == {"absent", "fresh", "old"}
Fresh(k)   == seen[k] = "fresh"

(* A _ReportFlight: not completed, or completed with its succeeded field.  *)
FlightStates == {"open", "succeeded", "failed"}

(* A flight object nothing refers to any more can be allocated again. *)
Unreferenced(f) ==
  /\ job[f] = "none"
  /\ \A k \in Keys : reportFlights[k] # f
  /\ \A r \in Reporters : call[r].flight # f
ANewFlight == CHOOSE f \in Flights : Unreferenced(f)

Goto(r, label) == pc' = [pc EXCEPT ![r] = label]
Return(r, label, result) ==
  /\ Goto(r, label)
  /\ call' = [call EXCEPT ![r].result = result, ![r].flight = None]

-----------------------------------------------------------------------------
(* The gateway's answer to one report.  A reply that never arrives, or is  *)
(* no JSON, is "lost"; status >= 300 or failed workload proof is "refused". *)
Replies ==
  [http : {"ok"}, error : BOOLEAN, registration : {"", "pending", "denied"},
   scan : {"complete", "model_pending", "model_failed"},
   review : {"", "pending", "denied"}]
  \union
  [http : {"lost", "refused"}, error : {FALSE}, registration : {""},
   scan : {"complete"}, review : {""}]

(* Variant: an answer counts before its scanners have finished. *)
AcceptedEarly(reply) ==
  reply.http = "ok" /\ ~reply.error /\ (reply.registration = "" => reply.review = "")

(* What _post_discover_request returns for a reply: no "error" field. *)
Accepted(reply) ==
  /\ reply.http = "ok"
  /\ ~reply.error
  /\ reply.scan \notin {"model_pending", "model_failed"}
  /\ reply.registration = "" => reply.review \notin {"pending", "denied"}

(* What the gateway means by a durable acknowledgement: every scanner has  *)
(* finished and no review of changed code of a registered agent is open.   *)
Acknowledges(reply) ==
  /\ reply.http = "ok" /\ ~reply.error /\ reply.scan = "complete"
  /\ reply.review = "" \/ reply.registration # ""

Acknowledged(k, reply) ==
  acked' = IF Acknowledges(reply) THEN acked \union {k} ELSE acked

-----------------------------------------------------------------------------
Init ==
  /\ seen = [k \in Keys |-> "absent"]
  /\ reportFlights = [k \in Keys |-> None]
  /\ inflight = 0
  /\ flight = [f \in Flights |-> "open"]
  /\ pc = [r \in Reporters |-> "idle"]
  /\ call = [r \in Reporters |-> NoCall]
  /\ job = [f \in Flights |-> "none"]
  /\ jobResult = [f \in Flights |-> "none"]
  /\ jobKey = [f \in Flights |-> None]
  /\ captured = {}
  /\ marker = [o \in Objects |-> None]
  /\ acked = {}
  /\ security \in {"enabled", "disabled"}
  /\ MaxFlips = 0 => security = "enabled"
  /\ forgets = 0
  /\ flips = 0

-----------------------------------------------------------------------------
(* A caller inside a security_scope keeps the value it entered with; any   *)
(* other call reads the gateway's current setting again.                   *)
SecurityEnabled(r) == r \in Scoped \/ security = "enabled"

(* A run boundary, ensure_topology_reported (obj given) or report_topology  *)
(* (obj = None): a disabled workspace runs natively, an object that carries *)
(* the marker of its current manifest runs at once, anything else is        *)
(* reported first.                                                          *)
CallRun(r) ==
  /\ "run" \in Modes
  /\ pc[r] = "idle"
  /\ \E o \in Objects \union {None}, k \in Keys :
       LET result == IF security = "disabled" THEN "native"
                     ELSE IF o # None /\ marker[o] = k THEN "known" ELSE "none"
       IN /\ call' = [call EXCEPT ![r] = NewCall("run", o, k, result)]
          /\ Goto(r, IF result = "none" THEN "check" ELSE "running")
  /\ UNCHANGED <<seen, reportFlights, inflight, flight, jobs, captured, marker, acked, env>>

(* An inventory report, discover(sync=False): no security check of its own. *)
CallBackground(r) ==
  /\ "background" \in Modes
  /\ pc[r] = "idle"
  /\ \E k \in Keys :
       call' = [call EXCEPT ![r] = NewCall("background", None, k, "none")]
  /\ Goto(r, "mark")
  /\ UNCHANGED <<seen, reportFlights, inflight, flight, jobs, captured, marker, acked, env>>

(* The later security checks of report_topology and of a sync discover: a  *)
(* setting read as disabled returns success, an unreadable one refuses.    *)
Check(r) ==
  /\ pc[r] = "check"
  /\ \/ SecurityEnabled(r) /\ Goto(r, "mark") /\ UNCHANGED call
     \/ ~SecurityEnabled(r) /\ Return(r, "record", "skipped")
     \/ r \notin Scoped /\ Return(r, "record", "error")
  /\ UNCHANGED <<seen, reportFlights, inflight, flight, jobs, captured, marker, acked, env>>

(* _should_report's room for one more mark: at the limit, drop every old   *)
(* mark without a flight; if that is not enough, one mark without a flight. *)
Pending(k)  == reportFlights[k] # None
Marked(s)   == {k \in Keys : s[k] # "absent"}
DropOld     == [k \in Keys |-> IF seen[k] = "old" /\ ~Pending(k) THEN "absent" ELSE seen[k]]
EvictedPending(s) == {[s EXCEPT ![k] = "absent"] : k \in Marked(s)} \* variant: no flight check
Evicted(s)  == {[s EXCEPT ![k] = "absent"] : k \in {m \in Marked(s) : ~Pending(m)}}
RoomFor ==
  IF Cardinality(Marked(seen)) < SeenMax THEN {seen}
  ELSE IF Cardinality(Marked(DropOld)) < SeenMax \/ Evicted(DropOld) = {}
  THEN {DropOld}
  ELSE Evicted(DropOld)

(* _should_report: one lock region that finds a fresh mark, or makes room,  *)
(* marks the key and (background reports only) registers the flight.       *)
ShouldReport(r) ==
  LET k == call[r].key IN
  /\ pc[r] = "mark"
  /\ \/ /\ Fresh(k)
        /\ Goto(r, "lookup")
        /\ UNCHANGED <<seen, reportFlights, flight, call>>
     \/ /\ ~Fresh(k)
        /\ \E s \in RoomFor : seen' = [s EXCEPT ![k] = "fresh"]
        /\ IF call[r].mode = "run"
           THEN Goto(r, "post") /\ UNCHANGED <<reportFlights, flight, call>>
           ELSE LET f == ANewFlight IN
                /\ \E g \in Flights : Unreferenced(g)
                /\ reportFlights' = [reportFlights EXCEPT ![k] = f]
                /\ flight' = [flight EXCEPT ![f] = "open"]
                /\ call' = [call EXCEPT ![r].flight = f]
                /\ Goto(r, "spawn")
  /\ UNCHANGED <<inflight, jobs, captured, marker, acked, env>>

(* Variant: a run that finds a mark but no flight asks again. *)
LookupAgain(r) ==
  /\ pc[r] = "lookup"
  /\ IF Pending(call[r].key)
     THEN Return(r, "record", "error") ELSE Goto(r, "mark") /\ UNCHANGED call
  /\ UNCHANGED <<seen, reportFlights, inflight, flight, jobs, captured, marker, acked, env>>

(* The mark was there.  In a second lock region the caller asks who posts: *)
(* a background caller gives up, a run waits for that flight, and with no  *)
(* flight the manifest counts as reported.                                 *)
Lookup(r) ==
  LET k == call[r].key IN
  /\ pc[r] = "lookup"
  /\ \/ /\ Pending(k) /\ call[r].mode = "background"
        /\ Return(r, "record", "error") /\ UNCHANGED captured
     \/ /\ Pending(k) /\ call[r].mode = "run"
        /\ Goto(r, "wait") /\ call' = [call EXCEPT ![r].flight = reportFlights[k]]
        /\ UNCHANGED captured
     \/ /\ ~Pending(k)
        /\ Return(r, "record", "deduped") /\ captured' = captured \union {k}
  /\ UNCHANGED <<seen, reportFlights, inflight, flight, jobs, marker, acked, env>>

(* completed.wait(timeout + 0.25): the flight's result, or the time is up. *)
Await(r) ==
  LET f == call[r].flight IN
  /\ pc[r] = "wait"
  /\ \/ /\ flight[f] = "succeeded"
        /\ Return(r, "record", "deduped")
        /\ captured' = captured \union {call[r].key}
     \/ /\ flight[f] # "succeeded"
        /\ Return(r, "record", "error") /\ UNCHANGED captured
  /\ UNCHANGED <<seen, reportFlights, inflight, flight, jobs, marker, acked, env>>

-----------------------------------------------------------------------------
(* A run's own report: one post on the caller's thread. *)
SyncPost(r) ==
  /\ pc[r] = "post"
  /\ \/ /\ SecurityEnabled(r)
        /\ \E reply \in Replies :
             /\ Acknowledged(call[r].key, reply)
             /\ call' = [call EXCEPT ![r].result =
                           IF Accepted(reply) THEN "accepted" ELSE "error"]
     \/ /\ ~SecurityEnabled(r)
        /\ \E result \in {"skipped", "error"} :
             call' = [call EXCEPT ![r].result = result]
        /\ UNCHANGED acked
  /\ Goto(r, "settle")
  /\ UNCHANGED <<seen, reportFlights, inflight, flight, jobs, captured, marker, env>>

(* Variants: a failed post keeps its mark; a failed post seeds the tools. *)
SyncSettleKeepsMark(r) ==
  /\ pc[r] = "settle"
  /\ captured' = IF call[r].result = "error" THEN captured ELSE captured \union {call[r].key}
  /\ Goto(r, "record")
  /\ UNCHANGED <<seen, reportFlights, inflight, flight, call, jobs, marker, acked, env>>

SyncSettleSeeds(r) ==
  /\ pc[r] = "settle"
  /\ IF call[r].result = "error"
     THEN seen' = [seen EXCEPT ![call[r].key] = "absent"] ELSE UNCHANGED seen
  /\ captured' = captured \union {call[r].key}
  /\ Goto(r, "record")
  /\ UNCHANGED <<reportFlights, inflight, flight, call, jobs, marker, acked, env>>

(* An error takes the mark back, anything else (skipped too) seeds the     *)
(* captured tools.                                                         *)
SyncSettle(r) ==
  /\ pc[r] = "settle"
  /\ IF call[r].result = "error"
     THEN seen' = [seen EXCEPT ![call[r].key] = "absent"] /\ UNCHANGED captured
     ELSE captured' = captured \union {call[r].key} /\ UNCHANGED seen
  /\ Goto(r, "record")
  /\ UNCHANGED <<reportFlights, inflight, flight, call, jobs, marker, acked, env>>

(* Ctrl-C in a blocking call: KeyboardInterrupt leaves discover() at once. *)
Interrupt(r) ==
  /\ r \in Interruptible
  /\ pc[r] \in {"post", "wait"}
  /\ Goto(r, "idle")
  /\ call' = [call EXCEPT ![r] = NoCall]
  /\ UNCHANGED <<seen, reportFlights, inflight, flight, jobs, captured, marker, acked, env>>

(* Variant: the object is marked whatever the report said. *)
RecordAlways(r) ==
  LET c == call[r] IN
  /\ pc[r] = "record"
  /\ marker' = IF c.obj = None THEN marker ELSE [marker EXCEPT ![c.obj] = c.key]
  /\ IF c.result # "error" /\ c.mode = "run"
     THEN Goto(r, "running") /\ UNCHANGED call
     ELSE Goto(r, "idle") /\ call' = [call EXCEPT ![r] = NoCall]
  /\ UNCHANGED <<seen, reportFlights, inflight, flight, jobs, captured, acked, env>>

(* The caller's end: an error refuses the run (or is returned), success    *)
(* writes the object's marker and the application code runs.               *)
Record(r) ==
  LET c == call[r] IN
  /\ pc[r] = "record"
  /\ IF c.result # "error" /\ c.obj # None
     THEN marker' = [marker EXCEPT ![c.obj] = c.key] ELSE UNCHANGED marker
  /\ IF c.result # "error" /\ c.mode = "run"
     THEN Goto(r, "running") /\ UNCHANGED call
     ELSE Goto(r, "idle") /\ call' = [call EXCEPT ![r] = NoCall]
  /\ UNCHANGED <<seen, reportFlights, inflight, flight, jobs, captured, acked, env>>

Finish(r) ==
  /\ pc[r] = "running"
  /\ Goto(r, "idle")
  /\ call' = [call EXCEPT ![r] = NoCall]
  /\ UNCHANGED <<seen, reportFlights, inflight, flight, jobs, captured, marker, acked, env>>

-----------------------------------------------------------------------------
(* Variant: a report without a slot completes its flight but keeps its mark. *)
AcquireSlotKeepsMark(r) ==
  /\ pc[r] = "spawn"
  /\ IF inflight < InflightMax
     THEN inflight' = inflight + 1 /\ Goto(r, "start")
     ELSE Goto(r, "close") /\ UNCHANGED inflight
  /\ UNCHANGED <<seen, reportFlights, flight, call, jobs, captured, marker, acked, env>>

(* A background report: take a slot, start the thread.  No free slot, an   *)
(* interpreter that is finalizing (possible at any time) or a refused      *)
(* thread gives back what was taken and closes the flight.                 *)
AcquireSlot(r) ==
  /\ pc[r] = "spawn"
  /\ \/ /\ inflight < InflightMax
        /\ inflight' = inflight + 1
        /\ Goto(r, "start")
     \/ Goto(r, "unmark") /\ UNCHANGED inflight
  /\ UNCHANGED <<seen, reportFlights, flight, call, jobs, captured, marker, acked, env>>

(* Variant: a refused thread does not give its slot back. *)
StartThreadLeaks(r) ==
  LET f == call[r].flight IN
  /\ pc[r] = "start"
  /\ \/ /\ job' = [job EXCEPT ![f] = "post"]
        /\ jobResult' = [jobResult EXCEPT ![f] = "none"]
        /\ jobKey' = [jobKey EXCEPT ![f] = call[r].key]
        /\ Return(r, "record", "accepted")
     \/ Goto(r, "unmark") /\ UNCHANGED <<call, jobs>>
  /\ UNCHANGED <<seen, reportFlights, inflight, flight, captured, marker, acked, env>>

StartThread(r) ==
  LET f == call[r].flight IN
  /\ pc[r] = "start"
  /\ \/ /\ job' = [job EXCEPT ![f] = "post"]
        /\ jobResult' = [jobResult EXCEPT ![f] = "none"]
        /\ jobKey' = [jobKey EXCEPT ![f] = call[r].key]
        /\ Return(r, "record", "accepted")
     \/ Goto(r, "unslot") /\ UNCHANGED <<call, jobs>>
  /\ UNCHANGED <<seen, reportFlights, inflight, flight, captured, marker, acked, env>>

ReleaseSlotTwice == inflight' = inflight - 2 \* variant: except and finally both release
ReleaseSlot == inflight' = IF inflight > 0 THEN inflight - 1 ELSE inflight

Unslot(r) ==
  /\ pc[r] = "unslot"
  /\ ReleaseSlot
  /\ Goto(r, "unmark")
  /\ UNCHANGED <<seen, reportFlights, flight, call, jobs, captured, marker, acked, env>>

Unmark(r) ==
  /\ pc[r] = "unmark"
  /\ seen' = [seen EXCEPT ![call[r].key] = "absent"]
  /\ Goto(r, "close")
  /\ UNCHANGED <<reportFlights, inflight, flight, call, jobs, captured, marker, acked, env>>

(* _finish_report_flight: publish the result outside the lock, then remove *)
(* the flight from the map if it is still the registered one.              *)
Complete(f, outcome) == flight' = [flight EXCEPT ![f] = outcome]
PopFlightNever(k, f) == UNCHANGED reportFlights \* variant: the flight stays registered
PopFlight(k, f) ==
  reportFlights' = IF reportFlights[k] = f
                   THEN [reportFlights EXCEPT ![k] = None] ELSE reportFlights

Close(r) ==
  /\ pc[r] = "close"
  /\ Complete(call[r].flight, "failed")
  /\ Goto(r, "pop")
  /\ UNCHANGED <<seen, reportFlights, inflight, call, jobs, captured, marker, acked, env>>

Pop(r) ==
  /\ pc[r] = "pop"
  /\ PopFlight(call[r].key, call[r].flight)
  /\ Return(r, "record", "error")
  /\ UNCHANGED <<seen, inflight, flight, jobs, captured, marker, acked, env>>

-----------------------------------------------------------------------------
(* _post_and_release, the background thread.  It has no security scope; a   *)
(* report that security disabled skipped is taken back like a failed one.  *)
JobPost(f) ==
  /\ job[f] = "post"
  /\ \/ /\ security = "enabled"
        /\ \E reply \in Replies :
             /\ Acknowledged(jobKey[f], reply)
             /\ jobResult' = [jobResult EXCEPT ![f] =
                             IF Accepted(reply) THEN "accepted" ELSE "error"]
     \/ /\ security = "disabled"
        /\ jobResult' = [jobResult EXCEPT ![f] = "error"]
        /\ UNCHANGED acked
  /\ job' = [job EXCEPT ![f] = "settle"]
  /\ UNCHANGED <<seen, reportFlights, inflight, flight, local, jobKey, captured, marker, env>>

(* Variant: a failed background report keeps its mark. *)
JobSettleKeepsMark(f) ==
  /\ job[f] = "settle"
  /\ captured' = IF jobResult[f] = "accepted" THEN captured \union {jobKey[f]} ELSE captured
  /\ job' = [job EXCEPT ![f] = "close"]
  /\ UNCHANGED <<seen, reportFlights, inflight, flight, local, jobResult, jobKey, marker,
                 acked, env>>

JobSettle(f) ==
  /\ job[f] = "settle"
  /\ IF jobResult[f] = "accepted"
     THEN captured' = captured \union {jobKey[f]} /\ UNCHANGED seen
     ELSE seen' = [seen EXCEPT ![jobKey[f]] = "absent"] /\ UNCHANGED captured
  /\ job' = [job EXCEPT ![f] = "close"]
  /\ UNCHANGED <<reportFlights, inflight, flight, local, jobResult, jobKey, marker, acked, env>>

JobClose(f) ==
  /\ job[f] = "close"
  /\ Complete(f, IF jobResult[f] = "accepted" THEN "succeeded" ELSE "failed")
  /\ job' = [job EXCEPT ![f] = "pop"]
  /\ UNCHANGED <<seen, reportFlights, inflight, local, jobResult, jobKey, captured, marker, acked, env>>

JobPop(f) ==
  /\ job[f] = "pop"
  /\ PopFlight(jobKey[f], f)
  /\ job' = [job EXCEPT ![f] = "release"]
  /\ UNCHANGED <<seen, inflight, flight, local, jobResult, jobKey, captured, marker, acked, env>>

JobRelease(f) ==
  /\ job[f] = "release"
  /\ ReleaseSlot
  /\ job' = [job EXCEPT ![f] = "none"]
  /\ jobResult' = [jobResult EXCEPT ![f] = "none"]
  /\ jobKey' = [jobKey EXCEPT ![f] = None]
  /\ UNCHANGED <<seen, reportFlights, flight, local, captured, marker, acked, env>>

-----------------------------------------------------------------------------
(* The environment: time, an operator's reset, the workspace's setting.    *)
Age(k) ==
  /\ Fresh(k)
  /\ forgets < MaxForget
  /\ forgets' = forgets + 1
  /\ seen' = [seen EXCEPT ![k] = "old"]
  /\ UNCHANGED <<reportFlights, inflight, flight, local, jobs, captured, marker, acked,
                 security, flips>>

(* reset_dedupe: clear both maps, then fail every flight that was pending. *)
ResetDedupe ==
  /\ forgets < MaxForget
  /\ forgets' = forgets + 1
  /\ seen' = [k \in Keys |-> "absent"]
  /\ reportFlights' = [k \in Keys |-> None]
  /\ flight' = [f \in Flights |->
                  IF \E k \in Keys : reportFlights[k] = f
                  THEN "failed" ELSE flight[f]]
  /\ UNCHANGED <<inflight, local, jobs, captured, marker, acked, security, flips>>

FlipSecurity ==
  /\ flips < MaxFlips
  /\ flips' = flips + 1
  /\ security' = IF security = "enabled" THEN "disabled" ELSE "enabled"
  /\ UNCHANGED <<seen, reportFlights, inflight, flight, local, jobs, captured, marker, acked,
                 forgets>>

-----------------------------------------------------------------------------
ReporterStep(r) ==
  \/ Check(r) \/ ShouldReport(r) \/ Lookup(r) \/ Await(r)
  \/ SyncPost(r) \/ SyncSettle(r) \/ Record(r)
  \/ AcquireSlot(r) \/ StartThread(r) \/ Unslot(r) \/ Unmark(r) \/ Close(r) \/ Pop(r)

JobStep(f) == JobPost(f) \/ JobSettle(f) \/ JobClose(f) \/ JobPop(f) \/ JobRelease(f)

Next ==
  \/ \E r \in Reporters : 
       \/ CallRun(r) \/ CallBackground(r) \/ ReporterStep(r)
       \/ Finish(r) \/ Interrupt(r)
  \/ \E f \in Flights : JobStep(f)
  \/ \E k \in Keys : Age(k)
  \/ ResetDedupe \/ FlipSecurity

Spec == Init /\ [][Next]_vars

(* Threads keep running and every network call has a timeout, so a call in  *)
(* progress goes on; nothing makes the application call, finish or be       *)
(* interrupted, and nothing makes the gateway or the clock act.             *)
Fairness ==
  /\ \A r \in Reporters : WF_vars(ReporterStep(r))
  /\ \A f \in Flights : WF_vars(JobStep(f))

FairSpec == Spec /\ Fairness

-----------------------------------------------------------------------------
(* Every variable keeps its type: a call in progress and a background      *)
(* thread name a manifest, a waiter and a dispatcher hold a flight object.  *)
TypeOK ==
  /\ seen \in [Keys -> MarkStates]
  /\ reportFlights \in [Keys -> Flights \union {None}]
  /\ inflight \in Nat
  /\ flight \in [Flights -> FlightStates]
  /\ pc \in [Reporters -> ReporterPcs]
  /\ call \in [Reporters -> Calls]
  /\ job \in [Flights -> JobPcs]
  /\ jobResult \in [Flights -> {"none", "accepted", "error"}]
  /\ jobKey \in [Flights -> Keys \union {None}]
  /\ captured \subseteq Keys
  /\ marker \in [Objects -> Keys \union {None}]
  /\ acked \subseteq Keys
  /\ security \in {"enabled", "disabled"}
  /\ forgets \in 0..MaxForget
  /\ flips \in 0..MaxFlips
  /\ \A r \in Reporters : pc[r] # "idle" => call[r].key \in Keys
  /\ \A r \in Reporters : pc[r] \in AsyncPcs \union {"wait"} => call[r].flight \in Flights
  /\ \A f \in Flights : job[f] # "none" => jobKey[f] \in Keys

(* The background slots (_acquire_slot, _release_slot): the counter is     *)
(* exactly the number of threads that took a slot and have not given it    *)
(* back, over refused starts, failed posts and resets, and never exceeds   *)
(* _INFLIGHT_MAX.                                                          *)
Starting == {r \in Reporters : pc[r] \in {"start", "unslot"}}
Working  == {f \in Flights : job[f] # "none"}
SlotsAccounted ==
  /\ inflight = Cardinality(Starting) + Cardinality(Working)
  /\ inflight <= InflightMax

(* No report hands on an acknowledgement the gateway did not give: not a   *)
(* run's own post, not a background thread's result, and not the flight a  *)
(* second run is waiting on, whatever was reset, evicted or marked again   *)
(* while it waited.                                                        *)
ReportsAreTrue ==
  /\ \A r \in Reporters :
       pc[r] = "settle" /\ call[r].result = "accepted" => call[r].key \in acked
  /\ \A f \in Flights : jobResult[f] = "accepted" => jobKey[f] \in acked
  /\ \A r \in Reporters :
       pc[r] = "wait" /\ flight[call[r].flight] = "succeeded" => call[r].key \in acked

(* A flight stays in _report_flights only while the caller or the thread   *)
(* that will complete and remove it is alive: no waiter waits for nobody   *)
(* and no mark becomes impossible to evict for good.                       *)
PendingHasOwner ==
  \A k \in Keys : Pending(k) =>
    LET f == reportFlights[k] IN
    \/ \E r \in Reporters : pc[r] \in AsyncPcs /\ call[r].flight = f /\ call[r].key = k
    \/ job[f] \in JobPcs \ {"none", "release"} /\ jobKey[f] = k

(* The marks of _should_report: a mark inside the window belongs to an     *)
(* acknowledged manifest or to a report still in progress that will take   *)
(* it back if it fails, so a recovered gateway is asked again.             *)
Reporting(k) ==
  \/ \E r \in Reporters : call[r].key = k /\
       \/ pc[r] \in {"post", "spawn", "start", "unslot", "unmark"}
       \/ pc[r] = "settle" /\ call[r].result = "error"
  \/ \E f \in Flights : jobKey[f] = k /\
       (job[f] = "post" \/ (job[f] = "settle" /\ jobResult[f] # "accepted"))
MarkHasOwner ==
  \A k \in Keys : Fresh(k) => k \in acked \/ Reporting(k)

(* While nothing is forgotten by age, reset or eviction of its mark, one   *)
(* manifest is posted by at most one thread at a time, however many        *)
(* threads report it and at whatever point each of them is.                *)
Posters(k) ==
  {r \in Reporters : call[r].key = k /\ pc[r] \in {"post", "spawn", "start"}}
  \union {f \in Flights : jobKey[f] = k /\ job[f] = "post"}
OnePostPerKey == \A k \in Keys : Cardinality(Posters(k)) <= 1

(* Every call of the SDK comes back to the application: no interleaving of *)
(* waits, flights and slots leaves a thread inside discover.               *)
CallsReturn ==
  \A r \in Reporters : pc[r] \notin {"idle", "running"} ~> pc[r] \in {"idle", "running"}

(* A mark without an acknowledgement does not last: it is taken back or    *)
(* the manifest is acknowledged, without the 300 s window having to end.   *)
MarksResolve ==
  \A k \in Keys : Fresh(k) /\ k \notin acked ~> ~Fresh(k) \/ k \in acked

-----------------------------------------------------------------------------
(* What discover's docstring asks of a run boundary: "a durable server     *)
(* acknowledgement for each new or changed blueprint before application    *)
(* code runs".                                                             *)
RunsOnlyAcknowledged ==
  \A r \in Reporters :
    pc[r] = "running" /\ call[r].result # "native" => call[r].key \in acked

(* What the comment before the dedupe's success says: no pending flight    *)
(* means this payload completed successfully, so its tools are captured.   *)
CapturedMeansAcknowledged == captured \subseteq acked

(* What ensure_topology_reported's docstring says of the object marker: it *)
(* "is written only after a durable discovery acknowledgement".            *)
MarkerMeansAcknowledged ==
  \A o \in Objects : marker[o] # None => marker[o] \in acked
=============================================================================
