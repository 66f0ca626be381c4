---------------------------- MODULE ManagedHandoff ----------------------------
(***************************************************************************)
(* Handing a program to the gateway's server runs before its first node    *)
(* runs (managed_execution.py).  Invocations of the same process find out  *)
(* what the gateway offers, decide under one lock whether the program runs *)
(* here or there, submit its bundle under an identity kept before any I/O, *)
(* follow the server's job, and either end the process with its output,    *)
(* raise, or let the body run here.                                        *)
(***************************************************************************)
EXTENDS Naturals, FiniteSets

CONSTANTS
  Callers,     \* invocations of the graph, one after the other in each thread
  Offers,      \* what an enabled gateway may advertise
  MaxCalls,    \* bound: invocations of one caller
  MaxFlips,    \* bound: times the gateway's offer is switched on or off
  MaxIds,      \* bound: bundles packaged
  Nobody

Ids    == 1..MaxIds
Phases == {"none", "accepted", "held", "unfit", "cancelled", "running", "failed", "succeeded"}
Submissions == [id : Ids, status : Phases \ {"none"}]

ASSUME BoundsAssumption == MaxCalls \in Nat /\ MaxFlips \in Nat /\ MaxIds \in Nat
ASSUME OffersAssumption == Offers \subseteq [fallback : BOOLEAN, ids : BOOLEAN, polling : BOOLEAN]
ASSUME NobodyAssumption == Nobody \notin Callers \cup Ids \cup Submissions

VARIABLES
  offer,       \* gateway: what it advertises when enabled
  enabled,     \* gateway: server runs are offered to this workspace
  flips,
  jobs,        \* gateway: the phase of the job of each submission id
  flying,      \* requests under way that nobody waits for any more
  lock,        \* _LOCK
  caps,        \* _managed_execution_capabilities: "unset", "none" or "offer"
  local,       \* _managed_execution_local
  wire,        \* _managed_execution_wire: the submission id in it, or Nobody
  submission,  \* _managed_execution_submission: its id and status, or Nobody
  packaged,    \* bundles packaged so far, each with an id of its own
  call         \* where each caller stands

gatewayVars == <<offer, enabled, flips, jobs, flying>>
engineVars  == <<caps, local, wire, submission, packaged>>
vars == <<gatewayVars, lock, engineVars, call>>

Active == {"accepted", "running"}
Places == {"idle", "check", "probe", "asking", "context", "lock", "package", "post",
           "answer", "poll", "judge", "here", "exit", "raised"}
\* How an invocation comes about: from the program itself, from a host that
\* serves requests, or on a user's behalf.
Kinds == {"script", "hosted", "delegated"}
Calls == [at : Places, calls : 0..MaxCalls,
          kind : Kinds,
          may  : BOOLEAN,                             \* fallback, narrowed under the lock
          id   : Ids \cup {Nobody},                   \* the bundle in hand
          sent : BOOLEAN]                             \* its request reached the gateway

TypeOK ==
  /\ offer \in Offers /\ enabled \in BOOLEAN /\ flips \in 0..MaxFlips
  /\ jobs \in [Ids -> Phases] /\ flying \subseteq Ids
  /\ lock \in Callers \cup {Nobody}
  /\ caps \in {"unset", "none", "offer"} /\ local \in BOOLEAN
  /\ wire \in Ids \cup {Nobody}
  /\ submission \in Submissions \cup {Nobody}
  /\ packaged \in 0..MaxIds
  /\ call \in [Callers -> Calls]

Idle(n) == [at |-> "idle", calls |-> n, kind |-> "script", may |-> FALSE, id |-> Nobody,
            sent |-> FALSE]

Init ==
  /\ offer \in Offers /\ enabled \in BOOLEAN /\ flips = 0
  /\ jobs = [i \in Ids |-> "none"] /\ flying = {} /\ lock = Nobody
  /\ caps = "unset" /\ local = FALSE /\ wire = Nobody /\ submission = Nobody /\ packaged = 0
  /\ call = [c \in Callers |-> Idle(0)]

At(c, p)   == call[c].at = p
Set(c, r)  == call' = [call EXCEPT ![c] = r]
Goto(c, p) == Set(c, [call[c] EXCEPT !.at = p])
Free       == lock' = Nobody
Unchanged  == UNCHANGED <<gatewayVars, caps, wire, submission, packaged>>

----------------------------------------------------------------------------
(* Finding out what the gateway offers. *)

\* An invocation of the graph.
Call(c) ==
  /\ At(c, "idle") /\ call[c].calls < MaxCalls
  /\ \E kind \in Kinds :
       Set(c, [Idle(call[c].calls + 1) EXCEPT !.at = "check", !.kind = kind])
  /\ UNCHANGED <<lock, gatewayVars, engineVars>>

\* handoff_if_enabled begins: a program that ran here stays here.
Check(c) ==
  /\ At(c, "check")
  /\ Goto(c, IF local THEN "here" ELSE "probe")
  /\ UNCHANGED <<lock, gatewayVars, engineVars>>

\* capabilities(refresh_disabled=True): an offer is kept, its absence is not.
Probe(c) ==
  /\ At(c, "probe") /\ lock = Nobody
  /\ IF caps = "offer" THEN Goto(c, "context") /\ UNCHANGED lock
     ELSE IF local THEN Goto(c, "here") /\ UNCHANGED lock
     ELSE Goto(c, "asking") /\ lock' = c
  /\ UNCHANGED <<gatewayVars, engineVars>>

\* What the gateway's answer is kept as.
Asked == IF enabled THEN "offer" ELSE "none"

\* The answer.  Told "not offered", the program runs here from now on.
Told(c) ==
  /\ At(c, "asking") /\ Free
  /\ \/ /\ caps' = Asked
        /\ local' = ~enabled
        /\ Goto(c, IF enabled THEN "context" ELSE "here")
     \/ Goto(c, "raised") /\ UNCHANGED <<caps, local>>
  /\ UNCHANGED <<gatewayVars, wire, submission, packaged>>

\* The probe when the graph is compiled keeps its answer and decides nothing.
Compile ==
  /\ caps = "unset" /\ lock = Nobody
  /\ caps' = Asked
  /\ UNCHANGED <<gatewayVars, lock, local, wire, submission, packaged, call>>

\* _require_autonomous_context, before the lock when nothing may run here.
Context(c) ==
  /\ At(c, "context")
  /\ Goto(c, IF ~offer.fallback /\ call[c].kind = "delegated" THEN "raised" ELSE "lock")
  /\ UNCHANGED <<lock, gatewayVars, engineVars>>

----------------------------------------------------------------------------
(* Deciding, under the lock. *)

\* Nothing was handed over yet.
Untouched == offer.fallback /\ submission = Nobody /\ wire = Nobody

RunHere(c) == Goto(c, "here") /\ local' = TRUE /\ Free
Raise(c)   == Goto(c, "raised") /\ UNCHANGED local /\ Free

\* Mutant: the decision is not looked up again under the lock.
DecideAnew(c) ==
  /\ At(c, "lock") /\ lock = Nobody
  /\ IF Untouched /\ call[c].kind # "script" THEN RunHere(c)
     ELSE /\ lock' = c /\ UNCHANGED local
          /\ Set(c, [call[c] EXCEPT
               !.may = Untouched,
               !.id = IF submission # Nobody THEN submission.id ELSE wire,
               !.at = IF submission # Nobody \/ wire # Nobody THEN "post" ELSE "package"])
  /\ Unchanged

\* The lock is taken; another invocation may have decided in the meantime.
Decide(c) ==
  /\ At(c, "lock") /\ lock = Nobody
  /\ IF local THEN Goto(c, "here") /\ UNCHANGED <<lock, local>>
     ELSE IF Untouched /\ call[c].kind # "script" THEN RunHere(c)
     ELSE IF offer.fallback /\ call[c].kind = "delegated" THEN Raise(c)
     ELSE /\ lock' = c /\ UNCHANGED local
          /\ Set(c, [call[c] EXCEPT
               !.may = Untouched,
               !.id = IF submission # Nobody THEN submission.id ELSE wire,
               !.at = IF submission # Nobody
                      THEN IF offer.ids /\ offer.polling THEN "post" ELSE "judge"
                      ELSE IF wire # Nobody THEN "post" ELSE "package"])
  /\ Unchanged

\* package_script: the program's sources and requirements become a bundle.
Bundle(c) ==
  /\ packaged < MaxIds
  /\ packaged' = packaged + 1
  /\ Set(c, [call[c] EXCEPT !.at = "post", !.id = packaged'])

\* A program that cannot be packaged, or needs what the worker lacks.
CannotTravel(c) == IF call[c].may THEN RunHere(c) ELSE Raise(c)

\* Mutant: the bundle is kept with the server's answer, not before.
PackageUnsaved(c) ==
  /\ At(c, "package")
  /\ \/ Bundle(c) /\ UNCHANGED <<lock, local>>
     \/ CannotTravel(c) /\ UNCHANGED packaged
  /\ UNCHANGED <<gatewayVars, caps, wire, submission>>

\* The bundle and its submission id, kept before any I/O where the gateway
\* knows ids.
Package(c) ==
  /\ At(c, "package")
  /\ \/ /\ Bundle(c)
        /\ wire' = IF offer.ids THEN packaged' ELSE wire
        /\ UNCHANGED <<lock, local>>
     \/ CannotTravel(c) /\ UNCHANGED <<wire, packaged>>
  /\ UNCHANGED <<gatewayVars, caps, submission>>

----------------------------------------------------------------------------
(* Submitting and following. *)

Accept(i) == jobs' = [jobs EXCEPT ![i] = IF @ = "none" THEN "accepted" ELSE @]

\* _post_submission: the request reaches the gateway in time or hangs.
Post(c) ==
  /\ At(c, "post")
  /\ \/ /\ Accept(call[c].id) /\ UNCHANGED flying
        /\ Set(c, [call[c] EXCEPT !.at = "answer", !.sent = TRUE])
     \/ /\ flying' = flying \cup {call[c].id} /\ UNCHANGED jobs
        /\ Set(c, [call[c] EXCEPT !.at = "answer", !.sent = FALSE])
  /\ UNCHANGED <<offer, enabled, flips, lock, engineVars>>

\* Mutant: an answer is made up for a request that never arrived.
AnswerUnsent(c) ==
  /\ At(c, "answer")
  /\ submission' = [id |-> call[c].id, status |-> jobs[call[c].id]]
  /\ Goto(c, "judge")
  /\ UNCHANGED <<lock, gatewayVars, caps, local, wire, packaged>>

\* Its answer is stored and, where the gateway has results to poll, followed.
Answer(c) ==
  /\ At(c, "answer") /\ call[c].sent
  /\ submission' = [id |-> call[c].id, status |-> jobs[call[c].id]]
  /\ Goto(c, IF offer.ids /\ offer.polling /\ jobs[call[c].id] \in Active THEN "poll" ELSE "judge")
  /\ UNCHANGED <<lock, gatewayVars, caps, local, wire, packaged>>

\* Mutant: an error leaves without giving the lock back.
NoAnswerLocked(c) ==
  /\ At(c, "answer") /\ Goto(c, "raised") /\ UNCHANGED <<local, lock>>
  /\ Unchanged

\* No answer: what was submitted, or not, is the server's to know.
NoAnswer(c) ==
  /\ At(c, "answer") /\ Raise(c)
  /\ Unchanged

\* _poll_submission posts the same bundle again; at most 60 s.
Poll(c) ==
  /\ At(c, "poll")
  /\ Goto(c, "post") \/ Goto(c, "judge")
  /\ UNCHANGED <<lock, gatewayVars, engineVars>>

\* The saved output of the whole script is written and the process ends.
Exit(c) == Goto(c, "exit") /\ Free /\ UNCHANGED local

\* The server ended the run before the program, for the agent's identity.
Unusable == submission.status = "unfit" /\ offer.fallback

\* A run that succeeded ends the process with its output; one the server
\* ended in preparation, for an identity it cannot use, runs here; any other
\* status is raised and the submission kept.
Judge(c) ==
  /\ At(c, "judge")
  /\ IF submission.status = "succeeded" THEN Exit(c)
     ELSE IF Unusable THEN RunHere(c)
     ELSE Raise(c)
  /\ Unchanged

\* The application catches the error, or the body has run here.
Return(c) ==
  /\ At(c, "here") \/ At(c, "raised")
  /\ Set(c, Idle(call[c].calls))
  /\ UNCHANGED <<lock, gatewayVars, engineVars>>

----------------------------------------------------------------------------
(* The gateway. *)

Flip ==
  /\ flips < MaxFlips /\ flips' = flips + 1 /\ enabled' = ~enabled
  /\ UNCHANGED <<offer, jobs, flying, lock, engineVars, call>>

Arrive(i) ==
  /\ i \in flying /\ flying' = flying \ {i} /\ Accept(i)
  /\ UNCHANGED <<offer, enabled, flips, lock, engineVars, call>>

\* A job is prepared, held for an approval, ended, or its program is started.
Advance(i) ==
  /\ \/ jobs[i] = "accepted" /\ \E p \in {"held", "unfit", "cancelled", "running"} :
                                   jobs' = [jobs EXCEPT ![i] = p]
     \/ jobs[i] = "held" /\ jobs' = [jobs EXCEPT ![i] = "accepted"]
     \/ jobs[i] = "running" /\ \E p \in {"failed", "succeeded"} : jobs' = [jobs EXCEPT ![i] = p]
  /\ UNCHANGED <<offer, enabled, flips, flying, lock, engineVars, call>>

CallerStep(c) ==
  \/ Check(c) \/ Probe(c) \/ Told(c) \/ Context(c) \/ Decide(c) \/ Package(c)
  \/ Post(c) \/ Answer(c) \/ NoAnswer(c) \/ Judge(c) \/ Return(c)

Next ==
  \/ \E c \in Callers : CallerStep(c) \/ Call(c) \/ Poll(c)
  \/ Compile \/ Flip
  \/ \E i \in Ids : Arrive(i) \/ Advance(i)

Spec == Init /\ [][Next]_vars

\* Threads run, a request ends within its timeout, and the lock, a
\* threading lock, is not kept from one waiting caller for ever.
FairSpec ==
  /\ Spec
  /\ \A c \in Callers : SF_vars(CallerStep(c)) /\ SF_vars(At(c, "poll") /\ Goto(c, "judge") /\ Poll(c))

----------------------------------------------------------------------------
(* Properties. *)

Started == {i \in Ids : jobs[i] \in {"running", "failed", "succeeded"}}

\* The program runs here or there, never on both and there at most once,
\* whatever answers are lost, whoever calls and whatever the gateway
\* offers meanwhile (managed_execution.py:499-618).
Promise == INSTANCE OnePlace WITH
  place   <- IF local THEN "local" ELSE IF packaged > 0 THEN "server" ELSE "undecided",
  started <- Cardinality(Started)

RunsInOnePlace == Promise!Spec

\* A program that ran here is not handed over afterwards: neither a bundle
\* nor a request for a new job leaves it (managed_execution.py:504, 287-291).
LocalIsForGood == [][local => packaged' = packaged]_vars

\* "Nothing has been sent yet, so nothing can run twice"
\* (managed_execution.py:575): the body runs here only if the server has not
\* started the program.
NeverBoth == local => Started = {}

\* Every invocation ends: in the body, in an error or in the process's end
\* (managed_execution.py:723-755).
InvocationsEnd == \A c \in Callers : At(c, "check") ~> call[c].at \in {"here", "exit", "raised"}
=============================================================================
