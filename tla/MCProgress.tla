------------------------------ MODULE MCProgress ------------------------------
(***************************************************************************)
(* What must eventually happen: lifecycle telemetry, discovery reports and *)
(* credential acquisition, which share no state, side by side.  `part`     *)
(* says which of them moves in this behaviour.                             *)
(***************************************************************************)
EXTENDS ExecutionLedger, FiniteSets

CONSTANTS r1, r2, k1, p1, p2, p3, g1, t1, a1, a2, c1

\* A key with no flight and a manifest that is no flight are told from both.
ASSUME AbsentAssumption == Nothing \notin {p1, p2, p3, k1}

VARIABLE part

\* Two threads report one manifest, as run boundaries and in the background.
VARIABLES seen, reportFlights, inflight, flight, pc, call, jobs, jobResult, jobKey, captured,
          marker, acked, security, forgets, flips
Reports == INSTANCE DiscoveryProofs WITH
  Reporters <- {r1, r2}, Keys <- {k1}, Objects <- {}, Flights <- {p1, p2, p3}, None <- Nothing,
  InflightMax <- 1, SeenMax <- 1, Modes <- {"run", "background"}, Scoped <- {},
  Interruptible <- {}, MaxForget <- 0, MaxFlips <- 0, job <- jobs

\* A deciding thread and one with model traffic share the engine's identity.
VARIABLES kind, info, aged, witnesses, failure, origin, enrolled, active, provisional, built,
          setAside, restingFor, owner, depth, at, request, override, calls, supplies
Identity == INSTANCE CredentialEngine WITH
  Governed <- {g1}, Transparent <- {t1}, Answers <- {a1, a2}, Minted <- {c1}, Supplied <- {},
  None <- Nothing, Replied <- {"broker", "optional", "provisional"}, MaxCalls <- 2,
  MaxSupplies <- 0, pc <- at, call <- request

telemetry == vars
reporting == <<seen, reportFlights, inflight, flight, pc, call, jobs, jobResult, jobKey, captured,
               marker, acked, security, forgets, flips>>
identity  == <<kind, info, aged, witnesses, failure, origin, enrolled, active, provisional, built,
               setAside, restingFor, owner, depth, at, request, override, calls, supplies>>
all == <<part, telemetry, reporting, identity>>

InitOfAll ==
  /\ part \in {"telemetry", "reporting", "identity"}
  /\ Init /\ Reports!Init /\ Identity!Init

Alone(p) ==
  /\ part = p
  /\ CASE p = "telemetry" -> UNCHANGED <<part, reporting, identity>>
       [] p = "reporting" -> UNCHANGED <<part, telemetry, identity>>
       [] p = "identity"  -> UNCHANGED <<part, telemetry, reporting>>

NextOfAll ==
  \/ Alone("telemetry") /\ Next
  \/ Alone("reporting") /\ Reports!Next
  \/ Alone("identity")  /\ Identity!Next

\* The pool's threads, the reporters and the calls in progress are scheduled;
\* the application and the network need not do anything.
Fairness ==
  /\ \A w \in Workers : WF_all(Alone("telemetry") /\ WorkerStep(w))
  /\ \A r \in {r1, r2} : WF_all(Alone("reporting") /\ Reports!ReporterStep(r))
  /\ \A f \in {p1, p2, p3} : WF_all(Alone("reporting") /\ Reports!JobStep(f))
  /\ \A t \in {g1, t1} : WF_all(Alone("identity") /\ Identity!Working(t))

SpecOfAll == InitOfAll /\ [][NextOfAll]_all /\ Fairness

----------------------------------------------------------------------------
\* A mark inside the window is acknowledged or some thread will take it back
\* (registry.py, discover).
MarkHasOwner == Reports!MarkHasOwner

\* A mark without an acknowledgement does not last, without the window having
\* to end (registry.py, discover).
MarksResolve == Reports!MarksResolve

\* Every report and every call that needs a credential comes back to the
\* application, and the credential lock with it (registry.py, discover;
\* engine.py, decide and agent_token).
CallsReturn == Reports!CallsReturn /\ Identity!CallsReturn
=============================================================================
