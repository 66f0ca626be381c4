----------------------------- MODULE GraphBarrier -----------------------------
(***************************************************************************)
(* A compiled LangGraph and its first executions (integrations/            *)
(* langgraph.py).  Compiling starts its registration on a background       *)
(* thread, if one of the four is free; an execution waits for that a       *)
(* bounded time and else reports by itself, one at a time.  A graph that   *)
(* was compiled before the SDK is governed by its first executions, each   *)
(* with a barrier of its own.                                              *)
(***************************************************************************)
EXTENDS Naturals, FiniteSets

CONSTANTS
  Threads,
  MaxRuns,     \* bound: executions of each thread
  Compiler,    \* the thread that compiles
  Nobody

VARIABLES
  agentRow,    \* gateway: the agent's registration
  acknowledged,\* gateway: it has answered a report of this graph with no error
  attested,    \* _GOVERNANCE_ATTESTATION is on the graph
  barrier,     \* the barriers made, by the thread that made each
  current,     \* whose barrier is on the graph
  detached,    \* the background attempts: where each is
  fallback,    \* fallback_lock of each barrier
  exec         \* where each execution is

graphVars == <<agentRow, acknowledged, attested, barrier, current, detached, fallback, exec>>

Makers == Threads \cup {Compiler}
NewBarrier == [completed |-> FALSE, started |-> FALSE, succeeded |-> FALSE, error |-> "none"]
Rest(n) == [at |-> "rest", on |-> Nobody, runs |-> n, approved |-> FALSE]

TypeOK ==
  /\ agentRow \in {"unknown", "pending", "approved"} /\ acknowledged \in BOOLEAN
  /\ attested \in BOOLEAN /\ current \in Makers \cup {Nobody}
  /\ barrier \in [Makers -> [completed : BOOLEAN, started : BOOLEAN, succeeded : BOOLEAN,
                             error : {"none", "pending", "scan"}]]
  /\ detached \in [Makers -> {"none", "report", "blueprint", "ended", "rejected"}]
  /\ fallback \in [Makers -> Threads \cup {Nobody}]
  /\ exec \in [Threads -> [at : {"rest", "governing", "look", "wait", "lock", "report",
                                 "blueprint", "attest", "body", "refused"},
                           on : Makers \cup {Nobody}, runs : 0..MaxRuns, approved : BOOLEAN]]

\* The graph was compiled under the SDK's guard, or before it existed.
Init ==
  /\ agentRow \in {"unknown", "approved"} /\ acknowledged = FALSE
  /\ barrier = [m \in Makers |-> NewBarrier]
  /\ attested \in BOOLEAN
  /\ current = IF attested THEN Compiler ELSE Nobody
  /\ detached = [m \in Makers |-> IF attested /\ m = Compiler THEN "report" ELSE "none"]
  /\ fallback = [m \in Makers |-> Nobody]
  /\ exec = [t \in Threads |-> Rest(0)]

At(t, p) == exec[t].at = p
Goto(t, p) == exec' = [exec EXCEPT ![t].at = p]

\* discover() of this graph: filed, refused while it pends, or acknowledged.
Filed == agentRow' = IF agentRow = "unknown" THEN "pending" ELSE agentRow
Acknowledges == agentRow = "approved"

----------------------------------------------------------------------------
(* The background attempt: _register_and_report. *)

\* run_detached has a place for it, and may return after it has begun; or none
\* is left and nothing is started.
Start(m) ==
  /\ detached[m] \notin {"none", "rejected"} /\ ~barrier[m].started
  /\ barrier' = [barrier EXCEPT ![m].started = TRUE]
  /\ UNCHANGED <<agentRow, acknowledged, attested, current, detached, fallback, exec>>

Reject(m) ==
  /\ detached[m] = "report" /\ ~barrier[m].started
  /\ detached' = [detached EXCEPT ![m] = "rejected"]
  /\ UNCHANGED <<agentRow, acknowledged, attested, barrier, current, fallback, exec>>

Completed(m, b) ==
  /\ barrier' = [barrier EXCEPT ![m] = [b EXCEPT !.completed = TRUE]]
  /\ detached' = [detached EXCEPT ![m] = "ended"]

\* report_topology, not required: a refusal is no error yet.  A managed
\* execution server, or a configuration probe that fails, ends the attempt.
Report(m) ==
  /\ detached[m] = "report"
  /\ \/ /\ Filed /\ acknowledged' = (acknowledged \/ Acknowledges)
        /\ barrier' = [barrier EXCEPT ![m].succeeded = Acknowledges]
        /\ detached' = [detached EXCEPT ![m] = "blueprint"]
     \/ Completed(m, barrier[m]) /\ UNCHANGED <<agentRow, acknowledged>>
  /\ UNCHANGED <<attested, current, fallback, exec>>

\* register_blueprint: a scanner's refusal stays on the barrier.
Blueprint(m) ==
  /\ detached[m] = "blueprint"
  /\ \E e \in {barrier[m].error, "scan"} : Completed(m, [barrier[m] EXCEPT !.error = e])
  /\ UNCHANGED <<agentRow, acknowledged, attested, current, fallback, exec>>

----------------------------------------------------------------------------
(* Executions: _ensure_governed, then _await_initial_discovery. *)

Invoke(t) ==
  /\ exec[t].at \in {"rest", "body", "refused"} /\ exec[t].runs < MaxRuns
  /\ exec' = [exec EXCEPT ![t] = [Rest(@.runs + 1) EXCEPT !.approved = agentRow = "approved",
                                    !.at = IF attested THEN "look" ELSE "governing", !.on = current]]
  /\ UNCHANGED <<agentRow, acknowledged, attested, barrier, current, detached, fallback>>

\* Instrumented, bound, the barrier set and the attestation last; no lock.
Govern(t) ==
  /\ At(t, "governing")
  /\ barrier' = [barrier EXCEPT ![t] = NewBarrier] /\ detached' = [detached EXCEPT ![t] = "report"]
  /\ current' = t /\ attested' = TRUE
  /\ exec' = [exec EXCEPT ![t].at = "look", ![t].on = t]
  /\ UNCHANGED <<agentRow, acknowledged, fallback>>

\* run_detached has returned to the thread that made the barrier.
Launched(m) == barrier[m].started \/ detached[m] = "rejected"

\* What a completed barrier means for an execution.
Outcome(t, m) ==
  exec' = [exec EXCEPT ![t].on = m,
             ![t].at = IF barrier[m].error # "none" THEN "refused"
                       ELSE IF barrier[m].succeeded THEN "attest" ELSE "lock"]

Look(t) ==
  LET m == current IN
  /\ At(t, "look") /\ (exec[t].on \in {t, Compiler} => Launched(exec[t].on))
  /\ IF barrier[m].completed THEN Outcome(t, m)
     ELSE exec' = [exec EXCEPT ![t].on = m, ![t].at = IF barrier[m].started THEN "wait" ELSE "lock"]
  /\ UNCHANGED <<agentRow, acknowledged, attested, barrier, current, detached, fallback>>

\* Mutant: when the wait runs out the execution goes ahead.
WaitPasses(t) ==
  LET m == exec[t].on IN
  /\ At(t, "wait")
  /\ \/ barrier[m].completed /\ Outcome(t, m)
     \/ ~barrier[m].completed /\ Goto(t, "body")
  /\ UNCHANGED <<agentRow, acknowledged, attested, barrier, current, detached, fallback>>

\* 3.25 seconds for the background attempt.
Wait(t) ==
  LET m == exec[t].on IN
  /\ At(t, "wait")
  /\ \/ barrier[m].completed /\ Outcome(t, m)
     \/ ~barrier[m].completed /\ Goto(t, "lock")
  /\ UNCHANGED <<agentRow, acknowledged, attested, barrier, current, detached, fallback>>

\* The fallback, one execution at a time on each barrier.
Lock(t) ==
  LET m == exec[t].on IN
  /\ At(t, "lock") /\ fallback[m] = Nobody
  /\ IF barrier[m].error # "none" THEN Goto(t, "refused") /\ UNCHANGED fallback
     ELSE IF barrier[m].succeeded THEN Goto(t, "body") /\ UNCHANGED fallback
     ELSE Goto(t, "report") /\ fallback' = [fallback EXCEPT ![m] = t]
  /\ UNCHANGED <<agentRow, acknowledged, attested, barrier, current, detached>>

Close(t, p) == Goto(t, p) /\ fallback' = [fallback EXCEPT ![exec[t].on] = Nobody]

\* The required report: refused, its error stays on the barrier.
ReportHere(t) ==
  LET m == exec[t].on IN
  /\ At(t, "report") /\ Filed
  /\ IF Acknowledges
     THEN /\ acknowledged' = TRUE /\ Goto(t, "blueprint") /\ UNCHANGED fallback
          /\ barrier' = [barrier EXCEPT ![m].succeeded = TRUE]
     ELSE /\ Close(t, "refused") /\ UNCHANGED acknowledged
          /\ barrier' = [barrier EXCEPT ![m].error = "pending", ![m].completed = TRUE]
  /\ UNCHANGED <<attested, current, detached>>

BlueprintHere(t) ==
  LET m == exec[t].on IN
  /\ At(t, "blueprint")
  /\ \/ Close(t, "body") /\ barrier' = [barrier EXCEPT ![m].completed = TRUE]
     \/ /\ Close(t, "refused")
        /\ barrier' = [barrier EXCEPT ![m].error = "scan", ![m].completed = TRUE]
  /\ UNCHANGED <<agentRow, acknowledged, attested, current, detached>>

\* ensure_topology_reported, required: unchanged code costs nothing, changed
\* code is reported again.
Attest(t) ==
  /\ At(t, "attest") /\ (Goto(t, "body") \/ Goto(t, "refused"))
  /\ UNCHANGED <<agentRow, acknowledged, attested, barrier, current, detached, fallback>>

\* An administrator approves.
Approve ==
  /\ agentRow = "pending" /\ agentRow' = "approved"
  /\ UNCHANGED <<acknowledged, attested, barrier, current, detached, fallback, exec>>

Next ==
  \/ \E m \in Makers : Start(m) \/ Reject(m) \/ Report(m) \/ Blueprint(m)
  \/ \E t \in Threads : \/ Invoke(t) \/ Govern(t) \/ Look(t) \/ Wait(t) \/ Lock(t)
                        \/ ReportHere(t) \/ BlueprintHere(t) \/ Attest(t)
  \/ Approve

----------------------------------------------------------------------------
(* Properties. *)

\* No node of the graph runs before a report of it was acknowledged, whichever
\* thread reports, however long it takes and however many barriers there are
\* (langgraph.py:410-458).
RunsAfterAcknowledgement == \A t \in Threads : At(t, "body") => acknowledged

\* "A process that keeps running needs no restart after the decision"
\* (README.md:839): an execution that begins when the agent is approved is
\* not refused for a registration that pended before.
NoRestartNeeded ==
  \A t \in Threads :
    (At(t, "refused") /\ exec[t].approved /\ exec[t].on # Nobody) => barrier[exec[t].on].error # "pending"
=============================================================================
