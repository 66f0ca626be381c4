----------------------------- MODULE CaptureGate -----------------------------
(***************************************************************************)
(* The capture of one tool's code before it runs (registry.py,             *)
(* ensure_registration_capture): an unlocked look at what is known, one    *)
(* report at a time under the engine's capture lock, first without and,    *)
(* when the gateway refuses that, once with workload proof, and a rest     *)
(* after a failure.  The code can be rebound at any time.                  *)
(***************************************************************************)
EXTENDS Naturals

CONSTANTS
  Threads,     \* callers of the tool
  Versions,    \* the sources the callable can have
  MaxRebinds,  \* bound: times it is rebound
  Nobody

VARIABLES
  code,        \* the callable's source now
  rebinds,
  named,       \* the agent's name: "given", "server" (credential-info has it) or "none"
  reported,    \* gateway: the versions it has acknowledged
  captured,    \* the tool is in _registration_captured_tools
  known,       \* its attestation, or Nobody
  resting,     \* _registration_capture_retry_by_tool has not passed
  failure,     \* _registration_capture_error_code: "", "unnamed" or "refused"
  lock,        \* _registration_capture_lock
  gate,        \* where each caller stands
  torn         \* history: versions remembered for a report of another one

capture == <<captured, known, resting, failure>>
vars == <<code, rebinds, named, reported, capture, lock, gate, torn>>

Gates == [at : {"idle", "fast", "lock", "send", "answer", "remember", "pass", "refuse"},
          seen  : Versions \cup {Nobody},   \* callable_attestation
          sent  : Versions \cup {Nobody},   \* what the manifest describes
          proof : BOOLEAN]                  \* the second attempt

TypeOK ==
  /\ code \in Versions /\ rebinds \in 0..MaxRebinds
  /\ named \in {"given", "server", "none"} /\ reported \subseteq Versions
  /\ captured \in BOOLEAN /\ known \in Versions \cup {Nobody}
  /\ resting \in BOOLEAN /\ failure \in {"", "unnamed", "refused"}
  /\ lock \in Threads \cup {Nobody}
  /\ gate \in [Threads -> Gates] /\ torn \subseteq Versions

Idle == [at |-> "idle", seen |-> Nobody, sent |-> Nobody, proof |-> FALSE]

Init ==
  /\ code \in Versions /\ rebinds = 0 /\ named \in {"given", "server", "none"}
  /\ reported = {} /\ captured = FALSE /\ known = Nobody /\ resting = FALSE /\ failure = ""
  /\ lock = Nobody /\ gate = [t \in Threads |-> Idle] /\ torn = {}

At(t, p)   == gate[t].at = p
Set(t, g)  == gate' = [gate EXCEPT ![t] = g]
Goto(t, p) == Set(t, [gate[t] EXCEPT !.at = p])

\* _capture_has_tool
HasTool == captured /\ known = code

Enter(t) ==
  /\ gate[t].at \in {"idle", "pass", "refuse"} /\ Set(t, [Idle EXCEPT !.at = "fast"])
  /\ UNCHANGED <<code, rebinds, named, reported, capture, lock, torn>>

Pass(t) == Set(t, [gate[t] EXCEPT !.at = "pass", !.seen = code])

\* The look without the lock.
LookFast(t) ==
  /\ At(t, "fast")
  /\ IF HasTool THEN Pass(t) ELSE Goto(t, IF resting THEN "refuse" ELSE "lock")
  /\ UNCHANGED <<code, rebinds, named, reported, capture, lock, torn>>

\* The look under it, with the attestation computed again; an agent without
\* a name cannot be registered.
LookLocked(t) ==
  /\ At(t, "lock") /\ lock = Nobody
  /\ IF HasTool THEN Pass(t) /\ UNCHANGED <<resting, failure, lock>>
     ELSE IF resting THEN Goto(t, "refuse") /\ UNCHANGED <<resting, failure, lock>>
     ELSE IF named = "none"
     THEN Goto(t, "refuse") /\ resting' = TRUE /\ failure' = "unnamed" /\ UNCHANGED lock
     ELSE /\ lock' = t /\ UNCHANGED <<resting, failure>>
          /\ Set(t, [gate[t] EXCEPT !.at = "send", !.seen = code])
  /\ UNCHANGED <<code, rebinds, named, reported, captured, known, torn>>

\* _minimal_registration_manifest describes the callable as it is by now.
Send(t) ==
  /\ At(t, "send")
  /\ Set(t, [gate[t] EXCEPT !.at = "answer", !.sent = code])
  /\ UNCHANGED <<code, rebinds, named, reported, capture, lock, torn>>

\* The gateway acknowledges: _mark_registration_capture_ready, by the payload.
Acknowledged(t) ==
  /\ At(t, "answer")
  /\ reported' = reported \cup {gate[t].sent}
  /\ captured' = TRUE /\ known' = gate[t].sent
  /\ Goto(t, "remember")
  /\ UNCHANGED <<code, rebinds, named, resting, failure, lock, torn>>

\* Mutant: a failed capture lets its caller through.
RefusedPasses(t) ==
  /\ At(t, "answer") /\ Pass(t)
  /\ resting' = TRUE /\ failure' = "refused" /\ lock' = Nobody
  /\ UNCHANGED <<code, rebinds, named, reported, captured, known, torn>>

\* A failure answers the caller; a 401 or 403 that says nothing of the
\* registration is worth one attempt with workload proof.
Refused(t) ==
  /\ At(t, "answer")
  /\ \/ /\ ~gate[t].proof /\ Set(t, [gate[t] EXCEPT !.proof = TRUE])
        /\ UNCHANGED <<resting, failure, lock>>
     \/ /\ Goto(t, "refuse") /\ resting' = TRUE /\ failure' = "refused" /\ lock' = Nobody
  /\ UNCHANGED <<code, rebinds, named, reported, captured, known, torn>>

\* _remember_tool_attestation, under the lock still.
Remember(t) ==
  /\ At(t, "remember")
  /\ known' = gate[t].seen /\ failure' = "" /\ lock' = Nobody
  /\ torn' = torn \cup ({gate[t].seen} \ {gate[t].sent})
  /\ Goto(t, "pass")
  /\ UNCHANGED <<code, rebinds, named, reported, captured, resting>>

Rebind ==
  /\ rebinds < MaxRebinds /\ rebinds' = rebinds + 1
  /\ code' \in Versions \ {code}
  /\ UNCHANGED <<named, reported, capture, lock, gate, torn>>

\* Thirty seconds later.
RestEnds ==
  /\ resting /\ resting' = FALSE
  /\ UNCHANGED <<code, rebinds, named, reported, captured, known, failure, lock, gate, torn>>

Step(t) == \/ LookFast(t) \/ LookLocked(t) \/ Send(t) \/ Acknowledged(t) \/ Refused(t)
           \/ Remember(t)

Next == \/ \E t \in Threads : Enter(t) \/ Step(t)
        \/ Rebind \/ RestEnds

----------------------------------------------------------------------------
(* Properties. *)

\* A caller is let through only by code the gateway has acknowledged, or by
\* code that was rebound between its attestation and its report
\* (registry.py:3747-3751, 3822).
PassedWasReported ==
  \A t \in Threads : At(t, "pass") => gate[t].seen \in reported \cup torn
=============================================================================
