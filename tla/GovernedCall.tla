----------------------------- MODULE GovernedCall -----------------------------
(***************************************************************************)
(* One governed tool call from its wrapper to its body: the security       *)
(* setting read and pinned for the run (runtime.py), the code captured     *)
(* first and the run's frame opened (gate.preflight, execution.py), the    *)
(* decision asked from the gateway's canonical route or, from a gateway    *)
(* that has none, from its older one (engine.decide), approvals, task      *)
(* receipts (task_context.py), the body, a nested call inside it, and the  *)
(* run's end.  Tasks share one engine and one gateway, whose security      *)
(* setting and release change while they run.                              *)
(***************************************************************************)
EXTENDS Naturals, Sequences, FiniteSets

CONSTANTS
  Tasks,          \* threads or async tasks that call governed tools
  Nesting,        \* the tasks whose body calls another governed tool
  Managed,        \* the tasks of a managed worker's process (_WORKER_FILES set)
  MaxRuns,        \* bound: top-level runs of one task
  MaxChanges,     \* bound: changes of the workspace's setting or release
  MaxPolls,       \* bound: decisions asked while waiting for one approval
  MaxReceipts     \* bound: task receipts the gateway issues

ASSUME TasksAssumption == Managed \subseteq Tasks /\ Nesting \subseteq Tasks
ASSUME BoundsAssumption ==
  MaxRuns \in Nat /\ MaxChanges \in Nat /\ MaxPolls \in Nat /\ MaxReceipts \in Nat

VARIABLES
  setting,        \* gateway: Agentic Security is "on" or "off" in the workspace
  release,        \* gateway: "new" has the canonical routes, "old" has not
  changes,
  issued,         \* gateway: receipts issued so far
  canonical,      \* _canonical_credential_info_available: "unknown", "yes", "no"
  info,           \* whether credential-info is cached
  gafAbsent,      \* the canonical decide route rests after a 404
  legacyAbsent,   \* the older decide route rests
  captured,       \* the tool's code has been registered
  story,          \* the lifecycle events each run has put on the queue
  call            \* call[t]: where the task stands, see Calls

gatewayVars == <<setting, release, changes, issued>>
engineVars  == <<canonical, info, gafAbsent, legacyAbsent, captured>>
vars == <<story, gatewayVars, engineVars, call>>

Steps == {"idle", "preflight", "capture", "scope", "gate", "info", "decide",
          "legacy", "poll", "wait", "body", "end"}
Frames   == Tasks \X (1..MaxRuns)
Outcomes == {"complete", "failed", "blocked", "cancelled", "awaiting_approval"}
Errors == {"none", "denied", "pending", "failed", "cancelled", "error"}
Calls == [at : Steps,
  runs     : 0..MaxRuns,                \* top-level runs begun
  depth    : 0..2,                      \* 1 the run's call, 2 a call nested in its body
  pinned   : {"unset", "on", "off"},    \* security_scope
  mandate  : {"none", "held"},          \* a task mandate is in the context
  receipt  : 0..MaxReceipts,            \* TaskContext.last_receipt
  attempt  : 0..1,                      \* decide's loop
  source   : {"none", "gaf", "receipt", "legacy", "off"},   \* history: on what the body runs
  polls    : 0..MaxPolls,
  args     : {"shown", "changed"},      \* the caller's arguments against the digest
  waited   : BOOLEAN,                   \* this call waited for an approval
  mark     : Outcomes \cup {"none"},    \* frame.terminal_event
  error    : Errors]                    \* the exception under way

TypeOK ==
  /\ story \in [Frames -> Seq(Outcomes \cup {"start"})]
  /\ setting \in {"on", "off"} /\ release \in {"old", "new"} /\ changes \in 0..MaxChanges
  /\ issued \in 0..MaxReceipts
  /\ canonical \in {"unknown", "yes", "no"}
  /\ info \in BOOLEAN /\ gafAbsent \in BOOLEAN /\ legacyAbsent \in BOOLEAN
  /\ captured \in BOOLEAN
  /\ call \in [Tasks -> Calls]

NewCall(runs, depth, pinned, mandate, receipt, mark) ==
  [at |-> "preflight", runs |-> runs, depth |-> depth, pinned |-> pinned, mandate |-> mandate,
   receipt |-> receipt, attempt |-> 0, source |-> "none",
   polls |-> 0, args |-> "shown", waited |-> FALSE, mark |-> mark, error |-> "none"]

Idle(runs, mandate, receipt) ==
  [NewCall(runs, 0, "unset", mandate, receipt, "none") EXCEPT !.at = "idle"]

Init ==
  /\ story = [f \in Frames |-> <<>>]
  /\ setting \in {"on", "off"} /\ release \in {"old", "new"} /\ changes = 0 /\ issued = 0
  /\ canonical = "unknown" /\ info = FALSE /\ gafAbsent = FALSE /\ legacyAbsent = FALSE
  /\ captured = FALSE
  /\ \E held \in SUBSET Tasks :
       call = [t \in Tasks |-> Idle(0, IF t \in held THEN "held" ELSE "none", 0)]

Emit(t, ev) == story' = [story EXCEPT ![<<t, call[t].runs>>] = Append(@, ev)]
At(t, s)    == call[t].at = s
Set(t, c)   == call' = [call EXCEPT ![t] = c]
Goto(t, s)  == Set(t, [call[t] EXCEPT !.at = s])
Fail(t, e)  == Set(t, [call[t] EXCEPT !.at = "end", !.error = e])
Held(t)     == call[t].mandate = "held"

----------------------------------------------------------------------------
(* The wrapper: decorators.shield_tool and every adapter. *)

\* A wrapped tool is called at the top level of a task.
Begin(t) ==
  /\ At(t, "idle") /\ call[t].runs < MaxRuns
  /\ Set(t, NewCall(call[t].runs + 1, 1, "unset", call[t].mandate, call[t].receipt, "none"))
  /\ UNCHANGED <<story, gatewayVars, engineVars>>

\* What fetch_security_enabled may tell: only a consistent answer of a
\* gateway that has the route says "off"; a gateway without it says "on".
SettingReads == IF release = "old" THEN {"on", "error"} ELSE {setting, "error"}

\* security_enabled with require_task_security: the pinned value of the run,
\* or the gateway's; a mandate refuses "off".
Reads(t) ==
  LET raw == IF call[t].pinned # "unset" THEN {call[t].pinned} ELSE SettingReads
  IN  {IF r = "off" /\ Held(t) THEN "error" ELSE r : r \in raw}

\* gate.preflight, before the scope: the setting decides whether to capture.
Preflight(t) ==
  /\ At(t, "preflight")
  /\ \/ "on" \in Reads(t) /\ Goto(t, "capture")
     \/ "off" \in Reads(t) /\ Goto(t, "scope")
     \/ "error" \in Reads(t) /\ Fail(t, "error")
  /\ UNCHANGED <<story, gatewayVars, engineVars>>

\* ensure_registration_capture succeeds, or preflight raises.
Capture(t, to) ==
  \/ captured' = TRUE /\ Goto(t, to)
  \/ ~captured /\ Fail(t, "error") /\ UNCHANGED captured

CaptureFirst(t) ==
  /\ At(t, "capture") /\ Capture(t, "scope")
  /\ UNCHANGED <<story, gatewayVars, canonical, info, gafAbsent, legacyAbsent>>

\* Mutant: a nested entry point opens a frame of its own story again.
OpenScopeEach(t) ==
  /\ At(t, "scope")
  /\ \/ call[t].depth = 2 /\ Goto(t, "gate")
        /\ IF call[t].pinned = "on" THEN Emit(t, "start") ELSE UNCHANGED story
     \/ call[t].depth = 1 /\ \E r \in Reads(t) \ {"error"} :
          /\ Set(t, [call[t] EXCEPT !.at = "gate", !.pinned = r])
          /\ IF r = "on" THEN Emit(t, "start") ELSE UNCHANGED story
     \/ "error" \in Reads(t) /\ Fail(t, "error") /\ UNCHANGED story
  /\ UNCHANGED <<gatewayVars, engineVars>>

\* execution_scope: the setting is read again and pinned, the frame opened
\* and its start emitted.  A nested call reuses the outer scope and frame.
OpenScope(t) ==
  /\ At(t, "scope")
  /\ \/ call[t].depth = 2 /\ Goto(t, "gate") /\ UNCHANGED story
     \/ call[t].depth = 1 /\ \E r \in Reads(t) \ {"error"} :
          /\ Set(t, [call[t] EXCEPT !.at = "gate", !.pinned = r])
          /\ IF r = "on" THEN Emit(t, "start") ELSE UNCHANGED story
     \/ "error" \in Reads(t) /\ Fail(t, "error") /\ UNCHANGED story
  /\ UNCHANGED <<gatewayVars, engineVars>>

Enter(t, source) == [call[t] EXCEPT !.at = "body", !.source = source]

\* Mutant: resolve trusts the preflight before the scope to have captured.
ResolveUncaptured(t) ==
  /\ At(t, "gate")
  /\ IF call[t].pinned = "off" THEN Set(t, Enter(t, "off")) ELSE Goto(t, "info")
  /\ UNCHANGED <<story, gatewayVars, engineVars>>

\* gate.resolve: a run pinned "off" passes through; any other is captured
\* first, wherever it came from.
Resolve(t) ==
  /\ At(t, "gate")
  /\ IF call[t].pinned = "off"
     THEN Set(t, Enter(t, "off")) /\ UNCHANGED captured
     ELSE Capture(t, "info")
  /\ UNCHANGED <<story, gatewayVars, canonical, info, gafAbsent, legacyAbsent>>

----------------------------------------------------------------------------
(* engine.decide *)

\* _gaf_payload reads agent_subject, and so credential-info, unless cached;
\* the answer's route shows whether the gateway has the canonical surface.
ReadInfo(t) ==
  /\ At(t, "info")
  /\ IF gafAbsent
     THEN Goto(t, "legacy") /\ UNCHANGED <<canonical, info>>
     ELSE IF info
     THEN Goto(t, "decide") /\ UNCHANGED <<canonical, info>>
     ELSE \/ /\ canonical' = IF release = "new" THEN "yes" ELSE "no"
             /\ \/ info' = TRUE /\ Goto(t, "decide")
                \/ Fail(t, "error") /\ UNCHANGED info
          \/ Fail(t, "error") /\ UNCHANGED <<canonical, info>>
  /\ UNCHANGED <<story, gatewayVars, gafAbsent, legacyAbsent, captured>>

LegacyAllowed(t) == ~Held(t) /\ canonical = "no" /\ ~legacyAbsent

\* gate.resolve acts on a verdict: a managed worker waits for a canonical
\* approval; after a wait only a canonical verdict counts, and only for
\* arguments nobody has changed.
Act(t, c, verdict, source) ==
  IF verdict = "approval" /\ source = "gaf" /\ t \in Managed
  THEN Set(t, [c EXCEPT !.at = "wait", !.waited = TRUE])
  ELSE IF c.waited /\ source = "legacy" THEN Fail(t, "error")
  ELSE IF c.waited /\ c.args = "changed" THEN Fail(t, "denied")
  ELSE IF verdict = "allow" THEN Set(t, [c EXCEPT !.at = "body", !.source = source])
  ELSE IF verdict = "approval" /\ source = "legacy" THEN Goto(t, "poll")
  ELSE Fail(t, IF verdict = "deny" THEN "denied" ELSE "pending")

\* Unreachable, a 5xx, a malformed answer, or no credential for the request.
DecideFails(t) ==
  /\ At(t, "decide") \/ At(t, "legacy")
  /\ Fail(t, "error")
  /\ UNCHANGED <<story, gatewayVars, engineVars>>

\* Mutant: a verdict to proceed is taken under a mandate without a new receipt.
CanonicalAnyReceipt(t) ==
  /\ At(t, "decide") /\ release = "new"
  /\ \E v \in {"allow", "deny", "approval"} : Act(t, call[t], v, "gaf")
  /\ UNCHANGED <<story, gatewayVars, engineVars>>

\* The canonical route answers.  Under a mandate a verdict to proceed needs a
\* receipt that is new to the context (capture_task_receipt); a gateway may
\* leave it out or repeat the last one.
Canonical(t) ==
  /\ At(t, "decide") /\ release = "new"
  /\ \/ IF Held(t) THEN Fail(t, "error") ELSE Act(t, call[t], "allow", "gaf")
     \/ \E v \in {"deny", "approval", "lostApproval"} : Act(t, call[t], v, "gaf")
  /\ UNCHANGED <<story, gatewayVars, engineVars>>

Receipt(t) ==
  /\ At(t, "decide") /\ release = "new" /\ Held(t) /\ issued < MaxReceipts
  /\ issued' = issued + 1
  /\ Act(t, [call[t] EXCEPT !.receipt = issued + 1], "allow", "receipt")
  /\ UNCHANGED <<story, setting, release, changes, engineVars>>

\* Mutant: every refusal is worth another attempt.
RefusedAgain(t) ==
  /\ (At(t, "decide") /\ release = "new") \/ (At(t, "legacy") /\ LegacyAllowed(t))
  /\ info' = FALSE /\ Set(t, [call[t] EXCEPT !.at = "info", !.attempt = @ + 1])
  /\ UNCHANGED <<story, gatewayVars, canonical, gafAbsent, legacyAbsent, captured>>

\* 401 or 403 from either route: decide resets what it knows of the
\* credential and asks once more.
Refused(t) ==
  /\ (At(t, "decide") /\ release = "new") \/ (At(t, "legacy") /\ LegacyAllowed(t))
  /\ IF call[t].attempt = 0
     THEN info' = FALSE /\ Set(t, [call[t] EXCEPT !.at = "info", !.attempt = 1])
     ELSE Fail(t, "error") /\ UNCHANGED info
  /\ UNCHANGED <<story, gatewayVars, canonical, gafAbsent, legacyAbsent, captured>>

\* No such route: only a gateway whose credential-info was missing too is an
\* older one; a mandate never falls back.
NoRoute(t) ==
  /\ At(t, "decide") /\ release = "old"
  /\ IF Held(t) \/ canonical # "no"
     THEN Fail(t, "error") /\ UNCHANGED gafAbsent
     ELSE gafAbsent' = TRUE /\ Goto(t, "legacy")
  /\ UNCHANGED <<story, gatewayVars, canonical, info, legacyAbsent, captured>>

\* _post_legacy_compat_decide, under _decide_once.
Legacy(t) ==
  /\ At(t, "legacy") /\ LegacyAllowed(t)
  /\ \/ release = "new" /\ legacyAbsent' = TRUE /\ Fail(t, "error")
     \/ /\ \E v \in {"allow", "deny", "approval"} : Act(t, call[t], v, "legacy")
        /\ UNCHANGED legacyAbsent
  /\ UNCHANGED <<story, gatewayVars, canonical, info, gafAbsent, captured>>

----------------------------------------------------------------------------
(* gate.resolve after the decision *)

\* The next poll asks for the same operands again, or the deadline has come.
WaitApproval(t) ==
  /\ At(t, "wait")
  /\ \/ /\ call[t].polls < MaxPolls
        /\ Set(t, [call[t] EXCEPT !.at = "info", !.attempt = 0, !.polls = @ + 1])
     \/ Fail(t, IF call[t].args = "changed" THEN "denied" ELSE "pending")
  /\ UNCHANGED <<story, gatewayVars, engineVars>>

\* poll_approval on the older gateway.
PollLegacy(t) ==
  /\ At(t, "poll")
  /\ \/ Set(t, Enter(t, "legacy"))
     \/ \E e \in {"denied", "pending", "error"} : Fail(t, e)
  /\ UNCHANGED <<story, gatewayVars, engineVars>>

\* Another thread changes the arguments the call shares with it.
ChangeArgs(t) ==
  /\ At(t, "wait") /\ call[t].args = "shown"
  /\ Set(t, [call[t] EXCEPT !.args = "changed"])
  /\ UNCHANGED <<story, gatewayVars, engineVars>>

----------------------------------------------------------------------------
(* The body and the end of the run. *)

\* The body calls another governed tool of this engine.
Nest(t) ==
  /\ At(t, "body") /\ t \in Nesting /\ call[t].depth = 1
  /\ Set(t, NewCall(call[t].runs, 2, call[t].pinned, call[t].mandate, call[t].receipt,
                    call[t].mark))
  /\ UNCHANGED <<story, gatewayVars, engineVars>>

\* mark_execution_outcome: a denial reported as a value.
Mark(t) ==
  /\ At(t, "body") /\ call[t].mark = "none"
  /\ Set(t, [call[t] EXCEPT !.mark = "blocked"])
  /\ UNCHANGED <<story, gatewayVars, engineVars>>

\* The body returns or raises.
Return(t) ==
  /\ At(t, "body")
  /\ \E e \in {"none", "failed", "cancelled"} : Fail(t, e)
  /\ UNCHANGED <<story, gatewayVars, engineVars>>

\* _failure_metadata, or the outcome an adapter marked.
Outcome(c) ==
  IF c.mark # "none" THEN c.mark
  ELSE CASE c.error = "none"      -> "complete"
         [] c.error = "denied"    -> "blocked"
         [] c.error = "pending"   -> "awaiting_approval"
         [] c.error = "cancelled" -> "cancelled"
         [] OTHER                 -> "failed"

\* The nested call is over: its exception leaves the outer body, or is caught.
EndNested(t) ==
  /\ At(t, "end") /\ call[t].depth = 2
  /\ \/ Set(t, [call[t] EXCEPT !.at = "body", !.depth = 1, !.error = "none"])
     \/ call[t].error # "none" /\ Set(t, [call[t] EXCEPT !.depth = 1])
  /\ UNCHANGED <<story, gatewayVars, engineVars>>

\* execution_scope's end, when the frame was opened.
EndRun(t) ==
  /\ At(t, "end") /\ call[t].depth = 1
  /\ Set(t, Idle(call[t].runs, call[t].mandate, call[t].receipt))
  /\ IF call[t].pinned = "on" THEN Emit(t, Outcome(call[t])) ELSE UNCHANGED story
  /\ UNCHANGED <<gatewayVars, engineVars>>

----------------------------------------------------------------------------
(* The environment. *)

\* An administrator switches the setting, or the gateway is up- or downgraded.
Change ==
  /\ changes < MaxChanges /\ changes' = changes + 1
  /\ \/ setting' = (IF setting = "on" THEN "off" ELSE "on") /\ UNCHANGED release
     \/ release' = (IF release = "old" THEN "new" ELSE "old") /\ UNCHANGED setting
  /\ UNCHANGED <<story, issued, engineVars, call>>

\* Sixty seconds after a route was found absent it is tried again.
ProbeAgain ==
  /\ gafAbsent \/ legacyAbsent
  /\ gafAbsent' = FALSE /\ legacyAbsent' = FALSE
  /\ UNCHANGED <<story, gatewayVars, canonical, info, captured, call>>

TaskStep(t) ==
  \/ Preflight(t) \/ CaptureFirst(t) \/ OpenScope(t) \/ Resolve(t) \/ ReadInfo(t) \/ Canonical(t) \/ Refused(t)
  \/ NoRoute(t) \/ Legacy(t) \/ DecideFails(t) \/ Receipt(t) \/ WaitApproval(t) \/ PollLegacy(t)
  \/ Return(t) \/ EndNested(t) \/ EndRun(t)

Next ==
  \/ \E t \in Tasks : TaskStep(t) \/ Begin(t) \/ ChangeArgs(t) \/ Nest(t) \/ Mark(t)
  \/ Change \/ ProbeAgain

Spec == Init /\ [][Next]_vars

----------------------------------------------------------------------------
(* Properties. *)

Enters(t) == call[t].at \in {"gate", "decide", "legacy", "poll"} /\ call'[t].at = "body"

\* Under enabled security no body runs before its code has been registered,
\* even when the setting was off for the first look and on for the run
\* (gate.py:72, 147; runtime.py:44-55).
CapturedFirst ==
  [][\A t \in Tasks : Enters(t) /\ call[t].pinned = "on" => captured]_vars

\* A body runs on authority that is its own: under a task mandate on a
\* canonical receipt captured for this very call, and after waiting for an
\* approval on a canonical verdict for arguments nobody has changed since
\* (engine.py:1262-1275, gate.py:166-171).
AuthorityIsItsOwn ==
  [][\A t \in Tasks : Enters(t) =>
       LET c == call'[t] IN
       /\ Held(t) => c.source = "receipt" /\ c.receipt > call[t].receipt
       /\ c.waited => c.source \in {"gaf", "receipt"} /\ c.args = "shown"]_vars

\* Whatever is nested in a run, its story is one start and then one end: none
\* is told twice or in the wrong order, and a run that is over has told its end
\* if it told its start (execution.py:102-190).
OneStoryPerRun ==
  \A t \in Tasks : \A r \in 1..MaxRuns :
    LET s == story[<<t, r>>] IN
    /\ Len(s) <= 2
    /\ Len(s) > 0 => s[1] = "start"
    /\ Len(s) = 2 => s[2] # "start"
    /\ r < call[t].runs \/ (r = call[t].runs /\ At(t, "idle")) => Len(s) # 1

\* Every variable keeps its type, and every run tells one story, whatever is
\* nested in it (execution.py:102-190).
Consistent == TypeOK /\ OneStoryPerRun
=============================================================================
