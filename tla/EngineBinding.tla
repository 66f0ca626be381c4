---------------------------- MODULE EngineBinding ----------------------------
(***************************************************************************)
(* Which client an agent's run and its tools' calls belong to when several *)
(* clients live in one process (enforcement.py): a binding on the object,  *)
(* else the request's scope, else the only live client.  Two agents share  *)
(* one tool.  Adapters find a tool's engine by its binding at the call     *)
(* ("bound"), or once, when they wrap its callable ("wrapped").            *)
(***************************************************************************)
EXTENDS Naturals, FiniteSets

CONSTANTS
  Clients,
  Threads,
  Agents,      \* they share the tool
  Tool,
  MaxRuns,     \* bound: runs of each thread
  Nobody

VARIABLES
  adapter,     \* "bound" or "wrapped"
  client,      \* each client: "new", "open" or "closed"
  scope,       \* _active_engine, by thread
  bound,       \* _deepintshield_engine of the agents and of the tool
  wrap,        \* the engine inside the tool's wrapped callable
  turn         \* each thread's run

engineVars == <<adapter, client, scope, bound, wrap, turn>>

Objects == Agents \cup {Tool}
Someone == Clients \cup {Nobody}
Rest(n) == [at |-> "rest", agent |-> Nobody, engine |-> Nobody, used |-> Nobody,
            disturbed |-> FALSE, runs |-> n]

TypeOK ==
  /\ adapter \in {"bound", "wrapped"}
  /\ client \in [Clients -> {"new", "open", "closed"}]
  /\ scope \in [Threads -> Someone] /\ bound \in [Objects -> Someone] /\ wrap \in Someone
  /\ turn \in [Threads -> [at : {"rest", "resolve", "bind", "wrap", "wrapping", "body"},
                           agent : Agents \cup {Nobody}, engine : Someone, used : Someone,
                           disturbed : BOOLEAN,    \* history, see RunsUnderItsEngine
                           runs : 0..MaxRuns]]

Init ==
  /\ adapter \in {"bound", "wrapped"}
  /\ client = [c \in Clients |-> "new"] /\ scope = [t \in Threads |-> Nobody]
  /\ bound = [o \in Objects |-> Nobody] /\ wrap = Nobody
  /\ turn = [t \in Threads |-> Rest(0)]

At(t, p) == turn[t].at = p
Turn(t, g) == turn' = [turn EXCEPT ![t] = g]
Open == {c \in Clients : client[c] = "open"}

\* The other runs under way, seen from a change to engine c.
Disturb(t, g, c) ==
  turn' = [u \in Threads |->
             IF u = t THEN g
             ELSE [turn[u] EXCEPT !.disturbed = @ \/ (c # Nobody /\ turn[u].engine # c)]]

----------------------------------------------------------------------------
(* Clients and scopes. *)

\* DeepintShield(...): register_client.
Create(c) ==
  /\ client[c] = "new" /\ client' = [client EXCEPT ![c] = "open"]
  /\ UNCHANGED <<adapter, scope, bound, wrap, turn>>

\* close(): unregister_client; its bindings stay on the objects.
Close(c) ==
  /\ client[c] = "open" /\ client' = [client EXCEPT ![c] = "closed"]
  /\ turn' = [t \in Threads |-> [turn[t] EXCEPT !.disturbed = @ \/ turn[t].engine = c]]
  /\ UNCHANGED <<adapter, scope, bound, wrap>>

\* with shield.agentic.run(...): engine_scope.
EnterScope(t, c) ==
  /\ At(t, "rest") /\ scope[t] = Nobody /\ client[c] # "new"
  /\ scope' = [scope EXCEPT ![t] = c]
  /\ UNCHANGED <<adapter, client, bound, wrap, turn>>

LeaveScope(t) ==
  /\ At(t, "rest") /\ scope[t] # Nobody /\ scope' = [scope EXCEPT ![t] = Nobody]
  /\ UNCHANGED <<adapter, client, bound, wrap, turn>>

----------------------------------------------------------------------------
(* resolve_engine and bind_engine. *)

\* A binding counts while its client lives.
Stale(o) == bound[o] # Nobody /\ bound[o] \notin Open

\* The engines the call may be given: at most one.
Candidates(t, o) ==
  IF bound[o] \in Open THEN {bound[o]}
  ELSE IF scope[t] # Nobody THEN {scope[t]}
  ELSE IF Cardinality(Open) = 1 THEN Open ELSE {}

Run(t, a) ==
  /\ At(t, "rest") /\ turn[t].runs < MaxRuns
  /\ Turn(t, [Rest(turn[t].runs + 1) EXCEPT !.at = "resolve", !.agent = a])
  /\ UNCHANGED <<adapter, client, scope, bound, wrap>>

\* The run boundary chooses its engine, or the run does not start.
Resolve(t) ==
  LET a == turn[t].agent
      found == Candidates(t, a) IN
  /\ At(t, "resolve")
  /\ bound' = IF Stale(a) THEN [bound EXCEPT ![a] = Nobody] ELSE bound
  /\ \/ \E e \in found :
          Turn(t, [turn[t] EXCEPT !.at = "bind", !.engine = e, !.disturbed = FALSE])
     \/ found = {} /\ Turn(t, Rest(turn[t].runs))
  /\ UNCHANGED <<adapter, client, scope, wrap>>

Bound(t) == [turn[t] EXCEPT !.at = IF adapter = "bound" THEN "body" ELSE "wrap"]

\* Mutant: the run binds its agent only.
BindShallow(t) ==
  /\ At(t, "bind")
  /\ bound' = [bound EXCEPT ![turn[t].agent] = turn[t].engine]
  /\ Turn(t, Bound(t))
  /\ UNCHANGED <<adapter, client, scope, wrap>>

\* bind_engine(recursive): the agent, and the tool within it.
Bind(t) ==
  /\ At(t, "bind")
  /\ bound' = [bound EXCEPT ![turn[t].agent] = turn[t].engine, ![Tool] = turn[t].engine]
  /\ Disturb(t, Bound(t), turn[t].engine)
  /\ UNCHANGED <<adapter, client, scope, wrap>>

\* openai_agents._wrap_tool: a callable wrapped for another client is refused.
CheckWrap(t) ==
  /\ At(t, "wrap")
  /\ Turn(t, IF wrap = Nobody THEN [turn[t] EXCEPT !.at = "wrapping"]
             ELSE IF wrap = turn[t].engine THEN [turn[t] EXCEPT !.at = "body"]
             ELSE Rest(turn[t].runs))
  /\ UNCHANGED <<adapter, client, scope, bound, wrap>>

SetWrap(t) ==
  /\ At(t, "wrapping")
  /\ wrap' = turn[t].engine
  /\ Disturb(t, [turn[t] EXCEPT !.at = "body"], turn[t].engine)
  /\ UNCHANGED <<adapter, client, scope, bound>>

\* The body calls the tool, which finds its engine again, or has it inside.
Call(t) ==
  LET found == IF adapter = "wrapped" THEN {wrap} ELSE Candidates(t, Tool) IN
  /\ At(t, "body") /\ turn[t].used = Nobody
  /\ \/ \E e \in found :
          /\ Disturb(t, [turn[t] EXCEPT !.used = e], IF adapter = "wrapped" THEN Nobody ELSE e)
          /\ bound' = IF adapter = "wrapped" THEN bound ELSE [bound EXCEPT ![Tool] = e]
     \/ /\ found = {} /\ Turn(t, Rest(turn[t].runs))
        /\ bound' = IF Stale(Tool) THEN [bound EXCEPT ![Tool] = Nobody] ELSE bound
  /\ UNCHANGED <<adapter, client, scope, wrap>>

EndRun(t) ==
  /\ At(t, "body") /\ Turn(t, Rest(turn[t].runs))
  /\ UNCHANGED <<adapter, client, scope, bound, wrap>>

Next ==
  \/ \E c \in Clients : Create(c) \/ Close(c)
  \/ \E t \in Threads : \/ \E c \in Clients : EnterScope(t, c)
                        \/ \E a \in Agents : Run(t, a)
                        \/ LeaveScope(t) \/ Resolve(t) \/ Bind(t) \/ CheckWrap(t) \/ SetWrap(t)
                        \/ Call(t) \/ EndRun(t)

Spec == Init /\ [][Next]_engineVars

----------------------------------------------------------------------------
(* Properties. *)

\* A tool call is decided by the engine of the run it belongs to, unless since
\* the run chose it another run bound the shared tool to its own, or its client
\* was closed (enforcement.py:131-133, 201-221).
RunsUnderItsEngine ==
  \A t \in Threads : turn[t].used \in {Nobody, turn[t].engine} \/ turn[t].disturbed

\* What bind_engine says of it: "a team/agent selected at its run boundary
\* passes the same tenant/VK to its tool calls" (enforcement.py:131-132).
SameTenantForTools ==
  \A t \in Threads : turn[t].used \in {Nobody, turn[t].engine} \/ turn[t].engine \notin Open
=============================================================================
