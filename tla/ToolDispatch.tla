----------------------------- MODULE ToolDispatch -----------------------------
(***************************************************************************)
(* One tool call on its way through a framework to the tool's body         *)
(* (integrations/*.py): the framework's own callbacks, the hook an         *)
(* application may still attach by hand, the guard installed at the last   *)
(* boundary, and what a MASK verdict does to the arguments there.          *)
(* A call is entered once more when the framework's dispatcher calls       *)
(* itself (a compiled subgraph's stream, Hermes' tool_call bridge).        *)
(***************************************************************************)
EXTENDS Naturals, Sequences

CONSTANTS Tools, Values

VARIABLE call

\* The boundaries that gate a call, named for their adapter.
Adapters == {"langchain", "llamaindex", "autogen", "wrapped", "decorated", "openai", "strands",
             "terminal", "adk", "manager", "hermes", "temporal", "pydantic", "genai", "litellm",
             "graph"}
Hooked   == {"langchain", "strands", "terminal", "adk", "manager", "hermes"}
Rewrites == {"strands", "terminal", "adk", "manager"}
Cancels  == {"strands", "manager"}
Nested   == {"graph", "hermes"}

\* What reaches a boundary: arguments by name, by position, one mapping, or
\* another object.
Forms(a) ==
  CASE a \in {"strands", "terminal", "adk", "manager", "hermes"} -> {"mapping", "object"}
    [] a \in {"langchain", "graph", "temporal"} -> {"mapping", "object"}
    [] a = "pydantic" -> {"mapping", "object"}
    [] a = "openai"   -> {"object"}
    [] OTHER          -> {"keyword", "positional"}

Verdicts == {"allow", "mask", "deny", "approval", "fail"}
Blocking == {"deny", "approval", "fail"}

TypeOK ==
  /\ call.adapter \in Adapters /\ call.form \in {"mapping", "object", "keyword", "positional"}
  /\ call.auto \in BOOLEAN /\ call.hook \in BOOLEAN /\ call.tool \in Tools
  /\ call.value \in Values
  /\ call.at \in {"callbacks", "guard", "inner", "run", "ran", "blocked", "raised", "cancelled", "native"}
  /\ call.masked \in BOOLEAN
  /\ \A i \in 1..Len(call.decided) : call.decided[i].verdict \in Verdicts

\* A runtime without the automatic boundary is one for which only the hook is
\* there; calls that are no tool calls, and invalid ones, keep their own path.
Init ==
  \E a \in Adapters, auto, hook, inner \in BOOLEAN, t \in Tools, v \in Values :
    \E f \in Forms(a) :
      /\ (hook => a \in Hooked) /\ (~auto => hook /\ a # "terminal") /\ (inner => a \in Nested)
      /\ call = [adapter |-> a, form |-> f, auto |-> auto, hook |-> hook, inner |-> inner,
                 tool |-> t, value |-> v, at |-> "callbacks", changed |-> FALSE, hooked |-> ~hook,
                 admitted |-> FALSE, masked |-> FALSE, decided |-> <<>>]

At(p) == call.at = p
Is(as) == call.adapter \in as

Decide(c, v) == [c EXCEPT !.decided = Append(@, [tool |-> c.tool, value |-> c.value, verdict |-> v])]

----------------------------------------------------------------------------
(* Before the guard. *)

\* A callback of the application replaces the tool or its arguments.
Rewrite ==
  /\ At("callbacks") /\ Is(Rewrites) /\ ~call.changed
  /\ \E t \in Tools, v \in Values : call' = [call EXCEPT !.tool = t, !.value = v, !.changed = TRUE]

\* A callback cancels the call, or answers in the tool's place.
Cancel == At("callbacks") /\ Is(Cancels) /\ call' = [call EXCEPT !.at = "cancelled"]

\* What the hook attached by hand does on its own: Strands' and LangChain's
\* cannot rewrite, ADK's can, Hermes' blocks what it cannot apply.
HookEnds(c, v) ==
  CASE v = "deny" \/ v = "approval" -> [c EXCEPT !.at = IF Is({"langchain", "strands"}) THEN "raised" ELSE "blocked"]
    [] v = "fail"  -> [c EXCEPT !.at = IF Is({"hermes"}) THEN "blocked" ELSE "raised"]
    [] v = "mask"  -> IF Is({"hermes"}) THEN [c EXCEPT !.at = "blocked"]
                      ELSE [c EXCEPT !.masked = Is({"adk", "manager"}) /\ c.form = "mapping"]
    [] v = "allow" -> c

\* Mutant: the hook decides although the automatic guard will.
HookTwice ==
  /\ At("callbacks") /\ ~call.hooked
  /\ \E v \in Verdicts : call' = HookEnds([Decide(call, v) EXCEPT !.hooked = TRUE], v)

\* It leaves the call to the automatic guard when there is one.
Hook ==
  /\ At("callbacks") /\ ~call.hooked
  /\ IF call.auto THEN call' = [call EXCEPT !.hooked = TRUE]
     ELSE \E v \in Verdicts : call' = HookEnds([Decide(call, v) EXCEPT !.hooked = TRUE], v)

\* The last boundary is reached when every callback has run.
Arrive ==
  /\ At("callbacks") /\ call.hooked
  /\ call' = [call EXCEPT !.at = IF call.auto THEN "guard" ELSE "run"]

----------------------------------------------------------------------------
(* At the guard. *)

\* Guards that take nothing but a mapping, before they ask.
Refuses(a, form) == a \in {"terminal", "adk", "manager", "pydantic"} /\ form # "mapping"

\* A blocking verdict raises; any other lets the body run, with masked
\* arguments where the boundary can put them.
Settle(v, masks) ==
  call' = [Decide(call, v) EXCEPT !.at = IF v \in Blocking THEN "raised" ELSE "run",
                                  !.masked = v = "mask" /\ masks]
Stops(v) == call' = [Decide(call, v) EXCEPT !.at = "raised"]

\* Functions wrapped or decorated one by one, and methods patched on a class:
\* the decorator masks the whole call, the others what is passed by name.
Decorated(v)   == Is({"decorated"}) /\ Settle(v, TRUE)
Wrapped(v)     == Is({"wrapped"}) /\ Settle(v, call.form = "keyword")
MethodGuard(v) == Is({"llamaindex", "autogen"}) /\ Settle(v, call.form = "keyword")

\* BaseTool.run and arun: the tool's input, when it is a mapping.
Langchain(v) == Is({"langchain"}) /\ Settle(v, call.form = "mapping")

\* GenAI would hand an error of the tool to the model; a governance error is
\* carried past that as a signal of its own.
Genai(v) == Is({"genai"}) /\ Settle(v, call.form = "keyword")

\* A completion, gated like a tool.
Litellm(v) == Is({"litellm"}) /\ Settle(v, call.form = "keyword")

\* The wrapper around on_invoke_tool: the verdict's obligations go unused.
Openai(v) == Is({"openai"}) /\ Settle(v, FALSE)

\* Strands' executor hook; a MASK it cannot write back stops the call.
Strands(v) ==
  /\ Is({"strands"})
  /\ IF v = "mask" /\ call.form # "mapping" THEN Stops(v) ELSE Settle(v, TRUE)

\* The middleware terminal of its later releases.
Terminal(v) == Is({"terminal"}) /\ Settle(v, TRUE)

\* ADK's dispatchers, and the plugin manager of its older releases.
Adk(v) == Is({"adk", "manager"}) /\ Settle(v, TRUE)

\* PydanticAI: a copy of the validated call carries the masked arguments; a
\* call that cannot be copied stops.
Pydantic(v) == Is({"pydantic"}) /\ (Settle(v, TRUE) \/ (v = "mask" /\ Stops(v)))

\* Invalid, output and external calls, and preset rejections, run no tool.
Native == At("guard") /\ Is({"pydantic", "terminal"}) /\ call' = [call EXCEPT !.at = "native"]

\* Temporal: mappings among the activity's arguments are replaced.
Temporal(v) ==
  Is({"temporal"}) /\ (Settle(v, call.form = "mapping") \/ (v = "mask" /\ call.form = "mapping" /\ Stops(v)))

\* Hermes would go on after an exception, so every failure is a result; what
\* it cannot mask is blocked.
Hermes(v) ==
  /\ Is({"hermes"}) /\ ~call.inner
  /\ call' = [Decide(call, v) EXCEPT !.at = IF v = "allow" THEN "run" ELSE "blocked"]

\* A bridge tool passes undecided; the tool it stands for arrives on its own.
HermesBridge == Is({"hermes"}) /\ At("guard") /\ call.inner /\ call' = [call EXCEPT !.inner = FALSE]

\* A node: its entry points admit the runnable for the call.
Node(v) ==
  /\ Is({"graph"}) /\ ~call.admitted
  /\ call' = [Decide(call, v) EXCEPT !.at = IF v \in Blocking THEN "raised" ELSE IF call.inner THEN "inner" ELSE "run",
                                     !.admitted = v \notin Blocking,
                                     !.masked = v = "mask" /\ call.form = "mapping"]

\* The runnable drives its own stream, which finds it admitted.
NodeInner == At("inner") /\ call' = [call EXCEPT !.at = IF call.admitted THEN "run" ELSE "guard"]

Guard ==
  /\ At("guard")
  /\ IF Refuses(call.adapter, call.form) THEN call' = [call EXCEPT !.at = "raised"]
     ELSE \E v \in Verdicts :
            \/ Decorated(v) \/ Wrapped(v) \/ MethodGuard(v) \/ Langchain(v) \/ Genai(v)
            \/ Litellm(v) \/ Openai(v) \/ Strands(v) \/ Terminal(v) \/ Adk(v)
            \/ Pydantic(v) \/ Temporal(v) \/ Hermes(v) \/ Node(v)

Run == At("run") /\ call' = [call EXCEPT !.at = "ran", !.admitted = FALSE]

Next == Rewrite \/ Cancel \/ Hook \/ Arrive \/ Native \/ HermesBridge \/ NodeInner \/ Guard \/ Run

Spec == Init /\ [][Next]_call

----------------------------------------------------------------------------
(* Properties. *)

\* Where the automatic guard is installed, a body runs on exactly one decision
\* and that one was about the tool and the arguments that ran
\* (strands.py:369-376; langgraph.py:56-61; hermes.py:205-208).
DecidedAsRun ==
  (At("ran") /\ call.auto) =>
    /\ Len(call.decided) = 1
    /\ call.decided[1].verdict \notin Blocking
    /\ call.decided[1].tool = call.tool /\ call.decided[1].value = call.value

\* Arguments a boundary can rewrite are never run in the clear after a MASK
\* (strands.py:433-441; pydanticai.py _with_validated_args; hermes.py:122).
MaskReaches ==
  (At("ran") /\ call.auto /\ call.form \in {"mapping", "keyword"} /\ call.decided[1].verdict = "mask")
    => call.masked

\* A call by name and a call by position are masked alike: "Redaction covers
\* positional and keyword arguments alike" (README.md:1051-1052).
PositionIsNoWayOut ==
  (At("ran") /\ call.form \in {"keyword", "positional"} /\ call.decided[1].verdict = "mask") => call.masked
=============================================================================
