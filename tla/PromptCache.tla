----------------------------- MODULE PromptCache -----------------------------
(***************************************************************************)
(* The hook that adds a provider's cache hints to a request on its way out *)
(* (_prompt_cache.py).  A request that is redirected passes it again.      *)
(***************************************************************************)
EXTENDS Naturals, Sequences, FiniteSets

CONSTANTS
  Sends        \* bound: times one request is sent

VARIABLES
  request,     \* its body
  original,    \* as the caller made it
  hook,        \* the client's: its provider and breakpoints
  sent

hookVars == <<request, original, hook, sent>>

\* A block is marked by the caller, by the hook ("sdk") or by nobody; "other" is
\* no object.
Blocks == {<<>>, <<"bare">>, <<"caller">>, <<"bare", "other">>, <<"caller", "bare">>}
Bodies ==
  [json : BOOLEAN,                            \* a POST of a JSON object
   top : {"bare", "caller"},                  \* automatic caching
   system : Blocks \cup {<<"text">>},         \* a plain text, or blocks
   tools : Blocks,
   user : {<<>>, <<"bare">>, <<"caller", "bare">>},   \* last user message, its end is large
   model : {"openai", "finetune", "elsewhere"},
   key : {"none", "caller"}]                  \* prompt_cache_key

Hooks == [provider : {"anthropic", "openai", "mistral"},
          breakpoints : {{"system", "tools"}, {"system", "tools", "large_blocks"}}]

TypeOK ==
  /\ original \in Bodies /\ hook \in Hooks /\ sent \in 0..Sends
  /\ request.json = original.json /\ request.key \in {"none", "caller", "sdk"}

Init ==
  /\ original \in {b \in Bodies : (b.json \/ b.top = "bare") /\ (b.key = "caller" => b.top = "bare")}
  /\ request = original /\ sent = 0
  /\ hook \in Hooks

----------------------------------------------------------------------------
(* _inject_anthropic. *)

Has(s, m) == \E n \in 1..Len(s) : s[n] = m

\* Mutant: only what lies at the top of the body is looked at.
ManagedAbove(b) == b.top = "caller" \/ \E m \in {"caller", "sdk"} : Has(b.system, m) \/ Has(b.tools, m)

\* The caller, or an earlier run of the hook, has set up caching.
Managed(b) ==
  b.top = "caller" \/ \E m \in {"caller", "sdk"} : Has(b.system, m) \/ Has(b.tools, m) \/ Has(b.user, m)

MarkedLast(s) == IF s # <<>> /\ s[Len(s)] \in {"bare", "text"} THEN [s EXCEPT ![Len(s)] = "sdk"] ELSE s

\* system, tools and, where asked for, a large last block of the user's.
Anthropic(b) ==
  LET marked(part, s) == IF part \in hook.breakpoints THEN MarkedLast(s) ELSE s IN
  [b EXCEPT !.system = marked("system", @), !.tools = marked("tools", @),
            !.user = marked("large_blocks", @)]

\* _inject_openai: a key for a static prefix, unless it is for another provider.
OpenAI(b) ==
  IF b.key # "none" \/ b.model = "elsewhere" \/ (b.system = <<>> /\ b.tools = <<>>) THEN b
  ELSE [b EXCEPT !.key = "sdk"]

Hook(b) ==
  IF ~b.json THEN b
  ELSE CASE hook.provider = "anthropic" -> IF Managed(b) THEN b ELSE Anthropic(b)
         [] hook.provider = "openai" -> OpenAI(b)
         [] OTHER -> b

Send ==
  /\ sent < Sends /\ sent' = sent + 1
  /\ request' = Hook(request)
  /\ UNCHANGED <<original, hook>>

Next == Send

----------------------------------------------------------------------------
(* Properties. *)

Count(b) ==
  LET marked(s) == Cardinality({n \in 1..Len(s) : s[n] \in {"caller", "sdk"}}) IN
  marked(b.system) + marked(b.tools) + marked(b.user) + (IF b.top = "caller" THEN 1 ELSE 0)

\* The caller has set up caching somewhere.
CallerMarked(b) ==
  \/ b.top = "caller"
  \/ \E s \in {b.system, b.tools, b.user} : "caller" \in {s[n] : n \in 1..Len(s)}

\* A caller's own caching is left as it is, wherever it is set up; never more
\* than four breakpoints; a request that passes the hook again is not marked
\* again; no key for another provider (_prompt_cache.py:84-91, 170-185).
HintsAreSafe ==
  /\ (hook.provider = "anthropic" /\ CallerMarked(original)) => request = original
  /\ Count(request) <= 4 \/ request = original
  /\ sent > 0 => Hook(request) = request
  /\ request.key = "sdk" => hook.provider = "openai" /\ request.model # "elsewhere"
=============================================================================
