----------------------------- MODULE SourceClosure -----------------------------
(***************************************************************************)
(* The source a registration carries for one callable (registry.py): the   *)
(* implementation under its wrappers, the application's wrappers and the   *)
(* application functions these reach, within bounds, or the mark that it   *)
(* is incomplete.  A source is kept with a token of the running code and   *)
(* handed out again while a new token is equal; the application may be     *)
(* reloaded at any moment.                                                 *)
(***************************************************************************)
EXTENDS Naturals, FiniteSets, Sequences

CONSTANTS
  Functions,   \* 1..n
  MaxHelpers,  \* _CODE_HELPER_MAX_COUNT
  MaxDepth,    \* _CODE_HELPER_MAX_DEPTH
  MaxLayers,   \* _CODE_WRAPPER_MAX_COUNT
  MaxItems,    \* _CODE_CONTAINER_MAX_ITEMS
  MaxReloads   \* bound: changes of the application

VARIABLES
  program,     \* the application's functions
  version,     \* each function's code
  kept,        \* _expanded_source_cache: the callable's entry, at most one
  walk,        \* the traversal under way
  source       \* what was last returned

closureVars == <<program, version, kept, walk, source>>

\* Wrapper chains, outermost first: plain, wrapped, too long, and a cycle.
Chains == {<<1>>, <<2, 1>>, <<2, 3, 1>>, <<2, 1, 2>>}
Tables == {<<>>, <<3>>, <<2, 3>>}
Programs ==
  [chain : Chains,
   sdk : {{}, {2}},                                 \* wrappers of the SDK's own
   calls : [Functions -> SUBSET Functions],         \* by name, same application
   table : Tables,                                  \* the first one's dispatch table
   silent : {{}, {3}},                              \* no source to read
   twins : BOOLEAN,                                 \* 2 and 3 are closures of one def
   had : SUBSET Tables, undone : BOOLEAN,           \* history: a table was put back
   changes : 0..MaxReloads]

Read == {<<f, v>> : f \in Functions, v \in 0..MaxReloads}
Nothing == [got |-> {}, partial |-> TRUE]
Rest == [at |-> "rest", token |-> Nothing, queue |-> {}, visited |-> {}, got |-> {},
         partial |-> FALSE, steady |-> TRUE]

TypeOK ==
  /\ program \in Programs /\ version \in [Functions -> 0..MaxReloads]
  /\ \A k \in kept : k.token.got \subseteq Read /\ k.source.got \subseteq Read
  /\ walk.at \in {"rest", "token", "look", "read", "helpers"}
  /\ walk.queue \subseteq (Functions \X (0..MaxDepth + 1)) /\ walk.visited \subseteq Functions
  /\ walk.got \subseteq Read /\ walk.partial \in BOOLEAN /\ walk.steady \in BOOLEAN
  /\ source.got \subseteq Read /\ source.partial \in BOOLEAN

Init ==
  /\ program \in {p \in Programs :
                   /\ p.calls[1] \subseteq {2, 3} /\ p.calls[2] \subseteq {3} /\ p.calls[3] \subseteq {1}
                   /\ p.table # <<>> => p.chain = <<1>> /\ p.silent = {}
                   /\ p.sdk # {} => Len(p.chain) > 1
                   /\ p.had = {p.table} /\ ~p.undone /\ p.changes = 0}
  /\ version = [f \in Functions |-> 0] /\ kept = {}
  /\ walk = Rest /\ source = Nothing

----------------------------------------------------------------------------
(* What is looked at. *)

\* The executed wrappers, until one repeats or there are too many.
Layers(p) ==
  LET c == p.chain
      fresh == {n \in 1..Len(c) : n <= MaxLayers /\ \A m \in 1..n - 1 : c[m] # c[n]} IN
  SubSeq(c, 1, Cardinality(fresh))

LayersPartial(p) == Layers(p) # p.chain

\* The innermost implementation, and the application's wrappers around it.
Roots(p) ==
  LET l == Layers(p) IN {l[Len(l)]} \cup {f \in {l[n] : n \in 1..Len(l)} : f \notin p.sdk}

\* File, qualified name and first line.
Identity(f) == IF program.twins /\ f = 3 THEN 2 ELSE f

\* A dispatch table counts up to its bound (its nesting is bounded likewise).
Table(f) == IF f = 1 THEN program.table ELSE <<>>
Listed(f) == {Table(f)[n] : n \in {m \in 1..Len(Table(f)) : m <= MaxItems}}
Unlisted(f) == Len(Table(f)) > MaxItems

\* Same-application functions named or tabled, one of each identity.
Dependencies(f) ==
  LET all == {g \in (program.calls[f] \cup Listed(f)) \ program.sdk : g # f} IN
  {g \in all : \A h \in all : h < g => Identity(h) # Identity(g)}

Version(f) == <<f, version[f]>>

\* Those whose source text can be found.
Readable(S) == S \ program.silent

----------------------------------------------------------------------------
(* _callable_change_token: a walk over the running code. *)

Ask ==
  /\ walk.at = "rest"
  /\ walk' = [Rest EXCEPT !.at = "token", !.queue = {<<r, 0>> : r \in Roots(program)},
                          !.partial = LayersPartial(program)]
  /\ UNCHANGED <<program, version, kept, source>>

\* Functions to follow from one at depth d, and whether they are too deep.
Follow(f, d) == IF d >= MaxDepth THEN {} ELSE {<<g, d + 1>> : g \in Dependencies(f)}
TooDeep(f, d) == Dependencies(f) # {} /\ d >= MaxDepth

\* One function leaves the queue (in the code: the least identity).
Visit(e, at, limit, unread) ==
  LET f == e[1]
      rest == [walk EXCEPT !.queue = @ \ {e}, !.visited = @ \cup {Identity(f)}] IN
  /\ walk.at = at /\ e \in walk.queue
  /\ walk' = IF Identity(f) \in walk.visited THEN [walk EXCEPT !.queue = @ \ {e}]
             ELSE IF Cardinality(walk.got) >= limit \/ f \in unread
             THEN [rest EXCEPT !.partial = TRUE]
             ELSE [rest EXCEPT !.got = @ \cup {Version(f)}, !.queue = @ \cup Follow(f, e[2]),
                               !.partial = @ \/ Unlisted(f) \/ TooDeep(f, e[2])]
  /\ UNCHANGED <<program, version, kept, source>>

\* Mutant: the token is of the wrappers and the implementation only.
VisitTokenShallow(e) ==
  /\ walk.at = "token" /\ e \in walk.queue
  /\ walk' = [walk EXCEPT !.queue = @ \ {e}, !.got = @ \cup {Version(e[1])}]
  /\ UNCHANGED <<program, version, kept, source>>

VisitToken(e) == Visit(e, "token", MaxHelpers + MaxLayers, {})

TokenDone ==
  /\ walk.at = "token" /\ walk.queue = {}
  /\ walk' = [Rest EXCEPT !.at = "look", !.token = [got |-> walk.got, partial |-> walk.partial],
                          !.steady = walk.steady]
  /\ UNCHANGED <<program, version, kept, source>>

----------------------------------------------------------------------------
(* _expanded_callable_source. *)

\* The source kept under an equal token is returned.
Look ==
  LET hits == {k \in kept : k.token = walk.token} IN
  /\ walk.at = "look"
  /\ \/ \E k \in hits : source' = k.source /\ walk' = [walk EXCEPT !.at = "rest"]
     \/ hits = {} /\ walk' = [walk EXCEPT !.at = "read"] /\ UNCHANGED source
  /\ UNCHANGED <<program, version, kept>>

\* Implementation and wrappers; without the implementation's there is nothing.
ReadRoots ==
  LET roots == Roots(program)
      inner == Layers(program)[Len(Layers(program))]
      readable == Readable(roots) IN
  /\ walk.at = "read"
  /\ IF inner \notin readable
     THEN source' = Nothing /\ walk' = [walk EXCEPT !.at = "rest"]
     ELSE /\ UNCHANGED source
          /\ walk' = [walk EXCEPT !.at = "helpers", !.got = {Version(r) : r \in readable},
               !.visited = {Identity(r) : r \in roots},
               !.queue = UNION {{<<g, 1>> : g \in Dependencies(r)} : r \in roots},
               !.partial = \/ LayersPartial(program) \/ readable # roots
                           \/ \E r \in roots : Unlisted(r)]
  /\ UNCHANGED <<program, version, kept>>

VisitHelper(e) ==
  Visit(e, "helpers", MaxHelpers + Cardinality(Readable(Roots(program))), program.silent)

\* Kept under the token taken before anything was read.
Keep ==
  LET s == [got |-> walk.got, partial |-> walk.partial] IN
  /\ walk.at = "helpers" /\ walk.queue = {}
  /\ source' = s /\ kept' = {[token |-> walk.token, source |-> s]}
  /\ walk' = [walk EXCEPT !.at = "rest"]
  /\ UNCHANGED <<program, version>>

----------------------------------------------------------------------------
(* The application. *)

Change(p) ==
  /\ program.changes < MaxReloads
  /\ program' = [p EXCEPT !.changes = @ + 1]
  /\ walk' = [walk EXCEPT !.steady = FALSE]
  /\ UNCHANGED <<kept, source>>

\* A function is reloaded.
Reload(f) == Change(program) /\ version' = [version EXCEPT ![f] = @ + 1]

\* The entries of the dispatch table are replaced.
Retarget(t) ==
  /\ program.table # <<>> /\ t # program.table
  /\ Change([program EXCEPT !.table = t, !.had = @ \cup {t}, !.undone = @ \/ t \in program.had])
  /\ UNCHANGED version

Next ==
  \/ Ask \/ TokenDone \/ Look \/ ReadRoots \/ Keep
  \/ \E e \in walk.queue : VisitToken(e) \/ VisitHelper(e)
  \/ \E f \in Functions : Reload(f)
  \/ \E t \in Tables : Retarget(t)

----------------------------------------------------------------------------
(* Properties. *)

Callees(S) ==
  {g \in Functions \ program.sdk : \E f \in S : g \in program.calls[f]
                                     \/ \E n \in 1..Len(Table(f)) : Table(f)[n] = g}

\* Every function the callable runs, without bounds.
Runs ==
  LET c == program.chain
      all == {c[n] : n \in 1..Len(c)}
      start == {c[Len(c)]} \cup (all \ program.sdk)
      near == start \cup Callees(start) IN
  near \cup Callees(near)

Answered == walk.at = "rest" /\ walk.steady /\ ~source.partial /\ ~program.undone

\* A source that is not marked incomplete is the present code of every
\* application function the callable runs, whether it was read now or kept
\* from before a reload, unless two of them are closures of one definition or
\* a table was changed and put back in between (registry.py:345-361, 457-511, 552-676).
CompleteIsCurrent ==
  (Answered /\ ~program.twins) => source.got = {Version(f) : f \in Runs}

\* ... and of both such closures: "dispatch tables are executable
\* dependencies", an incomplete traversal is reported (registry.py:353-361).
TwinsToo == Answered => source.got = {Version(f) : f \in Runs}
=============================================================================
