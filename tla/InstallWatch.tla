----------------------------- MODULE InstallWatch -----------------------------
(***************************************************************************)
(* Guards on the frameworks a process imports (enforcement.py).  Building  *)
(* a client guards every supported framework already loaded and hooks the  *)
(* import statement; each import statement of a supported framework that   *)
(* ends through the hook guards what is loaded by then.  A framework may   *)
(* be known by two names that share one adapter.                           *)
(***************************************************************************)
EXTENDS Naturals, FiniteSets

CONSTANTS
  Threads,
  Names,       \* _FRAMEWORKS, numbered in its order
  Adapter,     \* the integration each name is guarded by
  MaxClients,  \* bound: clients built
  MaxImports,  \* bound: import statements of each thread
  Nobody

VARIABLES
  clients,     \* live clients, and how many were built
  loaded,      \* names in sys.modules, initialised
  guards,      \* layers of guards on each adapter's boundary
  marked,      \* _installed
  watching,    \* builtins.__import__ is wrapped
  installing,  \* _install_lock
  stmt,        \* each thread's import statement or constructor
  due          \* history, see QuietIsGuarded

watchVars == <<clients, loaded, guards, marked, watching, installing, stmt, due>>

Adapters == {Adapter[n] : n \in Names}
None == 0
Still(k) == [at |-> "still", name |-> None, part |-> FALSE, hooked |-> FALSE, todo |-> {},
             seen |-> {}, found |-> FALSE, imports |-> k]

TypeOK ==
  /\ clients \in [live : 0..MaxClients, built : 0..MaxClients]
  /\ loaded \subseteq Names /\ marked \subseteq Names /\ due \subseteq Names
  /\ guards \in [Adapters -> 0..2] /\ watching \in BOOLEAN
  /\ installing \in Threads \cup {Nobody}
  /\ stmt \in [Threads -> [at : {"still", "loading", "rearm", "install", "patch", "mark", "watch"},
                           name : Names \cup {None}, part : BOOLEAN, hooked : BOOLEAN,
                           todo : SUBSET Names, seen : SUBSET Adapters, found : BOOLEAN,
                           imports : 0..MaxImports]]

Init ==
  /\ clients = [live |-> 0, built |-> 0]
  /\ loaded \in SUBSET Names /\ guards = [a \in Adapters |-> 0] /\ marked = {}
  /\ watching = FALSE /\ installing = Nobody
  /\ stmt = [t \in Threads |-> Still(0)] /\ due = {}

At(t, p) == stmt[t].at = p
Do(t, s) == stmt' = [stmt EXCEPT ![t] = s]
Goto(t, p) == Do(t, [stmt[t] EXCEPT !.at = p])

\* Some module of the framework is being initialised.
Initialising(n) == \E t \in Threads : At(t, "loading") /\ stmt[t].name = n

\* ... by an import statement that is older than the hook.
Unhooked(n) == \E t \in Threads : At(t, "loading") /\ stmt[t].name = n /\ ~stmt[t].hooked

----------------------------------------------------------------------------
(* Clients. *)

\* DeepintShield(...): registered, then install_all and the watch.
Build(t) ==
  /\ At(t, "still") /\ clients.built < MaxClients
  /\ clients' = [live |-> clients.live + 1, built |-> clients.built + 1]
  /\ Do(t, [stmt[t] EXCEPT !.at = "install", !.todo = Names])
  /\ UNCHANGED <<loaded, guards, marked, watching, installing, due>>

CloseOne ==
  /\ clients.live > 0 /\ clients' = [clients EXCEPT !.live = @ - 1]
  /\ UNCHANGED <<loaded, guards, marked, watching, installing, stmt, due>>

----------------------------------------------------------------------------
(* Import statements. *)

\* A framework is imported, or a part of one that is loaded; the statement
\* goes through the hook if that is there when it begins.
Import(t, n) ==
  /\ At(t, "still") /\ stmt[t].imports < MaxImports
  /\ \/ n \notin loaded /\ ~Initialising(n)
     \/ n \in loaded
  /\ Do(t, [Still(stmt[t].imports + 1) EXCEPT !.at = "loading", !.name = n,
              !.part = n \in loaded, !.hooked = watching])
  /\ UNCHANGED <<clients, loaded, guards, marked, watching, installing, due>>

\* The module has executed.
Loaded(t) ==
  /\ At(t, "loading") /\ loaded' = loaded \cup {stmt[t].name}
  /\ IF stmt[t].hooked THEN Goto(t, "rearm") ELSE Do(t, Still(stmt[t].imports))
  /\ UNCHANGED <<clients, guards, marked, watching, installing, due>>

\* Mutant: only the import of a framework's root guards it.
RearmRoot(t) ==
  LET n == stmt[t].name IN
  /\ At(t, "rearm")
  /\ due' = IF clients.live > 0 /\ ~Unhooked(n) THEN due \cup {n} ELSE due
  /\ IF clients.live = 0 \/ n \in marked \/ stmt[t].part THEN Do(t, Still(stmt[t].imports))
     ELSE Do(t, [stmt[t] EXCEPT !.at = "install", !.todo = Names])
  /\ UNCHANGED <<clients, loaded, guards, marked, watching, installing>>

\* _rearm: nothing without a live client, or when it is guarded already.
Rearm(t) ==
  LET n == stmt[t].name IN
  /\ At(t, "rearm") /\ installing \in {Nobody, t}
  /\ due' = IF clients.live > 0 /\ ~Unhooked(n) THEN due \cup {n} ELSE due
  /\ IF clients.live = 0 \/ n \in marked THEN Do(t, Still(stmt[t].imports))
     ELSE Do(t, [stmt[t] EXCEPT !.at = "install", !.todo = Names])
  /\ UNCHANGED <<clients, loaded, guards, marked, watching, installing>>

----------------------------------------------------------------------------
(* install_all: the names in their order, each under the lock. *)

\* The boundary already carries the guard.
Guarded(a) == guards[a] > 0

First(S) == CHOOSE n \in S : \A m \in S : n <= m

\* Mutant: the look and the patch are not one critical section.
ExamineFree(t) ==
  LET n == First(stmt[t].todo) IN
  /\ At(t, "install") /\ stmt[t].todo # {}
  /\ IF n \notin loaded \/ Adapter[n] \in stmt[t].seen \/ n \in marked \/ Initialising(n)
     THEN Do(t, [stmt[t] EXCEPT !.todo = @ \ {n}])
     ELSE Do(t, [stmt[t] EXCEPT !.at = "patch", !.seen = @ \cup {Adapter[n]},
                   !.found = Guarded(Adapter[n])])
  /\ UNCHANGED <<clients, loaded, guards, marked, watching, installing, due>>

\* A framework that is loaded, not seen, marked or being initialised is
\* patched by its adapter, which looks first whether its boundary is guarded.
Examine(t) ==
  LET n == First(stmt[t].todo) IN
  /\ At(t, "install") /\ stmt[t].todo # {}
  /\ IF n \notin loaded \/ Adapter[n] \in stmt[t].seen
     THEN Do(t, [stmt[t] EXCEPT !.todo = @ \ {n}]) /\ UNCHANGED installing
     ELSE /\ installing = Nobody
          /\ IF n \in marked \/ Initialising(n)
             THEN Do(t, [stmt[t] EXCEPT !.todo = @ \ {n}]) /\ UNCHANGED installing
             ELSE /\ installing' = t
                  /\ Do(t, [stmt[t] EXCEPT !.at = "patch", !.seen = @ \cup {Adapter[n]},
                              !.found = Guarded(Adapter[n])])
  /\ UNCHANGED <<clients, loaded, guards, marked, watching, due>>

\* enforce() of the adapter replaces the boundary's method.
Patch(t) ==
  LET a == Adapter[First(stmt[t].todo)] IN
  /\ At(t, "patch") /\ Goto(t, "mark")
  /\ guards' = IF stmt[t].found THEN guards ELSE [guards EXCEPT ![a] = @ + 1]
  /\ UNCHANGED <<clients, loaded, marked, watching, installing, due>>

Mark(t) ==
  LET n == First(stmt[t].todo) IN
  /\ At(t, "mark") /\ marked' = marked \cup {n} /\ installing' = Nobody
  /\ Do(t, [stmt[t] EXCEPT !.at = "install", !.todo = @ \ {n}])
  /\ UNCHANGED <<clients, loaded, guards, watching, due>>

Installed(t) ==
  /\ At(t, "install") /\ stmt[t].todo = {} /\ Goto(t, "watch")
  /\ UNCHANGED <<clients, loaded, guards, marked, watching, installing, due>>

\* _watch_imports, once per process.
Watch(t) ==
  /\ At(t, "watch") /\ watching' = TRUE /\ Do(t, Still(stmt[t].imports))
  /\ UNCHANGED <<clients, loaded, guards, marked, installing, due>>

Next ==
  \/ \E t \in Threads : \/ Build(t) \/ Loaded(t) \/ Rearm(t) \/ Examine(t) \/ Patch(t) \/ Mark(t)
                        \/ Installed(t) \/ Watch(t)
                        \/ \E n \in Names : Import(t, n)
  \/ CloseOne

----------------------------------------------------------------------------
(* Properties. *)

\* One tool invocation is decided once: no boundary carries two guards,
\* whoever builds clients or imports at the same time (enforcement.py:279-282).
GuardedOnce == \A a \in Adapters : guards[a] <= 1

\* Once every import statement has ended and a client lives, each framework
\* that one of them loaded through the hook is guarded: also one that was
\* passed over because another thread was still loading a part of it, unless
\* that thread's statement is older than the hook (enforcement.py:268-278).
QuietIsGuarded ==
  (clients.live > 0 /\ \A t \in Threads : At(t, "still")) => \A n \in due : guards[Adapter[n]] > 0
=============================================================================
