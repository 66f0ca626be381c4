----------------------------- MODULE Principals -----------------------------
(***************************************************************************)
(* Whom a call acts for (agentic/identity.py and the engine's principal    *)
(* binding): identifiers resolved against the tenant's directory, with a   *)
(* cache shared by all engines of the process and a local answer when the  *)
(* gateway does not give one; and the engine's own requester, resolved     *)
(* once, on first use.                                                     *)
(***************************************************************************)
EXTENDS Naturals, Sequences

CONSTANTS
  Users,       \* threads that act for somebody
  Tenants,     \* engines on one gateway host, each its own tenant
  Idents,      \* e-mail addresses and user names
  CacheMax,    \* _CACHE_MAXSIZE
  Unset

VARIABLES
  tenant,      \* the engine each thread uses
  subjects,    \* _cache, least recently used first
  requester,   \* DeepintShield(requester=...), by engine
  default,     \* _default_principal
  defaultLock, \* _default_principal_lock, by engine
  scoped,      \* principal bound in each thread's context, or Unset
  asks,        \* what each thread resolves, and how far it is
  directory    \* gateway: rows <<tenant, identifier>>

principalVars == <<tenant, subjects, requester, default, defaultLock, scoped, asks, directory>>

\* A subject, and whether the gateway or this process derived it: the two are
\* the same string, but only the gateway's has a row.
Subjects == [ident : Idents, by : {"gateway", "local"}]
NoAsk == [at |-> "rest", ident |-> Unset, for |-> "scope", subject |-> Unset]

TypeOK ==
  /\ tenant \in [Users -> Tenants]
  /\ subjects \in Seq(Tenants \X Idents) /\ Len(subjects) <= CacheMax
  /\ requester \in [Tenants -> Idents \cup {Unset}]
  /\ default \in [Tenants -> Subjects \cup {Unset}]
  /\ defaultLock \in [Tenants -> Users \cup {Unset}]
  /\ scoped \in [Users -> Subjects \cup {Unset}]
  /\ asks \in [Users -> [at : {"rest", "cache", "post", "bind"}, ident : Idents \cup {Unset},
                         for : {"scope", "default"}, subject : Subjects \cup {Unset}]]
  /\ directory \subseteq Tenants \X Idents

Init ==
  /\ tenant \in [Users -> Tenants] /\ subjects = <<>>
  /\ requester \in [Tenants -> Idents \cup {Unset}]
  /\ default = [e \in Tenants |-> Unset] /\ defaultLock = [e \in Tenants |-> Unset]
  /\ scoped = [u \in Users |-> Unset] /\ asks = [u \in Users |-> NoAsk]
  /\ directory = {}

At(u, p) == asks[u].at = p
Ask(u, i, for) ==
  asks' = [asks EXCEPT ![u] = [at |-> "cache", ident |-> i, for |-> for, subject |-> Unset]]

\* Mutant: scoped by the gateway host alone.
KeyByHost(e, i) == <<CHOOSE h \in Tenants : TRUE, i>>

\* resolve_principal's key: the host, the engine's scope, the identifier.
Key(e, i) == <<e, i>>

\* The cache holds a key at most once, and moves it to the end.
Holds(k)    == \E n \in DOMAIN subjects : subjects[n] = k
Position(k) == CHOOSE n \in DOMAIN subjects : subjects[n] = k
Without(k)  == [n \in 1..(Len(subjects) - 1) |-> subjects[IF n < Position(k) THEN n ELSE n + 1]]
Recent(k)   == Append(IF Holds(k) THEN Without(k) ELSE subjects, k)

----------------------------------------------------------------------------
\* as_user: the identifier is resolved, then bound in the context.
AsUser(u, i) ==
  /\ At(u, "rest") /\ scoped[u] = Unset /\ Ask(u, i, "scope")
  /\ UNCHANGED <<tenant, subjects, requester, default, defaultLock, scoped, directory>>

\* Leaving the block.
ResetPrincipal(u) ==
  /\ At(u, "rest") /\ scoped[u] # Unset /\ scoped' = [scoped EXCEPT ![u] = Unset]
  /\ UNCHANGED <<tenant, subjects, requester, default, defaultLock, asks, directory>>

\* _requester_principal, with the second look under its lock.
UseDefault(u) ==
  LET e == tenant[u] IN
  /\ At(u, "rest") /\ scoped[u] = Unset /\ requester[e] # Unset /\ default[e] = Unset
  /\ defaultLock[e] = Unset /\ defaultLock' = [defaultLock EXCEPT ![e] = u]
  /\ Ask(u, requester[e], "default")
  /\ UNCHANGED <<tenant, subjects, requester, default, scoped, directory>>

Bind(u, s) == asks' = [asks EXCEPT ![u].at = "bind", ![u].subject = s]
Resolved(u, by) == Bind(u, [ident |-> asks[u].ident, by |-> by])

\* _cache_get: a hit becomes the most recent.
Look(u) ==
  LET k == Key(tenant[u], asks[u].ident) IN
  /\ At(u, "cache")
  /\ IF Holds(k)
     THEN subjects' = Recent(k) /\ Resolved(u, "gateway")
     ELSE asks' = [asks EXCEPT ![u].at = "post"] /\ UNCHANGED subjects
  /\ UNCHANGED <<tenant, requester, default, defaultLock, scoped, directory>>

\* _post_resolve: the row is made on first sight and the answer cached; no
\* answer caches nothing, and the subject is derived here.
PostResolve(u) ==
  LET k == Key(tenant[u], asks[u].ident) IN
  /\ At(u, "post")
  /\ \/ /\ directory' = directory \cup {<<tenant[u], asks[u].ident>>}
        /\ subjects' = (IF Len(Recent(k)) > CacheMax THEN Tail(Recent(k)) ELSE Recent(k))
        /\ Resolved(u, "gateway")
     \/ Resolved(u, "local") /\ UNCHANGED <<directory, subjects>>
  /\ UNCHANGED <<tenant, requester, default, defaultLock, scoped>>

\* The binding takes effect, in the context or as the engine's default.
Take(u) ==
  LET e == tenant[u] IN
  /\ At(u, "bind") /\ asks' = [asks EXCEPT ![u] = NoAsk]
  /\ IF asks[u].for = "scope"
     THEN scoped' = [scoped EXCEPT ![u] = asks[u].subject] /\ UNCHANGED <<default, defaultLock>>
     ELSE /\ default' = [default EXCEPT ![e] = asks[u].subject]
          /\ defaultLock' = [defaultLock EXCEPT ![e] = Unset] /\ UNCHANGED scoped
  /\ UNCHANGED <<tenant, subjects, requester, directory>>

\* clear_cache
ClearCache ==
  /\ subjects # <<>> /\ subjects' = <<>>
  /\ UNCHANGED <<tenant, requester, default, defaultLock, scoped, asks, directory>>

Next ==
  \/ \E u \in Users : \/ \E i \in Idents : AsUser(u, i)
                      \/ ResetPrincipal(u) \/ UseDefault(u) \/ Look(u) \/ PostResolve(u) \/ Take(u)
  \/ ClearCache

\* principal_binding: the context's, else the engine's requester.
Acting(u) == IF scoped[u] # Unset THEN scoped[u] ELSE default[tenant[u]]

----------------------------------------------------------------------------
(* Properties. *)

\* Whoever acts under a subject the gateway is said to have resolved has a row
\* in the directory of the very tenant he acts in (identity.py:200-210).
ActsInOwnDirectory ==
  \A u \in Users : (Acting(u) # Unset /\ Acting(u).by = "gateway")
                     => <<tenant[u], Acting(u).ident>> \in directory
=============================================================================
