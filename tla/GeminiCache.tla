----------------------------- MODULE GeminiCache -----------------------------
(***************************************************************************)
(* The context caches of one client (_gemini_cache.py).  A call whose      *)
(* prefix has a resource is pointed at it; else a background worker        *)
(* creates one for later calls and this call goes without.  Times are in   *)
(* ticks.                                                                  *)
(***************************************************************************)
EXTENDS Naturals, FiniteSets

CONSTANTS
  Callers,
  Prefixes,    \* hashes of model, system instruction and tools
  Small,       \* those estimated below the minimum
  Workers,     \* threads of _CREATION_POOL
  TTL,
  MaxTime,     \* bound: the last tick
  Nobody

VARIABLES
  today,       \* the clock
  entries,     \* _entries: when the known resource of a prefix expires
  creating,    \* _pending
  creations,   \* the pool: creations queued, sent and answered
  call         \* each caller's call

cacheVars == <<today, entries, creating, creations, call>>

Unknown == 0
At(c, p) == call[c].at = p
Rest == [at |-> "rest", prefix |-> Nobody, used |-> FALSE]

TypeOK ==
  /\ today \in 1..MaxTime /\ entries \in [Prefixes -> 0..MaxTime + TTL]
  /\ creating \subseteq Prefixes
  /\ \A j \in creations : j.prefix \in Prefixes /\ j.at \in {"queued", "sent"} /\ j.by \in Callers
  /\ call \in [Callers -> [at : {"rest", "claim", "generate"}, prefix : Prefixes \cup {Nobody},
                           used : BOOLEAN]]

Init ==
  /\ today = 1 /\ entries = [p \in Prefixes |-> Unknown]
  /\ creating = {} /\ creations = {} /\ call = [c \in Callers |-> Rest]

----------------------------------------------------------------------------
(* attach: lookup_active, then schedule_creation. *)

Live(p) == today < entries[p]

\* _inject_cached_content: an expired entry goes when it is looked up.
Attach(c, p) ==
  /\ At(c, "rest")
  /\ entries' = IF Live(p) THEN entries ELSE [entries EXCEPT ![p] = Unknown]
  /\ call' = [call EXCEPT ![c] = [prefix |-> p, used |-> Live(p),
                                  at |-> IF Live(p) \/ p \in Small THEN "generate" ELSE "claim"]]
  /\ UNCHANGED <<today, creating, creations>>

\* The caller named a resource itself.
AttachOwn(c) ==
  /\ At(c, "rest")
  /\ call' = [call EXCEPT ![c] = [prefix |-> Nobody, used |-> TRUE, at |-> "generate"]]
  /\ UNCHANGED <<today, entries, creating, creations>>

\* Mutant: only a resource that exists keeps others from creating it.
ClaimUnlessKnown(c) ==
  LET p == call[c].prefix IN
  /\ At(c, "claim") /\ call' = [call EXCEPT ![c].at = "generate"]
  /\ IF entries[p] # Unknown
     THEN UNCHANGED <<creating, creations>>
     ELSE /\ creating' = creating \cup {p}
          /\ creations' = creations \cup {[prefix |-> p, at |-> "queued", by |-> c]}
  /\ UNCHANGED <<today, entries>>

\* mark_pending; an expired entry still counts until a lookup drops it.
Claim(c) ==
  LET p == call[c].prefix IN
  /\ At(c, "claim") /\ call' = [call EXCEPT ![c].at = "generate"]
  /\ IF p \in creating \/ entries[p] # Unknown
     THEN UNCHANGED <<creating, creations>>
     ELSE /\ creating' = creating \cup {p}
          /\ creations' = creations \cup {[prefix |-> p, at |-> "queued", by |-> c]}
  /\ UNCHANGED <<today, entries>>

\* The call itself ends.
Generate(c) ==
  /\ At(c, "generate") /\ call' = [call EXCEPT ![c] = Rest]
  /\ UNCHANGED <<today, entries, creating, creations>>

----------------------------------------------------------------------------
(* The pool. *)

\* caches.create is under way.
Send(j) ==
  /\ j.at = "queued" /\ Cardinality({k \in creations : k.at = "sent"}) < Workers
  /\ creations' = (creations \ {j}) \cup {[j EXCEPT !.at = "sent"]}
  /\ UNCHANGED <<today, entries, creating, call>>

\* remember: the time to live is counted from the answer.
Remember(j) ==
  /\ j.at = "sent" /\ creations' = creations \ {j}
  /\ entries' = [entries EXCEPT ![j.prefix] = today + TTL]
  /\ creating' = creating \ {j.prefix}
  /\ UNCHANGED <<today, call>>

\* No name came back: forget.
Forget(j) ==
  /\ j.at = "sent" /\ creations' = creations \ {j}
  /\ entries' = [entries EXCEPT ![j.prefix] = Unknown]
  /\ creating' = creating \ {j.prefix}
  /\ UNCHANGED <<today, call>>

Tick ==
  /\ today < MaxTime /\ today' = today + 1
  /\ UNCHANGED <<entries, creating, creations, call>>

Next ==
  \/ \E c \in Callers : \/ \E p \in Prefixes : Attach(c, p)
                        \/ AttachOwn(c) \/ Claim(c) \/ Generate(c)
  \/ \E j \in creations : Send(j) \/ Remember(j) \/ Forget(j)
  \/ Tick

----------------------------------------------------------------------------
(* Properties. *)

\* The creations of a prefix that are queued or sent.
Underway(p) == {j \in creations : j.prefix = p}

\* A prefix is created once at a time, and not while its resource is good:
\* whatever calls race, fail and expire (_gemini_cache.py:150-152, 192-205).
OneCreation ==
  \A p \in Prefixes :
    /\ \A j, k \in Underway(p) : j = k
    /\ Underway(p) # {} <=> p \in creating
    /\ Live(p) => Underway(p) = {}
=============================================================================
