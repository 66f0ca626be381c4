----------------------------- MODULE ClientParts -----------------------------
(***************************************************************************)
(* The parts of the client that share no state, each an instance of its    *)
(* module with variables of its own, and what is assumed of their          *)
(* parameters.  Components puts them side by side with the engine's        *)
(* reports and its traffic.                                                *)
(***************************************************************************)
EXTENDS Naturals, Sequences, FiniteSets

CONSTANTS
  Off,          \* the value of what is absent
  \* Who acts, and on what.
  Actors, Reporters, Compiler,
  Versions, Values, Manifests, Carriers, Flights,
  Answers, Minted, Tenants, Idents, Clients, Agents, Tool, Frameworks, Adapter,
  Offers, Directories, Clouds, Prefixes, Small, Workers,
  \* Bounds, each named after the parameter it is given for.
  MaxRebinds, MaxForget, MaxCalls, MaxClock, HostRest, MaxTime, MaxNonce, MetadataAge,
  MaxKeys, MaxCrashes, MaxWipes, Budget, BrokerClock, MaxBindings, CacheMax,
  MaxRows, MaxChanges, MaxReports, MaxDigits, MaxRuns, MaxClients, MaxImports,
  TTL, MaxDay, MaxRefresh

\* Code is captured before a tool runs: two threads, code rebound once.
VARIABLES code, rebinds, named, reported, captured, known, resting, failure, lock, gate, torn
Gate == INSTANCE CaptureGate WITH
  Threads <- Actors, Nobody <- Off

\* Two calls share one source of tokens.
VARIABLES source, clock, token, refreshAt, holder, caller, trip, host
Tokens == INSTANCE TokenSources WITH
  Callers <- Actors, Nowhere <- Off

\* One exchange with an OIDC issuer that may ask for a nonce.
VARIABLES time, bound, explicit, provided, method, configured, endpoint, listed, keptUntil,
          phase, attempt2, rotated, nonce, wanted
Exchange == INSTANCE OidcExchange WITH
  Nowhere <- Off

\* Two processes share a directory of keys, one of them may crash.
VARIABLES place, directory, descriptor, ring, flock, loader, minted, crashes, wipes, served
KeyStore == INSTANCE RuntimeKeyStore WITH
  Processes <- Actors, Nowhere <- Off

\* A session with the gateway's broker inside a budget of two ticks.
VARIABLES now, opted, pinned, stage, deadline, attempt, wakeAt, sentAt, enrolled, bindingId,
          assertion, session, error, binding, status, askedOf
Session == INSTANCE BrokerSession WITH
  Kinds <- Clouds, MaxClock <- BrokerClock, Nowhere <- Off

\* Two users, two tenants, a cache of one.
VARIABLES tenant, subjects, requester, default, defaultLock, scoped, asks, listedIn
Principals == INSTANCE Principals WITH
  Users <- Actors, Unset <- Off, directory <- listedIn

\* Two reports of one held program, two changes of its row.
VARIABLES row, changes, memory, lines, rep
Sightings == INSTANCE SightingReport WITH
  Nil <- Off

\* Tools reached through several hooks of one framework.
VARIABLES dispatched
Dispatch == INSTANCE ToolDispatch WITH
  Tools <- Actors, call <- dispatched

\* Arguments of at most three digits.
VARIABLES case
Masks == INSTANCE Redaction

\* Two clients in one process, two threads, two agents that share a tool.
VARIABLES adapter, client, scope, bindings, wrap, turn
Engines == INSTANCE EngineBinding WITH
  Threads <- Actors, Nobody <- Off, bound <- bindings

\* Two threads install and import a package with a submodule.
VARIABLES clients, loaded, guards, marked, watching, installing, stmt, due
Installs == INSTANCE InstallWatch WITH
  Threads <- Actors, Names <- Frameworks, Nobody <- Off

\* One compiled graph, two threads that run it.
VARIABLES agentRow, acknowledged, attested, barrier, current, detached, fallback, exec
Graph == INSTANCE GraphBarrier WITH
  Threads <- Actors, Nobody <- Off

\* A tool of three functions, one reloaded while it is read.
VARIABLES program, version, kept, walk, reading
Closure == INSTANCE SourceClosure WITH
  Functions <- {1, 2, 3}, MaxHelpers <- 1, MaxDepth <- 2, MaxLayers <- 2, MaxItems <- 1,
  MaxReloads <- 1, source <- reading

\* The code of a program with up to two callbacks.
VARIABLES framework, look, inventory, candidates, bundle, ledger, bundling
Bundle == INSTANCE CodeBundle WITH
  MaxCallbacks <- 2, MaxNest <- 1, MaxArtifacts <- 2, stage <- bundling, owner <- framework

\* Two calls and two prefixes, one creation at a time.
VARIABLES today, entries, creating, creations, generation
Contexts == INSTANCE GeminiCache WITH
  Callers <- Actors, MaxTime <- MaxDay, Nobody <- Off, call <- generation

\* A request that is sent twice.
VARIABLES request, original, hook, sent
Hints == INSTANCE PromptCache WITH
  Sends <- 2

\* Two requests of one MCP session.
VARIABLES signer, signing, failures, rpc, cancels
Mcp == INSTANCE McpSession WITH
  Requests <- Actors, Nobody <- Off

\* Bounds are numbers, and a cache holds at least one entry.
ASSUME BoundsAssumption ==
  /\ CacheMax \in Nat \ {0} /\ TTL \in Nat
  /\ MaxClock \in Nat \ {0} /\ HostRest \in Nat /\ BrokerClock \in Nat /\ Budget \in Nat /\ MaxKeys \in Nat \ {0}
  /\ MaxCrashes \in Nat /\ MaxWipes \in Nat /\ MetadataAge \in Nat
  /\ MaxForget \in Nat /\ MaxCalls \in Nat
  /\ MaxRebinds \in Nat /\ MaxTime \in Nat /\ MaxNonce \in Nat \ {0} /\ MaxBindings \in Nat \ {0}
  /\ MaxRows \in Nat \ {0}
  /\ MaxChanges \in Nat /\ MaxReports \in Nat /\ MaxRuns \in Nat /\ MaxClients \in Nat
  /\ MaxImports \in Nat /\ MaxDay \in Nat \ {0} /\ MaxRefresh \in Nat

\* One thread reaches the run boundaries; the threads and flight objects of a
\* process are finitely many.
ASSUME ReportersAssumption ==
  /\ \A r, q \in Reporters : r = q
  /\ IsFiniteSet(Reporters) /\ IsFiniteSet(Actors) /\ IsFiniteSet(Flights)

\* What is absent is nobody, no client, no cloud kind, no offer and no descriptor;
\* a key is no cloud kind, and a tool no agent.
ASSUME OffAssumption ==
  /\ Tool \notin Agents /\ Off \notin Clients
  /\ Off \notin Actors /\ Off \notin Clouds /\ Off \notin Offers /\ Off \notin KeyStore!Descriptors
  /\ "key" \notin Clouds

\* Nor is it a flight, an object or a manifest, an answer or a credential.
ASSUME AbsentAssumption ==
  /\ Off \notin Flights \union Carriers \union Manifests
  /\ Off \notin Answers \union Minted

\* An issuer lists methods, each one that the client knows.
ASSUME OffersAssumption == Offers \subseteq SUBSET Exchange!Methods

ASSUME DirectoriesAssumption == Directories \subseteq {"usable", "readonly", "bad"}

capturing == <<code, rebinds, named, reported, captured, known, resting, failure, lock, gate,
    torn>>
tokens == <<source, clock, token, refreshAt, holder, caller, trip, host>>
exchange == <<time, bound, explicit, provided, method, configured, endpoint, listed, keptUntil,
    phase, attempt2, rotated, nonce, wanted>>
keys == <<place, directory, descriptor, ring, flock, loader, minted, crashes, wipes, served>>
brokering == <<now, opted, pinned, stage, deadline, attempt, wakeAt, sentAt, enrolled,
    bindingId, assertion, session, error, binding, status, askedOf>>
principals == <<tenant, subjects, requester, default, defaultLock, scoped, asks, listedIn>>
sightings == <<row, changes, memory, lines, rep>>
dispatching == <<dispatched>>
redaction == <<case>>
engines == <<adapter, client, scope, bindings, wrap, turn>>
installs == <<clients, loaded, guards, marked, watching, installing, stmt, due>>
graph == <<agentRow, acknowledged, attested, barrier, current, detached, fallback, exec>>
closure == <<program, version, kept, walk, reading>>
bundles == <<framework, look, inventory, candidates, bundle, ledger, bundling>>
contexts == <<today, entries, creating, creations, generation>>
hints == <<request, original, hook, sent>>
mcp == <<signer, signing, failures, rpc, cancels>>
=============================================================================
