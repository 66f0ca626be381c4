----------------------------- MODULE Components -----------------------------
(***************************************************************************)
(* The parts of the client that share no state, checked side by side:      *)
(* `part` says which of them moves in this behaviour; the variables of the *)
(* others are Off.  The engine's reports and its traffic join the parts of *)
(* ClientParts here.                                                       *)
(***************************************************************************)
EXTENDS ClientParts

VARIABLE part

\* One thread runs two programs one after the other, edits the object and loses marks.
\* These three parts are instances of the modules that prove about them: what is a
\* theorem there is one here.
VARIABLES seen, reportFlights, inflight, flight, reporter, report, job, jobResult, jobKey,
          seeded, marker, acked, security, forgets, flips
Runs == INSTANCE DiscoveryProofs WITH
  Keys <- Manifests, Objects <- Carriers, None <- Off, InflightMax <- 1, SeenMax <- 1,
  Modes <- {"run"}, Scoped <- {}, Interruptible <- {}, MaxFlips <- 0,
  pc <- reporter, call <- report, captured <- seeded

\* Two threads report two programs in the background, with room for one mark.
Marks == INSTANCE DiscoveryProofs WITH
  Reporters <- Actors, Keys <- Manifests, Objects <- {}, None <- Off,
  InflightMax <- 1, SeenMax <- 1, Modes <- {"background"}, Scoped <- {}, Interruptible <- {},
  MaxForget <- 0, MaxFlips <- 0, pc <- reporter, call <- report, captured <- seeded

\* Two threads of model traffic on settled identities.
VARIABLES kind, info, aged, witnesses, refusal, origin, enrolments, active, provisional, built,
          setAside, restingFor, owner, depth, talker, traffic, override, calls, supplies
Traffic == INSTANCE CredentialProofs WITH
  Governed <- {}, Transparent <- Actors, Supplied <- {}, None <- Off,
  Replied <- {"llm", "declared", "broker", "optional"}, MaxSupplies <- 0,
  failure <- refusal, enrolled <- enrolments, pc <- talker, call <- traffic

reporting == <<seen, reportFlights, inflight, flight, reporter, report, job, jobResult, jobKey,
    seeded, marker, acked, security, forgets, flips>>
identity == <<kind, info, aged, witnesses, refusal, origin, enrolments, active, provisional,
    built, setAside, restingFor, owner, depth, talker, traffic, override, calls, supplies>>

vars == <<part, capturing, reporting, identity, tokens, exchange, keys, brokering, principals,
    sightings, dispatching, redaction, engines, installs, graph, closure, bundles, contexts,
    hints, mcp>>

Parts == {"capture", "runs", "marks", "traffic", "tokens", "exchange", "keys", "session",
   "principals", "sightings", "dispatch", "redaction", "engines", "installs", "graph",
   "closure", "bundle", "contexts", "hints", "mcp"}

Init ==
  /\ part \in Parts
  /\ IF part = "capture" THEN Gate!Init
     ELSE /\ code = Off /\ rebinds = Off /\ named = Off /\ reported = Off /\ captured = Off
          /\ known = Off /\ resting = Off /\ failure = Off /\ lock = Off /\ gate = Off
          /\ torn = Off
  /\ IF part = "runs" THEN Runs!Init ELSE IF part = "marks" THEN Marks!Init
     ELSE /\ seen = Off /\ reportFlights = Off /\ inflight = Off /\ flight = Off
          /\ reporter = Off /\ report = Off /\ job = Off /\ jobResult = Off /\ jobKey = Off
          /\ seeded = Off /\ marker = Off /\ acked = Off /\ security = Off /\ forgets = Off
          /\ flips = Off
  /\ IF part = "traffic" THEN Traffic!Init
     ELSE /\ kind = Off /\ info = Off /\ aged = Off /\ witnesses = Off /\ refusal = Off
          /\ origin = Off /\ enrolments = Off /\ active = Off /\ provisional = Off /\ built = Off
          /\ setAside = Off /\ restingFor = Off /\ owner = Off /\ depth = Off /\ talker = Off
          /\ traffic = Off /\ override = Off /\ calls = Off /\ supplies = Off
  /\ IF part = "tokens" THEN Tokens!Init
     ELSE /\ source = Off /\ clock = Off /\ token = Off /\ refreshAt = Off /\ holder = Off
          /\ caller = Off /\ trip = Off /\ host = Off
  /\ IF part = "exchange" THEN Exchange!Init
     ELSE /\ time = Off /\ bound = Off /\ explicit = Off /\ provided = Off /\ method = Off
          /\ configured = Off /\ endpoint = Off /\ listed = Off /\ keptUntil = Off /\ phase = Off
          /\ attempt2 = Off /\ rotated = Off /\ nonce = Off /\ wanted = Off
  /\ IF part = "keys" THEN KeyStore!Init
     ELSE /\ place = Off /\ directory = Off /\ descriptor = Off /\ ring = Off /\ flock = Off
          /\ loader = Off /\ minted = Off /\ crashes = Off /\ wipes = Off /\ served = Off
  /\ IF part = "session" THEN Session!Init
     ELSE /\ now = Off /\ opted = Off /\ pinned = Off /\ stage = Off /\ deadline = Off
          /\ attempt = Off /\ wakeAt = Off /\ sentAt = Off /\ enrolled = Off /\ bindingId = Off
          /\ assertion = Off /\ session = Off /\ error = Off /\ binding = Off /\ status = Off
          /\ askedOf = Off
  /\ IF part = "principals" THEN Principals!Init
     ELSE /\ tenant = Off /\ subjects = Off /\ requester = Off /\ default = Off
          /\ defaultLock = Off /\ scoped = Off /\ asks = Off /\ listedIn = Off
  /\ IF part = "sightings" THEN Sightings!Init
     ELSE /\ row = Off /\ changes = Off /\ memory = Off /\ lines = Off /\ rep = Off
  /\ IF part = "dispatch" THEN Dispatch!Init
     ELSE /\ dispatched = Off
  /\ IF part = "redaction" THEN Masks!Init
     ELSE /\ case = Off
  /\ IF part = "engines" THEN Engines!Init
     ELSE /\ adapter = Off /\ client = Off /\ scope = Off /\ bindings = Off /\ wrap = Off
          /\ turn = Off
  /\ IF part = "installs" THEN Installs!Init
     ELSE /\ clients = Off /\ loaded = Off /\ guards = Off /\ marked = Off /\ watching = Off
          /\ installing = Off /\ stmt = Off /\ due = Off
  /\ IF part = "graph" THEN Graph!Init
     ELSE /\ agentRow = Off /\ acknowledged = Off /\ attested = Off /\ barrier = Off
          /\ current = Off /\ detached = Off /\ fallback = Off /\ exec = Off
  /\ IF part = "closure" THEN Closure!Init
     ELSE /\ program = Off /\ version = Off /\ kept = Off /\ walk = Off /\ reading = Off
  /\ IF part = "bundle" THEN Bundle!Init
     ELSE /\ framework = Off /\ look = Off /\ inventory = Off /\ candidates = Off
          /\ bundle = Off /\ ledger = Off /\ bundling = Off
  /\ IF part = "contexts" THEN Contexts!Init
     ELSE /\ today = Off /\ entries = Off /\ creating = Off /\ creations = Off
          /\ generation = Off
  /\ IF part = "hints" THEN Hints!Init
     ELSE /\ request = Off /\ original = Off /\ hook = Off /\ sent = Off
  /\ IF part = "mcp" THEN Mcp!Init
     ELSE /\ signer = Off /\ signing = Off /\ failures = Off /\ rpc = Off /\ cancels = Off

Alone(p) ==
  /\ part = p /\ part' = part
  /\ IF p = "capture" THEN TRUE ELSE UNCHANGED capturing
  /\ IF p \in {"runs", "marks"} THEN TRUE ELSE UNCHANGED reporting
  /\ IF p = "traffic" THEN TRUE ELSE UNCHANGED identity
  /\ IF p = "tokens" THEN TRUE ELSE UNCHANGED tokens
  /\ IF p = "exchange" THEN TRUE ELSE UNCHANGED exchange
  /\ IF p = "keys" THEN TRUE ELSE UNCHANGED keys
  /\ IF p = "session" THEN TRUE ELSE UNCHANGED brokering
  /\ IF p = "principals" THEN TRUE ELSE UNCHANGED principals
  /\ IF p = "sightings" THEN TRUE ELSE UNCHANGED sightings
  /\ IF p = "dispatch" THEN TRUE ELSE UNCHANGED dispatching
  /\ IF p = "redaction" THEN TRUE ELSE UNCHANGED redaction
  /\ IF p = "engines" THEN TRUE ELSE UNCHANGED engines
  /\ IF p = "installs" THEN TRUE ELSE UNCHANGED installs
  /\ IF p = "graph" THEN TRUE ELSE UNCHANGED graph
  /\ IF p = "closure" THEN TRUE ELSE UNCHANGED closure
  /\ IF p = "bundle" THEN TRUE ELSE UNCHANGED bundles
  /\ IF p = "contexts" THEN TRUE ELSE UNCHANGED contexts
  /\ IF p = "hints" THEN TRUE ELSE UNCHANGED hints
  /\ IF p = "mcp" THEN TRUE ELSE UNCHANGED mcp

Next ==
  \/ Alone("capture") /\ Gate!Next
  \/ Alone("runs") /\ Runs!Next
  \/ Alone("marks") /\ Marks!Next
  \/ Alone("traffic") /\ Traffic!Next
  \/ Alone("tokens") /\ Tokens!Next
  \/ Alone("exchange") /\ Exchange!Next
  \/ Alone("keys") /\ KeyStore!Next
  \/ Alone("session") /\ Session!Next
  \/ Alone("principals") /\ Principals!Next
  \/ Alone("sightings") /\ Sightings!Next
  \/ Alone("dispatch") /\ Dispatch!Next
  \/ Alone("redaction") /\ Masks!Next
  \/ Alone("engines") /\ Engines!Next
  \/ Alone("installs") /\ Installs!Next
  \/ Alone("graph") /\ Graph!Next
  \/ Alone("closure") /\ Closure!Next
  \/ Alone("bundle") /\ Bundle!Next
  \/ Alone("contexts") /\ Contexts!Next
  \/ Alone("hints") /\ Hints!Next
  \/ Alone("mcp") /\ Mcp!Next

Spec == Init /\ [][Next]_vars

----------------------------------------------------------------------------
\* Each part keeps its types.
TypesOK ==
  CASE part = "capture" -> Gate!TypeOK
    [] part = "runs" -> Runs!TypeOK
    [] part = "marks" -> Marks!TypeOK
    [] part = "traffic" -> Traffic!TypeOK
    [] part = "tokens" -> Tokens!TypeOK
    [] part = "exchange" -> Exchange!TypeOK
    [] part = "keys" -> KeyStore!TypeOK
    [] part = "session" -> Session!TypeOK
    [] part = "principals" -> Principals!TypeOK
    [] part = "sightings" -> Sightings!TypeOK
    [] part = "dispatch" -> Dispatch!TypeOK
    [] part = "redaction" -> Masks!TypeOK
    [] part = "engines" -> Engines!TypeOK
    [] part = "installs" -> Installs!TypeOK
    [] part = "graph" -> Graph!TypeOK
    [] part = "closure" -> Closure!TypeOK
    [] part = "bundle" -> Bundle!TypeOK
    [] part = "contexts" -> Contexts!TypeOK
    [] part = "hints" -> Hints!TypeOK
    [] part = "mcp" -> Mcp!TypeOK

\* Code runs on a gateway's acknowledgement only: a tool whose code was rebound
\* is reported anew (registry.py, ensure_registration_capture); a compiled
\* graph waits for its report (langgraph.py, _await_initial_discovery).
RunsOnlyReported ==
  /\ part = "capture" => Gate!PassedWasReported
  /\ part = "graph" => Graph!RunsAfterAcknowledgement

\* Tokens are taken while they are good and fetched once, by a method and with
\* a nonce the issuer asked for; in an MCP session none goes out with another
\* credential's proof (credentials/base.py, oidc.py; mcp/_workload.py).
TokensAreGood ==
  /\ part = "tokens" => Tokens!FreshWhenTaken /\ Tokens!OneExchange
  /\ part = "exchange" => Exchange!NonceFollowed /\ Exchange!AuthListed
  /\ part = "mcp" => Mcp!IssuedOrTold

\* A workload keeps one key: processes agree on it whoever crashes, and a
\* session is asked for in time and with no other account's proof
\* (credentials/runtime_key.py, gateway_broker.py).
IdentityIsKept ==
  /\ part = "keys" => KeyStore!OneKeyForGood /\ KeyStore!CapableIsNecessary
  /\ part = "session" => Session!SentInTime /\ Session!NeverAmbient

\* A principal belongs to the directory of its own tenant (identity.py,
\* engine.py), an address to the program that was given it (registry.py).
NobodyElses ==
  /\ part = "principals" => Principals!ActsInOwnDirectory
  /\ part = "sightings" => Sightings!AddressIsItsOwn

\* A held program's new line is said when its row changes (registry.py), and
\* the exchange stays with the endpoint it began with (credentials/oidc.py).
TheGatewayIsTold ==
  /\ [][part = "sightings" => Sightings!SaysHeldLine]_vars
  /\ [][part = "exchange" => Exchange!KeepsEndpoint]_vars

\* Whichever of a framework's hooks a call comes through, it is decided as it
\* runs and masked where its arguments can be rewritten (integrations/_common.py,
\* strands.py).
DecidedAsItRuns == part = "dispatch" => Dispatch!DecidedAsRun /\ Dispatch!MaskReaches

\* With several clients each run is governed by its own; each entry point is
\* guarded once, and none is left bare when installation has come to rest
\* (enforcement.py, instrumentation.py, integrations/openai_agents.py); of one
\* prefix one context is being created (_gemini_cache.py).
OneOfEach ==
  /\ part = "engines" => Engines!RunsUnderItsEngine
  /\ part = "installs" => Installs!GuardedOnce /\ Installs!QuietIsGuarded
  /\ part = "contexts" => Contexts!OneCreation

\* A report that calls itself complete carries the code of every callback as it
\* is when the report is made (registry.py, _callable_change_token,
\* _merge_coverage); a mask hides an argument given by position as it hides one
\* given by name, and a card number is one by the usual check digit
\* (obligations.py); hints leave a body the caller prepared himself as it is
\* (_prompt_cache.py).
SentAsItIs ==
  /\ part = "closure" => Closure!CompleteIsCurrent
  /\ part = "bundle" => Bundle!CompleteCarriesAll
  /\ part = "redaction" => Masks!PositionAsName /\ Masks!CardsAreCards
  /\ part = "hints" => Hints!HintsAreSafe

\* What the engine promises while nobody disturbs it: one thread's runs,
\* captured tools and object markers are acknowledged, and manifests reported
\* in the background are posted once, whichever mark is evicted (registry.py,
\* discover, _should_report); model traffic on settled identities never loses
\* its credential silently (client.py, _agent_token).
HoldsUndisturbed ==
  /\ part = "runs" => /\ Runs!RunsOnlyAcknowledged
                      /\ Runs!CapturedMeansAcknowledged
                      /\ Runs!MarkerMeansAcknowledged
  /\ part = "marks" => Marks!OnePostPerKey
  /\ part = "traffic" => Traffic!BrokerFailsClosed
=============================================================================
