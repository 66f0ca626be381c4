----------------------------- MODULE OidcExchange -----------------------------
(***************************************************************************)
(* A client-credentials exchange with an OIDC issuer (credentials/oidc.py, *)
(* oidc_auth.py, dpop_oauth.py): discovery of the token endpoint and of a  *)
(* way to authenticate, once for bearer tokens and every MetadataAge for   *)
(* DPoP-bound ones, and a nonce challenge answered once.  One exchange at  *)
(* a time: the cache's lock is held (TokenSources).                        *)
(***************************************************************************)
EXTENDS Naturals

CONSTANTS
  MaxTime,     \* bound: ticks
  MaxNonce,    \* bound: nonces the issuer uses
  MetadataAge, \* how long _discover's metadata is kept
  Offers,      \* sets of authentication methods an issuer may list
  Nowhere

VARIABLES
  time,
  bound,       \* require_proof_of_possession
  explicit,    \* OIDC_CLIENT_AUTH_METHOD, "" for none
  provided,    \* what the environment holds: secret, key file, certificate
  method,      \* ClientAuthentication.method, or _client_auth when bound
  configured,  \* the token endpoint was given
  endpoint,    \* the token endpoint, once known
  listed,      \* methods of the metadata in force, or Nowhere
  keptUntil,   \* _metadata_until
  phase,       \* what the exchange is at
  attempt2,    \* the second attempt
  rotated,     \* history: the issuer changed its nonce during this exchange
  nonce,       \* _nonce, 0 for none
  wanted       \* issuer: the nonce it asks for, 0 while it asks for none

oidcVars == <<time, bound, explicit, provided, method, configured, endpoint, listed, keptUntil,
              phase, attempt2, rotated, nonce, wanted>>

Methods == {"post", "basic", "jwt", "tls"}
Needs(m) == IF m \in {"post", "basic"} THEN "secret" ELSE IF m = "jwt" THEN "key" ELSE "cert"

TypeOK ==
  /\ time \in 0..MaxTime /\ bound \in BOOLEAN /\ configured \in BOOLEAN
  /\ explicit \in Methods \cup {""} /\ provided \subseteq {"secret", "key", "cert"}
  /\ method \in Methods /\ endpoint \in {Nowhere, "e1", "e2"}
  /\ listed \in (SUBSET Methods) \cup {Nowhere} /\ keptUntil \in 0..(MaxTime + MetadataAge)
  /\ phase \in {"rest", "prepare", "post", "nonce"} /\ attempt2 \in BOOLEAN /\ rotated \in BOOLEAN
  /\ nonce \in 0..MaxNonce /\ wanted \in 0..MaxNonce

Init ==
  /\ time = 0 /\ bound \in BOOLEAN /\ explicit \in {"", "basic", "tls"}
  /\ provided \in SUBSET {"secret", "cert"} /\ method = IF explicit = "" THEN "post" ELSE explicit
  /\ configured \in BOOLEAN /\ endpoint = IF configured THEN "e1" ELSE Nowhere
  /\ listed = Nowhere /\ keptUntil = 0 /\ phase = "rest" /\ attempt2 = FALSE /\ rotated = FALSE
  /\ nonce = 0 /\ wanted \in (IF bound THEN {0, 1} ELSE {0})

fixed == <<bound, explicit, configured>>

\* Mutant: a secret in the form is tried whatever the issuer lists.
ChoosePost(offer) == {IF explicit = "" THEN "post" ELSE explicit}

\* The choice of a method among those listed: the explicit one, else a secret
\* in the form, else in the header; nothing when none of them is listed.
Choose(offer) ==
  IF explicit # "" THEN {explicit} \cap offer
  ELSE IF "post" \in offer THEN {"post"} ELSE {"basic"} \cap offer

Read(offer, e) ==
  /\ Choose(offer) # {}
  /\ method' \in Choose(offer) /\ listed' = offer /\ endpoint' = e /\ phase' = "prepare"

Begin(p) == phase' = p /\ attempt2' = FALSE /\ rotated' = FALSE

\* An exchange that needs no discovery.
Known == IF bound THEN time < keptUntil ELSE endpoint # Nowhere

Reuse ==
  /\ phase \in {"rest", "nonce"} /\ Known /\ Begin("prepare")
  /\ UNCHANGED <<time, fixed, provided, method, endpoint, listed, keptUntil, nonce, wanted>>

\* Mutant: a bound exchange follows the issuer's metadata to another endpoint.
Moved(e) == FALSE

\* BoundTokenExchange._discover must not learn another endpoint.
Differs(e) == bound /\ endpoint \notin {Nowhere, e}

\* _ensure_endpoint and _discover.
Discover ==
  /\ phase \in {"rest", "nonce"} /\ ~Known /\ attempt2' = FALSE /\ rotated' = FALSE
  /\ \/ /\ \E offer \in Offers, e \in {"e1", "e2"} : ~Differs(e) /\ Read(offer, e)
        /\ keptUntil' = IF bound THEN time + MetadataAge ELSE keptUntil
     \/ phase' = "rest" /\ UNCHANGED <<method, listed, endpoint, keptUntil>>
  /\ UNCHANGED <<time, fixed, provided, nonce, wanted>>

\* ClientAuthentication.prepare and http_client read the environment anew.
Prepare ==
  /\ phase = "prepare"
  /\ phase' = IF Needs(method) \in provided THEN "post" ELSE "rest"
  /\ UNCHANGED <<time, fixed, provided, method, endpoint, listed, keptUntil, attempt2, rotated,
                 nonce, wanted>>

\* Mutant: the nonce of a challenge is not kept.
ChallengeForgotten ==
  /\ phase = "post" /\ nonce # wanted
  /\ IF attempt2 THEN phase' = "nonce" /\ UNCHANGED attempt2
     ELSE phase' = "prepare" /\ attempt2' = TRUE
  /\ UNCHANGED <<time, fixed, provided, method, endpoint, listed, keptUntil, rotated, nonce, wanted>>

\* exchange: a use_dpop_nonce challenge is answered once, with its nonce.
Challenge ==
  /\ phase = "post" /\ nonce # wanted
  /\ nonce' = wanted
  /\ IF attempt2 THEN phase' = "nonce" /\ UNCHANGED attempt2
     ELSE phase' = "prepare" /\ attempt2' = TRUE
  /\ UNCHANGED <<time, fixed, provided, method, endpoint, listed, keptUntil, rotated, wanted>>

\* Any other answer ends the exchange, with a token or without.
Answer ==
  /\ phase = "post" /\ nonce = wanted /\ phase' = "rest"
  /\ UNCHANGED <<time, fixed, provided, method, endpoint, listed, keptUntil, attempt2, rotated,
                 nonce, wanted>>

----------------------------------------------------------------------------
\* The issuer changes the nonce it asks for.
Rotate ==
  /\ bound /\ wanted < MaxNonce /\ wanted' = wanted + 1 /\ rotated' = TRUE
  /\ UNCHANGED <<time, fixed, provided, method, endpoint, listed, keptUntil, phase, attempt2, nonce>>

\* A secret or a certificate is put in place, or taken away.
Provide ==
  /\ \E x \in {"secret", "cert"} :
       provided' = IF x \in provided THEN provided \ {x} ELSE provided \cup {x}
  /\ UNCHANGED <<time, fixed, method, endpoint, listed, keptUntil, phase, attempt2, rotated, nonce,
                 wanted>>

Tick ==
  /\ time < MaxTime /\ time' = time + 1
  /\ UNCHANGED <<fixed, provided, method, endpoint, listed, keptUntil, phase, attempt2, rotated,
                 nonce, wanted>>

Next == Reuse \/ Discover \/ Prepare \/ Challenge \/ Answer \/ Rotate \/ Provide \/ Tick

----------------------------------------------------------------------------
(* Properties. *)

\* A nonce challenge defeats an exchange only if the issuer changed its nonce
\* meanwhile (dpop_oauth.py:117-137).
NonceFollowed == phase = "nonce" => rotated

\* A request is authenticated in a way the issuer's metadata lists; without
\* metadata, the endpoint was configured (oidc.py:129-140, dpop_oauth.py:83-98).
AuthListed == phase = "post" => IF listed = Nowhere THEN configured /\ ~bound ELSE method \in listed

\* The token endpoint, once known, is never another (dpop_oauth.py:79-82,
\* oidc.py:113-116).
KeepsEndpoint == endpoint # Nowhere => endpoint' = endpoint
EndpointKept  == [][KeepsEndpoint]_oidcVars
=============================================================================
