--------------------------- MODULE CredentialEngine ---------------------------
(***************************************************************************)
(* How the engine chooses the workload credential of a call                *)
(* (agentic/engine.py): credential-info with its cache and short negative  *)
(* cache, the credential it builds from an answer, the provisional runtime *)
(* key offered to a pending registration, the credential an approved agent *)
(* may do without, and decide's one retry after a 401 or 403.              *)
(*                                                                         *)
(* Governed threads call decide: workload_headers holds the credential     *)
(* lock over the whole acquisition, network calls included.  Transparent   *)
(* threads call client._agent_token for model traffic: they take the lock  *)
(* only around the parts the code guards.  decide is modelled inside an    *)
(* enabled security scope, without an explicit agent claim, and with the   *)
(* canonical routes present.                                               *)
(***************************************************************************)
EXTENDS Integers

CONSTANTS
  Governed,    \* threads that call decide
  Transparent, \* threads that send model traffic with identity=True
  Answers,     \* pool of credential-info answers (VKCredentialInfo objects)
  Minted,      \* pool of credentials the engine builds
  Supplied,    \* credentials only the application makes
  None,        \* Python's None
  Replied,     \* kinds of answer this gateway gives
  MaxCalls,    \* bound: calls started by all threads
  MaxSupplies  \* bound: calls of set_agent_credential

Threads     == Governed \union Transparent
Credentials == Minted \union Supplied

(* What an answer says: no workload identity; an identity of a token       *)
(* provider; an approved gateway-broker identity; such an identity marked  *)
(* credential_optional; a provisional key for a pending registration.      *)
Kinds == {"llm", "declared", "broker", "optional", "provisional"}

ASSUME ThreadsAssumption == Governed \intersect Transparent = {}
ASSUME PoolsAssumption ==
  /\ Minted \intersect Supplied = {}
  /\ None \notin Threads \union Answers \union Minted \union Supplied
ASSUME BoundsAssumption ==
  Replied \subseteq Kinds /\ MaxCalls \in Nat /\ MaxSupplies \in Nat

VARIABLES
  kind,        \* what each answer said; "unread" before it was fetched
  info,        \* _cred_info
  aged,        \* whether it is within the hour: "fresh" or "old"
  witnesses,   \* threads still in the call in which info was fetched
  failure,     \* the negative cache, within its 0.25 s: error code or "none"
  origin,      \* the answer each minted credential was built from
  enrolled,    \* minted credentials whose key the gateway accepted
  active,      \* _agent_credential
  provisional, \* _provisional_credential
  built,       \* _built_credential
  setAside,    \* _set_aside_credentials
  restingFor,  \* _optional_credential_failed_for, within its 60 s
  owner, depth,\* _credential_lock (an RLock): who holds it, how many times
  pc, call,    \* where each thread is, its arguments and locals
  override,    \* history: the credential set_agent_credential gave last
  calls, supplies \* how often the bounded steps happened

cache == <<kind, info, aged, witnesses, failure>>
slots == <<active, provisional, built, setAside, restingFor>>
built_of == <<origin, enrolled>>
lock  == <<owner, depth>>
env   == <<override, calls, supplies>>
vars  == <<cache, slots, built_of, lock, pc, call, env>>

Pcs == {"idle", "info", "infoReturn", "infoLock", "infoFetch", "workload", "cred",
        "credLock", "choose", "build", "publish", "token", "exchange", "setAside",
        "offer", "excuse", "rest", "pendingKey", "judge", "wrap", "proof", "post",
        "reset"}
Errors  == {"none", "outage", "pending", "config", "local", "refused", "empty", "vanished"}
Results == {"none", "sent", "bare", "pending", "error"}

Calls ==
  [round : 0..1, attempt : 0..1, ret : {"agent", "build", "reread", "token"},
   answer : Answers \union {None}, cred : Credentials \union {None},
   token : Credentials \union {None}, signer : Credentials \union {None},
   basis : Answers \union {None}, tried : SUBSET Minted,
   error : Errors, result : Results]
NewCall ==
  [round |-> 0, attempt |-> 0, ret |-> "agent", answer |-> None, cred |-> None,
   token |-> None, signer |-> None, basis |-> None, tried |-> {},
   error |-> "none", result |-> "none"]

Says(a, k)     == a # None /\ kind[a] = k
BuiltFrom(c, k) == c \in Minted /\ Says(origin[c], k)
(* A GatewayBrokerCredential, by its provider_type. *)
IsBroker(c)    == \E k \in {"broker", "optional", "provisional"} : BuiltFrom(c, k)

(* _broker_identity_required, and the same test in client._agent_token. *)
BrokerRequired == Says(info, "broker") \/ Says(info, "provisional")

(* The pools: an answer not given yet, a credential not built yet. *)
NewAnswer     == CHOOSE a \in Answers : kind[a] = "unread"
NewCredential == CHOOSE c \in Minted : origin[c] = None

-----------------------------------------------------------------------------
Goto(t, label) == pc' = [pc EXCEPT ![t] = label]
Idle(t)        == Goto(t, "idle") /\ witnesses' = witnesses \ {t}

Free(t)    == owner \in {None, t}
Acquire(t) == Free(t) /\ owner' = t /\ depth' = depth + 1
Release(t) == /\ owner' = IF depth = 1 THEN None ELSE owner
              /\ depth' = depth - 1

(* Variant: an exception leaves the lock held. *)
UnwindKeepsLock(t) == UNCHANGED lock

(* An exception leaves every with-block the thread is in. *)
Unwind(t)  == /\ owner' = IF owner = t THEN None ELSE owner
              /\ depth' = IF owner = t THEN 0 ELSE depth

(* agent_token raises e.  decide ends with it; the transparent path's own  *)
(* handlers judge it once the lock is released.                            *)
Raise(t, e, basis) ==
  /\ Unwind(t)
  /\ call' = [call EXCEPT ![t].error = e, ![t].basis = basis,
       ![t].result = IF t \in Governed THEN IF e = "pending" THEN "pending" ELSE "error"
                     ELSE @]
  /\ IF t \in Governed THEN Idle(t) ELSE Goto(t, "judge") /\ UNCHANGED witnesses

(* agent_token returns None: the call goes on with the virtual key alone,  *)
(* on the strength of the answer basis.                                    *)
NoToken(t, cred, basis) ==
  /\ call' = [call EXCEPT ![t].cred = cred, ![t].basis = basis,
                          ![t].result = "bare"]
  /\ IF t \in Governed THEN Goto(t, "proof") /\ UNCHANGED witnesses ELSE Idle(t)

-----------------------------------------------------------------------------
Init ==
  /\ kind = [a \in Answers |-> "unread"]
  /\ info = None /\ aged = "fresh" /\ witnesses = {} /\ failure = "none"
  /\ origin = [c \in Minted |-> None] /\ enrolled = {}
  /\ active = None /\ provisional = None /\ built = None
  /\ setAside = {} /\ restingFor = None
  /\ owner = None /\ depth = 0
  /\ pc = [t \in Threads |-> "idle"]
  /\ call = [t \in Threads |-> NewCall]
  /\ override = None /\ calls = 0 /\ supplies = 0

-----------------------------------------------------------------------------
(* Calls begin. *)
Start(t, label) ==
  /\ pc[t] = "idle"
  /\ calls < MaxCalls
  /\ calls' = calls + 1
  /\ call' = [call EXCEPT ![t] = NewCall]
  /\ Goto(t, label)
  /\ UNCHANGED <<cache, slots, built_of, lock, override, supplies>>

(* decide builds its payload first, which reads agent_subject. *)
Decide(t)  == t \in Governed /\ Start(t, "info")
Request(t) == t \in Transparent /\ Start(t, "cred")

-----------------------------------------------------------------------------
(* credential_info: a look without the lock, a second look under it, one    *)
(* fetch while holding it.                                                  *)
InfoCached == info # None /\ aged = "fresh"

(* Variant: a re-read that meets another offer enrols again. *)
ContinueWithOffer(t, offer) ==
  CASE call[t].ret = "agent" -> "workload"
    [] call[t].ret = "build" -> "choose"
    [] OTHER                 -> "cred"

(* Where credential_info was called from decides what the answer is for;   *)
(* a re-read that meets another provisional offer sets it aside.           *)
Continue(t, offer) ==
  CASE call[t].ret = "agent" -> "workload"
    [] call[t].ret = "build" -> "choose"
    [] OTHER                 -> IF offer THEN "offer" ELSE "cred"
AnswerRead(t, a, offer) ==
  /\ Goto(t, Continue(t, offer))
  /\ call' = [call EXCEPT ![t].answer = a,
       ![t].attempt = IF Continue(t, offer) = "cred" THEN 1 ELSE @]

InfoRead(t) ==
  /\ pc[t] = "info"
  /\ IF failure # "none"
     THEN Raise(t, failure, None)
     ELSE /\ Goto(t, IF InfoCached THEN "infoReturn" ELSE "infoLock")
          /\ UNCHANGED <<call, witnesses, lock>>
  /\ UNCHANGED <<kind, info, aged, failure, slots, built_of, env>>

(* The fast path returns the attribute it tested, read a second time.      *)
(* agent_subject trips over None; a re-read takes it for an answer that is *)
(* no provisional offer.                                                   *)
InfoReturn(t) ==
  /\ pc[t] = "infoReturn"
  /\ IF call[t].ret = "agent" /\ info = None
     THEN Raise(t, "vanished", None)
     ELSE AnswerRead(t, info, Says(info, "provisional")) /\ UNCHANGED <<witnesses, lock>>
  /\ UNCHANGED <<kind, info, aged, failure, slots, built_of, env>>

InfoLock(t) ==
  /\ pc[t] = "infoLock"
  /\ Free(t)
  /\ CASE failure # "none" -> Raise(t, failure, None)
       [] failure = "none" /\ InfoCached ->
            AnswerRead(t, info, Says(info, "provisional")) /\ UNCHANGED <<witnesses, lock>>
       [] OTHER -> Acquire(t) /\ Goto(t, "infoFetch") /\ UNCHANGED <<call, witnesses>>
  /\ UNCHANGED <<kind, info, aged, failure, slots, built_of, env>>

(* The answer, published while the lock is held. *)
InfoAnswered(t, k) ==
  /\ pc[t] = "infoFetch"
  /\ \E a \in Answers : kind[a] = "unread"
  /\ kind' = [kind EXCEPT ![NewAnswer] = k]
  /\ info' = NewAnswer /\ aged' = "fresh" /\ failure' = "none"
  /\ witnesses' = {u \in Threads : pc[u] # "idle"}
  /\ Release(t)
  /\ AnswerRead(t, NewAnswer, k = "provisional")
  /\ UNCHANGED <<slots, built_of, env>>

(* A configuration error is remembered for a moment; an outage is not. *)
InfoFailed(t) ==
  /\ pc[t] = "infoFetch"
  /\ \/ \E e \in {"pending", "config"} : failure' = e /\ Raise(t, e, None)
     \/ UNCHANGED failure /\ Raise(t, "outage", None)
  /\ UNCHANGED <<kind, info, aged, slots, built_of, env>>

-----------------------------------------------------------------------------
(* agent_credential: the active credential, or one built from the answer.  *)
Holds(t, c) == call' = [call EXCEPT ![t].cred = c]

ReadCredential(t) ==
  /\ pc[t] = "cred"
  /\ IF active # None THEN Holds(t, active) /\ Goto(t, "token")
                      ELSE Goto(t, "credLock") /\ UNCHANGED call
  /\ UNCHANGED <<cache, slots, built_of, lock, env>>

LockCredential(t) ==
  /\ pc[t] = "credLock"
  /\ Free(t)
  /\ IF active # None
     THEN Holds(t, active) /\ Goto(t, "token") /\ UNCHANGED lock
     ELSE /\ Acquire(t) /\ Goto(t, "info")
          /\ call' = [call EXCEPT ![t].ret = "build"]
  /\ UNCHANGED <<cache, slots, built_of, env>>

(* An answer without workload identity needs no token; an optional         *)
(* credential that failed moments ago for this answer is not tried.        *)
Choose(t) ==
  LET a == call[t].answer IN
  /\ pc[t] = "choose"
  /\ IF Says(a, "llm") \/ (Says(a, "optional") /\ restingFor = a)
     THEN NoToken(t, None, a) /\ Release(t)
     ELSE Goto(t, "build") /\ UNCHANGED <<call, witnesses, lock>>
  /\ UNCHANGED <<kind, info, aged, failure, slots, built_of, env>>

BuildSucceeds(t) ==
  /\ pc[t] = "build"
  /\ \E c \in Minted : origin[c] = None
  /\ origin' = [origin EXCEPT ![NewCredential] = call[t].answer]
  /\ active' = NewCredential
  /\ Holds(t, NewCredential)
  /\ Goto(t, "publish")
  /\ UNCHANGED <<cache, provisional, built, setAside, restingFor, enrolled, lock, env>>

(* Variant: the build releases agent_credential's lock and its caller's. *)
PublishReleasesTwice(t) ==
  LET c == call[t].cred IN
  /\ pc[t] = "publish"
  /\ provisional' = IF Says(origin[c], "provisional") THEN c ELSE None
  /\ built' = c
  /\ owner' = None /\ depth' = depth - 2
  /\ Goto(t, "token")
  /\ UNCHANGED <<cache, active, setAside, restingFor, built_of, call, env>>

(* The new credential's two markers follow the credential itself: a thread *)
(* without the lock can use it before they are set.                        *)
Publish(t) ==
  LET c == call[t].cred IN
  /\ pc[t] = "publish"
  /\ provisional' = IF Says(origin[c], "provisional") THEN c ELSE None
  /\ built' = c
  /\ Release(t)
  /\ Goto(t, "token")
  /\ UNCHANGED <<cache, active, setAside, restingFor, built_of, call, env>>

(* _provisional_offer_pending: the offer a is left as a 409 pending answer *)
(* of the gateway leaves it.                                               *)
SetOfferAside(a) ==
  /\ IF info = a
     THEN info' = None /\ failure' = "pending" ELSE UNCHANGED <<info, failure>>
  /\ active' = IF active = provisional THEN None ELSE active
  /\ built' = IF built = provisional THEN None ELSE built
  /\ provisional' = None

(* Variant: any local failure to build reads as pending. *)
BuildFailsPending(t, e) ==
  LET a == call[t].answer IN
  /\ pc[t] = "build"
  /\ CASE Says(a, "optional") ->
            /\ restingFor' = a
            /\ NoToken(t, None, a) /\ Release(t)
            /\ UNCHANGED <<info, failure, active, built, provisional>>
       [] ~Says(a, "optional") /\ e = "local" ->
            SetOfferAside(a) /\ Raise(t, "pending", a) /\ UNCHANGED restingFor
       [] OTHER ->
            /\ Raise(t, e, None)
            /\ UNCHANGED <<info, failure, active, built, provisional, restingFor>>
  /\ UNCHANGED <<kind, aged, setAside, built_of, env>>

(* A credential that cannot be built.  "local": this process cannot hold   *)
(* or use the runtime key.                                                 *)
BuildFails(t, e) ==
  LET a == call[t].answer IN
  /\ pc[t] = "build"
  /\ CASE Says(a, "optional") ->
            /\ restingFor' = a
            /\ NoToken(t, None, a) /\ Release(t)
            /\ UNCHANGED <<info, failure, active, built, provisional>>
       [] Says(a, "provisional") /\ e = "local" ->
            SetOfferAside(a) /\ Raise(t, "pending", a) /\ UNCHANGED restingFor
       [] OTHER ->
            /\ Raise(t, e, None)
            /\ UNCHANGED <<info, failure, active, built, provisional, restingFor>>
  /\ UNCHANGED <<kind, aged, setAside, built_of, env>>

-----------------------------------------------------------------------------
(* The token of the chosen credential. *)
Resting(c) == c = built /\ restingFor = info /\ Says(info, "optional")

CheckResting(t) ==
  LET c == call[t].cred IN
  /\ pc[t] = "token"
  /\ IF Resting(c)
     THEN NoToken(t, c, info)
     ELSE /\ Goto(t, "exchange") /\ UNCHANGED witnesses
          /\ call' = [call EXCEPT ![t].tried =
               IF BuiltFrom(c, "provisional") THEN @ \union {c} ELSE @]
  /\ UNCHANGED <<kind, info, aged, failure, slots, built_of, lock, env>>

TokenIssued(t) ==
  LET c == call[t].cred IN
  /\ pc[t] = "exchange"
  /\ enrolled' = IF IsBroker(c) THEN enrolled \union {c} ELSE enrolled
  /\ call' = [call EXCEPT ![t].token = c,
                          ![t].result = IF t \in Governed THEN @ ELSE "sent"]
  /\ IF t \in Governed THEN Goto(t, "proof") /\ UNCHANGED witnesses ELSE Idle(t)
  /\ UNCHANGED <<kind, info, aged, failure, slots, origin, lock, env>>

(* "refused": agent_runtime_authentication_failed at enroll or challenge.  *)
ExchangeErrors(c) ==
  {"outage", "config"} \union (IF IsBroker(c) THEN {"refused"} ELSE {})
    \union (IF BuiltFrom(c, "provisional") /\ c \notin enrolled THEN {"local"} ELSE {})

TokenFails(t) ==
  /\ pc[t] = "exchange"
  /\ \E e \in ExchangeErrors(call[t].cred) :
       call' = [call EXCEPT ![t].error = e]
  /\ Goto(t, "setAside")
  /\ UNCHANGED <<cache, slots, built_of, lock, env>>

(* A credential of a token provider that returns an empty token: an error  *)
(* for a governed call, no token for transparent traffic.                  *)
TokenEmpty(t) ==
  LET c == call[t].cred IN
  /\ pc[t] = "exchange"
  /\ ~IsBroker(c)
  /\ IF t \in Governed
     THEN /\ call' = [call EXCEPT ![t].error = "empty"]
          /\ Goto(t, "excuse") /\ UNCHANGED witnesses
     ELSE NoToken(t, c, info)
  /\ UNCHANGED <<kind, info, aged, failure, slots, built_of, lock, env>>

(* _set_aside_refused_provisional_key, on the first pass only. *)
SetAsideRefused(t) ==
  LET c == call[t].cred
      refused == call[t].attempt = 0 /\ call[t].error = "refused"
      reread  == /\ Goto(t, "info")
                 /\ call' = [call EXCEPT ![t].ret = "reread", ![t].cred = None]
  IN
  /\ pc[t] = "setAside"
  /\ refused => Free(t)
  /\ CASE refused /\ c = provisional ->
            /\ active' = IF active = c THEN None ELSE active
            /\ built' = IF built = c THEN None ELSE built
            /\ provisional' = None
            /\ info' = None /\ failure' = "none"
            /\ setAside' = setAside \union {c}
            /\ reread
       [] refused /\ c # provisional /\ c \in setAside /\ c # active ->
            reread /\ UNCHANGED <<active, built, provisional, info, failure, setAside>>
       [] OTHER ->
            /\ Goto(t, "excuse")
            /\ UNCHANGED <<call, active, built, provisional, info, failure, setAside>>
  /\ UNCHANGED <<kind, aged, witnesses, restingFor, built_of, lock, env>>

(* The offer is read as plain pending: by a re-read that met it again, or  *)
(* for a key that failed to enrol for a local reason.                      *)
Offer(t) ==
  LET a == call[t].answer IN
  /\ pc[t] = "offer"
  /\ Free(t)
  /\ SetOfferAside(a)
  /\ IF call[t].ret = "reread" \/ t \in Governed
     THEN Raise(t, "pending", a)
     ELSE NoToken(t, call[t].cred, a) /\ UNCHANGED lock
  /\ UNCHANGED <<kind, aged, setAside, restingFor, built_of, env>>

(* Variant: whatever credential failed, an optional answer excuses it. *)
ExcuseAny(t) ==
  /\ pc[t] = "excuse"
  /\ IF Says(info, "optional")
     THEN call' = [call EXCEPT ![t].answer = info] /\ Goto(t, "rest")
     ELSE Goto(t, "pendingKey") /\ UNCHANGED call
  /\ UNCHANGED <<cache, slots, built_of, lock, env>>

(* _optional_credential_failure: only for a credential this engine built,  *)
(* only under an answer marked optional.                                   *)
Excuse(t) ==
  LET c == call[t].cred IN
  /\ pc[t] = "excuse"
  /\ IF c = built /\ Says(info, "optional")
     THEN call' = [call EXCEPT ![t].answer = info] /\ Goto(t, "rest")
     ELSE Goto(t, "pendingKey") /\ UNCHANGED call
  /\ UNCHANGED <<cache, slots, built_of, lock, env>>

Rest(t) ==
  /\ pc[t] = "rest"
  /\ Free(t)
  /\ restingFor' = call[t].answer
  /\ NoToken(t, call[t].cred, call[t].answer)
  /\ UNCHANGED <<kind, info, aged, failure, active, provisional, built, setAside,
                 built_of, lock, env>>

(* _provisional_token_fallback, and what is left to raise after it.  The   *)
(* transparent path raises a gateway-broker credential's errors only.      *)
PendingKey(t) ==
  LET c == call[t].cred IN
  /\ pc[t] = "pendingKey"
  /\ CASE /\ c = provisional /\ c \notin enrolled
          /\ call[t].error = "local" /\ Says(info, "provisional") ->
            /\ call' = [call EXCEPT ![t].answer = info, ![t].ret = "token"]
            /\ Goto(t, "offer") /\ UNCHANGED <<witnesses, lock>>
       [] t \in Transparent /\ IsBroker(c) ->
            Goto(t, "wrap") /\ UNCHANGED <<call, witnesses, lock>>
       [] t \in Transparent /\ ~IsBroker(c) ->
            NoToken(t, c, info) /\ UNCHANGED lock
       [] OTHER -> Raise(t, call[t].error, None)
  /\ UNCHANGED <<kind, info, aged, failure, slots, built_of, env>>

(* A lookup or build that failed on the transparent path: traffic goes on  *)
(* unless the cached answer names a broker identity; the client looks at   *)
(* the cached answer once more before it lets the error through.           *)
Judge(t) ==
  /\ pc[t] = "judge"
  /\ IF BrokerRequired THEN Goto(t, "wrap") /\ UNCHANGED <<call, witnesses>>
                       ELSE NoToken(t, call[t].cred, info)
  /\ UNCHANGED <<kind, info, aged, failure, slots, built_of, lock, env>>

(* Variant: the client lets no error of the engine through. *)
WrapSwallows(t) ==
  /\ pc[t] = "wrap"
  /\ NoToken(t, call[t].cred, info)
  /\ UNCHANGED <<kind, info, aged, failure, slots, built_of, lock, env>>

Wrap(t) ==
  /\ pc[t] = "wrap"
  /\ IF BrokerRequired
     THEN Idle(t) /\ call' = [call EXCEPT ![t].result = "error"]
     ELSE NoToken(t, call[t].cred, info)
  /\ UNCHANGED <<kind, info, aged, failure, slots, built_of, lock, env>>

-----------------------------------------------------------------------------
(* workload_headers: the lock is held from before the token to after the   *)
(* proof, which the credential active at that moment signs.                *)
LockWorkload(t) ==
  /\ pc[t] = "workload"
  /\ Acquire(t)
  /\ Goto(t, "cred")
  /\ call' = [call EXCEPT ![t].attempt = 0, ![t].tried = {}, ![t].token = None]
  /\ UNCHANGED <<cache, slots, built_of, env>>

Sign(t) ==
  /\ pc[t] = "proof"
  /\ Release(t)
  /\ Goto(t, "post")
  /\ call' = [call EXCEPT ![t].signer = IF call[t].token = None THEN None ELSE active]
  /\ UNCHANGED <<cache, slots, built_of, env>>

(* The decision request: a verdict, a 401 or 403, or a failure. *)
PostDecide(t) ==
  /\ pc[t] = "post"
  /\ \/ /\ call' = [call EXCEPT ![t].result = IF call[t].token = None THEN "bare" ELSE "sent"]
        /\ Idle(t)
     \/ /\ call[t].round = 0
        /\ Goto(t, "reset") /\ UNCHANGED <<call, witnesses>>
     \/ call' = [call EXCEPT ![t].result = "error"] /\ Idle(t)
  /\ UNCHANGED <<kind, info, aged, failure, slots, built_of, lock, env>>

(* Variant: decide resets without the credential lock. *)
ResetUnlocked(t) ==
  /\ pc[t] = "reset"
  /\ info' = None /\ failure' = "none"
  /\ active' = None /\ provisional' = None /\ built' = None /\ restingFor' = None
  /\ call' = [call EXCEPT ![t] = [NewCall EXCEPT !.round = 1]]
  /\ Goto(t, "info")
  /\ UNCHANGED <<kind, aged, witnesses, setAside, built_of, lock, env>>

(* decide drops everything it chose from and tries once more. *)
Reset(t) ==
  /\ pc[t] = "reset"
  /\ Free(t)
  /\ info' = None /\ failure' = "none"
  /\ active' = None /\ provisional' = None /\ built' = None /\ restingFor' = None
  /\ call' = [call EXCEPT ![t] = [NewCall EXCEPT !.round = 1]]
  /\ Goto(t, "info")
  /\ UNCHANGED <<kind, aged, witnesses, setAside, built_of, lock, env>>

(* Variants: a supplied credential stays set aside, or keeps its markers. *)
SupplyStaysAside(c) ==
  /\ supplies < MaxSupplies
  /\ owner = None
  /\ c \in Supplied \/ (c \in Minted /\ origin[c] # None)
  /\ supplies' = supplies + 1
  /\ override' = c
  /\ active' = c /\ provisional' = None /\ built' = None /\ restingFor' = None
  /\ UNCHANGED <<cache, setAside, built_of, lock, pc, call, calls>>
SupplyKeepsBuilt(c) ==
  /\ supplies < MaxSupplies
  /\ owner = None
  /\ c \in Supplied \/ (c \in Minted /\ origin[c] # None)
  /\ supplies' = supplies + 1
  /\ override' = c
  /\ active' = c /\ provisional' = None
  /\ setAside' = setAside \ {c}
  /\ UNCHANGED <<cache, built, restingFor, built_of, lock, pc, call, calls>>

(* set_agent_credential: a credential of the application's own, or one the *)
(* engine built that the application gives back.                           *)
Supply(c) ==
  /\ supplies < MaxSupplies
  /\ owner = None
  /\ c \in Supplied \/ (c \in Minted /\ origin[c] # None)
  /\ supplies' = supplies + 1
  /\ override' = c
  /\ active' = c /\ provisional' = None /\ built' = None /\ restingFor' = None
  /\ setAside' = setAside \ {c}
  /\ UNCHANGED <<cache, built_of, lock, pc, call, calls>>

(* Time: the hour of an answer, the 0.25 s of a remembered failure, the    *)
(* minute of an optional credential.  A call lasts seconds: an answer does *)
(* not outlive its hour within the calls that saw it fetched.              *)
AnswerAges ==
  /\ info # None /\ aged = "fresh" /\ witnesses = {}
  /\ aged' = "old"
  /\ UNCHANGED <<kind, info, witnesses, failure, slots, built_of, lock, pc, call, env>>
FailureLapses ==
  /\ failure # "none" /\ failure' = "none"
  /\ UNCHANGED <<kind, info, aged, witnesses, slots, built_of, lock, pc, call, env>>
RestLapses ==
  /\ restingFor # None /\ restingFor' = None
  /\ UNCHANGED <<cache, active, provisional, built, setAside, built_of, lock, pc, call, env>>

-----------------------------------------------------------------------------
Lookup(t) ==
  \/ InfoRead(t) \/ InfoReturn(t) \/ InfoLock(t)
  \/ \E k \in Replied : InfoAnswered(t, k)
  \/ InfoFailed(t)
Choosing(t) ==
  \/ ReadCredential(t) \/ LockCredential(t) \/ Choose(t)
  \/ BuildSucceeds(t) \/ Publish(t)
  \/ \E e \in {"config", "local"} : BuildFails(t, e)
Exchanging(t) ==
  \/ CheckResting(t) \/ TokenIssued(t) \/ TokenFails(t) \/ TokenEmpty(t)
Handling(t) ==
  \/ SetAsideRefused(t) \/ Offer(t) \/ Excuse(t) \/ Rest(t) \/ PendingKey(t)
  \/ Judge(t) \/ Wrap(t)
Deciding(t) == LockWorkload(t) \/ Sign(t) \/ PostDecide(t) \/ Reset(t)
Working(t)  == Lookup(t) \/ Choosing(t) \/ Exchanging(t) \/ Handling(t) \/ Deciding(t)

Environment ==
  \/ \E c \in Credentials : Supply(c)
  \/ AnswerAges \/ FailureLapses \/ RestLapses

Next ==
  \/ \E t \in Threads : Decide(t) \/ Request(t) \/ Working(t)
  \/ Environment

Spec == Init /\ [][Next]_vars
(* The threads are scheduled and every network exchange ends; nothing      *)
(* makes the application call again, or time pass.                         *)
FairSpec == Spec /\ \A t \in Threads : WF_vars(Working(t))

-----------------------------------------------------------------------------
TypeOK ==
  /\ kind \in [Answers -> Kinds \union {"unread"}]
  /\ info \in Answers \union {None}
  /\ aged \in {"fresh", "old"}
  /\ witnesses \subseteq Threads
  /\ failure \in {"none", "pending", "config"}
  /\ origin \in [Minted -> Answers \union {None}]
  /\ enrolled \subseteq Minted
  /\ {active, provisional, built} \subseteq Credentials \union {None}
  /\ setAside \subseteq Minted
  /\ restingFor \in Answers \union {None}
  /\ owner \in Threads \union {None}
  /\ depth \in 0..3
  /\ pc \in [Threads -> Pcs]
  /\ call \in [Threads -> Calls]
  /\ override \in Credentials \union {None}
  /\ calls \in 0..MaxCalls
  /\ supplies \in 0..MaxSupplies

(* The two markers beside the active credential are set or cleared in five *)
(* places.  Outside a publication they mark the active credential or       *)
(* nothing, and a credential the application supplied carries neither.     *)
SlotsAgree ==
  (\A t \in Threads : pc[t] # "publish") =>
    /\ provisional \in {None, active}
    /\ built \in {None, active}
    /\ (override # None /\ active = override) => built = None /\ provisional = None

(* A credential whose key the gateway refused never serves another call,   *)
(* whatever the threads that still hold it do, unless it is supplied again. *)
SetAsideStaysOut == active \notin setAside

(* A governed call goes without a token only on an answer that needs none  *)
(* or marks it optional, and never for want of a credential the            *)
(* application supplied: no failure drops the proof of a declared, broker, *)
(* provisional or supplied identity.                                       *)
BareIsExcused ==
  \A t \in Governed :
    call[t].result = "bare" =>
      /\ \/ Says(call[t].basis, "optional")
         \/ Says(call[t].basis, "llm") /\ call[t].cred = None
      /\ call[t].cred \notin Supplied

(* The proof of a governed request is signed by the credential its token   *)
(* came from, although other threads replace credentials all the time.     *)
ProofMatchesToken ==
  \A t \in Governed : pc[t] = "post" => call[t].signer = call[t].token

(* Reading a failure as "registration pending" is for the provisional      *)
(* offer: a declared, approved or supplied identity never is.              *)
PendingOnlyForOffer ==
  \A t \in Governed :
    (call[t].result = "pending" /\ call[t].basis # None) =>
      /\ Says(call[t].basis, "provisional")
      /\ call[t].cred = None \/ BuiltFrom(call[t].cred, "provisional")

(* One governed acquisition tries to enrol at most one provisional key: the *)
(* re-read after a refused key never leads to a second enrolment, although *)
(* the engine looks the offer and the credential up again.                 *)
OneEnrolment == \A t \in Governed : \A c, d \in call[t].tried : c = d

(* A credential becomes active only while the answer it was built from is  *)
(* the cached one: no build publishes a superseded identity.               *)
PublishedFromCurrent ==
  [][\A c \in Minted :
       (active # c /\ active' = c /\ supplies' = supplies) => origin'[c] = info]_vars

(* Transparent traffic never loses an approved broker identity without an  *)
(* answer of the gateway that excuses it.                                  *)
BrokerFailsClosed ==
  \A t \in Transparent :
    /\ call[t].result = "bare"
    /\ BuiltFrom(call[t].cred, "broker") \/ (call[t].cred = None /\ Says(call[t].answer, "broker"))
    => call[t].basis # None /\ ~Says(call[t].basis, "broker")

(* Every call returns: the lock is given back on every path, the re-read   *)
(* and the retry happen once.                                              *)
CallsReturn == \A t \in Threads : pc[t] # "idle" ~> pc[t] = "idle"
=============================================================================
