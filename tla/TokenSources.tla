----------------------------- MODULE TokenSources -----------------------------
(***************************************************************************)
(* The agent credentials that obtain their token by an exchange            *)
(* (agentic/credentials): the single-flight cache they share, and the      *)
(* exchanges of Entra (host identity, then T1, then T2) and of ZeroID; an  *)
(* OIDC issuer's is OidcExchange.                                          *)
(***************************************************************************)
EXTENDS Naturals

CONSTANTS
  Callers,     \* threads that call get_token
  MaxClock,    \* bound: ticks
  HostRest,    \* _HOST_FAILURE_TTL_SECONDS in ticks
  Nowhere

VARIABLES
  source,      \* which credential this is
  clock,
  token,       \* _token: the tick it is due for refresh, 0 for none
  refreshAt,   \* _refresh_at
  holder,      \* of the cache's lock
  caller,      \* where each thread stands in get_or_refresh
  trip,        \* the exchange the holder is making
  host         \* Entra's host chain and its memo, and the process's IMDS probe

sourceVars == <<source, clock, token, refreshAt, holder, caller, trip, host>>

Sources == {"entra", "oidc", "zeroid"}
Forever == MaxClock + HostRest + 1
Hosts == [override : BOOLEAN,                       \* mi_credential was given
          marked   : BOOLEAN,                       \* the environment names a host identity
          probe    : {"untried", "yes", "no"},      \* _imds_probe_result
          chain    : BOOLEAN,                       \* _host_credential is built
          failure  : {"", "missing", "failed"},     \* _host_failure_code
          until    : 0..Forever]
Idle == [at |-> "idle", looked |-> 0, got |-> 0]

TypeOK ==
  /\ source \in Sources /\ clock \in 1..MaxClock
  /\ token \in 0..(MaxClock + 2) /\ refreshAt \in 0..(MaxClock + 2)
  /\ holder \in Callers \cup {Nowhere}
  /\ caller \in [Callers -> [at : {"idle", "look", "return", "lock", "again", "trip", "keep",
                                   "due", "done", "failed"},
                             looked : 0..MaxClock, got : 0..(MaxClock + 2)]]
  /\ trip \in {"none", "begin", "t1", "t2"} /\ host \in Hosts

Init ==
  /\ source \in Sources /\ clock = 1 /\ token = 0 /\ refreshAt = 0 /\ holder = Nowhere
  /\ caller = [t \in Callers |-> Idle] /\ trip = "none"
  /\ host \in {h \in Hosts : h.probe = "untried" /\ ~h.chain /\ h.failure = "" /\ h.until = 0
                               /\ (source # "entra" => ~h.override /\ ~h.marked)}

exchange == <<trip, host>>
At(t, p) == caller[t].at = p
Goto(t, p) == caller' = [caller EXCEPT ![t].at = p]

----------------------------------------------------------------------------
(* _CachedToken *)

GetToken(t) ==
  /\ caller[t].at \in {"idle", "done", "failed"}
  /\ caller' = [caller EXCEPT ![t] = [Idle EXCEPT !.at = "look"]]
  /\ UNCHANGED <<source, clock, token, refreshAt, holder, exchange>>

Fresh == token # 0 /\ clock < refreshAt

\* get: the time is compared first, the token is read after it.
Look(t) ==
  /\ At(t, "look")
  /\ caller' = [caller EXCEPT ![t].at = IF Fresh THEN "return" ELSE "lock", ![t].looked = clock]
  /\ UNCHANGED <<source, clock, token, refreshAt, holder, exchange>>

Return(t) ==
  /\ At(t, "return")
  /\ caller' = [caller EXCEPT ![t].at = "done", ![t].got = token]
  /\ UNCHANGED <<source, clock, token, refreshAt, holder, exchange>>

\* Mutant: the lock's holder exchanges without looking again.
LockAtOnce(t) ==
  /\ At(t, "lock") /\ holder = Nowhere
  /\ holder' = t /\ trip' = "begin" /\ Goto(t, "trip")
  /\ UNCHANGED <<source, clock, token, refreshAt, host>>

\* Whoever gets the lock looks again before it exchanges.
Lock(t) ==
  /\ At(t, "lock") /\ holder = Nowhere
  /\ IF Fresh
     THEN /\ caller' = [caller EXCEPT ![t] = [at |-> "done", looked |-> clock, got |-> token]]
          /\ UNCHANGED <<holder, trip>>
     ELSE /\ holder' = t /\ trip' = "begin" /\ Goto(t, "trip")
  /\ UNCHANGED <<source, clock, token, refreshAt, host>>

\* Mutant: the time first, then the token.
KeepTimeFirst(t) ==
  /\ At(t, "keep")
  /\ refreshAt' = caller[t].got /\ Goto(t, "due")
  /\ UNCHANGED <<source, clock, token, holder, exchange>>

\* _set_unlocked: the token ...
Keep(t) ==
  /\ At(t, "keep")
  /\ token' = caller[t].got /\ Goto(t, "due")
  /\ UNCHANGED <<source, clock, refreshAt, holder, exchange>>

\* ... then when it is due; the lock is released.
KeepTime(t) ==
  /\ At(t, "due")
  /\ token' = caller[t].got /\ refreshAt' = caller[t].got
  /\ Goto(t, "done") /\ holder' = Nowhere
  /\ UNCHANGED <<source, clock, exchange>>

----------------------------------------------------------------------------
(* The exchanges.  An answer carries a lifetime; the due time leaves a     *)
(* margin of a tenth of it, five minutes at most.                          *)

Trip(t, s) == At(t, "trip") /\ holder = t /\ trip = s
Advance(s) == trip' = s

Receive(t) ==
  \E ttl \in 0..2 :
    /\ caller' = [caller EXCEPT ![t].at = "keep", ![t].looked = clock,
                                ![t].got = clock + ttl]
    /\ trip' = "none" /\ UNCHANGED holder

\* An exception leaves get_or_refresh, and with it the lock.
Fail(t) == Goto(t, "failed") /\ holder' = Nowhere /\ trip' = "none"

\* zeroid._exchange; with no subject token nothing is sent.
Zeroid(t) ==
  /\ source = "zeroid" /\ Trip(t, "begin")
  /\ Receive(t) \/ Fail(t)
  /\ UNCHANGED <<source, clock, token, refreshAt, host>>

\* _raise_memoised_host_failure; a memo whose time has passed is dropped.
Resting == host.failure # "" /\ clock < host.until
Settled == IF Resting THEN host ELSE [host EXCEPT !.failure = "", !.until = 0]
Memoise(h, code, until) == [h EXCEPT !.failure = code, !.until = until]

\* _host_identity_markers: the environment's, or what one probe of the IMDS
\* endpoint said, once for the process.
Markers(h) == h.marked \/ h.probe = "yes"
Probed(h)  == IF h.marked \/ h.probe # "untried" THEN {h}
              ELSE {[h EXCEPT !.probe = p] : p \in {"yes", "no"}}

\* _get_mi_token: an override is asked directly; else the chain is built once.
Host(t) ==
  /\ source = "entra" /\ Trip(t, "begin")
  /\ \/ host.override /\ UNCHANGED host /\ (Fail(t) \/ (Advance("t1") /\ UNCHANGED <<caller, holder>>))
     \/ ~host.override /\ Resting /\ UNCHANGED host /\ Fail(t)
     \/ /\ ~host.override /\ ~Resting
        /\ \E h \in (IF host.chain THEN {Settled} ELSE Probed(Settled)) :
             \/ ~h.chain /\ ~Markers(h) /\ host' = Memoise(h, "missing", Forever) /\ Fail(t)
             \/ ~h.chain /\ Markers(h) /\ host' = h /\ Fail(t)
             \/ /\ h.chain \/ Markers(h)
                /\ \/ \E built \in {h.chain, TRUE} :
                        /\ host' = Memoise([h EXCEPT !.chain = built], "failed", clock + HostRest)
                        /\ Fail(t)
                   \/ /\ host' = [h EXCEPT !.chain = TRUE] /\ Advance("t1")
                      /\ UNCHANGED <<caller, holder>>
  /\ UNCHANGED <<source, clock, token, refreshAt>>

\* entra._exchange: blueprint assertion, then the child identity's.
Entra(t) ==
  /\ source = "entra"
  /\ \/ Trip(t, "t1") /\ (Fail(t) \/ (Advance("t2") /\ UNCHANGED <<caller, holder>>))
     \/ Trip(t, "t2") /\ (Fail(t) \/ Receive(t))
  /\ UNCHANGED <<source, clock, token, refreshAt, host>>

\* An OIDC issuer's exchange (OidcExchange) gives a token or raises.
Issuer(t) ==
  /\ source = "oidc" /\ Trip(t, "begin")
  /\ Receive(t) \/ Fail(t)
  /\ UNCHANGED <<source, clock, token, refreshAt, host>>

----------------------------------------------------------------------------
Tick ==
  /\ clock < MaxClock /\ clock' = clock + 1
  /\ UNCHANGED <<source, token, refreshAt, holder, caller, exchange>>

Next ==
  \/ \E t \in Callers : \/ GetToken(t) \/ Look(t) \/ Return(t) \/ Lock(t) \/ Keep(t) \/ KeepTime(t)
                        \/ Zeroid(t) \/ Host(t) \/ Entra(t) \/ Issuer(t)
  \/ Tick

----------------------------------------------------------------------------
(* Properties. *)

\* A token taken from the cache was not yet due when it was looked for: an
\* unlocked reader never pairs an old token with a new due time
\* (base.py:65-70, 96-101).
FreshWhenTaken ==
  \A t \in Callers : At(t, "done") => caller[t].got >= caller[t].looked

\* No exchange is made while the cache holds a token that is not due
\* (base.py:83-94).
OneExchange == trip \in {"begin", "t1", "t2"} => ~Fresh
=============================================================================
