----------------------------- MODULE McpSession -----------------------------
(***************************************************************************)
(* Requests of one session with the gateway's MCP endpoint (mcp/_native,   *)
(* mcp/_workload, engine.workload_headers).  Each request gets a token and *)
(* its proof from a hook in the transport; when these cannot be issued the *)
(* transport cancels the request, and the session looks for the reason in  *)
(* a list the hook keeps.  The application may cancel requests as well.    *)
(***************************************************************************)
EXTENDS Naturals, Sequences, FiniteSets

CONSTANTS
  Requests,
  MaxRefresh,  \* bound: refreshes of the identity
  Nobody

VARIABLES
  signer,      \* _agent_credential: which credential signs
  signing,     \* who holds _credential_lock
  failures,    \* authentication_failures of the session
  rpc,         \* each request
  cancels      \* history: a request was cancelled for no failure of its own

mcpVars == <<signer, signing, failures, rpc, cancels>>

Idle == [at |-> "idle", mode |-> "none", token |-> 0, proof |-> 0, gone |-> FALSE, outcome |-> "none"]

TypeOK ==
  /\ signer \in 0..MaxRefresh /\ signing \in Requests \cup {Nobody}
  /\ Len(failures) <= Cardinality(Requests) /\ cancels \in BOOLEAN
  /\ rpc \in [Requests -> [at : {"idle", "hook", "token", "proof", "sent", "failed", "done"},
                           mode : {"none", "identity", "explicit"},
                           token : 0..MaxRefresh, proof : 0..MaxRefresh, gone : BOOLEAN,
                           outcome : {"none", "answer", "told", "cancelled"}]]

Init ==
  /\ signer = 0 /\ signing = Nobody /\ failures = <<>> /\ cancels = FALSE
  /\ rpc = [r \in Requests |-> Idle]

At(r, p) == rpc[r].at = p

----------------------------------------------------------------------------
(* The hook: gateway_workload_hook, workload_headers.  It runs in the      *)
(* transport and goes on when the caller is gone.                          *)

\* A request with neither identity nor task carries no credentials.
Ask(r) ==
  /\ At(r, "idle")
  /\ \E mode \in {"none", "identity", "explicit"} :
       rpc' = [rpc EXCEPT ![r].mode = mode, ![r].at = IF mode = "none" THEN "sent" ELSE "hook"]
  /\ UNCHANGED <<signer, signing, failures, cancels>>

Lock(r) ==
  /\ At(r, "hook") /\ signing = Nobody
  /\ signing' = r /\ rpc' = [rpc EXCEPT ![r].at = "token"]
  /\ UNCHANGED <<signer, failures, cancels>>

\* agent_token; an explicit token is the one the session was opened with.
Token(r) ==
  /\ At(r, "token")
  /\ rpc' = [rpc EXCEPT ![r].at = "proof", ![r].token = IF rpc[r].mode = "identity" THEN signer ELSE @]
  /\ UNCHANGED <<signer, signing, failures, cancels>>

\* _dpop_headers, still under the lock.
Prove(r) ==
  /\ At(r, "proof") /\ signing' = Nobody
  /\ rpc' = [rpc EXCEPT ![r].proof = signer, ![r].at = IF rpc[r].gone THEN "done" ELSE "sent"]
  /\ UNCHANGED <<signer, failures, cancels>>

\* Token or proof cannot be issued.
Fail(r) ==
  /\ rpc[r].at \in {"token", "proof"} /\ signing' = Nobody
  /\ failures' = Append(failures, r)
  /\ rpc' = [rpc EXCEPT ![r].at = IF rpc[r].gone THEN "done" ELSE "failed"]
  /\ UNCHANGED <<signer, cancels>>

\* Mutant: another thread's refresh does not wait for the lock.
RefreshAtOnce ==
  /\ signer < MaxRefresh /\ signer' = signer + 1
  /\ UNCHANGED <<signing, failures, rpc, cancels>>

\* The identity is refreshed by another thread.
Refresh ==
  /\ signing = Nobody /\ signer < MaxRefresh /\ signer' = signer + 1
  /\ UNCHANGED <<signing, failures, rpc, cancels>>

----------------------------------------------------------------------------
(* The session: send_request, list_tools, call_tool. *)

Answer(r) ==
  /\ At(r, "sent")
  /\ rpc' = [rpc EXCEPT ![r].at = "done", ![r].outcome = "answer"]
  /\ UNCHANGED <<signer, signing, failures, cancels>>

\* A cancelled request takes the oldest reason there is, whoever's it is.
Awake(r) ==
  /\ rpc' = [rpc EXCEPT ![r].outcome = IF failures = <<>> THEN "cancelled" ELSE "told",
                        ![r].gone = TRUE,
                        ![r].at = IF @ \in {"sent", "failed"} THEN "done" ELSE @]
  /\ failures' = IF failures = <<>> THEN failures ELSE Tail(failures)

\* The transport cancels the request that failed.
Cancel(r) ==
  /\ At(r, "failed") /\ Awake(r)
  /\ UNCHANGED <<signer, signing, cancels>>

\* The application cancels a request, or the transport one that was waiting too.
CancelOther(r) ==
  /\ rpc[r].at \in {"hook", "token", "proof", "sent"} /\ ~rpc[r].gone
  /\ Awake(r) /\ cancels' = TRUE
  /\ UNCHANGED <<signer, signing>>

Next ==
  \/ \E r \in Requests : \/ Ask(r) \/ Lock(r) \/ Token(r) \/ Prove(r) \/ Fail(r)
                         \/ Answer(r) \/ Cancel(r) \/ CancelOther(r)
  \/ Refresh

----------------------------------------------------------------------------
(* Properties. *)

\* A token never goes out with a proof by another credential, whichever
\* refreshes happen while it is issued (engine.py:2012-2017); and as long as
\* nobody else cancels, every request whose credentials could not be issued is
\* told why, though the reasons of all are in one list (mcp/_native.py:86-97).
IssuedOrTold ==
  \A r \in Requests :
    /\ (rpc[r].mode = "identity" /\ At(r, "sent")) => rpc[r].proof = rpc[r].token
    /\ ~cancels => rpc[r].outcome # "cancelled"
=============================================================================
