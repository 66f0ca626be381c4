---------------------------- MODULE BrokerSession ----------------------------
(***************************************************************************)
(* The gateway-broker credential's exchange (credentials/gateway_broker.py *)
(* and runtime_assertion.py): enrolment of the agent's key, a challenge, a *)
(* session, within one budget of time and with at most two waits for       *)
(* capacity.  The gateway may answer anything, at any delay; an            *)
(* administrator approves, disables or re-creates the binding.             *)
(***************************************************************************)
EXTENDS Naturals

CONSTANTS
  Budget,      \* _exchange_budget in ticks
  MaxClock,    \* bound: ticks
  MaxBindings, \* bound: bindings the gateway makes for this key
  Kinds,       \* native cloud kinds; "key" is the kind without one
  Nowhere

VARIABLES
  now,
  opted,       \* DEEPINTSHIELD_RUNTIME_KIND
  pinned,      \* broker.binding_id: discovery named a binding
  stage,       \* the request under way, "rest" between exchanges
  deadline,
  attempt,
  wakeAt,      \* end of the wait for capacity
  sentAt,      \* when the request under way was sent
  enrolled,    \* _enrolled
  bindingId,   \* _binding_id
  assertion,   \* kind of _assertion, once there is one
  session,     \* binding the last token was issued for, or Nowhere
  error,       \* how the last exchange failed
  binding,     \* gateway: the binding it has for this key
  status,      \* gateway: "pending", "approved" or "disabled"
  askedOf      \* history: cloud kinds an identity token was fetched of

brokerVars == <<now, opted, pinned, stage, deadline, attempt, wakeAt, sentAt, enrolled, bindingId,
                assertion, session, error, binding, status, askedOf>>

AllKinds == Kinds \cup {"key"}
Bindings == 1..MaxBindings

TypeOK ==
  /\ now \in 0..MaxClock /\ opted \in AllKinds \cup {""}
  /\ pinned \in Bindings \cup {Nowhere}
  /\ stage \in {"rest", "next", "enroll", "challenge", "assert", "session", "wait"}
  /\ deadline \in 0..(MaxClock + Budget) /\ attempt \in 0..2
  /\ wakeAt \in 0..(MaxClock + Budget) /\ sentAt \in 0..MaxClock
  /\ enrolled \in BOOLEAN /\ bindingId \in Bindings \cup {Nowhere}
  /\ assertion \in AllKinds \cup {Nowhere} /\ session \in Bindings \cup {Nowhere}
  /\ error \in {"", "failed", "invalid", "configuration", "capacity", "pending", "disabled"}
  /\ binding \in Bindings /\ status \in {"pending", "approved", "disabled"}
  /\ askedOf \subseteq Kinds

Init ==
  /\ now = 0 /\ opted \in AllKinds \cup {""} /\ pinned \in {1, Nowhere}
  /\ stage = "rest" /\ deadline = 0 /\ attempt = 0 /\ wakeAt = 0 /\ sentAt = 0
  /\ enrolled = FALSE /\ bindingId = Nowhere /\ assertion = Nowhere /\ session = Nowhere
  /\ error = "" /\ binding = 1 /\ status \in {"pending", "approved"} /\ askedOf = {}

client  == <<enrolled, bindingId, assertion, session>>
gateway == <<binding, status>>
timing  == <<deadline, attempt, wakeAt, sentAt>>
world   == <<now, opted, pinned>>

Fail(code) == stage' = "rest" /\ error' = code
Step(s)    == stage' = s /\ UNCHANGED error

\* get_token's refresh: a new budget, three attempts.
Refresh ==
  /\ stage = "rest" /\ deadline' = now + Budget /\ attempt' = 0 /\ stage' = "next" /\ error' = ""
  /\ UNCHANGED <<world, wakeAt, sentAt, client, gateway, askedOf>>

\* Mutant: a request is sent however late it is.
SendLate(s) == sentAt' = now /\ Step(s)

\* _post refuses to begin once the budget is spent.
Send(s) == IF now < deadline THEN sentAt' = now /\ Step(s)
           ELSE Fail("failed") /\ UNCHANGED sentAt

\* _new_session: enrolment only until it has succeeded.
Attempt ==
  /\ stage = "next" /\ Send(IF enrolled THEN "challenge" ELSE "enroll")
  /\ UNCHANGED <<world, deadline, attempt, wakeAt, client, gateway, askedOf>>

\* _refresh: a wait for capacity must end before the budget does.
Capacity ==
  /\ stage \in {"enroll", "challenge", "session"}
  /\ \E after \in 0..2 :
       IF attempt = 2 \/ now + after >= deadline
       THEN Fail("capacity") /\ UNCHANGED <<attempt, wakeAt>>
       ELSE Step("wait") /\ attempt' = attempt + 1 /\ wakeAt' = now + after
  /\ UNCHANGED <<world, deadline, sentAt, client, gateway, askedOf>>

Wake ==
  /\ stage = "wait" /\ now >= wakeAt /\ Step("next")
  /\ UNCHANGED <<world, timing, client, gateway, askedOf>>

\* The request is lost, refused, or answered by something else.
Refused ==
  /\ stage \in {"enroll", "challenge", "session"}
  /\ \E code \in {"failed", "invalid", "configuration"} : Fail(code)
  /\ UNCHANGED <<world, timing, client, gateway, askedOf>>

\* Mutant: the response may select the identity to use.
AllowedAny(kind) == assertion \in {Nowhere, kind}

\* _runtime_configuration, RuntimeAssertion.__init__: a native kind needs this
\* deployment's own choice, and no answer may change it later.
Allowed(kind) ==
  /\ opted \in (IF kind = "key" THEN {"", "key"} ELSE {kind})
  /\ assertion \in {Nowhere, kind}

\* _enroll
Enrolled ==
  /\ stage = "enroll"
  /\ bindingId' = binding
  /\ IF pinned \notin {Nowhere, binding}
     THEN Fail("invalid") /\ UNCHANGED <<enrolled, assertion, sentAt>>
     ELSE IF status # "approved"
     THEN Fail(status) /\ UNCHANGED <<enrolled, assertion, sentAt>>
     ELSE \E kind \in AllKinds :
            \/ /\ Allowed(kind) /\ assertion' = kind
               /\ enrolled' = TRUE /\ Send("challenge")
            \/ /\ ~Allowed(kind) /\ Fail("configuration")
               /\ UNCHANGED <<enrolled, assertion, sentAt>>
  /\ UNCHANGED <<world, deadline, attempt, wakeAt, session, gateway, askedOf>>

\* _new_session: the challenge's answer names the binding and the kind again.
Challenged ==
  /\ stage = "challenge" /\ status = "approved"
  /\ IF binding # bindingId THEN Fail("invalid") /\ UNCHANGED assertion
     ELSE \E kind \in AllKinds :
            \/ Allowed(kind) /\ assertion' = kind /\ Step("assert")
            \/ ~Allowed(kind) /\ Fail("configuration") /\ UNCHANGED assertion
  /\ UNCHANGED <<world, timing, enrolled, bindingId, session, gateway, askedOf>>

\* RuntimeAssertion.get_token: nothing for a key, else the host's identity.
Assert ==
  /\ stage = "assert"
  /\ askedOf' = askedOf \cup ({assertion} \cap Kinds)
  /\ \/ Send("session")
     \/ assertion # "key" /\ Fail("configuration") /\ UNCHANGED sentAt
  /\ UNCHANGED <<world, deadline, attempt, wakeAt, client, gateway>>

\* The session's token is for this binding and this key, or it is refused.
Issued ==
  /\ stage = "session" /\ status = "approved"
  /\ IF binding = bindingId THEN session' = binding /\ Step("rest")
     ELSE Fail("invalid") /\ UNCHANGED session
  /\ UNCHANGED <<world, timing, enrolled, bindingId, assertion, gateway, askedOf>>

----------------------------------------------------------------------------
\* An administrator.
Administer ==
  /\ \/ status' \in {"approved", "disabled"} \ {status} /\ UNCHANGED binding
     \/ binding < MaxBindings /\ binding' = binding + 1 /\ status' = "pending"
  /\ UNCHANGED <<world, stage, timing, client, error, askedOf>>

Tick ==
  /\ now < MaxClock /\ now' = now + 1
  /\ UNCHANGED <<opted, pinned, stage, timing, client, error, gateway, askedOf>>

Next == \/ Refresh \/ Attempt \/ Capacity \/ Wake \/ Refused \/ Enrolled \/ Challenged \/ Assert
        \/ Issued \/ Administer \/ Tick

----------------------------------------------------------------------------
(* Properties. *)

\* No request is begun when the exchange's budget is spent, and no wait for
\* capacity is begun that would spend it (gateway_broker.py:201-203, 316-326).
SentInTime ==
  /\ stage \in {"enroll", "challenge", "session"} => sentAt < deadline
  /\ stage = "wait" => wakeAt < deadline

\* No answer of the gateway makes the process fetch a cloud identity its
\* deployment did not choose (gateway_broker.py:297-314).
NeverAmbient == askedOf \subseteq {opted}
=============================================================================
