---------------------------- MODULE SightingReport ----------------------------
(***************************************************************************)
(* One discovery report on the wire (registry.py, _post_discover) and what *)
(* the process remembers and says of the registration it is about          *)
(* (engine.py, registration memory).  A report may lack workload proof     *)
(* only for a registration known to be pending, denied or new.  While it   *)
(* asks for proof the one line a process prints is held back, until the    *)
(* sighting's answer has named the address the gateway will notify.        *)
(***************************************************************************)
EXTENDS Naturals

CONSTANTS
  Reporters,
  MaxRows,     \* bound: registrations of this agent, each after the last was removed
  MaxChanges,  \* bound: an administrator's acts
  MaxReports,  \* bound: reports of each reporter
  Nil

VARIABLES
  row,         \* gateway: the registration, its state, and whether it has an address
  changes,
  memory,      \* _registration_reference
  lines,       \* lines printed, by code: with the address or without
  rep          \* where each report stands

reportVars == <<row, changes, memory, lines, rep>>

Rows == 1..MaxRows
States == {"unknown", "pending", "approved", "denied"}
Lifecycle == {"agent_not_registered", "agent_registration_pending", "agent_registration_denied"}
OnlyIfPending == {"agent_runtime_enrollment_pending", "credential_exchange_failed"}
Spoken == {"agent_registration_pending", "agent_runtime_enrollment_pending"}
Failures == Lifecycle \cup OnlyIfPending \cup {"credential_configuration_error"}

\* A body about a registration: its id, its state (or none), its address.
Bodies == [id : Rows \cup {Nil}, state : States \cup {""}, email : BOOLEAN]
NoBody == [id |-> Nil, state |-> "", email |-> FALSE]
Memory == [id : Rows \cup {Nil}, state : States \cup {""}, email : Rows \cup {Nil}]
Lines  == [code : Spoken, id : Rows \cup {Nil}, email : Rows \cup {Nil}]
Idle   == [at |-> "idle", boot |-> FALSE, proof |-> FALSE, held |-> "", body |-> NoBody,
           err |-> NoBody, count |-> 0]

TypeOK ==
  /\ row \in [id : Rows, state : States, email : BOOLEAN] /\ changes \in 0..MaxChanges
  /\ memory \in Memory /\ lines \subseteq Lines
  /\ \A r \in Reporters :
       /\ rep[r].at \in {"idle", "headers", "post", "answer", "again", "report"}
       /\ rep[r].held \in Failures \cup {""} /\ rep[r].body \in Bodies /\ rep[r].err \in Bodies
       /\ rep[r].count \in 0..MaxReports

Init ==
  /\ row \in [id : {1}, state : {"unknown", "pending"}, email : {TRUE}] /\ changes = 0
  /\ memory = [id |-> Nil, state |-> "", email |-> Nil] /\ lines = {}
  /\ rep = [r \in Reporters |-> Idle]

At(r, p) == rep[r].at = p
Step(r, g) == rep' = [rep EXCEPT ![r] = g]

\* Mutant: the address stays when the body is about another registration.
RememberAddress(m, b) ==
  [id    |-> IF b.id # Nil THEN b.id ELSE m.id,
   state |-> IF b.state # "" THEN b.state ELSE m.state,
   email |-> IF b.email THEN b.id ELSE m.email]

\* _note_registration: what another registration was told is forgotten.
Remember(m, b) ==
  [id    |-> IF b.id # Nil THEN b.id ELSE m.id,
   state |-> IF b.state # "" THEN b.state ELSE m.state,
   email |-> IF b.email THEN b.id ELSE IF b.id \notin {Nil, m.id} /\ m.id # Nil THEN Nil ELSE m.email]

Note(b) == memory' = Remember(memory, b)

\* _registration_context: a remembered address speaks for its registration.
Context(m, b) ==
  [id    |-> IF b.id # Nil THEN b.id ELSE m.id,
   email |-> IF b.email THEN b.id ELSE IF b.id = Nil \/ m.id \in {Nil, b.id} THEN m.email ELSE Nil]

\* _log_enrolment_state: one line for a code in the life of the process.
Said(code) == \E l \in lines : l.code = code
Say(code, m, b) ==
  lines' = IF code \notin Spoken \/ Said(code) THEN lines
           ELSE lines \cup {[code |-> code, id |-> Context(m, b).id, email |-> Context(m, b).email]}

\* What the gateway may say of the row as it stands.
Tells(b) == /\ b.id \in {row.id, Nil} /\ b.state = IF b.id = Nil THEN "" ELSE row.state
            /\ (b.email => row.email /\ b.id = row.id)

----------------------------------------------------------------------------
\* Capture before a tool's first run boots without proof; discovery does not.
Begin(r, boot) ==
  /\ At(r, "idle") /\ rep[r].count < MaxReports
  /\ Step(r, [Idle EXCEPT !.at = IF boot THEN "post" ELSE "headers", !.boot = boot,
                          !.count = rep[r].count + 1])
  /\ UNCHANGED <<row, changes, memory, lines>>

\* The failures credential discovery can meet for the row.
Possible(code) ==
  CASE row.state = "unknown"  -> code = "agent_not_registered"
    [] row.state = "denied"   -> code = "agent_registration_denied"
    [] row.state = "pending"  -> code \in {"agent_registration_pending"} \cup OnlyIfPending
    [] row.state = "approved" -> code \in OnlyIfPending \cup {"credential_configuration_error"}

\* _vk_only_fallback: some failures only while the row is known to be pending.
KnownPending(m) == m.state = "pending"
FallsBack(code, m) == code \in Lifecycle \/ (code \in OnlyIfPending /\ KnownPending(m))

\* The deferred log: the failure's line waits for the end of the report.
Hold(g, code, b) == [g EXCEPT !.held = code, !.err = b]

\* workload_headers under the deferred log: a token, none needed, or a failure
\* whose payload is noted and whose line is held back.
Headers(r) ==
  /\ At(r, "headers")
  /\ \/ Step(r, [rep[r] EXCEPT !.at = "post", !.proof = TRUE]) /\ UNCHANGED <<memory>>
     \/ \E code \in Failures, b \in Bodies :
          /\ Possible(code) /\ Tells(b) /\ (code \notin Spoken => b = NoBody)
          /\ Note(b)
          /\ Step(r, [Hold(rep[r], code, b) EXCEPT
                        !.at = IF FallsBack(code, memory') THEN "post" ELSE "report"])
  /\ UNCHANGED <<row, changes, lines>>

\* The request; an unknown agent's sighting files its registration.  It may
\* also fail, before or after it reached the gateway.
Post(r) ==
  /\ At(r, "post")
  /\ row' = IF row.state = "unknown" THEN [row EXCEPT !.state = "pending"] ELSE row
  /\ \/ \E email \in {FALSE, row.email} :
          Step(r, [rep[r] EXCEPT !.at = "answer",
                     !.body = [id |-> row.id, state |-> row'.state, email |-> email]])
     \/ Step(r, [rep[r] EXCEPT !.at = "report"])
  /\ UNCHANGED <<changes, memory, lines>>

\* Its answer, noted when it is read.
Answer(r) ==
  /\ At(r, "answer") /\ Note(rep[r].body)
  /\ Step(r, [rep[r] EXCEPT !.at = IF rep[r].boot /\ rep[r].body.state = "pending"
                                  THEN "again" ELSE "report"])
  /\ UNCHANGED <<row, changes, lines>>

\* The first sighting is on file; a credential that can be had now goes with a
\* second one, a failure leaves the first as the result.
Again(r) ==
  /\ At(r, "again")
  /\ \/ Step(r, [rep[r] EXCEPT !.at = "headers", !.boot = FALSE]) /\ UNCHANGED <<memory, lines>>
     \/ \E code \in Failures, b \in Bodies :
          /\ Possible(code) /\ Tells(b) /\ (code \notin Spoken => b = NoBody)
          /\ Note(b) /\ Say(code, memory', b)
          /\ Step(r, [rep[r] EXCEPT !.at = "report"])
     \/ Step(r, [rep[r] EXCEPT !.at = "report"]) /\ UNCHANGED <<memory, lines>>
  /\ UNCHANGED <<row, changes>>

\* Mutant: the line that was held back is never said.
ReportSilently(r) ==
  /\ At(r, "report") /\ Step(r, [Idle EXCEPT !.count = rep[r].count])
  /\ UNCHANGED <<row, changes, memory, lines>>

\* The finally: what was held back is observed again, and said with what is
\* known by now.
Report(r) ==
  /\ At(r, "report")
  /\ Note(rep[r].err) /\ Say(rep[r].held, memory', rep[r].err)
  /\ Step(r, [Idle EXCEPT !.count = rep[r].count])
  /\ UNCHANGED <<row, changes>>

----------------------------------------------------------------------------
\* An administrator decides, or removes the row; the next sighting files
\* another one, which may have another address.
Administer ==
  /\ changes < MaxChanges /\ changes' = changes + 1
  /\ \/ \E s \in {"approved", "denied"} \ {row.state} : row' = [row EXCEPT !.state = s]
     \/ row.id < MaxRows /\ \E e \in BOOLEAN : row' = [id |-> row.id + 1, state |-> "unknown", email |-> e]
  /\ UNCHANGED <<memory, lines, rep>>

Next ==
  \/ \E r \in Reporters : \/ \E boot \in BOOLEAN : Begin(r, boot)
                          \/ Headers(r) \/ Post(r) \/ Answer(r) \/ Again(r) \/ Report(r)
  \/ Administer

----------------------------------------------------------------------------
(* Properties. *)

\* A line names an address only for the registration it is about
\* (engine.py:478-494, 560-577).
AddressIsItsOwn == \A l \in lines : l.email \in {Nil, l.id}

\* A report that met a pending registration has said so when it ends
\* (registry.py:3349-3380, 3975-3986).
SaysHeldLine ==
  \A r \in Reporters : (At(r, "report") /\ rep'[r].at = "idle" /\ rep[r].held \in Spoken)
    => \E l \in lines' : l.code = rep[r].held
HeldLineIsSaid == [][SaysHeldLine]_reportVars
=============================================================================
