-------------------------- MODULE ManagedHandoffProofs --------------------------
(* Theorems about ManagedHandoff, for every number of invocations, every    *)
(* offer and every bound.                                                   *)
EXTENDS ManagedHandoff, FiniteSetTheorems, TLAPS

-----------------------------------------------------------------------------
(* Types.  An answer that is stored is the answer to a request that arrived, *)
(* so its phase is never "none"; a job is followed only after such an        *)
(* answer.                                                                   *)
Progress(c) ==
  /\ At(c, "post") \/ At(c, "answer") => call[c].id \in Ids
  /\ At(c, "answer") /\ call[c].sent => jobs[call[c].id] # "none"
  /\ At(c, "poll") => call[c].id \in Ids /\ submission # Nobody
  /\ At(c, "judge") => submission # Nobody

TypeInv == TypeOK /\ \A c \in Callers : Progress(c)

LEMMA TypeInit == ASSUME Init PROVE TypeInv
<1>1. Idle(0) \in Calls /\ Idle(0).at = "idle"
  BY BoundsAssumption DEF Idle, Calls, Places, Kinds
<1>2. call \in [Callers -> Calls] /\ \A c \in Callers : call[c].at = "idle"
  BY <1>1 DEF Init
<1>3. \A c \in Callers : Progress(c)
  BY <1>2 DEF Progress, At
<1>4. jobs \in [Ids -> Phases]
  BY DEF Init, Phases
<1>5. flips \in 0..MaxFlips /\ packaged \in 0..MaxIds
  BY BoundsAssumption DEF Init
<1>6. TypeOK
  BY <1>2, <1>4, <1>5 DEF Init, TypeOK
<1> QED
  BY <1>3, <1>6 DEF TypeInv

(* What a step of one invocation leaves of the others and of itself.         *)
Elsewhere(c) == \A d \in Callers \ {c} : call'[d] = call[d]

LEMMA SetCall ==
  ASSUME TypeOK, NEW c \in Callers, NEW r \in Calls, Set(c, r)
  PROVE  call' \in [Callers -> Calls] /\ call'[c] = r /\ Elsewhere(c)
  BY DEF TypeOK, Set, Elsewhere

LEMMA GotoCall ==
  ASSUME TypeOK, NEW c \in Callers, NEW p \in Places, Goto(c, p)
  PROVE  /\ call' \in [Callers -> Calls] /\ Elsewhere(c)
         /\ call'[c].at = p /\ call'[c].id = call[c].id /\ call'[c].sent = call[c].sent
         /\ call'[c].may = call[c].may /\ call'[c].kind = call[c].kind
<1>1. call[c] \in Calls
  BY DEF TypeOK
<1>2. [call[c] EXCEPT !.at = p] \in Calls
  BY <1>1 DEF Calls
<1> QED
  BY <1>1, <1>2, SetCall DEF Goto, Calls

(* The branch of Decide that takes the lock and goes on.                     *)
NextPlace ==
  IF submission # Nobody THEN IF offer.ids /\ offer.polling THEN "post" ELSE "judge"
  ELSE IF wire # Nobody THEN "post" ELSE "package"
KeptId == IF submission # Nobody THEN submission.id ELSE wire
Takes(c) ==
  /\ lock' = c /\ UNCHANGED local
  /\ Set(c, [call[c] EXCEPT !.may = Untouched, !.id = KeptId, !.at = NextPlace])

LEMMA DecideCall ==
  ASSUME TypeOK, NEW c \in Callers, Takes(c)
  PROVE  /\ call' \in [Callers -> Calls] /\ Elsewhere(c)
         /\ call'[c].at = NextPlace /\ call'[c].id = KeptId /\ call'[c].may = Untouched
         /\ KeptId \in Ids \cup {Nobody}
         /\ NextPlace = "post" => KeptId \in Ids
         /\ NextPlace \in {"post", "judge", "package"}
         /\ NextPlace = "judge" => submission # Nobody
<1>1. call[c] \in Calls
  BY DEF TypeOK
<1>2. /\ KeptId \in Ids \cup {Nobody}
      /\ submission # Nobody \/ wire # Nobody => KeptId \in Ids
  BY DEF TypeOK, KeptId, Submissions
<1>3. NextPlace \in Places /\ Untouched \in BOOLEAN
  <2>1. offer \in [fallback : BOOLEAN, ids : BOOLEAN, polling : BOOLEAN]
    BY OffersAssumption DEF TypeOK
  <2> QED
    BY <2>1 DEF NextPlace, Places, Untouched
<1>4. [call[c] EXCEPT !.may = Untouched, !.id = KeptId, !.at = NextPlace] \in Calls
  BY <1>1, <1>2, <1>3 DEF Calls
<1>5. /\ call' \in [Callers -> Calls] /\ Elsewhere(c)
      /\ call'[c] = [call[c] EXCEPT !.may = Untouched, !.id = KeptId, !.at = NextPlace]
  BY <1>4, SetCall DEF Takes
<1>6. call'[c].at = NextPlace /\ call'[c].id = KeptId /\ call'[c].may = Untouched
  BY <1>1, <1>5 DEF Calls
<1> QED
  BY <1>2, <1>5, <1>6 DEF NextPlace

LEMMA DecideCases ==
  ASSUME NEW c \in Callers, Decide(c)
  PROVE  /\ At(c, "lock") /\ lock = Nobody
         /\ \/ local /\ Goto(c, "here") /\ UNCHANGED <<lock, local>>
            \/ ~local /\ Untouched /\ RunHere(c)
            \/ ~local /\ Raise(c)
            \/ ~local /\ Takes(c)
  BY DEF Decide, Takes, KeptId, NextPlace

LEMMA TypeNext == ASSUME TypeInv, [Next]_vars PROVE TypeInv'
<1> USE BoundsAssumption, NobodyAssumption DEF TypeInv, TypeOK, Progress, gatewayVars, engineVars,
        At, Free, Unchanged, RunHere, Raise, Exit, Elsewhere, Places
<1>1. ASSUME NEW c \in Callers, Check(c) PROVE TypeInv'
  BY <1>1, GotoCall DEF Check
<1>2. ASSUME NEW c \in Callers, Probe(c) PROVE TypeInv'
  BY <1>2, GotoCall DEF Probe
<1>3. ASSUME NEW c \in Callers, Told(c) PROVE TypeInv'
  <2>1. CASE Goto(c, "raised") /\ UNCHANGED <<caps, local>>
    BY <1>3, <2>1, GotoCall DEF Told
  <2>2. CASE caps' = Asked /\ local' = ~enabled /\ Goto(c, IF enabled THEN "context" ELSE "here")
    <3>1. caps' \in {"unset", "none", "offer"} /\ local' \in BOOLEAN
      BY <2>2 DEF Asked
    <3> QED
      BY <1>3, <2>2, <3>1, GotoCall DEF Told
  <2> QED
    BY <1>3, <2>1, <2>2 DEF Told
<1>4. ASSUME NEW c \in Callers, Context(c) PROVE TypeInv'
  BY <1>4, GotoCall DEF Context
<1>5. ASSUME NEW c \in Callers, Decide(c) PROVE TypeInv'
  <2>1. CASE Goto(c, "here") /\ UNCHANGED <<lock, local>>
    BY <1>5, <2>1, GotoCall DEF Decide
  <2>2. CASE RunHere(c)
    BY <1>5, <2>2, GotoCall DEF Decide
  <2>3. CASE Raise(c)
    BY <1>5, <2>3, GotoCall DEF Decide
  <2>4. CASE Takes(c)
    <3>1. lock' = c /\ local' = local
      BY <2>4 DEF Takes
    <3>2. /\ call' \in [Callers -> Calls] /\ Elsewhere(c)
          /\ call'[c].at \in {"post", "judge", "package"}
          /\ call'[c].at = "post" => call'[c].id \in Ids
          /\ call'[c].at = "judge" => submission # Nobody
      BY <2>4, DecideCall
    <3> QED
      BY <1>5, <3>1, <3>2 DEF Decide
  <2> QED
    BY <1>5, <2>1, <2>2, <2>3, <2>4, DecideCases
<1>6. ASSUME NEW c \in Callers, Package(c) PROVE TypeInv'
  <2>1. CASE Bundle(c) /\ wire' = (IF offer.ids THEN packaged' ELSE wire) /\ UNCHANGED <<lock, local>>
    <3>1. packaged' \in Ids /\ packaged' \in 0..MaxIds
      BY <2>1 DEF Bundle, Ids
    <3>2. call[c] \in Calls
      OBVIOUS
    <3>3. [call[c] EXCEPT !.at = "post", !.id = packaged'] \in Calls
      BY <3>1, <3>2 DEF Calls
    <3>4. call' \in [Callers -> Calls] /\ Elsewhere(c)
          /\ call'[c] = [call[c] EXCEPT !.at = "post", !.id = packaged']
      BY <2>1, <3>3, SetCall DEF Bundle
    <3>5. call'[c].at = "post" /\ call'[c].id = packaged'
      BY <3>2, <3>4 DEF Calls
    <3>6. UNCHANGED <<gatewayVars, caps, submission, lock, local>>
      BY <1>6, <2>1 DEF Package
    <3>7. wire' \in Ids \cup {Nobody}
      BY <2>1, <3>1
    <3>8. TypeOK'
      BY <3>1, <3>4, <3>6, <3>7
    <3>9. Progress(c)' /\ \A d \in Callers \ {c} : Progress(d)'
      BY <3>1, <3>4, <3>5, <3>6
    <3> QED
      BY <3>8, <3>9
  <2>2. CASE RunHere(c) /\ UNCHANGED <<wire, packaged>>
    BY <1>6, <2>2, GotoCall DEF Package
  <2>3. CASE Raise(c) /\ UNCHANGED <<wire, packaged>>
    BY <1>6, <2>3, GotoCall DEF Package
  <2> QED
    BY <1>6, <2>1, <2>2, <2>3 DEF Package, CannotTravel
<1>7. ASSUME NEW c \in Callers, Post(c) PROVE TypeInv'
  <2>1. PICK sent \in BOOLEAN : Set(c, [call[c] EXCEPT !.at = "answer", !.sent = sent])
                              /\ (sent => Accept(call[c].id)) /\ (~sent => UNCHANGED jobs)
                              /\ flying' \subseteq Ids
    BY <1>7 DEF Post
  <2>2. call[c] \in Calls
    OBVIOUS
  <2>3. [call[c] EXCEPT !.at = "answer", !.sent = sent] \in Calls
    BY <2>2 DEF Calls
  <2>4. /\ call' \in [Callers -> Calls] /\ Elsewhere(c)
        /\ call'[c] = [call[c] EXCEPT !.at = "answer", !.sent = sent]
    BY <2>1, <2>3, SetCall
  <2>6. call'[c].at = "answer" /\ call'[c].id = call[c].id /\ call'[c].sent = sent
    BY <2>2, <2>4 DEF Calls
  <2>5. /\ jobs' \in [Ids -> Phases] /\ \A i \in Ids : jobs[i] # "none" => jobs'[i] # "none"
        /\ sent => jobs'[call[c].id] # "none"
    BY <1>7, <2>1 DEF Post, Accept, Phases
  <2>7. UNCHANGED <<offer, enabled, flips, lock, engineVars>> /\ call[c].id \in Ids
    BY <1>7 DEF Post
  <2>8. TypeOK'
    BY <2>1, <2>4, <2>5, <2>7
  <2>9. Progress(c)'
    BY <2>5, <2>6, <2>7
  <2>10. ASSUME NEW d \in Callers \ {c} PROVE Progress(d)'
    BY <2>4, <2>5, <2>7
  <2> QED
    BY <2>8, <2>9, <2>10
<1>8. ASSUME NEW c \in Callers, Answer(c) PROVE TypeInv'
  <2>1. call[c].id \in Ids /\ jobs[call[c].id] \in Phases \ {"none"}
    BY <1>8 DEF Answer
  <2>2. submission' \in Submissions
    BY <1>8, <2>1 DEF Answer, Submissions
  <2> QED
    BY <1>8, <2>1, <2>2, GotoCall DEF Answer, Active
<1>9. ASSUME NEW c \in Callers, NoAnswer(c) PROVE TypeInv'
  BY <1>9, GotoCall DEF NoAnswer
<1>10. ASSUME NEW c \in Callers, Judge(c) PROVE TypeInv'
  <2>1. CASE Exit(c)
    BY <1>10, <2>1, GotoCall DEF Judge
  <2>2. CASE RunHere(c)
    BY <1>10, <2>2, GotoCall DEF Judge
  <2>3. CASE Raise(c)
    BY <1>10, <2>3, GotoCall DEF Judge
  <2> QED
    BY <1>10, <2>1, <2>2, <2>3 DEF Judge
<1>11. ASSUME NEW c \in Callers, Return(c) PROVE TypeInv'
  BY <1>11 DEF Return, Idle, Set, Calls, Kinds
<1>12. ASSUME NEW c \in Callers, Call(c) PROVE TypeInv'
  <2>1. PICK kind \in Kinds :
          Set(c, [Idle(call[c].calls + 1) EXCEPT !.at = "check", !.kind = kind])
    BY <1>12 DEF Call
  <2>2. call[c].calls + 1 \in 0..MaxCalls
    <3>1. call[c].calls \in 0..MaxCalls
      BY DEF Calls
    <3> QED
      BY <1>12, <3>1 DEF Call
  <2>3. [Idle(call[c].calls + 1) EXCEPT !.at = "check", !.kind = kind] \in Calls
    BY <2>2 DEF Idle, Calls
  <2>4. [Idle(call[c].calls + 1) EXCEPT !.at = "check", !.kind = kind].at = "check"
    BY DEF Idle
  <2> QED
    BY <1>12, <2>1, <2>3, <2>4, SetCall DEF Call
<1>13. ASSUME NEW c \in Callers, Poll(c) PROVE TypeInv'
  BY <1>13, GotoCall DEF Poll
<1>14. CASE Compile
  BY <1>14 DEF Compile, Asked
<1>15. CASE Flip
  BY <1>15 DEF Flip
<1>16. ASSUME NEW i \in Ids, Arrive(i) PROVE TypeInv'
  BY <1>16 DEF Arrive, Accept, Phases
<1>17. ASSUME NEW i \in Ids, Advance(i) PROVE TypeInv'
  BY <1>17 DEF Advance, Phases
<1>18. CASE UNCHANGED vars
  BY <1>18 DEF vars
<1> QED
  BY <1>1, <1>2, <1>3, <1>4, <1>5, <1>6, <1>7, <1>8, <1>9, <1>10, <1>11, <1>12, <1>13, <1>14,
     <1>15, <1>16, <1>17, <1>18 DEF Next, CallerStep

LEMMA TypeInductive == Spec => []TypeInv
  BY TypeInit, TypeNext, PTL DEF Spec

(* Every variable keeps its type.                                            *)
THEOREM TypeCorrect == Spec => []TypeOK
  BY TypeInductive, PTL DEF TypeInv

-----------------------------------------------------------------------------
(* The lock.  Whoever asks the gateway, packages, submits or follows a job   *)
(* holds it, and nobody does so once the program runs here.                  *)
Locked == {"asking", "package", "post", "answer", "poll", "judge"}

LockInv == \A c \in Callers : call[c].at \in Locked => lock = c /\ ~local

LEMMA LockInit == ASSUME Init PROVE LockInv
  BY DEF Init, LockInv, Idle, Locked

LEMMA LockNext == ASSUME TypeInv, LockInv, [Next]_vars PROVE LockInv'
<1> TypeOK
  BY DEF TypeInv
<1> USE NobodyAssumption DEF LockInv, Locked, gatewayVars, engineVars, At, Free, Unchanged,
        RunHere, Raise, Exit, Elsewhere, Places
<1>1. ASSUME NEW c \in Callers, Check(c) PROVE LockInv'
  BY <1>1, GotoCall DEF Check
<1>2. ASSUME NEW c \in Callers, Probe(c) PROVE LockInv'
  BY <1>2, GotoCall DEF Probe
<1>3. ASSUME NEW c \in Callers, Told(c) PROVE LockInv'
  <2>1. lock' = Nobody /\ call[c].at = "asking"
    BY <1>3 DEF Told
  <2>2. PICK p \in {"raised", "context", "here"} : Goto(c, p)
    BY <1>3 DEF Told
  <2>3. call'[c].at \notin Locked /\ \A d \in Callers \ {c} : call'[d] = call[d]
    BY <2>2, GotoCall
  <2> QED
    BY <2>1, <2>3
<1>4. ASSUME NEW c \in Callers, Context(c) PROVE LockInv'
  BY <1>4, GotoCall DEF Context
<1>5. ASSUME NEW c \in Callers, Decide(c) PROVE LockInv'
  <2>1. \A d \in Callers : call[d].at \notin Locked
    BY <1>5, DecideCases
  <2>2. CASE ~local /\ Takes(c)
    BY <2>1, <2>2, DecideCall DEF Takes
  <2>3. CASE Goto(c, "here") \/ Goto(c, "raised")
    BY <2>1, <2>3, GotoCall
  <2> QED
    BY <1>5, <2>2, <2>3, DecideCases
<1>6. ASSUME NEW c \in Callers, Package(c) PROVE LockInv'
  <2>1. call[c].at = "package" /\ lock = c /\ ~local
    BY <1>6 DEF Package
  <2>2. CASE Bundle(c) /\ UNCHANGED <<lock, local>>
    BY <2>1, <2>2 DEF Bundle, Set, TypeOK
  <2>3. CASE Goto(c, "here") \/ Goto(c, "raised")
    BY <2>1, <2>3, GotoCall
  <2> QED
    BY <1>6, <2>2, <2>3 DEF Package, CannotTravel
<1>7. ASSUME NEW c \in Callers, Post(c) PROVE LockInv'
  BY <1>7 DEF Post, Set, TypeOK
<1>8. ASSUME NEW c \in Callers, Answer(c) PROVE LockInv'
  BY <1>8, GotoCall DEF Answer
<1>9. ASSUME NEW c \in Callers, NoAnswer(c) PROVE LockInv'
  BY <1>9, GotoCall DEF NoAnswer
<1>10. ASSUME NEW c \in Callers, Judge(c) PROVE LockInv'
  <2>1. call[c].at = "judge"
    BY <1>10 DEF Judge
  <2>2. Goto(c, "exit") \/ Goto(c, "here") \/ Goto(c, "raised")
    BY <1>10 DEF Judge
  <2> QED
    BY <2>1, <2>2, GotoCall
<1>11. ASSUME NEW c \in Callers, Return(c) PROVE LockInv'
  BY <1>11 DEF Return, Idle, Set, TypeOK
<1>12. ASSUME NEW c \in Callers, Call(c) PROVE LockInv'
  BY <1>12 DEF Call, Idle, Set, TypeOK
<1>13. ASSUME NEW c \in Callers, Poll(c) PROVE LockInv'
  BY <1>13, GotoCall DEF Poll
<1>14. CASE Compile
  BY <1>14 DEF Compile
<1>15. CASE Flip
  BY <1>15 DEF Flip
<1>16. ASSUME NEW i \in Ids, Arrive(i) PROVE LockInv'
  BY <1>16 DEF Arrive
<1>17. ASSUME NEW i \in Ids, Advance(i) PROVE LockInv'
  BY <1>17 DEF Advance
<1>18. CASE UNCHANGED vars
  BY <1>18 DEF vars
<1> QED
  BY <1>1, <1>2, <1>3, <1>4, <1>5, <1>6, <1>7, <1>8, <1>9, <1>10, <1>11, <1>12, <1>13, <1>14,
     <1>15, <1>16, <1>17, <1>18 DEF Next, CallerStep

LEMMA LockInductive == Spec => []LockInv
<1>1. TypeInv /\ LockInv /\ [Next]_vars => LockInv'
  BY LockNext
<1> QED
  BY LockInit, TypeInductive, <1>1, PTL DEF Spec

LEMMA PackagesUnderLock == ASSUME TypeInv, LockInv, [Next]_vars, local PROVE packaged' = packaged
<1>1. \A c \in Callers : call[c].at # "package"
  BY DEF LockInv, Locked
<1> QED
  BY <1>1 DEF Next, CallerStep, vars, gatewayVars, engineVars, Unchanged, At,
     Check, Probe, Told, Context, Decide, Package, Post, Answer, NoAnswer, Judge, Return, Call, Poll,
     Compile, Flip, Arrive, Advance

(* A program that ran here is not handed over afterwards, whatever the       *)
(* gateway offers and however many invocations are under way.                *)
THEOREM LocalCorrect == Spec => LocalIsForGood
<1>1. TypeInv /\ LockInv /\ [Next]_vars => [local => packaged' = packaged]_vars
  BY PackagesUnderLock
<1> QED
  BY <1>1, TypeInductive, LockInductive, PTL DEF Spec, LocalIsForGood

-----------------------------------------------------------------------------
(* The identity of a bundle.  Where the gateway knows submission ids, the    *)
(* wire kept before any I/O makes the first bundle the only one; whatever    *)
(* reached the gateway is this bundle, and the program runs here only before *)
(* it was made or after the gateway gave it back for good.                   *)
Past == {"context", "lock", "package", "post", "answer", "poll", "judge"}

Offered ==
  /\ \A c \in Callers : call[c].at \in Past => caps = "offer"
  /\ \A c \in Callers : call[c].at = "asking" => caps # "offer"
  /\ packaged > 0 => caps = "offer"
Kept ==
  /\ packaged \in {0, 1} /\ wire = (IF packaged = 0 THEN Nobody ELSE 1)
  /\ submission # Nobody =>
       packaged = 1 /\ submission.id = 1 /\ (submission.status = "unfit" => jobs[1] = "unfit")
Sent ==
  /\ \A i \in Ids : jobs[i] # "none" \/ i \in flying => i = packaged
  /\ \A c \in Callers : call[c].at \in {"post", "answer", "poll"} => call[c].id = packaged
  /\ \A c \in Callers : call[c].at = "package" => packaged = 0
Safe == local /\ packaged > 0 => jobs[1] = "unfit"

OnceInv == Offered /\ Kept /\ Sent /\ Safe

KnowsIds == \A o \in Offers : o.ids

LEMMA OnceInit == ASSUME Init PROVE OnceInv
<1>1. \A c \in Callers : call[c].at = "idle"
  BY DEF Init, Idle
<1> QED
  BY <1>1 DEF Init, OnceInv, Offered, Kept, Sent, Safe, Past

(* A step that keeps the gateway's jobs, the bundle and the answer.          *)
Quiet == UNCHANGED <<jobs, flying, wire, submission, packaged>>

LEMMA QuietMove ==
  ASSUME TypeInv, LockInv, OnceInv, NEW c \in Callers, NEW p \in Places, Goto(c, p), Quiet,
         UNCHANGED caps,
         p \in Past => call[c].at \in Past \/ caps = "offer",
         p = "asking" => caps # "offer",
         p \in {"post", "answer", "poll"} => call[c].at \in {"post", "answer", "poll"},
         p # "package",
         local' => local \/ packaged = 0 \/ jobs[1] = "unfit"
  PROVE  OnceInv'
<1>1. call'[c].at = p /\ call'[c].id = call[c].id /\ \A d \in Callers \ {c} : call'[d] = call[d]
  BY GotoCall DEF TypeInv, Elsewhere
<1>2. Offered'
  BY <1>1 DEF Quiet, OnceInv, Offered
<1>3. Kept' /\ Safe'
  BY DEF Quiet, OnceInv, Kept, Safe
<1>4. Sent'
  BY <1>1 DEF Quiet, OnceInv, Sent
<1> QED
  BY <1>2, <1>3, <1>4 DEF OnceInv

LEMMA OnceNext ==
  ASSUME KnowsIds, TypeInv, TypeInv', LockInv, LockInv', OnceInv, [Next]_vars
  PROVE  OnceInv'
<1> TypeOK
  BY DEF TypeInv
<1>ids. offer.ids
  BY DEF KnowsIds, TypeOK
<1>one. packaged = 1 => 1 \in Ids
  BY BoundsAssumption DEF TypeOK, Ids
<1> USE NobodyAssumption DEF gatewayVars, engineVars, At, Unchanged, Places
<1>1. ASSUME NEW c \in Callers, Check(c) PROVE OnceInv'
  BY <1>1, QuietMove DEF Check, Quiet, Past
<1>2. ASSUME NEW c \in Callers, Probe(c) PROVE OnceInv'
  BY <1>2, QuietMove DEF Probe, Quiet, Past
<1>3. ASSUME NEW c \in Callers, Told(c) PROVE OnceInv'
  <2>1. call[c].at = "asking" /\ caps # "offer" /\ packaged = 0 /\ Quiet
    BY <1>3 DEF Told, OnceInv, Offered, Kept, Quiet
  <2>2. CASE Goto(c, "raised") /\ UNCHANGED <<caps, local>>
    BY <2>1, <2>2, QuietMove DEF Past
  <2>3. CASE caps' = Asked /\ local' = ~enabled /\ Goto(c, IF enabled THEN "context" ELSE "here")
    <3>1. /\ call'[c].at = (IF enabled THEN "context" ELSE "here")
          /\ \A d \in Callers \ {c} : call'[d] = call[d]
      BY <2>3, GotoCall DEF Elsewhere
    <3>2. \A d \in Callers \ {c} : call[d].at # "asking" /\ call[d].at \notin Past
      BY <2>1 DEF LockInv, Locked, OnceInv, Offered
    <3>3. Offered'
      BY <2>1, <2>3, <3>1, <3>2 DEF Offered, Asked, Quiet, Past
    <3>4. Kept' /\ Safe'
      BY <2>1 DEF Quiet, OnceInv, Kept, Safe
    <3>5. Sent'
      BY <2>1, <3>1 DEF Quiet, OnceInv, Sent
    <3> QED
      BY <3>3, <3>4, <3>5 DEF OnceInv
  <2> QED
    BY <1>3, <2>2, <2>3 DEF Told
<1>4. ASSUME NEW c \in Callers, Context(c) PROVE OnceInv'
  BY <1>4, QuietMove DEF Context, Quiet, Past
<1>5. ASSUME NEW c \in Callers, Decide(c) PROVE OnceInv'
  <2>1. call[c].at = "lock" /\ caps = "offer" /\ Quiet /\ UNCHANGED caps
    BY <1>5 DEF Decide, OnceInv, Offered, Past, Quiet
  <2>2. CASE local /\ Goto(c, "here") /\ UNCHANGED <<lock, local>>
    BY <2>1, <2>2, QuietMove DEF Past
  <2>3. CASE ~local /\ Untouched /\ RunHere(c)
    <3>1. packaged = 0
      BY <2>3, <1>one DEF Untouched, OnceInv, Kept
    <3> QED
      BY <2>1, <2>3, <3>1, QuietMove DEF RunHere, Past
  <2>4. CASE ~local /\ Raise(c)
    BY <2>1, <2>4, QuietMove DEF Raise, Past
  <2>5. CASE ~local /\ Takes(c)
    <3>1. /\ call'[c].at = NextPlace /\ call'[c].id = KeptId
          /\ \A d \in Callers \ {c} : call'[d] = call[d]
          /\ NextPlace \in {"post", "judge", "package"} /\ local' = local
      BY <2>5, DecideCall DEF Takes, Elsewhere
    <3>2. NextPlace = "post" => KeptId = packaged
      BY <1>one DEF OnceInv, Kept, NextPlace, KeptId
    <3>3. NextPlace = "package" => packaged = 0
      BY <1>one DEF OnceInv, Kept, NextPlace
    <3>4. Offered'
      BY <2>1, <3>1 DEF OnceInv, Offered, Quiet, Past
    <3>5. Kept' /\ Safe'
      BY <2>1, <3>1 DEF Quiet, OnceInv, Kept, Safe
    <3>6. Sent'
      BY <2>1, <3>1, <3>2, <3>3 DEF Quiet, OnceInv, Sent
    <3> QED
      BY <3>4, <3>5, <3>6 DEF OnceInv
  <2> QED
    BY <1>5, <2>2, <2>3, <2>4, <2>5, DecideCases
<1>6. ASSUME NEW c \in Callers, Package(c) PROVE OnceInv'
  <2>1. call[c].at = "package" /\ caps = "offer" /\ packaged = 0 /\ ~local /\ lock = c
    BY <1>6 DEF Package, OnceInv, Offered, Sent, Past, LockInv, Locked
  <2>2. CASE Bundle(c) /\ wire' = (IF offer.ids THEN packaged' ELSE wire) /\ UNCHANGED <<lock, local>>
    <3>1. packaged' = 1 /\ wire' = 1 /\ UNCHANGED <<jobs, flying, submission, caps, local>>
      BY <1>6, <1>ids, <2>1, <2>2 DEF Bundle, Package
    <3>2. call[c] \in Calls
      BY DEF TypeOK
    <3>3. /\ call'[c].at = "post" /\ call'[c].id = 1
          /\ \A d \in Callers \ {c} : call'[d] = call[d]
      BY <2>2, <3>1, <3>2 DEF Bundle, Set, TypeOK, Calls
    <3>4. Offered'
      BY <2>1, <3>1, <3>3 DEF OnceInv, Offered, Past
    <3>5. Kept' /\ Safe'
      BY <2>1, <3>1 DEF OnceInv, Kept, Safe
    <3>6. \A i \in Ids : jobs[i] = "none" /\ i \notin flying
      BY <2>1 DEF OnceInv, Sent, Ids
    <3>7. \A d \in Callers \ {c} : call[d].at \notin {"post", "answer", "poll", "package"}
      BY <2>1 DEF LockInv, Locked
    <3>8. Sent'
      BY <3>1, <3>3, <3>6, <3>7 DEF Sent
    <3> QED
      BY <3>4, <3>5, <3>8 DEF OnceInv
  <2>3. CASE RunHere(c) /\ UNCHANGED <<wire, packaged>>
    BY <1>6, <2>1, <2>3, QuietMove DEF Package, Quiet, RunHere, Past
  <2>4. CASE Raise(c) /\ UNCHANGED <<wire, packaged>>
    BY <1>6, <2>1, <2>4, QuietMove DEF Package, Quiet, Raise, Past
  <2> QED
    BY <1>6, <2>2, <2>3, <2>4 DEF Package, CannotTravel
<1>7. ASSUME NEW c \in Callers, Post(c) PROVE OnceInv'
  <2>1. /\ call[c].at = "post" /\ call[c].id = packaged /\ call[c].id \in Ids /\ ~local
        /\ caps = "offer" /\ UNCHANGED engineVars
    BY <1>7 DEF Post, OnceInv, Offered, Sent, Past, LockInv, Locked, TypeInv, Progress
  <2>2. call[c] \in Calls
    BY DEF TypeOK
  <2>3. /\ call'[c].at = "answer" /\ call'[c].id = packaged
        /\ \A d \in Callers \ {c} : call'[d] = call[d]
    <3>1. PICK b \in BOOLEAN : Set(c, [call[c] EXCEPT !.at = "answer", !.sent = b])
      BY <1>7 DEF Post
    <3>2. call'[c] = [call[c] EXCEPT !.at = "answer", !.sent = b]
          /\ \A d \in Callers \ {c} : call'[d] = call[d]
      BY <3>1 DEF Set, TypeOK
    <3> QED
      BY <2>1, <2>2, <3>2 DEF Calls
  <2>4. \A i \in Ids \ {packaged} : jobs'[i] = jobs[i] /\ (i \in flying' => i \in flying)
    BY <1>7, <2>1 DEF Post, Accept, TypeOK
  <2>5. jobs[1] = "unfit" => jobs'[1] = "unfit"
    <3>1. packaged = 1 /\ 1 \in Ids
      BY <2>1 DEF OnceInv, Kept, Ids
    <3> QED
      BY <1>7, <2>1, <3>1 DEF Post, Accept, TypeOK
  <2>6. Offered'
    BY <2>1, <2>3 DEF OnceInv, Offered, Past
  <2>7. Kept' /\ Safe'
    BY <2>1, <2>5 DEF OnceInv, Kept, Safe
  <2>8. Sent'
    BY <2>1, <2>3, <2>4 DEF OnceInv, Sent
  <2> QED
    BY <2>6, <2>7, <2>8 DEF OnceInv
<1>8. ASSUME NEW c \in Callers, Answer(c) PROVE OnceInv'
  <2>1. /\ call[c].at = "answer" /\ call[c].id = packaged /\ call[c].id \in Ids /\ ~local
        /\ caps = "offer" /\ UNCHANGED <<jobs, flying, caps, local, wire, packaged>>
    BY <1>8 DEF Answer, OnceInv, Offered, Sent, Past, LockInv, Locked, TypeInv, Progress
  <2>2. packaged = 1
    BY <2>1 DEF OnceInv, Kept, Ids
  <2>3. submission' = [id |-> 1, status |-> jobs[1]]
    BY <1>8, <2>1, <2>2 DEF Answer
  <2>4. PICK p \in {"poll", "judge"} : Goto(c, p)
    BY <1>8 DEF Answer
  <2>5. /\ call'[c].at = p /\ call'[c].id = packaged
        /\ \A d \in Callers \ {c} : call'[d] = call[d]
    BY <2>1, <2>4, GotoCall DEF Elsewhere
  <2>6. Offered'
    BY <2>1, <2>5 DEF OnceInv, Offered, Past
  <2>7. Kept' /\ Safe'
    BY <2>1, <2>2, <2>3 DEF OnceInv, Kept, Safe
  <2>8. Sent'
    BY <2>1, <2>5 DEF OnceInv, Sent
  <2> QED
    BY <2>6, <2>7, <2>8 DEF OnceInv
<1>9. ASSUME NEW c \in Callers, NoAnswer(c) PROVE OnceInv'
  BY <1>9, QuietMove DEF NoAnswer, Raise, Quiet, Past
<1>10. ASSUME NEW c \in Callers, Judge(c) PROVE OnceInv'
  <2>1. submission # Nobody /\ Quiet /\ UNCHANGED caps
    BY <1>10 DEF Judge, Quiet, TypeInv, Progress
  <2>2. CASE Exit(c)
    BY <2>1, <2>2, QuietMove DEF Exit, Past
  <2>3. CASE Unusable /\ RunHere(c)
    <3>1. jobs[1] = "unfit"
      BY <2>1, <2>3 DEF Unusable, OnceInv, Kept
    <3> QED
      BY <2>1, <2>3, <3>1, QuietMove DEF RunHere, Past
  <2>4. CASE Raise(c)
    BY <2>1, <2>4, QuietMove DEF Raise, Past
  <2> QED
    BY <1>10, <2>2, <2>3, <2>4 DEF Judge
<1>11. ASSUME NEW c \in Callers, Return(c) PROVE OnceInv'
  <2>1. call'[c].at = "idle" /\ \A d \in Callers \ {c} : call'[d] = call[d]
    BY <1>11 DEF Return, Idle, Set, TypeOK
  <2> QED
    BY <1>11, <2>1 DEF Return, OnceInv, Offered, Kept, Sent, Safe, Past
<1>12. ASSUME NEW c \in Callers, Call(c) PROVE OnceInv'
  <2>1. call'[c].at = "check" /\ \A d \in Callers \ {c} : call'[d] = call[d]
    BY <1>12 DEF Call, Idle, Set, TypeOK
  <2> QED
    BY <1>12, <2>1 DEF Call, OnceInv, Offered, Kept, Sent, Safe, Past
<1>13. ASSUME NEW c \in Callers, Poll(c) PROVE OnceInv'
  BY <1>13, QuietMove DEF Poll, Quiet, Past
<1>14. CASE Compile
  <2>1. \A c \in Callers : call[c].at \notin Past /\ call[c].at # "asking"
    BY <1>14 DEF Compile, LockInv, Locked, OnceInv, Offered
  <2>2. packaged = 0
    BY <1>14 DEF Compile, OnceInv, Offered, Kept
  <2> QED
    BY <1>14, <2>1, <2>2 DEF Compile, OnceInv, Offered, Kept, Sent, Safe
<1>15. CASE Flip
  BY <1>15 DEF Flip, OnceInv, Offered, Kept, Sent, Safe
<1>16. ASSUME NEW i \in Ids, Arrive(i) PROVE OnceInv'
  <2>1. i = packaged /\ UNCHANGED <<engineVars, call>>
    BY <1>16 DEF Arrive, OnceInv, Sent
  <2>2. \A k \in Ids \ {packaged} : jobs'[k] = jobs[k] /\ (k \in flying' => k \in flying)
    BY <1>16, <2>1 DEF Arrive, Accept, TypeOK
  <2>3. jobs[1] = "unfit" => jobs'[1] = "unfit"
    BY <1>16, <2>1 DEF Arrive, Accept, TypeOK
  <2> QED
    BY <2>1, <2>2, <2>3 DEF OnceInv, Offered, Kept, Sent, Safe
<1>17. ASSUME NEW i \in Ids, Advance(i) PROVE OnceInv'
  <2>1. i = packaged /\ UNCHANGED <<engineVars, call, flying>>
    BY <1>17 DEF Advance, OnceInv, Sent
  <2>2. \A k \in Ids \ {packaged} : jobs'[k] = jobs[k]
    BY <1>17, <2>1 DEF Advance, TypeOK
  <2>3. jobs[1] = "unfit" => jobs'[1] = "unfit"
    <3>1. i = 1
      BY <2>1 DEF OnceInv, Kept, Ids
    <3> QED
      BY <1>17, <3>1 DEF Advance, TypeOK
  <2> QED
    BY <2>1, <2>2, <2>3 DEF OnceInv, Offered, Kept, Sent, Safe
<1>18. CASE UNCHANGED vars
  BY <1>18 DEF vars, OnceInv, Offered, Kept, Sent, Safe
<1> QED
  BY <1>1, <1>2, <1>3, <1>4, <1>5, <1>6, <1>7, <1>8, <1>9, <1>10, <1>11, <1>12, <1>13, <1>14,
     <1>15, <1>16, <1>17, <1>18 DEF Next, CallerStep

LEMMA OnceInductive == ASSUME KnowsIds PROVE Spec => []OnceInv
<1>1. TypeInv /\ TypeInv' /\ LockInv /\ LockInv' /\ OnceInv /\ [Next]_vars => OnceInv'
  BY OnceNext
<1>2. Init => OnceInv
  BY OnceInit
<1> QED
  BY <1>1, <1>2, TypeInductive, LockInductive, PTL DEF Spec

-----------------------------------------------------------------------------
(* The refinement of OnePlace.  The server has started the program exactly   *)
(* when the only bundle's job got that far.                                  *)
Runs       == {"running", "failed", "succeeded"}
ServerRuns == packaged = 1 /\ jobs[1] \in Runs

CountInv == Cardinality(Started) = IF ServerRuns THEN 1 ELSE 0

LEMMA StartedOnce == ASSUME TypeOK, OnceInv PROVE CountInv
<1> USE DEF CountInv
<1>1. packaged = 1 => 1 \in Ids
  BY BoundsAssumption DEF TypeOK, Ids
<1>2. CASE ServerRuns
  <2>1. Started = {1}
    BY <1>1, <1>2 DEF Started, ServerRuns, Runs, OnceInv, Sent
  <2> QED
    BY <1>2, <2>1, FS_Singleton
<1>3. CASE ~ServerRuns
  <2>1. \A i \in Ids : jobs[i] \in Runs => i = 1 /\ packaged = 1
    BY DEF OnceInv, Sent, Kept, Ids, Runs
  <2>2. Started = {}
    BY <1>3, <2>1 DEF Started, ServerRuns, Runs
  <2> QED
    BY <1>3, <2>2, FS_EmptySet
<1> QED
  BY <1>2, <1>3

Stays     == UNCHANGED <<local, packaged>> /\ ServerRuns' = ServerRuns
RunsHere  == ~local /\ local' /\ ~ServerRuns /\ UNCHANGED <<packaged, jobs>>
HandsOver == ~local /\ packaged = 0 /\ packaged' = 1 /\ UNCHANGED <<local, jobs>> /\ ~ServerRuns'
Starts    == packaged = 1 /\ ~ServerRuns /\ ServerRuns' /\ ~local /\ UNCHANGED <<local, packaged>>

LEMMA StepKinds ==
  ASSUME KnowsIds, TypeInv, LockInv, OnceInv, OnceInv', [Next]_vars
  PROVE  Stays \/ RunsHere \/ HandsOver \/ Starts
<1> TypeOK
  BY DEF TypeInv
<1>one. packaged = 1 => 1 \in Ids
  BY BoundsAssumption DEF TypeOK, Ids
<1> USE NobodyAssumption DEF gatewayVars, engineVars, At, Unchanged
<1> DEFINE Result == Stays \/ RunsHere \/ HandsOver \/ Starts
<1>quiet. ASSUME UNCHANGED <<local, packaged, jobs>> PROVE Result
  BY <1>quiet DEF Stays, ServerRuns
<1>1. ASSUME NEW c \in Callers, Check(c) \/ Probe(c) \/ Context(c) \/ Answer(c) \/ NoAnswer(c)
             \/ Return(c) \/ Call(c) \/ Poll(c) PROVE Result
  BY <1>1, <1>quiet DEF Check, Probe, Context, Answer, NoAnswer, Raise, Return, Call, Poll
<1>2. ASSUME NEW c \in Callers, Told(c) PROVE Result
  <2>1. packaged = 0 /\ ~local
    BY <1>2 DEF Told, OnceInv, Offered, Kept, LockInv, Locked
  <2>2. UNCHANGED <<packaged, jobs>> /\ local \in BOOLEAN /\ local' \in BOOLEAN
    BY <1>2 DEF Told, TypeOK
  <2> QED
    BY <2>1, <2>2 DEF Stays, RunsHere, ServerRuns
<1>3. ASSUME NEW c \in Callers, Decide(c) PROVE Result
  <2>1. UNCHANGED <<packaged, jobs>>
    BY <1>3 DEF Decide
  <2>2. CASE ~local /\ Untouched /\ RunHere(c)
    <3>1. packaged = 0
      BY <2>2, <1>one DEF Untouched, OnceInv, Kept
    <3> QED
      BY <2>1, <2>2, <3>1 DEF RunHere, RunsHere, ServerRuns
  <2>3. CASE UNCHANGED local
    BY <2>1, <2>3, <1>quiet
  <2> QED
    BY <1>3, <2>2, <2>3, DecideCases DEF Takes, Raise
<1>4. ASSUME NEW c \in Callers, Package(c) PROVE Result
  <2>1. ~local /\ packaged = 0 /\ UNCHANGED jobs
    BY <1>4 DEF Package, OnceInv, Sent, LockInv, Locked
  <2>2. CASE packaged' = 1 /\ UNCHANGED local
    <3>1. 1 \in Ids /\ jobs[1] = "none"
      BY <1>4, <2>1, <2>2, BoundsAssumption
         DEF Package, Bundle, CannotTravel, OnceInv, Sent, Ids, TypeOK
    <3> QED
      BY <2>1, <2>2, <3>1 DEF HandsOver, ServerRuns, Runs
  <2>3. CASE RunHere(c) /\ UNCHANGED packaged
    BY <2>1, <2>3 DEF RunHere, RunsHere, ServerRuns
  <2>4. CASE Raise(c) /\ UNCHANGED packaged
    BY <2>1, <2>4, <1>quiet DEF Raise
  <2> QED
    BY <1>4, <2>1, <2>2, <2>3, <2>4 DEF Package, Bundle, CannotTravel
<1>5. ASSUME NEW c \in Callers, Post(c) PROVE Result
  <2>1. packaged = 1 => (jobs'[1] \in Runs <=> jobs[1] \in Runs)
    BY <1>5, <1>one DEF Post, Accept, TypeOK, Runs
  <2> QED
    BY <1>5, <2>1 DEF Post, Stays, ServerRuns
<1>6. ASSUME NEW c \in Callers, Judge(c) PROVE Result
  <2>1. UNCHANGED <<packaged, jobs>> /\ submission # Nobody
    BY <1>6 DEF Judge, TypeInv, Progress
  <2>2. CASE Unusable /\ RunHere(c)
    <3>1. jobs[1] = "unfit"
      BY <2>1, <2>2 DEF Unusable, OnceInv, Kept
    <3> QED
      BY <1>6, <2>1, <2>2, <3>1 DEF RunHere, RunsHere, ServerRuns, Runs, Judge, LockInv, Locked
  <2>3. CASE UNCHANGED local
    BY <2>1, <2>3, <1>quiet
  <2> QED
    BY <1>6, <2>2, <2>3 DEF Judge, Exit, Raise
<1>7. CASE Compile \/ Flip \/ UNCHANGED vars
  BY <1>7, <1>quiet DEF Compile, Flip, vars
<1>8. ASSUME NEW i \in Ids, Arrive(i) PROVE Result
  <2>1. packaged = 1 => (jobs'[1] \in Runs <=> jobs[1] \in Runs)
    BY <1>8, <1>one DEF Arrive, Accept, TypeOK, Runs
  <2> QED
    BY <1>8, <2>1 DEF Arrive, Stays, ServerRuns
<1>9. ASSUME NEW i \in Ids, Advance(i) PROVE Result
  <2>1. i = 1 /\ packaged = 1 /\ UNCHANGED <<local, packaged>>
    BY <1>9 DEF Advance, OnceInv, Sent, Kept, Ids
  <2>2. \/ jobs[1] \notin Runs /\ jobs'[1] \notin Runs
        \/ jobs[1] \in Runs /\ jobs'[1] \in Runs
        \/ jobs[1] = "accepted" /\ jobs'[1] = "running"
    BY <1>9, <2>1 DEF Advance, TypeOK, Runs
  <2>3. jobs[1] = "accepted" => ~local
    BY <2>1 DEF OnceInv, Safe
  <2> QED
    BY <2>1, <2>2, <2>3 DEF Stays, Starts, ServerRuns, Runs
<1> QED
  BY <1>1, <1>2, <1>3, <1>4, <1>5, <1>6, <1>7, <1>8, <1>9 DEF Next, CallerStep

(* Where the gateway knows submission ids, the hand-over implements its      *)
(* promise: the program runs here or there, there at most once, never on     *)
(* both, whatever answers are lost and whatever the gateway offers meanwhile. *)
THEOREM PlaceCorrect == ASSUME KnowsIds PROVE Spec => RunsInOnePlace
<1>1. Init => Promise!Init
  <2> SUFFICES ASSUME Init PROVE Promise!Init
    OBVIOUS
  <2>1. Cardinality(Started) = 0
    BY TypeInit, OnceInit, StartedOnce DEF TypeInv, CountInv, ServerRuns, Init
  <2> QED
    BY <2>1 DEF Init, Promise!Init
<1>2. TypeInv /\ LockInv /\ OnceInv /\ OnceInv' /\ CountInv /\ CountInv' /\ [Next]_vars
        => [Promise!Next]_(Promise!vars)
  <2> SUFFICES ASSUME TypeInv, LockInv, OnceInv, OnceInv', CountInv, CountInv', [Next]_vars
               PROVE  [Promise!Next]_(Promise!vars)
    OBVIOUS
  <2>1. Cardinality(Started) = IF ServerRuns THEN 1 ELSE 0
    BY DEF CountInv
  <2>2. Cardinality(Started)' = IF ServerRuns' THEN 1 ELSE 0
    BY DEF CountInv
  <2>3. packaged \in Nat /\ local \in BOOLEAN
    BY BoundsAssumption DEF TypeInv, TypeOK
  <2>4. CASE Stays
    BY <2>1, <2>2, <2>4 DEF Stays, Promise!vars
  <2>5. CASE RunsHere
    <3>1. UNCHANGED Cardinality(Started)
      BY <2>5 DEF RunsHere, Started
    <3> QED
      BY <2>1, <2>5, <3>1 DEF RunsHere, Promise!Next, Promise!RunHere
  <2>6. CASE HandsOver
    <3>1. UNCHANGED Cardinality(Started)
      BY <2>6 DEF HandsOver, Started
    <3> QED
      BY <2>6, <3>1 DEF HandsOver, Promise!Next, Promise!HandOver
  <2>7. CASE Starts
    BY <2>1, <2>2, <2>7 DEF Starts, Promise!Next, Promise!RunThere
  <2> QED
    BY <2>4, <2>5, <2>6, <2>7, StepKinds
<1>3. TypeInv /\ OnceInv => CountInv
  BY StartedOnce DEF TypeInv
<1> QED
  BY <1>1, <1>2, <1>3, TypeInductive, LockInductive, OnceInductive, PTL DEF Spec, RunsInOnePlace, Promise!Spec
=============================================================================
