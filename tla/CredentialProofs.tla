--------------------------- MODULE CredentialProofs ---------------------------
(* Theorems about CredentialEngine, for every number of threads, answers   *)
(* and credentials.                                                        *)
EXTENDS CredentialEngine, TLAPS

Types ==
  /\ kind \in [Answers -> Kinds \union {"unread"}]
  /\ info \in Answers \union {None}
  /\ aged \in {"fresh", "old"}
  /\ witnesses \subseteq Threads
  /\ failure \in {"none", "pending", "config"}
  /\ origin \in [Minted -> Answers \union {None}]
  /\ enrolled \subseteq Minted
  /\ active \in Credentials \union {None}
  /\ provisional \in Credentials \union {None}
  /\ built \in Credentials \union {None}
  /\ restingFor \in Answers \union {None}
  /\ owner \in Threads \union {None}
  /\ depth \in Int
  /\ pc \in [Threads -> Pcs]
  /\ call \in [Threads -> Calls]
  /\ override \in Credentials \union {None}
  /\ calls \in 0..MaxCalls
  /\ supplies \in 0..MaxSupplies

LEMMA PoolAnswer == ASSUME \E a \in Answers : kind[a] = "unread"
                    PROVE  NewAnswer \in Answers /\ kind[NewAnswer] = "unread"
  BY DEF NewAnswer
LEMMA PoolCredential == ASSUME \E c \in Minted : origin[c] = None
                        PROVE  NewCredential \in Minted /\ origin[NewCredential] = None
  BY DEF NewCredential

LEMMA TypesInit == ASSUME Init PROVE Types
  BY BoundsAssumption DEF Init, Types, Kinds, Pcs, Calls, NewCall, Errors, Results

LEMMA RaiseTypes ==
  ASSUME Types, NEW t \in Threads, NEW e \in {"pending", "config", "outage"}, Raise(t, e, None)
  PROVE  /\ owner' \in Threads \union {None} /\ depth' \in Int
         /\ call' \in [Threads -> Calls] /\ pc' \in [Threads -> Pcs] /\ witnesses' \subseteq Threads
<1>1. owner' \in Threads \union {None} /\ depth' \in Int
  BY DEF Raise, Types, Unwind
<1>2. pc' \in [Threads -> Pcs] /\ witnesses' \subseteq Threads
  BY DEF Raise, Types, Goto, Idle, Pcs
<1>3. PICK result \in Results :
        call' = [call EXCEPT ![t].error = e, ![t].basis = None, ![t].result = result]
  <2>1. CASE t \in Governed
    BY <2>1 DEF Raise, Results
  <2>2. CASE t \notin Governed
    <3>1. call' = [call EXCEPT ![t].error = e, ![t].basis = None, ![t].result = call[t].result]
      BY <2>2 DEF Raise, Types, Calls
    <3>2. call[t].result \in Results
      BY DEF Types, Calls
    <3> QED BY <3>1, <3>2
  <2> QED BY <2>1, <2>2
<1>4. call' \in [Threads -> Calls]
  <2>1. call[t] \in Calls /\ e \in Errors
    BY DEF Types, Errors
  <2>2. [call[t] EXCEPT !.error = e, !.basis = None, !.result = result] \in Calls
    BY <2>1 DEF Calls
  <2>3. call' = [call EXCEPT ![t] = [call[t] EXCEPT !.error = e, !.basis = None, !.result = result]]
    BY <1>3 DEF Types
  <2> QED
    BY <2>2, <2>3 DEF Types
<1> QED
  BY <1>1, <1>2, <1>4

LEMMA TypesNext == ASSUME Types, [Next]_vars PROVE Types'
<1> USE PoolsAssumption, BoundsAssumption DEF Types, cache, slots, built_of, lock, env, Threads, Credentials
<1>1. ASSUME NEW t \in Threads, Working(t) PROVE Types'
  <2> USE DEF Goto, Idle, Free, Acquire, Release, Unwind, Raise, NoToken, Pcs, Calls, Errors, Results, Kinds
  <2>1. CASE InfoRead(t) BY <2>1 DEF InfoRead
  <2>2. CASE InfoReturn(t) BY <2>2, SMTT(30) DEF InfoReturn, AnswerRead, Continue
  <2>3. CASE InfoLock(t) BY <2>3 DEF InfoLock, AnswerRead, Continue
  <2>4. ASSUME NEW k \in Replied, InfoAnswered(t, k) PROVE Types'
    BY <2>4, PoolAnswer, SMTT(30) DEF InfoAnswered, AnswerRead, Continue
  <2>5. CASE InfoFailed(t)
    <3>1. failure' \in {"none", "pending", "config"}
      BY <2>5 DEF InfoFailed
    <3>2. PICK e \in {"pending", "config", "outage"} : Raise(t, e, None)
      BY <2>5 DEF InfoFailed
    <3>3. /\ owner' \in Threads \union {None} /\ depth' \in Int
          /\ call' \in [Threads -> Calls] /\ pc' \in [Threads -> Pcs] /\ witnesses' \subseteq Threads
      BY <3>2, RaiseTypes, Zenon DEF Errors
    <3> QED BY <2>5, <3>1, <3>3 DEF InfoFailed
  <2>6. CASE ReadCredential(t) BY <2>6 DEF ReadCredential, Holds
  <2>7. CASE LockCredential(t) BY <2>7 DEF LockCredential, Holds
  <2>8. CASE Choose(t) BY <2>8, SMTT(30) DEF Choose
  <2>9. CASE BuildSucceeds(t) BY <2>9, PoolCredential DEF BuildSucceeds, Holds
  <2>10. CASE Publish(t) BY <2>10 DEF Publish
  <2>11. ASSUME NEW e \in {"config", "local"}, BuildFails(t, e) PROVE Types'
    BY <2>11, SMTT(30) DEF BuildFails, SetOfferAside
  <2>12. CASE CheckResting(t) BY <2>12, SMTT(30) DEF CheckResting, BuiltFrom
  <2>13. CASE TokenIssued(t)
    <3>1. enrolled' \subseteq Minted
      BY <2>13 DEF TokenIssued, IsBroker, BuiltFrom
    <3> QED BY <2>13, <3>1 DEF TokenIssued
  <2>14. CASE TokenFails(t) BY <2>14 DEF TokenFails, ExchangeErrors
  <2>15. CASE TokenEmpty(t) BY <2>15 DEF TokenEmpty
  <2>16. CASE SetAsideRefused(t) BY <2>16 DEF SetAsideRefused
  <2>17. CASE Offer(t) BY <2>17, SMTT(30) DEF Offer, SetOfferAside
  <2>18. CASE Excuse(t) BY <2>18 DEF Excuse
  <2>19. CASE Rest(t) BY <2>19 DEF Rest
  <2>20. CASE PendingKey(t) BY <2>20, SMTT(30) DEF PendingKey
  <2>21. CASE Judge(t) BY <2>21 DEF Judge
  <2>22. CASE Wrap(t) BY <2>22 DEF Wrap
  <2>23. CASE LockWorkload(t) BY <2>23, SMTT(30) DEF LockWorkload
  <2>24. CASE Sign(t) BY <2>24 DEF Sign
  <2>25. CASE PostDecide(t) BY <2>25 DEF PostDecide
  <2>26. CASE Reset(t) BY <2>26 DEF Reset, NewCall
  <2> QED BY <1>1, <2>1, <2>2, <2>3, <2>4, <2>5, <2>6, <2>7, <2>8, <2>9, <2>10, <2>11, <2>12, <2>13,
             <2>14, <2>15, <2>16, <2>17, <2>18, <2>19, <2>20, <2>21, <2>22, <2>23, <2>24, <2>25, <2>26
          DEF Working, Lookup, Choosing, Exchanging, Handling, Deciding
<1>2. ASSUME NEW t \in Threads, Decide(t) \/ Request(t) PROVE Types'
  BY <1>2 DEF Decide, Request, Start, Goto, NewCall, Pcs, Calls, Errors, Results
<1>3. CASE Environment
  BY <1>3 DEF Environment, Supply, AnswerAges, FailureLapses, RestLapses
<1>4. CASE UNCHANGED vars
  BY <1>4 DEF vars
<1> QED
  BY <1>1, <1>2, <1>3, <1>4, SMTT(30) DEF Next

-----------------------------------------------------------------------------
(* How often a thread holds the credential lock, by where it is: a governed *)
(* thread over its whole acquisition, every thread over a build, and over   *)
(* a fetch of credential-info.                                              *)
InfoPcs == {"info", "infoReturn", "infoLock", "infoFetch"}
Acquiring(t) ==
  /\ t \in Governed
  /\ \/ pc[t] \in {"cred", "credLock", "choose", "build", "publish", "token", "exchange",
                   "setAside", "offer", "excuse", "rest", "pendingKey", "proof"}
     \/ pc[t] \in InfoPcs /\ call[t].ret # "agent"
Building(t) ==
  \/ pc[t] \in {"choose", "build", "publish"}
  \/ pc[t] \in InfoPcs /\ call[t].ret = "build"
Held(t) ==
  (IF Acquiring(t) THEN 1 ELSE 0) + (IF Building(t) THEN 1 ELSE 0)
    + (IF pc[t] = "infoFetch" THEN 1 ELSE 0)

Place(t) ==
  /\ t \in Transparent => pc[t] \notin {"workload", "proof", "post", "reset"}
  /\ t \in Governed => pc[t] \notin {"judge", "wrap"}
  /\ pc[t] \in InfoPcs =>
       call[t].ret \in {"agent", "build", "reread"} /\ (t \in Transparent => call[t].ret # "agent")
  /\ pc[t] = "offer" => call[t].ret \in {"reread", "token"}

LockInv ==
  /\ owner = None <=> depth = 0
  /\ \A t \in Threads : Place(t) /\ Held(t) = (IF owner = t THEN depth ELSE 0)

LEMMA LockInit == ASSUME Init PROVE LockInv
  BY PoolsAssumption DEF Init, LockInv, Place, Held, Acquiring, Building, InfoPcs, NewCall

LEMMA LockNext == ASSUME Types, LockInv, [Next]_vars PROVE LockInv'
<1> USE PoolsAssumption, ThreadsAssumption DEF Types, LockInv, Place, Held, Acquiring, Building, InfoPcs,
        Threads, cache, slots, built_of, lock, env
<1>1. ASSUME NEW t \in Threads, Working(t) PROVE LockInv'
  <2> USE DEF Goto, Idle, Free, Acquire, Release, Unwind, Raise, NoToken, Pcs, Calls
  <2>1. CASE InfoRead(t) BY <2>1 DEF InfoRead, InfoCached
  <2>2. CASE InfoReturn(t) BY <2>2 DEF InfoReturn, AnswerRead, Continue
  <2>3. CASE InfoLock(t) BY <2>3 DEF InfoLock, InfoCached, AnswerRead, Continue
  <2>4. ASSUME NEW k \in Replied, InfoAnswered(t, k) PROVE LockInv'
    BY <2>4, PoolAnswer DEF InfoAnswered, AnswerRead, Continue
  <2>5. CASE InfoFailed(t) BY <2>5 DEF InfoFailed
  <2>6. CASE ReadCredential(t) BY <2>6 DEF ReadCredential, Holds
  <2>7. CASE LockCredential(t) BY <2>7 DEF LockCredential, Holds
  <2>8. CASE Choose(t) BY <2>8 DEF Choose
  <2>9. CASE BuildSucceeds(t) BY <2>9, PoolCredential DEF BuildSucceeds, Holds
  <2>10. CASE Publish(t) BY <2>10 DEF Publish
  <2>11. ASSUME NEW e \in {"config", "local"}, BuildFails(t, e) PROVE LockInv'
    BY <2>11 DEF BuildFails, SetOfferAside
  <2>12. CASE CheckResting(t) BY <2>12 DEF CheckResting
  <2>13. CASE TokenIssued(t) BY <2>13 DEF TokenIssued
  <2>14. CASE TokenFails(t) BY <2>14 DEF TokenFails
  <2>15. CASE TokenEmpty(t) BY <2>15 DEF TokenEmpty
  <2>16. CASE SetAsideRefused(t) BY <2>16 DEF SetAsideRefused
  <2>17. CASE Offer(t) BY <2>17 DEF Offer, SetOfferAside
  <2>18. CASE Excuse(t) BY <2>18 DEF Excuse
  <2>19. CASE Rest(t) BY <2>19 DEF Rest
  <2>20. CASE PendingKey(t) BY <2>20 DEF PendingKey
  <2>21. CASE Judge(t) BY <2>21 DEF Judge
  <2>22. CASE Wrap(t) BY <2>22 DEF Wrap
  <2>23. CASE LockWorkload(t) BY <2>23 DEF LockWorkload
  <2>24. CASE Sign(t) BY <2>24 DEF Sign
  <2>25. CASE PostDecide(t) BY <2>25 DEF PostDecide
  <2>26. CASE Reset(t) BY <2>26 DEF Reset, NewCall
  <2> QED
    BY <1>1, <2>1, <2>2, <2>3, <2>4, <2>5, <2>6, <2>7, <2>8, <2>9, <2>10, <2>11, <2>12, <2>13,
       <2>14, <2>15, <2>16, <2>17, <2>18, <2>19, <2>20, <2>21, <2>22, <2>23, <2>24, <2>25, <2>26
    DEF Working, Lookup, Choosing, Exchanging, Handling, Deciding
<1>2. ASSUME NEW t \in Threads, Decide(t) \/ Request(t) PROVE LockInv'
  BY <1>2 DEF Decide, Request, Start, Goto, NewCall
<1>3. CASE Environment
  BY <1>3 DEF Environment, Supply, AnswerAges, FailureLapses, RestLapses
<1>4. CASE UNCHANGED vars
  BY <1>4 DEF vars
<1> QED
  BY <1>1, <1>2, <1>3, <1>4 DEF Next

-----------------------------------------------------------------------------
(* What the lock protects: while a thread builds, no credential is active;  *)
(* a governed thread's credential stays the active one from its token to    *)
(* its proof; the markers mark the active credential.                       *)
Known(c) == c \in Minted => origin[c] # None

Chosen(t) ==
  /\ Known(call[t].cred)
  /\ pc[t] \in {"token", "exchange", "setAside", "excuse"} => call[t].cred # None
  /\ Building(t) /\ pc[t] # "publish" => active = None
  /\ Building(t) /\ pc[t] = "infoReturn" => info # None
  /\ pc[t] \in {"choose", "build"} => call[t].answer # None /\ call[t].answer = info
  /\ pc[t] = "publish" => /\ active = call[t].cred /\ active \in Minted /\ active # override
                          /\ provisional = None /\ built = None
  /\ t \in Governed /\ pc[t] \in {"token", "exchange"} => active = call[t].cred
  /\ Acquiring(t) /\ pc[t] # "proof" => call[t].token = None
  /\ pc[t] = "proof" => call[t].token \in {None, active}
  /\ pc[t] = "post" => call[t].signer = call[t].token

SlotInv ==
  /\ provisional \in Minted \union {None} /\ provisional \in {None, active}
  /\ built \in {None, active}
  /\ Known(active) /\ Known(override)
  /\ override # None /\ active = override => built = None /\ provisional = None
  /\ setAside \subseteq Minted /\ active \notin setAside
  /\ \A c \in setAside : origin[c] # None

CredInv == SlotInv /\ \A t \in Threads : Chosen(t)

LEMMA CredInit == ASSUME Init PROVE CredInv
  BY PoolsAssumption DEF Init, CredInv, SlotInv, Chosen, Known, Acquiring, Building, InfoPcs, NewCall

LEMMA CredNext == ASSUME Types, LockInv, CredInv, [Next]_vars PROVE CredInv'
<1> USE PoolsAssumption, ThreadsAssumption DEF Types, LockInv, Place, Held, CredInv, SlotInv, Chosen, Known,
        Acquiring, Building, InfoPcs, Threads, Credentials, cache, slots, built_of, lock, env
<1>1. ASSUME NEW t \in Threads, Working(t) PROVE CredInv'
  <2> USE DEF Goto, Idle, Free, Acquire, Release, Unwind, Raise, NoToken, Pcs, Calls
  <2>1. CASE InfoRead(t) BY <2>1 DEF InfoRead, InfoCached
  <2>2. CASE InfoReturn(t) BY <2>2 DEF InfoReturn, AnswerRead, Continue
  <2>3. CASE InfoLock(t) BY <2>3 DEF InfoLock, InfoCached, AnswerRead, Continue
  <2>4. ASSUME NEW k \in Replied, InfoAnswered(t, k) PROVE CredInv'
    BY <2>4, PoolAnswer, SMTT(30) DEF InfoAnswered, AnswerRead, Continue
  <2>5. CASE InfoFailed(t) BY <2>5 DEF InfoFailed
  <2>6. CASE ReadCredential(t) BY <2>6 DEF ReadCredential, Holds
  <2>7. CASE LockCredential(t) BY <2>7 DEF LockCredential, Holds
  <2>8. CASE Choose(t) BY <2>8 DEF Choose
  <2>9. CASE BuildSucceeds(t)
    <3> DEFINE c == NewCredential
    <3>1. c \in Minted /\ origin[c] = None /\ c # None
      BY <2>9, PoolCredential DEF BuildSucceeds
    <3>2. pc[t] = "build" /\ active = None /\ owner = t /\ call[t].answer \in Answers
      BY <2>9 DEF BuildSucceeds
    <3>3. SlotInv'
      BY <2>9, <3>1, <3>2 DEF BuildSucceeds, Holds
    <3>4. ASSUME NEW u \in Threads \ {t} PROVE Chosen(u)'
      BY <2>9, <3>1, <3>2, <3>4 DEF BuildSucceeds, Holds
    <3>5. Chosen(t)'
      BY <2>9, <3>1, <3>2 DEF BuildSucceeds, Holds
    <3> QED BY <3>3, <3>4, <3>5
  <2>10. CASE Publish(t) BY <2>10 DEF Publish
  <2>11. ASSUME NEW e \in {"config", "local"}, BuildFails(t, e) PROVE CredInv'
    BY <2>11 DEF BuildFails, SetOfferAside
  <2>12. CASE CheckResting(t) BY <2>12 DEF CheckResting
  <2>13. CASE TokenIssued(t) BY <2>13 DEF TokenIssued
  <2>14. CASE TokenFails(t) BY <2>14 DEF TokenFails
  <2>15. CASE TokenEmpty(t) BY <2>15 DEF TokenEmpty
  <2>16. CASE SetAsideRefused(t) BY <2>16 DEF SetAsideRefused
  <2>17. CASE Offer(t) BY <2>17 DEF Offer, SetOfferAside
  <2>18. CASE Excuse(t) BY <2>18, SMTT(30) DEF Excuse
  <2>19. CASE Rest(t) BY <2>19 DEF Rest
  <2>20. CASE PendingKey(t) BY <2>20 DEF PendingKey
  <2>21. CASE Judge(t) BY <2>21 DEF Judge
  <2>22. CASE Wrap(t) BY <2>22 DEF Wrap
  <2>23. CASE LockWorkload(t) BY <2>23, SMTT(30) DEF LockWorkload
  <2>24. CASE Sign(t) BY <2>24 DEF Sign
  <2>25. CASE PostDecide(t) BY <2>25 DEF PostDecide
  <2>26. CASE Reset(t) BY <2>26 DEF Reset, NewCall
  <2> HIDE DEF CredInv
  <2> QED
    BY <1>1, <2>1, <2>2, <2>3, <2>4, <2>5, <2>6, <2>7, <2>8, <2>9, <2>10, <2>11, <2>12, <2>13,
       <2>14, <2>15, <2>16, <2>17, <2>18, <2>19, <2>20, <2>21, <2>22, <2>23, <2>24, <2>25, <2>26
    DEF Working, Lookup, Choosing, Exchanging, Handling, Deciding
<1>2. ASSUME NEW t \in Threads, Decide(t) \/ Request(t) PROVE CredInv'
  BY <1>2 DEF Decide, Request, Start, Goto, NewCall
<1>3. CASE Environment
  BY <1>3 DEF Environment, Supply, AnswerAges, FailureLapses, RestLapses
<1>4. CASE UNCHANGED vars
  BY <1>4 DEF vars
<1> QED
  BY <1>1, <1>2, <1>3, <1>4 DEF Next

-----------------------------------------------------------------------------
(* What a governed call's outcome rests on: the answer that excused it, or *)
(* the provisional offer it met.                                           *)
Excused(t) ==
  /\ \/ Says(call[t].basis, "optional")
     \/ Says(call[t].basis, "llm") /\ call[t].cred = None
  /\ call[t].cred \notin Supplied
OfferedOnly(t, a) ==
  /\ Says(a, "provisional")
  /\ call[t].cred = None \/ BuiltFrom(call[t].cred, "provisional")

Outcome(t) ==
  /\ pc[t] \in InfoPcs \union {"workload", "cred", "credLock", "choose", "build"} =>
       call[t].cred = None
  /\ pc[t] = "rest" => Says(call[t].answer, "optional") /\ call[t].cred \in Minted
  /\ pc[t] = "offer" => OfferedOnly(t, call[t].answer)
  /\ t \in Governed /\ call[t].result # "none" => pc[t] \in {"proof", "post", "reset", "idle"}
  /\ t \in Governed /\ pc[t] \in {"proof", "post"} /\ call[t].token = None => Excused(t)
  /\ t \in Governed /\ call[t].result = "bare" => Excused(t)
  /\ t \in Governed /\ call[t].result = "pending" /\ call[t].basis # None =>
       OfferedOnly(t, call[t].basis)

OutcomeInv ==
  /\ provisional # None => BuiltFrom(provisional, "provisional")
  /\ built # None => built \in Minted
  /\ \A t \in Threads : Outcome(t)

LEMMA OutcomeInit == ASSUME Init PROVE OutcomeInv
  BY PoolsAssumption DEF Init, OutcomeInv, Outcome, Excused, OfferedOnly, Says, InfoPcs, NewCall

(* A step of a thread leaves the calls of all others alone. *)
LEMMA OthersStay ==
  ASSUME Types, NEW t \in Threads, Working(t), NEW u \in Threads \ {t}
  PROVE  pc'[u] = pc[u] /\ call'[u] = call[u]
<1> USE DEF Types, Goto, Idle, Raise, NoToken
<1>1. CASE Lookup(t)
  BY <1>1 DEF Lookup, InfoRead, InfoReturn, InfoLock, InfoAnswered, InfoFailed, AnswerRead
<1>2. CASE Choosing(t)
  BY <1>2 DEF Choosing, ReadCredential, LockCredential, Choose, BuildSucceeds, Publish, BuildFails, Holds
<1>3. CASE Exchanging(t)
  BY <1>3 DEF Exchanging, CheckResting, TokenIssued, TokenFails, TokenEmpty
<1>4. CASE Handling(t)
  BY <1>4 DEF Handling, SetAsideRefused, Offer, Excuse, Rest, PendingKey, Judge, Wrap
<1>5. CASE Deciding(t)
  BY <1>5 DEF Deciding, LockWorkload, Sign, PostDecide, Reset
<1> QED
  BY <1>1, <1>2, <1>3, <1>4, <1>5 DEF Working

(* What an answer said and what a credential was built from never change. *)
LEMMA AnswersLast ==
  ASSUME Types, NEW t \in Threads, Working(t)
  PROVE  /\ \A a \in Answers : kind[a] # "unread" => kind'[a] = kind[a]
         /\ \A c \in Minted : origin[c] # None => origin'[c] = origin[c]
<1> USE DEF Types, cache, built_of
<1>1. CASE Lookup(t)
  <2>1. ASSUME NEW k \in Replied, InfoAnswered(t, k)
        PROVE  /\ \A a \in Answers : kind[a] # "unread" => kind'[a] = kind[a]
               /\ UNCHANGED origin
    BY <2>1, PoolAnswer DEF InfoAnswered
  <2> QED
    BY <1>1, <2>1 DEF Lookup, InfoRead, InfoReturn, InfoLock, InfoFailed
<1>2. CASE Choosing(t)
  <2>1. CASE BuildSucceeds(t)
    BY <2>1, PoolCredential DEF BuildSucceeds
  <2> QED
    BY <1>2, <2>1 DEF Choosing, ReadCredential, LockCredential, Choose, Publish, BuildFails
<1>3. CASE Exchanging(t)
  BY <1>3 DEF Exchanging, CheckResting, TokenIssued, TokenFails, TokenEmpty
<1>4. CASE Handling(t)
  BY <1>4 DEF Handling, SetAsideRefused, Offer, Excuse, Rest, PendingKey, Judge, Wrap
<1>5. CASE Deciding(t)
  BY <1>5 DEF Deciding, LockWorkload, Sign, PostDecide, Reset
<1> QED
  BY <1>1, <1>2, <1>3, <1>4, <1>5 DEF Working

(* The same for the facts about answers and credentials that a call's      *)
(* outcome rests on.                                                       *)
LEMMA SaidStays ==
  ASSUME Types, NEW t \in Threads, Working(t), NEW a \in Answers \union {None},
         NEW c \in Credentials \union {None}, NEW k \in Kinds
  PROVE  /\ Says(a, k) => Says(a, k)'
         /\ BuiltFrom(c, k) => BuiltFrom(c, k)'
<1>1. \A b \in Answers \union {None} : Says(b, k) => Says(b, k)'
  BY AnswersLast DEF Says, Kinds
<1>2. BuiltFrom(c, k) => origin[c] # None /\ c \in Minted /\ origin[c] \in Answers \union {None}
  BY DEF BuiltFrom, Says, Types
<1>3. BuiltFrom(c, k) => BuiltFrom(c, k)'
  BY <1>1, <1>2, AnswersLast DEF BuiltFrom
<1> QED
  BY <1>1, <1>3

LEMMA OutcomeStays ==
  ASSUME Types, NEW t \in Threads, Working(t), NEW u \in Threads \ {t}, Outcome(u)
  PROVE  Outcome(u)'
<1>1. pc'[u] = pc[u] /\ call'[u] = call[u]
  BY OthersStay
<1>2. /\ call[u].answer \in Answers \union {None} /\ call[u].basis \in Answers \union {None}
      /\ call[u].cred \in Credentials \union {None}
  BY DEF Types, Calls
<1>3. \A a \in {call[u].answer, call[u].basis}, k \in {"optional", "llm", "provisional"} :
        Says(a, k) => Says(a, k)'
  BY <1>2, SaidStays DEF Kinds
<1>4. BuiltFrom(call[u].cred, "provisional") => BuiltFrom(call[u].cred, "provisional")'
  <2>1. \A c \in Credentials \union {None} :
          BuiltFrom(c, "provisional") => BuiltFrom(c, "provisional")'
    BY SaidStays DEF Kinds
  <2> QED
    BY <1>1, <1>2, <2>1
<1>5. Excused(u) => Excused(u)'
  BY <1>1, <1>3 DEF Excused
<1>6. /\ OfferedOnly(u, call[u].answer) => OfferedOnly(u, call[u].answer)'
      /\ OfferedOnly(u, call[u].basis) => OfferedOnly(u, call[u].basis)'
  BY <1>1, <1>3, <1>4 DEF OfferedOnly
<1> QED
  BY <1>1, <1>3, <1>5, <1>6 DEF Outcome

Marked ==
  /\ provisional # None => BuiltFrom(provisional, "provisional")
  /\ built # None => built \in Minted

LEMMA OutcomeNext == ASSUME Types, LockInv, CredInv, OutcomeInv, [Next]_vars PROVE OutcomeInv'
<1> USE PoolsAssumption, ThreadsAssumption DEF Types, Place, Chosen, Known,
        Outcome, Excused, OfferedOnly, Says, BuiltFrom, Acquiring, Building, InfoPcs,
        Threads, Credentials, cache, slots, built_of, lock, env
<1>1. ASSUME NEW t \in Threads, Working(t) PROVE OutcomeInv'
  <2>a. Marked /\ Outcome(t) /\ Place(t) /\ Chosen(t)
    BY DEF OutcomeInv, Marked, LockInv, CredInv
  <2>b. \A u \in Threads \ {t} : Outcome(u)'
    BY <1>1, OutcomeStays DEF OutcomeInv
  <2>c. \/ Publish(t)
        \/ provisional' \in {provisional, None} /\ built' \in {built, None}
    <3>1. CASE Lookup(t)
      BY <3>1 DEF Lookup, InfoRead, InfoReturn, InfoLock, InfoAnswered, InfoFailed
    <3>2. CASE Choosing(t)
      BY <3>2 DEF Choosing, ReadCredential, LockCredential, Choose, BuildSucceeds, BuildFails, SetOfferAside
    <3>3. CASE Exchanging(t)
      BY <3>3 DEF Exchanging, CheckResting, TokenIssued, TokenFails, TokenEmpty
    <3>4. CASE Handling(t)
      BY <3>4 DEF Handling, SetAsideRefused, Offer, SetOfferAside, Excuse, Rest, PendingKey, Judge, Wrap
    <3>5. CASE Deciding(t)
      BY <3>5 DEF Deciding, LockWorkload, Sign, PostDecide, Reset
    <3> QED
      BY <1>1, <3>1, <3>2, <3>3, <3>4, <3>5 DEF Working
  <2>d. Marked'
    <3>1. CASE Publish(t)
      BY <2>a, <3>1 DEF Publish, Marked
    <3>2. CASE ~Publish(t)
      <4>1. \A c \in Credentials \union {None} :
              BuiltFrom(c, "provisional") => BuiltFrom(c, "provisional")'
        <5> HIDE DEF BuiltFrom
        <5> QED BY <1>1, SaidStays DEF Kinds
      <4> QED
        BY <2>a, <2>c, <3>2, <4>1 DEF Marked
    <3> QED
      BY <3>1, <3>2
  <2> SUFFICES Outcome(t)'
    BY <2>b, <2>d DEF OutcomeInv, Marked
  <2> USE <2>a DEF Goto, Idle, Raise, NoToken, Resting, Pcs, Calls
  <2>1. CASE InfoRead(t) BY <2>1 DEF InfoRead
  <2>2. CASE InfoReturn(t) BY <2>2 DEF InfoReturn, AnswerRead, Continue
  <2>3. CASE InfoLock(t) BY <2>3 DEF InfoLock, AnswerRead, Continue
  <2>4. ASSUME NEW k \in Replied, InfoAnswered(t, k) PROVE Outcome(t)'
    BY <2>4, PoolAnswer DEF InfoAnswered, AnswerRead, Continue
  <2>5. CASE InfoFailed(t) BY <2>5 DEF InfoFailed
  <2>6. CASE ReadCredential(t) BY <2>6 DEF ReadCredential, Holds
  <2>7. CASE LockCredential(t) BY <2>7 DEF LockCredential, Holds
  <2>8. CASE Choose(t) BY <2>8 DEF Choose
  <2>9. CASE BuildSucceeds(t) BY <2>9, PoolCredential DEF BuildSucceeds, Holds
  <2>10. CASE Publish(t) BY <2>10 DEF Publish
  <2>11. ASSUME NEW e \in {"config", "local"}, BuildFails(t, e) PROVE Outcome(t)'
    BY <2>11 DEF BuildFails, SetOfferAside
  <2>12. CASE CheckResting(t) BY <2>12 DEF CheckResting, Marked
  <2>13. CASE TokenIssued(t) BY <2>13 DEF TokenIssued
  <2>14. CASE TokenFails(t) BY <2>14 DEF TokenFails
  <2>15. CASE TokenEmpty(t) BY <2>15 DEF TokenEmpty
  <2>16. CASE SetAsideRefused(t) BY <2>16 DEF SetAsideRefused
  <2>17. CASE Offer(t) BY <2>17 DEF Offer, SetOfferAside
  <2>18. CASE Excuse(t) BY <2>18 DEF Excuse, Marked
  <2>19. CASE Rest(t) BY <2>19 DEF Rest
  <2>20. CASE PendingKey(t)
    <3> USE <2>20
    <3>1. CASE pc'[t] = "offer"
      BY <3>1 DEF PendingKey, Marked
    <3>2. CASE pc'[t] # "offer" /\ t \in Governed
      BY <3>2 DEF PendingKey
    <3>3. CASE pc'[t] # "offer" /\ t \notin Governed
      BY <3>3 DEF PendingKey
    <3> QED
      BY <3>1, <3>2, <3>3
  <2>21. CASE Judge(t) BY <2>21 DEF Judge
  <2>22. CASE Wrap(t) BY <2>22 DEF Wrap
  <2>23. CASE LockWorkload(t) BY <2>23 DEF LockWorkload
  <2>24. CASE Sign(t) BY <2>24 DEF Sign
  <2>25. CASE PostDecide(t) BY <2>25 DEF PostDecide
  <2>26. CASE Reset(t) BY <2>26 DEF Reset, NewCall
  <2> HIDE <2>a
  <2> HIDE DEF Outcome
  <2> QED
    BY <1>1, <2>1, <2>2, <2>3, <2>4, <2>5, <2>6, <2>7, <2>8, <2>9, <2>10, <2>11, <2>12, <2>13,
       <2>14, <2>15, <2>16, <2>17, <2>18, <2>19, <2>20, <2>21, <2>22, <2>23, <2>24, <2>25, <2>26
    DEF Working, Lookup, Choosing, Exchanging, Handling, Deciding
<1>2. ASSUME NEW t \in Threads, Decide(t) \/ Request(t) PROVE OutcomeInv'
  BY <1>2 DEF OutcomeInv, Decide, Request, Start, Goto, NewCall
<1>3. CASE Environment
  BY <1>3 DEF OutcomeInv, SlotInv, CredInv, Environment, Supply, AnswerAges, FailureLapses, RestLapses
<1>4. CASE UNCHANGED vars
  BY <1>4 DEF OutcomeInv, vars
<1> QED
  BY <1>1, <1>2, <1>3, <1>4 DEF Next

-----------------------------------------------------------------------------
(* The second pass of a governed acquisition: the lock has been held since *)
(* the refused key was set aside, so the answer re-read is still the cached *)
(* one, no credential is active, and what is built is no provisional key.  *)
Looking(t) ==
  \/ pc[t] \in {"cred", "credLock", "choose", "build"}
  \/ pc[t] \in InfoPcs /\ call[t].ret = "build"
Settled(t) ==
  /\ active = None
  /\ info # None /\ aged = "fresh" /\ t \in witnesses
  /\ ~Says(info, "provisional")

Once(t) ==
  /\ \A c, d \in call[t].tried : c = d
  /\ call[t].attempt = 0 /\ (Looking(t) \/ pc[t] \in {"publish", "token"}) => call[t].tried = {}
  /\ call[t].attempt = 1 /\ Looking(t) => Settled(t) /\ pc[t] # "infoFetch"
  /\ pc[t] \in InfoPcs /\ call[t].ret = "reread" =>
       active = None /\ info = None /\ pc[t] # "infoReturn"
  /\ call[t].attempt = 1 /\ pc[t] \in {"publish", "token"} => ~BuiltFrom(call[t].cred, "provisional")

OnceInv == \A t \in Governed : Once(t)

LEMMA OnceInit == ASSUME Init PROVE OnceInv
  BY PoolsAssumption DEF Init, OnceInv, Once, Looking, InfoPcs, NewCall, Threads

LEMMA OnceNext == ASSUME Types, LockInv, CredInv, OnceInv, [Next]_vars PROVE OnceInv'
<1> USE PoolsAssumption, ThreadsAssumption DEF Types, LockInv, Place, CredInv, SlotInv, Chosen, Known, Held,
        OnceInv, Once, Looking, Settled, Says, BuiltFrom, Acquiring, Building, InfoPcs,
        Threads, Credentials, cache, slots, built_of, lock, env
<1>1. ASSUME NEW t \in Threads, Working(t) PROVE OnceInv'
  <2> USE DEF Goto, Free, Acquire, InfoCached, Idle, Release, Unwind, Raise, NoToken, Resting, Pcs, Calls
  <2>1. CASE InfoRead(t) BY <2>1 DEF InfoRead
  <2>2. CASE InfoReturn(t) BY <2>2 DEF InfoReturn, AnswerRead, Continue
  <2>3. CASE InfoLock(t) BY <2>3 DEF InfoLock, InfoCached, AnswerRead, Continue
  <2>4. ASSUME NEW k \in Replied, InfoAnswered(t, k) PROVE OnceInv'
    BY <2>4, PoolAnswer DEF InfoAnswered, AnswerRead, Continue
  <2>5. CASE InfoFailed(t) BY <2>5 DEF InfoFailed
  <2>6. CASE ReadCredential(t) BY <2>6 DEF ReadCredential, Holds
  <2>7. CASE LockCredential(t) BY <2>7 DEF LockCredential, Holds
  <2>8. CASE Choose(t) BY <2>8 DEF Choose
  <2>9. CASE BuildSucceeds(t) BY <2>9, PoolCredential DEF BuildSucceeds, Holds
  <2>10. CASE Publish(t) BY <2>10 DEF Publish
  <2>11. ASSUME NEW e \in {"config", "local"}, BuildFails(t, e) PROVE OnceInv'
    BY <2>11 DEF BuildFails, SetOfferAside
  <2>12. CASE CheckResting(t) BY <2>12 DEF CheckResting
  <2>13. CASE TokenIssued(t) BY <2>13 DEF TokenIssued
  <2>14. CASE TokenFails(t) BY <2>14 DEF TokenFails
  <2>15. CASE TokenEmpty(t) BY <2>15 DEF TokenEmpty
  <2>16. CASE SetAsideRefused(t) BY <2>16 DEF SetAsideRefused
  <2>17. CASE Offer(t) BY <2>17 DEF Offer, SetOfferAside
  <2>18. CASE Excuse(t) BY <2>18 DEF Excuse
  <2>19. CASE Rest(t) BY <2>19 DEF Rest
  <2>20. CASE PendingKey(t) BY <2>20 DEF PendingKey
  <2>21. CASE Judge(t) BY <2>21 DEF Judge
  <2>22. CASE Wrap(t) BY <2>22 DEF Wrap
  <2>23. CASE LockWorkload(t) BY <2>23 DEF LockWorkload
  <2>24. CASE Sign(t) BY <2>24 DEF Sign
  <2>25. CASE PostDecide(t) BY <2>25 DEF PostDecide
  <2>26. CASE Reset(t) BY <2>26 DEF Reset, NewCall
  <2> HIDE DEF OnceInv
  <2> QED
    BY <1>1, <2>1, <2>2, <2>3, <2>4, <2>5, <2>6, <2>7, <2>8, <2>9, <2>10, <2>11, <2>12, <2>13,
       <2>14, <2>15, <2>16, <2>17, <2>18, <2>19, <2>20, <2>21, <2>22, <2>23, <2>24, <2>25, <2>26
    DEF Working, Lookup, Choosing, Exchanging, Handling, Deciding
<1>2. ASSUME NEW t \in Threads, Decide(t) \/ Request(t) PROVE OnceInv'
  BY <1>2 DEF Decide, Request, Start, Goto, NewCall
<1>3. CASE Environment
  BY <1>3 DEF Environment, Supply, AnswerAges, FailureLapses, RestLapses
<1>4. CASE UNCHANGED vars
  BY <1>4 DEF vars
<1> QED
  BY <1>1, <1>2, <1>3, <1>4 DEF Next

-----------------------------------------------------------------------------
IInv == Types /\ LockInv /\ CredInv /\ OutcomeInv /\ OnceInv

LEMMA Inductive == Spec => []IInv
<1>1. Init => IInv
  BY TypesInit, LockInit, CredInit, OutcomeInit, OnceInit DEF IInv
<1>2. IInv /\ [Next]_vars => IInv'
  BY TypesNext, LockNext, CredNext, OutcomeNext, OnceNext DEF IInv
<1> QED
  BY <1>1, <1>2, PTL DEF Spec

(* Every variable keeps its type; in particular the lock is never held     *)
(* more than three deep, nor given back more often than taken.             *)
THEOREM TypeCorrect == Spec => []TypeOK
<1>1. IInv => TypeOK
  <2> SUFFICES ASSUME IInv PROVE TypeOK
    OBVIOUS
  <2>1. depth \in 0..3
    <3>1. CASE owner = None
      BY <3>1 DEF IInv, LockInv
    <3>2. CASE owner \in Threads
      <4>1. depth = Held(owner)
        BY <3>2 DEF IInv, LockInv
      <4> QED
        BY <4>1 DEF Held
    <3> QED
      BY <3>1, <3>2 DEF IInv, Types
  <2> QED
    BY <2>1 DEF IInv, Types, CredInv, SlotInv, TypeOK
<1> QED
  BY <1>1, Inductive, PTL

(* The markers beside the active credential mark it or nothing, and never  *)
(* a credential the application supplied.                                  *)
THEOREM SlotsCorrect == Spec => []SlotsAgree
<1>1. IInv => SlotsAgree
  BY DEF IInv, CredInv, SlotInv, SlotsAgree
<1> QED
  BY <1>1, Inductive, PTL

(* A refused provisional key never serves another call. *)
THEOREM SetAsideCorrect == Spec => []SetAsideStaysOut
<1>1. IInv => SetAsideStaysOut
  BY DEF IInv, CredInv, SlotInv, SetAsideStaysOut
<1> QED
  BY <1>1, Inductive, PTL

(* A governed request's proof is signed by its token's credential. *)
THEOREM ProofsCorrect == Spec => []ProofMatchesToken
<1>1. IInv => ProofMatchesToken
  BY DEF IInv, CredInv, Chosen, ProofMatchesToken, Threads
<1> QED
  BY <1>1, Inductive, PTL

(* No failure drops the identity of a governed call without an answer that *)
(* excuses it.                                                             *)
THEOREM BareCorrect == Spec => []BareIsExcused
<1>1. IInv => BareIsExcused
  BY DEF IInv, OutcomeInv, Outcome, Excused, BareIsExcused, Threads
<1> QED
  BY <1>1, Inductive, PTL

(* Only a provisional offer makes a governed call read as pending. *)
THEOREM PendingCorrect == Spec => []PendingOnlyForOffer
<1>1. IInv => PendingOnlyForOffer
  BY DEF IInv, OutcomeInv, Outcome, OfferedOnly, PendingOnlyForOffer, Threads
<1> QED
  BY <1>1, Inductive, PTL

(* A governed acquisition never enrols two provisional keys. *)
THEOREM EnrolmentCorrect == Spec => []OneEnrolment
<1>1. IInv => OneEnrolment
  BY DEF IInv, OnceInv, Once, OneEnrolment
<1> QED
  BY <1>1, Inductive, PTL

(* What the engine publishes was built from the answer that is cached at   *)
(* that moment.                                                            *)
THEOREM PublishedCorrect == Spec => PublishedFromCurrent
<1> DEFINE Current == \A c \in Minted :
      (active # c /\ active' = c /\ supplies' = supplies) => origin'[c] = info
<1>1. ASSUME IInv, Next PROVE Current
  <2> USE PoolsAssumption DEF cache, slots, built_of, lock, env
  <2>1. ASSUME NEW t \in Threads, BuildSucceeds(t) PROVE Current
    <3>1. call[t].answer = info /\ NewCredential \in Minted
      BY <1>1, <2>1, PoolCredential DEF IInv, CredInv, Chosen, BuildSucceeds
    <3> QED
      BY <1>1, <2>1, <3>1 DEF BuildSucceeds, IInv, Types
  <2>2. ASSUME NEW t \in Threads, Working(t), ~BuildSucceeds(t) PROVE active' \in {active, None}
    <3>1. CASE Lookup(t)
      BY <3>1 DEF Lookup, InfoRead, InfoReturn, InfoLock, InfoAnswered, InfoFailed
    <3>2. CASE Choosing(t)
      BY <3>2, <2>2 DEF Choosing, ReadCredential, LockCredential, Choose, Publish, BuildFails, SetOfferAside
    <3>3. CASE Exchanging(t)
      BY <3>3 DEF Exchanging, CheckResting, TokenIssued, TokenFails, TokenEmpty
    <3>4. CASE Handling(t)
      BY <3>4 DEF Handling, SetAsideRefused, Offer, SetOfferAside, Excuse, Rest, PendingKey, Judge, Wrap
    <3>5. CASE Deciding(t)
      BY <3>5 DEF Deciding, LockWorkload, Sign, PostDecide, Reset
    <3> QED
      BY <2>2, <3>1, <3>2, <3>3, <3>4, <3>5 DEF Working
  <2>3. ASSUME NEW t \in Threads, Decide(t) \/ Request(t) PROVE active' = active
    BY <2>3 DEF Decide, Request, Start
  <2>4. ASSUME NEW c \in Credentials, Supply(c) PROVE supplies' # supplies
    BY <1>1, <2>4 DEF Supply, IInv, Types
  <2>5. CASE AnswerAges \/ FailureLapses \/ RestLapses
    BY <2>5 DEF AnswerAges, FailureLapses, RestLapses
  <2> QED
    BY <1>1, <2>1, <2>2, <2>3, <2>4, <2>5 DEF Next, Environment
<1>2. IInv /\ [Next]_vars =>
        [\A c \in Minted :
           (active # c /\ active' = c /\ supplies' = supplies) => origin'[c] = info]_vars
  BY <1>1
<1> QED
  BY <1>2, Inductive, PTL DEF Spec, PublishedFromCurrent

-----------------------------------------------------------------------------
(* Model traffic on its own: without governed calls and provisional offers  *)
(* an answer, once read, is only ever replaced by another one, so that the  *)
(* cached answer still says whether a broker identity may be missed when a  *)
(* call goes on without a token.                                            *)
FailsClosed(t) ==
  /\ call[t].result = "bare"
  /\ BuiltFrom(call[t].cred, "broker") \/ (call[t].cred = None /\ Says(call[t].answer, "broker"))
  => call[t].basis # None /\ ~Says(call[t].basis, "broker")

Heard(t) ==
  /\ call[t].answer # None => info # None /\ kind[call[t].answer] # "unread"
  /\ call[t].basis # None => kind[call[t].basis] # "unread"
  /\ pc[t] # "idle" => call[t].result = "none"
  /\ pc[t] = "pendingKey" => call[t].cred # None

Told ==
  /\ \A a \in Answers : kind[a] # "provisional"
  /\ info # None => kind[info] # "unread"
  /\ \A c \in Minted : origin[c] # None => info # None /\ kind[origin[c]] # "unread"

TrafficInv == Told /\ \A t \in Threads : Heard(t) /\ FailsClosed(t)

LEMMA TrafficInit == ASSUME Init PROVE TrafficInv
  BY DEF Init, TrafficInv, Told, Heard, FailsClosed, NewCall

(* Neither a thread's work nor time takes back what was told. *)
LEMMA ToldStays ==
  ASSUME Governed = {}, "provisional" \notin Replied,
         Types, LockInv, CredInv, OutcomeInv, TrafficInv,
         NEW t \in Threads, Working(t)
  PROVE  Told' /\ (info # None => info' # None)
<1> USE PoolsAssumption DEF Types, Told, cache, built_of
<1>1. Told /\ Heard(t) /\ Chosen(t) /\ Outcome(t) /\ t \notin Governed
  BY DEF TrafficInv, CredInv, OutcomeInv
<1>2. \A a \in Answers \union {None} : ~Says(a, "provisional")
  BY <1>1 DEF Says
<1>3. provisional = None
  BY <1>1 DEF OutcomeInv, BuiltFrom, Says
<1>4. ASSUME NEW k \in Replied, InfoAnswered(t, k) PROVE Told' /\ info' # None
  <2> DEFINE a == NewAnswer
  <2>1. a \in Answers /\ kind[a] = "unread" /\ kind' = [kind EXCEPT ![a] = k] /\ info' = a
        /\ UNCHANGED origin
    BY <1>4, PoolAnswer DEF InfoAnswered
  <2>2. k # "provisional" /\ k # "unread" /\ a # None
    BY <2>1, BoundsAssumption DEF Kinds
  <2>3. \A b \in Answers : kind'[b] # "provisional"
    BY <1>1, <2>1, <2>2
  <2>4. kind'[info'] # "unread"
    BY <2>1, <2>2
  <2>5. \A c \in Minted : origin[c] # None => kind'[origin[c]] # "unread"
    BY <1>1, <2>1
  <2> QED
    BY <2>1, <2>2, <2>3, <2>4, <2>5
<1>5. CASE BuildSucceeds(t)
  <2>1. call[t].answer \in Answers /\ call[t].answer = info /\ UNCHANGED cache
    BY <1>1, <1>5 DEF BuildSucceeds, Chosen, Calls
  <2> QED
    BY <1>1, <1>5, <2>1, PoolCredential DEF BuildSucceeds
<1>6. ASSUME NEW e \in {"config", "local"}, BuildFails(t, e) PROVE UNCHANGED <<kind, info, origin>>
  <2>1. call[t].answer \in Answers \union {None}
    BY DEF Calls
  <2> QED
    BY <1>2, <1>6, <2>1 DEF BuildFails
<1>7. CASE SetAsideRefused(t)
  <2>1. call[t].cred # None
    BY <1>1, <1>7 DEF SetAsideRefused, Chosen
  <2> QED
    BY <1>1, <1>3, <1>7, <2>1 DEF SetAsideRefused
<1>8. ~Offer(t)
  <2>1. call[t].answer \in Answers \union {None}
    BY DEF Calls
  <2> QED
    BY <1>1, <1>2, <2>1 DEF Offer, Outcome, OfferedOnly
<1>9. ~LockWorkload(t) /\ ~Sign(t) /\ ~PostDecide(t) /\ ~Reset(t)
  BY <1>1 DEF LockInv, Place, Threads, LockWorkload, Sign, PostDecide, Reset
<1>10. CASE Lookup(t)
  BY <1>1, <1>4, <1>10 DEF Lookup, InfoRead, InfoReturn, InfoLock, InfoFailed
<1>11. CASE Choosing(t)
  BY <1>1, <1>5, <1>6, <1>11 DEF Choosing, ReadCredential, LockCredential, Choose, Publish
<1>12. CASE Exchanging(t)
  BY <1>1, <1>12 DEF Exchanging, CheckResting, TokenIssued, TokenFails, TokenEmpty
<1>13. CASE Handling(t)
  BY <1>1, <1>7, <1>8, <1>13 DEF Handling, Excuse, Rest, PendingKey, Judge, Wrap
<1> QED
  BY <1>9, <1>10, <1>11, <1>12, <1>13 DEF Working, Deciding

(* What a call heard, and what its outcome rests on, outlasts every step    *)
(* that leaves the call alone and takes nothing back.                       *)
LEMMA HeardStays ==
  ASSUME Types, NEW t \in Threads, Heard(t), FailsClosed(t), Known(call[t].cred), Told,
         call'[t] = call[t], pc'[t] = pc[t], info # None => info' # None,
         \A a \in Answers : kind[a] # "unread" => kind'[a] = kind[a],
         \A c \in Minted : origin[c] # None => origin'[c] = origin[c]
  PROVE  Heard(t)' /\ FailsClosed(t)'
<1> USE PoolsAssumption DEF Types
<1>1. /\ call[t].answer \in Answers \union {None} /\ call[t].basis \in Answers \union {None}
  BY DEF Calls
<1>2. Heard(t)'
  BY <1>1 DEF Heard
<1>3. Says(call[t].answer, "broker")' <=> Says(call[t].answer, "broker")
  BY <1>1 DEF Says, Heard
<1>4. Says(call[t].basis, "broker")' <=> Says(call[t].basis, "broker")
  BY <1>1 DEF Says, Heard
<1>5. BuiltFrom(call[t].cred, "broker")' <=> BuiltFrom(call[t].cred, "broker")
  BY DEF BuiltFrom, Says, Known, Told
<1> QED
  BY <1>2, <1>3, <1>4, <1>5 DEF FailsClosed

(* The thread's own step, by how it ends. *)
LEMMA HeardStep ==
  ASSUME Governed = {}, "provisional" \notin Replied,
         Types, LockInv, CredInv, OutcomeInv, TrafficInv,
         NEW t \in Threads, Working(t)
  PROVE  Heard(t)' /\ FailsClosed(t)'
<1> USE PoolsAssumption DEF Types, Goto, Raise, NoToken, Idle
<1> DEFINE was == call[t] now == call'[t]
<1>1. /\ Told /\ Heard(t) /\ FailsClosed(t) /\ Chosen(t) /\ Outcome(t) /\ Place(t)
      /\ t \notin Governed
  BY DEF TrafficInv, CredInv, OutcomeInv, LockInv
<1>2. Told' /\ (info # None => info' # None)
  BY ToldStays
<1>3. /\ \A a \in Answers : kind[a] # "unread" => kind'[a] = kind[a]
      /\ \A c \in Minted : origin[c] # None => origin'[c] = origin[c]
  BY AnswersLast
<1>4. /\ was.answer \in Answers \union {None} /\ was.basis \in Answers \union {None}
      /\ was.cred \in Credentials \union {None} /\ DOMAIN call = Threads /\ was \in Calls
  BY DEF Calls
(* A call that goes on, or ends with its token or an error, is not bare. *)
<1>5. ASSUME now.result # "bare", now.answer \in {was.answer, info, info'},
             now.basis \in {was.basis, info, None},
             pc'[t] # "idle" => now.result = was.result /\ pc[t] # "idle",
             pc'[t] = "pendingKey" => now.cred # None
      PROVE  Heard(t)' /\ FailsClosed(t)'
  BY <1>1, <1>2, <1>3, <1>4, <1>5 DEF Heard, FailsClosed, Told
(* A call that ends without a token rests on the cached answer, or on the   *)
(* answer it read, and that one excuses it.                                 *)
<1>6. ASSUME UNCHANGED <<kind, info, origin>>, now.answer = was.answer, pc'[t] = "idle",
             now.cred \in {was.cred, None},
             now.basis = info \/ (now.basis = was.answer /\ was.answer # None),
             ~Says(now.basis, "broker")
               \/ (now.cred = was.cred /\ was.cred # None /\ ~BuiltFrom(was.cred, "broker"))
      PROVE  Heard(t)' /\ FailsClosed(t)'
  BY <1>1, <1>4, <1>6 DEF Heard, FailsClosed, Told, BuiltFrom, Says
<1> DEFINE GoesOn == /\ pc[t] # "idle" /\ pc'[t] \notin {"idle", "pendingKey"}
                     /\ now.result = was.result /\ now.basis \in {was.basis, None}
                     /\ now.answer \in {was.answer, info, info'}
<1>7. ASSUME GoesOn PROVE Heard(t)' /\ FailsClosed(t)'
  BY <1>1, <1>5, <1>7 DEF Heard
<1>8. \A a \in Answers \union {None} : ~Says(a, "provisional")
  BY <1>1 DEF Told, Says
<1>raised. ASSUME NEW e, Raise(t, e, None), pc[t] # "idle" PROVE GoesOn
  <2>1. /\ call' = [call EXCEPT ![t].error = e, ![t].basis = None,
                                ![t].result = IF t \in Governed
                                              THEN IF e = "pending" THEN "pending" ELSE "error"
                                              ELSE @]
        /\ pc'[t] = "judge"
    BY <1>1, <1>raised
  <2>2. now.result = was.result /\ now.basis = None /\ now.answer = was.answer
    BY <1>1, <1>4, <2>1 DEF Calls
  <2> QED
    BY <1>raised, <2>1, <2>2
<1>read. ASSUME NEW b \in {info, info'}, NEW offer, AnswerRead(t, b, offer), pc[t] # "idle"
      PROVE  GoesOn
  <2>1. Continue(t, offer) \in {"workload", "choose", "offer", "cred"}
    BY DEF Continue
  <2>2. now.result = was.result /\ now.basis = was.basis /\ now.answer = b
    BY <1>4, <1>read DEF AnswerRead, Calls
  <2>3. pc'[t] \notin {"idle", "pendingKey"}
    BY <1>read, <2>1 DEF AnswerRead
  <2> QED
    BY <1>read, <2>2, <2>3
<1>9. CASE Lookup(t)
  <2> HIDE DEF Raise
  <2>1. CASE InfoRead(t)
    <3>1. CASE failure # "none"
      BY <1>7, <1>raised, <2>1, <3>1 DEF InfoRead
    <3>2. CASE failure = "none"
      BY <1>7, <2>1, <3>2 DEF InfoRead
    <3> QED
      BY <3>1, <3>2
  <2>2. CASE InfoReturn(t)
    <3>1. pc[t] = "infoReturn" /\ (Raise(t, "vanished", None)
                                     \/ AnswerRead(t, info, Says(info, "provisional")))
      BY <2>2 DEF InfoReturn
    <3> QED
      BY <1>7, <1>raised, <1>read, <3>1
  <2>3. CASE InfoLock(t)
    <3>1. CASE failure # "none"
      BY <1>7, <1>raised, <2>3, <3>1 DEF InfoLock
    <3>2. CASE failure = "none" /\ InfoCached
      <4>1. AnswerRead(t, info, Says(info, "provisional")) /\ pc[t] = "infoLock"
        BY <2>3, <3>2 DEF InfoLock
      <4> QED
        BY <1>7, <1>read, <4>1
    <3>3. CASE failure = "none" /\ ~InfoCached
      BY <1>7, <2>3, <3>3 DEF InfoLock
    <3> QED
      BY <3>1, <3>2, <3>3
  <2>4. ASSUME NEW k \in Replied, InfoAnswered(t, k) PROVE GoesOn
    BY <1>read, <2>4 DEF InfoAnswered
  <2>5. CASE InfoFailed(t)
    <3>1. \E e \in {"pending", "config", "outage"} : Raise(t, e, None) /\ pc[t] # "idle"
      BY <2>5 DEF InfoFailed
    <3> QED
      BY <1>7, <1>raised, <3>1
  <2> QED
    BY <1>7, <1>9, <2>1, <2>2, <2>3, <2>4, <2>5 DEF Lookup
<1>10. CASE Choose(t)
  <2>1. CASE pc'[t] = "build"
    BY <1>1, <1>7, <1>10, <2>1 DEF Choose
  <2>2. CASE pc'[t] # "build"
    <3>1. /\ now = [was EXCEPT !.cred = None, !.basis = was.answer, !.result = "bare"]
          /\ pc'[t] = "idle" /\ UNCHANGED <<kind, info, origin>>
          /\ Says(was.answer, "llm") \/ Says(was.answer, "optional")
      BY <1>1, <1>4, <1>10, <2>2 DEF Choose, built_of
    <3> QED
      BY <1>4, <1>6, <3>1 DEF Says, Calls
  <2> QED
    BY <2>1, <2>2
<1>11. CASE ReadCredential(t) \/ LockCredential(t) \/ BuildSucceeds(t) \/ Publish(t)
  BY <1>1, <1>4, <1>7, <1>11
  DEF ReadCredential, LockCredential, BuildSucceeds, Publish, Holds, Calls
<1>12. ASSUME NEW e \in {"config", "local"}, BuildFails(t, e) PROVE Heard(t)' /\ FailsClosed(t)'
  <2>1. CASE Says(was.answer, "optional")
    <3>1. /\ now = [was EXCEPT !.cred = None, !.basis = was.answer, !.result = "bare"]
          /\ pc'[t] = "idle" /\ UNCHANGED <<kind, info, origin>>
      <4>1. NoToken(t, None, was.answer) /\ UNCHANGED <<kind, info, origin>>
        BY <1>12, <2>1 DEF BuildFails, Says, built_of
      <4> QED
        BY <1>1, <1>4, <4>1
    <3> QED
      BY <1>4, <1>6, <2>1, <3>1 DEF Says, Calls
  <2>2. CASE ~Says(was.answer, "optional")
    <3>1. Raise(t, e, None) /\ pc[t] = "build"
      BY <1>4, <1>8, <1>12, <2>2 DEF BuildFails
    <3> QED
      BY <1>1, <1>4, <1>7, <3>1 DEF Calls
  <2> QED
    BY <2>1, <2>2
<1>13. CASE CheckResting(t)
  <2>1. CASE pc'[t] = "exchange"
    BY <1>1, <1>4, <1>7, <1>13, <2>1 DEF CheckResting, Calls
  <2>2. CASE pc'[t] # "exchange"
    <3>1. /\ now = [was EXCEPT !.cred = was.cred, !.basis = info, !.result = "bare"]
          /\ pc'[t] = "idle" /\ UNCHANGED <<kind, info, origin>> /\ Says(info, "optional")
      BY <1>1, <1>4, <1>13, <2>2 DEF CheckResting, Resting, built_of
    <3> QED
      BY <1>4, <1>6, <3>1 DEF Says, Calls
  <2> QED
    BY <2>1, <2>2
<1>14. CASE TokenIssued(t)
  <2>1. now.result = "sent" /\ now.answer = was.answer /\ now.basis = was.basis /\ pc'[t] = "idle"
    BY <1>1, <1>4, <1>14 DEF TokenIssued, Calls
  <2> QED
    BY <1>5, <2>1
<1>15. CASE TokenEmpty(t)
  <2>1. /\ now = [was EXCEPT !.cred = was.cred, !.basis = info, !.result = "bare"]
        /\ pc'[t] = "idle" /\ UNCHANGED <<kind, info, origin>> /\ ~IsBroker(was.cred)
        /\ was.cred # None
    BY <1>1, <1>4, <1>15 DEF TokenEmpty, Chosen, built_of
  <2>2. ~BuiltFrom(was.cred, "broker")
    BY <2>1 DEF IsBroker
  <2> QED
    BY <1>4, <1>6, <2>1, <2>2 DEF Calls
<1>16. CASE TokenFails(t) \/ SetAsideRefused(t)
  BY <1>1, <1>4, <1>7, <1>16 DEF TokenFails, SetAsideRefused, Calls
<1>17. ~Offer(t)
  BY <1>1, <1>4, <1>8 DEF Offer, Outcome, OfferedOnly
<1>18. CASE Excuse(t)
  <2>1. CASE pc'[t] = "pendingKey"
    <3>1. UNCHANGED call /\ pc[t] = "excuse"
      BY <1>4, <1>18, <2>1 DEF Excuse
    <3> QED
      BY <1>1, <1>5, <2>1, <3>1 DEF Chosen, Heard
  <2>2. CASE pc'[t] # "pendingKey"
    BY <1>1, <1>4, <1>7, <1>18, <2>2 DEF Excuse, Calls
  <2> QED
    BY <2>1, <2>2
<1>19. CASE Rest(t)
  <2>1. /\ now = [was EXCEPT !.cred = was.cred, !.basis = was.answer, !.result = "bare"]
        /\ pc'[t] = "idle" /\ UNCHANGED <<kind, info, origin>> /\ Says(was.answer, "optional")
    BY <1>1, <1>4, <1>19 DEF Rest, Outcome, built_of
  <2> QED
    BY <1>4, <1>6, <2>1 DEF Says, Calls
<1>20. CASE PendingKey(t)
  <2>1. was.cred # None /\ pc[t] = "pendingKey" /\ UNCHANGED <<kind, info, origin>> /\ ~Says(info, "provisional")
    BY <1>1, <1>8, <1>20 DEF PendingKey, Heard, built_of
  <2>2. CASE IsBroker(was.cred)
    BY <1>1, <1>4, <1>7, <1>20, <2>1, <2>2 DEF PendingKey, Threads
  <2>3. CASE ~IsBroker(was.cred)
    <3>1. /\ now = [was EXCEPT !.cred = was.cred, !.basis = info, !.result = "bare"]
          /\ pc'[t] = "idle"
      BY <1>1, <1>4, <1>20, <2>1, <2>3 DEF PendingKey, Threads
    <3>2. ~BuiltFrom(was.cred, "broker")
      BY <2>3 DEF IsBroker
    <3> QED
      BY <1>4, <1>6, <2>1, <3>1, <3>2 DEF Calls
  <2> QED
    BY <2>2, <2>3
<1>21. CASE Judge(t) \/ Wrap(t)
  <2>1. UNCHANGED <<kind, info, origin>> /\ pc[t] \in {"judge", "wrap"}
    BY <1>21 DEF Judge, Wrap, built_of
  <2>2. CASE BrokerRequired
    <3>1. CASE Judge(t)
      BY <1>1, <1>4, <1>7, <2>2, <3>1 DEF Judge
    <3>2. CASE Wrap(t)
      <4>1. now.result = "error" /\ now.answer = was.answer /\ now.basis = was.basis /\ pc'[t] = "idle"
        BY <1>4, <2>2, <3>2 DEF Wrap, Calls
      <4> QED
        BY <1>5, <4>1
    <3> QED
      BY <1>21, <3>1, <3>2
  <2>3. CASE ~BrokerRequired
    <3>1. /\ now = [was EXCEPT !.cred = was.cred, !.basis = info, !.result = "bare"]
          /\ pc'[t] = "idle" /\ ~Says(info, "broker")
      BY <1>1, <1>4, <1>21, <2>3 DEF Judge, Wrap, BrokerRequired
    <3> QED
      BY <1>4, <1>6, <2>1, <3>1 DEF Calls
  <2> QED
    BY <2>2, <2>3
<1>22. ~Deciding(t)
  BY <1>1 DEF Place, Threads, Deciding, LockWorkload, Sign, PostDecide, Reset
<1> QED
  BY <1>9, <1>10, <1>11, <1>12, <1>13, <1>14, <1>15, <1>16, <1>17, <1>18, <1>19, <1>20, <1>21, <1>22
  DEF Working, Choosing, Exchanging, Handling

LEMMA TrafficNext ==
  ASSUME Governed = {}, "provisional" \notin Replied, IInv, TrafficInv, [Next]_vars
  PROVE  TrafficInv'
<1> USE PoolsAssumption
<1>1. Types /\ LockInv /\ CredInv /\ OutcomeInv
  BY DEF IInv
<1>2. ASSUME NEW t \in Threads, Working(t) PROVE TrafficInv'
  <2>1. Told' /\ (info # None => info' # None)
    BY <1>1, <1>2, ToldStays
  <2>2. Heard(t)' /\ FailsClosed(t)'
    BY <1>1, <1>2, HeardStep
  <2>3. /\ \A a \in Answers : kind[a] # "unread" => kind'[a] = kind[a]
        /\ \A c \in Minted : origin[c] # None => origin'[c] = origin[c]
    BY <1>1, <1>2, AnswersLast
  <2>4. ASSUME NEW u \in Threads \ {t} PROVE Heard(u)' /\ FailsClosed(u)'
    <3>1. pc'[u] = pc[u] /\ call'[u] = call[u]
      BY <1>1, <1>2, OthersStay
    <3>2. Told /\ Heard(u) /\ FailsClosed(u) /\ Known(call[u].cred)
      BY <1>1 DEF TrafficInv, CredInv, Chosen
    <3> QED
      BY <1>1, <2>1, <2>3, <3>1, <3>2, HeardStays
  <2> QED
    BY <2>1, <2>2, <2>4 DEF TrafficInv
<1>3. ASSUME NEW t \in Threads, Decide(t) \/ Request(t) PROVE TrafficInv'
  <2>1. /\ UNCHANGED <<kind, info, origin>> /\ call' = [call EXCEPT ![t] = NewCall]
        /\ pc'[t] # "pendingKey" /\ \A u \in Threads \ {t} : pc'[u] = pc[u]
    BY <1>1, <1>3 DEF Decide, Request, Start, Goto, Types, cache, built_of
  <2>2. Heard(t)' /\ FailsClosed(t)'
    BY <1>1, <2>1 DEF Heard, FailsClosed, NewCall, Types
  <2>3. \A u \in Threads \ {t} : Heard(u)' /\ FailsClosed(u)'
    BY <1>1, <2>1 DEF TrafficInv, Heard, FailsClosed, BuiltFrom, Says, Types
  <2> QED
    BY <2>1, <2>2, <2>3 DEF TrafficInv, Told
<1>4. CASE Environment \/ UNCHANGED vars
  <2>1. UNCHANGED <<kind, info, origin, pc, call>>
    BY <1>4 DEF Environment, Supply, AnswerAges, FailureLapses, RestLapses, vars, cache, built_of
  <2> QED
    BY <2>1 DEF TrafficInv, Told, Heard, FailsClosed, BuiltFrom, Says
<1> QED
  BY <1>2, <1>3, <1>4 DEF Next

(* Model traffic without governed calls beside it, and without provisional  *)
(* offers, never loses an approved broker identity without an answer that   *)
(* excuses it, however answers age and its lookups, builds and exchanges    *)
(* fail (client.py, _agent_token).  A governed call's reset beside it       *)
(* breaks the promise: CredentialReset.                                     *)
THEOREM TrafficCorrect ==
  ASSUME Governed = {}, "provisional" \notin Replied
  PROVE  Spec => []BrokerFailsClosed
<1>1. Init => TrafficInv
  BY TrafficInit
<1>2. IInv /\ TrafficInv /\ [Next]_vars => TrafficInv'
  BY TrafficNext
<1>3. TrafficInv => BrokerFailsClosed
  BY DEF TrafficInv, FailsClosed, BrokerFailsClosed, Threads
<1> QED
  BY <1>1, <1>2, <1>3, Inductive, PTL DEF Spec
=============================================================================
