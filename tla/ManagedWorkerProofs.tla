-------------------------- MODULE ManagedWorkerProofs --------------------------
(* Theorems about ManagedWorker, for every number of workers, requests and *)
(* runs.                                                                   *)
EXTENDS ManagedWorker, TLAPS

-----------------------------------------------------------------------------
LEMMA TypeInit == ASSUME Init PROVE TypeOK
  BY MaxTakenAssumption DEF Init, TypeOK, Pcs, Refusals

LEMMA TypeEnded ==
  ASSUME TypeOK, NEW w, Ended(w)
  PROVE  /\ up' \subseteq Workers
         /\ pc' \in [Requests -> Pcs]
         /\ program' \in [Requests -> {"none", "running", "exited", "killed"}]
         /\ heard' \in [Requests -> {"waiting", "outcome", "refusal", "silence"}]
         /\ tree' \subseteq Requests
  BY DEF Ended, TypeOK, Pcs

LEMMA TypeNext == ASSUME TypeOK, [Next]_vars PROVE TypeOK'
<1> USE MaxTakenAssumption DEF TypeOK, worker, sent, result, gateway
<1>1. ASSUME NEW q \in Requests, Handle(q) PROVE TypeOK'
  <2> USE DEF At, Goto, Answer, Refuse, Pcs, Refusals, Deliver
  <2>1. CASE Reject(q)      BY <2>1 DEF Reject
  <2>2. CASE Claim(q)       BY <2>2 DEF Claim
  <2>3. CASE Reply(q)       BY <2>3 DEF Reply
  <2>4. CASE Linger(q)      BY <2>4 DEF Linger
  <2>5. CASE Stage(q)       BY <2>5 DEF Stage
  <2>6. CASE CheckCaller(q) BY <2>6 DEF CheckCaller
  <2>7. CASE AskStart(q)    BY <2>7 DEF AskStart
  <2>8. CASE AwaitGrant(q)  BY <2>8 DEF AwaitGrant
  <2>9. CASE Popen(q)       BY <2>9 DEF Popen
  <2>10. CASE Supervise(q)  BY <2>10 DEF Supervise
  <2>11. CASE Kill(q)       BY <2>11 DEF Kill
  <2>12. CASE Clean(q)      BY <2>12 DEF Clean
  <2>13. CASE GiveAnswer(q) BY <2>13 DEF GiveAnswer
  <2>14. CASE Finish(q)     BY <2>14 DEF Finish
  <2>15. CASE Exit(q)       BY <2>15, TypeEnded DEF Exit
  <2> QED BY <1>1, <2>1, <2>2, <2>3, <2>4, <2>5, <2>6, <2>7, <2>8, <2>9, <2>10,
             <2>11, <2>12, <2>13, <2>14, <2>15 DEF Handle
<1>2. ASSUME NEW q \in Requests, NEW w \in Workers, NEW r \in Runs, Send(q, w, r) PROVE TypeOK'
  BY <1>2 DEF Send, Goto, Pcs
<1>3. ASSUME NEW q \in Requests, CallerLeaves(q) PROVE TypeOK'
  BY <1>3 DEF CallerLeaves
<1>4. ASSUME NEW q \in Requests, GrantStart(q) PROVE TypeOK'
  BY <1>4 DEF GrantStart
<1>5. ASSUME NEW q \in Requests, AskAnswered(q) PROVE TypeOK'
  BY <1>5 DEF AskAnswered
<1>6. ASSUME NEW q \in Requests, ProgramExits(q) PROVE TypeOK'
  BY <1>6 DEF ProgramExits
<1>7. ASSUME NEW r \in Runs, Withdraw(r) PROVE TypeOK'
  BY <1>7 DEF Withdraw
<1>8. ASSUME NEW w \in Workers, StopBegins(w) PROVE TypeOK'
  BY <1>8 DEF StopBegins
<1>9. ASSUME NEW w \in Workers, StopEnds(w) PROVE TypeOK'
  BY <1>9, TypeEnded DEF StopEnds
<1>10. ASSUME NEW w \in Workers, TakenAway(w) PROVE TypeOK'
  BY <1>10, TypeEnded DEF TakenAway
<1>11. CASE UNCHANGED vars
  BY <1>11 DEF vars
<1> QED
  BY <1>1, <1>2, <1>3, <1>4, <1>5, <1>6, <1>7, <1>8, <1>9, <1>10, <1>11 DEF Next

(* Every variable keeps its type, and finished implies taken. *)
THEOREM TypeCorrect == Spec => []TypeOK
  BY TypeInit, TypeNext, PTL DEF Spec

-----------------------------------------------------------------------------
(* What the place of a request's handler says of the request: before its   *)
(* program there is none and no answer, and a start that was granted, or   *)
(* used by a program, is this request's.                                   *)
Unasked == {"new", "claim", "begin", "caller", "grant"}
Before  == Unasked \union {"await", "popen"}

Places(q) ==
  /\ pc[q] = "new" => order[q] = None /\ target[q] = None
  /\ pc[q] # "new" => order[q] \in Runs /\ target[q] \in Workers
  /\ pc[q] \in Unasked => ask[q] = "none"
  /\ pc[q] \in Before => ~Started(q)
  /\ q \in tree => pc[q] \in {"caller", "grant", "await", "popen", "supervise", "kill", "clean"}

Spent(q) ==
  ask[q] \in {"granted", "yes"} \/ pc[q] = "popen" \/ Started(q) => spender[order[q]] = q

Grants(r) ==
  /\ grant[r] = "used" <=> spender[r] # None
  /\ spender[r] # None => order[spender[r]] = r /\ ask[spender[r]] # "none"

StartInv ==
  /\ \A q \in Requests : Places(q) /\ Spent(q)
  /\ \A r \in Runs : Grants(r)

LEMMA StartInit == ASSUME Init PROVE StartInv
  BY NoneAssumption DEF Init, StartInv, Places, Spent, Grants, Started, Unasked, Before

LEMMA StartNext == ASSUME TypeOK, StartInv, [Next]_vars PROVE StartInv'
<1> USE NoneAssumption DEF StartInv, Places, Spent, Grants, Started, Unasked, Before, TypeOK,
        worker, sent, result, gateway
<1>1. ASSUME NEW q \in Requests, Handle(q) PROVE StartInv'
  <2> USE DEF At, Goto, Answer, Refuse, Pcs, Deliver
  <2>1. CASE Reject(q)      BY <2>1 DEF Reject
  <2>2. CASE Claim(q)       BY <2>2 DEF Claim
  <2>3. CASE Reply(q)       BY <2>3 DEF Reply
  <2>4. CASE Linger(q)      BY <2>4 DEF Linger
  <2>5. CASE Stage(q)       BY <2>5 DEF Stage
  <2>6. CASE CheckCaller(q) BY <2>6 DEF CheckCaller
  <2>7. CASE AskStart(q)    BY <2>7 DEF AskStart
  <2>8. CASE AwaitGrant(q)  BY <2>8 DEF AwaitGrant
  <2>9. CASE Popen(q)       BY <2>9 DEF Popen
  <2>10. CASE Supervise(q)  BY <2>10 DEF Supervise
  <2>11. CASE Kill(q)       BY <2>11 DEF Kill
  <2>12. CASE Clean(q)      BY <2>12 DEF Clean
  <2>13. CASE GiveAnswer(q) BY <2>13 DEF GiveAnswer
  <2>14. CASE Finish(q)     BY <2>14 DEF Finish
  <2>15. CASE Exit(q)       BY <2>15 DEF Exit, Ended
  <2> QED BY <1>1, <2>1, <2>2, <2>3, <2>4, <2>5, <2>6, <2>7, <2>8, <2>9, <2>10,
             <2>11, <2>12, <2>13, <2>14, <2>15 DEF Handle
<1>2. ASSUME NEW q \in Requests, NEW w \in Workers, NEW r \in Runs, Send(q, w, r) PROVE StartInv'
  BY <1>2 DEF Send, Goto, Pcs
<1>3. ASSUME NEW q \in Requests, CallerLeaves(q) PROVE StartInv'
  BY <1>3 DEF CallerLeaves
<1>4. ASSUME NEW q \in Requests, GrantStart(q) PROVE StartInv'
  BY <1>4 DEF GrantStart
<1>5. ASSUME NEW q \in Requests, AskAnswered(q) PROVE StartInv'
  BY <1>5 DEF AskAnswered
<1>6. ASSUME NEW q \in Requests, ProgramExits(q) PROVE StartInv'
  BY <1>6 DEF ProgramExits
<1>7. ASSUME NEW r \in Runs, Withdraw(r) PROVE StartInv'
  BY <1>7 DEF Withdraw
<1>8. ASSUME NEW w \in Workers, StopBegins(w) PROVE StartInv'
  BY <1>8 DEF StopBegins
<1>9. ASSUME NEW w \in Workers, StopEnds(w) PROVE StartInv'
  BY <1>9 DEF StopEnds, Ended
<1>10. ASSUME NEW w \in Workers, TakenAway(w) PROVE StartInv'
  BY <1>10 DEF TakenAway, Ended
<1>11. CASE UNCHANGED vars
  BY <1>11 DEF vars
<1> QED
  BY <1>1, <1>2, <1>3, <1>4, <1>5, <1>6, <1>7, <1>8, <1>9, <1>10, <1>11 DEF Next

-----------------------------------------------------------------------------
(* A worker's one run: only the request that took it stages or starts      *)
(* anything there.                                                         *)
Holding == {"begin", "caller", "grant", "await", "popen", "supervise", "kill", "clean", "answer", "finish"}
Holds(q) == pc[q] \in Holding \/ Started(q) \/ q \in tree

HoldInv ==
  /\ finished \subseteq claimed
  /\ \A q \in Requests : Holds(q) => target[q] \in claimed
  /\ \A p, q \in Requests : Holds(p) /\ Holds(q) /\ target[p] = target[q] => p = q

LEMMA HoldInit == ASSUME Init PROVE HoldInv
  BY DEF Init, HoldInv, Holds, Holding, Started

LEMMA HoldNext == ASSUME TypeOK, StartInv, HoldInv, [Next]_vars PROVE HoldInv'
<1> USE DEF StartInv, Places, HoldInv, Holds, Holding, Started, Unasked, Before, TypeOK,
        worker, sent, result, gateway
<1>1. ASSUME NEW q \in Requests, Handle(q) PROVE HoldInv'
  <2> USE DEF At, Goto, Answer, Refuse, Pcs, Deliver
  <2>1. CASE Reject(q) BY <2>1 DEF Reject
  <2>2. CASE Claim(q) BY <2>2 DEF Claim
  <2>3. CASE Reply(q) BY <2>3 DEF Reply
  <2>4. CASE Linger(q) BY <2>4 DEF Linger
  <2>5. CASE Stage(q) BY <2>5 DEF Stage
  <2>6. CASE CheckCaller(q) BY <2>6 DEF CheckCaller
  <2>7. CASE AskStart(q) BY <2>7 DEF AskStart
  <2>8. CASE AwaitGrant(q) BY <2>8 DEF AwaitGrant
  <2>9. CASE Popen(q) BY <2>9 DEF Popen
  <2>10. CASE Supervise(q) BY <2>10 DEF Supervise
  <2>11. CASE Kill(q) BY <2>11 DEF Kill
  <2>12. CASE Clean(q) BY <2>12 DEF Clean
  <2>13. CASE GiveAnswer(q) BY <2>13 DEF GiveAnswer
  <2>14. CASE Finish(q) BY <2>14 DEF Finish
  <2>15. CASE Exit(q) BY <2>15 DEF Exit, Ended
  <2> QED BY <1>1, <2>1, <2>2, <2>3, <2>4, <2>5, <2>6, <2>7, <2>8, <2>9, <2>10,
             <2>11, <2>12, <2>13, <2>14, <2>15 DEF Handle
<1>2. ASSUME NEW q \in Requests, NEW w \in Workers, NEW r \in Runs, Send(q, w, r) PROVE HoldInv'
  BY <1>2 DEF Send, Goto, Pcs
<1>3. ASSUME NEW q \in Requests, CallerLeaves(q) PROVE HoldInv'
  BY <1>3 DEF CallerLeaves
<1>4. ASSUME NEW q \in Requests, GrantStart(q) PROVE HoldInv'
  BY <1>4 DEF GrantStart
<1>5. ASSUME NEW q \in Requests, AskAnswered(q) PROVE HoldInv'
  BY <1>5 DEF AskAnswered
<1>6. ASSUME NEW q \in Requests, ProgramExits(q) PROVE HoldInv'
  BY <1>6 DEF ProgramExits
<1>7. ASSUME NEW r \in Runs, Withdraw(r) PROVE HoldInv'
  BY <1>7 DEF Withdraw
<1>8. ASSUME NEW w \in Workers, StopBegins(w) PROVE HoldInv'
  BY <1>8 DEF StopBegins
<1>9. ASSUME NEW w \in Workers, StopEnds(w) PROVE HoldInv'
  BY <1>9 DEF StopEnds, Ended
<1>10. ASSUME NEW w \in Workers, TakenAway(w) PROVE HoldInv'
  BY <1>10 DEF TakenAway, Ended
<1>11. CASE UNCHANGED vars
  BY <1>11 DEF vars
<1> QED
  BY <1>1, <1>2, <1>3, <1>4, <1>5, <1>6, <1>7, <1>8, <1>9, <1>10, <1>11 DEF Next

-----------------------------------------------------------------------------
(* What is answered: nothing before the program's end or a refusal, a      *)
(* refusal only where no program is, an outcome only of a program that is  *)
(* over.                                                                   *)
Unanswered == Before \union {"supervise", "kill"}

Answers(q) ==
  /\ pc[q] \in Unanswered => answer[q] = "none" /\ q \notin timedOut
  /\ pc[q] = "reply" => answer[q] \in Refusals
  /\ pc[q] = "kill" => Started(q) /\ (why[q] = "exited" => program[q] = "exited")
  /\ pc[q] = "supervise" => Started(q)
  /\ answer[q] \in Refusals => ~Started(q)
  /\ answer[q] = "outcome" => /\ program[q] \in {"exited", "killed"}
                              /\ q \in timedOut <=> program[q] = "killed"
  /\ heard[q] = "refusal" => answer[q] \in Refusals
  /\ heard[q] = "outcome" => answer[q] = "outcome" /\ pc[q] \in {"finish", "exit", "dead"}

AnswerInv == \A q \in Requests : Answers(q)

LEMMA AnswerInit == ASSUME Init PROVE AnswerInv
  BY DEF Init, AnswerInv, Answers, Unanswered, Before, Unasked, Refusals, Started

LEMMA AnswerNext == ASSUME TypeOK, StartInv, AnswerInv, [Next]_vars PROVE AnswerInv'
<1> USE DEF StartInv, Places, AnswerInv, Answers, Unanswered, Started, Unasked, Before, TypeOK,
        Refusals, worker, sent, result, gateway
<1>1. ASSUME NEW q \in Requests, Handle(q) PROVE AnswerInv'
  <2> USE DEF At, Goto, Answer, Refuse, Pcs, Deliver
  <2>1. CASE Reject(q) BY <2>1 DEF Reject
  <2>2. CASE Claim(q) BY <2>2 DEF Claim
  <2>3. CASE Reply(q) BY <2>3 DEF Reply
  <2>4. CASE Linger(q) BY <2>4 DEF Linger
  <2>5. CASE Stage(q) BY <2>5 DEF Stage
  <2>6. CASE CheckCaller(q) BY <2>6 DEF CheckCaller
  <2>7. CASE AskStart(q) BY <2>7 DEF AskStart
  <2>8. CASE AwaitGrant(q) BY <2>8 DEF AwaitGrant
  <2>9. CASE Popen(q) BY <2>9 DEF Popen
  <2>10. CASE Supervise(q) BY <2>10 DEF Supervise
  <2>11. CASE Kill(q) BY <2>11 DEF Kill
  <2>12. CASE Clean(q) BY <2>12 DEF Clean
  <2>13. CASE GiveAnswer(q) BY <2>13 DEF GiveAnswer
  <2>14. CASE Finish(q) BY <2>14 DEF Finish
  <2>15. CASE Exit(q) BY <2>15 DEF Exit, Ended
  <2> QED BY <1>1, <2>1, <2>2, <2>3, <2>4, <2>5, <2>6, <2>7, <2>8, <2>9, <2>10,
             <2>11, <2>12, <2>13, <2>14, <2>15 DEF Handle
<1>2. ASSUME NEW q \in Requests, NEW w \in Workers, NEW r \in Runs, Send(q, w, r) PROVE AnswerInv'
  BY <1>2 DEF Send, Goto, Pcs
<1>3. ASSUME NEW q \in Requests, CallerLeaves(q) PROVE AnswerInv'
  BY <1>3 DEF CallerLeaves
<1>4. ASSUME NEW q \in Requests, GrantStart(q) PROVE AnswerInv'
  BY <1>4 DEF GrantStart
<1>5. ASSUME NEW q \in Requests, AskAnswered(q) PROVE AnswerInv'
  BY <1>5 DEF AskAnswered
<1>6. ASSUME NEW q \in Requests, ProgramExits(q) PROVE AnswerInv'
  BY <1>6 DEF ProgramExits
<1>7. ASSUME NEW r \in Runs, Withdraw(r) PROVE AnswerInv'
  BY <1>7 DEF Withdraw
<1>8. ASSUME NEW w \in Workers, StopBegins(w) PROVE AnswerInv'
  BY <1>8 DEF StopBegins
<1>9. ASSUME NEW w \in Workers, StopEnds(w) PROVE AnswerInv'
  BY <1>9 DEF StopEnds, Ended
<1>10. ASSUME NEW w \in Workers, TakenAway(w) PROVE AnswerInv'
  BY <1>10 DEF TakenAway, Ended
<1>11. CASE UNCHANGED vars
  BY <1>11 DEF vars
<1> QED
  BY <1>1, <1>2, <1>3, <1>4, <1>5, <1>6, <1>7, <1>8, <1>9, <1>10, <1>11 DEF Next

-----------------------------------------------------------------------------
IInv == TypeOK /\ StartInv /\ HoldInv /\ AnswerInv

LEMMA Inductive == Spec => []IInv
<1>1. Init => IInv
  BY TypeInit, StartInit, HoldInit, AnswerInit DEF IInv
<1>2. IInv /\ [Next]_vars => IInv'
  BY TypeNext, StartNext, HoldNext, AnswerNext DEF IInv
<1> QED
  BY <1>1, <1>2, PTL DEF Spec

(* No program starts without the gateway's grant of its run's one start. *)
THEOREM StartsCorrect == Spec => []StartIsSpent
<1>1. IInv => StartIsSpent
  BY DEF IInv, StartInv, Spent, StartIsSpent
<1> QED
  BY <1>1, Inductive, PTL

(* A worker process serves one run. *)
THEOREM WorkersCorrect == Spec => []OneRunPerWorker
<1>1. IInv => OneRunPerWorker
  BY DEF IInv, HoldInv, Holds, OneRunPerWorker
<1> QED
  BY <1>1, Inductive, PTL

(* A refusal means that nothing was started; an outcome comes after the    *)
(* program's end and the removal of its tree, and tells who ended it.      *)
THEOREM AnswersCorrect == Spec => []AnswersAreTrue
<1>1. IInv => AnswersAreTrue
  BY DEF IInv, StartInv, Places, AnswerInv, Answers, AnswersAreTrue, RefusalMeansNoStart,
         OutcomeComesLast, TimedOutIsTrue
<1> QED
  BY <1>1, Inductive, PTL
-----------------------------------------------------------------------------
(* The refinement: seen through a run's spender, its phase and what the    *)
(* gateway knows of it.                                                    *)
PhaseBy(r) ==
  IF grant[r] = "open" THEN "open"
  ELSE IF grant[r] = "withdrawn" THEN "closed"
  ELSE IF Started(spender[r]) THEN "started"
  ELSE IF pc[spender[r]] \in {"await", "popen"} THEN "granted" ELSE "closed"
KnownBy(r) ==
  IF grant[r] = "withdrawn" THEN "never"
  ELSE IF grant[r] = "used" /\ heard[spender[r]] = "outcome" THEN "ran" ELSE "unknown"

LEMMA Seen == ASSUME IInv, NEW r \in Runs
              PROVE  PhaseOf(r) = PhaseBy(r) /\ KnownOf(r) = KnownBy(r)
  BY NoneAssumption
  DEF IInv, TypeOK, StartInv, Places, Spent, Grants, AnswerInv, Answers, Started, Unasked, Before,
      PhaseOf, KnownOf, PhaseBy, KnownBy, MayStart

LEMMA SeenNext == ASSUME IInv', NEW r \in Runs
                  PROVE  PhaseOf(r)' = PhaseBy(r)' /\ KnownOf(r)' = KnownBy(r)'
  BY NoneAssumption
  DEF IInv, TypeOK, StartInv, Places, Spent, Grants, AnswerInv, Answers, Started, Unasked, Before,
      PhaseOf, KnownOf, PhaseBy, KnownBy, MayStart

Same(r) == PhaseBy(r)' = PhaseBy(r) /\ KnownBy(r)' = KnownBy(r)

(* A step that changes no run's phase is a stutter of SingleStart. *)
LEMMA Stutters == ASSUME IInv, IInv', \A r \in Runs : Same(r)
                  PROVE  UNCHANGED Abstract!vars
<1>1. \A r \in Runs : PhaseOf(r)' = PhaseOf(r) /\ KnownOf(r)' = KnownOf(r)
  BY Seen, SeenNext, Zenon DEF Same
<1> QED
  BY <1>1 DEF Abstract!vars, Phase, Known

(* A step that changes one run's: what it is to SingleStart. *)
LEMMA Changes ==
  ASSUME IInv, IInv', NEW r \in Runs, \A s \in Runs \ {r} : Same(s)
  PROVE  /\ Phase' = [Phase EXCEPT ![r] = PhaseBy(r)']
         /\ Known' = [Known EXCEPT ![r] = KnownBy(r)']
         /\ Phase[r] = PhaseBy(r) /\ Known[r] = KnownBy(r)
<1>1. \A s \in Runs \ {r} : PhaseOf(s)' = PhaseOf(s) /\ KnownOf(s)' = KnownOf(s)
  BY Seen, SeenNext, Zenon DEF Same
<1>2. /\ PhaseOf(r) = PhaseBy(r) /\ KnownOf(r) = KnownBy(r)
      /\ PhaseOf(r)' = PhaseBy(r)' /\ KnownOf(r)' = KnownBy(r)'
  BY Seen, SeenNext, Zenon
<1> QED
  BY <1>1, <1>2 DEF Phase, Known

(* The changes there are: a grant, a start, giving up, a withdrawal, a     *)
(* report.                                                                 *)
Moves(r) ==
  \/ PhaseBy(r) = "open" /\ PhaseBy(r)' \in {"granted", "closed"} /\ KnownBy(r)' = KnownBy(r)
  \/ PhaseBy(r) = "granted" /\ PhaseBy(r)' \in {"started", "closed"} /\ KnownBy(r)' = KnownBy(r)
  \/ PhaseBy(r) = "open" /\ PhaseBy(r)' = "closed" /\ KnownBy(r)' = "never"
  \/ PhaseBy(r) = "started" /\ PhaseBy(r)' = "started" /\ KnownBy(r) = "unknown" /\ KnownBy(r)' = "ran"

LEMMA MoveImplements ==
  ASSUME IInv, IInv', NEW r \in Runs, \A s \in Runs \ {r} : Same(s), Moves(r) \/ Same(r)
  PROVE  [Abstract!Next]_(Abstract!vars)
<1>1. CASE Same(r)
  BY <1>1, Stutters
<1>2. CASE Moves(r)
  <2>1. /\ Phase' = [Phase EXCEPT ![r] = PhaseBy(r)']
        /\ Known' = [Known EXCEPT ![r] = KnownBy(r)']
        /\ Phase[r] = PhaseBy(r) /\ Known[r] = KnownBy(r)
    BY Changes
  <2>2. KnownBy(r)' = KnownBy(r) => Known' = Known
    BY <2>1 DEF Known
  <2>3. PhaseBy(r)' = PhaseBy(r) => Phase' = Phase
    BY <2>1 DEF Phase
  <2>4. \/ Abstract!Grant(r) \/ Abstract!Start(r) \/ Abstract!GiveUp(r)
        \/ Abstract!Withdraw(r) \/ Abstract!Report(r)
    BY <1>2, <2>1, <2>2, <2>3
    DEF Moves, Abstract!Grant, Abstract!Start, Abstract!GiveUp, Abstract!Withdraw, Abstract!Report,
        Abstract!Become
  <2> QED
    BY <2>4 DEF Abstract!Next
<1> QED
  BY <1>1, <1>2

(* A process that ends takes at most one granted run with it: the one its  *)
(* only holder was about to start.                                         *)
LEMMA EndedMoves ==
  ASSUME IInv, IInv', NEW w \in Workers, Ended(w),
         UNCHANGED <<sent, ask, answer, timedOut, grant, spender>>
  PROVE  [Abstract!Next]_(Abstract!vars)
<1> USE NoneAssumption DEF IInv, TypeOK, StartInv, Places, Spent, Grants, HoldInv, Holds, Holding,
        AnswerInv, Answers, Started, Unasked, Before, Ended, sent
<1>1. CASE \E r \in Runs : spender[r] # None /\ target[spender[r]] = w /\ pc[spender[r]] \in {"await", "popen"}
  <2>1. PICK r \in Runs : spender[r] # None /\ target[spender[r]] = w /\ pc[spender[r]] \in {"await", "popen"}
    BY <1>1
  <2>2. \A s \in Runs \ {r} : Same(s)
    BY <2>1 DEF Same, PhaseBy, KnownBy
  <2>3. Moves(r)
    BY <2>1 DEF Moves, PhaseBy, KnownBy
  <2> QED
    BY <2>2, <2>3, MoveImplements
<1>2. CASE \A r \in Runs : spender[r] # None /\ target[spender[r]] = w => pc[spender[r]] \notin {"await", "popen"}
  <2>1. \A s \in Runs : Same(s)
    BY <1>2 DEF Same, PhaseBy, KnownBy
  <2> QED
    BY <2>1, Stutters
<1> QED
  BY <1>1, <1>2

LEMMA StepImplements == ASSUME IInv, IInv', [Next]_vars PROVE [Abstract!Next]_(Abstract!vars)
<1> USE NoneAssumption DEF IInv, TypeOK, StartInv, Places, Spent, Grants, AnswerInv, Answers, Started,
        Unasked, Before, Unanswered, worker, sent, result, gateway
<1>1. ASSUME NEW q \in Requests, Handle(q) PROVE [Abstract!Next]_(Abstract!vars)
  <2> USE DEF At, Goto, Answer, Refuse, Pcs, Deliver
  <2>1. CASE Reject(q)
    <3>1. \A s \in Runs : Same(s)
      BY <2>1 DEF Reject, Same, PhaseBy, KnownBy
    <3> QED
      BY <3>1, Stutters
  <2>2. CASE Claim(q)
    <3>1. \A s \in Runs : Same(s)
      BY <2>2 DEF Claim, Same, PhaseBy, KnownBy
    <3> QED
      BY <3>1, Stutters
  <2>3. CASE Reply(q)
    <3>1. \A s \in Runs : Same(s)
      BY <2>3 DEF Reply, Same, PhaseBy, KnownBy
    <3> QED
      BY <3>1, Stutters
  <2>4. CASE Linger(q)
    <3>1. \A s \in Runs : Same(s)
      BY <2>4 DEF Linger, Same, PhaseBy, KnownBy
    <3> QED
      BY <3>1, Stutters
  <2>5. CASE Stage(q)
    <3>1. \A s \in Runs : Same(s)
      BY <2>5 DEF Stage, Same, PhaseBy, KnownBy
    <3> QED
      BY <3>1, Stutters
  <2>6. CASE CheckCaller(q)
    <3>1. \A s \in Runs : Same(s)
      BY <2>6 DEF CheckCaller, Same, PhaseBy, KnownBy
    <3> QED
      BY <3>1, Stutters
  <2>7. CASE AskStart(q)
    <3>1. \A s \in Runs : Same(s)
      BY <2>7 DEF AskStart, Same, PhaseBy, KnownBy
    <3> QED
      BY <3>1, Stutters
  <2>8. CASE AwaitGrant(q)
    <3>1. order[q] \in Runs
      BY <2>8 DEF AwaitGrant
    <3>2. \A s \in Runs \ {order[q]} : Same(s)
      BY <2>8, <3>1 DEF AwaitGrant, Same, PhaseBy, KnownBy
    <3>3. Moves(order[q]) \/ Same(order[q])
      BY <2>8, <3>1 DEF AwaitGrant, Moves, Same, PhaseBy, KnownBy
    <3> QED
      BY <3>1, <3>2, <3>3, MoveImplements
  <2>9. CASE Popen(q)
    <3>1. order[q] \in Runs
      BY <2>9 DEF Popen
    <3>2. \A s \in Runs \ {order[q]} : Same(s)
      BY <2>9, <3>1 DEF Popen, Same, PhaseBy, KnownBy
    <3>3. Moves(order[q]) \/ Same(order[q])
      BY <2>9, <3>1 DEF Popen, Moves, Same, PhaseBy, KnownBy
    <3> QED
      BY <3>1, <3>2, <3>3, MoveImplements
  <2>10. CASE Supervise(q)
    <3>1. \A s \in Runs : Same(s)
      BY <2>10 DEF Supervise, Same, PhaseBy, KnownBy
    <3> QED
      BY <3>1, Stutters
  <2>11. CASE Kill(q)
    <3>1. \A s \in Runs : Same(s)
      BY <2>11 DEF Kill, Same, PhaseBy, KnownBy
    <3> QED
      BY <3>1, Stutters
  <2>12. CASE Clean(q)
    <3>1. \A s \in Runs : Same(s)
      BY <2>12 DEF Clean, Same, PhaseBy, KnownBy
    <3> QED
      BY <3>1, Stutters
  <2>13. CASE GiveAnswer(q)
    <3>1. order[q] \in Runs
      BY <2>13 DEF GiveAnswer
    <3>2. \A s \in Runs \ {order[q]} : Same(s)
      BY <2>13, <3>1 DEF GiveAnswer, Same, PhaseBy, KnownBy
    <3>3. Moves(order[q]) \/ Same(order[q])
      BY <2>13, <3>1 DEF GiveAnswer, Moves, Same, PhaseBy, KnownBy
    <3> QED
      BY <3>1, <3>2, <3>3, MoveImplements
  <2>14. CASE Finish(q)
    <3>1. \A s \in Runs : Same(s)
      BY <2>14 DEF Finish, Same, PhaseBy, KnownBy
    <3> QED
      BY <3>1, Stutters
  <2>15. CASE Exit(q)
    BY <2>15, EndedMoves DEF Exit
  <2> QED BY <1>1, <2>1, <2>2, <2>3, <2>4, <2>5, <2>6, <2>7, <2>8, <2>9, <2>10,
             <2>11, <2>12, <2>13, <2>14, <2>15 DEF Handle
<1>2. ASSUME NEW q \in Requests, NEW w \in Workers, NEW r \in Runs, Send(q, w, r) PROVE [Abstract!Next]_(Abstract!vars)
  <2>1. \A s \in Runs : Same(s)
    BY <1>2 DEF Send, Goto, Pcs, Same, PhaseBy, KnownBy
  <2> QED
    BY <2>1, Stutters
<1>3. ASSUME NEW q \in Requests, CallerLeaves(q) PROVE [Abstract!Next]_(Abstract!vars)
  <2>1. \A s \in Runs : Same(s)
    BY <1>3 DEF CallerLeaves, Same, PhaseBy, KnownBy
  <2> QED
    BY <2>1, Stutters
<1>4. ASSUME NEW q \in Requests, GrantStart(q) PROVE [Abstract!Next]_(Abstract!vars)
  <2>1. order[q] \in Runs
    BY <1>4 DEF GrantStart
  <2>2. \A s \in Runs \ {order[q]} : Same(s)
    BY <1>4, <2>1 DEF GrantStart, Same, PhaseBy, KnownBy
  <2>3. Moves(order[q]) \/ Same(order[q])
    BY <1>4, <2>1 DEF GrantStart, Moves, Same, PhaseBy, KnownBy
  <2> QED
    BY <2>1, <2>2, <2>3, MoveImplements
<1>5. ASSUME NEW q \in Requests, AskAnswered(q) PROVE [Abstract!Next]_(Abstract!vars)
  <2>1. \A s \in Runs : Same(s)
    BY <1>5 DEF AskAnswered, Same, PhaseBy, KnownBy
  <2> QED
    BY <2>1, Stutters
<1>6. ASSUME NEW q \in Requests, ProgramExits(q) PROVE [Abstract!Next]_(Abstract!vars)
  <2>1. \A s \in Runs : Same(s)
    BY <1>6 DEF ProgramExits, Same, PhaseBy, KnownBy
  <2> QED
    BY <2>1, Stutters
<1>7. ASSUME NEW r \in Runs, Withdraw(r) PROVE [Abstract!Next]_(Abstract!vars)
  <2>1. r \in Runs
    BY <1>7 DEF Withdraw
  <2>2. \A s \in Runs \ {r} : Same(s)
    BY <1>7, <2>1 DEF Withdraw, Same, PhaseBy, KnownBy
  <2>3. Moves(r) \/ Same(r)
    BY <1>7, <2>1 DEF Withdraw, Moves, Same, PhaseBy, KnownBy
  <2> QED
    BY <2>1, <2>2, <2>3, MoveImplements
<1>8. ASSUME NEW w \in Workers, StopBegins(w) PROVE [Abstract!Next]_(Abstract!vars)
  <2>1. \A s \in Runs : Same(s)
    BY <1>8 DEF StopBegins, Same, PhaseBy, KnownBy
  <2> QED
    BY <2>1, Stutters
<1>9. ASSUME NEW w \in Workers, StopEnds(w) PROVE [Abstract!Next]_(Abstract!vars)
  <2>1. CASE Ended(w)
    BY <1>9, <2>1, EndedMoves DEF StopEnds
  <2>2. CASE UNCHANGED <<up, pc, heard, program, tree>>
    <3>1. \A s \in Runs : Same(s)
      BY <1>9, <2>2 DEF StopEnds, Same, PhaseBy, KnownBy
    <3> QED
      BY <3>1, Stutters
  <2> QED
    BY <1>9, <2>1, <2>2 DEF StopEnds
<1>10. ASSUME NEW w \in Workers, TakenAway(w) PROVE [Abstract!Next]_(Abstract!vars)
  BY <1>10, EndedMoves DEF TakenAway
<1>11. CASE UNCHANGED vars
  <2>1. \A s \in Runs : Same(s)
    BY <1>11 DEF vars, Same, PhaseBy, KnownBy
  <2> QED
    BY <2>1, Stutters
<1> QED
  BY <1>1, <1>2, <1>3, <1>4, <1>5, <1>6, <1>7, <1>8, <1>9, <1>10, <1>11 DEF Next

(* The workers implement SingleStart: each run starts at most once, only   *)
(* while granted, never after a withdrawal, and is known to have run only  *)
(* if it did.                                                              *)
THEOREM ImplementsCorrect == Spec => ImplementsSingleStart
<1>1. Init => Abstract!Init
  BY NoneAssumption DEF Init, Abstract!Init, Phase, Known, PhaseOf, KnownOf, Started
<1>2. IInv /\ IInv' /\ [Next]_vars => [Abstract!Next]_(Abstract!vars)
  BY StepImplements
<1> QED
  BY <1>1, <1>2, Inductive, PTL DEF Spec, ImplementsSingleStart, Abstract!Spec
=============================================================================
