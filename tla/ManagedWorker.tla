----------------------------- MODULE ManagedWorker -----------------------------
(***************************************************************************)
(* The single-use workers of remote managed execution                      *)
(* (agentic/managed_remote.py): the gateway posts an approved run to a     *)
(* worker's /run; the worker claims its one run, stages the bundle, asks   *)
(* the gateway for the run's one start, starts the program, supervises it, *)
(* answers and exits.  The platform can take an instance away at any       *)
(* moment, callers leave, answers get lost.                                *)
(*                                                                         *)
(* A request is one connection with the thread that handles it.  Requests  *)
(* that never reach _serve_run's claim are refused in one step.            *)
(***************************************************************************)
EXTENDS Integers, FiniteSets

CONSTANTS
  Workers,  \* worker processes (instances)
  Requests, \* connections to /run
  Runs,     \* approved runs, each with one start
  None,     \* no worker, no run, no request
  MaxTaken  \* bound: how often the platform stops an instance or takes one away

ASSUME NoneAssumption == None \notin Workers \union Requests \union Runs
ASSUME MaxTakenAssumption == MaxTaken \in Nat

VARIABLES
  claimed,  \* workers whose single run is taken (_claimed)
  finished, \* finished
  stopping, \* stopping
  signal,   \* where stop() is in each worker's main thread
  up,       \* workers whose process exists
  pc,       \* where the handler of each request is
  target,   \* the worker each request is sent to
  order,    \* the run it orders
  caller,   \* whether its caller is still connected
  ask,      \* the thread that asks the gateway for the start
  program,  \* the program this request started
  tree,     \* requests whose staged directory exists
  why,      \* how supervision ended
  answer,   \* what the handler decided to answer
  timedOut, \* the outcome's timed_out
  heard,    \* what the caller got: "waiting", "outcome", "refusal", "silence"
  grant,    \* gateway: each run's start, "open", "used" or "withdrawn"
  spender,  \* history: the request that used it
  taken     \* how often the bounded steps happened

worker  == <<claimed, finished, stopping, signal, up>>
sent    == <<target, order>>
result  == <<why, answer, timedOut>>
gateway == <<grant, spender>>
vars    == <<worker, pc, sent, caller, ask, program, tree, result, heard, gateway, taken>>

Pcs == {"new", "claim", "begin", "caller", "grant", "await", "popen", "supervise",
        "kill", "clean", "answer", "finish", "exit", "reply", "linger", "done", "dead"}
Refusals == {"worker_busy", "launch_failed", "start_not_granted", "invalid_request"}

Goto(q, label) == pc' = [pc EXCEPT ![q] = label]
Answer(q, a)   == answer' = [answer EXCEPT ![q] = a]
Refuse(q, a)   == Answer(q, a) /\ Goto(q, "clean")
At(q, label)   == pc[q] = label /\ target[q] \in up

Init ==
  /\ claimed = {} /\ finished = {} /\ stopping = {} /\ up = Workers
  /\ signal = [w \in Workers |-> "none"]
  /\ pc = [q \in Requests |-> "new"]
  /\ target = [q \in Requests |-> None]
  /\ order = [q \in Requests |-> None]
  /\ caller = [q \in Requests |-> "there"]
  /\ ask = [q \in Requests |-> "none"]
  /\ program = [q \in Requests |-> "none"]
  /\ tree = {}
  /\ why = [q \in Requests |-> "none"]
  /\ answer = [q \in Requests |-> "none"]
  /\ timedOut = {}
  /\ heard = [q \in Requests |-> "waiting"]
  /\ grant = [r \in Runs |-> "open"]
  /\ spender = [r \in Runs |-> None]
  /\ taken = 0

-----------------------------------------------------------------------------
(* The process ends: every thread of it, every connection to it and what   *)
(* is left of its program, whose container goes with it.                   *)
Ended(w) ==
  /\ up' = up \ {w}
  /\ pc' = [q \in Requests |->
              IF target[q] = w /\ pc[q] # "done" THEN "dead" ELSE pc[q]]
  /\ heard' = [q \in Requests |->
                 IF target[q] = w /\ heard[q] = "waiting" THEN "silence" ELSE heard[q]]
  /\ program' = [q \in Requests |->
                   IF target[q] = w /\ program[q] = "running" THEN "killed" ELSE program[q]]
  /\ tree' = {q \in tree : target[q] # w}

-----------------------------------------------------------------------------
(* The gateway posts a run: also again, to the same worker or another one. *)
Send(q, w, r) ==
  /\ pc[q] = "new"
  /\ w \in up
  /\ target' = [target EXCEPT ![q] = w]
  /\ order' = [order EXCEPT ![q] = r]
  /\ Goto(q, "claim")
  /\ UNCHANGED <<worker, caller, ask, program, tree, result, heard, gateway, taken>>

(* After a request that ended without an answer it withdraws the start. *)
Withdraw(r) ==
  /\ grant[r] = "open"
  /\ \E q \in Requests : order[q] = r /\ heard[q] = "silence"
  /\ grant' = [grant EXCEPT ![r] = "withdrawn"]
  /\ UNCHANGED <<worker, pc, sent, caller, ask, program, tree, result, heard, spender, taken>>

(* The caller closes its connection, or a hop between does. *)
CallerLeaves(q) ==
  /\ pc[q] # "new" /\ caller[q] = "there" /\ heard[q] = "waiting"
  /\ caller' = [caller EXCEPT ![q] = "gone"]
  /\ heard' = [heard EXCEPT ![q] = "silence"]
  /\ UNCHANGED <<worker, pc, sent, ask, program, tree, result, gateway, taken>>

-----------------------------------------------------------------------------
(* _serve_run: a request that is no valid order is refused before the      *)
(* claim; the first valid one takes the process's single run.              *)
Reject(q) ==
  /\ At(q, "claim")
  /\ Answer(q, "invalid_request") /\ Goto(q, "reply")
  /\ UNCHANGED <<worker, sent, caller, ask, program, tree, why, timedOut, heard, gateway, taken>>

ClaimUnlessFinished(q) == \* a mutant: claim() looks at finished, there is no lock
  LET w == target[q] IN
  /\ At(q, "claim")
  /\ IF w \in finished
     THEN Answer(q, "worker_busy") /\ Goto(q, "reply") /\ UNCHANGED claimed
     ELSE claimed' = claimed \union {w} /\ Goto(q, "begin") /\ UNCHANGED answer
  /\ UNCHANGED <<finished, stopping, signal, up, sent, caller, ask, program, tree,
                 why, timedOut, heard, gateway, taken>>

Claim(q) ==
  LET w == target[q] IN
  /\ At(q, "claim")
  /\ IF w \in claimed
     THEN Answer(q, "worker_busy") /\ Goto(q, "reply") /\ UNCHANGED claimed
     ELSE claimed' = claimed \union {w} /\ Goto(q, "begin") /\ UNCHANGED answer
  /\ UNCHANGED <<finished, stopping, signal, up, sent, caller, ask, program, tree,
                 why, timedOut, heard, gateway, taken>>

Deliver(q, what) ==
  heard' = [heard EXCEPT ![q] = IF caller[q] = "there" THEN what ELSE @]

Reply(q) ==
  /\ At(q, "reply")
  /\ Deliver(q, "refusal")
  /\ Goto(q, IF answer[q] = "worker_busy" THEN "linger" ELSE "done")
  /\ UNCHANGED <<worker, sent, caller, ask, program, tree, result, gateway, taken>>

(* A used-up process that is still here after a busy answer goes. *)
Linger(q) ==
  /\ At(q, "linger")
  /\ Goto(q, IF target[q] \in finished THEN "exit" ELSE "done")
  /\ UNCHANGED <<worker, sent, caller, ask, program, tree, result, heard, gateway, taken>>

-----------------------------------------------------------------------------
StageNamesReason(q) == \* a mutant: a refusal the gateway does not know
  /\ At(q, "begin")
  /\ \/ /\ target[q] \notin stopping
        /\ tree' = tree \union {q} /\ Goto(q, "caller") /\ UNCHANGED answer
     \/ /\ Refuse(q, IF target[q] \in stopping THEN "worker_stopping" ELSE "launch_failed")
        /\ UNCHANGED tree
  /\ UNCHANGED <<worker, sent, caller, ask, program, why, timedOut, heard, gateway, taken>>

(* _attempt: stage the bundle, look at the caller, ask for the start. *)
Stage(q) ==
  /\ At(q, "begin")
  /\ \/ /\ target[q] \notin stopping
        /\ tree' = tree \union {q} /\ Goto(q, "caller") /\ UNCHANGED answer
     \/ Refuse(q, "launch_failed") /\ UNCHANGED tree
  /\ UNCHANGED <<worker, sent, caller, ask, program, why, timedOut, heard, gateway, taken>>

CheckCaller(q) ==
  /\ At(q, "caller")
  /\ Goto(q, IF caller[q] = "gone" THEN "clean" ELSE "grant")
  /\ UNCHANGED <<worker, sent, caller, ask, program, tree, result, heard, gateway, taken>>

(* Asking uses the start up, so an instance that is leaving does not ask.  *)
AskStart(q) ==
  /\ At(q, "grant")
  /\ \/ /\ target[q] \in stopping
        /\ Refuse(q, "start_not_granted") /\ UNCHANGED ask
     \/ /\ target[q] \notin stopping
        /\ ask' = [ask EXCEPT ![q] = "sent"] /\ Goto(q, "await") /\ UNCHANGED answer
     \/ /\ target[q] \notin stopping   \* no thread to ask with
        /\ Refuse(q, "launch_failed") /\ UNCHANGED ask
  /\ UNCHANGED <<worker, sent, caller, program, tree, why, timedOut, heard, gateway, taken>>

(* The question reaches the gateway, whatever became of the worker by then. *)
GrantStart(q) ==
  LET r == order[q] IN
  /\ ask[q] = "sent"
  /\ IF grant[r] = "open"
     THEN /\ grant' = [grant EXCEPT ![r] = "used"]
          /\ spender' = [spender EXCEPT ![r] = q]
          /\ ask' = [ask EXCEPT ![q] = "granted"]
     ELSE ask' = [ask EXCEPT ![q] = "no"] /\ UNCHANGED gateway
  /\ UNCHANGED <<worker, pc, sent, caller, program, tree, result, heard, taken>>

AskAnsweredHopefully(q) == \* a mutant: a question that failed counts as a yes
  /\ target[q] \in up
  /\ ask[q] \in {"sent", "granted"} /\ ask' = [ask EXCEPT ![q] = "yes"]
  /\ UNCHANGED <<worker, pc, sent, caller, program, tree, result, heard, gateway, taken>>

(* The answer arrives at the asking thread, or the question or answer is lost. *)
AskAnswered(q) ==
  /\ target[q] \in up
  /\ \/ ask[q] = "granted" /\ ask' = [ask EXCEPT ![q] = "yes"]
     \/ ask[q] \in {"sent", "granted"} /\ ask' = [ask EXCEPT ![q] = "no"]
  /\ UNCHANGED <<worker, pc, sent, caller, program, tree, result, heard, gateway, taken>>

AwaitGrantInTime(q) == \* a mutant: no answer in time counts as a yes
  LET w == target[q] IN
  /\ At(q, "await")
  /\ IF ask[q] # "no" /\ w \notin stopping
     THEN Goto(q, "popen") /\ UNCHANGED answer
     ELSE Refuse(q, "start_not_granted")
  /\ UNCHANGED <<worker, sent, caller, ask, program, tree, why, timedOut, heard, gateway, taken>>

(* _start_granted waits: only a yes in time, in an instance that stays, counts. *)
AwaitGrant(q) ==
  LET w == target[q] IN
  /\ At(q, "await")
  /\ \/ /\ ask[q] = "yes" /\ w \notin stopping
        /\ Goto(q, "popen") /\ UNCHANGED answer
     \/ /\ ask[q] \in {"yes", "no"} /\ (ask[q] = "no" \/ w \in stopping)
        /\ Refuse(q, "start_not_granted")
     \/ /\ ask[q] \in {"sent", "granted"}   \* _GRANT_SECONDS passed, or stopping
        /\ Refuse(q, "start_not_granted")
  /\ UNCHANGED <<worker, sent, caller, ask, program, tree, why, timedOut, heard, gateway, taken>>

Popen(q) ==
  /\ At(q, "popen")
  /\ \/ /\ program' = [program EXCEPT ![q] = "running"]
        /\ Goto(q, "supervise") /\ UNCHANGED answer
     \/ Refuse(q, "launch_failed") /\ UNCHANGED program
  /\ UNCHANGED <<worker, sent, caller, ask, tree, why, timedOut, heard, gateway, taken>>

ProgramExits(q) ==
  /\ program[q] = "running"
  /\ program' = [program EXCEPT ![q] = "exited"]
  /\ UNCHANGED <<worker, pc, sent, caller, ask, tree, result, heard, gateway, taken>>

SuperviseInTheTry(q) == \* a mutant: a failure to supervise is answered as a failed launch
  /\ At(q, "supervise")
  /\ \E end \in {"exited", "stopped", "abandoned", "failed"} :
       /\ end = "exited" => program[q] = "exited"
       /\ end = "abandoned" => caller[q] = "gone"
       /\ why' = [why EXCEPT ![q] = end]
       /\ IF end = "failed" THEN Refuse(q, "launch_failed")
          ELSE Goto(q, "kill") /\ UNCHANGED answer
  /\ UNCHANGED <<worker, sent, caller, ask, program, tree, timedOut, heard, gateway, taken>>

(* _supervise's loop ends: the exit was noticed, the deadline passed or    *)
(* the instance is leaving, the caller left; or no thread could be made.   *)
Supervise(q) ==
  /\ At(q, "supervise")
  /\ \E end \in {"exited", "stopped", "abandoned", "failed"} :
       /\ end = "exited" => program[q] = "exited"
       /\ end = "abandoned" => caller[q] = "gone"
       /\ why' = [why EXCEPT ![q] = end]
  /\ Goto(q, "kill")
  /\ UNCHANGED <<worker, sent, caller, ask, program, tree, answer, timedOut, heard, gateway, taken>>

KillAtDeadline(q) == \* a mutant: timed_out does not look at how the program ended
  /\ At(q, "kill")
  /\ program' = [program EXCEPT ![q] = IF @ = "running" THEN "killed" ELSE @]
  /\ Answer(q, IF why[q] \in {"exited", "stopped"} THEN "outcome" ELSE "none")
  /\ timedOut' = IF why[q] = "stopped" THEN timedOut \union {q} ELSE timedOut
  /\ Goto(q, "clean")
  /\ UNCHANGED <<worker, sent, caller, ask, tree, why, heard, gateway, taken>>

(* The group is killed on every way out of the loop; the outcome says      *)
(* whether the worker stopped the program part-way.                        *)
Kill(q) ==
  LET after == IF program[q] = "running" THEN "killed" ELSE program[q] IN
  /\ At(q, "kill")
  /\ program' = [program EXCEPT ![q] = after]
  /\ Answer(q, IF why[q] \in {"exited", "stopped"} THEN "outcome" ELSE "none")
  /\ timedOut' = IF why[q] = "stopped" /\ after = "killed"
                 THEN timedOut \union {q} ELSE timedOut
  /\ Goto(q, "clean")
  /\ UNCHANGED <<worker, sent, caller, ask, tree, why, heard, gateway, taken>>

-----------------------------------------------------------------------------
CleanAfterwards(q) == \* a mutant: the tree is left to the end of the process
  /\ At(q, "clean")
  /\ Goto(q, "answer")
  /\ UNCHANGED <<worker, sent, caller, ask, program, tree, result, heard, gateway, taken>>

(* The end of the accepted run: the tree goes before the answer, the       *)
(* process after it.                                                       *)
Clean(q) ==
  /\ At(q, "clean")
  /\ tree' = tree \ {q}
  /\ Goto(q, "answer")
  /\ UNCHANGED <<worker, sent, caller, ask, program, result, heard, gateway, taken>>

GiveAnswer(q) ==
  /\ At(q, "answer")
  /\ CASE answer[q] = "none"    -> UNCHANGED heard
       [] answer[q] = "outcome" -> Deliver(q, "outcome")
       [] OTHER                 -> Deliver(q, "refusal")
  /\ Goto(q, "finish")
  /\ UNCHANGED <<worker, sent, caller, ask, program, tree, result, gateway, taken>>

Finish(q) ==
  /\ At(q, "finish")
  /\ finished' = finished \union {target[q]}
  /\ Goto(q, "exit")
  /\ UNCHANGED <<claimed, stopping, signal, up, sent, caller, ask, program, tree,
                 result, heard, gateway, taken>>

Exit(q) ==
  /\ At(q, "exit")
  /\ Ended(target[q])
  /\ UNCHANGED <<claimed, finished, stopping, signal, sent, caller, ask, result, gateway, taken>>

-----------------------------------------------------------------------------
(* SIGTERM or SIGINT, perhaps repeated: stop() in the main thread.  An idle *)
(* process takes its own run, so that nobody else can, and leaves at once.  *)
StopBegins(w) ==
  /\ taken < MaxTaken /\ signal[w] # "stop" /\ w \in up
  /\ taken' = taken + 1
  /\ stopping' = stopping \union {w}
  /\ signal' = [signal EXCEPT ![w] = "stop"]
  /\ UNCHANGED <<claimed, finished, up, pc, sent, caller, ask, program, tree, result,
                 heard, gateway>>

StopEndsIdle(w) == \* a mutant: an idle process takes its run and stays
  /\ signal[w] = "stop" /\ w \in up
  /\ signal' = [signal EXCEPT ![w] = "done"]
  /\ claimed' = claimed \union {w}
  /\ UNCHANGED <<finished, stopping, up, pc, heard, program, tree, sent, caller, ask, result,
                 gateway, taken>>

StopEnds(w) ==
  /\ signal[w] = "stop" /\ w \in up
  /\ signal' = [signal EXCEPT ![w] = "done"]
  /\ claimed' = claimed \union {w}
  /\ finished' = IF w \in claimed THEN finished ELSE finished \union {w}
  /\ IF w \in claimed /\ w \notin finished
     THEN UNCHANGED <<up, pc, heard, program, tree>>
     ELSE Ended(w)
  /\ UNCHANGED <<stopping, sent, caller, ask, result, gateway, taken>>

(* The platform takes the instance without asking, or it crashes. *)
TakenAway(w) ==
  /\ taken < MaxTaken /\ w \in up
  /\ taken' = taken + 1
  /\ Ended(w)
  /\ UNCHANGED <<claimed, finished, stopping, signal, sent, caller, ask, result, gateway>>

-----------------------------------------------------------------------------
Handle(q) ==
  \/ Reject(q) \/ Claim(q) \/ Reply(q) \/ Linger(q)
  \/ Stage(q) \/ CheckCaller(q) \/ AskStart(q) \/ AwaitGrant(q) \/ Popen(q)
  \/ Supervise(q) \/ Kill(q)
  \/ Clean(q) \/ GiveAnswer(q) \/ Finish(q) \/ Exit(q)
Next ==
  \/ \E q \in Requests :
       \/ \E w \in Workers, r \in Runs : Send(q, w, r)
       \/ CallerLeaves(q)
       \/ Handle(q)
       \/ GrantStart(q) \/ AskAnswered(q) \/ ProgramExits(q)
  \/ \E r \in Runs : Withdraw(r)
  \/ \E w \in Workers : StopBegins(w) \/ StopEnds(w) \/ TakenAway(w)

Spec == Init /\ [][Next]_vars
(* The worker's own threads run: every wait of a handler is bounded (the   *)
(* request's read, the grant's 15 s, the run's deadline).  Neither the     *)
(* program nor the gateway, the caller or the platform owes anything.      *)
FairSpec ==
  /\ Spec
  /\ \A q \in Requests : WF_vars(Handle(q))
  /\ \A w \in Workers : WF_vars(StopEnds(w))

-----------------------------------------------------------------------------
(* Every variable keeps its type; every answer is one the gateway knows.   *)
TypeOK ==
  /\ claimed \subseteq Workers /\ finished \subseteq Workers
  /\ stopping \subseteq Workers /\ up \subseteq Workers
  /\ signal \in [Workers -> {"none", "stop", "done"}]
  /\ pc \in [Requests -> Pcs]
  /\ target \in [Requests -> Workers \union {None}]
  /\ order \in [Requests -> Runs \union {None}]
  /\ caller \in [Requests -> {"there", "gone"}]
  /\ ask \in [Requests -> {"none", "sent", "granted", "yes", "no"}]
  /\ program \in [Requests -> {"none", "running", "exited", "killed"}]
  /\ tree \subseteq Requests /\ timedOut \subseteq Requests
  /\ why \in [Requests -> {"none", "exited", "stopped", "abandoned", "failed"}]
  /\ answer \in [Requests -> Refusals \union {"none", "outcome"}]
  /\ heard \in [Requests -> {"waiting", "outcome", "refusal", "silence"}]
  /\ grant \in [Runs -> {"open", "used", "withdrawn"}]
  /\ spender \in [Runs -> Requests \union {None}]
  /\ taken \in 0..MaxTaken

Started(q) == program[q] # "none"

(* A program was started only by the request whose question the gateway    *)
(* answered with the run's one start: so no run starts twice, and a run    *)
(* whose start was withdrawn never started and never will                  *)
(* (managed_remote's docstring).                                           *)
StartIsSpent ==
  \A q \in Requests : Started(q) => spender[order[q]] = q

(* A process accepts one run: no two requests stage or start anything in   *)
(* the same worker, and a finished worker has its run taken (claim, stop). *)
OneRunPerWorker ==
  /\ finished \subseteq claimed
  /\ \A p, q \in Requests :
       p # q /\ target[p] = target[q] =>
         ~(Started(p) \/ p \in tree) \/ ~(Started(q) \/ q \in tree)

(* Every answer that is not an outcome means that this request started     *)
(* nothing (_refusal), now and, being an answer, for good.                 *)
RefusalMeansNoStart ==
  \A q \in Requests : heard[q] = "refusal" => ~Started(q)

(* Once the gateway has the outcome the program is over and its tree has   *)
(* been removed (_attempt's finally).                                      *)
OutcomeComesLast ==
  \A q \in Requests : heard[q] = "outcome" => program[q] \in {"exited", "killed"} /\ q \notin tree

(* The gateway is told that a program was cut short exactly when the       *)
(* worker's kill, and not its own exit in that moment, ended it            *)
(* (_supervise's timed_out).                                               *)
TimedOutIsTrue ==
  \A q \in Requests : heard[q] = "outcome" => (q \in timedOut <=> program[q] = "killed")

(* What the gateway hears is true: a refusal of a run that never started,  *)
(* an outcome of one that is over and cleared away, with who ended it      *)
(* (_attempt, _supervise).                                                 *)
AnswersAreTrue == RefusalMeansNoStart /\ OutcomeComesLast /\ TimedOutIsTrue

(* A worker whose run was taken or that was told to stop leaves, whatever  *)
(* becomes of the run, its caller and the gateway (_execute, stop).        *)
UsedUpLeaves == \A w \in Workers : w \in claimed \union stopping ~> w \notin up

(* What all of it promises about each run: see SingleStart. *)
MayStart(r) ==
  /\ spender[r] # None
  /\ pc[spender[r]] \in {"await", "popen"}

PhaseOf(r) ==
  CASE \E q \in Requests : order[q] = r /\ Started(q) -> "started"
    [] grant[r] = "open"                                -> "open"
    [] grant[r] = "used" /\ MayStart(r)                 -> "granted"
    [] OTHER                                            -> "closed"
KnownOf(r) ==
  CASE \E q \in Requests : order[q] = r /\ heard[q] = "outcome" -> "ran"
    [] grant[r] = "withdrawn"                                   -> "never"
    [] OTHER                                                    -> "unknown"

Phase == [r \in Runs |-> PhaseOf(r)]
Known == [r \in Runs |-> KnownOf(r)]
Abstract == INSTANCE SingleStart WITH phase <- Phase, known <- Known

(* Every behaviour of the workers and the gateway is one in which each run *)
(* starts at most once, only while granted, never after a withdrawal, and  *)
(* is known to have run only if it did.                                    *)
ImplementsSingleStart == Abstract!Spec
=============================================================================
