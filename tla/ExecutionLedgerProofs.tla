------------------------ MODULE ExecutionLedgerProofs ------------------------
(* Theorems about ExecutionLedger, for every set of runs, of outcomes and of *)
(* workers and every bound of the queue, and about its place in MCProgress.  *)
EXTENDS MCProgress, SequenceTheorems, FiniteSetTheorems, TLAPS

-----------------------------------------------------------------------------
(* Jobs and sequences of jobs. *)

LEMMA JobFacts ==
  /\ \A f \in Frames : Start(f) \in Jobs /\ Start(f).kind = "start" /\ Start(f).frame = f
  /\ \A f \in Frames, ev \in Outcomes :
       /\ Finish(f, ev) \in Jobs /\ Finish(f, ev).kind = "finish" /\ Finish(f, ev).frame = f
       /\ \A g \in Frames : Start(g) # Finish(f, ev)
       /\ \A g \in Frames, e \in Outcomes : Finish(g, e) = Finish(f, ev) => g = f
  /\ \A f, g \in Frames : Start(f) = Start(g) => f = g
  /\ \A j \in Jobs : /\ j.frame \in Frames /\ j.kind \in {"start", "finish"}
                     /\ j.kind = "start" => j = Start(j.frame)
                     /\ j.kind = "finish" => \E ev \in Outcomes : j = Finish(j.frame, ev)
<1>1. \A f \in Frames : Start(f) \in Jobs /\ Start(f).kind = "start" /\ Start(f).frame = f
  BY DEF Start, Jobs
<1>2. \A f \in Frames, ev \in Outcomes :
        Finish(f, ev) \in Jobs /\ Finish(f, ev).kind = "finish" /\ Finish(f, ev).frame = f
  BY DEF Finish, Jobs
<1>3. \A f \in Frames, ev \in Outcomes :
       /\ \A g \in Frames : Start(g) # Finish(f, ev)
       /\ \A g \in Frames, e \in Outcomes : Finish(g, e) = Finish(f, ev) => g = f
  <2>1. ASSUME NEW f \in Frames, NEW ev \in Outcomes, NEW g \in Frames, Start(g) = Finish(f, ev)
        PROVE  FALSE
    BY <1>1, <1>2, <2>1
  <2>2. ASSUME NEW f \in Frames, NEW ev \in Outcomes, NEW g \in Frames, NEW e \in Outcomes,
               Finish(g, e) = Finish(f, ev)
        PROVE  g = f
    BY <1>2, <2>2
  <2> QED
    BY <2>1, <2>2
<1>4. \A f, g \in Frames : Start(f) = Start(g) => f = g
  BY <1>1
<1>5. ASSUME NEW j \in Jobs
      PROVE  /\ j.frame \in Frames /\ j.kind \in {"start", "finish"}
             /\ j.kind = "start" => j = Start(j.frame)
             /\ j.kind = "finish" => \E ev \in Outcomes : j = Finish(j.frame, ev)
  <2>1. CASE j \in [kind : {"start"}, frame : Frames, event : {"start"}]
    BY <2>1 DEF Start
  <2>2. CASE j \in [kind : {"finish"}, frame : Frames, event : Outcomes]
    <3>1. j.event \in Outcomes /\ j = Finish(j.frame, j.event)
      BY <2>2 DEF Finish
    <3> QED
      BY <2>2, <3>1
  <2> QED
    BY <2>1, <2>2 DEF Jobs
<1> QED
  BY <1>1, <1>2, <1>3, <1>4, <1>5

Items(s) == {s[i] : i \in 1..Len(s)}

\* A start stands in the queue once, and before its run's end.
Orderly(s) ==
  \A f \in Frames : \A i, k \in 1..Len(s) :
    /\ s[i] = Start(f) /\ s[k] = Start(f) => i = k
    /\ \A ev \in Outcomes : s[i] = Start(f) /\ s[k] = Finish(f, ev) => i < k

LEMMA Appended ==
  ASSUME NEW s \in Seq(Jobs), NEW j \in Jobs
  PROVE  LET t == Append(s, j) IN
         /\ t \in Seq(Jobs) /\ Len(t) = Len(s) + 1 /\ Len(s) \in Nat
         /\ t[Len(s) + 1] = j /\ \A i \in 1..Len(s) : t[i] = s[i]
         /\ \A k \in Jobs : k \in Items(t) <=> k \in Items(s) \/ k = j
<1> DEFINE t == Append(s, j)
<1>1. /\ t \in Seq(Jobs) /\ Len(t) = Len(s) + 1 /\ Len(s) \in Nat
      /\ t[Len(s) + 1] = j /\ \A i \in 1..Len(s) : t[i] = s[i]
  BY AppendProperties, LenProperties
<1> HIDE DEF t
<1>2. \A k \in Jobs : k \in Items(t) <=> k \in Items(s) \/ k = j
  <2>1. \A i : i \in 1..Len(t) <=> i \in 1..Len(s) \/ i = Len(s) + 1
    BY <1>1
  <2> QED
    BY <1>1, <2>1 DEF Items
<1> QED
  BY <1>1, <1>2 DEF t

LEMMA Taken ==
  ASSUME NEW s \in Seq(Jobs), s # <<>>
  PROVE  /\ Tail(s) \in Seq(Jobs) /\ Len(Tail(s)) = Len(s) - 1 /\ Len(s) \in Nat \ {0}
         /\ Head(s) \in Jobs /\ Head(s) = s[1]
         /\ \A i \in 1..Len(Tail(s)) : i + 1 \in 1..Len(s) /\ Tail(s)[i] = s[i + 1]
         /\ \A k \in Jobs : k \in Items(Tail(s)) => k \in Items(s)
         /\ \A k \in Jobs : k \in Items(s) => k \in Items(Tail(s)) \/ k = Head(s)
         /\ Head(s) \in Items(s)
<1>1. /\ Tail(s) \in Seq(Jobs) /\ Len(Tail(s)) = Len(s) - 1 /\ Len(s) \in Nat \ {0}
      /\ Head(s) \in Jobs /\ Head(s) = s[1]
      /\ \A i \in 1..Len(Tail(s)) : Tail(s)[i] = s[i + 1]
  BY HeadTailProperties, LenProperties, EmptySeq
<1>2. \A i \in 1..Len(Tail(s)) : i + 1 \in 1..Len(s)
  BY <1>1
<1>3. \A k \in Jobs : k \in Items(Tail(s)) => k \in Items(s)
  BY <1>1, <1>2 DEF Items
<1>4. ASSUME NEW k \in Jobs, k \in Items(s) PROVE k \in Items(Tail(s)) \/ k = Head(s)
  <2>1. PICK i \in 1..Len(s) : s[i] = k
    BY <1>4 DEF Items
  <2>2. CASE i = 1
    BY <1>1, <2>1, <2>2
  <2>3. CASE i # 1
    <3>1. i - 1 \in 1..Len(Tail(s)) /\ (i - 1) + 1 = i
      BY <1>1, <2>3
    <3>2. Tail(s)[i - 1] = s[i]
      BY <1>1, <3>1
    <3> QED
      BY <2>1, <3>1, <3>2 DEF Items
  <2> QED
    BY <2>2, <2>3
<1>5. Head(s) \in Items(s)
  BY <1>1 DEF Items
<1> QED
  BY <1>1, <1>2, <1>3, <1>4, <1>5

-----------------------------------------------------------------------------
(* The invariant: where the start and the end of a run can be.               *)
Queued == Items(queue)
Held   == {job[w] : w \in Workers}
Heard  == Items(ledger)
Posted == wire \cup Heard

HandInv ==
  \A w \in Workers :
    /\ step[w] = "idle" <=> job[w] = Nothing
    /\ step[w] = "describe" => job[w].kind = "start"
    /\ step[w] = "wait" => job[w].kind = "finish"

\* A start is in one place at a time, and is not delivered before its worker is
\* done with it.
StartInv ==
  \A f \in Frames :
    /\ Start(f) \in Queued => Start(f) \notin Held /\ Start(f) \notin Posted /\ f \notin delivered
    /\ \A w \in Workers : job[w] = Start(f) =>
         /\ f \notin delivered
         /\ \A v \in Workers : job[v] = Start(f) => v = w
         /\ step[w] = "describe" => Start(f) \notin Posted
    /\ Start(f) \in wire => Start(f) \notin Heard

\* Nothing of a run is anywhere before its time, and the start of a run under
\* way is queued, in hand or over.
RunInv ==
  \A f \in Frames :
    /\ run[f] = "new" =>
         /\ Start(f) \notin Queued /\ Start(f) \notin Held /\ Start(f) \notin Posted /\ f \notin delivered
    /\ run[f] # "new" => f \in delivered \/ Start(f) \in Queued \/ Start(f) \in Held
    /\ run[f] # "closed" => \A ev \in Outcomes :
         Finish(f, ev) \notin Queued /\ Finish(f, ev) \notin Held /\ Finish(f, ev) \notin Posted

\* A run's end leaves the queue after its start, and is posted while the start
\* may still arrive only when it was given up on.
OrderInv ==
  \A f \in Frames : \A ev \in Outcomes :
    /\ Finish(f, ev) \in Held \/ Finish(f, ev) \in Posted => Start(f) \notin Queued
    /\ Finish(f, ev) \in Posted /\ f \notin late => f \in delivered /\ Start(f) \notin wire

LateInv == \A f \in delivered : Start(f) \in wire => f \in late

Ended ==
  \A f \in Frames, ev \in Outcomes : \A i, k \in 1..Len(ledger) :
    i < k /\ ledger[i] = Finish(f, ev) /\ ledger[k] = Start(f) => f \in late

Inv == /\ TypeOK /\ HandInv /\ StartInv /\ Orderly(queue) /\ RunInv /\ OrderInv /\ LateInv
       /\ Ended

LEMMA InvInit == ASSUME Init PROVE Inv
<1>1. queue = <<>> /\ ledger = <<>> /\ \A j : j \notin Queued /\ j \notin Heard
  BY DEF Init, Queued, Heard, Items
<1>2. TypeOK
  <2>1. queue \in Seq(Jobs) /\ Len(queue) = 0 /\ ledger \in Seq(Jobs)
    BY <1>1, EmptySeq
  <2>2. Len(queue) <= QueueMax
    BY <2>1, QueueAssumption
  <2>3. /\ run \in [Frames -> {"new", "open", "closed"}]
        /\ job \in [Workers -> Jobs \cup {Nothing}]
        /\ step \in [Workers -> {"idle", "describe", "wait", "post"}]
        /\ delivered \in SUBSET Frames /\ wire \in SUBSET Jobs /\ finalizing \in BOOLEAN
        /\ late \in SUBSET Frames /\ lost \in SUBSET Jobs
    BY DEF Init
  <2> QED
    BY <2>1, <2>2, <2>3 DEF TypeOK
<1>3. HandInv
  BY DEF Init, HandInv
<1>4. \A j \in Jobs : j \notin Held /\ j \notin Posted
  BY <1>1, NothingAssumption DEF Init, Held, Posted
<1>5. StartInv
  BY <1>1, <1>4, JobFacts DEF StartInv, Init, Held
<1>6. RunInv
  BY <1>1, <1>4, JobFacts DEF RunInv, Init
<1>7. OrderInv /\ LateInv
  BY <1>1, <1>4, JobFacts DEF OrderInv, LateInv, Init
<1>8. Orderly(queue) /\ Ended
  BY <1>1 DEF Orderly, Ended
<1> QED
  BY <1>2, <1>3, <1>5, <1>6, <1>7, <1>8 DEF Inv

LEMMA InvImplies == ASSUME Inv PROVE TypeOK /\ TerminalFollowsStart
<1>1. /\ DOMAIN queue = 1..Len(queue) /\ DOMAIN ledger = 1..Len(ledger)
      /\ \A i \in DOMAIN ledger : ledger[i] \in Jobs
      /\ \A w \in Workers : job[w] \in Jobs \cup {Nothing}
  BY LenProperties DEF Inv, TypeOK
<1>2. EndAfterStart
  <2> SUFFICES ASSUME NEW i \in DOMAIN ledger, NEW j \in DOMAIN ledger, i < j,
                      ledger[i].kind = "finish", ledger[j].kind = "start",
                      ledger[i].frame = ledger[j].frame
               PROVE  ledger[i].frame \in late
    BY DEF EndAfterStart
  <2>1. ledger[i] \in Jobs /\ ledger[j] \in Jobs
    BY <1>1
  <2>2. PICK ev \in Outcomes : ledger[i] = Finish(ledger[i].frame, ev)
    BY <2>1, JobFacts
  <2>3. ledger[j] = Start(ledger[i].frame) /\ ledger[i].frame \in Frames
    BY <2>1, JobFacts
  <2> QED
    BY <1>1, <2>2, <2>3 DEF Inv, Ended
<1>3. NobodyWaitsForTheQueue
  <2> SUFFICES ASSUME NEW w \in Workers, Doing(w, "finish", "wait")
               PROVE  /\ \A i \in DOMAIN queue : queue[i] # Start(job[w].frame)
                      /\ job[w].frame \notin delivered =>
                           \E v \in Workers : job[v] = Start(job[w].frame)
    BY DEF NobodyWaitsForTheQueue
  <2> DEFINE f == job[w].frame
  <2>1. job[w] \in Jobs /\ job[w].kind = "finish"
    BY <1>1 DEF Doing
  <2>2. f \in Frames
    BY <2>1, JobFacts
  <2>3. PICK ev \in Outcomes : job[w] = Finish(f, ev)
    BY <2>1, JobFacts
  <2>4. Finish(f, ev) \in Held
    BY <2>3 DEF Held
  <2>5. Start(f) \notin Queued /\ run[f] = "closed"
    BY <2>2, <2>4 DEF Inv, OrderInv, RunInv
  <2>6. f \in delivered \/ Start(f) \in Held
    BY <2>2, <2>5 DEF Inv, RunInv
  <2> QED
    BY <1>1, <2>5, <2>6 DEF Queued, Heard, Items, Held
<1> QED
  BY <1>2, <1>3 DEF Inv, TerminalFollowsStart

-----------------------------------------------------------------------------
(* Every step preserves the invariant: first what the application puts.      *)

LEMMA QueueGrows ==
  ASSUME Inv, NEW j \in Jobs, Dispatch(j)
  PROVE  /\ queue' \in Seq(Jobs) /\ Len(queue') <= QueueMax /\ lost' \in SUBSET Jobs
         /\ \A k \in Jobs : k \in Queued' <=> k \in Queued \/ (Accepts /\ k = j)
         /\ (\A f \in Frames : j = Start(f) => j \notin Queued
                                 /\ \A ev \in Outcomes : Finish(f, ev) \notin Queued) => Orderly(queue')
<1>1. queue \in Seq(Jobs) /\ Len(queue) \in Nat /\ Len(queue) <= QueueMax
  BY LenProperties DEF Inv, TypeOK
<1>2. CASE ~Accepts
  BY <1>1, <1>2 DEF Dispatch, Inv, TypeOK, Queued
<1>3. CASE Accepts
  <2>1. queue' = Append(queue, j)
    BY <1>3 DEF Dispatch
  <2>2. /\ queue' \in Seq(Jobs) /\ Len(queue') = Len(queue) + 1
        /\ queue'[Len(queue) + 1] = j /\ \A i \in 1..Len(queue) : queue'[i] = queue[i]
        /\ \A k \in Jobs : k \in Queued' <=> k \in Queued \/ k = j
    BY <1>1, <2>1, Appended DEF Queued
  <2>3. Len(queue') <= QueueMax /\ lost' \in SUBSET Jobs
    BY <1>1, <1>3, <2>2, QueueAssumption DEF Accepts, Dispatch, Inv, TypeOK
  <2>4. ASSUME \A f \in Frames : j = Start(f) => j \notin Queued
                                 /\ \A ev \in Outcomes : Finish(f, ev) \notin Queued
        PROVE  Orderly(queue')
    <3> SUFFICES ASSUME NEW f \in Frames, NEW i \in 1..Len(queue'), NEW k \in 1..Len(queue'),
                        queue'[i] = Start(f)
                 PROVE  /\ queue'[k] = Start(f) => i = k
                        /\ \A ev \in Outcomes : queue'[k] = Finish(f, ev) => i < k
      BY DEF Orderly
    <3>1. CASE i \in 1..Len(queue) /\ k \in 1..Len(queue)
      BY <2>2, <3>1 DEF Inv, Orderly
    <3>2. CASE i = Len(queue) + 1 /\ k \in 1..Len(queue)
      BY <2>2, <2>4, <3>2 DEF Queued, Heard, Items
    <3>3. CASE i \in 1..Len(queue) /\ k = Len(queue) + 1
      BY <1>1, <2>2, <2>4, <3>3 DEF Queued, Heard, Items
    <3>4. CASE i = Len(queue) + 1 /\ k = Len(queue) + 1
      BY <2>2, <3>4, JobFacts
    <3> QED
      BY <1>1, <2>2, <3>1, <3>2, <3>3, <3>4
  <2> QED
    BY <1>3, <2>2, <2>3, <2>4
<1> QED
  BY <1>2, <1>3

LEMMA EmitStartStep == ASSUME Inv, NEW f \in Frames, EmitStart(f) PROVE Inv'
<1> USE JobFacts
<1>1. /\ run[f] = "new" /\ run' = [run EXCEPT ![f] = "open"] /\ Dispatch(Start(f))
      /\ delivered' = (IF Accepts THEN delivered ELSE delivered \cup {f})
      /\ UNCHANGED <<job, step, wire, ledger, finalizing, late>>
  BY DEF EmitStart
<1>2. /\ Start(f) \notin Queued /\ Start(f) \notin Held /\ Start(f) \notin Posted /\ f \notin delivered
      /\ \A ev \in Outcomes :
           Finish(f, ev) \notin Queued /\ Finish(f, ev) \notin Held /\ Finish(f, ev) \notin Posted
  BY <1>1 DEF Inv, RunInv
<1>3. /\ queue' \in Seq(Jobs) /\ Len(queue') <= QueueMax /\ lost' \in SUBSET Jobs
      /\ \A k \in Jobs : k \in Queued' <=> k \in Queued \/ (Accepts /\ k = Start(f))
      /\ Orderly(queue')
  <2>1. \A g \in Frames : Start(f) = Start(g) => g = f
    OBVIOUS
  <2> QED
    BY <1>1, <1>2, <2>1, QueueGrows
<1>4. run' \in [Frames -> {"new", "open", "closed"}] /\ run'[f] = "open"
      /\ \A g \in Frames \ {f} : run'[g] = run[g]
  BY <1>1 DEF Inv, TypeOK
<1>5. Held' = Held /\ Posted' = Posted /\ Heard' = Heard
  BY <1>1 DEF Held, Posted, Heard
<1>6. TypeOK'
  BY <1>1, <1>3, <1>4 DEF Inv, TypeOK
<1>7. HandInv' /\ Ended'
  BY <1>1 DEF Inv, HandInv, Ended
<1>8. StartInv'
  BY <1>1, <1>2, <1>3, <1>5 DEF Inv, StartInv, Held
<1>9. RunInv'
  BY <1>1, <1>2, <1>3, <1>4, <1>5 DEF Inv, RunInv
<1>10. OrderInv'
  BY <1>1, <1>2, <1>3, <1>5 DEF Inv, OrderInv
<1>11. LateInv'
  BY <1>1, <1>2 DEF Inv, LateInv, Posted
<1> QED
  BY <1>3, <1>6, <1>7, <1>8, <1>9, <1>10, <1>11 DEF Inv

LEMMA EmitFinishStep == ASSUME Inv, NEW f \in Frames, NEW ev \in Outcomes, EmitFinish(f, ev) PROVE Inv'
<1> USE JobFacts
<1>1. /\ run[f] = "open" /\ run' = [run EXCEPT ![f] = "closed"] /\ Dispatch(Finish(f, ev))
      /\ UNCHANGED <<job, step, delivered, wire, ledger, finalizing, late>>
  BY DEF EmitFinish
<1>2. \A g \in Frames : Start(g) # Finish(f, ev)
  OBVIOUS
<1>3. /\ queue' \in Seq(Jobs) /\ Len(queue') <= QueueMax /\ lost' \in SUBSET Jobs
      /\ \A k \in Jobs : k \in Queued' <=> k \in Queued \/ (Accepts /\ k = Finish(f, ev))
      /\ Orderly(queue')
  BY <1>1, <1>2, QueueGrows
<1>4. run' \in [Frames -> {"new", "open", "closed"}] /\ run'[f] = "closed"
      /\ \A g \in Frames \ {f} : run'[g] = run[g]
  BY <1>1 DEF Inv, TypeOK
<1>5. Held' = Held /\ Posted' = Posted /\ Heard' = Heard
  BY <1>1 DEF Held, Posted, Heard
<1>6. TypeOK'
  BY <1>1, <1>3, <1>4 DEF Inv, TypeOK
<1>7. HandInv' /\ Ended' /\ LateInv'
  BY <1>1 DEF Inv, HandInv, Ended, LateInv
<1>8. StartInv'
  BY <1>1, <1>2, <1>3, <1>5 DEF Inv, StartInv, Held
<1>9. RunInv'
  BY <1>1, <1>2, <1>3, <1>4, <1>5 DEF Inv, RunInv
<1>10. OrderInv'
  BY <1>1, <1>2, <1>3, <1>5 DEF Inv, OrderInv
<1> QED
  BY <1>3, <1>6, <1>7, <1>8, <1>9, <1>10 DEF Inv

LEMMA FinalizeStep == ASSUME Inv, Finalize PROVE Inv'
<1>1. /\ finalizing' = TRUE
      /\ UNCHANGED <<run, queue, job, step, delivered, wire, ledger, late, lost>>
  BY DEF Finalize
<1>2. TypeOK'
  BY <1>1 DEF Inv, TypeOK
<1>3. HandInv' /\ StartInv' /\ RunInv' /\ OrderInv' /\ LateInv' /\ Ended'
  BY <1>1 DEF Inv, HandInv, StartInv, RunInv, OrderInv, LateInv, Ended, Queued, Held, Heard, Posted
<1>4. Orderly(queue')
  BY <1>1 DEF Inv
<1> QED
  BY <1>2, <1>3, <1>4 DEF Inv

-----------------------------------------------------------------------------
(* What a worker does.                                                       *)

LEMMA TakeStep == ASSUME Inv, NEW w \in Workers, Take(w) PROVE Inv'
<1>0. /\ \A f \in Frames : Start(f) \in Jobs
      /\ \A f \in Frames, ev \in Outcomes : Finish(f, ev) \in Jobs
  BY JobFacts
<1> DEFINE h == Head(queue)
<1>1. /\ step[w] = "idle" /\ queue # <<>> /\ job' = [job EXCEPT ![w] = h]
      /\ step' = [step EXCEPT ![w] = IF h.kind = "start" THEN "describe" ELSE "wait"]
      /\ queue' = Tail(queue)
      /\ UNCHANGED <<run, delivered, wire, ledger, finalizing, late, lost>>
  BY DEF Take
<1>2. /\ queue' \in Seq(Jobs) /\ Len(queue') = Len(queue) - 1 /\ Len(queue) \in Nat \ {0}
      /\ h \in Jobs /\ h = queue[1]
      /\ \A i \in 1..Len(queue') : i + 1 \in 1..Len(queue) /\ queue'[i] = queue[i + 1]
      /\ \A k \in Jobs : k \in Queued' => k \in Queued
      /\ \A k \in Jobs : k \in Queued => k \in Queued' \/ k = h
      /\ h \in Queued
  BY <1>1, Taken DEF Inv, TypeOK, Queued
<1> HIDE DEF h
<1>3. /\ job[w] = Nothing /\ job'[w] = h
      /\ step'[w] = (IF h.kind = "start" THEN "describe" ELSE "wait")
      /\ \A v \in Workers \ {w} : job'[v] = job[v] /\ step'[v] = step[v]
      /\ job' \in [Workers -> Jobs \cup {Nothing}]
      /\ step' \in [Workers -> {"idle", "describe", "wait", "post"}]
  BY <1>1, <1>2 DEF Inv, TypeOK, HandInv
<1>4. /\ \A j \in Jobs : j \in Held' <=> j \in Held \/ j = h
      /\ Posted' = Posted /\ Heard' = Heard
  <2>1. \A j \in Jobs : j \in Held' <=> j \in Held \/ j = h
    BY <1>3, NothingAssumption DEF Held
  <2> QED
    BY <1>1, <2>1 DEF Posted, Heard
<1>5. TypeOK'
  BY <1>1, <1>2, <1>3, QueueAssumption DEF Inv, TypeOK
<1>6. HandInv'
  <2>1. h # Nothing /\ h.kind \in {"start", "finish"}
    BY <1>2, NothingAssumption, JobFacts
  <2>2. HandInv
    BY DEF Inv
  <2>3. /\ step'[w] # "idle" /\ job'[w] # Nothing
        /\ step'[w] = "describe" => job'[w].kind = "start"
        /\ step'[w] = "wait" => job'[w].kind = "finish"
    BY <1>3, <2>1
  <2>4. \A v \in Workers \ {w} : job'[v] = job[v] /\ step'[v] = step[v]
    BY <1>3
  <2> QED
    BY <2>2, <2>3, <2>4 DEF HandInv
<1>14. Orderly(queue)
  BY DEF Inv
<1>7. Orderly(queue')
  <2> SUFFICES ASSUME NEW f \in Frames, NEW i \in 1..Len(queue'), NEW k \in 1..Len(queue'),
                      queue'[i] = Start(f)
               PROVE  /\ queue'[k] = Start(f) => i = k
                      /\ \A ev \in Outcomes : queue'[k] = Finish(f, ev) => i < k
    BY DEF Orderly
  <2>1. /\ i + 1 \in 1..Len(queue) /\ queue'[i] = queue[i + 1]
        /\ k + 1 \in 1..Len(queue) /\ queue'[k] = queue[k + 1]
    BY <1>2
  <2>2. queue[k + 1] = Start(f) => i + 1 = k + 1
    BY <1>14, <2>1 DEF Orderly
  <2>3. \A ev \in Outcomes : queue[k + 1] = Finish(f, ev) => i + 1 < k + 1
    BY <1>14, <2>1 DEF Orderly
  <2> QED
    BY <1>2, <2>1, <2>2, <2>3
<1>8. \A f \in Frames : h = Start(f) => h \notin Queued'
  <2> SUFFICES ASSUME NEW f \in Frames, h = Start(f), NEW i \in 1..Len(queue'), queue'[i] = h
               PROVE  FALSE
    BY DEF Queued, Heard, Items
  <2>1. i + 1 \in 1..Len(queue) /\ 1 \in 1..Len(queue) /\ queue[i + 1] = Start(f) /\ queue[1] = Start(f)
    BY <1>2
  <2>2. i + 1 = 1
    BY <2>1 DEF Inv, Orderly
  <2> QED
    BY <1>2, <2>2
<1>9. \A f \in Frames, ev \in Outcomes : h = Finish(f, ev) => Start(f) \notin Queued'
  <2> SUFFICES ASSUME NEW f \in Frames, NEW ev \in Outcomes, h = Finish(f, ev),
                      NEW i \in 1..Len(queue'), queue'[i] = Start(f)
               PROVE  FALSE
    BY DEF Queued, Heard, Items
  <2>1. i + 1 \in 1..Len(queue) /\ 1 \in 1..Len(queue) /\ queue[i + 1] = Start(f) /\ queue[1] = Finish(f, ev)
    BY <1>2
  <2>2. i + 1 < 1
    BY <2>1 DEF Inv, Orderly
  <2> QED
    BY <1>2, <2>2
<1>15. StartInv
  BY DEF Inv
<1>10. StartInv'
  <2> SUFFICES ASSUME NEW f \in Frames
               PROVE  /\ Start(f) \in Queued' => Start(f) \notin Held' /\ Start(f) \notin Posted' /\ f \notin delivered
                      /\ \A v \in Workers : job'[v] = Start(f) =>
                           /\ f \notin delivered
                           /\ \A u \in Workers : job'[u] = Start(f) => u = v
                           /\ step'[v] = "describe" => Start(f) \notin Posted'
                      /\ Start(f) \in wire => Start(f) \notin Heard
    BY <1>1, <1>4 DEF StartInv
  <2>1. Start(f) \in Queued' => Start(f) \notin Held' /\ Start(f) \notin Posted' /\ f \notin delivered
    BY <1>0, <1>2, <1>4, <1>8, <1>15 DEF StartInv
  <2>2. CASE h = Start(f)
    <3>1. f \notin delivered /\ Start(f) \notin Held /\ Start(f) \notin Posted
      BY <1>2, <2>2 DEF Inv, StartInv
    <3>2. \A v \in Workers : job'[v] = Start(f) => v = w
      BY <1>3, <3>1 DEF Held
    <3> QED
      BY <1>0, <1>4, <1>15, <2>1, <3>1, <3>2 DEF StartInv, Posted
  <2>3. CASE h # Start(f)
    <3>1. \A v \in Workers : job'[v] = Start(f) => v # w /\ job[v] = Start(f) /\ step'[v] = step[v]
      BY <1>3, <2>3
    <3> QED
      BY <1>0, <1>4, <1>15, <2>1, <2>3, <3>1 DEF StartInv
  <2> QED
    BY <2>2, <2>3
<1>11. RunInv'
  <2>1. \A f \in Frames : run[f] = "new" => h # Start(f)
    BY <1>2 DEF Inv, RunInv
  <2>2. \A f \in Frames, ev \in Outcomes : run[f] # "closed" => h # Finish(f, ev)
    BY <1>2 DEF Inv, RunInv
  <2> QED
    BY <1>0, <1>1, <1>2, <1>4, <2>1, <2>2 DEF Inv, RunInv
<1>12. OrderInv'
  BY <1>0, <1>1, <1>2, <1>4, <1>9 DEF Inv, OrderInv
<1>13. LateInv' /\ Ended'
  BY <1>1 DEF Inv, LateInv, Ended
<1> QED
  BY <1>5, <1>6, <1>7, <1>10, <1>11, <1>12, <1>13 DEF Inv

\* A request leaves: of a start that was never posted, or of an end whose start
\* is over or given up on.
LEMMA PostStep ==
  ASSUME Inv, NEW w \in Workers, step[w] \in {"describe", "wait"}, Post(w), late' \in SUBSET Frames,
         late \subseteq late',
         job[w].kind = "finish" /\ job[w].frame \notin delivered => job[w].frame \in late'
  PROVE  Inv'
<1>0. /\ \A f \in Frames : Start(f) \in Jobs
      /\ \A f \in Frames, ev \in Outcomes : Finish(f, ev) \in Jobs
  BY JobFacts
<1> DEFINE h == job[w]
<1>1. /\ step' = [step EXCEPT ![w] = "post"] /\ wire' = wire \cup {h}
      /\ UNCHANGED <<run, queue, job, delivered, ledger, finalizing, lost>>
  BY DEF Post
<1>2. h \in Jobs /\ h \in Held
  BY DEF Inv, TypeOK, HandInv, Held
<1>3. \A f \in Frames : h = Start(f) => h \notin Posted /\ f \notin delivered
  BY JobFacts DEF Inv, StartInv, HandInv
<1> HIDE DEF h
<1>4. Held' = Held /\ Queued' = Queued /\ Heard' = Heard /\ Posted' = Posted \cup {h}
  BY <1>1 DEF Held, Posted, Queued, Heard
<1>5. TypeOK'
  BY <1>1, <1>2 DEF Inv, TypeOK
<1>6. HandInv'
  BY <1>1 DEF Inv, HandInv, TypeOK
<1>7. StartInv'
  <2> SUFFICES ASSUME NEW f \in Frames
               PROVE  /\ Start(f) \in Queued =>
                           Start(f) \notin Held /\ Start(f) \notin Posted' /\ f \notin delivered
                      /\ \A v \in Workers : job[v] = Start(f) =>
                           /\ f \notin delivered
                           /\ \A u \in Workers : job[u] = Start(f) => u = v
                           /\ step'[v] = "describe" => Start(f) \notin Posted'
                      /\ Start(f) \in wire' => Start(f) \notin Heard
    BY <1>1, <1>4 DEF StartInv
  <2>1. StartInv
    BY DEF Inv
  <2>2. Start(f) \in Queued => h # Start(f)
    BY <1>2, <2>1 DEF StartInv
  <2>3. ASSUME NEW v \in Workers, job[v] = Start(f), step'[v] = "describe"
        PROVE  step[v] = "describe" /\ h # Start(f)
    <3>1. v # w /\ step[v] = "describe"
      BY <1>1, <2>3 DEF Inv, TypeOK
    <3> QED
      BY <2>1, <2>3, <3>1 DEF StartInv, h
  <2>4. h = Start(f) => Start(f) \notin Heard
    BY <1>3 DEF Posted
  <2> QED
    BY <1>1, <1>4, <2>1, <2>2, <2>3, <2>4 DEF StartInv
<1>8. Orderly(queue')
  BY <1>1 DEF Inv
<1>9. RunInv'
  BY <1>1, <1>2, <1>4 DEF Inv, RunInv
<1>10. OrderInv'
  <2> SUFFICES ASSUME NEW f \in Frames, NEW ev \in Outcomes
               PROVE  /\ Finish(f, ev) \in Held \/ Finish(f, ev) \in Posted' => Start(f) \notin Queued
                      /\ Finish(f, ev) \in Posted' /\ f \notin late' =>
                           f \in delivered /\ Start(f) \notin wire'
    BY <1>1, <1>4 DEF OrderInv
  <2>1. OrderInv /\ LateInv
    BY DEF Inv
  <2>2. Finish(f, ev) \in Posted' => Finish(f, ev) \in Posted \/ h = Finish(f, ev)
    BY <1>4
  <2>3. Finish(f, ev) \in Posted' => Start(f) \notin Queued
    BY <1>2, <2>1, <2>2 DEF OrderInv
  <2>4. ASSUME Finish(f, ev) \in Posted', f \notin late'
        PROVE  f \in delivered /\ Start(f) \notin wire
    <3>1. CASE Finish(f, ev) \in Posted
      BY <2>1, <2>4, <3>1 DEF OrderInv
    <3>2. CASE h = Finish(f, ev)
      <4>1. h.kind = "finish" /\ h.frame = f
        BY <3>2, JobFacts
      <4>2. f \in delivered
        BY <2>4, <4>1 DEF h
      <4> QED
        BY <2>1, <2>4, <4>2 DEF LateInv
    <3> QED
      BY <2>2, <2>4, <3>1, <3>2
  <2>5. f \in delivered => Start(f) # h
    BY <1>3
  <2> QED
    BY <1>1, <2>1, <2>3, <2>4, <2>5 DEF OrderInv
<1>11. LateInv'
  <2>1. delivered \subseteq Frames /\ LateInv
    BY DEF Inv, TypeOK
  <2> QED
    BY <1>1, <1>3, <2>1 DEF LateInv
<1>12. Ended'
  BY <1>1 DEF Inv, Ended
<1> QED
  BY <1>5, <1>6, <1>7, <1>8, <1>9, <1>10, <1>11, <1>12 DEF Inv

\* A job ends: a start's end sets start_delivered, and when its post may still
\* arrive it has been given up on.
LEMMA EndStep ==
  ASSUME Inv, NEW w \in Workers, job[w] # Nothing, EndJob(w), lost' \in SUBSET Jobs,
         late' \in SUBSET Frames, late \subseteq late',
         job[w].kind = "start" /\ job[w] \in wire => job[w].frame \in late',
         UNCHANGED <<run, queue, wire, ledger, finalizing>>
  PROVE  Inv'
<1>0. /\ \A f \in Frames : Start(f) \in Jobs
      /\ \A f \in Frames, ev \in Outcomes : Finish(f, ev) \in Jobs
  BY JobFacts
<1> DEFINE h == job[w]
<1>1. /\ job' = [job EXCEPT ![w] = Nothing] /\ step' = [step EXCEPT ![w] = "idle"]
      /\ delivered' = (IF h.kind = "start" THEN delivered \cup {h.frame} ELSE delivered)
  BY DEF EndJob
<1>2. h \in Jobs /\ h \in Held
  BY DEF Inv, TypeOK, Held
<1>3. /\ job'[w] = Nothing /\ step'[w] = "idle"
      /\ \A v \in Workers \ {w} : job'[v] = job[v] /\ step'[v] = step[v]
      /\ job' \in [Workers -> Jobs \cup {Nothing}]
      /\ step' \in [Workers -> {"idle", "describe", "wait", "post"}]
  BY <1>1 DEF Inv, TypeOK
<1>4. /\ \A f \in Frames : f \in delivered' <=> f \in delivered \/ h = Start(f)
      /\ h.frame \in Frames /\ delivered' \subseteq Frames
  <2>1. h.frame \in Frames /\ (h.kind = "start" => h = Start(h.frame))
    BY <1>2, JobFacts
  <2>2. \A f \in Frames : h = Start(f) => h.kind = "start" /\ h.frame = f
    BY JobFacts
  <2>3. delivered \subseteq Frames
    BY DEF Inv, TypeOK
  <2> QED
    BY <1>1, <2>1, <2>2, <2>3
<1>5. /\ \A j \in Jobs : /\ j \in Held' => j \in Held
                         /\ j \in Held => j \in Held' \/ j = h
      /\ Queued' = Queued /\ Posted' = Posted /\ Heard' = Heard
  <2>1. \A j \in Jobs : /\ j \in Held' => j \in Held
                        /\ j \in Held => j \in Held' \/ j = h
    BY <1>3, NothingAssumption DEF Held
  <2> QED
    BY <2>1 DEF Queued, Posted, Heard
<1>6. \A f \in Frames : h = Start(f) => h \notin Queued /\ h \notin Held'
  BY <1>2, <1>3, NothingAssumption DEF Inv, StartInv, Held
<1>7. TypeOK'
  BY <1>3, <1>4 DEF Inv, TypeOK
<1>8. HandInv'
  BY <1>3 DEF Inv, HandInv
<1> HIDE DEF h
<1>9. StartInv'
  <2> SUFFICES ASSUME NEW f \in Frames
               PROVE  /\ Start(f) \in Queued => Start(f) \notin Held' /\ Start(f) \notin Posted' /\ f \notin delivered'
                      /\ \A v \in Workers : job'[v] = Start(f) =>
                           /\ f \notin delivered'
                           /\ \A u \in Workers : job'[u] = Start(f) => u = v
                           /\ step'[v] = "describe" => Start(f) \notin Posted'
                      /\ Start(f) \in wire => Start(f) \notin Heard
    BY <1>5 DEF StartInv
  <2>1. Start(f) \in Queued => Start(f) \notin Held' /\ Start(f) \notin Posted' /\ f \notin delivered'
    <3>1. Start(f) \in Jobs /\ (Start(f) \in Held' => Start(f) \in Held)
      BY <1>0, <1>5
    <3>2. f \in delivered' => f \in delivered \/ h = Start(f)
      BY <1>4
    <3>3. h = Start(f) => Start(f) \notin Queued
      BY <1>6
    <3> QED
      BY <1>5, <3>1, <3>2, <3>3 DEF Inv, StartInv
  <2>2. ASSUME NEW v \in Workers, job'[v] = Start(f)
        PROVE  /\ f \notin delivered'
               /\ \A u \in Workers : job'[u] = Start(f) => u = v
               /\ step'[v] = "describe" => Start(f) \notin Posted'
    <3>1. v # w /\ job[v] = Start(f) /\ step'[v] = step[v]
      BY <1>0, <1>3, <2>2, NothingAssumption
    <3>2. h # Start(f)
      BY <1>6, <2>2 DEF Held
    <3>3. \A u \in Workers : job'[u] = Start(f) => job[u] = Start(f)
      BY <1>0, <1>3, NothingAssumption
    <3> QED
      BY <1>4, <1>5, <3>1, <3>2, <3>3 DEF Inv, StartInv
  <2> QED
    BY <2>1, <2>2 DEF Inv, StartInv
<1>10. Orderly(queue')
  BY DEF Inv
<1>11. RunInv'
  <2> SUFFICES ASSUME NEW f \in Frames
               PROVE  /\ run[f] = "new" =>
                           /\ Start(f) \notin Queued /\ Start(f) \notin Held' /\ Start(f) \notin Posted' /\ f \notin delivered'
                      /\ run[f] # "new" => f \in delivered' \/ Start(f) \in Queued \/ Start(f) \in Held'
                      /\ run[f] # "closed" => \A ev \in Outcomes :
                           Finish(f, ev) \notin Queued /\ Finish(f, ev) \notin Held' /\ Finish(f, ev) \notin Posted'
    BY <1>5 DEF RunInv
  <2> QED
    <3>1. /\ Start(f) \in Jobs /\ \A ev \in Outcomes : Finish(f, ev) \in Jobs
          /\ Start(f) \in Held' => Start(f) \in Held
          /\ Start(f) \in Held => Start(f) \in Held' \/ h = Start(f)
          /\ \A ev \in Outcomes : Finish(f, ev) \in Held' => Finish(f, ev) \in Held
      BY <1>0, <1>5
    <3>2. f \in delivered' <=> f \in delivered \/ h = Start(f)
      BY <1>4
    <3>3. RunInv
      BY DEF Inv
    <3> QED
      BY <1>2, <1>5, <3>1, <3>2, <3>3 DEF RunInv
<1>12. OrderInv'
  <2> SUFFICES ASSUME NEW f \in Frames, NEW ev \in Outcomes
               PROVE  /\ Finish(f, ev) \in Held' \/ Finish(f, ev) \in Posted => Start(f) \notin Queued
                      /\ Finish(f, ev) \in Posted /\ f \notin late' =>
                           f \in delivered' /\ Start(f) \notin wire
    BY <1>5 DEF OrderInv
  <2>1. Finish(f, ev) \in Held' => Finish(f, ev) \in Held
    BY <1>0, <1>5
  <2>2. f \in delivered => f \in delivered'
    BY <1>4
  <2> QED
    BY <2>1, <2>2 DEF Inv, OrderInv
<1>13. LateInv'
  <2> SUFFICES ASSUME NEW f \in delivered', Start(f) \in wire PROVE f \in late'
    BY DEF LateInv
  <2>1. f \in Frames /\ (f \in delivered \/ h = Start(f))
    BY <1>4
  <2>2. CASE f \in delivered
    BY <2>2 DEF Inv, LateInv
  <2>3. CASE h = Start(f)
    <3>1. h.kind = "start" /\ h.frame = f
      BY <2>1, <2>3, JobFacts
    <3> QED
      BY <2>3, <3>1 DEF h
  <2> QED
    BY <2>1, <2>2, <2>3
<1>14. Ended'
  BY DEF Inv, Ended
<1> QED
  BY <1>7, <1>8, <1>9, <1>10, <1>11, <1>12, <1>13, <1>14 DEF Inv

LEMMA GiveUpStep ==
  ASSUME Inv, NEW w \in Workers, step[w] \in {"describe", "wait"}, GiveUp(w) PROVE Inv'
<1>1. /\ EndJob(w) /\ lost' = lost \cup {job[w]}
      /\ UNCHANGED <<run, queue, wire, ledger, finalizing, late>>
  BY DEF GiveUp
<1>2. job[w] \in Jobs /\ job[w] # Nothing
  BY NothingAssumption DEF Inv, HandInv, TypeOK
<1>3. job[w].kind = "start" => job[w] \notin wire
  BY <1>2, JobFacts DEF Inv, StartInv, HandInv, Posted
<1>4. late' \in SUBSET Frames /\ lost' \in SUBSET Jobs
  BY <1>1, <1>2 DEF Inv, TypeOK
<1> QED
  BY <1>1, <1>2, <1>3, <1>4, EndStep

LEMMA PostStartStep == ASSUME Inv, NEW w \in Workers, PostStart(w) PROVE Inv'
<1>1. step[w] = "describe" /\ job[w].kind = "start"
  BY DEF PostStart, Doing
<1>2. CASE Post(w) /\ UNCHANGED late
  <2>1. late' \in SUBSET Frames
    BY <1>2 DEF Inv, TypeOK
  <2> QED
    BY <1>1, <1>2, <2>1, PostStep
<1>3. CASE GiveUp(w)
  BY <1>1, <1>3, GiveUpStep
<1> QED
  BY <1>2, <1>3 DEF PostStart

LEMMA PostFinishStep == ASSUME Inv, NEW w \in Workers, PostFinish(w) PROVE Inv'
<1>1. step[w] = "wait" /\ job[w].kind = "finish" /\ job[w] # Nothing
  BY DEF PostFinish, Doing
<1>2. CASE /\ Post(w)
           /\ late' = IF job[w].frame \in delivered THEN late ELSE late \cup {job[w].frame}
  <2>1. job[w].frame \in Frames
    BY <1>1, JobFacts DEF Inv, TypeOK
  <2>2. late' \in SUBSET Frames /\ late \subseteq late'
        /\ (job[w].frame \notin delivered => job[w].frame \in late')
    BY <1>2, <2>1 DEF Inv, TypeOK
  <2> QED
    BY <1>1, <1>2, <2>2, PostStep
<1>3. CASE GiveUp(w)
  BY <1>1, <1>3, GiveUpStep
<1> QED
  BY <1>2, <1>3 DEF PostFinish

LEMMA AnsweredStep == ASSUME Inv, NEW w \in Workers, Answered(w) PROVE Inv'
<1>1. /\ step[w] = "post" /\ job[w] \in {ledger[i] : i \in DOMAIN ledger} /\ EndJob(w)
      /\ UNCHANGED <<run, queue, wire, ledger, finalizing, late, lost>>
  BY DEF Answered
<1>2. job[w] \in Jobs /\ job[w] # Nothing
  BY <1>1, NothingAssumption DEF Inv, HandInv, TypeOK
<1>3. job[w] \in Heard
  BY <1>1, LenProperties DEF Queued, Heard, Items, Inv, TypeOK
<1>4. job[w].kind = "start" => job[w] \notin wire
  BY <1>2, <1>3, JobFacts DEF Inv, StartInv
<1>5. late' \in SUBSET Frames /\ lost' \in SUBSET Jobs
  BY <1>1 DEF Inv, TypeOK
<1> QED
  BY <1>1, <1>2, <1>4, <1>5, EndStep

LEMMA TimesOutStep == ASSUME Inv, NEW w \in Workers, TimesOut(w) PROVE Inv'
<1>1. /\ step[w] = "post" /\ job[w] \in wire /\ EndJob(w)
      /\ late' = (IF job[w].kind = "start" THEN late \cup {job[w].frame} ELSE late)
      /\ UNCHANGED <<run, queue, wire, ledger, finalizing, lost>>
  BY DEF TimesOut
<1>2. job[w] \in Jobs /\ job[w] # Nothing /\ job[w].frame \in Frames
  BY <1>1, NothingAssumption, JobFacts DEF Inv, HandInv, TypeOK
<1>3. /\ late' \in SUBSET Frames /\ late \subseteq late' /\ lost' \in SUBSET Jobs
      /\ job[w].kind = "start" => job[w].frame \in late'
  BY <1>1, <1>2 DEF Inv, TypeOK
<1> QED
  BY <1>1, <1>2, <1>3, EndStep

LEMMA ArriveStep == ASSUME Inv, NEW m \in wire, Arrive(m) PROVE Inv'
<1>0. /\ \A f \in Frames : Start(f) \in Jobs
      /\ \A f \in Frames, ev \in Outcomes : Finish(f, ev) \in Jobs
  BY JobFacts
<1>1. /\ wire' = wire \ {m} /\ ledger' = Append(ledger, m)
      /\ UNCHANGED <<run, queue, job, step, delivered, finalizing, late, lost>>
  BY DEF Arrive
<1>2. m \in Jobs /\ m \in Posted
  BY DEF Inv, TypeOK, Posted
<1>3. /\ ledger' \in Seq(Jobs) /\ Len(ledger') = Len(ledger) + 1 /\ Len(ledger) \in Nat
      /\ ledger'[Len(ledger) + 1] = m /\ \A i \in 1..Len(ledger) : ledger'[i] = ledger[i]
      /\ \A k \in Jobs : k \in Heard' <=> k \in Heard \/ k = m
  BY <1>1, <1>2, Appended DEF Inv, TypeOK, Heard
<1>4. /\ Held' = Held /\ Queued' = Queued
      /\ \A j \in Jobs : j \in Posted' <=> j \in Posted
  <2>1. \A j \in Jobs : j \in Posted' <=> j \in Posted
    BY <1>1, <1>2, <1>3 DEF Posted, Heard
  <2> QED
    BY <1>1, <2>1 DEF Held, Queued
<1>5. TypeOK'
  BY <1>1, <1>3 DEF Inv, TypeOK
<1>6. HandInv'
  BY <1>1 DEF Inv, HandInv
<1>7. StartInv'
  <2>1. \A f \in Frames : Start(f) \in wire' => Start(f) \notin Heard'
    BY <1>0, <1>1, <1>3 DEF Inv, StartInv
  <2> QED
    BY <1>0, <1>1, <1>4, <2>1 DEF Inv, StartInv
<1>8. Orderly(queue')
  BY <1>1 DEF Inv
<1>9. RunInv'
  BY <1>0, <1>1, <1>4 DEF Inv, RunInv
<1>10. OrderInv' /\ LateInv'
  BY <1>0, <1>1, <1>4 DEF Inv, OrderInv, LateInv
<1>11. Ended'
  <2> SUFFICES ASSUME NEW f \in Frames, NEW ev \in Outcomes,
                      NEW i \in 1..Len(ledger'), NEW k \in 1..Len(ledger'),
                      i < k, ledger'[i] = Finish(f, ev), ledger'[k] = Start(f)
               PROVE  f \in late
    BY <1>1 DEF Ended
  <2>1. i \in 1..Len(ledger) /\ ledger[i] = Finish(f, ev)
    BY <1>3
  <2>2. Finish(f, ev) \in Posted
    BY <2>1 DEF Posted, Queued, Heard, Items
  <2>3. CASE k \in 1..Len(ledger)
    BY <1>3, <2>1, <2>3 DEF Inv, Ended
  <2>4. CASE k = Len(ledger) + 1
    BY <1>3, <2>2, <2>4 DEF Inv, OrderInv
  <2> QED
    BY <1>3, <2>3, <2>4
<1> QED
  BY <1>5, <1>6, <1>7, <1>8, <1>9, <1>10, <1>11 DEF Inv

LEMMA InvNext == ASSUME Inv, [Next]_vars PROVE Inv'
<1>1. ASSUME NEW f \in Frames, EmitStart(f) \/ \E ev \in Outcomes : EmitFinish(f, ev) PROVE Inv'
  BY <1>1, EmitStartStep, EmitFinishStep
<1>2. CASE Finalize
  BY <1>2, FinalizeStep
<1>3. ASSUME NEW w \in Workers, WorkerStep(w) PROVE Inv'
  BY <1>3, TakeStep, PostStartStep, PostFinishStep, AnsweredStep, TimesOutStep DEF WorkerStep
<1>4. ASSUME NEW m \in wire, Arrive(m) PROVE Inv'
  BY <1>4, ArriveStep
<1>5. CASE UNCHANGED vars
  <2>1. UNCHANGED <<run, queue, job, step, delivered, wire, ledger, finalizing, late, lost>>
    BY <1>5 DEF vars
  <2>2. TypeOK' /\ HandInv' /\ Ended' /\ LateInv' /\ Orderly(queue')
    BY <2>1 DEF Inv, TypeOK, HandInv, Ended, LateInv
  <2>3. StartInv' /\ RunInv' /\ OrderInv'
    BY <2>1 DEF Inv, StartInv, RunInv, OrderInv, Queued, Held, Heard, Posted
  <2> QED
    BY <2>2, <2>3 DEF Inv
<1> QED
  BY <1>1, <1>2, <1>3, <1>4, <1>5 DEF Next

LEMMA InvAlways == Spec => []Inv
<1> QED
  BY InvInit, InvNext, PTL DEF Spec

-----------------------------------------------------------------------------
(* The theorems. *)

\* Every variable keeps its type, and the queue its bound, whatever is put
\* while it is full (execution.py:288-323).
THEOREM TypeCorrect == Spec => []TypeOK
BY InvAlways, InvImplies, PTL

\* The gateway hears of a run's end before its start only when the bounded wait
\* ran out or the start's post timed out, and a worker that waits always waits
\* for a start another worker has in hand: however many workers there are,
\* they never all wait for a start still queued (execution.py:366-413).
THEOREM OrderCorrect == Spec => []TerminalFollowsStart
BY InvAlways, InvImplies, PTL

-----------------------------------------------------------------------------
(* The same, and discovery's mark, beside the parts that share no state with *)
(* them: each step of the composition is a step of a part or leaves it alone. *)

LEMMA LedgerAlone == SpecOfAll => Spec
<1>1. InitOfAll => Init
  BY DEF InitOfAll
<1>2. [NextOfAll]_all => [Next]_vars
  BY DEF NextOfAll, Alone, all, telemetry
<1>3. QED BY <1>1, <1>2, PTL DEF SpecOfAll, Spec

LEMMA ReportsAlone == SpecOfAll => Reports!Spec
<1>1. InitOfAll => Reports!Init
  BY DEF InitOfAll
<1>2. [NextOfAll]_all => [Reports!Next]_(Reports!vars)
  <2>1. UNCHANGED reporting => UNCHANGED Reports!vars
    BY DEF reporting, Reports!vars, Reports!local, Reports!jobs, Reports!env
  <2>2. NextOfAll => Reports!Next \/ UNCHANGED reporting
    BY DEF NextOfAll, Alone
  <2>3. UNCHANGED all => UNCHANGED reporting
    BY DEF all
  <2>4. QED BY <2>1, <2>2, <2>3
<1>3. QED BY <1>1, <1>2, PTL DEF SpecOfAll, Reports!Spec

\* Two threads that report one manifest, as run boundaries and in the
\* background, leave no mark without an acknowledgement or a report that will
\* take it back, and the gateway hears of runs in order, whatever telemetry and
\* credentials do meanwhile (registry.py, discover; execution.py:366-413).
THEOREM ProgressCorrect == SpecOfAll => [](TerminalFollowsStart /\ MarkHasOwner)
<1>1. Reports!IsFiniteSet({r1, r2}) /\ Reports!IsFiniteSet({p1, p2, p3})
  <2>1. \A x, y, z : IsFiniteSet({x, y, z})
    <3> TAKE x, y, z
    <3>1. IsFiniteSet(({} \union {x}) \union {y})
      BY FS_EmptySet, FS_AddElement
    <3>2. IsFiniteSet((({} \union {x}) \union {y}) \union {z})
      BY <3>1, FS_AddElement
    <3>3. {x, y, z} = (({} \union {x}) \union {y}) \union {z}
      OBVIOUS
    <3>4. QED BY <3>2, <3>3
  <2>2. {r1, r2} = {r1, r2, r2}
    OBVIOUS
  <2>3. IsFiniteSet({r1, r2}) /\ IsFiniteSet({p1, p2, p3})
    BY <2>1, <2>2
  <2>4. QED BY <2>3 DEF Reports!IsFiniteSet, IsFiniteSet
<1>2. Nothing \notin {p1, p2, p3} \union {} \union {k1}
  BY AbsentAssumption
<1>3. Reports!Spec => []Reports!MarkHasOwner
  BY <1>1, <1>2, Reports!MarksCorrect
<1>4. Reports!MarkHasOwner => MarkHasOwner
  BY DEF MarkHasOwner
<1>5. QED BY <1>3, <1>4, LedgerAlone, ReportsAlone, OrderCorrect, PTL
=============================================================================
