--------------------------- MODULE DiscoveryProofs ---------------------------
(* Theorems about Discovery, for every number of threads, manifests, slots *)
(* and marks.                                                              *)
EXTENDS Discovery, FiniteSetTheorems, TLAPS

(* The gateway's answers only matter to the proofs through this: what the  *)
(* code accepts as a report is what the gateway means by one.              *)
LEMMA AcceptedIsAcknowledged ==
  ASSUME NEW reply \in Replies, Accepted(reply)
  PROVE  Acknowledges(reply)
  BY DEF Replies, Accepted, Acknowledges

(* _should_report only ever removes marks to make room. *)
LEMMA RoomType ==
  ASSUME seen \in [Keys -> MarkStates], NEW s \in RoomFor
  PROVE  /\ s \in [Keys -> MarkStates]
         /\ \A k \in Keys : s[k] = "fresh" => seen[k] = "fresh"
  BY DEF RoomFor, DropOld, Evicted, Marked, MarkStates

LEMMA TypeInit == ASSUME Init PROVE TypeOK
  BY LimitsAssumption
  DEF Init, TypeOK, MarkStates, FlightStates, ReporterPcs, AsyncPcs, NoCall, NewCall, Calls, Results, JobPcs

(* What a reporter's step leaves of the calls of all reporters. *)
LEMMA ReturnKeeps ==
  ASSUME call \in [Reporters -> Calls], NEW r \in Reporters, NEW label, NEW result \in Results,
         Return(r, label, result)
  PROVE  /\ call' \in [Reporters -> Calls]
         /\ call'[r].key = call[r].key /\ call'[r].flight = None
         /\ call'[r].mode = call[r].mode /\ call'[r].result = result
         /\ \A q \in Reporters \ {r} : call'[q] = call[q]
         /\ pc' = [pc EXCEPT ![r] = label]
  BY DEF Return, Goto, Calls

LEMMA HoldKeeps ==
  ASSUME call \in [Reporters -> Calls], NEW r \in Reporters, NEW f \in Flights,
         call' = [call EXCEPT ![r].flight = f]
  PROVE  /\ call' \in [Reporters -> Calls]
         /\ call'[r].key = call[r].key /\ call'[r].flight = f
         /\ call'[r].mode = call[r].mode /\ call'[r].result = call[r].result
         /\ \A q \in Reporters \ {r} : call'[q] = call[q]
  BY DEF Calls

LEMMA ReplaceKeeps ==
  ASSUME call \in [Reporters -> Calls], NEW r \in Reporters, NEW c,
         c \in Calls, call' = [call EXCEPT ![r] = c]
  PROVE  /\ call' \in [Reporters -> Calls]
         /\ call'[r] = c
         /\ \A q \in Reporters \ {r} : call'[q] = call[q]
  OBVIOUS

LEMMA TypeNext == ASSUME TypeOK, [Next]_vars PROVE TypeOK'
<1> USE LimitsAssumption DEF TypeOK
<1>1. ASSUME NEW r \in Reporters, CallRun(r) PROVE TypeOK'
  <2>1. PICK o \in Objects \union {None}, k \in Keys, result \in {"native", "known", "none"} :
          /\ call' = [call EXCEPT ![r] = NewCall("run", o, k, result)]
          /\ pc' = [pc EXCEPT ![r] = IF result = "none" THEN "check" ELSE "running"]
    BY <1>1, Zenon DEF CallRun, Goto
  <2>2. NewCall("run", o, k, result) \in Calls /\ NewCall("run", o, k, result).key = k
    BY DEF NewCall, Calls, Results
  <2>3. /\ call' \in [Reporters -> Calls] /\ call'[r].key \in Keys
        /\ \A q \in Reporters \ {r} : call'[q] = call[q]
    BY <2>1, <2>2, ReplaceKeeps, Zenon
  <2>4. QED
    BY <1>1, <2>1, <2>3 DEF CallRun, ReporterPcs, SyncPcs, AsyncPcs, jobs, env
<1>2. ASSUME NEW r \in Reporters, CallBackground(r) PROVE TypeOK'
  <2>1. PICK k \in Keys : call' = [call EXCEPT ![r] = NewCall("background", None, k, "none")]
    BY <1>2 DEF CallBackground
  <2>2. /\ NewCall("background", None, k, "none") \in Calls
        /\ NewCall("background", None, k, "none").key = k
    BY DEF NewCall, Calls, Results
  <2>3. /\ call' \in [Reporters -> Calls] /\ call'[r].key \in Keys
        /\ \A q \in Reporters \ {r} : call'[q] = call[q]
    BY <2>1, <2>2, ReplaceKeeps, Zenon
  <2>4. QED
    BY <1>2, <2>1, <2>3 DEF CallBackground, Goto, ReporterPcs, SyncPcs, AsyncPcs, jobs, env
<1>3. ASSUME NEW r \in Reporters, ReporterStep(r) PROVE TypeOK'
  <2> USE DEF Goto, Results, ReporterPcs, SyncPcs, AsyncPcs, jobs, env
  <2>1. CASE Check(r) BY <2>1, SMTT(30) DEF Check, Return, Calls
  <2>2. CASE ShouldReport(r)
    <3> DEFINE k == call[r].key
    <3>1. CASE Fresh(k) BY <2>2, <3>1 DEF ShouldReport
    <3>2. CASE ~Fresh(k)
      <4>1. PICK s \in RoomFor : seen' = [s EXCEPT ![k] = "fresh"]
        BY <2>2, <3>2 DEF ShouldReport
      <4>2. seen' \in [Keys -> MarkStates]
        BY <4>1, RoomType DEF MarkStates
      <4>3. CASE call[r].mode = "run" BY <2>2, <3>2, <4>2, <4>3 DEF ShouldReport
      <4>4. CASE call[r].mode # "run"
        <5> DEFINE f == ANewFlight
        <5>1. f \in Flights
          BY <2>2, <3>2, <4>4 DEF ShouldReport, ANewFlight
        <5>2. /\ call' = [call EXCEPT ![r].flight = f] /\ pc' = [pc EXCEPT ![r] = "spawn"]
              /\ reportFlights' = [reportFlights EXCEPT ![k] = f]
              /\ flight' = [flight EXCEPT ![f] = "open"]
              /\ pc[r] = "mark"
              /\ UNCHANGED <<inflight, jobs, captured, marker, acked, env>>
          BY <2>2, <3>2, <4>4 DEF ShouldReport
        <5> HIDE DEF f
        <5>3. call' \in [Reporters -> Calls] /\ call'[r].key \in Keys /\ call'[r].flight = f
              /\ \A q \in Reporters \ {r} : call'[q] = call[q]
          BY <5>1, <5>2, HoldKeeps
        <5>4. flight' \in [Flights -> FlightStates]
              /\ reportFlights' \in [Keys -> Flights \union {None}]
          BY <5>1, <5>2 DEF FlightStates
        <5>5. QED BY <4>2, <5>1, <5>2, <5>3, <5>4
      <4>5. QED BY <4>3, <4>4
    <3>3. QED BY <3>1, <3>2
  <2>3. CASE Lookup(r)
    <3> DEFINE k == call[r].key
    <3>1. CASE pc'[r] = "record" BY <2>3, <3>1, ReturnKeeps DEF Lookup
    <3>2. CASE pc'[r] # "record"
      <4>1. /\ reportFlights[k] \in Flights /\ pc[r] = "lookup"
            /\ call' = [call EXCEPT ![r].flight = reportFlights[k]]
            /\ pc' = [pc EXCEPT ![r] = "wait"] /\ UNCHANGED captured
        BY <2>3, <3>2, ReturnKeeps DEF Lookup, Pending
      <4>2. QED BY <2>3, <4>1, HoldKeeps, ZenonT(40) DEF Lookup
    <3>3. QED BY <3>1, <3>2
  <2>4. CASE Await(r) BY <2>4, ReturnKeeps DEF Await
  <2>5. CASE SyncPost(r) BY <2>5 DEF SyncPost, Acknowledged, Calls
  <2>6. CASE SyncSettle(r) BY <2>6 DEF SyncSettle, MarkStates
  <2>7. CASE Record(r)
    <3>1. marker' \in [Objects -> Keys \union {None}] BY <2>7 DEF Record
    <3>2. NoCall \in Calls BY DEF NoCall, NewCall, Calls, Results
    <3>3. CASE UNCHANGED call BY <2>7, <3>1, <3>3 DEF Record
    <3>4. CASE call' = [call EXCEPT ![r] = NoCall] /\ pc' = [pc EXCEPT ![r] = "idle"]
      BY <2>7, <3>1, <3>2, <3>4, ReplaceKeeps DEF Record
    <3>5. QED BY <2>7, <3>3, <3>4 DEF Record
  <2>8. CASE AcquireSlot(r) BY <2>8 DEF AcquireSlot
  <2>9. CASE StartThread(r)
    <3>1. CASE pc'[r] = "record"
      BY <2>9, <3>1, ReturnKeeps DEF StartThread, JobPcs
    <3>2. CASE pc'[r] # "record"
      <4>1. pc' = [pc EXCEPT ![r] = "unslot"] /\ UNCHANGED <<call, jobs>>
        BY <2>9, <3>2, ReturnKeeps DEF StartThread
      <4>2. QED BY <2>9, <4>1 DEF StartThread
    <3>3. QED BY <3>1, <3>2
  <2>10. CASE Unslot(r) BY <2>10 DEF Unslot, ReleaseSlot
  <2>11. CASE Unmark(r) BY <2>11 DEF Unmark, MarkStates
  <2>12. CASE Close(r) BY <2>12 DEF Close, Complete, FlightStates
  <2>13. CASE Pop(r) BY <2>13, ReturnKeeps DEF Pop, PopFlight
  <2>14. QED
    BY <1>3, <2>1, <2>2, <2>3, <2>4, <2>5, <2>6, <2>7, <2>8, <2>9, <2>10, <2>11,
       <2>12, <2>13 DEF ReporterStep
<1>4. ASSUME NEW r \in Reporters, Finish(r) \/ Interrupt(r) PROVE TypeOK'
  <2>1. NoCall \in Calls BY DEF NoCall, NewCall, Calls, Results
  <2>2. QED
    BY <1>4, <2>1, ReplaceKeeps
    DEF Finish, Interrupt, Goto, ReporterPcs, SyncPcs, AsyncPcs, jobs, env
<1>5. ASSUME NEW f \in Flights, JobStep(f) PROVE TypeOK'
  <2> USE DEF JobPcs, local, env
  <2>1. CASE JobPost(f) BY <2>1 DEF JobPost, Acknowledged
  <2>2. CASE JobSettle(f) BY <2>2 DEF JobSettle, MarkStates
  <2>3. CASE JobClose(f) BY <2>3 DEF JobClose, Complete, FlightStates
  <2>4. CASE JobPop(f) BY <2>4 DEF JobPop, PopFlight
  <2>5. CASE JobRelease(f) BY <2>5 DEF JobRelease, ReleaseSlot
  <2>6. QED BY <1>5, <2>1, <2>2, <2>3, <2>4, <2>5 DEF JobStep
<1>6. ASSUME NEW k \in Keys, Age(k) PROVE TypeOK'
  BY <1>6 DEF Age, MarkStates, local, jobs
<1>7. CASE ResetDedupe BY <1>7 DEF ResetDedupe, MarkStates, FlightStates, local, jobs
<1>8. CASE FlipSecurity BY <1>8 DEF FlipSecurity, local, jobs
<1>9. CASE UNCHANGED vars BY <1>9 DEF vars, local, jobs, env
<1>10. QED BY <1>1, <1>2, <1>3, <1>4, <1>5, <1>6, <1>7, <1>8, <1>9 DEF Next

(* Every variable of the reporters keeps its type. *)
THEOREM TypeCorrect == Spec => []TypeOK
<1>1. Init => TypeOK BY TypeInit
<1>2. TypeOK /\ [Next]_vars => TypeOK' BY TypeNext
<1>3. QED BY <1>1, <1>2, PTL DEF Spec

-----------------------------------------------------------------------------
(* A flight object belongs to one dispatcher at a time, and to no thread    *)
(* before its dispatcher has started one.                                  *)
OneDispatcher ==
  /\ \A r \in Reporters : pc[r] \in AsyncPcs => job[call[r].flight] = "none"
  /\ \A r, q \in Reporters :
       pc[r] \in AsyncPcs /\ pc[q] \in AsyncPcs /\ call[r].flight = call[q].flight => r = q

LEMMA DispatcherNext ==
  ASSUME TypeOK, OneDispatcher, [Next]_vars PROVE OneDispatcher'
<1> USE DEF TypeOK, OneDispatcher
<1>1. ASSUME NEW r \in Reporters, CallRun(r) PROVE OneDispatcher'
  <2>1. pc'[r] \notin AsyncPcs /\ \A q \in Reporters \ {r} : pc'[q] = pc[q] /\ call'[q] = call[q]
    BY <1>1 DEF CallRun, Goto, AsyncPcs
  <2>2. QED BY <1>1, <2>1 DEF CallRun, jobs
<1>2. ASSUME NEW r \in Reporters, CallBackground(r) PROVE OneDispatcher'
  <2>1. pc'[r] \notin AsyncPcs /\ \A q \in Reporters \ {r} : pc'[q] = pc[q] /\ call'[q] = call[q]
    BY <1>2 DEF CallBackground, Goto, AsyncPcs
  <2>2. QED BY <1>2, <2>1 DEF CallBackground, jobs
<1>3. ASSUME NEW r \in Reporters, ReporterStep(r) PROVE OneDispatcher'
  <2> USE DEF Goto, jobs
  <2>1. CASE Check(r) BY <2>1 DEF Check, Return, AsyncPcs
  <2>2. CASE ShouldReport(r)
    <3>1. CASE pc'[r] = "spawn" /\ call[r].mode # "run" /\ ~Fresh(call[r].key)
      <4>1. ANewFlight \in Flights /\ Unreferenced(ANewFlight)
        BY <2>2, <3>1 DEF ShouldReport, ANewFlight
      <4>2. /\ call' = [call EXCEPT ![r].flight = ANewFlight] /\ pc' = [pc EXCEPT ![r] = "spawn"]
            /\ UNCHANGED job
        BY <2>2, <3>1 DEF ShouldReport
      <4>3. QED BY <4>1, <4>2, HoldKeeps DEF Unreferenced
    <3>2. CASE UNCHANGED call /\ pc' \in {[pc EXCEPT ![r] = "lookup"], [pc EXCEPT ![r] = "post"]}
      BY <2>2, <3>2 DEF ShouldReport, AsyncPcs
    <3>3. QED BY <2>2, <3>1, <3>2 DEF ShouldReport
  <2>3. CASE Lookup(r)
    <3>1. pc'[r] \notin AsyncPcs /\ \A q \in Reporters \ {r} : pc'[q] = pc[q] /\ call'[q] = call[q]
      BY <2>3 DEF Lookup, Return, AsyncPcs
    <3>2. QED BY <2>3, <3>1 DEF Lookup
  <2>4. CASE Await(r)
    <3>1. pc'[r] \notin AsyncPcs /\ \A q \in Reporters \ {r} : pc'[q] = pc[q] /\ call'[q] = call[q]
      BY <2>4 DEF Await, Return, AsyncPcs
    <3>2. QED BY <2>4, <3>1 DEF Await
  <2>5. CASE SyncPost(r)
    <3>1. pc'[r] \notin AsyncPcs /\ \A q \in Reporters \ {r} : pc'[q] = pc[q] /\ call'[q] = call[q]
      BY <2>5 DEF SyncPost, AsyncPcs
    <3>2. QED BY <2>5, <3>1 DEF SyncPost
  <2>6. CASE SyncSettle(r) BY <2>6 DEF SyncSettle, AsyncPcs
  <2>7. CASE Record(r)
    <3>1. pc'[r] \notin AsyncPcs /\ \A q \in Reporters \ {r} : pc'[q] = pc[q] /\ call'[q] = call[q]
      BY <2>7 DEF Record, AsyncPcs
    <3>2. QED BY <2>7, <3>1 DEF Record
  <2>8. CASE AcquireSlot(r) BY <2>8 DEF AcquireSlot, AsyncPcs
  <2>9. CASE StartThread(r)
    <3>1. CASE UNCHANGED <<call, jobs>> BY <2>9, <3>1 DEF StartThread, Return, AsyncPcs
    <3>2. CASE Return(r, "record", "accepted") /\ job' = [job EXCEPT ![call[r].flight] = "post"]
      <4>1. pc[r] \in AsyncPcs /\ pc'[r] \notin AsyncPcs
        BY <2>9, <3>2 DEF StartThread, Return, AsyncPcs
      <4>2. \A q \in Reporters \ {r} : pc'[q] = pc[q] /\ call'[q] = call[q]
        BY <3>2 DEF Return
      <4>3. QED BY <3>2, <4>1, <4>2
    <3>3. QED BY <2>9, <3>1, <3>2 DEF StartThread
  <2>10. CASE Unslot(r) BY <2>10 DEF Unslot, AsyncPcs
  <2>11. CASE Unmark(r) BY <2>11 DEF Unmark, AsyncPcs
  <2>12. CASE Close(r) BY <2>12 DEF Close, AsyncPcs
  <2>13. CASE Pop(r)
    <3>1. pc'[r] \notin AsyncPcs /\ \A q \in Reporters \ {r} : pc'[q] = pc[q] /\ call'[q] = call[q]
      BY <2>13 DEF Pop, Return, AsyncPcs
    <3>2. QED BY <2>13, <3>1 DEF Pop
  <2>14. QED
    BY <1>3, <2>1, <2>2, <2>3, <2>4, <2>5, <2>6, <2>7, <2>8, <2>9, <2>10, <2>11,
       <2>12, <2>13 DEF ReporterStep
<1>4. ASSUME NEW r \in Reporters, Finish(r) \/ Interrupt(r) PROVE OneDispatcher'
  <2>1. pc'[r] \notin AsyncPcs /\ \A q \in Reporters \ {r} : pc'[q] = pc[q] /\ call'[q] = call[q]
    BY <1>4 DEF Finish, Interrupt, Goto, AsyncPcs
  <2>2. QED BY <1>4, <2>1 DEF Finish, Interrupt, jobs
<1>5. ASSUME NEW f \in Flights, JobStep(f) PROVE OneDispatcher'
  <2>1. job[f] # "none" /\ UNCHANGED local /\ \A g \in Flights \ {f} : job'[g] = job[g]
    BY <1>5 DEF JobStep, JobPost, JobSettle, JobClose, JobPop, JobRelease
  <2>2. QED BY <2>1 DEF local
<1>6. CASE UNCHANGED <<local, jobs>> BY <1>6 DEF local, jobs
<1>7. QED
  BY <1>1, <1>2, <1>3, <1>4, <1>5, <1>6
  DEF Next, vars, Age, ResetDedupe, FlipSecurity

-----------------------------------------------------------------------------
(* The slot counter, by what each step does to the two sets of holders.    *)
LEMMA HoldersFinite ==
  ASSUME NEW S \in SUBSET Reporters, NEW W \in SUBSET Flights
  PROVE  /\ IsFiniteSet(S) /\ IsFiniteSet(W)
         /\ Cardinality(S) \in Nat /\ Cardinality(W) \in Nat
  BY FiniteAssumption, FS_Subset, FS_CardinalityType

LEMMA HoldersChange ==
  ASSUME TypeOK
  PROVE  /\ \A r \in Reporters \ Starting :
              Cardinality(Starting \union {r}) = Cardinality(Starting) + 1
         /\ \A r \in Starting : Cardinality(Starting \ {r}) = Cardinality(Starting) - 1
         /\ \A f \in Flights \ Working :
              Cardinality(Working \union {f}) = Cardinality(Working) + 1
         /\ \A f \in Working : Cardinality(Working \ {f}) = Cardinality(Working) - 1
<1>1. Starting \subseteq Reporters /\ Working \subseteq Flights BY DEF Starting, Working
<1>2. IsFiniteSet(Starting) /\ IsFiniteSet(Working) BY <1>1, HoldersFinite
<1>3. QED BY <1>2, FS_AddElement, FS_RemoveElement

LEMMA SlotsInit == ASSUME Init PROVE SlotsAccounted
<1>1. Starting = {} /\ Working = {} BY DEF Init, Starting, Working
<1>2. QED BY <1>1, FS_EmptySet, LimitsAssumption DEF Init, SlotsAccounted

LEMMA SlotsNext ==
  ASSUME TypeOK, OneDispatcher, SlotsAccounted, [Next]_vars PROVE SlotsAccounted'
<1> DEFINE Same == UNCHANGED inflight /\ Starting' = Starting /\ Working' = Working
<1> USE DEF TypeOK
<1>0. ASSUME Same PROVE SlotsAccounted' BY <1>0 DEF SlotsAccounted
<1>1. ASSUME NEW r \in Reporters, AcquireSlot(r) PROVE SlotsAccounted'
  <2>1. CASE pc' = [pc EXCEPT ![r] = "start"]
    <3>1. /\ Starting' = Starting \union {r} /\ r \notin Starting /\ Working' = Working
          /\ inflight' = inflight + 1 /\ inflight < InflightMax
      BY <1>1, <2>1 DEF AcquireSlot, Goto, Starting, Working, jobs
    <3>2. Cardinality(Starting') = Cardinality(Starting) + 1 BY <3>1, HoldersChange
    <3>3. Cardinality(Starting) \in Nat /\ Cardinality(Working) \in Nat
      BY HoldersFinite DEF Starting, Working
    <3>4. QED
      BY <3>1, <3>2, <3>3, LimitsAssumption DEF SlotsAccounted
  <2>2. CASE pc' = [pc EXCEPT ![r] = "unmark"]
    <3>1. Same BY <1>1, <2>2 DEF AcquireSlot, Goto, Starting, Working, jobs
    <3>2. QED BY <3>1, <1>0
  <2>3. QED BY <1>1, <2>1, <2>2 DEF AcquireSlot, Goto
<1>2. ASSUME NEW r \in Reporters, StartThread(r) PROVE SlotsAccounted'
  <2> DEFINE f == call[r].flight
  <2>1. CASE pc' = [pc EXCEPT ![r] = "unslot"] /\ UNCHANGED jobs
    <3>1. Same BY <1>2, <2>1 DEF StartThread, Starting, Working, jobs
    <3>2. QED BY <3>1, <1>0
  <2>2. CASE pc' = [pc EXCEPT ![r] = "record"] /\ job' = [job EXCEPT ![f] = "post"]
    <3>1. f \in Flights \ Working /\ r \in Starting /\ UNCHANGED inflight
      BY <1>2 DEF StartThread, OneDispatcher, AsyncPcs, Starting, Working
    <3>2. Starting' = Starting \ {r} /\ Working' = Working \union {f}
      BY <2>2, <3>1 DEF Starting, Working
    <3>3. /\ Cardinality(Starting') = Cardinality(Starting) - 1
          /\ Cardinality(Working') = Cardinality(Working) + 1
      BY <3>1, <3>2, HoldersChange
    <3>4. Cardinality(Starting) \in Nat /\ Cardinality(Working) \in Nat
      BY HoldersFinite DEF Starting, Working
    <3>5. QED BY <3>1, <3>3, <3>4 DEF SlotsAccounted
  <2>3. QED BY <1>2, <2>1, <2>2 DEF StartThread, Goto, Return
<1>3. ASSUME NEW r \in Reporters, Unslot(r) PROVE SlotsAccounted'
  <2>1. /\ r \in Starting /\ Starting' = Starting \ {r} /\ Working' = Working
    BY <1>3 DEF Unslot, Goto, Starting, Working, jobs
  <2>2. Cardinality(Starting') = Cardinality(Starting) - 1 /\ Cardinality(Starting') \in Nat
    BY <2>1, HoldersChange, HoldersFinite DEF Starting
  <2>3. Cardinality(Starting) \in Nat /\ Cardinality(Working) \in Nat
    BY HoldersFinite DEF Starting, Working
  <2>4. QED
    BY <1>3, <2>1, <2>2, <2>3, LimitsAssumption DEF Unslot, ReleaseSlot, SlotsAccounted
<1>4. ASSUME NEW f \in Flights, JobRelease(f) PROVE SlotsAccounted'
  <2>1. /\ f \in Working /\ Working' = Working \ {f} /\ Starting' = Starting
    BY <1>4 DEF JobRelease, Starting, Working, local
  <2>2. Cardinality(Working') = Cardinality(Working) - 1 /\ Cardinality(Working') \in Nat
    BY <2>1, HoldersChange, HoldersFinite DEF Working
  <2>3. Cardinality(Starting) \in Nat /\ Cardinality(Working) \in Nat
    BY HoldersFinite DEF Starting, Working
  <2>4. QED
    BY <1>4, <2>1, <2>2, <2>3, LimitsAssumption DEF JobRelease, ReleaseSlot, SlotsAccounted
<1>5. ASSUME NEW f \in Flights, JobPost(f) \/ JobSettle(f) \/ JobClose(f) \/ JobPop(f)
      PROVE SlotsAccounted'
  <2>1. Same
    BY <1>5 DEF JobPost, JobSettle, JobClose, JobPop, Starting, Working, local
  <2>2. QED BY <2>1, <1>0
<1>6. ASSUME NEW r \in Reporters,
             \/ CallRun(r) \/ CallBackground(r) \/ Check(r) \/ ShouldReport(r) \/ Lookup(r)
             \/ Await(r) \/ SyncPost(r) \/ SyncSettle(r) \/ Record(r) \/ Finish(r)
             \/ Interrupt(r) \/ Unmark(r) \/ Close(r) \/ Pop(r)
      PROVE SlotsAccounted'
  <2>1. pc[r] \notin {"start", "unslot"} /\ pc'[r] \notin {"start", "unslot"}
    BY <1>6 DEF CallRun, CallBackground, Check, ShouldReport, Lookup, Await, SyncPost,
                SyncSettle, Record, Finish, Interrupt, Unmark, Close, Pop, Goto, Return
  <2>2. \A q \in Reporters \ {r} : pc'[q] = pc[q]
    BY <1>6 DEF CallRun, CallBackground, Check, ShouldReport, Lookup, Await, SyncPost,
                SyncSettle, Record, Finish, Interrupt, Unmark, Close, Pop, Goto, Return
  <2>3. UNCHANGED <<job, inflight>>
    BY <1>6 DEF CallRun, CallBackground, Check, ShouldReport, Lookup, Await, SyncPost,
                SyncSettle, Record, Finish, Interrupt, Unmark, Close, Pop, jobs
  <2>4. Same BY <2>1, <2>2, <2>3 DEF Starting, Working
  <2>5. QED BY <2>4, <1>0
<1>7. CASE UNCHANGED <<pc, job, inflight>>
  <2>1. Same BY <1>7 DEF Starting, Working
  <2>2. QED BY <2>1, <1>0
<1>8. QED
  BY <1>1, <1>2, <1>3, <1>4, <1>5, <1>6, <1>7
  DEF Next, ReporterStep, JobStep, vars, local, jobs, Age, ResetDedupe, FlipSecurity

(* Background reports: the slot counter is exact and bounded in every       *)
(* reachable state, for any number of threads and any _INFLIGHT_MAX.        *)
THEOREM SlotsCorrect == Spec => []SlotsAccounted
<1> DEFINE IInv == TypeOK /\ OneDispatcher /\ SlotsAccounted
<1>1. Init => IInv
  BY TypeInit, SlotsInit DEF Init, OneDispatcher, AsyncPcs
<1>2. IInv /\ [Next]_vars => IInv'
  BY TypeNext, DispatcherNext, SlotsNext
<1>3. QED BY <1>1, <1>2, PTL DEF Spec

-----------------------------------------------------------------------------
(* What a report's result may claim.  A flight registered under a manifest *)
(* is completed as succeeded only for that manifest, and whoever waits on  *)
(* a flight waits on a report of its own manifest, even after the flight   *)
(* has left the map.                                                       *)
RegisteredTruth ==
  \A k \in Keys : Pending(k) /\ flight[reportFlights[k]] = "succeeded" => k \in acked

WaitersShareKey ==
  \A r \in Reporters : pc[r] = "wait" =>
    /\ job[call[r].flight] # "none" => jobKey[call[r].flight] = call[r].key
    /\ \A q \in Reporters :
         pc[q] \in AsyncPcs /\ call[q].flight = call[r].flight => call[q].key = call[r].key

ReportInv == PendingHasOwner /\ RegisteredTruth /\ WaitersShareKey /\ ReportsAreTrue

(* A step of a reporter that holds no flight before or after it, and        *)
(* changes no flight, thread or acknowledgement, leaves the invariant.      *)
LEMMA PlainStep ==
  ASSUME TypeOK, ReportInv, NEW r \in Reporters,
         pc[r] \notin AsyncPcs, pc'[r] \notin AsyncPcs \union {"wait", "settle"},
         \A q \in Reporters \ {r} : pc'[q] = pc[q] /\ call'[q] = call[q],
         UNCHANGED <<reportFlights, flight, jobs, acked>>
  PROVE  ReportInv'
<1> USE DEF ReportInv, TypeOK, jobs
<1>1. PendingHasOwner' BY DEF PendingHasOwner, Pending
<1>2. RegisteredTruth' BY DEF RegisteredTruth, Pending
<1>3. WaitersShareKey' BY DEF WaitersShareKey
<1>4. ReportsAreTrue' BY DEF ReportsAreTrue
<1>5. QED BY <1>1, <1>2, <1>3, <1>4

(* So does a step of a dispatcher between two points of its report. *)
LEMMA DispatchStep ==
  ASSUME TypeOK, ReportInv, NEW r \in Reporters,
         pc[r] \in AsyncPcs, pc'[r] \in AsyncPcs,
         \A q \in Reporters \ {r} : pc'[q] = pc[q],
         UNCHANGED <<call, reportFlights, jobs, acked>>,
         \/ UNCHANGED flight
         \/ flight' = [flight EXCEPT ![call[r].flight] = "failed"]
  PROVE  ReportInv'
<1> USE DEF ReportInv, TypeOK, jobs
<1>1. PendingHasOwner' BY DEF PendingHasOwner, Pending
<1>2. RegisteredTruth' BY DEF RegisteredTruth, Pending
<1>3. WaitersShareKey' BY DEF WaitersShareKey, AsyncPcs
<1>4. ReportsAreTrue' BY DEF ReportsAreTrue, AsyncPcs
<1>5. QED BY <1>1, <1>2, <1>3, <1>4

LEMMA ReportNext ==
  ASSUME TypeOK, OneDispatcher, ReportInv, [Next]_vars PROVE ReportInv'
<1> USE DEF TypeOK
<1>1. ASSUME NEW r \in Reporters,
             \/ CallRun(r) \/ CallBackground(r) \/ Check(r) \/ Await(r) \/ SyncSettle(r)
             \/ Record(r) \/ Finish(r) \/ Interrupt(r)
      PROVE ReportInv'
  <2>1. pc[r] \notin AsyncPcs /\ pc'[r] \notin AsyncPcs \union {"wait", "settle"}
    BY <1>1 DEF CallRun, CallBackground, Check, Await, SyncSettle, Record, Finish, Interrupt,
                Goto, Return, AsyncPcs
  <2>2. \A q \in Reporters \ {r} : pc'[q] = pc[q] /\ call'[q] = call[q]
    BY <1>1 DEF CallRun, CallBackground, Check, Await, SyncSettle, Record, Finish, Interrupt,
                Goto, Return
  <2>3. UNCHANGED <<reportFlights, flight, jobs, acked>>
    BY <1>1 DEF CallRun, CallBackground, Check, Await, SyncSettle, Record, Finish, Interrupt
  <2>4. QED BY <2>1, <2>2, <2>3, PlainStep
<1>2. ASSUME NEW r \in Reporters, ShouldReport(r) PROVE ReportInv'
  <2> DEFINE k == call[r].key
  <2>1. CASE call' = call /\ pc' \in {[pc EXCEPT ![r] = "lookup"], [pc EXCEPT ![r] = "post"]}
            /\ UNCHANGED <<reportFlights, flight>>
    <3>1. pc[r] \notin AsyncPcs /\ pc'[r] \notin AsyncPcs \union {"wait", "settle"}
      BY <1>2, <2>1 DEF ShouldReport, AsyncPcs
    <3>2. QED BY <1>2, <2>1, <3>1, PlainStep DEF ShouldReport
  <2>2. CASE pc' = [pc EXCEPT ![r] = "spawn"] /\ call[r].mode # "run" /\ ~Fresh(k)
    <3> DEFINE f == ANewFlight
    <3>1. f \in Flights /\ Unreferenced(f)
      BY <1>2, <2>2 DEF ShouldReport, ANewFlight
    <3>2. /\ call' = [call EXCEPT ![r].flight = f]
          /\ reportFlights' = [reportFlights EXCEPT ![k] = f]
          /\ flight' = [flight EXCEPT ![f] = "open"]
          /\ pc[r] = "mark" /\ UNCHANGED <<jobs, acked>>
      BY <1>2, <2>2 DEF ShouldReport
    <3>3. /\ call'[r].flight = f /\ call'[r].key = k
          /\ \A q \in Reporters \ {r} : call'[q] = call[q]
      BY <3>1, <3>2, HoldKeeps
    <3>4. \A q \in Reporters \ {r} : call[q].flight # f
      BY <3>1 DEF Unreferenced
    <3>5. \A m \in Keys : reportFlights[m] # f
      BY <3>1 DEF Unreferenced
    <3>6. k \in Keys BY <3>2
    <3> HIDE DEF f, k
    <3>7. PendingHasOwner'
      BY <2>2, <3>1, <3>2, <3>3, <3>6 DEF ReportInv, PendingHasOwner, Pending, AsyncPcs, jobs
    <3>8. RegisteredTruth'
      BY <3>1, <3>2, <3>5, <3>6 DEF ReportInv, RegisteredTruth, Pending
    <3>9. WaitersShareKey'
      BY <2>2, <3>2, <3>3, <3>4 DEF ReportInv, WaitersShareKey, AsyncPcs, jobs
    <3>10. ReportsAreTrue'
      BY <2>2, <3>1, <3>2, <3>3, <3>4 DEF ReportInv, ReportsAreTrue, jobs
    <3>11. QED BY <3>7, <3>8, <3>9, <3>10 DEF ReportInv
  <2>3. QED BY <1>2, <2>1, <2>2 DEF ShouldReport, Goto
<1>3. ASSUME NEW r \in Reporters, Lookup(r) PROVE ReportInv'
  <2> DEFINE k == call[r].key
             f == reportFlights[k]
  <2>1. CASE pc'[r] = "record"
    <3>1. pc[r] \notin AsyncPcs BY <1>3 DEF Lookup, AsyncPcs
    <3>2. \A q \in Reporters \ {r} : pc'[q] = pc[q] /\ call'[q] = call[q]
      BY <1>3 DEF Lookup, Goto, Return
    <3>3. QED BY <1>3, <2>1, <3>1, <3>2, PlainStep DEF Lookup, AsyncPcs
  <2>2. CASE pc'[r] # "record"
    <3>1. /\ f \in Flights /\ pc[r] = "lookup" /\ Pending(k) /\ k \in Keys
          /\ call' = [call EXCEPT ![r].flight = f]
          /\ pc' = [pc EXCEPT ![r] = "wait"]
          /\ UNCHANGED <<reportFlights, flight, jobs, acked>>
      BY <1>3, <2>2 DEF Lookup, Pending, Goto, Return, Calls
    <3>2. /\ call'[r].flight = f /\ call'[r].key = k
          /\ \A q \in Reporters \ {r} : call'[q] = call[q]
      BY <3>1, HoldKeeps
    <3>3. /\ job[f] # "none" => jobKey[f] = k
          /\ \A q \in Reporters :
               pc[q] \in AsyncPcs /\ call[q].flight = f => call[q].key = k
      BY <3>1 DEF ReportInv, PendingHasOwner, OneDispatcher
    <3>4. flight[f] = "succeeded" => k \in acked
      BY <3>1 DEF ReportInv, RegisteredTruth
    <3> HIDE DEF f, k
    <3>5. PendingHasOwner'
      BY <3>1, <3>2 DEF ReportInv, PendingHasOwner, Pending, AsyncPcs, jobs
    <3>6. RegisteredTruth' BY <3>1 DEF ReportInv, RegisteredTruth, Pending
    <3>7. WaitersShareKey'
      BY <3>1, <3>2, <3>3 DEF ReportInv, WaitersShareKey, AsyncPcs, jobs
    <3>8. ReportsAreTrue' BY <3>1, <3>2, <3>4 DEF ReportInv, ReportsAreTrue, jobs
    <3>9. QED BY <3>5, <3>6, <3>7, <3>8 DEF ReportInv
  <2>3. QED BY <2>1, <2>2
<1>4. ASSUME NEW r \in Reporters, SyncPost(r) PROVE ReportInv'
  <2>1. acked \subseteq acked' BY <1>4 DEF SyncPost, Acknowledged
  <2>2. /\ pc[r] = "post" /\ pc' = [pc EXCEPT ![r] = "settle"]
        /\ UNCHANGED <<reportFlights, flight, jobs>>
    BY <1>4 DEF SyncPost, Goto
  <2>3. /\ \A q \in Reporters \ {r} : call'[q] = call[q]
        /\ call'[r].key = call[r].key /\ call'[r].flight = call[r].flight
    BY <1>4 DEF SyncPost, Calls
  <2>4. call'[r].result = "accepted" => call[r].key \in acked'
    BY <1>4, AcceptedIsAcknowledged DEF SyncPost, Acknowledged, Calls
  <2>5. PendingHasOwner'
    BY <2>2, <2>3 DEF ReportInv, PendingHasOwner, Pending, AsyncPcs, jobs
  <2>6. RegisteredTruth' BY <2>1, <2>2 DEF ReportInv, RegisteredTruth, Pending
  <2>7. WaitersShareKey'
    BY <2>2, <2>3 DEF ReportInv, WaitersShareKey, AsyncPcs, jobs
  <2>8. ReportsAreTrue' BY <2>1, <2>2, <2>3, <2>4 DEF ReportInv, ReportsAreTrue, jobs
  <2>9. QED BY <2>5, <2>6, <2>7, <2>8 DEF ReportInv
<1>5. ASSUME NEW r \in Reporters, AcquireSlot(r) \/ Unslot(r) \/ Unmark(r) \/ Close(r)
      PROVE ReportInv'
  <2>1. /\ pc[r] \in AsyncPcs /\ pc'[r] \in AsyncPcs
        /\ \A q \in Reporters \ {r} : pc'[q] = pc[q]
    BY <1>5 DEF AcquireSlot, Unslot, Unmark, Close, Goto, AsyncPcs
  <2>2. /\ UNCHANGED <<call, reportFlights, jobs, acked>>
        /\ \/ UNCHANGED flight
           \/ flight' = [flight EXCEPT ![call[r].flight] = "failed"]
    BY <1>5 DEF AcquireSlot, Unslot, Unmark, Close, Complete
  <2>3. QED BY <2>1, <2>2, DispatchStep
<1>6. ASSUME NEW r \in Reporters, StartThread(r) PROVE ReportInv'
  <2> DEFINE f == call[r].flight
             k == call[r].key
  <2>1. CASE pc' = [pc EXCEPT ![r] = "unslot"] /\ UNCHANGED <<call, jobs>>
    <3>1. pc[r] \in AsyncPcs /\ pc'[r] \in AsyncPcs
      BY <1>6, <2>1 DEF StartThread, AsyncPcs
    <3>2. QED BY <1>6, <2>1, <3>1, DispatchStep DEF StartThread
  <2>2. CASE /\ Return(r, "record", "accepted") /\ job' = [job EXCEPT ![f] = "post"]
             /\ jobResult' = [jobResult EXCEPT ![f] = "none"]
             /\ jobKey' = [jobKey EXCEPT ![f] = k]
    <3>1. /\ f \in Flights /\ k \in Keys /\ pc[r] \in AsyncPcs
          /\ pc' = [pc EXCEPT ![r] = "record"]
          /\ UNCHANGED <<reportFlights, flight, acked>>
      BY <1>6, <2>2 DEF StartThread, AsyncPcs, Return, Goto
    <3>2. /\ call'[r].key = k /\ \A q \in Reporters \ {r} : call'[q] = call[q]
      BY <2>2, ReturnKeeps DEF Results
    <3>3. \A m \in Keys : reportFlights[m] = f => m = k
      BY <3>1, NoneAssumption DEF ReportInv, PendingHasOwner, Pending, OneDispatcher
    <3>4. \A q \in Reporters : pc[q] = "wait" /\ call[q].flight = f => call[q].key = k
      BY <3>1 DEF ReportInv, WaitersShareKey
    <3>5. \A q \in Reporters \ {r} : pc[q] \in AsyncPcs => call[q].flight # f
      BY <3>1 DEF OneDispatcher
    <3> HIDE DEF f, k
    <3>6. PendingHasOwner'
      <4> SUFFICES ASSUME NEW m \in Keys, Pending(m)'
                   PROVE  \/ \E q \in Reporters : pc'[q] \in AsyncPcs
                              /\ call'[q].flight = reportFlights[m] /\ call'[q].key = m
                          \/ job'[reportFlights[m]] \in JobPcs \ {"none", "release"}
                             /\ jobKey'[reportFlights[m]] = m
        BY <3>1 DEF PendingHasOwner
      <4>1. CASE reportFlights[m] = f
        BY <2>2, <3>1, <3>3, <4>1 DEF JobPcs
      <4>2. CASE reportFlights[m] # f
        <5>1. Pending(m) BY <3>1 DEF Pending
        <5>2. CASE \E q \in Reporters : pc[q] \in AsyncPcs
                     /\ call[q].flight = reportFlights[m] /\ call[q].key = m
          <6>1. PICK q \in Reporters : pc[q] \in AsyncPcs
                     /\ call[q].flight = reportFlights[m] /\ call[q].key = m
            BY <5>2
          <6>2. q # r BY <4>2, <6>1 DEF f
          <6>3. QED BY <3>1, <3>2, <6>1, <6>2
        <5>3. CASE job[reportFlights[m]] \in JobPcs \ {"none", "release"}
                   /\ jobKey[reportFlights[m]] = m
          BY <2>2, <3>1, <4>2, <5>3
        <5>4. QED BY <5>1, <5>2, <5>3 DEF ReportInv, PendingHasOwner
      <4>3. QED BY <4>1, <4>2
    <3>7. RegisteredTruth' BY <3>1 DEF ReportInv, RegisteredTruth, Pending
    <3>8. WaitersShareKey'
      BY <2>2, <3>1, <3>2, <3>4 DEF ReportInv, WaitersShareKey, AsyncPcs
    <3>9. ReportsAreTrue'
      BY <2>2, <3>1, <3>2 DEF ReportInv, ReportsAreTrue
    <3>10. QED BY <3>6, <3>7, <3>8, <3>9 DEF ReportInv
  <2>3. QED BY <1>6, <2>1, <2>2 DEF StartThread, Goto
<1>7. ASSUME NEW r \in Reporters, Pop(r) PROVE ReportInv'
  <2> DEFINE f == call[r].flight
             k == call[r].key
  <2>1. /\ f \in Flights /\ k \in Keys /\ pc[r] \in AsyncPcs
        /\ pc' = [pc EXCEPT ![r] = "record"]
        /\ PopFlight(k, f) /\ UNCHANGED <<flight, jobs, acked>>
    BY <1>7 DEF Pop, AsyncPcs, Return, Goto
  <2>2. /\ call'[r].key = k /\ call'[r].flight = None
        /\ \A q \in Reporters \ {r} : call'[q] = call[q]
    BY <1>7, ReturnKeeps DEF Pop, Results
  <2>3. \A m \in Keys : reportFlights[m] = f => m = k
    BY <2>1, NoneAssumption DEF ReportInv, PendingHasOwner, Pending, OneDispatcher
  <2>4. /\ \A m \in Keys : reportFlights'[m] # None =>
              reportFlights'[m] = reportFlights[m] /\ reportFlights[m] # f
    BY <2>1, <2>3 DEF PopFlight
  <2> HIDE DEF k
  <2>5. PendingHasOwner'
    <3> SUFFICES ASSUME NEW m \in Keys, Pending(m)'
                 PROVE  \/ \E q \in Reporters : pc'[q] \in AsyncPcs
                            /\ call'[q].flight = reportFlights'[m] /\ call'[q].key = m
                        \/ job'[reportFlights'[m]] \in JobPcs \ {"none", "release"}
                           /\ jobKey'[reportFlights'[m]] = m
      BY DEF PendingHasOwner
    <3>1. Pending(m) /\ reportFlights'[m] = reportFlights[m] /\ reportFlights[m] # f
      BY <2>4 DEF Pending
    <3>2. CASE \E q \in Reporters : pc[q] \in AsyncPcs
                 /\ call[q].flight = reportFlights[m] /\ call[q].key = m
      <4>1. PICK q \in Reporters : pc[q] \in AsyncPcs
                 /\ call[q].flight = reportFlights[m] /\ call[q].key = m
        BY <3>2
      <4>2. q # r BY <3>1, <4>1
      <4>3. QED BY <2>1, <2>2, <3>1, <4>1, <4>2
    <3>3. CASE job[reportFlights[m]] \in JobPcs \ {"none", "release"}
               /\ jobKey[reportFlights[m]] = m
      BY <2>1, <3>1, <3>3 DEF jobs
    <3>4. QED BY <3>1, <3>2, <3>3 DEF ReportInv, PendingHasOwner
  <2>6. RegisteredTruth' BY <2>1, <2>4 DEF ReportInv, RegisteredTruth, Pending
  <2>7. WaitersShareKey'
    BY <2>1, <2>2 DEF ReportInv, WaitersShareKey, AsyncPcs, jobs
  <2>8. ReportsAreTrue' BY <2>1, <2>2 DEF ReportInv, ReportsAreTrue, jobs
  <2>9. QED BY <2>5, <2>6, <2>7, <2>8 DEF ReportInv
<1>8. ASSUME NEW f \in Flights, JobPost(f) PROVE ReportInv'
  <2>1. /\ acked \subseteq acked' /\ UNCHANGED <<reportFlights, flight, pc, call, jobKey>>
        /\ job[f] = "post" /\ job' = [job EXCEPT ![f] = "settle"]
    BY <1>8 DEF JobPost, Acknowledged, local
  <2>2. /\ \A g \in Flights \ {f} : jobResult'[g] = jobResult[g]
        /\ jobResult'[f] = "accepted" => jobKey[f] \in acked'
    BY <1>8, AcceptedIsAcknowledged DEF JobPost, Acknowledged
  <2>3. PendingHasOwner'
    BY <2>1 DEF ReportInv, PendingHasOwner, Pending, JobPcs
  <2>4. RegisteredTruth' BY <2>1 DEF ReportInv, RegisteredTruth, Pending
  <2>5. WaitersShareKey' BY <2>1 DEF ReportInv, WaitersShareKey
  <2>6. ReportsAreTrue' BY <2>1, <2>2 DEF ReportInv, ReportsAreTrue
  <2>7. QED BY <2>3, <2>4, <2>5, <2>6 DEF ReportInv
<1>9. ASSUME NEW f \in Flights, JobSettle(f) PROVE ReportInv'
  <2>1. /\ UNCHANGED <<reportFlights, flight, pc, call, jobKey, jobResult, acked>>
        /\ job[f] = "settle" /\ job' = [job EXCEPT ![f] = "close"]
    BY <1>9 DEF JobSettle, local
  <2>2. PendingHasOwner'
    BY <2>1 DEF ReportInv, PendingHasOwner, Pending, JobPcs
  <2>3. QED
    BY <2>1, <2>2 DEF ReportInv, RegisteredTruth, Pending, WaitersShareKey, ReportsAreTrue
<1>10. ASSUME NEW f \in Flights, JobClose(f) PROVE ReportInv'
  <2>1. /\ UNCHANGED <<reportFlights, pc, call, jobKey, jobResult, acked>>
        /\ job[f] = "close" /\ job' = [job EXCEPT ![f] = "pop"]
    BY <1>10 DEF JobClose, local
  <2>2. /\ \A g \in Flights \ {f} : flight'[g] = flight[g]
        /\ flight'[f] = "succeeded" => jobKey[f] \in acked
    BY <1>10 DEF JobClose, Complete, ReportInv, ReportsAreTrue
  <2>3. \A m \in Keys : reportFlights[m] = f => jobKey[f] = m
    BY <2>1, NoneAssumption DEF ReportInv, PendingHasOwner, Pending, OneDispatcher
  <2>4. \A q \in Reporters : pc[q] = "wait" /\ call[q].flight = f => jobKey[f] = call[q].key
    BY <2>1 DEF ReportInv, WaitersShareKey
  <2>5. PendingHasOwner'
    BY <2>1 DEF ReportInv, PendingHasOwner, Pending, JobPcs
  <2>6. RegisteredTruth'
    BY <2>1, <2>2, <2>3 DEF ReportInv, RegisteredTruth, Pending
  <2>7. WaitersShareKey' BY <2>1 DEF ReportInv, WaitersShareKey
  <2>8. ReportsAreTrue' BY <2>1, <2>2, <2>4 DEF ReportInv, ReportsAreTrue
  <2>9. QED BY <2>5, <2>6, <2>7, <2>8 DEF ReportInv
<1>11. ASSUME NEW f \in Flights, JobPop(f) PROVE ReportInv'
  <2>1. /\ UNCHANGED <<flight, pc, call, jobKey, jobResult, acked>>
        /\ job[f] = "pop" /\ job' = [job EXCEPT ![f] = "release"]
        /\ PopFlight(jobKey[f], f)
    BY <1>11 DEF JobPop, local
  <2>2. \A m \in Keys : reportFlights[m] = f => jobKey[f] = m
    BY <2>1, NoneAssumption DEF ReportInv, PendingHasOwner, Pending, OneDispatcher
  <2>3. \A m \in Keys : reportFlights'[m] # None =>
          reportFlights'[m] = reportFlights[m] /\ reportFlights[m] # f
    BY <2>1, <2>2 DEF PopFlight
  <2>4. PendingHasOwner'
    BY <2>1, <2>3 DEF ReportInv, PendingHasOwner, Pending
  <2>5. RegisteredTruth' BY <2>1, <2>3 DEF ReportInv, RegisteredTruth, Pending
  <2>6. WaitersShareKey' BY <2>1 DEF ReportInv, WaitersShareKey
  <2>7. ReportsAreTrue' BY <2>1 DEF ReportInv, ReportsAreTrue
  <2>8. QED BY <2>4, <2>5, <2>6, <2>7 DEF ReportInv
<1>12. ASSUME NEW f \in Flights, JobRelease(f) PROVE ReportInv'
  <2>1. /\ UNCHANGED <<reportFlights, flight, pc, call, acked>>
        /\ job[f] = "release" /\ job' = [job EXCEPT ![f] = "none"]
        /\ jobResult' = [jobResult EXCEPT ![f] = "none"]
        /\ \A g \in Flights \ {f} : jobKey'[g] = jobKey[g]
    BY <1>12 DEF JobRelease, local
  <2>2. PendingHasOwner'
    BY <2>1 DEF ReportInv, PendingHasOwner, Pending
  <2>3. RegisteredTruth' BY <2>1 DEF ReportInv, RegisteredTruth, Pending
  <2>4. WaitersShareKey' BY <2>1 DEF ReportInv, WaitersShareKey
  <2>5. ReportsAreTrue' BY <2>1 DEF ReportInv, ReportsAreTrue
  <2>6. QED BY <2>2, <2>3, <2>4, <2>5 DEF ReportInv
<1>13. CASE ResetDedupe
  <2>1. /\ UNCHANGED <<pc, call, jobs, acked>> /\ \A k \in Keys : ~Pending(k)'
        /\ \A f \in Flights : flight'[f] \in {flight[f], "failed"}
    BY <1>13 DEF ResetDedupe, Pending, local
  <2>2. QED
    BY <2>1 DEF ReportInv, PendingHasOwner, RegisteredTruth, WaitersShareKey, ReportsAreTrue, jobs
<1>14. CASE UNCHANGED <<reportFlights, flight, local, jobs, acked>>
  BY <1>14 DEF ReportInv, PendingHasOwner, Pending, RegisteredTruth, WaitersShareKey,
               ReportsAreTrue, local, jobs
<1>15. QED
  BY <1>1, <1>2, <1>3, <1>4, <1>5, <1>6, <1>7, <1>8, <1>9, <1>10, <1>11, <1>12, <1>13, <1>14
  DEF Next, ReporterStep, JobStep, vars, Age, FlipSecurity

LEMMA ReportInit == ASSUME Init PROVE ReportInv
  BY DEF Init, ReportInv, PendingHasOwner, Pending, RegisteredTruth, WaitersShareKey,
         ReportsAreTrue

(* The invariant that both theorems about reports rest on. *)
LEMMA ReportsHold == Spec => [](TypeOK /\ OneDispatcher /\ ReportInv)
<1> DEFINE IInv == TypeOK /\ OneDispatcher /\ ReportInv
<1>1. Init => IInv
  BY TypeInit, ReportInit DEF Init, OneDispatcher, AsyncPcs
<1>2. IInv /\ [Next]_vars => IInv'
  BY TypeNext, DispatcherNext, ReportNext
<1>3. QED BY <1>1, <1>2, PTL DEF Spec

(* No result of a report claims an acknowledgement the gateway did not     *)
(* give, whatever the number of threads, evictions, resets, interrupts and *)
(* setting changes (registry.py, discover).                                *)
THEOREM ReportsCorrect == Spec => []ReportsAreTrue
<1>1. ReportInv => ReportsAreTrue
  BY DEF ReportInv
<1>2. QED BY <1>1, ReportsHold, PTL

(* No flight is left in the map without an owner that will complete it: a  *)
(* thread that waits for a flight waits for somebody (registry.py,         *)
(* _run_discovery_job's finally and the clean-up of a failed start).       *)
THEOREM OwnersCorrect == Spec => []PendingHasOwner
<1>1. ReportInv => PendingHasOwner
  BY DEF ReportInv
<1>2. QED BY <1>1, ReportsHold, PTL

-----------------------------------------------------------------------------
(* Marks.  With security never switched off and no thread interrupted, the *)
(* mark of a manifest is only left behind by an acknowledgement.           *)
Undisturbed ==
  /\ security = "enabled"
  /\ \A r \in Reporters : pc[r] = "settle" => call[r].result \in {"accepted", "error"}

LEMMA UndisturbedNext ==
  ASSUME MaxFlips = 0, TypeOK, Undisturbed, [Next]_vars PROVE Undisturbed'
<1> USE DEF TypeOK, Undisturbed
<1>1. security' = security /\ ~FlipSecurity
  BY DEF Next, vars, env, ReporterStep, JobStep, FlipSecurity, Age, ResetDedupe,
         CallRun, CallBackground, Check, ShouldReport, Lookup, Await, SyncPost, SyncSettle,
         Record, AcquireSlot, StartThread, Unslot, Unmark, Close, Pop, Finish, Interrupt,
         JobPost, JobSettle, JobClose, JobPop, JobRelease
<1>2. ASSUME NEW r \in Reporters, SyncPost(r) PROVE Undisturbed'
  <2>1. call'[r].result \in {"accepted", "error"}
    BY <1>2 DEF SyncPost, SecurityEnabled, Calls
  <2>2. \A q \in Reporters \ {r} : pc'[q] = pc[q] /\ call'[q] = call[q]
    BY <1>2 DEF SyncPost, Goto
  <2>3. QED BY <1>1, <2>1, <2>2
<1>3. ASSUME NEW r \in Reporters, CallRun(r) \/ CallBackground(r) \/ ReporterStep(r)
                                   \/ Finish(r) \/ Interrupt(r), ~SyncPost(r)
      PROVE  Undisturbed'
  <2>1. \A q \in Reporters \ {r} : pc'[q] = pc[q] /\ call'[q] = call[q]
    BY <1>3 DEF CallRun, CallBackground, ReporterStep, Check, ShouldReport, Lookup, Await,
                SyncSettle, Record, AcquireSlot, StartThread, Unslot, Unmark, Close, Pop,
                Finish, Interrupt, Goto, Return
  <2>2. pc'[r] # "settle"
    BY <1>3 DEF CallRun, CallBackground, ReporterStep, Check, ShouldReport, Lookup, Await,
                SyncSettle, Record, AcquireSlot, StartThread, Unslot, Unmark, Close, Pop,
                Finish, Interrupt, Goto, Return
  <2>3. QED BY <1>1, <2>1, <2>2
<1>4. CASE UNCHANGED local BY <1>1, <1>4 DEF local
<1>5. QED
  BY <1>1, <1>2, <1>3, <1>4, SMTT(30)
  DEF Next, JobStep, JobPost, JobSettle, JobClose, JobPop, JobRelease, Age, ResetDedupe, vars

LEMMA MarkNext ==
  ASSUME Interruptible = {}, TypeOK, OneDispatcher, Undisturbed, ReportsAreTrue, MarkHasOwner,
         [Next]_vars
  PROVE  MarkHasOwner'
<1> USE DEF TypeOK, MarkHasOwner
<1>1. ASSUME NEW r \in Reporters,
             \/ CallRun(r) \/ CallBackground(r) \/ Check(r) \/ Lookup(r) \/ Await(r)
             \/ Record(r) \/ Finish(r) \/ Close(r) \/ Pop(r)
      PROVE  MarkHasOwner'
  <2>1. /\ UNCHANGED <<seen, jobs, acked>>
        /\ \A q \in Reporters \ {r} : pc'[q] = pc[q] /\ call'[q] = call[q]
    BY <1>1 DEF CallRun, CallBackground, Check, Lookup, Await, Record, Finish, Close, Pop, Goto, Return
  <2>2. pc[r] \notin {"post", "spawn", "start", "unslot", "unmark", "settle"}
    BY <1>1 DEF CallRun, CallBackground, Check, Lookup, Await, Record, Finish, Close, Pop
  <2>3. QED BY <2>1, <2>2 DEF Fresh, Reporting, jobs
<1>2. ASSUME NEW r \in Reporters, ShouldReport(r) PROVE MarkHasOwner'
  <2> DEFINE k == call[r].key
  <2>1. CASE Fresh(k)
    <3>1. /\ UNCHANGED <<seen, jobs, acked, call>> /\ pc[r] = "mark"
          /\ \A q \in Reporters \ {r} : pc'[q] = pc[q]
      BY <1>2, <2>1 DEF ShouldReport, Goto
    <3>2. QED BY <3>1 DEF Fresh, Reporting, jobs
  <2>2. CASE ~Fresh(k)
    <3>1. PICK s \in RoomFor : seen' = [s EXCEPT ![k] = "fresh"]
      BY <1>2, <2>2 DEF ShouldReport
    <3>2. \A m \in Keys \ {k} : Fresh(m)' => Fresh(m)
      BY <3>1, RoomType DEF Fresh
    <3>3. /\ UNCHANGED <<jobs, acked>> /\ pc[r] = "mark" /\ pc'[r] \in {"post", "spawn"}
          /\ \A q \in Reporters \ {r} : pc'[q] = pc[q] /\ call'[q] = call[q]
          /\ call'[r].key = k
      BY <1>2, <2>2 DEF ShouldReport, Goto, Calls
    <3>4. QED BY <3>2, <3>3 DEF Reporting, jobs
  <2>3. QED BY <2>1, <2>2
<1>3. ASSUME NEW r \in Reporters, SyncPost(r) PROVE MarkHasOwner'
  <2>1. /\ UNCHANGED <<seen, jobs>> /\ acked \subseteq acked' /\ pc' = [pc EXCEPT ![r] = "settle"]
        /\ \A q \in Reporters \ {r} : call'[q] = call[q]
        /\ call'[r].key = call[r].key
    BY <1>3 DEF SyncPost, Goto, Acknowledged, Calls
  <2>2. call'[r].result = "error" \/ call[r].key \in acked'
    BY <1>3, AcceptedIsAcknowledged
    DEF SyncPost, Undisturbed, SecurityEnabled, Acknowledged, Calls
  <2>3. QED BY <2>1, <2>2 DEF Fresh, Reporting, jobs
<1>4. ASSUME NEW r \in Reporters, SyncSettle(r) PROVE MarkHasOwner'
  <2>1. /\ UNCHANGED <<jobs, acked, call>> /\ pc[r] = "settle"
        /\ \A q \in Reporters \ {r} : pc'[q] = pc[q]
    BY <1>4 DEF SyncSettle, Goto
  <2>2. CASE call[r].result = "error"
    <3>1. seen' = [seen EXCEPT ![call[r].key] = "absent"] BY <1>4, <2>2 DEF SyncSettle
    <3>2. QED BY <2>1, <3>1 DEF Fresh, Reporting, jobs
  <2>3. CASE call[r].result # "error"
    <3>1. seen' = seen BY <1>4, <2>3 DEF SyncSettle
    <3>2. QED BY <2>1, <2>3, <3>1 DEF Fresh, Reporting, jobs
  <2>4. QED BY <2>2, <2>3
<1>5. ASSUME NEW r \in Reporters, AcquireSlot(r) \/ Unslot(r) PROVE MarkHasOwner'
  <2>1. /\ UNCHANGED <<seen, jobs, acked, call>> /\ pc'[r] \in {"start", "unmark"}
        /\ \A q \in Reporters \ {r} : pc'[q] = pc[q]
    BY <1>5 DEF AcquireSlot, Unslot, Goto
  <2>2. QED BY <2>1 DEF Fresh, Reporting, jobs
<1>6. ASSUME NEW r \in Reporters, StartThread(r) PROVE MarkHasOwner'
  <2>1. /\ UNCHANGED <<seen, acked>> /\ call[r].flight \in Flights /\ pc[r] = "start"
        /\ \A q \in Reporters \ {r} : pc'[q] = pc[q] /\ call'[q] = call[q]
    BY <1>6 DEF StartThread, Goto, Return, AsyncPcs
  <2>2. CASE pc' = [pc EXCEPT ![r] = "unslot"] /\ UNCHANGED <<call, jobs>>
    BY <2>1, <2>2 DEF Fresh, Reporting, jobs
  <2>3. CASE /\ job' = [job EXCEPT ![call[r].flight] = "post"]
             /\ jobKey' = [jobKey EXCEPT ![call[r].flight] = call[r].key]
             /\ jobResult' = [jobResult EXCEPT ![call[r].flight] = "none"]
    <3>1. job[call[r].flight] = "none" BY <2>1 DEF OneDispatcher, AsyncPcs
    <3>2. QED BY <2>1, <2>3, <3>1 DEF Fresh, Reporting
  <2>4. QED BY <1>6, <2>2, <2>3 DEF StartThread, Goto
<1>7. ASSUME NEW r \in Reporters, Unmark(r) PROVE MarkHasOwner'
  <2>1. /\ UNCHANGED <<jobs, acked, call>> /\ seen' = [seen EXCEPT ![call[r].key] = "absent"]
        /\ \A q \in Reporters \ {r} : pc'[q] = pc[q]
    BY <1>7 DEF Unmark, Goto
  <2>2. QED BY <2>1 DEF Fresh, Reporting, jobs
<1>8. ASSUME NEW f \in Flights, JobPost(f) PROVE MarkHasOwner'
  <2>1. /\ UNCHANGED <<seen, pc, call, jobKey>> /\ acked \subseteq acked'
        /\ job' = [job EXCEPT ![f] = "settle"] /\ job[f] = "post"
        /\ \A g \in Flights \ {f} : jobResult'[g] = jobResult[g]
    BY <1>8 DEF JobPost, Acknowledged, local
  <2>2. jobResult'[f] # "accepted" \/ jobKey[f] \in acked'
    BY <1>8, AcceptedIsAcknowledged DEF JobPost, Acknowledged
  <2>3. QED BY <2>1, <2>2 DEF Fresh, Reporting
<1>9. ASSUME NEW f \in Flights, JobSettle(f) PROVE MarkHasOwner'
  <2>1. /\ UNCHANGED <<pc, call, jobKey, jobResult, acked>>
        /\ job' = [job EXCEPT ![f] = "close"] /\ job[f] = "settle"
    BY <1>9 DEF JobSettle, local
  <2>2. \/ jobResult[f] = "accepted" /\ jobKey[f] \in acked /\ UNCHANGED seen
        \/ seen' = [seen EXCEPT ![jobKey[f]] = "absent"]
    BY <1>9 DEF JobSettle, ReportsAreTrue
  <2>3. QED BY <2>1, <2>2 DEF Fresh, Reporting
<1>10. ASSUME NEW f \in Flights, JobClose(f) \/ JobPop(f) \/ JobRelease(f) PROVE MarkHasOwner'
  <2>1. /\ UNCHANGED <<seen, pc, call, acked>> /\ job[f] \notin {"post", "settle"}
        /\ \A g \in Flights \ {f} :
             job'[g] = job[g] /\ jobKey'[g] = jobKey[g] /\ jobResult'[g] = jobResult[g]
    BY <1>10 DEF JobClose, JobPop, JobRelease, local
  <2>2. QED BY <2>1 DEF Fresh, Reporting
<1>11. CASE ResetDedupe \/ \E k \in Keys : Age(k)
  <2>1. UNCHANGED <<local, jobs, acked>> /\ \A k \in Keys : Fresh(k)' => Fresh(k)
    BY <1>11 DEF ResetDedupe, Age, Fresh
  <2>2. QED BY <2>1 DEF Reporting, local, jobs
<1>12. CASE UNCHANGED <<seen, local, jobs, acked>>
  BY <1>12 DEF Fresh, Reporting, local, jobs
<1>13. QED
  BY <1>1, <1>2, <1>3, <1>4, <1>5, <1>6, <1>7, <1>8, <1>9, <1>10, <1>11, <1>12
  DEF Next, ReporterStep, JobStep, Interrupt, FlipSecurity, vars

(* A mark inside the window is acknowledged or will be taken back by a     *)
(* report in progress, whatever threads, evictions and resets do, as long  *)
(* as security is never switched off and no report is interrupted.  Both   *)
(* conditions are needed: a report that finds security off keeps its mark  *)
(* without a post, and a KeyboardInterrupt leaves discover() before the    *)
(* mark is taken back (registry.py, discover).                             *)
THEOREM MarksCorrect ==
  ASSUME MaxFlips = 0, Interruptible = {}
  PROVE  Spec => []MarkHasOwner
<1> DEFINE IInv == TypeOK /\ OneDispatcher /\ ReportInv /\ Undisturbed /\ MarkHasOwner
<1>1. Init => IInv
  BY TypeInit, ReportInit DEF Init, OneDispatcher, AsyncPcs, Undisturbed, MarkHasOwner, Fresh
<1>2. IInv /\ [Next]_vars => IInv'
  BY TypeNext, DispatcherNext, ReportNext, UndisturbedNext, MarkNext DEF ReportInv
<1>3. QED BY <1>1, <1>2, PTL DEF Spec

-----------------------------------------------------------------------------
(* One thread that only reports at run boundaries: a mark it finds is an    *)
(* acknowledged one, and so is whatever it runs on, seeds or writes.        *)
OneThread == \A r, q \in Reporters : r = q

Backed ==
  /\ security = "enabled"
  /\ captured \subseteq acked
  /\ \A o \in Objects : marker[o] # None => marker[o] \in acked
  /\ \A f \in Flights : job[f] = "none"
  /\ \A k \in Keys : ~Pending(k)
  /\ \A k \in Keys : Fresh(k) =>
       k \in acked \/ \E r \in Reporters : call[r].key = k /\ pc[r] \in {"post", "settle"}

Boundary(r) ==
  /\ pc[r] \in {"idle", "check", "mark", "lookup", "post", "settle", "record", "running"}
  /\ pc[r] # "idle" => call[r].mode = "run"
  /\ pc[r] \in {"lookup", "running"} => call[r].key \in acked
  /\ pc[r] = "settle" => call[r].result \in {"accepted", "error"}
  /\ pc[r] \in {"settle", "record"} => call[r].result = "error" \/ call[r].key \in acked

SequentialInv == Backed /\ \A r \in Reporters : Boundary(r)

LEMMA SequentialInit == ASSUME MaxFlips = 0, Init PROVE SequentialInv
  BY DEF Init, SequentialInv, Backed, Boundary, Pending, Fresh

(* A step of the one thread, by what it leaves behind. *)
LEMMA SequentialMove ==
  ASSUME OneThread, TypeOK, SequentialInv, NEW r \in Reporters,
         UNCHANGED <<security, job, reportFlights>>, acked \subseteq acked',
         captured' \subseteq acked',
         \A o \in Objects : marker'[o] # None => marker'[o] \in acked',
         \A k \in Keys : Fresh(k)' =>
           k \in acked' \/ (call'[r].key = k /\ pc'[r] \in {"post", "settle"}),
         Boundary(r)'
  PROVE  SequentialInv'
<1>1. \A q \in Reporters : q = r
  BY DEF OneThread
<1>2. \A q \in Reporters : Boundary(q)'
  BY <1>1
<1>3. Backed'
  BY DEF SequentialInv, Backed, Pending
<1> QED
  BY <1>2, <1>3 DEF SequentialInv

LEMMA SequentialStep ==
  ASSUME "background" \notin Modes, Interruptible = {}, OneThread, TypeOK, SequentialInv,
         NEW r \in Reporters,
         CallRun(r) \/ CallBackground(r) \/ ReporterStep(r) \/ Finish(r) \/ Interrupt(r)
  PROVE  SequentialInv'
<1> USE NoneAssumption DEF TypeOK
<1>1. Boundary(r) /\ Backed /\ \A q \in Reporters : q = r
  BY DEF SequentialInv, OneThread
<1>2. \A k \in Keys : Fresh(k) =>
        k \in acked \/ (call[r].key = k /\ pc[r] \in {"post", "settle"})
  BY <1>1 DEF Backed
<1>3. CASE CallRun(r)
  <2>1. PICK o \in Objects \union {None}, k \in Keys, result \in {"native", "known", "none"} :
          /\ call' = [call EXCEPT ![r] = NewCall("run", o, k, result)]
          /\ pc' = [pc EXCEPT ![r] = IF result = "none" THEN "check" ELSE "running"]
          /\ result = "native" => security = "disabled"
          /\ result = "known" => o # None /\ marker[o] = k
    BY <1>3, Zenon DEF CallRun, Goto
  <2>2. /\ call'[r].mode = "run" /\ call'[r].key = k
        /\ pc'[r] = IF result = "none" THEN "check" ELSE "running"
    BY <2>1 DEF NewCall
  <2>3. result # "none" => k \in acked
    BY <1>1, <2>1 DEF Backed
  <2>4. pc[r] = "idle" /\ UNCHANGED <<seen, reportFlights, job, captured, marker, acked, security>>
    BY <1>3 DEF CallRun, jobs, env
  <2>5. Boundary(r)'
    BY <2>2, <2>3, <2>4 DEF Boundary
  <2> QED
    BY <1>1, <1>2, <2>4, <2>5, SequentialMove DEF Backed, Fresh
<1>4. CASE Check(r)
  <2>1. /\ UNCHANGED <<seen, reportFlights, job, captured, marker, acked, security>>
        /\ pc[r] = "check"
    BY <1>4 DEF Check, jobs, env
  <2>2. CASE Goto(r, "mark") /\ UNCHANGED call
    <3>1. Boundary(r)'
      BY <1>1, <2>1, <2>2 DEF Boundary, Goto
    <3> QED
      BY <1>1, <1>2, <2>1, <3>1, SequentialMove DEF Backed, Fresh
  <2>3. CASE Return(r, "record", "error")
    <3>1. Boundary(r)'
      BY <1>1, <2>1, <2>3, ReturnKeeps DEF Boundary, Results
    <3> QED
      BY <1>1, <1>2, <2>1, <3>1, SequentialMove DEF Backed, Fresh
  <2> QED
    BY <1>1, <1>4, <2>2, <2>3 DEF Check, SecurityEnabled, Backed
<1>5. CASE ShouldReport(r)
  <2> DEFINE k == call[r].key
  <2>1. /\ UNCHANGED <<reportFlights, job, captured, marker, acked, security, call>>
        /\ pc[r] = "mark" /\ k \in Keys
    BY <1>1, <1>5 DEF ShouldReport, Boundary, jobs, env
  <2>2. CASE Fresh(k)
    <3>1. UNCHANGED seen /\ pc'[r] = "lookup"
      BY <1>5, <2>2 DEF ShouldReport, Goto
    <3>2. k \in acked
      BY <1>2, <2>1, <2>2
    <3>3. Boundary(r)'
      BY <1>1, <2>1, <3>1, <3>2 DEF Boundary
    <3> QED
      BY <1>1, <1>2, <2>1, <3>1, <3>3, SequentialMove DEF Backed, Fresh
  <2>3. CASE ~Fresh(k)
    <3>1. PICK s \in RoomFor : seen' = [s EXCEPT ![k] = "fresh"]
      BY <1>5, <2>3 DEF ShouldReport
    <3>2. \A m \in Keys \ {k} : Fresh(m)' => Fresh(m)
      BY <3>1, RoomType DEF Fresh
    <3>3. pc'[r] = "post"
      BY <1>1, <1>5, <2>1, <2>3 DEF ShouldReport, Goto, Boundary
    <3>4. Boundary(r)'
      BY <1>1, <2>1, <3>3 DEF Boundary
    <3> QED
      BY <1>1, <1>2, <2>1, <3>2, <3>3, <3>4, SequentialMove DEF Backed
  <2> QED
    BY <2>2, <2>3
<1>6. CASE Lookup(r)
  <2>1. /\ UNCHANGED <<seen, reportFlights, job, marker, acked, security>>
        /\ pc[r] = "lookup" /\ call[r].key \in acked
    BY <1>1, <1>6 DEF Lookup, Boundary, jobs, env
  <2>2. Return(r, "record", "deduped") /\ captured' = captured \union {call[r].key}
    BY <1>1, <1>6, <2>1 DEF Lookup, Backed
  <2>3. Boundary(r)'
    BY <1>1, <2>1, <2>2, ReturnKeeps DEF Boundary, Results
  <2> QED
    BY <1>1, <1>2, <2>1, <2>2, <2>3, SequentialMove DEF Backed, Fresh
<1>7. CASE SyncPost(r)
  <2>1. /\ UNCHANGED <<seen, reportFlights, job, captured, marker, security>>
        /\ pc[r] = "post" /\ pc'[r] = "settle" /\ acked \subseteq acked'
        /\ call'[r].key = call[r].key /\ call'[r].mode = call[r].mode
    BY <1>7 DEF SyncPost, Goto, Acknowledged, Calls, jobs, env
  <2>2. /\ call'[r].result \in {"accepted", "error"}
        /\ call'[r].result = "error" \/ call[r].key \in acked'
    BY <1>1, <1>7, AcceptedIsAcknowledged
    DEF SyncPost, Backed, SecurityEnabled, Acknowledged, Calls
  <2>3. Boundary(r)'
    BY <1>1, <2>1, <2>2 DEF Boundary
  <2> QED
    BY <1>1, <1>2, <2>1, <2>3, SequentialMove DEF Backed, Fresh
<1>8. CASE SyncSettle(r)
  <2>1. /\ UNCHANGED <<reportFlights, job, marker, acked, security, call>>
        /\ pc[r] = "settle" /\ pc'[r] = "record"
    BY <1>8 DEF SyncSettle, Goto, jobs, env
  <2>2. Boundary(r)'
    BY <1>1, <2>1 DEF Boundary
  <2>3. CASE call[r].result = "error"
    <3>1. seen' = [seen EXCEPT ![call[r].key] = "absent"] /\ UNCHANGED captured
      BY <1>8, <2>3 DEF SyncSettle
    <3> QED
      BY <1>1, <1>2, <2>1, <2>2, <3>1, SequentialMove DEF Backed, Fresh
  <2>4. CASE call[r].result # "error"
    <3>1. captured' = captured \union {call[r].key} /\ UNCHANGED seen
      BY <1>8, <2>4 DEF SyncSettle
    <3>2. call[r].key \in acked
      BY <1>1, <2>1, <2>4 DEF Boundary
    <3> QED
      BY <1>1, <1>2, <2>1, <2>2, <3>1, <3>2, SequentialMove DEF Backed, Fresh
  <2> QED
    BY <2>3, <2>4
<1>9. CASE Record(r)
  <2>1. /\ UNCHANGED <<seen, reportFlights, job, captured, acked, security>> /\ pc[r] = "record"
    BY <1>9 DEF Record, jobs, env
  <2>2. CASE call[r].result # "error"
    <3>1. /\ pc'[r] = "running" /\ UNCHANGED call
          /\ marker' = IF call[r].obj # None THEN [marker EXCEPT ![call[r].obj] = call[r].key]
                       ELSE marker
      BY <1>1, <1>9, <2>1, <2>2 DEF Record, Goto, Boundary
    <3>2. call[r].key \in acked
      BY <1>1, <2>1, <2>2 DEF Boundary
    <3>3. Boundary(r)'
      BY <1>1, <2>1, <3>1, <3>2 DEF Boundary
    <3>4. \A o \in Objects : marker'[o] # None => marker'[o] \in acked
      BY <1>1, <3>1, <3>2 DEF Backed
    <3> QED
      BY <1>1, <1>2, <2>1, <3>1, <3>3, <3>4, SequentialMove DEF Backed, Fresh
  <2>3. CASE call[r].result = "error"
    <3>1. pc'[r] = "idle" /\ UNCHANGED marker
      BY <1>9, <2>3 DEF Record, Goto
    <3>2. Boundary(r)'
      BY <3>1 DEF Boundary
    <3> QED
      BY <1>1, <1>2, <2>1, <3>1, <3>2, SequentialMove DEF Backed, Fresh
  <2> QED
    BY <2>2, <2>3
<1>10. CASE Finish(r)
  <2>1. /\ UNCHANGED <<seen, reportFlights, job, captured, marker, acked, security>>
        /\ pc[r] = "running" /\ pc'[r] = "idle"
    BY <1>10 DEF Finish, Goto, jobs, env
  <2>2. Boundary(r)'
    BY <2>1 DEF Boundary
  <2> QED
    BY <1>1, <1>2, <2>1, <2>2, SequentialMove DEF Backed, Fresh
<1> QED
  BY <1>1, <1>3, <1>4, <1>5, <1>6, <1>7, <1>8, <1>9, <1>10
  DEF ReporterStep, Boundary, CallBackground, Interrupt, Await, AcquireSlot, StartThread, Unslot,
      Unmark, Close, Pop

LEMMA SequentialNext ==
  ASSUME "background" \notin Modes, Interruptible = {}, MaxFlips = 0, OneThread,
         TypeOK, SequentialInv, [Next]_vars
  PROVE  SequentialInv'
<1>1. CASE \E r \in Reporters :
             CallRun(r) \/ CallBackground(r) \/ ReporterStep(r) \/ Finish(r) \/ Interrupt(r)
  BY <1>1, SequentialStep
<1>2. ASSUME NEW f \in Flights, JobStep(f) PROVE FALSE
  BY <1>2 DEF JobStep, JobPost, JobSettle, JobClose, JobPop, JobRelease, SequentialInv, Backed
<1>3. CASE ResetDedupe \/ \E k \in Keys : Age(k)
  <2>1. /\ UNCHANGED <<pc, call, job, captured, marker, acked, security>>
        /\ \A k \in Keys : (Fresh(k)' => Fresh(k)) /\ (Pending(k)' => Pending(k))
    BY <1>3 DEF ResetDedupe, Age, Fresh, Pending, local, jobs, TypeOK
  <2> QED
    BY <2>1 DEF SequentialInv, Backed, Boundary
<1>4. ~FlipSecurity
  BY DEF FlipSecurity, TypeOK
<1>5. CASE UNCHANGED vars
  BY <1>5 DEF vars, local, jobs, env, SequentialInv, Backed, Boundary, Fresh, Pending
<1> QED
  BY <1>1, <1>2, <1>3, <1>4, <1>5 DEF Next

(* A thread that reports at its run boundaries, alone, runs application     *)
(* code, captures tools and marks objects on acknowledgements only, however *)
(* marks age, are evicted or reset (registry.py, discover; enforcement.py,  *)
(* ensure_topology_reported).  A second thread breaks it: DiscoveryRunRace. *)
THEOREM SequentialCorrect ==
  ASSUME "background" \notin Modes, Interruptible = {}, MaxFlips = 0, OneThread
  PROVE  Spec => [](RunsOnlyAcknowledged /\ CapturedMeansAcknowledged /\ MarkerMeansAcknowledged)
<1>1. Init => TypeOK /\ SequentialInv
  BY TypeInit, SequentialInit
<1>2. TypeOK /\ SequentialInv /\ [Next]_vars => TypeOK' /\ SequentialInv'
  BY TypeNext, SequentialNext
<1>3. SequentialInv =>
        RunsOnlyAcknowledged /\ CapturedMeansAcknowledged /\ MarkerMeansAcknowledged
  BY DEF SequentialInv, Backed, Boundary, RunsOnlyAcknowledged, CapturedMeansAcknowledged,
         MarkerMeansAcknowledged
<1> QED
  BY <1>1, <1>2, <1>3, PTL DEF Spec

-----------------------------------------------------------------------------
(* Background reports only, and no mark is forgotten: whoever posts a       *)
(* manifest, or will take its mark back, has its mark and the flight that   *)
(* is registered for it.                                                    *)
HoldingPcs == {"spawn", "start", "unslot", "unmark"}

BackgroundOnly ==
  \A r \in Reporters :
    /\ pc[r] \in {"idle", "mark", "lookup", "record"} \union AsyncPcs
    /\ pc[r] # "idle" => call[r].mode = "background"

HoldsKey ==
  /\ \A r \in Reporters : pc[r] \in HoldingPcs =>
       Fresh(call[r].key) /\ reportFlights[call[r].key] = call[r].flight
  /\ \A f \in Flights : job[f] \in {"post", "settle"} =>
       Fresh(jobKey[f]) /\ reportFlights[jobKey[f]] = f

LEMMA RoomKeepsPending ==
  ASSUME seen \in [Keys -> MarkStates], NEW s \in RoomFor, NEW k \in Keys, Fresh(k), Pending(k)
  PROVE  s[k] = "fresh"
  BY DEF RoomFor, DropOld, Evicted, Marked, Fresh, MarkStates

LEMMA HoldingInit == ASSUME Init PROVE BackgroundOnly /\ HoldsKey
  BY DEF Init, BackgroundOnly, HoldsKey, HoldingPcs

LEMMA HoldingStep ==
  ASSUME "run" \notin Modes, TypeOK, OneDispatcher, BackgroundOnly, HoldsKey,
         NEW r \in Reporters,
         CallRun(r) \/ CallBackground(r) \/ ReporterStep(r) \/ Finish(r) \/ Interrupt(r)
  PROVE  BackgroundOnly' /\ HoldsKey'
<1> USE NoneAssumption DEF TypeOK, BackgroundOnly, HoldsKey, HoldingPcs, AsyncPcs
<1>1. \A q \in Reporters \ {r} : pc'[q] = pc[q] /\ call'[q] = call[q]
  BY DEF CallRun, CallBackground, ReporterStep, Check, ShouldReport, Lookup, Await, SyncPost,
         SyncSettle, Record, AcquireSlot, StartThread, Unslot, Unmark, Close, Pop, Finish,
         Interrupt, Goto, Return
<1>2. CASE CallBackground(r)
  <2>1. PICK k \in Keys : call' = [call EXCEPT ![r] = NewCall("background", None, k, "none")]
    BY <1>2 DEF CallBackground
  <2>2. pc'[r] = "mark" /\ call'[r].mode = "background" /\ UNCHANGED <<seen, reportFlights, jobs>>
    BY <1>2, <2>1 DEF CallBackground, Goto, NewCall
  <2> QED
    BY <1>1, <2>2 DEF Fresh, jobs
<1>3. CASE Lookup(r) \/ Record(r) \/ AcquireSlot(r) \/ Unslot(r) \/ Close(r)
  <2>1. /\ UNCHANGED <<seen, reportFlights, jobs>>
        /\ pc'[r] # "idle" => call'[r].mode = call[r].mode
        /\ pc'[r] \in {"idle", "record", "start", "unmark", "pop"}
        /\ pc'[r] \in HoldingPcs => pc[r] \in HoldingPcs /\ UNCHANGED call
        /\ pc[r] # "idle"
    <3>1. CASE Lookup(r)
      <4>1. Return(r, "record", "error") \/ Return(r, "record", "deduped")
        BY <1>3, <3>1 DEF Lookup
      <4> QED
        BY <3>1, <4>1, ReturnKeeps DEF Lookup, Results
    <3>2. CASE Record(r)
      BY <3>2 DEF Record, Goto
    <3>3. CASE AcquireSlot(r) \/ Unslot(r) \/ Close(r)
      BY <3>3 DEF AcquireSlot, Unslot, Close, Goto
    <3> QED
      BY <1>3, <3>1, <3>2, <3>3
  <2> QED
    BY <1>1, <2>1 DEF Fresh, jobs
<1>4. CASE ShouldReport(r)
  <2> DEFINE k == call[r].key
  <2>1. k \in Keys /\ pc[r] = "mark" /\ call[r].mode = "background" /\ UNCHANGED jobs
    BY <1>4 DEF ShouldReport
  <2>2. CASE Fresh(k)
    BY <1>1, <1>4, <2>1, <2>2 DEF ShouldReport, Goto, Fresh, jobs
  <2>3. CASE ~Fresh(k)
    <3>1. PICK s \in RoomFor : seen' = [s EXCEPT ![k] = "fresh"]
      BY <1>4, <2>3 DEF ShouldReport
    <3>2. PICK f \in Flights :
            /\ Unreferenced(f)
            /\ reportFlights' = [reportFlights EXCEPT ![k] = f]
            /\ call' = [call EXCEPT ![r].flight = f]
            /\ pc' = [pc EXCEPT ![r] = "spawn"]
      BY <1>4, <2>1, <2>3 DEF ShouldReport, Goto, ANewFlight
    <3>3. /\ call'[r].key = k /\ call'[r].flight = f /\ call'[r].mode = "background"
      BY <2>1, <3>2, HoldKeeps
    <3>4. s \in [Keys -> MarkStates]
      BY <3>1, RoomType
    <3>5. Fresh(k)' /\ reportFlights'[k] = f
      BY <2>1, <3>1, <3>2, <3>4 DEF Fresh
    <3>6. \A m \in Keys : Fresh(m) /\ Pending(m) =>
            Fresh(m)' /\ reportFlights'[m] = reportFlights[m]
      BY <2>1, <2>3, <3>1, <3>2, <3>4, RoomKeepsPending DEF Fresh
    <3>7. \A q \in Reporters \ {r} : pc[q] \in HoldingPcs =>
            Fresh(call[q].key)' /\ reportFlights'[call[q].key] = call[q].flight
      BY <1>1, <3>6 DEF Pending
    <3>8. \A g \in Flights : job[g] \in {"post", "settle"} =>
            Fresh(jobKey[g])' /\ reportFlights'[jobKey[g]] = g
      BY <2>1, <3>6 DEF Pending, jobs
    <3> QED
      BY <1>1, <2>1, <3>2, <3>3, <3>5, <3>7, <3>8 DEF jobs
  <2> QED
    BY <2>2, <2>3
<1>5. CASE StartThread(r)
  <2> DEFINE f == call[r].flight
  <2>1. /\ pc[r] = "start" /\ f \in Flights /\ UNCHANGED <<seen, reportFlights>>
        /\ Fresh(call[r].key) /\ reportFlights[call[r].key] = f
    BY <1>5 DEF StartThread
  <2>2. CASE Goto(r, "unslot") /\ UNCHANGED <<call, jobs>>
    BY <1>1, <2>1, <2>2 DEF Goto, Fresh, jobs
  <2>3. CASE /\ job' = [job EXCEPT ![f] = "post"]
             /\ jobKey' = [jobKey EXCEPT ![f] = call[r].key]
             /\ Return(r, "record", "accepted")
    <3>1. pc'[r] = "record" /\ call'[r].mode = call[r].mode
      BY <2>1, <2>3, ReturnKeeps DEF Results
    <3> QED
      BY <1>1, <2>1, <2>3, <3>1 DEF Fresh
  <2> QED
    BY <1>5, <2>2, <2>3 DEF StartThread
<1>6. CASE Unmark(r)
  <2> DEFINE k == call[r].key
  <2>1. /\ pc[r] = "unmark" /\ pc'[r] = "close" /\ UNCHANGED <<reportFlights, jobs, call>>
        /\ seen' = [seen EXCEPT ![k] = "absent"]
    BY <1>6 DEF Unmark, Goto
  <2>2. \A q \in Reporters \ {r} : pc[q] \in HoldingPcs => call[q].key # k
    BY <2>1 DEF OneDispatcher
  <2>3. \A f \in Flights : job[f] \in {"post", "settle"} => jobKey[f] # k
    BY <2>1 DEF OneDispatcher
  <2> QED
    BY <1>1, <2>1, <2>2, <2>3 DEF Fresh, jobs
<1>7. CASE Pop(r)
  <2> DEFINE k == call[r].key f == call[r].flight
  <2>1. /\ pc[r] = "pop" /\ UNCHANGED <<seen, jobs>> /\ k \in Keys /\ f \in Flights
        /\ reportFlights' = IF reportFlights[k] = f
                            THEN [reportFlights EXCEPT ![k] = None] ELSE reportFlights
    BY <1>7 DEF Pop, PopFlight
  <2>2. pc'[r] = "record" /\ call'[r].mode = call[r].mode
    BY <1>7, ReturnKeeps DEF Pop, Results
  <2>3. \A q \in Reporters \ {r} : pc[q] \in HoldingPcs => call[q].flight # f
    BY <2>1 DEF OneDispatcher
  <2>4. \A g \in Flights : job[g] \in {"post", "settle"} => g # f
    BY <2>1 DEF OneDispatcher
  <2> QED
    BY <1>1, <2>1, <2>2, <2>3, <2>4 DEF Fresh, jobs
<1> QED
  BY <1>2, <1>3, <1>4, <1>5, <1>6, <1>7
  DEF ReporterStep, CallRun, Check, Await, SyncPost, SyncSettle, Finish, Interrupt

LEMMA HoldingNext ==
  ASSUME "run" \notin Modes, MaxForget = 0, TypeOK, OneDispatcher, BackgroundOnly, HoldsKey,
         [Next]_vars
  PROVE  BackgroundOnly' /\ HoldsKey'
<1> USE DEF TypeOK, BackgroundOnly, HoldsKey, HoldingPcs, AsyncPcs
<1>1. CASE \E r \in Reporters :
             CallRun(r) \/ CallBackground(r) \/ ReporterStep(r) \/ Finish(r) \/ Interrupt(r)
  BY <1>1, HoldingStep
<1>2. ASSUME NEW f \in Flights, JobPost(f) \/ JobClose(f) \/ JobRelease(f)
      PROVE  BackgroundOnly' /\ HoldsKey'
  <2>1. /\ UNCHANGED <<seen, reportFlights, pc, call>>
        /\ \A g \in Flights \ {f} : job'[g] = job[g] /\ jobKey'[g] = jobKey[g]
        /\ job'[f] \in {"post", "settle"} => job[f] = "post" /\ jobKey'[f] = jobKey[f]
    BY <1>2 DEF JobPost, JobClose, JobRelease, local
  <2> QED
    BY <2>1 DEF Fresh
<1>3. ASSUME NEW f \in Flights, JobSettle(f) PROVE BackgroundOnly' /\ HoldsKey'
  <2>1. /\ UNCHANGED <<reportFlights, pc, call, jobKey>>
        /\ job[f] = "settle" /\ job' = [job EXCEPT ![f] = "close"]
        /\ seen' = seen \/ seen' = [seen EXCEPT ![jobKey[f]] = "absent"]
    BY <1>3 DEF JobSettle, local
  <2>2. reportFlights[jobKey[f]] = f
    BY <2>1
  <2>3. \A r \in Reporters : pc[r] \in HoldingPcs => call[r].key # jobKey[f]
    BY <2>1, <2>2 DEF OneDispatcher
  <2>4. \A g \in Flights \ {f} : job[g] \in {"post", "settle"} => jobKey[g] # jobKey[f]
    BY <2>2
  <2> QED
    BY <2>1, <2>3, <2>4 DEF Fresh
<1>4. ASSUME NEW f \in Flights, JobPop(f) PROVE BackgroundOnly' /\ HoldsKey'
  <2>1. /\ UNCHANGED <<seen, pc, call, jobKey>>
        /\ job[f] = "pop" /\ job' = [job EXCEPT ![f] = "release"]
        /\ \A k \in Keys : reportFlights[k] # f => reportFlights'[k] = reportFlights[k]
    BY <1>4 DEF JobPop, PopFlight, local
  <2>2. \A r \in Reporters : pc[r] \in HoldingPcs => call[r].flight # f
    BY <2>1 DEF OneDispatcher
  <2> QED
    BY <2>1, <2>2 DEF Fresh
<1>5. ~ResetDedupe /\ \A k \in Keys : ~Age(k)
  BY DEF ResetDedupe, Age
<1>6. CASE FlipSecurity \/ UNCHANGED vars
  BY <1>6 DEF FlipSecurity, vars, local, jobs, Fresh
<1> QED
  BY <1>1, <1>2, <1>3, <1>4, <1>5, <1>6 DEF Next, JobStep

(* While no mark is forgotten, a manifest that is only reported in the      *)
(* background is posted by one thread at a time, whichever marks make room  *)
(* for others and however its reports fail: evicting a mark whose flight is *)
(* registered would break it (registry.py, _should_report).                 *)
THEOREM PostsCorrect ==
  ASSUME "run" \notin Modes, MaxForget = 0
  PROVE  Spec => []OnePostPerKey
<1>1. Init => TypeOK /\ OneDispatcher /\ BackgroundOnly /\ HoldsKey
  BY TypeInit, HoldingInit DEF Init, OneDispatcher, AsyncPcs
<1>2. TypeOK /\ OneDispatcher /\ BackgroundOnly /\ HoldsKey /\ [Next]_vars
        => (TypeOK /\ OneDispatcher /\ BackgroundOnly /\ HoldsKey)'
  BY TypeNext, DispatcherNext, HoldingNext
<1>3. ASSUME TypeOK, OneDispatcher, BackgroundOnly, HoldsKey, NEW k \in Keys
      PROVE  Cardinality(Posters(k)) <= 1
  <2> USE DEF TypeOK, HoldsKey, HoldingPcs, AsyncPcs
  <2> DEFINE f == reportFlights[k]
             Dispatching == {r \in Reporters : call[r].key = k /\ pc[r] \in {"post", "spawn", "start"}}
             Posting == {g \in Flights : jobKey[g] = k /\ job[g] = "post"}
  <2>1. \A r \in Dispatching : pc[r] \in {"spawn", "start"} /\ call[r].flight = f
    BY <1>3 DEF BackgroundOnly
  <2>2. \A g \in Posting : g = f
    BY <1>3
  <2>3. \A r, q \in Dispatching : r = q
    BY <1>3, <2>1 DEF OneDispatcher
  <2>4. Dispatching = {} \/ Posting = {}
    BY <1>3, <2>1, <2>2 DEF OneDispatcher
  <2>5. \A x, y \in Posters(k) : x = y
    BY <2>2, <2>3, <2>4 DEF Posters
  <2>6. CASE Posters(k) = {}
    BY <2>6, FS_EmptySet
  <2>7. CASE Posters(k) # {}
    <3>1. PICK x : x \in Posters(k)
      BY <2>7
    <3>2. Posters(k) = {x}
      BY <2>5, <3>1
    <3> QED
      BY <3>2, FS_Singleton
  <2> QED
    BY <2>6, <2>7
<1>4. TypeOK /\ OneDispatcher /\ BackgroundOnly /\ HoldsKey => OnePostPerKey
  BY <1>3 DEF OnePostPerKey
<1> QED
  BY <1>1, <1>2, <1>4, PTL DEF Spec
=============================================================================
