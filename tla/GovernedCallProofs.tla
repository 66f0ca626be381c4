-------------------------- MODULE GovernedCallProofs --------------------------
(* Theorems about GovernedCall, for every set of tasks, of managed and of    *)
(* nesting ones, and for every bound.                                        *)
EXTENDS GovernedCall, SequenceTheorems, TLAPS

-----------------------------------------------------------------------------
(* The invariant.  A call that asks for a decision was captured; under a     *)
(* mandate a run is never pinned "off" and never waits for an older          *)
(* gateway's approval; a receipt held was issued; a run under way has told   *)
(* its start exactly when it was pinned "on", and one that is over its end.  *)
Early  == {"preflight", "capture", "scope"}
Asking == {"info", "decide", "legacy", "poll", "wait"}

Sound(c, cap, iss) ==
  /\ c.at # "idle" => c.runs > 0 /\ c.depth > 0
  /\ c.at \in Early /\ c.depth = 1 => c.pinned = "unset"
  /\ c.at \in Asking => cap
  /\ c.mandate = "held" => c.pinned # "off" /\ c.at # "poll"
  /\ c.at \in Early \cup {"gate", "poll"} => ~c.waited
  /\ c.receipt <= iss

Over(s) == s = <<>> \/ \E o \in Outcomes : s = <<"start", o>>

\* What run r of a task whose call is c has told.
Told(s, c, r) ==
  /\ r > c.runs => s = <<>>
  /\ r < c.runs \/ (r = c.runs /\ c.at = "idle") => Over(s)
  /\ r = c.runs /\ c.at # "idle" => s = IF c.pinned = "on" THEN <<"start">> ELSE <<>>

CallInv(t)  == Sound(call[t], captured, issued)
StoryInv(t) == \A r \in 1..MaxRuns : Told(story[<<t, r>>], call[t], r)

Inv == TypeOK /\ \A t \in Tasks : CallInv(t) /\ StoryInv(t)

LEMMA NewCallType ==
  ASSUME NEW runs \in 0..MaxRuns, NEW depth \in 0..2, NEW pinned \in {"unset", "on", "off"},
         NEW mandate \in {"none", "held"}, NEW receipt \in 0..MaxReceipts,
         NEW mark \in Outcomes \cup {"none"}
  PROVE  NewCall(runs, depth, pinned, mandate, receipt, mark) \in Calls
  BY BoundsAssumption DEF NewCall, Calls, Steps, Errors

LEMMA IdleType ==
  ASSUME NEW runs \in 0..MaxRuns, NEW mandate \in {"none", "held"}, NEW receipt \in 0..MaxReceipts
  PROVE  LET d == Idle(runs, mandate, receipt) IN
         /\ d \in Calls /\ d.at = "idle" /\ d.runs = runs /\ d.pinned = "unset"
         /\ d.receipt = receipt /\ ~d.waited /\ d.mandate = mandate
<1>1. NewCall(runs, 0, "unset", mandate, receipt, "none") \in Calls
  BY NewCallType
<1>2. [NewCall(runs, 0, "unset", mandate, receipt, "none") EXCEPT !.at = "idle"] \in Calls
  BY <1>1 DEF Calls, Steps
<1> QED
  BY <1>2 DEF Idle, NewCall

LEMMA InvInit == ASSUME Init PROVE Inv
<1>1. \A m \in {"none", "held"} : Idle(0, m, 0) \in Calls
  BY BoundsAssumption, IdleType
<1>2. \A t \in Tasks : \E m \in {"none", "held"} : call[t] = Idle(0, m, 0)
  BY DEF Init
<1>3. call \in [Tasks -> Calls]
  <2>1. PICK held \in SUBSET Tasks :
          call = [t \in Tasks |-> Idle(0, IF t \in held THEN "held" ELSE "none", 0)]
    BY DEF Init
  <2> QED
    BY <1>1, <2>1
<1>4. story \in [Frames -> Seq(Outcomes \cup {"start"})]
  BY DEF Init
<1>5. changes \in 0..MaxChanges /\ issued \in 0..MaxReceipts /\ issued = 0
  BY BoundsAssumption DEF Init
<1>6. TypeOK
  BY <1>3, <1>4, <1>5 DEF Init, TypeOK
<1>7. ASSUME NEW t \in Tasks PROVE CallInv(t) /\ StoryInv(t)
  <2>1. PICK m \in {"none", "held"} : call[t] = Idle(0, m, 0)
    BY <1>2
  <2>2. /\ call[t].at = "idle" /\ call[t].runs = 0 /\ call[t].pinned = "unset"
        /\ call[t].receipt = 0 /\ ~call[t].waited
    BY <2>1, BoundsAssumption, IdleType
  <2>3. CallInv(t)
    BY <1>5, <2>2 DEF CallInv, Sound, Early, Asking
  <2>4. \A r \in 1..MaxRuns : story[<<t, r>>] = <<>>
    BY DEF Init, Frames
  <2> QED
    BY <2>2, <2>3, <2>4 DEF StoryInv, Told
<1> QED
  BY <1>6, <1>7 DEF Inv

-----------------------------------------------------------------------------
(* Moves of one task. *)

Elsewhere(t) == \A u \in Tasks \ {t} : call'[u] = call[u]

LEMMA SetCall ==
  ASSUME TypeOK, NEW t \in Tasks, NEW d \in Calls, Set(t, d)
  PROVE  call' \in [Tasks -> Calls] /\ call'[t] = d /\ Elsewhere(t)
  BY DEF TypeOK, Set, Elsewhere

\* The same run, at another step.
Keeps(c, d) ==
  /\ d \in Calls /\ c.at # "idle" /\ d.at # "idle"
  /\ d.runs = c.runs /\ d.mandate = c.mandate

LEMMA GotoCall ==
  ASSUME TypeOK, NEW t \in Tasks, NEW s \in Steps \ {"idle"}, ~At(t, "idle"), Goto(t, s)
  PROVE  LET c == call[t] d == call'[t] IN
         /\ Elsewhere(t) /\ call' \in [Tasks -> Calls] /\ Keeps(c, d) /\ d.at = s
         /\ d.pinned = c.pinned /\ d.depth = c.depth /\ d.waited = c.waited
         /\ d.receipt = c.receipt
<1>1. call[t] \in Calls
  BY DEF TypeOK
<1>2. [call[t] EXCEPT !.at = s] \in Calls
  BY <1>1 DEF Calls
<1>3. call' \in [Tasks -> Calls] /\ call'[t] = [call[t] EXCEPT !.at = s] /\ Elsewhere(t)
  BY <1>2, SetCall DEF Goto
<1> QED
  BY <1>1, <1>3 DEF Calls, Keeps, At

LEMMA FailCall ==
  ASSUME TypeOK, NEW t \in Tasks, NEW e \in Errors, ~At(t, "idle"), Fail(t, e)
  PROVE  LET c == call[t] d == call'[t] IN
         /\ Elsewhere(t) /\ call' \in [Tasks -> Calls] /\ Keeps(c, d) /\ d.at = "end"
         /\ d.pinned = c.pinned /\ d.depth = c.depth /\ d.waited = c.waited
         /\ d.receipt = c.receipt
<1>1. call[t] \in Calls
  BY DEF TypeOK
<1>2. [call[t] EXCEPT !.at = "end", !.error = e] \in Calls
  BY <1>1 DEF Calls, Steps
<1>3. /\ call' \in [Tasks -> Calls] /\ Elsewhere(t)
      /\ call'[t] = [call[t] EXCEPT !.at = "end", !.error = e]
  BY <1>2, SetCall DEF Fail
<1> QED
  BY <1>1, <1>3 DEF Calls, Keeps, At

LEMMA EnterCall ==
  ASSUME TypeOK, NEW t \in Tasks, NEW s \in {"off", "legacy"}, ~At(t, "idle"), Set(t, Enter(t, s))
  PROVE  LET c == call[t] d == call'[t] IN
         /\ Elsewhere(t) /\ call' \in [Tasks -> Calls] /\ Keeps(c, d) /\ d.at = "body"
         /\ d.pinned = c.pinned /\ d.depth = c.depth /\ d.waited = c.waited
         /\ d.receipt = c.receipt /\ d.source = s
<1>1. call[t] \in Calls
  BY DEF TypeOK
<1>2. Enter(t, s) \in Calls
  BY <1>1 DEF Calls, Steps, Enter
<1>3. call' \in [Tasks -> Calls] /\ Elsewhere(t) /\ call'[t] = Enter(t, s)
  BY <1>2, SetCall
<1> QED
  BY <1>1, <1>3 DEF Calls, Keeps, At, Enter

\* What acting on the verdict v makes of a call c.
Acted(c, d, v, source) ==
  /\ d.at \in {"wait", "end", "body", "poll"}
  /\ d.pinned = c.pinned /\ d.depth = c.depth /\ d.receipt <= c.receipt
  /\ d.at = "poll" => source = "legacy" /\ ~d.waited
  /\ d.at = "body" =>
       /\ v = "allow" /\ d.source = source /\ d.receipt = c.receipt
       /\ d.waited => source # "legacy" /\ d.args = "shown"

LEMMA ActCall ==
  ASSUME TypeOK, NEW t \in Tasks, ~At(t, "idle"),
         NEW c \in Calls, Keeps(call[t], c), c.at = call[t].at, c.pinned = call[t].pinned,
         c.depth = call[t].depth, c.waited = call[t].waited, call[t].receipt <= c.receipt,
         NEW v \in {"allow", "deny", "approval", "lostApproval"},
         NEW source \in {"gaf", "receipt", "legacy"}, Act(t, c, v, source)
  PROVE  LET d == call'[t] IN
         /\ Elsewhere(t) /\ call' \in [Tasks -> Calls]
         /\ Keeps(call[t], d) /\ Acted(c, d, v, source)
<1>0. call[t] \in Calls /\ c.receipt \in Nat /\ call[t].receipt \in Nat /\ c.waited \in BOOLEAN
  BY BoundsAssumption DEF TypeOK, Calls
<1>1. ASSUME NEW e \in Errors, Fail(t, e)
      PROVE  /\ Elsewhere(t) /\ call' \in [Tasks -> Calls]
             /\ Keeps(call[t], call'[t]) /\ Acted(c, call'[t], v, source)
  BY <1>0, <1>1, FailCall DEF Acted
<1>2. CASE Set(t, [c EXCEPT !.at = "wait", !.waited = TRUE])
  <2>1. [c EXCEPT !.at = "wait", !.waited = TRUE] \in Calls
    BY DEF Calls, Steps
  <2>2. /\ call' \in [Tasks -> Calls] /\ Elsewhere(t)
        /\ call'[t] = [c EXCEPT !.at = "wait", !.waited = TRUE]
    BY <1>2, <2>1, SetCall
  <2> QED
    BY <1>0, <2>2 DEF Keeps, Acted, Calls
<1>3. CASE Set(t, [c EXCEPT !.at = "body", !.source = source]) /\ v = "allow"
           /\ ~(c.waited /\ source = "legacy") /\ ~(c.waited /\ c.args = "changed")
  <2>1. [c EXCEPT !.at = "body", !.source = source] \in Calls
    BY DEF Calls, Steps
  <2>2. /\ call' \in [Tasks -> Calls] /\ Elsewhere(t)
        /\ call'[t] = [c EXCEPT !.at = "body", !.source = source]
    BY <1>3, <2>1, SetCall
  <2> QED
    BY <1>0, <1>3, <2>2 DEF Keeps, Acted, Calls
<1>4. CASE Goto(t, "poll") /\ source = "legacy" /\ ~c.waited
  <2>1. "poll" \in Steps \ {"idle"}
    BY DEF Steps
  <2> QED
    BY <1>0, <1>4, <2>1, GotoCall DEF Acted
<1> QED
  BY <1>0, <1>1, <1>2, <1>3, <1>4 DEF Act, Errors

LEMMA InvImplies == ASSUME Inv PROVE Consistent
<1>1. ASSUME NEW t \in Tasks, NEW r \in 1..MaxRuns
      PROVE  LET s == story[<<t, r>>] IN
             /\ Len(s) <= 2
             /\ Len(s) > 0 => s[1] = "start"
             /\ Len(s) = 2 => s[2] # "start"
             /\ r < call[t].runs \/ (r = call[t].runs /\ At(t, "idle")) => Len(s) # 1
  <2>1. Told(story[<<t, r>>], call[t], r) /\ call[t].runs \in Nat
    BY BoundsAssumption DEF Inv, StoryInv, TypeOK, Calls
  <2>2. \/ story[<<t, r>>] = <<>>
        \/ /\ story[<<t, r>>] = <<"start">>
           /\ ~(r < call[t].runs \/ (r = call[t].runs /\ At(t, "idle")))
        \/ \E o \in Outcomes : story[<<t, r>>] = <<"start", o>>
    BY <2>1 DEF Told, Over, At
  <2>3. CASE \E o \in Outcomes : story[<<t, r>>] = <<"start", o>>
    <3>1. PICK o \in Outcomes : story[<<t, r>>] = <<"start", o>>
      BY <2>3
    <3>2. o # "start" /\ Len(<<"start", o>>) = 2
      BY DEF Outcomes
    <3> QED
      BY <3>1, <3>2
  <2> QED
    BY <2>2, <2>3
<1> QED
  BY <1>1 DEF Inv, Consistent, OneStoryPerRun

-----------------------------------------------------------------------------
(* Steps that keep every story: the run stays the one it was.                *)

Notes ==
  /\ canonical \in {"unknown", "yes", "no"}
  /\ info \in BOOLEAN /\ gafAbsent \in BOOLEAN /\ legacyAbsent \in BOOLEAN /\ captured \in BOOLEAN

Quiet == UNCHANGED <<story, gatewayVars>> /\ Notes' /\ (captured => captured')

LEMMA Moved ==
  ASSUME Inv, NEW t \in Tasks, call' \in [Tasks -> Calls], Elsewhere(t),
         Keeps(call[t], call'[t]), call'[t].pinned = call[t].pinned,
         UNCHANGED <<story, setting, release, changes>>, Notes', captured => captured',
         issued' \in 0..MaxReceipts, issued <= issued', Sound(call'[t], captured', issued')
  PROVE  Inv'
<1>1. TypeOK'
  BY DEF Inv, TypeOK, Notes
<1>2. CallInv(t)'
  BY DEF CallInv
<1>3. StoryInv(t)'
  BY DEF Inv, StoryInv, Told, Keeps
<1>4. ASSUME NEW u \in Tasks \ {t} PROVE CallInv(u)' /\ StoryInv(u)'
  <2>1. call'[u] = call[u] /\ call[u].receipt \in Nat /\ issued \in Nat /\ issued' \in Nat
    BY BoundsAssumption DEF Elsewhere, Inv, TypeOK, Calls
  <2>2. CallInv(u)'
    BY <2>1 DEF Inv, CallInv, Sound
  <2> QED
    BY <2>1, <2>2 DEF Inv, StoryInv
<1> QED
  BY <1>1, <1>2, <1>3, <1>4 DEF Inv

LEMMA QuietMove ==
  ASSUME Inv, NEW t \in Tasks, Quiet, call' \in [Tasks -> Calls], Elsewhere(t),
         Keeps(call[t], call'[t]), call'[t].pinned = call[t].pinned,
         Sound(call'[t], captured', issued)
  PROVE  Inv'
<1>1. issued \in 0..MaxReceipts /\ issued' = issued
  BY DEF Inv, TypeOK, Quiet, gatewayVars
<1>2. issued <= issued' /\ issued' \in 0..MaxReceipts
  BY <1>1, BoundsAssumption
<1> QED
  BY <1>1, <1>2, Moved DEF Quiet, gatewayVars

LEMMA GotoStep ==
  ASSUME Inv, NEW t \in Tasks, NEW s \in Steps \ {"idle"}, ~At(t, "idle"), Goto(t, s), Quiet,
         s \in Early => call[t].at \in Early,
         s \in Asking => captured',
         s = "poll" => ~Held(t),
         s \in {"gate", "poll"} => ~call[t].waited
  PROVE  Inv'
<1>1. LET c == call[t] d == call'[t] IN
      /\ Elsewhere(t) /\ call' \in [Tasks -> Calls] /\ Keeps(c, d) /\ d.at = s
      /\ d.pinned = c.pinned /\ d.depth = c.depth /\ d.waited = c.waited
      /\ d.receipt = c.receipt
  BY GotoCall DEF Inv
<1>2. Sound(call[t], captured, issued)
  BY DEF Inv, CallInv
<1>3. Sound(call'[t], captured', issued)
  BY <1>1, <1>2 DEF Sound, Keeps, Held, Early, Asking
<1> QED
  BY <1>1, <1>3, QuietMove

LEMMA FailStep ==
  ASSUME Inv, NEW t \in Tasks, NEW e \in Errors, ~At(t, "idle"), Fail(t, e), Quiet
  PROVE  Inv'
<1>1. LET c == call[t] d == call'[t] IN
      /\ Elsewhere(t) /\ call' \in [Tasks -> Calls] /\ Keeps(c, d) /\ d.at = "end"
      /\ d.pinned = c.pinned /\ d.depth = c.depth /\ d.waited = c.waited
      /\ d.receipt = c.receipt
  BY FailCall DEF Inv
<1>2. Sound(call[t], captured, issued)
  BY DEF Inv, CallInv
<1>3. Sound(call'[t], captured', issued)
  BY <1>1, <1>2 DEF Sound, Keeps, Early, Asking
<1> QED
  BY <1>1, <1>3, QuietMove

LEMMA EnterStep ==
  ASSUME Inv, NEW t \in Tasks, NEW s \in {"off", "legacy"}, ~At(t, "idle"), Set(t, Enter(t, s)), Quiet
  PROVE  Inv'
<1>1. LET c == call[t] d == call'[t] IN
      /\ Elsewhere(t) /\ call' \in [Tasks -> Calls] /\ Keeps(c, d) /\ d.at = "body"
      /\ d.pinned = c.pinned /\ d.depth = c.depth /\ d.waited = c.waited
      /\ d.receipt = c.receipt
  BY EnterCall DEF Inv
<1>2. Sound(call[t], captured, issued)
  BY DEF Inv, CallInv
<1>3. Sound(call'[t], captured', issued)
  BY <1>1, <1>2 DEF Sound, Keeps, Early, Asking
<1> QED
  BY <1>1, <1>3, QuietMove

LEMMA ActStep ==
  ASSUME Inv, NEW t \in Tasks, call[t].at \in {"decide", "legacy"}, Quiet,
         NEW v \in {"allow", "deny", "approval", "lostApproval"},
         NEW source \in {"gaf", "legacy"}, source = "legacy" => ~Held(t), Act(t, call[t], v, source)
  PROVE  Inv'
<1>1. call[t] \in Calls /\ call[t].receipt \in Nat /\ issued \in Nat
  BY BoundsAssumption DEF Inv, TypeOK, Calls
<1>2. LET c == call[t] d == call'[t] IN
      /\ Elsewhere(t) /\ call' \in [Tasks -> Calls] /\ Keeps(c, d) /\ Acted(c, d, v, source)
  BY <1>1, ActCall DEF Inv, Keeps, At
<1>3. Sound(call[t], captured, issued) /\ captured'
  BY DEF Inv, CallInv, Sound, Asking, Quiet
<1>4. call'[t].receipt \in Nat
  BY <1>2, BoundsAssumption DEF Calls
<1>5. Sound(call'[t], captured', issued)
  BY <1>1, <1>2, <1>3, <1>4 DEF Sound, Keeps, Acted, Early, Asking, Held
<1> QED
  BY <1>2, <1>5, QuietMove DEF Acted

-----------------------------------------------------------------------------
(* Every step preserves the invariant. *)

Events == Outcomes \cup {"start"}

LEMMA ShortAppends ==
  ASSUME NEW a \in Events, NEW b \in Events
  PROVE  Append(<<>>, a) = <<a>> /\ Append(<<a>>, b) = <<a, b>>
<1>1. Append(<<>>, a) = <<a>>
  <2>1. <<>> \in Seq(Events) /\ <<a>> \in Seq(Events) /\ Len(<<>>) = 0 /\ Len(<<a>>) = 1 /\ <<a>>[1] = a
    OBVIOUS
  <2>2. /\ Append(<<>>, a) \in Seq(Events) /\ Len(Append(<<>>, a)) = 1
        /\ Append(<<>>, a)[1] = a
    BY <2>1, AppendProperties
  <2> QED
    BY <2>1, <2>2, SeqEqual
<1>2. Append(<<a>>, b) = <<a, b>>
  <2>1. /\ <<a>> \in Seq(Events) /\ <<a, b>> \in Seq(Events) /\ Len(<<a>>) = 1 /\ Len(<<a, b>>) = 2
        /\ <<a, b>>[1] = a /\ <<a, b>>[2] = b /\ <<a>>[1] = a
    OBVIOUS
  <2>2. /\ Append(<<a>>, b) \in Seq(Events) /\ Len(Append(<<a>>, b)) = 2
        /\ Append(<<a>>, b)[1] = a /\ Append(<<a>>, b)[2] = b
    BY <2>1, AppendProperties
  <2>3. \A i \in 1..2 : Append(<<a>>, b)[i] = <<a, b>>[i]
    BY <2>1, <2>2
  <2> QED
    BY <2>1, <2>2, <2>3, SeqEqual
<1> QED
  BY <1>1, <1>2

LEMMA Emitted ==
  ASSUME TypeOK, NEW t \in Tasks, call[t].runs > 0, NEW ev \in Outcomes \cup {"start"}, Emit(t, ev)
  PROVE  /\ story' \in [Frames -> Seq(Outcomes \cup {"start"})]
         /\ story'[<<t, call[t].runs>>] = Append(story[<<t, call[t].runs>>], ev)
         /\ \A u \in Tasks, r \in 1..MaxRuns :
              u # t \/ r # call[t].runs => story'[<<u, r>>] = story[<<u, r>>]
<1>1. call[t].runs \in 1..MaxRuns
  BY BoundsAssumption DEF TypeOK, Calls
<1>2. <<t, call[t].runs>> \in Frames
  BY <1>1 DEF Frames
<1>3. Append(story[<<t, call[t].runs>>], ev) \in Seq(Outcomes \cup {"start"})
  BY <1>2 DEF TypeOK
<1>4. story' \in [Frames -> Seq(Outcomes \cup {"start"})]
  BY <1>3 DEF Emit, TypeOK
<1>5. story'[<<t, call[t].runs>>] = Append(story[<<t, call[t].runs>>], ev)
  BY <1>2 DEF Emit, TypeOK
<1>6. ASSUME NEW u \in Tasks, NEW r \in 1..MaxRuns, u # t \/ r # call[t].runs
      PROVE  story'[<<u, r>>] = story[<<u, r>>]
  <2>1. <<u, r>> \in Frames /\ <<u, r>> # <<t, call[t].runs>>
    BY <1>6 DEF Frames
  <2> QED
    BY <2>1 DEF Emit, TypeOK
<1> QED
  BY <1>4, <1>5, <1>6

LEMMA BeginStep == ASSUME Inv, NEW t \in Tasks, Begin(t) PROVE Inv'
<1>1. /\ call[t] \in Calls /\ call[t].runs \in Nat /\ call[t].receipt \in Nat
      /\ call[t].runs + 1 \in 0..MaxRuns /\ issued \in Nat /\ call[t].at = "idle"
  BY BoundsAssumption DEF Inv, TypeOK, Calls, Begin, At
<1>2. /\ call[t].mandate \in {"none", "held"} /\ call[t].receipt \in 0..MaxReceipts
      /\ UNCHANGED <<story, gatewayVars, engineVars>>
  BY <1>1 DEF Calls, Begin
<1> DEFINE d == NewCall(call[t].runs + 1, 1, "unset", call[t].mandate, call[t].receipt, "none")
<1>3. d \in Calls
  BY <1>1, <1>2, NewCallType
<1>4. call' \in [Tasks -> Calls] /\ call'[t] = d /\ Elsewhere(t)
  BY <1>3, SetCall DEF Inv, Begin
<1>5. /\ d.at = "preflight" /\ d.runs = call[t].runs + 1 /\ d.depth = 1 /\ d.pinned = "unset"
      /\ d.receipt = call[t].receipt /\ ~d.waited
  BY DEF NewCall
<1> HIDE DEF d
<1>6. TypeOK'
  BY <1>2, <1>4 DEF Inv, TypeOK, gatewayVars, engineVars
<1>7. Sound(call[t], captured, issued)
  BY DEF Inv, CallInv
<1>8. CallInv(t)'
  BY <1>1, <1>2, <1>4, <1>5, <1>7 DEF CallInv, Sound, Early, Asking, gatewayVars, engineVars
<1>9. StoryInv(t)'
  <2> SUFFICES ASSUME NEW r \in 1..MaxRuns PROVE Told(story[<<t, r>>], d, r)
    BY <1>2, <1>4 DEF StoryInv
  <2>1. Told(story[<<t, r>>], call[t], r)
    BY DEF Inv, StoryInv
  <2> QED
    BY <1>1, <1>5, <2>1 DEF Told
<1>10. \A u \in Tasks \ {t} : CallInv(u)' /\ StoryInv(u)'
  BY <1>2, <1>4 DEF Elsewhere, Inv, CallInv, StoryInv, gatewayVars, engineVars
<1> QED
  BY <1>6, <1>8, <1>9, <1>10 DEF Inv

LEMMA OpenScopeStep == ASSUME Inv, NEW t \in Tasks, OpenScope(t) PROVE Inv'
<1> USE DEF At
<1>1. call[t] \in Calls /\ call[t].at = "scope" /\ UNCHANGED <<gatewayVars, engineVars>>
  BY DEF Inv, TypeOK, OpenScope
<1>2. CASE call[t].depth = 2 /\ Goto(t, "gate") /\ UNCHANGED story
  <2>1. Quiet /\ "gate" \in Steps
    BY <1>1, <1>2 DEF Quiet, engineVars, Notes, Inv, TypeOK, Steps
  <2>2. ~call[t].waited
    BY <1>1 DEF Inv, CallInv, Sound, Early
  <2> QED
    BY <1>1, <1>2, <2>1, <2>2, GotoStep DEF Early, Asking
<1>3. CASE Fail(t, "error") /\ UNCHANGED story
  BY <1>1, <1>3, FailStep DEF Quiet, engineVars, Notes, Inv, TypeOK, Errors
<1>4. ASSUME call[t].depth = 1, NEW r \in Reads(t) \ {"error"},
             Set(t, [call[t] EXCEPT !.at = "gate", !.pinned = r]),
             IF r = "on" THEN Emit(t, "start") ELSE UNCHANGED story
      PROVE  Inv'
  <2>1. call[t].runs > 0 /\ call[t].runs \in Nat /\ call[t].pinned = "unset"
    BY <1>1, <1>4, BoundsAssumption DEF Inv, CallInv, Sound, Early, Calls
  <2>2. r \in {"on", "off"} /\ (r = "off" => ~Held(t))
    BY <1>4, <2>1 DEF Reads, SettingReads, Inv, TypeOK
  <2>3. [call[t] EXCEPT !.at = "gate", !.pinned = r] \in Calls
    BY <1>1, <2>2 DEF Calls, Steps
  <2>4. /\ call' \in [Tasks -> Calls] /\ Elsewhere(t)
        /\ call'[t] = [call[t] EXCEPT !.at = "gate", !.pinned = r]
    BY <1>4, <2>3, SetCall DEF Inv
  <2>5. LET c == call[t] d == call'[t] IN
        /\ d.at = "gate" /\ d.pinned = r /\ d.runs = c.runs /\ d.mandate = c.mandate
        /\ d.depth = c.depth /\ d.waited = c.waited /\ d.receipt = c.receipt
    BY <1>1, <2>4 DEF Calls
  <2>6. CallInv(t)'
    BY <1>1, <2>2, <2>5 DEF Inv, CallInv, Sound, Early, Asking, Held, gatewayVars, engineVars
  <2>7. story[<<t, call[t].runs>>] = <<>>
    <3>1. call[t].runs \in 1..MaxRuns
      BY <1>1, <2>1 DEF Calls
    <3> QED
      BY <1>1, <2>1, <3>1 DEF Inv, StoryInv, Told
  <2>8. /\ story' \in [Frames -> Seq(Outcomes \cup {"start"})]
        /\ story'[<<t, call[t].runs>>] = IF r = "on" THEN <<"start">> ELSE <<>>
        /\ \A u \in Tasks, k \in 1..MaxRuns :
             u # t \/ k # call[t].runs => story'[<<u, k>>] = story[<<u, k>>]
    <3>1. CASE r = "on"
      BY <1>4, <2>1, <2>7, <3>1, Emitted, ShortAppends DEF Inv, Events
    <3>2. CASE r # "on"
      BY <1>4, <2>7, <3>2 DEF Inv, TypeOK
    <3> QED
      BY <3>1, <3>2
  <2>9. StoryInv(t)'
    <3> SUFFICES ASSUME NEW k \in 1..MaxRuns PROVE Told(story'[<<t, k>>], call'[t], k)
      BY DEF StoryInv
    <3>1. Told(story[<<t, k>>], call[t], k)
      BY DEF Inv, StoryInv
    <3>2. CASE k = call[t].runs
      BY <2>5, <2>8, <3>2 DEF Told
    <3>3. CASE k # call[t].runs
      BY <2>5, <2>8, <3>1, <3>3 DEF Told
    <3> QED
      BY <3>2, <3>3
  <2>10. \A u \in Tasks \ {t} : CallInv(u)' /\ StoryInv(u)'
    BY <1>1, <2>4, <2>8 DEF Elsewhere, Inv, CallInv, StoryInv, gatewayVars, engineVars
  <2>11. TypeOK'
    BY <1>1, <2>4, <2>8 DEF Inv, TypeOK, gatewayVars, engineVars
  <2> QED
    BY <2>6, <2>9, <2>10, <2>11 DEF Inv
<1> QED
  BY <1>2, <1>3, <1>4 DEF OpenScope

LEMMA EndRunStep == ASSUME Inv, NEW t \in Tasks, EndRun(t) PROVE Inv'
<1> USE DEF At
<1>1. /\ call[t] \in Calls /\ call[t].at = "end" /\ UNCHANGED <<gatewayVars, engineVars>>
      /\ call[t].runs > 0 /\ call[t].runs \in 1..MaxRuns
  BY BoundsAssumption DEF Inv, TypeOK, EndRun, CallInv, Sound, Calls
<1> DEFINE d == Idle(call[t].runs, call[t].mandate, call[t].receipt)
<1>2. /\ d \in Calls /\ d.at = "idle" /\ d.runs = call[t].runs /\ d.pinned = "unset"
      /\ d.receipt = call[t].receipt /\ ~d.waited /\ d.mandate = call[t].mandate
  BY <1>1, IdleType DEF Calls
<1>3. call' \in [Tasks -> Calls] /\ call'[t] = d /\ Elsewhere(t)
  BY <1>2, SetCall DEF Inv, EndRun
<1> HIDE DEF d
<1>4. CallInv(t)'
  BY <1>1, <1>2, <1>3 DEF Inv, CallInv, Sound, Early, Asking, gatewayVars, engineVars
<1>5. story[<<t, call[t].runs>>] = IF call[t].pinned = "on" THEN <<"start">> ELSE <<>>
  BY <1>1 DEF Inv, StoryInv, Told
<1>6. Outcome(call[t]) \in Outcomes
  BY <1>1 DEF Outcome, Outcomes, Calls
<1>7. /\ story' \in [Frames -> Seq(Outcomes \cup {"start"})]
      /\ Over(story'[<<t, call[t].runs>>])
      /\ \A u \in Tasks, k \in 1..MaxRuns :
           u # t \/ k # call[t].runs => story'[<<u, k>>] = story[<<u, k>>]
  <2>1. CASE call[t].pinned = "on"
    <3>1. story'[<<t, call[t].runs>>] = Append(<<"start">>, Outcome(call[t]))
      BY <1>1, <1>5, <1>6, <2>1, Emitted DEF Inv, EndRun
    <3>2. Append(<<"start">>, Outcome(call[t])) = <<"start", Outcome(call[t])>>
      BY <1>6, ShortAppends DEF Events
    <3> QED
      BY <1>1, <1>6, <2>1, <3>1, <3>2, Emitted DEF Inv, EndRun, Over
  <2>2. CASE call[t].pinned # "on"
    BY <1>5, <2>2 DEF Inv, TypeOK, EndRun, Over
  <2> QED
    BY <2>1, <2>2
<1>8. StoryInv(t)'
  <2> SUFFICES ASSUME NEW k \in 1..MaxRuns PROVE Told(story'[<<t, k>>], d, k)
    BY <1>3 DEF StoryInv
  <2>1. Told(story[<<t, k>>], call[t], k)
    BY DEF Inv, StoryInv
  <2>2. CASE k = call[t].runs
    BY <1>1, <1>2, <1>7, <2>2 DEF Told
  <2>3. CASE k # call[t].runs
    BY <1>1, <1>2, <1>7, <2>1, <2>3 DEF Told
  <2> QED
    BY <2>2, <2>3
<1>9. \A u \in Tasks \ {t} : CallInv(u)' /\ StoryInv(u)'
  BY <1>1, <1>3, <1>7 DEF Elsewhere, Inv, CallInv, StoryInv, gatewayVars, engineVars
<1>10. TypeOK'
  BY <1>1, <1>3, <1>7 DEF Inv, TypeOK, gatewayVars, engineVars
<1> QED
  BY <1>4, <1>8, <1>9, <1>10 DEF Inv

LEMMA AskAgain ==
  ASSUME Inv, NEW t \in Tasks, ~At(t, "idle"), NEW a \in 0..1, NEW p \in 0..MaxPolls, captured, Quiet,
         \/ Set(t, [call[t] EXCEPT !.at = "info", !.attempt = a])
         \/ Set(t, [call[t] EXCEPT !.at = "info", !.attempt = a, !.polls = p])
  PROVE  Inv'
<1>1. call[t] \in Calls
  BY DEF Inv, TypeOK
<1>2. PICK d \in Calls :
        /\ Set(t, d) /\ d.at = "info" /\ d.pinned = call[t].pinned /\ d.runs = call[t].runs
        /\ d.mandate = call[t].mandate /\ d.depth = call[t].depth /\ d.receipt = call[t].receipt
  <2>1. CASE Set(t, [call[t] EXCEPT !.at = "info", !.attempt = a])
    <3>1. [call[t] EXCEPT !.at = "info", !.attempt = a] \in Calls
      BY <1>1 DEF Calls, Steps
    <3> QED
      BY <1>1, <2>1, <3>1 DEF Calls
  <2>2. CASE Set(t, [call[t] EXCEPT !.at = "info", !.attempt = a, !.polls = p])
    <3>1. [call[t] EXCEPT !.at = "info", !.attempt = a, !.polls = p] \in Calls
      BY <1>1 DEF Calls, Steps
    <3> QED
      BY <1>1, <2>2, <3>1 DEF Calls
  <2> QED
    BY <2>1, <2>2
<1>3. call' \in [Tasks -> Calls] /\ call'[t] = d /\ Elsewhere(t)
  BY <1>2, SetCall DEF Inv
<1>4. Sound(call'[t], captured', issued)
  BY <1>2, <1>3 DEF Inv, CallInv, Sound, Early, Asking, Quiet, At
<1> QED
  BY <1>2, <1>3, <1>4, QuietMove DEF Keeps, At

LEMMA ReceiptStep == ASSUME Inv, NEW t \in Tasks, Receipt(t) PROVE Inv'
<1> DEFINE c == [call[t] EXCEPT !.receipt = issued + 1]
<1>1. /\ call[t] \in Calls /\ At(t, "decide") /\ issued \in Nat /\ issued + 1 \in 0..MaxReceipts
      /\ call[t].receipt \in Nat /\ issued' = issued + 1
      /\ UNCHANGED <<story, setting, release, changes, engineVars>>
  BY BoundsAssumption DEF Inv, TypeOK, Calls, Receipt
<1>2. /\ c \in Calls /\ c.at = call[t].at /\ c.pinned = call[t].pinned /\ c.depth = call[t].depth
      /\ c.waited = call[t].waited /\ c.receipt = issued + 1 /\ Keeps(call[t], c)
  BY <1>1 DEF Calls, Keeps, At
<1>3. Act(t, c, "allow", "receipt")
  BY DEF Receipt
<1>4. call[t].receipt <= issued
  BY DEF Inv, CallInv, Sound
<1> HIDE DEF c
<1>5. /\ Elsewhere(t) /\ call' \in [Tasks -> Calls]
      /\ Keeps(call[t], call'[t]) /\ Acted(c, call'[t], "allow", "receipt")
  BY <1>1, <1>2, <1>3, <1>4, ActCall DEF Inv, At
<1>6. call'[t].receipt \in Nat
  BY <1>5, BoundsAssumption DEF Calls
<1>7. captured /\ captured' = captured
  BY <1>1 DEF Inv, CallInv, Sound, Asking, At, engineVars
<1>8. Sound(call'[t], captured', issued')
  BY <1>1, <1>2, <1>5, <1>6, <1>7 DEF Inv, CallInv, Sound, Acted, Keeps, Early, Asking, At
<1>9. Notes'
  BY <1>1 DEF Notes, engineVars, Inv, TypeOK
<1>10. issued <= issued'
  BY <1>1
<1> QED
  BY <1>1, <1>2, <1>5, <1>7, <1>8, <1>9, <1>10, Moved DEF Acted

LEMMA NestStep == ASSUME Inv, NEW t \in Tasks, Nest(t) PROVE Inv'
<1>1. /\ call[t] \in Calls /\ At(t, "body") /\ Quiet /\ call[t].runs > 0
  BY DEF Inv, TypeOK, Nest, Quiet, engineVars, Notes, CallInv, Sound, At
<1> DEFINE d == NewCall(call[t].runs, 2, call[t].pinned, call[t].mandate, call[t].receipt,
                        call[t].mark)
<1>2. d \in Calls
  BY <1>1, NewCallType DEF Calls
<1>3. /\ d.at = "preflight" /\ d.runs = call[t].runs /\ d.depth = 2 /\ d.pinned = call[t].pinned
      /\ d.mandate = call[t].mandate /\ d.receipt = call[t].receipt /\ ~d.waited
  BY DEF NewCall
<1>4. Set(t, d)
  BY DEF Nest
<1> HIDE DEF d
<1>5. call' \in [Tasks -> Calls] /\ call'[t] = d /\ Elsewhere(t)
  BY <1>2, <1>4, SetCall DEF Inv
<1>6. Sound(call'[t], captured', issued)
  BY <1>1, <1>3, <1>5 DEF Inv, CallInv, Sound, Early, Asking
<1> QED
  BY <1>1, <1>2, <1>3, <1>5, <1>6, QuietMove DEF Keeps, At

LEMMA OuterCall ==
  ASSUME NEW c \in Calls
  PROVE  LET d == [c EXCEPT !.at = "body", !.depth = 1, !.error = "none"] IN
         /\ d \in Calls /\ d.at = "body" /\ d.depth = 1 /\ d.pinned = c.pinned
         /\ d.runs = c.runs /\ d.mandate = c.mandate /\ d.receipt = c.receipt
<1>1. ASSUME NEW n \in 0..2, NEW s \in Steps, NEW e \in Errors
      PROVE  [c EXCEPT !.at = s, !.depth = n, !.error = e] \in Calls
  BY DEF Calls
<1>2. 1 \in 0..2 /\ "body" \in Steps /\ "none" \in Errors
  BY DEF Steps, Errors
<1>3. [c EXCEPT !.at = "body", !.depth = 1, !.error = "none"] \in Calls
  BY <1>1, <1>2, Zenon
<1> QED
  BY <1>3 DEF Calls

\* The steps that only note something about the call: its arguments, its
\* mark, or which of the nested calls it is.
LEMMA NoteStep ==
  ASSUME Inv, NEW t \in Tasks, ChangeArgs(t) \/ Mark(t) \/ EndNested(t)
  PROVE  Inv'
<1>1. call[t] \in Calls /\ call[t].at \in {"wait", "body", "end"} /\ Quiet
  BY DEF Inv, TypeOK, ChangeArgs, Mark, EndNested, Quiet, engineVars, Notes, At
<1>2. PICK d \in Calls :
        /\ Set(t, d) /\ d.at \in {call[t].at, "body"} /\ d.depth > 0 /\ d.pinned = call[t].pinned
        /\ d.runs = call[t].runs /\ d.mandate = call[t].mandate /\ d.receipt = call[t].receipt
  <2>0. call[t].depth > 0
    BY <1>1 DEF Inv, CallInv, Sound
  <2>1. CASE ChangeArgs(t)
    <3>1. [call[t] EXCEPT !.args = "changed"] \in Calls
      BY <1>1 DEF Calls
    <3> QED
      BY <1>1, <2>0, <2>1, <3>1 DEF Calls, ChangeArgs
  <2>2. CASE Mark(t)
    <3>1. [call[t] EXCEPT !.mark = "blocked"] \in Calls
      BY <1>1 DEF Calls, Outcomes
    <3> QED
      BY <1>1, <2>0, <2>2, <3>1 DEF Calls, Mark
  <2>3. CASE Set(t, [call[t] EXCEPT !.at = "body", !.depth = 1, !.error = "none"])
    <3> DEFINE d == [call[t] EXCEPT !.at = "body", !.depth = 1, !.error = "none"]
    <3>1. /\ d \in Calls /\ d.at = "body" /\ d.depth = 1 /\ d.pinned = call[t].pinned
          /\ d.runs = call[t].runs /\ d.mandate = call[t].mandate /\ d.receipt = call[t].receipt
      BY <1>1, OuterCall
    <3>2. Set(t, d)
      BY <2>3
    <3> HIDE DEF d
    <3> QED
      BY <3>1, <3>2
  <2>4. CASE Set(t, [call[t] EXCEPT !.depth = 1])
    <3>1. [call[t] EXCEPT !.depth = 1] \in Calls
      BY <1>1 DEF Calls
    <3> QED
      BY <1>1, <2>4, <3>1 DEF Calls
  <2> QED
    BY <2>1, <2>2, <2>3, <2>4 DEF EndNested
<1>3. call' \in [Tasks -> Calls] /\ call'[t] = d /\ Elsewhere(t)
  BY <1>2, SetCall DEF Inv
<1>4. d.at # "poll" /\ (d.at \in Asking => call[t].at \in Asking) /\ d.at \notin Early \cup {"gate"}
  BY <1>1, <1>2 DEF Early, Asking
<1>5. Sound(call'[t], captured', issued)
  BY <1>1, <1>2, <1>3, <1>4 DEF Inv, CallInv, Sound, Quiet
<1> QED
  BY <1>1, <1>2, <1>3, <1>5, QuietMove DEF Keeps

LEMMA InvNext == ASSUME Inv, [Next]_vars PROVE Inv'
<1>n. Notes /\ (UNCHANGED engineVars => Notes')
  BY DEF Inv, TypeOK, Notes, engineVars
<1>f. ASSUME NEW t \in Tasks, NEW e \in Errors, ~At(t, "idle"), Fail(t, e),
             UNCHANGED <<story, gatewayVars, engineVars>> PROVE Inv'
  BY <1>f, <1>n, FailStep DEF Quiet, engineVars
<1> "on" \in {"on", "off"} /\ Steps \ {"idle"} = {"preflight", "capture", "scope", "gate", "info",
       "decide", "legacy", "poll", "wait", "body", "end"}
  BY DEF Steps
<1>1. ASSUME NEW t \in Tasks, Preflight(t) PROVE Inv'
  BY <1>1, <1>n, GotoStep, FailStep DEF Preflight, Quiet, At, Early, Asking, Errors, engineVars
<1>2. ASSUME NEW t \in Tasks, CaptureFirst(t) PROVE Inv'
  <2>1. At(t, "capture") /\ Quiet
    BY <1>2, <1>n DEF CaptureFirst, Capture, Quiet, engineVars, Notes
  <2> QED
    BY <1>2, <2>1, GotoStep, FailStep DEF CaptureFirst, Capture, At, Early, Asking, Errors,
       Inv, CallInv, Sound
<1>3. ASSUME NEW t \in Tasks, OpenScope(t) PROVE Inv'
  BY <1>3, OpenScopeStep
<1>4. ASSUME NEW t \in Tasks, Resolve(t) PROVE Inv'
  <2>1. At(t, "gate") /\ Quiet
    BY <1>4, <1>n DEF Resolve, Capture, Quiet, engineVars, Notes
  <2>2. CASE Set(t, Enter(t, "off"))
    BY <2>1, <2>2, EnterStep DEF At
  <2>3. CASE captured' /\ Goto(t, "info")
    BY <2>1, <2>3, GotoStep DEF At, Early, Asking
  <2>4. CASE Fail(t, "error")
    BY <2>1, <2>4, FailStep DEF At, Errors
  <2> QED
    BY <1>4, <2>2, <2>3, <2>4 DEF Resolve, Capture
<1>5. ASSUME NEW t \in Tasks, ReadInfo(t) PROVE Inv'
  <2>1. At(t, "info") /\ captured
    BY <1>5 DEF ReadInfo, Inv, CallInv, Sound, Asking, At
  <2>2. Quiet
    BY <1>5, <1>n DEF ReadInfo, Quiet, engineVars, Notes
  <2>3. Goto(t, "legacy") \/ Goto(t, "decide") \/ Fail(t, "error")
    BY <1>5 DEF ReadInfo
  <2> QED
    BY <2>1, <2>2, <2>3, GotoStep, FailStep DEF Quiet, At, Early, Asking, Errors
<1>6. ASSUME NEW t \in Tasks, Canonical(t) PROVE Inv'
  <2>1. At(t, "decide") /\ Quiet
    BY <1>6, <1>n DEF Canonical, Quiet, engineVars
  <2>2. \/ Fail(t, "error")
        \/ \E v \in {"allow", "deny", "approval", "lostApproval"} : Act(t, call[t], v, "gaf")
    BY <1>6 DEF Canonical
  <2> QED
    BY <2>1, <2>2, FailStep, ActStep DEF At, Errors
<1>7. ASSUME NEW t \in Tasks, Refused(t) PROVE Inv'
  <2>1. call[t].at \in {"decide", "legacy"} /\ Quiet /\ captured
    BY <1>7, <1>n DEF Refused, Quiet, engineVars, Notes, At, Inv, CallInv, Sound, Asking
  <2>2. CASE Set(t, [call[t] EXCEPT !.at = "info", !.attempt = 1])
    <3>1. 1 \in 0..1 /\ 0 \in 0..MaxPolls /\ ~At(t, "idle")
      BY <2>1, BoundsAssumption DEF At
    <3> QED
      BY <2>1, <2>2, <3>1, AskAgain
  <2>3. CASE Fail(t, "error")
    BY <2>1, <2>3, FailStep DEF At, Errors
  <2> QED
    BY <1>7, <2>2, <2>3 DEF Refused
<1>8. ASSUME NEW t \in Tasks, NoRoute(t) PROVE Inv'
  <2>1. At(t, "decide") /\ Quiet /\ captured
    BY <1>8, <1>n DEF NoRoute, Quiet, engineVars, Notes, At, Inv, CallInv, Sound, Asking
  <2> QED
    BY <1>8, <2>1, GotoStep, FailStep DEF NoRoute, At, Early, Asking, Errors, Quiet
<1>9. ASSUME NEW t \in Tasks, Legacy(t) PROVE Inv'
  <2>1. At(t, "legacy") /\ Quiet /\ ~Held(t)
    BY <1>9, <1>n DEF Legacy, LegacyAllowed, Quiet, engineVars, Notes
  <2>2. \/ Fail(t, "error")
        \/ \E v \in {"allow", "deny", "approval", "lostApproval"} : Act(t, call[t], v, "legacy")
    BY <1>9 DEF Legacy
  <2> QED
    BY <2>1, <2>2, FailStep, ActStep DEF At, Errors
<1>10. ASSUME NEW t \in Tasks, DecideFails(t) PROVE Inv'
  BY <1>10, <1>f DEF DecideFails, At, Errors
<1>11. ASSUME NEW t \in Tasks, Receipt(t) PROVE Inv'
  BY <1>11, ReceiptStep
<1>12. ASSUME NEW t \in Tasks, WaitApproval(t) PROVE Inv'
  <2>1. At(t, "wait") /\ Quiet /\ captured
    BY <1>12, <1>n DEF WaitApproval, Quiet, engineVars, Inv, CallInv, Sound, Asking, At
  <2>2. CASE call[t].polls < MaxPolls
             /\ Set(t, [call[t] EXCEPT !.at = "info", !.attempt = 0, !.polls = @ + 1])
    <3>1. call[t].polls + 1 \in 0..MaxPolls
      BY <2>2, BoundsAssumption DEF Inv, TypeOK, Calls
    <3>2. Set(t, [call[t] EXCEPT !.at = "info", !.attempt = 0, !.polls = call[t].polls + 1])
      BY <2>2
    <3>3. 0 \in 0..1 /\ ~At(t, "idle")
      BY <2>1 DEF At
    <3> QED
      BY <2>1, <3>1, <3>2, <3>3, AskAgain
  <2>3. CASE \E e \in {"denied", "pending"} : Fail(t, e)
    BY <2>1, <2>3, FailStep DEF At, Errors
  <2> QED
    BY <1>12, <2>2, <2>3 DEF WaitApproval
<1>13. ASSUME NEW t \in Tasks, PollLegacy(t) PROVE Inv'
  <2>1. At(t, "poll") /\ Quiet
    BY <1>13, <1>n DEF PollLegacy, Quiet, engineVars
  <2> QED
    BY <1>13, <2>1, EnterStep, FailStep DEF PollLegacy, At, Errors
<1>14. ASSUME NEW t \in Tasks, Return(t) PROVE Inv'
  BY <1>14, <1>f DEF Return, At, Errors
<1>15. ASSUME NEW t \in Tasks, ChangeArgs(t) \/ Mark(t) \/ EndNested(t) PROVE Inv'
  BY <1>15, NoteStep
<1>16. ASSUME NEW t \in Tasks, EndRun(t) PROVE Inv'
  BY <1>16, EndRunStep
<1>17. ASSUME NEW t \in Tasks, Begin(t) PROVE Inv'
  BY <1>17, BeginStep
<1>18. ASSUME NEW t \in Tasks, Nest(t) PROVE Inv'
  BY <1>18, NestStep
<1>19. CASE Change
  <2>1. UNCHANGED <<story, issued, engineVars, call>> /\ TypeOK'
    BY <1>19, BoundsAssumption DEF Change, Inv, TypeOK, engineVars
  <2> QED
    BY <2>1 DEF Inv, CallInv, StoryInv, engineVars
<1>20. CASE ProbeAgain \/ UNCHANGED vars
  <2>1. UNCHANGED <<story, gatewayVars, captured, call>> /\ TypeOK'
    BY <1>20 DEF ProbeAgain, vars, Inv, TypeOK, gatewayVars, engineVars
  <2> QED
    BY <2>1 DEF Inv, CallInv, StoryInv, gatewayVars
<1> QED
  BY <1>1, <1>2, <1>3, <1>4, <1>5, <1>6, <1>7, <1>8, <1>9, <1>10, <1>11, <1>12, <1>13, <1>14,
     <1>15, <1>16, <1>17, <1>18, <1>19, <1>20 DEF Next, TaskStep

LEMMA Inductive == Spec => []Inv
  BY InvInit, InvNext, PTL DEF Spec

(* Every variable keeps its type, and every run tells one story.             *)
THEOREM StoriesCorrect == Spec => []Consistent
  BY Inductive, InvImplies, PTL

-----------------------------------------------------------------------------
(* Entering a body.  Only the task itself moves its call, and only from its  *)
(* gate, a verdict or an approval into the body.                             *)

LEMMA OthersStay ==
  ASSUME Inv, NEW u \in Tasks,
         TaskStep(u) \/ Begin(u) \/ ChangeArgs(u) \/ Nest(u) \/ Mark(u)
  PROVE  Elsewhere(u)
<1>1. ASSUME NEW d, Set(u, d) PROVE Elsewhere(u)
  BY <1>1 DEF Inv, TypeOK, Set, Elsewhere
<1>2. ASSUME NEW s, Goto(u, s) PROVE Elsewhere(u)
  BY <1>1, <1>2 DEF Goto
<1>3. ASSUME NEW e, Fail(u, e) PROVE Elsewhere(u)
  BY <1>1, <1>3 DEF Fail
<1>4. ASSUME NEW c, NEW v, NEW source, Act(u, c, v, source) PROVE Elsewhere(u)
  BY <1>1, <1>2, <1>3, <1>4 DEF Act
<1>5. CASE Preflight(u) \/ CaptureFirst(u) \/ OpenScope(u) \/ Resolve(u) \/ ReadInfo(u)
  BY <1>1, <1>2, <1>3, <1>5 DEF Preflight, CaptureFirst, Capture, OpenScope, Resolve, ReadInfo
<1>6. CASE Canonical(u) \/ Refused(u) \/ NoRoute(u) \/ Legacy(u) \/ DecideFails(u) \/ Receipt(u)
  BY <1>1, <1>2, <1>3, <1>4, <1>6 DEF Canonical, Refused, NoRoute, Legacy, DecideFails, Receipt
<1>7. CASE WaitApproval(u) \/ PollLegacy(u) \/ Return(u) \/ EndNested(u) \/ EndRun(u)
  BY <1>1, <1>3, <1>7 DEF WaitApproval, PollLegacy, Return, EndNested, EndRun
<1>8. CASE Begin(u) \/ ChangeArgs(u) \/ Nest(u) \/ Mark(u)
  BY <1>1, <1>8 DEF Begin, ChangeArgs, Nest, Mark
<1> QED
  BY <1>5, <1>6, <1>7, <1>8 DEF TaskStep

\* What a call that enters its body runs on.
Warranted(t) ==
  LET c == call'[t] IN
  /\ call[t].pinned = "on" => captured
  /\ Held(t) => c.source = "receipt" /\ c.receipt > call[t].receipt
  /\ c.waited => c.source \in {"gaf", "receipt"} /\ c.args = "shown"

LEMMA EntersWarranted ==
  ASSUME Inv, NEW t \in Tasks, Enters(t), [Next]_vars
  PROVE  Warranted(t)
<1>0. /\ call[t] \in Calls /\ call[t].receipt \in Nat /\ issued \in Nat /\ ~At(t, "idle")
      /\ Sound(call[t], captured, issued) /\ call'[t].at = "body" /\ call'[t] # call[t]
      /\ call[t].at \in {"gate", "decide", "legacy", "poll"}
  BY BoundsAssumption DEF Inv, TypeOK, Calls, CallInv, Enters, At
<1>1. call[t].at # "gate" => captured
  BY <1>0 DEF Sound, Asking
<1>2. TaskStep(t) \/ Begin(t) \/ ChangeArgs(t) \/ Nest(t) \/ Mark(t)
  <2>1. ASSUME NEW u \in Tasks, TaskStep(u) \/ Begin(u) \/ ChangeArgs(u) \/ Nest(u) \/ Mark(u)
        PROVE  u = t
    BY <1>0, <2>1, OthersStay DEF Elsewhere
  <2>2. ~(Change \/ ProbeAgain \/ UNCHANGED vars)
    BY <1>0 DEF Change, ProbeAgain, vars
  <2> QED
    BY <2>1, <2>2 DEF Next
<1>3. ASSUME NEW e \in Errors, Fail(t, e) PROVE FALSE
  BY <1>0, <1>3, FailCall DEF Inv
<1>4. ASSUME NEW s \in Steps \ {"idle", "body"}, Goto(t, s) PROVE FALSE
  BY <1>0, <1>4, GotoCall DEF Inv
<1>5. ASSUME NEW v \in {"allow", "deny", "approval", "lostApproval"}, NEW source \in {"gaf", "legacy"},
             Act(t, call[t], v, source)
      PROVE  Acted(call[t], call'[t], v, source)
  BY <1>0, <1>5, ActCall DEF Inv, Keeps, At
<1>6. CASE Resolve(t)
  <2>1. call[t].at = "gate" /\ "info" \in Steps \ {"idle", "body"} /\ "error" \in Errors
    BY <1>6 DEF Resolve, At, Steps, Errors
  <2>2. call[t].pinned = "off" /\ Set(t, Enter(t, "off"))
    BY <1>3, <1>4, <1>6, <2>1 DEF Resolve, Capture
  <2>3. call'[t].waited = call[t].waited
    BY <1>0, <2>2, EnterCall DEF Inv
  <2> QED
    BY <1>0, <2>1, <2>2, <2>3 DEF Sound, Warranted, Held
<1>7. CASE Canonical(t)
  <2>1. At(t, "decide") /\ "error" \in Errors
    BY <1>7 DEF Canonical, Errors
  <2>2. \E v \in {"allow", "deny", "approval", "lostApproval"} :
          Act(t, call[t], v, "gaf") /\ (v = "allow" => ~Held(t))
    BY <1>3, <1>7, <2>1 DEF Canonical
  <2>3. PICK v \in {"allow", "deny", "approval", "lostApproval"} :
          Act(t, call[t], v, "gaf") /\ (v = "allow" => ~Held(t))
    BY <2>2
  <2>4. Acted(call[t], call'[t], v, "gaf")
    BY <1>5, <2>3
  <2> QED
    BY <1>0, <1>1, <2>1, <2>3, <2>4 DEF Warranted, Acted, At
<1>8. CASE Receipt(t)
  <2> DEFINE c == [call[t] EXCEPT !.receipt = issued + 1]
  <2>1. At(t, "decide") /\ Act(t, c, "allow", "receipt") /\ issued + 1 \in 0..MaxReceipts
    BY <1>0, <1>8, BoundsAssumption DEF Receipt, Inv, TypeOK
  <2>2. /\ c \in Calls /\ c.at = call[t].at /\ c.pinned = call[t].pinned
        /\ c.depth = call[t].depth /\ c.waited = call[t].waited /\ c.receipt = issued + 1
        /\ Keeps(call[t], c) /\ call[t].receipt <= issued
    BY <1>0, <2>1 DEF Calls, Keeps, At, Sound
  <2> HIDE DEF c
  <2>3. Acted(c, call'[t], "allow", "receipt")
    BY <1>0, <2>1, <2>2, ActCall DEF Inv
  <2> QED
    BY <1>0, <1>1, <2>1, <2>2, <2>3 DEF Warranted, Acted, At
<1>9. CASE Legacy(t)
  <2>1. At(t, "legacy") /\ ~Held(t) /\ "error" \in Errors
    BY <1>9 DEF Legacy, LegacyAllowed, Errors
  <2>2. PICK v \in {"allow", "deny", "approval", "lostApproval"} : Act(t, call[t], v, "legacy")
    BY <1>3, <1>9, <2>1 DEF Legacy
  <2>3. Acted(call[t], call'[t], v, "legacy")
    BY <1>5, <2>2
  <2> QED
    BY <1>0, <1>1, <2>1, <2>3 DEF Warranted, Acted, At
<1>10. CASE PollLegacy(t)
  <2>1. At(t, "poll") /\ Set(t, Enter(t, "legacy"))
    BY <1>3, <1>10 DEF PollLegacy, Errors
  <2>2. call'[t].waited = call[t].waited
    BY <1>0, <2>1, EnterCall DEF Inv
  <2> QED
    BY <1>0, <1>1, <2>1, <2>2 DEF Sound, Warranted, Held, At
<1>11. CASE Refused(t) \/ NoRoute(t) \/ DecideFails(t)
  <2>1. "error" \in Errors /\ "legacy" \in Steps \ {"idle", "body"}
    BY DEF Errors, Steps
  <2>2. Set(t, [call[t] EXCEPT !.at = "info", !.attempt = 1])
    BY <1>3, <1>4, <1>11, <2>1 DEF Refused, NoRoute, DecideFails
  <2>3. call'[t].at = "info"
    BY <1>0, <2>2 DEF Set, Inv, TypeOK, Calls
  <2> QED
    BY <1>0, <2>3
<1> QED
  BY <1>0, <1>2, <1>6, <1>7, <1>8, <1>9, <1>10, <1>11 DEF TaskStep, Begin, ChangeArgs, Nest, Mark,
     Preflight, CaptureFirst, OpenScope, ReadInfo, WaitApproval, Return, EndNested, EndRun, At

(* Under enabled security no body runs before its code was registered.       *)
THEOREM CaptureCorrect == Spec => CapturedFirst
<1>1. Inv /\ [Next]_vars => [\A t \in Tasks : Enters(t) /\ call[t].pinned = "on" => captured]_vars
  BY EntersWarranted DEF Warranted
<1> QED
  BY <1>1, Inductive, PTL DEF Spec, CapturedFirst

(* A body runs on authority that is its own, whatever the gateway repeats or *)
(* leaves out and whoever changes the arguments meanwhile.                   *)
THEOREM AuthorityCorrect == Spec => AuthorityIsItsOwn
<1>1. Inv /\ [Next]_vars =>
        [\A t \in Tasks : Enters(t) =>
           LET c == call'[t] IN
           /\ Held(t) => c.source = "receipt" /\ c.receipt > call[t].receipt
           /\ c.waited => c.source \in {"gaf", "receipt"} /\ c.args = "shown"]_vars
  BY EntersWarranted DEF Warranted
<1> QED
  BY <1>1, Inductive, PTL DEF Spec, AuthorityIsItsOwn
=============================================================================
