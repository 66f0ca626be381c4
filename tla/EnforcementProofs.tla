-------------------------- MODULE EnforcementProofs --------------------------
(***************************************************************************)
(* What is enforced before anything runs: the captured code, the barrier   *)
(* of a graph, each run's engine and the guards; and then what the client  *)
(* as a whole keeps.  A behaviour moves one part only, so the composition  *)
(* keeps the inductive invariants of all of them.                          *)
(***************************************************************************)
EXTENDS IdentityProofs, Components

-----------------------------------------------------------------------------
(* The gate: a tool's attestation is remembered only for code that was     *)
(* reported, or for code that was rebound while its report was made, and   *)
(* nobody passes by any other.                                             *)
GateTypes == /\ code \in Versions /\ known \in Versions \cup {Off}
             /\ gate \in [Actors -> Gate!Gates]

Answered(v) == v \in reported \cup torn

GateInv ==
  /\ captured => Answered(known)
  /\ \A t \in Actors : gate[t].at = "pass" => Answered(gate[t].seen)
  /\ \A t \in Actors : gate[t].at = "remember" => gate[t].sent \in reported

LEMMA GateStart == ASSUME Gate!Init PROVE GateTypes /\ GateInv
<1>1. GateTypes BY DEF Gate!Init, GateTypes, Gate!Gates, Gate!Idle
<1>2. GateInv BY DEF Gate!Init, GateInv, Gate!Idle
<1>3. QED BY <1>1, <1>2

(* A caller moves: who it is and what the others see. *)
LEMMA GateMoves ==
  ASSUME GateTypes, NEW t \in Actors, NEW g \in Gate!Gates, gate' = [gate EXCEPT ![t] = g]
  PROVE  /\ gate' \in [Actors -> Gate!Gates] /\ gate'[t] = g
         /\ \A u \in Actors \ {t} : gate'[u] = gate[u]
BY DEF GateTypes

LEMMA GateAt ==
  ASSUME GateTypes, NEW t \in Actors, NEW a \in {"idle", "fast", "lock", "send", "answer", "remember", "pass", "refuse"}
  PROVE  /\ gate[t] \in Gate!Gates
         /\ [gate[t] EXCEPT !.at = a] \in Gate!Gates
         /\ [gate[t] EXCEPT !.at = a].at = a
         /\ [gate[t] EXCEPT !.at = a].seen = gate[t].seen
         /\ [gate[t] EXCEPT !.at = a].sent = gate[t].sent
BY DEF GateTypes, Gate!Gates

LEMMA GateStep ==
  ASSUME GateTypes, GateInv, [Gate!Next]_capturing PROVE GateTypes' /\ GateInv'
<1> DEFINE Goal == GateTypes' /\ GateInv'
           Stands == {"idle", "fast", "lock", "send", "answer", "remember", "pass", "refuse"}
<1> USE DEF Gate!At
<1>0. /\ code \in Versions /\ known \in Versions \cup {Off}
      /\ \A t \in Actors : gate[t] \in Gate!Gates
  BY DEF GateTypes
<1>1. ASSUME NEW t \in Actors, NEW g \in Gate!Gates, gate' = [gate EXCEPT ![t] = g],
             code' \in Versions, known' \in Versions \cup {Off},
             captured' => known' \in reported' \cup torn',
             reported \subseteq reported', torn \subseteq torn',
             g.at = "pass" => g.seen \in reported' \cup torn',
             g.at = "remember" => g.sent \in reported'
      PROVE  Goal
  <2> USE <1>1
  <2>1. /\ gate' \in [Actors -> Gate!Gates] /\ gate'[t] = g
        /\ \A u \in Actors \ {t} : gate'[u] = gate[u]
    BY GateMoves, Zenon
  <2>2. QED BY <2>1 DEF GateTypes, GateInv, Answered
<1>2. ASSUME NEW t \in Actors, NEW a \in Stands \ {"pass", "remember"}, Gate!Goto(t, a),
             UNCHANGED <<code, reported, captured, known, torn>>
      PROVE  Goal
  <2> USE <1>2
  <2>1. gate' = [gate EXCEPT ![t] = [gate[t] EXCEPT !.at = a]]
    BY DEF Gate!Goto, Gate!Set
  <2>2. QED BY <1>0, <1>1, <2>1, GateAt, ZenonT(40) DEF GateInv, Answered
<1>3. ASSUME NEW t \in Actors, Gate!HasTool, Gate!Pass(t),
             UNCHANGED <<code, reported, captured, known, torn>>
      PROVE  Goal
  <2> USE <1>3
  <2> DEFINE g == [gate[t] EXCEPT !.at = "pass", !.seen = code]
  <2>1. gate' = [gate EXCEPT ![t] = g] BY DEF Gate!Pass, Gate!Set
  <2>2. g \in Gate!Gates /\ g.at = "pass" /\ g.seen = code BY <1>0 DEF Gate!Gates
  <2>3. code \in reported \cup torn BY DEF Gate!HasTool, GateInv, Answered
  <2> HIDE DEF g
  <2>4. QED BY <1>0, <1>1, <2>1, <2>2, <2>3 DEF GateInv, Answered
<1>4. ASSUME NEW t \in Actors, Gate!Enter(t) PROVE Goal
  <2> DEFINE g == [Gate!Idle EXCEPT !.at = "fast"]
  <2>1. gate' = [gate EXCEPT ![t] = g] /\ UNCHANGED <<code, reported, captured, known, torn>>
    BY <1>4 DEF Gate!Enter, Gate!Set, Gate!capture
  <2>2. g \in Gate!Gates /\ g.at = "fast" BY DEF Gate!Gates, Gate!Idle
  <2> HIDE DEF g
  <2>3. QED BY <1>0, <1>1, <2>1, <2>2 DEF GateInv, Answered
<1>5. ASSUME NEW t \in Actors, Gate!LookFast(t) PROVE Goal
  <2> USE <1>5
  <2>1. UNCHANGED <<code, reported, captured, known, torn>> BY DEF Gate!LookFast, Gate!capture
  <2>2. CASE Gate!HasTool BY <1>3, <2>1, <2>2 DEF Gate!LookFast
  <2>3. CASE ~Gate!HasTool
    <3> USE <2>3
    <3>1. CASE resting BY <1>2, <2>1, <3>1 DEF Gate!LookFast
    <3>2. CASE ~resting BY <1>2, <2>1, <3>2 DEF Gate!LookFast
    <3>3. QED BY <3>1, <3>2
  <2>4. QED BY <2>2, <2>3
<1>6. ASSUME NEW t \in Actors, Gate!LookLocked(t) PROVE Goal
  <2> USE <1>6
  <2>1. UNCHANGED <<code, reported, captured, known, torn>> BY DEF Gate!LookLocked
  <2>2. CASE Gate!HasTool BY <1>3, <2>1, <2>2 DEF Gate!LookLocked
  <2>3. CASE ~Gate!HasTool /\ (resting \/ named = "none")
    <3>1. Gate!Goto(t, "refuse") BY <2>3 DEF Gate!LookLocked
    <3>2. QED BY <1>2, <2>1, <3>1
  <2>4. CASE ~Gate!HasTool /\ ~resting /\ named # "none"
    <3> DEFINE g == [gate[t] EXCEPT !.at = "send", !.seen = code]
    <3>1. gate' = [gate EXCEPT ![t] = g] BY <2>4 DEF Gate!LookLocked, Gate!Set
    <3>2. g \in Gate!Gates /\ g.at = "send" BY <1>0 DEF Gate!Gates
    <3> HIDE DEF g
    <3>3. QED BY <1>0, <1>1, <2>1, <3>1, <3>2 DEF GateInv, Answered
  <2>5. QED BY <2>2, <2>3, <2>4
<1>7. ASSUME NEW t \in Actors, Gate!Send(t) PROVE Goal
  <2> DEFINE g == [gate[t] EXCEPT !.at = "answer", !.sent = code]
  <2>1. gate' = [gate EXCEPT ![t] = g] /\ UNCHANGED <<code, reported, captured, known, torn>>
    BY <1>7 DEF Gate!Send, Gate!Set, Gate!capture
  <2>2. g \in Gate!Gates /\ g.at = "answer" BY <1>0 DEF Gate!Gates
  <2> HIDE DEF g
  <2>3. QED BY <1>0, <1>1, <2>1, <2>2 DEF GateInv, Answered
<1>8. ASSUME NEW t \in Actors, Gate!Acknowledged(t) PROVE Goal
  <2> DEFINE g == [gate[t] EXCEPT !.at = "remember"]
  <2>1. /\ gate' = [gate EXCEPT ![t] = g]
        /\ reported' = reported \cup {gate[t].sent} /\ known' = gate[t].sent
        /\ UNCHANGED <<code, torn>>
    BY <1>8 DEF Gate!Acknowledged, Gate!Goto, Gate!Set
  <2>2. gate[t].sent \in Versions \cup {Off} BY <1>0 DEF Gate!Gates
  <2>3. g \in Gate!Gates /\ g.at = "remember" /\ g.sent = gate[t].sent BY <1>0 DEF Gate!Gates
  <2> HIDE DEF g
  <2>4. known' \in reported' /\ g.sent \in reported' /\ reported \subseteq reported' BY <2>1, <2>3
  <2>5. QED BY <1>0, <1>1, <2>1, <2>2, <2>3, <2>4
<1>9. ASSUME NEW t \in Actors, Gate!Refused(t) PROVE Goal
  <2> USE <1>9
  <2>1. UNCHANGED <<code, reported, captured, known, torn>> /\ gate[t].at = "answer"
    BY DEF Gate!Refused
  <2>2. CASE Gate!Goto(t, "refuse") BY <1>2, <2>1, <2>2
  <2>3. CASE Gate!Set(t, [gate[t] EXCEPT !.proof = TRUE])
    <3> DEFINE g == [gate[t] EXCEPT !.proof = TRUE]
    <3>1. gate' = [gate EXCEPT ![t] = g] BY <2>3 DEF Gate!Set
    <3>2. g \in Gate!Gates /\ g.at = "answer" BY <1>0, <2>1, Zenon DEF Gate!Gates
    <3> HIDE DEF g
    <3>3. QED BY <1>0, <1>1, <2>1, <3>1, <3>2 DEF GateInv, Answered
  <2>4. QED BY <2>2, <2>3 DEF Gate!Refused
<1>10. ASSUME NEW t \in Actors, Gate!Remember(t) PROVE Goal
  <2> USE <1>10
  <2>1. /\ gate' = [gate EXCEPT ![t] = [gate[t] EXCEPT !.at = "pass"]]
        /\ known' = gate[t].seen /\ UNCHANGED <<code, reported, captured>>
        /\ torn' = torn \cup ({gate[t].seen} \ {gate[t].sent})
    BY DEF Gate!Remember, Gate!Goto, Gate!Set
  <2>2. gate[t].seen \in Versions \cup {Off} BY <1>0 DEF Gate!Gates
  <2>3. gate[t].sent \in reported BY DEF Gate!Remember, GateInv
  <2>4. gate[t].seen \in reported' \cup torn' BY <2>1, <2>3
  <2>5. QED BY <1>0, <1>1, <2>1, <2>2, <2>4, GateAt
<1>11. CASE Gate!Rebind
  BY <1>11 DEF Gate!Rebind, Gate!capture, GateTypes, GateInv, Answered
<1>12. CASE Gate!RestEnds
  BY <1>12 DEF Gate!RestEnds, GateTypes, GateInv, Answered
<1>13. CASE UNCHANGED capturing
  BY <1>13 DEF capturing, GateTypes, GateInv, Answered
<1>14. QED
  BY <1>4, <1>5, <1>6, <1>7, <1>8, <1>9, <1>10, <1>11, <1>12, <1>13 DEF Gate!Next, Gate!Step

-----------------------------------------------------------------------------
(* The barrier: it succeeds, and an execution gets past the report, only   *)
(* when the gateway has acknowledged one.                                  *)
Barriers == [completed : BOOLEAN, started : BOOLEAN, succeeded : BOOLEAN,
             error : {"none", "pending", "scan"}]
Execs == [at : {"rest", "governing", "look", "wait", "lock", "report", "blueprint", "attest",
                "body", "refused"},
          on : Graph!Makers \cup {Off}, runs : Nat, approved : BOOLEAN]

GraphTypes ==
  /\ barrier \in [Graph!Makers -> Barriers] /\ exec \in [Actors -> Execs]
  /\ current \in Graph!Makers \cup {Off} /\ acknowledged \in BOOLEAN /\ attested \in BOOLEAN

GraphInv ==
  /\ \A m \in Graph!Makers : barrier[m].succeeded => acknowledged
  /\ \A t \in Actors : exec[t].at \in {"blueprint", "attest", "body"} => acknowledged
  /\ \A t \in Actors : exec[t].at \in {"wait", "lock", "report", "blueprint"} => exec[t].on \in Graph!Makers
  /\ attested => current \in Graph!Makers
  /\ \A t \in Actors : exec[t].at = "look" => attested

LEMMA GraphStart == ASSUME Graph!Init PROVE GraphTypes /\ GraphInv
<1> USE DEF Graph!Makers
<1>1. GraphTypes
  BY DEF Graph!Init, GraphTypes, Barriers, Execs, Graph!NewBarrier, Graph!Rest
<1>2. GraphInv
  BY DEF Graph!Init, GraphInv, Graph!NewBarrier, Graph!Rest
<1>3. QED BY <1>1, <1>2

LEMMA ExecMoves ==
  ASSUME GraphTypes, NEW t \in Actors, NEW e \in Execs, exec' = [exec EXCEPT ![t] = e]
  PROVE  /\ exec' \in [Actors -> Execs] /\ exec'[t] = e
         /\ \A u \in Actors \ {t} : exec'[u] = exec[u]
BY DEF GraphTypes

(* An execution goes to another place, on the barrier it was on. *)
LEMMA ExecGoes ==
  ASSUME GraphTypes, NEW t \in Actors,
         NEW p \in {"rest", "governing", "look", "wait", "lock", "report", "blueprint", "attest",
                    "body", "refused"},
         Graph!Goto(t, p)
  PROVE  \E e \in Execs : /\ exec' = [exec EXCEPT ![t] = e]
                          /\ e.at = p /\ e.on = exec[t].on
<1>1. exec' = [exec EXCEPT ![t] = [exec[t] EXCEPT !.at = p]]
  BY DEF GraphTypes, Graph!Goto
<1>2. exec[t] \in Execs BY DEF GraphTypes
<1>3. /\ [exec[t] EXCEPT !.at = p] \in Execs
      /\ [exec[t] EXCEPT !.at = p].at = p /\ [exec[t] EXCEPT !.at = p].on = exec[t].on
  BY <1>2 DEF Execs
<1>4. QED BY <1>1, <1>3

(* What a step may do to one execution, the barriers left as they are. *)
LEMMA ExecStep ==
  ASSUME GraphTypes, GraphInv, NEW t \in Actors, NEW e \in Execs, exec' = [exec EXCEPT ![t] = e],
         barrier' \in [Graph!Makers -> Barriers], acknowledged' \in BOOLEAN,
         UNCHANGED <<attested, current>>,
         acknowledged => acknowledged',
         \A m \in Graph!Makers : barrier'[m].succeeded => acknowledged',
         e.at \in {"blueprint", "attest", "body"} => acknowledged',
         e.at \in {"wait", "lock", "report", "blueprint"} => e.on \in Graph!Makers,
         e.at = "look" => attested
  PROVE  GraphTypes' /\ GraphInv'
<1>1. /\ exec' \in [Actors -> Execs] /\ exec'[t] = e
      /\ \A u \in Actors \ {t} : exec'[u] = exec[u]
  BY ExecMoves
<1>2. current' = current /\ attested' = attested OBVIOUS
<1>3. GraphTypes'
  BY <1>1, <1>2 DEF GraphTypes, Graph!Makers
<1>4. GraphInv'
  BY <1>1, <1>2 DEF GraphInv, GraphTypes, Graph!Makers
<1>5. QED BY <1>3, <1>4

(* A barrier changes, the executions stay where they are. *)
LEMMA BarrierStep ==
  ASSUME GraphTypes, GraphInv, NEW m \in Graph!Makers, NEW b \in Barriers,
         barrier' = [barrier EXCEPT ![m] = b], acknowledged' \in BOOLEAN,
         UNCHANGED <<attested, current, exec>>,
         acknowledged => acknowledged', b.succeeded => acknowledged'
  PROVE  GraphTypes' /\ GraphInv'
<1>1. barrier' \in [Graph!Makers -> Barriers] /\ barrier'[m] = b
  BY DEF GraphTypes
<1>2. \A n \in Graph!Makers \ {m} : barrier'[n] = barrier[n] BY DEF GraphTypes
<1>3. exec' = exec /\ current' = current /\ attested' = attested OBVIOUS
<1>4. GraphTypes' BY <1>1, <1>3 DEF GraphTypes, Graph!Makers
<1>5. GraphInv' BY <1>1, <1>2, <1>3 DEF GraphInv, Graph!Makers
<1>6. QED BY <1>4, <1>5

LEMMA GraphStep ==
  ASSUME GraphTypes, GraphInv, [Graph!Next]_graph PROVE GraphTypes' /\ GraphInv'
<1> DEFINE Goal == GraphTypes' /\ GraphInv'
<1> USE DEF Graph!At
<1>0. /\ barrier \in [Graph!Makers -> Barriers] /\ acknowledged \in BOOLEAN /\ attested \in BOOLEAN
      /\ \A t \in Actors : exec[t] \in Execs /\ t \in Graph!Makers
      /\ \A m \in Graph!Makers : barrier[m] \in Barriers
  BY DEF GraphTypes, Graph!Makers
<1>1. ASSUME NEW m \in Graph!Makers, Graph!Start(m) PROVE Goal
  <2> DEFINE b == [barrier[m] EXCEPT !.started = TRUE]
  <2>1. barrier' = [barrier EXCEPT ![m] = b] /\ UNCHANGED <<acknowledged, attested, current, exec>>
    BY <1>0, <1>1 DEF Graph!Start
  <2>2. b \in Barriers /\ b.succeeded = barrier[m].succeeded BY <1>0 DEF Barriers
  <2> HIDE DEF b
  <2>3. QED BY <1>0, <2>1, <2>2, BarrierStep DEF GraphInv
<1>2. ASSUME NEW m \in Graph!Makers, Graph!Reject(m) PROVE Goal
  BY <1>2 DEF Graph!Reject, GraphTypes, GraphInv, Graph!Makers
<1>3. ASSUME NEW m \in Graph!Makers, Graph!Report(m) PROVE Goal
  <2> USE <1>3
  <2>1. UNCHANGED <<attested, current, exec>> BY DEF Graph!Report
  <2>2. CASE /\ acknowledged' = (acknowledged \/ agentRow = "approved")
             /\ barrier' = [barrier EXCEPT ![m].succeeded = (agentRow = "approved")]
    <3> USE <2>2
    <3> DEFINE ok == agentRow = "approved"
               b == [barrier[m] EXCEPT !.succeeded = ok]
    <3>1. barrier' = [barrier EXCEPT ![m] = b] BY <1>0
    <3>2. ok \in BOOLEAN OBVIOUS
    <3> HIDE DEF ok
    <3>3. b \in Barriers /\ b.succeeded = ok BY <1>0, <3>2 DEF Barriers
    <3>4. acknowledged' \in BOOLEAN /\ (acknowledged => acknowledged') /\ (ok => acknowledged')
      BY <1>0, <3>2 DEF ok
    <3> HIDE DEF b
    <3>5. QED BY <2>1, <3>1, <3>3, <3>4, BarrierStep
  <2>3. CASE Graph!Completed(m, barrier[m]) /\ UNCHANGED acknowledged
    <3> USE <2>3
    <3> DEFINE b == [barrier[m] EXCEPT !.completed = TRUE]
    <3>1. barrier' = [barrier EXCEPT ![m] = b] BY DEF Graph!Completed
    <3>2. b \in Barriers /\ b.succeeded = barrier[m].succeeded BY <1>0 DEF Barriers
    <3> HIDE DEF b
    <3>3. QED BY <1>0, <2>1, <3>1, <3>2, BarrierStep DEF GraphInv
  <2>4. QED BY <2>2, <2>3 DEF Graph!Report, Graph!Acknowledges
<1>4. ASSUME NEW m \in Graph!Makers, Graph!Blueprint(m) PROVE Goal
  <2> USE <1>4
  <2>1. PICK e \in {"none", "pending", "scan"} :
          barrier' = [barrier EXCEPT ![m] = [[barrier[m] EXCEPT !.error = e] EXCEPT !.completed = TRUE]]
    BY <1>0 DEF Graph!Blueprint, Graph!Completed, Barriers
  <2> DEFINE b == [[barrier[m] EXCEPT !.error = e] EXCEPT !.completed = TRUE]
  <2>2. b \in Barriers /\ b.succeeded = barrier[m].succeeded BY <1>0 DEF Barriers
  <2>3. UNCHANGED <<acknowledged, attested, current, exec>> BY DEF Graph!Blueprint
  <2>4. barrier' = [barrier EXCEPT ![m] = b] BY <2>1
  <2> HIDE DEF b
  <2>5. QED BY <1>0, <2>2, <2>3, <2>4, BarrierStep DEF GraphInv
<1>5. ASSUME NEW t \in Actors, Graph!Invoke(t) PROVE Goal
  <2> DEFINE n == exec[t].runs + 1
             p == IF attested THEN "look" ELSE "governing"
             ok == agentRow = "approved"
             e == [Graph!Rest(n) EXCEPT !.approved = ok, !.at = p, !.on = current]
  <2>1. exec' = [exec EXCEPT ![t] = e] /\ UNCHANGED <<acknowledged, attested, barrier, current>>
    BY <1>5 DEF Graph!Invoke, GraphTypes
  <2>2. n \in Nat /\ p \in {"look", "governing"} /\ ok \in BOOLEAN /\ (p = "look" => attested)
    BY <1>0 DEF Execs
  <2> HIDE DEF n, p, ok
  <2>3. e \in Execs /\ e.at = p BY <2>2, Zenon DEF Execs, GraphTypes, Graph!Rest
  <2> HIDE DEF e
  <2>4. QED BY <1>0, <2>1, <2>2, <2>3, ExecStep DEF GraphInv
<1>6. ASSUME NEW t \in Actors, Graph!Govern(t) PROVE Goal
  <2> DEFINE e == [exec[t] EXCEPT !.at = "look", !.on = t]
  <2>1. /\ exec' = [exec EXCEPT ![t] = e] /\ current' = t /\ attested' = TRUE
        /\ barrier' = [barrier EXCEPT ![t] = Graph!NewBarrier] /\ acknowledged' = acknowledged
    BY <1>0, <1>6 DEF Graph!Govern, GraphTypes
  <2>2. e \in Execs /\ e.at = "look" /\ Graph!NewBarrier \in Barriers /\ ~Graph!NewBarrier.succeeded
    BY <1>0 DEF Execs, Barriers, Graph!NewBarrier
  <2> HIDE DEF e
  <2>3. /\ exec' \in [Actors -> Execs] /\ exec'[t] = e
        /\ \A u \in Actors \ {t} : exec'[u] = exec[u]
    BY <2>1, <2>2, ExecMoves
  <2>4. /\ barrier' \in [Graph!Makers -> Barriers]
        /\ \A m \in Graph!Makers : barrier'[m].succeeded => barrier[m].succeeded
    BY <1>0, <2>1, <2>2
  <2>5. QED BY <1>0, <2>1, <2>2, <2>3, <2>4 DEF GraphTypes, GraphInv, Graph!Makers
<1>7. ASSUME NEW t \in Actors, NEW m \in Graph!Makers, Graph!Outcome(t, m),
             UNCHANGED <<acknowledged, attested, barrier, current>>
      PROVE  Goal
  <2> USE <1>7
  <2>1. PICK p \in {"refused", "attest", "lock"} :
          /\ exec' = [exec EXCEPT ![t].on = m, ![t].at = p]
          /\ p = "attest" => barrier[m].succeeded
    BY DEF Graph!Outcome
  <2> DEFINE e == [exec[t] EXCEPT !.on = m, !.at = p]
  <2>2. exec' = [exec EXCEPT ![t] = e] BY <1>0, <2>1 DEF GraphTypes
  <2>3. e \in Execs /\ e.on = m /\ e.at = p BY <1>0 DEF Execs
  <2> HIDE DEF e
  <2>4. QED BY <1>0, <2>1, <2>2, <2>3, ExecStep DEF GraphInv
<1>8. ASSUME NEW t \in Actors, Graph!Look(t) PROVE Goal
  <2> USE <1>8
  <2>1. /\ UNCHANGED <<acknowledged, attested, barrier, current>>
        /\ current \in Graph!Makers
    BY DEF Graph!Look, GraphInv
  <2>2. CASE barrier[current].completed
    BY <1>7, <2>1, <2>2 DEF Graph!Look
  <2>3. CASE ~barrier[current].completed
    <3>1. PICK p \in {"wait", "lock"} : exec' = [exec EXCEPT ![t].on = current, ![t].at = p]
      BY <2>3 DEF Graph!Look
    <3> DEFINE e == [exec[t] EXCEPT !.on = current, !.at = p]
    <3>2. exec' = [exec EXCEPT ![t] = e] BY <1>0, <3>1, Zenon DEF GraphTypes
    <3>3. e \in Execs /\ e.on = current /\ e.at = p BY <1>0, <2>1, Zenon DEF Execs
    <3> HIDE DEF e
    <3>4. QED BY <1>0, <2>1, <3>2, <3>3, ExecStep DEF GraphInv
  <2>4. QED BY <2>2, <2>3
<1>9. ASSUME NEW t \in Actors, Graph!Wait(t) PROVE Goal
  <2> USE <1>9
  <2>1. UNCHANGED <<acknowledged, attested, barrier, current>> /\ exec[t].on \in Graph!Makers
    BY DEF Graph!Wait, GraphInv
  <2>2. CASE Graph!Outcome(t, exec[t].on) BY <1>7, <2>1, <2>2
  <2>3. CASE Graph!Goto(t, "lock")
    BY <1>0, <2>1, <2>3, ExecGoes, ExecStep DEF GraphInv
  <2>4. QED BY <2>2, <2>3 DEF Graph!Wait
<1>10. ASSUME NEW t \in Actors, Graph!Lock(t) PROVE Goal
  <2> USE <1>10
  <2>1. UNCHANGED <<acknowledged, attested, barrier, current>> /\ exec[t].on \in Graph!Makers
    BY DEF Graph!Lock, GraphInv
  <2>2. PICK p \in {"refused", "body", "report"} :
          Graph!Goto(t, p) /\ (p = "body" => barrier[exec[t].on].succeeded)
    BY DEF Graph!Lock
  <2>3. QED BY <1>0, <2>1, <2>2, ExecGoes, ExecStep DEF GraphInv
<1>11. ASSUME NEW t \in Actors, Graph!ReportHere(t) PROVE Goal
  <2> USE <1>11
  <2> DEFINE m == exec[t].on
  <2>1. UNCHANGED <<attested, current>> /\ m \in Graph!Makers
    BY DEF Graph!ReportHere, GraphInv
  <2> HIDE DEF m
  <2>2. CASE agentRow = "approved"
    <3> DEFINE b == [barrier[m] EXCEPT !.succeeded = TRUE]
    <3>1. /\ acknowledged' = TRUE /\ Graph!Goto(t, "blueprint")
          /\ barrier' = [barrier EXCEPT ![m] = b]
      BY <1>0, <2>2, <2>1 DEF Graph!ReportHere, Graph!Acknowledges, m
    <3>2. b \in Barriers BY <1>0, <2>1 DEF Barriers
    <3>3. barrier' \in [Graph!Makers -> Barriers] BY <1>0, <3>1, <3>2
    <3> HIDE DEF b
    <3>4. PICK e \in Execs : exec' = [exec EXCEPT ![t] = e] /\ e.at = "blueprint" /\ e.on = m
      BY <3>1, ExecGoes DEF m
    <3>5. QED BY <2>1, <3>1, <3>3, <3>4, ExecStep
  <2>3. CASE agentRow # "approved"
    <3> DEFINE b == [barrier[m] EXCEPT !.error = "pending", !.completed = TRUE]
    <3>1. /\ acknowledged' = acknowledged /\ Graph!Goto(t, "refused")
          /\ barrier' = [barrier EXCEPT ![m] = b]
      BY <1>0, <2>3, <2>1 DEF Graph!ReportHere, Graph!Acknowledges, Graph!Close, m
    <3>2. b \in Barriers /\ b.succeeded = barrier[m].succeeded BY <1>0, <2>1 DEF Barriers
    <3> HIDE DEF b
    <3>3. /\ barrier' \in [Graph!Makers -> Barriers]
          /\ \A n \in Graph!Makers : barrier'[n].succeeded => barrier[n].succeeded
      BY <1>0, <3>1, <3>2
    <3>4. PICK e \in Execs : exec' = [exec EXCEPT ![t] = e] /\ e.at = "refused"
      BY <3>1, ExecGoes
    <3>5. QED BY <1>0, <2>1, <3>1, <3>3, <3>4, ExecStep DEF GraphInv
  <2>4. QED BY <2>2, <2>3
<1>12. ASSUME NEW t \in Actors, Graph!BlueprintHere(t) PROVE Goal
  <2> USE <1>12
  <2> DEFINE m == exec[t].on
  <2>1. UNCHANGED <<acknowledged, attested, current>> /\ m \in Graph!Makers /\ acknowledged
    BY DEF Graph!BlueprintHere, GraphInv
  <2> HIDE DEF m
  <2>2. PICK b \in Barriers, p \in {"body", "refused"} :
          barrier' = [barrier EXCEPT ![m] = b] /\ Graph!Goto(t, p)
    <3>1. /\ [barrier[m] EXCEPT !.completed = TRUE] \in Barriers
          /\ [barrier[m] EXCEPT !.error = "scan", !.completed = TRUE] \in Barriers
      BY <1>0, <2>1, Zenon DEF Barriers
    <3>2. \/ Graph!Goto(t, "body") /\ barrier' = [barrier EXCEPT ![m].completed = TRUE]
          \/ /\ Graph!Goto(t, "refused")
             /\ barrier' = [barrier EXCEPT ![m].error = "scan", ![m].completed = TRUE]
      BY DEF Graph!BlueprintHere, Graph!Close, m
    <3>3. \/ Graph!Goto(t, "body") /\ barrier' = [barrier EXCEPT ![m] = [barrier[m] EXCEPT !.completed = TRUE]]
          \/ /\ Graph!Goto(t, "refused")
             /\ barrier' = [barrier EXCEPT ![m] = [barrier[m] EXCEPT !.error = "scan", !.completed = TRUE]]
      BY <1>0, <2>1, <3>2
    <3>4. QED BY <3>1, <3>3
  <2>3. barrier' \in [Graph!Makers -> Barriers] BY <1>0, <2>2
  <2>4. PICK e \in Execs : exec' = [exec EXCEPT ![t] = e] /\ e.at = p BY <2>2, ExecGoes
  <2>5. QED BY <1>0, <2>1, <2>3, <2>4, ExecStep
<1>13. ASSUME NEW t \in Actors, Graph!Attest(t) PROVE Goal
  <2> USE <1>13
  <2>1. PICK p \in {"body", "refused"} : Graph!Goto(t, p) BY DEF Graph!Attest
  <2>2. UNCHANGED <<acknowledged, attested, barrier, current>> /\ acknowledged
    BY DEF Graph!Attest, GraphInv
  <2>3. PICK e \in Execs : exec' = [exec EXCEPT ![t] = e] /\ e.at = p BY <2>1, ExecGoes
  <2>4. QED BY <1>0, <2>2, <2>3, ExecStep DEF GraphInv
<1>14. CASE Graph!Approve
  BY <1>14 DEF Graph!Approve, GraphTypes, GraphInv, Graph!Makers
<1>15. CASE UNCHANGED graph
  BY <1>15 DEF graph, GraphTypes, GraphInv, Graph!Makers
<1>16. QED
  BY <1>1, <1>2, <1>3, <1>4, <1>5, <1>6, <1>8, <1>9, <1>10, <1>11, <1>12, <1>13, <1>14, <1>15
  DEF Graph!Next

-----------------------------------------------------------------------------
(* Engines: a run that nobody disturbed finds its own engine wherever its  *)
(* tool looks for one: in the tool's binding, in the scope, in the wrapped *)
(* callable.                                                               *)
Someone == Clients \cup {Off}
Turns == [at : {"rest", "resolve", "bind", "wrap", "wrapping", "body"}, agent : Agents \cup {Off},
          engine : Someone, used : Someone, disturbed : BOOLEAN, runs : Nat]

EngineTypes ==
  /\ adapter \in {"bound", "wrapped"}
  /\ client \in [Clients -> {"new", "open", "closed"}] /\ scope \in [Actors -> Someone]
  /\ bindings \in [Agents \cup {Tool} -> Someone] /\ wrap \in Someone
  /\ turn \in [Actors -> Turns]

Reachable(t) == turn[t].engine \in Engines!Open \/ scope[t] = turn[t].engine

InTheTool(t) ==
  IF adapter = "wrapped" THEN wrap = turn[t].engine
  ELSE \/ bindings[Tool] = turn[t].engine /\ Reachable(t)
       \/ bindings[Tool] = Off /\ scope[t] = turn[t].engine

Bearing(t) ==
  /\ turn[t].at \in {"bind", "wrap", "wrapping", "body"} => turn[t].engine # Off
  /\ turn[t].at \in {"resolve", "bind"} => turn[t].agent \in Agents
  /\ turn[t].at # "body" => turn[t].used = Off
  /\ turn[t].at \in {"wrap", "wrapping"} => adapter = "wrapped"

Undisturbed(t) ==
  ~turn[t].disturbed =>
    /\ turn[t].at \in {"bind", "body"} /\ adapter = "bound" => Reachable(t)
    /\ turn[t].at = "body" => InTheTool(t)
    /\ turn[t].used \in {Off, turn[t].engine}

EngineInv == \A t \in Actors : Bearing(t) /\ Undisturbed(t)

LEMMA EngineStart == ASSUME Engines!Init PROVE EngineTypes /\ EngineInv
<1> USE DEF Engines!Init, Engines!Rest
<1>1. EngineTypes BY DEF EngineTypes, Turns, Someone, Engines!Objects
<1>2. EngineInv BY DEF EngineInv, Bearing, Undisturbed
<1>3. QED BY <1>1, <1>2

(* The thread that steps goes on as g; a change to engine c is marked on    *)
(* the runs of other engines.                                               *)
LEMMA TurnMoves ==
  ASSUME EngineTypes, NEW t \in Actors, NEW g \in Turns, Engines!Turn(t, g)
  PROVE  /\ turn' \in [Actors -> Turns] /\ turn'[t] = g
         /\ \A u \in Actors \ {t} : turn'[u] = turn[u]
BY DEF EngineTypes, Engines!Turn

LEMMA Marked ==
  ASSUME NEW r \in Turns, NEW d \in BOOLEAN
  PROVE  LET m == [r EXCEPT !.disturbed = @ \/ d]
         IN  /\ m \in Turns /\ m.at = r.at /\ m.agent = r.agent /\ m.engine = r.engine
             /\ m.used = r.used /\ (~m.disturbed => ~r.disturbed /\ ~d)
BY DEF Turns

LEMMA TurnDisturbs ==
  ASSUME EngineTypes, NEW t \in Actors, NEW g \in Turns, NEW c \in Someone, Engines!Disturb(t, g, c)
  PROVE  /\ turn' \in [Actors -> Turns] /\ turn'[t] = g
         /\ \A u \in Actors \ {t} :
              /\ turn'[u].at = turn[u].at /\ turn'[u].agent = turn[u].agent
              /\ turn'[u].engine = turn[u].engine /\ turn'[u].used = turn[u].used
              /\ ~turn'[u].disturbed => /\ ~turn[u].disturbed
                                        /\ c = Off \/ turn[u].engine = c
<1> DEFINE d(u) == c # Off /\ turn[u].engine # c
           m(u) == [turn[u] EXCEPT !.disturbed = @ \/ d(u)]
<1>1. turn' = [u \in Actors |-> IF u = t THEN g ELSE m(u)]
  BY DEF Engines!Disturb
<1>2. \A u \in Actors : /\ m(u) \in Turns /\ m(u).at = turn[u].at /\ m(u).agent = turn[u].agent
                        /\ m(u).engine = turn[u].engine /\ m(u).used = turn[u].used
                        /\ ~m(u).disturbed => ~turn[u].disturbed /\ ~d(u)
  <2> TAKE u \in Actors
  <2>1. turn[u] \in Turns /\ d(u) \in BOOLEAN BY DEF EngineTypes
  <2> HIDE DEF d
  <2>2. QED BY <2>1, Marked
<1> HIDE DEF m
<1>3. QED BY <1>1, <1>2

(* What the other threads see when one of them steps: their own runs as    *)
(* they were, and the engine e in the tool or in the wrapped callable only  *)
(* if it is theirs.                                                         *)
LEMMA OthersKeep ==
  ASSUME EngineTypes, EngineInv, NEW u \in Actors,
         UNCHANGED <<adapter, client>>, scope'[u] = scope[u],
         turn'[u].at = turn[u].at, turn'[u].agent = turn[u].agent,
         turn'[u].engine = turn[u].engine, turn'[u].used = turn[u].used,
         ~turn'[u].disturbed => ~turn[u].disturbed,
         ~turn'[u].disturbed /\ turn[u].at = "body" =>
           /\ \/ bindings'[Tool] = bindings[Tool]
              \/ bindings'[Tool] = turn[u].engine
              \/ bindings'[Tool] = Off /\ bindings[Tool] \notin Engines!Open
           /\ wrap' = wrap \/ wrap' = turn[u].engine
  PROVE  Bearing(u)' /\ Undisturbed(u)'
<1>1. adapter' = adapter /\ client' = client OBVIOUS
<1> USE <1>1
<1>2. Engines!Open' = Engines!Open BY DEF Engines!Open
<1>3. Bearing(u)' BY DEF Bearing, EngineInv
<1>4. Reachable(u)' = Reachable(u) BY <1>2 DEF Reachable
<1>5. ASSUME ~turn'[u].disturbed, turn[u].at = "body" PROVE InTheTool(u)'
  <2> USE <1>5
  <2>1. InTheTool(u) /\ (adapter = "bound" => Reachable(u))
    BY DEF EngineInv, Undisturbed
  <2>2. CASE adapter = "wrapped" BY <2>1, <2>2 DEF InTheTool
  <2>3. CASE adapter = "bound" BY <1>4, <2>1, <2>3 DEF InTheTool, Reachable
  <2>4. QED BY <2>2, <2>3 DEF EngineTypes
<1>6. QED BY <1>3, <1>4, <1>5 DEF EngineInv, Undisturbed

(* An engine that is found is a client's, open or in the scope.  *)
LEMMA Found ==
  ASSUME EngineTypes, NEW t \in Actors, NEW o \in Agents \cup {Tool}, NEW e \in Engines!Candidates(t, o)
  PROVE  /\ e \in Someone /\ e # Off /\ (e \in Engines!Open \/ scope[t] = e)
         /\ bindings[o] \in Engines!Open => e = bindings[o]
         /\ bindings[o] \notin Engines!Open /\ scope[t] # Off => e = scope[t]
<1>1. Engines!Open \subseteq Clients /\ scope[t] \in Someone BY DEF Engines!Open, EngineTypes
<1>2. QED BY <1>1, OffAssumption DEF Engines!Candidates, Someone

LEMMA EngineStep ==
  ASSUME EngineTypes, EngineInv, [Engines!Next]_engines PROVE EngineTypes' /\ EngineInv'
<1> DEFINE Goal == EngineTypes' /\ EngineInv'
           Kept(t) == Bearing(t)' /\ Undisturbed(t)'
<1> USE DEF Engines!At
<1>0. /\ adapter \in {"bound", "wrapped"} /\ wrap \in Someone /\ Off \in Someone
      /\ bindings \in [Agents \cup {Tool} -> Someone]
      /\ \A t \in Actors : turn[t] \in Turns /\ turn[t].engine \in Someone /\ turn[t].runs \in Nat
      /\ Tool \notin Agents
  BY OffAssumption DEF EngineTypes, Turns, Someone
<1>1. ASSUME NEW c \in Clients, Engines!Create(c) PROVE Goal
  <2>1. /\ UNCHANGED <<adapter, scope, bindings, wrap, turn>>
        /\ client' \in [Clients -> {"new", "open", "closed"}]
        /\ Engines!Open \subseteq Engines!Open'
    BY <1>1 DEF Engines!Create, EngineTypes, Engines!Open
  <2>2. EngineTypes' BY <2>1 DEF EngineTypes
  <2>3. EngineInv' BY <2>1 DEF EngineInv, Bearing, Undisturbed, Reachable, InTheTool
  <2>4. QED BY <2>2, <2>3
<1>2. ASSUME NEW c \in Clients, Engines!Close(c) PROVE Goal
  <2> USE <1>2
  <2>1. /\ UNCHANGED <<adapter, scope, bindings, wrap>>
        /\ client' \in [Clients -> {"new", "open", "closed"}]
        /\ Engines!Open \ {c} \subseteq Engines!Open'
    BY DEF Engines!Close, EngineTypes, Engines!Open
  <2> DEFINE d(t) == turn[t].engine = c
             m(t) == [turn[t] EXCEPT !.disturbed = @ \/ d(t)]
  <2>2. turn' = [t \in Actors |-> m(t)] BY DEF Engines!Close
  <2>3. \A t \in Actors : /\ m(t) \in Turns /\ m(t).at = turn[t].at /\ m(t).agent = turn[t].agent
                          /\ m(t).engine = turn[t].engine /\ m(t).used = turn[t].used
                          /\ ~m(t).disturbed => ~turn[t].disturbed /\ ~d(t)
    <3> TAKE t \in Actors
    <3>1. turn[t] \in Turns /\ d(t) \in BOOLEAN BY <1>0
    <3> HIDE DEF d
    <3>2. QED BY <3>1, Marked
  <2> HIDE DEF m
  <2>4. EngineTypes' BY <2>1, <2>2, <2>3 DEF EngineTypes
  <2>5. ASSUME NEW t \in Actors PROVE Kept(t)
    <3>1. /\ turn'[t].at = turn[t].at /\ turn'[t].agent = turn[t].agent
          /\ turn'[t].engine = turn[t].engine /\ turn'[t].used = turn[t].used
          /\ ~turn'[t].disturbed => ~turn[t].disturbed /\ turn[t].engine # c
      BY <2>2, <2>3
    <3>2. Bearing(t) /\ Undisturbed(t) BY DEF EngineInv
    <3>3. ~turn'[t].disturbed /\ Reachable(t) => Reachable(t)' BY <2>1, <3>1 DEF Reachable
    <3>4. ~turn'[t].disturbed /\ InTheTool(t) => InTheTool(t)'
      BY <2>1, <3>1, <3>3 DEF InTheTool
    <3>5. Bearing(t)' BY <2>1, <3>1, <3>2 DEF Bearing
    <3>6. Undisturbed(t)' BY <2>1, <3>1, <3>2, <3>3, <3>4 DEF Undisturbed
    <3>7. QED BY <3>5, <3>6
  <2>6. QED BY <2>4, <2>5 DEF EngineInv
<1>3. ASSUME NEW t \in Actors, turn[t].at = "rest", scope' \in [Actors -> Someone],
             \A u \in Actors \ {t} : scope'[u] = scope[u],
             UNCHANGED <<adapter, client, bindings, wrap, turn>>
      PROVE  Goal
  <2> USE <1>3
  <2>1. EngineTypes' BY DEF EngineTypes
  <2>2. \A u \in Actors \ {t} : Kept(u) BY OthersKeep
  <2>3. Bearing(t) /\ Undisturbed(t) /\ turn' = turn /\ adapter' = adapter BY DEF EngineInv
  <2>4. Kept(t) BY <2>3 DEF Bearing, Undisturbed
  <2>5. QED BY <2>1, <2>2, <2>4 DEF EngineInv
<1>4. ASSUME NEW t \in Actors, NEW c \in Clients, Engines!EnterScope(t, c) PROVE Goal
  BY <1>3, <1>4 DEF Engines!EnterScope, EngineTypes, Someone
<1>5. ASSUME NEW t \in Actors, Engines!LeaveScope(t) PROVE Goal
  BY <1>0, <1>3, <1>5 DEF Engines!LeaveScope, EngineTypes
<1>6. ASSUME NEW t \in Actors, NEW g \in Turns, Engines!Turn(t, g),
             UNCHANGED <<adapter, client, scope, wrap>>,
             bindings' \in [Agents \cup {Tool} -> Someone],
             \/ bindings'[Tool] = bindings[Tool]
             \/ bindings'[Tool] = Off /\ bindings[Tool] \notin Engines!Open,
             Kept(t)
      PROVE  Goal
  <2> USE <1>6
  <2>1. /\ turn' \in [Actors -> Turns] /\ turn'[t] = g
        /\ \A u \in Actors \ {t} : turn'[u] = turn[u]
    BY TurnMoves
  <2>2. EngineTypes' BY <2>1 DEF EngineTypes
  <2>3. \A u \in Actors \ {t} : Kept(u) BY <2>1, OthersKeep
  <2>4. QED BY <2>2, <2>3 DEF EngineInv
<1>7. ASSUME NEW t \in Actors, Engines!Turn(t, Engines!Rest(turn[t].runs)),
             UNCHANGED <<adapter, client, scope, wrap>>,
             bindings' \in [Agents \cup {Tool} -> Someone],
             \/ bindings'[Tool] = bindings[Tool]
             \/ bindings'[Tool] = Off /\ bindings[Tool] \notin Engines!Open
      PROVE  Goal
  <2> USE <1>7
  <2> DEFINE g == Engines!Rest(turn[t].runs)
  <2>1. g \in Turns /\ g.at = "rest" /\ g.used = Off BY <1>0 DEF Engines!Rest, Turns
  <2> HIDE DEF g
  <2>2. Engines!Turn(t, g) BY DEF g
  <2>3. turn'[t] = g BY <2>1, <2>2, TurnMoves
  <2>4. Kept(t) BY <2>1, <2>3 DEF Bearing, Undisturbed
  <2>5. QED BY <1>6, <2>1, <2>2, <2>4
<1>8. ASSUME NEW t \in Actors, NEW g \in Turns, NEW c \in Someone, Engines!Disturb(t, g, c),
             UNCHANGED <<adapter, client, scope>>,
             bindings' \in [Agents \cup {Tool} -> Someone], wrap' \in Someone,
             bindings'[Tool] = bindings[Tool] \/ (c # Off /\ bindings'[Tool] = c),
             wrap' = wrap \/ (c # Off /\ wrap' = c),
             Kept(t)
      PROVE  Goal
  <2> USE <1>8
  <2>1. /\ turn' \in [Actors -> Turns] /\ turn'[t] = g
        /\ \A u \in Actors \ {t} :
              /\ turn'[u].at = turn[u].at /\ turn'[u].agent = turn[u].agent
              /\ turn'[u].engine = turn[u].engine /\ turn'[u].used = turn[u].used
              /\ ~turn'[u].disturbed => /\ ~turn[u].disturbed
                                        /\ c = Off \/ turn[u].engine = c
    BY TurnDisturbs
  <2>2. EngineTypes' BY <2>1 DEF EngineTypes
  <2>3. \A u \in Actors \ {t} : Kept(u)
    <3> TAKE u \in Actors \ {t}
    <3>1. QED BY <2>1, OthersKeep
  <2>4. QED BY <2>2, <2>3 DEF EngineInv
<1>9. ASSUME NEW t \in Actors, NEW a \in Agents, Engines!Run(t, a) PROVE Goal
  <2> DEFINE n == turn[t].runs + 1
             g == [Engines!Rest(n) EXCEPT !.at = "resolve", !.agent = a]
  <2>1. n \in Nat BY <1>0
  <2>2. Engines!Turn(t, g) /\ UNCHANGED <<adapter, client, scope, bindings, wrap>>
    BY <1>9 DEF Engines!Run
  <2> HIDE DEF n
  <2>3. g \in Turns /\ g.at = "resolve" /\ g.used = Off /\ g.agent = a
    BY <1>0, <2>1 DEF Engines!Rest, Turns
  <2> HIDE DEF g
  <2>4. turn'[t] = g BY <2>2, <2>3, TurnMoves
  <2>5. Kept(t) BY <2>3, <2>4 DEF Bearing, Undisturbed
  <2>6. QED BY <1>0, <1>6, <2>2, <2>3, <2>5
<1>10. ASSUME NEW t \in Actors, Engines!Resolve(t) PROVE Goal
  <2> USE <1>10
  <2> DEFINE a == turn[t].agent
  <2>1. a \in Agents /\ turn[t].used = Off /\ turn[t].at = "resolve"
    BY DEF Engines!Resolve, EngineInv, Bearing
  <2>2. /\ UNCHANGED <<adapter, client, scope, wrap>>
        /\ bindings' \in [Agents \cup {Tool} -> Someone] /\ bindings'[Tool] = bindings[Tool]
    BY <1>0, <2>1 DEF Engines!Resolve
  <2>3. ASSUME NEW e \in Engines!Candidates(t, a),
               Engines!Turn(t, [turn[t] EXCEPT !.at = "bind", !.engine = e, !.disturbed = FALSE])
        PROVE  Goal
    <3> USE <2>3
    <3> DEFINE g == [turn[t] EXCEPT !.at = "bind", !.engine = e, !.disturbed = FALSE]
    <3>1. e \in Someone /\ e # Off /\ (e \in Engines!Open \/ scope[t] = e)
      BY <2>1, Found
    <3>2. g \in Turns /\ g.at = "bind" /\ g.engine = e /\ g.agent = a /\ g.used = Off
      BY <1>0, <2>1, <3>1 DEF Turns
    <3>3. Engines!Turn(t, g) OBVIOUS
    <3> HIDE DEF g, a
    <3>4. turn'[t] = g BY <3>2, <3>3, TurnMoves
    <3>5. Engines!Open' = Engines!Open BY <2>2 DEF Engines!Open
    <3>6. Kept(t) BY <2>1, <2>2, <3>1, <3>2, <3>4, <3>5 DEF Bearing, Undisturbed, Reachable
    <3>7. QED BY <1>6, <2>2, <3>2, <3>3, <3>6
  <2>4. CASE Engines!Turn(t, Engines!Rest(turn[t].runs)) BY <1>7, <2>2, <2>4
  <2>5. QED BY <2>3, <2>4 DEF Engines!Resolve
<1>11. ASSUME NEW t \in Actors, Engines!Bind(t) PROVE Goal
  <2> USE <1>11
  <2> DEFINE e == turn[t].engine
             p == IF adapter = "bound" THEN "body" ELSE "wrap"
             g == [turn[t] EXCEPT !.at = p]
  <2>1. /\ turn[t].at = "bind" /\ e \in Someone /\ e # Off /\ turn[t].used = Off /\ turn[t].agent \in Agents
        /\ ~turn[t].disturbed /\ adapter = "bound" => Reachable(t)
    BY <1>0 DEF Engines!Bind, EngineInv, Bearing, Undisturbed
  <2>2. /\ UNCHANGED <<adapter, client, scope, wrap>> /\ Engines!Disturb(t, g, e)
        /\ bindings' = [bindings EXCEPT ![turn[t].agent] = e, ![Tool] = e]
    BY DEF Engines!Bind, Engines!Bound
  <2>3. bindings' \in [Agents \cup {Tool} -> Someone] /\ bindings'[Tool] = e
    BY <1>0, <2>1, <2>2
  <2>4. p \in {"body", "wrap"} /\ (p = "body" <=> adapter = "bound") OBVIOUS
  <2> HIDE DEF p
  <2>5. /\ g \in Turns /\ g.at = p /\ g.engine = e /\ g.used = Off
        /\ g.disturbed = turn[t].disturbed
    BY <1>0, <2>1, <2>4 DEF Turns
  <2> HIDE DEF g, e
  <2>6. turn'[t] = g BY <2>1, <2>2, <2>5, TurnDisturbs
  <2>7. Engines!Open' = Engines!Open BY <2>2 DEF Engines!Open
  <2>8. Bearing(t)' BY <1>0, <2>1, <2>2, <2>4, <2>5, <2>6 DEF Bearing
  <2>9. Reachable(t)' = Reachable(t) BY <2>2, <2>5, <2>6, <2>7 DEF Reachable, e
  <2>10. Undisturbed(t)'
    BY <1>0, <2>1, <2>2, <2>3, <2>4, <2>5, <2>6, <2>9 DEF Undisturbed, InTheTool
  <2>11. QED BY <1>0, <1>8, <2>1, <2>2, <2>3, <2>5, <2>8, <2>10
<1>12. ASSUME NEW t \in Actors, Engines!CheckWrap(t) PROVE Goal
  <2> USE <1>12
  <2>1. /\ turn[t].at = "wrap" /\ adapter = "wrapped" /\ turn[t].used = Off /\ turn[t].engine # Off
        /\ UNCHANGED <<adapter, client, scope, bindings, wrap>>
    BY DEF Engines!CheckWrap, EngineInv, Bearing
  <2>2. ASSUME NEW p \in {"wrapping", "body"}, p = "body" => wrap = turn[t].engine,
               Engines!Turn(t, [turn[t] EXCEPT !.at = p])
        PROVE  Goal
    <3> USE <2>2
    <3> DEFINE g == [turn[t] EXCEPT !.at = p]
    <3>1. g \in Turns /\ g.at = p /\ g.engine = turn[t].engine /\ g.used = Off
      BY <1>0, <2>1 DEF Turns
    <3>2. Engines!Turn(t, g) OBVIOUS
    <3> HIDE DEF g
    <3>3. turn'[t] = g BY <3>1, <3>2, TurnMoves
    <3>4. Kept(t) BY <2>1, <3>1, <3>3 DEF Bearing, Undisturbed, InTheTool
    <3>5. QED BY <1>0, <1>6, <2>1, <3>1, <3>2, <3>4
  <2>3. CASE Engines!Turn(t, Engines!Rest(turn[t].runs)) BY <1>0, <1>7, <2>1, <2>3
  <2>4. QED BY <2>2, <2>3 DEF Engines!CheckWrap
<1>13. ASSUME NEW t \in Actors, Engines!SetWrap(t) PROVE Goal
  <2> USE <1>13
  <2> DEFINE e == turn[t].engine
             g == [turn[t] EXCEPT !.at = "body"]
  <2>1. /\ turn[t].at = "wrapping" /\ e \in Someone /\ e # Off /\ turn[t].used = Off
        /\ adapter = "wrapped"
    BY <1>0 DEF Engines!SetWrap, EngineInv, Bearing
  <2>2. /\ UNCHANGED <<adapter, client, scope, bindings>> /\ Engines!Disturb(t, g, e) /\ wrap' = e
    BY DEF Engines!SetWrap
  <2>3. g \in Turns /\ g.at = "body" /\ g.engine = e /\ g.used = Off
    BY <1>0, <2>1 DEF Turns
  <2> HIDE DEF g, e
  <2>4. turn'[t] = g BY <2>1, <2>2, <2>3, TurnDisturbs
  <2>5. Kept(t) BY <2>1, <2>2, <2>3, <2>4 DEF Bearing, Undisturbed, InTheTool
  <2>6. QED BY <1>0, <1>8, <2>1, <2>2, <2>3, <2>5
<1>14. ASSUME NEW t \in Actors, Engines!Call(t) PROVE Goal
  <2> USE <1>14
  <2>1. /\ turn[t].at = "body" /\ turn[t].engine # Off /\ UNCHANGED <<adapter, client, scope, wrap>>
        /\ ~turn[t].disturbed => InTheTool(t) /\ (adapter = "bound" => Reachable(t))
    BY DEF Engines!Call, EngineInv, Bearing, Undisturbed
  <2>2. Engines!Open' = Engines!Open BY <2>1 DEF Engines!Open
  <2>3. ASSUME NEW e \in Someone PROVE
          LET g == [turn[t] EXCEPT !.used = e]
          IN  /\ g \in Turns /\ g.at = "body" /\ g.engine = turn[t].engine /\ g.used = e
              /\ g.agent = turn[t].agent /\ g.disturbed = turn[t].disturbed
    BY <1>0, <2>1, <2>3 DEF Turns
  <2>4. CASE adapter = "wrapped"
    <3> USE <2>4
    <3> DEFINE g == [turn[t] EXCEPT !.used = wrap]
    <3>1. Engines!Disturb(t, g, Off) /\ bindings' = bindings BY DEF Engines!Call
    <3>2. /\ g \in Turns /\ g.at = "body" /\ g.engine = turn[t].engine /\ g.used = wrap
          /\ g.disturbed = turn[t].disturbed
      BY <1>0, <2>3
    <3> HIDE DEF g
    <3>3. turn'[t] = g BY <1>0, <3>1, <3>2, TurnDisturbs
    <3>4. Kept(t) BY <2>1, <3>2, <3>3 DEF Bearing, Undisturbed, InTheTool
    <3>5. QED BY <1>0, <1>8, <2>1, <3>1, <3>2, <3>4
  <2>5. ASSUME adapter = "bound", NEW e \in Engines!Candidates(t, Tool),
               Engines!Disturb(t, [turn[t] EXCEPT !.used = e], e), bindings' = [bindings EXCEPT ![Tool] = e]
        PROVE  Goal
    <3> USE <2>5
    <3> DEFINE g == [turn[t] EXCEPT !.used = e]
    <3>1. /\ e \in Someone /\ e # Off
          /\ bindings[Tool] \in Engines!Open => e = bindings[Tool]
          /\ bindings[Tool] \notin Engines!Open /\ scope[t] # Off => e = scope[t]
      BY Found
    <3>2. /\ g \in Turns /\ g.at = "body" /\ g.engine = turn[t].engine /\ g.used = e
          /\ g.disturbed = turn[t].disturbed
      BY <2>3, <3>1
    <3>3. Engines!Disturb(t, g, e) OBVIOUS
    <3> HIDE DEF g
    <3>4. turn'[t] = g BY <3>1, <3>2, <3>3, TurnDisturbs
    <3>5. bindings' \in [Agents \cup {Tool} -> Someone] /\ bindings'[Tool] = e
      BY <1>0, <3>1
    <3>6. Off \notin Engines!Open BY OffAssumption DEF Engines!Open
    <3>7. ~turn[t].disturbed => e = turn[t].engine
      BY <2>1, <3>1, <3>6 DEF InTheTool, Reachable
    <3>8. Kept(t)
      BY <2>1, <2>2, <3>1, <3>2, <3>4, <3>5, <3>7 DEF Bearing, Undisturbed, InTheTool, Reachable
    <3>9. QED BY <1>0, <1>8, <2>1, <3>1, <3>2, <3>3, <3>5, <3>8
  <2>6. CASE Engines!Turn(t, Engines!Rest(turn[t].runs))
             /\ bindings' = IF Engines!Stale(Tool) THEN [bindings EXCEPT ![Tool] = Off] ELSE bindings
    <3> USE <2>6
    <3>1. /\ bindings' \in [Agents \cup {Tool} -> Someone]
          /\ \/ bindings'[Tool] = bindings[Tool]
             \/ bindings'[Tool] = Off /\ bindings[Tool] \notin Engines!Open
      BY <1>0 DEF Engines!Stale
    <3>2. QED BY <1>7, <2>1, <3>1
  <2>7. CASE adapter = "bound" BY <2>5, <2>6, <2>7 DEF Engines!Call
  <2>8. QED BY <1>0, <2>4, <2>7
<1>15. ASSUME NEW t \in Actors, Engines!EndRun(t) PROVE Goal
  BY <1>0, <1>7, <1>15 DEF Engines!EndRun
<1>16. CASE UNCHANGED engines
  BY <1>16 DEF engines, EngineTypes, EngineInv, Bearing, Undisturbed, Reachable, InTheTool, Engines!Open
<1>17. QED
  BY <1>1, <1>2, <1>4, <1>5, <1>9, <1>10, <1>11, <1>12, <1>13, <1>14, <1>15, <1>16
  DEF Engines!Next

-----------------------------------------------------------------------------
(* Guards: one thread at a time looks at a boundary and patches it, and    *)
(* every framework that is due is guarded or somebody's to guard.          *)
Stmts == [at : {"still", "loading", "rearm", "install", "patch", "mark", "watch"},
          name : Frameworks \cup {Installs!None}, part : BOOLEAN, hooked : BOOLEAN,
          todo : SUBSET Frameworks, seen : SUBSET Installs!Adapters, found : BOOLEAN, imports : Nat]

InstallTypes ==
  /\ clients.live \in Nat /\ clients \in [live : Nat, built : Nat]
  /\ loaded \subseteq Frameworks /\ marked \subseteq Frameworks /\ due \subseteq loaded
  /\ guards \in [Installs!Adapters -> {0, 1}] /\ watching \in BOOLEAN
  /\ stmt \in [Actors -> Stmts]

Here(t) == Adapter[Installs!First(stmt[t].todo)]

Held(t) ==
  /\ stmt[t].at = "patch" => (stmt[t].found <=> guards[Here(t)] > 0)
  /\ stmt[t].at \in {"patch", "mark"} => Installs!First(stmt[t].todo) \in Frameworks
  /\ stmt[t].at = "mark" => guards[Here(t)] > 0
  /\ \A a \in stmt[t].seen : guards[a] > 0 \/ (stmt[t].at = "patch" /\ a = Here(t))

Holding ==
  \A t \in Actors : (stmt[t].at \in {"patch", "mark"} <=> installing = t) /\ Held(t)

Hooking ==
  /\ \A t \in Actors : /\ stmt[t].hooked => watching
                       /\ stmt[t].at = "rearm" => stmt[t].hooked /\ stmt[t].name \in loaded
                       /\ stmt[t].at = "loading" => stmt[t].name \in Frameworks
  /\ due # {} => watching
  /\ \A n \in due : ~Installs!Unhooked(n)

\* Thread t has yet to come to the framework n.
Comes(t, n) ==
  \/ stmt[t].at \in {"install", "patch", "mark"} /\ n \in stmt[t].todo
  \/ stmt[t].at \in {"loading", "rearm"} /\ stmt[t].name = n

Covered ==
  /\ \A n \in marked : guards[Adapter[n]] > 0
  /\ clients.live > 0 => \A n \in due : guards[Adapter[n]] > 0 \/ \E t \in Actors : Comes(t, n)

InstallInv == Holding /\ Hooking /\ Covered

LEMMA InstallStart == ASSUME Installs!Init PROVE InstallTypes /\ InstallInv
<1> USE DEF Installs!Init, Installs!Still
<1>1. InstallTypes BY DEF InstallTypes, Stmts
<1>2. Holding BY OffAssumption DEF Holding, Held
<1>3. Hooking BY DEF Hooking
<1>4. Covered BY DEF Covered
<1>5. QED BY <1>1, <1>2, <1>3, <1>4 DEF InstallInv

LEMMA StmtMoves ==
  ASSUME InstallTypes, NEW t \in Actors, NEW s \in Stmts, Installs!Do(t, s)
  PROVE  /\ stmt' \in [Actors -> Stmts] /\ stmt'[t] = s
         /\ \A u \in Actors \ {t} : stmt'[u] = stmt[u]
BY DEF InstallTypes, Installs!Do

(* A statement goes on to another place and keeps all it holds. *)
LEMMA StmtAt ==
  ASSUME NEW r \in Stmts, NEW p \in {"still", "loading", "rearm", "install", "patch", "mark", "watch"}
  PROVE  LET s == [r EXCEPT !.at = p]
         IN  /\ s \in Stmts /\ s.at = p /\ s.name = r.name /\ s.hooked = r.hooked
             /\ s.todo = r.todo /\ s.seen = r.seen /\ s.found = r.found
BY DEF Stmts

LEMMA StillRecord ==
  ASSUME NEW k \in Nat
  PROVE  LET s == Installs!Still(k)
         IN s \in Stmts /\ s.at = "still" /\ ~s.hooked /\ s.seen = {} /\ s.todo = {}
BY DEF Installs!Still, Stmts

(* The lock passes from one thread to nobody or back, and nothing another  *)
(* thread has looked at changes.                                           *)
LEMMA HoldKeeps ==
  ASSUME InstallTypes, Holding, NEW t \in Actors, NEW s \in Stmts, Installs!Do(t, s), guards' = guards,
         installing' = installing \/ {installing, installing'} \subseteq {Off, t},
         s.at \in {"patch", "mark"} <=> installing' = t,
         Held(t)'
  PROVE  Holding'
<1>1. /\ stmt'[t] = s /\ \A u \in Actors \ {t} : stmt'[u] = stmt[u]
  BY StmtMoves
<1>2. ASSUME NEW u \in Actors \ {t}
      PROVE  (stmt'[u].at \in {"patch", "mark"} <=> installing' = u) /\ Held(u)'
  <2>1. stmt'[u] = stmt[u] BY <1>1
  <2>2. installing' = u <=> installing = u BY OffAssumption
  <2>3. Held(u) /\ (stmt[u].at \in {"patch", "mark"} <=> installing = u) BY DEF Holding
  <2>4. Held(u)' BY <2>1, <2>3 DEF Held, Here
  <2>5. QED BY <2>1, <2>2, <2>3, <2>4
<1>3. QED BY <1>1, <1>2 DEF Holding

LEMMA HookKeeps ==
  ASSUME InstallTypes, Hooking, NEW t \in Actors, NEW s \in Stmts, Installs!Do(t, s),
         watching => watching', loaded \subseteq loaded', due' = due,
         s.hooked => watching',
         s.at = "rearm" => s.hooked /\ s.name \in loaded',
         s.at = "loading" => s.name \in Frameworks /\ (due # {} => s.hooked)
  PROVE  Hooking'
<1>1. stmt'[t] = s /\ \A u \in Actors \ {t} : stmt'[u] = stmt[u] BY StmtMoves
<1>2. /\ \A u \in Actors : /\ stmt'[u].hooked => watching'
                           /\ stmt'[u].at = "rearm" => stmt'[u].hooked /\ stmt'[u].name \in loaded'
                           /\ stmt'[u].at = "loading" => stmt'[u].name \in Frameworks
  BY <1>1 DEF Hooking
<1>3. due' # {} => watching' BY DEF Hooking
<1>4. \A n \in due' : ~Installs!Unhooked(n)'
  BY <1>1 DEF Hooking, Installs!Unhooked, Installs!At
<1>5. QED BY <1>2, <1>3, <1>4 DEF Hooking

(* What is due stays covered if the thread that steps leaves none of its   *)
(* frameworks behind.                                                      *)
LEMMA CoverKeeps ==
  ASSUME InstallTypes, Covered, NEW t \in Actors, NEW s \in Stmts, Installs!Do(t, s),
         \A a \in Installs!Adapters : guards[a] > 0 => guards'[a] > 0,
         \A n \in marked' : guards'[Adapter[n]] > 0,
         due' = due, clients'.live > 0 => clients.live > 0,
         clients'.live > 0 => \A n \in due : Comes(t, n) =>
            guards'[Adapter[n]] > 0 \/ Comes(t, n)' \/ \E u \in Actors \ {t} : Comes(u, n)
  PROVE  Covered'
<1>1. \A u \in Actors \ {t} : stmt'[u] = stmt[u] BY StmtMoves
<1>2. \A u \in Actors \ {t} : \A n \in Frameworks : Comes(u, n)' <=> Comes(u, n) BY <1>1 DEF Comes
<1>3. ASSUME clients'.live > 0, NEW n \in due'
      PROVE  guards'[Adapter[n]] > 0 \/ \E u \in Actors : Comes(u, n)'
  <2> USE <1>3
  <2>1. n \in Frameworks /\ Adapter[n] \in Installs!Adapters BY DEF InstallTypes, Installs!Adapters
  <2>2. guards[Adapter[n]] > 0 \/ \E u \in Actors : Comes(u, n) BY DEF Covered
  <2>3. CASE guards[Adapter[n]] > 0 BY <2>1, <2>3
  <2>4. ASSUME NEW u \in Actors \ {t}, Comes(u, n) PROVE \E v \in Actors : Comes(v, n)'
    BY <1>2, <2>1, <2>4
  <2>5. CASE Comes(t, n) BY <2>4, <2>5
  <2>6. QED BY <2>2, <2>3, <2>4, <2>5
<1>4. QED BY <1>3 DEF Covered

LEMMA InstallStep ==
  ASSUME InstallTypes, InstallInv, [Installs!Next]_installs PROVE InstallTypes' /\ InstallInv'
<1> DEFINE Goal == InstallTypes' /\ InstallInv'
<1> USE DEF Installs!At
<1>0. /\ Holding /\ Hooking /\ Covered /\ due \subseteq loaded /\ loaded \subseteq Frameworks
      /\ \A t \in Actors : /\ stmt[t] \in Stmts /\ Held(t) /\ t # Off
                           /\ stmt[t].imports \in Nat /\ stmt[t].name \in Frameworks \cup {Installs!None}
                           /\ stmt[t].todo \subseteq Frameworks
  BY OffAssumption DEF InstallInv, InstallTypes, Holding, Stmts
<1> USE <1>0
<1>1. ASSUME NEW t \in Actors, Installs!Build(t) PROVE Goal
  <2> DEFINE s == [stmt[t] EXCEPT !.at = "install", !.todo = Frameworks]
  <2>1. /\ Installs!Do(t, s) /\ stmt[t].at = "still"
        /\ UNCHANGED <<loaded, guards, marked, watching, installing, due>>
        /\ clients' = [live |-> clients.live + 1, built |-> clients.built + 1]
    BY <1>1 DEF Installs!Build
  <2> USE <2>1
  <2>2. /\ s \in Stmts /\ s.at = "install" /\ s.todo = Frameworks /\ s.seen = stmt[t].seen
        /\ s.hooked = stmt[t].hooked
    BY DEF Stmts
  <2> USE <2>2
  <2> HIDE DEF s
  <2>3. stmt' \in [Actors -> Stmts] /\ stmt'[t] = s BY StmtMoves
  <2> USE <2>3
  <2>4. InstallTypes' BY DEF InstallTypes
  <2>5. Held(t)' BY DEF Held
  <2>6. Holding' BY <2>5, HoldKeeps DEF Holding
  <2>7. Hooking'
    <3>1. s.hooked => watching' BY DEF Hooking
    <3>2. QED BY <3>1, HookKeeps
  <2>8. Covered' BY DEF Covered, Comes
  <2>9. QED BY <2>4, <2>6, <2>7, <2>8 DEF InstallInv
<1>2. CASE Installs!CloseOne
  <2>1. /\ UNCHANGED <<loaded, guards, marked, watching, installing, stmt, due>>
        /\ clients' \in [live : Nat, built : Nat] /\ clients'.live \in Nat
        /\ clients'.live > 0 => clients.live > 0
    BY <1>2 DEF Installs!CloseOne, InstallTypes
  <2> USE <2>1
  <2>2. InstallTypes' BY DEF InstallTypes
  <2>3. Holding' BY DEF Holding, Held, Here
  <2>4. Hooking' BY DEF Hooking, Installs!Unhooked
  <2>5. Covered' BY DEF Covered, Comes
  <2>6. QED BY <2>2, <2>3, <2>4, <2>5 DEF InstallInv
<1>3. ASSUME NEW t \in Actors, NEW n \in Frameworks, Installs!Import(t, n) PROVE Goal
  <2> DEFINE p == n \in loaded
             k == stmt[t].imports + 1
             s == [Installs!Still(k) EXCEPT !.at = "loading", !.name = n, !.part = p, !.hooked = watching]
  <2>1. /\ Installs!Do(t, s) /\ stmt[t].at = "still"
        /\ UNCHANGED <<clients, loaded, guards, marked, watching, installing, due>>
    BY <1>3 DEF Installs!Import
  <2> USE <2>1
  <2>2. k \in Nat /\ p \in BOOLEAN /\ watching \in BOOLEAN BY DEF InstallTypes
  <2> HIDE DEF k, p
  <2>3. s \in Stmts /\ s.at = "loading" /\ s.name = n /\ s.seen = {} /\ s.hooked = watching
    BY <2>2 DEF Installs!Still, Stmts
  <2> USE <2>3
  <2> HIDE DEF s
  <2>4. stmt' \in [Actors -> Stmts] /\ stmt'[t] = s BY StmtMoves
  <2>5. InstallTypes' BY <2>4 DEF InstallTypes
  <2>6. Held(t)' BY <2>4 DEF Held
  <2>7. Holding' BY <2>6, HoldKeeps DEF Holding
  <2>8. due # {} => s.hooked BY DEF Hooking
  <2>9. Hooking' BY <2>8, HookKeeps
  <2>10. \A m \in due : ~Comes(t, m) BY DEF Comes
  <2>11. \A m \in marked' : guards'[Adapter[m]] > 0 BY DEF Covered
  <2>12. Covered' BY <2>10, <2>11, CoverKeeps
  <2>13. QED BY <2>5, <2>7, <2>9, <2>12 DEF InstallInv
<1>4. ASSUME NEW t \in Actors, Installs!Loaded(t) PROVE Goal
  <2> USE <1>4
  <2>1. /\ stmt[t].at = "loading" /\ loaded' = loaded \cup {stmt[t].name} /\ stmt[t].name \in Frameworks
        /\ UNCHANGED <<clients, guards, marked, watching, installing, due>>
    BY DEF Installs!Loaded, Hooking
  <2> USE <2>1
  <2>2. ASSUME NEW s \in Stmts, Installs!Do(t, s),
               \/ s.at = "still"
               \/ s.at = "rearm" /\ s.hooked /\ stmt[t].hooked /\ s.name = stmt[t].name,
               ~stmt[t].hooked <=> s.at = "still", s.hooked => stmt[t].hooked,
               \A a \in s.seen : a \in stmt[t].seen
        PROVE  Goal
    <3> USE <2>2
    <3>1. stmt' \in [Actors -> Stmts] /\ stmt'[t] = s BY StmtMoves
    <3> USE <3>1
    <3>2. InstallTypes' BY DEF InstallTypes
    <3>3. Held(t)' BY DEF Held
    <3>4. Holding' BY <3>3, HoldKeeps DEF Holding
    <3>5. s.hooked => watching' BY DEF Hooking
    <3>6. Hooking' BY <3>5, HookKeeps
    <3>7. \A m \in due : Comes(t, m) => Comes(t, m)'
      <4> TAKE m \in due
      <4>1. stmt[t].name = m => stmt[t].hooked BY DEF Hooking, Installs!Unhooked
      <4>2. QED BY <4>1 DEF Comes
    <3>8. \A m \in marked' : guards'[Adapter[m]] > 0 BY DEF Covered
    <3>9. Covered' BY <3>7, <3>8, CoverKeeps
    <3>10. QED BY <3>2, <3>4, <3>6, <3>9 DEF InstallInv
  <2>3. CASE stmt[t].hooked
    <3> USE <2>3
    <3> DEFINE s == [stmt[t] EXCEPT !.at = "rearm"]
    <3>1. Installs!Do(t, s) BY DEF Installs!Loaded, Installs!Goto
    <3>2. /\ s \in Stmts /\ s.at = "rearm" /\ s.name = stmt[t].name /\ s.hooked = stmt[t].hooked
          /\ s.seen = stmt[t].seen
      BY StmtAt
    <3> HIDE DEF s
    <3>3. QED BY <2>2, <3>1, <3>2
  <2>4. CASE ~stmt[t].hooked
    <3> USE <2>4
    <3> DEFINE s == Installs!Still(stmt[t].imports)
    <3>1. Installs!Do(t, s) BY DEF Installs!Loaded
    <3>2. s \in Stmts /\ s.at = "still" /\ ~s.hooked /\ s.seen = {} BY StillRecord
    <3> HIDE DEF s
    <3>3. QED BY <2>2, <3>1, <3>2
  <2>5. QED BY <2>3, <2>4
<1>5. ASSUME NEW t \in Actors, Installs!Rearm(t) PROVE Goal
  <2> USE <1>5
  <2> DEFINE n == stmt[t].name
  <2>1. /\ stmt[t].at = "rearm" /\ n \in loaded /\ n \in Frameworks /\ watching
        /\ UNCHANGED <<clients, loaded, guards, marked, watching, installing>>
        /\ due' = due \/ (due' = due \cup {n} /\ ~Installs!Unhooked(n))
        /\ installing # t
    BY DEF Installs!Rearm, Hooking, Holding
  <2> USE <2>1
  <2> HIDE DEF n
  <2>2. ASSUME NEW s \in Stmts, Installs!Do(t, s), s.at \in {"still", "install"},
               s.hooked => stmt[t].hooked, \A a \in s.seen : a \in stmt[t].seen,
               \/ s.at = "install" /\ s.todo = Frameworks
               \/ clients.live = 0 \/ n \in marked
        PROVE  Goal
    <3> USE <2>2
    <3>1. /\ stmt' \in [Actors -> Stmts] /\ stmt'[t] = s
          /\ \A u \in Actors \ {t} : stmt'[u] = stmt[u]
      BY StmtMoves
    <3> USE <3>1
    <3>2. InstallTypes' BY DEF InstallTypes
    <3>3. Held(t)' BY DEF Held
    <3>4. Holding' BY <3>3, HoldKeeps
    <3>5. Hooking'
      <4>1. \A u \in Actors : /\ stmt'[u].hooked => watching'
                              /\ stmt'[u].at = "rearm" => stmt'[u].hooked /\ stmt'[u].name \in loaded'
                              /\ stmt'[u].at = "loading" => stmt'[u].name \in Frameworks
        BY DEF Hooking
      <4>2. \A m \in due' : ~Installs!Unhooked(m) BY DEF Hooking
      <4>3. \A m \in due' : ~Installs!Unhooked(m)' BY <4>2 DEF Installs!Unhooked
      <4>4. QED BY <4>1, <4>3 DEF Hooking
    <3>6. ASSUME clients'.live > 0, NEW m \in due'
          PROVE  guards'[Adapter[m]] > 0 \/ \E u \in Actors : Comes(u, m)'
      <4>1. clients.live > 0 /\ m \in Frameworks /\ (m = n \/ m \in due) BY <3>6
      <4> USE <4>1
      <4>2. CASE s.at = "install" /\ s.todo = Frameworks BY <4>2 DEF Comes
      <4>3. CASE n \in marked
        <5>1. CASE m = n BY <4>3, <5>1 DEF Covered
        <5>2. CASE m # n
          <6> USE <5>2
          <6>1. ~Comes(t, m) BY DEF Comes, n
          <6>2. guards[Adapter[m]] > 0 \/ \E u \in Actors \ {t} : Comes(u, m)
            BY <6>1 DEF Covered
          <6>3. QED BY <6>2 DEF Comes
        <5>3. QED BY <5>1, <5>2
      <4>4. QED BY <4>2, <4>3
    <3>7. Covered' BY <3>6 DEF Covered
    <3>8. QED BY <3>2, <3>4, <3>5, <3>7 DEF InstallInv
  <2>3. CASE clients.live = 0 \/ n \in marked
    <3> USE <2>3
    <3> DEFINE s == Installs!Still(stmt[t].imports)
    <3>1. Installs!Do(t, s) BY DEF Installs!Rearm, n
    <3>2. s \in Stmts /\ s.at = "still" /\ ~s.hooked /\ s.seen = {} BY StillRecord
    <3> HIDE DEF s
    <3>3. QED BY <2>2, <3>1, <3>2
  <2>4. CASE ~(clients.live = 0 \/ n \in marked)
    <3> DEFINE s == [stmt[t] EXCEPT !.at = "install", !.todo = Frameworks]
    <3>1. Installs!Do(t, s) BY <2>4 DEF Installs!Rearm, n
    <3>2. /\ s \in Stmts /\ s.at = "install" /\ s.todo = Frameworks /\ s.seen = stmt[t].seen
          /\ s.hooked = stmt[t].hooked
      BY DEF Stmts
    <3> HIDE DEF s
    <3>3. QED BY <2>2, <3>1, <3>2
  <2>5. QED BY <2>3, <2>4
<1>6. ASSUME NEW t \in Actors, Installs!Examine(t) PROVE Goal
  <2> USE <1>6
  <2> DEFINE n == Installs!First(stmt[t].todo)
  <2>1. /\ stmt[t].at = "install" /\ UNCHANGED <<clients, loaded, guards, marked, watching, due>>
        /\ \A a \in stmt[t].seen : guards[a] > 0
        /\ installing # t
        /\ \A m \in marked' : guards'[Adapter[m]] > 0
        /\ stmt[t].hooked => watching'
    BY DEF Installs!Examine, Held, Holding, Covered, Hooking
  <2> USE <2>1
  <2>2. CASE /\ n \notin loaded \/ Adapter[n] \in stmt[t].seen \/ n \in marked \/ Installs!Initialising(n)
             /\ Installs!Do(t, [stmt[t] EXCEPT !.todo = @ \ {n}]) /\ UNCHANGED installing
    <3> USE <2>2
    <3> DEFINE s == [stmt[t] EXCEPT !.todo = @ \ {n}]
    <3> HIDE DEF n
    <3>1. /\ s \in Stmts /\ s.at = "install" /\ s.todo = stmt[t].todo \ {n} /\ s.seen = stmt[t].seen
          /\ s.hooked = stmt[t].hooked /\ Installs!Do(t, s)
      BY DEF Stmts
    <3> USE <3>1
    <3> HIDE DEF s
    <3>2. stmt' \in [Actors -> Stmts] /\ stmt'[t] = s BY StmtMoves
    <3> USE <3>2
    <3>3. InstallTypes' BY DEF InstallTypes
    <3>4. Held(t)' BY DEF Held
    <3>5. Holding' BY <3>4, HoldKeeps
    <3>6. Hooking' BY HookKeeps
    <3>7. ASSUME NEW m \in due, Comes(t, m)
          PROVE  guards'[Adapter[m]] > 0 \/ Comes(t, m)' \/ \E u \in Actors \ {t} : Comes(u, m)
      <4>1. m \in stmt[t].todo BY <3>7 DEF Comes
      <4>2. CASE m # n BY <4>1, <4>2 DEF Comes
      <4>3. CASE m = n
        <5> USE <4>3
        <5>1. m \in loaded OBVIOUS
        <5>2. CASE Adapter[n] \in stmt[t].seen \/ n \in marked BY <5>2 DEF Covered
        <5>3. CASE Installs!Initialising(n)
          BY <5>3 DEF Installs!Initialising, Comes
        <5>4. QED BY <5>1, <5>2, <5>3 DEF n
      <4>4. QED BY <4>2, <4>3
    <3>8. Covered' BY <3>7, CoverKeeps
    <3>9. QED BY <3>3, <3>5, <3>6, <3>8 DEF InstallInv
  <2>3. CASE /\ n \in loaded /\ installing = Off /\ installing' = t
             /\ Installs!Do(t, [stmt[t] EXCEPT !.at = "patch", !.seen = @ \cup {Adapter[n]},
                                  !.found = Installs!Guarded(Adapter[n])])
    <3> USE <2>3
    <3> DEFINE f == guards[Adapter[n]] > 0
               s == [stmt[t] EXCEPT !.at = "patch", !.seen = @ \cup {Adapter[n]}, !.found = f]
    <3>1. Installs!Do(t, s) BY DEF Installs!Guarded
    <3> USE <3>1
    <3>2. n \in Frameworks /\ Adapter[n] \in Installs!Adapters /\ f \in BOOLEAN
      BY DEF Installs!Adapters
    <3> HIDE DEF n, f
    <3>3. /\ s \in Stmts /\ s.at = "patch" /\ s.todo = stmt[t].todo /\ s.hooked = stmt[t].hooked
          /\ s.seen = stmt[t].seen \cup {Adapter[n]} /\ s.found = f
      BY <3>2 DEF Stmts
    <3> USE <3>3
    <3> HIDE DEF s
    <3>4. stmt' \in [Actors -> Stmts] /\ stmt'[t] = s BY StmtMoves
    <3> USE <3>4
    <3>5. Here(t)' = Adapter[n] /\ Installs!First(stmt'[t].todo) = n BY DEF Here, n
    <3>6. InstallTypes' BY DEF InstallTypes
    <3>7. Held(t)' BY <3>2, <3>5, ZenonT(40) DEF Held, f
    <3>8. Holding' BY <3>7, HoldKeeps
    <3>9. Hooking' BY HookKeeps
    <3>10. \A m \in due : Comes(t, m) => Comes(t, m)' BY DEF Comes
    <3>11. Covered' BY <3>10, CoverKeeps
    <3>12. QED BY <3>6, <3>8, <3>9, <3>11 DEF InstallInv
  <2>4. QED BY <2>2, <2>3 DEF Installs!Examine
<1>7. ASSUME NEW t \in Actors, Installs!Patch(t) PROVE Goal
  <2> DEFINE a == Here(t)
             s == [stmt[t] EXCEPT !.at = "mark"]
  <2>1. /\ stmt[t].at = "patch" /\ Installs!Do(t, s) /\ installing = t
        /\ UNCHANGED <<clients, loaded, marked, watching, installing, due>>
        /\ guards' = IF stmt[t].found THEN guards ELSE [guards EXCEPT ![a] = @ + 1]
    BY <1>7 DEF Installs!Patch, Installs!Goto, Here, Holding
  <2> USE <2>1
  <2>2. /\ s \in Stmts /\ s.at = "mark" /\ s.todo = stmt[t].todo /\ s.seen = stmt[t].seen
        /\ s.hooked = stmt[t].hooked
    BY StmtAt
  <2> USE <2>2
  <2>3. /\ Installs!First(stmt[t].todo) \in Frameworks /\ (stmt[t].found <=> guards[a] > 0)
        /\ guards \in [Installs!Adapters -> {0, 1}]
        /\ \A b \in stmt[t].seen : guards[b] > 0 \/ b = a
    BY DEF Held, InstallTypes
  <2> USE <2>3
  <2>4. a \in Installs!Adapters BY DEF Here, Installs!Adapters
  <2> USE <2>4
  <2> HIDE DEF a, s
  <2>5. /\ guards' \in [Installs!Adapters -> {0, 1}] /\ guards'[a] > 0
        /\ \A b \in Installs!Adapters : guards[b] > 0 => guards'[b] > 0
    <3>1. CASE stmt[t].found BY <3>1
    <3>2. CASE ~stmt[t].found
      <4> USE <3>2
      <4>1. guards[a] = 0 OBVIOUS
      <4>2. guards' = [guards EXCEPT ![a] = 1] BY <4>1
      <4>3. QED BY <4>2
    <3>3. QED BY <3>1, <3>2
  <2> USE <2>5
  <2>6. /\ stmt' \in [Actors -> Stmts] /\ stmt'[t] = s
        /\ \A u \in Actors \ {t} : stmt'[u] = stmt[u]
    BY StmtMoves
  <2> USE <2>6
  <2>7. InstallTypes' BY DEF InstallTypes
  <2>8. Here(t)' = a BY DEF Here, a
  <2>9. \A u \in Actors : stmt[u].seen \subseteq Installs!Adapters BY DEF Stmts
  <2>10. Held(t)'
    BY <2>8, <2>9 DEF Held
  <2>11. ASSUME NEW u \in Actors \ {t}
         PROVE (stmt'[u].at \in {"patch", "mark"} <=> installing' = u) /\ Held(u)'
    <3>1. stmt[u].at \notin {"patch", "mark"} /\ stmt'[u] = stmt[u] BY DEF Holding
    <3>2. \A b \in stmt[u].seen : guards'[b] > 0 BY <2>9, <3>1 DEF Held
    <3>3. QED BY <3>1, <3>2 DEF Held
  <2>12. Holding' BY <2>10, <2>11 DEF Holding
  <2>13. Hooking'
    <3>1. s.hooked => watching' BY DEF Hooking
    <3>2. QED BY <3>1, HookKeeps
  <2>14. \A m \in due : Comes(t, m) => Comes(t, m)' BY DEF Comes
  <2>15. \A m \in marked' : guards'[Adapter[m]] > 0
    <3> TAKE m \in marked'
    <3>1. guards[Adapter[m]] > 0 /\ m \in Frameworks BY DEF Covered, InstallTypes
    <3>2. Adapter[m] \in Installs!Adapters BY <3>1 DEF Installs!Adapters
    <3>3. QED BY <3>1, <3>2
  <2>16. Covered' BY <2>14, <2>15, CoverKeeps
  <2>17. QED BY <2>7, <2>12, <2>13, <2>16 DEF InstallInv
<1>8. ASSUME NEW t \in Actors, Installs!Mark(t) PROVE Goal
  <2> DEFINE n == Installs!First(stmt[t].todo)
             s == [stmt[t] EXCEPT !.at = "install", !.todo = @ \ {n}]
  <2>1. /\ stmt[t].at = "mark" /\ Installs!Do(t, s) /\ installing = t /\ installing' = Off
        /\ UNCHANGED <<clients, loaded, guards, watching, due>> /\ marked' = marked \cup {n}
    BY <1>8 DEF Installs!Mark, Holding
  <2> USE <2>1
  <2>2. n \in Frameworks /\ guards[Adapter[n]] > 0 /\ \A a \in stmt[t].seen : guards[a] > 0
    BY DEF Held, Here
  <2> USE <2>2
  <2> HIDE DEF n
  <2>3. /\ s \in Stmts /\ s.at = "install" /\ s.todo = stmt[t].todo \ {n} /\ s.seen = stmt[t].seen
        /\ s.hooked = stmt[t].hooked
    BY DEF Stmts
  <2> USE <2>3
  <2> HIDE DEF s
  <2>4. stmt' \in [Actors -> Stmts] /\ stmt'[t] = s BY StmtMoves
  <2> USE <2>4
  <2>5. InstallTypes' BY DEF InstallTypes
  <2>6. Held(t)' BY DEF Held
  <2>7. Holding' BY <2>6, HoldKeeps
  <2>8. Hooking'
    <3>1. s.hooked => watching' BY DEF Hooking
    <3>2. QED BY <3>1, HookKeeps
  <2>9. \A m \in marked' : guards'[Adapter[m]] > 0 BY DEF Covered
  <2>10. \A m \in due : Comes(t, m) => guards'[Adapter[m]] > 0 \/ Comes(t, m)'
    BY DEF Comes
  <2>11. Covered' BY <2>9, <2>10, CoverKeeps
  <2>12. QED BY <2>5, <2>7, <2>8, <2>11 DEF InstallInv
<1>9. ASSUME NEW t \in Actors, NEW s \in Stmts, Installs!Do(t, s), s.at \in {"still", "watch"},
             stmt[t].at \in {"install", "watch"}, stmt[t].at = "install" => stmt[t].todo = {},
             UNCHANGED <<clients, loaded, guards, marked, installing, due>>,
             watching' \in BOOLEAN, watching => watching', s.hooked => stmt[t].hooked,
             \A a \in s.seen : a \in stmt[t].seen
      PROVE  Goal
  <2> USE <1>9
  <2>1. stmt' \in [Actors -> Stmts] /\ stmt'[t] = s BY StmtMoves
  <2>2. InstallTypes' BY <2>1 DEF InstallTypes
  <2>3. Held(t)' BY <2>1 DEF Held
  <2>4. Holding' BY <2>3, HoldKeeps DEF Holding
  <2>5. s.hooked => watching' BY DEF Hooking
  <2>6. Hooking' BY <2>5, HookKeeps
  <2>7. \A m \in due : ~Comes(t, m) BY DEF Comes
  <2>8. \A m \in marked' : guards'[Adapter[m]] > 0 BY DEF Covered
  <2>9. Covered' BY <2>7, <2>8, CoverKeeps
  <2>10. QED BY <2>2, <2>4, <2>6, <2>9 DEF InstallInv
<1>10. ASSUME NEW t \in Actors, Installs!Installed(t) PROVE Goal
  <2> DEFINE s == [stmt[t] EXCEPT !.at = "watch"]
  <2>1. /\ Installs!Do(t, s) /\ stmt[t].at = "install" /\ stmt[t].todo = {}
        /\ UNCHANGED <<clients, loaded, guards, marked, watching, installing, due>>
    BY <1>10 DEF Installs!Installed, Installs!Goto
  <2>2. s \in Stmts /\ s.at = "watch" /\ s.hooked = stmt[t].hooked /\ s.seen = stmt[t].seen
    BY StmtAt
  <2> HIDE DEF s
  <2>3. QED BY <1>9, <2>1, <2>2 DEF InstallTypes
<1>11. ASSUME NEW t \in Actors, Installs!Watch(t) PROVE Goal
  <2> DEFINE s == Installs!Still(stmt[t].imports)
  <2>1. /\ Installs!Do(t, s) /\ stmt[t].at = "watch" /\ watching' = TRUE
        /\ UNCHANGED <<clients, loaded, guards, marked, installing, due>>
    BY <1>11 DEF Installs!Watch
  <2>2. s \in Stmts /\ s.at = "still" /\ ~s.hooked /\ s.seen = {} BY StillRecord
  <2> HIDE DEF s
  <2>3. QED BY <1>9, <2>1, <2>2
<1>12. CASE UNCHANGED installs
  BY <1>12 DEF installs, InstallTypes, InstallInv, Holding, Held, Here, Hooking, Installs!Unhooked,
     Covered, Comes
<1>13. QED
  BY <1>1, <1>2, <1>3, <1>4, <1>5, <1>6, <1>7, <1>8, <1>10, <1>11, <1>12 DEF Installs!Next

LEMMA InstallPromise ==
  ASSUME InstallTypes, InstallInv PROVE Installs!GuardedOnce /\ Installs!QuietIsGuarded
<1>1. Installs!GuardedOnce BY DEF InstallTypes, Installs!GuardedOnce
<1>2. Installs!QuietIsGuarded
  <2>1. (\A t \in Actors : stmt[t].at = "still") => \A t \in Actors, n \in due : ~Comes(t, n)
    BY DEF Comes
  <2>2. QED BY <2>1 DEF InstallInv, Covered, Installs!QuietIsGuarded, Installs!At
<1>3. QED BY <1>1, <1>2

-----------------------------------------------------------------------------
(* Types: what the invariants above leave open.                            *)

\* The gate: what is sent and remembered are versions.
GateSees ==
  \A t \in Actors : /\ gate[t].at \in {"answer", "remember"} => gate[t].sent \in Versions
                    /\ gate[t].at \in {"send", "answer", "remember"} => gate[t].seen \in Versions
GateFlat ==
  /\ rebinds \in 0..MaxRebinds
  /\ named \in {"given", "server", "none"} /\ reported \subseteq Versions /\ torn \subseteq Versions
  /\ captured \in BOOLEAN /\ resting \in BOOLEAN /\ failure \in {"", "unnamed", "refused"}
  /\ lock \in Actors \cup {Off}

LEMMA GateFlatStart == ASSUME Gate!Init PROVE GateFlat /\ GateSees
<1>1. 0 \in 0..MaxRebinds BY BoundsAssumption
<1>2. GateFlat BY <1>1 DEF Gate!Init, GateFlat
<1>3. GateSees BY DEF Gate!Init, GateSees, Gate!Idle
<1>4. QED BY <1>2, <1>3

LEMMA GateFlatStep ==
  ASSUME GateTypes, GateFlat, GateSees, [Gate!Next]_capturing PROVE GateFlat' /\ GateSees'
<1> DEFINE Goal == GateFlat' /\ GateSees'
<1> USE DEF Gate!At, Gate!Set, Gate!Goto, Gate!Pass, Gate!capture
<1>0. /\ code \in Versions /\ DOMAIN gate = Actors
      /\ \A t \in Actors : gate[t] \in Gate!Gates
  BY DEF GateTypes
<1>1. ASSUME NEW t \in Actors, NEW g, gate' = [gate EXCEPT ![t] = g],
             g.at \in {"answer", "remember"} => g.sent \in Versions,
             g.at \in {"send", "answer", "remember"} => g.seen \in Versions
      PROVE  GateSees'
  BY <1>0, <1>1 DEF GateSees
<1>2. ASSUME NEW t \in Actors, NEW a \in {"lock", "refuse", "pass", "remember"}, Gate!Goto(t, a),
             a = "remember" => gate[t].at = "answer"
      PROVE  GateSees'
  <2> USE <1>2
  <2> DEFINE g == [gate[t] EXCEPT !.at = a]
  <2>1. gate' = [gate EXCEPT ![t] = g] OBVIOUS
  <2>2. g.at = a /\ g.sent = gate[t].sent /\ g.seen = gate[t].seen BY <1>0 DEF Gate!Gates
  <2> HIDE DEF g
  <2>3. QED BY <1>1, <2>1, <2>2 DEF GateSees
<1>3. ASSUME NEW t \in Actors, Gate!Pass(t) PROVE GateSees'
  <2> DEFINE g == [gate[t] EXCEPT !.at = "pass", !.seen = code]
  <2>1. gate' = [gate EXCEPT ![t] = g] BY <1>3
  <2>2. g.at = "pass" BY <1>0 DEF Gate!Gates
  <2> HIDE DEF g
  <2>3. QED BY <1>1, <2>1, <2>2
<1>4. ASSUME NEW t \in Actors, Gate!Enter(t) PROVE Goal
  <2> DEFINE g == [Gate!Idle EXCEPT !.at = "fast"]
  <2>1. gate' = [gate EXCEPT ![t] = g] /\ GateFlat' BY <1>4 DEF Gate!Enter, GateFlat
  <2>2. g.at = "fast" BY DEF Gate!Idle
  <2> HIDE DEF g
  <2>3. QED BY <1>1, <2>1, <2>2
<1>5. ASSUME NEW t \in Actors, Gate!LookFast(t) PROVE Goal
  <2> USE <1>5
  <2>1. GateFlat' BY DEF Gate!LookFast, GateFlat
  <2>2. CASE Gate!Pass(t) BY <1>3, <2>1, <2>2
  <2>3. CASE Gate!Goto(t, "refuse") \/ Gate!Goto(t, "lock") BY <1>2, <2>1, <2>3
  <2>4. CASE Gate!HasTool BY <2>2, <2>4 DEF Gate!LookFast
  <2>5. CASE ~Gate!HasTool /\ resting BY <2>3, <2>5 DEF Gate!LookFast
  <2>6. CASE ~Gate!HasTool /\ ~resting BY <2>3, <2>6 DEF Gate!LookFast
  <2>7. QED BY <2>4, <2>5, <2>6
<1>6. ASSUME NEW t \in Actors, Gate!LookLocked(t) PROVE Goal
  <2> USE <1>6
  <2>1. UNCHANGED <<rebinds, named, reported, captured, torn>> BY DEF Gate!LookLocked
  <2>2. CASE Gate!HasTool
    <3>1. Gate!Pass(t) /\ UNCHANGED <<resting, failure, lock>> BY <2>2 DEF Gate!LookLocked
    <3>2. QED BY <1>3, <2>1, <3>1 DEF GateFlat
  <2>3. CASE ~Gate!HasTool /\ resting
    <3>1. Gate!Goto(t, "refuse") /\ UNCHANGED <<resting, failure, lock>>
      BY <2>3 DEF Gate!LookLocked
    <3>2. QED BY <1>2, <2>1, <3>1 DEF GateFlat
  <2>4. CASE ~Gate!HasTool /\ ~resting /\ named = "none"
    <3>1. Gate!Goto(t, "refuse") /\ resting' = TRUE /\ failure' = "unnamed" /\ UNCHANGED lock
      BY <2>4 DEF Gate!LookLocked
    <3>2. QED BY <1>2, <2>1, <3>1 DEF GateFlat
  <2>5. CASE ~Gate!HasTool /\ ~resting /\ named # "none"
    <3> DEFINE g == [gate[t] EXCEPT !.at = "send", !.seen = code]
    <3>1. gate' = [gate EXCEPT ![t] = g] /\ lock' = t /\ UNCHANGED <<resting, failure>>
      BY <2>5 DEF Gate!LookLocked
    <3>2. g.at = "send" /\ g.seen = code BY <1>0 DEF Gate!Gates
    <3> HIDE DEF g
    <3>3. QED BY <1>0, <1>1, <2>1, <3>1, <3>2 DEF GateFlat
  <2>6. QED BY <2>2, <2>3, <2>4, <2>5
<1>7. ASSUME NEW t \in Actors, Gate!Send(t) PROVE Goal
  <2> DEFINE g == [gate[t] EXCEPT !.at = "answer", !.sent = code]
  <2>1. gate' = [gate EXCEPT ![t] = g] /\ gate[t].at = "send" /\ GateFlat'
    BY <1>7 DEF Gate!Send, GateFlat
  <2>2. g.at = "answer" /\ g.sent = code /\ g.seen = gate[t].seen BY <1>0 DEF Gate!Gates
  <2> HIDE DEF g
  <2>3. QED BY <1>0, <1>1, <2>1, <2>2 DEF GateSees
<1>8. ASSUME NEW t \in Actors, Gate!Acknowledged(t) PROVE Goal
  <2>1. /\ Gate!Goto(t, "remember") /\ gate[t].at = "answer"
        /\ reported' = reported \cup {gate[t].sent} /\ captured' = TRUE
        /\ UNCHANGED <<rebinds, named, resting, failure, lock, torn>>
    BY <1>8 DEF Gate!Acknowledged
  <2>2. gate[t].sent \in Versions BY <2>1 DEF GateSees
  <2>3. GateFlat' BY <2>1, <2>2 DEF GateFlat
  <2>4. QED BY <1>2, <2>1, <2>3
<1>9. ASSUME NEW t \in Actors, Gate!Refused(t) PROVE Goal
  <2> USE <1>9
  <2>1. UNCHANGED <<rebinds, named, reported, captured, torn>> /\ gate[t].at = "answer"
    BY DEF Gate!Refused
  <2>2. CASE Gate!Goto(t, "refuse") /\ resting' = TRUE /\ failure' = "refused" /\ lock' = Off
    BY <1>2, <2>1, <2>2 DEF GateFlat
  <2>3. CASE Gate!Set(t, [gate[t] EXCEPT !.proof = TRUE]) /\ UNCHANGED <<resting, failure, lock>>
    <3> USE <2>3
    <3> DEFINE g == [gate[t] EXCEPT !.proof = TRUE]
    <3>1. gate' = [gate EXCEPT ![t] = g] OBVIOUS
    <3>2. g.at = "answer" /\ g.sent = gate[t].sent /\ g.seen = gate[t].seen BY <1>0, <2>1 DEF Gate!Gates
    <3> HIDE DEF g
    <3>3. GateSees' BY <1>1, <2>1, <3>1, <3>2 DEF GateSees
    <3>4. QED BY <2>1, <3>3 DEF GateFlat
  <2>4. QED BY <2>2, <2>3 DEF Gate!Refused
<1>10. ASSUME NEW t \in Actors, Gate!Remember(t) PROVE Goal
  <2>1. /\ gate[t].at = "remember" /\ Gate!Goto(t, "pass")
        /\ failure' = "" /\ lock' = Off
        /\ torn' = torn \cup ({gate[t].seen} \ {gate[t].sent})
        /\ UNCHANGED <<rebinds, named, reported, captured, resting>>
    BY <1>10 DEF Gate!Remember
  <2>2. gate[t].seen \in Versions BY <2>1 DEF GateSees
  <2>3. GateFlat' BY <2>1, <2>2 DEF GateFlat
  <2>4. QED BY <1>2, <2>1, <2>3
<1>11. CASE Gate!Rebind
  <2> USE <1>11
  <2>1. rebinds \in 0..MaxRebinds /\ rebinds < MaxRebinds /\ rebinds' = rebinds + 1
    BY DEF Gate!Rebind, GateFlat
  <2>2. rebinds' \in 0..MaxRebinds BY <2>1, BoundsAssumption
  <2>3. QED BY <2>2 DEF Gate!Rebind, GateFlat, GateSees
<1>12. CASE Gate!RestEnds BY <1>12 DEF Gate!RestEnds, GateFlat, GateSees
<1>13. CASE UNCHANGED capturing BY <1>13 DEF capturing, GateFlat, GateSees
<1>14. QED
  BY <1>4, <1>5, <1>6, <1>7, <1>8, <1>9, <1>10, <1>11, <1>12, <1>13 DEF Gate!Next, Gate!Step

LEMMA GateWhole == GateTypes /\ GateFlat => Gate!TypeOK
BY DEF GateTypes, GateFlat, Gate!TypeOK

\* Engines: no thread runs more often than it may.
EngineRuns == \A t \in Actors : turn[t].runs \in 0..MaxRuns

LEMMA EngineRunsStart == ASSUME Engines!Init PROVE EngineRuns
BY BoundsAssumption DEF Engines!Init, Engines!Rest, EngineRuns

LEMMA EngineRunsStep ==
  ASSUME EngineTypes, EngineRuns, [Engines!Next]_engines PROVE EngineRuns'
<1>0. /\ DOMAIN turn = Actors /\ 0 \in 0..MaxRuns
      /\ \A t \in Actors : turn[t] \in Turns /\ turn[t].runs \in 0..MaxRuns
  BY BoundsAssumption DEF EngineTypes, EngineRuns
<1> USE <1>0
<1>1. ASSUME NEW t \in Actors, NEW g, Engines!Turn(t, g), g.runs \in 0..MaxRuns PROVE EngineRuns'
  BY <1>1 DEF Engines!Turn, EngineRuns
<1>2. ASSUME NEW t \in Actors, NEW g, NEW c, Engines!Disturb(t, g, c), g.runs \in 0..MaxRuns
      PROVE  EngineRuns'
  <2> USE <1>2
  <2>1. SUFFICES ASSUME NEW u \in Actors PROVE turn'[u].runs \in 0..MaxRuns BY DEF EngineRuns
  <2>2. CASE u = t BY <2>2 DEF Engines!Disturb
  <2>3. CASE u # t
    <3> DEFINE d == turn[u].disturbed \/ (c # Off /\ turn[u].engine # c)
    <3>1. turn'[u] = [turn[u] EXCEPT !.disturbed = d] BY <2>3 DEF Engines!Disturb
    <3> HIDE DEF d
    <3>2. [turn[u] EXCEPT !.disturbed = d].runs = turn[u].runs BY DEF Turns
    <3>3. QED BY <3>1, <3>2
  <2>4. QED BY <2>2, <2>3
<1>3. \A n : Engines!Rest(n).runs = n BY DEF Engines!Rest
<1>4. ASSUME NEW t \in Actors, Engines!Turn(t, Engines!Rest(turn[t].runs)) PROVE EngineRuns'
  BY <1>1, <1>3, <1>4
<1>5. ASSUME NEW t \in Actors, NEW a \in Agents, Engines!Run(t, a) PROVE EngineRuns'
  <2> USE <1>5
  <2> DEFINE n == turn[t].runs + 1
             g == [Engines!Rest(n) EXCEPT !.at = "resolve", !.agent = a]
  <2>1. Engines!Turn(t, g) BY DEF Engines!Run
  <2>2. n \in 0..MaxRuns
    <3>1. turn[t].runs \in 0..MaxRuns /\ turn[t].runs < MaxRuns BY DEF Engines!Run
    <3>2. QED BY <3>1, BoundsAssumption
  <2>3. g.runs = n BY DEF Engines!Rest
  <2> HIDE DEF g, n
  <2>4. QED BY <1>1, <2>1, <2>2, <2>3
<1>6. ASSUME NEW t \in Actors, Engines!Resolve(t) PROVE EngineRuns'
  <2>1. CASE Engines!Turn(t, Engines!Rest(turn[t].runs)) BY <1>4, <2>1
  <2>2. ASSUME NEW e, Engines!Turn(t, [turn[t] EXCEPT !.at = "bind", !.engine = e, !.disturbed = FALSE])
        PROVE  EngineRuns'
    <3> DEFINE g == [turn[t] EXCEPT !.at = "bind", !.engine = e, !.disturbed = FALSE]
    <3>1. g.runs = turn[t].runs BY DEF Turns
    <3>2. Engines!Turn(t, g) BY <2>2
    <3> HIDE DEF g
    <3>3. QED BY <1>1, <3>1, <3>2
  <2>3. QED BY <1>6, <2>1, <2>2 DEF Engines!Resolve
<1>7. ASSUME NEW t \in Actors, Engines!Bind(t) PROVE EngineRuns'
  <2>1. Engines!Disturb(t, Engines!Bound(t), turn[t].engine) BY <1>7 DEF Engines!Bind
  <2>2. Engines!Bound(t).runs = turn[t].runs BY DEF Engines!Bound, Turns
  <2>3. QED BY <1>2, <2>1, <2>2
<1>8. ASSUME NEW t \in Actors, NEW p, Engines!Turn(t, [turn[t] EXCEPT !.at = p]) PROVE EngineRuns'
  <2> DEFINE g == [turn[t] EXCEPT !.at = p]
  <2>1. g.runs = turn[t].runs BY DEF Turns
  <2>2. Engines!Turn(t, g) BY <1>8
  <2> HIDE DEF g
  <2>3. QED BY <1>1, <2>1, <2>2
<1>9. ASSUME NEW t \in Actors, Engines!CheckWrap(t) PROVE EngineRuns'
  <2> USE <1>9
  <2>1. CASE wrap = Off BY <1>8, <2>1 DEF Engines!CheckWrap
  <2>2. CASE wrap # Off /\ wrap = turn[t].engine BY <1>8, <2>2 DEF Engines!CheckWrap
  <2>3. CASE wrap # Off /\ wrap # turn[t].engine BY <1>4, <2>3 DEF Engines!CheckWrap
  <2>4. QED BY <2>1, <2>2, <2>3
<1>10. ASSUME NEW t \in Actors, Engines!SetWrap(t) PROVE EngineRuns'
  <2> DEFINE g == [turn[t] EXCEPT !.at = "body"]
  <2>1. Engines!Disturb(t, g, turn[t].engine) BY <1>10 DEF Engines!SetWrap
  <2>2. g.runs = turn[t].runs BY DEF Turns
  <2> HIDE DEF g
  <2>3. QED BY <1>2, <2>1, <2>2
<1>11. ASSUME NEW t \in Actors, Engines!Call(t) PROVE EngineRuns'
  <2>1. CASE Engines!Turn(t, Engines!Rest(turn[t].runs)) BY <1>4, <2>1
  <2>2. ASSUME NEW e, NEW c, Engines!Disturb(t, [turn[t] EXCEPT !.used = e], c) PROVE EngineRuns'
    <3> DEFINE g == [turn[t] EXCEPT !.used = e]
    <3>1. g.runs = turn[t].runs BY DEF Turns
    <3>2. Engines!Disturb(t, g, c) BY <2>2
    <3> HIDE DEF g
    <3>3. QED BY <1>2, <3>1, <3>2
  <2>3. QED BY <1>11, <2>1, <2>2 DEF Engines!Call
<1>12. ASSUME NEW t \in Actors, Engines!EndRun(t) PROVE EngineRuns'
  BY <1>4, <1>12 DEF Engines!EndRun
<1>13. ASSUME NEW c \in Clients, Engines!Close(c) PROVE EngineRuns'
  <2>1. SUFFICES ASSUME NEW u \in Actors PROVE turn'[u].runs \in 0..MaxRuns BY DEF EngineRuns
  <2> DEFINE d == turn[u].disturbed \/ turn[u].engine = c
  <2>2. turn'[u] = [turn[u] EXCEPT !.disturbed = d] BY <1>13 DEF Engines!Close
  <2> HIDE DEF d
  <2>3. [turn[u] EXCEPT !.disturbed = d].runs = turn[u].runs BY DEF Turns
  <2>4. QED BY <2>2, <2>3
<1>14. CASE UNCHANGED turn BY <1>14 DEF EngineRuns
<1>15. QED
  BY <1>5, <1>6, <1>7, <1>9, <1>10, <1>11, <1>12, <1>13, <1>14
  DEF Engines!Next, engines, Engines!Create, Engines!EnterScope, Engines!LeaveScope

LEMMA EngineWhole == EngineTypes /\ EngineRuns => Engines!TypeOK
<1>1. SUFFICES ASSUME EngineTypes, EngineRuns PROVE Engines!TypeOK OBVIOUS
<1>2. turn \in [Actors -> [at : {"rest", "resolve", "bind", "wrap", "wrapping", "body"},
                           agent : Agents \cup {Off}, engine : Engines!Someone, used : Engines!Someone,
                           disturbed : BOOLEAN, runs : 0..MaxRuns]]
  BY <1>1 DEF EngineTypes, EngineRuns, Turns, Someone, Engines!Someone
<1>3. QED BY <1>1, <1>2 DEF EngineTypes, Engines!TypeOK, Engines!Objects, Engines!Someone, Someone

\* The installation: what is counted, and who installs.
InstallBounds ==
  /\ clients.live <= clients.built /\ clients.built <= MaxClients
  /\ installing \in Actors \cup {Off}
  /\ \A t \in Actors : stmt[t].imports <= MaxImports

LEMMA InstallWhole == ASSUME InstallTypes, InstallBounds PROVE Installs!TypeOK
<1>1. clients \in [live : 0..MaxClients, built : 0..MaxClients]
  <2>1. /\ clients \in [live : Nat, built : Nat] /\ MaxClients \in Nat
        /\ clients.live <= clients.built /\ clients.built <= MaxClients
    BY BoundsAssumption DEF InstallTypes, InstallBounds
  <2>2. clients.live \in 0..MaxClients /\ clients.built \in 0..MaxClients BY <2>1
  <2>3. QED BY <2>1, <2>2
<1>2. stmt \in [Actors -> Stmts] /\ \A t \in Actors : stmt[t] \in Stmts BY DEF InstallTypes
<1>3. \A t \in Actors : stmt[t].imports \in 0..MaxImports
  <2>1. \A t \in Actors : stmt[t].imports \in Nat BY <1>2 DEF Stmts
  <2>2. MaxImports \in Nat BY BoundsAssumption
  <2>3. QED BY <2>1, <2>2 DEF InstallBounds
<1>4. stmt \in [Actors -> [at : {"still", "loading", "rearm", "install", "patch", "mark", "watch"},
                           name : Frameworks \cup {Installs!None}, part : BOOLEAN, hooked : BOOLEAN,
                           todo : SUBSET Frameworks, seen : SUBSET Installs!Adapters, found : BOOLEAN,
                           imports : 0..MaxImports]]
  BY <1>2, <1>3 DEF Stmts
<1>5. guards \in [Installs!Adapters -> 0..2] BY DEF InstallTypes
<1>6. QED BY <1>1, <1>4, <1>5 DEF InstallTypes, InstallBounds, Installs!TypeOK

LEMMA InstallBoundsStart == ASSUME Installs!Init PROVE InstallBounds
<1>1. /\ clients = [live |-> 0, built |-> 0] /\ installing = Off
      /\ \A t \in Actors : stmt[t].imports = 0
  BY DEF Installs!Init, Installs!Still
<1>2. MaxClients \in Nat /\ MaxImports \in Nat BY BoundsAssumption
<1>3. QED BY <1>1, <1>2 DEF InstallBounds

LEMMA InstallBoundsStep ==
  ASSUME InstallTypes, InstallBounds, [Installs!Next]_installs PROVE InstallBounds'
<1> USE DEF Installs!At, Installs!Goto
<1>0. /\ clients \in [live : Nat, built : Nat] /\ clients.live <= clients.built
      /\ clients.built <= MaxClients /\ MaxClients \in Nat /\ MaxImports \in Nat
      /\ installing \in Actors \cup {Off}
      /\ stmt \in [Actors -> Stmts]
      /\ \A t \in Actors : stmt[t] \in Stmts /\ stmt[t].imports \in Nat /\ stmt[t].imports <= MaxImports
  BY BoundsAssumption DEF InstallTypes, InstallBounds, Stmts
\* A statement goes on, its count at most raised below the bound.
<1> USE <1>0
<1>1. ASSUME NEW t \in Actors, NEW s, Installs!Do(t, s), s.imports <= MaxImports,
             UNCHANGED clients, installing' \in Actors \cup {Off}
      PROVE  InstallBounds'
  <2> USE <1>1
  <2>1. stmt'[t] = s /\ \A u \in Actors \ {t} : stmt'[u] = stmt[u] BY DEF Installs!Do
  <2>2. QED BY <2>1 DEF InstallBounds
<1>2. ASSUME NEW t \in Actors, NEW p, Installs!Goto(t, p),
             UNCHANGED clients, installing' \in Actors \cup {Off}
      PROVE  InstallBounds'
  <2>1. [stmt[t] EXCEPT !.at = p].imports = stmt[t].imports BY DEF Stmts
  <2>2. QED BY <1>1, <1>2, <2>1
<1>3. ASSUME NEW t \in Actors, NEW p, NEW todo, Installs!Do(t, [stmt[t] EXCEPT !.at = p, !.todo = todo]),
             UNCHANGED clients, installing' \in Actors \cup {Off}
      PROVE  InstallBounds'
  <2>1. [stmt[t] EXCEPT !.at = p, !.todo = todo].imports = stmt[t].imports BY DEF Stmts
  <2>2. QED BY <1>1, <1>3, <2>1
<1>4. ASSUME NEW t \in Actors, Installs!Do(t, Installs!Still(stmt[t].imports)),
             UNCHANGED clients, installing' \in Actors \cup {Off}
      PROVE  InstallBounds'
  <2>1. Installs!Still(stmt[t].imports).imports = stmt[t].imports BY DEF Installs!Still
  <2>2. QED BY <1>1, <1>4, <2>1
<1>5. ASSUME NEW t \in Actors, Installs!Build(t) PROVE InstallBounds'
  <2> DEFINE s == [stmt[t] EXCEPT !.at = "install", !.todo = Frameworks]
  <2>1. /\ Installs!Do(t, s) /\ clients.built < MaxClients /\ UNCHANGED installing
        /\ clients' = [live |-> clients.live + 1, built |-> clients.built + 1]
    BY <1>5 DEF Installs!Build
  <2> USE <2>1
  <2>2. s.imports = stmt[t].imports BY DEF Stmts
  <2> HIDE DEF s
  <2>3. stmt'[t] = s /\ \A u \in Actors \ {t} : stmt'[u] = stmt[u] BY DEF Installs!Do
  <2>4. \A u \in Actors : stmt'[u].imports <= MaxImports BY <2>2, <2>3
  <2>5. clients'.live <= clients'.built /\ clients'.built <= MaxClients
    <3>1. clients.live \in Nat /\ clients.built \in Nat OBVIOUS
    <3>2. clients'.live = clients.live + 1 /\ clients'.built = clients.built + 1 OBVIOUS
    <3>3. QED BY <3>1, <3>2
  <2>6. QED BY <2>4, <2>5 DEF InstallBounds
<1>6. CASE Installs!CloseOne
  <2>1. UNCHANGED <<installing, stmt>> /\ clients.live > 0 /\ clients' = [clients EXCEPT !.live = @ - 1]
    BY <1>6 DEF Installs!CloseOne
  <2>2. clients'.live = clients.live - 1 /\ clients'.built = clients.built BY <2>1
  <2>3. clients'.live <= clients'.built /\ clients'.built <= MaxClients
    <3>1. clients.live \in Nat /\ clients.built \in Nat OBVIOUS
    <3>2. QED BY <2>2, <3>1
  <2>4. QED BY <2>1, <2>3 DEF InstallBounds
<1>7. ASSUME NEW t \in Actors, NEW n \in Frameworks, Installs!Import(t, n) PROVE InstallBounds'
  <2> DEFINE k == stmt[t].imports + 1
             p == n \in loaded
             s == [Installs!Still(k) EXCEPT !.at = "loading", !.name = n, !.part = p, !.hooked = watching]
  <2>1. /\ Installs!Do(t, s) /\ stmt[t].imports < MaxImports /\ UNCHANGED <<clients, installing>>
    BY <1>7 DEF Installs!Import
  <2>2. k <= MaxImports BY <2>1
  <2> HIDE DEF k, p
  <2>3. s.imports = k BY DEF Installs!Still
  <2> HIDE DEF s
  <2>4. QED BY <1>1, <2>1, <2>2, <2>3
<1>8. ASSUME NEW t \in Actors, Installs!Loaded(t) PROVE InstallBounds'
  <2>1. /\ UNCHANGED <<clients, installing>>
        /\ \/ Installs!Goto(t, "rearm")
           \/ Installs!Do(t, Installs!Still(stmt[t].imports))
    BY <1>8 DEF Installs!Loaded
  <2>2. QED BY <1>2, <1>4, <2>1
<1>9. ASSUME NEW t \in Actors, Installs!Rearm(t) PROVE InstallBounds'
  <2>1. /\ UNCHANGED <<clients, installing>>
        /\ \/ Installs!Do(t, Installs!Still(stmt[t].imports))
           \/ Installs!Do(t, [stmt[t] EXCEPT !.at = "install", !.todo = Frameworks])
    BY <1>9 DEF Installs!Rearm
  <2>2. QED BY <1>3, <1>4, <2>1
<1>10. ASSUME NEW t \in Actors, Installs!Examine(t) PROVE InstallBounds'
  <2> DEFINE n == Installs!First(stmt[t].todo)
             skip == [stmt[t] EXCEPT !.todo = @ \ {n}]
             take == [stmt[t] EXCEPT !.at = "patch", !.seen = @ \cup {Adapter[n]},
                        !.found = Installs!Guarded(Adapter[n])]
  <2>1. /\ UNCHANGED clients
        /\ \/ Installs!Do(t, skip) /\ UNCHANGED installing
           \/ Installs!Do(t, take) /\ installing' = t
    BY <1>10 DEF Installs!Examine
  <2>2. skip.imports = stmt[t].imports /\ take.imports = stmt[t].imports BY DEF Stmts
  <2> HIDE DEF n, skip, take
  <2>3. QED BY <1>1, <2>1, <2>2
<1>11. ASSUME NEW t \in Actors, Installs!Patch(t) PROVE InstallBounds'
  <2>1. UNCHANGED <<clients, installing>> /\ Installs!Goto(t, "mark") BY <1>11 DEF Installs!Patch
  <2>2. QED BY <1>2, <2>1
<1>12. ASSUME NEW t \in Actors, Installs!Mark(t) PROVE InstallBounds'
  <2> DEFINE s == [stmt[t] EXCEPT !.at = "install", !.todo = @ \ {Installs!First(stmt[t].todo)}]
  <2>1. UNCHANGED clients /\ installing' = Off /\ Installs!Do(t, s) BY <1>12 DEF Installs!Mark
  <2>2. s.imports = stmt[t].imports BY DEF Stmts
  <2> HIDE DEF s
  <2>3. QED BY <1>1, <2>1, <2>2
<1>13. ASSUME NEW t \in Actors, Installs!Installed(t) PROVE InstallBounds'
  <2>1. UNCHANGED <<clients, installing>> /\ Installs!Goto(t, "watch") BY <1>13 DEF Installs!Installed
  <2>2. QED BY <1>2, <2>1
<1>14. ASSUME NEW t \in Actors, Installs!Watch(t) PROVE InstallBounds'
  <2>1. UNCHANGED <<clients, installing>> /\ Installs!Do(t, Installs!Still(stmt[t].imports))
    BY <1>14 DEF Installs!Watch
  <2>2. QED BY <1>4, <2>1
<1>15. CASE UNCHANGED installs
  BY <1>15 DEF installs, InstallBounds
<1>16. QED
  BY <1>5, <1>6, <1>7, <1>8, <1>9, <1>10, <1>11, <1>12, <1>13, <1>14, <1>15 DEF Installs!Next

\* The barriers: the registration, the background attempts and the locks.
Attempts == {"none", "report", "blueprint", "ended", "rejected"}
GraphFlat ==
  /\ agentRow \in {"unknown", "pending", "approved"}
  /\ detached \in [Graph!Makers -> Attempts]
  /\ fallback \in [Graph!Makers -> Actors \cup {Off}]
  /\ \A t \in Actors : exec[t].runs <= MaxRuns

LEMMA GraphWhole == ASSUME GraphTypes, GraphFlat PROVE Graph!TypeOK
<1>1. exec \in [Actors -> Execs] /\ \A t \in Actors : exec[t] \in Execs BY DEF GraphTypes
<1>2. \A t \in Actors : exec[t].runs \in 0..MaxRuns
  <2>1. MaxRuns \in Nat /\ \A t \in Actors : exec[t].runs \in Nat BY <1>1, BoundsAssumption DEF Execs
  <2>2. QED BY <2>1 DEF GraphFlat
<1>3. exec \in [Actors -> [at : {"rest", "governing", "look", "wait", "lock", "report",
                                 "blueprint", "attest", "body", "refused"},
                           on : Graph!Makers \cup {Off}, runs : 0..MaxRuns, approved : BOOLEAN]]
  BY <1>1, <1>2 DEF Execs
<1>4. barrier \in [Graph!Makers -> [completed : BOOLEAN, started : BOOLEAN, succeeded : BOOLEAN,
                                    error : {"none", "pending", "scan"}]]
  BY DEF GraphTypes, Barriers
<1>5. QED BY <1>3, <1>4 DEF GraphTypes, GraphFlat, Attempts, Graph!TypeOK

LEMMA GraphFlatStart == ASSUME Graph!Init PROVE GraphFlat
<1>1. /\ agentRow \in {"unknown", "approved"}
      /\ detached \in [Graph!Makers -> Attempts]
      /\ fallback \in [Graph!Makers -> Actors \cup {Off}]
      /\ \A t \in Actors : exec[t].runs = 0
  BY DEF Graph!Init, Graph!Rest, Attempts
<1>2. MaxRuns \in Nat BY BoundsAssumption
<1>3. QED BY <1>1, <1>2 DEF GraphFlat

LEMMA GraphFlatStep ==
  ASSUME GraphTypes, GraphInv, GraphFlat, [Graph!Next]_graph PROVE GraphFlat'
<1> USE DEF Graph!At
<1>0. /\ MaxRuns \in Nat /\ exec \in [Actors -> Execs]
      /\ \A t \in Actors : /\ exec[t] \in Execs /\ exec[t].runs \in Nat /\ exec[t].runs <= MaxRuns
                           /\ t \in Graph!Makers
      /\ agentRow \in {"unknown", "pending", "approved"} /\ detached \in [Graph!Makers -> Attempts]
      /\ fallback \in [Graph!Makers -> Actors \cup {Off}]
  BY BoundsAssumption DEF GraphTypes, GraphFlat, Graph!Makers, Execs
\* The executions stay where they are.
<1> USE <1>0
<1>1. ASSUME UNCHANGED exec, agentRow' \in {"unknown", "pending", "approved"},
             detached' \in [Graph!Makers -> Attempts],
             fallback' \in [Graph!Makers -> Actors \cup {Off}]
      PROVE  GraphFlat'
  BY <1>1 DEF GraphFlat
\* One goes on.
<1>2. ASSUME NEW t \in Actors, NEW e, exec' = [exec EXCEPT ![t] = e], e.runs <= MaxRuns,
             agentRow' \in {"unknown", "pending", "approved"},
             detached' \in [Graph!Makers -> Attempts],
             fallback' \in [Graph!Makers -> Actors \cup {Off}]
      PROVE  GraphFlat'
  <2> USE <1>2
  <2>1. exec'[t] = e /\ \A u \in Actors \ {t} : exec'[u] = exec[u] OBVIOUS
  <2>2. QED BY <2>1 DEF GraphFlat
<1>3. ASSUME NEW t \in Actors, NEW p, NEW m, exec' = [exec EXCEPT ![t].on = m, ![t].at = p],
             agentRow' \in {"unknown", "pending", "approved"},
             detached' \in [Graph!Makers -> Attempts],
             fallback' \in [Graph!Makers -> Actors \cup {Off}]
      PROVE  GraphFlat'
  <2> USE <1>3
  <2> DEFINE e == [exec[t] EXCEPT !.on = m, !.at = p]
  <2>1. exec' = [exec EXCEPT ![t] = e] /\ e.runs = exec[t].runs BY DEF Execs
  <2> HIDE DEF e
  <2>2. QED BY <1>2, <2>1
<1>4. ASSUME NEW t \in Actors, NEW p, Graph!Goto(t, p),
             agentRow' \in {"unknown", "pending", "approved"},
             detached' \in [Graph!Makers -> Attempts],
             fallback' \in [Graph!Makers -> Actors \cup {Off}]
      PROVE  GraphFlat'
  <2> USE <1>4
  <2> DEFINE e == [exec[t] EXCEPT !.at = p]
  <2>1. exec' = [exec EXCEPT ![t] = e] /\ e.runs = exec[t].runs BY DEF Graph!Goto, Execs
  <2> HIDE DEF e
  <2>2. QED BY <1>2, <2>1
<1>5. ASSUME NEW m \in Graph!Makers, Graph!Start(m) PROVE GraphFlat'
  BY <1>1, <1>5 DEF Graph!Start
<1>6. ASSUME NEW m \in Graph!Makers, NEW a \in Attempts, detached' = [detached EXCEPT ![m] = a]
      PROVE  detached' \in [Graph!Makers -> Attempts]
  BY <1>6
<1>7. ASSUME NEW m \in Graph!Makers, Graph!Reject(m) PROVE GraphFlat'
  <2> USE <1>7
  <2>1. detached' \in [Graph!Makers -> Attempts] BY <1>6 DEF Graph!Reject, Attempts
  <2>2. QED BY <1>1, <2>1 DEF Graph!Reject
<1>8. ASSUME NEW m \in Graph!Makers, Graph!Report(m) PROVE GraphFlat'
  <2> USE <1>8
  <2>1. detached' \in [Graph!Makers -> Attempts]
    BY <1>6 DEF Graph!Report, Graph!Completed, Attempts
  <2>2. agentRow' \in {"unknown", "pending", "approved"} BY DEF Graph!Report, Graph!Filed
  <2>3. UNCHANGED <<exec, fallback>> BY DEF Graph!Report
  <2>4. QED BY <1>1, <2>1, <2>2, <2>3
<1>9. ASSUME NEW m \in Graph!Makers, Graph!Blueprint(m) PROVE GraphFlat'
  <2> USE <1>9
  <2>1. detached' \in [Graph!Makers -> Attempts]
    BY <1>6 DEF Graph!Blueprint, Graph!Completed, Attempts
  <2>2. UNCHANGED <<exec, fallback, agentRow>> BY DEF Graph!Blueprint
  <2>3. QED BY <1>1, <2>1, <2>2
<1>10. ASSUME NEW t \in Actors, Graph!Invoke(t) PROVE GraphFlat'
  <2> USE <1>10
  <2> DEFINE k == exec[t].runs + 1
             a == agentRow = "approved"
             p == IF attested THEN "look" ELSE "governing"
             e == [Graph!Rest(k) EXCEPT !.approved = a, !.at = p, !.on = current]
  <2>1. exec' = [exec EXCEPT ![t] = e] /\ exec[t].runs < MaxRuns BY DEF Graph!Invoke
  <2>2. k <= MaxRuns BY <2>1
  <2> HIDE DEF k, a, p
  <2>3. e.runs = k BY DEF Graph!Rest
  <2> HIDE DEF e
  <2>4. UNCHANGED <<agentRow, detached, fallback>> BY DEF Graph!Invoke
  <2>5. QED BY <1>2, <2>1, <2>2, <2>3, <2>4
<1>11. ASSUME NEW t \in Actors, Graph!Govern(t) PROVE GraphFlat'
  <2>1. detached' = [detached EXCEPT ![t] = "report"] /\ UNCHANGED <<agentRow, fallback>>
        /\ exec' = [exec EXCEPT ![t].at = "look", ![t].on = t]
    BY <1>11 DEF Graph!Govern
  <2> USE <2>1
  <2>2. detached' \in [Graph!Makers -> Attempts] BY <1>6 DEF Attempts
  <2>3. exec' = [exec EXCEPT ![t].on = t, ![t].at = "look"] BY DEF Execs
  <2>4. QED BY <1>3, <2>2, <2>3
<1>12. ASSUME NEW t \in Actors, Graph!Look(t) PROVE GraphFlat'
  <2> USE <1>12
  <2>1. UNCHANGED <<agentRow, detached, fallback>> BY DEF Graph!Look
  <2>2. \E p, m : exec' = [exec EXCEPT ![t].on = m, ![t].at = p]
    BY DEF Graph!Look, Graph!Outcome
  <2>3. QED BY <1>3, <2>1, <2>2
<1>13. ASSUME NEW t \in Actors, Graph!Wait(t) PROVE GraphFlat'
  <2> USE <1>13
  <2>1. UNCHANGED <<agentRow, detached, fallback>> BY DEF Graph!Wait
  <2>2. (\E p, m : exec' = [exec EXCEPT ![t].on = m, ![t].at = p]) \/ Graph!Goto(t, "lock")
    BY DEF Graph!Wait, Graph!Outcome
  <2>3. QED BY <1>3, <1>4, <2>1, <2>2
<1>14. ASSUME NEW m \in Graph!Makers, NEW w \in Actors \cup {Off}, fallback' = [fallback EXCEPT ![m] = w]
       PROVE  fallback' \in [Graph!Makers -> Actors \cup {Off}]
  BY <1>14
<1>15. ASSUME NEW t \in Actors, exec[t].at \in {"wait", "lock", "report", "blueprint"}
       PROVE  exec[t].on \in Graph!Makers
  BY <1>15 DEF GraphInv
<1>16. ASSUME NEW t \in Actors, Graph!Lock(t) PROVE GraphFlat'
  <2> USE <1>16
  <2>1. UNCHANGED <<agentRow, detached>> /\ exec[t].at = "lock" BY DEF Graph!Lock
  <2>2. fallback' \in [Graph!Makers -> Actors \cup {Off}]
    <3>1. \/ UNCHANGED fallback
          \/ fallback' = [fallback EXCEPT ![exec[t].on] = t]
      BY DEF Graph!Lock
    <3>2. exec[t].on \in Graph!Makers BY <1>15, <2>1
    <3>3. QED BY <1>14, <3>1, <3>2
  <2>3. \E p : Graph!Goto(t, p) BY DEF Graph!Lock
  <2>4. QED BY <1>4, <2>1, <2>2, <2>3
<1>17. ASSUME NEW t \in Actors, exec[t].at \in {"report", "blueprint"}, UNCHANGED detached,
              agentRow' \in {"unknown", "pending", "approved"},
              NEW p, Graph!Close(t, p) \/ (Graph!Goto(t, p) /\ UNCHANGED fallback)
       PROVE  GraphFlat'
  <2> USE <1>17
  <2>1. exec[t].on \in Graph!Makers BY <1>15
  <2>2. fallback' \in [Graph!Makers -> Actors \cup {Off}] /\ Graph!Goto(t, p)
    BY <1>14, <2>1 DEF Graph!Close
  <2>3. QED BY <1>4, <2>2
<1>18. ASSUME NEW t \in Actors, Graph!ReportHere(t) PROVE GraphFlat'
  <2> USE <1>18
  <2>1. agentRow' \in {"unknown", "pending", "approved"} /\ UNCHANGED detached /\ exec[t].at = "report"
    BY DEF Graph!ReportHere, Graph!Filed
  <2>2. Graph!Close(t, "refused") \/ (Graph!Goto(t, "blueprint") /\ UNCHANGED fallback)
    BY DEF Graph!ReportHere
  <2>3. QED BY <1>17, <2>1, <2>2
<1>19. ASSUME NEW t \in Actors, Graph!BlueprintHere(t) PROVE GraphFlat'
  <2>1. UNCHANGED <<agentRow, detached>> /\ exec[t].at = "blueprint"
        /\ (Graph!Close(t, "body") \/ Graph!Close(t, "refused"))
    BY <1>19 DEF Graph!BlueprintHere
  <2>2. agentRow' \in {"unknown", "pending", "approved"} BY <2>1
  <2>3. QED BY <1>17, <2>1, <2>2
<1>20. ASSUME NEW t \in Actors, Graph!Attest(t) PROVE GraphFlat'
  <2>1. UNCHANGED <<agentRow, detached, fallback>> /\ (Graph!Goto(t, "body") \/ Graph!Goto(t, "refused"))
    BY <1>20 DEF Graph!Attest
  <2>2. QED BY <1>4, <2>1
<1>21. CASE Graph!Approve
  BY <1>1, <1>21 DEF Graph!Approve
<1>22. CASE UNCHANGED graph
  BY <1>1, <1>22 DEF graph
<1>23. QED
  BY <1>5, <1>7, <1>8, <1>9, <1>10, <1>11, <1>12, <1>13, <1>16, <1>18, <1>19, <1>20, <1>21, <1>22
  DEF Graph!Next

-----------------------------------------------------------------------------
(* The parts side by side.                                                 *)

\* A step of the composition is a step of the part that moves.
LEMMA PartSteps ==
  ASSUME [Next]_vars
  PROVE  /\ part' = part
         /\ part = "capture" => [Gate!Next]_capturing
         /\ part = "tokens" => [Tokens!Next]_tokens
         /\ part = "exchange" => [Exchange!Next]_exchange
         /\ part = "keys" => [KeyStore!Next]_keys
         /\ part = "session" => [Session!Next]_brokering
         /\ part = "principals" => [Principals!Next]_principals
         /\ part = "sightings" => [Sightings!Next]_sightings
         /\ part = "dispatch" => [Dispatch!Next]_dispatched
         /\ part = "redaction" => [Masks!Next]_redaction
         /\ part = "engines" => [Engines!Next]_engines
         /\ part = "installs" => [Installs!Next]_installs
         /\ part = "graph" => [Graph!Next]_graph
         /\ part = "closure" => [Closure!Next]_closure
         /\ part = "bundle" => [Bundle!Next]_bundles
         /\ part = "contexts" => [Contexts!Next]_contexts
         /\ part = "hints" => [Hints!Next]_hints
         /\ part = "mcp" => [Mcp!Next]_mcp
<1>1. CASE Next BY <1>1, ZenonT(40) DEF Next, Alone
<1>2. CASE UNCHANGED vars BY <1>2 DEF vars, dispatching
<1>3. QED BY <1>1, <1>2

LEMMA PartStarts ==
  ASSUME Init
  PROVE  /\ part = "capture" => Gate!Init
         /\ part = "tokens" => Tokens!Init
         /\ part = "exchange" => Exchange!Init
         /\ part = "keys" => KeyStore!Init
         /\ part = "session" => Session!Init
         /\ part = "principals" => Principals!Init
         /\ part = "sightings" => Sightings!Init
         /\ part = "dispatch" => Dispatch!Init
         /\ part = "redaction" => Masks!Init
         /\ part = "engines" => Engines!Init
         /\ part = "installs" => Installs!Init
         /\ part = "graph" => Graph!Init
         /\ part = "closure" => Closure!Init
         /\ part = "bundle" => Bundle!Init
         /\ part = "contexts" => Contexts!Init
         /\ part = "hints" => Hints!Init
         /\ part = "mcp" => Mcp!Init
BY DEF Init

\* A tool's caller is let through by code the gateway has acknowledged, or that
\* was rebound while its report was made; no node of a compiled graph runs
\* before a report of the graph was acknowledged: for any threads, versions
\* and barriers (registry.py, ensure_registration_capture; langgraph.py,
\* _await_initial_discovery).
THEOREM ReportsComeFirst == Spec => []RunsOnlyReported
<1> DEFINE IInv == /\ part = "capture" => GateTypes /\ GateInv
                   /\ part = "graph" => GraphTypes /\ GraphInv
<1>1. Init => IInv
  BY PartStarts, GateStart, GraphStart
<1>2. IInv /\ [Next]_vars => IInv'
  BY PartSteps, GateStep, GraphStep
<1>3. IInv => RunsOnlyReported
  BY DEF RunsOnlyReported, GateInv, Answered, GraphInv, Gate!PassedWasReported, Gate!At,
         Graph!RunsAfterAcknowledgement, Graph!At
<1>4. QED BY <1>1, <1>2, <1>3, PTL DEF Spec

(* A principal that acts under the gateway's word has a row in the         *)
(* directory of the tenant it acts in, and a line that names an address    *)
(* names that of the registration it is about, for any users, tenants,     *)
(* identifiers, cache size and number of registrations (identity.py,       *)
(* resolve_principal; engine.py, registration memory).                     *)
THEOREM OwnersCorrect == Spec => []NobodyElses
<1> DEFINE IInv == /\ part = "principals" => PrincipalInv
                   /\ part = "sightings" => SightingInv
<1>1. Init => IInv
  BY PartStarts, PrincipalStart, SightingStart
<1>2. IInv /\ [Next]_vars => IInv'
  BY PartSteps, PrincipalStep, SightingStep
<1>3. IInv => NobodyElses
  BY PrincipalGood DEF NobodyElses, SightingInv
<1>4. QED BY <1>1, <1>2, <1>3, PTL DEF Spec

\* A process has one key for good, whoever crashes and whatever the keyring
\* loses, and loads it only where runtime_key_available has said it could, or
\* from a directory that became read-only; no request and no wait is begun when
\* the exchange's budget is spent, and no answer makes the process prove an
\* identity its deployment did not choose (runtime_key.py, load_runtime_key;
\* gateway_broker.py, _refresh, _runtime_configuration).
THEOREM IdentityCorrect == Spec => []IdentityIsKept
<1> DEFINE IInv == /\ part = "keys" => KeyTypes /\ KeyInv /\ AbleInv
                   /\ part = "session" => SessionInv
<1>1. Init => IInv
  BY PartStarts, KeyStart, SessionStart
<1>2. IInv /\ [Next]_vars => IInv'
  BY PartSteps, KeyTypesStep, KeyStep, SessionStep
<1>3. IInv => IdentityIsKept
  <2>1. KeyInv => KeyStore!OneKeyForGood BY DEF KeyInv, KeyStore!OneKeyForGood
  <2>2. KeyTypes /\ AbleInv => KeyStore!CapableIsNecessary
    BY DirectoriesAssumption
    DEF KeyTypes, KeyStore!TypeOK, AbleInv, KeyStore!CapableIsNecessary, KeyStore!Available, KeyStore!KeptReadOnly
  <2>3. QED BY <2>1, <2>2 DEF IdentityIsKept, SessionInv
<1>4. QED BY <1>1, <1>2, <1>3, PTL DEF Spec

\* A token is taken while it is not yet due and fetched by one caller at a
\* time, for any callers and however the clock moves; an OIDC request is
\* authenticated in a way the issuer lists and a nonce challenge defeats an
\* exchange only when the nonce changed again; a request of an MCP session
\* carries a proof by the credential its token is of, and one whose credentials
\* could not be issued is told why (credentials/base.py, get_or_refresh;
\* oidc.py, dpop_oauth.py; mcp/_native.py, engine.py, workload_headers).
THEOREM TokensCorrect == Spec => []TokensAreGood
<1> DEFINE IInv == /\ part = "tokens" => TokenTypes /\ TokenInv
                   /\ part = "exchange" => ExchangeInv
                   /\ part = "mcp" => RpcTypes /\ RpcInv
<1>1. Init => IInv
  BY PartStarts, TokenStart, ExchangeStart, RpcStart
<1>2. IInv /\ [Next]_vars => IInv'
  BY PartSteps, TokenStep, ExchangeStep, RpcStep DEF TokenGoal
<1>3. IInv => TokensAreGood
  <2>1. TokenTypes /\ TokenInv => Tokens!FreshWhenTaken /\ Tokens!OneExchange
    BY DEF TokenTypes, TokenInv, CallerRecords, Tokens!FreshWhenTaken, Tokens!OneExchange,
           Tokens!Fresh, Tokens!At
  <2>2. ExchangeInv => Exchange!NonceFollowed /\ Exchange!AuthListed
    BY DEF ExchangeInv, Authenticates, Exchange!AuthListed
  <2>3. RpcInv => Mcp!IssuedOrTold
    BY DEF RpcInv, Mcp!IssuedOrTold, Mcp!At
  <2>4. QED BY <2>1, <2>2, <2>3 DEF TokensAreGood
<1>4. QED BY <1>1, <1>2, <1>3, PTL DEF Spec

\* A report that met a pending registration has said so when it ends, whatever
\* other reports and the administrator do meanwhile; and the token endpoint,
\* once known, is never another (registry.py, _post_discover; oidc.py,
\* dpop_oauth.py, _discover).
THEOREM ToldCorrect == Spec => TheGatewayIsTold
<1> DEFINE IInv == /\ part = "sightings" => SightingInv
                   /\ part = "exchange" => ExchangeInv
<1>1. Init => IInv
  BY PartStarts, SightingStart, ExchangeStart
<1>2. IInv /\ [Next]_vars => IInv'
  BY PartSteps, SightingStep, ExchangeStep
<1>3. IInv /\ [Next]_vars => [part = "sightings" => Sightings!SaysHeldLine]_vars
  BY PartSteps, SightingStep
<1>4. IInv /\ [Next]_vars => [part = "exchange" => Exchange!KeepsEndpoint]_vars
  BY PartSteps, ExchangeStep
<1>5. QED BY <1>1, <1>2, <1>3, <1>4, PTL DEF Spec, TheGatewayIsTold

\* With several clients each run's tools are decided by its own engine, unless
\* another run bound the tool or the client was closed meanwhile; however many
\* threads import and build clients, no boundary carries two guards and every
\* framework that is due is guarded once all have come to rest; of one prefix
\* one context is being created, and none while its resource is good: for any
\* clients, agents, frameworks, threads, prefixes and times (enforcement.py,
\* instrumentation.py, _gemini_cache.py).
THEOREM OneOfEachCorrect == Spec => []OneOfEach
<1> DEFINE IInv == /\ part = "engines" => EngineTypes /\ EngineInv
                   /\ part = "installs" => InstallTypes /\ InstallInv
                   /\ part = "contexts" => ContextInv
<1>1. Init => IInv
  BY PartStarts, EngineStart, InstallStart, ContextStart
<1>2. IInv /\ [Next]_vars => IInv'
  BY PartSteps, EngineStep, InstallStep, ContextStep
<1>3. ASSUME EngineInv PROVE Engines!RunsUnderItsEngine
  BY <1>3 DEF EngineInv, Undisturbed, Engines!RunsUnderItsEngine
<1>4. IInv => OneOfEach
  BY <1>3, InstallPromise, ContextPromise DEF OneOfEach
<1>5. QED BY <1>1, <1>2, <1>4, PTL DEF Spec

\* Whichever of a framework's hooks a call comes through, and for any tools and
\* values, a body behind the automatic guard runs on one decision, about the
\* tool and the arguments that run, and masked where its boundary can rewrite
\* them (integrations/_common.py, strands.py, langgraph.py, hermes.py).
THEOREM DispatchCorrect == Spec => []DecidedAsItRuns
<1> DEFINE IInv == part = "dispatch" => DispatchInv
<1>1. Init => IInv
  BY PartStarts, DispatchStart
<1>2. IInv /\ [Next]_vars => IInv'
  BY PartSteps, DispatchStep
<1>3. ASSUME DispatchInv PROVE Dispatch!DecidedAsRun /\ Dispatch!MaskReaches
  BY <1>3 DEF DispatchInv, Governed, Decided, Dispatch!DecidedAsRun, Dispatch!MaskReaches, Dispatch!At
<1>4. IInv => DecidedAsItRuns
  BY <1>3 DEF DecidedAsItRuns
<1>5. QED BY <1>1, <1>2, <1>4, PTL DEF Spec

\* A source that calls itself complete is that of all a tool runs, as it is when
\* it is returned, whatever is reloaded or retargeted while it is read; a bundle
\* that calls itself complete carries every callback the fields reach; a mask
\* hides by position what it hides by name, once as twice and in any order; the
\* check digit is the usual one for any number of digits; a request that is sent
\* again is the one the caller prepared (registry.py, _callable_change_token,
\* explicit_callback_inventory; obligations.py; _prompt_cache.py).
THEOREM SentCorrect == Spec => []SentAsItIs
<1> DEFINE IInv == /\ part = "closure" => ClosureTypes /\ ClosureInv
                   /\ part = "bundle" => BundleTypes /\ BundleInv
                   /\ part = "redaction" => RedactInv
                   /\ part = "hints" => HintsInv
<1>1. Init => IInv
  BY PartStarts, ClosureStart, BundleStart, RedactStart, HintsStart
<1>2. IInv /\ [Next]_vars => IInv'
  BY PartSteps, ClosureStep, BundleStep, RedactStep, HintsStep
<1>3. IInv => SentAsItIs
  BY ClosurePromise, BundlePromise, RedactPromise, HintsPromise DEF SentAsItIs
<1>4. QED BY <1>1, <1>2, <1>3, PTL DEF Spec

-----------------------------------------------------------------------------
\* Three parts are instances of modules that prove about them: their theorems
\* hold of them here, because the part moves by its own steps only and its
\* parameters meet the theorems' hypotheses.
LEMMA RunsAlone ==
  part = "runs" /\ Spec =>
    /\ [](Runs!RunsOnlyAcknowledged /\ Runs!CapturedMeansAcknowledged
            /\ Runs!MarkerMeansAcknowledged)
    /\ []Runs!TypeOK
<1> DEFINE Mine == part = "runs"
<1>1. Init /\ Mine => Runs!Init
  BY DEF Init
<1>2. Mine /\ [Next]_vars => Mine' /\ [Runs!Next]_(Runs!vars)
  <2>1. ASSUME Mine, Next PROVE Mine' /\ Runs!Next
    BY <2>1 DEF Next, Alone
  <2>2. ASSUME Mine, UNCHANGED vars PROVE Mine' /\ UNCHANGED Runs!vars
    BY <2>2 DEF vars, reporting, Runs!vars, Runs!local, Runs!jobs, Runs!env
  <2>3. QED BY <2>1, <2>2
<1>3. Runs!IsFiniteSet(Reporters) /\ Runs!IsFiniteSet(Flights)
  BY ReportersAssumption DEF Runs!IsFiniteSet, IsFiniteSet
<1>4. Runs!OneThread
  BY ReportersAssumption DEF Runs!OneThread
<1>5. /\ MaxForget \in Nat /\ Off \notin Flights \union Carriers \union Manifests
      /\ "background" \notin {"run"}
  BY BoundsAssumption, AbsentAssumption
<1>6. Runs!Spec =>
        [](Runs!RunsOnlyAcknowledged /\ Runs!CapturedMeansAcknowledged /\ Runs!MarkerMeansAcknowledged)
  BY <1>3, <1>4, <1>5, Runs!SequentialCorrect
<1>7. Runs!Spec => []Runs!TypeOK
  BY <1>3, <1>5, Runs!TypeCorrect
<1>8. QED BY <1>1, <1>2, <1>6, <1>7, PTL DEF Spec, Runs!Spec

LEMMA MarksAlone == part = "marks" /\ Spec => []Marks!OnePostPerKey /\ []Marks!TypeOK
<1> DEFINE Mine == part = "marks"
<1>1. Init /\ Mine => Marks!Init
  BY DEF Init
<1>2. Mine /\ [Next]_vars => Mine' /\ [Marks!Next]_(Marks!vars)
  <2>1. ASSUME Mine, Next PROVE Mine' /\ Marks!Next
    BY <2>1 DEF Next, Alone
  <2>2. ASSUME Mine, UNCHANGED vars PROVE Mine' /\ UNCHANGED Marks!vars
    BY <2>2 DEF vars, reporting, Marks!vars, Marks!local, Marks!jobs, Marks!env
  <2>3. QED BY <2>1, <2>2, SMTT(30)
<1>3. Marks!IsFiniteSet(Actors) /\ Marks!IsFiniteSet(Flights)
  BY ReportersAssumption DEF Marks!IsFiniteSet, IsFiniteSet
<1>4. Off \notin Flights \union {} \union Manifests /\ "run" \notin {"background"}
  BY AbsentAssumption
<1>5. Marks!Spec => []Marks!OnePostPerKey
  BY <1>3, <1>4, Marks!PostsCorrect
<1>6. Marks!Spec => []Marks!TypeOK
  BY <1>3, <1>4, Marks!TypeCorrect
<1>7. QED BY <1>1, <1>2, <1>5, <1>6, PTL DEF Spec, Marks!Spec

LEMMA TrafficAlone ==
  part = "traffic" /\ Spec => []Traffic!BrokerFailsClosed /\ []Traffic!TypeOK
<1> DEFINE Mine == part = "traffic"
           Told == {"llm", "declared", "broker", "optional"}
<1>1. Init /\ Mine => Traffic!Init
  BY DEF Init
<1>2. Mine /\ [Next]_vars => Mine' /\ [Traffic!Next]_(Traffic!vars)
  <2>1. ASSUME Mine, Next PROVE Mine' /\ Traffic!Next
    BY <2>1 DEF Next, Alone
  <2>2. ASSUME Mine, UNCHANGED vars PROVE Mine' /\ UNCHANGED Traffic!vars
    BY <2>2 DEF vars, identity, Traffic!vars, Traffic!cache, Traffic!slots, Traffic!built_of,
                Traffic!lock, Traffic!env
  <2>3. QED BY <2>1, <2>2
<1>3. Told \subseteq Traffic!Kinds /\ "provisional" \notin Told
  BY DEF Traffic!Kinds
<1>4. /\ MaxCalls \in Nat /\ {} \intersect Actors = {} /\ Minted \intersect {} = {}
      /\ Off \notin Traffic!Threads \union Answers \union Minted \union {}
  BY BoundsAssumption, OffAssumption, AbsentAssumption DEF Traffic!Threads
<1>5. Traffic!Spec => []Traffic!BrokerFailsClosed
  BY <1>3, <1>4, Traffic!TrafficCorrect
<1>6. Traffic!Spec => []Traffic!TypeOK
  BY <1>3, <1>4, Traffic!TypeCorrect
<1>7. QED BY <1>1, <1>2, <1>5, <1>6, PTL DEF Spec, Traffic!Spec

\* What they keep there, whichever part a behaviour moves.
ThreeHold ==
  /\ part = "runs" => Runs!TypeOK /\ Runs!RunsOnlyAcknowledged
                        /\ Runs!CapturedMeansAcknowledged /\ Runs!MarkerMeansAcknowledged
  /\ part = "marks" => Marks!TypeOK /\ Marks!OnePostPerKey
  /\ part = "traffic" => Traffic!TypeOK /\ Traffic!BrokerFailsClosed

LEMMA ThreeParts == Spec => []ThreeHold
<1>1. Spec => [](part = "runs" =>
                   Runs!TypeOK /\ Runs!RunsOnlyAcknowledged
                     /\ Runs!CapturedMeansAcknowledged /\ Runs!MarkerMeansAcknowledged)
  <2> DEFINE Mine == part = "runs"
  <2>1. ~Mine /\ [Next]_vars => ~Mine'
    BY PartSteps
  <2>2. QED BY <2>1, RunsAlone, PTL DEF Spec
<1>2. Spec => [](part = "marks" => Marks!TypeOK /\ Marks!OnePostPerKey)
  <2> DEFINE Mine == part = "marks"
  <2>1. ~Mine /\ [Next]_vars => ~Mine'
    BY PartSteps
  <2>2. QED BY <2>1, MarksAlone, PTL DEF Spec
<1>3. Spec => [](part = "traffic" => Traffic!TypeOK /\ Traffic!BrokerFailsClosed)
  <2> DEFINE Mine == part = "traffic"
  <2>1. ~Mine /\ [Next]_vars => ~Mine'
    BY PartSteps
  <2>2. QED BY <2>1, TrafficAlone, PTL DEF Spec
<1>4. QED BY <1>1, <1>2, <1>3, PTL DEF ThreeHold

\* Undisturbed, the engine keeps its promises: one thread's runs, captured
\* tools and object markers are acknowledged; manifests reported in the
\* background are posted once, whichever mark is evicted; model traffic on
\* settled identities never loses its credential silently (registry.py,
\* discover, _should_report; client.py, _agent_token).
THEOREM HoldsCorrect == Spec => []HoldsUndisturbed
<1>1. ThreeHold => HoldsUndisturbed
  BY DEF ThreeHold, HoldsUndisturbed
<1>2. QED BY <1>1, ThreeParts, PTL

-----------------------------------------------------------------------------
\* Types: each part keeps the ranges its module states, clocks, counters and
\* locals included, whichever part a behaviour moves.
PartsTyped ==
  /\ part \in Parts
  /\ part = "capture" => GateTypes /\ GateInv /\ GateFlat /\ GateSees
  /\ part = "tokens" => TokenTypes /\ TokenInv /\ TokenBounds
  /\ part = "exchange" => Exchange!TypeOK
  /\ part = "keys" => KeyTypes
  /\ part = "session" => SessionTypes
  /\ part = "principals" => PrincipalInv
  /\ part = "sightings" => SightTypes
  /\ part = "dispatch" => DispatchInv
  /\ part = "redaction" => RedactInv
  /\ part = "engines" => EngineTypes /\ EngineInv /\ EngineRuns
  /\ part = "installs" => InstallTypes /\ InstallInv /\ InstallBounds
  /\ part = "graph" => GraphTypes /\ GraphInv /\ GraphFlat
  /\ part = "closure" => ClosureTypes /\ ClosureInv
  /\ part = "bundle" => BundleTypes /\ BundleInv
  /\ part = "contexts" => ContextInv /\ ContextTimes
  /\ part = "hints" => HintsInv
  /\ part = "mcp" => RpcTypes /\ RpcInv /\ RpcBounds

LEMMA PartsTypedStart == ASSUME Init PROVE PartsTyped
<1> USE PartStarts
<1>1. part \in Parts BY DEF Init
<1>2. part = "capture" => GateTypes /\ GateInv /\ GateFlat /\ GateSees
  BY GateStart, GateFlatStart
<1>3. part = "tokens" => TokenTypes /\ TokenInv /\ TokenBounds
  BY TokenStart, TokenBoundsStart
<1>4. part = "exchange" => Exchange!TypeOK
  BY ExchangeWholeStart
<1>5. part = "keys" => KeyTypes
  BY KeyStart
<1>6. part = "session" => SessionTypes
  BY SessionTypesStart
<1>7. part = "principals" => PrincipalInv
  BY PrincipalStart
<1>8. part = "sightings" => SightTypes
  BY SightTypesStart
<1>9. part = "dispatch" => DispatchInv
  BY DispatchStart
<1>10. part = "redaction" => RedactInv
  BY RedactStart
<1>11. part = "engines" => EngineTypes /\ EngineInv /\ EngineRuns
  BY EngineStart, EngineRunsStart
<1>12. part = "installs" => InstallTypes /\ InstallInv /\ InstallBounds
  BY InstallStart, InstallBoundsStart
<1>13. part = "graph" => GraphTypes /\ GraphInv /\ GraphFlat
  BY GraphStart, GraphFlatStart
<1>14. part = "closure" => ClosureTypes /\ ClosureInv
  BY ClosureStart
<1>15. part = "bundle" => BundleTypes /\ BundleInv
  BY BundleStart
<1>16. part = "contexts" => ContextInv /\ ContextTimes
  BY ContextStart, ContextTimesStart
<1>17. part = "hints" => HintsInv
  BY HintsStart
<1>18. part = "mcp" => RpcTypes /\ RpcInv /\ RpcBounds
  BY RpcStart, RpcBoundsStart
<1>19. QED
  BY <1>1, <1>2, <1>3, <1>4, <1>5, <1>6, <1>7, <1>8, <1>9, <1>10, <1>11, <1>12,
     <1>13, <1>14, <1>15, <1>16, <1>17, <1>18 DEF PartsTyped

LEMMA PartsTypedStep == ASSUME PartsTyped, [Next]_vars PROVE PartsTyped'
<1> USE PartSteps DEF PartsTyped
<1>1. part' = part /\ part' \in Parts OBVIOUS
<1>2. part = "capture" => (GateTypes /\ GateInv /\ GateFlat /\ GateSees)'
  BY GateStep, GateFlatStep
<1>3. part = "tokens" => (TokenTypes /\ TokenInv /\ TokenBounds)'
  BY TokenStep, TokenBoundsStep DEF TokenGoal
<1>4. part = "exchange" => Exchange!TypeOK'
  BY ExchangeWholeStep
<1>5. part = "keys" => KeyTypes'
  BY KeyTypesStep
<1>6. part = "session" => SessionTypes'
  BY SessionTypesStep
<1>7. part = "principals" => PrincipalInv'
  BY PrincipalStep
<1>8. part = "sightings" => SightTypes'
  BY SightTypesStep
<1>9. part = "dispatch" => DispatchInv'
  BY DispatchStep
<1>10. part = "redaction" => RedactInv'
  BY RedactStep
<1>11. part = "engines" => (EngineTypes /\ EngineInv /\ EngineRuns)'
  BY EngineStep, EngineRunsStep
<1>12. part = "installs" => (InstallTypes /\ InstallInv /\ InstallBounds)'
  BY InstallStep, InstallBoundsStep
<1>13. part = "graph" => (GraphTypes /\ GraphInv /\ GraphFlat)'
  BY GraphStep, GraphFlatStep
<1>14. part = "closure" => (ClosureTypes /\ ClosureInv)'
  BY ClosureStep
<1>15. part = "bundle" => (BundleTypes /\ BundleInv)'
  BY BundleStep
<1>16. part = "contexts" => (ContextInv /\ ContextTimes)'
  BY ContextStep, ContextTimesStep
<1>17. part = "hints" => HintsInv'
  BY HintsStep
<1>18. part = "mcp" => (RpcTypes /\ RpcInv /\ RpcBounds)'
  BY RpcStep, RpcBoundsStep
<1>19. QED
  BY <1>1, <1>2, <1>3, <1>4, <1>5, <1>6, <1>7, <1>8, <1>9, <1>10, <1>11, <1>12,
     <1>13, <1>14, <1>15, <1>16, <1>17, <1>18

\* The client keeps its types, part by part: every clock, counter, queue and
\* local of a thread stays in its range, for all values of the parameters
\* that Components leaves open.
THEOREM TypesCorrect == Spec => []TypesOK
<1>1. PartsTyped /\ ThreeHold => TypesOK
  <2> SUFFICES ASSUME PartsTyped, ThreeHold PROVE TypesOK
    OBVIOUS
  <2>1. CASE part = "runs"
    BY <2>1 DEF ThreeHold, TypesOK
  <2>2. CASE part = "marks"
    BY <2>2 DEF ThreeHold, TypesOK
  <2>3. CASE part = "traffic"
    BY <2>3 DEF ThreeHold, TypesOK
  <2>4. CASE part = "capture"
    BY <2>4, GateWhole DEF PartsTyped, TypesOK
  <2>5. CASE part = "tokens"
    BY <2>5, TokenWhole DEF PartsTyped, TypesOK
  <2>6. CASE part = "exchange"
    BY <2>6 DEF PartsTyped, TypesOK
  <2>7. CASE part = "keys"
    BY <2>7 DEF PartsTyped, KeyTypes, TypesOK
  <2>8. CASE part = "session"
    BY <2>8, SessionWhole DEF PartsTyped, TypesOK
  <2>9. CASE part = "principals"
    BY <2>9 DEF PartsTyped, PrincipalInv, TypesOK
  <2>10. CASE part = "sightings"
    BY <2>10, SightWhole DEF PartsTyped, TypesOK
  <2>11. CASE part = "dispatch"
    BY <2>11, DispatchWhole DEF PartsTyped, TypesOK
  <2>12. CASE part = "redaction"
    BY <2>12, RedactPromise DEF PartsTyped, TypesOK
  <2>13. CASE part = "engines"
    BY <2>13, EngineWhole DEF PartsTyped, TypesOK
  <2>14. CASE part = "installs"
    BY <2>14, InstallWhole DEF PartsTyped, TypesOK
  <2>15. CASE part = "graph"
    BY <2>15, GraphWhole DEF PartsTyped, TypesOK
  <2>16. CASE part = "closure"
    BY <2>16, ClosureWhole DEF PartsTyped, TypesOK
  <2>17. CASE part = "bundle"
    BY <2>17, BundlePromise DEF PartsTyped, TypesOK
  <2>18. CASE part = "contexts"
    BY <2>18, ContextWhole DEF PartsTyped, TypesOK
  <2>19. CASE part = "hints"
    BY <2>19, HintsPromise DEF PartsTyped, TypesOK
  <2>20. CASE part = "mcp"
    BY <2>20, RpcWhole DEF PartsTyped, TypesOK
  <2>21. part \in Parts BY DEF PartsTyped
  <2>22. QED
    BY <2>1, <2>2, <2>3, <2>4, <2>5, <2>6, <2>7, <2>8, <2>9, <2>10, <2>11, <2>12,
       <2>13, <2>14, <2>15, <2>16, <2>17, <2>18, <2>19, <2>20, <2>21
       DEF Parts
<1>2. Init => PartsTyped BY PartsTypedStart
<1>3. PartsTyped /\ [Next]_vars => PartsTyped' BY PartsTypedStep
<1>4. QED BY <1>1, <1>2, <1>3, ThreeParts, PTL DEF Spec
=============================================================================
