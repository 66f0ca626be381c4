------------------------------ MODULE CodeBundle ------------------------------
(***************************************************************************)
(* What a registration says of an agent's code (registry.py,               *)
(* integrations/_common.py): the application's callbacks are taken from    *)
(* the fields the adapter names, within bounds; each becomes an artifact,  *)
(* beside the tools'; the artifacts are bundled within further bounds; a   *)
(* ledger tells how much of each subject was carried.                      *)
(***************************************************************************)
EXTENDS Naturals, Sequences, FiniteSets

CONSTANTS
  MaxCallbacks,  \* _CALLBACK_INVENTORY_MAX
  MaxNest,       \* 3 levels of containers
  MaxArtifacts   \* _CODE_ARTIFACT_MAX_COUNT, _CODE_BUNDLE_MAX_BYTES

VARIABLES
  owner,         \* the framework object: its fields, and what their code reads as
  look,          \* the walk over one group of fields
  inventory,     \* the callbacks of the groups so far
  candidates,    \* artifacts still to be bundled
  bundle,        \* code_artifacts
  ledger,        \* code_artifact_coverage, by subject
  stage

bundleVars == <<owner, look, inventory, candidates, bundle, ledger, stage>>

Callbacks == {"a", "b"}                   \* the application's
Containers == {"c", "d"}                  \* "x": the framework's own; "p": plain data
Statuses == <<"none", "captured", "partial", "truncated", "omitted", "missing">>
Rank(s) == CHOOSE n \in 1..6 : Statuses[n] = s
Subjects == {"agent", "tool"}
Texts == {"whole", "partial", "long", "none"}

Owners ==
  [fields : {<<"c">>, <<"a", "c">>, <<"x", "p", "c">>, <<"raises", "a">>, <<"c", "c">>},
   handlers : {<<>>, <<"b">>, <<"d", "a">>},          \* hooks, plugins: a second group
   c : {<<>>, <<"a">>, <<"a", "b">>, <<"d", "a">>, <<"p", "x", "b">>},
   d : {<<>>, <<"b">>, <<"c">>},
   text : Texts,                                       \* how "a" reads
   tools : {<<>>, <<"whole">>, <<"none">>, <<"whole", "whole">>}]

Elements(s) == {s[n] : n \in 1..Len(s)}

\* The owner's fields are walked from the front.
Level(s, depth) == [n \in 1..Len(s) |-> <<s[n], depth>>]
Begin(fields) == [stack |-> Level(fields, 0), found |-> <<>>, seen |-> {}, partial |-> FALSE]

TypeOK ==
  /\ owner \in Owners /\ look.seen \subseteq Containers /\ look.partial \in BOOLEAN
  /\ Elements(look.found) \cup Elements(inventory.callbacks) \subseteq Callbacks
  /\ inventory.partial \in BOOLEAN
  /\ \A n \in 1..Len(candidates) : candidates[n].subject \in Subjects
  /\ Cardinality(bundle) <= MaxArtifacts
  /\ ledger \in [Subjects -> {Statuses[n] : n \in 1..6}]
  /\ stage \in {"fields", "handlers", "artifacts", "collect", "done"}

Init ==
  /\ owner \in Owners
  /\ look = Begin(owner.fields) /\ inventory = [callbacks |-> <<>>, partial |-> FALSE]
  /\ candidates = <<>> /\ bundle = {} /\ ledger = [s \in Subjects |-> "none"]
  /\ stage = "fields"

----------------------------------------------------------------------------
(* explicit_callback_inventory. *)

Walking == stage \in {"fields", "handlers"}
Contents(o) == IF o = "c" THEN owner.c ELSE owner.d
LeastOf(m, n) == IF m < n THEN m ELSE n

\* A container: once, to a depth, and no more of it than the bound leaves.
OpenContainer(o, depth) ==
  LET items == Contents(o)
      room == MaxCallbacks - Len(look.found)
      shown == SubSeq(items, 1, LeastOf(room, Len(items)))
      rest == Tail(look.stack) IN
  IF o \in look.seen THEN [look EXCEPT !.stack = rest]
  ELSE IF depth >= MaxNest
  THEN [look EXCEPT !.stack = rest, !.seen = @ \cup {o}, !.partial = @ \/ items # <<>>]
  ELSE [look EXCEPT !.stack = Level(shown, depth + 1) \o rest, !.seen = @ \cup {o},
                    !.partial = @ \/ shown # items]

AppendValue ==
  LET o == Head(look.stack)[1]
      rest == Tail(look.stack) IN
  /\ Walking /\ look.stack # <<>>
  /\ look' = IF o = "raises" \/ Len(look.found) >= MaxCallbacks
             THEN [look EXCEPT !.stack = rest, !.partial = TRUE]
             ELSE IF o \in Containers THEN OpenContainer(o, Head(look.stack)[2])
             ELSE IF o \in Callbacks THEN [look EXCEPT !.stack = rest, !.found = Append(@, o)]
             ELSE [look EXCEPT !.stack = rest]
  /\ UNCHANGED <<owner, inventory, candidates, bundle, ledger, stage>>

\* merge_callback_inventories, and the next group.
MergeInventories ==
  LET all == inventory.callbacks \o look.found
      some == SubSeq(all, 1, LeastOf(MaxCallbacks, Len(all))) IN
  /\ Walking /\ look.stack = <<>>
  /\ inventory' = [callbacks |-> some, partial |-> inventory.partial \/ look.partial \/ some # all]
  /\ IF stage = "fields" THEN look' = Begin(owner.handlers) /\ stage' = "handlers"
     ELSE look' = Begin(<<>>) /\ stage' = "artifacts"
  /\ UNCHANGED <<owner, candidates, bundle, ledger>>

----------------------------------------------------------------------------
(* Artifacts, and the bundle. *)

\* Redaction leaves a source its status; the byte cap does not.
StatusOf(t) ==
  [whole |-> "captured", partial |-> "partial", long |-> "truncated", none |-> "missing"][t]

\* The source of a callback; its place in the inventory is part of the text.
CallbackArtifact(n) ==
  LET f == inventory.callbacks[n] IN
  [subject |-> "agent", name |-> <<f, n>>,
   status |-> IF f = "a" THEN StatusOf(owner.text) ELSE "captured"]

\* An incomplete inventory is an artifact without source.
Unknown == [subject |-> "agent", name |-> <<"?", 0>>, status |-> "missing"]
ToolArtifact(n) == [subject |-> "tool", name |-> <<"t", 0>>, status |-> StatusOf(owner.tools[n])]

Describe ==
  /\ stage = "artifacts" /\ stage' = "collect"
  /\ candidates' = [n \in 1..Len(inventory.callbacks) |-> CallbackArtifact(n)]
                     \o (IF inventory.partial THEN <<Unknown>> ELSE <<>>)
                     \o [n \in 1..Len(owner.tools) |-> ToolArtifact(n)]
  /\ UNCHANGED <<owner, look, inventory, bundle, ledger>>

\* Mutant: a subject's last artifact decides.
MergeLast(s, status) == ledger' = [ledger EXCEPT ![s] = status]

\* _merge_coverage: the worst of a subject's artifacts.
MergeCoverage(s, status) ==
  ledger' = [ledger EXCEPT ![s] = IF Rank(status) > Rank(@) THEN status ELSE @]

\* _collect_code_artifacts, one artifact.
Collect ==
  LET a == Head(candidates)
      known == \E b \in bundle : b.subject = a.subject /\ b.name = a.name IN
  /\ stage = "collect" /\ candidates # <<>>
  /\ candidates' = Tail(candidates)
  /\ \/ /\ a.status = "missing" \/ known
        /\ MergeCoverage(a.subject, a.status) /\ UNCHANGED bundle
     \/ /\ a.status # "missing" /\ ~known
        /\ IF Cardinality(bundle) >= MaxArtifacts
           THEN MergeCoverage(a.subject, "omitted") /\ UNCHANGED bundle
           ELSE MergeCoverage(a.subject, a.status) /\ bundle' = bundle \cup {a}
  /\ UNCHANGED <<owner, look, inventory, stage>>

\* A program without code is described by its definition.
Collected ==
  /\ stage = "collect" /\ candidates = <<>> /\ stage' = "done"
  /\ bundle' = IF bundle = {} /\ (\A s \in Subjects : ledger[s] = "none") /\ owner.tools = <<>>
               THEN {[subject |-> "agent", name |-> <<"definition", 0>>, status |-> "captured"]}
               ELSE bundle
  /\ UNCHANGED <<owner, look, inventory, candidates, ledger>>

\* code_artifacts_incomplete.
Incomplete == \E s \in Subjects : Rank(ledger[s]) > Rank("captured")

Next == AppendValue \/ MergeInventories \/ Describe \/ Collect \/ Collected

----------------------------------------------------------------------------
(* Properties. *)

Items(S) == UNION {{Contents(o)[n] : n \in 1..Len(Contents(o))} : o \in S \cap Containers}
Reached ==
  LET first == Elements(owner.fields) \cup Elements(owner.handlers)
      second == first \cup Items(first) IN
  second \cup Items(second)

\* A report that is not marked incomplete carries the whole source of every
\* application callback in the fields, at whatever depth, and of every tool;
\* a bundle always carries something to scan (registry.py:735-738, 1023-1053,
\* 1157-1168; _common.py:57-61).
CompleteCarriesAll ==
  (stage = "done" /\ ~Incomplete) =>
    /\ \A f \in Reached \cap Callbacks : \E a \in bundle : a.name[1] = f /\ a.status = "captured"
    /\ owner.tools # <<>> => \E a \in bundle : a.subject = "tool" /\ a.status = "captured"
    /\ "raises" \notin Reached /\ bundle # {}
=============================================================================
