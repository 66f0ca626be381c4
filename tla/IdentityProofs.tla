--------------------------- MODULE IdentityProofs ---------------------------
(***************************************************************************)
(* Whose identity goes out, and what goes with it: the parts of            *)
(* ClientParts that hold an identity (principals, registrations, tokens,   *)
(* exchanges, keys, sessions), those that make what is sent (sources,      *)
(* bundles, masks, hints, cached contexts), and the decision on a call.    *)
(* Each part has an inductive invariant of its own; EnforcementProofs puts *)
(* them together.                                                          *)
(***************************************************************************)
EXTENDS ClientParts, SequenceTheorems, FiniteSetTheorems, WellFoundedInduction, TLAPS

-----------------------------------------------------------------------------
(* Principals: whatever is held under the gateway's name, in the cache, in *)
(* a call's hand, in a context or as an engine's default, is in the        *)
(* directory of the tenant it is held for.                                 *)
Vouched(e, s) == s # Off /\ s.by = "gateway" => <<e, s.ident>> \in listedIn

Asks == [at : {"rest", "cache", "post", "bind"}, ident : Idents \cup {Off},
         for : {"scope", "default"}, subject : Principals!Subjects \cup {Off}]

Asked     == \A u \in Actors : asks[u].at \in {"cache", "post"} => asks[u].ident \in Idents
Cached    == \A n \in DOMAIN subjects : subjects[n] \in listedIn
Resolving == \A u \in Actors : Vouched(tenant[u], asks[u].subject)
Scoping   == \A u \in Actors : Vouched(tenant[u], scoped[u])
Defaults  == \A e \in Tenants : Vouched(e, default[e])

PrincipalInv == Principals!TypeOK /\ Asked /\ Cached /\ Resolving /\ Scoping /\ Defaults

LEMMA PrincipalStart == ASSUME Principals!Init PROVE PrincipalInv
<1> USE BoundsAssumption DEF Principals!Init, Principals!NoAsk
<1>1. Principals!TypeOK
  BY EmptySeq DEF Principals!TypeOK
<1>2. QED
  BY <1>1 DEF PrincipalInv, Asked, Cached, Resolving, Scoping, Defaults, Vouched

(* _cache_put: the key becomes the last entry, the others keep their order. *)
LEMMA RecentEntries ==
  ASSUME subjects \in Seq(Tenants \X Idents), NEW k \in Tenants \X Idents
  PROVE  /\ Principals!Recent(k) \in Seq(Tenants \X Idents)
         /\ Len(Principals!Recent(k)) =
              IF Principals!Holds(k) THEN Len(subjects) ELSE Len(subjects) + 1
         /\ \A n \in DOMAIN Principals!Recent(k) :
              Principals!Recent(k)[n] = k \/ \E m \in DOMAIN subjects : Principals!Recent(k)[n] = subjects[m]
<1>1. CASE Principals!Holds(k)
  <2> DEFINE w == Principals!Without(k)
             p == Principals!Position(k)
             l == Len(subjects)
  <2>1. l \in Nat \ {0} /\ p \in 1..l /\ DOMAIN subjects = 1..l
    BY <1>1, LenProperties DEF Principals!Holds, Principals!Position
  <2>2. w = [n \in 1..(l - 1) |-> subjects[IF n < p THEN n ELSE n + 1]]
    BY DEF Principals!Without
  <2>3. \A n \in 1..(l - 1) : (IF n < p THEN n ELSE n + 1) \in 1..l
    BY <2>1
  <2>4. \A n \in 1..(l - 1) : w[n] \in Tenants \X Idents /\ \E m \in DOMAIN subjects : w[n] = subjects[m]
    <3> SUFFICES ASSUME NEW n \in 1..(l - 1)
                 PROVE  w[n] \in Tenants \X Idents /\ \E m \in DOMAIN subjects : w[n] = subjects[m]
      OBVIOUS
    <3> DEFINE m == IF n < p THEN n ELSE n + 1
    <3>1. w[n] = subjects[m] BY <2>2
    <3>2. m \in 1..l BY <2>3
    <3> HIDE DEF m, w
    <3>3. QED BY <2>1, <3>1, <3>2, ElementOfSeq
  <2>5. w \in Seq(Tenants \X Idents) /\ Len(w) = l - 1
    BY <2>1, <2>2, <2>4, IsASeq
  <2> HIDE DEF w
  <2>6. Principals!Recent(k) = Append(w, k)
    BY <1>1 DEF w, Principals!Recent
  <2>7. /\ Append(w, k) \in Seq(Tenants \X Idents) /\ Len(Append(w, k)) = l
        /\ DOMAIN Append(w, k) = 1..l
        /\ \A n \in 1..(l - 1) : Append(w, k)[n] = w[n]
        /\ Append(w, k)[l] = k
    <3> HIDE DEF l
    <3>1. /\ Append(w, k) \in Seq(Tenants \X Idents) /\ Len(Append(w, k)) = Len(w) + 1
          /\ \A n \in 1..Len(w) : Append(w, k)[n] = w[n]
          /\ Append(w, k)[Len(w) + 1] = k
      BY <2>5, AppendProperties
    <3>2. DOMAIN Append(w, k) = 1..Len(Append(w, k)) BY <3>1, LenProperties
    <3>3. l - 1 + 1 = l BY <2>1
    <3>4. QED BY <2>5, <3>1, <3>2, <3>3
  <2> HIDE DEF l
  <2>8. QED
    <3> SUFFICES \A n \in 1..l : Append(w, k)[n] = k
                    \/ \E m \in DOMAIN subjects : Append(w, k)[n] = subjects[m]
      BY <2>6, <2>7, <1>1 DEF l
    <3> TAKE n \in 1..l
    <3>1. CASE n = l BY <2>7, <3>1
    <3>2. CASE n # l
      <4>1. n \in 1..(l - 1) BY <2>1, <3>2
      <4>2. QED BY <4>1, <2>4, <2>7
    <3>3. QED BY <3>1, <3>2
<1>2. CASE ~Principals!Holds(k)
  BY <1>2, AppendProperties, LenProperties DEF Principals!Recent
<1>3. QED BY <1>1, <1>2

LEMMA Bound ==
  ASSUME asks \in [Actors -> Asks], NEW u \in Actors, asks[u].ident \in Idents,
         NEW by \in {"gateway", "local"}, Principals!Resolved(u, by)
  PROVE  /\ asks' \in [Actors -> Asks]
         /\ asks'[u].at = "bind" /\ asks'[u].subject = [ident |-> asks[u].ident, by |-> by]
         /\ \A v \in Actors \ {u} : asks'[v] = asks[v]
<1> DEFINE s == [ident |-> asks[u].ident, by |-> by]
<1>1. s \in Principals!Subjects BY DEF Principals!Subjects
<1> HIDE DEF s
<1>2. asks' = [asks EXCEPT ![u].at = "bind", ![u].subject = s]
  BY DEF s, Principals!Resolved, Principals!Bind
<1>3. QED BY <1>1, <1>2 DEF Asks, s

\* The types: a lookup names an identifier, and the cache stays within its size.
LEMMA PrincipalTypes ==
  ASSUME Principals!TypeOK, Asked, [Principals!Next]_principals
  PROVE  Principals!TypeOK' /\ Asked'
<1> USE BoundsAssumption DEF Principals!TypeOK, Principals!At, Asked
<1>0. asks \in [Actors -> Asks] BY DEF Asks
<1>1. ASSUME NEW u \in Actors, NEW i \in Idents, Principals!AsUser(u, i)
      PROVE  Principals!TypeOK' /\ Asked'
  BY <1>1 DEF Principals!AsUser, Principals!Ask
<1>2. ASSUME NEW u \in Actors, Principals!ResetPrincipal(u) PROVE Principals!TypeOK' /\ Asked'
  BY <1>2 DEF Principals!ResetPrincipal
<1>3. ASSUME NEW u \in Actors, Principals!UseDefault(u) PROVE Principals!TypeOK' /\ Asked'
  BY <1>3 DEF Principals!UseDefault, Principals!Ask
<1>4. ASSUME NEW u \in Actors, Principals!Look(u) PROVE Principals!TypeOK' /\ Asked'
  <2> DEFINE k == <<tenant[u], asks[u].ident>>
  <2>1. /\ k \in Tenants \X Idents /\ asks[u].ident \in Idents
        /\ UNCHANGED <<tenant, requester, default, defaultLock, scoped, listedIn>>
    BY <1>4 DEF Principals!Look
  <2>2. CASE Principals!Holds(k)
    <3>1. subjects' = Principals!Recent(k) /\ Principals!Resolved(u, "gateway")
      BY <1>4, <2>2 DEF Principals!Look, Principals!Key
    <3>2. subjects' \in Seq(Tenants \X Idents) /\ Len(subjects') <= CacheMax
      BY <2>1, <2>2, <3>1, RecentEntries
    <3>3. /\ asks' \in [Actors -> Asks] /\ asks'[u].at = "bind"
          /\ \A v \in Actors \ {u} : asks'[v] = asks[v]
      BY <1>0, <2>1, <3>1, Bound
    <3>4. QED BY <2>1, <3>2, <3>3 DEF Asks
  <2>3. CASE ~Principals!Holds(k)
    <3>1. asks' = [asks EXCEPT ![u].at = "post"] /\ UNCHANGED subjects
      BY <1>4, <2>3 DEF Principals!Look, Principals!Key
    <3>2. asks' \in [Actors -> Asks] /\ asks'[u].ident = asks[u].ident
      BY <1>0, <3>1, ZenonT(40) DEF Asks
    <3>3. QED BY <2>1, <3>1, <3>2 DEF Asks
  <2>4. QED BY <2>2, <2>3
<1>5. ASSUME NEW u \in Actors, Principals!PostResolve(u) PROVE Principals!TypeOK' /\ Asked'
  <2> DEFINE k == <<tenant[u], asks[u].ident>>
             s == Principals!Recent(k)
  <2>1. /\ k \in Tenants \X Idents /\ asks[u].ident \in Idents
        /\ UNCHANGED <<tenant, requester, default, defaultLock, scoped>>
        /\ \E by \in {"gateway", "local"} : Principals!Resolved(u, by)
    BY <1>5 DEF Principals!PostResolve
  <2>2. /\ asks' \in [Actors -> Asks] /\ asks'[u].at = "bind"
        /\ \A v \in Actors \ {u} : asks'[v] = asks[v]
    BY <1>0, <2>1, Bound
  <2>3. listedIn' \subseteq Tenants \X Idents
    BY <1>5, <2>1 DEF Principals!PostResolve
  <2>4. s \in Seq(Tenants \X Idents) /\ Len(s) \in Nat /\ Len(s) <= CacheMax + 1
    BY <2>1, RecentEntries, LenProperties
  <2> HIDE DEF s
  <2>5. Len(s) > CacheMax => Tail(s) \in Seq(Tenants \X Idents) /\ Len(Tail(s)) = Len(s) - 1
    BY <2>4, EmptySeq, HeadTailProperties
  <2>6. subjects' \in Seq(Tenants \X Idents) /\ Len(subjects') <= CacheMax
    <3>1. CASE subjects' = subjects BY <3>1
    <3>2. CASE subjects' = Tail(s) /\ Len(s) > CacheMax BY <2>4, <2>5, <3>2
    <3>3. CASE subjects' = s /\ ~(Len(s) > CacheMax) BY <2>4, <3>3
    <3>4. QED BY <1>5, <3>1, <3>2, <3>3 DEF Principals!PostResolve, Principals!Key, s
  <2>7. QED BY <2>1, <2>2, <2>3, <2>6 DEF Asks
<1>6. ASSUME NEW u \in Actors, Principals!Take(u) PROVE Principals!TypeOK' /\ Asked'
  <2>1. /\ asks' = [asks EXCEPT ![u] = Principals!NoAsk]
        /\ UNCHANGED <<tenant, subjects, requester, listedIn>>
    BY <1>6 DEF Principals!Take
  <2>2. Principals!NoAsk \in Asks BY DEF Principals!NoAsk, Asks
  <2>3. asks' \in [Actors -> Asks] /\ asks'[u].at = "rest"
    BY <1>0, <2>1, <2>2 DEF Principals!NoAsk
  <2>4. asks[u].subject \in Principals!Subjects \cup {Off} /\ tenant[u] \in Tenants
    BY <1>0 DEF Asks
  <2>5. /\ scoped' \in [Actors -> Principals!Subjects \cup {Off}]
        /\ default' \in [Tenants -> Principals!Subjects \cup {Off}]
        /\ defaultLock' \in [Tenants -> Actors \cup {Off}]
    BY <1>6, <2>4 DEF Principals!Take
  <2>6. QED BY <2>1, <2>3, <2>5 DEF Asks
<1>7. CASE Principals!ClearCache
  BY <1>7, EmptySeq DEF Principals!ClearCache
<1>8. CASE UNCHANGED principals
  BY <1>8 DEF principals
<1>9. QED
  BY <1>1, <1>2, <1>3, <1>4, <1>5, <1>6, <1>7, <1>8 DEF Principals!Next
\* What is held under the gateway's name.
LEMMA PrincipalStep ==
  ASSUME PrincipalInv, [Principals!Next]_principals PROVE PrincipalInv'
<1>1. Principals!TypeOK' /\ Asked'
  BY PrincipalTypes DEF PrincipalInv
<1>2. /\ asks \in [Actors -> Asks] /\ subjects \in Seq(Tenants \X Idents)
      /\ tenant \in [Actors -> Tenants] /\ scoped \in [Actors -> Principals!Subjects \cup {Off}]
      /\ default \in [Tenants -> Principals!Subjects \cup {Off}]
      /\ Asked /\ Cached /\ Resolving /\ Scoping /\ Defaults
  BY DEF PrincipalInv, Principals!TypeOK, Asks
<1> SUFFICES Cached' /\ Resolving' /\ Scoping' /\ Defaults'
  BY <1>1 DEF PrincipalInv
<1> USE DEF Principals!At
<1>3. ASSUME NEW u \in Actors, NEW i \in Idents, Principals!AsUser(u, i)
      PROVE  Cached' /\ Resolving' /\ Scoping' /\ Defaults'
  BY <1>2, <1>3 DEF Principals!AsUser, Principals!Ask, Cached, Resolving, Scoping, Defaults, Vouched
<1>4. ASSUME NEW u \in Actors, Principals!ResetPrincipal(u)
      PROVE  Cached' /\ Resolving' /\ Scoping' /\ Defaults'
  BY <1>2, <1>4 DEF Principals!ResetPrincipal, Cached, Resolving, Scoping, Defaults, Vouched
<1>5. ASSUME NEW u \in Actors, Principals!UseDefault(u)
      PROVE  Cached' /\ Resolving' /\ Scoping' /\ Defaults'
  BY <1>2, <1>5 DEF Principals!UseDefault, Principals!Ask, Cached, Resolving, Scoping, Defaults, Vouched
<1>6. ASSUME NEW u \in Actors, asks[u].ident \in Idents, NEW by \in {"gateway", "local"},
             Principals!Resolved(u, by), listedIn \subseteq listedIn',
             by = "gateway" => <<tenant[u], asks[u].ident>> \in listedIn',
             UNCHANGED <<tenant, default, scoped>>
      PROVE  Resolving' /\ Scoping' /\ Defaults'
  <2>1. /\ asks'[u].subject = [ident |-> asks[u].ident, by |-> by]
        /\ \A v \in Actors \ {u} : asks'[v] = asks[v]
    BY <1>2, <1>6, Bound
  <2>2. Resolving'
    <3> SUFFICES ASSUME NEW v \in Actors PROVE Vouched(tenant[v], asks[v].subject)'
      BY DEF Resolving
    <3>1. CASE v = u
      <4>1. asks'[u].subject.by = by /\ asks'[u].subject.ident = asks[u].ident
        BY <2>1
      <4>2. QED BY <1>6, <3>1, <4>1 DEF Vouched
    <3>2. CASE v # u BY <1>2, <1>6, <2>1, <3>2 DEF Resolving, Vouched
    <3>3. QED BY <3>1, <3>2
  <2>3. Scoping' BY <1>2, <1>6 DEF Scoping, Vouched
  <2>4. Defaults' BY <1>2, <1>6 DEF Defaults, Vouched
  <2>5. QED BY <2>2, <2>3, <2>4
<1>7. ASSUME NEW u \in Actors, Principals!Look(u)
      PROVE  Cached' /\ Resolving' /\ Scoping' /\ Defaults'
  <2> DEFINE k == <<tenant[u], asks[u].ident>>
  <2>1. /\ asks[u].ident \in Idents /\ k \in Tenants \X Idents
        /\ UNCHANGED <<tenant, default, scoped, listedIn>>
    BY <1>2, <1>7 DEF Principals!Look, Asked
  <2>2. CASE Principals!Holds(k)
    <3>1. subjects' = Principals!Recent(k) /\ Principals!Resolved(u, "gateway")
      BY <1>7, <2>2 DEF Principals!Look, Principals!Key
    <3>2. k \in listedIn BY <1>2, <2>2 DEF Principals!Holds, Cached
    <3>3. Cached' BY <1>2, <2>1, <3>1, <3>2, RecentEntries DEF Cached
    <3>4. QED BY <1>6, <2>1, <3>1, <3>2, <3>3
  <2>3. CASE ~Principals!Holds(k)
    <3>1. asks' = [asks EXCEPT ![u].at = "post"] /\ UNCHANGED subjects
      BY <1>7, <2>3 DEF Principals!Look, Principals!Key
    <3>2. \A v \in Actors : asks'[v].subject = asks[v].subject
      BY <1>2, <3>1 DEF Asks
    <3>3. QED BY <1>2, <2>1, <3>1, <3>2 DEF Cached, Resolving, Scoping, Defaults, Vouched
  <2>4. QED BY <2>2, <2>3
<1>8. ASSUME NEW u \in Actors, Principals!PostResolve(u)
      PROVE  Cached' /\ Resolving' /\ Scoping' /\ Defaults'
  <2> DEFINE k == <<tenant[u], asks[u].ident>>
             s == Principals!Recent(k)
  <2>1. /\ asks[u].ident \in Idents /\ k \in Tenants \X Idents
        /\ UNCHANGED <<tenant, default, scoped>>
    BY <1>2, <1>8 DEF Principals!PostResolve, Asked
  <2>2. CASE /\ listedIn' = listedIn \cup {k} /\ Principals!Resolved(u, "gateway")
             /\ subjects' = IF Len(s) > CacheMax THEN Tail(s) ELSE s
    <3>1. /\ s \in Seq(Tenants \X Idents) /\ DOMAIN s = 1..Len(s) /\ Len(s) \in Nat
          /\ \A n \in 1..Len(s) : s[n] \in listedIn'
      <4>1. /\ s \in Seq(Tenants \X Idents)
            /\ \A n \in DOMAIN s : s[n] = k \/ \E m \in DOMAIN subjects : s[n] = subjects[m]
        BY <1>2, <2>1, RecentEntries
      <4> HIDE DEF s
      <4>2. DOMAIN s = 1..Len(s) /\ Len(s) \in Nat BY <4>1, LenProperties
      <4>3. QED BY <1>2, <2>2, <4>1, <4>2 DEF Cached
    <3> HIDE DEF s
    <3>2. s # <<>> => /\ Tail(s) \in Seq(Tenants \X Idents) /\ Len(Tail(s)) = Len(s) - 1
                      /\ \A n \in 1..Len(Tail(s)) : Tail(s)[n] = s[n + 1]
                      /\ DOMAIN Tail(s) = 1..Len(Tail(s))
      BY <3>1, HeadTailProperties, LenProperties
    <3>3. Len(s) > CacheMax => s # <<>>
      BY BoundsAssumption, EmptySeq
    <3>4. Cached'
      <4>1. CASE Len(s) > CacheMax
        <5>1. \A n \in 1..(Len(s) - 1) : n + 1 \in 1..Len(s) BY <3>1
        <5>2. QED BY <2>2, <3>1, <3>2, <3>3, <4>1, <5>1 DEF Cached
      <4>2. CASE ~(Len(s) > CacheMax) BY <2>2, <3>1, <4>2 DEF Cached
      <4>3. QED BY <4>1, <4>2
    <3>5. QED BY <1>6, <2>1, <2>2, <3>4
  <2>3. CASE Principals!Resolved(u, "local") /\ UNCHANGED <<listedIn, subjects>>
    BY <1>2, <1>6, <2>1, <2>3 DEF Cached
  <2>4. QED BY <1>8, <2>2, <2>3 DEF Principals!PostResolve, Principals!Key
<1>9. ASSUME NEW u \in Actors, Principals!Take(u)
      PROVE  Cached' /\ Resolving' /\ Scoping' /\ Defaults'
  <2>1. /\ asks' = [asks EXCEPT ![u] = Principals!NoAsk] /\ UNCHANGED <<tenant, subjects, listedIn>>
        /\ \/ scoped' = [scoped EXCEPT ![u] = asks[u].subject] /\ UNCHANGED default
           \/ default' = [default EXCEPT ![tenant[u]] = asks[u].subject] /\ UNCHANGED scoped
    BY <1>9 DEF Principals!Take
  <2>2. Cached' BY <1>2, <2>1 DEF Cached
  <2>3. Resolving' BY <1>2, <2>1 DEF Resolving, Vouched, Principals!NoAsk
  <2>4. Scoping' BY <1>2, <2>1 DEF Resolving, Scoping, Vouched
  <2>5. Defaults' BY <1>2, <2>1 DEF Resolving, Defaults, Vouched
  <2>6. QED BY <2>2, <2>3, <2>4, <2>5
<1>10. CASE Principals!ClearCache
  BY <1>2, <1>10, EmptySeq DEF Principals!ClearCache, Cached, Resolving, Scoping, Defaults, Vouched
<1>11. CASE UNCHANGED principals
  BY <1>2, <1>11 DEF principals, Cached, Resolving, Scoping, Defaults, Vouched
<1>12. QED
  BY <1>3, <1>4, <1>5, <1>7, <1>8, <1>9, <1>10, <1>11 DEF Principals!Next

LEMMA PrincipalGood == PrincipalInv => Principals!ActsInOwnDirectory
  BY DEF PrincipalInv, Principals!TypeOK, Scoping, Defaults, Vouched, Principals!Acting,
         Principals!ActsInOwnDirectory

-----------------------------------------------------------------------------
(* Sightings: the remembered address is the remembered registration's own, *)
(* so that no line can name another's.                                     *)
SightingInv ==
  /\ rep = [r \in Reporters |-> rep[r]]
  /\ memory.email \in {Off, memory.id}
  /\ Sightings!AddressIsItsOwn

LEMMA SightingStart == ASSUME Sightings!Init PROVE SightingInv
BY DEF Sightings!Init, SightingInv, Sightings!AddressIsItsOwn

\* What is remembered, and what is said, after a body about any registration.
LEMMA Remembered ==
  ASSUME NEW m, NEW b, m.email \in {Off, m.id}
  PROVE  /\ Sightings!Remember(m, b).email \in {Off, Sightings!Remember(m, b).id}
         /\ Sightings!Context(m, b).email \in {Off, Sightings!Context(m, b).id}
BY DEF Sightings!Remember, Sightings!Context

LEMMA Spoken ==
  ASSUME NEW word, NEW m, NEW b, m.email \in {Off, m.id}, Sightings!AddressIsItsOwn,
         Sightings!Say(word, m, b)
  PROVE  Sightings!AddressIsItsOwn' /\ (word \in Sightings!Spoken => \E l \in lines' : l.code = word)
<1> DEFINE l == [code |-> word, id |-> Sightings!Context(m, b).id,
                 email |-> Sightings!Context(m, b).email]
<1>1. l.code = word /\ l.email \in {Off, l.id} BY Remembered
<1>2. lines' = IF word \notin Sightings!Spoken \/ Sightings!Said(word) THEN lines ELSE lines \cup {l}
  BY DEF Sightings!Say
<1> HIDE DEF l
<1>3. QED BY <1>1, <1>2 DEF Sightings!AddressIsItsOwn, Sightings!Said

LEMMA SightingStep ==
  ASSUME SightingInv, [Sightings!Next]_sightings
  PROVE  SightingInv' /\ Sightings!SaysHeldLine
<1> DEFINE Goal == SightingInv' /\ Sightings!SaysHeldLine
<1>1. /\ rep = [r \in Reporters |-> rep[r]] /\ memory.email \in {Off, memory.id}
      /\ Sightings!AddressIsItsOwn
  BY DEF SightingInv
<1> USE <1>1
<1>2. ASSUME NEW r \in Reporters, NEW g, Sightings!Step(r, g), g.at # "idle" \/ ~Sightings!At(r, "report")
      PROVE  rep' = [q \in Reporters |-> rep'[q]] /\ Sightings!SaysHeldLine
  BY <1>2 DEF Sightings!Step, Sightings!At, Sightings!SaysHeldLine
<1>3. ASSUME NEW b, Sightings!Note(b) PROVE memory'.email \in {Off, memory'.id}
  BY <1>3, Remembered DEF Sightings!Note
<1> USE DEF Sightings!At
<1>4. ASSUME NEW r \in Reporters, NEW boot \in BOOLEAN, Sightings!Begin(r, boot) PROVE Goal
  BY <1>2, <1>4 DEF Sightings!Begin, SightingInv, Sightings!AddressIsItsOwn
<1>5. ASSUME NEW r \in Reporters, Sightings!Headers(r) PROVE Goal
  BY <1>2, <1>3, <1>5 DEF Sightings!Headers, SightingInv, Sightings!AddressIsItsOwn
<1>6. ASSUME NEW r \in Reporters, Sightings!Post(r) PROVE Goal
  BY <1>2, <1>6 DEF Sightings!Post, SightingInv, Sightings!AddressIsItsOwn
<1>7. ASSUME NEW r \in Reporters, Sightings!Answer(r) PROVE Goal
  BY <1>2, <1>3, <1>7 DEF Sightings!Answer, SightingInv, Sightings!AddressIsItsOwn
<1>8. ASSUME NEW r \in Reporters, Sightings!Again(r) PROVE Goal
  BY <1>2, <1>3, <1>8, Spoken DEF Sightings!Again, SightingInv, Sightings!AddressIsItsOwn
<1>9. ASSUME NEW r \in Reporters, Sightings!Report(r) PROVE Goal
  <2> USE <1>9
  <2>1. memory'.email \in {Off, memory'.id} BY <1>3 DEF Sightings!Report
  <2>2. /\ Sightings!AddressIsItsOwn'
        /\ rep[r].held \in Sightings!Spoken => \E l \in lines' : l.code = rep[r].held
    BY <2>1, Spoken DEF Sightings!Report
  <2>3. rep' = [q \in Reporters |-> rep'[q]] /\ \A q \in Reporters \ {r} : rep'[q] = rep[q]
    BY DEF Sightings!Report, Sightings!Step
  <2>4. Sightings!SaysHeldLine BY <2>2, <2>3 DEF Sightings!SaysHeldLine
  <2>5. QED BY <2>1, <2>2, <2>3, <2>4 DEF SightingInv
<1>10. CASE Sightings!Administer
  BY <1>10 DEF Sightings!Administer, SightingInv, Sightings!AddressIsItsOwn, Sightings!SaysHeldLine
<1>11. CASE UNCHANGED sightings
  BY <1>11 DEF sightings, SightingInv, Sightings!AddressIsItsOwn, Sightings!SaysHeldLine
<1>12. QED
  BY <1>4, <1>5, <1>6, <1>7, <1>8, <1>9, <1>10, <1>11 DEF Sightings!Next

-----------------------------------------------------------------------------
(* Keys.  The types: a process in the middle of minting has a key in hand. *)
Minting == {"get", "set", "file", "link"}

KeyTypes ==
  /\ KeyStore!TypeOK
  /\ \A p \in Actors : loader[p].at \in Minting => loader[p].key \in KeyStore!Keys

(* Whoever reads, mints or commits holds the scope's lock; a         *)
(* descriptor, once written, decides which key was ever served.            *)
KeyInv ==
  /\ \A p \in Actors : loader[p].at \in Minting \cup {"read"} => flock = p
  /\ \A p \in Actors : loader[p].at \in Minting => descriptor = Off
  /\ descriptor = Off => served = {}
  /\ descriptor # Off => served \subseteq {descriptor.key}

\* What a process must have found in its environment to stand where it does.
AbleInv ==
  /\ \A p \in Actors : loader[p].at \in Minting \cup {"lock", "read", "loaded", "mounted"} =>
       place[p].crypto /\ place[p].mounted # "bad"
  /\ \A p \in Actors : loader[p].at = "mounted" => place[p].mounted = "good"
  /\ \A p \in Actors : loader[p].at \in {"read"} \cup Minting => directory # "bad"
  /\ \A p \in Actors : loader[p].at \in {"get", "set", "link"} => place[p].keyring
  /\ \A p \in Actors : loader[p].at = "loaded" =>
       (place[p].files \/ place[p].keyring) /\ directory # "bad" /\ descriptor # Off

LEMMA KeyStart == ASSUME KeyStore!Init PROVE KeyTypes /\ KeyInv /\ AbleInv
<1> USE BoundsAssumption DEF KeyStore!Init, KeyStore!Idle, Minting
<1>1. KeyStore!TypeOK
  BY DEF KeyStore!TypeOK, KeyStore!Places, KeyStore!Descriptors, KeyStore!Keys
<1>2. QED BY <1>1 DEF KeyTypes, KeyInv, AbleInv

\* Two moves of one process: to another step, or to a step with a key.
LEMMA Went ==
  ASSUME KeyTypes, NEW p \in Actors, NEW a, KeyStore!Goto(p, a)
  PROVE  /\ loader'[p].at = a /\ loader'[p].key = loader[p].key
         /\ \A q \in Actors \ {p} : loader'[q] = loader[q]
BY DEF KeyTypes, KeyStore!TypeOK, KeyStore!Goto

LEMMA Took ==
  ASSUME KeyTypes, NEW p \in Actors, NEW a, NEW k,
         loader' = [loader EXCEPT ![p] = [at |-> a, key |-> k]]
  PROVE  /\ loader'[p].at = a /\ loader'[p].key = k
         /\ \A q \in Actors \ {p} : loader'[q] = loader[q]
BY DEF KeyTypes, KeyStore!TypeOK

LEMMA KeyTypesStep ==
  ASSUME KeyTypes, [KeyStore!Next]_keys PROVE KeyTypes'
<1> USE BoundsAssumption
    DEF KeyTypes, KeyStore!TypeOK, Minting, KeyStore!At, KeyStore!Goto, KeyStore!Fail, KeyStore!Descriptors, KeyStore!Keys
<1>1. ASSUME NEW p \in Actors, KeyStore!Load(p) PROVE KeyTypes'
  BY <1>1 DEF KeyStore!Load
<1>2. ASSUME NEW p \in Actors, KeyStore!Lock(p) PROVE KeyTypes'
  BY <1>2 DEF KeyStore!Lock
<1>3. ASSUME NEW p \in Actors, KeyStore!Find(p) PROVE KeyTypes'
  <2> USE <1>3
  <2>1. PICK a \in {"loaded", "failed"}, k \in KeyStore!Keys \cup {Off} :
           loader' = [loader EXCEPT ![p] = [at |-> a, key |-> k]]
    BY DEF KeyStore!Find, KeyStore!Serve, KeyStore!GiveUp
  <2>2. served' \subseteq KeyStore!Keys /\ flock' = Off
    BY DEF KeyStore!Find, KeyStore!Serve, KeyStore!GiveUp
  <2>3. UNCHANGED <<place, directory, descriptor, ring, minted, crashes, wipes>>
    BY DEF KeyStore!Find
  <2>4. QED BY <2>1, <2>2, <2>3
<1>4. ASSUME NEW p \in Actors, KeyStore!Create(p) PROVE KeyTypes'
  BY <1>4 DEF KeyStore!Create, KeyStore!Mint
<1>5. ASSUME NEW p \in Actors, KeyStore!Get(p) PROVE KeyTypes'
  BY <1>5 DEF KeyStore!Get
<1>6. ASSUME NEW p \in Actors, KeyStore!Put(p) PROVE KeyTypes'
  BY <1>6 DEF KeyStore!Put
<1>7. ASSUME NEW p \in Actors, KeyStore!Link(p) \/ KeyStore!File(p) PROVE KeyTypes'
  <2> USE <1>7
  <2> DEFINE k == loader[p].key
  <2>1. loader[p].at \in Minting /\ k \in KeyStore!Keys
    BY DEF KeyStore!Link, KeyStore!File
  <2>2. UNCHANGED <<place, directory, ring, minted, crashes, wipes>> /\ flock' = Off
    BY DEF KeyStore!Link, KeyStore!File, KeyStore!Commit, KeyStore!Serve, KeyStore!GiveUp
  <2>3. CASE \E storage \in {"keyring", "file"} : KeyStore!Commit(p, storage)
    <3>1. /\ loader' = [loader EXCEPT ![p] = [at |-> "loaded", key |-> k]]
          /\ served' = served \cup {k}
          /\ \E storage \in {"keyring", "file"} : descriptor' = [storage |-> storage, key |-> k]
      BY <2>3 DEF KeyStore!Commit, KeyStore!Serve
    <3> HIDE DEF k
    <3>2. QED BY <2>1, <2>2, <3>1
  <2>4. CASE KeyStore!GiveUp(p) /\ UNCHANGED descriptor
    BY <2>2, <2>4 DEF KeyStore!GiveUp
  <2>5. QED BY <2>3, <2>4 DEF KeyStore!Link, KeyStore!File
<1>8. ASSUME NEW p \in Actors, KeyStore!Crash(p) PROVE KeyTypes'
  BY <1>8 DEF KeyStore!Crash, KeyStore!Idle
<1>9. CASE KeyStore!Wipe
  BY <1>9 DEF KeyStore!Wipe
<1>10. CASE UNCHANGED keys
  BY <1>10 DEF keys
<1>11. QED
  BY <1>1, <1>2, <1>3, <1>4, <1>5, <1>6, <1>7, <1>8, <1>9, <1>10 DEF KeyStore!Next

LEMMA KeyStep ==
  ASSUME KeyTypes, KeyInv, AbleInv, [KeyStore!Next]_keys PROVE KeyInv' /\ AbleInv'
<1> USE OffAssumption DEF KeyInv, AbleInv, Minting, KeyStore!At, KeyStore!Fail
<1>1. ASSUME NEW p \in Actors, KeyStore!Load(p) PROVE KeyInv' /\ AbleInv'
  <2>1. UNCHANGED <<place, directory, descriptor, ring, flock, minted, crashes, wipes, served>>
    BY <1>1 DEF KeyStore!Load
  <2>2. loader[p].at \in {"idle", "loaded", "mounted", "failed"}
    BY <1>1 DEF KeyStore!Load
  <2>3. PICK a \in {"failed", "mounted", "lock"} :
          /\ loader' = [loader EXCEPT ![p] = [at |-> a, key |-> Off]]
          /\ a = "mounted" => place[p].crypto /\ place[p].mounted = "good"
          /\ a = "lock" => place[p].crypto /\ place[p].mounted # "bad" /\ place[p].mounted # "good"
    BY <1>1 DEF KeyStore!Load
  <2>4. loader'[p].at = a /\ \A q \in Actors \ {p} : loader'[q] = loader[q]
    BY <2>3, Took
  <2>5. QED BY <2>1, <2>2, <2>3, <2>4
<1>2. ASSUME NEW p \in Actors, KeyStore!Lock(p) PROVE KeyInv' /\ AbleInv'
  <2>1. UNCHANGED <<place, directory, descriptor, ring, minted, crashes, wipes, served>>
    BY <1>2 DEF KeyStore!Lock
  <2>2. CASE KeyStore!Fail(p) /\ UNCHANGED flock
    <3>1. /\ loader'[p].at = "failed" /\ loader[p].at = "lock"
          /\ \A q \in Actors \ {p} : loader'[q] = loader[q]
      BY <1>2, <2>2, Took DEF KeyStore!Lock
    <3>2. QED BY <2>1, <2>2, <3>1
  <2>3. CASE flock = Off /\ flock' = p /\ KeyStore!Goto(p, "read") /\ directory # "bad"
    <3>1. /\ loader'[p].at = "read" /\ loader[p].at = "lock"
          /\ \A q \in Actors \ {p} : loader'[q] = loader[q]
      BY <1>2, <2>3, Went DEF KeyStore!Lock
    <3>2. QED BY <2>1, <2>3, <3>1
  <2>4. QED BY <1>2, <2>2, <2>3 DEF KeyStore!Lock
<1>3. ASSUME NEW p \in Actors, KeyStore!Find(p) PROVE KeyInv' /\ AbleInv'
  <2> DEFINE good == \/ descriptor.storage = "file" /\ place[p].files
                     \/ descriptor.storage = "keyring" /\ place[p].keyring /\ ring = descriptor.key
  <2>1. /\ loader[p].at = "read" /\ descriptor # Off /\ flock' = Off
        /\ UNCHANGED <<place, directory, descriptor, ring, minted, crashes, wipes>>
    BY <1>3 DEF KeyStore!Find, KeyStore!Serve, KeyStore!GiveUp
  <2>2. CASE good
    <3>1. loader' = [loader EXCEPT ![p] = [at |-> "loaded", key |-> descriptor.key]]
      BY <1>3, <2>2 DEF KeyStore!Find, KeyStore!Serve
    <3>2. loader'[p].at = "loaded" /\ \A q \in Actors \ {p} : loader'[q] = loader[q]
      BY <3>1, Took
    <3>3. served' = served \cup {descriptor.key}
      BY <1>3, <2>2 DEF KeyStore!Find, KeyStore!Serve
    <3>4. QED BY <2>1, <2>2, <3>2, <3>3
  <2>3. CASE ~good
    <3>1. loader' = [loader EXCEPT ![p] = [at |-> "failed", key |-> Off]] /\ served' = served
      BY <1>3, <2>3 DEF KeyStore!Find, KeyStore!GiveUp
    <3>2. loader'[p].at = "failed" /\ \A q \in Actors \ {p} : loader'[q] = loader[q]
      BY <3>1, Took
    <3>3. QED BY <2>1, <3>1, <3>2
  <2>4. QED BY <2>2, <2>3
<1>4. ASSUME NEW p \in Actors, KeyStore!Create(p) PROVE KeyInv' /\ AbleInv'
  BY <1>4, Took DEF KeyStore!Create, KeyStore!Mint
<1>5. ASSUME NEW p \in Actors, KeyStore!Get(p) PROVE KeyInv' /\ AbleInv'
  BY <1>5, Took, Went DEF KeyStore!Get
<1>6. ASSUME NEW p \in Actors, KeyStore!Put(p) PROVE KeyInv' /\ AbleInv'
  BY <1>6, Went DEF KeyStore!Put
<1>7. ASSUME NEW p \in Actors, NEW storage \in {"keyring", "file"}, KeyStore!Commit(p, storage),
             loader[p].at \in Minting, storage = "keyring" => place[p].keyring,
             storage = "file" => place[p].files
      PROVE  KeyInv' /\ AbleInv'
  <2>1. descriptor' # Off /\ descriptor'.key = loader[p].key
    BY <1>7 DEF KeyStore!Commit, KeyStore!Descriptors, KeyTypes
  <2>2. loader'[p].at = "loaded" /\ \A q \in Actors \ {p} : loader'[q] = loader[q]
    BY <1>7, Took DEF KeyStore!Commit, KeyStore!Serve
  <2>3. QED BY <1>7, <2>1, <2>2 DEF KeyStore!Commit, KeyStore!Serve
<1>8. ASSUME NEW p \in Actors, KeyStore!Link(p) \/ KeyStore!File(p) PROVE KeyInv' /\ AbleInv'
  <2>1. CASE KeyStore!Link(p) BY <1>7, <2>1 DEF KeyStore!Link
  <2>2. CASE KeyStore!File(p) /\ place[p].files BY <1>7, <2>2 DEF KeyStore!File
  <2>3. CASE KeyStore!File(p) /\ ~place[p].files
    <3>1. /\ loader' = [loader EXCEPT ![p] = [at |-> "failed", key |-> Off]] /\ flock' = Off
          /\ UNCHANGED <<place, directory, descriptor, served>> /\ flock = p
      BY <2>3 DEF KeyStore!File, KeyStore!GiveUp
    <3>2. loader'[p].at = "failed" /\ \A q \in Actors \ {p} : loader'[q] = loader[q]
      BY <3>1, Took
    <3>3. QED BY <3>1, <3>2
  <2>4. QED BY <1>8, <2>1, <2>2, <2>3
<1>9. ASSUME NEW p \in Actors, KeyStore!Crash(p) PROVE KeyInv' /\ AbleInv'
  <2>1. /\ loader' = [loader EXCEPT ![p] = [at |-> "idle", key |-> Off]]
        /\ flock' = (IF flock = p THEN Off ELSE flock)
        /\ UNCHANGED <<place, directory, descriptor, served>>
    BY <1>9 DEF KeyStore!Crash, KeyStore!Idle
  <2>2. loader'[p].at = "idle" /\ \A q \in Actors \ {p} : loader'[q] = loader[q]
    BY <2>1, Took
  <2>3. QED BY <2>1, <2>2
<1>10. CASE KeyStore!Wipe
  BY <1>10 DEF KeyStore!Wipe
<1>11. CASE UNCHANGED keys
  BY <1>11 DEF keys
<1>12. QED
  BY <1>1, <1>2, <1>3, <1>4, <1>5, <1>6, <1>8, <1>9, <1>10, <1>11 DEF KeyStore!Next

-----------------------------------------------------------------------------
(* Sessions: the deployment's own kind, and the budget.                    *)
SessionInv ==
  /\ now \in Nat /\ deadline \in Nat /\ wakeAt \in Nat /\ sentAt \in Nat
  /\ assertion \in Clouds => opted = assertion
  /\ Session!SentInTime
  /\ Session!NeverAmbient

LEMMA SessionStart == ASSUME Session!Init PROVE SessionInv
BY OffAssumption DEF Session!Init, SessionInv, Session!SentInTime, Session!NeverAmbient

LEMMA SessionStep ==
  ASSUME SessionInv, [Session!Next]_brokering PROVE SessionInv'
<1> USE BoundsAssumption, OffAssumption
    DEF SessionInv, Session!SentInTime, Session!NeverAmbient, Session!Step, Session!Fail,
        Session!client, Session!gateway, Session!timing, Session!world
<1>1. CASE Session!Refresh
  <2> USE <1>1
  <2>1. deadline' = now + Budget /\ stage' = "next" BY DEF Session!Refresh
  <2>2. UNCHANGED <<now, opted, wakeAt, sentAt, assertion, askedOf>> BY DEF Session!Refresh
  <2>3. QED BY <2>1, <2>2
<1>2. CASE Session!Attempt BY <1>2 DEF Session!Attempt, Session!Send
<1>3. CASE Session!Capacity BY <1>3 DEF Session!Capacity
<1>4. CASE Session!Wake BY <1>4 DEF Session!Wake
<1>5. CASE Session!Refused BY <1>5 DEF Session!Refused
<1>6. CASE Session!Enrolled
  BY <1>6 DEF Session!Enrolled, Session!Send, Session!Allowed, Session!AllKinds
<1>7. CASE Session!Challenged
  BY <1>7 DEF Session!Challenged, Session!Allowed, Session!AllKinds
<1>8. CASE Session!Assert BY <1>8 DEF Session!Assert, Session!Send
<1>9. CASE Session!Issued BY <1>9 DEF Session!Issued
<1>10. CASE Session!Administer BY <1>10 DEF Session!Administer
<1>11. CASE Session!Tick BY <1>11 DEF Session!Tick
<1>12. CASE UNCHANGED brokering BY <1>12 DEF brokering
<1>13. QED
  BY <1>1, <1>2, <1>3, <1>4, <1>5, <1>6, <1>7, <1>8, <1>9, <1>10, <1>11, <1>12 DEF Session!Next

-----------------------------------------------------------------------------
(* Tokens.  The types that the comparisons of times need.                  *)
CallerStates == {"idle", "look", "return", "lock", "again", "trip", "keep", "due", "done", "failed"}
CallerRecords == [at : CallerStates, looked : Nat, got : Nat]

TokenTypes ==
  /\ clock \in Nat \ {0} /\ token \in Nat /\ refreshAt \in Nat
  /\ caller \in [Actors -> CallerRecords]

(* The holder of the lock is the one that exchanges; its new token is due  *)
(* no earlier than the old one, and whoever is about to read the cache has *)
(* looked before the old one was due.                                      *)
TokenInv ==
  /\ refreshAt <= token
  /\ \A t \in Actors : caller[t].at \in {"trip", "keep", "due"} => holder = t
  /\ \A t \in Actors : caller[t].at \in {"keep", "due"} => trip = "none" /\ refreshAt <= caller[t].got
  /\ \A t \in Actors : caller[t].at \in {"keep", "due", "done"} => caller[t].looked <= caller[t].got
  /\ \A t \in Actors : caller[t].at = "return" => caller[t].looked < refreshAt
  /\ \A t \in Actors : caller[t].at = "trip" => trip # "none"
  /\ trip # "none" => /\ refreshAt <= clock
                      /\ holder \in Actors /\ caller[holder].at = "trip"

LEMMA TokenStart == ASSUME Tokens!Init PROVE TokenTypes /\ TokenInv
<1>1. /\ clock = 1 /\ token = 0 /\ refreshAt = 0 /\ trip = "none"
      /\ caller = [t \in Actors |-> [at |-> "idle", looked |-> 0, got |-> 0]]
  BY DEF Tokens!Init, Tokens!Idle
<1>2. [at |-> "idle", looked |-> 0, got |-> 0] \in CallerRecords
  BY DEF CallerRecords, CallerStates
<1>3. QED BY <1>1, <1>2 DEF TokenTypes, TokenInv

\* Three moves of one caller: to another step, to a step with a time looked
\* at, and to one with a token received.
LEMMA CallerGoes ==
  ASSUME TokenTypes, NEW t \in Actors, NEW a \in CallerStates, Tokens!Goto(t, a)
  PROVE  /\ caller' \in [Actors -> CallerRecords]
         /\ caller'[t].at = a /\ caller'[t].looked = caller[t].looked /\ caller'[t].got = caller[t].got
         /\ \A u \in Actors \ {t} : caller'[u] = caller[u]
BY DEF TokenTypes, CallerRecords, Tokens!Goto

LEMMA CallerReceives ==
  ASSUME TokenTypes, NEW t \in Actors, NEW ttl \in 0..2,
         caller' = [caller EXCEPT ![t].at = "keep", ![t].looked = clock, ![t].got = clock + ttl]
  PROVE  /\ caller' \in [Actors -> CallerRecords]
         /\ caller'[t].at = "keep" /\ caller'[t].looked = clock /\ caller'[t].got = clock + ttl
         /\ \A u \in Actors \ {t} : caller'[u] = caller[u]
<1>1. clock \in Nat /\ clock + ttl \in Nat /\ "keep" \in CallerStates
  BY DEF TokenTypes, CallerStates
<1>2. QED BY <1>1 DEF TokenTypes, CallerRecords

\* The exchange: it goes on, gives a token that is due later than now, or fails.
TokenGoal == TokenTypes' /\ TokenInv'

LEMMA TokenTrip ==
  ASSUME TokenTypes, TokenInv, NEW t \in Actors, caller[t].at = "trip",
         UNCHANGED <<clock, token, refreshAt>>,
         \/ Tokens!Receive(t)
         \/ Tokens!Fail(t)
         \/ trip' # "none" /\ UNCHANGED <<caller, holder>>
  PROVE  TokenGoal
<1>1. holder = t /\ \A u \in Actors \ {t} : caller[u].at \notin {"trip", "keep", "due"}
  BY DEF TokenInv
<1> USE <1>1
<1>2. trip # "none" /\ refreshAt <= clock BY DEF TokenInv
<1>3. CASE Tokens!Receive(t)
  <2> USE <1>3
  <2>1. PICK ttl \in 0..2 :
          caller' = [caller EXCEPT ![t].at = "keep", ![t].looked = clock, ![t].got = clock + ttl]
    BY DEF Tokens!Receive
  <2>2. /\ caller' \in [Actors -> CallerRecords]
        /\ caller'[t].at = "keep" /\ caller'[t].looked = clock /\ caller'[t].got = clock + ttl
        /\ \A u \in Actors \ {t} : caller'[u] = caller[u]
    BY <2>1, CallerReceives
  <2>3. trip' = "none" /\ holder' = holder BY DEF Tokens!Receive
  <2>4. QED BY <1>2, <2>2, <2>3 DEF TokenGoal, TokenTypes, TokenInv
<1>4. CASE Tokens!Fail(t)
  <2> USE <1>4
  <2>1. /\ caller' \in [Actors -> CallerRecords] /\ caller'[t].at = "failed"
        /\ \A u \in Actors \ {t} : caller'[u] = caller[u]
    BY CallerGoes DEF Tokens!Fail, CallerStates
  <2>2. trip' = "none" BY DEF Tokens!Fail
  <2>3. QED BY <2>1, <2>2 DEF TokenGoal, TokenTypes, TokenInv
<1>5. CASE trip' # "none" /\ UNCHANGED <<caller, holder>>
  BY <1>2, <1>5 DEF TokenGoal, TokenTypes, TokenInv
<1>6. QED BY <1>3, <1>4, <1>5

LEMMA TokenStep ==
  ASSUME TokenTypes, TokenInv, [Tokens!Next]_tokens PROVE TokenGoal
<1> USE DEF Tokens!At
<1>1. ASSUME NEW t \in Actors, Tokens!GetToken(t) PROVE TokenGoal
  <2> USE <1>1
  <2>1. caller' = [caller EXCEPT ![t] = [at |-> "look", looked |-> 0, got |-> 0]]
    <3>1. [Tokens!Idle EXCEPT !.at = "look"] = [at |-> "look", looked |-> 0, got |-> 0]
      BY DEF Tokens!Idle
    <3>2. QED BY <3>1 DEF Tokens!GetToken
  <2>2. UNCHANGED <<clock, token, refreshAt, holder, trip>>
    BY DEF Tokens!GetToken, Tokens!exchange
  <2>3. caller[t].at \in {"idle", "done", "failed"} BY DEF Tokens!GetToken
  <2>4. QED
    BY <2>1, <2>2, <2>3 DEF TokenGoal, TokenTypes, TokenInv, CallerRecords, CallerStates
<1>2. ASSUME NEW t \in Actors, Tokens!Look(t) PROVE TokenGoal
  <2> USE <1>2
  <2>1. PICK a \in {"return", "lock"} :
          /\ caller' = [caller EXCEPT ![t].at = a, ![t].looked = clock]
          /\ a = "return" => clock < refreshAt
    BY DEF Tokens!Look, Tokens!Fresh
  <2>2. UNCHANGED <<clock, token, refreshAt, holder, trip>> /\ caller[t].at = "look"
    BY DEF Tokens!Look, Tokens!exchange
  <2>3. /\ caller' \in [Actors -> CallerRecords]
        /\ caller'[t].at = a /\ caller'[t].looked = clock
        /\ \A u \in Actors \ {t} : caller'[u] = caller[u]
    BY <2>1 DEF TokenTypes, CallerRecords, CallerStates
  <2>4. QED BY <2>1, <2>2, <2>3 DEF TokenGoal, TokenTypes, TokenInv
<1>3. ASSUME NEW t \in Actors, Tokens!Return(t) PROVE TokenGoal
  <2> USE <1>3
  <2>1. caller' = [caller EXCEPT ![t].at = "done", ![t].got = token] BY DEF Tokens!Return
  <2>2. UNCHANGED <<clock, token, refreshAt, holder, trip>> /\ caller[t].at = "return"
    BY DEF Tokens!Return, Tokens!exchange
  <2>3. /\ caller' \in [Actors -> CallerRecords]
        /\ caller'[t].at = "done" /\ caller'[t].looked = caller[t].looked /\ caller'[t].got = token
        /\ \A u \in Actors \ {t} : caller'[u] = caller[u]
    BY <2>1 DEF TokenTypes, CallerRecords, CallerStates
  <2>4. caller[t].looked \in Nat BY DEF TokenTypes, CallerRecords
  <2>5. QED BY <2>2, <2>3, <2>4 DEF TokenGoal, TokenTypes, TokenInv
<1>4. ASSUME NEW t \in Actors, Tokens!Lock(t) PROVE TokenGoal
  <2> USE <1>4
  <2>1. UNCHANGED <<clock, token, refreshAt>> /\ caller[t].at = "lock" /\ holder = Off
    BY DEF Tokens!Lock
  <2> USE <2>1
  <2>2. \A u \in Actors : caller[u].at \notin {"trip", "keep", "due"}
    BY OffAssumption DEF TokenInv
  <2>3. CASE Tokens!Fresh
    <3> USE <2>3
    <3>1. caller' = [caller EXCEPT ![t] = [at |-> "done", looked |-> clock, got |-> token]]
      BY DEF Tokens!Lock
    <3>2. UNCHANGED <<holder, trip>> BY DEF Tokens!Lock
    <3>3. clock < refreshAt BY DEF Tokens!Fresh
    <3>4. /\ caller' \in [Actors -> CallerRecords]
          /\ caller'[t].at = "done" /\ caller'[t].looked = clock /\ caller'[t].got = token
          /\ \A u \in Actors \ {t} : caller'[u] = caller[u]
      BY <3>1 DEF TokenTypes, CallerRecords, CallerStates
    <3>5. QED BY <2>2, <3>2, <3>3, <3>4 DEF TokenGoal, TokenTypes, TokenInv
  <2>4. CASE ~Tokens!Fresh
    <3> USE <2>4
    <3>1. /\ caller' \in [Actors -> CallerRecords] /\ caller'[t].at = "trip"
          /\ \A u \in Actors \ {t} : caller'[u] = caller[u]
      BY CallerGoes DEF Tokens!Lock, CallerStates
    <3>2. holder' = t /\ trip' = "begin" BY DEF Tokens!Lock
    <3>3. refreshAt <= clock BY DEF Tokens!Fresh, TokenInv, TokenTypes
    <3>4. QED BY <2>2, <3>1, <3>2, <3>3 DEF TokenGoal, TokenTypes, TokenInv
  <2>5. QED BY <2>3, <2>4
<1>5. ASSUME NEW t \in Actors, Tokens!Keep(t) PROVE TokenGoal
  <2> USE <1>5
  <2>1. /\ token' = caller[t].got /\ caller[t].at = "keep"
        /\ UNCHANGED <<clock, refreshAt, holder, trip>>
    BY DEF Tokens!Keep, Tokens!exchange
  <2>2. /\ caller' \in [Actors -> CallerRecords]
        /\ caller'[t].at = "due" /\ caller'[t].looked = caller[t].looked /\ caller'[t].got = caller[t].got
        /\ \A u \in Actors \ {t} : caller'[u] = caller[u]
    BY CallerGoes DEF Tokens!Keep, CallerStates
  <2>3. caller[t].got \in Nat BY DEF TokenTypes, CallerRecords
  <2>4. QED BY <2>1, <2>2, <2>3 DEF TokenGoal, TokenTypes, TokenInv
<1>6. ASSUME NEW t \in Actors, Tokens!KeepTime(t) PROVE TokenGoal
  <2> USE <1>6
  <2>1. /\ token' = caller[t].got /\ refreshAt' = caller[t].got /\ caller[t].at = "due"
        /\ UNCHANGED <<clock, trip>>
    BY DEF Tokens!KeepTime, Tokens!exchange
  <2>2. /\ caller' \in [Actors -> CallerRecords]
        /\ caller'[t].at = "done" /\ caller'[t].looked = caller[t].looked /\ caller'[t].got = caller[t].got
        /\ \A u \in Actors \ {t} : caller'[u] = caller[u]
    BY CallerGoes DEF Tokens!KeepTime, CallerStates
  <2>3. \A u \in Actors : caller[u].got \in Nat /\ caller[u].looked \in Nat
    BY DEF TokenTypes, CallerRecords
  <2>4. /\ trip = "none" /\ \A u \in Actors \ {t} : caller[u].at \notin {"trip", "keep", "due"}
        /\ refreshAt <= caller[t].got
    BY <2>1 DEF TokenInv
  <2>5. QED BY <2>1, <2>2, <2>3, <2>4 DEF TokenGoal, TokenTypes, TokenInv
<1>7. ASSUME NEW t \in Actors,
             Tokens!Zeroid(t) \/ Tokens!Host(t) \/ Tokens!Entra(t) \/ Tokens!Issuer(t)
      PROVE  TokenGoal
  <2> USE <1>7
  <2>1. caller[t].at = "trip" /\ UNCHANGED <<clock, token, refreshAt>>
    BY DEF Tokens!Zeroid, Tokens!Host, Tokens!Entra, Tokens!Issuer, Tokens!Trip
  <2>2. \/ Tokens!Receive(t)
        \/ Tokens!Fail(t)
        \/ trip' # "none" /\ UNCHANGED <<caller, holder>>
    BY DEF Tokens!Zeroid, Tokens!Host, Tokens!Entra, Tokens!Issuer, Tokens!Advance
  <2>3. QED BY <2>1, <2>2, TokenTrip
<1>8. CASE Tokens!Tick
  BY <1>8 DEF Tokens!Tick, Tokens!exchange, TokenGoal, TokenTypes, TokenInv
<1>9. CASE UNCHANGED tokens
  BY <1>9 DEF tokens, TokenGoal, TokenTypes, TokenInv
<1>10. QED
  BY <1>1, <1>2, <1>3, <1>4, <1>5, <1>6, <1>7, <1>8, <1>9 DEF Tokens!Next

-----------------------------------------------------------------------------
(* Exchanges.  What is listed lists the method in use; what was not listed *)
(* was configured; a second attempt has the nonce that was asked for.      *)
Authenticates == IF listed = Off THEN configured /\ ~bound ELSE method \in listed

ExchangeInv ==
  /\ time \in Nat /\ keptUntil \in Nat
  /\ listed # Off => method \in listed
  /\ bound /\ listed = Off => keptUntil = 0
  /\ ~bound /\ endpoint # Off /\ listed = Off => configured
  /\ phase \in {"prepare", "post"} => Authenticates
  /\ attempt2 /\ ~rotated => nonce = wanted
  /\ Exchange!NonceFollowed

LEMMA ExchangeStart == ASSUME Exchange!Init PROVE ExchangeInv
BY DEF Exchange!Init, ExchangeInv, Exchange!NonceFollowed

LEMMA ExchangeStep ==
  ASSUME ExchangeInv, [Exchange!Next]_exchange
  PROVE  ExchangeInv' /\ Exchange!KeepsEndpoint
<1> DEFINE Goal == ExchangeInv' /\ Exchange!KeepsEndpoint
<1> USE BoundsAssumption, OffAssumption
    DEF ExchangeInv, Authenticates, Exchange!NonceFollowed, Exchange!KeepsEndpoint, Exchange!fixed
<1>1. CASE Exchange!Reuse
  BY <1>1 DEF Exchange!Reuse, Exchange!Known, Exchange!Begin
<1>2. CASE Exchange!Discover
  <2> USE <1>2
  <2>1. /\ ~Exchange!Known /\ ~attempt2' /\ ~rotated'
        /\ UNCHANGED <<time, bound, explicit, configured, nonce, wanted>>
    BY DEF Exchange!Discover
  <2> USE <2>1
  <2>2. CASE phase' = "rest" /\ UNCHANGED <<method, listed, endpoint, keptUntil>>
    BY <2>2
  <2>3. ASSUME NEW offer \in Offers, NEW e \in {"e1", "e2"}, ~Exchange!Differs(e),
               Exchange!Read(offer, e),
               keptUntil' = IF bound THEN time + MetadataAge ELSE keptUntil
        PROVE  Goal
    <3> USE <2>3
    <3>1. method' \in offer /\ listed' = offer /\ endpoint' = e /\ phase' = "prepare"
      BY DEF Exchange!Read, Exchange!Choose
    <3>2. offer # Off OBVIOUS
    <3>3. endpoint # Off => endpoint' = endpoint
      BY <3>1 DEF Exchange!Differs, Exchange!Known
    <3>4. time' \in Nat /\ keptUntil' \in Nat OBVIOUS
    <3>5. QED BY <3>1, <3>2, <3>3, <3>4
  <2>4. QED BY <2>2, <2>3 DEF Exchange!Discover
<1>3. CASE Exchange!Prepare BY <1>3 DEF Exchange!Prepare
<1>4. CASE Exchange!Challenge BY <1>4 DEF Exchange!Challenge
<1>5. CASE Exchange!Answer BY <1>5 DEF Exchange!Answer
<1>6. CASE Exchange!Rotate BY <1>6 DEF Exchange!Rotate
<1>7. CASE Exchange!Provide BY <1>7 DEF Exchange!Provide
<1>8. CASE Exchange!Tick BY <1>8 DEF Exchange!Tick
<1>9. CASE UNCHANGED exchange BY <1>9 DEF exchange
<1>10. QED
  BY <1>1, <1>2, <1>3, <1>4, <1>5, <1>6, <1>7, <1>8, <1>9 DEF Exchange!Next

-----------------------------------------------------------------------------
(* Requests of an MCP session: whoever holds the lock of the credential    *)
(* has the token that its proof will be made for; until somebody else      *)
(* cancels there is one reason in the list for each request that failed.   *)
Failed == {r \in Actors : rpc[r].at = "failed"}

RpcRecords ==
  [at : {"idle", "hook", "token", "proof", "sent", "failed", "done"},
   mode : {"none", "identity", "explicit"}, token : Nat, proof : Nat, gone : BOOLEAN,
   outcome : {"none", "answer", "told", "cancelled"}]

RpcTypes ==
  /\ signer \in Nat /\ rpc \in [Actors -> RpcRecords] /\ failures \in Seq(Actors)
  /\ IsFiniteSet(Failed)

RpcInv ==
  /\ \A r \in Actors : rpc[r].at \in {"token", "proof"} => signing = r
  /\ \A r \in Actors : rpc[r].at = "proof" /\ rpc[r].mode = "identity" => rpc[r].token = signer
  /\ \A r \in Actors : rpc[r].at = "sent" /\ rpc[r].mode = "identity" => rpc[r].proof = rpc[r].token
  /\ ~cancels => /\ Len(failures) = Cardinality(Failed)
                 /\ \A r \in Actors : rpc[r].gone => rpc[r].at = "done"
                 /\ \A r \in Actors : rpc[r].outcome # "cancelled"

LEMMA RpcStart == ASSUME Mcp!Init PROVE RpcTypes /\ RpcInv
<1>1. /\ signer = 0 /\ failures = <<>> /\ ~cancels
      /\ rpc = [r \in Actors |-> [at |-> "idle", mode |-> "none", token |-> 0, proof |-> 0,
                                   gone |-> FALSE, outcome |-> "none"]]
  BY DEF Mcp!Init, Mcp!Idle
<1>2. Failed = {} BY <1>1 DEF Failed
<1>3. QED BY <1>1, <1>2, FS_EmptySet, EmptySeq DEF RpcTypes, RpcInv, RpcRecords

\* One request moves: what it comes to, and whether it counts as failed.
LEMMA RpcMoves ==
  ASSUME RpcTypes, NEW r \in Actors, rpc' \in [Actors -> RpcRecords],
         \A q \in Actors \ {r} : rpc'[q] = rpc[q]
  PROVE  /\ IsFiniteSet(Failed') /\ Cardinality(Failed) \in Nat
         /\ rpc'[r].at = "failed" /\ rpc[r].at # "failed" => Cardinality(Failed') = Cardinality(Failed) + 1
         /\ rpc'[r].at # "failed" /\ rpc[r].at = "failed" => Cardinality(Failed') = Cardinality(Failed) - 1
         /\ (rpc'[r].at = "failed" <=> rpc[r].at = "failed") => Failed' = Failed
<1>1. IsFiniteSet(Failed) BY DEF RpcTypes
<1> USE <1>1
<1>2. CASE rpc'[r].at = "failed" /\ rpc[r].at # "failed"
  <2> USE <1>2
  <2>1. Failed' = Failed \cup {r} /\ r \notin Failed BY DEF Failed
  <2>2. QED BY <2>1, FS_AddElement, FS_CardinalityType
<1>3. CASE rpc'[r].at # "failed" /\ rpc[r].at = "failed"
  <2> USE <1>3
  <2>1. Failed' = Failed \ {r} /\ r \in Failed BY DEF Failed
  <2>2. QED BY <2>1, FS_RemoveElement, FS_CardinalityType
<1>4. CASE rpc'[r].at = "failed" <=> rpc[r].at = "failed"
  <2> USE <1>4
  <2>1. Failed' = Failed BY DEF Failed
  <2>2. QED BY <2>1, FS_CardinalityType
<1>5. QED BY <1>2, <1>3, <1>4

LEMMA RpcStep ==
  ASSUME RpcTypes, RpcInv, [Mcp!Next]_mcp PROVE RpcTypes' /\ RpcInv'
<1> DEFINE Goal == RpcTypes' /\ RpcInv'
<1> USE DEF Mcp!At
<1>0. /\ rpc \in [Actors -> RpcRecords] /\ signer \in Nat /\ failures \in Seq(Actors)
      /\ IsFiniteSet(Failed) /\ Cardinality(Failed) \in Nat /\ Len(failures) \in Nat
      /\ \A r \in Actors : r # Off
  BY FS_CardinalityType, LenProperties, OffAssumption DEF RpcTypes
<1> USE <1>0
<1>1. ASSUME NEW r \in Actors, Mcp!Ask(r) PROVE Goal
  <2> USE <1>1
  <2>1. PICK mode \in {"none", "identity", "explicit"}, a \in {"sent", "hook"} :
          /\ rpc' = [rpc EXCEPT ![r].mode = mode, ![r].at = a]
          /\ a = IF mode = "none" THEN "sent" ELSE "hook"
    BY DEF Mcp!Ask
  <2>2. /\ rpc' \in [Actors -> RpcRecords]
        /\ rpc'[r].mode = mode /\ rpc'[r].at = a
        /\ rpc'[r].gone = rpc[r].gone /\ rpc'[r].outcome = rpc[r].outcome
        /\ \A q \in Actors \ {r} : rpc'[q] = rpc[q]
    <3>1. mode \in {"none", "identity", "explicit"} /\ a \in {"idle", "hook", "token", "proof", "sent", "failed", "done"}
      OBVIOUS
    <3>2. rpc' = [rpc EXCEPT ![r] = [rpc[r] EXCEPT !.mode = mode, !.at = a]]
      BY <2>1 DEF RpcRecords
    <3>3. rpc[r] \in RpcRecords OBVIOUS
    <3> DEFINE new == [rpc[r] EXCEPT !.mode = mode, !.at = a]
    <3>4. /\ new \in RpcRecords /\ new.mode = mode /\ new.at = a
          /\ new.gone = rpc[r].gone /\ new.outcome = rpc[r].outcome
      BY <3>1, <3>3 DEF RpcRecords
    <3> HIDE DEF new
    <3>5. rpc' = [rpc EXCEPT ![r] = new] BY <3>2 DEF new
    <3>6. QED BY <3>4, <3>5
  <2>3. UNCHANGED <<signer, signing, failures, cancels>> /\ rpc[r].at = "idle"
    BY DEF Mcp!Ask
  <2>4. Failed' = Failed BY RpcMoves, <2>2, <2>3
  <2>5. QED BY <2>1, <2>2, <2>3, <2>4 DEF RpcTypes, RpcInv
<1>2. ASSUME NEW r \in Actors, Mcp!Lock(r) PROVE Goal
  <2> USE <1>2
  <2>1. /\ rpc' \in [Actors -> RpcRecords] /\ rpc'[r].at = "token"
        /\ rpc'[r].gone = rpc[r].gone /\ rpc'[r].outcome = rpc[r].outcome
        /\ \A q \in Actors \ {r} : rpc'[q] = rpc[q]
    BY DEF Mcp!Lock, RpcRecords
  <2>2. /\ UNCHANGED <<signer, failures, cancels>> /\ signing = Off /\ signing' = r
        /\ rpc[r].at = "hook"
    BY DEF Mcp!Lock
  <2>3. Failed' = Failed BY RpcMoves, <2>1, <2>2
  <2>4. QED BY <2>1, <2>2, <2>3 DEF RpcTypes, RpcInv
<1>3. ASSUME NEW r \in Actors, Mcp!Token(r) PROVE Goal
  <2> USE <1>3
  <2>1. PICK k \in Nat : /\ rpc' = [rpc EXCEPT ![r].at = "proof", ![r].token = k]
                         /\ rpc[r].mode = "identity" => k = signer
    BY DEF Mcp!Token, RpcRecords
  <2>2. /\ rpc' \in [Actors -> RpcRecords] /\ rpc'[r].at = "proof" /\ rpc'[r].token = k
        /\ rpc'[r].mode = rpc[r].mode /\ rpc'[r].gone = rpc[r].gone /\ rpc'[r].outcome = rpc[r].outcome
        /\ \A q \in Actors \ {r} : rpc'[q] = rpc[q]
    BY <2>1, ZenonT(40) DEF RpcRecords
  <2>3. UNCHANGED <<signer, signing, failures, cancels>> /\ rpc[r].at = "token"
    BY DEF Mcp!Token
  <2>4. Failed' = Failed BY RpcMoves, <2>2, <2>3
  <2>5. QED BY <2>1, <2>2, <2>3, <2>4 DEF RpcTypes, RpcInv
<1>4. ASSUME NEW r \in Actors, Mcp!Prove(r) PROVE Goal
  <2> USE <1>4
  <2>1. PICK a \in {"done", "sent"} :
          /\ rpc' = [rpc EXCEPT ![r].proof = signer, ![r].at = a]
          /\ rpc[r].gone => a = "done"
    BY DEF Mcp!Prove
  <2>2. /\ rpc' \in [Actors -> RpcRecords] /\ rpc'[r].at = a /\ rpc'[r].proof = signer
        /\ rpc'[r].token = rpc[r].token
        /\ rpc'[r].mode = rpc[r].mode /\ rpc'[r].gone = rpc[r].gone /\ rpc'[r].outcome = rpc[r].outcome
        /\ \A q \in Actors \ {r} : rpc'[q] = rpc[q]
    BY <2>1 DEF RpcRecords
  <2>3. UNCHANGED <<signer, failures, cancels>> /\ rpc[r].at = "proof"
    BY DEF Mcp!Prove
  <2>4. Failed' = Failed BY RpcMoves, <2>2, <2>3
  <2>5. QED BY <2>1, <2>2, <2>3, <2>4 DEF RpcTypes, RpcInv
<1>5. ASSUME NEW r \in Actors, Mcp!Fail(r) PROVE Goal
  <2> USE <1>5
  <2>1. PICK a \in {"done", "failed"} :
          /\ rpc' = [rpc EXCEPT ![r].at = a] /\ (~rpc[r].gone => a = "failed")
    BY DEF Mcp!Fail
  <2>2. /\ rpc' \in [Actors -> RpcRecords] /\ rpc'[r].at = a
        /\ rpc'[r].gone = rpc[r].gone /\ rpc'[r].outcome = rpc[r].outcome
        /\ \A q \in Actors \ {r} : rpc'[q] = rpc[q]
    BY <2>1 DEF RpcRecords
  <2>3. UNCHANGED <<signer, cancels>> /\ rpc[r].at \in {"token", "proof"} /\ failures' = Append(failures, r)
    BY DEF Mcp!Fail
  <2> USE <2>3
  <2>4. failures' \in Seq(Actors) /\ Len(failures') = Len(failures) + 1
    BY AppendProperties
  <2>5. /\ IsFiniteSet(Failed')
        /\ a = "failed" => Cardinality(Failed') = Cardinality(Failed) + 1
    BY RpcMoves, <2>2
  <2>6. QED BY <2>1, <2>2, <2>4, <2>5 DEF RpcTypes, RpcInv
<1>6. ASSUME NEW r \in Actors, Mcp!Answer(r) PROVE Goal
  <2> USE <1>6
  <2>1. /\ rpc' \in [Actors -> RpcRecords] /\ rpc'[r].at = "done" /\ rpc'[r].outcome = "answer"
        /\ \A q \in Actors \ {r} : rpc'[q] = rpc[q]
    BY ZenonT(40) DEF Mcp!Answer, RpcRecords
  <2>2. UNCHANGED <<signer, signing, failures, cancels>> /\ rpc[r].at = "sent"
    BY DEF Mcp!Answer
  <2>3. Failed' = Failed BY RpcMoves, <2>1, <2>2
  <2>4. QED BY <2>1, <2>2, <2>3 DEF RpcTypes, RpcInv
<1>7. ASSUME NEW r \in Actors, Mcp!Awake(r)
      PROVE  /\ rpc' \in [Actors -> RpcRecords] /\ rpc'[r].gone
             /\ rpc'[r].at = (IF rpc[r].at \in {"sent", "failed"} THEN "done" ELSE rpc[r].at)
             /\ rpc'[r].mode = rpc[r].mode /\ rpc'[r].token = rpc[r].token /\ rpc'[r].proof = rpc[r].proof
             /\ failures # <<>> => rpc'[r].outcome = "told" /\ Len(failures') = Len(failures) - 1
             /\ \A q \in Actors \ {r} : rpc'[q] = rpc[q]
             /\ failures' \in Seq(Actors)
  <2> USE <1>7
  <2>1. PICK o \in {"cancelled", "told"}, a \in {rpc[r].at, "done"} :
          /\ rpc' = [rpc EXCEPT ![r].outcome = o, ![r].gone = TRUE, ![r].at = a]
          /\ failures # <<>> => o = "told"
          /\ a = IF rpc[r].at \in {"sent", "failed"} THEN "done" ELSE rpc[r].at
    BY DEF Mcp!Awake, RpcRecords
  <2>2. /\ rpc' \in [Actors -> RpcRecords] /\ rpc'[r].gone /\ rpc'[r].at = a /\ rpc'[r].outcome = o
        /\ rpc'[r].mode = rpc[r].mode /\ rpc'[r].token = rpc[r].token /\ rpc'[r].proof = rpc[r].proof
        /\ \A q \in Actors \ {r} : rpc'[q] = rpc[q]
    BY <2>1 DEF RpcRecords
  <2>3. /\ failures' \in Seq(Actors)
        /\ failures # <<>> => Len(failures') = Len(failures) - 1
    BY HeadTailProperties DEF Mcp!Awake
  <2>4. QED BY <2>1, <2>2, <2>3
<1>8. ASSUME NEW r \in Actors, Mcp!Cancel(r) PROVE Goal
  <2>1. rpc[r].at = "failed" /\ Mcp!Awake(r) /\ UNCHANGED <<signer, signing, cancels>>
    BY <1>8 DEF Mcp!Cancel
  <2> USE <2>1
  <2>2. /\ IsFiniteSet(Failed') /\ Cardinality(Failed') = Cardinality(Failed) - 1
    BY RpcMoves, <1>7
  <2>3. ~cancels => failures # <<>>
    <3>1. r \in Failed BY DEF Failed
    <3>2. Failed # {} BY <3>1
    <3>3. Cardinality(Failed) # 0 BY <3>2, FS_EmptySet
    <3>4. QED BY <3>3, EmptySeq DEF RpcInv
  <2>4. QED BY <1>7, <2>2, <2>3 DEF RpcTypes, RpcInv
<1>9. ASSUME NEW r \in Actors, Mcp!CancelOther(r) PROVE Goal
  <2>1. rpc[r].at # "failed" /\ Mcp!Awake(r) /\ UNCHANGED <<signer, signing>> /\ cancels'
    BY <1>9 DEF Mcp!CancelOther
  <2>2. Failed' = Failed BY RpcMoves, <1>7, <2>1
  <2>3. QED BY <1>7, <2>1, <2>2 DEF RpcTypes, RpcInv
<1>10. CASE Mcp!Refresh
  <2>1. /\ signing = Off /\ signer' = signer + 1 /\ UNCHANGED <<signing, failures, rpc, cancels>>
    BY <1>10 DEF Mcp!Refresh
  <2>2. Failed' = Failed BY <2>1 DEF Failed
  <2>3. QED BY <2>1, <2>2 DEF RpcTypes, RpcInv
<1>11. CASE UNCHANGED mcp
  BY <1>11 DEF mcp, RpcTypes, RpcInv, Failed
<1>12. QED
  BY <1>1, <1>2, <1>3, <1>4, <1>5, <1>6, <1>8, <1>9, <1>10, <1>11 DEF Mcp!Next

-----------------------------------------------------------------------------
(* The closure: with dispatch table t, a function f may run g.  A set that *)
(* holds the implementation and the application's wrappers and every       *)
(* function its members may run holds all the callable runs; Runs is the   *)
(* least such set.                                                         *)
Fs == {1, 2, 3}
Starts(p) == {p.chain[Len(p.chain)]} \cup ({p.chain[n] : n \in 1..Len(p.chain)} \ p.sdk)
Edge(p, t, f, g) ==
  g \notin p.sdk /\ (g \in p.calls[f] \/ (f = 1 /\ \E n \in 1..Len(t) : t[n] = g))
\* ... and what a walk sees of it: the table's first entry.
Seen(p, t, f, g) == g \notin p.sdk /\ (g \in p.calls[f] \/ (f = 1 /\ t # <<>> /\ t[1] = g))

Whole(p) == Closure!Layers(p) = p.chain /\ ~p.twins
Within(p, t, S) ==
  \A X \in SUBSET Fs :
    (Starts(p) \subseteq X /\ \A f \in X, g \in Fs : Edge(p, t, f, g) => g \in X) => S \subseteq X
\* S holds all that is run, but for what waits in Q.
Covers(p, t, S, Q) ==
  Starts(p) \subseteq S \cup Q /\ \A f \in S, g \in Fs : Edge(p, t, f, g) => g \in S \cup Q
Sees(p, t, S, Q) ==
  Starts(p) \subseteq S \cup Q /\ \A f \in S, g \in Fs : Seen(p, t, f, g) => g \in S \cup Q

Waiting == {e[1] : e \in walk.queue}
Names(S) == {x[1] : x \in S}
Now(S) == {<<f, version[f]>> : f \in S}

\* Nothing is newer than the code, and what was read under a token is no older
\* than the token.
Older(S, T) == \A x \in S, y \in T : x[1] = y[1] => x[2] <= y[2]
Ages ==
  /\ \A x \in walk.got \cup walk.token.got : x[2] <= version[x[1]]
  /\ walk.at = "helpers" => Older(walk.token.got, walk.got)
  /\ \A k \in kept : /\ \A x \in k.token.got \cup k.source.got : x[2] <= version[x[1]]
                     /\ Older(k.token.got, k.source.got)

\* The queue holds no function deeper than the walk goes.
Deep(e) == /\ e[2] <= 2
           /\ e[2] = 1 => \E r \in walk.visited : r # e[1]
           /\ e[2] = 2 => e[1] \in walk.visited \/ walk.visited \cup {e[1]} = Fs

\* A table with more entries than are looked at makes the token partial; but for
\* that, only a token of every function is.
Bounded(S, partial, t) ==
  /\ 1 \in S /\ Len(t) > 1 => partial
  /\ partial => (1 \in S /\ Len(t) > 1) \/ S = Fs

TokenWalk ==
  (walk.at = "token" /\ walk.steady /\ Whole(program)) =>
    /\ walk.visited \subseteq Fs /\ walk.got = Now(walk.visited)
    /\ Sees(program, program.table, walk.visited, Waiting)
    /\ Within(program, program.table, walk.visited \cup Waiting)
    /\ \A e \in walk.queue : Deep(e)
    /\ Bounded(walk.visited, walk.partial, program.table)

\* A token taken of the code as it is.
Fresh(tok, K) ==
  /\ K \subseteq Fs /\ tok.got = Now(K)
  /\ Sees(program, program.table, K, {}) /\ Within(program, program.table, K)
  /\ Bounded(K, tok.partial, program.table)

\* A token taken while the table was t.
Under(tok, t) ==
  LET K == Names(tok.got) IN
  /\ K \subseteq Fs /\ Covers(program, t, K, {}) /\ Within(program, t, K)
  /\ tok.partial => K = Fs

TokenTaken ==
  (walk.at \in {"look", "read", "helpers"} /\ walk.steady /\ Whole(program)) =>
    \E K \in SUBSET Fs : Fresh(walk.token, K)

\* What was read under a token, with the table as it was then.
Reading(tok, t) ==
  /\ Len(t) <= 1
  /\ t = program.table \/ Under(tok, t)
  /\ program.changes = 0 => t = program.table /\ Under(tok, t)

HelperWalk ==
  (walk.at = "helpers" /\ ~walk.partial /\ ~program.twins) =>
    /\ Whole(program) /\ walk.visited = Names(walk.got) /\ 1 \in walk.visited
    /\ \E t \in Closure!Tables :
         /\ Reading(walk.token, t)
         /\ Covers(program, t, walk.visited, Waiting)
         /\ Within(program, t, walk.visited \cup Waiting)
         /\ walk.steady => t = program.table /\ walk.got = Now(walk.visited)

SourceKept ==
  \A k \in kept : (~k.source.partial /\ ~program.twins) =>
    /\ Whole(program)
    /\ \E t \in Closure!Tables :
         /\ Reading(k.token, t)
         /\ Covers(program, t, Names(k.source.got), {})
         /\ Within(program, t, Names(k.source.got))

SourceAnswered ==
  (walk.at = "rest" /\ walk.steady /\ ~reading.partial /\ ~program.twins) =>
    reading.got = Now(Closure!Runs)

\* The application changes rarely: a walk is unsteady only after a change.
Changes == program.changes = 0 => walk.steady

ClosureInv == /\ Ages /\ Changes
              /\ TokenWalk /\ TokenTaken /\ HelperWalk /\ SourceKept /\ SourceAnswered

Tokens2 == [got : SUBSET Closure!Read, partial : BOOLEAN]
Walks == [at : {"rest", "token", "look", "read", "helpers"}, token : Tokens2,
          queue : SUBSET (Fs \X (0..3)), visited : SUBSET Fs, got : SUBSET Closure!Read,
          partial : BOOLEAN, steady : BOOLEAN]

ClosureTypes ==
  /\ program \in Closure!Programs
  /\ version \in [Fs -> 0..1] /\ \A f \in Fs : version[f] <= program.changes
  /\ kept \subseteq [token : Tokens2, source : Tokens2]
  /\ walk \in Walks /\ reading \in Tokens2

LEMMA Counted == ASSUME NEW S PROVE Closure!Cardinality(S) = Cardinality(S)
BY DEF Closure!Cardinality, Cardinality

LEMMA Firsts ==
  ASSUME NEW s \in Seq(Fs), NEW a \in Fs, NEW b \in Fs, Len(s) >= 2, s[1] = a, s[2] = b
  PROVE  SubSeq(s, 1, 2) = <<a, b>>
<1> DEFINE r == SubSeq(s, 1, 2)
<1>1. \A i \in 1..2 : s[i] \in Fs
  OBVIOUS
<1>2. r \in Seq(Fs) /\ Len(r) = 2 /\ \A i \in 1..2 : r[i] = s[i]
  BY <1>1, SubSeqProperties
<1> HIDE DEF r
<1>3. r = <<a, b>>
  BY <1>2
<1>4. QED BY <1>3 DEF r

\* The layers of each wrapper chain.
LEMMA LayersOf ==
  ASSUME NEW p
  PROVE  /\ p.chain = << 1 >> => Closure!Layers(p) = << 1 >>
         /\ p.chain = <<2, 1>> => Closure!Layers(p) = <<2, 1>>
         /\ p.chain = <<2, 3, 1>> => Closure!Layers(p) = <<2, 3>>
         /\ p.chain = <<2, 1, 2>> => Closure!Layers(p) = <<2, 1>>
<1> DEFINE F(c) == {n \in 1..Len(c) : n <= 2 /\ \A m \in 1..n - 1 : c[m] # c[n]}
<1>1. Closure!Layers(p) = SubSeq(p.chain, 1, Cardinality(F(p.chain)))
  BY Counted DEF Closure!Layers
<1>2. Cardinality({1}) = 1 /\ IsFiniteSet({1})
  BY FS_Singleton
<1>3. Cardinality({1, 2}) = 2
  <2>1. Cardinality({1} \cup {2}) = 2 BY <1>2, FS_AddElement
  <2>2. {1} \cup {2} = {1, 2} OBVIOUS
  <2>3. QED BY <2>1, <2>2
<1>4. ASSUME p.chain = << 1 >> PROVE Closure!Layers(p) = << 1 >>
  <2>1. F(<< 1 >>) = {1} OBVIOUS
  <2>2. << 1 >> \in Seq(Fs) /\ Len(<< 1 >>) = 1 BY DEF Fs
  <2>3. SubSeq(<< 1 >>, 1, 1) = << 1 >> BY <2>2, SubSeqFull
  <2> HIDE DEF F
  <2>4. QED BY <1>1, <1>2, <1>4, <2>1, <2>3
<1>5. ASSUME p.chain = <<2, 1>> PROVE Closure!Layers(p) = <<2, 1>>
  <2>1. F(<<2, 1>>) = {1, 2} OBVIOUS
  <2>2. <<2, 1>> \in Seq(Fs) /\ Len(<<2, 1>>) = 2 BY DEF Fs
  <2>3. SubSeq(<<2, 1>>, 1, 2) = <<2, 1>> BY <2>2, SubSeqFull
  <2> HIDE DEF F
  <2>4. QED BY <1>1, <1>3, <1>5, <2>1, <2>3
<1>6. ASSUME p.chain = <<2, 3, 1>> PROVE Closure!Layers(p) = <<2, 3>>
  <2>1. F(<<2, 3, 1>>) = {1, 2} OBVIOUS
  <2> DEFINE c == <<2, 3, 1>>
  <2>2. /\ c \in Seq(Fs) /\ 2 \in Fs /\ 3 \in Fs
        /\ Len(c) >= 2 /\ c[1] = 2 /\ c[2] = 3
    BY DEF Fs
  <2> HIDE DEF c, F
  <2>3. SubSeq(c, 1, 2) = <<2, 3>> BY <2>2, Firsts
  <2>4. QED BY <1>1, <1>3, <1>6, <2>1, <2>3 DEF c
<1>7. ASSUME p.chain = <<2, 1, 2>> PROVE Closure!Layers(p) = <<2, 1>>
  <2>1. F(<<2, 1, 2>>) = {1, 2} OBVIOUS
  <2> DEFINE c == <<2, 1, 2>>
  <2>2. /\ c \in Seq(Fs) /\ 2 \in Fs /\ 1 \in Fs
        /\ Len(c) >= 2 /\ c[1] = 2 /\ c[2] = 1
    BY DEF Fs
  <2> HIDE DEF c, F
  <2>3. SubSeq(c, 1, 2) = <<2, 1>> BY <2>2, Firsts
  <2>4. QED BY <1>1, <1>3, <1>7, <2>1, <2>3 DEF c
<1>8. QED BY <1>4, <1>5, <1>6, <1>7

\* The roots of a walk: of every chain an implementation, and of a whole one
\* everything the callable starts with.
LEMMA RootsOf ==
  ASSUME NEW p \in Closure!Programs
  PROVE  /\ Len(Closure!Layers(p)) \in Nat \ {0} 
         /\ Closure!Layers(p)[Len(Closure!Layers(p))] \in Closure!Roots(p)
         /\ Closure!Roots(p) \subseteq Fs
         /\ Closure!LayersPartial(p) <=> Closure!Layers(p) # p.chain
         /\ Closure!Layers(p) = p.chain => Closure!Roots(p) = Starts(p) /\ 1 \in Starts(p)
<1>1. p.chain \in Closure!Chains
  BY DEF Closure!Programs
<1>2. CASE p.chain = << 1 >>
  <2> USE <1>2
  <2>1. Closure!Layers(p) = << 1 >> BY LayersOf
  <2>2. QED BY <2>1 DEF Closure!Roots, Closure!LayersPartial, Starts, Fs
<1>3. CASE p.chain = <<2, 1>>
  <2> USE <1>3
  <2>1. Closure!Layers(p) = <<2, 1>> BY LayersOf
  <2>2. QED BY <2>1 DEF Closure!Roots, Closure!LayersPartial, Starts, Fs
<1>4. CASE p.chain = <<2, 3, 1>>
  <2> USE <1>4
  <2>1. Closure!Layers(p) = <<2, 3>> BY LayersOf
  <2>2. <<2, 3>> # <<2, 3, 1>> OBVIOUS
  <2>3. QED BY <2>1, <2>2 DEF Closure!Roots, Closure!LayersPartial, Fs
<1>5. CASE p.chain = <<2, 1, 2>>
  <2> USE <1>5
  <2>1. Closure!Layers(p) = <<2, 1>> BY LayersOf
  <2>2. <<2, 1>> # <<2, 1, 2>> OBVIOUS
  <2>3. QED BY <2>1, <2>2 DEF Closure!Roots, Closure!LayersPartial, Fs
<1>6. QED BY <1>1, <1>2, <1>3, <1>4, <1>5 DEF Closure!Chains

LEMMA ClosureStart == ASSUME Closure!Init PROVE ClosureTypes /\ ClosureInv
<1>1. /\ program \in Closure!Programs /\ program.changes = 0
      /\ version = [f \in Fs |-> 0] /\ kept = {} /\ walk = Closure!Rest /\ reading = Closure!Nothing
  BY DEF Closure!Init, Fs
<1>2. ClosureTypes
  BY <1>1 DEF ClosureTypes, Tokens2, Walks, Closure!Rest, Closure!Nothing
<1>3. ClosureInv
  BY <1>1 DEF ClosureInv, Ages, Changes, TokenWalk, TokenTaken, HelperWalk, SourceKept,
              SourceAnswered, Closure!Rest, Closure!Nothing
<1>4. QED BY <1>2, <1>3

\* What a function runs that is followed from it.
LEMMA Depends ==
  ASSUME ClosureTypes, NEW f \in Fs
  PROVE  /\ Closure!Dependencies(f) \subseteq Fs
         /\ ~program.twins =>
              Closure!Dependencies(f) = {g \in Fs : g # f /\ Seen(program, program.table, f, g)}
         /\ Closure!Unlisted(f) <=> f = 1 /\ Len(program.table) > 1
<1>1. /\ program.calls[f] \subseteq Fs /\ program.table \in Closure!Tables
      /\ program.twins \in BOOLEAN
  BY DEF ClosureTypes, Closure!Programs, Fs
<1>2. Closure!Unlisted(f) <=> f = 1 /\ Len(program.table) > 1
  BY <1>1 DEF Closure!Unlisted, Closure!Table, Closure!Tables
<1>3. /\ Len(program.table) \in Nat /\ (program.table # <<>> <=> Len(program.table) >= 1)
      /\ program.table # <<>> => program.table[1] \in Fs
  BY <1>1 DEF Closure!Tables, Fs
<1>4. Closure!Listed(f) = {g \in Fs : f = 1 /\ program.table # <<>> /\ program.table[1] = g}
  <2>1. CASE f = 1
    <3>1. Closure!Table(f) = program.table BY <2>1 DEF Closure!Table
    <3>2. CASE program.table = <<>> BY <3>1, <3>2 DEF Closure!Listed
    <3>3. CASE program.table # <<>>
      <4>1. {m \in 1..Len(program.table) : m <= 1} = {1} BY <1>3, <3>3
      <4>2. QED BY <1>3, <2>1, <3>1, <3>3, <4>1 DEF Closure!Listed
    <3>4. QED BY <3>2, <3>3
  <2>2. CASE f # 1
    <3>1. Closure!Table(f) = <<>> BY <2>2 DEF Closure!Table
    <3>2. QED BY <2>2, <3>1 DEF Closure!Listed
  <2>3. QED BY <2>1, <2>2
<1> DEFINE All == {g \in (program.calls[f] \cup Closure!Listed(f)) \ program.sdk : g # f}
<1>5. Closure!Dependencies(f) =
        {g \in All : \A h \in All : h < g => Closure!Identity(h) # Closure!Identity(g)}
  BY DEF Closure!Dependencies
<1>6. All \subseteq Fs /\ \A g \in Fs : g \in All <=> g # f /\ Seen(program, program.table, f, g)
  BY <1>1, <1>4 DEF Seen
<1> HIDE DEF All
<1>7. ASSUME ~program.twins PROVE Closure!Dependencies(f) = All
  <2>1. \A g : Closure!Identity(g) = g BY <1>7 DEF Closure!Identity
  <2>2. \A g, h \in All : h < g => h # g BY <1>6 DEF Fs
  <2>3. QED BY <1>5, <2>1, <2>2
<1>8. Closure!Dependencies(f) \subseteq Fs
  BY <1>5, <1>6
<1>9. QED BY <1>2, <1>6, <1>7, <1>8

\* A table of one entry is seen whole.
LEMMA SeenIsEdge ==
  ASSUME NEW p, NEW t \in Closure!Tables, NEW f, NEW g
  PROVE  /\ Seen(p, t, f, g) => Edge(p, t, f, g)
         /\ Len(t) <= 1 /\ Edge(p, t, f, g) => Seen(p, t, f, g)
BY DEF Seen, Edge, Closure!Tables

\* What becomes of the walk when e, of identity i, leaves the queue: it was
\* visited, it cannot be read any more, or it is followed.
Dropped(e, i) ==
  /\ i \in walk.visited /\ walk'.queue = walk.queue \ {e}
  /\ walk'.visited = walk.visited /\ walk'.got = walk.got /\ walk'.partial = walk.partial
Unread(e, i) ==
  /\ i \notin walk.visited /\ walk'.queue = walk.queue \ {e}
  /\ walk'.visited = walk.visited \cup {i} /\ walk'.got = walk.got /\ walk'.partial = TRUE
Followed(e, i) ==
  /\ i \notin walk.visited /\ walk'.queue = (walk.queue \ {e}) \cup Closure!Follow(e[1], e[2])
  /\ walk'.visited = walk.visited \cup {i}
  /\ walk'.got = walk.got \cup {<<e[1], version[e[1]]>>}
  /\ walk'.partial <=> walk.partial \/ Closure!Unlisted(e[1]) \/ Closure!TooDeep(e[1], e[2])

\* One function leaves the queue.
LEMMA Visiting ==
  ASSUME ClosureTypes, NEW e \in walk.queue, NEW at, NEW limit, NEW unread,
         Closure!Visit(e, at, limit, unread), at \in {"token", "helpers"}
  PROVE  LET i == Closure!Identity(e[1])
             full == Closure!Cardinality(walk.got) >= limit \/ e[1] \in unread
         IN /\ e[1] \in Fs /\ e[2] \in 0..3 /\ i \in Fs /\ (~program.twins => i = e[1])
            /\ UNCHANGED <<program, version, kept, reading>> /\ walk' \in Walks
            /\ walk.at = at /\ walk'.at = at
            /\ walk'.token = walk.token /\ walk'.steady = walk.steady
            /\ Dropped(e, i) \/ (full /\ Unread(e, i)) \/ (~full /\ Followed(e, i))
<1> DEFINE f == e[1]
           i == Closure!Identity(e[1])
           full == Closure!Cardinality(walk.got) >= limit \/ f \in unread
<1>1. walk \in Walks /\ e \in Fs \X (0..3) /\ f \in Fs /\ e[2] \in 0..3
  BY DEF ClosureTypes, Walks
<1> USE <1>1
<1>2. i \in Fs /\ (~program.twins => i = f)
  BY DEF Closure!Identity, Fs
<1> USE <1>2
<1>3. Closure!Follow(f, e[2]) \subseteq Fs \X (0..3)
  BY Depends DEF Closure!Follow
<1>4. <<f, version[f]>> \in Closure!Read
  BY DEF ClosureTypes, Closure!Read, Fs
<1>5. UNCHANGED <<program, version, kept, reading>> /\ walk.at = at
  BY DEF Closure!Visit
<1> DEFINE r1 == [walk EXCEPT !.queue = @ \ {e}]
           r2 == [walk EXCEPT !.queue = @ \ {e}, !.visited = @ \cup {i}, !.partial = TRUE]
           more == walk.partial \/ Closure!Unlisted(f) \/ Closure!TooDeep(f, e[2])
           r3 == [walk EXCEPT !.queue = (@ \ {e}) \cup Closure!Follow(f, e[2]), !.visited = @ \cup {i},
                              !.got = @ \cup {<<f, version[f]>>}, !.partial = more]
<1>6. walk' = IF i \in walk.visited THEN r1 ELSE IF full THEN r2 ELSE r3
  BY DEF Closure!Visit, Closure!Version, Walks
<1>7. more \in BOOLEAN
  BY DEF Walks
<1> HIDE DEF i, full, more
<1>8. /\ r1 \in Walks /\ r1.queue = walk.queue \ {e} /\ r1.visited = walk.visited
      /\ r1.got = walk.got /\ r1.partial = walk.partial /\ r1.at = walk.at
      /\ r1.token = walk.token /\ r1.steady = walk.steady
  BY DEF Walks
<1>9. /\ r2 \in Walks /\ r2.queue = walk.queue \ {e} /\ r2.visited = walk.visited \cup {i}
      /\ r2.got = walk.got /\ r2.partial = TRUE /\ r2.at = walk.at
      /\ r2.token = walk.token /\ r2.steady = walk.steady
  BY DEF Walks
<1>10. /\ r3 \in Walks /\ r3.queue = (walk.queue \ {e}) \cup Closure!Follow(f, e[2])
       /\ r3.visited = walk.visited \cup {i}
       /\ r3.got = walk.got \cup {<<f, version[f]>>} /\ r3.partial = more /\ r3.at = walk.at
       /\ r3.token = walk.token /\ r3.steady = walk.steady
  BY <1>3, <1>4, <1>7 DEF Walks
<1> HIDE DEF r1, r2, r3
<1>11. QED
  BY <1>5, <1>6, <1>8, <1>9, <1>10 DEF i, full, more, Dropped, Unread, Followed

\* What each of the other steps leaves behind.
LEMMA Asking ==
  ASSUME ClosureTypes, Closure!Ask
  PROVE  /\ UNCHANGED <<program, version, kept, reading>> /\ walk' \in Walks
         /\ walk.at = "rest" /\ walk'.at = "token" /\ walk'.steady = TRUE
         /\ walk'.got = {} /\ walk'.token.got = {} /\ walk'.visited = {}
         /\ walk'.queue = {<<r, 0>> : r \in Closure!Roots(program)}
         /\ walk'.partial = Closure!LayersPartial(program)
<1> DEFINE Q == {<<r, 0>> : r \in Closure!Roots(program)}
           m == Closure!LayersPartial(program)
           r == [Closure!Rest EXCEPT !.at = "token", !.queue = Q, !.partial = m]
<1>1. walk' = r /\ walk.at = "rest" /\ UNCHANGED <<program, version, kept, reading>>
  BY DEF Closure!Ask
<1>2. Closure!Roots(program) \subseteq Fs
  BY RootsOf DEF ClosureTypes
<1>3. Q \in SUBSET (Fs \X (0..3)) /\ m \in BOOLEAN
  BY <1>2 DEF Closure!LayersPartial
<1> HIDE DEF Q, m
<1>4. /\ r \in Walks /\ r.at = "token" /\ r.steady = TRUE /\ r.got = {} /\ r.token.got = {}
      /\ r.visited = {} /\ r.queue = Q /\ r.partial = m
  BY <1>3 DEF Closure!Rest, Closure!Nothing, Walks, Tokens2
<1> HIDE DEF r
<1>5. QED BY <1>1, <1>4 DEF Q, m

LEMMA TokenEnds ==
  ASSUME ClosureTypes, Closure!TokenDone
  PROVE  /\ UNCHANGED <<program, version, kept, reading>> /\ walk' \in Walks
         /\ walk.at = "token" /\ walk.queue = {} /\ walk'.at = "look"
         /\ walk'.steady = walk.steady /\ walk'.got = {}
         /\ walk'.token.got = walk.got /\ walk'.token.partial = walk.partial
<1> DEFINE k == [got |-> walk.got, partial |-> walk.partial]
           s == walk.steady
           r == [Closure!Rest EXCEPT !.at = "look", !.token = k, !.steady = s]
<1>1. /\ walk' = r /\ walk.at = "token" /\ walk.queue = {}
      /\ UNCHANGED <<program, version, kept, reading>>
  BY DEF Closure!TokenDone
<1>2. k \in Tokens2 /\ s \in BOOLEAN /\ k.got = walk.got /\ k.partial = walk.partial
  BY DEF ClosureTypes, Walks, Tokens2
<1> HIDE DEF k, s
<1>3. r \in Walks /\ r.at = "look" /\ r.steady = s /\ r.got = {} /\ r.token = k
  BY <1>2 DEF Closure!Rest, Walks
<1> HIDE DEF r
<1>4. QED BY <1>1, <1>2, <1>3 DEF s

LEMMA Goes ==
  ASSUME walk \in Walks, NEW a \in {"rest", "read"}, walk' = [walk EXCEPT !.at = a]
  PROVE  /\ walk' \in Walks /\ walk'.at = a /\ walk'.token = walk.token /\ walk'.steady = walk.steady
         /\ walk'.got = walk.got /\ walk'.queue = walk.queue /\ walk'.visited = walk.visited
         /\ walk'.partial = walk.partial
BY DEF Walks

LEMMA RootsRead ==
  ASSUME ClosureTypes, Closure!ReadRoots, walk'.at # "rest"
  PROVE  LET roots == Closure!Roots(program)
             readable == Closure!Readable(roots)
         IN /\ UNCHANGED <<program, version, kept, reading>> /\ walk' \in Walks
            /\ walk.at = "read" /\ walk'.at = "helpers"
            /\ walk'.token = walk.token /\ walk'.steady = walk.steady
            /\ walk'.got = {<<r, version[r]>> : r \in readable}
            /\ walk'.visited = {Closure!Identity(r) : r \in roots}
            /\ walk'.queue = UNION {{<<g, 1>> : g \in Closure!Dependencies(r)} : r \in roots}
            /\ walk'.partial <=> \/ Closure!LayersPartial(program) \/ readable # roots
                                 \/ \E r \in roots : Closure!Unlisted(r)
<1> DEFINE roots == Closure!Roots(program)
           readable == Closure!Readable(roots)
           G == {Closure!Version(r) : r \in readable}
           V == {Closure!Identity(r) : r \in roots}
           Q == UNION {{<<g, 1>> : g \in Closure!Dependencies(r)} : r \in roots}
           m == \/ Closure!LayersPartial(program) \/ readable # roots
                \/ \E r \in roots : Closure!Unlisted(r)
           n == [walk EXCEPT !.at = "helpers", !.got = G, !.visited = V, !.queue = Q, !.partial = m]
<1>1. walk \in Walks
  BY DEF ClosureTypes
<1>2. [walk EXCEPT !.at = "rest"].at = "rest"
  BY <1>1 DEF Walks
<1>3. walk' = n /\ walk.at = "read" /\ UNCHANGED <<program, version, kept, reading>>
  BY <1>2 DEF Closure!ReadRoots
<1>4. roots \subseteq Fs /\ readable \subseteq Fs
  BY RootsOf DEF ClosureTypes, Closure!Readable
<1> USE <1>4
<1>5. G \in SUBSET Closure!Read /\ G = {<<r, version[r]>> : r \in readable}
  BY DEF ClosureTypes, Closure!Read, Closure!Version, Fs
<1>6. V \in SUBSET Fs
  BY DEF Closure!Identity, Fs
<1>7. Q \in SUBSET (Fs \X (0..3))
  BY Depends
<1>8. m \in BOOLEAN OBVIOUS
<1> HIDE DEF G, V, Q, m
<1>9. /\ n \in Walks /\ n.at = "helpers" /\ n.token = walk.token /\ n.steady = walk.steady
      /\ n.got = G /\ n.visited = V /\ n.queue = Q /\ n.partial = m
  BY <1>1, <1>5, <1>6, <1>7, <1>8 DEF Walks
<1> HIDE DEF n
<1>10. QED BY <1>3, <1>5, <1>9 DEF V, Q, m

LEMMA Changing ==
  ASSUME ClosureTypes, NEW p, Closure!Change(p)
  PROVE  /\ UNCHANGED <<kept, reading>> /\ program.changes = 0
         /\ program' = [p EXCEPT !.changes = @ + 1]
         /\ walk' \in Walks /\ walk'.at = walk.at /\ walk'.token = walk.token
         /\ walk'.steady = FALSE /\ walk'.got = walk.got /\ walk'.queue = walk.queue
         /\ walk'.visited = walk.visited /\ walk'.partial = walk.partial
<1>1. walk \in Walks /\ program.changes \in 0..1
  BY DEF ClosureTypes, Closure!Programs
<1>2. /\ walk' = [walk EXCEPT !.steady = FALSE] /\ program.changes < 1
      /\ program' = [p EXCEPT !.changes = @ + 1] /\ UNCHANGED <<kept, reading>>
  BY DEF Closure!Change
<1> USE <1>2
<1>3. program.changes = 0 BY <1>1
<1> DEFINE r == [walk EXCEPT !.steady = FALSE]
<1>4. /\ r \in Walks /\ r.at = walk.at /\ r.token = walk.token /\ r.steady = FALSE
      /\ r.got = walk.got /\ r.queue = walk.queue /\ r.visited = walk.visited
      /\ r.partial = walk.partial
  BY <1>1 DEF Walks
<1> HIDE DEF r
<1>5. walk' = r BY DEF r
<1>6. QED BY <1>3, <1>4, <1>5

\* A reload and a new table.
LEMMA Reloading ==
  ASSUME ClosureTypes, NEW f \in Fs, Closure!Reload(f)
  PROVE  /\ program' \in Closure!Programs /\ program' = [program EXCEPT !.changes = 1]
         /\ program'.changes = 1 /\ program'.table = program.table
         /\ version' \in [Fs -> 0..1] /\ \A g \in Fs : version[g] <= version'[g]
<1>1. /\ Closure!Change(program) /\ version' = [version EXCEPT ![f] = @ + 1]
      /\ program \in Closure!Programs /\ version \in [Fs -> 0..1]
      /\ \A g \in Fs : version[g] <= program.changes
  BY DEF Closure!Reload, ClosureTypes
<1> USE <1>1
<1>2. program.changes = 0 /\ program' = [program EXCEPT !.changes = @ + 1]
  BY Changing
<1>3. \A g \in Fs : version[g] = 0
  BY <1>2
<1>4. program' = [program EXCEPT !.changes = 1]
  BY <1>2
<1>5. program' \in Closure!Programs /\ program'.changes = 1 /\ program'.table = program.table
  BY <1>4 DEF Closure!Programs
<1>6. version' \in [Fs -> 0..1] /\ \A g \in Fs : version[g] <= version'[g]
  BY <1>3
<1>7. QED BY <1>4, <1>5, <1>6

LEMMA Retargeting ==
  ASSUME ClosureTypes, NEW t \in Closure!Tables, Closure!Retarget(t)
  PROVE  /\ program' \in Closure!Programs /\ program'.changes = 1 /\ program'.table = t
         /\ program'.chain = program.chain /\ program'.sdk = program.sdk
         /\ program'.calls = program.calls /\ program'.twins = program.twins
         /\ version' = version
<1> DEFINE h == program.had \cup {t}
           u == program.undone \/ t \in program.had
           p == [program EXCEPT !.table = t, !.had = h, !.undone = u]
<1>1. Closure!Change(p) /\ version' = version /\ program \in Closure!Programs
  BY DEF Closure!Retarget, ClosureTypes
<1> USE <1>1
<1>2. h \in SUBSET Closure!Tables /\ u \in BOOLEAN
  BY DEF Closure!Programs
<1> HIDE DEF h, u
<1>3. /\ p \in Closure!Programs /\ p.table = t /\ p.chain = program.chain /\ p.sdk = program.sdk
      /\ p.calls = program.calls /\ p.twins = program.twins /\ p.changes = program.changes
  BY <1>2 DEF Closure!Programs
<1> HIDE DEF p
<1>4. program.changes = 0 /\ program' = [p EXCEPT !.changes = @ + 1]
  BY Changing
<1>5. program' = [p EXCEPT !.changes = 1]
  BY <1>3, <1>4
<1>6. QED BY <1>3, <1>5 DEF Closure!Programs

LEMMA Looking ==
  ASSUME ClosureTypes, Closure!Look
  PROVE  /\ UNCHANGED <<program, version, kept>> /\ walk.at = "look"
         /\ \/ \E k \in kept : /\ k.token = walk.token /\ reading' = k.source
                               /\ walk' = [walk EXCEPT !.at = "rest"]
            \/ reading' = reading /\ walk' = [walk EXCEPT !.at = "read"]
BY DEF Closure!Look

LEMMA Keeping ==
  ASSUME ClosureTypes, Closure!Keep
  PROVE  /\ UNCHANGED <<program, version>> /\ walk.at = "helpers" /\ walk.queue = {}
         /\ reading' = [got |-> walk.got, partial |-> walk.partial] /\ reading' \in Tokens2
         /\ kept' = {[token |-> walk.token, source |-> reading']}
         /\ walk' = [walk EXCEPT !.at = "rest"]
BY DEF Closure!Keep, ClosureTypes, Walks, Tokens2

LEMMA ClosureTypesStep ==
  ASSUME ClosureTypes, [Closure!Next]_closure
  PROVE  ClosureTypes'
<1> USE DEF ClosureTypes
<1>1. CASE Closure!Ask BY <1>1, Asking
<1>2. CASE Closure!TokenDone BY <1>2, TokenEnds
<1>3. CASE Closure!Look
  <2> USE <1>3
  <2>1. walk' \in Walks BY Looking, Goes
  <2>2. reading' \in Tokens2 BY Looking
  <2>3. QED BY <2>1, <2>2, Looking
<1>4. CASE Closure!ReadRoots
  <2> USE <1>4
  <2>1. CASE walk'.at # "rest" BY <2>1, RootsRead
  <2>2. CASE walk'.at = "rest"
    <3>1. walk' = [walk EXCEPT !.at = "rest"] \/ walk'.at = "helpers"
      BY DEF Closure!ReadRoots, Walks
    <3>2. walk' \in Walks BY <2>2, <3>1, Goes
    <3>3. UNCHANGED <<program, version, kept>> /\ reading' \in {reading, Closure!Nothing}
      BY DEF Closure!ReadRoots
    <3>4. Closure!Nothing \in Tokens2 BY DEF Closure!Nothing, Tokens2
    <3>5. QED BY <3>2, <3>3, <3>4
  <2>3. QED BY <2>1, <2>2
<1>5. CASE Closure!Keep
  <2> USE <1>5
  <2>1. walk' \in Walks BY Keeping, Goes
  <2>2. kept' \subseteq [token : Tokens2, source : Tokens2]
    <3>1. walk.token \in Tokens2 /\ reading' \in Tokens2 BY Keeping DEF Walks
    <3>2. QED BY <3>1, Keeping
  <2>3. QED BY <2>1, <2>2, Keeping
<1>6. ASSUME NEW e \in walk.queue, Closure!VisitToken(e) \/ Closure!VisitHelper(e) PROVE ClosureTypes'
  BY <1>6, Visiting DEF Closure!VisitToken, Closure!VisitHelper
<1>7. ASSUME NEW f \in Fs, Closure!Reload(f) PROVE ClosureTypes'
  <2> USE <1>7
  <2>1. walk' \in Walks /\ UNCHANGED <<kept, reading>> BY Changing DEF Closure!Reload
  <2>2. QED BY <2>1, Reloading
<1>8. ASSUME NEW t \in Closure!Tables, Closure!Retarget(t) PROVE ClosureTypes'
  <2> USE <1>8
  <2>1. walk' \in Walks /\ UNCHANGED <<kept, reading>> BY Changing DEF Closure!Retarget
  <2>2. QED BY <2>1, Retargeting
<1>9. CASE UNCHANGED closure BY <1>9 DEF closure
<1>10. QED
  BY <1>1, <1>2, <1>3, <1>4, <1>5, <1>6, <1>7, <1>8, <1>9 DEF Closure!Next, Fs

LEMMA AgesStep ==
  ASSUME ClosureTypes, ClosureTypes', Ages, [Closure!Next]_closure
  PROVE  Ages'
<1>1. \A f \in Fs : version[f] \in Nat /\ version'[f] \in Nat
  BY DEF ClosureTypes
<1> USE <1>1
<1>2. walk.token.got \subseteq Closure!Read /\ walk.got \subseteq Closure!Read
  BY DEF ClosureTypes, Walks, Tokens2
<1>3. \A x \in Closure!Read : x[1] \in Fs /\ x[2] \in Nat
  BY DEF Closure!Read, Fs
<1>4. CASE Closure!Ask
  BY <1>4, Asking DEF Ages
<1>5. CASE Closure!TokenDone
  BY <1>5, TokenEnds DEF Ages
<1>6. CASE Closure!Look
  <2>1. /\ walk'.got = walk.got /\ walk'.token = walk.token /\ walk'.at \in {"rest", "read"}
        /\ UNCHANGED <<version, kept>>
    BY <1>6, Looking, Goes DEF ClosureTypes
  <2>2. QED BY <2>1 DEF Ages
<1>7. CASE Closure!ReadRoots
  <2> USE <1>7
  <2>1. CASE walk'.at # "rest"
    <3> DEFINE readable == Closure!Readable(Closure!Roots(program))
    <3>1. readable \subseteq Fs
      BY RootsOf DEF ClosureTypes, Closure!Readable
    <3>2. /\ walk'.got = {<<r, version[r]>> : r \in readable} /\ walk'.token = walk.token
          /\ UNCHANGED <<version, kept>>
      BY <2>1, RootsRead
    <3> USE <3>2
    <3> HIDE DEF readable
    <3>3. \A x \in walk'.got : x[2] = version[x[1]] /\ x[1] \in Fs
      BY <3>1
    <3>4. \A x \in walk.token.got : x[2] <= version[x[1]]
      BY DEF Ages
    <3>5. \A x \in walk'.got \cup walk'.token.got : x[2] <= version'[x[1]]
      BY <3>3, <3>4
    <3>6. Older(walk'.token.got, walk'.got)
      BY <3>3, <3>4 DEF Older
    <3>7. QED BY <3>5, <3>6 DEF Ages
  <2>2. CASE walk'.at = "rest"
    <3> USE <2>2
    <3>1. walk' = [walk EXCEPT !.at = "rest"] \/ walk'.at = "helpers"
      BY DEF Closure!ReadRoots, ClosureTypes, Walks
    <3>2. walk'.got = walk.got /\ walk'.token = walk.token
      BY <3>1, Goes DEF ClosureTypes
    <3>3. UNCHANGED <<version, kept>>
      BY DEF Closure!ReadRoots
    <3>4. QED BY <3>2, <3>3 DEF Ages
  <2>3. QED BY <2>1, <2>2
<1>8. CASE Closure!Keep
  <2> USE <1>8
  <2>1. /\ walk'.got = walk.got /\ walk'.token = walk.token /\ walk'.at = "rest" /\ version' = version
    BY Keeping, Goes DEF ClosureTypes
  <2>2. kept' = {[token |-> walk.token, source |-> reading']} /\ reading'.got = walk.got
        /\ walk.at = "helpers"
    BY Keeping
  <2>3. \A k \in kept' : k.token.got = walk.token.got /\ k.source.got = walk.got
    BY <2>2
  <2>4. QED BY <2>1, <2>2, <2>3 DEF Ages
<1>9. ASSUME NEW e \in walk.queue, Closure!VisitToken(e) \/ Closure!VisitHelper(e) PROVE Ages'
  <2>1. /\ e[1] \in Fs /\ walk'.token = walk.token /\ walk'.at = walk.at
        /\ UNCHANGED <<version, kept>>
        /\ walk'.got = walk.got \/ walk'.got = walk.got \cup {<<e[1], version[e[1]]>>}
    BY <1>9, Visiting DEF Closure!VisitToken, Closure!VisitHelper, Dropped, Unread, Followed
  <2> USE <2>1
  <2>2. \A x \in walk'.got : x \in walk.got \/ (x[1] \in Fs /\ x[2] = version[x[1]])
    OBVIOUS
  <2>3. \A x \in walk'.got \cup walk'.token.got : x[2] <= version'[x[1]]
    BY <2>2 DEF Ages
  <2>4. ASSUME walk.at = "helpers" PROVE Older(walk'.token.got, walk'.got)
    <3>1. Older(walk.token.got, walk.got) /\ \A x \in walk.token.got : x[2] <= version[x[1]]
      BY <2>4 DEF Ages
    <3>2. QED BY <2>2, <3>1 DEF Older
  <2>5. QED BY <2>3, <2>4 DEF Ages
<1>10. ASSUME \A f \in Fs : version[f] <= version'[f], walk'.got = walk.got,
              walk'.token = walk.token, walk'.at = walk.at, UNCHANGED kept
       PROVE  Ages'
  <2> USE <1>10
  <2>1. \A x \in Closure!Read : x[2] <= version[x[1]] => x[2] <= version'[x[1]]
    BY <1>3
  <2>2. \A k \in kept : k.token.got \subseteq Closure!Read /\ k.source.got \subseteq Closure!Read
    BY DEF ClosureTypes, Tokens2
  <2>3. QED BY <1>2, <2>1, <2>2 DEF Ages
<1>11. ASSUME NEW f \in Fs, Closure!Reload(f) PROVE Ages'
  BY <1>10, <1>11, Reloading, Changing DEF Closure!Reload
<1>12. ASSUME NEW t \in Closure!Tables, Closure!Retarget(t) PROVE Ages'
  <2> USE <1>12
  <2>1. version' = version BY Retargeting
  <2>2. \A f \in Fs : version[f] <= version'[f] BY <2>1
  <2>3. QED BY <1>10, <2>2, Changing DEF Closure!Retarget
<1>13. CASE UNCHANGED closure BY <1>13 DEF closure, Ages
<1>14. QED
  BY <1>4, <1>5, <1>6, <1>7, <1>8, <1>9, <1>11, <1>12, <1>13 DEF Closure!Next, Fs

LEMMA ChangesStep ==
  ASSUME ClosureTypes, Changes, [Closure!Next]_closure
  PROVE  Changes'
<1>1. CASE Closure!Ask BY <1>1, Asking DEF Changes
<1>2. CASE Closure!TokenDone BY <1>2, TokenEnds DEF Changes
<1>3. CASE Closure!Look BY <1>3, Looking, Goes DEF Changes, ClosureTypes
<1>4. CASE Closure!ReadRoots
  <2>1. program' = program /\ walk'.steady = walk.steady
    BY <1>4 DEF Closure!ReadRoots, ClosureTypes, Walks
  <2>2. QED BY <2>1 DEF Changes
<1>5. CASE Closure!Keep BY <1>5, Keeping, Goes DEF Changes, ClosureTypes
<1>6. ASSUME NEW e \in walk.queue, Closure!VisitToken(e) \/ Closure!VisitHelper(e) PROVE Changes'
  BY <1>6, Visiting DEF Closure!VisitToken, Closure!VisitHelper, Changes
<1>7. ASSUME NEW f \in Fs, Closure!Reload(f) PROVE Changes'
  BY <1>7, Reloading DEF Changes
<1>8. ASSUME NEW t \in Closure!Tables, Closure!Retarget(t) PROVE Changes'
  BY <1>8, Retargeting DEF Changes
<1>9. CASE UNCHANGED closure BY <1>9 DEF closure, Changes
<1>10. QED
  BY <1>1, <1>2, <1>3, <1>4, <1>5, <1>6, <1>7, <1>8, <1>9 DEF Closure!Next, Fs

\* Two functions are at most two versions.
LEMMA Few ==
  ASSUME NEW V \in SUBSET Fs, NEW f \in Fs, f \notin V
  PROVE  ~(Closure!Cardinality(Now(V)) >= 3)
<1>1. PICK a \in Fs, b \in Fs : V \subseteq {a, b}
  BY DEF Fs
<1> DEFINE x == <<a, version[a]>>
           y == <<b, version[b]>>
<1>2. Now(V) \subseteq {x, y}
  BY <1>1 DEF Now
<1> HIDE DEF x, y
<1>3. IsFiniteSet({x}) /\ Cardinality({x}) = 1
  BY FS_Singleton
<1>4. IsFiniteSet({x} \cup {y}) /\ Cardinality({x} \cup {y}) <= 2
  BY <1>3, FS_AddElement
<1>5. {x} \cup {y} = {x, y} OBVIOUS
<1>6. IsFiniteSet({x, y}) /\ Cardinality({x, y}) \in Nat /\ Cardinality({x, y}) <= 2
  BY <1>4, <1>5, FS_CardinalityType
<1>7. Cardinality(Now(V)) <= Cardinality({x, y}) /\ Cardinality(Now(V)) \in Nat
  BY <1>2, <1>6, FS_Subset, FS_CardinalityType
<1>8. QED BY <1>6, <1>7, Counted

\* The walk of the token goes on from f.
LEMMA TokenFollows ==
  ASSUME ClosureTypes, ~program.twins, TokenWalk, Whole(program), walk.at = "token", walk.steady,
         NEW e \in walk.queue, e[1] \in Fs, e[1] \notin walk.visited, e[2] \in 0..3,
         UNCHANGED <<program, version>>, Followed(e, e[1])
  PROVE  TokenWalk'
<1> DEFINE f == e[1]
           t == program.table
           D == {g \in Fs : g # f /\ Seen(program, t, f, g)}
           V == walk.visited
<1>0. /\ walk'.queue = (walk.queue \ {e}) \cup Closure!Follow(f, e[2]) /\ walk'.visited = V \cup {f}
      /\ walk'.got = walk.got \cup {<<f, version[f]>>}
      /\ walk'.partial <=> walk.partial \/ Closure!Unlisted(f) \/ Closure!TooDeep(f, e[2])
  BY DEF Followed
<1> USE <1>0
<1>1. /\ V \subseteq Fs /\ walk.got = Now(V) /\ Sees(program, t, V, Waiting)
      /\ Within(program, t, V \cup Waiting) /\ \A d \in walk.queue : Deep(d)
      /\ Bounded(V, walk.partial, t)
  BY DEF TokenWalk
<1> USE <1>1
<1>2. Closure!Dependencies(f) = D /\ (Closure!Unlisted(f) <=> f = 1 /\ Len(t) > 1)
  BY Depends
<1> USE <1>2
<1>3. walk.partial \in BOOLEAN /\ t \in Closure!Tables
  BY DEF ClosureTypes, Closure!Programs, Walks
<1>4. Deep(e)
  OBVIOUS
<1>5. e[2] <= 2 /\ (e[2] = 2 => V \cup {f} = Fs)
  BY <1>4 DEF Deep
<1> USE <1>5
<1>6. Closure!Follow(f, e[2]) = IF e[2] >= 2 THEN {} ELSE {<<g, e[2] + 1>> : g \in D}
  BY DEF Closure!Follow
<1> USE <1>6
<1>7. Closure!TooDeep(f, e[2]) => e[2] = 2
  BY DEF Closure!TooDeep
<1>8. walk'.got = Now(V \cup {f}) /\ Now(V \cup {f})' = Now(V \cup {f})
  <2>1. walk'.got = Now(V) \cup {<<f, version[f]>>}
    OBVIOUS
  <2>2. Now(V) \cup {<<f, version[f]>>} = Now(V \cup {f})
    BY DEF Now
  <2>3. \A S : Now(S)' = Now(S)
    BY DEF Now
  <2>4. walk'.got = Now(V \cup {f})
    BY <2>1, <2>2
  <2>5. Now(V \cup {f})' = {<<g, version'[g]>> : g \in V \cup {f}}
    BY DEF Now
  <2>6. QED BY <2>4, <2>5 DEF Now
<1>9. /\ Waiting \subseteq Waiting' \cup {f} /\ Waiting' \subseteq Waiting \cup D
      /\ e[2] < 2 => D \subseteq Waiting' /\ f \in Waiting
  <2>1. Waiting \subseteq Waiting' \cup {f} BY DEF Waiting
  <2>2. Waiting' \subseteq Waiting \cup D BY DEF Waiting
  <2>3. f \in Waiting BY DEF Waiting
  <2>4. ASSUME e[2] < 2, NEW g \in D PROVE g \in Waiting'
    <3>1. <<g, e[2] + 1>> \in walk'.queue BY <2>4
    <3>2. QED BY <3>1 DEF Waiting
  <2>5. QED BY <2>1, <2>2, <2>3, <2>4
<1> USE <1>9
<1>10. f \in Waiting BY DEF Waiting
<1>11. Sees(program, t, V \cup {f}, Waiting')
  <2>1. Starts(program) \subseteq V \cup {f} \cup Waiting'
    BY DEF Sees
  <2>2. ASSUME NEW h \in V \cup {f}, NEW g \in Fs, Seen(program, t, h, g)
        PROVE  g \in V \cup {f} \cup Waiting'
    <3> USE <2>2
    <3>1. CASE h \in V BY <3>1 DEF Sees
    <3>2. CASE h = f /\ e[2] < 2 BY <3>2
    <3>3. CASE e[2] = 2 BY <3>3
    <3>4. QED BY <3>1, <3>2, <3>3
  <2>3. QED BY <2>1, <2>2 DEF Sees
<1>12. Within(program, t, V \cup {f} \cup Waiting')
  <2> SUFFICES ASSUME NEW X \in SUBSET Fs, Starts(program) \subseteq X,
                      \A h \in X, g \in Fs : Edge(program, t, h, g) => g \in X
               PROVE  V \cup {f} \cup Waiting' \subseteq X
    BY DEF Within
  <2>1. V \cup Waiting \subseteq X
    BY DEF Within
  <2>2. f \in X BY <1>10, <2>1
  <2>3. D \subseteq X
    BY <1>3, <2>2, SeenIsEdge
  <2>4. QED BY <2>1, <2>2, <2>3
<1>13. ASSUME NEW d \in walk'.queue PROVE Deep(d)'
  <2>1. CASE d \in walk.queue
    <3>1. Deep(d) BY <2>1
    <3>2. V \cup {d[1]} = Fs => V \cup {f} \cup {d[1]} = Fs
      OBVIOUS
    <3>3. QED BY <3>1, <3>2 DEF Deep
  <2>2. CASE d \notin walk.queue
    <3>1. PICK g \in D : d = <<g, e[2] + 1>> /\ e[2] < 2
      BY <2>2
    <3>2. d[1] = g /\ d[2] = e[2] + 1 /\ g # f /\ g \in Fs
      BY <3>1
    <3> USE <3>2
    <3>3. CASE e[2] = 0 BY <3>3 DEF Deep
    <3>4. CASE e[2] = 1
      <4> USE <3>4
      <4>1. PICK r \in V : r # f BY <1>4 DEF Deep
      <4>2. g \in V \cup {f} \/ V \cup {f} \cup {g} = Fs
        BY <4>1 DEF Fs
      <4>3. QED BY <4>2 DEF Deep
    <3>5. QED BY <3>1, <3>3, <3>4
  <2>3. QED BY <2>1, <2>2
<1>14. Bounded(V \cup {f}, walk'.partial, t)
  <2>1. 1 \in V \cup {f} /\ Len(t) > 1 => walk'.partial
    BY DEF Bounded
  <2>2. ASSUME walk'.partial PROVE (1 \in V \cup {f} /\ Len(t) > 1) \/ V \cup {f} = Fs
    BY <1>7, <2>2 DEF Bounded
  <2>3. QED BY <2>1, <2>2 DEF Bounded
<1>15. QED
  BY <1>8, <1>11, <1>12, <1>13, <1>14 DEF TokenWalk

\* A function that was visited leaves the queue.
LEMMA Leaves ==
  ASSUME NEW e \in walk.queue, e[1] \in walk.visited, walk'.queue = walk.queue \ {e},
         walk'.visited = walk.visited
  PROVE  walk'.visited \cup Waiting' = walk.visited \cup Waiting
BY DEF Waiting

LEMMA TokenWalkStep ==
  ASSUME ClosureTypes, TokenWalk, [Closure!Next]_closure
  PROVE  TokenWalk'
<1>1. CASE Closure!Ask
  <2> USE <1>1
  <2> SUFFICES ASSUME Whole(program)' PROVE TokenWalk'
    BY DEF TokenWalk
  <2>1. program \in Closure!Programs /\ Whole(program)
    BY Asking DEF ClosureTypes
  <2>2. Closure!Roots(program) = Starts(program) /\ ~Closure!LayersPartial(program)
    BY <2>1, RootsOf DEF Whole
  <2>3. /\ walk'.queue = {<<r, 0>> : r \in Starts(program)} /\ walk'.visited = {} /\ walk'.got = {}
        /\ walk'.partial = FALSE /\ UNCHANGED <<program, version>>
    BY <2>2, Asking DEF Closure!LayersPartial
  <2> USE <2>3
  <2>4. Waiting' = Starts(program)
    <3>1. Waiting' \subseteq Starts(program) BY DEF Waiting
    <3>2. ASSUME NEW r \in Starts(program) PROVE r \in Waiting'
      <4>1. <<r, 0>> \in walk'.queue /\ <<r, 0>>[1] = r OBVIOUS
      <4>2. QED BY <4>1 DEF Waiting
    <3>3. QED BY <3>1, <3>2
  <2>5. \A e \in walk'.queue : Deep(e)'
    BY DEF Deep
  <2>6. Now({})' = {}
    BY DEF Now
  <2>7. QED
    BY <2>4, <2>5, <2>6 DEF TokenWalk, Sees, Within, Bounded
<1>2. CASE Closure!TokenDone BY <1>2, TokenEnds DEF TokenWalk
<1>3. CASE Closure!Look BY <1>3, Looking, Goes DEF TokenWalk, ClosureTypes
<1>4. CASE Closure!ReadRoots
  <2>1. walk'.at \in {"rest", "helpers"}
    BY <1>4 DEF Closure!ReadRoots, ClosureTypes, Walks
  <2>2. QED BY <2>1 DEF TokenWalk
<1>5. CASE Closure!Keep BY <1>5, Keeping, Goes DEF TokenWalk, ClosureTypes
<1>6. ASSUME NEW e \in walk.queue, Closure!VisitToken(e) PROVE TokenWalk'
  <2> SUFFICES ASSUME walk'.steady, Whole(program)' PROVE TokenWalk'
    BY DEF TokenWalk
  <2>1. Closure!Visit(e, "token", 3, {})
    BY <1>6 DEF Closure!VisitToken
  <2> USE <2>1
  <2>2. UNCHANGED <<program, version>> /\ walk.at = "token" /\ walk'.at = "token" /\ walk.steady
        /\ e[1] \in Fs /\ e[2] \in 0..3
    BY Visiting
  <2> USE <2>2
  <2>3. Whole(program) /\ ~program.twins
    BY DEF Whole
  <2> USE <2>3
  <2>4. Closure!Identity(e[1]) = e[1]
    BY Visiting
  <2>5. /\ walk.visited \subseteq Fs /\ walk.got = Now(walk.visited)
    BY DEF TokenWalk
  <2>6. CASE Dropped(e, e[1])
    <3>1. /\ e[1] \in walk.visited /\ walk'.queue = walk.queue \ {e} /\ walk'.visited = walk.visited
          /\ walk'.got = walk.got /\ walk'.partial = walk.partial
      BY <2>6 DEF Dropped
    <3> USE <3>1
    <3>2. walk'.visited \cup Waiting' = walk.visited \cup Waiting
      BY Leaves
    <3>3. \A d \in walk.queue : Deep(d)' <=> Deep(d)
      BY DEF Deep
    <3>4. Now(walk.visited)' = Now(walk.visited)
      BY DEF Now
    <3>5. QED
      BY <3>2, <3>3, <3>4 DEF TokenWalk, Sees
  <2>7. CASE ~Dropped(e, e[1])
    <3> DEFINE i == Closure!Identity(e[1])
               full == Closure!Cardinality(walk.got) >= 3 \/ e[1] \in {}
    <3>4. Dropped(e, i) \/ (full /\ Unread(e, i)) \/ (~full /\ Followed(e, i))
      BY Visiting
    <3>5. full => Closure!Cardinality(walk.got) >= 3
      OBVIOUS
    <3>6. i = e[1] BY <2>4
    <3> HIDE DEF i, full
    <3>1. e[1] \notin walk.visited /\ (Closure!Cardinality(walk.got) >= 3 \/ Followed(e, e[1]))
      BY <2>7, <3>4, <3>5, <3>6 DEF Dropped, Unread, Followed
    <3>2. ~(Closure!Cardinality(walk.got) >= 3)
      BY <2>5, <3>1, Few
    <3>3. QED BY <3>1, <3>2, TokenFollows
  <2>8. QED BY <2>6, <2>7
<1>7. ASSUME NEW e \in walk.queue, Closure!VisitHelper(e) PROVE TokenWalk'
  <2>1. walk'.at = "helpers" BY <1>7, Visiting DEF Closure!VisitHelper
  <2>2. QED BY <2>1 DEF TokenWalk
<1>8. ASSUME NEW p, Closure!Change(p) PROVE TokenWalk'
  BY <1>8, Changing DEF TokenWalk
<1>9. CASE UNCHANGED closure
  <2> USE <1>9
  <2>1. Waiting' = Waiting /\ \A e : Deep(e)' <=> Deep(e)
    BY DEF closure, Waiting, Deep
  <2>2. Now(walk.visited)' = Now(walk.visited) /\ program' = program
    BY DEF closure, Now
  <2>3. walk' = walk BY DEF closure
  <2>4. QED BY <2>1, <2>2, <2>3 DEF TokenWalk
<1>10. QED
  BY <1>1, <1>2, <1>3, <1>4, <1>5, <1>6, <1>7, <1>8, <1>9
     DEF Closure!Next, Closure!Reload, Closure!Retarget

\* A program's chain, calls and wrappers decide what is covered.
LEMMA SameCode ==
  ASSUME NEW p, NEW q, p.chain = q.chain, p.sdk = q.sdk, p.calls = q.calls, p.twins = q.twins
  PROVE  /\ Whole(p) <=> Whole(q)
         /\ \A t, S, Q : Covers(p, t, S, Q) <=> Covers(q, t, S, Q)
         /\ \A t, S : Within(p, t, S) <=> Within(q, t, S)
<1>1. Whole(p) <=> Whole(q)
  BY DEF Whole, Closure!Layers
<1>2. Starts(p) = Starts(q) /\ \A t, f, g : Edge(p, t, f, g) <=> Edge(q, t, f, g)
  BY DEF Starts, Edge
<1>3. QED BY <1>1, <1>2 DEF Covers, Within

LEMMA FreshKeeps ==
  ASSUME NEW tok, NEW K, UNCHANGED <<program, version>>
  PROVE  Fresh(tok, K)' <=> Fresh(tok, K)
BY DEF Fresh, Now

LEMMA TokenTakenStep ==
  ASSUME ClosureTypes, TokenWalk, TokenTaken, [Closure!Next]_closure
  PROVE  TokenTaken'
<1>1. CASE Closure!Ask BY <1>1, Asking DEF TokenTaken
<1>2. CASE Closure!TokenDone
  <2> SUFFICES ASSUME walk'.steady, Whole(program)' PROVE TokenTaken'
    BY DEF TokenTaken
  <2>1. /\ walk.at = "token" /\ walk.steady /\ UNCHANGED <<program, version>> /\ walk.queue = {}
        /\ walk'.token.got = walk.got /\ walk'.token.partial = walk.partial
    BY <1>2, TokenEnds
  <2> USE <2>1
  <2>2. Whole(program) BY DEF Whole
  <2>3. Waiting = {} BY DEF Waiting
  <2>4. Fresh(walk'.token, walk.visited)
    BY <2>2, <2>3 DEF TokenWalk, Fresh
  <2>5. walk.visited \in SUBSET Fs BY <2>2 DEF TokenWalk
  <2> DEFINE tok == walk'.token
             V == walk.visited
  <2>6. \E K \in SUBSET Fs : K = V BY <2>5
  <2>7. PICK K \in SUBSET Fs : K = V BY <2>6
  <2>8. Fresh(tok, K)
    BY <2>4, <2>7
  <2>9. Fresh(walk.token, K)'
    BY <2>8 DEF Fresh, Now
  <2>10. QED BY <2>9 DEF TokenTaken
<1>3. ASSUME walk.at \in {"look", "read", "helpers"}, walk'.token = walk.token,
             walk'.steady = walk.steady, UNCHANGED <<program, version>>
      PROVE  TokenTaken'
  <2> USE <1>3
  <2> SUFFICES ASSUME walk'.steady, Whole(program)' PROVE \E K \in SUBSET Fs : Fresh(walk.token, K)'
    BY DEF TokenTaken
  <2>1. Whole(program) BY DEF Whole
  <2>2. PICK K \in SUBSET Fs : Fresh(walk.token, K) BY <2>1 DEF TokenTaken
  <2>3. Fresh(walk.token, K)' BY <2>2 DEF Fresh, Now
  <2>4. QED BY <2>3
<1>4. CASE Closure!Look
  BY <1>3, <1>4, Looking, Goes DEF ClosureTypes
<1>5. CASE Closure!ReadRoots
  <2>1. /\ walk.at = "read" /\ walk'.token = walk.token /\ walk'.steady = walk.steady
        /\ UNCHANGED <<program, version>>
    BY <1>5 DEF Closure!ReadRoots, ClosureTypes, Walks
  <2>2. QED BY <1>3, <2>1
<1>6. CASE Closure!Keep BY <1>6, Keeping, Goes DEF TokenTaken, ClosureTypes
<1>7. ASSUME NEW e \in walk.queue, Closure!VisitHelper(e) PROVE TokenTaken'
  <2>1. /\ walk.at = "helpers" /\ walk'.token = walk.token /\ walk'.steady = walk.steady
        /\ UNCHANGED <<program, version>>
    BY <1>7, Visiting DEF Closure!VisitHelper
  <2>2. QED BY <1>3, <2>1
<1>8. ASSUME NEW e \in walk.queue, Closure!VisitToken(e) PROVE TokenTaken'
  <2>1. walk'.at = "token" BY <1>8, Visiting DEF Closure!VisitToken
  <2>2. QED BY <2>1 DEF TokenTaken
<1>9. ASSUME NEW p, Closure!Change(p) PROVE TokenTaken'
  BY <1>9, Changing DEF TokenTaken
<1>10. CASE UNCHANGED closure
  <2>1. walk' = walk /\ UNCHANGED <<program, version>> BY <1>10 DEF closure
  <2>2. CASE walk.at \in {"look", "read", "helpers"} BY <1>3, <2>1, <2>2
  <2>3. QED BY <2>1, <2>2 DEF TokenTaken
<1>11. QED
  BY <1>1, <1>2, <1>4, <1>5, <1>6, <1>7, <1>8, <1>9, <1>10
     DEF Closure!Next, Closure!Reload, Closure!Retarget

LEMMA NamesNow == ASSUME NEW S PROVE Names(Now(S)) = S
<1>1. Names(Now(S)) \subseteq S
  BY DEF Names, Now
<1>2. ASSUME NEW f \in S PROVE f \in Names(Now(S))
  <2>1. <<f, version[f]>> \in Now(S) /\ <<f, version[f]>>[1] = f BY DEF Now
  <2>2. QED BY <2>1 DEF Names
<1>3. QED BY <1>1, <1>2

\* A new token of a table that is seen whole was taken under it.
LEMMA FreshIsUnder ==
  ASSUME program.table \in Closure!Tables, Len(program.table) <= 1, NEW tok, NEW K, Fresh(tok, K)
  PROVE  Under(tok, program.table) /\ K = Names(tok.got)
<1>1. Names(tok.got) = K
  BY NamesNow DEF Fresh
<1>2. Covers(program, program.table, K, {})
  BY SeenIsEdge DEF Fresh, Sees, Covers, Fs
<1>3. Len(program.table) > 1 => FALSE
  BY DEF Closure!Tables
<1>4. QED
  BY <1>1, <1>2, <1>3 DEF Fresh, Under, Bounded

\* What holds of a token under a table holds when the program changes otherwise.
LEMMA UnderKeeps ==
  ASSUME NEW tok, NEW t, Under(tok, t), program'.chain = program.chain, program'.sdk = program.sdk,
         program'.calls = program.calls, program'.twins = program.twins
  PROVE  Under(tok, t)'
<1>1. /\ \A S, Q : Covers(program, t, S, Q) <=> Covers(program', t, S, Q)
      /\ \A S : Within(program, t, S) <=> Within(program', t, S)
  BY SameCode
<1>2. QED BY <1>1 DEF Under

LEMMA ReadingKeeps ==
  ASSUME ClosureTypes, ClosureTypes', NEW tok, NEW t, Reading(tok, t), program'.chain = program.chain,
         program'.sdk = program.sdk, program'.calls = program.calls, program'.twins = program.twins,
         \/ program'.table = program.table /\ program'.changes = program.changes
         \/ program'.changes = 1 /\ program.changes = 0
  PROVE  Reading(tok, t)'
<1>1. Under(tok, t) => Under(tok, t)'
  BY UnderKeeps
<1>2. QED BY <1>1 DEF Reading

\* The application changes while the helpers are read.
LEMMA ProgramChanges ==
  ASSUME ClosureTypes, [Closure!Next]_closure
  PROVE  /\ program'.chain = program.chain /\ program'.sdk = program.sdk
         /\ program'.calls = program.calls /\ program'.twins = program.twins
         /\ \/ program' = program
            \/ program'.changes = 1 /\ program.changes = 0
<1>1. ASSUME NEW f \in Fs, Closure!Reload(f)
      PROVE  /\ program'.chain = program.chain /\ program'.sdk = program.sdk
             /\ program'.calls = program.calls /\ program'.twins = program.twins
             /\ program'.changes = 1 /\ program.changes = 0
  <2> USE <1>1
  <2>1. program' = [program EXCEPT !.changes = 1] /\ program'.changes = 1 BY Reloading
  <2>2. program.changes = 0 BY Changing DEF Closure!Reload
  <2>3. QED BY <2>1, <2>2 DEF ClosureTypes, Closure!Programs
<1>2. ASSUME NEW t \in Closure!Tables, Closure!Retarget(t)
      PROVE  /\ program'.chain = program.chain /\ program'.sdk = program.sdk
             /\ program'.calls = program.calls /\ program'.twins = program.twins
             /\ program'.changes = 1 /\ program.changes = 0
  BY <1>2, Retargeting, Changing DEF Closure!Retarget
<1>3. ASSUME ~\E f \in Fs : Closure!Reload(f), ~\E t \in Closure!Tables : Closure!Retarget(t)
      PROVE  program' = program
  <2>1. CASE UNCHANGED closure BY <2>1, SMTT(30) DEF closure
  <2>2. CASE Closure!Next
    BY <1>3, <2>2, Zenon DEF Closure!Next, Closure!Ask, Closure!TokenDone, Closure!Look, Closure!ReadRoots,
       Closure!Keep, Closure!VisitToken, Closure!VisitHelper, Closure!Visit, Fs
  <2>3. QED BY <2>1, <2>2
<1>4. QED BY <1>1, <1>2, <1>3

\* The helpers of the roots are all those the roots may run.
LEMMA HelpersBegin ==
  ASSUME ClosureTypes, TokenTaken, Changes, Closure!ReadRoots, walk'.at = "helpers"
  PROVE  HelperWalk'
<1> SUFFICES ASSUME ~walk'.partial, ~program'.twins PROVE HelperWalk'
  BY DEF HelperWalk
<1>a. program \in Closure!Programs /\ program.table \in Closure!Tables
  BY DEF ClosureTypes, Closure!Programs
<1> USE <1>a
<1>b. \E u \in Closure!Tables : u = program.table
  OBVIOUS
<1>c. PICK t \in Closure!Tables : t = program.table
  BY <1>b
<1> USE <1>c
<1>d. PICK S : S = Starts(program)
  OBVIOUS
<1> USE <1>d
<1> DEFINE roots == Closure!Roots(program)
           readable == Closure!Readable(roots)
<1>1. /\ UNCHANGED <<program, version>> /\ walk.at = "read"
      /\ walk'.token = walk.token /\ walk'.steady = walk.steady
      /\ walk'.got = {<<r, version[r]>> : r \in readable}
      /\ walk'.visited = {Closure!Identity(r) : r \in roots}
      /\ walk'.queue = UNION {{<<g, 1>> : g \in Closure!Dependencies(r)} : r \in roots}
      /\ ~Closure!LayersPartial(program) /\ readable = roots
      /\ \A r \in roots : ~Closure!Unlisted(r)
  BY RootsRead
<1> USE <1>1
<1>2. ~program.twins
  OBVIOUS
<1> USE <1>2
<1>3. Closure!Layers(program) = program.chain
  BY RootsOf
<1> USE <1>3
<1>4. roots = S /\ 1 \in S /\ S \subseteq Fs
  BY RootsOf
<1> USE <1>4
<1>5. walk'.visited = S
  <2>1. \A r : Closure!Identity(r) = r BY DEF Closure!Identity
  <2>2. QED BY <2>1
<1> USE <1>5
<1>6. walk'.got = Now(S) /\ Now(S) = Now(walk.visited)'
  <2>1. walk'.got = Now(S) BY DEF Now
  <2>2. QED BY <2>1 DEF Now
<1>7. walk'.visited = Names(walk'.got)
  BY <1>6, NamesNow
<1>8. Len(t) <= 1
  <2>1. ~(Len(t) > 1) BY Depends
  <2>2. QED BY <2>1 DEF Closure!Tables
<1> USE <1>8
<1>9. \A r \in S, g \in Fs : g # r /\ Edge(program, t, r, g) => g \in Closure!Dependencies(r)
  BY SeenIsEdge, Depends
<1>10. \A r \in S : Closure!Dependencies(r) \subseteq {g \in Fs : Edge(program, t, r, g)}
  BY SeenIsEdge, Depends
<1>11. \A r \in S : \A g \in Closure!Dependencies(r) : g \in Waiting'
  <2> SUFFICES ASSUME NEW r \in S, NEW g \in Closure!Dependencies(r) PROVE g \in Waiting'
    OBVIOUS
  <2>1. <<g, 1>> \in walk'.queue /\ <<g, 1>>[1] = g OBVIOUS
  <2>2. QED BY <2>1 DEF Waiting
<1>12. \A g \in Waiting' : \E r \in S : g \in Closure!Dependencies(r)
  BY DEF Waiting
<1>13. Covers(program, t, S, Waiting')
  BY <1>9, <1>11 DEF Covers
<1>14. Within(program, t, S \cup Waiting')
  BY <1>10, <1>12 DEF Within
<1>15. Reading(walk.token, t)
  <2>1. ASSUME program.changes = 0 PROVE Under(walk.token, t)
    <3>1. walk.steady /\ Whole(program) BY <2>1 DEF Changes, Whole
    <3>2. PICK K \in SUBSET Fs : Fresh(walk.token, K) BY <3>1 DEF TokenTaken
    <3>3. QED BY <3>2, FreshIsUnder
  <2>2. QED BY <2>1 DEF Reading
<1>16. Reading(walk.token, t)'
  BY <1>15 DEF Reading, Under
<1>17. Whole(program)'
  BY DEF Whole
<1>18. /\ Covers(program', t, walk'.visited, Waiting')
       /\ Within(program', t, walk'.visited \cup Waiting')
       /\ t = program'.table /\ walk'.got = Now(walk.visited)' /\ 1 \in walk'.visited
  BY <1>6, <1>13, <1>14
<1>19. QED
  BY <1>7, <1>16, <1>17, <1>18 DEF HelperWalk

LEMMA HelperFollows ==
  ASSUME ClosureTypes, HelperWalk, walk.at = "helpers", walk'.at = "helpers",
         NEW e \in walk.queue, e[1] \in Fs, Followed(e, e[1]), ~walk'.partial, ~program.twins,
         UNCHANGED <<program, version>>, walk'.token = walk.token, walk'.steady = walk.steady
  PROVE  HelperWalk'
<1> DEFINE f == e[1]
           V == walk.visited
           D == Closure!Dependencies(f)
<1>1. /\ f \notin V /\ walk'.queue = (walk.queue \ {e}) \cup Closure!Follow(f, e[2])
      /\ walk'.visited = V \cup {f}
      /\ walk'.got = walk.got \cup {<<f, version[f]>>}
      /\ ~walk.partial /\ ~Closure!Unlisted(f) /\ ~Closure!TooDeep(f, e[2])
  BY DEF Followed
<1> USE <1>1
<1>2. Whole(program) /\ V = Names(walk.got) /\ 1 \in V
  BY DEF HelperWalk
<1> USE <1>2
<1>3. PICK t \in Closure!Tables :
        /\ Reading(walk.token, t) /\ Covers(program, t, V, Waiting)
        /\ Within(program, t, V \cup Waiting)
        /\ walk.steady => t = program.table /\ walk.got = Now(V)
  BY DEF HelperWalk
<1> USE <1>3
<1>4. f # 1
  OBVIOUS
<1>5. /\ \A g \in Fs : g # f /\ Edge(program, t, f, g) => g \in D
      /\ \A g \in D : g \in Fs /\ Edge(program, t, f, g)
  BY <1>4, Depends DEF Seen, Edge
<1>6. \A g \in D : g \in Waiting'
  <2>1. CASE e[2] >= 2
    <3>1. D = {} BY <2>1 DEF Closure!TooDeep
    <3>2. QED BY <3>1
  <2>2. ASSUME ~(e[2] >= 2), NEW g \in D PROVE g \in Waiting'
    <3>1. <<g, e[2] + 1>> \in walk'.queue /\ <<g, e[2] + 1>>[1] = g
      BY <2>2 DEF Closure!Follow
    <3>2. QED BY <3>1 DEF Waiting
  <2>3. QED BY <2>1, <2>2
<1>7. Waiting \subseteq Waiting' \cup {f} /\ f \in Waiting
  BY DEF Waiting
<1> USE <1>7
<1>8. Waiting' \subseteq Waiting \cup D
  BY DEF Waiting, Closure!Follow
<1>9. Covers(program, t, V \cup {f}, Waiting')
  <2>1. Starts(program) \subseteq V \cup {f} \cup Waiting'
    BY DEF Covers
  <2>2. ASSUME NEW h \in V \cup {f}, NEW g \in Fs, Edge(program, t, h, g)
        PROVE  g \in V \cup {f} \cup Waiting'
    <3> USE <2>2
    <3>1. CASE h \in V BY <3>1 DEF Covers
    <3>2. CASE h = f BY <1>5, <1>6, <3>2
    <3>3. QED BY <3>1, <3>2
  <2>3. QED BY <2>1, <2>2 DEF Covers
<1>10. Within(program, t, V \cup {f} \cup Waiting')
  <2> SUFFICES ASSUME NEW X \in SUBSET Fs, Starts(program) \subseteq X,
                      \A h \in X, g \in Fs : Edge(program, t, h, g) => g \in X
               PROVE  V \cup {f} \cup Waiting' \subseteq X
    BY DEF Within
  <2>1. V \cup Waiting \subseteq X BY DEF Within
  <2>2. QED BY <1>5, <1>8, <2>1
<1>11. walk'.visited = Names(walk'.got)
  <2> DEFINE x == <<f, version[f]>>
  <2>1. Names(walk.got \cup {x}) = Names(walk.got) \cup {x[1]}
    <3> HIDE DEF x
    <3>1. QED BY DEF Names
  <2>2. QED BY <2>1
<1>12. walk.steady => walk'.got = Now(walk.visited)'
  <2>1. walk.steady => walk'.got = Now(V) \cup {<<f, version[f]>>} OBVIOUS
  <2>2. Now(V) \cup {<<f, version[f]>>} = {<<g, version[g]>> : g \in V \cup {f}} BY DEF Now
  <2>3. Now(walk.visited)' = {<<g, version[g]>> : g \in V \cup {f}} BY DEF Now
  <2>4. QED BY <2>1, <2>2, <2>3
<1>13. Reading(walk.token, t)'
  BY DEF Reading, Under
<1>14. /\ Covers(program', t, walk'.visited, Waiting')
       /\ Within(program', t, walk'.visited \cup Waiting')
       /\ walk'.steady => t = program'.table /\ walk'.got = Now(walk.visited)'
       /\ Whole(program)' /\ 1 \in walk'.visited
  BY <1>9, <1>10, <1>12
<1>15. QED
  BY <1>11, <1>13, <1>14 DEF HelperWalk

LEMMA HelperWalkStep ==
  ASSUME ClosureTypes, ClosureTypes', TokenTaken, Changes, HelperWalk, [Closure!Next]_closure
  PROVE  HelperWalk'
<1>1. CASE Closure!Ask BY <1>1, Asking DEF HelperWalk
<1>2. CASE Closure!TokenDone BY <1>2, TokenEnds DEF HelperWalk
<1>3. CASE Closure!Look BY <1>3, Looking, Goes DEF HelperWalk, ClosureTypes
<1>4. CASE Closure!ReadRoots
  <2> USE <1>4
  <2>1. walk'.at \in {"rest", "helpers"}
    BY DEF Closure!ReadRoots, ClosureTypes, Walks
  <2>2. CASE walk'.at = "rest" BY <2>2 DEF HelperWalk
  <2>3. QED BY <2>1, <2>2, HelpersBegin
<1>5. CASE Closure!Keep BY <1>5, Keeping, Goes DEF HelperWalk, ClosureTypes
<1>6. ASSUME NEW e \in walk.queue, Closure!VisitHelper(e) PROVE HelperWalk'
  <2> SUFFICES ASSUME ~walk'.partial, ~program'.twins PROVE HelperWalk'
    BY DEF HelperWalk
  <2> DEFINE n == 1 + Closure!Cardinality(Closure!Readable(Closure!Roots(program)))
             i == Closure!Identity(e[1])
             full == Closure!Cardinality(walk.got) >= n \/ e[1] \in program.silent
  <2>1. Closure!Visit(e, "helpers", n, program.silent)
    BY <1>6 DEF Closure!VisitHelper
  <2> USE <2>1
  <2> HIDE DEF n
  <2>2. /\ UNCHANGED <<program, version>> /\ walk.at = "helpers" /\ walk'.at = "helpers"
        /\ e[1] \in Fs /\ walk'.token = walk.token /\ walk'.steady = walk.steady
    BY Visiting
  <2> USE <2>2
  <2>3. i = e[1] /\ ~program.twins
    BY Visiting
  <2> USE <2>3
  <2>4. Dropped(e, i) \/ (full /\ Unread(e, i)) \/ (~full /\ Followed(e, i))
    BY Visiting
  <2> HIDE DEF i, full
  <2>5. Dropped(e, e[1]) \/ Unread(e, e[1]) \/ Followed(e, e[1])
    BY <2>4 DEF Dropped, Unread, Followed
  <2>6. CASE Dropped(e, e[1])
    <3>1. /\ e[1] \in walk.visited /\ walk'.queue = walk.queue \ {e} /\ walk'.visited = walk.visited
          /\ walk'.got = walk.got /\ ~walk.partial
      BY <2>6 DEF Dropped
    <3> USE <3>1
    <3>2. walk'.visited \cup Waiting' = walk.visited \cup Waiting
      BY Leaves
    <3>3. Now(walk.visited)' = Now(walk.visited)
      BY DEF Now
    <3>4. PICK t \in Closure!Tables :
            /\ Reading(walk.token, t) /\ Covers(program, t, walk.visited, Waiting)
            /\ Within(program, t, walk.visited \cup Waiting)
            /\ walk.steady => t = program.table /\ walk.got = Now(walk.visited)
      BY DEF HelperWalk
    <3>5. Whole(program) /\ walk.visited = Names(walk.got) /\ 1 \in walk.visited
      BY DEF HelperWalk
    <3>6. /\ Whole(program') /\ walk'.visited = Names(walk'.got) /\ 1 \in walk'.visited
      BY <3>5
    <3>7. Reading(walk.token, t)'
      BY <3>4 DEF Reading, Under
    <3>8. /\ Covers(program', t, walk'.visited, Waiting')
          /\ Within(program', t, walk'.visited \cup Waiting')
          /\ walk'.steady => t = program'.table /\ walk'.got = Now(walk.visited)'
      BY <3>2, <3>3, <3>4 DEF Covers
    <3>9. QED
      BY <3>6, <3>7, <3>8 DEF HelperWalk
  <2>7. CASE Unread(e, e[1]) BY <2>7 DEF Unread
  <2>8. CASE Followed(e, e[1])
    BY <2>8, HelperFollows
  <2>9. QED BY <2>5, <2>6, <2>7, <2>8
<1>7. ASSUME NEW e \in walk.queue, Closure!VisitToken(e) PROVE HelperWalk'
  <2>1. walk'.at = "token" BY <1>7, Visiting DEF Closure!VisitToken
  <2>2. QED BY <2>1 DEF HelperWalk
<1>8. ASSUME NEW p, Closure!Change(p) PROVE HelperWalk'
  <2> SUFFICES ASSUME walk'.at = "helpers", ~walk'.partial, ~program'.twins PROVE HelperWalk'
    BY DEF HelperWalk
  <2>1. /\ walk.at = "helpers" /\ walk'.token = walk.token /\ walk'.got = walk.got
        /\ walk'.queue = walk.queue /\ walk'.visited = walk.visited /\ ~walk.partial
        /\ ~walk'.steady
    BY <1>8, Changing
  <2> USE <2>1
  <2>2. /\ program'.chain = program.chain /\ program'.sdk = program.sdk
        /\ program'.calls = program.calls /\ program'.twins = program.twins
        /\ \/ program' = program
           \/ program'.changes = 1 /\ program.changes = 0
    BY ProgramChanges
  <2> USE <2>2
  <2>3. PICK t \in Closure!Tables :
          /\ Reading(walk.token, t) /\ Covers(program, t, walk.visited, Waiting)
          /\ Within(program, t, walk.visited \cup Waiting)
    BY DEF HelperWalk
  <2>4. Whole(program) /\ walk.visited = Names(walk.got) /\ 1 \in walk.visited
    BY DEF HelperWalk
  <2>5. Reading(walk.token, t)'
    <3>1. Under(walk.token, t) => Under(walk.token, t)'
      <4>1. /\ \A S, Q : Covers(program, t, S, Q) <=> Covers(program', t, S, Q)
            /\ \A S : Within(program, t, S) <=> Within(program', t, S)
        BY SameCode
      <4>2. QED BY <4>1 DEF Under
    <3>2. QED BY <2>3, <3>1 DEF Reading
  <2>6. /\ Whole(program') /\ Covers(program', t, walk.visited, Waiting)
        /\ Within(program', t, walk.visited \cup Waiting)
    BY <2>3, <2>4, SameCode
  <2>7. Waiting' = Waiting
    BY DEF Waiting
  <2>8. QED
    BY <2>4, <2>5, <2>6, <2>7 DEF HelperWalk
<1>9. CASE UNCHANGED closure
  <2>1. walk' = walk /\ UNCHANGED <<program, version>>
    BY <1>9 DEF closure
  <2> USE <2>1
  <2>2. Waiting' = Waiting /\ Now(walk.visited)' = Now(walk.visited)
    BY DEF Waiting, Now
  <2>3. \A t : Reading(walk.token, t)' <=> Reading(walk.token, t)
    BY DEF Reading, Under
  <2>4. QED BY <2>2, <2>3 DEF HelperWalk
<1>10. QED
  BY <1>1, <1>2, <1>3, <1>4, <1>5, <1>6, <1>7, <1>8, <1>9
     DEF Closure!Next, Closure!Reload, Closure!Retarget

\* A source is kept with what was known of it when it was read.
KeptSource(k) ==
  (~k.source.partial /\ ~program.twins) =>
    /\ Whole(program)
    /\ \E t \in Closure!Tables :
         /\ Reading(k.token, t)
         /\ Covers(program, t, Names(k.source.got), {})
         /\ Within(program, t, Names(k.source.got))

LEMMA KeptKeeps ==
  ASSUME ClosureTypes, ClosureTypes', NEW k, KeptSource(k), [Closure!Next]_closure
  PROVE  KeptSource(k)'
<1> SUFFICES ASSUME ~k.source.partial, ~program'.twins PROVE KeptSource(k)'
  BY DEF KeptSource
<1>1. /\ program'.chain = program.chain /\ program'.sdk = program.sdk
      /\ program'.calls = program.calls /\ program'.twins = program.twins
      /\ \/ program' = program
         \/ program'.changes = 1 /\ program.changes = 0
  BY ProgramChanges
<1> USE <1>1
<1>2. PICK t \in Closure!Tables :
        /\ Reading(k.token, t) /\ Covers(program, t, Names(k.source.got), {})
        /\ Within(program, t, Names(k.source.got))
  BY DEF KeptSource
<1>3. Whole(program)
  BY DEF KeptSource
<1>4. Reading(k.token, t)'
  BY <1>2, ReadingKeeps
<1>5. /\ Whole(program') /\ Covers(program', t, Names(k.source.got), {})
      /\ Within(program', t, Names(k.source.got))
  BY <1>2, <1>3, SameCode
<1>6. QED BY <1>4, <1>5 DEF KeptSource

LEMMA SourceKeptStep ==
  ASSUME ClosureTypes, ClosureTypes', HelperWalk, SourceKept, [Closure!Next]_closure
  PROVE  SourceKept'
<1>1. \A k \in kept : KeptSource(k)
  BY DEF SourceKept, KeptSource
<1>2. CASE Closure!Keep
  <2>1. /\ UNCHANGED <<program, version>> /\ walk.at = "helpers" /\ walk.queue = {}
        /\ reading' = [got |-> walk.got, partial |-> walk.partial]
        /\ kept' = {[token |-> walk.token, source |-> reading']}
    BY <1>2, Keeping
  <2> USE <2>1
  <2>2. Waiting = {} BY DEF Waiting
  <2>3. ASSUME ~walk.partial, ~program.twins
        PROVE  /\ Whole(program)
               /\ \E t \in Closure!Tables : /\ Reading(walk.token, t)
                                            /\ Covers(program, t, Names(walk.got), {})
                                            /\ Within(program, t, Names(walk.got))
    BY <2>2, <2>3 DEF HelperWalk
  <2>4. ASSUME NEW k \in kept' PROVE KeptSource(k)
    <3>1. k.token = walk.token /\ k.source.got = walk.got /\ k.source.partial = walk.partial
      BY <2>4
    <3>2. QED BY <2>3, <3>1 DEF KeptSource
  <2>5. \A k \in kept' : KeptSource(k)'
    BY <2>4 DEF KeptSource, Reading, Under
  <2>6. QED BY <2>5 DEF SourceKept, KeptSource
<1>3. CASE ~Closure!Keep
  <2>1. kept' = kept
    <3>1. CASE UNCHANGED closure BY <3>1, SMTT(30) DEF closure
    <3>2. CASE Closure!Next
      BY <1>3, <3>2, Zenon DEF Closure!Next, Closure!Ask, Closure!TokenDone, Closure!Look, Closure!ReadRoots,
         Closure!VisitToken, Closure!VisitHelper, Closure!Visit, Closure!Reload, Closure!Retarget,
         Closure!Change
    <3>3. QED BY <3>1, <3>2
  <2>2. \A k \in kept : KeptSource(k)'
    BY <1>1, KeptKeeps
  <2>3. QED BY <2>1, <2>2 DEF SourceKept, KeptSource
<1>4. QED BY <1>2, <1>3

\* Three functions are reached in two steps: Runs is the least set that holds
\* what the callable starts with and what its members may run.
LEMMA RunsAre ==
  ASSUME ClosureTypes, NEW S \in SUBSET Fs, Covers(program, program.table, S, {}),
         Within(program, program.table, S)
  PROVE  S = Closure!Runs
<1> DEFINE t == program.table
           start == Starts(program)
           Called(X) == {g \in Fs : \E f \in X : Edge(program, t, f, g)}
           near == start \cup Called(start)
           all == near \cup Called(near)
<1>1. /\ program.chain \in Closure!Chains /\ program.table \in Closure!Tables
      /\ program.calls \in [Fs -> SUBSET Fs] /\ program.sdk \subseteq {2}
  BY DEF ClosureTypes, Closure!Programs, Fs
<1>2. start \subseteq Fs /\ start # {}
  <2> DEFINE c == program.chain
  <2>1. Len(c) \in Nat \ {0} /\ \A n \in 1..Len(c) : c[n] \in Fs
    <3>1. c = << 1 >> \/ c = <<2, 1>> \/ c = <<2, 3, 1>> \/ c = <<2, 1, 2>>
      BY <1>1 DEF Closure!Chains
    <3> HIDE DEF c
    <3>2. CASE c = << 1 >> BY <3>2 DEF Fs
    <3>3. CASE c = <<2, 1>> BY <3>3 DEF Fs
    <3>4. CASE c = <<2, 3, 1>> BY <3>4 DEF Fs
    <3>5. CASE c = <<2, 1, 2>> BY <3>5 DEF Fs
    <3>6. QED BY <3>1, <3>2, <3>3, <3>4, <3>5
  <2>2. c[Len(c)] \in Fs
    BY <2>1
  <2>3. start = {c[Len(c)]} \cup ({c[n] : n \in 1..Len(c)} \ program.sdk)
    BY DEF Starts
  <2> HIDE DEF c, start
  <2>4. QED BY <2>1, <2>2, <2>3
<1> USE <1>2
<1>3. ASSUME NEW X \in SUBSET Fs PROVE Closure!Callees(X) = Called(X)
  <2>1. \A f \in X : Closure!Table(f) = IF f = 1 THEN t ELSE <<>>
    BY DEF Closure!Table
  <2>2. ASSUME NEW g \in Fs, NEW f \in X
        PROVE  (\E n \in 1..Len(Closure!Table(f)) : Closure!Table(f)[n] = g)
                  <=> f = 1 /\ \E n \in 1..Len(t) : t[n] = g
    <3>1. CASE f = 1 BY <2>1, <3>1
    <3>2. CASE f # 1
      <4> USE <3>2
      <4>1. Len(Closure!Table(f)) = 0 BY <2>1
      <4>2. QED BY <4>1
    <3>3. QED BY <3>1, <3>2
  <2>3. Closure!Callees(X) =
          {g \in Fs \ program.sdk : \E f \in X : \/ g \in program.calls[f]
             \/ \E n \in 1..Len(Closure!Table(f)) : Closure!Table(f)[n] = g}
    BY DEF Closure!Callees, Fs
  <2>4. QED BY <2>2, <2>3 DEF Edge
<1>4. Closure!Runs = all
  <2>1. near \subseteq Fs OBVIOUS
  <2>2. Closure!Callees(start) = Called(start) /\ Closure!Callees(near) = Called(near)
    BY <1>3, <2>1
  <2>3. Closure!Runs = (start \cup Closure!Callees(start)) \cup Closure!Callees(start \cup Closure!Callees(start))
    BY DEF Closure!Runs, Starts
  <2>4. QED BY <2>2, <2>3
<1>5. start \subseteq S /\ \A f \in S, g \in Fs : Edge(program, t, f, g) => g \in S
  BY DEF Covers
<1>6. all \subseteq S
  <2>1. near \subseteq S BY <1>5
  <2>2. Called(near) \subseteq S BY <1>5, <2>1
  <2>3. QED BY <2>1, <2>2
<1>7. all \subseteq Fs /\ start \subseteq all
  OBVIOUS
<1>8. ASSUME NEW h \in all, NEW g \in Fs, Edge(program, t, h, g) PROVE g \in all
  <2> USE <1>8
  <2> SUFFICES ASSUME g \notin all PROVE FALSE
    OBVIOUS
  <2>1. h \notin near OBVIOUS
  <2> USE <2>1
  <2>2. h \in Called(near) /\ h \in Fs /\ h # g OBVIOUS
  <2> USE <2>2
  <2>3. PICK a \in near : Edge(program, t, a, h) OBVIOUS
  <2>4. a \notin start BY <2>3
  <2>5. PICK b \in start : TRUE OBVIOUS
  <2>6. b # a /\ b # h /\ b # g /\ a # h /\ a # g /\ a \in Fs /\ b \in Fs
    BY <2>3, <2>4, <2>5
  <2>7. QED BY <2>6 DEF Fs
<1>9. S \subseteq all
  BY <1>7, <1>8 DEF Within
<1>10. QED BY <1>4, <1>6, <1>9

\* An equal token stands for an equal source.
LEMMA HitIsCurrent ==
  ASSUME ClosureTypes, Ages, TokenTaken, SourceKept, walk.at = "look", walk.steady, ~program.twins,
         NEW k \in kept, k.token = walk.token, ~k.source.partial
  PROVE  k.source.got = Now(Closure!Runs)
<1> DEFINE S == Names(k.source.got)
           table == program.table
<1>1. PICK t \in Closure!Tables :
        Reading(k.token, t) /\ Covers(program, t, S, {}) /\ Within(program, t, S)
  BY DEF SourceKept
<1> USE <1>1
<1>2. Whole(program)
  BY DEF SourceKept
<1>3. PICK K \in SUBSET Fs : Fresh(walk.token, K)
  BY <1>2 DEF TokenTaken
<1>4. /\ k.token.got = Now(K) /\ Sees(program, table, K, {}) /\ Within(program, table, K)
      /\ Bounded(K, k.token.partial, table)
  BY <1>3 DEF Fresh
<1> USE <1>4
<1>5. program \in Closure!Programs /\ table \in Closure!Tables /\ Len(table) \in Nat
  BY DEF ClosureTypes, Closure!Programs, Closure!Tables
<1> USE <1>5
<1>6. Closure!Layers(program) = program.chain
  BY <1>2 DEF Whole
<1>7. 1 \in Starts(program) /\ Starts(program) \subseteq Fs
  BY <1>6, RootsOf
<1>8. 1 \in K
  BY <1>7 DEF Sees
<1>9. k.token.got \subseteq Closure!Read /\ k.source.got \subseteq Closure!Read
  BY DEF ClosureTypes, Tokens2
<1>10. S \subseteq Fs
  BY <1>9 DEF Names, Closure!Read, Fs
<1>11. Len(table) <= 1 => Covers(program, table, K, {})
  BY SeenIsEdge DEF Sees, Covers
<1>12. S \subseteq K /\ S = Closure!Runs
  <2>1. CASE t = table
    <3> USE <2>1
    <3>1. S = Closure!Runs
      BY <1>10, RunsAre
    <3>2. Covers(program, table, K, {})
      BY <1>11 DEF Reading
    <3>3. S \subseteq K
      BY <3>2 DEF Covers, Within
    <3>4. QED BY <3>1, <3>3
  <2>2. CASE t # table
    <3>1. Under(k.token, t)
      BY <2>2 DEF Reading
    <3>2. Names(k.token.got) = K
      BY NamesNow
    <3>3. Covers(program, t, K, {}) /\ Within(program, t, K) /\ (k.token.partial => K = Fs)
      BY <3>1, <3>2 DEF Under
    <3> USE <3>3
    <3>4. S \subseteq K
      BY DEF Covers, Within
    <3>5. K \subseteq S
      BY <1>10 DEF Covers, Within
    <3>6. CASE Len(table) <= 1
      <4>1. K = Closure!Runs BY <1>11, <3>6, RunsAre
      <4>2. QED BY <3>4, <3>5, <4>1
    <3>7. CASE Len(table) > 1
      <4>1. K = Fs BY <1>8, <3>7 DEF Bounded
      <4>2. Covers(program, table, K, {}) BY <1>7, <4>1 DEF Covers
      <4>3. K = Closure!Runs BY <4>2, RunsAre
      <4>4. QED BY <3>4, <3>5, <4>3
    <3>8. QED BY <3>6, <3>7
  <2>3. QED BY <2>1, <2>2
<1>13. Older(k.token.got, k.source.got) /\ \A x \in k.source.got : x[2] <= version[x[1]]
  BY DEF Ages
<1>14. ASSUME NEW x \in k.source.got PROVE x = <<x[1], version[x[1]]>> /\ x[1] \in S
  <2>1. x \in Closure!Read /\ x[1] \in S
    BY <1>9 DEF Names
  <2> USE <2>1
  <2>2. x = <<x[1], x[2]>> /\ x[1] \in Fs /\ x[2] \in Nat
    BY DEF Closure!Read, Fs
  <2> USE <2>2
  <2>3. <<x[1], version[x[1]]>> \in k.token.got
    BY <1>12 DEF Now
  <2>4. version[x[1]] <= x[2]
    BY <1>13, <2>3 DEF Older
  <2>5. x[2] <= version[x[1]] /\ version[x[1]] \in Nat
    BY <1>13 DEF ClosureTypes
  <2>6. x[2] = version[x[1]]
    BY <2>4, <2>5
  <2>7. QED BY <2>6
<1>15. k.source.got \subseteq Now(S)
  BY <1>14 DEF Now
<1>16. ASSUME NEW f \in S PROVE <<f, version[f]>> \in k.source.got
  <2>1. PICK x \in k.source.got : x[1] = f BY DEF Names
  <2>2. QED BY <1>14, <2>1
<1>17. Now(S) \subseteq k.source.got
  BY <1>16 DEF Now
<1>18. QED BY <1>12, <1>15, <1>17

LEMMA AnswerKeeps ==
  ASSUME SourceAnswered, walk' = walk, UNCHANGED <<program, version, reading>>
  PROVE  SourceAnswered'
<1>1. Closure!Runs' = Closure!Runs
  BY DEF Closure!Runs, Closure!Callees, Closure!Table
<1>2. Now(Closure!Runs)' = Now(Closure!Runs)
  BY <1>1 DEF Now
<1>3. QED BY <1>2 DEF SourceAnswered

LEMMA SourceAnsweredStep ==
  ASSUME ClosureTypes, ClosureTypes', Ages, TokenTaken, HelperWalk, SourceKept, SourceAnswered,
         [Closure!Next]_closure
  PROVE  SourceAnswered'
<1>1. CASE Closure!Ask BY <1>1, Asking DEF SourceAnswered
<1>2. CASE Closure!TokenDone BY <1>2, TokenEnds DEF SourceAnswered
<1>3. CASE Closure!Look
  <2> USE <1>3
  <2> SUFFICES ASSUME walk'.at = "rest", walk'.steady, ~reading'.partial, ~program'.twins
               PROVE  reading'.got = Now(Closure!Runs)'
    BY DEF SourceAnswered
  <2>1. UNCHANGED <<program, version, kept>> /\ walk.at = "look"
    BY Looking
  <2> USE <2>1
  <2>2. walk \in Walks BY DEF ClosureTypes
  <2>3. PICK k \in kept : /\ k.token = walk.token /\ reading' = k.source
                          /\ walk' = [walk EXCEPT !.at = "rest"]
    <3>1. walk' # [walk EXCEPT !.at = "read"]
      BY <2>2, Goes
    <3>2. QED BY <3>1, Looking
  <2>4. walk.steady
    BY <2>2, <2>3, Goes
  <2>5. reading'.got = Now(Closure!Runs)
    BY <2>3, <2>4, HitIsCurrent
  <2>6. Closure!Runs' = Closure!Runs
    BY DEF Closure!Runs, Closure!Callees, Closure!Table
  <2>7. Now(Closure!Runs)' = Now(Closure!Runs)
    BY <2>6 DEF Now
  <2>8. QED BY <2>5, <2>7
<1>4. CASE Closure!ReadRoots
  <2>1. walk'.at = "helpers" \/ reading' = Closure!Nothing
    BY <1>4 DEF Closure!ReadRoots, ClosureTypes, Walks
  <2>2. QED BY <2>1 DEF SourceAnswered, Closure!Nothing
<1>5. CASE Closure!Keep
  <2> SUFFICES ASSUME walk'.steady, ~reading'.partial, ~program'.twins
               PROVE  reading'.got = Now(Closure!Runs)'
    BY DEF SourceAnswered
  <2>1. /\ UNCHANGED <<program, version>> /\ walk.at = "helpers" /\ walk.queue = {}
        /\ reading' = [got |-> walk.got, partial |-> walk.partial]
        /\ walk' = [walk EXCEPT !.at = "rest"]
    BY <1>5, Keeping
  <2> USE <2>1
  <2>2. walk.steady /\ ~walk.partial /\ ~program.twins /\ walk.visited \subseteq Fs
    BY Goes DEF ClosureTypes, Walks
  <2>3. Waiting = {} BY DEF Waiting
  <2>4. /\ Covers(program, program.table, walk.visited, {})
        /\ Within(program, program.table, walk.visited)
        /\ walk.got = Now(walk.visited)
    BY <2>2, <2>3 DEF HelperWalk
  <2>5. walk.visited = Closure!Runs
    BY <2>2, <2>4, RunsAre
  <2>6. Closure!Runs' = Closure!Runs
    BY DEF Closure!Runs, Closure!Callees, Closure!Table
  <2>7. Now(Closure!Runs)' = Now(Closure!Runs)
    BY <2>6 DEF Now
  <2>8. QED BY <2>4, <2>5, <2>7
<1>6. ASSUME NEW e \in walk.queue, Closure!VisitToken(e) \/ Closure!VisitHelper(e) PROVE SourceAnswered'
  <2>1. walk'.at # "rest" BY <1>6, Visiting DEF Closure!VisitToken, Closure!VisitHelper
  <2>2. QED BY <2>1 DEF SourceAnswered
<1>7. ASSUME NEW p, Closure!Change(p) PROVE SourceAnswered'
  BY <1>7, Changing DEF SourceAnswered
<1>8. CASE UNCHANGED closure
  BY <1>8, AnswerKeeps DEF closure
<1>9. QED
  BY <1>1, <1>2, <1>3, <1>4, <1>5, <1>6, <1>7, <1>8
     DEF Closure!Next, Closure!Reload, Closure!Retarget

LEMMA ClosureStep ==
  ASSUME ClosureTypes, ClosureInv, [Closure!Next]_closure
  PROVE  ClosureTypes' /\ ClosureInv'
<1>1. ClosureTypes' BY ClosureTypesStep
<1> USE <1>1
<1>2. Ages' BY AgesStep DEF ClosureInv
<1>3. Changes' BY ChangesStep DEF ClosureInv
<1>4. TokenWalk' BY TokenWalkStep DEF ClosureInv
<1>5. TokenTaken' BY TokenTakenStep DEF ClosureInv
<1>6. HelperWalk' BY HelperWalkStep DEF ClosureInv
<1>7. SourceKept' BY SourceKeptStep DEF ClosureInv
<1>8. SourceAnswered' BY SourceAnsweredStep DEF ClosureInv
<1>9. QED BY <1>2, <1>3, <1>4, <1>5, <1>6, <1>7, <1>8 DEF ClosureInv

LEMMA ClosurePromise == ASSUME ClosureInv PROVE Closure!CompleteIsCurrent
<1>1. \A S : Now(S) = {Closure!Version(f) : f \in S}
  BY DEF Now, Closure!Version
<1>2. QED
  BY <1>1 DEF ClosureInv, SourceAnswered, Closure!CompleteIsCurrent, Closure!Answered

-----------------------------------------------------------------------------
(* The bundle: what of a group of fields waits on the stack or is held;    *)
(* every artifact waits to be bundled, or is bundled with its source, or   *)
(* the ledger tells that something is missing.                             *)
Fields == {"a", "b", "c", "d", "x", "p", "raises"}
Carriable == {"captured", "partial", "truncated", "missing"}
Artifacts == [subject : Bundle!Subjects, name : {"a", "b", "?", "t", "definition"} \X Nat,
              status : Carriable]
Looks == [stack : Seq(Fields \X Nat), found : Seq(Bundle!Callbacks), seen : SUBSET Bundle!Containers,
          partial : BOOLEAN]
Statuses == {"none", "captured", "partial", "truncated", "omitted", "missing"}

BundleTypes ==
  /\ framework \in Bundle!Owners /\ look \in Looks
  /\ inventory \in [callbacks : Seq(Bundle!Callbacks), partial : BOOLEAN]
  /\ candidates \in Seq(Artifacts)
  /\ bundle \subseteq Artifacts /\ IsFiniteSet(bundle) /\ Cardinality(bundle) <= 2
  /\ ledger \in [Bundle!Subjects -> Statuses]
  /\ bundling \in {"fields", "handlers", "artifacts", "collect", "done"}

Group == IF bundling = "fields" THEN framework.fields ELSE framework.handlers
Taken(o, found, opened) ==
  o # "raises" /\ (o \in Bundle!Callbacks => o \in found) /\ (o \in Bundle!Containers => o \in opened)
Stacked(o) == \E n \in 1..Len(look.stack) : look.stack[n][1] = o
Met(o) == Stacked(o) \/ Taken(o, Bundle!Elements(look.found), look.seen)

GroupMet ==
  (bundling \in {"fields", "handlers"} /\ ~look.partial) =>
    /\ \A o \in Bundle!Elements(Group) : Met(o)
    /\ \A c \in look.seen : \A o \in Bundle!Elements(Bundle!Contents(c)) : Met(o)

\* All that is reachable from the fields F is among the callbacks E.
Carried(F, E) ==
  \E G \in SUBSET Bundle!Containers :
    /\ \A o \in Bundle!Elements(F) : Taken(o, E, G)
    /\ \A c \in G : \A o \in Bundle!Elements(Bundle!Contents(c)) : Taken(o, E, G)

InventoryWhole ==
  ~inventory.partial =>
    /\ bundling # "fields" => Carried(framework.fields, Bundle!Elements(inventory.callbacks))
    /\ bundling \notin {"fields", "handlers"} =>
         Carried(framework.handlers, Bundle!Elements(inventory.callbacks))

Awaited(a) == \E n \in 1..Len(candidates) : candidates[n] = a
Bundled(a) == \E b \in bundle : b.subject = a.subject /\ b.name = a.name /\ b.status = "captured"

Nothing ==
  bundling \in {"fields", "handlers", "artifacts"} =>
    bundle = {} /\ ledger = [s \in Bundle!Subjects |-> "none"]

LedgerTrue ==
  bundling \in {"collect", "done"} =>
    /\ \A n \in 1..Len(inventory.callbacks) :
         Bundle!Incomplete \/ Awaited(Bundle!CallbackArtifact(n)) \/ Bundled(Bundle!CallbackArtifact(n))
    /\ \A n \in 1..Len(framework.tools) :
         Bundle!Incomplete \/ Awaited(Bundle!ToolArtifact(n)) \/ Bundled(Bundle!ToolArtifact(n))
    /\ inventory.partial => Bundle!Incomplete \/ Awaited(Bundle!Unknown)
    /\ \A b \in bundle : Bundle!Incomplete \/ b.status = "captured"
    /\ Bundle!Incomplete \/ bundle # {} \/ \A s \in Bundle!Subjects : ledger[s] = "none"
    /\ bundling = "done" => candidates = <<>> /\ (Bundle!Incomplete \/ bundle # {})

BundleInv == GroupMet /\ InventoryWhole /\ Nothing /\ LedgerTrue

LEMMA ShortSeq ==
  ASSUME NEW T, NEW x \in T, NEW y \in T, NEW z \in T
  PROVE  <<>> \in Seq(T) /\ <<x>> \in Seq(T) /\ <<x, y>> \in Seq(T) /\ <<x, y, z>> \in Seq(T)
OBVIOUS

LEMMA OwnerTypes ==
  ASSUME framework \in Bundle!Owners
  PROVE  /\ framework.fields \in Seq(Fields) /\ framework.handlers \in Seq(Fields)
         /\ \A o : Bundle!Contents(o) \in Seq(Fields)
         /\ framework.tools \in Seq({"whole", "none"}) /\ framework.text \in Bundle!Texts
<1>1. framework.fields \in {<<"c">>, <<"a", "c">>, <<"x", "p", "c">>, <<"raises", "a">>, <<"c", "c">>}
  BY DEF Bundle!Owners
<1>2. framework.fields \in Seq(Fields)
  <2> DEFINE s == framework.fields
  <2>1. s = <<"c">> \/ s = <<"a", "c">> \/ s = <<"x", "p", "c">> \/ s = <<"raises", "a">> \/ s = <<"c", "c">>
    BY <1>1
  <2> HIDE DEF s
  <2>2. <<"c">> \in Seq(Fields) BY ShortSeq DEF Fields
  <2>3. <<"a", "c">> \in Seq(Fields) BY ShortSeq DEF Fields
  <2>4. <<"x", "p", "c">> \in Seq(Fields) BY ShortSeq DEF Fields
  <2>5. <<"raises", "a">> \in Seq(Fields) BY ShortSeq DEF Fields
  <2>6. <<"c", "c">> \in Seq(Fields) BY ShortSeq DEF Fields
  <2>7. s \in Seq(Fields) BY <2>1, <2>2, <2>3, <2>4, <2>5, <2>6
  <2>8. QED BY <2>7 DEF s
<1>3. framework.handlers \in {<<>>, <<"b">>, <<"d", "a">>}
  BY DEF Bundle!Owners
<1>4. framework.handlers \in Seq(Fields)
  <2> DEFINE s == framework.handlers
  <2>1. s = <<>> \/ s = <<"b">> \/ s = <<"d", "a">>
    BY <1>3
  <2> HIDE DEF s
  <2>2. <<>> \in Seq(Fields) BY ShortSeq DEF Fields
  <2>3. <<"b">> \in Seq(Fields) BY ShortSeq DEF Fields
  <2>4. <<"d", "a">> \in Seq(Fields) BY ShortSeq DEF Fields
  <2>5. s \in Seq(Fields) BY <2>1, <2>2, <2>3, <2>4
  <2>6. QED BY <2>5 DEF s
<1>5. framework.c \in {<<>>, <<"a">>, <<"a", "b">>, <<"d", "a">>, <<"p", "x", "b">>}
  BY DEF Bundle!Owners
<1>6. framework.c \in Seq(Fields)
  <2> DEFINE s == framework.c
  <2>1. s = <<>> \/ s = <<"a">> \/ s = <<"a", "b">> \/ s = <<"d", "a">> \/ s = <<"p", "x", "b">>
    BY <1>5
  <2> HIDE DEF s
  <2>2. <<>> \in Seq(Fields) BY ShortSeq DEF Fields
  <2>3. <<"a">> \in Seq(Fields) BY ShortSeq DEF Fields
  <2>4. <<"a", "b">> \in Seq(Fields) BY ShortSeq DEF Fields
  <2>5. <<"d", "a">> \in Seq(Fields) BY ShortSeq DEF Fields
  <2>6. <<"p", "x", "b">> \in Seq(Fields) BY ShortSeq DEF Fields
  <2>7. s \in Seq(Fields) BY <2>1, <2>2, <2>3, <2>4, <2>5, <2>6
  <2>8. QED BY <2>7 DEF s
<1>7. framework.d \in {<<>>, <<"b">>, <<"c">>}
  BY DEF Bundle!Owners
<1>8. framework.d \in Seq(Fields)
  <2> DEFINE s == framework.d
  <2>1. s = <<>> \/ s = <<"b">> \/ s = <<"c">>
    BY <1>7
  <2> HIDE DEF s
  <2>2. <<>> \in Seq(Fields) BY ShortSeq DEF Fields
  <2>3. <<"b">> \in Seq(Fields) BY ShortSeq DEF Fields
  <2>4. <<"c">> \in Seq(Fields) BY ShortSeq DEF Fields
  <2>5. s \in Seq(Fields) BY <2>1, <2>2, <2>3, <2>4
  <2>6. QED BY <2>5 DEF s
<1>9. framework.tools \in {<<>>, <<"whole">>, <<"none">>, <<"whole", "whole">>} /\ framework.text \in Bundle!Texts
  BY DEF Bundle!Owners
<1>10. framework.tools \in Seq({"whole", "none"})
  <2> DEFINE s == framework.tools
             T == {"whole", "none"}
  <2>1. s = <<>> \/ s = <<"whole">> \/ s = <<"none">> \/ s = <<"whole", "whole">>
    BY <1>9
  <2> HIDE DEF s
  <2>2. <<>> \in Seq(T) BY ShortSeq
  <2>3. <<"whole">> \in Seq(T) BY ShortSeq
  <2>4. <<"none">> \in Seq(T) BY ShortSeq
  <2>5. <<"whole", "whole">> \in Seq(T) BY ShortSeq
  <2>6. s \in Seq(T) BY <2>1, <2>2, <2>3, <2>4, <2>5
  <2>7. QED BY <2>6 DEF s
<1>11. QED BY <1>2, <1>4, <1>6, <1>8, <1>9, <1>10 DEF Bundle!Contents

LEMMA Leveled ==
  ASSUME NEW s \in Seq(Fields), NEW d \in Nat
  PROVE  /\ Bundle!Level(s, d) \in Seq(Fields \X Nat) /\ Len(Bundle!Level(s, d)) = Len(s)
         /\ \A n \in 1..Len(s) : Bundle!Level(s, d)[n] = <<s[n], d>>
BY DEF Bundle!Level

LEMMA Beginning ==
  ASSUME NEW s \in Seq(Fields)
  PROVE  /\ Bundle!Begin(s) \in Looks /\ Bundle!Begin(s).stack = Bundle!Level(s, 0)
         /\ Bundle!Begin(s).found = <<>> /\ Bundle!Begin(s).seen = {}
<1>1. <<>> \in Seq(Bundle!Callbacks) OBVIOUS
<1>2. QED BY <1>1, Leveled DEF Bundle!Begin, Looks

LEMMA BundleStart == ASSUME Bundle!Init PROVE BundleTypes /\ BundleInv
<1>1. /\ framework \in Bundle!Owners /\ look = Bundle!Begin(framework.fields)
      /\ inventory = [callbacks |-> <<>>, partial |-> FALSE] /\ candidates = <<>> /\ bundle = {}
      /\ ledger = [s \in Bundle!Subjects |-> "none"] /\ bundling = "fields"
  BY DEF Bundle!Init
<1> USE <1>1
<1> DEFINE F == framework.fields
<1>2. F \in Seq(Fields)
  BY OwnerTypes
<1>3. /\ look \in Looks /\ look.stack = Bundle!Level(F, 0) /\ look.seen = {}
  BY <1>2, Beginning
<1> USE <1>3
<1>4. BundleTypes
  <2>1. inventory \in [callbacks : Seq(Bundle!Callbacks), partial : BOOLEAN]
    OBVIOUS
  <2>2. candidates \in Seq(Artifacts) OBVIOUS
  <2>3. ledger \in [Bundle!Subjects -> Statuses] BY DEF Statuses
  <2>4. QED BY <2>1, <2>2, <2>3, FS_EmptySet DEF BundleTypes
<1>5. \A o \in Bundle!Elements(F) : Stacked(o)
  <2> SUFFICES ASSUME NEW n \in 1..Len(F) PROVE Stacked(F[n])
    BY DEF Bundle!Elements
  <2>1. Len(look.stack) = Len(F) /\ look.stack[n] = <<F[n], 0>> BY <1>2, Leveled
  <2>2. QED BY <2>1 DEF Stacked
<1>6. GroupMet
  BY <1>5 DEF GroupMet, Group, Met
<1>7. QED BY <1>4, <1>6 DEF BundleInv, InventoryWhole, Nothing, LedgerTrue

\* The elements of what is appended, cut off and joined.
LEMMA ElementsOf ==
  ASSUME NEW T, NEW s \in Seq(T)
  PROVE  /\ Bundle!Elements(s) \subseteq T
         /\ \A x : Bundle!Elements(Append(s, x)) = Bundle!Elements(s) \cup {x}
<1>1. Bundle!Elements(s) \subseteq T
  BY DEF Bundle!Elements
<1>2. ASSUME NEW x PROVE Bundle!Elements(Append(s, x)) = Bundle!Elements(s) \cup {x}
  <2> DEFINE t == Append(s, x)
  <2>1. Len(t) = Len(s) + 1 /\ \A n \in 1..Len(t) : t[n] = IF n <= Len(s) THEN s[n] ELSE x
    OBVIOUS
  <2> USE <2>1
  <2>2. Len(s) \in Nat OBVIOUS
  <2> USE <2>2
  <2> HIDE DEF t
  <2>3. Bundle!Elements(t) \subseteq Bundle!Elements(s) \cup {x}
    BY DEF Bundle!Elements
  <2>4. ASSUME NEW n \in 1..Len(s) PROVE s[n] \in Bundle!Elements(t)
    <3>1. n \in 1..Len(t) /\ t[n] = s[n] OBVIOUS
    <3>2. QED BY <3>1 DEF Bundle!Elements
  <2>5. x \in Bundle!Elements(t)
    <3>1. Len(t) \in 1..Len(t) /\ t[Len(t)] = x OBVIOUS
    <3>2. QED BY <3>1 DEF Bundle!Elements
  <2>6. QED BY <2>3, <2>4, <2>5 DEF Bundle!Elements, t
<1>3. QED BY <1>1, <1>2

\* What was on the stack is on the rest of it, but for its head.
LEMMA RestOf ==
  ASSUME BundleTypes, look.stack # <<>>
  PROVE  /\ Tail(look.stack) \in Seq(Fields \X Nat) /\ Head(look.stack) \in Fields \X Nat
         /\ \A o : Stacked(o) => \/ o = Head(look.stack)[1]
                                 \/ \E n \in 1..Len(Tail(look.stack)) : Tail(look.stack)[n][1] = o
<1> DEFINE s == look.stack
           t == Tail(s)
<1>1. s \in Seq(Fields \X Nat) /\ s # <<>>
  BY DEF BundleTypes, Looks
<1> HIDE DEF s
<1>2. /\ Head(s) \in Fields \X Nat /\ t \in Seq(Fields \X Nat) /\ Len(t) = Len(s) - 1
      /\ \A n \in 1..Len(t) : t[n] = s[n + 1]
  BY <1>1, HeadTailProperties
<1>3. Head(s) = s[1] /\ Len(s) \in Nat
  BY <1>1
<1> HIDE DEF t
<1>4. ASSUME NEW o, NEW n \in 1..Len(s), s[n][1] = o
      PROVE  o = Head(s)[1] \/ \E m \in 1..Len(t) : t[m][1] = o
  <2> USE <1>4
  <2>1. CASE n = 1 BY <1>3, <2>1
  <2>2. CASE n # 1
    <3>1. n - 1 \in 1..Len(t) /\ t[n - 1] = s[n] BY <1>2, <1>3, <2>2
    <3>2. QED BY <3>1
  <2>3. QED BY <2>1, <2>2
<1>5. QED BY <1>2, <1>4 DEF s, t, Stacked

\* Who is held stays so.
LEMMA TakenStays ==
  ASSUME NEW o, NEW E, NEW G, NEW E2, NEW G2, Taken(o, E, G), E \subseteq E2, G \subseteq G2
  PROVE  Taken(o, E2, G2)
BY SMTT(30) DEF Taken

\* What comes of the head of the stack; what is left out makes it partial.
LEMMA Appending ==
  ASSUME BundleTypes, Bundle!AppendValue
  PROVE  LET o == Head(look.stack)[1]
             rest == Tail(look.stack)
             items == Bundle!Contents(o)
         IN /\ UNCHANGED <<framework, inventory, candidates, bundle, ledger, bundling>>
            /\ look.stack # <<>> /\ look' \in Looks
            /\ look.partial => look'.partial
            /\ \/ look'.partial
               \/ /\ o # "raises" /\ look'.stack = rest /\ look'.found = look.found
                  /\ look'.seen = look.seen /\ o \notin Bundle!Callbacks
                  /\ o \in Bundle!Containers => o \in look.seen
               \/ /\ o \in Bundle!Containers /\ look'.found = look.found
                  /\ look'.seen = look.seen \cup {o}
                  /\ \/ items = <<>> /\ look'.stack = rest
                     \/ \E d \in Nat : look'.stack = Bundle!Level(items, d) \o rest
               \/ /\ o \in Bundle!Callbacks /\ look'.stack = rest /\ look'.seen = look.seen
                  /\ look'.found = Append(look.found, o)
<1> DEFINE o == Head(look.stack)[1]
           depthOf == Head(look.stack)[2]
           rest == Tail(look.stack)
           items == Bundle!Contents(o)
           room == 2 - Len(look.found)
           cut == Bundle!LeastOf(room, Len(items))
           shown == SubSeq(items, 1, cut)
           r1 == [look EXCEPT !.stack = rest, !.partial = TRUE]
           r2 == [look EXCEPT !.stack = rest]
           p3 == look.partial \/ items # <<>>
           r3 == [look EXCEPT !.stack = rest, !.seen = @ \cup {o}, !.partial = p3]
           s4 == Bundle!Level(shown, depthOf + 1) \o rest
           p4 == look.partial \/ shown # items
           r4 == [look EXCEPT !.stack = s4, !.seen = @ \cup {o}, !.partial = p4]
           r5 == [look EXCEPT !.stack = rest, !.found = Append(@, o)]
<1>1. /\ UNCHANGED <<framework, inventory, candidates, bundle, ledger, bundling>>
      /\ look.stack # <<>> /\ look \in Looks
  BY DEF Bundle!AppendValue, BundleTypes
<1>2. o \in Fields /\ depthOf \in Nat /\ rest \in Seq(Fields \X Nat)
  BY <1>1, RestOf
<1>3. look' = IF o = "raises" \/ Len(look.found) >= 2 THEN r1
              ELSE IF o \in Bundle!Containers
              THEN IF o \in look.seen THEN r2 ELSE IF depthOf >= 1 THEN r3 ELSE r4
              ELSE IF o \in Bundle!Callbacks THEN r5 ELSE r2
  BY <1>1 DEF Bundle!AppendValue, Bundle!OpenContainer, Looks
<1>4. items \in Seq(Fields)
  BY OwnerTypes DEF BundleTypes
<1>5. shown \in Seq(Fields)
  <2>1. Len(items) \in Nat /\ Len(look.found) \in Nat
    BY <1>1, <1>4 DEF Looks
  <2>2. cut \in Int /\ cut <= Len(items)
    BY <2>1 DEF Bundle!LeastOf
  <2>3. \A i \in 1..cut : items[i] \in Fields
    BY <1>4, <2>1, <2>2
  <2> HIDE DEF cut, items
  <2>4. QED BY <2>2, <2>3, SubSeqProperties
<1> HIDE DEF shown
<1>6. s4 \in Seq(Fields \X Nat)
  <2>1. Bundle!Level(shown, depthOf + 1) \in Seq(Fields \X Nat)
    BY <1>2, <1>5, Leveled
  <2>2. QED BY <1>2, <2>1, ConcatProperties
<1>7. o \in Bundle!Callbacks => Append(look.found, o) \in Seq(Bundle!Callbacks)
  BY <1>1 DEF Looks
<1>8. p3 \in BOOLEAN /\ p4 \in BOOLEAN
  BY <1>1 DEF Looks
<1> HIDE DEF rest, s4, p3, p4, o
<1>9. r1 \in Looks /\ r1.partial
  BY <1>1, <1>2 DEF Looks
<1>10. /\ r2 \in Looks /\ r2.stack = rest /\ r2.found = look.found /\ r2.seen = look.seen
       /\ r2.partial = look.partial
  BY <1>1, <1>2 DEF Looks
<1>11. o \in Bundle!Containers =>
         /\ r3 \in Looks /\ r3.stack = rest /\ r3.found = look.found
         /\ r3.seen = look.seen \cup {o} /\ r3.partial = p3
  BY <1>1, <1>2, <1>8 DEF Looks
<1>12. o \in Bundle!Containers =>
         /\ r4 \in Looks /\ r4.stack = s4 /\ r4.found = look.found
         /\ r4.seen = look.seen \cup {o} /\ r4.partial = p4
  BY <1>1, <1>6, <1>8 DEF Looks
<1>13. o \in Bundle!Callbacks =>
         /\ r5 \in Looks /\ r5.stack = rest /\ r5.found = Append(look.found, o)
         /\ r5.seen = look.seen /\ r5.partial = look.partial
  BY <1>1, <1>2, <1>7 DEF Looks
<1>14. \A x : x \in Bundle!Containers => x \notin Bundle!Callbacks /\ x # "raises"
  BY DEF Bundle!Containers, Bundle!Callbacks
<1> HIDE DEF r1, r2, r3, r4, r5
<1> DEFINE After ==
             \/ look'.partial
             \/ /\ o # "raises" /\ look'.stack = rest /\ look'.found = look.found
                /\ look'.seen = look.seen /\ o \notin Bundle!Callbacks
                /\ o \in Bundle!Containers => o \in look.seen
             \/ /\ o \in Bundle!Containers /\ look'.found = look.found
                /\ look'.seen = look.seen \cup {o}
                /\ \/ items = <<>> /\ look'.stack = rest
                   \/ \E d \in Nat : look'.stack = Bundle!Level(items, d) \o rest
             \/ /\ o \in Bundle!Callbacks /\ look'.stack = rest /\ look'.seen = look.seen
                /\ look'.found = Append(look.found, o)
<1>15. CASE look' = r1 BY <1>1, <1>9, <1>15 DEF o, rest
<1>16. CASE look' = r2 /\ o # "raises" /\ (o \in Bundle!Containers => o \in look.seen) /\ o \notin Bundle!Callbacks
  <2>1. After BY <1>10, <1>16
  <2>2. QED BY <1>1, <1>10, <1>16, <2>1 DEF o, rest
<1>17. CASE look' = r3 /\ o \in Bundle!Containers
  <2>1. After
    <3>1. look'.partial \/ items = <<>> BY <1>11, <1>17 DEF p3
    <3>2. QED BY <1>11, <1>17, <3>1
  <2>2. look.partial => look'.partial BY <1>11, <1>17 DEF p3
  <2>3. QED BY <1>1, <1>11, <1>17, <2>1, <2>2 DEF o, rest
<1>18. CASE look' = r4 /\ o \in Bundle!Containers
  <2>1. After
    <3>1. look'.partial \/ shown = items BY <1>12, <1>18 DEF p4
    <3>2. depthOf + 1 \in Nat BY <1>2
    <3>3. shown = items => \E d \in Nat : s4 = Bundle!Level(items, d) \o rest BY <3>2 DEF s4
    <3>4. QED BY <1>12, <1>18, <3>1, <3>3
  <2>2. look.partial => look'.partial BY <1>12, <1>18 DEF p4
  <2>3. QED BY <1>1, <1>12, <1>18, <2>1, <2>2 DEF o, rest
<1>19. CASE look' = r5 /\ o \in Bundle!Callbacks
  <2>1. After BY <1>13, <1>19
  <2>2. QED BY <1>1, <1>13, <1>19, <2>1 DEF o, rest
<1>20. QED
  BY <1>3, <1>14, <1>15, <1>16, <1>17, <1>18, <1>19, Zenon

\* What a list holds is held once, or in one of the two it is joined from.
LEMMA Joined ==
  ASSUME NEW T, NEW s \in Seq(T), NEW t \in Seq(T)
  PROVE  /\ s \o t \in Seq(T) /\ Len(s \o t) = Len(s) + Len(t)
         /\ \A n \in 1..Len(s) : n \in 1..Len(s \o t) /\ (s \o t)[n] = s[n]
         /\ \A n \in 1..Len(t) : Len(s) + n \in 1..Len(s \o t) /\ (s \o t)[Len(s) + n] = t[n]
         /\ \A n \in 1..Len(s \o t) : \/ n \in 1..Len(s) /\ (s \o t)[n] = s[n]
                                      \/ n - Len(s) \in 1..Len(t) /\ (s \o t)[n] = t[n - Len(s)]
BY ConcatProperties

LEMMA AppendStep ==
  ASSUME BundleTypes, BundleInv, Bundle!AppendValue
  PROVE  BundleTypes' /\ BundleInv'
<1> DEFINE o == Head(look.stack)[1]
           rest == Tail(look.stack)
           items == Bundle!Contents(o)
<1>1. /\ UNCHANGED <<framework, inventory, candidates, bundle, ledger, bundling>>
      /\ look.stack # <<>> /\ look' \in Looks /\ (look.partial => look'.partial)
  BY Appending
<1>2. BundleTypes'
  BY <1>1 DEF BundleTypes
<1>3. InventoryWhole' /\ Nothing' /\ LedgerTrue'
  <2>1. InventoryWhole'
    BY <1>1 DEF BundleInv, InventoryWhole, Carried, Bundle!Contents
  <2>2. Nothing'
    BY <1>1 DEF BundleInv, Nothing
  <2>3. LedgerTrue'
    BY <1>1, ZenonT(40) DEF BundleInv, LedgerTrue, Awaited, Bundled, Bundle!Incomplete, Bundle!CallbackArtifact,
       Bundle!ToolArtifact, Bundle!Unknown
  <2>4. QED BY <2>1, <2>2, <2>3
<1>4. GroupMet'
  <2> SUFFICES ASSUME bundling \in {"fields", "handlers"}, ~look'.partial PROVE GroupMet'
    BY <1>1 DEF GroupMet
  <2>1. /\ \A f \in Bundle!Elements(Group) : Met(f)
        /\ \A c \in look.seen : \A f \in Bundle!Elements(Bundle!Contents(c)) : Met(f)
    BY <1>1 DEF BundleInv, GroupMet
  <2> DEFINE E == Bundle!Elements(look.found)
             E2 == Bundle!Elements(look'.found)
             OnRest(f) == \E n \in 1..Len(rest) : rest[n][1] = f
             New == \/ look'.stack = rest
                    \/ \E d \in Nat : look'.stack = Bundle!Level(items, d) \o rest
  <2>2. rest \in Seq(Fields \X Nat) /\ \A f : Stacked(f) => f = o \/ OnRest(f)
    BY <1>1, RestOf
  <2>3. items \in Seq(Fields)
    BY OwnerTypes DEF BundleTypes
  <2>4. look.found \in Seq(Bundle!Callbacks)
    BY SMTT(30) DEF BundleTypes, Looks
  <2>5. /\ E \subseteq E2 /\ look.seen \subseteq look'.seen /\ New
        /\ Taken(o, E2, look'.seen)
        /\ \/ look'.seen = look.seen
           \/ /\ look'.seen = look.seen \cup {o}
              /\ items = <<>> \/ \E d \in Nat : look'.stack = Bundle!Level(items, d) \o rest
    <3> HIDE DEF items, rest
    <3>1. \A x : Bundle!Elements(Append(look.found, x)) = E \cup {x}
      BY <2>4, ElementsOf
    <3>2. \A x : x \in Bundle!Containers => x \notin Bundle!Callbacks /\ x # "raises"
      BY DEF Bundle!Containers, Bundle!Callbacks
    <3>3. "raises" \notin Bundle!Callbacks /\ "raises" \notin Bundle!Containers
      BY DEF Bundle!Containers, Bundle!Callbacks
    <3> HIDE DEF o
    <3>4. CASE /\ o # "raises" /\ look'.stack = rest /\ look'.found = look.found
               /\ look'.seen = look.seen /\ o \notin Bundle!Callbacks
               /\ o \in Bundle!Containers => o \in look.seen
      BY <3>4 DEF Taken
    <3>5. CASE /\ o \in Bundle!Containers /\ look'.found = look.found
               /\ look'.seen = look.seen \cup {o}
               /\ \/ items = <<>> /\ look'.stack = rest
                  \/ \E d \in Nat : look'.stack = Bundle!Level(items, d) \o rest
      BY <3>2, <3>5 DEF Taken
    <3>6. CASE /\ o \in Bundle!Callbacks /\ look'.stack = rest /\ look'.seen = look.seen
               /\ look'.found = Append(look.found, o)
      <4>1. E2 = E \cup {o} BY <3>1, <3>6
      <4>2. o \notin Bundle!Containers /\ o # "raises" BY <3>2, <3>3, <3>6, SMTT(30)
      <4>3. QED BY <3>6, <4>1, <4>2 DEF Taken
    <3>7. QED BY <3>4, <3>5, <3>6, Appending, Zenon DEF o, rest, items
  <2>6. ASSUME NEW f, OnRest(f) PROVE Stacked(f)'
    <3>1. CASE look'.stack = rest BY <2>6, <3>1 DEF Stacked
    <3>2. ASSUME NEW d \in Nat, look'.stack = Bundle!Level(items, d) \o rest PROVE Stacked(f)'
      <4> DEFINE l == Bundle!Level(items, d)
      <4>1. l \in Seq(Fields \X Nat) BY <2>3, Leveled
      <4>2. PICK n \in 1..Len(rest) : rest[n][1] = f BY <2>6
      <4> HIDE DEF l, rest
      <4>3. Len(l) + n \in 1..Len(l \o rest) /\ (l \o rest)[Len(l) + n] = rest[n]
        BY <2>2, <4>1, <4>2, Joined
      <4>4. look'.stack = l \o rest BY <3>2 DEF l, rest
      <4>5. QED BY <4>2, <4>3, <4>4 DEF Stacked
    <3>3. QED BY <2>5, <3>1, <3>2
  <2>7. ASSUME NEW f \in Bundle!Elements(items), NEW d \in Nat,
               look'.stack = Bundle!Level(items, d) \o rest
        PROVE  Stacked(f)'
    <3> DEFINE l == Bundle!Level(items, d)
    <3>1. PICK n \in 1..Len(items) : items[n] = f BY <2>7 DEF Bundle!Elements
    <3>2. l \in Seq(Fields \X Nat) /\ n \in 1..Len(l) /\ l[n] = <<f, d>>
      BY <2>3, <3>1, Leveled
    <3> HIDE DEF l, rest
    <3>3. n \in 1..Len(l \o rest) /\ (l \o rest)[n] = l[n]
      BY <2>2, <3>2, Joined
    <3>4. look'.stack = l \o rest BY <2>7 DEF l, rest
    <3>5. QED BY <3>2, <3>3, <3>4, SMTT(30) DEF Stacked
  <2>8. ASSUME NEW f, Met(f) PROVE Met(f)'
    <3>1. CASE Taken(f, E, look.seen)
      <4>1. Taken(f, E2, look'.seen) BY <2>5, <3>1, TakenStays, SMTT(30)
      <4>2. QED BY <4>1 DEF Met
    <3>2. CASE f = o
      <4>1. Taken(f, E2, look'.seen) BY <2>5, <3>2
      <4>2. QED BY <4>1 DEF Met
    <3>3. CASE OnRest(f) BY <2>6, <3>3 DEF Met
    <3>4. QED BY <2>2, <2>8, <3>1, <3>2, <3>3 DEF Met
  <2>9. ASSUME NEW c \in look'.seen, NEW f \in Bundle!Elements(Bundle!Contents(c)) PROVE Met(f)'
    <3>1. CASE c \in look.seen BY <2>1, <2>8, <2>9, <3>1
    <3>2. CASE c \notin look.seen
      <4>1. c = o /\ (items = <<>> \/ \E d \in Nat : look'.stack = Bundle!Level(items, d) \o rest)
        BY <2>5, <2>9, <3>2
      <4>2. f \in Bundle!Elements(items) BY <2>9, <4>1
      <4>3. items # <<>> BY <4>2 DEF Bundle!Elements
      <4>4. QED BY <2>7, <4>1, <4>2, <4>3 DEF Met
    <3>3. QED BY <3>1, <3>2
  <2>10. \A f \in Bundle!Elements(Group) : Met(f)'
    BY <2>1, <2>8
  <2>11. Group' = Group /\ \A c : Bundle!Contents(c)' = Bundle!Contents(c)
    BY <1>1 DEF Group, Bundle!Contents
  <2>12. QED
    BY <1>1, <2>9, <2>10, <2>11 DEF GroupMet
<1>5. QED BY <1>2, <1>3, <1>4 DEF BundleInv

\* What a walk that has ended has found is carried by any list that holds it.
LEMMA WalkEnds ==
  ASSUME BundleTypes, GroupMet, bundling \in {"fields", "handlers"}, look.stack = <<>>,
         ~look.partial, NEW E, Bundle!Elements(look.found) \subseteq E
  PROVE  Carried(Group, E)
<1>1. ASSUME NEW o, Met(o) PROVE Taken(o, E, look.seen)
  <2>1. ~Stacked(o) BY DEF Stacked
  <2>2. QED BY <1>1, <2>1, TakenStays DEF Met
<1>2. look.seen \in SUBSET Bundle!Containers
  BY DEF BundleTypes, Looks
<1>3. /\ \A o \in Bundle!Elements(Group) : Taken(o, E, look.seen)
      /\ \A c \in look.seen : \A o \in Bundle!Elements(Bundle!Contents(c)) : Taken(o, E, look.seen)
  BY <1>1 DEF GroupMet
<1>4. QED BY <1>2, <1>3 DEF Carried

LEMMA CarriedStays ==
  ASSUME NEW F, NEW E, NEW E2, Carried(F, E), E \subseteq E2
  PROVE  Carried(F, E2)
<1>1. PICK G \in SUBSET Bundle!Containers :
        /\ \A o \in Bundle!Elements(F) : Taken(o, E, G)
        /\ \A c \in G : \A o \in Bundle!Elements(Bundle!Contents(c)) : Taken(o, E, G)
  BY DEF Carried
<1>2. /\ \A o \in Bundle!Elements(F) : Taken(o, E2, G)
      /\ \A c \in G : \A o \in Bundle!Elements(Bundle!Contents(c)) : Taken(o, E2, G)
  BY <1>1, TakenStays
<1>3. QED BY <1>2 DEF Carried

LEMMA MergeStep ==
  ASSUME BundleTypes, BundleInv, Bundle!MergeInventories
  PROVE  BundleTypes' /\ BundleInv'
<1> DEFINE all == inventory.callbacks \o look.found
           cut == Bundle!LeastOf(2, Len(all))
           some == SubSeq(all, 1, cut)
<1>1. /\ bundling \in {"fields", "handlers"} /\ look.stack = <<>>
      /\ inventory' = [callbacks |-> some,
                       partial |-> inventory.partial \/ look.partial \/ some # all]
      /\ \/ bundling = "fields" /\ look' = Bundle!Begin(framework.handlers) /\ bundling' = "handlers"
         \/ bundling = "handlers" /\ look' = Bundle!Begin(<<>>) /\ bundling' = "artifacts"
      /\ UNCHANGED <<framework, candidates, bundle, ledger>>
  BY DEF Bundle!MergeInventories, Bundle!Walking
<1> USE <1>1
<1>2. /\ inventory.callbacks \in Seq(Bundle!Callbacks) /\ look.found \in Seq(Bundle!Callbacks)
      /\ inventory.partial \in BOOLEAN /\ look.partial \in BOOLEAN
  BY DEF BundleTypes, Looks
<1>3. /\ all \in Seq(Bundle!Callbacks)
      /\ Bundle!Elements(inventory.callbacks) \subseteq Bundle!Elements(all)
      /\ Bundle!Elements(look.found) \subseteq Bundle!Elements(all)
  <2> DEFINE s == inventory.callbacks
             t == look.found
  <2> HIDE DEF s, t
  <2>1. s \in Seq(Bundle!Callbacks) /\ t \in Seq(Bundle!Callbacks)
    BY <1>2 DEF s, t
  <2>2. /\ s \o t \in Seq(Bundle!Callbacks)
        /\ \A n \in 1..Len(s) : n \in 1..Len(s \o t) /\ (s \o t)[n] = s[n]
        /\ \A n \in 1..Len(t) : Len(s) + n \in 1..Len(s \o t) /\ (s \o t)[Len(s) + n] = t[n]
    BY <2>1, Joined
  <2> USE <2>2
  <2>3. Bundle!Elements(s) \subseteq Bundle!Elements(s \o t)
    BY DEF Bundle!Elements
  <2>4. Bundle!Elements(t) \subseteq Bundle!Elements(s \o t)
    BY DEF Bundle!Elements
  <2>5. QED BY <2>3, <2>4 DEF s, t
<1> USE <1>3
<1> HIDE DEF all
<1>4. some \in Seq(Bundle!Callbacks)
  <2>1. Len(all) \in Nat OBVIOUS
  <2>2. cut \in Int /\ cut <= Len(all) BY <2>1 DEF Bundle!LeastOf
  <2>3. \A i \in 1..cut : all[i] \in Bundle!Callbacks BY <2>1, <2>2
  <2> HIDE DEF cut
  <2>4. QED BY <2>2, <2>3, SubSeqProperties
<1> HIDE DEF some
<1>5. framework.handlers \in Seq(Fields) /\ <<>> \in Seq(Fields)
  BY OwnerTypes DEF BundleTypes
<1>6. look' \in Looks
  BY <1>5, Beginning
<1>7. BundleTypes'
  <2> DEFINE p == inventory.partial \/ look.partial \/ some # all
  <2>1. p \in BOOLEAN OBVIOUS
  <2>2. inventory' = [callbacks |-> some, partial |-> p] OBVIOUS
  <2> HIDE DEF p
  <2>3. inventory' \in [callbacks : Seq(Bundle!Callbacks), partial : BOOLEAN]
    BY <1>4, <2>1, <2>2
  <2>4. bundling' \in {"fields", "handlers", "artifacts", "collect", "done"} OBVIOUS
  <2>5. QED BY <1>6, <2>3, <2>4 DEF BundleTypes
<1>8. GroupMet'
  <2>1. CASE bundling' = "handlers"
    <3> USE <2>1
    <3> DEFINE H == framework.handlers
    <3>1. look' = Bundle!Begin(H) /\ framework' = framework OBVIOUS
    <3>2. /\ look'.stack = Bundle!Level(H, 0) /\ look'.seen = {}
          /\ Len(Bundle!Level(H, 0)) = Len(H)
          /\ \A n \in 1..Len(H) : Bundle!Level(H, 0)[n] = <<H[n], 0>>
      BY <1>5, <3>1, Beginning, Leveled
    <3>3. \A n \in 1..Len(H) : \E m \in 1..Len(look'.stack) : look'.stack[m][1] = H[n]
      BY <3>2
    <3>4. Group' = H BY <3>1 DEF Group
    <3>5. ASSUME NEW o \in Bundle!Elements(H) PROVE Met(o)'
      <4>1. \E m \in 1..Len(look'.stack) : look'.stack[m][1] = o BY <3>3 DEF Bundle!Elements
      <4>2. Stacked(o)' BY <4>1 DEF Stacked
      <4>3. QED BY <4>2 DEF Met
    <3>6. \A o \in Bundle!Elements(Group)' : Met(o)'
      BY <3>4, <3>5 DEF Bundle!Elements
    <3>7. QED BY <3>2, <3>6 DEF GroupMet
  <2>2. CASE bundling' = "artifacts" BY <2>2 DEF GroupMet
  <2>3. QED BY <2>1, <2>2
<1>9. InventoryWhole'
  <2> SUFFICES ASSUME ~inventory'.partial PROVE InventoryWhole'
    BY DEF InventoryWhole
  <2> DEFINE E == Bundle!Elements(inventory.callbacks)
             A == Bundle!Elements(all)
  <2>1. /\ ~inventory.partial /\ ~look.partial /\ inventory'.callbacks = all
    OBVIOUS
  <2> USE <2>1
  <2>2. Carried(Group, A)
    BY WalkEnds DEF BundleInv
  <2>3. bundling = "handlers" => Carried(framework.fields, A)
    BY CarriedStays DEF BundleInv, InventoryWhole
  <2>4. /\ bundling' # "fields" => Carried(framework.fields, A)
        /\ bundling' \notin {"fields", "handlers"} => Carried(framework.handlers, A)
    BY <2>2, <2>3 DEF Group
  <2>5. framework' = framework /\ Bundle!Elements(inventory'.callbacks) = A
    OBVIOUS
  <2>6. QED BY <2>4, <2>5 DEF InventoryWhole, Carried, Bundle!Contents
<1>10. Nothing' /\ LedgerTrue'
  BY DEF BundleInv, Nothing, LedgerTrue
<1>11. QED BY <1>7, <1>8, <1>9, <1>10 DEF BundleInv

\* How a subject is told, from nothing to the worst.
LEMMA Ranks ==
  /\ Bundle!Rank("none") = 1 /\ Bundle!Rank("captured") = 2 /\ Bundle!Rank("partial") = 3
  /\ Bundle!Rank("truncated") = 4 /\ Bundle!Rank("omitted") = 5 /\ Bundle!Rank("missing") = 6
<1> DEFINE L == Bundle!Statuses
<1>1. /\ L[1] = "none" /\ L[2] = "captured" /\ L[3] = "partial" /\ L[4] = "truncated"
      /\ L[5] = "omitted" /\ L[6] = "missing"
  BY DEF Bundle!Statuses
<1> USE <1>1
<1> HIDE DEF L
<1>2. ASSUME NEW s, NEW n \in 1..6, L[n] = s, \A m \in 1..6 : L[m] = s => m = n
      PROVE  (CHOOSE m \in 1..6 : L[m] = s) = n
  BY <1>2
<1>3. \A s : Bundle!Rank(s) = CHOOSE m \in 1..6 : L[m] = s
  BY DEF Bundle!Rank, L
<1> USE <1>3
<1>4. \A m \in 1..6 : m = 1 \/ m = 2 \/ m = 3 \/ m = 4 \/ m = 5 \/ m = 6
  OBVIOUS
<1> USE <1>4
<1>5. Bundle!Rank("none") = 1 BY <1>2
<1>6. Bundle!Rank("captured") = 2 BY <1>2
<1>7. Bundle!Rank("partial") = 3 BY <1>2
<1>8. Bundle!Rank("truncated") = 4 BY <1>2
<1>9. Bundle!Rank("omitted") = 5 BY <1>2
<1>10. Bundle!Rank("missing") = 6 BY <1>2
<1>11. QED BY <1>5, <1>6, <1>7, <1>8, <1>9, <1>10

\* The ledger only gets worse.
LEMMA Merging ==
  ASSUME BundleTypes, NEW s \in Bundle!Subjects, NEW st \in Statuses,
         Bundle!MergeCoverage(s, st)
  PROVE  /\ ledger' \in [Bundle!Subjects -> Statuses]
         /\ Bundle!Incomplete => Bundle!Incomplete'
         /\ st \notin {"none", "captured"} => Bundle!Incomplete'
<1>1. ledger' = [ledger EXCEPT ![s] = IF Bundle!Rank(st) > Bundle!Rank(@) THEN st ELSE @]
  BY DEF Bundle!MergeCoverage
<1>2. ledger \in [Bundle!Subjects -> Statuses]
  BY DEF BundleTypes
<1>3. \A t \in Statuses : Bundle!Rank(t) \in Nat /\ (t \notin {"none", "captured"} => Bundle!Rank(t) > 2)
  BY Ranks DEF Statuses
<1> USE <1>3
<1>4. /\ ledger' \in [Bundle!Subjects -> Statuses]
      /\ \A t \in Bundle!Subjects : Bundle!Rank(ledger'[t]) >= Bundle!Rank(ledger[t])
      /\ Bundle!Rank(ledger'[s]) >= Bundle!Rank(st)
  BY <1>1, <1>2
<1> USE <1>4
<1>5. Bundle!Rank("captured") = 2
  BY Ranks
<1>6. \A t \in Bundle!Subjects : Bundle!Rank(ledger'[t]) \in Nat /\ Bundle!Rank(ledger[t]) \in Nat
  BY <1>2
<1>7. Bundle!Incomplete => Bundle!Incomplete'
  <2>1. SUFFICES ASSUME NEW t \in Bundle!Subjects, Bundle!Rank(ledger[t]) > 2
                 PROVE  Bundle!Rank(ledger'[t]) > 2
    BY <1>5 DEF Bundle!Incomplete
  <2>2. QED BY <1>6, <2>1
<1>8. st \notin {"none", "captured"} => Bundle!Incomplete'
  <2>1. SUFFICES ASSUME st \notin {"none", "captured"} PROVE Bundle!Rank(ledger'[s]) > 2
    BY <1>5 DEF Bundle!Incomplete
  <2>2. QED BY <1>6, <2>1
<1>9. QED BY <1>7, <1>8

\* What may be bundled is an artifact.
LEMMA ArtifactTypes ==
  ASSUME BundleTypes
  PROVE  /\ \A n \in 1..Len(inventory.callbacks) : Bundle!CallbackArtifact(n) \in Artifacts
         /\ \A n \in 1..Len(framework.tools) : Bundle!ToolArtifact(n) \in Artifacts
         /\ Bundle!Unknown \in Artifacts
<1>1. \A t \in Bundle!Texts : Bundle!StatusOf(t) \in Carriable
  BY DEF Bundle!Texts, Bundle!StatusOf, Carriable
<1>2. framework.tools \in Seq({"whole", "none"}) /\ framework.text \in Bundle!Texts
  BY OwnerTypes DEF BundleTypes
<1>3. inventory.callbacks \in Seq({"a", "b"})
  BY DEF BundleTypes, Bundle!Callbacks
<1>4. ASSUME NEW n \in 1..Len(inventory.callbacks) PROVE Bundle!CallbackArtifact(n) \in Artifacts
  <2> DEFINE f == inventory.callbacks[n]
             st == IF f = "a" THEN Bundle!StatusOf(framework.text) ELSE "captured"
  <2>1. f \in {"a", "b"} /\ n \in Nat BY <1>3
  <2>2. st \in Carriable BY <1>1, <1>2 DEF Carriable
  <2>3. Bundle!CallbackArtifact(n) = [subject |-> "agent", name |-> <<f, n>>, status |-> st]
    BY DEF Bundle!CallbackArtifact
  <2> HIDE DEF f, st
  <2>4. QED BY <2>1, <2>2, <2>3 DEF Artifacts, Bundle!Subjects
<1>5. ASSUME NEW n \in 1..Len(framework.tools) PROVE Bundle!ToolArtifact(n) \in Artifacts
  <2> DEFINE st == Bundle!StatusOf(framework.tools[n])
  <2>1. framework.tools[n] \in Bundle!Texts BY <1>2 DEF Bundle!Texts
  <2>2. st \in Carriable BY <1>1, <2>1
  <2>3. Bundle!ToolArtifact(n) = [subject |-> "tool", name |-> <<"t", 0>>, status |-> st]
    BY DEF Bundle!ToolArtifact
  <2> HIDE DEF st
  <2>4. QED BY <2>2, <2>3 DEF Artifacts, Bundle!Subjects
<1>6. Bundle!Unknown \in Artifacts
  BY DEF Bundle!Unknown, Artifacts, Bundle!Subjects, Carriable
<1>7. QED BY <1>4, <1>5, <1>6

LEMMA DescribeStep ==
  ASSUME BundleTypes, BundleInv, Bundle!Describe
  PROVE  BundleTypes' /\ BundleInv'
<1> DEFINE C == [n \in 1..Len(inventory.callbacks) |-> Bundle!CallbackArtifact(n)]
           U == IF inventory.partial THEN <<Bundle!Unknown>> ELSE <<>>
           T == [n \in 1..Len(framework.tools) |-> Bundle!ToolArtifact(n)]
<1>1. /\ bundling = "artifacts" /\ bundling' = "collect" /\ candidates' = (C \o U) \o T
      /\ UNCHANGED <<framework, look, inventory, bundle, ledger>>
  BY DEF Bundle!Describe
<1>2. inventory.callbacks \in Seq(Bundle!Callbacks) /\ framework.tools \in Seq({"whole", "none"})
  BY OwnerTypes DEF BundleTypes
<1>3. /\ C \in Seq(Artifacts) /\ Len(C) = Len(inventory.callbacks)
      /\ \A n \in 1..Len(inventory.callbacks) : C[n] = Bundle!CallbackArtifact(n)
  BY <1>2, ArtifactTypes
<1>4. /\ T \in Seq(Artifacts) /\ Len(T) = Len(framework.tools)
      /\ \A n \in 1..Len(framework.tools) : T[n] = Bundle!ToolArtifact(n)
  BY <1>2, ArtifactTypes
<1>5. U \in Seq(Artifacts) /\ (inventory.partial => Len(U) = 1 /\ U[1] = Bundle!Unknown)
  <2> DEFINE u == Bundle!Unknown
  <2>1. u \in Artifacts BY ArtifactTypes
  <2> HIDE DEF u
  <2>2. <<>> \in Seq(Artifacts) /\ <<u>> \in Seq(Artifacts) BY <2>1
  <2>3. QED BY <2>2 DEF u
<1> DEFINE CU == C \o U
           All == CU \o T
<1> HIDE DEF C, U, T
<1>6. /\ CU \in Seq(Artifacts)
      /\ \A n \in 1..Len(C) : n \in 1..Len(CU) /\ CU[n] = C[n]
      /\ \A n \in 1..Len(U) : Len(C) + n \in 1..Len(CU) /\ CU[Len(C) + n] = U[n]
  <2>1. C \in Seq(Artifacts) /\ U \in Seq(Artifacts) BY <1>3, <1>5
  <2>2. QED BY <2>1, Joined
<1> HIDE DEF CU
<1>7. /\ All \in Seq(Artifacts)
      /\ \A n \in 1..Len(CU) : n \in 1..Len(All) /\ All[n] = CU[n]
      /\ \A n \in 1..Len(T) : Len(CU) + n \in 1..Len(All) /\ All[Len(CU) + n] = T[n]
  BY <1>4, <1>6, Joined
<1>8. candidates' = All
  BY <1>1 DEF CU
<1> HIDE DEF All
<1>9. BundleTypes'
  BY <1>1, <1>7, <1>8 DEF BundleTypes
<1>10. ASSUME NEW n \in 1..Len(inventory.callbacks) PROVE Awaited(Bundle!CallbackArtifact(n))'
  <2>1. n \in 1..Len(All) /\ All[n] = Bundle!CallbackArtifact(n)
    BY <1>3, <1>6, <1>7
  <2>2. Bundle!CallbackArtifact(n)' = Bundle!CallbackArtifact(n)
    BY <1>1 DEF Bundle!CallbackArtifact
  <2>3. QED BY <1>8, <2>1, <2>2 DEF Awaited
<1>11. ASSUME NEW n \in 1..Len(framework.tools) PROVE Awaited(Bundle!ToolArtifact(n))'
  <2>1. Len(CU) + n \in 1..Len(All) /\ All[Len(CU) + n] = Bundle!ToolArtifact(n)
    BY <1>4, <1>7
  <2>2. Bundle!ToolArtifact(n)' = Bundle!ToolArtifact(n)
    BY <1>1 DEF Bundle!ToolArtifact
  <2>3. QED BY <1>8, <2>1, <2>2 DEF Awaited
<1>12. inventory.partial => Awaited(Bundle!Unknown)'
  <2> SUFFICES ASSUME inventory.partial PROVE Awaited(Bundle!Unknown)' OBVIOUS
  <2>1. 1 \in 1..Len(U) /\ U[1] = Bundle!Unknown BY <1>5
  <2>2. Len(C) + 1 \in 1..Len(CU) /\ CU[Len(C) + 1] = Bundle!Unknown BY <1>6, <2>1
  <2>3. Len(C) + 1 \in 1..Len(All) /\ All[Len(C) + 1] = Bundle!Unknown BY <1>7, <2>2
  <2>4. Bundle!Unknown' = Bundle!Unknown BY DEF Bundle!Unknown
  <2>5. QED BY <1>8, <2>3, <2>4 DEF Awaited
<1>13. bundle = {} /\ ledger = [s \in Bundle!Subjects |-> "none"]
  BY <1>1 DEF BundleInv, Nothing
<1>14. LedgerTrue'
  <2>1. \A n \in 1..Len(inventory'.callbacks) : Awaited(Bundle!CallbackArtifact(n))'
    BY <1>1, <1>10
  <2>2. \A n \in 1..Len(framework'.tools) : Awaited(Bundle!ToolArtifact(n))'
    BY <1>1, <1>11
  <2>3. inventory'.partial => Awaited(Bundle!Unknown)'
    BY <1>1, <1>12
  <2>4. bundle' = {} /\ \A s \in Bundle!Subjects : ledger'[s] = "none"
    BY <1>1, <1>13
  <2>5. QED BY <1>1, <2>1, <2>2, <2>3, <2>4 DEF LedgerTrue
<1>15. GroupMet' /\ Nothing'
  BY <1>1 DEF GroupMet, Nothing
<1>16. InventoryWhole'
  BY <1>1 DEF BundleInv, InventoryWhole, Carried, Bundle!Contents
<1>17. QED BY <1>9, <1>14, <1>15, <1>16 DEF BundleInv

\* What waited still waits, but for the head of the queue.
LEMMA NextCandidate ==
  ASSUME BundleTypes, candidates # <<>>, candidates' = Tail(candidates)
  PROVE  /\ Head(candidates) \in Artifacts /\ candidates' \in Seq(Artifacts)
         /\ \A a : Awaited(a) =>
              a = Head(candidates) \/ \E n \in 1..Len(candidates') : candidates'[n] = a
<1> DEFINE s == candidates
           t == Tail(s)
<1>1. s \in Seq(Artifacts) /\ s # <<>>
  BY DEF BundleTypes
<1> HIDE DEF s
<1>2. /\ Head(s) \in Artifacts /\ t \in Seq(Artifacts) /\ Len(t) = Len(s) - 1
      /\ \A n \in 1..Len(t) : t[n] = s[n + 1]
  BY <1>1, HeadTailProperties
<1>3. Head(s) = s[1] /\ Len(s) \in Nat
  BY <1>1
<1> HIDE DEF t
<1>4. ASSUME NEW a, NEW n \in 1..Len(s), s[n] = a
      PROVE  a = Head(s) \/ \E m \in 1..Len(t) : t[m] = a
  <2> USE <1>4
  <2>1. CASE n = 1 BY <1>3, <2>1
  <2>2. CASE n # 1
    <3>1. n - 1 \in 1..Len(t) /\ t[n - 1] = s[n] BY <1>2, <1>3, <2>2
    <3>2. QED BY <3>1
  <2>3. QED BY <2>1, <2>2
<1>5. QED BY <1>2, <1>4 DEF s, t, Awaited

\* An artifact is bundled, or the ledger tells of it.
LEMMA Collecting ==
  ASSUME BundleTypes, LedgerTrue, Bundle!Collect
  PROVE  LET a == Head(candidates)
         IN /\ UNCHANGED <<framework, look, inventory, bundling>>
            /\ bundling = "collect" /\ candidates # <<>> /\ candidates' = Tail(candidates)
            /\ ledger' \in [Bundle!Subjects -> Statuses] /\ (Bundle!Incomplete => Bundle!Incomplete')
            /\ \/ bundle' = bundle /\ Bundle!Incomplete'
               \/ bundle' = bundle /\ bundle # {} /\ Bundled(a)
               \/ /\ bundle' = bundle \cup {a} /\ Cardinality(bundle) < 2
                  /\ a.status # "captured" => Bundle!Incomplete'
            /\ a.status = "missing" => Bundle!Incomplete'
<1> DEFINE a == Head(candidates)
<1>1. /\ UNCHANGED <<framework, look, inventory, bundling>>
      /\ bundling = "collect" /\ candidates # <<>> /\ candidates' = Tail(candidates)
  BY DEF Bundle!Collect
<1> USE <1>1
<1>2. /\ a.subject \in Bundle!Subjects /\ a.status \in Statuses /\ a.status # "none"
      /\ "omitted" \in Statuses
  <2>1. a \in Artifacts BY NextCandidate
  <2>2. QED BY <2>1 DEF Artifacts, Carriable, Statuses
<1> USE <1>2
<1>3. \A b \in bundle : Bundle!Incomplete \/ b.status = "captured"
  BY DEF LedgerTrue
<1>4. Bundle!Cardinality(bundle) = Cardinality(bundle) /\ Cardinality(bundle) \in Nat
  BY FS_CardinalityType DEF Bundle!Cardinality, Cardinality, BundleTypes
<1>5. \/ /\ a.status = "missing" \/ \E b \in bundle : b.subject = a.subject /\ b.name = a.name
         /\ Bundle!MergeCoverage(a.subject, a.status) /\ bundle' = bundle
      \/ /\ a.status # "missing"
         /\ Bundle!MergeCoverage(a.subject, "omitted") /\ bundle' = bundle
      \/ /\ a.status # "missing" /\ Cardinality(bundle) < 2
         /\ Bundle!MergeCoverage(a.subject, a.status) /\ bundle' = bundle \cup {a}
  BY <1>4 DEF Bundle!Collect
<1> HIDE DEF a
<1>6. CASE /\ a.status = "missing" \/ \E b \in bundle : b.subject = a.subject /\ b.name = a.name
           /\ Bundle!MergeCoverage(a.subject, a.status) /\ bundle' = bundle
  <2> USE <1>6
  <2>1. /\ ledger' \in [Bundle!Subjects -> Statuses] /\ (Bundle!Incomplete => Bundle!Incomplete')
        /\ a.status # "captured" => Bundle!Incomplete'
    BY Merging
  <2>2. Bundle!Incomplete' \/ (bundle # {} /\ Bundled(a))
    BY <1>3, <2>1 DEF Bundled
  <2>3. QED BY <2>1, <2>2 DEF a
<1>7. CASE /\ a.status # "missing"
           /\ Bundle!MergeCoverage(a.subject, "omitted") /\ bundle' = bundle
  <2> USE <1>7
  <2>1. ledger' \in [Bundle!Subjects -> Statuses] /\ Bundle!Incomplete'
    BY Merging
  <2>2. QED BY <2>1 DEF a
<1>8. CASE /\ a.status # "missing" /\ Cardinality(bundle) < 2
           /\ Bundle!MergeCoverage(a.subject, a.status) /\ bundle' = bundle \cup {a}
  <2> USE <1>8
  <2>1. /\ ledger' \in [Bundle!Subjects -> Statuses] /\ (Bundle!Incomplete => Bundle!Incomplete')
        /\ a.status # "captured" => Bundle!Incomplete'
    BY Merging
  <2>2. QED BY <2>1 DEF a
<1>9. QED BY <1>5, <1>6, <1>7, <1>8

LEMMA CollectStep ==
  ASSUME BundleTypes, BundleInv, Bundle!Collect
  PROVE  BundleTypes' /\ BundleInv'
<1> DEFINE a == Head(candidates)
<1>1. /\ UNCHANGED <<framework, look, inventory, bundling>>
      /\ bundling = "collect" /\ candidates # <<>> /\ candidates' = Tail(candidates)
      /\ ledger' \in [Bundle!Subjects -> Statuses] /\ (Bundle!Incomplete => Bundle!Incomplete')
      /\ \/ bundle' = bundle /\ Bundle!Incomplete'
         \/ bundle' = bundle /\ bundle # {} /\ Bundled(a)
         \/ /\ bundle' = bundle \cup {a} /\ Cardinality(bundle) < 2
            /\ a.status # "captured" => Bundle!Incomplete'
      /\ a.status = "missing" => Bundle!Incomplete'
  BY Collecting DEF BundleInv
<1> USE <1>1
<1>2. /\ a \in Artifacts /\ candidates' \in Seq(Artifacts)
      /\ \A x : Awaited(x) => x = a \/ \E n \in 1..Len(candidates') : candidates'[n] = x
  BY NextCandidate
<1> USE <1>2
<1>3. bundle \subseteq bundle' /\ bundle' \subseteq bundle \cup {a}
  OBVIOUS
<1> HIDE DEF a
<1>4. BundleTypes'
  <2>1. CASE bundle' = bundle BY <2>1 DEF BundleTypes
  <2>2. CASE bundle' = bundle \cup {a} /\ Cardinality(bundle) < 2
    <3> USE <2>2
    <3>1. IsFiniteSet(bundle) BY DEF BundleTypes
    <3>2. /\ IsFiniteSet(bundle \cup {a}) /\ Cardinality(bundle) \in Nat
          /\ Cardinality(bundle \cup {a}) = IF a \in bundle THEN Cardinality(bundle)
                                            ELSE Cardinality(bundle) + 1
      BY <3>1, FS_AddElement, FS_CardinalityType
    <3>3. IsFiniteSet(bundle') /\ Cardinality(bundle') <= 2
      BY <3>2
    <3>4. bundle' \subseteq Artifacts
      BY DEF BundleTypes
    <3>5. QED BY <3>3, <3>4 DEF BundleTypes
  <2>3. QED BY <2>1, <2>2
<1>5. ASSUME NEW x, Bundle!Incomplete \/ Awaited(x) \/ Bundled(x)
      PROVE  Bundle!Incomplete' \/ Awaited(x)' \/ Bundled(x)'
  <2>1. CASE Bundle!Incomplete BY <2>1
  <2>2. CASE Bundled(x) BY <1>3, <2>2 DEF Bundled
  <2>3. CASE Awaited(x) /\ x # a BY <2>3 DEF Awaited
  <2>4. CASE x = a /\ bundle' = bundle /\ Bundled(a) BY <2>4 DEF Bundled
  <2>5. CASE x = a /\ bundle' = bundle \cup {a} /\ (a.status # "captured" => Bundle!Incomplete')
    BY <2>5 DEF Bundled
  <2>6. QED BY <1>5, <2>1, <2>2, <2>3, <2>4, <2>5
<1>6. ASSUME NEW n
      PROVE  /\ Bundle!CallbackArtifact(n)' = Bundle!CallbackArtifact(n)
             /\ Bundle!ToolArtifact(n)' = Bundle!ToolArtifact(n)
  BY DEF Bundle!CallbackArtifact, Bundle!ToolArtifact
<1>7. LedgerTrue'
  <2>1. ASSUME NEW n \in 1..Len(inventory.callbacks)
        PROVE  Bundle!Incomplete' \/ Awaited(Bundle!CallbackArtifact(n))' \/ Bundled(Bundle!CallbackArtifact(n))'
    <3>1. PICK x : x = Bundle!CallbackArtifact(n) OBVIOUS
    <3>2. Bundle!Incomplete \/ Awaited(x) \/ Bundled(x) BY <3>1 DEF BundleInv, LedgerTrue
    <3>3. Bundle!Incomplete' \/ Awaited(x)' \/ Bundled(x)' BY <1>5, <3>2
    <3>4. Bundle!CallbackArtifact(n)' = x BY <1>6, <3>1
    <3>5. QED BY <3>3, <3>4 DEF Awaited, Bundled
  <2>2. ASSUME NEW n \in 1..Len(framework.tools)
        PROVE  Bundle!Incomplete' \/ Awaited(Bundle!ToolArtifact(n))' \/ Bundled(Bundle!ToolArtifact(n))'
    <3>1. PICK x : x = Bundle!ToolArtifact(n) OBVIOUS
    <3>2. Bundle!Incomplete \/ Awaited(x) \/ Bundled(x) BY <3>1 DEF BundleInv, LedgerTrue
    <3>3. Bundle!Incomplete' \/ Awaited(x)' \/ Bundled(x)' BY <1>5, <3>2
    <3>4. Bundle!ToolArtifact(n)' = x BY <1>6, <3>1
    <3>5. QED BY <3>3, <3>4 DEF Awaited, Bundled
  <2>3. inventory.partial => Bundle!Incomplete' \/ Awaited(Bundle!Unknown)'
    <3> SUFFICES ASSUME inventory.partial PROVE Bundle!Incomplete' \/ Awaited(Bundle!Unknown)' OBVIOUS
    <3>0. Bundle!Unknown.status = "missing" BY DEF Bundle!Unknown
    <3>1. PICK x : x = Bundle!Unknown /\ x.status = "missing" BY <3>0
    <3> USE <3>1
    <3>2. Bundle!Incomplete \/ Awaited(x) BY DEF BundleInv, LedgerTrue
    <3>3. Bundle!Incomplete' \/ Awaited(x)' BY <3>2 DEF Awaited
    <3>4. Bundle!Unknown' = x BY DEF Bundle!Unknown
    <3>5. QED BY <3>3, <3>4 DEF Awaited
  <2>4. \A b \in bundle' : Bundle!Incomplete' \/ b.status = "captured"
    <3>1. \A b \in bundle : Bundle!Incomplete \/ b.status = "captured"
      BY DEF BundleInv, LedgerTrue
    <3>2. QED BY <3>1
  <2>5. Bundle!Incomplete' \/ bundle' # {}
    OBVIOUS
  <2>6. /\ inventory' = inventory /\ framework' = framework /\ bundling' = "collect"
    OBVIOUS
  <2>7. QED BY <2>1, <2>2, <2>3, <2>4, <2>5, <2>6 DEF LedgerTrue
<1>8. GroupMet' /\ Nothing'
  BY DEF GroupMet, Nothing
<1>9. InventoryWhole'
  BY DEF BundleInv, InventoryWhole, Carried, Bundle!Contents
<1>10. QED BY <1>4, <1>7, <1>8, <1>9 DEF BundleInv

LEMMA CollectedStep ==
  ASSUME BundleTypes, BundleInv, Bundle!Collected
  PROVE  BundleTypes' /\ BundleInv'
<1> DEFINE d == [subject |-> "agent", name |-> <<"definition", 0>>, status |-> "captured"]
<1>1. /\ bundling = "collect" /\ candidates = <<>> /\ bundling' = "done"
      /\ bundle' = IF bundle = {} /\ (\A s \in Bundle!Subjects : ledger[s] = "none") /\ framework.tools = <<>>
                   THEN {d} ELSE bundle
      /\ UNCHANGED <<framework, look, inventory, candidates, ledger>>
  BY DEF Bundle!Collected
<1>2. d \in Artifacts /\ d.status = "captured"
  BY DEF Artifacts, Bundle!Subjects, Carriable
<1> HIDE DEF d
<1>3. bundle \subseteq bundle' /\ bundle' \subseteq bundle \cup {d}
  BY <1>1
<1>4. BundleTypes'
  <2>1. CASE bundle' = bundle BY <1>1, <2>1 DEF BundleTypes
  <2>2. CASE bundle' = {d}
    <3>1. IsFiniteSet(bundle') /\ Cardinality(bundle') <= 2 BY <2>2, FS_Singleton
    <3>2. QED BY <1>1, <1>2, <2>2, <3>1 DEF BundleTypes
  <2>3. QED BY <1>1, <2>1, <2>2
<1>5. LedgerTrue
  BY DEF BundleInv
<1>6. Bundle!Incomplete' <=> Bundle!Incomplete
  BY <1>1 DEF Bundle!Incomplete
<1>7. \A x : ~Awaited(x)
  BY <1>1 DEF Awaited
<1>8. ASSUME NEW x, Bundled(x) PROVE Bundled(x)'
  BY <1>3, <1>8 DEF Bundled
<1>9. Bundle!Incomplete \/ bundle' # {}
  <2>1. CASE framework.tools = <<>>
    BY <1>1, <1>5, <2>1 DEF LedgerTrue
  <2>2. CASE framework.tools # <<>>
    <3>1. 1 \in 1..Len(framework.tools)
      <4>1. framework.tools \in Seq({"whole", "none"}) BY OwnerTypes DEF BundleTypes
      <4>2. QED BY <2>2, <4>1, EmptySeq
    <3>2. Bundle!Incomplete \/ Bundled(Bundle!ToolArtifact(1))
      BY <1>1, <1>5, <1>7, <3>1 DEF LedgerTrue
    <3>3. QED BY <1>3, <3>2 DEF Bundled
  <2>3. QED BY <2>1, <2>2
<1>10. LedgerTrue'
  <2>1. ASSUME NEW n \in 1..Len(inventory.callbacks)
        PROVE  Bundle!Incomplete' \/ Bundled(Bundle!CallbackArtifact(n))'
    <3>1. PICK x : x = Bundle!CallbackArtifact(n) OBVIOUS
    <3>2. Bundle!Incomplete \/ Bundled(x) BY <1>1, <1>5, <1>7, <3>1 DEF LedgerTrue
    <3>3. Bundle!CallbackArtifact(n)' = x BY <1>1, <3>1 DEF Bundle!CallbackArtifact
    <3>4. QED BY <1>6, <1>8, <3>2, <3>3 DEF Bundled
  <2>2. ASSUME NEW n \in 1..Len(framework.tools)
        PROVE  Bundle!Incomplete' \/ Bundled(Bundle!ToolArtifact(n))'
    <3>1. PICK x : x = Bundle!ToolArtifact(n) OBVIOUS
    <3>2. Bundle!Incomplete \/ Bundled(x) BY <1>1, <1>5, <1>7, <3>1 DEF LedgerTrue
    <3>3. Bundle!ToolArtifact(n)' = x BY <1>1, <3>1 DEF Bundle!ToolArtifact
    <3>4. QED BY <1>6, <1>8, <3>2, <3>3 DEF Bundled
  <2>3. inventory.partial => Bundle!Incomplete'
    BY <1>1, <1>5, <1>6, <1>7 DEF LedgerTrue
  <2>4. \A b \in bundle' : Bundle!Incomplete' \/ b.status = "captured"
    BY <1>1, <1>2, <1>3, <1>5, <1>6 DEF LedgerTrue
  <2>5. inventory' = inventory /\ framework' = framework /\ bundling' = "done" /\ candidates' = <<>>
    BY <1>1
  <2>6. QED BY <1>6, <1>9, <2>1, <2>2, <2>3, <2>4, <2>5 DEF LedgerTrue
<1>11. GroupMet' /\ Nothing'
  BY <1>1 DEF GroupMet, Nothing
<1>12. InventoryWhole'
  BY <1>1 DEF BundleInv, InventoryWhole, Carried, Bundle!Contents
<1>13. QED BY <1>4, <1>10, <1>11, <1>12 DEF BundleInv

LEMMA BundleStep ==
  ASSUME BundleTypes, BundleInv, [Bundle!Next]_bundles
  PROVE  BundleTypes' /\ BundleInv'
<1>1. CASE UNCHANGED bundles
  <2>1. /\ framework' = framework /\ look' = look /\ inventory' = inventory
        /\ candidates' = candidates /\ bundle' = bundle /\ ledger' = ledger /\ bundling' = bundling
    BY <1>1 DEF bundles
  <2> USE <2>1
  <2>2. BundleTypes' BY DEF BundleTypes
  <2>3. GroupMet'
    BY DEF BundleInv, GroupMet, Met, Stacked, Group, Bundle!Contents
  <2>4. InventoryWhole' /\ Nothing'
    BY DEF BundleInv, InventoryWhole, Carried, Bundle!Contents, Nothing
  <2>5. LedgerTrue'
    BY DEF BundleInv, LedgerTrue, Awaited, Bundled, Bundle!Incomplete, Bundle!CallbackArtifact,
       Bundle!ToolArtifact, Bundle!Unknown
  <2>6. QED BY <2>2, <2>3, <2>4, <2>5 DEF BundleInv
<1>2. QED
  BY <1>1, AppendStep, MergeStep, DescribeStep, CollectStep, CollectedStep DEF Bundle!Next

\* What is reached in two levels of containers is held by the walk of its group.
LEMMA ReachedIsTaken ==
  ASSUME NEW E, Carried(framework.fields, E), Carried(framework.handlers, E), NEW f \in Bundle!Reached
  PROVE  f # "raises" /\ (f \in Bundle!Callbacks => f \in E)
<1>1. PICK G \in SUBSET Bundle!Containers :
        /\ \A o \in Bundle!Elements(framework.fields) : Taken(o, E, G)
        /\ \A c \in G : \A o \in Bundle!Elements(Bundle!Contents(c)) : Taken(o, E, G)
  BY DEF Carried
<1>2. PICK H \in SUBSET Bundle!Containers :
        /\ \A o \in Bundle!Elements(framework.handlers) : Taken(o, E, H)
        /\ \A c \in H : \A o \in Bundle!Elements(Bundle!Contents(c)) : Taken(o, E, H)
  BY DEF Carried
<1> DEFINE Good(o) == Taken(o, E, G) \/ Taken(o, E, H)
<1>3. ASSUME NEW S, \A o \in S : Good(o), NEW o \in Bundle!Items(S) PROVE Good(o)
  <2> USE <1>3
  <2>1. PICK c \in S \cap Bundle!Containers : o \in Bundle!Elements(Bundle!Contents(c))
    BY DEF Bundle!Items, Bundle!Elements
  <2> USE <2>1
  <2>2. Good(c) OBVIOUS
  <2>3. c \in G \/ c \in H BY <2>2 DEF Taken
  <2>4. QED BY <1>1, <1>2, <2>3
<1> DEFINE first == Bundle!Elements(framework.fields) \cup Bundle!Elements(framework.handlers)
           second == first \cup Bundle!Items(first)
<1>4. \A o \in first : Good(o) BY <1>1, <1>2
<1>5. \A o \in second : Good(o) BY <1>3, <1>4
<1>6. f \in second \cup Bundle!Items(second) BY DEF Bundle!Reached
<1> HIDE DEF second, Good
<1>7. Good(f) BY <1>3, <1>5, <1>6
<1>8. QED BY <1>7 DEF Good, Taken

\* A report that calls itself complete carries everything.
LEMMA BundlePromise ==
  ASSUME BundleTypes, BundleInv
  PROVE  Bundle!CompleteCarriesAll /\ Bundle!TypeOK
<1>1. Bundle!CompleteCarriesAll
  <2> SUFFICES ASSUME bundling = "done", ~Bundle!Incomplete
               PROVE  /\ \A f \in Bundle!Reached \cap Bundle!Callbacks :
                           \E a \in bundle : a.name[1] = f /\ a.status = "captured"
                      /\ framework.tools # <<>> =>
                           \E a \in bundle : a.subject = "tool" /\ a.status = "captured"
                      /\ "raises" \notin Bundle!Reached /\ bundle # {}
    BY DEF Bundle!CompleteCarriesAll
  <2>1. /\ candidates = <<>> /\ bundle # {}
        /\ \A n \in 1..Len(inventory.callbacks) :
             Awaited(Bundle!CallbackArtifact(n)) \/ Bundled(Bundle!CallbackArtifact(n))
        /\ \A n \in 1..Len(framework.tools) :
             Awaited(Bundle!ToolArtifact(n)) \/ Bundled(Bundle!ToolArtifact(n))
        /\ inventory.partial => Awaited(Bundle!Unknown)
    BY DEF BundleInv, LedgerTrue
  <2> USE <2>1
  <2>2. \A x : ~Awaited(x)
    BY DEF Awaited
  <2> USE <2>2
  <2> DEFINE E == Bundle!Elements(inventory.callbacks)
  <2>3. Carried(framework.fields, E) /\ Carried(framework.handlers, E)
    BY DEF BundleInv, InventoryWhole
  <2>4. ASSUME NEW f \in Bundle!Reached \cap Bundle!Callbacks
        PROVE  \E a \in bundle : a.name[1] = f /\ a.status = "captured"
    <3>1. f \in E BY <2>3, ReachedIsTaken
    <3>2. PICK n \in 1..Len(inventory.callbacks) : inventory.callbacks[n] = f
      BY <3>1 DEF Bundle!Elements
    <3>3. Bundle!CallbackArtifact(n).name = <<f, n>>
      BY <3>2 DEF Bundle!CallbackArtifact
    <3>4. PICK a \in bundle : a.name = <<f, n>> /\ a.status = "captured"
      BY <3>3 DEF Bundled
    <3>5. <<f, n>>[1] = f OBVIOUS
    <3>6. QED BY <3>4, <3>5
  <2>5. framework.tools # <<>> => \E a \in bundle : a.subject = "tool" /\ a.status = "captured"
    <3> SUFFICES ASSUME framework.tools # <<>>
                 PROVE  \E a \in bundle : a.subject = "tool" /\ a.status = "captured"
      OBVIOUS
    <3>1. framework.tools \in Seq({"whole", "none"}) BY OwnerTypes DEF BundleTypes
    <3>2. 1 \in 1..Len(framework.tools) BY <3>1, EmptySeq
    <3>3. Bundle!ToolArtifact(1).subject = "tool" BY DEF Bundle!ToolArtifact
    <3>4. QED BY <3>2, <3>3 DEF Bundled
  <2>6. "raises" \notin Bundle!Reached BY <2>3, ReachedIsTaken
  <2>7. QED BY <2>4, <2>5, <2>6
<1>2. Bundle!TypeOK
  <2>1. /\ framework \in Bundle!Owners /\ look.seen \subseteq Bundle!Containers /\ look.partial \in BOOLEAN
        /\ look.found \in Seq(Bundle!Callbacks) /\ inventory.callbacks \in Seq(Bundle!Callbacks)
        /\ inventory.partial \in BOOLEAN
        /\ bundling \in {"fields", "handlers", "artifacts", "collect", "done"}
    BY DEF BundleTypes, Looks
  <2>2. Bundle!Elements(look.found) \cup Bundle!Elements(inventory.callbacks) \subseteq Bundle!Callbacks
    BY <2>1, ElementsOf
  <2>3. \A n \in 1..Len(candidates) : candidates[n].subject \in Bundle!Subjects
    <3>1. candidates \in Seq(Artifacts) BY DEF BundleTypes
    <3>2. \A n \in 1..Len(candidates) : candidates[n] \in Artifacts BY <3>1
    <3>3. \A a \in Artifacts : a.subject \in Bundle!Subjects BY DEF Artifacts
    <3>4. QED BY <3>2, <3>3
  <2>4. Bundle!Cardinality(bundle) <= 2
    BY DEF BundleTypes, Bundle!Cardinality, Cardinality
  <2>5. ledger \in [Bundle!Subjects -> {Bundle!Statuses[n] : n \in 1..6}]
    <3> DEFINE L == Bundle!Statuses
    <3>1. /\ L[1] = "none" /\ L[2] = "captured" /\ L[3] = "partial" /\ L[4] = "truncated"
          /\ L[5] = "omitted" /\ L[6] = "missing"
      BY DEF Bundle!Statuses
    <3> HIDE DEF L
    <3>2. 1 \in 1..6 /\ 2 \in 1..6 /\ 3 \in 1..6 /\ 4 \in 1..6 /\ 5 \in 1..6 /\ 6 \in 1..6 OBVIOUS
    <3>3. Statuses \subseteq {L[n] : n \in 1..6} BY <3>1, <3>2 DEF Statuses
    <3>4. ledger \in [Bundle!Subjects -> Statuses] BY DEF BundleTypes
    <3>5. \A s \in Bundle!Subjects : ledger[s] \in {L[n] : n \in 1..6} BY <3>3, <3>4
    <3>6. ledger \in [Bundle!Subjects -> {L[n] : n \in 1..6}] BY <3>4, <3>5
    <3>7. QED BY <3>6 DEF L
  <2>6. QED BY <2>1, <2>2, <2>3, <2>4, <2>5 DEF Bundle!TypeOK
<1>3. QED BY <1>1, <1>2

-----------------------------------------------------------------------------
(* Redaction: what an obligation hides stays hidden, and whether it hides  *)
(* an argument does not depend on the others.                              *)
RedactInv ==
  \/ \E d \in Seq(0..9) : case = [at |-> "digits", digits |-> d]
  \/ \E args \in Seq(Masks!Argument), bindable \in BOOLEAN, os \in Seq(Masks!Obligations) :
       \E n \in 0..Len(args) :
         \/ case = [at |-> "call", args |-> args, positional |-> n, bindable |-> bindable,
                    obligations |-> os, out |-> <<>>]
         \/ case = [at |-> "done", args |-> args, positional |-> n, bindable |-> bindable,
                    obligations |-> os, out |-> Masks!ApplyToCall(args, n, bindable, os)]

Blank(a) == [a EXCEPT !.value = Masks!Hidden]
Hides(os, n, a) == \E i \in 1..n : Masks!Handle(os[i], a) # a

\* The numbers that 0 leads to are all of them.
LEMMA NatOrder == IsWellFoundedOn({r \in Nat \X Nat : r[1] < r[2]}, Nat)
BY NatLessThanWellFounded DEF OpToRel

LEMMA Inductive ==
  ASSUME NEW S, 0 \in S, \A n \in Nat : n \in S => n + 1 \in S
  PROVE  Nat \subseteq S
<1> DEFINE R == {r \in Nat \X Nat : r[1] < r[2]}
           T == Nat \ S
<1>1. SUFFICES ASSUME T # {} PROVE FALSE
  OBVIOUS
<1>2. PICK x \in T : \A y \in T : <<y, x>> \notin R
  <2>1. IsWellFoundedOn(R, Nat) BY NatOrder
  <2>2. T \subseteq Nat OBVIOUS
  <2> HIDE DEF R, T
  <2>3. QED BY <1>1, <2>1, <2>2, WFMin
<1>3. x \in Nat /\ x # 0 /\ x - 1 \in Nat
  OBVIOUS
<1>4. x - 1 \in T
  BY <1>3
<1>5. <<x - 1, x>> \in R
  <2>1. <<x - 1, x>> \in Nat \X Nat /\ <<x - 1, x>>[1] < <<x - 1, x>>[2] BY <1>3
  <2>2. QED BY <2>1
<1>6. QED BY <1>2, <1>4, <1>5

\* An obligation hides an argument or leaves it, and a hidden one it leaves.
LEMMA Handled ==
  ASSUME NEW a \in Masks!Argument, NEW o
  PROVE  /\ Masks!Handle(o, a) \in {a, Blank(a)} /\ Blank(a) \in Masks!Argument
         /\ Masks!Handle(o, Blank(a)) = Blank(a)
<1> DEFINE b == Blank(a)
<1>1. b \in Masks!Argument /\ b.value = Masks!Hidden
  BY DEF Blank, Masks!Argument
<1>2. [b EXCEPT !.value = Masks!Hidden] = b
  BY DEF Blank, Masks!Argument
<1>3. /\ \A x \in {a, b} : [x EXCEPT !.value = Masks!Hidden] = b
      /\ \A x, name : Masks!ByField(x, name) \in {x, [x EXCEPT !.value = Masks!Hidden]}
      /\ \A x : Masks!MaskPii(x) \in {x, [x EXCEPT !.value = Masks!Hidden]}
      /\ \A x : Masks!RedactCards(x) \in {x, [x EXCEPT !.value = Masks!Hidden]}
      /\ \A x : Masks!RedactSecrets(x) \in {x, [x EXCEPT !.value = Masks!Hidden]}
  <2>1. \A x \in {a, b} : [x EXCEPT !.value = Masks!Hidden] = b
    BY <1>2 DEF Blank
  <2>2. \A x, name : Masks!ByField(x, name) \in {x, [x EXCEPT !.value = Masks!Hidden]}
    BY DEF Masks!ByField
  <2>3. \A x : Masks!MaskPii(x) \in {x, [x EXCEPT !.value = Masks!Hidden]}
    BY DEF Masks!MaskPii
  <2>4. \A x : Masks!RedactCards(x) \in {x, [x EXCEPT !.value = Masks!Hidden]}
    BY DEF Masks!RedactCards
  <2>5. \A x : Masks!RedactSecrets(x) \in {x, [x EXCEPT !.value = Masks!Hidden]}
    BY <2>2 DEF Masks!RedactSecrets
  <2>6. QED BY <2>1, <2>2, <2>3, <2>4, <2>5
<1> HIDE DEF b
<1>4. ASSUME NEW x \in {a, b} PROVE Masks!Handle(o, x) \in {x, b}
  BY <1>3 DEF Masks!Handle
<1>5. QED BY <1>1, <1>4 DEF b

\* After every obligation the argument is hidden exactly if one of them hides it.
LEMMA Masking ==
  ASSUME NEW a \in Masks!Argument, NEW os \in Seq(Masks!Obligations)
  PROVE  Masks!Masked(a, os) = IF Hides(os, Len(os), a) THEN Blank(a) ELSE a
<1> DEFINE L == Len(os)
           F == [n \in 0..L |-> IF Hides(os, n, a) THEN Blank(a) ELSE a]
           IsOut(f) == f = [n \in 0..L |-> IF n = 0 THEN a ELSE Masks!Handle(os[n], f[n - 1])]
           out == CHOOSE f : IsOut(f)
<1>1. L \in Nat
  OBVIOUS
<1> USE <1>1
<1>2. Masks!Masked(a, os) = out[L]
  BY DEF Masks!Masked
<1>3. ASSUME NEW n \in 1..L PROVE F[n] = Masks!Handle(os[n], F[n - 1])
  <2>1. n - 1 \in 0..L /\ n \in 0..L OBVIOUS
  <2> USE <2>1
  <2>2. Hides(os, n, a) <=> Hides(os, n - 1, a) \/ Masks!Handle(os[n], a) # a
    <3>1. \A i : i \in 1..n <=> i \in 1..(n - 1) \/ i = n OBVIOUS
    <3>2. QED BY <3>1 DEF Hides
  <2>3. Masks!Handle(os[n], a) \in {a, Blank(a)} /\ Masks!Handle(os[n], Blank(a)) = Blank(a)
    BY Handled
  <2>4. CASE Hides(os, n - 1, a)
    <3>1. F[n - 1] = Blank(a) /\ F[n] = Blank(a) BY <2>2, <2>4
    <3>2. QED BY <2>3, <3>1
  <2>5. CASE ~Hides(os, n - 1, a)
    <3> USE <2>5
    <3>1. F[n - 1] = a OBVIOUS
    <3>2. F[n] = IF Masks!Handle(os[n], a) # a THEN Blank(a) ELSE a BY <2>2
    <3>3. QED BY <2>3, <3>1, <3>2
  <2>6. QED BY <2>4, <2>5
<1>4. F[0] = a
  BY DEF Hides
<1>5. IsOut(F)
  <2> DEFINE G == [n \in 0..L |-> IF n = 0 THEN a ELSE Masks!Handle(os[n], F[n - 1])]
  <2>1. ASSUME NEW n \in 0..L PROVE F[n] = G[n]
    <3>1. n = 0 \/ n \in 1..L OBVIOUS
    <3>2. G[n] = IF n = 0 THEN a ELSE Masks!Handle(os[n], F[n - 1]) OBVIOUS
    <3> HIDE DEF F, G
    <3>3. QED BY <1>3, <1>4, <3>1, <3>2
  <2>2. F = [n \in 0..L |-> F[n]] OBVIOUS
  <2>3. G = [n \in 0..L |-> G[n]] OBVIOUS
  <2> HIDE DEF F, G
  <2>4. F = G BY <2>1, <2>2, <2>3
  <2>5. QED BY <2>4 DEF G
<1>6. IsOut(out)
  BY <1>5
<1> HIDE DEF out
<1>7. out[0] = a /\ \A n \in 1..L : out[n] = Masks!Handle(os[n], out[n - 1])
  <2>1. out = [n \in 0..L |-> IF n = 0 THEN a ELSE Masks!Handle(os[n], out[n - 1])] BY <1>6
  <2>2. \A n \in 0..L : out[n] = IF n = 0 THEN a ELSE Masks!Handle(os[n], out[n - 1])
    BY <2>1
  <2>3. 0 \in 0..L /\ \A n \in 1..L : n \in 0..L /\ n # 0 OBVIOUS
  <2>4. QED BY <2>2, <2>3
<1> HIDE DEF F
<1> DEFINE S == {n \in Nat : n <= L => out[n] = F[n]}
<1>8. 0 \in S BY <1>4, <1>7
<1>9. ASSUME NEW n \in Nat, n \in S PROVE n + 1 \in S
  <2>1. n + 1 \in Nat /\ (n + 1) - 1 = n OBVIOUS
  <2>2. ASSUME n + 1 <= L PROVE out[n + 1] = F[n + 1]
    <3>1. n <= L /\ n + 1 \in 1..L BY <2>2
    <3>2. out[n] = F[n] BY <1>9, <3>1
    <3>3. out[n + 1] = Masks!Handle(os[n + 1], out[n]) /\ F[n + 1] = Masks!Handle(os[n + 1], F[n])
      BY <1>3, <1>7, <2>1, <3>1
    <3>4. QED BY <3>2, <3>3
  <2>3. QED BY <2>1, <2>2
<1>10. L \in S
  <2> HIDE DEF S
  <2>1. QED BY <1>8, <1>9, Inductive
<1>11. out[L] = F[L] BY <1>10
<1>12. F[L] = IF Hides(os, L, a) THEN Blank(a) ELSE a BY DEF F
<1>13. QED BY <1>2, <1>11, <1>12

\* Arguments are masked one by one: what is cut, masked and joined is masked whole.
LEMMA Applied ==
  ASSUME NEW args \in Seq(Masks!Argument), NEW os \in Seq(Masks!Obligations)
  PROVE  /\ Masks!Apply(args, os) \in Seq(Masks!Argument)
         /\ Len(Masks!Apply(args, os)) = Len(args)
         /\ \A i \in 1..Len(args) :
              Masks!Apply(args, os)[i] = IF Hides(os, Len(os), args[i]) THEN Blank(args[i]) ELSE args[i]
<1> DEFINE A == Masks!Apply(args, os)
<1>1. A = [i \in 1..Len(args) |-> Masks!Masked(args[i], os)]
  BY DEF Masks!Apply
<1>2. \A i \in 1..Len(args) :
        /\ Masks!Masked(args[i], os) = IF Hides(os, Len(os), args[i]) THEN Blank(args[i]) ELSE args[i]
        /\ Masks!Masked(args[i], os) \in Masks!Argument
  <2> SUFFICES ASSUME NEW a \in Masks!Argument
               PROVE  /\ Masks!Masked(a, os) = IF Hides(os, Len(os), a) THEN Blank(a) ELSE a
                      /\ Masks!Masked(a, os) \in Masks!Argument
    OBVIOUS
  <2>1. QED BY Masking, Handled
<1> HIDE DEF A
<1>3. A \in Seq(Masks!Argument) /\ Len(A) = Len(args)
  BY <1>1, <1>2
<1>4. QED BY <1>1, <1>2, <1>3 DEF A

LEMMA Positional ==
  ASSUME NEW args \in Seq(Masks!Argument), NEW os \in Seq(Masks!Obligations), NEW n \in 0..Len(args)
  PROVE  Masks!ApplyToCall(args, n, TRUE, os) = Masks!Apply(args, os)
<1> DEFINE s == SubSeq(args, 1, n)
           t == SubSeq(args, n + 1, Len(args))
           A == Masks!Apply(args, os)
           B == Masks!Apply(s, os)
           C == Masks!Apply(t, os)
<1>1. /\ s \in Seq(Masks!Argument) /\ Len(s) = n /\ \A i \in 1..n : s[i] = args[i]
      /\ t \in Seq(Masks!Argument) /\ Len(t) = Len(args) - n
      /\ \A i \in 1..(Len(args) - n) : t[i] = args[n + i]
  OBVIOUS
<1>2. Masks!ApplyToCall(args, n, TRUE, os) = B \o C
  BY DEF Masks!ApplyToCall
<1> HIDE DEF s, t
<1>3. /\ A \in Seq(Masks!Argument) /\ Len(A) = Len(args)
      /\ \A i \in 1..Len(args) : A[i] = IF Hides(os, Len(os), args[i]) THEN Blank(args[i]) ELSE args[i]
  BY Applied
<1>4. /\ B \in Seq(Masks!Argument) /\ Len(B) = n
      /\ \A i \in 1..n : B[i] = IF Hides(os, Len(os), s[i]) THEN Blank(s[i]) ELSE s[i]
  BY <1>1, Applied
<1>5. /\ C \in Seq(Masks!Argument) /\ Len(C) = Len(args) - n
      /\ \A i \in 1..(Len(args) - n) : C[i] = IF Hides(os, Len(os), t[i]) THEN Blank(t[i]) ELSE t[i]
  BY <1>1, Applied
<1> HIDE DEF A, B, C
<1>6. /\ B \o C \in Seq(Masks!Argument) /\ Len(B \o C) = Len(args)
      /\ \A i \in 1..Len(args) : (B \o C)[i] = IF i <= n THEN B[i] ELSE C[i - n]
  BY <1>4, <1>5, ConcatProperties
<1>7. ASSUME NEW i \in 1..Len(args) PROVE (B \o C)[i] = A[i]
  <2>1. CASE i <= n
    <3>1. i \in 1..n BY <2>1
    <3>2. s[i] = args[i] BY <1>1, <3>1
    <3>3. B[i] = A[i] BY <1>3, <1>4, <3>1, <3>2
    <3>4. QED BY <1>6, <2>1, <3>3
  <2>2. CASE ~(i <= n)
    <3>1. i - n \in 1..(Len(args) - n) /\ n + (i - n) = i BY <2>2
    <3>2. t[i - n] = args[i] BY <1>1, <3>1
    <3>3. C[i - n] = A[i] BY <1>3, <1>5, <3>1, <3>2
    <3>4. QED BY <1>6, <2>2, <3>3
  <2>3. QED BY <2>1, <2>2
<1>8. B \o C = A
  BY <1>3, <1>6, <1>7, SeqEqual
<1>9. QED BY <1>2, <1>8 DEF A

\* Once more or in another order hides the same.
LEMMA AgainTheSame ==
  ASSUME NEW args \in Seq(Masks!Argument), NEW os \in Seq(Masks!Obligations)
  PROVE  /\ Masks!Apply(Masks!Apply(args, os), os) = Masks!Apply(args, os)
         /\ Masks!Apply(args, Masks!Reverse(os)) = Masks!Apply(args, os)
<1> DEFINE A == Masks!Apply(args, os)
           L == Len(os)
           ro == Masks!Reverse(os)
<1>1. /\ A \in Seq(Masks!Argument) /\ Len(A) = Len(args)
      /\ \A i \in 1..Len(args) : A[i] = IF Hides(os, L, args[i]) THEN Blank(args[i]) ELSE args[i]
  BY Applied
<1>2. Masks!Apply(A, os) = A
  <2> DEFINE AA == Masks!Apply(A, os)
  <2> HIDE DEF A
  <2>1. /\ AA \in Seq(Masks!Argument) /\ Len(AA) = Len(args)
        /\ \A i \in 1..Len(args) : AA[i] = IF Hides(os, L, A[i]) THEN Blank(A[i]) ELSE A[i]
    BY <1>1, Applied
  <2> HIDE DEF AA
  <2>2. ASSUME NEW i \in 1..Len(args) PROVE AA[i] = A[i]
    <3>1. args[i] \in Masks!Argument OBVIOUS
    <3>2. CASE Hides(os, L, args[i])
      <4>1. A[i] = Blank(args[i]) BY <1>1, <3>2
      <4>2. ~Hides(os, L, A[i])
        <5>1. \A o : Masks!Handle(o, Blank(args[i])) = Blank(args[i]) BY <3>1, Handled
        <5>2. QED BY <4>1, <5>1 DEF Hides
      <4>3. QED BY <2>1, <4>2
    <3>3. CASE ~Hides(os, L, args[i])
      <4>1. A[i] = args[i] BY <1>1, <3>3
      <4>2. QED BY <2>1, <3>3, <4>1
    <3>4. QED BY <3>2, <3>3
  <2>3. AA = A BY <1>1, <2>1, <2>2, SeqEqual
  <2>4. QED BY <2>3 DEF AA
<1>3. /\ ro \in Seq(Masks!Obligations) /\ Len(ro) = L
      /\ \A i \in 1..L : ro[i] = os[L - i + 1]
  <2>1. ro = [i \in 1..L |-> os[(L - i) + 1]] BY DEF Masks!Reverse
  <2>2. L \in Nat /\ \A i \in 1..L : (L - i) + 1 \in 1..L OBVIOUS
  <2>3. \A i \in 1..L : os[(L - i) + 1] \in Masks!Obligations BY <2>2
  <2> HIDE DEF ro, L
  <2>4. QED BY <2>1, <2>2, <2>3
<1>4. ASSUME NEW a PROVE Hides(ro, L, a) <=> Hides(os, L, a)
  <2>1. L \in Nat OBVIOUS
  <2>2. ASSUME NEW i \in 1..L PROVE L - i + 1 \in 1..L /\ ro[L - i + 1] = os[i] /\ ro[i] = os[L - i + 1]
    <3>1. L - i + 1 \in 1..L /\ L - (L - i + 1) + 1 = i BY <2>1
    <3>2. QED BY <1>3, <3>1
  <2> HIDE DEF ro, L
  <2>3. QED BY <2>2 DEF Hides
<1>5. Masks!Apply(args, ro) = A
  <2> DEFINE B == Masks!Apply(args, ro)
  <2> HIDE DEF ro
  <2>1. /\ B \in Seq(Masks!Argument) /\ Len(B) = Len(args)
        /\ \A i \in 1..Len(args) : B[i] = IF Hides(ro, L, args[i]) THEN Blank(args[i]) ELSE args[i]
    BY <1>3, Applied
  <2> HIDE DEF A, B
  <2>2. \A i \in 1..Len(args) : B[i] = A[i] BY <1>1, <1>4, <2>1
  <2>3. B = A BY <1>1, <2>1, <2>2, SeqEqual
  <2>4. QED BY <2>3 DEF B
<1>6. QED BY <1>2, <1>5

-----------------------------------------------------------------------------
(* The check digit. *)

\* A total is the last of the running sums.
LEMMA Running ==
  ASSUME NEW w \in Seq(Nat)
  PROVE  \E t \in [0..Len(w) -> Nat] :
           t[0] = 0 /\ (\A i \in 1..Len(w) : t[i] = t[i - 1] + w[i]) /\ Masks!Total(w) = t[Len(w)]
<1> DEFINE L == Len(w)
           IsSum(f) == f = [i \in 0..L |-> IF i = 0 THEN 0 ELSE f[i - 1] + w[i]]
           t == CHOOSE f : IsSum(f)
           Sums(k, f) == f[0] = 0 /\ \A i \in 1..k : f[i] = f[i - 1] + w[i]
           Has(k) == \E f \in [0..k -> Nat] : Sums(k, f)
           S == {k \in Nat : k <= L => Has(k)}
<1>1. L \in Nat
  OBVIOUS
<1> USE <1>1
<1>2. Masks!Total(w) = t[L]
  BY DEF Masks!Total
<1>3. 0 \in S
  <2>1. [i \in 0..0 |-> 0] \in [0..0 -> Nat] /\ Sums(0, [i \in 0..0 |-> 0]) OBVIOUS
  <2>2. QED BY <2>1
<1>4. ASSUME NEW k \in Nat, k \in S PROVE k + 1 \in S
  <2>1. SUFFICES ASSUME k + 1 <= L PROVE Has(k + 1)
    <3> HIDE DEF Has
    <3>1. QED BY <2>1
  <2>2. PICK f \in [0..k -> Nat] : Sums(k, f) BY <1>4, <2>1, SMTT(30)
  <2> DEFINE g == [i \in 0..(k + 1) |-> IF i <= k THEN f[i] ELSE f[k] + w[k + 1]]
  <2>3. w[k + 1] \in Nat /\ f[k] \in Nat BY <2>1
  <2>4. g \in [0..(k + 1) -> Nat] BY <2>3
  <2>5. g[0] = 0 BY <2>2
  <2>6. ASSUME NEW i \in 1..(k + 1) PROVE g[i] = g[i - 1] + w[i]
    <3>1. CASE i <= k
      <4> USE <3>1
      <4>1. i \in 1..k /\ i - 1 <= k /\ i - 1 \in 0..(k + 1) OBVIOUS
      <4>2. f[i] = f[i - 1] + w[i] BY <2>2, <4>1
      <4>3. g[i] = f[i] /\ g[i - 1] = f[i - 1] BY <4>1
      <4>4. QED BY <4>2, <4>3
    <3>2. CASE ~(i <= k)
      <4>1. i = k + 1 /\ i - 1 = k /\ k \in 0..(k + 1) /\ ~(k + 1 <= k) BY <3>2
      <4>2. g[i] = f[k] + w[k + 1] /\ g[i - 1] = f[k] BY <4>1
      <4>3. QED BY <4>1, <4>2
    <3>3. QED BY <3>1, <3>2
  <2> HIDE DEF g
  <2>7. QED BY <2>4, <2>5, <2>6
<1>5. L \in S
  <2> HIDE DEF S
  <2>1. QED BY <1>3, <1>4, Inductive
<1>6. PICK f \in [0..L -> Nat] : Sums(L, f)
  BY <1>5
<1>7. IsSum(f)
  <2> DEFINE G == [i \in 0..L |-> IF i = 0 THEN 0 ELSE f[i - 1] + w[i]]
  <2>1. ASSUME NEW i \in 0..L PROVE f[i] = G[i]
    <3>1. i = 0 \/ i \in 1..L OBVIOUS
    <3>2. G[i] = IF i = 0 THEN 0 ELSE f[i - 1] + w[i] OBVIOUS
    <3>3. QED BY <1>6, <3>1, <3>2
  <2>2. f = [i \in 0..L |-> f[i]] /\ G = [i \in 0..L |-> G[i]] OBVIOUS
  <2> HIDE DEF G
  <2>3. f = G BY <2>1, <2>2
  <2>4. QED BY <2>3 DEF G
<1>8. IsSum(t)
  BY <1>7
<1> HIDE DEF t
<1>9. /\ t[0] = 0 /\ DOMAIN t = 0..L
      /\ \A i \in 1..L : t[i] = t[i - 1] + w[i]
  <2>1. t = [i \in 0..L |-> IF i = 0 THEN 0 ELSE t[i - 1] + w[i]] BY <1>8
  <2>2. DOMAIN t = 0..L /\ \A i \in 0..L : t[i] = IF i = 0 THEN 0 ELSE t[i - 1] + w[i]
    BY <2>1
  <2>3. 0 \in 0..L /\ \A i \in 1..L : i \in 0..L /\ i # 0 OBVIOUS
  <2>4. QED BY <2>2, <2>3
<1> USE <1>9
<1> DEFINE N == {k \in Nat : k <= L => t[k] \in Nat}
<1>10. Nat \subseteq N
  <2>1. 0 \in N OBVIOUS
  <2>2. ASSUME NEW k \in Nat, k \in N PROVE k + 1 \in N
    <3>1. SUFFICES ASSUME k + 1 <= L PROVE t[k + 1] \in Nat OBVIOUS
    <3>2. k + 1 \in 1..L /\ (k + 1) - 1 = k /\ k <= L BY <3>1
    <3>3. t[k] \in Nat BY <2>2, <3>2
    <3>4. t[k + 1] = t[k] + w[k + 1] /\ w[k + 1] \in Nat BY <3>2
    <3>5. QED BY <3>3, <3>4
  <2> HIDE DEF N
  <2>3. QED BY <2>1, <2>2, Inductive
<1>11. \A k \in 0..L : t[k] \in Nat
  BY <1>10
<1>12. t = [i \in 0..L |-> t[i]]
  BY <1>8
<1>13. t \in [0..L -> Nat]
  BY <1>11, <1>12
<1>14. QED BY <1>2, <1>13

\* It does not matter from which end it is taken.
LEMMA FromEitherEnd ==
  ASSUME NEW v \in Seq(Nat), NEW w \in Seq(Nat), Len(v) = Len(w),
         \A i \in 1..Len(w) : v[i] = w[Len(w) - i + 1]
  PROVE  Masks!Total(v) = Masks!Total(w)
<1> DEFINE L == Len(w)
<1>1. L \in Nat
  OBVIOUS
<1>2. PICK s \in [0..L -> Nat] :
        s[0] = 0 /\ (\A i \in 1..L : s[i] = s[i - 1] + v[i]) /\ Masks!Total(v) = s[L]
  BY Running
<1>3. PICK t \in [0..L -> Nat] :
        t[0] = 0 /\ (\A i \in 1..L : t[i] = t[i - 1] + w[i]) /\ Masks!Total(w) = t[L]
  BY Running
<1> DEFINE S == {k \in Nat : k <= L => s[k] + t[L - k] = t[L]}
<1>4. 0 \in S
  <2>1. t[L] \in Nat /\ L - 0 = L BY <1>1
  <2>2. QED BY <1>2, <2>1
<1>5. ASSUME NEW k \in Nat, k \in S PROVE k + 1 \in S
  <2>1. SUFFICES ASSUME k + 1 <= L PROVE s[k + 1] + t[L - (k + 1)] = t[L] OBVIOUS
  <2> DEFINE m == L - k
  <2>2. /\ k <= L /\ k \in 0..L /\ k + 1 \in 1..L /\ (k + 1) - 1 = k /\ m \in 1..L
        /\ L - (k + 1) = m - 1 /\ L - (k + 1) + 1 = m /\ m - 1 \in 0..L
    BY <1>1, <2>1
  <2>3. s[k] + t[m] = t[L] BY <1>5, <2>2
  <2>4. s[k + 1] = s[k] + w[m] BY <1>2, <2>2
  <2>5. t[m] = t[m - 1] + w[m] BY <1>3, <2>2
  <2>6. s[k] \in Nat /\ t[m - 1] \in Nat /\ w[m] \in Nat
    <3>1. m \in 1..Len(w) /\ m - 1 \in 0..L BY <2>2
    <3> HIDE DEF m
    <3>2. w[m] \in Nat BY <3>1
    <3>3. QED BY <2>2, <3>1, <3>2
  <2> HIDE DEF m
  <2>7. s[k + 1] + t[m - 1] = t[L]
    <3>1. PICK a \in Nat, b \in Nat, c \in Nat : a = s[k] /\ b = t[m - 1] /\ c = w[m] BY <2>6
    <3>2. (a + c) + b = a + (b + c) OBVIOUS
    <3>3. QED BY <2>3, <2>4, <2>5, <3>1, <3>2, Zenon
  <2>8. QED BY <2>2, <2>7
<1>6. L \in S
  <2> HIDE DEF S
  <2>1. \A k \in Nat : k \in S => k + 1 \in S BY <1>5
  <2>2. Nat \subseteq S BY <1>4, <2>1, Inductive
  <2>3. QED BY <1>1, <2>2
<1>7. s[L] + t[0] = t[L]
  BY <1>1, <1>6
<1>8. s[L] \in Nat
  BY <1>1
<1>9. QED BY <1>2, <1>3, <1>7, <1>8

\* Counting the places from the left with the parity of the length is counting
\* them from the right.
LEMMA CheckDigit ==
  ASSUME NEW d \in Seq(0..9)
  PROVE  Masks!LuhnValid(d) <=> Masks!LuhnReference(d)
<1> DEFINE L == Len(d)
           parity == L % 2
           u(i) == IF (i - 1) % 2 = parity THEN Masks!Digit(d, i) ELSE d[i]
           r == Masks!Reverse(d)
           sumOf(x) == (x \div 10) + (x % 10)
           v(i) == IF i % 2 = 0 THEN sumOf(2 * r[i]) ELSE r[i]
           U == [i \in 1..L |-> u(i)]
           V == [i \in 1..L |-> v(i)]
<1>1. Masks!LuhnValid(d) <=> Masks!Total(U) % 10 = 0
  BY DEF Masks!LuhnValid
<1>2. Masks!LuhnReference(d) <=> Masks!Total(V) % 10 = 0
  BY DEF Masks!LuhnReference
<1>3. L \in Nat /\ \A i \in 1..L : L - i + 1 \in 1..L /\ d[i] \in 0..9 /\ r[i] = d[L - i + 1]
  BY DEF Masks!Reverse
<1>4. \A x \in 0..9 : /\ (IF x * 2 > 9 THEN x * 2 - 9 ELSE x * 2) \in Nat
                      /\ sumOf(2 * x) = IF x * 2 > 9 THEN x * 2 - 9 ELSE x * 2
  <2>1. SUFFICES ASSUME NEW x \in 0..9
                 PROVE  /\ (IF x * 2 > 9 THEN x * 2 - 9 ELSE x * 2) \in Nat
                        /\ sumOf(2 * x) = IF x * 2 > 9 THEN x * 2 - 9 ELSE x * 2
    OBVIOUS
  <2>2. CASE x <= 4
    <3>1. (2 * x) \div 10 = 0 /\ (2 * x) % 10 = 2 * x /\ ~(x * 2 > 9) BY <2>2
    <3>2. QED BY <3>1
  <2>3. CASE x > 4
    <3>1. (2 * x) \div 10 = 1 /\ (2 * x) % 10 = 2 * x - 10 /\ x * 2 > 9 BY <2>3
    <3>2. QED BY <3>1
  <2>4. QED BY <2>2, <2>3
<1>5. \A i \in 1..L : Masks!Digit(d, i) = IF d[i] * 2 > 9 THEN d[i] * 2 - 9 ELSE d[i] * 2
  BY DEF Masks!Digit
<1>6. ASSUME NEW i \in 1..L PROVE (i - 1) % 2 = parity <=> (L - i + 1) % 2 = 0
  <2>1. \A n \in Nat : \E q \in Nat : n = 2 * q + (n % 2) /\ n % 2 \in {0, 1}
    <3>1. SUFFICES ASSUME NEW n \in Nat PROVE \E q \in Nat : n = 2 * q + (n % 2) /\ n % 2 \in {0, 1}
      OBVIOUS
    <3>2. n \div 2 \in Nat OBVIOUS
    <3>3. n = 2 * (n \div 2) + (n % 2) OBVIOUS
    <3>4. n % 2 \in {0, 1} OBVIOUS
    <3>5. QED BY <3>2, <3>3, <3>4
  <2>2. i - 1 \in Nat /\ L - i + 1 \in Nat /\ L = (i - 1) + (L - i + 1) BY <1>3
  <2>3. PICK a \in Nat : i - 1 = 2 * a + ((i - 1) % 2) /\ (i - 1) % 2 \in {0, 1} BY <2>1, <2>2
  <2>4. PICK b \in Nat : L = 2 * b + (L % 2) /\ L % 2 \in {0, 1} BY <1>3, <2>1
  <2>5. PICK c \in Nat : L - i + 1 = 2 * c + ((L - i + 1) % 2) /\ (L - i + 1) % 2 \in {0, 1}
    BY <2>1, <2>2
  <2>6. QED BY <2>2, <2>3, <2>4, <2>5
<1> HIDE DEF r, sumOf
<1>7. ASSUME NEW i \in 1..L PROVE u(i) \in Nat /\ v(L - i + 1) = u(i)
  <2>1. L - i + 1 \in 1..L /\ L - (L - i + 1) + 1 = i BY <1>3
  <2>2. d[i] \in 0..9 /\ r[L - i + 1] = d[i] BY <1>3, <2>1
  <2>3. CASE (i - 1) % 2 = parity
    <3>1. u(i) = IF d[i] * 2 > 9 THEN d[i] * 2 - 9 ELSE d[i] * 2 BY <1>5, <2>3
    <3>2. v(L - i + 1) = sumOf(2 * d[i]) BY <1>6, <2>2, <2>3
    <3>3. QED BY <1>4, <2>2, <3>1, <3>2
  <2>4. CASE (i - 1) % 2 # parity
    <3>1. u(i) = d[i] /\ v(L - i + 1) = d[i] BY <1>6, <2>2, <2>4
    <3>2. QED BY <2>2, <3>1
  <2>5. QED BY <2>3, <2>4
<1> HIDE DEF u, v
<1>8. ASSUME NEW i \in 1..L PROVE v(i) = u(L - i + 1) /\ v(i) \in Nat
  <2>1. L - i + 1 \in 1..L /\ L - (L - i + 1) + 1 = i BY <1>3
  <2>2. QED BY <1>7, <2>1
<1>9. /\ U \in Seq(Nat) /\ V \in Seq(Nat) /\ Len(U) = L /\ Len(V) = L
      /\ \A i \in 1..L : V[i] = U[L - i + 1]
  <2>1. U \in Seq(Nat) /\ V \in Seq(Nat) /\ Len(U) = L /\ Len(V) = L BY <1>3, <1>7, <1>8
  <2>2. \A i \in 1..L : V[i] = U[L - i + 1] BY <1>3, <1>8
  <2>3. QED BY <2>1, <2>2
<1> HIDE DEF U, V
<1>10. Masks!Total(V) = Masks!Total(U)
  BY <1>9, FromEitherEnd
<1>11. QED BY <1>1, <1>2, <1>10

LEMMA RedactStart == ASSUME Masks!Init PROVE RedactInv
<1>1. ASSUME NEW args \in Masks!ArgLists, NEW bindable \in BOOLEAN, NEW o \in Masks!Obligations,
             NEW p \in Masks!Obligations, NEW n \in 0..Len(args),
             case = [at |-> "call", args |-> args, positional |-> n, bindable |-> bindable,
                     obligations |-> <<o, p>>, out |-> <<>>]
      PROVE  RedactInv
  <2>1. args \in Seq(Masks!Argument)
    <3> DEFINE last == [name |-> "other", value |-> "card"]
               T == [name : Masks!Names, value : Masks!Kinds]
    <3>1. PICK a \in T : args = <<a>> \/ args = <<a, last>> BY DEF Masks!ArgLists
    <3>2. \A x \in T : x \in Masks!Argument BY DEF Masks!Argument
    <3>3. last \in T BY DEF Masks!Names, Masks!Kinds
    <3> HIDE DEF last, T
    <3>4. a \in Masks!Argument /\ last \in Masks!Argument BY <3>2, <3>3
    <3>5. <<a>> \in Seq(Masks!Argument) BY <3>4
    <3>6. <<a, last>> \in Seq(Masks!Argument) BY <3>4
    <3>7. QED BY <3>1, <3>5, <3>6
  <2>2. <<o, p>> \in Seq(Masks!Obligations) OBVIOUS
  <2>3. QED BY <1>1, <2>1, <2>2 DEF RedactInv
<1>2. ASSUME NEW n \in 1..MaxDigits, NEW d \in [1..n -> 0..9], case = [at |-> "digits", digits |-> d]
      PROVE  RedactInv
  <2>1. d \in Seq(0..9) OBVIOUS
  <2>2. QED BY <1>2, <2>1 DEF RedactInv
<1>3. QED BY <1>1, <1>2 DEF Masks!Init

LEMMA RedactStep == ASSUME RedactInv, [Masks!Next]_redaction PROVE RedactInv'
<1>1. CASE UNCHANGED redaction
  <2>1. case' = case BY <1>1 DEF redaction
  <2>2. QED BY <2>1 DEF RedactInv
<1>2. CASE Masks!Redact
  <2>1. /\ case.at = "call"
        /\ case' = [case EXCEPT !.at = "done",
                      !.out = Masks!ApplyToCall(case.args, case.positional, case.bindable, case.obligations)]
    BY <1>2 DEF Masks!Redact
  <2>2. PICK args \in Seq(Masks!Argument), bindable \in BOOLEAN, os \in Seq(Masks!Obligations) :
          \E n \in 0..Len(args) :
            case = [at |-> "call", args |-> args, positional |-> n, bindable |-> bindable,
                    obligations |-> os, out |-> <<>>]
    BY <2>1 DEF RedactInv
  <2>3. PICK n \in 0..Len(args) :
          case = [at |-> "call", args |-> args, positional |-> n, bindable |-> bindable,
                  obligations |-> os, out |-> <<>>]
    BY <2>2
  <2>4. case' = [at |-> "done", args |-> args, positional |-> n, bindable |-> bindable,
                 obligations |-> os, out |-> Masks!ApplyToCall(args, n, bindable, os)]
    BY <2>1, <2>3
  <2>5. QED BY <2>4 DEF RedactInv
<1>3. QED BY <1>1, <1>2 DEF Masks!Next

LEMMA RedactPromise ==
  ASSUME RedactInv
  PROVE  Masks!PositionAsName /\ Masks!CardsAreCards /\ Masks!TypeOK
<1>1. CASE \E d \in Seq(0..9) : case = [at |-> "digits", digits |-> d]
  <2>1. PICK d \in Seq(0..9) : case = [at |-> "digits", digits |-> d] BY <1>1
  <2>2. case.at = "digits" /\ case.digits = d BY <2>1
  <2>3. Masks!LuhnValid(case.digits) <=> Masks!LuhnReference(case.digits) BY <2>2, CheckDigit
  <2>4. QED BY <2>2, <2>3 DEF Masks!PositionAsName, Masks!CardsAreCards, Masks!TypeOK
<1>2. CASE ~\E d \in Seq(0..9) : case = [at |-> "digits", digits |-> d]
  <2>0. PICK args \in Seq(Masks!Argument), bindable \in BOOLEAN, os \in Seq(Masks!Obligations) :
         \E n \in 0..Len(args) :
         \/ case = [at |-> "call", args |-> args, positional |-> n, bindable |-> bindable,
                    obligations |-> os, out |-> <<>>]
         \/ case = [at |-> "done", args |-> args, positional |-> n, bindable |-> bindable,
                    obligations |-> os, out |-> Masks!ApplyToCall(args, n, bindable, os)]
    BY <1>2 DEF RedactInv
  <2>1. PICK n \in 0..Len(args) :
         \/ case = [at |-> "call", args |-> args, positional |-> n, bindable |-> bindable,
                    obligations |-> os, out |-> <<>>]
         \/ case = [at |-> "done", args |-> args, positional |-> n, bindable |-> bindable,
                    obligations |-> os, out |-> Masks!ApplyToCall(args, n, bindable, os)]
    BY <2>0
  <2>2. /\ case.at \in {"call", "done"} /\ case.args = args /\ case.positional = n
        /\ case.bindable = bindable /\ case.obligations = os
        /\ case.at = "done" => case.out = Masks!ApplyToCall(args, n, bindable, os)
    BY <2>1
  <2> USE <2>2
  <2>3. Masks!TypeOK /\ Masks!CardsAreCards
    BY DEF Masks!TypeOK, Masks!CardsAreCards
  <2>4. Masks!PositionAsName
    <3> SUFFICES ASSUME case.at = "done", bindable = TRUE
                 PROVE  /\ case.out = Masks!Apply(args, os)
                        /\ case.out = Masks!Apply(case.out, os)
                        /\ case.out = Masks!Apply(args, Masks!Reverse(os))
      BY DEF Masks!PositionAsName
    <3>1. case.out = Masks!Apply(args, os) BY Positional
    <3>2. QED BY <3>1, AgainTheSame
  <2>5. QED BY <2>3, <2>4
<1>3. QED BY <1>1, <1>2

-----------------------------------------------------------------------------
(* Hints: the hook leaves a marked body alone, so a request that passes it *)
(* again is as it was.                                                     *)
HintsInv ==
  /\ original \in Hints!Bodies /\ hook \in Hints!Hooks /\ sent \in 0..2
  /\ IF sent = 0 THEN request = original ELSE request = Hints!Hook(original)

\* The last part of a block list that the hook may mark.
Hinted(s) == CASE s = <<"bare">> -> <<"sdk">> [] s = <<"text">> -> <<"sdk">>
               [] s = <<"caller", "bare">> -> <<"caller", "sdk">> [] OTHER -> s

BlockLists == Hints!Blocks \cup {<<"text">>}

LEMMA Marking ==
  ASSUME NEW s \in BlockLists
  PROVE  Hints!MarkedLast(s) = Hinted(s)
<1>1. CASE s = <<>> BY <1>1 DEF Hints!MarkedLast, Hinted
<1>2. CASE s = <<"bare">>
  <2> USE <1>2
  <2>1. s # <<>> /\ Len(s) = 1 /\ s[1] = "bare" OBVIOUS
  <2>2. [s EXCEPT ![1] = "sdk"] = <<"sdk">> OBVIOUS
  <2>3. QED BY <2>1, <2>2 DEF Hints!MarkedLast, Hinted
<1>3. CASE s = <<"text">>
  <2> USE <1>3
  <2>1. s # <<>> /\ Len(s) = 1 /\ s[1] = "text" OBVIOUS
  <2>2. [s EXCEPT ![1] = "sdk"] = <<"sdk">> OBVIOUS
  <2>3. s # <<"bare">> OBVIOUS
  <2>4. QED BY <2>1, <2>2, <2>3 DEF Hints!MarkedLast, Hinted
<1>4. CASE s = <<"caller", "bare">>
  <2> USE <1>4
  <2>1. s # <<>> /\ Len(s) = 2 /\ s[2] = "bare" OBVIOUS
  <2>2. [s EXCEPT ![2] = "sdk"] = <<"caller", "sdk">> OBVIOUS
  <2>3. s # <<"bare">> /\ s # <<"text">> OBVIOUS
  <2>4. QED BY <2>1, <2>2, <2>3 DEF Hints!MarkedLast, Hinted
<1>5. CASE s = <<"caller">>
  <2> USE <1>5
  <2>1. Len(s) = 1 /\ s[1] = "caller" OBVIOUS
  <2>2. s # <<"bare">> /\ s # <<"text">> /\ s # <<"caller", "bare">> OBVIOUS
  <2>3. QED BY <2>1, <2>2 DEF Hints!MarkedLast, Hinted
<1>6. CASE s = <<"bare", "other">>
  <2> USE <1>6
  <2>1. Len(s) = 2 /\ s[2] = "other" OBVIOUS
  <2>2. s # <<"bare">> /\ s # <<"text">> /\ s # <<"caller", "bare">> OBVIOUS
  <2>3. QED BY <2>1, <2>2 DEF Hints!MarkedLast, Hinted
<1>7. QED BY <1>1, <1>2, <1>3, <1>4, <1>5, <1>6 DEF BlockLists, Hints!Blocks

LEMMA OnlyLast ==
  ASSUME NEW s \in BlockLists
  PROVE  /\ Hinted(s) = s \/ Hints!Has(Hinted(s), "sdk")
         /\ \E m : {n \in 1..Len(s) : s[n] \in {"caller", "sdk"}} \subseteq {m}
         /\ ~Hints!Has(s, "caller") =>
              \E m : {n \in 1..Len(Hinted(s)) : Hinted(s)[n] \in {"caller", "sdk"}} \subseteq {m}
<1> DEFINE M(t) == {n \in 1..Len(t) : t[n] \in {"caller", "sdk"}}
<1>1. \/ s = <<>> \/ s = <<"bare">> \/ s = <<"caller">> \/ s = <<"bare", "other">>
      \/ s = <<"caller", "bare">> \/ s = <<"text">>
  BY DEF BlockLists, Hints!Blocks
<1>2. CASE s \in {<<>>, <<"caller">>, <<"bare", "other">>}
  <2> USE <1>2
  <2>1. Hinted(s) = s
    <3>1. s # <<"bare">> /\ s # <<"text">> /\ s # <<"caller", "bare">> OBVIOUS
    <3>2. QED BY <3>1 DEF Hinted
  <2>2. M(s) \subseteq {1}
    <3>1. CASE s = <<>> BY <3>1
    <3>2. CASE s = <<"caller">> BY <3>2
    <3>3. CASE s = <<"bare", "other">> BY <3>3
    <3>4. QED BY <3>1, <3>2, <3>3
  <2>3. QED BY <2>1, <2>2
<1>3. CASE s \in {<<"bare">>, <<"text">>}
  <2> USE <1>3
  <2>1. Hinted(s) = <<"sdk">> BY DEF Hinted
  <2>2. Hints!Has(<<"sdk">>, "sdk")
    <3>1. 1 \in 1..Len(<<"sdk">>) /\ <<"sdk">>[1] = "sdk" OBVIOUS
    <3>2. QED BY <3>1 DEF Hints!Has
  <2>3. M(<<"sdk">>) \subseteq {1} OBVIOUS
  <2>4. M(s) \subseteq {1} OBVIOUS
  <2>5. QED BY <2>1, <2>2, <2>3, <2>4
<1>4. CASE s = <<"caller", "bare">>
  <2> USE <1>4
  <2>1. Hinted(s) = <<"caller", "sdk">>
    <3>1. s # <<"bare">> /\ s # <<"text">> OBVIOUS
    <3>2. QED BY <3>1 DEF Hinted
  <2>2. Hints!Has(<<"caller", "sdk">>, "sdk")
    <3>1. 2 \in 1..Len(<<"caller", "sdk">>) /\ <<"caller", "sdk">>[2] = "sdk" OBVIOUS
    <3>2. QED BY <3>1 DEF Hints!Has
  <2>3. M(s) \subseteq {1} OBVIOUS
  <2>4. Hints!Has(s, "caller")
    <3>1. 1 \in 1..Len(s) /\ s[1] = "caller" OBVIOUS
    <3>2. QED BY <3>1 DEF Hints!Has
  <2>5. QED BY <2>1, <2>2, <2>3, <2>4
<1>5. QED BY <1>1, <1>2, <1>3, <1>4

\* The body the hook makes of one.
LEMMA HookMakes ==
  ASSUME NEW b \in Hints!Bodies, hook \in Hints!Hooks
  PROVE  \/ Hints!Hook(b) = b
         \/ /\ hook.provider = "openai" /\ b.model # "elsewhere" /\ b.key = "none"
            /\ Hints!Hook(b) = [b EXCEPT !.key = "sdk"]
         \/ /\ hook.provider = "anthropic" /\ ~Hints!Managed(b) /\ b.json
            /\ \E s \in {b.system, Hinted(b.system)}, t \in {b.tools, Hinted(b.tools)},
                  u \in {b.user, Hinted(b.user)} :
                 Hints!Hook(b) = [b EXCEPT !.system = s, !.tools = t, !.user = u]
<1>1. /\ b.system \in BlockLists /\ b.tools \in BlockLists /\ b.user \in BlockLists
      /\ b.key \in {"none", "caller"} /\ hook.provider \in {"anthropic", "openai", "mistral"}
  BY DEF Hints!Bodies, Hints!Hooks, BlockLists, Hints!Blocks
<1> USE <1>1
<1>2. CASE ~b.json BY <1>2 DEF Hints!Hook
<1>3. CASE b.json /\ hook.provider = "openai"
  <2> USE <1>3
  <2>1. Hints!Hook(b) = Hints!OpenAI(b) BY DEF Hints!Hook
  <2>2. QED BY <2>1 DEF Hints!OpenAI
<1>4. CASE b.json /\ hook.provider = "anthropic"
  <2> USE <1>4
  <2>1. CASE Hints!Managed(b) BY <2>1 DEF Hints!Hook
  <2>2. CASE ~Hints!Managed(b)
    <3> USE <2>2
    <3> DEFINE hinted(p, s) == IF p \in hook.breakpoints THEN Hints!MarkedLast(s) ELSE s
    <3>1. Hints!Hook(b) = Hints!Anthropic(b) BY DEF Hints!Hook
    <3>2. Hints!Anthropic(b) = [b EXCEPT !.system = hinted("system", b.system),
                                         !.tools = hinted("tools", b.tools),
                                         !.user = hinted("large_blocks", b.user)]
      BY DEF Hints!Anthropic, Hints!Bodies
    <3>3. /\ hinted("system", b.system) \in {b.system, Hinted(b.system)}
          /\ hinted("tools", b.tools) \in {b.tools, Hinted(b.tools)}
          /\ hinted("large_blocks", b.user) \in {b.user, Hinted(b.user)}
      BY Marking
    <3> HIDE DEF hinted
    <3>4. QED BY <3>1, <3>2, <3>3
  <2>3. QED BY <2>1, <2>2
<1>5. CASE b.json /\ hook.provider = "mistral" BY <1>5 DEF Hints!Hook
<1>6. QED BY <1>2, <1>3, <1>4, <1>5

\* A body that passed the hook passes it as it is.
LEMMA HookTwice ==
  ASSUME NEW b \in Hints!Bodies, hook \in Hints!Hooks
  PROVE  Hints!Hook(Hints!Hook(b)) = Hints!Hook(b)
<1> DEFINE c == Hints!Hook(b)
<1>1. CASE c = b BY <1>1
<1>2. CASE hook.provider = "openai" /\ c = [b EXCEPT !.key = "sdk"]
  <2> USE <1>2
  <2>1. c.key = "sdk" BY DEF Hints!Bodies
  <2> HIDE DEF c
  <2>2. Hints!OpenAI(c) = c BY <2>1 DEF Hints!OpenAI
  <2>3. Hints!Hook(c) = c BY <2>2 DEF Hints!Hook
  <2>4. QED BY <2>3 DEF c
<1>3. ASSUME hook.provider = "anthropic", ~Hints!Managed(b), b.json,
             NEW s \in {b.system, Hinted(b.system)}, NEW t \in {b.tools, Hinted(b.tools)},
             NEW u \in {b.user, Hinted(b.user)},
             c = [b EXCEPT !.system = s, !.tools = t, !.user = u]
      PROVE  Hints!Hook(c) = c
  <2> USE <1>3
  <2>1. c.system = s /\ c.tools = t /\ c.user = u
    BY DEF Hints!Bodies
  <2>2. b.system \in BlockLists /\ b.tools \in BlockLists /\ b.user \in BlockLists
    BY DEF Hints!Bodies, BlockLists, Hints!Blocks
  <2>3. /\ s = b.system \/ Hints!Has(s, "sdk")
        /\ t = b.tools \/ Hints!Has(t, "sdk")
        /\ u = b.user \/ Hints!Has(u, "sdk")
    BY <2>2, OnlyLast
  <2> HIDE DEF c
  <2>4. CASE Hints!Managed(c) BY <2>4 DEF Hints!Hook
  <2>5. CASE ~Hints!Managed(c)
    <3>1. s = b.system /\ t = b.tools /\ u = b.user
      BY <2>1, <2>3, <2>5 DEF Hints!Managed
    <3>2. c = b BY <3>1 DEF Hints!Bodies
    <3>3. QED BY <3>2 DEF c
  <2>6. QED BY <2>4, <2>5
<1>4. QED BY <1>1, <1>2, <1>3, HookMakes

LEMMA HintsStart == ASSUME Hints!Init PROVE HintsInv
BY DEF Hints!Init, HintsInv

LEMMA HintsStep ==
  ASSUME HintsInv, [Hints!Next]_hints
  PROVE  HintsInv'
<1>1. CASE Hints!Next
  <2>1. /\ sent < 2 /\ sent' = sent + 1 /\ request' = Hints!Hook(request)
        /\ original' = original /\ hook' = hook
    BY <1>1 DEF Hints!Next, Hints!Send
  <2> USE <2>1
  <2>2. request' = Hints!Hook(original)
    BY HookTwice DEF HintsInv
  <2>3. \A b : Hints!Hook(b)' = Hints!Hook(b)
    BY DEF Hints!Hook, Hints!Anthropic
  <2>4. request' = Hints!Hook(original)'
    BY <2>2, <2>3
  <2>5. sent' \in 0..2 /\ sent' # 0
    BY DEF HintsInv
  <2>6. QED BY <2>4, <2>5 DEF HintsInv
<1>2. CASE UNCHANGED hints
  <2>1. request' = request /\ original' = original /\ hook' = hook /\ sent' = sent
    BY <1>2 DEF hints
  <2>2. Hints!Hook(original)' = Hints!Hook(original)
    BY <2>1 DEF Hints!Hook, Hints!Anthropic
  <2>3. QED BY <2>1, <2>2 DEF HintsInv
<1>3. QED BY <1>1, <1>2

LEMMA AtMostOne ==
  ASSUME NEW S, NEW m, S \subseteq {m}
  PROVE  Hints!Cardinality(S) \in {0, 1}
<1>1. Hints!Cardinality(S) = Cardinality(S)
  BY DEF Hints!Cardinality, Cardinality
<1>2. S = {} \/ S = {m}
  OBVIOUS
<1>3. QED BY <1>1, <1>2, FS_EmptySet, FS_Singleton

LEMMA HintsPromise == ASSUME HintsInv PROVE Hints!HintsAreSafe /\ Hints!TypeOK
<1> DEFINE b == original
           M(s) == {n \in 1..Len(s) : s[n] \in {"caller", "sdk"}}
<1>1. b \in Hints!Bodies /\ hook \in Hints!Hooks /\ (request = b \/ request = Hints!Hook(b))
  BY DEF HintsInv
<1> USE <1>1
<1>2. /\ b.system \in BlockLists /\ b.tools \in BlockLists /\ b.user \in BlockLists
      /\ b.key \in {"none", "caller"}
  BY DEF Hints!Bodies, BlockLists, Hints!Blocks
<1> USE <1>2
<1>3. ASSUME hook.provider = "anthropic", Hints!CallerMarked(b) PROVE request = b
  <2> USE <1>3
  <2>1. Hints!Managed(b) BY DEF Hints!CallerMarked, Hints!Managed, Hints!Has
  <2>2. Hints!Hook(b) = b BY <2>1, SMTT(30) DEF Hints!Hook
  <2>3. QED BY <2>2
<1>4. /\ \E m : M(request.system) \subseteq {m}
      /\ \E m : M(request.tools) \subseteq {m}
      /\ \E m : M(request.user) \subseteq {m}
      /\ request.json = b.json /\ request.key \in {"none", "caller", "sdk"}
      /\ request.key = "sdk" => hook.provider = "openai" /\ request.model # "elsewhere"
  <2>1. CASE request = b
    BY <2>1, OnlyLast
  <2>2. CASE /\ hook.provider = "openai" /\ b.model # "elsewhere"
             /\ request = [b EXCEPT !.key = "sdk"]
    <3> USE <2>2
    <3>1. /\ request.system = b.system /\ request.tools = b.tools /\ request.user = b.user
          /\ request.key = "sdk" /\ request.json = b.json /\ request.model = b.model
      BY DEF Hints!Bodies
    <3>2. QED BY <3>1, OnlyLast
  <2>3. ASSUME ~Hints!Managed(b), NEW s \in {b.system, Hinted(b.system)},
               NEW t \in {b.tools, Hinted(b.tools)}, NEW u \in {b.user, Hinted(b.user)},
               request = [b EXCEPT !.system = s, !.tools = t, !.user = u]
        PROVE  /\ \E m : M(request.system) \subseteq {m}
               /\ \E m : M(request.tools) \subseteq {m}
               /\ \E m : M(request.user) \subseteq {m}
               /\ request.json = b.json /\ request.key = b.key
    <3> USE <2>3
    <3>1. /\ request.system = s /\ request.tools = t /\ request.user = u
          /\ request.key = b.key /\ request.json = b.json
      BY DEF Hints!Bodies
    <3>2. ~Hints!Has(b.system, "caller") /\ ~Hints!Has(b.tools, "caller") /\ ~Hints!Has(b.user, "caller")
      BY DEF Hints!Managed
    <3> USE <3>2
    <3>3. \E m : M(s) \subseteq {m} BY OnlyLast
    <3>4. \E m : M(t) \subseteq {m} BY OnlyLast
    <3>5. \E m : M(u) \subseteq {m} BY OnlyLast
    <3> HIDE DEF M
    <3>6. QED BY <3>1, <3>3, <3>4, <3>5
  <2>4. QED BY <2>1, <2>2, <2>3, HookMakes, Zenon
<1>5. Hints!Count(request) <= 4
  <2> DEFINE C(s) == Hints!Cardinality(M(s))
  <2>1. C(request.system) \in {0, 1} /\ C(request.tools) \in {0, 1} /\ C(request.user) \in {0, 1}
    BY <1>4, AtMostOne
  <2>2. Hints!Count(request) =
          C(request.system) + C(request.tools) + C(request.user) + (IF request.top = "caller" THEN 1 ELSE 0)
    BY DEF Hints!Count
  <2> HIDE DEF C
  <2>3. QED BY <2>1, <2>2
<1>6. sent > 0 => Hints!Hook(request) = request
  BY HookTwice DEF HintsInv
<1>7. QED
  BY <1>3, <1>4, <1>5, <1>6 DEF Hints!HintsAreSafe, Hints!TypeOK, HintsInv

-----------------------------------------------------------------------------
(* Types: what the invariants above leave open, part by part.              *)

\* A counter below its bound, and a time so much later.
LEMMA UpTo == ASSUME NEW m \in Nat, NEW n \in 0..m, n < m PROVE n + 1 \in 0..m
OBVIOUS
LEMMA Raised == ASSUME NEW m \in Nat, NEW n \in 1..m, n < m PROVE n + 1 \in 1..m
OBVIOUS
LEMMA Later == ASSUME NEW m \in Nat, NEW k \in Nat, NEW n \in 0..m PROVE n + k \in 0..(m + k)
OBVIOUS

\* The tokens: no time is later than a lifetime after the last tick.
TokenBounds ==
  /\ source \in Tokens!Sources /\ holder \in Actors \cup {Off}
  /\ trip \in {"none", "begin", "t1", "t2"} /\ host \in Tokens!Hosts
  /\ clock <= MaxClock /\ token <= MaxClock + 2 /\ refreshAt <= MaxClock + 2
  /\ \A t \in Actors : caller[t].looked <= MaxClock /\ caller[t].got <= MaxClock + 2

LEMMA TokenWhole == ASSUME TokenTypes, TokenBounds PROVE Tokens!TypeOK
<1>1. MaxClock \in Nat BY BoundsAssumption
<1>2. clock \in 1..MaxClock /\ token \in 0..(MaxClock + 2) /\ refreshAt \in 0..(MaxClock + 2)
  BY <1>1 DEF TokenTypes, TokenBounds
<1>3. caller \in [Actors -> CallerRecords] /\ \A t \in Actors : caller[t] \in CallerRecords
  BY DEF TokenTypes
<1>4. \A t \in Actors : caller[t].looked \in 0..MaxClock /\ caller[t].got \in 0..(MaxClock + 2)
  <2>1. \A t \in Actors : caller[t].looked \in Nat /\ caller[t].got \in Nat BY <1>3 DEF CallerRecords
  <2>2. QED BY <1>1, <2>1 DEF TokenBounds
<1>5. caller \in [Actors -> [at : CallerStates, looked : 0..MaxClock, got : 0..(MaxClock + 2)]]
  BY <1>3, <1>4 DEF CallerRecords
<1>6. QED BY <1>2, <1>5 DEF TokenBounds, Tokens!TypeOK, CallerStates

LEMMA TokenBoundsStart == ASSUME Tokens!Init PROVE TokenBounds
<1>1. MaxClock \in Nat \ {0} BY BoundsAssumption
<1>2. /\ source \in Tokens!Sources /\ clock = 1 /\ token = 0 /\ refreshAt = 0 /\ holder = Off
      /\ trip = "none" /\ host \in Tokens!Hosts
      /\ \A t \in Actors : caller[t].looked = 0 /\ caller[t].got = 0
  BY DEF Tokens!Init, Tokens!Idle
<1>3. QED BY <1>1, <1>2 DEF TokenBounds

\* What the environment of the host identity becomes.
LEMMA HostKeeps ==
  ASSUME NEW h \in Tokens!Hosts, NEW c \in {"", "missing", "failed"}, NEW until \in 0..Tokens!Forever,
         NEW chain \in BOOLEAN, NEW probe \in {"untried", "yes", "no"}
  PROVE  /\ Tokens!Memoise(h, c, until) \in Tokens!Hosts
         /\ [h EXCEPT !.chain = chain] \in Tokens!Hosts
         /\ [h EXCEPT !.probe = probe] \in Tokens!Hosts
         /\ h.chain \in BOOLEAN
BY DEF Tokens!Memoise, Tokens!Hosts

LEMMA HostStep ==
  ASSUME TokenTypes, TokenBounds, NEW t \in Actors, Tokens!Host(t)
  PROVE  /\ host' \in Tokens!Hosts
         /\ Tokens!Fail(t) \/ (trip' = "t1" /\ UNCHANGED <<caller, holder>>)
<1>0. MaxClock \in Nat /\ HostRest \in Nat /\ clock \in Nat /\ clock <= MaxClock /\ host \in Tokens!Hosts
  BY BoundsAssumption DEF TokenTypes, TokenBounds
<1> USE <1>0
<1>1. 0 \in 0..Tokens!Forever /\ Tokens!Forever \in 0..Tokens!Forever
      /\ clock + HostRest \in 0..Tokens!Forever
  BY DEF Tokens!Forever
<1> USE <1>1
<1>2. Tokens!Settled \in Tokens!Hosts
  <2>1. CASE Tokens!Resting BY <2>1 DEF Tokens!Settled
  <2>2. CASE ~Tokens!Resting
    <3>1. Tokens!Settled = Tokens!Memoise(host, "", 0)
      BY <2>2 DEF Tokens!Settled, Tokens!Memoise
    <3>2. QED BY <3>1, HostKeeps
  <2>3. QED BY <2>1, <2>2
<1>3. \A h \in Tokens!Probed(Tokens!Settled) \cup {Tokens!Settled} : h \in Tokens!Hosts
  BY <1>2, HostKeeps DEF Tokens!Probed
<1>4. CASE host.override
  BY <1>4 DEF Tokens!Host, Tokens!Advance
<1>5. CASE ~host.override /\ Tokens!Resting
  BY <1>5 DEF Tokens!Host
<1>6. CASE ~host.override /\ ~Tokens!Resting
  <2>1. PICK h \in Tokens!Probed(Tokens!Settled) \cup {Tokens!Settled} :
          \/ host' = Tokens!Memoise(h, "missing", Tokens!Forever) /\ Tokens!Fail(t)
          \/ host' = h /\ Tokens!Fail(t)
          \/ \E built \in {h.chain, TRUE} :
               /\ host' = Tokens!Memoise([h EXCEPT !.chain = built], "failed", clock + HostRest)
               /\ Tokens!Fail(t)
          \/ host' = [h EXCEPT !.chain = TRUE] /\ Tokens!Advance("t1") /\ UNCHANGED <<caller, holder>>
    <3> DEFINE S == IF host.chain THEN {Tokens!Settled} ELSE Tokens!Probed(Tokens!Settled)
    <3>1. S \subseteq Tokens!Probed(Tokens!Settled) \cup {Tokens!Settled} OBVIOUS
    <3>2. \E h \in S :
            \/ host' = Tokens!Memoise(h, "missing", Tokens!Forever) /\ Tokens!Fail(t)
            \/ host' = h /\ Tokens!Fail(t)
            \/ \E built \in {h.chain, TRUE} :
                 /\ host' = Tokens!Memoise([h EXCEPT !.chain = built], "failed", clock + HostRest)
                 /\ Tokens!Fail(t)
            \/ host' = [h EXCEPT !.chain = TRUE] /\ Tokens!Advance("t1") /\ UNCHANGED <<caller, holder>>
      BY <1>6 DEF Tokens!Host
    <3> HIDE DEF S
    <3>3. QED BY <3>1, <3>2
  <2>2. h \in Tokens!Hosts BY <1>3
  <2> USE <2>2
  <2>3. CASE host' = Tokens!Memoise(h, "missing", Tokens!Forever) /\ Tokens!Fail(t)
    BY <2>3, HostKeeps
  <2>4. CASE host' = h /\ Tokens!Fail(t) BY <2>4
  <2>5. ASSUME NEW built \in {h.chain, TRUE}, Tokens!Fail(t),
               host' = Tokens!Memoise([h EXCEPT !.chain = built], "failed", clock + HostRest)
        PROVE  host' \in Tokens!Hosts
    <3>1. built \in BOOLEAN BY HostKeeps
    <3>2. PICK g : g = [h EXCEPT !.chain = built] OBVIOUS
    <3>3. g \in Tokens!Hosts BY <3>1, <3>2, HostKeeps
    <3>4. QED BY <2>5, <3>2, <3>3, HostKeeps
  <2>6. CASE host' = [h EXCEPT !.chain = TRUE] /\ Tokens!Advance("t1") /\ UNCHANGED <<caller, holder>>
    <3> USE <2>6
    <3>1. host' \in Tokens!Hosts BY HostKeeps
    <3>2. QED BY <3>1 DEF Tokens!Advance
  <2>7. QED BY <2>1, <2>3, <2>4, <2>5, <2>6
<1>7. QED BY <1>4, <1>5, <1>6

LEMMA TokenBoundsStep ==
  ASSUME TokenTypes, TokenBounds, [Tokens!Next]_tokens PROVE TokenBounds'
<1> USE DEF Tokens!At, Tokens!exchange
<1>0. /\ MaxClock \in Nat /\ clock \in Nat /\ clock <= MaxClock
      /\ token \in Nat /\ token <= MaxClock + 2 /\ refreshAt \in Nat /\ refreshAt <= MaxClock + 2
      /\ source \in Tokens!Sources /\ holder \in Actors \cup {Off} /\ host \in Tokens!Hosts
      /\ trip \in {"none", "begin", "t1", "t2"}
      /\ \A t \in Actors : /\ caller[t].looked <= MaxClock /\ caller[t].got <= MaxClock + 2
                           /\ caller[t] \in CallerRecords
      /\ caller \in [Actors -> CallerRecords]
  BY BoundsAssumption DEF TokenTypes, TokenBounds
\* A caller moves, with what it has looked at and got.
<1> USE <1>0
<1>1. ASSUME NEW t \in Actors, NEW l, NEW g, l <= MaxClock, g <= MaxClock + 2,
             caller'[t].looked = l, caller'[t].got = g,
             \A u \in Actors \ {t} : caller'[u] = caller[u],
             UNCHANGED <<source, clock>>,
             token' \in {token, caller[t].got}, refreshAt' \in {refreshAt, caller[t].got},
             holder' \in Actors \cup {Off}, trip' \in {"none", "begin", "t1", "t2"}, host' \in Tokens!Hosts
      PROVE  TokenBounds'
  <2> USE <1>1
  <2>1. token' <= MaxClock + 2 /\ refreshAt' <= MaxClock + 2 OBVIOUS
  <2>2. \A u \in Actors : caller'[u].looked <= MaxClock /\ caller'[u].got <= MaxClock + 2
    OBVIOUS
  <2>3. QED BY <2>1, <2>2 DEF TokenBounds
<1>2. ASSUME NEW t \in Actors, NEW a \in CallerStates, Tokens!Goto(t, a),
             UNCHANGED <<source, clock>>,
             token' \in {token, caller[t].got}, refreshAt' \in {refreshAt, caller[t].got},
             holder' \in Actors \cup {Off}, trip' \in {"none", "begin", "t1", "t2"}, host' \in Tokens!Hosts
      PROVE  TokenBounds'
  <2> USE <1>2
  <2>1. /\ caller'[t].looked = caller[t].looked /\ caller'[t].got = caller[t].got
        /\ \A u \in Actors \ {t} : caller'[u] = caller[u]
    BY CallerGoes
  <2>2. QED BY <1>1, <2>1 \* The same callers and times, another stage of the exchange.
<1>3. ASSUME UNCHANGED <<source, clock, token, refreshAt, caller, holder>>,
             trip' \in {"none", "begin", "t1", "t2"}, host' \in Tokens!Hosts
      PROVE  TokenBounds'
  BY <1>3 DEF TokenBounds
<1>4. ASSUME NEW t \in Actors, Tokens!GetToken(t) PROVE TokenBounds'
  <2> DEFINE c == [Tokens!Idle EXCEPT !.at = "look"]
  <2>1. caller' = [caller EXCEPT ![t] = c]
        /\ UNCHANGED <<source, clock, token, refreshAt, holder, trip, host>>
    BY <1>4 DEF Tokens!GetToken
  <2> USE <2>1
  <2>2. c.looked = 0 /\ c.got = 0 BY DEF Tokens!Idle
  <2> HIDE DEF c
  <2>3. caller'[t] = c /\ \A u \in Actors \ {t} : caller'[u] = caller[u] OBVIOUS
  <2>4. caller'[t].looked = 0 /\ caller'[t].got = 0 /\ 0 <= MaxClock /\ 0 <= MaxClock + 2
    BY <2>2, <2>3
  <2>5. /\ token' \in {token, caller[t].got} /\ refreshAt' \in {refreshAt, caller[t].got}
        /\ holder' \in Actors \cup {Off} /\ trip' \in {"none", "begin", "t1", "t2"} /\ host' \in Tokens!Hosts
    OBVIOUS
  <2>6. QED BY <1>1, <2>3, <2>4, <2>5
<1>5. ASSUME NEW t \in Actors, Tokens!Look(t) PROVE TokenBounds'
  <2> USE <1>5
  <2>1. PICK a \in {"return", "lock"} : caller' = [caller EXCEPT ![t].at = a, ![t].looked = clock]
    BY DEF Tokens!Look
  <2>2. UNCHANGED <<source, clock, token, refreshAt, holder, trip, host>> BY DEF Tokens!Look
  <2>3. /\ caller'[t].looked = clock /\ caller'[t].got = caller[t].got
        /\ \A u \in Actors \ {t} : caller'[u] = caller[u]
    BY <2>1 DEF CallerRecords
  <2>4. /\ token' \in {token, caller[t].got} /\ refreshAt' \in {refreshAt, caller[t].got}
        /\ holder' \in Actors \cup {Off} /\ trip' \in {"none", "begin", "t1", "t2"} /\ host' \in Tokens!Hosts
    BY <2>2
  <2>5. QED BY <1>1, <2>2, <2>3, <2>4
<1>6. ASSUME NEW t \in Actors, Tokens!Return(t) PROVE TokenBounds'
  <2> USE <1>6
  <2>1. caller' = [caller EXCEPT ![t].at = "done", ![t].got = token] BY DEF Tokens!Return
  <2>2. UNCHANGED <<source, clock, token, refreshAt, holder, trip, host>> BY DEF Tokens!Return
  <2>3. /\ caller'[t].looked = caller[t].looked /\ caller'[t].got = token
        /\ \A u \in Actors \ {t} : caller'[u] = caller[u]
    BY <2>1 DEF CallerRecords
  <2>4. /\ token' \in {token, caller[t].got} /\ refreshAt' \in {refreshAt, caller[t].got}
        /\ holder' \in Actors \cup {Off} /\ trip' \in {"none", "begin", "t1", "t2"} /\ host' \in Tokens!Hosts
    BY <2>2
  <2>5. QED BY <1>1, <2>2, <2>3, <2>4
<1>7. ASSUME NEW t \in Actors, Tokens!Lock(t) PROVE TokenBounds'
  <2> USE <1>7
  <2>1. UNCHANGED <<source, clock, token, refreshAt, host>> BY DEF Tokens!Lock
  <2>2. CASE Tokens!Fresh
    <3>1. caller' = [caller EXCEPT ![t] = [at |-> "done", looked |-> clock, got |-> token]]
          /\ UNCHANGED <<holder, trip>>
      BY <2>2 DEF Tokens!Lock
    <3>2. /\ caller'[t].looked = clock /\ caller'[t].got = token
          /\ \A u \in Actors \ {t} : caller'[u] = caller[u]
      BY <3>1
    <3>3. QED BY <1>1, <2>1, <3>1, <3>2
  <2>3. CASE ~Tokens!Fresh
    <3>1. holder' = t /\ trip' = "begin" /\ Tokens!Goto(t, "trip") BY <2>3 DEF Tokens!Lock
    <3>2. QED BY <1>2, <2>1, <3>1 DEF CallerStates
  <2>4. QED BY <2>2, <2>3
<1>8. ASSUME NEW t \in Actors, Tokens!Keep(t) PROVE TokenBounds'
  BY <1>2, <1>8 DEF Tokens!Keep, CallerStates
<1>9. ASSUME NEW t \in Actors, Tokens!KeepTime(t) PROVE TokenBounds'
  BY <1>2, <1>9 DEF Tokens!KeepTime, CallerStates
<1>10. ASSUME NEW t \in Actors, UNCHANGED <<source, clock, token, refreshAt>>, host' \in Tokens!Hosts,
              \/ Tokens!Receive(t)
              \/ Tokens!Fail(t)
              \/ trip' \in {"t1", "t2"} /\ UNCHANGED <<caller, holder>>
       PROVE  TokenBounds'
  <2> USE <1>10
  <2>1. CASE Tokens!Receive(t)
    <3> USE <2>1
    <3>1. PICK ttl \in 0..2 :
            caller' = [caller EXCEPT ![t].at = "keep", ![t].looked = clock, ![t].got = clock + ttl]
      BY DEF Tokens!Receive
    <3>2. /\ caller'[t].looked = clock /\ caller'[t].got = clock + ttl
          /\ \A u \in Actors \ {t} : caller'[u] = caller[u]
      BY <3>1, CallerReceives
    <3>3. clock + ttl <= MaxClock + 2 OBVIOUS
    <3>4. trip' = "none" /\ holder' = holder BY DEF Tokens!Receive
    <3>5. QED BY <1>1, <3>2, <3>3, <3>4
  <2>2. CASE Tokens!Fail(t)
    BY <1>2, <2>2 DEF Tokens!Fail, CallerStates
  <2>3. CASE trip' \in {"t1", "t2"} /\ UNCHANGED <<caller, holder>>
    BY <1>3, <2>3
  <2>4. QED BY <2>1, <2>2, <2>3
<1>11. ASSUME NEW t \in Actors, Tokens!Zeroid(t) \/ Tokens!Issuer(t) PROVE TokenBounds'
  <2>1. UNCHANGED <<source, clock, token, refreshAt, host>> /\ (Tokens!Receive(t) \/ Tokens!Fail(t))
    BY <1>11 DEF Tokens!Zeroid, Tokens!Issuer
  <2>2. host' \in Tokens!Hosts BY <2>1
  <2>3. QED BY <1>10, <2>1, <2>2
<1>12. ASSUME NEW t \in Actors, Tokens!Host(t) PROVE TokenBounds'
  <2> USE <1>12
  <2>1. UNCHANGED <<source, clock, token, refreshAt>> BY DEF Tokens!Host
  <2>2. host' \in Tokens!Hosts
        /\ (Tokens!Fail(t) \/ (trip' = "t1" /\ UNCHANGED <<caller, holder>>))
    BY HostStep
  <2>3. QED BY <1>10, <2>1, <2>2
<1>13. ASSUME NEW t \in Actors, Tokens!Entra(t) PROVE TokenBounds'
  <2> USE <1>13
  <2>1. UNCHANGED <<source, clock, token, refreshAt, host>> BY DEF Tokens!Entra
  <2>2. \/ Tokens!Receive(t)
        \/ Tokens!Fail(t)
        \/ trip' \in {"t1", "t2"} /\ UNCHANGED <<caller, holder>>
    BY DEF Tokens!Entra, Tokens!Advance
  <2>3. host' \in Tokens!Hosts BY <2>1
  <2>4. QED BY <1>10, <2>1, <2>2, <2>3
<1>14. CASE Tokens!Tick
  <2> USE <1>14
  <2>1. clock' <= MaxClock BY DEF Tokens!Tick
  <2>2. UNCHANGED <<source, token, refreshAt, holder, caller, trip, host>> BY DEF Tokens!Tick
  <2>3. QED BY <2>1, <2>2 DEF TokenBounds
<1>15. CASE UNCHANGED tokens
  <2>1. UNCHANGED <<source, clock, token, refreshAt, caller, holder, trip, host>> BY <1>15 DEF tokens
  <2>2. QED BY <1>3, <2>1
<1>16. QED
  BY <1>4, <1>5, <1>6, <1>7, <1>8, <1>9, <1>11, <1>12, <1>13, <1>14, <1>15 DEF Tokens!Next

\* An exchange: what is in force is a method and an endpoint of the issuer's.
LEMMA ExchangeWholeStart == ASSUME Exchange!Init PROVE Exchange!TypeOK
<1>1. 0 \in 0..MaxTime /\ 0 \in 0..(MaxTime + MetadataAge) /\ 0 \in 0..MaxNonce /\ 1 \in 0..MaxNonce
  BY BoundsAssumption
<1>2. wanted \in 0..MaxNonce BY <1>1 DEF Exchange!Init
<1>3. endpoint \in {Off, "e1", "e2"} BY DEF Exchange!Init
<1>4. method \in Exchange!Methods BY DEF Exchange!Init, Exchange!Methods
<1>5. explicit \in Exchange!Methods \cup {""} BY DEF Exchange!Init, Exchange!Methods
<1>6. provided \subseteq {"secret", "key", "cert"} BY DEF Exchange!Init
<1>7. time = 0 /\ keptUntil = 0 /\ nonce = 0 /\ listed = Off BY DEF Exchange!Init
<1>8. /\ time \in 0..MaxTime /\ keptUntil \in 0..(MaxTime + MetadataAge) /\ nonce \in 0..MaxNonce
  BY <1>1, <1>7
<1>10. listed \in (SUBSET Exchange!Methods) \cup {Off} BY <1>7
<1>9. /\ bound \in BOOLEAN /\ configured \in BOOLEAN /\ attempt2 \in BOOLEAN /\ rotated \in BOOLEAN
      /\ phase \in {"rest", "prepare", "post", "nonce"}
  BY DEF Exchange!Init
<1>11. QED BY <1>2, <1>3, <1>4, <1>5, <1>6, <1>8, <1>9, <1>10 DEF Exchange!TypeOK

LEMMA ExchangeWholeStep ==
  ASSUME Exchange!TypeOK, [Exchange!Next]_exchange PROVE Exchange!TypeOK'
<1> USE DEF Exchange!TypeOK, Exchange!fixed, Exchange!Begin
<1>1. CASE Exchange!Reuse BY <1>1 DEF Exchange!Reuse
<1>2. CASE Exchange!Discover
  <2> USE <1>2
  <2>1. /\ attempt2' = FALSE /\ rotated' = FALSE
        /\ UNCHANGED <<time, bound, explicit, configured, provided, nonce, wanted>>
    BY DEF Exchange!Discover
  <2>2. CASE phase' = "rest" /\ UNCHANGED <<method, listed, endpoint, keptUntil>>
    BY <2>1, <2>2
  <2>3. ASSUME NEW offer \in Offers, NEW e \in {"e1", "e2"}, Exchange!Read(offer, e),
               keptUntil' = IF bound THEN time + MetadataAge ELSE keptUntil
        PROVE  Exchange!TypeOK'
    <3> USE <2>3
    <3>1. method' \in offer /\ listed' = offer /\ endpoint' = e /\ phase' = "prepare"
      BY DEF Exchange!Read, Exchange!Choose
    <3>2. offer \in SUBSET Exchange!Methods BY OffersAssumption
    <3>3. time + MetadataAge \in 0..(MaxTime + MetadataAge)
      <4>1. time \in 0..MaxTime OBVIOUS
      <4>2. MaxTime \in Nat /\ MetadataAge \in Nat BY BoundsAssumption
      <4>3. QED BY <4>1, <4>2, Later
    <3>4. keptUntil' \in 0..(MaxTime + MetadataAge) BY <3>3
    <3>5. method' \in Exchange!Methods /\ listed' \in (SUBSET Exchange!Methods) \cup {Off}
      BY <3>1, <3>2
    <3>6. QED BY <2>1, <3>1, <3>4, <3>5
  <2>4. QED BY <2>2, <2>3 DEF Exchange!Discover
<1>3. CASE Exchange!Prepare BY <1>3 DEF Exchange!Prepare
<1>4. CASE Exchange!Challenge BY <1>4 DEF Exchange!Challenge
<1>5. CASE Exchange!Answer BY <1>5 DEF Exchange!Answer
<1>6. CASE Exchange!Rotate
  <2> USE <1>6
  <2>1. wanted \in 0..MaxNonce /\ wanted < MaxNonce /\ wanted' = wanted + 1
    BY DEF Exchange!Rotate
  <2>2. MaxNonce \in Nat BY BoundsAssumption
  <2>3. wanted' \in 0..MaxNonce BY <2>1, <2>2, UpTo
  <2>4. QED BY <2>3 DEF Exchange!Rotate
<1>7. CASE Exchange!Provide
  <2> USE <1>7
  <2>1. PICK x \in {"secret", "cert"} :
          provided' = IF x \in provided THEN provided \ {x} ELSE provided \cup {x}
    BY DEF Exchange!Provide
  <2>2. provided' \subseteq {"secret", "key", "cert"} BY <2>1
  <2>3. QED BY <2>2 DEF Exchange!Provide
<1>8. CASE Exchange!Tick
  <2> USE <1>8
  <2>1. time \in 0..MaxTime /\ time < MaxTime /\ time' = time + 1 BY DEF Exchange!Tick
  <2>2. MaxTime \in Nat BY BoundsAssumption
  <2>3. time' \in 0..MaxTime BY <2>1, <2>2, UpTo
  <2>4. QED BY <2>3 DEF Exchange!Tick
<1>9. CASE UNCHANGED exchange BY <1>9 DEF exchange
<1>10. QED
  BY <1>1, <1>2, <1>3, <1>4, <1>5, <1>6, <1>7, <1>8, <1>9 DEF Exchange!Next

\* A session: every time is within the budget that the last tick allows.
Ticks == 0..BrokerClock
Deadlines == 0..(BrokerClock + Budget)
SessionTimes ==
  /\ now \in Ticks /\ sentAt \in Ticks /\ deadline \in Deadlines /\ wakeAt \in Deadlines
  /\ attempt \in {0, 1, 2}
SessionStands ==
  /\ stage \in {"rest", "next", "enroll", "challenge", "assert", "session", "wait"}
  /\ error \in {"", "failed", "invalid", "configuration", "capacity", "pending", "disabled"}
  /\ status \in {"pending", "approved", "disabled"}
SessionNames ==
  /\ opted \in Session!AllKinds \cup {""} /\ pinned \in Session!Bindings \cup {Off}
  /\ enrolled \in BOOLEAN /\ bindingId \in Session!Bindings \cup {Off}
  /\ assertion \in Session!AllKinds \cup {Off} /\ session \in Session!Bindings \cup {Off}
  /\ binding \in Session!Bindings /\ askedOf \subseteq Clouds
SessionTypes == SessionTimes /\ SessionStands /\ SessionNames

LEMMA SessionWhole == SessionTypes => Session!TypeOK
<1>1. attempt \in {0, 1, 2} => attempt \in 0..2 OBVIOUS
<1>2. QED
  BY <1>1 DEF SessionTypes, SessionTimes, SessionStands, SessionNames, Session!TypeOK, Ticks, Deadlines

LEMMA SessionTypesStart == ASSUME Session!Init PROVE SessionTypes
<1>1. 0 \in Ticks /\ 0 \in Deadlines /\ 1 \in Session!Bindings
  BY BoundsAssumption DEF Session!Bindings, Ticks, Deadlines
<1>2. SessionTimes BY <1>1 DEF Session!Init, SessionTimes
<1>3. SessionStands BY DEF Session!Init, SessionStands
<1>4. SessionNames BY <1>1 DEF Session!Init, SessionNames
<1>5. QED BY <1>2, <1>3, <1>4 DEF SessionTypes

LEMMA SessionTimesStep ==
  ASSUME SessionTimes, [Session!Next]_brokering PROVE SessionTimes'
<1> USE DEF SessionTimes, Session!timing, Session!world
<1>0. BrokerClock \in Nat /\ Budget \in Nat BY BoundsAssumption
<1> USE <1>0
<1>1. CASE Session!Refresh
  <2> USE <1>1
  <2>1. now \in Ticks /\ deadline' = now + Budget BY DEF Session!Refresh
  <2>2. deadline' \in Deadlines BY <2>1, Later DEF Ticks, Deadlines
  <2>3. QED BY <2>2 DEF Session!Refresh
<1>2. CASE Session!Attempt BY <1>2 DEF Session!Attempt, Session!Send
<1>3. CASE Session!Capacity
  <2> USE <1>3
  <2>1. UNCHANGED <<now, deadline, sentAt>> BY DEF Session!Capacity
  <2>2. CASE UNCHANGED <<attempt, wakeAt>> BY <2>1, <2>2
  <2>3. ASSUME NEW after \in 0..2, attempt # 2, ~(now + after >= deadline),
               attempt' = attempt + 1, wakeAt' = now + after
        PROVE  SessionTimes'
    <3> USE <2>3
    <3>1. attempt' \in {0, 1, 2} OBVIOUS
    <3>2. now \in 0..BrokerClock /\ deadline \in 0..(BrokerClock + Budget) BY DEF Ticks, Deadlines
    <3>3. now + after \in 0..(BrokerClock + Budget) BY <3>2
    <3>4. wakeAt' \in Deadlines BY <3>3 DEF Deadlines
    <3>5. QED BY <2>1, <3>1, <3>4
  <2>4. QED BY <2>2, <2>3 DEF Session!Capacity
<1>4. CASE Session!Wake BY <1>4 DEF Session!Wake
<1>5. CASE Session!Refused BY <1>5 DEF Session!Refused
<1>6. CASE Session!Enrolled
  BY <1>6 DEF Session!Enrolled, Session!Send
<1>7. CASE Session!Challenged BY <1>7 DEF Session!Challenged
<1>8. CASE Session!Assert BY <1>8 DEF Session!Assert, Session!Send
<1>9. CASE Session!Issued BY <1>9 DEF Session!Issued
<1>10. CASE Session!Administer BY <1>10 DEF Session!Administer
<1>11. CASE Session!Tick
  <2> USE <1>11
  <2>1. now \in Ticks /\ now < BrokerClock /\ now' = now + 1 BY DEF Session!Tick
  <2>2. now' \in Ticks BY <2>1, UpTo DEF Ticks
  <2>3. QED BY <2>2 DEF Session!Tick
<1>12. CASE UNCHANGED brokering BY <1>12 DEF brokering
<1>13. QED
  BY <1>1, <1>2, <1>3, <1>4, <1>5, <1>6, <1>7, <1>8, <1>9, <1>10, <1>11, <1>12 DEF Session!Next

LEMMA SessionStandsStep ==
  ASSUME SessionStands, [Session!Next]_brokering PROVE SessionStands'
<1> USE DEF SessionStands, Session!Step, Session!Fail, Session!Send, Session!gateway
<1>1. CASE Session!Refresh BY <1>1 DEF Session!Refresh
<1>2. CASE Session!Attempt BY <1>2 DEF Session!Attempt
<1>3. CASE Session!Capacity BY <1>3 DEF Session!Capacity
<1>4. CASE Session!Wake BY <1>4 DEF Session!Wake
<1>5. CASE Session!Refused BY <1>5 DEF Session!Refused
<1>6. CASE Session!Enrolled
  <2> USE <1>6
  <2>1. UNCHANGED status BY DEF Session!Enrolled
  <2>2. \/ stage' = "rest" /\ error' \in {"invalid", "pending", "disabled", "configuration", "failed"}
        \/ stage' = "challenge" /\ UNCHANGED error
    BY DEF Session!Enrolled
  <2>3. QED BY <2>1, <2>2
<1>7. CASE Session!Challenged BY <1>7 DEF Session!Challenged
<1>8. CASE Session!Assert BY <1>8 DEF Session!Assert
<1>9. CASE Session!Issued BY <1>9 DEF Session!Issued
<1>10. CASE Session!Administer
  <2>1. status' \in {"pending", "approved", "disabled"} /\ UNCHANGED <<stage, error>>
    BY <1>10 DEF Session!Administer
  <2>2. QED BY <2>1
<1>11. CASE Session!Tick BY <1>11 DEF Session!Tick
<1>12. CASE UNCHANGED brokering BY <1>12 DEF brokering
<1>13. QED
  BY <1>1, <1>2, <1>3, <1>4, <1>5, <1>6, <1>7, <1>8, <1>9, <1>10, <1>11, <1>12 DEF Session!Next

LEMMA SessionNamesStep ==
  ASSUME SessionNames, [Session!Next]_brokering PROVE SessionNames'
<1> USE DEF SessionNames, Session!client, Session!gateway, Session!world
<1>1. CASE Session!Refresh BY <1>1 DEF Session!Refresh
<1>2. CASE Session!Attempt BY <1>2 DEF Session!Attempt
<1>3. CASE Session!Capacity BY <1>3 DEF Session!Capacity
<1>4. CASE Session!Wake BY <1>4 DEF Session!Wake
<1>5. CASE Session!Refused BY <1>5 DEF Session!Refused
<1>6. CASE Session!Enrolled BY <1>6 DEF Session!Enrolled
<1>7. CASE Session!Challenged BY <1>7 DEF Session!Challenged
<1>8. CASE Session!Assert BY <1>8 DEF Session!Assert
<1>9. CASE Session!Issued BY <1>9 DEF Session!Issued
<1>10. CASE Session!Administer
  <2> USE <1>10
  <2>1. binding' \in Session!Bindings
    <3>1. CASE UNCHANGED binding BY <3>1
    <3>2. CASE binding < MaxBindings /\ binding' = binding + 1
      <4>1. binding \in Session!Bindings OBVIOUS
      <4>2. MaxBindings \in Nat BY BoundsAssumption
      <4>3. QED BY <3>2, <4>1, <4>2, Raised DEF Session!Bindings
    <3>3. QED BY <3>1, <3>2 DEF Session!Administer
  <2>2. QED BY <2>1 DEF Session!Administer
<1>11. CASE Session!Tick BY <1>11 DEF Session!Tick
<1>12. CASE UNCHANGED brokering BY <1>12 DEF brokering
<1>13. QED
  BY <1>1, <1>2, <1>3, <1>4, <1>5, <1>6, <1>7, <1>8, <1>9, <1>10, <1>11, <1>12 DEF Session!Next

LEMMA SessionTypesStep ==
  ASSUME SessionTypes, [Session!Next]_brokering PROVE SessionTypes'
BY SessionTimesStep, SessionStandsStep, SessionNamesStep DEF SessionTypes

\* Sightings: whatever is remembered, said or held is about a registration.
SightReports ==
  [at : {"idle", "headers", "post", "answer", "again", "report"}, boot : BOOLEAN, proof : BOOLEAN,
   held : Sightings!Failures \cup {""}, body : Sightings!Bodies, err : Sightings!Bodies,
   count : 0..MaxReports]
SightRows == [id : Sightings!Rows, state : Sightings!States, email : BOOLEAN]

SightTypes ==
  /\ row \in SightRows /\ changes \in 0..MaxChanges
  /\ memory \in Sightings!Memory /\ lines \subseteq Sightings!Lines
  /\ rep \in [Reporters -> SightReports]

LEMMA SightWhole == SightTypes => Sightings!TypeOK
<1>1. SUFFICES ASSUME SightTypes PROVE Sightings!TypeOK OBVIOUS
<1>2. \A r \in Reporters : rep[r] \in SightReports BY <1>1 DEF SightTypes
<1>3. \A r \in Reporters :
        /\ rep[r].at \in {"idle", "headers", "post", "answer", "again", "report"}
        /\ rep[r].held \in Sightings!Failures \cup {""} /\ rep[r].body \in Sightings!Bodies
        /\ rep[r].err \in Sightings!Bodies /\ rep[r].count \in 0..MaxReports
  BY <1>2 DEF SightReports
<1>4. QED BY <1>1, <1>3 DEF SightTypes, Sightings!TypeOK, SightRows

LEMMA IdleSight ==
  /\ Sightings!NoBody \in Sightings!Bodies
  /\ \A n \in 0..MaxReports : [Sightings!Idle EXCEPT !.count = n] \in SightReports
<1>1. Sightings!NoBody \in Sightings!Bodies BY DEF Sightings!NoBody, Sightings!Bodies
<1>2. QED BY <1>1 DEF Sightings!Idle, SightReports

LEMMA SightTypesStart == ASSUME Sightings!Init PROVE SightTypes
<1>1. 1 \in Sightings!Rows /\ 0 \in 0..MaxReports /\ 0 \in 0..MaxChanges
  BY BoundsAssumption DEF Sightings!Rows
<1> USE <1>1
<1>2. row \in SightRows BY DEF Sightings!Init, SightRows, Sightings!States
<1>3. memory \in Sightings!Memory BY DEF Sightings!Init, Sightings!Memory
<1>4. Sightings!NoBody \in Sightings!Bodies BY IdleSight
<1>5. Sightings!Idle \in SightReports BY <1>4 DEF Sightings!Idle, SightReports
<1>6. rep \in [Reporters -> SightReports] BY <1>5 DEF Sightings!Init
<1>7. QED BY <1>2, <1>3, <1>6 DEF Sightings!Init, SightTypes

\* What is remembered of a body, and what is said of it.
LEMMA RememberedTyped ==
  ASSUME NEW m \in Sightings!Memory, NEW b \in Sightings!Bodies
  PROVE  /\ Sightings!Remember(m, b) \in Sightings!Memory
         /\ Sightings!Context(m, b).id \in Sightings!Rows \cup {Off}
         /\ Sightings!Context(m, b).email \in Sightings!Rows \cup {Off}
<1>1. /\ m.id \in Sightings!Rows \cup {Off} /\ m.email \in Sightings!Rows \cup {Off}
      /\ m.state \in Sightings!States \cup {""}
      /\ b.id \in Sightings!Rows \cup {Off} /\ b.state \in Sightings!States \cup {""}
  BY DEF Sightings!Memory, Sightings!Bodies
<1>2. QED BY <1>1 DEF Sightings!Remember, Sightings!Context, Sightings!Memory

LEMMA SaidTyped ==
  ASSUME NEW m \in Sightings!Memory, NEW b \in Sightings!Bodies, NEW word,
         lines \subseteq Sightings!Lines, Sightings!Say(word, m, b)
  PROVE  lines' \subseteq Sightings!Lines
<1> DEFINE i == Sightings!Context(m, b).id
           e == Sightings!Context(m, b).email
<1>1. \/ lines' = lines
      \/ word \in Sightings!Spoken /\ lines' = lines \cup {[code |-> word, id |-> i, email |-> e]}
  <2>1. lines' = IF word \notin Sightings!Spoken \/ Sightings!Said(word) THEN lines
                 ELSE lines \cup {[code |-> word, id |-> i, email |-> e]}
    BY DEF Sightings!Say
  <2> HIDE DEF i, e
  <2>2. CASE word \notin Sightings!Spoken \/ Sightings!Said(word)
    BY <2>1, <2>2
  <2>3. CASE word \in Sightings!Spoken /\ ~Sightings!Said(word)
    BY <2>1, <2>3
  <2>4. QED BY <2>2, <2>3
<1>2. i \in Sightings!Rows \cup {Off} /\ e \in Sightings!Rows \cup {Off} BY RememberedTyped
<1> HIDE DEF i, e
<1>3. word \in Sightings!Spoken => [code |-> word, id |-> i, email |-> e] \in Sightings!Lines
  BY <1>2 DEF Sightings!Lines
<1>4. QED BY <1>1, <1>3

LEMMA SightTypesStep ==
  ASSUME SightTypes, [Sightings!Next]_sightings PROVE SightTypes'
<1>0. /\ row \in SightRows /\ changes \in 0..MaxChanges /\ memory \in Sightings!Memory
      /\ lines \subseteq Sightings!Lines /\ rep \in [Reporters -> SightReports]
      /\ \A r \in Reporters : rep[r] \in SightReports
  BY DEF SightTypes
<1> USE <1>0
<1>1. ASSUME NEW r \in Reporters, NEW g \in SightReports, Sightings!Step(r, g)
      PROVE  rep' \in [Reporters -> SightReports]
  BY <1>1 DEF Sightings!Step
<1>2. ASSUME NEW r \in Reporters,
             NEW p \in {"idle", "headers", "post", "answer", "again", "report"},
             Sightings!Step(r, [rep[r] EXCEPT !.at = p])
      PROVE  rep' \in [Reporters -> SightReports]
  <2> DEFINE g == [rep[r] EXCEPT !.at = p]
  <2>1. g \in SightReports BY DEF SightReports
  <2>2. Sightings!Step(r, g) BY <1>2
  <2> HIDE DEF g
  <2>3. QED BY <1>1, <2>1, <2>2
<1>3. ASSUME NEW b \in Sightings!Bodies, Sightings!Note(b) PROVE memory' \in Sightings!Memory
  BY <1>3, RememberedTyped DEF Sightings!Note
<1>4. ASSUME NEW r \in Reporters, Sightings!Step(r, [Sightings!Idle EXCEPT !.count = rep[r].count])
      PROVE  rep' \in [Reporters -> SightReports]
  <2>1. rep[r].count \in 0..MaxReports BY DEF SightReports
  <2>2. QED BY <1>1, <1>4, <2>1, IdleSight
<1>5. ASSUME NEW r \in Reporters, NEW boot \in BOOLEAN, Sightings!Begin(r, boot) PROVE SightTypes'
  <2> USE <1>5
  <2> DEFINE n == rep[r].count + 1
             p == IF boot THEN "post" ELSE "headers"
             g == [Sightings!Idle EXCEPT !.at = p, !.boot = boot, !.count = n]
  <2>1. Sightings!Step(r, g) /\ UNCHANGED <<row, changes, memory, lines>>
    BY DEF Sightings!Begin
  <2>2. n \in 0..MaxReports
    <3>1. rep[r].count \in 0..MaxReports /\ rep[r].count < MaxReports
      BY DEF SightReports, Sightings!Begin
    <3>2. MaxReports \in Nat BY BoundsAssumption
    <3>3. QED BY <3>1, <3>2, UpTo
  <2>3. p \in {"post", "headers"} OBVIOUS
  <2> HIDE DEF p, n
  <2>4. g \in SightReports BY <2>2, <2>3, IdleSight DEF SightReports, Sightings!Idle
  <2> HIDE DEF g
  <2>5. QED BY <1>1, <2>1, <2>4 DEF SightTypes
<1>6. ASSUME NEW r \in Reporters, Sightings!Headers(r) PROVE SightTypes'
  <2> USE <1>6
  <2>1. UNCHANGED <<row, changes, lines>> BY DEF Sightings!Headers
  <2>2. CASE Sightings!Step(r, [rep[r] EXCEPT !.at = "post", !.proof = TRUE]) /\ UNCHANGED memory
    <3> USE <2>2
    <3> DEFINE g == [rep[r] EXCEPT !.at = "post", !.proof = TRUE]
    <3>1. g \in SightReports BY DEF SightReports
    <3>2. Sightings!Step(r, g) OBVIOUS
    <3> HIDE DEF g
    <3>3. QED BY <1>1, <2>1, <3>1, <3>2 DEF SightTypes
  <2>3. ASSUME NEW word \in Sightings!Failures, NEW b \in Sightings!Bodies, NEW p \in {"post", "report"},
               Sightings!Note(b),
               Sightings!Step(r, [Sightings!Hold(rep[r], word, b) EXCEPT !.at = p])
        PROVE  SightTypes'
    <3> USE <2>3
    <3> DEFINE g == [Sightings!Hold(rep[r], word, b) EXCEPT !.at = p]
    <3>1. g \in SightReports BY DEF SightReports, Sightings!Hold
    <3>2. Sightings!Step(r, g) OBVIOUS
    <3> HIDE DEF g
    <3>3. QED BY <1>1, <1>3, <2>1, <3>1, <3>2 DEF SightTypes
  <2>4. CASE \E word \in Sightings!Failures, b \in Sightings!Bodies :
               /\ Sightings!Note(b)
               /\ Sightings!Step(r, [Sightings!Hold(rep[r], word, b) EXCEPT
                     !.at = IF Sightings!FallsBack(word, memory') THEN "post" ELSE "report"])
    <3>1. PICK word \in Sightings!Failures, b \in Sightings!Bodies :
               /\ Sightings!Note(b)
               /\ Sightings!Step(r, [Sightings!Hold(rep[r], word, b) EXCEPT
                     !.at = IF Sightings!FallsBack(word, memory') THEN "post" ELSE "report"])
      BY <2>4
    <3>2. CASE Sightings!FallsBack(word, memory') BY <2>3, <3>1, <3>2
    <3>3. CASE ~Sightings!FallsBack(word, memory') BY <2>3, <3>1, <3>3
    <3>4. QED BY <3>2, <3>3
  <2>5. QED BY <2>2, <2>4 DEF Sightings!Headers
<1>7. ASSUME NEW r \in Reporters, Sightings!Post(r) PROVE SightTypes'
  <2> USE <1>7
  <2>1. UNCHANGED <<changes, memory, lines>> BY DEF Sightings!Post
  <2>2. row' \in SightRows
    <3>1. CASE row.state = "unknown"
      <4>1. row' = [row EXCEPT !.state = "pending"] BY <3>1 DEF Sightings!Post
      <4>2. QED BY <4>1 DEF SightRows, Sightings!States
    <3>2. CASE row.state # "unknown" BY <3>2 DEF Sightings!Post
    <3>3. QED BY <3>1, <3>2
  <2> USE <2>2
  <2>3. CASE Sightings!Step(r, [rep[r] EXCEPT !.at = "report"]) BY <1>2, <2>1, <2>3 DEF SightTypes
  <2>4. ASSUME NEW email \in {FALSE, row.email},
               Sightings!Step(r, [rep[r] EXCEPT !.at = "answer",
                     !.body = [id |-> row.id, state |-> row'.state, email |-> email]])
        PROVE  SightTypes'
    <3> DEFINE b == [id |-> row.id, state |-> row'.state, email |-> email]
               g == [rep[r] EXCEPT !.at = "answer", !.body = b]
    <3>1. row.id \in Sightings!Rows /\ row'.state \in Sightings!States /\ email \in BOOLEAN
      BY DEF SightRows
    <3>2. b \in Sightings!Bodies BY <3>1 DEF Sightings!Bodies
    <3>3. Sightings!Step(r, g) BY <2>4
    <3> HIDE DEF b
    <3>4. g \in SightReports BY <3>2 DEF SightReports
    <3> HIDE DEF g
    <3>5. QED BY <1>1, <2>1, <3>3, <3>4 DEF SightTypes
  <2>5. QED BY <2>3, <2>4 DEF Sightings!Post
<1>8. ASSUME NEW r \in Reporters, Sightings!Answer(r) PROVE SightTypes'
  <2> USE <1>8
  <2>1. UNCHANGED <<row, changes, lines>> /\ Sightings!Note(rep[r].body) BY DEF Sightings!Answer
  <2>2. rep[r].body \in Sightings!Bodies BY DEF SightReports
  <2>3. memory' \in Sightings!Memory BY <1>3, <2>1, <2>2
  <2> DEFINE p == IF rep[r].boot /\ rep[r].body.state = "pending" THEN "again" ELSE "report"
  <2>4. Sightings!Step(r, [rep[r] EXCEPT !.at = p]) BY DEF Sightings!Answer
  <2>5. p \in {"again", "report"} OBVIOUS
  <2> HIDE DEF p
  <2>6. QED BY <1>2, <2>1, <2>3, <2>4, <2>5 DEF SightTypes
<1>9. ASSUME NEW r \in Reporters, Sightings!Again(r) PROVE SightTypes'
  <2> USE <1>9
  <2>1. UNCHANGED <<row, changes>> BY DEF Sightings!Again
  <2> USE <2>1
  <2>2. CASE Sightings!Step(r, [rep[r] EXCEPT !.at = "headers", !.boot = FALSE]) /\ UNCHANGED <<memory, lines>>
    <3> USE <2>2
    <3> DEFINE g == [rep[r] EXCEPT !.at = "headers", !.boot = FALSE]
    <3>1. g \in SightReports BY DEF SightReports
    <3>2. Sightings!Step(r, g) OBVIOUS
    <3> HIDE DEF g
    <3>3. QED BY <1>1, <3>1, <3>2 DEF SightTypes
  <2>3. ASSUME NEW word \in Sightings!Failures, NEW b \in Sightings!Bodies, Sightings!Note(b),
               Sightings!Say(word, memory', b), Sightings!Step(r, [rep[r] EXCEPT !.at = "report"])
        PROVE  SightTypes'
    <3> USE <2>3
    <3>1. memory' \in Sightings!Memory BY <1>3
    <3>2. lines' \subseteq Sightings!Lines
      <4>1. PICK m : m = memory' OBVIOUS
      <4>2. m \in Sightings!Memory /\ Sightings!Say(word, m, b) BY <3>1, <4>1
      <4>3. QED BY <4>2, SaidTyped
    <3>3. QED BY <1>2, <3>1, <3>2 DEF SightTypes
  <2>4. CASE Sightings!Step(r, [rep[r] EXCEPT !.at = "report"]) /\ UNCHANGED <<memory, lines>>
    BY <1>2, <2>4 DEF SightTypes
  <2>5. QED BY <2>2, <2>3, <2>4 DEF Sightings!Again
<1>10. ASSUME NEW r \in Reporters, Sightings!Report(r) PROVE SightTypes'
  <2>1. /\ UNCHANGED <<row, changes>> /\ Sightings!Note(rep[r].err)
        /\ Sightings!Say(rep[r].held, memory', rep[r].err)
        /\ Sightings!Step(r, [Sightings!Idle EXCEPT !.count = rep[r].count])
    BY <1>10 DEF Sightings!Report
  <2> USE <2>1
  <2>2. rep[r].err \in Sightings!Bodies BY DEF SightReports
  <2>3. memory' \in Sightings!Memory BY <1>3, <2>2
  <2>4. lines' \subseteq Sightings!Lines
    <3>1. PICK m : m = memory' OBVIOUS
    <3>2. m \in Sightings!Memory /\ Sightings!Say(rep[r].held, m, rep[r].err) BY <2>3, <3>1
    <3>3. PICK w, b : w = rep[r].held /\ b = rep[r].err OBVIOUS
    <3>4. QED BY <2>2, <3>2, <3>3, SaidTyped
  <2>5. QED BY <1>4, <2>3, <2>4 DEF SightTypes
<1>11. CASE Sightings!Administer
  <2> USE <1>11
  <2>1. UNCHANGED <<memory, lines, rep>> BY DEF Sightings!Administer
  <2>2. changes' \in 0..MaxChanges
    <3>1. changes' = changes + 1 /\ changes < MaxChanges /\ MaxChanges \in Nat
      BY BoundsAssumption DEF Sightings!Administer
    <3>2. QED BY <3>1, UpTo
  <2>3. ASSUME NEW s \in {"approved", "denied"}, row' = [row EXCEPT !.state = s] PROVE row' \in SightRows
    BY <2>3 DEF SightRows, Sightings!States
  <2>4. ASSUME NEW e \in BOOLEAN, row.id < MaxRows,
               row' = [id |-> row.id + 1, state |-> "unknown", email |-> e]
        PROVE  row' \in SightRows
    <3> USE <2>4
    <3>1. row.id \in 1..MaxRows /\ MaxRows \in Nat
      BY BoundsAssumption DEF SightRows, Sightings!Rows
    <3>2. row.id + 1 \in Sightings!Rows BY <3>1, Raised DEF Sightings!Rows
    <3>3. QED BY <3>2 DEF SightRows, Sightings!States
  <2>5. row' \in SightRows BY <2>3, <2>4 DEF Sightings!Administer
  <2>6. QED BY <2>1, <2>2, <2>5 DEF SightTypes
<1>12. CASE UNCHANGED sightings BY <1>12 DEF sightings, SightTypes
<1>13. QED
  BY <1>5, <1>6, <1>7, <1>8, <1>9, <1>10, <1>11, <1>12 DEF Sightings!Next

\* A request fails once at most, so no more reasons are kept than requests
\* are over.
Over == {r \in Actors : rpc[r].at \in {"failed", "done"}}

RpcBounds ==
  /\ signer <= MaxRefresh /\ signing \in Actors \cup {Off} /\ cancels \in BOOLEAN
  /\ \A r \in Actors : rpc[r].token <= MaxRefresh /\ rpc[r].proof <= MaxRefresh
  /\ Len(failures) <= Cardinality(Over)

LEMMA RpcWhole == ASSUME RpcTypes, RpcBounds PROVE Mcp!TypeOK
<1>1. signer \in 0..MaxRefresh BY BoundsAssumption DEF RpcTypes, RpcBounds
<1>2. rpc \in [Actors -> RpcRecords] /\ \A r \in Actors : rpc[r] \in RpcRecords BY DEF RpcTypes
<1>3. \A r \in Actors : rpc[r].token \in 0..MaxRefresh /\ rpc[r].proof \in 0..MaxRefresh
  <2>1. \A r \in Actors : rpc[r].token \in Nat /\ rpc[r].proof \in Nat BY <1>2 DEF RpcRecords
  <2>2. QED BY <2>1, BoundsAssumption DEF RpcBounds
<1>4. rpc \in [Actors -> [at : {"idle", "hook", "token", "proof", "sent", "failed", "done"},
                          mode : {"none", "identity", "explicit"},
                          token : 0..MaxRefresh, proof : 0..MaxRefresh, gone : BOOLEAN,
                          outcome : {"none", "answer", "told", "cancelled"}]]
  BY <1>2, <1>3 DEF RpcRecords
<1>5. Cardinality(Over) <= Cardinality(Actors) /\ Cardinality(Over) \in Nat
      /\ Cardinality(Actors) \in Nat
  <2>1. Over \subseteq Actors /\ IsFiniteSet(Actors) BY ReportersAssumption DEF Over
  <2>2. QED BY <2>1, FS_Subset, FS_CardinalityType
<1>6. Len(failures) <= Cardinality(Actors)
  <2>1. Len(failures) \in Nat BY LenProperties DEF RpcTypes
  <2>2. QED BY <1>5, <2>1 DEF RpcBounds
<1>7. Len(failures) <= Mcp!Cardinality(Actors)
  BY <1>6 DEF Mcp!Cardinality, Cardinality
<1>8. QED BY <1>1, <1>4, <1>7 DEF RpcBounds, Mcp!TypeOK

LEMMA RpcBoundsStart == ASSUME Mcp!Init PROVE RpcBounds
<1>1. /\ signer = 0 /\ failures = <<>> /\ cancels = FALSE /\ signing = Off
      /\ \A r \in Actors : rpc[r].at = "idle" /\ rpc[r].token = 0 /\ rpc[r].proof = 0
  BY DEF Mcp!Init, Mcp!Idle
<1> USE <1>1
<1>2. Over = {} BY DEF Over
<1>3. Len(failures) = 0 /\ Cardinality(Over) = 0 BY <1>2, EmptySeq, FS_EmptySet
<1>4. signer <= MaxRefresh /\ \A r \in Actors : rpc[r].token <= MaxRefresh /\ rpc[r].proof <= MaxRefresh
  BY BoundsAssumption
<1>5. Len(failures) <= Cardinality(Over) BY <1>3
<1>6. signing \in Actors \cup {Off} /\ cancels \in BOOLEAN OBVIOUS
<1>7. QED BY <1>4, <1>5, <1>6 DEF RpcBounds

\* Who is over stays over, and a request that fails is over anew.
LEMMA OverGrows ==
  ASSUME RpcTypes, NEW r \in Actors, \A q \in Actors \ {r} : rpc'[q] = rpc[q],
         rpc[r].at \in {"failed", "done"} => rpc'[r].at \in {"failed", "done"}
  PROVE  /\ Cardinality(Over) \in Nat /\ Cardinality(Over') \in Nat
         /\ Cardinality(Over) <= Cardinality(Over')
         /\ rpc[r].at \notin {"failed", "done"} /\ rpc'[r].at \in {"failed", "done"}
              => Cardinality(Over') = Cardinality(Over) + 1
<1>1. Over \subseteq Over' /\ Over' \subseteq Actors BY DEF Over
<1>2. IsFiniteSet(Over) /\ IsFiniteSet(Over') BY <1>1, ReportersAssumption, FS_Subset
<1> USE <1>2
<1>3. Cardinality(Over) <= Cardinality(Over') BY <1>1, FS_Subset
<1>4. CASE rpc[r].at \notin {"failed", "done"} /\ rpc'[r].at \in {"failed", "done"}
  <2>1. Over' = Over \cup {r} /\ r \notin Over BY <1>4 DEF Over
  <2>2. QED BY <1>3, <2>1, FS_AddElement, FS_CardinalityType
<1>5. CASE ~(rpc[r].at \notin {"failed", "done"} /\ rpc'[r].at \in {"failed", "done"})
  BY <1>3, <1>5, FS_CardinalityType
<1>6. QED BY <1>4, <1>5

LEMMA RpcBoundsStep ==
  ASSUME RpcTypes, RpcBounds, [Mcp!Next]_mcp PROVE RpcBounds'
<1> USE DEF Mcp!At
<1>0. /\ rpc \in [Actors -> RpcRecords] /\ signer \in Nat /\ failures \in Seq(Actors)
      /\ Len(failures) \in Nat
      /\ \A r \in Actors : rpc[r] \in RpcRecords
  BY LenProperties DEF RpcTypes
<1> USE <1>0
<1>1. ASSUME NEW r \in Actors, NEW new \in RpcRecords, rpc' = [rpc EXCEPT ![r] = new],
             new.token <= MaxRefresh, new.proof <= MaxRefresh,
             rpc[r].at \in {"failed", "done"} => new.at \in {"failed", "done"},
             UNCHANGED signer, signing' \in Actors \cup {Off}, cancels' \in BOOLEAN,
             Len(failures') \in Nat,
             \/ Len(failures') <= Len(failures)
             \/ /\ Len(failures') = Len(failures) + 1
                /\ rpc[r].at \notin {"failed", "done"} /\ new.at \in {"failed", "done"}
      PROVE  RpcBounds'
  <2> USE <1>1
  <2>1. rpc'[r] = new /\ \A q \in Actors \ {r} : rpc'[q] = rpc[q] OBVIOUS
  <2>2. /\ Cardinality(Over) \in Nat /\ Cardinality(Over') \in Nat
        /\ Cardinality(Over) <= Cardinality(Over')
        /\ rpc[r].at \notin {"failed", "done"} /\ new.at \in {"failed", "done"}
             => Cardinality(Over') = Cardinality(Over) + 1
    BY <2>1, OverGrows
  <2>3. Len(failures) <= Cardinality(Over) BY DEF RpcBounds
  <2>4. Len(failures') <= Cardinality(Over')
    BY <2>2, <2>3
  <2>5. \A q \in Actors : rpc'[q].token <= MaxRefresh /\ rpc'[q].proof <= MaxRefresh
    BY <2>1 DEF RpcBounds
  <2>6. QED BY <2>4, <2>5 DEF RpcBounds
<1>15. /\ signing \in Actors \cup {Off} /\ cancels \in BOOLEAN
       /\ \A r \in Actors : rpc[r].token <= MaxRefresh /\ rpc[r].proof <= MaxRefresh
       /\ signer <= MaxRefresh
  BY DEF RpcBounds
<1> USE <1>15
<1>16. ASSUME UNCHANGED <<failures, cancels>>
       PROVE  Len(failures') \in Nat /\ Len(failures') <= Len(failures) /\ cancels' \in BOOLEAN
  <2>1. failures' = failures /\ cancels' = cancels BY <1>16
  <2>2. cancels' \in BOOLEAN BY <2>1
  <2>3. QED BY <2>1, <2>2
<1>2. ASSUME NEW r \in Actors, Mcp!Ask(r) PROVE RpcBounds'
  <2> USE <1>2
  <2>1. PICK mode \in {"none", "identity", "explicit"}, a \in {"sent", "hook"} :
          rpc' = [rpc EXCEPT ![r].mode = mode, ![r].at = a]
    BY DEF Mcp!Ask
  <2> DEFINE new == [rpc[r] EXCEPT !.mode = mode, !.at = a]
  <2>2. rpc' = [rpc EXCEPT ![r] = new] BY <2>1 DEF RpcRecords
  <2>3. new \in RpcRecords /\ new.at = a /\ new.token = rpc[r].token /\ new.proof = rpc[r].proof
    BY <2>1 DEF RpcRecords
  <2>4. UNCHANGED <<signer, signing, failures, cancels>> /\ rpc[r].at = "idle" BY DEF Mcp!Ask
  <2> USE <2>4
  <2> HIDE DEF new
  <2>5. new.token <= MaxRefresh /\ new.proof <= MaxRefresh /\ signing' \in Actors \cup {Off}
    BY <2>3
  <2>6. rpc[r].at \notin {"failed", "done"} OBVIOUS
  <2>7. QED BY <1>1, <1>16, <2>2, <2>3, <2>5, <2>6
<1>3. ASSUME NEW r \in Actors, NEW a \in {"token", "failed", "done"}, rpc' = [rpc EXCEPT ![r].at = a],
             rpc[r].at \in {"failed", "done"} => a = "done",
             UNCHANGED <<signer, cancels>>, signing' \in Actors \cup {Off},
             Len(failures') \in Nat,
             \/ Len(failures') <= Len(failures)
             \/ /\ Len(failures') = Len(failures) + 1
                /\ rpc[r].at \notin {"failed", "done"} /\ a \in {"failed", "done"}
      PROVE  RpcBounds'
  <2> USE <1>3
  <2> DEFINE new == [rpc[r] EXCEPT !.at = a]
  <2>1. rpc' = [rpc EXCEPT ![r] = new] OBVIOUS
  <2>2. new \in RpcRecords /\ new.at = a /\ new.token = rpc[r].token /\ new.proof = rpc[r].proof
    BY DEF RpcRecords
  <2> HIDE DEF new
  <2>3. new.token <= MaxRefresh /\ new.proof <= MaxRefresh /\ cancels' \in BOOLEAN
    BY <2>2 DEF RpcBounds
  <2>4. QED BY <1>1, <2>1, <2>2, <2>3
<1>4. ASSUME NEW r \in Actors, Mcp!Lock(r) PROVE RpcBounds'
  <2>1. /\ rpc' = [rpc EXCEPT ![r].at = "token"] /\ rpc[r].at = "hook" /\ signing' = r
        /\ UNCHANGED <<signer, failures, cancels>>
    BY <1>4 DEF Mcp!Lock
  <2>2. QED BY <1>3, <1>16, <2>1
<1>5. ASSUME NEW r \in Actors, Mcp!Token(r) PROVE RpcBounds'
  <2> USE <1>5
  <2>1. PICK k : /\ rpc' = [rpc EXCEPT ![r].at = "proof", ![r].token = k]
                 /\ k \in {signer, rpc[r].token}
    BY DEF Mcp!Token, RpcRecords
  <2>2. k \in Nat /\ k <= MaxRefresh BY <2>1 DEF RpcRecords, RpcBounds
  <2> DEFINE new == [rpc[r] EXCEPT !.at = "proof", !.token = k]
  <2>3. rpc' = [rpc EXCEPT ![r] = new] BY <2>1 DEF RpcRecords
  <2>4. new \in RpcRecords /\ new.at = "proof" /\ new.token = k /\ new.proof = rpc[r].proof
    BY <2>2 DEF RpcRecords
  <2>5. UNCHANGED <<signer, signing, failures, cancels>> /\ rpc[r].at = "token" BY DEF Mcp!Token
  <2> USE <2>5
  <2> HIDE DEF new
  <2>6. new.proof <= MaxRefresh /\ signing' \in Actors \cup {Off} BY <2>4
  <2>7. rpc[r].at \notin {"failed", "done"} OBVIOUS
  <2>8. QED BY <1>1, <1>16, <2>2, <2>3, <2>4, <2>6, <2>7
<1>6. ASSUME NEW r \in Actors, Mcp!Prove(r) PROVE RpcBounds'
  <2> USE <1>6
  <2>1. PICK a \in {"done", "sent"} : rpc' = [rpc EXCEPT ![r].proof = signer, ![r].at = a]
    BY DEF Mcp!Prove
  <2> DEFINE new == [rpc[r] EXCEPT !.proof = signer, !.at = a]
  <2>2. rpc' = [rpc EXCEPT ![r] = new] BY <2>1 DEF RpcRecords
  <2>3. new \in RpcRecords /\ new.at = a /\ new.token = rpc[r].token /\ new.proof = signer
    BY <2>1 DEF RpcRecords
  <2>4. UNCHANGED <<signer, failures, cancels>> /\ signing' = Off /\ rpc[r].at = "proof" BY DEF Mcp!Prove
  <2> USE <2>4
  <2> HIDE DEF new
  <2>5. new.token <= MaxRefresh /\ new.proof <= MaxRefresh /\ signing' \in Actors \cup {Off}
    BY <2>3
  <2>6. rpc[r].at \notin {"failed", "done"} OBVIOUS
  <2>7. QED BY <1>1, <1>16, <2>2, <2>3, <2>5, <2>6
<1>7. ASSUME NEW r \in Actors, Mcp!Fail(r) PROVE RpcBounds'
  <2> USE <1>7
  <2>1. PICK a \in {"done", "failed"} : rpc' = [rpc EXCEPT ![r].at = a]
    BY DEF Mcp!Fail
  <2>2. /\ UNCHANGED <<signer, cancels>> /\ rpc[r].at \in {"token", "proof"} /\ signing' = Off
        /\ failures' = Append(failures, r)
    BY DEF Mcp!Fail
  <2> USE <2>2
  <2>3. Len(failures') = Len(failures) + 1 BY AppendProperties
  <2>4. Len(failures') \in Nat BY <2>3
  <2>5. rpc[r].at \notin {"failed", "done"} /\ signing' \in Actors \cup {Off} OBVIOUS
  <2>6. QED BY <1>3, <2>1, <2>3, <2>4, <2>5
<1>8. ASSUME NEW r \in Actors, Mcp!Answer(r) PROVE RpcBounds'
  <2> USE <1>8
  <2> DEFINE new == [rpc[r] EXCEPT !.at = "done", !.outcome = "answer"]
  <2>1. rpc' = [rpc EXCEPT ![r] = new] BY DEF Mcp!Answer, RpcRecords
  <2>2. new \in RpcRecords /\ new.at = "done" /\ new.token = rpc[r].token /\ new.proof = rpc[r].proof
    BY DEF RpcRecords
  <2>3. UNCHANGED <<signer, signing, failures, cancels>> BY DEF Mcp!Answer
  <2> HIDE DEF new
  <2>4. new.token <= MaxRefresh /\ new.proof <= MaxRefresh /\ signing' \in Actors \cup {Off}
    BY <2>2, <2>3
  <2>5. QED BY <1>1, <1>16, <2>1, <2>2, <2>3, <2>4
<1>9. ASSUME NEW r \in Actors, Mcp!Awake(r), UNCHANGED <<signer, signing>>, cancels' \in BOOLEAN,
             rpc[r].at # "done"
      PROVE  RpcBounds'
  <2> USE <1>9
  <2>1. PICK o \in {"cancelled", "told"}, a \in {rpc[r].at, "done"} :
          /\ rpc' = [rpc EXCEPT ![r].outcome = o, ![r].gone = TRUE, ![r].at = a]
          /\ rpc[r].at = "failed" => a = "done"
    BY DEF Mcp!Awake, RpcRecords
  <2> USE <2>1
  <2> DEFINE new == [rpc[r] EXCEPT !.outcome = o, !.gone = TRUE, !.at = a]
  <2>2. rpc' = [rpc EXCEPT ![r] = new] BY DEF RpcRecords
  <2>3. new \in RpcRecords /\ new.at = a /\ new.token = rpc[r].token /\ new.proof = rpc[r].proof
    BY DEF RpcRecords
  <2>4. Len(failures') \in Nat /\ Len(failures') <= Len(failures)
    <3>1. CASE failures = <<>> BY <3>1 DEF Mcp!Awake
    <3>2. CASE failures # <<>>
      <4> USE <3>2
      <4>1. failures' = Tail(failures) BY DEF Mcp!Awake
      <4>2. Len(failures') = Len(failures) - 1 /\ Len(failures) # 0 BY <4>1, HeadTailProperties, EmptySeq
      <4>3. QED BY <4>2
    <3>3. QED BY <3>1, <3>2
  <2> HIDE DEF new
  <2>5. new.token <= MaxRefresh /\ new.proof <= MaxRefresh /\ signing' \in Actors \cup {Off}
    BY <2>3 DEF RpcBounds
  <2>6. QED BY <1>1, <2>2, <2>3, <2>4, <2>5
<1>10. ASSUME NEW r \in Actors, Mcp!Cancel(r) PROVE RpcBounds'
  <2> USE <1>10
  <2>1. cancels' \in BOOLEAN BY DEF Mcp!Cancel, RpcBounds
  <2>2. QED BY <1>9, <2>1 DEF Mcp!Cancel
<1>11. ASSUME NEW r \in Actors, Mcp!CancelOther(r) PROVE RpcBounds'
  BY <1>9, <1>11 DEF Mcp!CancelOther
<1>12. CASE Mcp!Refresh
  <2>1. /\ signer' = signer + 1 /\ signer < MaxRefresh /\ UNCHANGED <<signing, failures, rpc, cancels>>
    BY <1>12 DEF Mcp!Refresh
  <2> USE <2>1
  <2>2. signer' <= MaxRefresh BY BoundsAssumption
  <2>3. Over' = Over BY DEF Over
  <2>4. QED BY <2>2, <2>3 DEF RpcBounds
<1>13. CASE UNCHANGED mcp
  <2>1. UNCHANGED <<signer, signing, failures, rpc, cancels>> BY <1>13 DEF mcp
  <2>2. Over' = Over BY <2>1 DEF Over
  <2>3. QED BY <2>1, <2>2 DEF RpcBounds
<1>14. QED
  BY <1>2, <1>4, <1>5, <1>6, <1>7, <1>8, <1>10, <1>11, <1>12, <1>13 DEF Mcp!Next

LEMMA ClosureWhole == ClosureTypes => Closure!TypeOK
BY DEF ClosureTypes, Walks, Tokens2, Fs, Closure!TypeOK

-----------------------------------------------------------------------------
(* Contexts: a creation of a prefix is the only one, is known to be under  *)
(* way and finds no resource there.                                        *)
Jobs == [prefix : Prefixes, at : {"queued", "sent"}, by : Actors]

ContextInv ==
  /\ today \in Nat /\ creations \subseteq Jobs
  /\ entries \in [Prefixes -> Nat]
  /\ generation \in [Actors -> [at : {"rest", "claim", "generate"}, prefix : Prefixes \cup {Off},
                                 used : BOOLEAN]]
  /\ \A c \in Actors : generation[c].at = "claim" => generation[c].prefix \in Prefixes
  /\ \A p \in Prefixes : p \in creating <=> \E j \in creations : j.prefix = p
  /\ \A j, k \in creations : j.prefix = k.prefix => j = k
  /\ \A j \in creations : entries[j.prefix] = 0

LEMMA ContextStart == ASSUME Contexts!Init PROVE ContextInv
BY DEF Contexts!Init, ContextInv, Contexts!Unknown, Contexts!Rest

LEMMA GenerationMoves ==
  ASSUME ContextInv, NEW c \in Actors, NEW p \in Prefixes \cup {Off}, NEW u \in BOOLEAN,
         NEW a \in {"rest", "claim", "generate"}, a = "claim" => p \in Prefixes,
         generation' = [generation EXCEPT ![c] = [prefix |-> p, used |-> u, at |-> a]]
  PROVE  /\ generation' \in [Actors -> [at : {"rest", "claim", "generate"}, prefix : Prefixes \cup {Off},
                                         used : BOOLEAN]]
         /\ \A d \in Actors : generation'[d].at = "claim" => generation'[d].prefix \in Prefixes
BY DEF ContextInv

LEMMA ContextStep ==
  ASSUME ContextInv, [Contexts!Next]_contexts PROVE ContextInv'
<1> USE DEF Contexts!At
<1>0. /\ today \in Nat /\ creations \subseteq Jobs /\ entries \in [Prefixes -> Nat]
      /\ \A j \in creations : j \in Jobs /\ j.prefix \in Prefixes
      /\ \A c \in Actors : generation[c].prefix \in Prefixes \cup {Off} /\ generation[c].used \in BOOLEAN
  BY DEF ContextInv, Jobs
<1> USE <1>0
<1>1. ASSUME NEW c \in Actors, NEW p \in Prefixes, Contexts!Attach(c, p) PROVE ContextInv'
  <2> USE <1>1
  <2>1. PICK u \in BOOLEAN, a \in {"generate", "claim"} :
          generation' = [generation EXCEPT ![c] = [prefix |-> p, used |-> u, at |-> a]]
    <3>1. Contexts!Live(p) \in BOOLEAN BY DEF Contexts!Live
    <3>2. QED BY <3>1 DEF Contexts!Attach
  <2>2. UNCHANGED <<today, creating, creations>> BY DEF Contexts!Attach
  <2>3. /\ entries' \in [Prefixes -> Nat]
        /\ \A q \in Prefixes : entries[q] = 0 => entries'[q] = 0
    BY DEF Contexts!Attach, Contexts!Unknown
  <2>4. /\ generation' \in [Actors -> [at : {"rest", "claim", "generate"}, prefix : Prefixes \cup {Off},
                                        used : BOOLEAN]]
        /\ \A d \in Actors : generation'[d].at = "claim" => generation'[d].prefix \in Prefixes
    BY <2>1, GenerationMoves
  <2>5. QED BY <2>2, <2>3, <2>4 DEF ContextInv
<1>2. ASSUME NEW c \in Actors, Contexts!AttachOwn(c) PROVE ContextInv'
  <2> USE <1>2
  <2>1. /\ generation' \in [Actors -> [at : {"rest", "claim", "generate"}, prefix : Prefixes \cup {Off},
                                        used : BOOLEAN]]
        /\ \A d \in Actors : generation'[d].at = "claim" => generation'[d].prefix \in Prefixes
    BY GenerationMoves DEF Contexts!AttachOwn
  <2>2. QED BY <2>1 DEF Contexts!AttachOwn, ContextInv
<1>3. ASSUME NEW c \in Actors, Contexts!Claim(c) PROVE ContextInv'
  <2> USE <1>3
  <2> DEFINE p == generation[c].prefix
             j == [prefix |-> p, at |-> "queued", by |-> c]
  <2>1. p \in Prefixes /\ j \in Jobs /\ j.prefix = p BY DEF Contexts!Claim, ContextInv, Jobs
  <2> USE <2>1
  <2>2. /\ generation' \in [Actors -> [at : {"rest", "claim", "generate"}, prefix : Prefixes \cup {Off},
                                        used : BOOLEAN]]
        /\ \A d \in Actors : generation'[d].at = "claim" => generation'[d].prefix \in Prefixes
    BY DEF Contexts!Claim, ContextInv
  <2>3. UNCHANGED <<today, entries>> BY DEF Contexts!Claim
  <2> USE <2>3
  <2>4. CASE UNCHANGED <<creating, creations>>
    BY <2>2, <2>4 DEF ContextInv
  <2>5. CASE /\ p \notin creating /\ entries[p] = 0
             /\ creating' = creating \cup {p} /\ creations' = creations \cup {j}
    <3> USE <2>5
    <3> HIDE DEF p, j
    <3>1. creations' \subseteq Jobs OBVIOUS
    <3>2. \A k \in creations : k.prefix # p BY DEF ContextInv
    <3>3. \A q \in Prefixes : q \in creating' <=> \E k \in creations' : k.prefix = q
      BY DEF ContextInv
    <3>4. \A k, l \in creations' : k.prefix = l.prefix => k = l
      BY <3>2 DEF ContextInv
    <3>5. \A k \in creations' : entries'[k.prefix] = 0
      BY DEF ContextInv
    <3>6. QED BY <2>2, <3>1, <3>3, <3>4, <3>5 DEF ContextInv
  <2>6. QED BY <2>4, <2>5 DEF Contexts!Claim, Contexts!Unknown
<1>4. ASSUME NEW c \in Actors, Contexts!Generate(c) PROVE ContextInv'
  <2> USE <1>4
  <2>1. /\ generation' \in [Actors -> [at : {"rest", "claim", "generate"}, prefix : Prefixes \cup {Off},
                                        used : BOOLEAN]]
        /\ \A d \in Actors : generation'[d].at = "claim" => generation'[d].prefix \in Prefixes
    BY DEF Contexts!Generate, Contexts!Rest, ContextInv
  <2>2. QED BY <2>1 DEF Contexts!Generate, ContextInv
<1>5. ASSUME NEW j \in creations, Contexts!Send(j) PROVE ContextInv'
  <2> DEFINE s == [j EXCEPT !.at = "sent"]
  <2>1. creations' = (creations \ {j}) \cup {s} /\ UNCHANGED <<today, entries, creating, generation>>
    BY <1>5 DEF Contexts!Send
  <2> USE <2>1
  <2>2. s \in Jobs /\ s.prefix = j.prefix BY DEF Jobs
  <2> USE <2>2
  <2> HIDE DEF s
  <2>3. creations' \subseteq Jobs OBVIOUS
  <2>4. \A p \in Prefixes : (\E k \in creations' : k.prefix = p) <=> \E k \in creations : k.prefix = p
    OBVIOUS
  <2>5. \A k, l \in creations' : k.prefix = l.prefix => k = l
    BY DEF ContextInv
  <2>6. \A k \in creations' : entries[k.prefix] = 0
    BY DEF ContextInv
  <2>7. QED BY <2>3, <2>4, <2>5, <2>6 DEF ContextInv
<1>6. ASSUME NEW j \in creations, NEW e \in Nat, creations' = creations \ {j},
             entries' = [entries EXCEPT ![j.prefix] = e], creating' = creating \ {j.prefix},
             UNCHANGED <<today, generation>>
      PROVE  ContextInv'
  <2> USE <1>6
  <2>1. entries' \in [Prefixes -> Nat] /\ creations' \subseteq Jobs OBVIOUS
  <2>2. \A k \in creations' : k \in creations /\ k.prefix # j.prefix BY DEF ContextInv
  <2> USE <2>2
  <2>3. \A k \in creations' : entries'[k.prefix] = 0 BY DEF ContextInv
  <2>4. \A p \in Prefixes : p \in creating' <=> \E k \in creations' : k.prefix = p
    BY DEF ContextInv
  <2>5. QED BY <2>1, <2>3, <2>4 DEF ContextInv
<1>7. ASSUME NEW j \in creations, Contexts!Remember(j) PROVE ContextInv'
  <2>1. today + TTL \in Nat BY BoundsAssumption
  <2>2. QED BY <1>6, <1>7, <2>1 DEF Contexts!Remember
<1>8. ASSUME NEW j \in creations, Contexts!Forget(j) PROVE ContextInv'
  BY <1>6, <1>8 DEF Contexts!Forget, Contexts!Unknown
<1>9. CASE Contexts!Tick
  <2>1. today' \in Nat /\ UNCHANGED <<entries, creating, creations, generation>>
    BY <1>9 DEF Contexts!Tick
  <2>2. QED BY <2>1 DEF ContextInv
<1>10. CASE UNCHANGED contexts
  BY <1>10 DEF contexts, ContextInv
<1>11. QED
  BY <1>1, <1>2, <1>3, <1>4, <1>5, <1>7, <1>8, <1>9, <1>10 DEF Contexts!Next

LEMMA ContextPromise == ASSUME ContextInv PROVE Contexts!OneCreation
<1> SUFFICES ASSUME NEW p \in Prefixes
             PROVE  /\ \A j, k \in Contexts!Underway(p) : j = k
                    /\ Contexts!Underway(p) # {} <=> p \in creating
                    /\ Contexts!Live(p) => Contexts!Underway(p) = {}
  BY DEF Contexts!OneCreation
<1>1. /\ \A j, k \in Contexts!Underway(p) : j = k
      /\ Contexts!Underway(p) # {} <=> p \in creating
  BY DEF ContextInv, Contexts!Underway
<1>2. ASSUME NEW j \in Contexts!Underway(p) PROVE ~Contexts!Live(p)
  <2>1. today \in Nat /\ entries[p] = 0 BY <1>2 DEF ContextInv, Contexts!Underway
  <2>2. QED BY <2>1 DEF Contexts!Live
<1>3. QED BY <1>1, <1>2

-----------------------------------------------------------------------------
(* Dispatch: with the automatic guard a call reaches it undecided, and     *)
(* leaves it for its body with the one decision about what will run.       *)
Stages == {"callbacks", "guard", "inner", "run", "ran", "blocked", "raised", "cancelled", "native"}

Calls == [adapter : Dispatch!Adapters, form : {"mapping", "object", "keyword", "positional"},
          auto : BOOLEAN, hook : BOOLEAN, inner : BOOLEAN, tool : Actors, value : Values,
          at : Stages,
          changed : BOOLEAN, hooked : BOOLEAN, admitted : BOOLEAN, masked : BOOLEAN,
          decided : Seq([tool : Actors, value : Values, verdict : Dispatch!Verdicts])]

\* One decision, about what runs, and its mask applied where it can be.
Decided(c) ==
  /\ Len(c.decided) = 1
  /\ c.decided[1].verdict \notin Dispatch!Blocking
  /\ c.decided[1].tool = c.tool /\ c.decided[1].value = c.value
  /\ c.form \in {"mapping", "keyword"} /\ c.decided[1].verdict = "mask" => c.masked

Governed(c) ==
  /\ c \in Calls /\ c.form \in Dispatch!Forms(c.adapter)
  /\ c.auto /\ c.at \in {"callbacks", "guard"} => c.decided = <<>>
  /\ c.at = "inner" => c.admitted
  /\ c.auto /\ c.at \in {"inner", "run", "ran"} => Decided(c)

DispatchInv == Governed(dispatched)

LEMMA DispatchStart == ASSUME Dispatch!Init PROVE DispatchInv
<1>1. \A a \in Dispatch!Adapters : Dispatch!Forms(a) \subseteq {"mapping", "object", "keyword", "positional"}
  BY DEF Dispatch!Forms
<1>2. PICK a \in Dispatch!Adapters, auto, hk, inner \in BOOLEAN, t \in Actors, v \in Values :
        \E f \in Dispatch!Forms(a) :
          /\ (hk => a \in Dispatch!Hooked) /\ (~auto => hk /\ a # "terminal") /\ (inner => a \in Dispatch!Nested)
          /\ dispatched = [adapter |-> a, form |-> f, auto |-> auto, hook |-> hk, inner |-> inner,
                           tool |-> t, value |-> v, at |-> "callbacks", changed |-> FALSE, hooked |-> ~hk,
                           admitted |-> FALSE, masked |-> FALSE, decided |-> <<>>]
  BY DEF Dispatch!Init
<1>3. QED BY <1>1, <1>2 DEF DispatchInv, Governed, Calls, Stages

(* What the parts of a step do to a call. *)
LEMMA Going ==
  ASSUME NEW c \in Calls,
         NEW p \in Stages
  PROVE  LET d == [c EXCEPT !.at = p]
         IN  /\ d \in Calls /\ d.at = p /\ d.adapter = c.adapter /\ d.form = c.form /\ d.auto = c.auto
             /\ d.tool = c.tool /\ d.value = c.value /\ d.admitted = c.admitted /\ d.masked = c.masked
             /\ d.decided = c.decided
BY DEF Calls, Stages

LEMMA Deciding ==
  ASSUME NEW c \in Calls, NEW v \in Dispatch!Verdicts
  PROVE  LET d == Dispatch!Decide(c, v)
         IN  /\ d \in Calls /\ d.at = c.at /\ d.adapter = c.adapter /\ d.form = c.form /\ d.auto = c.auto
             /\ d.tool = c.tool /\ d.value = c.value
             /\ c.decided = <<>> =>
                  /\ Len(d.decided) = 1 /\ d.decided[1].verdict = v
                  /\ d.decided[1].tool = c.tool /\ d.decided[1].value = c.value
<1> DEFINE One == [tool : Actors, value : Values, verdict : Dispatch!Verdicts]
           r == [tool |-> c.tool, value |-> c.value, verdict |-> v]
           s == Append(c.decided, r)
           d == [c EXCEPT !.decided = s]
<1>1. c.decided \in Seq(One) /\ r \in One /\ r.verdict = v /\ r.tool = c.tool /\ r.value = c.value
  BY DEF Calls, Stages
<1>2. Dispatch!Decide(c, v) = d BY DEF Dispatch!Decide
<1> HIDE DEF r, One
<1>3. s \in Seq(One) /\ (c.decided = <<>> => Len(s) = 1 /\ s[1] = r)
  BY <1>1
<1> HIDE DEF s
<1>4. /\ d \in Calls /\ d.at = c.at /\ d.adapter = c.adapter /\ d.form = c.form /\ d.auto = c.auto
      /\ d.tool = c.tool /\ d.value = c.value /\ d.decided = s
  BY <1>3 DEF Calls, Stages, One
<1> HIDE DEF d
<1>5. QED BY <1>1, <1>2, <1>3, <1>4

(* A call that leaves the boundary for no body is governed whatever else. *)
LEMMA Leaving ==
  ASSUME NEW c \in Calls, c.form \in Dispatch!Forms(c.adapter),
         c.at \in {"blocked", "raised", "cancelled", "native"}
  PROVE  Governed(c)
BY DEF Governed

LEMMA Settling ==
  ASSUME DispatchInv, dispatched.at = "guard", NEW v \in Dispatch!Verdicts, NEW masks \in BOOLEAN,
         v = "mask" /\ dispatched.form \in {"mapping", "keyword"} => masks,
         Dispatch!Settle(v, masks)
  PROVE  DispatchInv'
<1> DEFINE d == Dispatch!Decide(dispatched, v)
           p == IF v \in Dispatch!Blocking THEN "raised" ELSE "run"
           m == v = "mask" /\ masks
           c == [d EXCEPT !.at = p, !.masked = m]
<1>1. dispatched' = c BY DEF Dispatch!Settle
<1>2. dispatched \in Calls /\ dispatched.form \in Dispatch!Forms(dispatched.adapter)
      /\ (dispatched.auto => dispatched.decided = <<>>)
  BY DEF DispatchInv, Governed
<1>3. /\ d \in Calls /\ d.adapter = dispatched.adapter /\ d.form = dispatched.form
      /\ d.auto = dispatched.auto /\ d.tool = dispatched.tool /\ d.value = dispatched.value
      /\ d.auto => /\ Len(d.decided) = 1 /\ d.decided[1].verdict = v
                   /\ d.decided[1].tool = d.tool /\ d.decided[1].value = d.value
  BY <1>2, Deciding
<1>4. p \in {"raised", "run"} /\ m \in BOOLEAN /\ (p = "run" => v \notin Dispatch!Blocking) OBVIOUS
<1>5. v = "mask" /\ dispatched.form \in {"mapping", "keyword"} => m OBVIOUS
<1> HIDE DEF d, p, m
<1>6. /\ c \in Calls /\ c.at = p /\ c.masked = m /\ c.adapter = d.adapter /\ c.form = d.form
      /\ c.auto = d.auto /\ c.tool = d.tool /\ c.value = d.value /\ c.decided = d.decided
  BY <1>3, <1>4 DEF Calls, Stages
<1> HIDE DEF c
<1>7. Governed(c) BY <1>2, <1>3, <1>4, <1>5, <1>6 DEF Governed, Decided
<1>8. QED BY <1>1, <1>7 DEF DispatchInv

LEMMA Stopping ==
  ASSUME DispatchInv, NEW v \in Dispatch!Verdicts, NEW p \in {"blocked", "raised"},
         dispatched' = [Dispatch!Decide(dispatched, v) EXCEPT !.at = p]
  PROVE  DispatchInv'
<1> DEFINE d == Dispatch!Decide(dispatched, v)
           c == [d EXCEPT !.at = p]
<1>1. dispatched \in Calls /\ dispatched.form \in Dispatch!Forms(dispatched.adapter)
  BY DEF DispatchInv, Governed
<1>2. d \in Calls /\ d.adapter = dispatched.adapter /\ d.form = dispatched.form BY <1>1, Deciding
<1> HIDE DEF d
<1>p. p \in Stages BY DEF Stages
<1>3. c \in Calls /\ c.at = p /\ c.adapter = d.adapter /\ c.form = d.form BY <1>2, <1>p, Going
<1>4. dispatched' = c BY DEF d
<1> HIDE DEF c
<1>5. QED BY <1>1, <1>2, <1>3, <1>4, Leaving DEF DispatchInv

\* Whatever a boundary's guard decides, the call leaves it governed.
LEMMA GuardStep == ASSUME DispatchInv, Dispatch!Guard PROVE DispatchInv'
<1> USE DEF Dispatch!At, Dispatch!Is
<1>0. /\ dispatched \in Calls /\ dispatched.at = "guard"
      /\ dispatched.form \in Dispatch!Forms(dispatched.adapter)
  BY DEF DispatchInv, Governed, Dispatch!Guard
<1>1. CASE Dispatch!Refuses(dispatched.adapter, dispatched.form)
  <2> DEFINE c == [dispatched EXCEPT !.at = "raised"]
  <2>1. dispatched' = c BY <1>1 DEF Dispatch!Guard
  <2>2. c \in Calls /\ c.at = "raised" /\ c.adapter = dispatched.adapter /\ c.form = dispatched.form
    BY <1>0, Going DEF Stages
  <2> HIDE DEF c
  <2>3. QED BY <1>0, <2>1, <2>2, Leaving DEF DispatchInv
<1>2. ASSUME NEW v \in Dispatch!Verdicts,
             \/ Dispatch!Decorated(v) \/ Dispatch!Wrapped(v) \/ Dispatch!MethodGuard(v)
             \/ Dispatch!Langchain(v) \/ Dispatch!Genai(v) \/ Dispatch!Litellm(v) \/ Dispatch!Openai(v)
             \/ Dispatch!Terminal(v) \/ Dispatch!Adk(v)
      PROVE  DispatchInv'
  <2>1. PICK masks \in BOOLEAN : /\ Dispatch!Settle(v, masks)
                                 /\ dispatched.form \in {"mapping", "keyword"} => masks
    BY <1>0, <1>2 DEF Dispatch!Decorated, Dispatch!Wrapped, Dispatch!MethodGuard, Dispatch!Langchain,
       Dispatch!Genai, Dispatch!Litellm, Dispatch!Openai, Dispatch!Terminal, Dispatch!Adk, Dispatch!Forms
  <2>2. QED BY <1>0, <2>1, Settling
<1>3. ASSUME NEW v \in Dispatch!Verdicts, Dispatch!Strands(v) \/ Dispatch!Pydantic(v) PROVE DispatchInv'
  <2>1. CASE Dispatch!Settle(v, TRUE) BY <1>0, <2>1, Settling
  <2>2. CASE Dispatch!Stops(v) BY <2>2, Stopping DEF Dispatch!Stops
  <2>3. QED BY <1>3, <2>1, <2>2 DEF Dispatch!Strands, Dispatch!Pydantic
<1>4. ASSUME NEW v \in Dispatch!Verdicts, Dispatch!Temporal(v) PROVE DispatchInv'
  <2> USE <1>4
  <2> DEFINE masks == dispatched.form = "mapping"
  <2>1. masks \in BOOLEAN /\ (dispatched.form \in {"mapping", "keyword"} => masks)
    BY <1>0 DEF Dispatch!Temporal, Dispatch!Forms
  <2>2. CASE Dispatch!Settle(v, masks)
    <3> HIDE DEF masks
    <3>1. QED BY <1>0, <2>1, <2>2, Settling
  <2>3. CASE Dispatch!Stops(v) BY <2>3, Stopping DEF Dispatch!Stops
  <2>4. QED BY <2>2, <2>3 DEF Dispatch!Temporal
<1>5. ASSUME NEW v \in Dispatch!Verdicts, Dispatch!Hermes(v) PROVE DispatchInv'
  <2> USE <1>5
  <2>1. CASE v = "allow"
    <3> USE <2>1
    <3> DEFINE d == Dispatch!Decide(dispatched, v)
               c == [d EXCEPT !.at = "run"]
    <3>1. dispatched' = c BY DEF Dispatch!Hermes
    <3>2. dispatched.auto => dispatched.decided = <<>> BY <1>0 DEF DispatchInv, Governed
    <3>3. /\ d \in Calls /\ d.adapter = dispatched.adapter /\ d.form = dispatched.form
          /\ d.auto = dispatched.auto /\ d.tool = dispatched.tool /\ d.value = dispatched.value
          /\ d.auto => /\ Len(d.decided) = 1 /\ d.decided[1].verdict = v
                       /\ d.decided[1].tool = d.tool /\ d.decided[1].value = d.value
      BY <1>0, <3>2, Deciding
    <3> HIDE DEF d
    <3>4. /\ c \in Calls /\ c.at = "run" /\ c.adapter = d.adapter /\ c.form = d.form
          /\ c.auto = d.auto /\ c.tool = d.tool /\ c.value = d.value /\ c.decided = d.decided
      BY <3>3, Going, ZenonT(40) DEF Stages
    <3> HIDE DEF c
    <3>5. QED BY <1>0, <3>1, <3>3, <3>4 DEF DispatchInv, Governed, Decided, Dispatch!Blocking
  <2>2. CASE v # "allow"
    <3>1. dispatched' = [Dispatch!Decide(dispatched, v) EXCEPT !.at = "blocked"]
      BY <2>2 DEF Dispatch!Hermes
    <3>2. QED BY <3>1, Stopping
  <2>3. QED BY <2>1, <2>2
<1>6. ASSUME NEW v \in Dispatch!Verdicts, Dispatch!Node(v) PROVE DispatchInv'
  <2> USE <1>6
  <2> DEFINE d == Dispatch!Decide(dispatched, v)
             p == IF v \in Dispatch!Blocking THEN "raised"
                  ELSE IF dispatched.inner THEN "inner" ELSE "run"
             a == v \notin Dispatch!Blocking
             m == v = "mask" /\ dispatched.form = "mapping"
             c == [d EXCEPT !.at = p, !.admitted = a, !.masked = m]
  <2>1. dispatched' = c BY DEF Dispatch!Node
  <2>2. /\ dispatched.auto => dispatched.decided = <<>>
        /\ dispatched.form \in {"mapping", "object"}
    BY <1>0 DEF DispatchInv, Governed, Dispatch!Node, Dispatch!Forms
  <2>3. /\ d \in Calls /\ d.adapter = dispatched.adapter /\ d.form = dispatched.form
        /\ d.auto = dispatched.auto /\ d.tool = dispatched.tool /\ d.value = dispatched.value
        /\ d.auto => /\ Len(d.decided) = 1 /\ d.decided[1].verdict = v
                     /\ d.decided[1].tool = d.tool /\ d.decided[1].value = d.value
    BY <1>0, <2>2, Deciding
  <2>4. /\ p \in {"raised", "inner", "run"} /\ a \in BOOLEAN /\ m \in BOOLEAN
        /\ p # "raised" => v \notin Dispatch!Blocking /\ a
        /\ v = "mask" /\ dispatched.form \in {"mapping", "keyword"} => m
    BY <2>2
  <2> HIDE DEF d, p, a, m
  <2>5. /\ c \in Calls /\ c.at = p /\ c.admitted = a /\ c.masked = m /\ c.adapter = d.adapter
        /\ c.form = d.form /\ c.auto = d.auto /\ c.tool = d.tool /\ c.value = d.value
        /\ c.decided = d.decided
    BY <2>3, <2>4 DEF Calls, Stages
  <2> HIDE DEF c
  <2>6. Governed(c) BY <1>0, <2>2, <2>3, <2>4, <2>5 DEF Governed, Decided
  <2>7. QED BY <2>1, <2>6 DEF DispatchInv
<1>7. QED BY <1>1, <1>2, <1>3, <1>4, <1>5, <1>6 DEF Dispatch!Guard

(* A hook attached by hand decides only where no automatic guard does. *)
LEMMA HookStep == ASSUME DispatchInv, Dispatch!Hook PROVE DispatchInv'
<1> USE DEF Dispatch!At, Dispatch!Is
<1>0. /\ dispatched \in Calls /\ dispatched.at = "callbacks"
      /\ dispatched.form \in Dispatch!Forms(dispatched.adapter)
  BY DEF DispatchInv, Governed, Dispatch!Hook
<1> USE <1>0
<1>1. CASE dispatched.auto
  <2> DEFINE c == [dispatched EXCEPT !.hooked = TRUE]
  <2>1. dispatched' = c BY <1>1 DEF Dispatch!Hook
  <2>2. /\ c \in Calls /\ c.at = "callbacks" /\ c.adapter = dispatched.adapter
        /\ c.form = dispatched.form /\ c.auto = dispatched.auto /\ c.decided = dispatched.decided
    BY DEF Calls, Stages
  <2> HIDE DEF c
  <2>3. QED BY <2>1, <2>2 DEF DispatchInv, Governed
<1>2. CASE ~dispatched.auto
  <2> USE <1>2
  <2>1. PICK v \in Dispatch!Verdicts :
          dispatched' = Dispatch!HookEnds([Dispatch!Decide(dispatched, v) EXCEPT !.hooked = TRUE], v)
    BY DEF Dispatch!Hook
  <2> DEFINE d == Dispatch!Decide(dispatched, v)
             h == [d EXCEPT !.hooked = TRUE]
  <2>2. /\ d \in Calls /\ d.at = "callbacks" /\ d.adapter = dispatched.adapter
        /\ d.form = dispatched.form /\ d.auto = dispatched.auto
    BY Deciding
  <2> HIDE DEF d
  <2>3. /\ h \in Calls /\ h.at = "callbacks" /\ h.adapter = dispatched.adapter
        /\ h.form = dispatched.form /\ ~h.auto
    BY <2>2 DEF Calls, Stages
  <2> USE <2>3
  <2>4. dispatched' = Dispatch!HookEnds(h, v) BY <2>1 DEF d
  <2> HIDE DEF h
  <2>5. CASE dispatched' = h BY <2>5 DEF DispatchInv, Governed
  <2>6. ASSUME NEW p \in {"raised", "blocked"}, dispatched' = [h EXCEPT !.at = p] PROVE DispatchInv'
    <3> USE <2>6
    <3> DEFINE c == [h EXCEPT !.at = p]
    <3>p. p \in Stages BY DEF Stages
    <3>1. c \in Calls /\ c.at = p /\ c.adapter = h.adapter /\ c.form = h.form BY <3>p, Going
    <3>2. dispatched' = c OBVIOUS
    <3> HIDE DEF c
    <3>3. QED BY <3>1, <3>2, Leaving DEF DispatchInv
  <2>7. ASSUME NEW m \in BOOLEAN, dispatched' = [h EXCEPT !.masked = m] PROVE DispatchInv'
    <3> DEFINE c == [h EXCEPT !.masked = m]
    <3>1. /\ c \in Calls /\ c.at = h.at /\ c.adapter = h.adapter /\ c.form = h.form
          /\ c.auto = h.auto
      BY DEF Calls, Stages
    <3>2. dispatched' = c BY <2>7
    <3> HIDE DEF c
    <3>3. QED BY <3>1, <3>2 DEF DispatchInv, Governed
  <2>8. CASE v = "mask" /\ dispatched.adapter # "hermes"
    <3> DEFINE m == dispatched.adapter \in {"adk", "manager"} /\ h.form = "mapping"
    <3>1. dispatched' = [h EXCEPT !.masked = m] BY <2>4, <2>8 DEF Dispatch!HookEnds
    <3>2. m \in BOOLEAN OBVIOUS
    <3> HIDE DEF m
    <3>3. QED BY <2>7, <3>1, <3>2
  <2>9. CASE v # "mask" \/ dispatched.adapter = "hermes"
    <3>1. \/ dispatched' = h
          \/ dispatched' = [h EXCEPT !.at = "raised"] \/ dispatched' = [h EXCEPT !.at = "blocked"]
      BY <2>4, <2>9 DEF Dispatch!HookEnds, Dispatch!Verdicts
    <3>2. QED BY <2>5, <2>6, <3>1
  <2>10. QED BY <2>8, <2>9
<1>3. QED BY <1>1, <1>2

LEMMA DispatchStep ==
  ASSUME DispatchInv, [Dispatch!Next]_dispatched PROVE DispatchInv'
<1> USE DEF Dispatch!At, Dispatch!Is
<1>0. dispatched \in Calls /\ dispatched.form \in Dispatch!Forms(dispatched.adapter)
  BY DEF DispatchInv, Governed
<1> USE <1>0
<1>1. CASE Dispatch!Rewrite
  <2> USE <1>1
  <2>1. PICK t \in Actors, v \in Values :
          dispatched' = [dispatched EXCEPT !.tool = t, !.value = v, !.changed = TRUE]
    BY DEF Dispatch!Rewrite
  <2> DEFINE c == [dispatched EXCEPT !.tool = t, !.value = v, !.changed = TRUE]
  <2>2. /\ c \in Calls /\ c.at = dispatched.at /\ c.adapter = dispatched.adapter
        /\ c.form = dispatched.form /\ c.auto = dispatched.auto /\ c.decided = dispatched.decided
    BY DEF Calls, Stages
  <2>3. dispatched' = c BY <2>1
  <2> HIDE DEF c
  <2>4. dispatched.at = "callbacks" BY DEF Dispatch!Rewrite
  <2>5. QED BY <2>2, <2>3, <2>4 DEF DispatchInv, Governed
<1>2. ASSUME NEW p \in {"cancelled", "native"}, dispatched' = [dispatched EXCEPT !.at = p]
      PROVE  DispatchInv'
  <2> USE <1>2
  <2> DEFINE c == [dispatched EXCEPT !.at = p]
  <2>p. p \in Stages BY DEF Stages
  <2>1. c \in Calls /\ c.at = p /\ c.adapter = dispatched.adapter /\ c.form = dispatched.form
    BY <2>p, Going
  <2>2. dispatched' = c OBVIOUS
  <2> HIDE DEF c
  <2>3. QED BY <2>1, <2>2, Leaving DEF DispatchInv
<1>3. CASE Dispatch!Cancel BY <1>2, <1>3 DEF Dispatch!Cancel
<1>4. CASE Dispatch!Native BY <1>2, <1>4 DEF Dispatch!Native
<1>5. CASE Dispatch!Hook BY <1>5, HookStep
<1>6. CASE Dispatch!Arrive
  <2> DEFINE p == IF dispatched.auto THEN "guard" ELSE "run"
             c == [dispatched EXCEPT !.at = p]
  <2>1. dispatched' = c /\ dispatched.at = "callbacks" BY <1>6 DEF Dispatch!Arrive
  <2>2. p \in {"guard", "run"} /\ (dispatched.auto => p = "guard") OBVIOUS
  <2> HIDE DEF p
  <2>3. /\ c \in Calls /\ c.at = p /\ c.adapter = dispatched.adapter /\ c.form = dispatched.form
        /\ c.auto = dispatched.auto /\ c.decided = dispatched.decided
    <3>1. p \in Stages BY <2>2 DEF Stages
    <3>2. QED BY <3>1, Going
  <2> HIDE DEF c
  <2>4. QED BY <2>1, <2>2, <2>3 DEF DispatchInv, Governed
<1>7. CASE Dispatch!HermesBridge
  <2> DEFINE c == [dispatched EXCEPT !.inner = FALSE]
  <2>1. dispatched' = c /\ dispatched.at = "guard" BY <1>7 DEF Dispatch!HermesBridge
  <2>2. /\ c \in Calls /\ c.at = dispatched.at /\ c.adapter = dispatched.adapter
        /\ c.form = dispatched.form /\ c.auto = dispatched.auto /\ c.decided = dispatched.decided
    BY DEF Calls, Stages
  <2> HIDE DEF c
  <2>3. QED BY <2>1, <2>2 DEF DispatchInv, Governed
<1>8. CASE Dispatch!NodeInner
  <2> USE <1>8
  <2> DEFINE c == [dispatched EXCEPT !.at = "run"]
  <2>1. dispatched.at = "inner" /\ (dispatched.auto => Decided(dispatched)) /\ dispatched.admitted
    BY DEF Dispatch!NodeInner, DispatchInv, Governed
  <2>2. dispatched' = c BY <2>1 DEF Dispatch!NodeInner
  <2>3. /\ c \in Calls /\ c.at = "run" /\ c.adapter = dispatched.adapter /\ c.form = dispatched.form
        /\ c.auto = dispatched.auto /\ c.tool = dispatched.tool /\ c.value = dispatched.value
        /\ c.masked = dispatched.masked /\ c.decided = dispatched.decided
    BY Going, ZenonT(40) DEF Stages
  <2> HIDE DEF c
  <2>4. QED BY <2>1, <2>2, <2>3 DEF DispatchInv, Governed, Decided
<1>9. CASE Dispatch!Guard BY <1>9, GuardStep
<1>10. CASE Dispatch!Run
  <2> DEFINE c == [dispatched EXCEPT !.at = "ran", !.admitted = FALSE]
  <2>1. dispatched' = c /\ (dispatched.auto => Decided(dispatched))
    BY <1>10 DEF Dispatch!Run, DispatchInv, Governed
  <2>2. /\ c \in Calls /\ c.at = "ran" /\ c.adapter = dispatched.adapter /\ c.form = dispatched.form
        /\ c.auto = dispatched.auto /\ c.tool = dispatched.tool /\ c.value = dispatched.value
        /\ c.masked = dispatched.masked /\ c.decided = dispatched.decided
    BY DEF Calls, Stages
  <2> HIDE DEF c
  <2>3. QED BY <2>1, <2>2 DEF DispatchInv, Governed, Decided
<1>11. CASE UNCHANGED dispatched BY <1>11 DEF DispatchInv
<1>12. QED
  BY <1>1, <1>3, <1>4, <1>5, <1>6, <1>7, <1>8, <1>9, <1>10, <1>11 DEF Dispatch!Next

\* The contexts: no entry expires later than a time to live after the last tick.
ContextTimes ==
  /\ today \in 1..MaxDay /\ creating \subseteq Prefixes
  /\ \A p \in Prefixes : entries[p] \in 0..(MaxDay + TTL)

LEMMA ContextWhole == ASSUME ContextInv, ContextTimes PROVE Contexts!TypeOK
<1>1. entries \in [Prefixes -> 0..(MaxDay + TTL)] BY DEF ContextInv, ContextTimes
<1>2. \A j \in creations : j.prefix \in Prefixes /\ j.at \in {"queued", "sent"} /\ j.by \in Actors
  BY DEF ContextInv, Jobs
<1>3. generation \in [Actors -> [at : {"rest", "claim", "generate"}, prefix : Prefixes \cup {Off},
                                 used : BOOLEAN]]
  BY DEF ContextInv
<1>4. QED BY <1>1, <1>2, <1>3 DEF ContextTimes, Contexts!TypeOK

LEMMA ContextTimesStart == ASSUME Contexts!Init PROVE ContextTimes
<1>1. MaxDay \in Nat \ {0} /\ TTL \in Nat BY BoundsAssumption
<1>2. today = 1 /\ creating = {} /\ \A p \in Prefixes : entries[p] = 0
  BY DEF Contexts!Init, Contexts!Unknown
<1>3. QED BY <1>1, <1>2 DEF ContextTimes

LEMMA ContextTimesStep ==
  ASSUME ContextInv, ContextTimes, [Contexts!Next]_contexts PROVE ContextTimes'
<1> USE DEF Contexts!At
<1>0. /\ MaxDay \in Nat \ {0} /\ TTL \in Nat /\ today \in 1..MaxDay /\ creating \subseteq Prefixes
      /\ entries \in [Prefixes -> Nat] /\ \A p \in Prefixes : entries[p] \in 0..(MaxDay + TTL)
      /\ \A j \in creations : j.prefix \in Prefixes
      /\ \A c \in Actors : generation[c].at = "claim" => generation[c].prefix \in Prefixes
  BY BoundsAssumption DEF ContextInv, ContextTimes, Jobs
<1> USE <1>0
<1>1. ASSUME NEW p \in Prefixes, NEW e \in 0..(MaxDay + TTL), entries' = [entries EXCEPT ![p] = e],
             UNCHANGED today, creating' \subseteq Prefixes
      PROVE  ContextTimes'
  <2> USE <1>1
  <2>1. \A q \in Prefixes : entries'[q] = IF q = p THEN e ELSE entries[q] OBVIOUS
  <2>2. \A q \in Prefixes : entries'[q] \in 0..(MaxDay + TTL) BY <2>1
  <2>3. QED BY <2>2 DEF ContextTimes
<1>2. ASSUME UNCHANGED <<today, entries>>, creating' \subseteq Prefixes PROVE ContextTimes'
  BY <1>2 DEF ContextTimes
<1>3. 0 \in 0..(MaxDay + TTL) /\ today + TTL \in 0..(MaxDay + TTL) OBVIOUS
<1>4. ASSUME NEW c \in Actors, NEW p \in Prefixes, Contexts!Attach(c, p) PROVE ContextTimes'
  <2>1. UNCHANGED <<today, creating>> /\ (UNCHANGED entries \/ entries' = [entries EXCEPT ![p] = 0])
    BY <1>4 DEF Contexts!Attach, Contexts!Unknown
  <2>2. QED BY <1>1, <1>2, <1>3, <2>1
<1>5. ASSUME NEW c \in Actors, Contexts!AttachOwn(c) \/ Contexts!Claim(c) \/ Contexts!Generate(c)
      PROVE  ContextTimes'
  <2> USE <1>5
  <2>1. UNCHANGED <<today, entries>>
    BY DEF Contexts!AttachOwn, Contexts!Claim, Contexts!Generate
  <2>2. creating' \subseteq Prefixes
    BY DEF Contexts!AttachOwn, Contexts!Claim, Contexts!Generate
  <2>3. QED BY <1>2, <2>1, <2>2
<1>6. ASSUME NEW j \in creations, Contexts!Send(j) PROVE ContextTimes'
  BY <1>2, <1>6 DEF Contexts!Send
<1>7. ASSUME NEW j \in creations, Contexts!Remember(j) \/ Contexts!Forget(j) PROVE ContextTimes'
  <2> USE <1>7
  <2>1. PICK e \in {0, today + TTL} : entries' = [entries EXCEPT ![j.prefix] = e]
    BY DEF Contexts!Remember, Contexts!Forget, Contexts!Unknown
  <2>2. UNCHANGED today /\ creating' = creating \ {j.prefix}
    BY DEF Contexts!Remember, Contexts!Forget
  <2>3. e \in 0..(MaxDay + TTL) /\ j.prefix \in Prefixes /\ creating' \subseteq Prefixes
    BY <1>3, <2>2
  <2>4. QED BY <1>1, <2>1, <2>2, <2>3
<1>8. CASE Contexts!Tick
  <2> USE <1>8
  <2>1. today' \in 1..MaxDay BY DEF Contexts!Tick
  <2>2. UNCHANGED <<entries, creating>> BY DEF Contexts!Tick
  <2>3. QED BY <2>1, <2>2 DEF ContextTimes
<1>9. CASE UNCHANGED contexts
  <2>1. UNCHANGED <<today, entries, creating>> BY <1>9 DEF contexts
  <2>2. QED BY <1>2, <2>1
<1>10. QED
  BY <1>4, <1>5, <1>6, <1>7, <1>8, <1>9 DEF Contexts!Next

LEMMA DispatchWhole == ASSUME DispatchInv PROVE Dispatch!TypeOK
<1>1. dispatched \in Calls BY DEF DispatchInv, Governed
<1>2. \A i \in 1..Len(dispatched.decided) : dispatched.decided[i].verdict \in Dispatch!Verdicts
  <2> DEFINE T == [tool : Actors, value : Values, verdict : Dispatch!Verdicts]
  <2>1. PICK s : s = dispatched.decided OBVIOUS
  <2>2. s \in Seq(T) BY <1>1, <2>1 DEF Calls
  <2> HIDE DEF T
  <2>3. \A i \in 1..Len(s) : s[i] \in T BY <2>2, ElementOfSeq
  <2>4. \A i \in 1..Len(s) : s[i].verdict \in Dispatch!Verdicts BY <2>3 DEF T
  <2>5. QED BY <2>1, <2>4
<1>3. QED BY <1>1, <1>2 DEF Calls, Stages, Dispatch!TypeOK
=============================================================================
