------------------------------ MODULE Redaction ------------------------------
(***************************************************************************)
(* What an obligation does to the arguments of a call (obligations.py).    *)
(* An argument is the class of its name and the class of its value; the    *)
(* words in the field tables and the patterns are abstracted to classes.   *)
(* Card numbers are told from other numbers by their check digit.          *)
(***************************************************************************)
EXTENDS Naturals, Sequences, SequencesExt

CONSTANT MaxDigits   \* bound: digits of a candidate card number

VARIABLE case

Names  == {"pii", "secret", "phi", "bank", "value", "other"}
Kinds  == {"text", "number", "issued", "card"}
Hidden == "***"
Obligations == {"mask:pii", "redact:secrets", "redact:phi", "redact:card-numbers",
                "redact:bank-accounts", "redact:value", "unknown"}
Argument == [name : Names, value : Kinds \cup {Hidden}]

\* One argument of every class, alone or before a card number: arguments are
\* redacted one by one.
ArgLists == UNION {{<<a>>, <<a, [name |-> "other", value |-> "card"]>>} : a \in [name : Names, value : Kinds]}

TypeOK ==
  /\ case.at \in {"call", "done", "digits"}
  /\ case.at # "digits" => /\ \A i \in 1..Len(case.args) : case.args[i] \in Argument
                           /\ case.positional \in 0..Len(case.args)

Init ==
  \/ \E args \in ArgLists, bindable \in BOOLEAN, o, p \in Obligations :
       \E n \in 0..Len(args) :
         case = [at |-> "call", args |-> args, positional |-> n, bindable |-> bindable,
                 obligations |-> <<o, p>>, out |-> <<>>]
  \/ \E n \in 1..MaxDigits : \E d \in [1..n -> 0..9] : case = [at |-> "digits", digits |-> d]

----------------------------------------------------------------------------
IsString(v) == v \in {"text", "issued", "card", Hidden}

\* Redaction by the field's name, whatever the value.
ByField(a, name) == IF a.name = name THEN [a EXCEPT !.value = Hidden] ELSE a

MaskPii(a) == IF a.name = "pii" /\ IsString(a.value) THEN [a EXCEPT !.value = Hidden] ELSE a

\* Credential-shaped names, and credential-shaped values under any name.
RedactSecrets(a) ==
  IF ByField(a, "secret").value = "issued" THEN [a EXCEPT !.value = Hidden] ELSE ByField(a, "secret")

RedactCards(a) == IF a.value = "card" THEN [a EXCEPT !.value = Hidden] ELSE a

\* The table of handlers; an obligation it does not know changes nothing.
Handle(o, a) ==
  CASE o = "mask:pii"             -> MaskPii(a)
    [] o = "redact:secrets"       -> RedactSecrets(a)
    [] o = "redact:phi"           -> ByField(a, "phi")
    [] o = "redact:card-numbers"  -> RedactCards(a)
    [] o = "redact:bank-accounts" -> ByField(a, "bank")
    [] o = "redact:value"         -> ByField(a, "value")
    [] OTHER -> a

\* One obligation after the other.
Masked(a, obligations) ==
  LET out[n \in 0..Len(obligations)] == IF n = 0 THEN a ELSE Handle(obligations[n], out[n - 1])
  IN out[Len(obligations)]

Apply(args, obligations) == [i \in DOMAIN args |-> Masked(args[i], obligations)]

\* Mutant: what is passed by position is left alone.
ApplyToCallByName(args, n, bindable, obligations) ==
  SubSeq(args, 1, n) \o Apply(SubSeq(args, n + 1, Len(args)), obligations)

\* Arguments by position are bound to their names, redacted and put back; when
\* they cannot be bound they pass unchanged.
ApplyToCall(args, n, bindable, obligations) ==
  LET named == Apply(SubSeq(args, n + 1, Len(args)), obligations)
      first == SubSeq(args, 1, n)
  IN (IF bindable THEN Apply(first, obligations) ELSE first) \o named

Redact ==
  /\ case.at = "call"
  /\ case' = [case EXCEPT !.at = "done",
                !.out = ApplyToCall(case.args, case.positional, case.bindable, case.obligations)]

Next == Redact

----------------------------------------------------------------------------
(* The check digit. *)

Digit(d, i) == LET v == d[i] * 2 IN IF v > 9 THEN v - 9 ELSE v

Total(worth) ==
  LET t[i \in 0..Len(worth)] == IF i = 0 THEN 0 ELSE t[i - 1] + worth[i] IN t[Len(worth)]

\* _luhn_valid counts from the left, with the parity of the length.
LuhnValid(d) ==
  LET parity == Len(d) % 2
      worth(i) == IF (i - 1) % 2 = parity THEN Digit(d, i) ELSE d[i]
  IN Total([i \in 1..Len(d) |-> worth(i)]) % 10 = 0

\* The definition: every second digit from the right is doubled, and the
\* digits of the products are added up.
LuhnReference(d) ==
  LET r == Reverse(d)
      digits(v) == (v \div 10) + (v % 10)
      worth(i) == IF i % 2 = 0 THEN digits(2 * r[i]) ELSE r[i]
  IN Total([i \in 1..Len(d) |-> worth(i)]) % 10 = 0

----------------------------------------------------------------------------
(* Properties. *)

\* Calling by position hides no more and no less than calling by name, redacting
\* once more or in another order changes nothing
\* (obligations.py:238-252, README.md:1048).
PositionAsName ==
  (case.at = "done" /\ case.bindable) =>
    /\ case.out = Apply(case.args, case.obligations)
    /\ case.out = Apply(case.out, case.obligations)
    /\ case.out = Apply(case.args, Reverse(case.obligations))

\* The check digit is the usual one.
CardsAreCards == case.at = "digits" => (LuhnValid(case.digits) <=> LuhnReference(case.digits))
=============================================================================
