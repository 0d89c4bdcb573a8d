------------------------------ MODULE Normalize ------------------------------
(***************************************************************************)
(* The path of one payment's data: the raw map SubmitPayment builds, the   *)
(* amount it writes as text and reads back, the validator, the columns of  *)
(* the transactions row, and the checks of the ledger consumer.            *)
(*                                                                         *)
(* Integers go from -Half to Half - 1.  An int64 has Half = 2^63, and what *)
(* matters of that number is its remainder on division by 100: it is 8, as *)
(* it is for 2^23.                                                         *)
(***************************************************************************)
EXTENDS Integers, Sequences

CONSTANTS
    Half,       \* 2^63 for an int64
    Requests,   \* what clients send (see RequestKeys)
    Absent      \* a request without an Amount message

\* meta holds the metadata entries that meet a key of the raw map.
RequestKeys == {"source", "minor", "currency", "account", "meta"}
RawKeys == {"payment_id", "account_id", "currency", "amount", "card_number",
            "upi_id"}

MinInt == -Half
MaxInt == Half - 1
Ints == MinInt .. MaxInt

\* Arithmetic wraps around.
Wrap(n) == ((n + Half) % (2 * Half)) - Half

\* Go's division and remainder truncate towards zero.
Quo(n, d) == IF n >= 0 THEN n \div d ELSE -((-n) \div d)
Rem(n, d) == n - d * Quo(n, d)

-----------------------------------------------------------------------------
(***************************************************************************)
(* Amounts as text.  A text is an optional "-" and the parts between its   *)
(* dots.  A part is a sign ("" for none, "x" when the part is no number at *)
(* all) and len digits with the value val; a len of Many is Many or more.  *)
(***************************************************************************)
Many == 3

Part(sign, val, len) == [sign |-> sign, val |-> val, len |-> len]
Text(negative, parts) == [negative |-> negative, parts |-> parts]

EmptyPart == Part("", 0, 0)
EmptyText == Text(FALSE, <<EmptyPart>>)

Length(part) == part.len + (IF part.sign = "" THEN 0 ELSE 1)

\* 10 to the power of k, for the k that occur.
TenTo(k) == IF k = 0 THEN 1 ELSE IF k = 1 THEN 10 ELSE 100

\* Whether a part or a text is one that can be written.
IsPart(p) ==
    /\ p = Part(p.sign, p.val, p.len)
    /\ p.sign \in {"", "-", "+", "x"} /\ p.val \in Nat /\ p.len \in 0 .. Many
    /\ p.len < Many => p.val < TenTo(p.len)

IsText(t) ==
    /\ t = Text(t.negative, t.parts)
    /\ t.negative \in BOOLEAN
    /\ Len(t.parts) \in Nat \ {0} /\ DOMAIN t.parts = 1 .. Len(t.parts)
    /\ \A i \in DOMAIN t.parts : IsPart(t.parts[i])

ASSUME NormalizeAssumption ==
    /\ Half \in Nat /\ Half >= 100 /\ Half % 100 < 10
    /\ \A r \in Requests :
          /\ DOMAIN r = RequestKeys
          /\ r.minor # Absent => r.minor \in Ints
          /\ DOMAIN r.meta \subseteq RawKeys
          /\ "amount" \in DOMAIN r.meta => IsText(r.meta.amount)

\* %d and, with width 2, %02d: the sign counts for the width.
Decimal(n, width) ==
    LET abs == IF n < 0 THEN -n ELSE n
        signLen == IF n < 0 THEN 1 ELSE 0
        digits == IF abs < 10 THEN 1 ELSE IF abs < 100 THEN 2 ELSE Many
    IN  Part(IF n < 0 THEN "-" ELSE "", abs,
             IF digits + signLen < width THEN width - signLen ELSE digits)

\* Mutant: the minor units are not padded.
formatAmount_NoPad(minorUnits) ==
    LET value == IF minorUnits < 0 THEN Wrap(-minorUnits) ELSE minorUnits
    IN  Text(minorUnits < 0,
             <<Decimal(Quo(value, 100), 1), Decimal(Rem(value, 100), 1)>>)

\* The negation of the smallest integer is that integer, so its text has a
\* sign in each part.
formatAmount(minorUnits) ==
    LET value == IF minorUnits < 0 THEN Wrap(-minorUnits) ELSE minorUnits
    IN  Text(minorUnits < 0,
             <<Decimal(Quo(value, 100), 1), Decimal(Rem(value, 100), 2)>>)

\* strconv.ParseInt, as the number and whether there is one.
Value(part) == IF part.sign = "-" THEN -part.val ELSE part.val
Parses(part) == part.sign # "x" /\ part.len > 0 /\ Value(part) \in Ints

\* The minor units, filled up with zeros to two characters.
Pad(part) ==
    LET k == IF Length(part) < 2 THEN 2 - Length(part) ELSE 0
    IN  Part(part.sign, part.val * TenTo(k), part.len + k)

\* An empty major part stands for "0", a missing minor part for "00".
MajorPart(text) ==
    IF text.parts[1] = EmptyPart THEN Part("", 0, 1) ELSE text.parts[1]

\* Mutant: a single digit counts as hundredths.
MinorPart_NoPad(text) ==
    IF Len(text.parts) = 2 /\ text.parts[2] # EmptyPart
    THEN text.parts[2] ELSE Part("", 0, 2)

MinorPart(text) == Pad(IF Len(text.parts) = 2 THEN text.parts[2] ELSE EmptyPart)

\* Mutant: the total has no fixed width.
Total_Unbounded(text) ==
    LET total == Value(MajorPart(text)) * 100 + Value(MinorPart(text))
    IN  IF text.negative THEN -total ELSE total

\* The multiplication may overflow, and nothing looks at it.
Total(text) ==
    LET total == Wrap(Value(MajorPart(text)) * 100 + Value(MinorPart(text)))
    IN  IF text.negative THEN Wrap(-total) ELSE total

\* Whether parseAmount returns no error.
Readable(text) ==
    /\ text # EmptyText
    /\ Len(text.parts) <= 2
    /\ Length(MinorPart(text)) <= 2
    /\ Parses(MajorPart(text))
    /\ Parses(MinorPart(text))

-----------------------------------------------------------------------------
(***************************************************************************)
(* The raw map, the normalizers and the validators.                        *)
(***************************************************************************)

\* A key that is missing reads as the empty text.
Raw(r) ==
    LET fields == [payment_id |-> "uuid", account_id |-> r.account,
                   currency |-> r.currency,
                   amount |-> IF r.minor = Absent THEN EmptyText
                                                  ELSE formatAmount(r.minor),
                   card_number |-> "", upi_id |-> ""]
    IN  [k \in RawKeys |-> IF k \in DOMAIN r.meta THEN r.meta[k] ELSE fields[k]]

Registered == {"CARD", "UPI"}

Transaction(source, raw) ==
    [source |-> source, payment_id |-> raw.payment_id,
     account_id |-> raw.account_id, currency |-> raw.currency,
     minor |-> Total(raw.amount),
     instrument |-> IF source = "CARD" THEN raw.card_number ELSE raw.upi_id]

\* What strings.TrimSpace makes empty.
Blank(v) == v \in {"", " "}

\* Mutant: zero is let through.
DefaultValidator_Zero(t) ==
    ~Blank(t.currency) /\ t.minor >= 0 /\ ~Blank(t.instrument)

DefaultValidator(t) ==
    ~Blank(t.currency) /\ t.minor > 0 /\ ~Blank(t.instrument)

\* What RedisAdapter.Get finds for the account: nothing, an error or a value.
CacheAnswers == {"miss", "error", "active", "inactive", "other"}

AccountValidator(t, answer) == ~Blank(t.account_id) /\ answer = "active"

-----------------------------------------------------------------------------
VARIABLES
    validator,  \* Server.Validator: none, default or account
    req,
    txn,        \* the normalized transaction, then its event
    phase

vars == <<validator, req, txn, phase>>

Nothing == [source |-> "", payment_id |-> "", account_id |-> "",
            currency |-> "", minor |-> 0, instrument |-> ""]

Init ==
    /\ validator \in {"none", "default", "account"}
    /\ req \in Requests
    /\ txn = Nothing
    /\ phase = "received"

Normalize ==
    /\ phase = "received"
    /\ LET raw == Raw(req) IN
       IF req.source \in Registered /\ Readable(raw.amount)
       THEN /\ txn' = Transaction(req.source, raw)
            /\ phase' = "normalized"
       ELSE /\ phase' = "unreadable"
            /\ UNCHANGED txn
    /\ UNCHANGED <<validator, req>>

Validate ==
    /\ phase = "normalized"
    /\ \E answer \in CacheAnswers :
          LET ok == CASE validator = "none"    -> TRUE
                      [] validator = "default" -> DefaultValidator(txn)
                      [] validator = "account" -> AccountValidator(txn, answer)
          IN  phase' = IF ok THEN "validated" ELSE "invalid"
    /\ UNCHANGED <<validator, req, txn>>

\* payment_id is a UUID and currency a CHAR(3): the insert fails for others.
Storable(t) == t.payment_id = "uuid" /\ t.currency # "long"

Save ==
    /\ phase = "validated"
    /\ phase' = IF Storable(txn) THEN "booked" ELSE "unsaved"
    /\ UNCHANGED <<validator, req, txn>>

\* The consumer's check of the event's fields and Post's of the amount.
Malformed(t) == t.payment_id = "" \/ t.account_id = "" \/ t.currency = ""

Handle ==
    /\ phase = "booked"
    /\ phase' = IF Malformed(txn) \/ txn.minor <= 0 THEN "dead" ELSE "posted"
    /\ UNCHANGED <<validator, req, txn>>

Next == Normalize \/ Validate \/ Save \/ Handle

Spec == Init /\ [][Next]_vars

-----------------------------------------------------------------------------
(***************************************************************************)
(* Properties.                                                             *)
(***************************************************************************)

\* Every variable keeps its shape; in particular an amount is an integer of
\* the width, whatever the text.
TypeOK ==
    /\ validator \in {"none", "default", "account"}
    /\ DOMAIN req = RequestKeys
    /\ DOMAIN txn = DOMAIN Nothing
    /\ txn.minor \in Ints
    /\ phase \in {"received", "normalized", "validated", "booked", "posted",
                  "unreadable", "invalid", "unsaved", "dead"}

Normalized == phase \notin {"received", "unreadable"}

\* The detour through text loses nothing: the amount a client sends is the
\* amount of the transaction, at both ends of the integers too, unless the
\* metadata has an amount of its own.
RoundTrip ==
    /\ phase # "received"
    /\ req.source \in Registered
    /\ req.minor # Absent
    /\ "amount" \notin DOMAIN req.meta
    => Normalized /\ txn.minor = req.minor

\* Texts without stray signs and with two digits after the dot at most, and
\* the number they stand for.
WellFormed(t) ==
    /\ Len(t.parts) <= 2
    /\ \A i \in DOMAIN t.parts : t.parts[i].sign = ""
    /\ Len(t.parts) = 2 => t.parts[2].len <= 2

Denotes(t) ==
    LET cents == IF Len(t.parts) = 1 THEN 0
                 ELSE t.parts[2].val * TenTo(2 - t.parts[2].len)
        total == t.parts[1].val * 100 + cents
    IN  IF t.negative THEN -total ELSE total

\* An amount written by a client is read as the number it stands for when
\* that is an integer of this width, and modulo 2 * Half when it is not; it is
\* refused only when it is empty or its major units alone are too large.
TextExact ==
    /\ phase # "received"
    /\ req.source \in Registered
    /\ "amount" \in DOMAIN req.meta
    /\ WellFormed(req.meta.amount)
    => LET t == req.meta.amount IN
       /\ Normalized <=> t # EmptyText /\ t.parts[1].val <= MaxInt
       /\ Normalized => txn.minor = Wrap(Denotes(t))

\* Validators and consumers agree on what a payment needs: an event a consumer
\* refuses has passed no validator that looks at the field it is refused for.
\* No event is refused for its payment id, even when the metadata brings one.
DeadHasCause ==
    phase = "dead" =>
        \/ validator # "default" /\ (txn.minor <= 0 \/ txn.currency = "")
        \/ validator # "account" /\ txn.account_id = ""
=============================================================================
