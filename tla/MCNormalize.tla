----------------------------- MODULE MCNormalize -----------------------------
(***************************************************************************)
(* Values for model-checking Normalize: amounts around zero and at both    *)
(* ends of the integers, texts around the ends and with stray signs, and   *)
(* combinations of missing, blank and overridden fields.                   *)
(***************************************************************************)
EXTENDS Normalize

Near == 210

Amounts == (-Near .. Near) \cup (MinInt .. MinInt + Near) \cup (MaxInt - Near .. MaxInt)

Request(source, minor, currency, account, meta) ==
    [source |-> source, minor |-> minor, currency |-> currency,
     account |-> account, meta |-> meta]

ByAmount == {Request("CARD", m, "INR", "a1", [card_number |-> "4111"]) : m \in Amounts}

\* 83886.07 is the largest amount for Half = 2^23.
MajorParts ==
    {EmptyPart, Part("", 0, 2), Part("", 7, 1), Part("", 83886, Many),
     Part("", 83887, Many), Part("", MaxInt, Many), Part("", MaxInt + 1, Many),
     Part("-", 7, 1), Part("+", 7, 1), Part("-", 0, 0), Part("x", 0, 2)}

MinorParts ==
    {EmptyPart, Part("", 5, 1), Part("", 5, 2), Part("", 7, 2), Part("", 8, 2),
     Part("", 99, 2), Part("", 100, Many), Part("-", 8, 1), Part("+", 5, 1),
     Part("-", 0, 0), Part("-", 48, 2), Part("x", 0, 1)}

\* A text whose first part has a "-" has the negative sign in front of it.
Texts ==
    {Text(n, <<a>>) : n \in BOOLEAN, a \in MajorParts}
    \cup {Text(n, <<a, b>>) : n \in BOOLEAN, a \in MajorParts, b \in MinorParts}
    \cup {Text(FALSE, <<EmptyPart, EmptyPart, EmptyPart>>)}

ByText == {Request("UPI", 100, "INR", "a1", [amount |-> t, upi_id |-> "u@b"]) :
              t \in {u \in Texts : ~u.negative => u.parts[1].sign # "-"}}

Metadata ==
    {[card_number |-> n, payment_id |-> id] : n \in {"", " ", "4111"}, id \in {"", "uuid", "word"}}
    \cup {[upi_id |-> "u@b"], [card_number |-> "4111", account_id |-> ""],
          [card_number |-> "4111", currency |-> ""]}

ByField ==
    {Request(s, m, c, a, meta) :
        s \in {"CARD", "UPI", "WALLET"}, m \in {Absent, 0, 100},
        c \in {"", " ", "INR", "long"}, a \in {"", " ", "a1"}, meta \in Metadata}

AllRequests == ByAmount \cup ByText \cup ByField
=============================================================================
