------------------------------ MODULE MCIntake ------------------------------
(***************************************************************************)
(* Values for model-checking Intake.                                       *)
(***************************************************************************)
EXTENDS Intake

Req(source, key, id, ext, upi, amount) ==
    [source |-> source, key |-> key, id |-> id, extTxn |-> ext,
     upiTrx |-> upi, account |-> "acct", amount |-> amount]

\* A keyed card payment with and without a payment id in its metadata, one the
\* validator refuses, two keyless ones that differ in the external id, of
\* which the second brings the same payment id, and a wallet payment nothing
\* normalizes.
keyed    == Req("CARD", "k1", NoId, "e1", "none", "10.00")
refused  == Req("CARD", "k1", NoId, "e2", "none", "0.00")
keyless1 == Req("CARD", NoKey, NoId, "e1", "none", "10.00")
keyless2 == Req("UPI", NoKey, "id1", "e2", "u2", "10.00")
named    == Req("CARD", "k1", "id1", "e1", "none", "10.00")
wallet   == Req("WALLET", "k3", NoId, "e3", "none", "10.00")

Wire == <<keyed, named, refused, keyless1, keyless2, wallet>>

AllRequests == {Wire[i] : i \in DOMAIN Wire}
RefusedRequests == {refused}
KeyedRequests == {keyed}
NoRequests == {}

-----------------------------------------------------------------------------
CONSTANTS c1, c2, c3

Rank(r) == CHOOSE i \in DOMAIN Wire : Wire[i] = r

\* Calls differ in nothing but their name, so it is enough to look at the
\* behaviours in which they are named in the order of their requests on the
\* wire, and with the same request in the order in which they arrive.
Named(c, d) ==
    req'[c] # Nil /\ req'[d] # Nil =>
        \/ Rank(req'[c]) < Rank(req'[d])
        \/ req'[c] = req'[d] /\ req[c] # Nil

InOrder == Named(c1, c2) /\ Named(c1, c3) /\ Named(c2, c3)

OrderedSpec == Init /\ [][Next /\ InOrder]_vars /\ Fairness
=============================================================================
