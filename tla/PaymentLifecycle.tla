-------------------------- MODULE PaymentLifecycle --------------------------
(***************************************************************************)
(* What the pipeline promises about a payment once it is booked: it is     *)
(* captured or fails, it is posted to the ledger in one go, it is paid out *)
(* once at most and only after it was captured.                            *)
(*                                                                         *)
(* In the end it is in the ledger, or its event is in the dead-letter      *)
(* topic, where somebody can find it, or it was lost without a trace when  *)
(* the ledger acknowledged what it had not stored.  Even that much is      *)
(* promised only until a payment is booked whose event is stuck in front   *)
(* of all others.                                                          *)
(***************************************************************************)
EXTENDS Naturals

CONSTANTS
    Payments,
    Stuck       \* those whose event can never leave the outbox

VARIABLES
    stage,      \* the payment's place in the state machine
    posted,     \* payments with both legs in the ledger
    paid,       \* payments in a payout
    abandoned,  \* payments whose event is in the dead-letter topic
    lost        \* payments taken as handled, in neither place

vars == <<stage, posted, paid, abandoned, lost>>

Init ==
    /\ stage = [p \in Payments |-> "none"]
    /\ posted = {}
    /\ paid = {}
    /\ abandoned = {}
    /\ lost = {}

Move(p, from, to) ==
    /\ stage[p] = from
    /\ stage' = [stage EXCEPT ![p] = to]
    /\ UNCHANGED <<posted, paid, abandoned, lost>>

Book(p)    == Move(p, "none", "VALIDATED")
Capture(p) == Move(p, "VALIDATED", "CAPTURED")
Fail(p)    == Move(p, "VALIDATED", "FAILED")

\* A delivery posts a payment that may have been lost before.
Post(p) ==
    /\ stage[p] # "none"
    /\ posted' = posted \cup {p}
    /\ lost' = lost \ {p}
    /\ UNCHANGED <<stage, paid, abandoned>>

\* One payout for a set of payments, none of which was paid before.
Pay(ps) ==
    /\ ps # {} /\ ps \cap paid = {}
    /\ \A p \in ps : stage[p] = "CAPTURED"
    /\ stage' = [p \in Payments |-> IF p \in ps THEN "SETTLED" ELSE stage[p]]
    /\ paid' = paid \cup ps
    /\ UNCHANGED <<posted, abandoned, lost>>

Abandon(p) ==
    /\ stage[p] # "none"
    /\ abandoned' = abandoned \cup {p}
    /\ lost' = lost \ {p}
    /\ UNCHANGED <<stage, posted, paid>>

\* A later delivery is acknowledged for good reason.
Recover(p) ==
    /\ p \in posted
    /\ abandoned' = abandoned \ {p}
    /\ UNCHANGED <<stage, posted, paid, lost>>

\* A delivery is acknowledged for none.
Lose(p) ==
    /\ stage[p] # "none"
    /\ p \notin posted
    /\ abandoned' = abandoned \ {p}
    /\ lost' = lost \cup {p}
    /\ UNCHANGED <<stage, posted, paid>>

Next ==
    \/ \E p \in Payments : \/ Book(p) \/ Capture(p) \/ Fail(p) \/ Post(p)
                           \/ Abandon(p) \/ Recover(p) \/ Lose(p)
    \/ \E ps \in SUBSET Payments : Pay(ps)

Progress ==
    \A p \in Payments :
        (stage[p] # "none") ~> \/ p \in posted \cup abandoned \cup lost
                               \/ \E q \in Stuck : stage[q] # "none"

Spec == Init /\ [][Next]_vars /\ Progress
=============================================================================
