------------------------------ MODULE Pipeline ------------------------------
(***************************************************************************)
(* The pipeline behind intake: the transactions table with the three       *)
(* programs that change its rows.  Intake books a payment with its event,  *)
(* the outbox delivers the event, the ledger consumer captures and posts   *)
(* the payment, and the settlement engine pays out captured payments.      *)
(*                                                                         *)
(* Ledger and Settlement share the state column and nothing else; the      *)
(* outbox is the channel that Relay implements.                            *)
(***************************************************************************)
EXTENDS Integers, Sequences, FiniteSets

CONSTANTS
    Payments, NonPositive,                          \* as in Ledger
    Workers, MaxAttempts, Faults, Nobody,
    Engines, Groups, GroupOf, WindowSize, Buffer,   \* as in Settlement
    MaxTime, Unset,
    Oversized,          \* payments whose event the broker refuses for good
    MaxFaults           \* bound: failures in all

VARIABLES
    state, faults,                                  \* shared
    delivered,                                      \* events in the topic
    audit, legs, pc, cur, attempt, inserted, err, done, dropped,
    now, created, late, batches, enginePc, lastWindowEnd, since, window,
    groups, skipped

ledger == <<audit, legs, pc, cur, attempt, inserted, err, done, dropped>>
engine == <<now, created, batches, enginePc, lastWindowEnd, since, window,
            groups, skipped>>
vars == <<state, faults, delivered, ledger, engine, late>>

Booked == {p \in Payments : state[p] # "none"}

L == INSTANCE Ledger
S == INSTANCE Settlement WITH pc <- enginePc
C == INSTANCE EventChannel WITH
    Events <- Payments,
    undeliverable <- Oversized,
    after <- [p \in Payments |-> {}],
    accepted <- Booked,
    closed <- {}

\* What Ledger and Settlement assume of their parameters.
ASSUME PipelineAssumption ==
    /\ NonPositive \subseteq Payments
    /\ Nobody \notin Payments
    /\ MaxAttempts \in Nat \ {0}
    /\ Faults \subseteq L!FaultKinds
    /\ GroupOf \in [Payments -> Groups]
    /\ WindowSize \in Nat \ {0}
    /\ Buffer \in Nat
    /\ MaxTime \in Nat
    /\ Unset \notin Int
    /\ Oversized \subseteq Payments
    /\ MaxFaults \in Nat

Init == S!Init /\ L!Idle /\ delivered = {}

-----------------------------------------------------------------------------
\* SubmitPayment commits the row and its event.
Book(p) == S!Create(p) /\ UNCHANGED <<ledger, delivered>>

\* The relay publishes it, unless the broker refuses it; a refused event may
\* keep all the others back.
Publish(p) ==
    /\ p \notin delivered
    /\ UNCHANGED <<state, faults, ledger, engine, late>>
    /\ C!Deliver(p)

\* The ledger works on events of the topic.  A capture that comes after the
\* settlement buffer is noted, as in Settlement.
AroundLedger ==
    /\ \A w \in Workers : cur'[w] \in delivered \cup {Nobody}
    /\ late' = late \cup {p \in Payments : /\ state[p] # state'[p]
                                           /\ state'[p] = "CAPTURED"
                                           /\ now > created[p] + Buffer}
    /\ UNCHANGED <<engine, delivered>>

Consume(w)      == L!Step(w) /\ AroundLedger
ConsumeFails(w) == L!Failure(w) /\ AroundLedger

Settle(e)      == S!Engine(e) /\ UNCHANGED <<ledger, delivered>>
SettleFails(e) == S!Failure(e) /\ UNCHANGED <<ledger, delivered>>

AdvanceClock == S!AdvanceClock /\ UNCHANGED <<ledger, delivered>>

Next ==
    \/ \E p \in Payments : Book(p) \/ Publish(p)
    \/ \E w \in Workers : Consume(w) \/ ConsumeFails(w)
    \/ \E e \in Engines : Settle(e) \/ SettleFails(e)
    \/ AdvanceClock

\* The relay delivers what is booked as long as it has met no event that the
\* broker refuses, which is all that EventChannel promises, and workers go on.
\* Nothing here depends on the engine's progress.
Fairness ==
    /\ \A p \in Payments : WF_vars(Publish(p) /\ Oversized \cap Booked = {})
    /\ \A w \in Workers : WF_vars(Consume(w))

Spec == Init /\ [][Next]_vars /\ Fairness

-----------------------------------------------------------------------------
(***************************************************************************)
(* Properties.                                                             *)
(***************************************************************************)
Paid == UNION {b.ids : b \in batches}
Posted == {p \in Payments : L!Posted(p)}
Abandoned == {p \in Payments : done[p] = "dlq"}
Lost == {p \in Payments : L!Lost(p)}

Lifecycle == INSTANCE PaymentLifecycle WITH
    Stuck <- Oversized,
    stage <- state,
    posted <- Posted,
    paid <- Paid,
    abandoned <- Abandoned,
    lost <- Lost

\* Together the programs keep the promise of the pipeline, although they move
\* the rows of one table in transactions of their own: no payment is paid
\* twice or without having been captured, both legs appear at once, and every
\* booked payment is posted or dead-lettered, or lost in a failed COMMIT, as
\* long as no event is booked that the broker refuses.
ImplementsLifecycle == Lifecycle!Spec

\* Only what the ledger has captured is paid out: the audit trail of a payment
\* in a payout ends with its move to CAPTURED, whatever failed before.
PaidWasCaptured ==
    \A p \in Paid : audit[p] # <<>> /\ audit[p][Len(audit[p])][2] = "CAPTURED"

\* The ledger marks a payment CAPTURED before it commits the legs, so that the
\* engine may pay it out first, and the worker may die in between.  The legs
\* of a paid payment are in the ledger in the end all the same, unless its
\* event went to the dead-letter topic or a failed COMMIT of its legs was
\* acknowledged as success.
PaidIsPosted ==
    \A p \in Payments :
        (p \in Paid) ~> (p \in Posted \cup Abandoned \cup Lost)
=============================================================================
