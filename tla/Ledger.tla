------------------------------- MODULE Ledger -------------------------------
(***************************************************************************)
(* The ledger consumer: workers that take payment events, run Post under   *)
(* the retry handler, and give up into the dead-letter queue.              *)
(*                                                                         *)
(* Post uses two database transactions: one inserts the two legs and is    *)
(* committed by a deferred function, the other is UpdateState's own and    *)
(* commits first.  A payment event may be delivered again at any time, to  *)
(* another worker too, as the relay and the consumer group redeliver.      *)
(***************************************************************************)
EXTENDS Naturals, Sequences, Domain

CONSTANTS
    Workers,        \* members of the ledger consumer group
    Payments,       \* payments whose event is in the topic
    NonPositive,    \* those of them with an amount of zero or less
    MaxAttempts,    \* attempts of the retry handler
    MaxFaults,      \* bound: failures, crashes and repeated deliveries
    Nobody,         \* no payment
    Faults          \* which kinds of failure happen in this model

FaultKinds == {"legs", "state", "commit", "kafka", "crash", "repeat"}

ASSUME LedgerAssumption ==
    /\ NonPositive \subseteq Payments
    /\ Nobody \notin Payments
    /\ MaxAttempts \in Nat \ {0}
    /\ MaxFaults \in Nat
    /\ Faults \subseteq FaultKinds

Directions == {"DEBIT", "CREDIT"}

VARIABLES
    state,      \* the state column of the transactions row
    audit,      \* the state_transitions rows of a payment, oldest first
    legs,       \* committed ledger_entries rows, counted by direction
    pc,         \* the step a worker takes next
    cur,        \* the payment a worker is handling
    attempt,    \* the retry handler's loop counter
    inserted,   \* the directions a worker's open transaction has inserted
    err,        \* whether Post is going to return an error
    done,       \* how the event's offset was committed: no, ok, dlq
    dropped,    \* history: payments whose legs' COMMIT failed
    faults      \* failures so far

local == <<cur, attempt, inserted, err>>
vars == <<state, audit, legs, pc, local, done, dropped, faults>>

\* No worker has started and nothing has been posted.
Idle ==
    /\ audit = [p \in Payments |-> <<>>]
    /\ legs = [p \in Payments |-> [d \in Directions |-> 0]]
    /\ pc = [w \in Workers |-> "idle"]
    /\ cur = [w \in Workers |-> Nobody]
    /\ attempt = [w \in Workers |-> 0]
    /\ inserted = [w \in Workers |-> {}]
    /\ err = [w \in Workers |-> FALSE]
    /\ done = [p \in Payments |-> "no"]
    /\ dropped = {}
    /\ faults = 0

Init == Idle /\ state = [p \in Payments |-> "VALIDATED"]

At(w, step) == pc[w] = step
Goto(w, step) == pc' = [pc EXCEPT ![w] = step]

Fault(kind) ==
    /\ kind \in Faults
    /\ faults < MaxFaults
    /\ faults' = faults + 1

\* The worker's process ends; its open transaction is rolled back.
Exit(w) ==
    /\ Goto(w, "idle")
    /\ cur' = [cur EXCEPT ![w] = Nobody]
    /\ attempt' = [attempt EXCEPT ![w] = 0]
    /\ inserted' = [inserted EXCEPT ![w] = {}]
    /\ err' = [err EXCEPT ![w] = FALSE]

-----------------------------------------------------------------------------
\* Mutant: the UPDATE does not compare the current state.
UpdateState_Blind(p, from, to) ==
    /\ state' = [state EXCEPT ![p] = to]
    /\ audit' = [audit EXCEPT ![p] = Append(@, <<from, to>>)]

\* Mutant: the audit row is not written.
UpdateState_NoAudit(p, from, to) ==
    /\ state' = [state EXCEPT ![p] = IF @ = from THEN to ELSE @]
    /\ UNCHANGED audit

(***************************************************************************)
(* store.UpdateState: a compare-and-set on the state column that writes    *)
(* its audit row in the same transaction, and reports whether it did.      *)
(***************************************************************************)
UpdateState(p, from, to) ==
    IF Transition(from, to) /\ state[p] = from
    THEN /\ state' = [state EXCEPT ![p] = to]
         /\ audit' = [audit EXCEPT ![p] = Append(@, <<from, to>>)]
    ELSE UNCHANGED <<state, audit>>

-----------------------------------------------------------------------------
(***************************************************************************)
(* Delivery.                                                               *)
(***************************************************************************)

Take(w, p) ==
    /\ At(w, "idle")
    /\ Goto(w, "post")
    /\ cur' = [cur EXCEPT ![w] = p]
    /\ attempt' = [attempt EXCEPT ![w] = 1]
    /\ UNCHANGED <<state, audit, legs, inserted, err, done, dropped>>

\* Mutant: offsets are committed when a record is fetched.
Deliver_AutoCommit(w, p) ==
    /\ At(w, "idle")
    /\ done[p] = "no"
    /\ Goto(w, "post")
    /\ cur' = [cur EXCEPT ![w] = p]
    /\ attempt' = [attempt EXCEPT ![w] = 1]
    /\ done' = [done EXCEPT ![p] = "ok"]
    /\ UNCHANGED <<state, audit, legs, inserted, err, dropped, faults>>

Deliver(w, p) == done[p] = "no" /\ Take(w, p) /\ UNCHANGED faults

\* The event again, although its offset has been committed.
Redeliver(w, p) == done[p] # "no" /\ Take(w, p) /\ Fault("repeat")

-----------------------------------------------------------------------------
(***************************************************************************)
(* Post.                                                                   *)
(***************************************************************************)

\* Mutant: an amount that is not positive is skipped without an error.
Begin_SkipsAmount(w) ==
    /\ At(w, "post")
    /\ IF cur[w] \in NonPositive THEN Goto(w, "ack") ELSE Goto(w, "debit")
    /\ UNCHANGED <<state, audit, legs, local, done, dropped, faults>>

\* The guard on the amount, then BEGIN.
Begin(w) ==
    /\ At(w, "post")
    /\ IF cur[w] \in NonPositive THEN Goto(w, "failed") ELSE Goto(w, "debit")
    /\ UNCHANGED <<state, audit, legs, local, done, dropped, faults>>

\* Mutant: no unique index on payment_id and direction.
InsertLeg_NoIndex(w, d) ==
    /\ inserted' = [inserted EXCEPT ![w] = @ \cup {d}]
    /\ UNCHANGED <<state, audit, legs, cur, attempt, err, done, dropped,
                   faults>>

\* Mutant: an insert that conflicts with a committed row hangs.
InsertLeg_Hangs(w, d) ==
    /\ \A v \in Workers \ {w} : cur[v] = cur[w] => d \notin inserted[v]
    /\ legs[cur[w]][d] = 0
    /\ inserted' = [inserted EXCEPT ![w] = @ \cup {d}]
    /\ UNCHANGED <<state, audit, legs, cur, attempt, err, done, dropped,
                   faults>>

\* INSERT ... ON CONFLICT (payment_id, direction) DO NOTHING.  An insert waits
\* while another transaction holds an uncommitted row with the same key.
InsertLeg(w, d) ==
    /\ \A v \in Workers \ {w} : cur[v] = cur[w] => d \notin inserted[v]
    /\ inserted' = [inserted EXCEPT ![w] =
                       IF legs[cur[w]][d] = 0 THEN @ \cup {d} ELSE @]
    /\ UNCHANGED <<state, audit, legs, cur, attempt, err, done, dropped,
                   faults>>

Debit(w) == At(w, "debit") /\ InsertLeg(w, "DEBIT") /\ Goto(w, "credit")

\* When both legs existed the transaction is rolled back here: it holds
\* nothing, and the deferred commit finds it closed.
Credit(w) == At(w, "credit") /\ InsertLeg(w, "CREDIT") /\ Goto(w, "capture")

\* BEGIN or an INSERT fails.
LegsFail(w) ==
    /\ \/ At(w, "post") /\ cur[w] \notin NonPositive
       \/ At(w, "debit")
       \/ At(w, "credit")
    /\ Fault("legs")
    /\ Goto(w, "fail")
    /\ UNCHANGED <<state, audit, legs, local, done, dropped>>

\* The failure is recorded on the payment; an error of UpdateState is only
\* logged.
MarkFailed(w) ==
    /\ At(w, "fail")
    /\ UpdateState(cur[w], "VALIDATED", "FAILED")
    /\ Goto(w, "failed")
    /\ UNCHANGED <<legs, local, done, dropped, faults>>

MarkFailedFails(w) ==
    /\ At(w, "fail")
    /\ Fault("state")
    /\ Goto(w, "failed")
    /\ UNCHANGED <<state, audit, legs, local, done, dropped>>

\* The move to CAPTURED, before the legs are committed.  A stale transition
\* is success: the error text names the target state whatever the current
\* state is, so the test for CAPTURED in it always holds.
Capture(w) ==
    /\ At(w, "capture")
    /\ UpdateState(cur[w], "VALIDATED", "CAPTURED")
    /\ Goto(w, "commit")
    /\ UNCHANGED <<legs, local, done, dropped, faults>>

\* UpdateState returns another error, with or without having committed.  The
\* error is a variable of the inner block, so the legs are committed anyway.
CaptureFails(w) ==
    /\ At(w, "capture")
    /\ Fault("state")
    /\ \/ UpdateState(cur[w], "VALIDATED", "CAPTURED")
       \/ UNCHANGED <<state, audit>>
    /\ err' = [err EXCEPT ![w] = TRUE]
    /\ Goto(w, "commit")
    /\ UNCHANGED <<legs, cur, attempt, inserted, done, dropped>>

Return(w) == Goto(w, IF err[w] THEN "failed" ELSE "ack")

\* The deferred commit.
Commit(w) ==
    /\ At(w, "commit")
    /\ legs' = [legs EXCEPT ![cur[w]] =
                   [d \in Directions |->
                       IF d \in inserted[w] THEN @[d] + 1 ELSE @[d]]]
    /\ inserted' = [inserted EXCEPT ![w] = {}]
    /\ Return(w)
    /\ UNCHANGED <<state, audit, cur, attempt, err, done, dropped, faults>>

\* The deferred commit fails; its error is assigned to a variable nobody
\* returns.
CommitFails(w) ==
    /\ At(w, "commit")
    /\ inserted[w] # {}
    /\ Fault("commit")
    /\ inserted' = [inserted EXCEPT ![w] = {}]
    /\ dropped' = dropped \cup {cur[w]}
    /\ Return(w)
    /\ UNCHANGED <<state, audit, legs, cur, attempt, err, done>>

-----------------------------------------------------------------------------
(***************************************************************************)
(* RetryHandler and the offset commit.                                     *)
(***************************************************************************)

\* Mutant: the loop runs once too often.
Retry_OffByOne(w) ==
    /\ At(w, "failed")
    /\ inserted' = [inserted EXCEPT ![w] = {}]
    /\ err' = [err EXCEPT ![w] = FALSE]
    /\ IF attempt[w] <= MaxAttempts
       THEN Goto(w, "post") /\ attempt' = [attempt EXCEPT ![w] = @ + 1]
       ELSE Goto(w, "dlq") /\ UNCHANGED attempt
    /\ UNCHANGED <<state, audit, legs, cur, done, dropped, faults>>

\* Post has returned an error, its deferred rollback included.
Retry(w) ==
    /\ At(w, "failed")
    /\ inserted' = [inserted EXCEPT ![w] = {}]
    /\ err' = [err EXCEPT ![w] = FALSE]
    /\ IF attempt[w] < MaxAttempts
       THEN Goto(w, "post") /\ attempt' = [attempt EXCEPT ![w] = @ + 1]
       ELSE Goto(w, "dlq") /\ UNCHANGED attempt
    /\ UNCHANGED <<state, audit, legs, cur, done, dropped, faults>>

\* The event is copied to the dead-letter topic and its offset committed.
PublishToDLQ(w) ==
    /\ At(w, "dlq")
    /\ done' = [done EXCEPT ![cur[w]] = "dlq"]
    /\ Exit(w)
    /\ UNCHANGED <<state, audit, legs, dropped, faults>>

\* The handler returned nil.
CommitRecord(w) ==
    /\ At(w, "ack")
    /\ done' = [done EXCEPT ![cur[w]] = "ok"]
    /\ Exit(w)
    /\ UNCHANGED <<state, audit, legs, dropped, faults>>

\* The broker refuses the dead letter or the offset: the consumer exits and
\* the event will be delivered again.
KafkaFails(w) ==
    /\ At(w, "dlq") \/ At(w, "ack")
    /\ Fault("kafka")
    /\ Exit(w)
    /\ UNCHANGED <<state, audit, legs, done, dropped>>

-----------------------------------------------------------------------------
Crash(w) ==
    /\ ~At(w, "idle")
    /\ Fault("crash")
    /\ Exit(w)
    /\ UNCHANGED <<state, audit, legs, done, dropped>>

Step(w) ==
    \/ \E p \in Payments : Deliver(w, p)
    \/ Begin(w) \/ Debit(w) \/ Credit(w) \/ MarkFailed(w) \/ Capture(w)
    \/ Commit(w) \/ Retry(w) \/ PublishToDLQ(w) \/ CommitRecord(w)

Failure(w) ==
    \/ \E p \in Payments : Redeliver(w, p)
    \/ LegsFail(w) \/ MarkFailedFails(w) \/ CaptureFails(w) \/ CommitFails(w)
    \/ KafkaFails(w) \/ Crash(w)

Next == \E w \in Workers : Step(w) \/ Failure(w)

\* A worker that is running goes on, and one that exits is restarted; faults
\* are bounded, so the broker and the database come back.
Fairness == \A w \in Workers : WF_vars(Step(w))

Spec == Init /\ [][Next]_vars /\ Fairness

-----------------------------------------------------------------------------
(***************************************************************************)
(* Properties.                                                             *)
(***************************************************************************)
Steps == {"idle", "post", "debit", "credit", "fail", "capture", "commit",
          "failed", "dlq", "ack"}

\* Every variable keeps its shape.
TypeOK ==
    /\ state \in [Payments -> State]
    /\ audit \in [Payments -> Seq(State \X State)]
    /\ legs \in [Payments -> [Directions -> Nat]]
    /\ pc \in [Workers -> Steps]
    /\ cur \in [Workers -> Payments \cup {Nobody}]
    /\ attempt \in [Workers -> 0 .. MaxAttempts]
    /\ inserted \in [Workers -> SUBSET Directions]
    /\ err \in [Workers -> BOOLEAN]
    /\ done \in [Payments -> {"no", "ok", "dlq"}]
    /\ dropped \subseteq Payments
    /\ faults \in 0 .. MaxFaults

Posted(p) == legs[p] = [d \in Directions |-> 1]
Unposted(p) == legs[p] = [d \in Directions |-> 0]

\* The event was acknowledged although the COMMIT of the legs had failed, and
\* no other delivery has posted it: nobody will look for it.
Lost(p) == done[p] = "ok" /\ p \in dropped /\ ~Posted(p)

\* The ledger balances at every moment: a payment has no legs or one of each,
\* whatever workers post it at once, and however often it is redelivered or
\* an attempt fails between the two inserts.
Balanced == \A p \in Payments : Posted(p) \/ Unposted(p)

\* An event is only ever taken as handled with its legs in the ledger, unless
\* a COMMIT failed; a payment that Post refuses never gets there.
HandledIsPosted ==
    \A p \in Payments :
        done[p] = "ok" => Posted(p) \/ p \in dropped

\* The audit trail of a payment is a chain from VALIDATED to its current
\* state, whatever workers race to move it: no lost and no phantom update.
AuditTrail ==
    \A p \in Payments :
        LET rows == audit[p]
            n == Len(rows)
            from(i) == IF i = 1 THEN "VALIDATED" ELSE rows[i - 1][2]
        IN  /\ \A i \in 1 .. n : rows[i][1] = from(i) /\ rows[i] \in allowed
            /\ state[p] = from(n + 1)

\* A payment is marked CAPTURED before its legs are committed.  The gap is
\* closed in the end, by the deferred commit or by a redelivery after a crash,
\* or the event is handed to the dead-letter queue.  The one other way to end
\* is Lost: a failed COMMIT that Post does not return, and that no retry
\* follows for another reason, leaves the payment captured and unposted.
CapturedIsPosted ==
    \A p \in Payments :
        (state[p] = "CAPTURED") ~> (Posted(p) \/ done[p] = "dlq" \/ Lost(p))

\* Every event is handled or dead-lettered in the end: racing workers never
\* wait for each other's uncommitted legs for good.
EveryEventHandled == \A p \in Payments : <>(done[p] # "no")

\* Post treats a stale transition as success because the payment is already
\* CAPTURED: an event handled with success leaves the payment in that state.
StaleMeansCaptured ==
    \A p \in Payments : done[p] = "ok" => state[p] = "CAPTURED"
=============================================================================
