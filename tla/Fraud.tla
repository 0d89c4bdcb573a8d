-------------------------------- MODULE Fraud --------------------------------
(***************************************************************************)
(* The fraud consumer for the payments of one account: Score with its      *)
(* velocity counter in Redis, and SaveScore, under the retry handler.      *)
(* Accounts have counters of their own and share nothing.                  *)
(*                                                                         *)
(* INCR and EXPIRE travel in one pipeline, which is not a transaction: the *)
(* key may expire, and other workers may run, between the two.  Redis may  *)
(* fail at any time and for good, and its client, built with the library's *)
(* default of three retries, sends a pipeline without an answer again.     *)
(***************************************************************************)
EXTENDS Integers, FiniteSets

CONSTANTS
    Workers,        \* members of the fraud consumer group
    Payments,       \* payments of the account whose event is in the topic
    Large,          \* those above the amount threshold
    Limit,          \* increments a minute that are not suspicious
    Minute,         \* the counter's time to live, in clock units
    MaxAttempts,    \* attempts of the retry handler
    MaxTime,        \* bound: the clock stops here
    MaxFaults,      \* bound: failed saves, crashes and redeliveries
    MaxResends,     \* bound: pipelines sent again
    Nobody,         \* no payment
    Never           \* the key has no expiry

ASSUME FraudAssumption ==
    /\ IsFiniteSet(Workers)
    /\ IsFiniteSet(Payments)
    /\ Large \subseteq Payments
    /\ Nobody \notin Payments
    /\ Limit \in Nat \ {0}
    /\ Minute \in Nat \ {0}
    /\ MaxAttempts \in Nat \ {0}
    /\ MaxTime \in Nat
    /\ MaxFaults \in Nat
    /\ MaxResends \in Nat
    /\ Never \notin Int

VARIABLES
    now,        \* the wall clock
    count,      \* the velocity counter; 0 when the key does not exist
    expires,    \* when the key disappears
    counted,    \* history: payments counted since the key was created
    renewed,    \* history: when an EXPIRE last followed a counted payment
    pc,         \* what a worker does next
    cur,        \* the payment a worker is scoring
    attempt,    \* the retry handler's loop counter
    val,        \* the result of a worker's INCR
    fast,       \* history: that INCR exceeded the limit within a minute
    level,      \* the risk level a worker is about to save
    scores,     \* the number of fraud_scores rows of a payment
    done,       \* how the event's offset was committed: no, ok, dlq
    faults,     \* failed saves, crashes and redeliveries so far
    resent      \* pipelines sent again after their INCR was executed

key == <<count, expires, counted, renewed>>
local == <<cur, attempt, val, fast, level>>
vars == <<now, key, pc, local, scores, done, faults, resent>>

Init ==
    /\ now = 0
    /\ count = 0
    /\ expires = Never
    /\ counted = {}
    /\ renewed = [p \in Payments |-> -Minute]
    /\ pc = [w \in Workers |-> "idle"]
    /\ cur = [w \in Workers |-> Nobody]
    /\ attempt = [w \in Workers |-> 0]
    /\ val = [w \in Workers |-> 0]
    /\ fast = [w \in Workers |-> FALSE]
    /\ level = [w \in Workers |-> "LOW"]
    /\ scores = [p \in Payments |-> 0]
    /\ done = [p \in Payments |-> "no"]
    /\ faults = 0
    /\ resent = 0

Goto(w, step) == pc' = [pc EXCEPT ![w] = step]

Fault ==
    /\ faults < MaxFaults
    /\ faults' = faults + 1

\* The worker is done with its event, or dies.
Release(w) ==
    /\ Goto(w, "idle")
    /\ cur' = [cur EXCEPT ![w] = Nobody]
    /\ attempt' = [attempt EXCEPT ![w] = 0]
    /\ val' = [val EXCEPT ![w] = 0]
    /\ fast' = [fast EXCEPT ![w] = FALSE]
    /\ level' = [level EXCEPT ![w] = "LOW"]

-----------------------------------------------------------------------------
(***************************************************************************)
(* Score, in tenths.                                                       *)
(***************************************************************************)

\* Mutant: no default.
toRiskLevel_NoDefault(score) ==
    IF score >= 8 THEN "CRITICAL"
    ELSE IF score >= 5 THEN "HIGH"
    ELSE IF score >= 2 THEN "MEDIUM"
    ELSE ""

toRiskLevel(score) ==
    IF score >= 8 THEN "CRITICAL"
    ELSE IF score >= 5 THEN "HIGH"
    ELSE IF score >= 2 THEN "MEDIUM"
    ELSE "LOW"

\* The rules on the amount and the velocity.  The rule on new accounts reads
\* metadata the consumer does not hand over, and never adds anything.
Score(p, velocity) ==
    (IF p \in Large THEN 4 ELSE 0) + (IF velocity THEN 5 ELSE 0)

\* The payments known to be counted whose minute is not over.
Recent == {p \in Payments : now < renewed[p] + Minute}

\* INCR.  A key it creates has no expiry.
Incr(w) ==
    LET p == cur[w] IN
    /\ pc[w] = "incr"
    /\ count' = count + 1
    /\ counted' = counted \cup {p}
    /\ val' = [val EXCEPT ![w] = count + 1]
    /\ fast' = [fast EXCEPT ![w] = Cardinality(Recent \cup {p}) > Limit]
    /\ Goto(w, "expire")
    /\ UNCHANGED <<now, expires, renewed, cur, attempt, level, scores, done,
                   faults, resent>>

\* Mutant: the expiry is set when the key is new only.
SetExpiry_First(w) ==
    IF expires = Never
    THEN /\ expires' = IF count = 0 THEN Never ELSE now + Minute
         /\ renewed' = [p \in Payments |->
                IF p = cur[w] /\ p \in counted THEN now ELSE renewed[p]]
    ELSE /\ renewed' = [p \in Payments |->
                IF p = cur[w] /\ p \in counted THEN now ELSE renewed[p]]
         /\ UNCHANGED expires

\* EXPIRE, which does nothing when the key has just gone.
SetExpiry(w) ==
    /\ expires' = IF count = 0 THEN Never ELSE now + Minute
    /\ renewed' = [p \in Payments |->
           IF p = cur[w] /\ p \in counted THEN now ELSE renewed[p]]

Expire(w) ==
    /\ pc[w] = "expire"
    /\ SetExpiry(w)
    /\ level' = [level EXCEPT ![w] =
                    toRiskLevel(Score(cur[w], val[w] > Limit))]
    /\ val' = [val EXCEPT ![w] = 0]
    /\ Goto(w, "save")
    /\ UNCHANGED <<now, count, counted, cur, attempt, fast, scores, done,
                   faults, resent>>

\* The answer is lost after INCR, whether or not EXPIRE was executed, and the
\* client sends both commands again.  A pipeline that is sent again before
\* its INCR was executed has changed nothing.
Resend(w) ==
    /\ pc[w] = "expire"
    /\ resent < MaxResends
    /\ resent' = resent + 1
    /\ SetExpiry(w) \/ UNCHANGED <<expires, renewed>>
    /\ val' = [val EXCEPT ![w] = 0]
    /\ fast' = [fast EXCEPT ![w] = FALSE]
    /\ Goto(w, "incr")
    /\ UNCHANGED <<now, count, counted, cur, attempt, level, scores, done,
                   faults>>

\* The client gives up and the pipeline returns an error, whatever Redis has
\* executed of it: the velocity rule is skipped.
RedisFails(w) ==
    /\ pc[w] \in {"incr", "expire"}
    /\ \/ UNCHANGED <<expires, renewed>>
       \/ pc[w] = "expire" /\ SetExpiry(w)
    /\ level' = [level EXCEPT ![w] = toRiskLevel(Score(cur[w], FALSE))]
    /\ val' = [val EXCEPT ![w] = 0]
    /\ fast' = [fast EXCEPT ![w] = FALSE]
    /\ Goto(w, "save")
    /\ UNCHANGED <<now, count, counted, cur, attempt, scores, done, faults,
                   resent>>

\* The key's time to live runs out.
AdvanceClock ==
    /\ now < MaxTime
    /\ now' = now + 1
    /\ IF expires = now + 1
       THEN count' = 0 /\ expires' = Never /\ counted' = {}
       ELSE UNCHANGED <<count, expires, counted>>
    /\ UNCHANGED <<renewed, pc, local, scores, done, faults, resent>>

-----------------------------------------------------------------------------
(***************************************************************************)
(* The handler and its delivery.                                           *)
(***************************************************************************)
Take(w, p) ==
    /\ pc[w] = "idle"
    /\ Goto(w, "incr")
    /\ cur' = [cur EXCEPT ![w] = p]
    /\ attempt' = [attempt EXCEPT ![w] = 1]
    /\ UNCHANGED <<now, key, val, fast, level, scores, done, resent>>

Deliver(w, p) ==
    /\ done[p] = "no"
    /\ \A v \in Workers : cur[v] # p
    /\ Take(w, p)
    /\ UNCHANGED faults

\* The event again, or while another worker still has it.
Redeliver(w, p) ==
    /\ done[p] # "no" \/ \E v \in Workers : cur[v] = p
    /\ Take(w, p)
    /\ Fault

\* The score is handed over and forgotten.
Scored(w, step) ==
    /\ Goto(w, step)
    /\ fast' = [fast EXCEPT ![w] = FALSE]
    /\ level' = [level EXCEPT ![w] = "LOW"]

\* The row is inserted.  No unique index gives ON CONFLICT a conflict.
Insert(w) == scores' = [scores EXCEPT ![cur[w]] = @ + 1]

\* Mutant: the insert is sent twice.
SaveScore_Twice(w) ==
    /\ pc[w] = "save"
    /\ scores' = [scores EXCEPT ![cur[w]] = @ + 2]
    /\ Scored(w, "ack")
    /\ UNCHANGED <<now, key, cur, attempt, val, done, faults, resent>>

SaveScore(w) ==
    /\ pc[w] = "save"
    /\ Insert(w)
    /\ Scored(w, "ack")
    /\ UNCHANGED <<now, key, cur, attempt, val, done, faults, resent>>

\* Mutant: the error of SaveScore is only logged.
SaveFails_Ignored(w) ==
    /\ pc[w] = "save"
    /\ Fault
    /\ Scored(w, "ack")
    /\ UNCHANGED <<now, key, cur, attempt, val, scores, done, resent>>

\* The insert returns an error, though it may have been done: the whole
\* handler runs again, or the event goes to the dead-letter queue.
SaveFails(w) ==
    /\ pc[w] = "save"
    /\ Fault
    /\ Insert(w) \/ UNCHANGED scores
    /\ IF attempt[w] < MaxAttempts
       THEN Scored(w, "incr") /\ attempt' = [attempt EXCEPT ![w] = @ + 1]
       ELSE Scored(w, "dlq") /\ UNCHANGED attempt
    /\ UNCHANGED <<now, key, cur, val, done, resent>>

\* Mutant: the offset of a dead-lettered event is not committed.
CommitRecord_AckOnly(w) ==
    /\ pc[w] = "ack"
    /\ done' = [done EXCEPT ![cur[w]] = "ok"]
    /\ Release(w)
    /\ UNCHANGED <<now, key, scores, faults, resent>>

CommitRecord(w) ==
    /\ pc[w] \in {"ack", "dlq"}
    /\ done' = [done EXCEPT ![cur[w]] = IF pc[w] = "ack" THEN "ok" ELSE "dlq"]
    /\ Release(w)
    /\ UNCHANGED <<now, key, scores, faults, resent>>

\* The process dies, or the broker refuses the dead letter or the offset.
Crash(w) ==
    /\ pc[w] # "idle"
    /\ Fault
    /\ Release(w)
    /\ UNCHANGED <<now, key, scores, done, resent>>

-----------------------------------------------------------------------------
Step(w) ==
    \/ \E p \in Payments : Deliver(w, p)
    \/ Incr(w) \/ Expire(w) \/ RedisFails(w) \/ SaveScore(w) \/ CommitRecord(w)

Failure(w) ==
    \/ \E p \in Payments : Redeliver(w, p)
    \/ Resend(w) \/ SaveFails(w) \/ Crash(w)

Next ==
    \/ AdvanceClock
    \/ \E w \in Workers : Step(w) \/ Failure(w)

\* A worker goes on, with or without Redis.  Failed saves, crashes and resends
\* are bounded; failures of Redis are not.
Fairness == \A w \in Workers : WF_vars(Step(w))

Spec == Init /\ [][Next]_vars /\ Fairness

-----------------------------------------------------------------------------
(***************************************************************************)
(* Properties.                                                             *)
(***************************************************************************)
Levels == {"LOW", "MEDIUM", "HIGH", "CRITICAL"}

\* Every variable keeps its shape.
TypeOK ==
    /\ now \in 0 .. MaxTime
    /\ count \in Nat
    /\ expires \in Nat \cup {Never}
    /\ counted \subseteq Payments
    /\ renewed \in [Payments -> -Minute .. MaxTime]
    /\ pc \in [Workers -> {"idle", "incr", "expire", "save", "ack", "dlq"}]
    /\ cur \in [Workers -> Payments \cup {Nobody}]
    /\ attempt \in [Workers -> 0 .. MaxAttempts]
    /\ val \in [Workers -> Nat]
    /\ fast \in [Workers -> BOOLEAN]
    /\ level \in [Workers -> Levels]
    /\ scores \in [Payments -> Nat]
    /\ done \in [Payments -> {"no", "ok", "dlq"}]
    /\ faults \in 0 .. MaxFaults
    /\ resent \in 0 .. MaxResends

\* The velocity rule misses nobody: when more than Limit payments of the
\* account were counted within a minute, the last of them is saved for review
\* (HIGH or CRITICAL), although the key expires and workers overlap between
\* INCR and EXPIRE.  Payments whose EXPIRE was lost do not take part.
FastIsReviewed ==
    \A w \in Workers :
        fast[w] /\ pc[w] = "save" => level[w] \in {"HIGH", "CRITICAL"}

\* A payment is saved more than once only because a save failed, a worker died
\* or an event was redelivered, and counted more than once only for these
\* causes or because the client of Redis sent a pipeline again, each of which
\* repeats one payment once.  A pipeline the client gives up repeats nothing.
RescoringHasCause ==
    /\ count <= Cardinality(counted) + faults + resent
    /\ \A p \in Payments : scores[p] <= 1 + faults

\* An event is only taken as handled with a score in the table.
HandledIsScored ==
    \A p \in Payments : done[p] = "ok" => scores[p] > 0

\* Scoring never blocks the pipeline: every event is handled or dead-lettered
\* in the end, even when Redis fails for ever.
ScoringNeverBlocks == \A p \in Payments : <>(done[p] # "no")
=============================================================================
