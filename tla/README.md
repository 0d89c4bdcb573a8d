# Verification of the payment intake and settlement pipeline

TLA+ specifications of the pipeline in this repository, the TLC configurations
that check them on small instances, and TLAPS proofs of the main safety
properties for instances of any size. Paths are relative to the repository
root; `PROJECT.json` maps every definition to the lines it models.

## The system

```
client --gRPC--> intake --SETNX/GET--> Redis
                   |
                   +--one transaction--> Postgres: transactions + outbox
                                             |
                                   relay (polls) --> Kafka payments.received
                                                        |-> ledger consumer
                                                        |-> fraud consumer
                                                        |-> notification consumer
                 settlement (ticker) --> Postgres: batches, SETTLED, outbox
```

| Component | State it keeps | Operations | Talks to | What makes it correct |
|---|---|---|---|---|
| `internal/domain` | the lifecycle table | `Transition` | called by the store | only legal moves |
| `internal/intake` | none; each call is a goroutine | `SubmitPayment` | Redis, Postgres | a payment is booked once; what is acknowledged is booked |
| `internal/idempotency` | one Redis slot per dedup key, with a TTL | `DeriveKey`, `Claim` | Redis | the id a duplicate gets belongs to the same payment |
| `internal/normalize`, `internal/validate` | none | `Normalize`, `Validate` | called by intake | amounts survive the round trip through text |
| `internal/store` | `transactions`, `outbox`, `state_transitions` | `SaveWithOutbox`, `UpdateState` | Postgres | row and event commit together; the audit trail is the history of the state |
| `internal/outbox` | `published_at` of each row | `relayBatch` on a 200 ms ticker | Postgres, Kafka | at least once, never an uncommitted event, per-account order |
| `internal/kafka` | group offset per partition, dead-letter topic | `Publish`, `Consume`, `RetryHandler`, `publishToDLQ` | Kafka | no record is passed over; effects in order |
| `internal/ledger` | `ledger_entries` | `Post` | Postgres twice: its own transaction and `UpdateState`'s | debit and credit together, once |
| `internal/settlement` | `settlement_batches`, `lastWindowEnd` in memory | `Run`, `settle`, `processGroup`, `PersistBatch` | Postgres | a payment is paid once; SETTLED means paid |
| `internal/fraud-score` | velocity counters in Redis, `fraud_scores` | `Score`, `SaveScore` | Redis, Postgres | fast payments are flagged; every handled payment has a score, and repeated ones have a cause |

Hard behaviours: concurrent submissions of one payment and expiry of its slot;
unlocked polling by several relays; database ids that do not follow commit
order; a commit whose error or answer is lost; two database transactions in one
handler; redelivery after rebalances, crashes and failed offset commits;
retries after a recorded failure; an in-memory mark lost in a restart. The
`hazards` of `PROJECT.json` list them at their lines, with the properties aimed
at each.

## Modules

| Module | Models | Checked by | Proved in |
|---|---|---|---|
| `Domain` | the lifecycle table | through `Ledger` | |
| `Intake` | `SubmitPayment`, `Claim`, `SaveWithOutbox` | `MCIntake` | `IntakeProofs` |
| `EventChannel` | abstract: what the outbox promises | refinement target | |
| `Relay` | writers of outbox rows, `relayBatch`, `Publish` | `MCRelay` | `RelayProofs` |
| `Consumer` | `Consume`, `RetryHandler`, `publishToDLQ` over one partition | `MCConsumer` | `ConsumerProofs` |
| `Ledger` | `Post` and `UpdateState` under the retry handler | `Ledger.cfg` | `LedgerProofs` |
| `Settlement` | `Run`, `settle`, `PersistBatch` | `MCSettlement` | `SettlementProofs` |
| `Fraud` | `Score`, its velocity counter, `SaveScore` under the retry handler | `MCFraud` | `FraudProofs` |
| `Normalize` | the raw map, `formatAmount`, `parseAmount`, both normalizers and validators, column types, the consumers' checks | `MCNormalize` | `NormalizeProofs` |
| `PaymentLifecycle` | abstract: what the pipeline promises of a booked payment | refinement target | |
| `Pipeline` | `Ledger`, `Settlement` and `EventChannel` composed through the `transactions` table | `MCPipeline` | `PipelineProofs` |

**Intake.** A call is one run of the handler and stands for the id it mints,
unless the metadata brings a `payment_id`, which replaces it (`PaymentId`).
`phase` is the place a call has reached; each action runs from one Redis or
Postgres call to the next, so calls interleave exactly at those points.
`redis` holds the slots, `transactions` and `outbox` the committed rows. The
idempotency key of the row is the client's raw key (`IndexKey`) while the slot
is claimed under `DeriveKey`; the two differ for keyless requests, whose rows
all carry the empty string. The unique index, and the primary key when clients
choose ids, make an insert wait for an open transaction with the same value and
fail on a committed one. `CommitFails` is the deferred `tx.Commit` whose error is
dropped. `cmd/intake` leaves the Redis client its default of three retries: a
SETNX whose answer is lost has taken effect and is sent again (`ClaimResent`),
after which the call finds its own claim, and only when the client gives up is
the call answered with an error (`ClaimError`).

**Relay.** Row ids are drawn at the insert; commits come in any order. A relay
reads a batch without a lock, publishes the head, marks it, and goes on; a
failed or cut-off call may have taken effect, and ends the batch. `before`
records, when a row is inserted, which rows of its stream were committed: this
is the order a client can observe, and the one per-account ordering can promise.
`EventChannel` states the promise without relays, batches or marks. Some rows
may be `oversized`: gRPC takes payloads larger than the broker's limit, and
`relayBatch` meets such a row again on every tick (`PublishRefused`). No failure
budget limits this.

**Consumer.** One partition. Polls return any number of records; a member that
loses the partition finishes what it fetched, and its commits are accepted or
refused. A failed commit or dead letter ends the process, which is restarted.

**Ledger.** A worker handles one event at a time. `Post` is cut at each
statement. Legs are counted per direction, so a missing unique index would
show as a count of two. `UpdateState` is one step: its transaction holds the
row lock from the compare-and-set to its commit.

**Settlement.** The clock is a counter. A batch is its group, window and the
payments whose total it pays. `PersistBatch` is one step for the same reason as
`UpdateState`. `late`, `since` and `skipped` are history.

**Fraud.** One account, whose counter is a key with an expiry. `Incr` and
`SetExpiry` are separate steps because a pipeline is not a transaction.
The client of Redis has the default of three retries here too: `Resend` is a
pipeline whose INCR, and perhaps EXPIRE, was executed and whose answer was lost,
and that is sent again. `RedisFails` is the client giving up, which skips the
velocity rule whatever Redis has done; it is not bounded.
Scores are in tenths; the rule on new accounts never fires, since the consumer
does not copy the metadata it reads. `counted`, `renewed` and `fast` are
history: which payments a counter stands for, when each was last followed by an
EXPIRE, and whether an INCR came too soon after others.

**Normalize.** One payment's data on its way from the request to the ledger
consumer. A text is a leading sign and the parts between its dots; a part is a
sign, a value and a number of digits, of which `parseAmount` only tells apart
none, one, two and more. Integers go from -`Half` to `Half` - 1. TLC uses 2^23,
which like 2^63 leaves 8 on division by 100: that remainder decides how the
smallest integer is written ("--83886.-8") and that it can be read back.
Metadata entries replace fields of the request.

**Pipeline.** `Ledger` and `Settlement` are instantiated over one `state`
variable and one budget of failures; their own actions for the other side
(`Settlement!Capture`, the ledger's given events) are replaced by the real
ones. The outbox is `EventChannel`, which `Relay` implements, with `accepted`
the booked payments and `undeliverable` the `Oversized` ones, whose event the
broker refuses. `PaymentLifecycle` knows stages, and sets of posted, paid,
abandoned and lost payments; the mapping reads them off the tables. Abandoned is
what the dead-letter topic holds. Lost is what was acknowledged although the
COMMIT of its legs had failed: it has no legs and is in no topic. Progress ends,
for all payments, when one is booked whose event is stuck.

Abstractions: outside `Normalize`, amounts, currencies and accounts are what
keys and groups tell apart; sha256 is injective, and a client key never has the
form of a derived one; a command that a client of Redis sends again or gives up
has taken effect by then or never does; Postgres runs at READ COMMITTED with its documented waits; a transaction whose
client dies is rolled back, or committed if the COMMIT had been received,
before that client is restarted.

## Runs

| Run | Expect | Shows |
|---|---|---|
| `intake` | pass | three calls over six requests (keyed with and without a payment id of its own, refused, two keyless, one of them with that id too, unsupported), all failures, one resent claim: `NeverDoubleProcess`, `AckedUnlessCommitFailed`, `DupNamesSameKey`, `EveryCallEnds` |
| `relay` | pass | two relays, three rows, two streams, batch of two, one failure: `NoLostNoPhantom`, `CausalOrder`, `RepeatsHaveCause`, `ImplementsChannel`, `PublishedUnlessBlocked`; with and without a row the broker refuses |
| `ledger` | pass | two workers, two payments (one not positive), three faults: `Balanced`, `HandledIsPosted`, `AuditTrail`, `CapturedIsPosted`, `EveryEventHandled` |
| `consumer` | pass | two members, five records, three faults: `NoRecordSkipped`, `InOrder`, `HandledUnlessGarbage` |
| `settlement` | pass | one engine, three payments in two groups, two faults: `NoDoubleSettling`, `SettledIsPaid`, `BufferCoversCapture` |
| `fraud` | pass | two workers, two payments of one account, limit one, two faults of which one may be a resent pipeline, Redis failing at will: `FastIsReviewed`, `RescoringHasCause`, `HandledIsScored`, `ScoringNeverBlocks` |
| `normalize` | pass | 2400 requests under each validator: `RoundTrip`, `TextExact`, `DeadHasCause` |
| `pipeline` | pass | two payments, the event of one oversized, two workers, one engine, two faults: `PaidWasCaptured`, `ImplementsLifecycle`, `PaidIsPosted` |
| `intake_dup` | violation | `DupAckNotLost` |
| `ledger_stale` | violation | `StaleMeansCaptured` |
| `consumer_garbage` | violation | `EveryRecordHandled` |
| `settlement_race` | violation | `NoDoubleSettling` with two engines |

Every property of a passing run has a mutant, a small change of one modelled
definition (`..._Name`, defined just before it) under which TLC finds the
property violated.

Bounds. Three calls allow a claimant, a duplicate and a retry after expiry, and
the third call decides between two others' leftovers. Three rows in batches of
two give a full batch, a short one, and a late commit of the lowest id; two
relays give every overlap of two batches. Three attempts and three faults let
an event exhaust its retries, or be failed, crashed on and redelivered. Five
records put good ones on both sides of a malformed one and in front of and
behind one that is not JSON. Four clock units hold a first window, a second one
and, after a crash, one that overlaps both. In `Relay` the first row is in
the first stream, which is no restriction as streams are only compared; the
second row is the one that may be refused, so that rows stand on both sides of
it. A limit of one, a minute of two clock units and two payments with
redeliveries let a counter expire while recent payments are still to be
counted. The requests of `Normalize` hold every amount within 210 of zero and of
both ends of the integers. One payment, twice captured or paid, is enough for a
violation of the lifecycle, and a second one, whose event is refused, ends the
first one's progress when it is booked at any time; batches of several and
overlapping windows are in `Settlement`. `settlement` uses symmetry over the two
payments of one group, which nothing tells apart; it has no liveness property.
`intake` has one, and so uses no symmetry of TLC's: calls differ in nothing but
their name, and `MCIntake` keeps of the behaviours that differ only in names the
one in which calls are named in the order of their requests (`OrderedSpec`).
Clients are under no fairness, so the restriction takes nothing from what
handlers do. `MCFraud` bounds faults and resends together (`MaxTogether`).
Deadlock checking is off: all models stop when their finite supply of
calls, rows, events or time is used up.

Fairness. Weak fairness of the steps of a handler, relay, worker or member: the
loops run on a ticker or a poll, a Go routine goes on once its call returns,
and a process that exits is restarted by its supervisor. No fairness is assumed
of clients, writers, the clock or failures. Failures are bounded: liveness says
what happens once the database, Redis and the broker are back. In `Pipeline` the
relay's progress is that of `EventChannel` and no more: weak fairness of
`Publish` as long as no oversized payment is booked. Nothing is assumed of the
settlement engine. In `Fraud` failures of Redis are neither bounded nor fair.
Two members that take the partition from each other without end are excluded in
the same way as other failures: rebalances count among them.

## Where the code and its documents disagree

- `intake_dup`: `SubmitPayment` claims the slot before it saves, and never
  gives it back. When `SaveWithOutbox` fails, the retry within the TTL is
  answered `Deduplicated: true` with an id that is stored nowhere
  (`internal/intake/server.go:111`), against "Never lose an acknowledged
  payment event" (`README.md:10`).
- `ledger_stale`: the test at `internal/ledger/ledger.go:112` looks for
  CAPTURED in a text that always names it as the target, so any stale
  transition passes as "already in CAPTURED state". A payment marked FAILED by
  a first attempt, whose BEGIN or insert failed, is posted by the second and stays FAILED; settlement never
  sees it.
- `consumer_garbage`: a dead letter embeds the payload as `json.RawMessage`,
  which does not marshal unless the payload is JSON
  (`internal/kafka/retry.go:60`). The consumer exits on such a record for ever.
  Outbox payloads are JSONB, so this takes another producer on the topic.
- `settlement_race`: the WHERE clause of the UPDATE protects the state of a
  payment and not the total of the batch (`internal/settlement/pgstore.go:137`).
  Two engines with different windows pay a payment twice.

Seen in the code, and described by the passing properties as they are:

- The deferred commits of `SaveWithOutbox` (`internal/store/store.go:185`) and
  `Post` (`internal/ledger/ledger.go:56`) lose their error.
  `AckedUnlessCommitFailed` and `HandledIsPosted` do not rule this out; they
  show that it is the only hole of its kind. `CapturedIsPosted`, `PaidIsPosted`
  and the progress of the life cycle exempt it by name (`Lost`).
- `internal/intake/server_test.go:126` expects the stored state to be RECEIVED.
  `SubmitPayment` stores VALIDATED (`server.go:131`), with which all models
  begin; RECEIVED is only in the answer.
- `Claim` is said to return "the cached payment_id of the prior submission"
  (`internal/idempotency/store.go:18`). A SETNX that is sent again finds the slot
  taken by the call itself: the client is told `Deduplicated: true` of a payment
  that nobody books. `DupNamesSameKey` names this case (`resent`).
- "ErrAlreadyPosted is returned when both ledger legs for a payment_id already
  exist" (`internal/ledger/ledger.go:16`), and `ledger_test.go:156` expects it.
  The code at `ledger.go:99` goes on with the state transition and returns nil,
  as `Credit`, `Capture` and `Return` do; nothing returns the error.
- All keyless payments share the empty string in the unique column
  (`internal/store/migrations/000001_init.up.sql:16`), so one of them can be
  stored. This is also why `NeverDoubleProcess` holds for them.
- `AggregateCaptured` selects by `created_at` (`internal/settlement/pgstore.go:43`,
  with a TODO). `BufferCoversCapture` is what the buffer then guarantees; a
  payment captured later than that is not settled by a running engine. The
  property exempts such payments (`late`), those of a group whose persisting
  failed (`skipped`) and those from before the first window.
- `Score` sends EXPIRE after every INCR although the comment at
  `internal/fraud-score/fraud-engine.go:57` says "only on the first increment".
  Steady traffic therefore never lets the counter start again, and is flagged
  however slow it is; in return `FastIsReviewed` holds, and its mutant shows
  that it would not if the code did what the comment says.
- The rule on new accounts reads metadata that `cmd/fraud-consumer/main.go:92`
  does not hand over.
- "Handlers must be idempotent (track processed event IDs)"
  (`internal/kafka/consumer.go:12`). The fraud handler inserts a score each time
  it runs, and `fraud_scores` has no unique index, so that a redelivered event
  adds a row (`RescoringHasCause` bounds them by their causes).
  A resent pipeline counts one payment several times, so that an account can be
  flagged below the limit.
- `parseAmount` takes signs inside its parts ("1.-5" is 95 minor units) and
  `majorUnits * 100` wraps around silently; `TextExact` says what holds.
- Neither validator checks both the amount and the account, and the server has
  place for one: `DeadHasCause` says which events then die in the consumer.
- CAPTURED is committed before the legs, so that a payment can be paid out
  before it is posted; `PaidIsPosted` shows that the gap closes unless the event
  is dead-lettered or the COMMIT of the legs fails. Then it stays open: the
  payment is paid out and the ledger has nothing of it.
- A group that fails to persist is not tried again (`engine.go:147`), and the
  move to SETTLED writes no `state_transitions` row (`pgstore.go:130`).
- `cmd/intake` wires no validator, so amounts of zero or less are booked; `Post`
  refuses them and they end in the dead-letter topic, still VALIDATED.

## Proofs

Eight modules prove, for every value of the constants their assumptions allow,
every invariant that the passing runs check, and the safety part of both
refinements:

| Module | Assumes | Proves |
|---|---|---|
| `IntakeProofs` | `RequestAssumption` | `TypeOK`, `NeverDoubleProcess`, `AckedUnlessCommitFailed`, `DupNamesSameKey` |
| `RelayProofs` | `RelayAssumption` | `TypeOK`, `NoLostNoPhantom`, `CausalOrder`, `RepeatsHaveCause`; every behaviour is one of `EventChannel` as far as safety goes (`Refines`) |
| `LedgerProofs` | `LedgerAssumption` | `TypeOK`, `Balanced`, `HandledIsPosted`, `AuditTrail` |
| `ConsumerProofs` | `ConsumerAssumption` | `TypeOK`, `NoRecordSkipped`, `InOrder` |
| `SettlementProofs` | `SettlementAssumption` | `TypeOK` and `BufferCoversCapture` for any number of engines; `NoDoubleSettling` and `SettledIsPaid` under `OneEngine` |
| `FraudProofs` | `FraudAssumption` | `TypeOK`, `FastIsReviewed`, `RescoringHasCause`, `HandledIsScored` |
| `NormalizeProofs` | `NormalizeAssumption` | `TypeOK`, `RoundTrip`, `TextExact`, `DeadHasCause` |
| `PipelineProofs` | `PipelineAssumption` | `PaidWasCaptured`, the ledger's `Balanced` and `HandledIsPosted` and settlement's `BufferCoversCapture` for any number of engines; under `OneEngine`, settlement's `NoDoubleSettling` and `SettledIsPaid` and the safety part of `ImplementsLifecycle` (`LifecycleSafe`) |

Without `OneEngine` the run `settlement_race` refutes `NoDoubleSettling`.
Nothing in the code ensures it; it is a condition on the deployment. The other
assumptions give the constants their types: sets of relays, workers and payments
that are counted are finite, limits are natural numbers, and `Nobody`, `Unset`
and `Never` are not values. `NormalizeAssumption` takes of the integers that
`Half` is at least 100 and that its last two digits are below 10, as those of
2^63 (...08) are; the theorems therefore hold of the int64 of the code, and not
only of the 24 bits TLC uses. With a larger remainder the smallest integer would
have three characters after the dot, and `parseAmount` would refuse it.

`NeverDoubleProcess` is not inductive: it says nothing of open transactions.
The invariant adds that a call past `Receive` has its request (`HasRequest`),
that a slot names the payment of a call that has claimed it (`SlotsMatch`: one
that is past its claim under that key, or whose claim was sent again and that is
going to find it), that open and committed transactions differ pairwise in the
primary key and in the unique column (`IndexUnique`, from which equal dedup keys
are excluded because equal dedup keys imply equal columns), that a transaction is
over once its call is (`CommitsOver`), and that a deduplicated answer is a call's
last step (`DupOver`). `DupNamesSameKey` comes from `SlotsMatch`: the claimant a
GET finds is another call, or the same one after a resend.

`CausalOrder` needs that ids respect the causal order (`IdsInOrder`: what was
committed before a row was inserted has a smaller id, so the SELECT cannot put
it behind), that `before` only holds committed rows of the same stream
(`BeforeSound`), that a batch is closed under pending predecessors
(`BatchClosed`: for each row a relay holds, what must come first is in its
batch in front of it, or already in the log), and that a row about to be marked
is in the log (`MarkLogged`). Each action then keeps each conjunct, and the
refinement is a case analysis over the actions under this invariant.

`RepeatsHaveCause` counts. As long as a row is not marked, each of its copies in
the log is one a relay is about to mark (`Marking`) or one a fault has cost; once
it is marked, each relay that still holds it without having published it
(`Stale`) can add one more. `CopiesBound` says both, and marking goes from the
first to the second because `Marking` and `Stale` are disjoint sets of relays.

`Balanced` speaks of committed legs and is kept by `Commit` only because of what
the committing transaction holds: each leg is inserted by it or was in the
ledger (`Progressed`), what it has inserted is not in the ledger
(`InsertedIsNew`), and no other open transaction on the payment holds the same
leg (`Exclusive`, the unique index). From this and from the pairs being equal
before (`Paired`), a commit adds both legs or none. `Acked` carries the result
to the offset commit. `AuditTrail` follows from `OneMove`: `UpdateState` is only
ever asked to leave VALIDATED, so a trail has one row at most.

`NoRecordSkipped` says nothing of the members. The invariant of `Consumer` adds
that a member gets to a record when all before it are done, and commits it when
it is done itself (`Reached`), and that what its next poll leaves out is done or
still in its hands (`FetchSound`: a partition that comes back to a busy member
moves the fetch position under a batch it is still working on). This holds of
members that have lost the partition too, which is why their commits do no harm.

With one engine, nobody else settles what an engine has aggregated
(`StillCaptured`), and a window has one aggregate for a group (`OnePerGroup`),
so a batch pays payments that no other batch has paid. `BufferCoversCapture`
rests on windows that start at the mark and end a buffer ago (`Marks`): from
then on a payment of the window that is captured is late, so that an aggregate
stays complete (`GroupComplete`), every payment of the window is in the engine's
hands until it is settled or skipped (`WindowCovered`), and a batch leaves none
of its group and window behind (`BatchFinal`), also when `PersistBatch` finds the
row of another engine and does nothing.

`FastIsReviewed` needs that the counter is not below the payments of the last
minute (`KeyCovers`: each of them has pushed the expiry of the key behind the end
of its minute) and that what a worker read of the counter is enough
(`SeesBurst`). `RescoringHasCause` is the visible half of a potential: what has
been counted or saved, what workers have in their hands and are going to count
or save, and one for each payment that may still be delivered for the first
time, is at most one per payment and one per cause (`CountBound`, `SaveBound`):
a fault, or for the counter a pipeline sent again.
A key that has expired starts with nobody counted, and `NextKeyBound` is what
`CountBound` is then restored from.

In `Normalize` the state machine is short (`Tracked`: a transaction is what the
normalizer made of the request; `Checked`: what each phase has tested), and the
work is in the operators. `WrapUnique` characterises wrap-around arithmetic: the
result is the one integer of the width that differs by a multiple of 2 * `Half`.
From it `ReadsWhatIsWritten` shows that `parseAmount` inverts `formatAmount`, in
three cases: numbers not below zero, negative ones, and the smallest, whose
negation is itself and whose two parts are both written with a sign.
`ReadsTexts` compares `parseAmount` with the number a text denotes.

`PipelineProofs` instantiates the proofs of the components and uses their lemmas
on single steps; the components' own invariants hold only of their own
specifications, in which nobody else moves the rows. What survives the
composition is that part of them that does not depend on others: `Posting` and
`WorkType` of the ledger, `Shape` and `Taken` of settlement (what an engine has
aggregated was CAPTURED, and only an engine leaves CAPTURED). `Trail` ties the
audit rows to the state, and `Known` says that only booked payments are handled.
The `CoverInv` of settlement carries over too (`StepCovered`): the only capture
that could open a payment in a window an engine has already taken is one after
the buffer, and the composition records it in `late` as settlement's own writer
does.
The refinement maps each worker's and engine's step to a step of
`PaymentLifecycle` or to none (a failed COMMIT becomes visible as `Lose` when the
event is acknowledged), and needs with one engine that payouts are sound
(`PayInv`), so that what a batch pays had not been paid.

Model-checked only: liveness (`EveryCallEnds`, the progress parts of
`ImplementsChannel` and `ImplementsLifecycle`, `PublishedUnlessBlocked`,
`CapturedIsPosted`, `EveryEventHandled`, `HandledUnlessGarbage`,
`ScoringNeverBlocks`, `PaidIsPosted`), which rests on fairness and is out of the
prover's reach.

## Not modelled

The dead-letter tool (a stub), topic provisioning, configuration, logging and
interceptors hold no state of the pipeline. `Save` and `GetByIdempotencyKey` of
the store have no caller in it. Totals of batches are sets of payments, not
sums. The move to SETTLED writes no audit row, so `AuditTrail` is a property of
the ledger alone.

## Plan

1. Done: all components that carry the pipeline's state, the composition with
   its abstract specification, and the proofs of all invariants and of the
   safety parts of both refinements.
2. That `EventChannel` itself delivers in causal order and `PaymentLifecycle`
   pays only what was captured: properties of the abstract specifications that
   their refinements inherit.
