------------------------------- MODULE Intake -------------------------------
(***************************************************************************)
(* The inbound half of the pipeline: concurrent SubmitPayment calls, the   *)
(* Redis idempotency slots they claim, and the Postgres transaction that   *)
(* books the payment together with its outbox event.                       *)
(*                                                                         *)
(* A call is one run of the handler and mints one payment id, so the call  *)
(* itself stands for that id; a payment_id in the metadata replaces it.  A *)
(* client may send the same request in any number of calls, one after      *)
(* another or at the same time.                                            *)
(***************************************************************************)

EXTENDS Naturals, FiniteSets

CONSTANTS
    Calls,      \* the runs of SubmitPayment; each is also the id it mints
    Requests,   \* what clients send (see RequestType)
    Rejected,   \* the requests the validator refuses; {} when none is wired
    NoKey,      \* the empty idempotency_key
    NoId,       \* metadata without a payment_id
    NoAmount,   \* a request without an amount
    Nil,        \* no payment id
    MaxResends, \* bound: calls whose SETNX is sent again
    Faults      \* which environment failures happen in this model

(***************************************************************************)
(* A request is what handler code reads from it: the entries of the raw    *)
(* map after the metadata has been copied over it.                         *)
(***************************************************************************)
RequestFields ==
    {"source", "key", "id", "extTxn", "upiTrx", "account", "amount"}

FaultKinds == {"redis", "expire", "save", "commit", "crash"}

ASSUME RequestAssumption ==
    /\ \A r \in Requests : DOMAIN r = RequestFields
    /\ Rejected \subseteq Requests
    /\ Nil \notin Calls
    /\ Nil \notin Requests
    /\ \A r \in Requests : r.id # Nil
    /\ MaxResends \in Nat
    /\ Faults \subseteq FaultKinds

VARIABLES
    phase,          \* how far each call has come
    req,            \* the request a call carries
    resp,           \* what each call has answered
    redis,          \* idempotency slots: dedup key -> payment id or Nil
    transactions,   \* calls that have committed their transactions row
    outbox,         \* calls that have committed their outbox row
    aborted,        \* history: calls whose COMMIT failed
    resent          \* history: calls whose SETNX was sent more than once

db == <<transactions, outbox, aborted>>
vars == <<phase, req, resp, redis, transactions, outbox, aborted, resent>>

-----------------------------------------------------------------------------
(***************************************************************************)
(* Normalisation and key derivation.                                       *)
(***************************************************************************)

\* cmd/intake registers one normalizer for each of these, at version 1.
Registered == {"CARD", "UPI"}

\* Registry.Get and parseAmount reject everything else.
Normalizable(r) == r.source \in Registered /\ r.amount # NoAmount

\* The UPI normalizer reads the external id from "upi_trx_id", the card
\* normalizer from "external_txn_id".
ExternalTxnID(r) == IF r.source = "UPI" THEN r.upiTrx ELSE r.extTxn

\* The key the Redis slot is claimed under.
DeriveKey(r) ==
    IF r.key # NoKey
    THEN <<"client", r.key>>
    ELSE <<"derived", <<r.source, ExternalTxnID(r), r.account, r.amount>>>>

\* The payment id of a call, for which the metadata has the last word.
PaymentId(c) == IF req[c].id = NoId THEN c ELSE req[c].id

PaymentIds == Calls \cup {r.id : r \in Requests}

\* The idempotency_key column: the client's key as it came, empty or not.
IndexKey(c) == req[c].key

\* The rows of two calls collide in the primary key or in the unique index.
Conflict(c, d) == PaymentId(c) = PaymentId(d) \/ IndexKey(c) = IndexKey(d)

DedupKeys == {DeriveKey(r) : r \in Requests}

-----------------------------------------------------------------------------
Phases == {"idle", "claim", "get", "validate", "insert", "outbox", "commit",
           "done", "lost"}

\* The calls a crash of the server process would take down.
Active == {c \in Calls : phase[c] \notin {"idle", "done", "lost"}}

\* The calls whose open database transaction holds an inserted row.
InTx == {c \in Calls : phase[c] \in {"outbox", "commit"}}

NoResponse == [kind |-> "none", id |-> Nil]
Ack(c)     == [kind |-> "ack", id |-> PaymentId(c)]
Dup(p)     == [kind |-> "dup", id |-> p]
Error      == [kind |-> "error", id |-> Nil]

Answer(c, r) ==
    /\ phase' = [phase EXCEPT ![c] = "done"]
    /\ resp' = [resp EXCEPT ![c] = r]

Goto(c, p) ==
    /\ phase' = [phase EXCEPT ![c] = p]
    /\ UNCHANGED resp

Init ==
    /\ phase = [c \in Calls |-> "idle"]
    /\ req = [c \in Calls |-> Nil]
    /\ resp = [c \in Calls |-> NoResponse]
    /\ redis = [k \in DedupKeys |-> Nil]
    /\ transactions = {}
    /\ outbox = {}
    /\ aborted = {}
    /\ resent = {}

-----------------------------------------------------------------------------
(***************************************************************************)
(* SubmitPayment, cut at its calls to Redis and Postgres.                  *)
(***************************************************************************)

\* Everything before the claim is local: an unsupported source, a missing
\* normalizer or an amount that does not parse is answered with an error.
Receive(c, r) ==
    /\ phase[c] = "idle"
    /\ req' = [req EXCEPT ![c] = r]
    /\ IF Normalizable(r) THEN Goto(c, "claim") ELSE Answer(c, Error)
    /\ UNCHANGED <<redis, db, resent>>

\* Mutant: the slot is given the key in place of the payment id.
ClaimSetNX_StoresKey(c) ==
    LET k == DeriveKey(req[c]) IN
    /\ phase[c] = "claim"
    /\ redis' = [redis EXCEPT ![k] = IndexKey(c)]
    /\ Goto(c, "validate")
    /\ UNCHANGED <<req, db, resent>>

\* SET key payment_id NX EX ttl.
ClaimSetNX(c) ==
    LET k == DeriveKey(req[c]) IN
    /\ phase[c] = "claim"
    /\ IF redis[k] = Nil
       THEN /\ redis' = [redis EXCEPT ![k] = PaymentId(c)]
            /\ Goto(c, "validate")
       ELSE /\ Goto(c, "get")
            /\ UNCHANGED redis
    /\ UNCHANGED <<req, db, resent>>

\* The SETNX takes effect and its answer is lost.  The client is built with
\* the library's default of three retries and sends the command again, which
\* then finds the call's own claim, unless that has expired.
ClaimResent(c) ==
    LET k == DeriveKey(req[c]) IN
    /\ "redis" \in Faults
    /\ Cardinality(resent) < MaxResends
    /\ phase[c] = "claim"
    /\ redis[k] = Nil
    /\ redis' = [redis EXCEPT ![k] = PaymentId(c)]
    /\ resent' = resent \cup {c}
    /\ UNCHANGED <<phase, req, resp, db>>

\* Mutant: a duplicate is answered with the id this call has minted.
ClaimGet_OwnId(c) ==
    /\ phase[c] = "get"
    /\ Answer(c, Dup(PaymentId(c)))
    /\ UNCHANGED <<req, redis, db, resent>>

\* The key exists: GET it and answer with the payment id it holds.  A slot
\* that expired since the SETNX makes GET return redis.Nil, an error.
ClaimGet(c) ==
    LET p == redis[DeriveKey(req[c])] IN
    /\ phase[c] = "get"
    /\ Answer(c, IF p = Nil THEN Error ELSE Dup(p))
    /\ UNCHANGED <<req, redis, db, resent>>

\* The client gives up on either command.  A SETNX may have taken effect
\* before (ClaimResent).
ClaimError(c) ==
    /\ "redis" \in Faults
    /\ phase[c] \in {"claim", "get"}
    /\ Answer(c, Error)
    /\ UNCHANGED <<req, redis, db, resent>>

\* A rejected payment is answered with the validator's error; the slot it
\* claimed stays claimed.
Validate(c) ==
    /\ phase[c] = "validate"
    /\ IF req[c] \in Rejected THEN Answer(c, Error) ELSE Goto(c, "insert")
    /\ UNCHANGED <<req, redis, db, resent>>

(***************************************************************************)
(* SaveWithOutbox: BEGIN, insert the transactions row, insert the outbox   *)
(* row, COMMIT.                                                            *)
(***************************************************************************)

\* Mutant: the idempotency_key column has no unique index.
InsertTxn_NoIndex(c) ==
    /\ phase[c] = "insert"
    /\ \A d \in InTx \cup transactions : PaymentId(d) # PaymentId(c)
    /\ Goto(c, "outbox")
    /\ UNCHANGED <<req, redis, db, resent>>

\* Mutant: the insert waits for rows that are never going to leave.
InsertTxn_Waits(c) ==
    /\ phase[c] = "insert"
    /\ \A d \in InTx \cup transactions : ~Conflict(c, d)
    /\ Goto(c, "outbox")
    /\ UNCHANGED <<req, redis, db, resent>>

\* The primary key and the unique index on idempotency_key make an insert
\* fail on a committed row with the same value, and wait for an open
\* transaction that holds it.  They are looked up one after the other; here
\* the insert may meet them in either order.
InsertTxn(c) ==
    /\ phase[c] = "insert"
    /\ \/ /\ \E p \in transactions : Conflict(c, p)
          /\ Answer(c, Error)
       \/ /\ \A d \in InTx \cup transactions : ~Conflict(c, d)
          /\ Goto(c, "outbox")
    /\ UNCHANGED <<req, redis, db, resent>>

InsertOutbox(c) ==
    /\ phase[c] = "outbox"
    /\ Goto(c, "commit")
    /\ UNCHANGED <<req, redis, db, resent>>

\* Mutant: the error of a failed statement is not returned.
SaveError_Swallowed(c) ==
    /\ "save" \in Faults
    /\ phase[c] \in {"insert", "outbox"}
    /\ Answer(c, Ack(c))
    /\ UNCHANGED <<req, redis, db, resent>>

\* A statement fails and the deferred function rolls the transaction back.
SaveError(c) ==
    /\ "save" \in Faults
    /\ phase[c] \in {"insert", "outbox"}
    /\ Answer(c, Error)
    /\ UNCHANGED <<req, redis, db, resent>>

Commit(c) ==
    /\ phase[c] = "commit"
    /\ transactions' = transactions \cup {c}
    /\ outbox' = outbox \cup {c}
    /\ Answer(c, Ack(c))
    /\ UNCHANGED <<req, redis, aborted, resent>>

\* The commit fails.  The deferred function discards its error, so
\* SaveWithOutbox returns nil and the caller is told the payment is booked.
CommitFails(c) ==
    /\ "commit" \in Faults
    /\ phase[c] = "commit"
    /\ aborted' = aborted \cup {c}
    /\ Answer(c, Ack(c))
    /\ UNCHANGED <<req, redis, transactions, outbox, resent>>

-----------------------------------------------------------------------------
(***************************************************************************)
(* The environment.                                                        *)
(***************************************************************************)

\* The slot's TTL runs out, whether or not its claimant has finished.
Expire(k) ==
    /\ "expire" \in Faults
    /\ redis[k] # Nil
    /\ redis' = [redis EXCEPT ![k] = Nil]
    /\ UNCHANGED <<phase, req, resp, db, resent>>

\* The server process dies: its calls get no answer and Postgres rolls their
\* transactions back, except commits it had already received.
Crash ==
    /\ "crash" \in Faults
    /\ Active # {}
    /\ \E received \in SUBSET {c \in Calls : phase[c] = "commit"} :
          /\ transactions' = transactions \cup received
          /\ outbox' = outbox \cup received
    /\ phase' = [c \in Calls |-> IF c \in Active THEN "lost" ELSE phase[c]]
    /\ UNCHANGED <<req, resp, redis, aborted, resent>>

-----------------------------------------------------------------------------
Step(c) ==
    \/ ClaimSetNX(c) \/ ClaimGet(c) \/ Validate(c)
    \/ InsertTxn(c) \/ InsertOutbox(c) \/ Commit(c)

Failure(c) ==
    ClaimResent(c) \/ ClaimError(c) \/ SaveError(c) \/ CommitFails(c)

Handler(c) == Step(c) \/ Failure(c)

Next ==
    \/ \E c \in Calls, r \in Requests : Receive(c, r)
    \/ \E c \in Calls : Handler(c)
    \/ \E k \in DedupKeys : Expire(k)
    \/ Crash

\* A handler that has received a request keeps running: its goroutine goes on
\* whenever the call it waits for can return.  Nothing has to fail.
Fairness == \A c \in Calls : WF_vars(Step(c))

Spec == Init /\ [][Next]_vars /\ Fairness

-----------------------------------------------------------------------------
(***************************************************************************)
(* Properties.                                                             *)
(***************************************************************************)

\* Every variable keeps its shape.
TypeOK ==
    /\ phase \in [Calls -> Phases]
    /\ req \in [Calls -> Requests \cup {Nil}]
    /\ resp \in [Calls -> [kind : {"none", "ack", "dup", "error"},
                           id : PaymentIds \cup {Nil}]]
    /\ redis \in [DedupKeys -> PaymentIds \cup {Nil}]
    /\ transactions \subseteq Calls
    /\ outbox \subseteq Calls
    /\ aborted \subseteq Calls
    /\ resent \subseteq Calls

\* Retried and concurrent submissions of one payment book it at most once,
\* even when the Redis slot has expired, was never released, or was claimed
\* twice: two booked payments always differ in the key DeriveKey gives them.
NeverDoubleProcess ==
    \A p, q \in transactions :
        DeriveKey(req[p]) = DeriveKey(req[q]) => p = q

\* The one way to acknowledge a payment that is not booked is a COMMIT that
\* fails: no failed statement, unique-index conflict, validator error, expiry
\* or crash is answered as a success, and no event is ever left behind by, or
\* written without, its payment.
AckedUnlessCommitFailed ==
    /\ transactions = outbox
    /\ \A c \in Calls :
           resp[c].kind = "ack" <=>
               phase[c] = "done" /\ c \in outbox \cup aborted

\* A deduplicated answer names the payment of a call that carried the same
\* dedup key, although slots expire, ids are chosen by clients and answers of
\* Redis are lost: nobody is handed an unrelated payment.  The call is another
\* one, except where Redis was sent the SETNX again.
DupNamesSameKey ==
    \A c \in Calls :
        resp[c].kind = "dup" =>
            \E d \in Calls :
                /\ d # c \/ c \in resent
                /\ req[d] # Nil
                /\ resp[c].id = PaymentId(d)
                /\ DeriveKey(req[d]) = DeriveKey(req[c])

\* Every call that was received is answered or dies with the server: waiting
\* on the unique index never blocks handlers for good.
EveryCallEnds ==
    \A c \in Calls : (phase[c] # "idle") ~> (phase[c] \in {"done", "lost"})

\* A deduplicated answer is an acknowledgement too: the payment it names is
\* booked, or the call that is booking it is still running.
DupAckNotLost ==
    \A c \in Calls :
        resp[c].kind = "dup" =>
            \E d \in transactions \cup Active : resp[c].id = PaymentId(d)
=============================================================================
