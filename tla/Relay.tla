-------------------------------- MODULE Relay --------------------------------
(***************************************************************************)
(* The outbox table, the transactions that write to it, the relay          *)
(* processes that poll it and the Kafka log they publish to.               *)
(*                                                                         *)
(* A relay holds no lock between reading a batch and marking its rows, so  *)
(* any number of relays may work on one row.  Everything that ends a batch *)
(* early (an error, a shutdown, a crash) leaves the relay idle until its   *)
(* next tick; the call it interrupts may or may not have taken effect.     *)
(***************************************************************************)
EXTENDS Naturals, Sequences, FiniteSets, Functions

CONSTANTS
    Relays,     \* relay processes
    Streams,    \* pairs of topic and partition key
    MaxRows,    \* bound: rows the writers insert
    StreamsOf,  \* the possible assignments of rows to streams
    BatchSize,  \* LIMIT of the relay's SELECT
    Refusable,  \* rows the broker may refuse for good, for their size
    MaxFaults   \* bound: calls that fail or are cut off

ASSUME RelayAssumption ==
    /\ IsFiniteSet(Relays)
    /\ MaxRows \in Nat
    /\ StreamsOf \subseteq [1 .. MaxRows -> Streams]
    /\ Refusable \subseteq 1 .. MaxRows
    /\ BatchSize \in Nat \ {0}
    /\ MaxFaults \in Nat

Rows == 1 .. MaxRows

VARIABLES
    status,     \* free, open (uncommitted), pending, published or aborted
    stream,     \* topic and partition key of a row
    oversized,  \* the rows the broker refuses for good
    before,     \* history: same-stream rows committed when a row was inserted
    pc,         \* what a relay does next
    batch,      \* the rows a relay has read and not yet marked
    log,        \* the Kafka log of each stream
    faults      \* failures so far

vars == <<status, stream, oversized, before, pc, batch, log, faults>>
writers == <<status, stream, oversized, before>>

Visible == {i \in Rows : status[i] \in {"pending", "published"}}
Pending == {i \in Rows : status[i] = "pending"}
Logged(s) == Range(log[s])

Init ==
    /\ status = [i \in Rows |-> "free"]
    /\ stream \in StreamsOf
    /\ oversized \in SUBSET Refusable
    /\ before = [i \in Rows |-> {}]
    /\ pc = [r \in Relays |-> "idle"]
    /\ batch = [r \in Relays |-> {}]
    /\ log = [s \in Streams |-> <<>>]
    /\ faults = 0

-----------------------------------------------------------------------------
(***************************************************************************)
(* The writers: SaveWithOutbox and PersistBatch insert a row in their own  *)
(* transaction.  The BIGSERIAL id is drawn at the insert, so rows may      *)
(* commit in another order than that of their ids.                         *)
(***************************************************************************)

Insert(i) ==
    /\ status[i] = "free"
    /\ \A j \in Rows : j < i => status[j] # "free"
    /\ status' = [status EXCEPT ![i] = "open"]
    /\ before' = [before EXCEPT ![i] =
                     {a \in Visible : stream[a] = stream[i]}]
    /\ UNCHANGED <<stream, oversized, pc, batch, log, faults>>

Commit(i) ==
    /\ status[i] = "open"
    /\ status' = [status EXCEPT ![i] = "pending"]
    /\ UNCHANGED <<stream, oversized, before, pc, batch, log, faults>>

Abort(i) ==
    /\ status[i] = "open"
    /\ status' = [status EXCEPT ![i] = "aborted"]
    /\ UNCHANGED <<stream, oversized, before, pc, batch, log, faults>>

-----------------------------------------------------------------------------
(***************************************************************************)
(* relayBatch.                                                             *)
(***************************************************************************)

\* Mutant: the SELECT has no ORDER BY.
FirstRows_Unordered(b, u) ==
    /\ b \subseteq u
    /\ \/ Cardinality(b) = BatchSize
       \/ b = u /\ Cardinality(u) < BatchSize

\* b holds the first BatchSize rows of those in u, or all of them.
FirstRows(b, u) ==
    /\ b \subseteq u
    /\ \A i \in b, j \in u \ b : i < j
    /\ \/ Cardinality(b) = BatchSize
       \/ b = u /\ Cardinality(u) < BatchSize

IsHead(r, i) == i \in batch[r] /\ \A j \in batch[r] : i <= j

\* Mutant: the relay waits for a full batch.
Select_FullBatch(r) ==
    /\ pc[r] = "idle"
    /\ Cardinality(Pending) >= BatchSize
    /\ \E b \in SUBSET Pending :
          /\ FirstRows(b, Pending)
          /\ batch' = [batch EXCEPT ![r] = b]
    /\ pc' = [pc EXCEPT ![r] = "publish"]
    /\ UNCHANGED <<writers, log, faults>>

\* SELECT ... WHERE published_at IS NULL ORDER BY id LIMIT BatchSize.
Select(r) ==
    /\ pc[r] = "idle"
    /\ Pending # {}
    /\ \E b \in SUBSET Pending :
          /\ FirstRows(b, Pending)
          /\ batch' = [batch EXCEPT ![r] = b]
    /\ pc' = [pc EXCEPT ![r] = "publish"]
    /\ UNCHANGED <<writers, log, faults>>

Produce(i) == log' = [log EXCEPT ![stream[i]] = Append(@, i)]

Publish(r, i) ==
    /\ pc[r] = "publish"
    /\ IsHead(r, i)
    /\ i \notin oversized
    /\ Produce(i)
    /\ pc' = [pc EXCEPT ![r] = "mark"]
    /\ UNCHANGED <<writers, batch, faults>>

\* Mutant: a published row is given a status the SELECT does not know.
Mark_Deletes(r, i) ==
    /\ pc[r] = "mark"
    /\ IsHead(r, i)
    /\ status' = [status EXCEPT ![i] = "deleted"]
    /\ batch' = [batch EXCEPT ![r] = @ \ {i}]
    /\ pc' = [pc EXCEPT ![r] = IF batch[r] = {i} THEN "idle" ELSE "publish"]
    /\ UNCHANGED <<stream, oversized, before, log, faults>>

\* Mutant: the UPDATE is forgotten.
Mark_Forgotten(r, i) ==
    /\ pc[r] = "mark"
    /\ IsHead(r, i)
    /\ batch' = [batch EXCEPT ![r] = @ \ {i}]
    /\ pc' = [pc EXCEPT ![r] = IF batch[r] = {i} THEN "idle" ELSE "publish"]
    /\ UNCHANGED <<status, stream, oversized, before, log, faults>>

\* UPDATE outbox SET published_at = NOW() WHERE id = i, then on to the next
\* row of the batch.
Mark(r, i) ==
    /\ pc[r] = "mark"
    /\ IsHead(r, i)
    /\ status' = [status EXCEPT ![i] = "published"]
    /\ batch' = [batch EXCEPT ![r] = @ \ {i}]
    /\ pc' = [pc EXCEPT ![r] = IF batch[r] = {i} THEN "idle" ELSE "publish"]
    /\ UNCHANGED <<stream, oversized, before, log, faults>>

\* The rest of the batch is dropped; the next tick reads a new one.
StopBatch(r) ==
    /\ pc' = [pc EXCEPT ![r] = "idle"]
    /\ batch' = [batch EXCEPT ![r] = {}]

\* Mutant: the relay repeats a refused record until it is accepted.
PublishRefused_Repeats(r, i) ==
    /\ pc[r] = "publish"
    /\ IsHead(r, i)
    /\ i \in oversized
    /\ UNCHANGED vars

\* The broker refuses the record, on this and on every later tick.
PublishRefused(r, i) ==
    /\ pc[r] = "publish"
    /\ IsHead(r, i)
    /\ i \in oversized
    /\ StopBatch(r)
    /\ UNCHANGED <<writers, log, faults>>

Fault ==
    /\ faults < MaxFaults
    /\ faults' = faults + 1

\* Mutant: the publish error is logged and the row is marked anyway.
PublishFails_Ignored(r, i) ==
    /\ pc[r] = "publish"
    /\ IsHead(r, i)
    /\ pc' = [pc EXCEPT ![r] = "mark"]
    /\ UNCHANGED <<writers, batch, log, faults>>

\* ProduceSync returns an error or is cut off; the broker may have appended
\* the record all the same.
PublishFails(r, i) ==
    /\ pc[r] = "publish"
    /\ IsHead(r, i)
    /\ (i \notin oversized /\ Produce(i)) \/ UNCHANGED log
    /\ Fault
    /\ StopBatch(r)
    /\ UNCHANGED writers

\* The UPDATE returns an error or is cut off; it may have committed.
MarkFails(r, i) ==
    /\ pc[r] = "mark"
    /\ IsHead(r, i)
    /\ \/ status' = [status EXCEPT ![i] = "published"]
       \/ UNCHANGED status
    /\ Fault
    /\ StopBatch(r)
    /\ UNCHANGED <<stream, oversized, before, log>>

-----------------------------------------------------------------------------
Writer(i) == Insert(i) \/ Commit(i) \/ Abort(i)

Step(r) ==
    \/ Select(r)
    \/ \E i \in Rows : Publish(r, i) \/ PublishRefused(r, i) \/ Mark(r, i)

Failure(r) == \E i \in Rows : PublishFails(r, i) \/ MarkFails(r, i)

Next ==
    \/ \E i \in Rows : Writer(i)
    \/ \E r \in Relays : Step(r) \/ Failure(r)

\* The ticker keeps calling relayBatch and the process is restarted when it
\* dies.  Faults are bounded: the broker and the database come back.
Fairness == \A r \in Relays : WF_vars(Step(r))

Spec == Init /\ [][Next]_vars /\ Fairness

-----------------------------------------------------------------------------
(***************************************************************************)
(* Properties.                                                             *)
(***************************************************************************)

\* Every variable keeps its shape.
TypeOK ==
    /\ status \in [Rows -> {"free", "open", "pending", "published", "aborted"}]
    /\ stream \in [Rows -> Streams]
    /\ oversized \subseteq Rows
    /\ before \in [Rows -> SUBSET Rows]
    /\ pc \in [Relays -> {"idle", "publish", "mark"}]
    /\ batch \in [Relays -> SUBSET Rows]
    /\ log \in [Streams -> Seq(Rows)]
    /\ faults \in 0 .. MaxFaults

\* A row marked published is in the log, and the log holds committed rows
\* only: a relay that dies at any point loses no event, and a rolled back
\* payment is never announced.
NoLostNoPhantom ==
    /\ \A i \in Rows : status[i] = "published" => i \in Logged(stream[i])
    /\ \A s \in Streams : Logged(s) \subseteq Visible

\* Per-account order: before an event appears in its stream, every event
\* committed before it was written has appeared there, whatever relays race,
\* fail or repeat, and although ids do not follow the order of commits.
CausalOrder ==
    \A s \in Streams : \A n \in DOMAIN log[s] :
        \A a \in before[log[s][n]] : \E m \in 1 .. n - 1 : log[s][m] = a

\* A consumer sees an event again only because another relay had read it or a
\* call failed: repetitions of one event are bounded by these causes.
RepeatsHaveCause ==
    \A i \in Rows :
        Cardinality({n \in DOMAIN log[stream[i]] : log[stream[i]][n] = i})
            <= Cardinality(Relays) + faults

\* The outbox behaves as the channel the pipeline relies on, with the
\* guarantee that every committed event is published in the end unless one is
\* refused for good.
Channel == INSTANCE EventChannel WITH
    Events <- Rows,
    undeliverable <- oversized,
    after <- before,
    accepted <- Visible,
    delivered <- UNION {Logged(s) : s \in Streams},
    closed <- {i \in Rows : status[i] = "published"}

ImplementsChannel == Channel!Spec

\* A row the broker refuses holds up the rows with larger ids and no others:
\* a committed row is published in the end, unless a pending row that is
\* refused for good is at or ahead of it in the order of ids.
PublishedUnlessBlocked ==
    \A i \in Rows :
        (status[i] = "pending") ~>
            \/ status[i] = "published"
            \/ \E j \in oversized : j <= i /\ status[j] = "pending"
=============================================================================
