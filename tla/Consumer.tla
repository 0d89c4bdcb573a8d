------------------------------ MODULE Consumer ------------------------------
(***************************************************************************)
(* One partition of a topic and the consumer group that reads it: Consume  *)
(* with the retry handler and the dead-letter queue.  The ledger, fraud    *)
(* and notification consumers all run this loop.                           *)
(*                                                                         *)
(* A rebalance moves the partition at any time.  The member that lost it   *)
(* still works through the records it has fetched and commits them; the    *)
(* broker accepts that, as the member is still in the group, or refuses.   *)
(***************************************************************************)
EXTENDS Naturals, Sequences

CONSTANTS
    Members,        \* processes of the consumer group
    Log,            \* the records of the partition, by what they hold
    MaxAttempts,    \* attempts of the retry handler
    MaxFaults,      \* bound: failures, crashes and rebalances
    NoOwner         \* the partition is unassigned

\* good: an event the handler can process.  malformed: JSON without the
\* required fields.  garbage: a payload that is not JSON.
Kinds == {"good", "malformed", "garbage"}

ASSUME ConsumerAssumption ==
    /\ Log \in Seq(Kinds)
    /\ MaxAttempts \in Nat \ {0}
    /\ MaxFaults \in Nat
    /\ NoOwner \notin Members

Offsets == 1 .. Len(Log)

VARIABLES
    owner,      \* the member the partition is assigned to
    pc,         \* what a member does next
    fetch,      \* the offset a member's next poll starts at
    pos,        \* the offset a member is handling
    end,        \* the first offset behind the records of its last poll
    attempt,    \* the retry handler's loop counter
    committed,  \* the group's offset: the first record not known as handled
    handled,    \* offsets some handler has processed with success
    dlq,        \* offsets that are in the dead-letter topic
    faults      \* failures so far

cursor == <<fetch, pos, end>>
vars == <<owner, pc, cursor, attempt, committed, handled, dlq, faults>>

Init ==
    /\ owner = NoOwner
    /\ pc = [m \in Members |-> "poll"]
    /\ fetch = [m \in Members |-> 1]
    /\ pos = [m \in Members |-> 1]
    /\ end = [m \in Members |-> 1]
    /\ attempt = [m \in Members |-> 0]
    /\ committed = 1
    /\ handled = {}
    /\ dlq = {}
    /\ faults = 0

Fault ==
    /\ faults < MaxFaults
    /\ faults' = faults + 1

Goto(m, step) == pc' = [pc EXCEPT ![m] = step]

\* Consume returns an error and main exits; the group drops the member.
Exit(m) ==
    /\ Goto(m, "down")
    /\ owner' = IF owner = m THEN NoOwner ELSE owner
    /\ fetch' = [fetch EXCEPT ![m] = 1]
    /\ pos' = [pos EXCEPT ![m] = 1]
    /\ end' = [end EXCEPT ![m] = 1]
    /\ attempt' = [attempt EXCEPT ![m] = 0]

-----------------------------------------------------------------------------
(***************************************************************************)
(* The group coordinator (external).                                       *)
(***************************************************************************)

\* The new owner will fetch from the committed offset.  It may still be busy
\* with records it fetched when it had the partition before.
Assign(m) ==
    /\ pc[m] # "down"
    /\ owner # m
    /\ IF owner = NoOwner THEN UNCHANGED faults ELSE Fault
    /\ owner' = m
    /\ fetch' = [fetch EXCEPT ![m] = committed]
    /\ UNCHANGED <<pc, pos, end, attempt, committed, handled, dlq>>

Restart(m) ==
    /\ pc[m] = "down"
    /\ Goto(m, "poll")
    /\ UNCHANGED <<owner, cursor, attempt, committed, handled, dlq, faults>>

-----------------------------------------------------------------------------
(***************************************************************************)
(* Consume.                                                                *)
(***************************************************************************)

\* Mutant: a poll that returned no records is not skipped.
PollFetches_Empty(m) ==
    /\ pc[m] = "poll"
    /\ owner = m
    /\ fetch[m] <= Len(Log)
    /\ end' = [end EXCEPT ![m] = fetch[m]]
    /\ pos' = [pos EXCEPT ![m] = fetch[m]]
    /\ Goto(m, "handle")
    /\ attempt' = [attempt EXCEPT ![m] = 1]
    /\ UNCHANGED <<owner, fetch, committed, handled, dlq, faults>>

\* PollFetches returns some records from its fetch position on.
PollFetches(m) ==
    /\ pc[m] = "poll"
    /\ owner = m
    /\ \E e \in fetch[m] + 1 .. Len(Log) + 1 :
          /\ end' = [end EXCEPT ![m] = e]
          /\ fetch' = [fetch EXCEPT ![m] = e]
    /\ pos' = [pos EXCEPT ![m] = fetch[m]]
    /\ Goto(m, "handle")
    /\ attempt' = [attempt EXCEPT ![m] = 1]
    /\ UNCHANGED <<owner, committed, handled, dlq, faults>>

\* The handler processes the record.
Handle(m) ==
    /\ pc[m] = "handle"
    /\ Log[pos[m]] = "good"
    /\ handled' = handled \cup {pos[m]}
    /\ Goto(m, "commit")
    /\ UNCHANGED <<owner, cursor, attempt, committed, dlq, faults>>

\* Mutant: the last attempt's error is dropped instead of dead-lettered.
HandleFails_Drops(m) ==
    /\ pc[m] = "handle"
    /\ Log[pos[m]] = "good"
    /\ Fault
    /\ IF attempt[m] < MaxAttempts
       THEN attempt' = [attempt EXCEPT ![m] = @ + 1] /\ UNCHANGED pc
       ELSE Goto(m, "commit") /\ UNCHANGED attempt
    /\ UNCHANGED <<owner, cursor, committed, handled, dlq>>

\* The handler returns a retryable error; after the last attempt the record
\* goes to the dead-letter queue.
HandleFails(m) ==
    /\ pc[m] = "handle"
    /\ Log[pos[m]] = "good"
    /\ Fault
    /\ IF attempt[m] < MaxAttempts
       THEN attempt' = [attempt EXCEPT ![m] = @ + 1] /\ UNCHANGED pc
       ELSE Goto(m, "dlq") /\ UNCHANGED attempt
    /\ UNCHANGED <<owner, cursor, committed, handled, dlq>>

\* Mutant: a malformed event is retried for ever instead of dead-lettered.
HandleRejects_Exits(m) ==
    /\ pc[m] = "handle"
    /\ Log[pos[m]] # "good"
    /\ Exit(m)
    /\ UNCHANGED <<committed, handled, dlq, faults>>

\* The handler returns ErrNonRetryable.
HandleRejects(m) ==
    /\ pc[m] = "handle"
    /\ Log[pos[m]] # "good"
    /\ Goto(m, "dlq")
    /\ UNCHANGED <<owner, cursor, attempt, committed, handled, dlq, faults>>

\* The dead letter embeds the payload as raw JSON.
PublishToDLQ(m) ==
    /\ pc[m] = "dlq"
    /\ Log[pos[m]] # "garbage"
    /\ dlq' = dlq \cup {pos[m]}
    /\ Goto(m, "commit")
    /\ UNCHANGED <<owner, cursor, attempt, committed, handled, faults>>

\* A payload that is not JSON does not marshal: the error ends Consume.
MarshalFails(m) ==
    /\ pc[m] = "dlq"
    /\ Log[pos[m]] = "garbage"
    /\ Exit(m)
    /\ UNCHANGED <<committed, handled, dlq, faults>>

\* Mutant: nil is returned although the dead letter was refused.
PublishFails_Ignored(m) ==
    /\ pc[m] = "dlq"
    /\ Log[pos[m]] # "garbage"
    /\ Fault
    /\ Goto(m, "commit")
    /\ UNCHANGED <<owner, cursor, attempt, committed, handled, dlq>>

\* The broker refuses the dead letter, or its answer is lost.
PublishFails(m) ==
    /\ pc[m] = "dlq"
    /\ Log[pos[m]] # "garbage"
    /\ Fault
    /\ dlq' \in {dlq, dlq \cup {pos[m]}}
    /\ Exit(m)
    /\ UNCHANGED <<committed, handled>>

\* The offset behind the record, whatever was committed before; then the next
\* record of the fetch, or the next poll.
CommitRecords(m) ==
    /\ pc[m] = "commit"
    /\ committed' = pos[m] + 1
    /\ pos' = [pos EXCEPT ![m] = @ + 1]
    /\ attempt' = [attempt EXCEPT ![m] = 1]
    /\ Goto(m, IF pos[m] + 1 < end[m] THEN "handle" ELSE "poll")
    /\ UNCHANGED <<owner, fetch, end, handled, dlq, faults>>

\* The commit returns an error, though it may have been recorded: always
\* possible for a member that has lost the partition, a fault for its owner.
CommitFails(m) ==
    /\ pc[m] = "commit"
    /\ IF owner = m THEN Fault ELSE UNCHANGED faults
    /\ committed' \in {committed, pos[m] + 1}
    /\ Exit(m)
    /\ UNCHANGED <<handled, dlq>>

Crash(m) ==
    /\ pc[m] # "down"
    /\ Fault
    /\ Exit(m)
    /\ UNCHANGED <<committed, handled, dlq>>

-----------------------------------------------------------------------------
Step(m) ==
    \/ PollFetches(m) \/ Handle(m) \/ HandleRejects(m) \/ PublishToDLQ(m)
    \/ MarshalFails(m) \/ CommitRecords(m)

Join(m) ==
    \/ Restart(m)
    \/ owner = NoOwner /\ Assign(m)

Environment(m) ==
    \/ Restart(m) \/ Assign(m) \/ HandleFails(m) \/ PublishFails(m)
    \/ CommitFails(m) \/ Crash(m)

Next == \E m \in Members : Step(m) \/ Environment(m)

\* A running member goes on, a dead one is restarted, and an unassigned
\* partition is given to a member.  Faults and rebalances are bounded: the
\* broker and the handler's dependencies come back.
Fairness ==
    \A m \in Members : WF_vars(Step(m)) /\ WF_vars(Join(m))

Spec == Init /\ [][Next]_vars /\ Fairness

-----------------------------------------------------------------------------
(***************************************************************************)
(* Properties.                                                             *)
(***************************************************************************)

\* Every variable keeps its shape; a member that is handling a record is at
\* an offset of the log.
TypeOK ==
    /\ owner \in Members \cup {NoOwner}
    /\ pc \in [Members -> {"poll", "handle", "dlq", "commit", "down"}]
    /\ fetch \in [Members -> 1 .. Len(Log) + 1]
    /\ pos \in [Members -> 1 .. Len(Log) + 1]
    /\ end \in [Members -> 1 .. Len(Log) + 1]
    /\ attempt \in [Members -> 0 .. MaxAttempts]
    /\ committed \in 1 .. Len(Log) + 1
    /\ handled \subseteq Offsets
    /\ dlq \subseteq Offsets
    /\ faults \in 0 .. MaxFaults
    /\ \A m \in Members :
           pc[m] \in {"handle", "dlq", "commit"} => pos[m] < end[m]

\* The group never moves past a record that was neither processed nor
\* dead-lettered, whoever commits: owners, members that lost the partition
\* in mid-batch, and members whose commit was refused.
NoRecordSkipped ==
    \A o \in Offsets : o < committed => o \in handled \cup dlq

\* Records of one partition take effect in order: when one has been processed
\* or dead-lettered, so have all before it.
InOrder ==
    \A o \in handled \cup dlq : 1 .. o \subseteq handled \cup dlq

\* Every record is processed or dead-lettered in the end, unless a record at
\* or before it cannot be marshalled into a dead letter.
HandledUnlessGarbage ==
    \A o \in Offsets :
        (\A q \in 1 .. o : Log[q] # "garbage") => <>(o \in handled \cup dlq)

\* A record the handler cannot parse is skipped: it goes to the dead-letter
\* queue and the records behind it are processed.
EveryRecordHandled == \A o \in Offsets : <>(o \in handled \cup dlq)
=============================================================================
