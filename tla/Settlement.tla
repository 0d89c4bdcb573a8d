----------------------------- MODULE Settlement -----------------------------
(***************************************************************************)
(* The settlement engine: a ticker opens windows over the creation time of *)
(* payments; the captured payments of a window are aggregated into groups  *)
(* (account and currency) and each group is persisted as one batch, with   *)
(* the payout request of its total, in one database transaction.           *)
(*                                                                         *)
(* The engine remembers the end of its last window in memory only.         *)
(***************************************************************************)
EXTENDS Integers, FiniteSets

CONSTANTS
    Engines,    \* engine processes that run at the same time
    Payments,
    Groups,     \* pairs of account and currency
    GroupOf,    \* the group of each payment
    WindowSize, \* cfg.WindowSize, in clock units
    Buffer,     \* cfg.Buffer
    MaxTime,    \* bound: the clock stops here
    MaxFaults,  \* bound: failures and crashes
    Unset       \* the zero time.Time

ASSUME SettlementAssumption ==
    /\ GroupOf \in [Payments -> Groups]
    /\ WindowSize \in Nat \ {0}
    /\ Buffer \in Nat
    /\ MaxTime \in Nat
    /\ MaxFaults \in Nat
    /\ Unset \notin Int

VARIABLES
    now,            \* the wall clock
    state,          \* the state column; "none" before the row exists
    created,        \* created_at
    late,           \* history: payments captured after the buffer had passed
    batches,        \* committed settlement_batches rows with their payouts
    pc,             \* what an engine does next
    lastWindowEnd,  \* an engine's in-memory mark
    since,          \* history: start of the first window since it started
    window,         \* the window an engine is settling
    groups,         \* aggregated groups still to be persisted
    skipped,        \* history: payments of groups whose persist failed
    faults

payments == <<state, created, late>>
engine == <<pc, lastWindowEnd, since, window, groups>>
vars == <<now, payments, batches, engine, skipped, faults>>

NoWindow == [start |-> 0, end |-> 0]

Init ==
    /\ now = 0
    /\ state = [p \in Payments |-> "none"]
    /\ created = [p \in Payments |-> 0]
    /\ late = {}
    /\ batches = {}
    /\ pc = [e \in Engines |-> "idle"]
    /\ lastWindowEnd = [e \in Engines |-> Unset]
    /\ since = [e \in Engines |-> Unset]
    /\ window = [e \in Engines |-> NoWindow]
    /\ groups = [e \in Engines |-> {}]
    /\ skipped = {}
    /\ faults = 0

Fault ==
    /\ faults < MaxFaults
    /\ faults' = faults + 1

Goto(e, step) == pc' = [pc EXCEPT ![e] = step]

-----------------------------------------------------------------------------
(***************************************************************************)
(* The rest of the pipeline: intake stores a payment, the ledger captures  *)
(* it some time later.                                                     *)
(***************************************************************************)
AdvanceClock ==
    /\ now < MaxTime
    /\ now' = now + 1
    /\ UNCHANGED <<payments, batches, engine, skipped, faults>>

Create(p) ==
    /\ state[p] = "none"
    /\ state' = [state EXCEPT ![p] = "VALIDATED"]
    /\ created' = [created EXCEPT ![p] = now]
    /\ UNCHANGED <<now, late, batches, engine, skipped, faults>>

Capture(p) ==
    /\ state[p] = "VALIDATED"
    /\ state' = [state EXCEPT ![p] = "CAPTURED"]
    /\ late' = IF now > created[p] + Buffer THEN late \cup {p} ELSE late
    /\ UNCHANGED <<now, created, batches, engine, skipped, faults>>

-----------------------------------------------------------------------------
(***************************************************************************)
(* Run.                                                                    *)
(***************************************************************************)

\* Mutant: the buffer is not subtracted.
WindowEnd_NoBuffer(tick) == tick

\* Mutant: the buffer is added.
WindowEnd_Added(tick) == tick + Buffer

\* The buffer tail is left out of every window.
WindowEnd(tick) == tick - Buffer

\* The first tick sets the mark one window back; a window opens once a full
\* WindowSize has passed since the mark.  A tick can be older than the clock:
\* the ticker's channel keeps one while the engine settles a window.
Tick(e, tick) ==
    LET fresh == lastWindowEnd[e] = Unset
        start == IF fresh THEN WindowEnd(tick) - WindowSize
                          ELSE lastWindowEnd[e]
    IN  /\ pc[e] = "idle"
        /\ fresh => tick = now
        /\ WindowEnd(tick) - start >= WindowSize
        /\ lastWindowEnd' = [lastWindowEnd EXCEPT ![e] = start]
        /\ since' = [since EXCEPT ![e] = IF fresh THEN start ELSE @]
        /\ window' = [window EXCEPT ![e] =
                         [start |-> start, end |-> WindowEnd(tick)]]
        /\ Goto(e, "aggregate")
        /\ UNCHANGED <<now, payments, batches, groups, skipped, faults>>

\* The payments AggregateCaptured selects for group g.
Selected(e, g) ==
    {p \in Payments : /\ GroupOf[p] = g
                      /\ state[p] = "CAPTURED"
                      /\ window[e].start <= created[p]
                      /\ created[p] < window[e].end}

AggregateCaptured(e) ==
    /\ pc[e] = "aggregate"
    /\ groups' = [groups EXCEPT ![e] =
          {[group |-> g, ids |-> Selected(e, g)] :
               g \in {h \in Groups : Selected(e, h) # {}}}]
    /\ Goto(e, "persist")
    /\ UNCHANGED <<now, payments, batches, lastWindowEnd, since, window,
                   skipped, faults>>

\* settle returns an error: the mark stays, the next tick tries again.
AggregateFails(e) ==
    /\ pc[e] = "aggregate"
    /\ Fault
    /\ window' = [window EXCEPT ![e] = NoWindow]
    /\ Goto(e, "idle")
    /\ UNCHANGED <<now, payments, batches, lastWindowEnd, since, groups,
                   skipped>>

\* The unique index on account, currency and window.
Exists(b) ==
    \E c \in batches : c.group = b.group /\ c.window = b.window

\* Mutant: the payments keep their state.
PersistBatch_NoUpdate(b) ==
    /\ batches' = IF Exists(b) THEN batches ELSE batches \cup {b}
    /\ UNCHANGED state

\* Mutant: the payments are updated even when the batch row existed.
PersistBatch_AlwaysUpdate(b) ==
    /\ batches' = IF Exists(b) THEN batches ELSE batches \cup {b}
    /\ state' = [p \in Payments |->
                    IF p \in b.ids /\ state[p] = "CAPTURED"
                    THEN "SETTLED" ELSE state[p]]

\* PersistBatch: the batch row, unless there is one for this group and window;
\* SETTLED for the payments that are still CAPTURED; and the payout request,
\* which carries the total of all the payments that were aggregated.
PersistBatch(b) ==
    IF Exists(b)
    THEN UNCHANGED <<state, batches>>
    ELSE /\ batches' = batches \cup {b}
         /\ state' = [p \in Payments |->
                         IF p \in b.ids /\ state[p] = "CAPTURED"
                         THEN "SETTLED" ELSE state[p]]

Batch(e, a) == [group |-> a.group, window |-> window[e], ids |-> a.ids]

\* The query returns the groups in the order of their accounts, which the
\* model leaves open.
ProcessGroup(e, a) ==
    /\ pc[e] = "persist"
    /\ a \in groups[e]
    /\ PersistBatch(Batch(e, a))
    /\ groups' = [groups EXCEPT ![e] = @ \ {a}]
    /\ UNCHANGED <<now, created, late, pc, lastWindowEnd, since, window,
                   skipped, faults>>

\* The error is logged and the window goes on with the other groups.  The
\* transaction was rolled back, or committed with its answer lost.
GroupFails(e, a) ==
    /\ pc[e] = "persist"
    /\ a \in groups[e]
    /\ Fault
    /\ PersistBatch(Batch(e, a)) \/ UNCHANGED <<state, batches>>
    /\ groups' = [groups EXCEPT ![e] = @ \ {a}]
    /\ skipped' = skipped \cup a.ids
    /\ UNCHANGED <<now, created, late, pc, lastWindowEnd, since, window>>

\* No group is left: the mark advances, whatever became of the groups.
WindowComplete(e) ==
    /\ pc[e] = "persist"
    /\ groups[e] = {}
    /\ lastWindowEnd' = [lastWindowEnd EXCEPT ![e] = window[e].end]
    /\ window' = [window EXCEPT ![e] = NoWindow]
    /\ Goto(e, "idle")
    /\ UNCHANGED <<now, payments, batches, since, groups, skipped, faults>>

\* The process dies and is started again, with no mark.
Crash(e) ==
    /\ lastWindowEnd[e] # Unset
    /\ Fault
    /\ lastWindowEnd' = [lastWindowEnd EXCEPT ![e] = Unset]
    /\ since' = [since EXCEPT ![e] = Unset]
    /\ window' = [window EXCEPT ![e] = NoWindow]
    /\ groups' = [groups EXCEPT ![e] = {}]
    /\ Goto(e, "idle")
    /\ UNCHANGED <<now, payments, batches, skipped>>

-----------------------------------------------------------------------------
Engine(e) ==
    \/ \E tick \in 0 .. now : Tick(e, tick)
    \/ AggregateCaptured(e) \/ WindowComplete(e)
    \/ \E a \in groups[e] : ProcessGroup(e, a)

Failure(e) ==
    \/ AggregateFails(e) \/ Crash(e)
    \/ \E a \in groups[e] : GroupFails(e, a)

Next ==
    \/ AdvanceClock
    \/ \E p \in Payments : Create(p) \/ Capture(p)
    \/ \E e \in Engines : Engine(e) \/ Failure(e)

Spec == Init /\ [][Next]_vars

-----------------------------------------------------------------------------
(***************************************************************************)
(* Properties.                                                             *)
(***************************************************************************)
Times == -(WindowSize + Buffer) .. MaxTime
WindowType == [start : Times, end : Times]

\* Every variable keeps its shape.
TypeOK ==
    /\ now \in 0 .. MaxTime
    /\ state \in [Payments -> {"none", "VALIDATED", "CAPTURED", "SETTLED"}]
    /\ created \in [Payments -> 0 .. MaxTime]
    /\ late \subseteq Payments
    /\ batches \subseteq [group : Groups, window : WindowType,
                          ids : SUBSET Payments]
    /\ pc \in [Engines -> {"idle", "aggregate", "persist"}]
    /\ lastWindowEnd \in [Engines -> Times \cup {Unset}]
    /\ since \in [Engines -> Times \cup {Unset}]
    /\ window \in [Engines -> WindowType]
    /\ groups \in [Engines -> SUBSET [group : Groups, ids : SUBSET Payments]]
    /\ skipped \subseteq Payments
    /\ faults \in 0 .. MaxFaults

\* A payment is paid out by one batch at most, although the engine's mark is
\* lost in a crash and windows then overlap, and a failed persist may have
\* committed.
NoDoubleSettling ==
    \A b, c \in batches : b # c => b.ids \cap c.ids = {}

\* The payouts and the transactions table agree: a payment is SETTLED exactly
\* when some batch paid it.
SettledIsPaid ==
    \A p \in Payments :
        state[p] = "SETTLED" <=> \E b \in batches : p \in b.ids

\* What the buffer is for: once the mark of a running engine has passed the
\* creation time of a payment that was captured within the buffer, that
\* payment is settled, unless persisting its group failed.
BufferCoversCapture ==
    \A e \in Engines, p \in Payments :
        /\ lastWindowEnd[e] # Unset
        /\ state[p] = "CAPTURED"
        /\ p \notin late
        /\ since[e] <= created[p]
        /\ created[p] < lastWindowEnd[e]
        => p \in skipped
=============================================================================
