--------------------------- MODULE PipelineProofs ---------------------------
(***************************************************************************)
(* The safety of the pipeline as a whole, for any payments, workers and    *)
(* faults.  Only what the ledger has captured is paid out, whatever        *)
(* number of engines run; with one engine every step of the three programs *)
(* is a step of PaymentLifecycle.                                          *)
(*                                                                         *)
(* What the steps of a worker and of an engine do is taken from the proofs *)
(* of Ledger and Settlement, as lemmas about the shared table.             *)
(***************************************************************************)
EXTENDS Pipeline, TLAPS

LP == INSTANCE LedgerProofs
SP == INSTANCE SettlementProofs WITH pc <- enginePc

(***************************************************************************)
(* The inductive invariant: those of Ledger and Settlement that do not     *)
(* depend on who else moves the state column, and what ties them together. *)
(***************************************************************************)

\* The audit trail of a payment tells how the ledger has moved it: once at
\* most.  The engine's move from CAPTURED writes no audit row.
Trail ==
    /\ DOMAIN audit = Payments
    /\ \A p \in Payments :
          \/ state[p] \in {"none", "VALIDATED"} /\ audit[p] = <<>>
          \/ /\ state[p] \in {"CAPTURED", "SETTLED"}
             /\ audit[p] = <<<<"VALIDATED", "CAPTURED">>>>
          \/ /\ state[p] = "FAILED"
             /\ audit[p] = <<<<"VALIDATED", "FAILED">>>>

\* A worker only ever handles a payment whose row exists.
Known ==
    /\ delivered \subseteq Booked
    /\ \A w \in Workers : cur[w] \in delivered \cup {Nobody}

Inv ==
    /\ LP!WorkType
    /\ LP!Posting
    /\ SP!Shape
    /\ SP!Taken
    /\ Trail
    /\ Known

-----------------------------------------------------------------------------
(***************************************************************************)
(* The components as the pipeline names them and as their proofs do.       *)
(***************************************************************************)

\* A worker's step is one of Ledger.
LEMMA WorkerStep ==
    ASSUME NEW w \in Workers, Consume(w) \/ ConsumeFails(w)
    PROVE  LP!Step(w) \/ LP!Failure(w)
<1>1. L!Step(w) => LP!Step(w)
  BY DEF L!Step, L!Deliver, L!Take, L!Begin, L!Debit, L!Credit, L!InsertLeg,
         L!MarkFailed, L!Capture, L!UpdateState, L!Transition, L!allowed,
         L!Commit, L!Return, L!Retry, L!PublishToDLQ, L!CommitRecord, L!Exit,
         L!At, L!Goto, L!local, L!Directions,
         LP!Step, LP!Deliver, LP!Take, LP!Begin, LP!Debit, LP!Credit,
         LP!InsertLeg, LP!MarkFailed, LP!Capture, LP!UpdateState,
         LP!Transition, LP!allowed, LP!Commit, LP!Return, LP!Retry,
         LP!PublishToDLQ, LP!CommitRecord, LP!Exit, LP!At, LP!Goto, LP!local,
         LP!Directions
<1>2. L!Failure(w) => LP!Failure(w)
  BY DEF L!Failure, L!Redeliver, L!Take, L!LegsFail, L!MarkFailedFails,
         L!CaptureFails, L!UpdateState, L!Transition, L!allowed,
         L!CommitFails, L!Return, L!KafkaFails, L!Crash, L!Exit, L!Fault,
         L!At, L!Goto, L!local,
         LP!Failure, LP!Redeliver, LP!Take, LP!LegsFail, LP!MarkFailedFails,
         LP!CaptureFails, LP!UpdateState, LP!Transition, LP!allowed,
         LP!CommitFails, LP!Return, LP!KafkaFails, LP!Crash, LP!Exit,
         LP!Fault, LP!At, LP!Goto, LP!local
<1> QED
  BY <1>1, <1>2 DEF Consume, ConsumeFails

\* An engine's step is one of Settlement.
LEMMA EngineStep ==
    ASSUME NEW e \in Engines, Settle(e) \/ SettleFails(e)
    PROVE  SP!Engine(e) \/ SP!Failure(e)
<1>1. S!Engine(e) => SP!Engine(e)
  BY DEF S!Engine, S!Tick, S!WindowEnd, S!AggregateCaptured, S!Selected,
         S!WindowComplete, S!ProcessGroup, S!PersistBatch, S!Batch, S!Exists,
         S!NoWindow, S!Goto, S!payments,
         SP!Engine, SP!Tick, SP!WindowEnd, SP!AggregateCaptured, SP!Selected,
         SP!WindowComplete, SP!ProcessGroup, SP!PersistBatch, SP!Batch,
         SP!Exists, SP!NoWindow, SP!Goto, SP!payments
<1>2. S!Failure(e) => SP!Failure(e)
  BY DEF S!Failure, S!AggregateFails, S!Crash, S!GroupFails, S!PersistBatch,
         S!Batch, S!Exists, S!Fault, S!NoWindow, S!Goto, S!payments,
         SP!Failure, SP!AggregateFails, SP!Crash, SP!GroupFails,
         SP!PersistBatch, SP!Batch, SP!Exists, SP!Fault, SP!NoWindow, SP!Goto,
         SP!payments
<1> QED
  BY <1>1, <1>2 DEF Settle, SettleFails

\* The initial state is one of both.
LEMMA InitParts == Init => LP!Idle /\ SP!Init
BY DEF Init, L!Idle, L!Directions, S!Init, S!NoWindow,
       LP!Idle, LP!Directions, SP!Init, SP!NoWindow

-----------------------------------------------------------------------------
\* Nothing is booked, and nobody has started.
LEMMA InitInv == Init => Inv /\ SP!PayInv
<1> SUFFICES ASSUME Init PROVE Inv /\ SP!PayInv
  OBVIOUS
<1>1. LP!WorkType /\ LP!Posting
  BY InitParts, PipelineAssumption, LP!InitPosting DEF L!FaultKinds, LP!FaultKinds
<1>2. SP!PayInv /\ SP!Taken
  BY InitParts, PipelineAssumption, SP!InitPay
<1>3. Trail /\ Known
  BY InitParts DEF LP!Idle, SP!Init, Init, Trail, Known
<1> QED
  BY <1>1, <1>2, <1>3 DEF Inv, SP!PayInv

\* A worker moves the payment it has, from VALIDATED, or leaves the table
\* alone.
LEMMA WorkerMoves ==
    ASSUME Inv, NEW w \in Workers, Consume(w) \/ ConsumeFails(w)
    PROVE  \/ UNCHANGED <<state, audit>>
           \/ \E to \in {"CAPTURED", "FAILED"} :
                 /\ cur[w] \in Payments
                 /\ state[cur[w]] = "VALIDATED"
                 /\ state' = [state EXCEPT ![cur[w]] = to]
                 /\ audit' = [audit EXCEPT ![cur[w]] = <<<<"VALIDATED", to>>>>]
<1>1. \/ UNCHANGED <<state, audit>>
      \/ /\ cur[w] \in Payments
         /\ \E to \in {"CAPTURED", "FAILED"} :
               LP!UpdateState(cur[w], "VALIDATED", to)
  BY WorkerStep, LP!StepMoves, PipelineAssumption
     DEF Inv, L!FaultKinds, LP!FaultKinds
<1>2. ASSUME cur[w] \in Payments, state[cur[w]] = "VALIDATED", NEW x
      PROVE  [audit EXCEPT ![cur[w]] = Append(@, x)]
                = [audit EXCEPT ![cur[w]] = <<x>>]
  <2>1. audit[cur[w]] = <<>>
    BY <1>2 DEF Inv, Trail
  <2>2. Append(audit[cur[w]], x) = <<x>>
    BY <2>1
  <2> QED
    BY <2>2
<1> QED
  BY <1>1, <1>2 DEF LP!UpdateState

\* Every step of the pipeline keeps the invariant.
LEMMA StepInv ==
    ASSUME Inv, [Next]_vars
    PROVE  Inv'
<1> USE PipelineAssumption DEF L!FaultKinds, LP!FaultKinds
<1>1. ASSUME NEW p \in Payments, Book(p) PROVE Inv'
  <2>1. /\ state[p] = "none"
        /\ state' = [state EXCEPT ![p] = "VALIDATED"]
        /\ created' = [created EXCEPT ![p] = now]
        /\ UNCHANGED <<audit, legs, pc, cur, attempt, inserted, err, done,
                       dropped, delivered, now, late, batches, enginePc,
                       lastWindowEnd, since, window, groups, skipped>>
    BY <1>1 DEF Book, ledger, S!Create, S!engine
  <2>2. LP!WorkType' /\ LP!Posting'
    BY <2>1 DEF Inv, LP!WorkType, LP!Steps, LP!Directions, LP!Posting,
                LP!HasPayment, LP!InsertedIsNew, LP!Exclusive, LP!Progressed,
                LP!Paired, LP!Acked, LP!InLedger
  <2>3. SP!Shape'
    BY <2>1 DEF Inv, SP!Shape, SP!Rows, SP!Ready, SP!AnyBatch
  <2>4. /\ UNCHANGED <<batches, groups>>
        /\ \A q \in Payments :
              /\ state[q] \in {"CAPTURED", "SETTLED"} => state'[q] = state[q]
              /\ state'[q] = "SETTLED" => state[q] = "SETTLED"
    BY <2>1 DEF Inv, SP!Shape
  <2>5. SP!Taken'
    BY <2>3, <2>4, SP!OutsidePay DEF Inv
  <2>6. Trail' /\ Known'
    BY <2>1 DEF Inv, SP!Shape, Trail, Known, Booked
  <2> QED
    BY <2>2, <2>3, <2>5, <2>6 DEF Inv
<1>2. ASSUME NEW p \in Payments, Publish(p) PROVE Inv'
  <2>1. /\ p \in Booked
        /\ delivered' = delivered \cup {p}
        /\ UNCHANGED <<state, audit, legs, pc, cur, attempt, inserted, err,
                       done, dropped, created, now, late, batches, enginePc,
                       lastWindowEnd, since, window, groups, skipped>>
    BY <1>2 DEF Publish, ledger, engine, C!Deliver
  <2>2. LP!WorkType' /\ LP!Posting'
    BY <2>1 DEF Inv, LP!WorkType, LP!Steps, LP!Directions, LP!Posting,
                LP!HasPayment, LP!InsertedIsNew, LP!Exclusive, LP!Progressed,
                LP!Paired, LP!Acked, LP!InLedger
  <2>3. SP!Shape' /\ SP!Taken'
    BY <2>1 DEF Inv, SP!Shape, SP!Rows, SP!Ready, SP!AnyBatch, SP!Taken
  <2>4. Trail' /\ Known'
    BY <2>1 DEF Inv, Trail, Known, Booked
  <2> QED
    BY <2>2, <2>3, <2>4 DEF Inv
<1>3. ASSUME NEW w \in Workers, Consume(w) \/ ConsumeFails(w) PROVE Inv'
  <2>1. LP!WorkType' /\ LP!Posting'
    BY <1>3, WorkerStep, LP!StepPosting DEF Inv
  <2>2. /\ \A v \in Workers : cur'[v] \in delivered \cup {Nobody}
        /\ late' \subseteq late \cup Payments
        /\ UNCHANGED <<now, created, batches, enginePc, lastWindowEnd, since,
                       window, groups, skipped, delivered>>
    BY <1>3 DEF Consume, ConsumeFails, AroundLedger, engine
  <2>3. state' \in [Payments -> SP!Rows] /\ Trail'
    <3>1. CASE UNCHANGED <<state, audit>>
      BY <3>1 DEF Inv, SP!Shape, SP!Rows, Trail
    <3>2. CASE ~UNCHANGED <<state, audit>>
      <4>1. PICK to \in {"CAPTURED", "FAILED"} :
                /\ cur[w] \in Payments
                /\ state' = [state EXCEPT ![cur[w]] = to]
                /\ audit' = [audit EXCEPT ![cur[w]] = <<<<"VALIDATED", to>>>>]
        BY <1>3, <3>2, WorkerMoves
      <4> QED
        BY <4>1 DEF Inv, SP!Shape, SP!Rows, Trail
    <3> QED
      BY <3>1, <3>2
  <2>4. \A q \in Payments :
            /\ state[q] \in {"CAPTURED", "SETTLED"} => state'[q] = state[q]
            /\ state'[q] = "SETTLED" => state[q] = "SETTLED"
            /\ state[q] # "none" => state'[q] # "none"
    BY <1>3, WorkerMoves DEF Inv, SP!Shape
  <2>5. SP!Shape'
    BY <2>2, <2>3 DEF Inv, SP!Shape, SP!AnyBatch, SP!Ready
  <2>6. SP!Taken'
    BY <2>2, <2>4, <2>5, SP!OutsidePay DEF Inv
  <2>7. Known'
    BY <2>2, <2>4 DEF Inv, Known, Booked
  <2> QED
    BY <2>1, <2>3, <2>5, <2>6, <2>7 DEF Inv
<1>4. ASSUME NEW e \in Engines, Settle(e) \/ SettleFails(e) PROVE Inv'
  <2>1. SP!Shape' /\ SP!Taken'
    BY <1>4, EngineStep, SP!EngineShape, SP!EngineTaken DEF Inv
  <2>2. UNCHANGED <<audit, legs, pc, cur, attempt, inserted, err, done,
                    dropped, delivered>>
    BY <1>4 DEF Settle, SettleFails, ledger
  <2>3. LP!WorkType' /\ LP!Posting'
    BY <2>2 DEF Inv, LP!WorkType, LP!Steps, LP!Directions, LP!Posting,
                LP!HasPayment, LP!InsertedIsNew, LP!Exclusive, LP!Progressed,
                LP!Paired, LP!Acked, LP!InLedger
  <2>4. \A q \in Payments :
            \/ state'[q] = state[q]
            \/ state[q] = "CAPTURED" /\ state'[q] = "SETTLED"
    BY <1>4, EngineStep, SP!EnginePersists
  <2>5. Trail' /\ Known'
    BY <2>2, <2>4 DEF Inv, Trail, Known, Booked
  <2> QED
    BY <2>1, <2>3, <2>5 DEF Inv
<1>5. ASSUME AdvanceClock \/ UNCHANGED vars PROVE Inv'
  <2>1. /\ now' \in Nat
        /\ UNCHANGED <<state, audit, legs, pc, cur, attempt, inserted, err,
                       done, dropped, created, late, batches, enginePc,
                       lastWindowEnd, since, window, groups, skipped, delivered>>
    BY <1>5 DEF AdvanceClock, vars, ledger, engine, S!AdvanceClock,
                S!payments, S!engine, Inv, SP!Shape
  <2>2. LP!WorkType' /\ LP!Posting'
    BY <2>1 DEF Inv, LP!WorkType, LP!Steps, LP!Directions, LP!Posting,
                LP!HasPayment, LP!InsertedIsNew, LP!Exclusive, LP!Progressed,
                LP!Paired, LP!Acked, LP!InLedger
  <2>3. SP!Shape' /\ SP!Taken'
    BY <2>1 DEF Inv, SP!Shape, SP!Rows, SP!Ready, SP!AnyBatch, SP!Taken
  <2>4. Trail' /\ Known'
    BY <2>1 DEF Inv, Trail, Known, Booked
  <2> QED
    BY <2>2, <2>3, <2>4 DEF Inv
<1> QED
  BY <1>1, <1>2, <1>3, <1>4, <1>5 DEF Next

\* The invariant holds throughout.
THEOREM Invariance == Spec => []Inv
<1>1. Inv /\ [Next]_vars => Inv'
  BY StepInv
<1> QED
  BY <1>1, InitInv, PTL DEF Spec

\* Nothing is paid out that the ledger has not captured, whatever number of
\* engines settle at once and whichever steps fail: PersistBatch pays what
\* AggregateCaptured has read, and no program ever leaves CAPTURED but the
\* engine.
THEOREM CapturedFirst == Spec => []PaidWasCaptured
<1>1. Inv => PaidWasCaptured
  <2> SUFFICES ASSUME Inv, NEW p \in Paid
               PROVE  audit[p] # <<>> /\ audit[p][Len(audit[p])][2] = "CAPTURED"
    BY DEF PaidWasCaptured
  <2>1. PICK b \in batches : p \in b.ids
    BY DEF Paid
  <2>2. p \in Payments /\ state[p] \in {"CAPTURED", "SETTLED"}
    BY <2>1 DEF Inv, SP!Shape, SP!AnyBatch, SP!Taken
  <2>3. audit[p] = <<<<"VALIDATED", "CAPTURED">>>>
    BY <2>2 DEF Inv, Trail
  <2> QED
    BY <2>3
<1> QED
  BY <1>1, Invariance, PTL

\* The ledger keeps its own promises when an engine moves the rows it has
\* captured: no leg without the other, and no event acknowledged unposted.
THEOREM LedgerStaysSound == Spec => [](LP!Balanced /\ LP!HandledIsPosted)
<1>1. Inv => LP!Balanced /\ LP!HandledIsPosted
  BY LP!PostingImplies, PipelineAssumption DEF Inv, L!FaultKinds, LP!FaultKinds
<1> QED
  BY <1>1, Invariance, PTL

-----------------------------------------------------------------------------
(***************************************************************************)
(* The settlement buffer, when it is the ledger that captures.             *)
(***************************************************************************)

\* Every step of the pipeline keeps the payments of the windows covered.
LEMMA StepCovered ==
    ASSUME Inv, Inv', SP!CoverInv, [Next]_vars
    PROVE  SP!CoverInv'
<1> USE PipelineAssumption
<1>0. SP!Shape /\ SP!Shape'
  BY DEF Inv
<1>1. ASSUME NEW e \in Engines, Settle(e) \/ SettleFails(e) PROVE SP!CoverInv'
  BY <1>0, <1>1, EngineStep, SP!EngineCover
<1>2. ASSUME now <= now',
             UNCHANGED <<batches, enginePc, lastWindowEnd, since, window,
                         groups, skipped>>,
             \A p \in Payments : SP!Open(p)' =>
                 \/ SP!Open(p) /\ created'[p] = created[p]
                 \/ created'[p] + Buffer >= now,
             \A p \in Payments : state[p] \in {"CAPTURED", "SETTLED"} =>
                 created'[p] = created[p] /\ state'[p] = state[p]
      PROVE  SP!CoverInv'
  BY <1>0, <1>2, SP!OutsideCover DEF SP!engine
<1>3. ASSUME NEW p \in Payments, Book(p) PROVE SP!CoverInv'
  <2>1. /\ state[p] = "none" /\ state'[p] = "VALIDATED"
        /\ \A q \in Payments : q # p => /\ state'[q] = state[q]
                                        /\ created'[q] = created[q]
        /\ now <= now'
        /\ UNCHANGED <<late, batches, enginePc, lastWindowEnd, since, window,
                       groups, skipped>>
    BY <1>0, <1>3 DEF Book, S!Create, S!engine, SP!Shape
  <2>2. \A q \in Payments : SP!Open(q)' =>
            SP!Open(q) /\ created'[q] = created[q]
    BY <2>1 DEF SP!Open
  <2> QED
    BY <1>2, <2>1, <2>2
<1>4. ASSUME NEW w \in Workers, Consume(w) \/ ConsumeFails(w)
      PROVE  SP!CoverInv'
  <2>1. /\ UNCHANGED <<now, created, batches, enginePc, lastWindowEnd, since,
                       window, groups, skipped>>
        /\ late' = late \cup {p \in Payments : /\ state[p] # state'[p]
                                               /\ state'[p] = "CAPTURED"
                                               /\ now > created[p] + Buffer}
    BY <1>4 DEF Consume, ConsumeFails, AroundLedger, engine
  <2>2. \A p \in Payments :
            state[p] \in {"CAPTURED", "SETTLED"} => state'[p] = state[p]
    BY <1>4, WorkerMoves DEF Inv, SP!Shape
  <2>3. now \in Nat /\ Buffer \in Nat /\ \A p \in Payments : created[p] \in Int
    BY <1>0 DEF SP!Shape
  <2>4. ASSUME NEW p \in Payments, SP!Open(p)'
        PROVE  SP!Open(p) \/ created[p] + Buffer >= now
    <3>1. state'[p] = "CAPTURED" /\ p \notin late'
      BY <2>4 DEF SP!Open
    <3>2. CASE state[p] = "CAPTURED"
      BY <2>1, <3>1, <3>2 DEF SP!Open
    <3>3. CASE state[p] # "CAPTURED"
      <4>1. ~(now > created[p] + Buffer)
        BY <2>1, <3>1, <3>3
      <4> QED
        BY <2>3, <4>1
    <3> QED
      BY <3>2, <3>3
  <2>5. now <= now'
    BY <2>1, <2>3
  <2> QED
    BY <1>2, <2>1, <2>2, <2>4, <2>5
<1>5. ASSUME \/ AdvanceClock \/ UNCHANGED vars
             \/ \E p \in Payments : Publish(p)
      PROVE  SP!CoverInv'
  <2>1. /\ now <= now'
        /\ UNCHANGED <<state, created, late, batches, enginePc, lastWindowEnd,
                       since, window, groups, skipped>>
    BY <1>0, <1>5 DEF AdvanceClock, S!AdvanceClock, S!payments, S!engine,
                      Publish, engine, vars, SP!Shape
  <2>2. \A p \in Payments : SP!Open(p)' =>
            SP!Open(p) /\ created'[p] = created[p]
    BY <2>1 DEF SP!Open
  <2> QED
    BY <1>2, <2>1, <2>2
<1> QED
  BY <1>1, <1>3, <1>4, <1>5 DEF Next

\* What AggregateCaptured selects by created_at misses no payment that a ledger
\* worker captures within the buffer, whatever delays, retries and crashes lie
\* between booking and capture: when the mark of an engine has passed such a
\* payment, it is settled, unless persisting its group failed.
THEOREM BufferSound == Spec => []SP!BufferCoversCapture
<1>1. Init => SP!CoverInv
  BY InitParts, PipelineAssumption, SP!InitCover
<1>2. Inv /\ Inv' /\ SP!CoverInv /\ [Next]_vars => SP!CoverInv'
  BY StepCovered
<1>3. SP!CoverInv => SP!BufferCoversCapture
  BY DEF SP!CoverInv
<1> QED
  BY <1>1, <1>2, <1>3, Invariance, PTL DEF Spec

-----------------------------------------------------------------------------
(***************************************************************************)
(* The refinement, with one engine.                                        *)
(***************************************************************************)

\* Every step of the pipeline keeps the payouts of the only engine sound: the
\* other programs never move what it has aggregated.
LEMMA StepPay ==
    ASSUME SP!OneEngine, Inv, SP!PayInv, [Next]_vars
    PROVE  SP!PayInv'
<1> USE PipelineAssumption
<1>1. ASSUME NEW e \in Engines, Settle(e) \/ SettleFails(e) PROVE SP!PayInv'
  BY <1>1, EngineStep, SP!EnginePay
<1>2. ASSUME UNCHANGED <<batches, groups>>,
             \A p \in Payments :
                 /\ state[p] \in {"CAPTURED", "SETTLED"} => state'[p] = state[p]
                 /\ state'[p] = "SETTLED" => state[p] = "SETTLED"
      PROVE  SP!PayInv'
  BY <1>2, StepInv, SP!OutsidePay DEF Inv
<1>3. ASSUME NEW p \in Payments, Book(p) PROVE SP!PayInv'
  BY <1>2, <1>3 DEF Book, S!Create, S!engine, Inv, SP!Shape
<1>4. ASSUME NEW p \in Payments, Publish(p) PROVE SP!PayInv'
  BY <1>2, <1>4 DEF Publish, engine
<1>5. ASSUME NEW w \in Workers, Consume(w) \/ ConsumeFails(w) PROVE SP!PayInv'
  <2>1. UNCHANGED <<batches, groups>>
    BY <1>5 DEF Consume, ConsumeFails, AroundLedger, engine
  <2>2. \A p \in Payments :
            /\ state[p] \in {"CAPTURED", "SETTLED"} => state'[p] = state[p]
            /\ state'[p] = "SETTLED" => state[p] = "SETTLED"
    BY <1>5, WorkerMoves DEF Inv, SP!Shape
  <2> QED
    BY <1>2, <2>1, <2>2
<1>6. ASSUME AdvanceClock \/ UNCHANGED vars PROVE SP!PayInv'
  BY <1>2, <1>6 DEF AdvanceClock, S!AdvanceClock, S!payments, S!engine, vars,
                    engine
<1> QED
  BY <1>1, <1>3, <1>4, <1>5, <1>6 DEF Next

\* Nobody has been posted, paid, given up or lost at the start.
LEMMA InitRefines == Init => Lifecycle!Init
<1> SUFFICES ASSUME Init PROVE Lifecycle!Init
  OBVIOUS
<1>1. /\ state = [p \in Payments |-> "none"] /\ batches = {} /\ dropped = {}
      /\ done = [p \in Payments |-> "no"]
      /\ legs = [p \in Payments |-> [d \in L!Directions |-> 0]]
  BY DEF Init, S!Init, L!Idle
<1>2. \A p \in Payments : ~L!Posted(p)
  <2> SUFFICES ASSUME NEW p \in Payments, L!Posted(p) PROVE FALSE
    OBVIOUS
  <2>1. [d \in L!Directions |-> 0]["DEBIT"] = [d \in L!Directions |-> 1]["DEBIT"]
    BY <1>1 DEF L!Posted
  <2> QED
    BY <2>1 DEF L!Directions
<1>3. Posted = {} /\ Paid = {} /\ Abandoned = {} /\ Lost = {}
  BY <1>1, <1>2 DEF Posted, Paid, Abandoned, Lost, L!Lost
<1> QED
  BY <1>1, <1>3 DEF Lifecycle!Init

\* A step of a worker is a step of the life cycle, or not visible in it.
LEMMA WorkerRefines ==
    ASSUME Inv, NEW w \in Workers, Consume(w) \/ ConsumeFails(w)
    PROVE  Lifecycle!Next \/ UNCHANGED Lifecycle!vars
<1> DEFINE q == cur[w]
<1>1. UNCHANGED Paid
  BY DEF Consume, ConsumeFails, AroundLedger, engine, Paid
<1>2. q \in Payments => state[q] # "none"
  BY PipelineAssumption DEF Inv, Known, Booked
<1>3. CASE UNCHANGED <<legs, done, dropped>>
  <2>1. UNCHANGED <<Posted, Abandoned, Lost>>
    BY <1>3 DEF Posted, Abandoned, Lost, L!Posted, L!Lost
  <2>2. CASE UNCHANGED <<state, audit>>
    BY <1>1, <2>1, <2>2 DEF Lifecycle!vars
  <2>3. CASE ~UNCHANGED <<state, audit>>
    <3>1. PICK to \in {"CAPTURED", "FAILED"} :
              /\ q \in Payments
              /\ state[q] = "VALIDATED"
              /\ state' = [state EXCEPT ![q] = to]
      BY <2>3, WorkerMoves
    <3>2. Lifecycle!Move(q, "VALIDATED", to)
      BY <1>1, <2>1, <3>1 DEF Lifecycle!Move
    <3> QED
      BY <3>1, <3>2 DEF Lifecycle!Capture, Lifecycle!Fail, Lifecycle!Next
  <2> QED
    BY <2>2, <2>3
<1>4. CASE ~UNCHANGED <<legs, done, dropped>>
  <2>1. /\ UNCHANGED <<state, audit>>
        /\ q \in Payments
        /\ \/ /\ UNCHANGED <<done, dropped>>
              /\ legs'[q] = [d \in LP!Directions |-> 1]
              /\ \A p \in Payments : p # q => legs'[p] = legs[p]
           \/ UNCHANGED <<legs, done>> /\ dropped' = dropped \cup {q}
           \/ /\ UNCHANGED <<legs, dropped>>
              /\ done' = [done EXCEPT ![q] = "dlq"]
           \/ /\ UNCHANGED <<legs, dropped>>
              /\ done' = [done EXCEPT ![q] = "ok"]
              /\ LP!Posted(q) \/ q \in dropped
    BY <1>4, WorkerStep, LP!StepEffects, PipelineAssumption
       DEF Inv, L!FaultKinds, LP!FaultKinds
  <2>2. DOMAIN done = Payments /\ state[q] # "none"
    BY <1>2, <2>1 DEF Inv, LP!WorkType
  <2>3. CASE /\ UNCHANGED <<done, dropped>>
             /\ legs'[q] = [d \in LP!Directions |-> 1]
             /\ \A p \in Payments : p # q => legs'[p] = legs[p]
    <3>1. Posted' = Posted \cup {q}
      BY <2>1, <2>3 DEF Posted, L!Posted, L!Directions, LP!Directions
    <3>2. UNCHANGED Abandoned /\ Lost' = Lost \ {q}
      <4>1. UNCHANGED Abandoned
        BY <2>3 DEF Abandoned
      <4>2. Lost = {p \in Payments \ Posted : done[p] = "ok" /\ p \in dropped}
        BY DEF Lost, L!Lost, Posted
      <4>3. Lost' = {p \in Payments \ Posted' : done'[p] = "ok" /\ p \in dropped'}
        BY DEF Lost, L!Lost, Posted
      <4> QED
        BY <2>1, <2>3, <3>1, <4>1, <4>2, <4>3
    <3>3. Lifecycle!Post(q)
      BY <1>1, <2>1, <2>2, <3>1, <3>2 DEF Lifecycle!Post
    <3> QED
      BY <2>1, <3>3 DEF Lifecycle!Next
  <2>4. CASE UNCHANGED <<legs, done>> /\ dropped' = dropped \cup {q}
    <3>1. UNCHANGED <<Posted, Abandoned>>
      BY <2>4 DEF Posted, Abandoned, L!Posted
    <3>2. done[q] = "ok" => L!Posted(q) \/ q \in dropped
      <4>1. LP!HandledIsPosted
        BY LP!PostingImplies, PipelineAssumption
           DEF Inv, L!FaultKinds, LP!FaultKinds
      <4> QED
        BY <2>1, <4>1 DEF LP!HandledIsPosted, LP!Posted, LP!Directions,
                          L!Posted, L!Directions
    <3>3. UNCHANGED Lost
      BY <2>4, <3>2 DEF Lost, L!Lost, L!Posted
    <3> QED
      BY <1>1, <2>1, <3>1, <3>3 DEF Lifecycle!vars
  <2>5. CASE /\ UNCHANGED <<legs, dropped>>
             /\ done' = [done EXCEPT ![q] = "dlq"]
    <3>1. UNCHANGED Posted
      BY <2>5 DEF Posted, L!Posted
    <3>2. Abandoned' = Abandoned \cup {q} /\ Lost' = Lost \ {q}
      BY <2>1, <2>2, <2>5 DEF Abandoned, Lost, L!Lost, L!Posted
    <3>3. Lifecycle!Abandon(q)
      BY <1>1, <2>1, <2>2, <3>1, <3>2 DEF Lifecycle!Abandon
    <3> QED
      BY <2>1, <3>3 DEF Lifecycle!Next
  <2>6. CASE /\ UNCHANGED <<legs, dropped>>
             /\ done' = [done EXCEPT ![q] = "ok"]
             /\ LP!Posted(q) \/ q \in dropped
    <3>1. UNCHANGED Posted /\ Abandoned' = Abandoned \ {q}
      BY <2>1, <2>2, <2>6 DEF Posted, L!Posted, Abandoned
    <3>2. CASE L!Posted(q)
      <4>1. q \in Posted /\ UNCHANGED Lost
        BY <2>1, <2>2, <2>6, <3>2 DEF Posted, Lost, L!Lost, L!Posted
      <4>2. Lifecycle!Recover(q)
        BY <1>1, <2>1, <3>1, <4>1 DEF Lifecycle!Recover
      <4> QED
        BY <2>1, <4>2 DEF Lifecycle!Next
    <3>3. CASE ~L!Posted(q)
      <4>1. q \in dropped
        BY <2>6, <3>3 DEF L!Posted, L!Directions, LP!Posted, LP!Directions
      <4>2. q \notin Posted /\ Lost' = Lost \cup {q}
        BY <2>1, <2>2, <2>6, <3>3, <4>1 DEF Posted, Lost, L!Lost, L!Posted
      <4>3. Lifecycle!Lose(q)
        BY <1>1, <2>1, <2>2, <3>1, <4>2 DEF Lifecycle!Lose
      <4> QED
        BY <2>1, <4>3 DEF Lifecycle!Next
    <3> QED
      BY <3>2, <3>3
  <2> QED
    BY <2>1, <2>3, <2>4, <2>5, <2>6
<1> QED
  BY <1>3, <1>4

\* A step of the only engine pays a set of captured payments for the first
\* time, or is not visible in the life cycle.
LEMMA EngineRefines ==
    ASSUME Inv, SP!PayInv, NEW e \in Engines, Settle(e) \/ SettleFails(e)
    PROVE  Lifecycle!Next \/ UNCHANGED Lifecycle!vars
<1>1. UNCHANGED <<Posted, Abandoned, Lost>>
  BY DEF Settle, SettleFails, ledger, Posted, Abandoned, Lost, L!Posted, L!Lost
<1>2. CASE UNCHANGED <<state, batches>>
  BY <1>1, <1>2 DEF Lifecycle!vars, Paid
<1>3. CASE ~UNCHANGED <<state, batches>>
  <2>1. PICK a \in groups[e] :
            /\ batches' = batches \cup {SP!Batch(e, a)}
            /\ state' = [p \in Payments |->
                            IF p \in SP!Batch(e, a).ids /\ state[p] = "CAPTURED"
                            THEN "SETTLED" ELSE state[p]]
    BY <1>3, EngineStep, SP!EnginePersists, PipelineAssumption
  <2> DEFINE b == SP!Batch(e, a)
  <2>2. b.ids = a.ids
    BY DEF SP!Batch
  <2> HIDE DEF b
  <2>3. a.ids \subseteq Payments /\ \A p \in a.ids : state[p] = "CAPTURED"
    BY DEF SP!PayInv, SP!Shape, SP!StillCaptured
  <2>4. Paid' = Paid \cup a.ids
    BY <2>1, <2>2 DEF Paid, b
  <2>5. state' = [p \in Payments |-> IF p \in a.ids THEN "SETTLED" ELSE state[p]]
    BY <2>1, <2>2, <2>3 DEF b
  <2>6. a.ids \cap Paid = {}
    <3> SUFFICES ASSUME NEW p \in a.ids, p \in Paid PROVE FALSE
      OBVIOUS
    <3>1. state[p] = "SETTLED"
      BY <2>3 DEF SP!PayInv, SP!SettledIsPaid, Paid
    <3> QED
      BY <2>3, <3>1
  <2>7. CASE a.ids = {}
    <3>1. state' = state
      BY <2>5, <2>7 DEF Inv, SP!Shape
    <3> QED
      BY <1>1, <2>4, <2>7, <3>1 DEF Lifecycle!vars
  <2>8. CASE a.ids # {}
    <3>1. Lifecycle!Pay(a.ids)
      BY <1>1, <2>3, <2>4, <2>5, <2>6, <2>8 DEF Lifecycle!Pay
    <3> QED
      BY <2>3, <3>1 DEF Lifecycle!Next
  <2> QED
    BY <2>7, <2>8
<1> QED
  BY <1>2, <1>3

\* Every step of the pipeline is a step of the life cycle, or not visible.
LEMMA StepRefines ==
    ASSUME Inv, SP!PayInv, [Next]_vars
    PROVE  Lifecycle!Next \/ UNCHANGED Lifecycle!vars
<1>1. ASSUME NEW p \in Payments, Book(p)
      PROVE  Lifecycle!Next \/ UNCHANGED Lifecycle!vars
  <2>1. /\ state[p] = "none"
        /\ state' = [state EXCEPT ![p] = "VALIDATED"]
        /\ UNCHANGED <<legs, done, dropped, batches>>
    BY <1>1 DEF Book, ledger, S!Create
  <2>2. Lifecycle!Move(p, "none", "VALIDATED")
    BY <2>1 DEF Lifecycle!Move, Posted, Paid, Abandoned, Lost, L!Posted, L!Lost
  <2> QED
    BY <2>2 DEF Lifecycle!Book, Lifecycle!Next
<1>2. ASSUME AdvanceClock \/ UNCHANGED vars \/ \E p \in Payments : Publish(p)
      PROVE  Lifecycle!Next \/ UNCHANGED Lifecycle!vars
  <2>1. UNCHANGED <<state, legs, done, dropped, batches>>
    BY <1>2 DEF AdvanceClock, S!AdvanceClock, S!payments, Publish, vars,
                ledger, engine
  <2> QED
    BY <2>1 DEF Lifecycle!vars, Posted, Paid, Abandoned, Lost, L!Posted, L!Lost
<1> QED
  BY <1>1, <1>2, WorkerRefines, EngineRefines DEF Next

\* With one engine, no payment of the pipeline is paid by two batches, and the
\* state column says SETTLED exactly of those paid, although the ledger moves
\* the same column and knows nothing of the batches.
THEOREM PaidOnce ==
    SP!OneEngine => (Spec => [](SP!NoDoubleSettling /\ SP!SettledIsPaid))
<1> SUFFICES ASSUME SP!OneEngine
             PROVE  Spec => [](SP!NoDoubleSettling /\ SP!SettledIsPaid)
  OBVIOUS
<1>1. Init => SP!PayInv
  BY InitInv
<1>2. Inv /\ SP!PayInv /\ [Next]_vars => SP!PayInv'
  BY StepPay
<1>3. SP!PayInv => SP!NoDoubleSettling /\ SP!SettledIsPaid
  BY DEF SP!PayInv
<1> QED
  BY <1>1, <1>2, <1>3, Invariance, PTL DEF Spec

\* What PaymentLifecycle promises at every step: no payment is paid twice or
\* before it was captured, both legs appear at once, and a payment moves along
\* the state machine.
LifecycleSafety == Lifecycle!Init /\ [][Lifecycle!Next]_(Lifecycle!vars)

\* Intake, the relay, the ledger workers and one settlement engine together
\* keep the safety of the life cycle, although each moves the rows of one
\* table in transactions of its own, any of them may fail or crash between
\* two, and events are delivered again.
THEOREM LifecycleSafe == SP!OneEngine => (Spec => LifecycleSafety)
<1> SUFFICES ASSUME SP!OneEngine PROVE Spec => LifecycleSafety
  OBVIOUS
<1>1. Init => SP!PayInv /\ Lifecycle!Init
  BY InitInv, InitRefines
<1>2. Inv /\ SP!PayInv /\ [Next]_vars => SP!PayInv'
  BY StepPay
<1>3. Inv /\ SP!PayInv /\ [Next]_vars => [Lifecycle!Next]_(Lifecycle!vars)
  BY StepRefines
<1> QED
  BY <1>1, <1>2, <1>3, Invariance, PTL DEF Spec, LifecycleSafety
=============================================================================
