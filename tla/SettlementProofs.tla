-------------------------- MODULE SettlementProofs --------------------------
(***************************************************************************)
(* The safety of the settlement engine, for any payments, groups, window   *)
(* size, buffer and faults.  What the buffer guarantees holds for any      *)
(* number of engines; that nothing is paid twice holds for one.            *)
(***************************************************************************)
EXTENDS Settlement, TLAPS

\* What the deployment must ensure: one engine process at a time.
OneEngine == \A e, f \in Engines : e = f

-----------------------------------------------------------------------------
(***************************************************************************)
(* The inductive invariants.                                               *)
(***************************************************************************)
Ready == {"idle", "aggregate", "persist"}

\* The states of a row; FAILED is the ledger's, which shares the column.
Rows == {"none", "VALIDATED", "CAPTURED", "FAILED", "SETTLED"}
AnyBatch == [group : Groups, window : [start : Int, end : Int],
             ids : SUBSET Payments]

\* The shapes the arguments below need; the bounds of times are not among
\* them.
Shape ==
    /\ now \in Nat
    /\ state \in [Payments -> Rows]
    /\ created \in [Payments -> Int]
    /\ late \subseteq Payments
    /\ batches \subseteq AnyBatch
    /\ pc \in [Engines -> Ready]
    /\ lastWindowEnd \in [Engines -> Int \cup {Unset}]
    /\ since \in [Engines -> Int \cup {Unset}]
    /\ window \in [Engines -> [start : Int, end : Int]]
    /\ groups \in [Engines -> SUBSET [group : Groups, ids : SUBSET Payments]]
    /\ skipped \subseteq Payments

\* Whatever engines race, they only ever take what was captured.
Taken ==
    /\ \A e \in Engines : \A a \in groups[e] : \A p \in a.ids :
          state[p] \in {"CAPTURED", "SETTLED"}
    /\ \A b \in batches : \A p \in b.ids : state[p] \in {"CAPTURED", "SETTLED"}

\* A group holds payments of its own only.
OwnPayments ==
    \A e \in Engines : \A a \in groups[e] : \A p \in a.ids : GroupOf[p] = a.group

\* There is one aggregate for a group.
OnePerGroup ==
    \A e \in Engines : \A a, b \in groups[e] : a.group = b.group => a = b

\* With one engine, nobody else settles what has been aggregated.
StillCaptured ==
    \A e \in Engines : \A a \in groups[e] : \A p \in a.ids :
        state[p] = "CAPTURED"

PayInv ==
    /\ Shape
    /\ OwnPayments
    /\ OnePerGroup
    /\ StillCaptured
    /\ SettledIsPaid
    /\ NoDoubleSettling

-----------------------------------------------------------------------------
(***************************************************************************)
(* What the steps of an engine do.                                         *)
(***************************************************************************)

\* Every step of an engine keeps the shapes.
LEMMA EngineShape ==
    ASSUME Shape, NEW e \in Engines, Engine(e) \/ Failure(e)
    PROVE  Shape'
<1> USE SettlementAssumption DEF Shape, Goto, payments, Ready, NoWindow
<1>1. ASSUME NEW tick \in 0 .. now, Tick(e, tick) PROVE Shape'
  BY <1>1 DEF Tick, WindowEnd
<1>2. ASSUME AggregateCaptured(e) PROVE Shape'
  BY <1>2 DEF AggregateCaptured, Selected
<1>3. ASSUME AggregateFails(e) \/ WindowComplete(e) \/ Crash(e) PROVE Shape'
  <2>1. CASE AggregateFails(e)
    BY <2>1 DEF AggregateFails
  <2>2. CASE WindowComplete(e)
    BY <2>2 DEF WindowComplete
  <2>3. CASE Crash(e)
    BY <2>3 DEF Crash
  <2> QED
    BY <1>3, <2>1, <2>2, <2>3
<1>4. ASSUME NEW a \in groups[e], PersistBatch(Batch(e, a))
      PROVE  state' \in [Payments -> Rows] /\ batches' \subseteq AnyBatch
  <2>1. Batch(e, a) \in AnyBatch
    BY DEF Batch, AnyBatch
  <2> QED
    BY <1>4, <2>1 DEF PersistBatch, Rows
<1>5. ASSUME NEW a \in groups[e], ProcessGroup(e, a) \/ GroupFails(e, a)
      PROVE  Shape'
  BY <1>4, <1>5 DEF ProcessGroup, GroupFails
<1> QED
  BY <1>1, <1>2, <1>3, <1>5 DEF Engine, Failure

\* An engine changes the state column and the batches in one way only, and
\* then it has the batch of one of its aggregates.
LEMMA EnginePersists ==
    ASSUME NEW e \in Engines, Engine(e) \/ Failure(e)
    PROVE  \/ UNCHANGED <<state, batches>>
           \/ \E a \in groups[e] :
                 /\ batches' = batches \cup {Batch(e, a)}
                 /\ state' = [p \in Payments |->
                                 IF p \in Batch(e, a).ids /\ state[p] = "CAPTURED"
                                 THEN "SETTLED" ELSE state[p]]
<1>1. CASE \E a \in groups[e] : ProcessGroup(e, a) \/ GroupFails(e, a)
  BY <1>1 DEF ProcessGroup, GroupFails, PersistBatch
<1>2. CASE ~\E a \in groups[e] : ProcessGroup(e, a) \/ GroupFails(e, a)
  BY <1>2 DEF Engine, Failure, Tick, AggregateCaptured, WindowComplete,
              AggregateFails, Crash, payments
<1> QED
  BY <1>1, <1>2

\* The aggregates of an engine after a step: those it had before, or the
\* payments AggregateCaptured has just selected.
LEMMA EngineGroups ==
    ASSUME Shape, NEW e \in Engines, Engine(e) \/ Failure(e)
    PROVE  /\ \A f \in Engines : f # e => groups'[f] = groups[f]
           /\ \/ groups'[e] \subseteq groups[e]
              \/ /\ \A a \in groups'[e] : a.ids = Selected(e, a.group)
                 /\ UNCHANGED <<state, batches>>
<1>1. CASE AggregateCaptured(e)
  <2> DEFINE found == {[group |-> g, ids |-> Selected(e, g)] :
                          g \in {h \in Groups : Selected(e, h) # {}}}
  <2>1. groups' = [groups EXCEPT ![e] = found] /\ UNCHANGED <<state, batches>>
    BY <1>1 DEF AggregateCaptured, payments
  <2>2. \A a \in found : a.ids = Selected(e, a.group)
    OBVIOUS
  <2> HIDE DEF found
  <2> QED
    BY <2>1, <2>2 DEF Shape
<1>2. CASE ~AggregateCaptured(e)
  BY <1>2 DEF Shape, Engine, Failure, Tick, WindowComplete, ProcessGroup,
              GroupFails, AggregateFails, Crash
<1> QED
  BY <1>1, <1>2

\* No step of an engine takes what was not captured.
LEMMA EngineTaken ==
    ASSUME Shape, Taken, NEW e \in Engines, Engine(e) \/ Failure(e)
    PROVE  Taken'
<1>1. \A p \in Payments : state[p] \in {"CAPTURED", "SETTLED"}
                              => state'[p] \in {"CAPTURED", "SETTLED"}
  BY EnginePersists
<1>2. \A f \in Engines : \A a \in groups[f] : a.ids \subseteq Payments
  BY DEF Shape
<1>3. \A b \in batches : b.ids \subseteq Payments
  BY DEF Shape, AnyBatch
<1>4. ASSUME NEW f \in Engines, NEW a \in groups'[f], NEW p \in a.ids
      PROVE  state'[p] \in {"CAPTURED", "SETTLED"}
  <2>1. CASE a \in groups[f]
    BY <1>1, <1>2, <1>4, <2>1 DEF Taken
  <2>2. CASE a \notin groups[f]
    <3>1. p \in Selected(e, a.group)
      BY <1>4, <2>2, EngineGroups
    <3> QED
      BY <1>1, <3>1 DEF Selected
  <2> QED
    BY <2>1, <2>2
<1>5. ASSUME NEW b \in batches', NEW p \in b.ids
      PROVE  state'[p] \in {"CAPTURED", "SETTLED"}
  <2>1. CASE b \in batches
    BY <1>1, <1>3, <1>5, <2>1 DEF Taken
  <2>2. CASE b \notin batches
    <3>1. PICK a \in groups[e] : b = Batch(e, a)
      BY <1>5, <2>2, EnginePersists
    <3>2. p \in a.ids
      BY <1>5, <3>1 DEF Batch
    <3> QED
      BY <1>1, <1>2, <3>2 DEF Taken
  <2> QED
    BY <2>1, <2>2
<1> QED
  BY <1>4, <1>5 DEF Taken

\* Every step of the only engine keeps the payouts sound.
LEMMA EnginePay ==
    ASSUME OneEngine, PayInv, NEW e \in Engines, Engine(e) \/ Failure(e)
    PROVE  PayInv'
<1>1. Shape'
  BY EngineShape DEF PayInv
<1>2. \A f \in Engines : f = e
  BY DEF OneEngine
<1>3. \A a \in groups[e] : \A p \in a.ids : p \in Payments
  BY DEF PayInv, Shape
<1>4. CASE UNCHANGED <<state, batches>> /\ groups'[e] \subseteq groups[e]
  <2>1. OwnPayments' /\ OnePerGroup' /\ StillCaptured'
    BY <1>2, <1>4 DEF PayInv, OwnPayments, OnePerGroup, StillCaptured
  <2>2. SettledIsPaid' /\ NoDoubleSettling'
    BY <1>4 DEF PayInv, SettledIsPaid, NoDoubleSettling
  <2> QED
    BY <1>1, <2>1, <2>2 DEF PayInv
<1>5. CASE AggregateCaptured(e)
  <2> DEFINE found == {[group |-> g, ids |-> Selected(e, g)] :
                          g \in {h \in Groups : Selected(e, h) # {}}}
  <2>1. groups'[e] = found /\ UNCHANGED <<state, batches>>
    BY <1>5 DEF AggregateCaptured, payments, PayInv, Shape
  <2>2. \A a \in found : a.ids = Selected(e, a.group)
    OBVIOUS
  <2>3. \A a, b \in found : a.group = b.group => a = b
    OBVIOUS
  <2> HIDE DEF found
  <2>4. OwnPayments' /\ OnePerGroup' /\ StillCaptured'
    BY <1>2, <2>1, <2>2, <2>3 DEF OwnPayments, OnePerGroup, StillCaptured, Selected
  <2>5. SettledIsPaid' /\ NoDoubleSettling'
    BY <2>1 DEF PayInv, SettledIsPaid, NoDoubleSettling
  <2> QED
    BY <1>1, <2>4, <2>5 DEF PayInv
<1>6. ASSUME NEW a \in groups[e], groups'[e] = groups[e] \ {a},
             batches' = batches \cup {Batch(e, a)},
             state' = [p \in Payments |->
                          IF p \in Batch(e, a).ids /\ state[p] = "CAPTURED"
                          THEN "SETTLED" ELSE state[p]]
      PROVE  PayInv'
  <2> DEFINE b == Batch(e, a)
  <2>1. b.ids = a.ids
    BY DEF Batch
  <2> HIDE DEF b
  <2>2. \A p \in a.ids : p \in Payments /\ state[p] = "CAPTURED"
    BY <1>3 DEF PayInv, StillCaptured
  <2>3. \A p \in Payments :
            state'[p] = IF p \in a.ids THEN "SETTLED" ELSE state[p]
    BY <1>6, <2>1, <2>2 DEF b
  <2>4. batches' = batches \cup {b}
    BY <1>6 DEF b
  <2>5. SettledIsPaid'
    BY <2>1, <2>3, <2>4 DEF PayInv, SettledIsPaid
  <2>6. \A c \in batches : c.ids \cap a.ids = {}
    <3> SUFFICES ASSUME NEW c \in batches, NEW p \in c.ids, p \in a.ids
                 PROVE  FALSE
      OBVIOUS
    <3>1. p \in Payments /\ state[p] = "CAPTURED"
      BY <2>2
    <3>2. state[p] = "SETTLED"
      BY <3>1 DEF PayInv, SettledIsPaid
    <3> QED
      BY <3>1, <3>2
  <2>7. NoDoubleSettling'
    BY <2>1, <2>4, <2>6 DEF PayInv, NoDoubleSettling
  <2>8. OwnPayments' /\ OnePerGroup'
    BY <1>2, <1>6 DEF PayInv, OwnPayments, OnePerGroup
  <2>9. StillCaptured'
    <3> SUFFICES ASSUME NEW c \in groups[e], c # a, NEW p \in c.ids
                 PROVE  state'[p] = "CAPTURED"
      BY <1>2, <1>6 DEF StillCaptured
    <3>1. p \in Payments /\ state[p] = "CAPTURED" /\ GroupOf[p] = c.group
      BY <1>3 DEF PayInv, StillCaptured, OwnPayments
    <3>2. p \notin a.ids
      BY <3>1 DEF PayInv, OwnPayments, OnePerGroup
    <3> QED
      BY <2>3, <3>1, <3>2
  <2> QED
    BY <1>1, <2>5, <2>7, <2>8, <2>9 DEF PayInv
<1>7. ASSUME NEW a \in groups[e], ProcessGroup(e, a) \/ GroupFails(e, a)
      PROVE  PayInv'
  <2>1. groups'[e] = groups[e] \ {a}
    BY <1>7 DEF ProcessGroup, GroupFails, PayInv, Shape
  <2> QED
    BY <1>4, <1>6, <1>7, <2>1 DEF ProcessGroup, GroupFails, PersistBatch
<1>8. CASE ~AggregateCaptured(e) /\
           ~\E a \in groups[e] : ProcessGroup(e, a) \/ GroupFails(e, a)
  <2>1. UNCHANGED <<state, batches>> /\ groups'[e] \subseteq groups[e]
    BY <1>8 DEF Engine, Failure, Tick, WindowComplete, AggregateFails, Crash,
                payments, PayInv, Shape
  <2> QED
    BY <1>4, <2>1
<1> QED
  BY <1>5, <1>7, <1>8

\* Steps of the clock and of other programs, which never leave CAPTURED or
\* enter SETTLED, do not disturb the payouts.
LEMMA OutsidePay ==
    ASSUME Shape, Shape', UNCHANGED <<batches, groups>>,
           \A p \in Payments :
               /\ state[p] \in {"CAPTURED", "SETTLED"} => state'[p] = state[p]
               /\ state'[p] = "SETTLED" => state[p] = "SETTLED"
    PROVE  (Taken => Taken') /\ (PayInv => PayInv')
<1>1. /\ \A e \in Engines : \A a \in groups[e] : a.ids \subseteq Payments
      /\ \A b \in batches : b.ids \subseteq Payments
  BY DEF Shape, AnyBatch
<1>2. Taken => Taken'
  BY <1>1 DEF Taken
<1>3. ASSUME PayInv PROVE PayInv'
  <2>1. OwnPayments' /\ OnePerGroup' /\ StillCaptured'
    BY <1>1, <1>3 DEF PayInv, OwnPayments, OnePerGroup, StillCaptured
  <2>2. SettledIsPaid' /\ NoDoubleSettling'
    BY <1>3 DEF PayInv, SettledIsPaid, NoDoubleSettling
  <2> QED
    BY <2>1, <2>2 DEF PayInv
<1> QED
  BY <1>2, <1>3

\* Nothing has been booked yet.
LEMMA InitPay == Init => PayInv /\ Taken
<1> SUFFICES ASSUME Init PROVE PayInv /\ Taken
  OBVIOUS
<1> USE DEF Init
<1>1. Shape
  BY DEF Shape, Ready, Rows, NoWindow
<1>2. OwnPayments /\ OnePerGroup /\ StillCaptured
  BY DEF OwnPayments, OnePerGroup, StillCaptured
<1>3. SettledIsPaid /\ NoDoubleSettling /\ Taken
  BY DEF SettledIsPaid, NoDoubleSettling, Taken
<1> QED
  BY <1>1, <1>2, <1>3 DEF PayInv

\* Every step of the specification keeps the payouts sound, with one engine.
LEMMA StepPay == OneEngine /\ PayInv /\ [Next]_vars => PayInv'
<1> SUFFICES ASSUME OneEngine, PayInv, [Next]_vars PROVE PayInv'
  OBVIOUS
<1>1. ASSUME NEW e \in Engines, Engine(e) \/ Failure(e) PROVE PayInv'
  BY <1>1, EnginePay
<1>2. ASSUME AdvanceClock \/ \E p \in Payments : Create(p) \/ Capture(p)
      PROVE  PayInv'
  <2>1. Shape'
    BY <1>2 DEF AdvanceClock, Create, Capture, payments, engine, PayInv, Shape,
                Rows
  <2>2. /\ UNCHANGED <<batches, groups>>
        /\ \A p \in Payments :
              /\ state[p] \in {"CAPTURED", "SETTLED"} => state'[p] = state[p]
              /\ state'[p] = "SETTLED" => state[p] = "SETTLED"
    BY <1>2 DEF AdvanceClock, Create, Capture, payments, engine, PayInv, Shape
  <2> QED
    BY <2>1, <2>2, OutsidePay DEF PayInv
<1>3. CASE UNCHANGED vars
  <2>1. Shape' /\ UNCHANGED <<state, batches, groups>>
    BY <1>3 DEF vars, payments, engine, PayInv, Shape
  <2> QED
    BY <2>1, OutsidePay DEF PayInv
<1> QED
  BY <1>1, <1>2, <1>3 DEF Next

\* The payouts of one engine are sound throughout.
THEOREM PayInvariance == OneEngine => (Spec => []PayInv)
<1> SUFFICES ASSUME OneEngine PROVE Spec => []PayInv
  OBVIOUS
<1>1. PayInv /\ [Next]_vars => PayInv'
  BY StepPay
<1> QED
  BY <1>1, InitPay, PTL DEF Spec

\* PersistBatch pays no payment twice when one engine runs, although its mark
\* is lost in crashes, windows overlap and COMMITs lose their answers.
THEOREM PaidOnce == OneEngine => (Spec => []NoDoubleSettling)
<1>1. PayInv => NoDoubleSettling
  BY DEF PayInv
<1> QED
  BY <1>1, PayInvariance, PTL

\* SETTLED in the transactions table means paid by a batch, and the reverse.
THEOREM SettledSound == OneEngine => (Spec => []SettledIsPaid)
<1>1. PayInv => SettledIsPaid
  BY DEF PayInv
<1> QED
  BY <1>1, PayInvariance, PTL
-----------------------------------------------------------------------------
(***************************************************************************)
(* Types.                                                                  *)
(***************************************************************************)

\* Every variable of the specification keeps its shape.
THEOREM TypeCorrect == Spec => []TypeOK
<1> USE SettlementAssumption DEF Times, WindowType
<1>1. Init => TypeOK
  BY DEF Init, TypeOK, NoWindow
<1>2. TypeOK /\ [Next]_vars => TypeOK'
  <2> SUFFICES ASSUME TypeOK, [Next]_vars PROVE TypeOK'
    OBVIOUS
  <2> USE DEF TypeOK, payments, engine, Goto
  <2>1. ASSUME AdvanceClock PROVE TypeOK'
    BY <2>1 DEF AdvanceClock
  <2>2. ASSUME NEW p \in Payments, Create(p) \/ Capture(p) PROVE TypeOK'
    BY <2>2 DEF Create, Capture
  <2>3. ASSUME NEW e \in Engines, NEW tick \in 0 .. now, Tick(e, tick)
        PROVE  TypeOK'
    <3> DEFINE fresh == lastWindowEnd[e] = Unset
               start == IF fresh THEN WindowEnd(tick) - WindowSize
                                 ELSE lastWindowEnd[e]
    <3>1. start \in Times /\ WindowEnd(tick) \in Times
      BY DEF WindowEnd
    <3>2. /\ lastWindowEnd' = [lastWindowEnd EXCEPT ![e] = start]
          /\ since' = [since EXCEPT ![e] = IF fresh THEN start ELSE @]
          /\ window' = [window EXCEPT ![e] =
                           [start |-> start, end |-> WindowEnd(tick)]]
          /\ pc' = [pc EXCEPT ![e] = "aggregate"]
          /\ UNCHANGED <<now, state, created, late, batches, groups, skipped,
                         faults>>
      BY <2>3 DEF Tick
    <3> HIDE DEF start, Times
    <3> QED
      BY <3>1, <3>2
  <2>4. ASSUME NEW e \in Engines, AggregateCaptured(e) PROVE TypeOK'
    BY <2>4 DEF AggregateCaptured, Selected
  <2>5. ASSUME NEW e \in Engines, AggregateFails(e) \/ Crash(e) PROVE TypeOK'
    <3>1. faults' \in 0 .. MaxFaults
      BY <2>5 DEF AggregateFails, Crash, Fault
    <3>2. NoWindow \in WindowType
      BY DEF NoWindow
    <3> HIDE DEF Times, WindowType
    <3>3. CASE AggregateFails(e)
      BY <3>1, <3>2, <3>3 DEF AggregateFails
    <3>4. CASE Crash(e)
      BY <3>1, <3>2, <3>4 DEF Crash
    <3> QED
      BY <2>5, <3>3, <3>4
  <2>6. ASSUME NEW e \in Engines, WindowComplete(e) PROVE TypeOK'
    BY <2>6 DEF WindowComplete, NoWindow
  <2>7. ASSUME NEW e \in Engines, NEW a \in groups[e], PersistBatch(Batch(e, a))
        PROVE  /\ state' \in [Payments -> {"none", "VALIDATED", "CAPTURED", "SETTLED"}]
               /\ batches' \subseteq [group : Groups, window : WindowType,
                                      ids : SUBSET Payments]
    BY <2>7 DEF PersistBatch, Batch
  <2>8. ASSUME NEW e \in Engines, NEW a \in groups[e],
               ProcessGroup(e, a) \/ GroupFails(e, a)
        PROVE  TypeOK'
    BY <2>7, <2>8 DEF ProcessGroup, GroupFails, Fault
  <2>9. CASE UNCHANGED vars
    BY <2>9 DEF vars
  <2> QED
    BY <2>1, <2>2, <2>3, <2>4, <2>5, <2>6, <2>8, <2>9
       DEF Next, Engine, Failure
<1> QED
  BY <1>1, <1>2, PTL DEF Spec

-----------------------------------------------------------------------------
(***************************************************************************)
(* What the buffer guarantees, for any number of engines.                  *)
(***************************************************************************)
InWindow(p, win) == win.start <= created[p] /\ created[p] < win.end

\* A payment the engines still have to settle.
Open(p) == state[p] = "CAPTURED" /\ p \notin late

\* A window starts at the mark of its engine, and it and the mark end at
\* least a buffer ago.
Marks ==
    \A e \in Engines :
        /\ lastWindowEnd[e] = Unset => pc[e] = "idle"
        /\ lastWindowEnd[e] # Unset =>
              since[e] # Unset /\ lastWindowEnd[e] + Buffer <= now
        /\ pc[e] # "idle" => /\ window[e].start = lastWindowEnd[e]
                             /\ window[e].end + Buffer <= now
        /\ groups[e] # {} => pc[e] = "persist"

BatchesOver == \A b \in batches : b.window.end + Buffer <= now

\* An aggregate holds captured payments of its group and window only.
Aggregated ==
    \A e \in Engines : \A a \in groups[e] : \A p \in a.ids :
        /\ state[p] \in {"CAPTURED", "SETTLED"}
        /\ GroupOf[p] = a.group
        /\ InWindow(p, window[e])

\* No open payment joins a group after it was aggregated.
GroupComplete ==
    \A e \in Engines : \A a \in groups[e] : \A p \in Payments :
        Open(p) /\ GroupOf[p] = a.group /\ InWindow(p, window[e])
            => p \in a.ids

\* An engine that persists has every open payment of its window in hand,
\* but for those it has failed to persist.
WindowCovered ==
    \A e \in Engines : pc[e] = "persist" =>
        \A p \in Payments :
            Open(p) /\ InWindow(p, window[e])
                => p \in skipped \/ \E a \in groups[e] : p \in a.ids

\* A batch leaves no open payment of its group and window behind: this is
\* why PersistBatch may do nothing when the batch row exists.
BatchFinal ==
    \A b \in batches, p \in Payments :
        GroupOf[p] = b.group /\ InWindow(p, b.window) => ~Open(p)

CoverInv ==
    /\ Marks
    /\ BatchesOver
    /\ Aggregated
    /\ GroupComplete
    /\ WindowCovered
    /\ BatchFinal
    /\ BufferCoversCapture

\* The types without their bounds.
LEMMA TypeShape == TypeOK => Shape
BY SettlementAssumption DEF TypeOK, Shape, Ready, Rows, AnyBatch, Times,
                            WindowType

\* No window has been opened yet.
LEMMA InitCover == Init => CoverInv
BY DEF Init, CoverInv, Marks, BatchesOver, Aggregated, GroupComplete,
       WindowCovered, BatchFinal, BufferCoversCapture

\* A step of the clock, of intake or of the ledger opens no payment that was
\* created before the buffer, and leaves captured ones alone.
LEMMA OutsideCover ==
    ASSUME Shape, Shape', CoverInv,
           UNCHANGED <<batches, engine, skipped>>,
           now <= now',
           \A p \in Payments : Open(p)' =>
               \/ Open(p) /\ created'[p] = created[p]
               \/ created'[p] + Buffer >= now,
           \A p \in Payments : state[p] \in {"CAPTURED", "SETTLED"} =>
               created'[p] = created[p] /\ state'[p] = state[p]
    PROVE  CoverInv'
<1> USE SettlementAssumption DEF CoverInv, engine
<1>1. Marks' /\ BatchesOver'
  BY DEF Marks, BatchesOver, Shape, AnyBatch
<1>2. Aggregated'
  BY DEF Aggregated, InWindow, Shape
<1>3. \A p \in Payments, win \in [start : Int, end : Int] :
          win.end + Buffer <= now /\ Open(p)' /\ InWindow(p, win)'
              => Open(p) /\ InWindow(p, win)
  BY DEF Shape, InWindow
<1>4. GroupComplete'
  BY <1>3 DEF GroupComplete, Marks, Shape
<1>5. WindowCovered'
  BY <1>3 DEF WindowCovered, Marks, Shape, Ready
<1>6. BatchFinal'
  BY <1>3 DEF BatchFinal, BatchesOver, Shape, AnyBatch
<1>7. BufferCoversCapture'
  <2> SUFFICES ASSUME NEW e \in Engines, NEW p \in Payments,
                      lastWindowEnd[e] # Unset, Open(p)',
                      since[e] <= created'[p], created'[p] < lastWindowEnd[e]
               PROVE  p \in skipped
    BY DEF BufferCoversCapture, Open
  <2>1. lastWindowEnd[e] \in Int /\ lastWindowEnd[e] + Buffer <= now
    BY DEF Shape, Marks
  <2>2. Open(p) /\ created'[p] = created[p]
    BY <2>1 DEF Shape
  <2> QED
    BY <2>2 DEF BufferCoversCapture, Open
<1> QED
  BY <1>1, <1>2, <1>4, <1>5, <1>6, <1>7

\* A group that has been taken off the list leaves no open payment but those
\* it has skipped.
LEMMA PersistCover ==
    ASSUME Shape, Shape', CoverInv, NEW e \in Engines, NEW a \in groups[e],
           \/ PersistBatch(Batch(e, a))
           \/ UNCHANGED <<state, batches>> /\ a.ids \subseteq skipped',
           groups' = [groups EXCEPT ![e] = @ \ {a}],
           skipped' \in {skipped, skipped \cup a.ids},
           UNCHANGED <<now, created, late, pc, lastWindowEnd, since, window>>
    PROVE  CoverInv'
<1> USE SettlementAssumption DEF CoverInv
<1> DEFINE b == Batch(e, a)
<1>1. /\ b.group = a.group /\ b.window = window[e] /\ b.ids = a.ids
      /\ a.ids \subseteq Payments
      /\ pc[e] = "persist" /\ window[e].end + Buffer <= now
  BY DEF Batch, Shape, Marks
<1>2. /\ groups'[e] = groups[e] \ {a}
      /\ \A f \in Engines : f # e => groups'[f] = groups[f]
  BY DEF Shape
<1>3. \A p \in Payments :
          /\ Open(p)' => Open(p)
          /\ state[p] \in {"CAPTURED", "SETTLED"}
                => state'[p] \in {"CAPTURED", "SETTLED"}
  BY DEF PersistBatch, Open
<1>4. ASSUME NEW p \in a.ids, Open(p)' PROVE p \in skipped'
  <2>1. CASE PersistBatch(b) /\ Exists(b)
    <3>1. Open(p) /\ GroupOf[p] = a.group /\ InWindow(p, window[e])
      BY <1>1, <1>3, <1>4 DEF Aggregated
    <3> QED
      BY <1>1, <2>1, <3>1 DEF Exists, BatchFinal
  <2>2. CASE PersistBatch(b) /\ ~Exists(b)
    <3>1. state'[p] = IF state[p] = "CAPTURED" THEN "SETTLED" ELSE state[p]
      BY <1>1, <2>2 DEF PersistBatch
    <3> QED
      BY <1>4, <3>1 DEF Open
  <2>3. CASE a.ids \subseteq skipped'
    BY <2>3
  <2> QED
    BY <2>1, <2>2, <2>3
<1>5. Marks'
  BY <1>2 DEF Marks
<1>6. batches' \subseteq batches \cup {b}
  BY DEF PersistBatch
<1>7. BatchesOver'
  BY <1>1, <1>6 DEF BatchesOver
<1>8. Aggregated'
  BY <1>2, <1>3 DEF Aggregated, InWindow, Shape
<1>9. GroupComplete'
  BY <1>2, <1>3 DEF GroupComplete, InWindow
<1>10. WindowCovered'
  <2> SUFFICES ASSUME NEW f \in Engines, pc[f] = "persist",
                      NEW p \in Payments, Open(p)', InWindow(p, window[f])
               PROVE  p \in skipped' \/ \E c \in groups'[f] : p \in c.ids
    BY DEF WindowCovered, InWindow
  <2>1. p \in skipped \/ \E c \in groups[f] : p \in c.ids
    BY <1>3 DEF WindowCovered
  <2> QED
    BY <1>2, <1>4, <2>1
<1>11. BatchFinal'
  <2> SUFFICES ASSUME NEW c \in batches', NEW p \in Payments, Open(p)',
                      GroupOf[p] = c.group, InWindow(p, c.window)
               PROVE  FALSE
    BY DEF BatchFinal, InWindow
  <2>1. c \notin batches
    BY <1>3 DEF BatchFinal
  <2>2. c = b /\ PersistBatch(b) /\ ~Exists(b)
    BY <1>6, <2>1 DEF PersistBatch
  <2>3. p \in a.ids
    BY <1>1, <1>3, <2>2 DEF GroupComplete
  <2>4. state'[p] = IF state[p] = "CAPTURED" THEN "SETTLED" ELSE state[p]
    BY <1>1, <2>2, <2>3 DEF PersistBatch
  <2> QED
    BY <2>4 DEF Open
<1>12. BufferCoversCapture'
  BY <1>3 DEF BufferCoversCapture, Open
<1> HIDE DEF b
<1> QED
  BY <1>5, <1>7, <1>8, <1>9, <1>10, <1>11, <1>12

\* Every step of an engine keeps the payments of the windows covered.
LEMMA EngineCover ==
    ASSUME Shape, Shape', CoverInv, NEW e \in Engines, Engine(e) \/ Failure(e)
    PROVE  CoverInv'
<1> USE SettlementAssumption DEF Goto, payments, engine
<1>1. ASSUME NEW a \in groups[e], ProcessGroup(e, a)
      PROVE  CoverInv'
  BY <1>1, PersistCover DEF ProcessGroup
<1>2. ASSUME NEW a \in groups[e], GroupFails(e, a)
      PROVE  CoverInv'
  BY <1>2, PersistCover DEF GroupFails
<1>3. ASSUME groups'[e] = {},
             UNCHANGED <<now, state, created, late, batches, skipped>>,
             \A f \in Engines : f # e =>
                 /\ pc'[f] = pc[f] /\ lastWindowEnd'[f] = lastWindowEnd[f]
                 /\ since'[f] = since[f] /\ window'[f] = window[f]
                 /\ groups'[f] = groups[f],
             pc'[e] # "persist",
             Marks',
             \A p \in Payments :
                 /\ lastWindowEnd'[e] # Unset /\ Open(p)
                 /\ since'[e] <= created[p] /\ created[p] < lastWindowEnd'[e]
                 => p \in skipped
      PROVE  CoverInv'
  <2> USE <1>3 DEF CoverInv
  <2>1. BatchesOver' /\ BatchFinal'
    BY DEF BatchesOver, BatchFinal, InWindow, Open
  <2>2. Aggregated' /\ GroupComplete'
    BY DEF Aggregated, GroupComplete, InWindow, Open
  <2>3. WindowCovered'
    BY DEF WindowCovered, InWindow, Open
  <2>4. BufferCoversCapture'
    BY DEF BufferCoversCapture, Open
  <2> QED
    BY <2>1, <2>2, <2>3, <2>4
<1>4. ASSUME NEW tick \in 0 .. now, Tick(e, tick)
      PROVE  CoverInv'
  <2> DEFINE fresh == lastWindowEnd[e] = Unset
             start == IF fresh THEN WindowEnd(tick) - WindowSize
                               ELSE lastWindowEnd[e]
  <2>1. /\ pc[e] = "idle" /\ pc'[e] = "aggregate"
        /\ lastWindowEnd'[e] = start
        /\ since'[e] = IF fresh THEN start ELSE since[e]
        /\ window'[e] = [start |-> start, end |-> WindowEnd(tick)]
        /\ \A f \in Engines : f # e =>
               /\ pc'[f] = pc[f] /\ lastWindowEnd'[f] = lastWindowEnd[f]
               /\ since'[f] = since[f] /\ window'[f] = window[f]
        /\ UNCHANGED <<now, state, created, late, batches, groups, skipped>>
    BY <1>4 DEF Tick, Shape
  <2>2. groups[e] = {}
    BY <2>1 DEF CoverInv, Marks
  <2>3. /\ start \in Int /\ start + Buffer <= now
        /\ WindowEnd(tick) + Buffer <= now
    BY DEF WindowEnd, Shape, CoverInv, Marks
  <2>4. start # Unset /\ since'[e] # Unset
    BY <2>1, <2>3 DEF CoverInv, Marks
  <2>5. Marks'
    BY <2>1, <2>2, <2>3, <2>4 DEF CoverInv, Marks
  <2>6. ASSUME NEW p \in Payments, Open(p),
               since'[e] <= created[p], created[p] < lastWindowEnd'[e]
        PROVE  p \in skipped
    <3>1. ~fresh
      BY <2>1, <2>3, <2>6 DEF Shape
    <3> QED
      BY <2>1, <2>6, <3>1 DEF CoverInv, BufferCoversCapture, Open
  <2> HIDE DEF start, fresh
  <2> QED
    BY <2>1, <2>2, <2>5, <2>6, <1>3
<1>5. ASSUME AggregateFails(e) PROVE CoverInv'
  <2>1. /\ pc[e] = "aggregate" /\ pc'[e] = "idle"
        /\ \A f \in Engines : f # e => pc'[f] = pc[f] /\ window'[f] = window[f]
        /\ UNCHANGED <<now, state, created, late, batches, lastWindowEnd,
                       since, groups, skipped>>
    BY <1>5 DEF AggregateFails, Shape
  <2>2. groups[e] = {}
    BY <2>1 DEF CoverInv, Marks
  <2>3. Marks'
    BY <2>1, <2>2 DEF CoverInv, Marks
  <2>4. \A p \in Payments :
            /\ lastWindowEnd[e] # Unset /\ Open(p)
            /\ since[e] <= created[p] /\ created[p] < lastWindowEnd[e]
            => p \in skipped
    BY DEF CoverInv, BufferCoversCapture, Open
  <2> QED
    BY <2>1, <2>2, <2>3, <2>4, <1>3
<1>6. ASSUME WindowComplete(e) PROVE CoverInv'
  <2>1. /\ pc[e] = "persist" /\ pc'[e] = "idle" /\ groups[e] = {}
        /\ lastWindowEnd'[e] = window[e].end
        /\ \A f \in Engines : f # e =>
               /\ pc'[f] = pc[f] /\ lastWindowEnd'[f] = lastWindowEnd[f]
               /\ window'[f] = window[f]
        /\ UNCHANGED <<now, state, created, late, batches, since, groups,
                       skipped>>
    BY <1>6 DEF WindowComplete, Shape
  <2>2. /\ lastWindowEnd[e] # Unset /\ lastWindowEnd[e] \in Int
        /\ since[e] # Unset
        /\ window[e].start = lastWindowEnd[e]
        /\ window[e].end \in Int /\ window[e].end + Buffer <= now
    BY <2>1 DEF CoverInv, Marks, Shape
  <2>3. Marks'
    BY <2>1, <2>2 DEF CoverInv, Marks
  <2>4. ASSUME NEW p \in Payments, Open(p),
               since[e] <= created[p], created[p] < window[e].end
        PROVE  p \in skipped
    <3>1. CASE created[p] < lastWindowEnd[e]
      BY <2>2, <2>4, <3>1 DEF CoverInv, BufferCoversCapture, Open
    <3>2. CASE ~(created[p] < lastWindowEnd[e])
      <4>1. InWindow(p, window[e])
        BY <2>2, <2>4, <3>2 DEF InWindow, Shape
      <4> QED
        BY <2>1, <2>4, <4>1 DEF CoverInv, WindowCovered
    <3> QED
      BY <3>1, <3>2
  <2> QED
    BY <2>1, <2>3, <2>4, <1>3
<1>7. ASSUME Crash(e) PROVE CoverInv'
  <2>1. /\ pc'[e] = "idle" /\ groups'[e] = {} /\ lastWindowEnd'[e] = Unset
        /\ \A f \in Engines : f # e =>
               /\ pc'[f] = pc[f] /\ lastWindowEnd'[f] = lastWindowEnd[f]
               /\ since'[f] = since[f] /\ window'[f] = window[f]
               /\ groups'[f] = groups[f]
        /\ UNCHANGED <<now, state, created, late, batches, skipped>>
    BY <1>7 DEF Crash, Shape
  <2>2. Marks'
    BY <2>1 DEF CoverInv, Marks
  <2> QED
    BY <2>1, <2>2, <1>3
<1>8. ASSUME AggregateCaptured(e) PROVE CoverInv'
  <2> DEFINE found == {[group |-> g, ids |-> Selected(e, g)] :
                          g \in {h \in Groups : Selected(e, h) # {}}}
  <2>1. /\ pc[e] = "aggregate" /\ pc'[e] = "persist" /\ groups'[e] = found
        /\ \A f \in Engines : f # e => pc'[f] = pc[f] /\ groups'[f] = groups[f]
        /\ UNCHANGED <<now, state, created, late, batches, lastWindowEnd,
                       since, window, skipped>>
    BY <1>8 DEF AggregateCaptured, Shape
  <2>2. \A a \in found : a.ids = Selected(e, a.group)
    OBVIOUS
  <2>3. \A p \in Payments :
            Open(p) /\ InWindow(p, window[e]) => \E a \in found : p \in a.ids
    <3> SUFFICES ASSUME NEW p \in Payments, Open(p), InWindow(p, window[e])
                 PROVE  \E a \in found : p \in a.ids
      OBVIOUS
    <3> DEFINE mine == [group |-> GroupOf[p], ids |-> Selected(e, GroupOf[p])]
    <3>1. p \in Selected(e, GroupOf[p]) /\ GroupOf[p] \in Groups
      BY DEF Selected, Open, InWindow
    <3>2. mine \in found /\ p \in mine.ids
      BY <3>1
    <3> QED
      BY <3>2
  <2> HIDE DEF found
  <2> USE <2>1 DEF CoverInv
  <2>4. Marks'
    BY DEF Marks
  <2>5. BatchesOver' /\ BatchFinal' /\ BufferCoversCapture'
    BY DEF BatchesOver, BatchFinal, BufferCoversCapture, InWindow, Open
  <2>6. Aggregated'
    BY <2>2 DEF Aggregated, Selected, InWindow
  <2>7. GroupComplete'
    BY <2>2 DEF GroupComplete, Selected, InWindow, Open
  <2>8. WindowCovered'
    BY <2>3 DEF WindowCovered, InWindow, Open
  <2> QED
    BY <2>4, <2>5, <2>6, <2>7, <2>8
<1> QED
  BY <1>1, <1>2, <1>4, <1>5, <1>6, <1>7, <1>8 DEF Engine, Failure

\* Every step of the specification does.
LEMMA StepCover ==
    ASSUME Shape, Shape', CoverInv, [Next]_vars
    PROVE  CoverInv'
<1> USE SettlementAssumption DEF payments, engine
<1>1. ASSUME AdvanceClock PROVE CoverInv'
  <2>1. /\ now <= now'
        /\ UNCHANGED <<state, created, late, batches, engine, skipped>>
    BY <1>1 DEF AdvanceClock, Shape
  <2>2. \A p \in Payments : Open(p)' => Open(p) /\ created'[p] = created[p]
    BY <2>1 DEF Open
  <2> QED
    BY <2>1, <2>2, OutsideCover
<1>2. ASSUME NEW p \in Payments, Create(p) PROVE CoverInv'
  <2>1. /\ state[p] = "none" /\ state'[p] = "VALIDATED"
        /\ \A q \in Payments : q # p => /\ state'[q] = state[q]
                                        /\ created'[q] = created[q]
        /\ now <= now'
        /\ UNCHANGED <<late, batches, engine, skipped>>
    BY <1>2 DEF Create, Shape
  <2>2. \A q \in Payments : Open(q)' => Open(q) /\ created'[q] = created[q]
    BY <2>1 DEF Open
  <2> QED
    BY <2>1, <2>2, OutsideCover
<1>3. ASSUME NEW p \in Payments, Capture(p) PROVE CoverInv'
  <2>1. /\ state[p] = "VALIDATED"
        /\ \A q \in Payments : q # p => state'[q] = state[q]
        /\ late' = IF now > created[p] + Buffer THEN late \cup {p} ELSE late
        /\ now <= now'
        /\ UNCHANGED <<created, batches, engine, skipped>>
    BY <1>3 DEF Capture, Shape
  <2>2. \A q \in Payments : Open(q)' =>
            Open(q) \/ created'[q] + Buffer >= now
    BY <2>1 DEF Open, Shape
  <2> QED
    BY <2>1, <2>2, OutsideCover
<1>4. ASSUME NEW e \in Engines, Engine(e) \/ Failure(e) PROVE CoverInv'
  BY <1>4, EngineCover
<1>5. CASE UNCHANGED vars
  <2>1. /\ now <= now'
        /\ UNCHANGED <<state, created, late, batches, engine, skipped>>
    BY <1>5 DEF vars, Shape
  <2>2. \A p \in Payments : Open(p)' => Open(p) /\ created'[p] = created[p]
    BY <2>1 DEF Open
  <2> QED
    BY <2>1, <2>2, OutsideCover
<1> QED
  BY <1>1, <1>2, <1>3, <1>4, <1>5 DEF Next

\* The buffer keeps what it is there for, whatever engines run and however
\* they fail: a payment captured within the buffer is settled when the mark
\* of an engine passes it, unless persisting its group failed.
THEOREM BufferSound == Spec => []BufferCoversCapture
<1>1. TypeOK /\ TypeOK' /\ CoverInv /\ [Next]_vars => CoverInv'
  <2> SUFFICES ASSUME TypeOK, TypeOK', CoverInv, [Next]_vars PROVE CoverInv'
    OBVIOUS
  <2>1. Shape /\ Shape'
    <3>1. Shape
      BY TypeShape
    <3>2. Shape'
      BY TypeShape, PTL
    <3> QED
      BY <3>1, <3>2
  <2> QED
    BY <2>1, StepCover
<1>2. CoverInv => BufferCoversCapture
  BY DEF CoverInv
<1> QED
  BY <1>1, <1>2, InitCover, TypeCorrect, PTL DEF Spec
=============================================================================
