---------------------------- MODULE LedgerProofs ----------------------------
(***************************************************************************)
(* The safety of the ledger consumer, for any number of workers, payments, *)
(* attempts and faults.                                                    *)
(***************************************************************************)
EXTENDS Ledger, TLAPS

(***************************************************************************)
(* The inductive invariant.  Balanced speaks of committed legs only; it is *)
(* kept by Commit because of what a worker's open transaction holds.       *)
(***************************************************************************)

\* A worker that is not idle has a payment.
HasPayment == \A w \in Workers : pc[w] # "idle" => cur[w] \in Payments

\* What a transaction has inserted is not in the ledger yet.
InsertedIsNew ==
    \A w \in Workers : \A d \in inserted[w] :
        cur[w] \in Payments /\ legs[cur[w]][d] = 0

\* Two transactions never hold the same leg: the unique index.
Exclusive ==
    \A v, w \in Workers :
        v # w /\ cur[v] = cur[w] => inserted[v] \cap inserted[w] = {}

\* How far a transaction has come.  Before CAPTURED, each leg is in the ledger
\* or about to be.
Progressed ==
    \A w \in Workers :
        /\ pc[w] \in {"idle", "post", "debit", "ack", "dlq"} => inserted[w] = {}
        /\ pc[w] = "credit" =>
              /\ "CREDIT" \notin inserted[w]
              /\ "DEBIT" \in inserted[w] \/ legs[cur[w]]["DEBIT"] = 1
        /\ pc[w] \in {"capture", "commit"} =>
              \A d \in Directions : d \in inserted[w] \/ legs[cur[w]][d] = 1

\* Balanced, leg by leg.
Paired ==
    \A p \in Payments :
        /\ legs[p]["DEBIT"] = legs[p]["CREDIT"]
        /\ legs[p]["DEBIT"] \in {0, 1}

InLedger(p) == legs[p]["DEBIT"] = 1 /\ legs[p]["CREDIT"] = 1

\* A worker acknowledges what it has posted, or what a COMMIT has dropped.
Acked ==
    /\ \A w \in Workers :
          pc[w] = "ack" => InLedger(cur[w]) \/ cur[w] \in dropped
    /\ \A p \in Payments : done[p] = "ok" => InLedger(p) \/ p \in dropped

\* UpdateState moves a payment once, and the trail has that move.
OneMove ==
    \A p \in Payments :
        \/ state[p] = "VALIDATED" /\ audit[p] = <<>>
        \/ /\ state[p] \in {"CAPTURED", "FAILED"}
           /\ audit[p] = <<<<"VALIDATED", state[p]>>>>

\* TypeOK without the two variables of the transactions table and the bound
\* on faults, which other programs share.
WorkType ==
    /\ legs \in [Payments -> [Directions -> Nat]]
    /\ pc \in [Workers -> Steps]
    /\ cur \in [Workers -> Payments \cup {Nobody}]
    /\ attempt \in [Workers -> 0 .. MaxAttempts]
    /\ inserted \in [Workers -> SUBSET Directions]
    /\ err \in [Workers -> BOOLEAN]
    /\ done \in [Payments -> {"no", "ok", "dlq"}]
    /\ dropped \subseteq Payments

Posting ==
    HasPayment /\ InsertedIsNew /\ Exclusive /\ Progressed /\ Paired /\ Acked

IInv == TypeOK /\ Posting /\ OneMove

-----------------------------------------------------------------------------
\* A pair of legs is determined by its two counts.
LEMMA PairOf ==
    ASSUME NEW f \in [Directions -> Nat], NEW n \in Nat
    PROVE  f = [d \in Directions |-> n] <=> f["DEBIT"] = n /\ f["CREDIT"] = n
BY DEF Directions

\* The two ways to say that both legs are in the ledger.
LEMMA PostedIsInLedger ==
    ASSUME WorkType, NEW p \in Payments
    PROVE  Posted(p) <=> InLedger(p)
BY PairOf DEF WorkType, Posted, InLedger

\* What the work of the workers gives, whoever moves the state column.
LEMMA PostingImplies ==
    ASSUME WorkType, Posting
    PROVE  Balanced /\ HandledIsPosted
<1>1. \A p \in Payments : legs[p] \in [Directions -> Nat]
  BY DEF WorkType
<1>2. \A p \in Payments : Posted(p) <=> InLedger(p)
  BY PostedIsInLedger
<1>3. \A p \in Payments :
          Unposted(p) <=> legs[p]["DEBIT"] = 0 /\ legs[p]["CREDIT"] = 0
  BY <1>1, PairOf DEF Unposted
<1>4. Balanced
  BY <1>2, <1>3 DEF Posting, Paired, Balanced, InLedger
<1>5. HandledIsPosted
  BY <1>2 DEF Posting, Acked, HandledIsPosted
<1> QED
  BY <1>4, <1>5

\* The invariant gives the properties of the specification.
LEMMA IInvImplies == IInv => Balanced /\ HandledIsPosted /\ AuditTrail
<1> SUFFICES ASSUME IInv PROVE Balanced /\ HandledIsPosted /\ AuditTrail
  OBVIOUS
<1>1. Balanced /\ HandledIsPosted
  BY PostingImplies DEF IInv, TypeOK, WorkType
<1>2. AuditTrail
  BY DEF IInv, OneMove, AuditTrail, allowed
<1> QED
  BY <1>1, <1>2

\* UpdateState with a legal move keeps the trail and the types.
LEMMA UpdateStateKeeps ==
    ASSUME IInv, NEW p \in Payments, NEW to \in {"CAPTURED", "FAILED"},
           UpdateState(p, "VALIDATED", to)
    PROVE  /\ OneMove'
           /\ state' \in [Payments -> State]
           /\ audit' \in [Payments -> Seq(State \X State)]
<1>1. CASE UNCHANGED <<state, audit>>
  BY <1>1 DEF IInv, OneMove, TypeOK
<1>2. CASE /\ state[p] = "VALIDATED"
           /\ state' = [state EXCEPT ![p] = to]
           /\ audit' = [audit EXCEPT ![p] = Append(@, <<"VALIDATED", to>>)]
  <2>1. audit[p] = <<>>
    BY <1>2 DEF IInv, OneMove
  <2>2. <<"VALIDATED", to>> \in State \X State
    BY DEF State
  <2>3. Append(audit[p], <<"VALIDATED", to>>) = <<<<"VALIDATED", to>>>>
    BY <2>1
  <2>4. <<<<"VALIDATED", to>>>> \in Seq(State \X State)
    BY <2>2
  <2>5. audit' = [audit EXCEPT ![p] = <<<<"VALIDATED", to>>>>]
    BY <1>2, <2>3
  <2>6. state' \in [Payments -> State] /\ audit' \in [Payments -> Seq(State \X State)]
    BY <1>2, <2>4, <2>5 DEF IInv, TypeOK, State
  <2>7. OneMove'
    BY <1>2, <2>5 DEF IInv, OneMove, TypeOK
  <2> QED
    BY <2>6, <2>7
<1> QED
  BY <1>1, <1>2 DEF UpdateState

\* No worker has started and nothing is posted.
LEMMA InitPosting == Idle => WorkType /\ Posting
<1> SUFFICES ASSUME Idle PROVE WorkType /\ Posting
  OBVIOUS
<1> USE LedgerAssumption DEF Idle
<1>1. WorkType
  BY DEF WorkType, Steps, Directions
<1>2. Posting
  BY DEF Posting, HasPayment, InsertedIsNew, Exclusive, Progressed, Paired,
         Acked, Directions
<1> QED
  BY <1>1, <1>2

\* The invariant holds before any event is taken.
LEMMA InitIInv == Init => IInv
<1> SUFFICES ASSUME Init PROVE IInv
  OBVIOUS
<1>1. WorkType /\ Posting
  BY InitPosting DEF Init
<1>2. TypeOK
  BY <1>1, LedgerAssumption DEF Init, Idle, TypeOK, WorkType, State
<1>3. OneMove
  BY DEF OneMove, Init, Idle
<1> QED
  BY <1>1, <1>2, <1>3 DEF IInv

(***************************************************************************)
(* What a worker's steps do to its work, whatever the state column holds:  *)
(* the settlement engine moves that column too.                            *)
(***************************************************************************)

\* Every step of a worker keeps the shape of its work and its posting sound.
LEMMA StepPosting ==
    ASSUME WorkType, Posting, NEW w \in Workers, Step(w) \/ Failure(w)
    PROVE  WorkType' /\ Posting'
<1> USE LedgerAssumption DEF At, Goto, Fault, local
<1>1. ASSUME NEW p \in Payments, Deliver(w, p) PROVE WorkType' /\ Posting'
  <2> USE <1>1 DEF Deliver, Take
  <2>1. WorkType'
    BY DEF WorkType, Steps
  <2>2. HasPayment' /\ InsertedIsNew' /\ Exclusive'
    BY DEF WorkType, Steps, Posting, HasPayment, InsertedIsNew, Exclusive, Progressed
  <2>3. Progressed'
    BY DEF WorkType, Steps, Posting, HasPayment, Progressed
  <2>4. Paired' /\ Acked'
    BY DEF WorkType, Steps, Posting, HasPayment, Progressed, Paired, Acked, InLedger
  <2> QED
    BY <2>1, <2>2, <2>3, <2>4 DEF Posting
<1>2. ASSUME NEW p \in Payments, Redeliver(w, p) PROVE WorkType' /\ Posting'
  <2> USE <1>2 DEF Redeliver, Take
  <2>1. WorkType'
    BY DEF WorkType, Steps
  <2>2. HasPayment' /\ InsertedIsNew' /\ Exclusive'
    BY DEF WorkType, Steps, Posting, HasPayment, InsertedIsNew, Exclusive, Progressed
  <2>3. Progressed'
    BY DEF WorkType, Steps, Posting, HasPayment, Progressed
  <2>4. Paired' /\ Acked'
    BY DEF WorkType, Steps, Posting, HasPayment, Progressed, Paired, Acked, InLedger
  <2> QED
    BY <2>1, <2>2, <2>3, <2>4 DEF Posting
<1>3. ASSUME Begin(w) PROVE WorkType' /\ Posting'
  <2> USE <1>3 DEF Begin
  <2>1. WorkType'
    BY DEF WorkType, Steps
  <2>2. HasPayment' /\ InsertedIsNew' /\ Exclusive'
    BY DEF WorkType, Steps, Posting, HasPayment, InsertedIsNew, Exclusive, Progressed
  <2>3. Progressed'
    BY DEF WorkType, Steps, Posting, HasPayment, Progressed
  <2>4. Paired' /\ Acked'
    BY DEF WorkType, Steps, Posting, HasPayment, Progressed, Paired, Acked, InLedger
  <2> QED
    BY <2>1, <2>2, <2>3, <2>4 DEF Posting
<1>4. ASSUME LegsFail(w) PROVE WorkType' /\ Posting'
  <2> USE <1>4 DEF LegsFail
  <2>1. WorkType'
    BY DEF WorkType, Steps
  <2>2. HasPayment' /\ InsertedIsNew' /\ Exclusive'
    BY DEF WorkType, Steps, Posting, HasPayment, InsertedIsNew, Exclusive, Progressed
  <2>3. Progressed'
    BY DEF WorkType, Steps, Posting, HasPayment, Progressed
  <2>4. Paired' /\ Acked'
    BY DEF WorkType, Steps, Posting, HasPayment, Progressed, Paired, Acked, InLedger
  <2> QED
    BY <2>1, <2>2, <2>3, <2>4 DEF Posting
<1>5. ASSUME MarkFailedFails(w) PROVE WorkType' /\ Posting'
  <2> USE <1>5 DEF MarkFailedFails
  <2>1. WorkType'
    BY DEF WorkType, Steps
  <2>2. HasPayment' /\ InsertedIsNew' /\ Exclusive'
    BY DEF WorkType, Steps, Posting, HasPayment, InsertedIsNew, Exclusive, Progressed
  <2>3. Progressed'
    BY DEF WorkType, Steps, Posting, HasPayment, Progressed
  <2>4. Paired' /\ Acked'
    BY DEF WorkType, Steps, Posting, HasPayment, Progressed, Paired, Acked, InLedger
  <2> QED
    BY <2>1, <2>2, <2>3, <2>4 DEF Posting
<1>6. ASSUME Retry(w) PROVE WorkType' /\ Posting'
  <2> USE <1>6 DEF Retry
  <2>1. WorkType'
    BY DEF WorkType, Steps
  <2>2. HasPayment' /\ InsertedIsNew' /\ Exclusive'
    BY DEF WorkType, Steps, Posting, HasPayment, InsertedIsNew, Exclusive, Progressed
  <2>3. Progressed'
    BY DEF WorkType, Steps, Posting, HasPayment, Progressed
  <2>4. Paired' /\ Acked'
    BY DEF WorkType, Steps, Posting, HasPayment, Progressed, Paired, Acked, InLedger
  <2> QED
    BY <2>1, <2>2, <2>3, <2>4 DEF Posting
<1>7. ASSUME PublishToDLQ(w) PROVE WorkType' /\ Posting'
  <2> USE <1>7 DEF PublishToDLQ, Exit
  <2>1. WorkType'
    BY DEF WorkType, Steps, Posting, HasPayment
  <2>2. HasPayment' /\ InsertedIsNew' /\ Exclusive'
    BY DEF WorkType, Steps, Posting, HasPayment, InsertedIsNew, Exclusive, Progressed
  <2>3. Progressed'
    BY DEF WorkType, Steps, Posting, HasPayment, Progressed
  <2>4. Paired' /\ Acked'
    BY DEF WorkType, Steps, Posting, HasPayment, Progressed, Paired, Acked, InLedger
  <2> QED
    BY <2>1, <2>2, <2>3, <2>4 DEF Posting
<1>8. ASSUME CommitRecord(w) PROVE WorkType' /\ Posting'
  <2> USE <1>8 DEF CommitRecord, Exit
  <2>1. WorkType'
    BY DEF WorkType, Steps, Posting, HasPayment
  <2>2. HasPayment' /\ InsertedIsNew' /\ Exclusive'
    BY DEF WorkType, Steps, Posting, HasPayment, InsertedIsNew, Exclusive, Progressed
  <2>3. Progressed'
    BY DEF WorkType, Steps, Posting, HasPayment, Progressed
  <2>4. Paired' /\ Acked'
    BY DEF WorkType, Steps, Posting, HasPayment, Progressed, Paired, Acked, InLedger
  <2> QED
    BY <2>1, <2>2, <2>3, <2>4 DEF Posting
<1>9. ASSUME KafkaFails(w) PROVE WorkType' /\ Posting'
  <2> USE <1>9 DEF KafkaFails, Exit
  <2>1. WorkType'
    BY DEF WorkType, Steps
  <2>2. HasPayment' /\ InsertedIsNew' /\ Exclusive'
    BY DEF WorkType, Steps, Posting, HasPayment, InsertedIsNew, Exclusive, Progressed
  <2>3. Progressed'
    BY DEF WorkType, Steps, Posting, HasPayment, Progressed
  <2>4. Paired' /\ Acked'
    BY DEF WorkType, Steps, Posting, HasPayment, Progressed, Paired, Acked, InLedger
  <2> QED
    BY <2>1, <2>2, <2>3, <2>4 DEF Posting
<1>10. ASSUME Crash(w) PROVE WorkType' /\ Posting'
  <2> USE <1>10 DEF Crash, Exit
  <2>1. WorkType'
    BY DEF WorkType, Steps
  <2>2. HasPayment' /\ InsertedIsNew' /\ Exclusive'
    BY DEF WorkType, Steps, Posting, HasPayment, InsertedIsNew, Exclusive, Progressed
  <2>3. Progressed'
    BY DEF WorkType, Steps, Posting, HasPayment, Progressed
  <2>4. Paired' /\ Acked'
    BY DEF WorkType, Steps, Posting, HasPayment, Progressed, Paired, Acked, InLedger
  <2> QED
    BY <2>1, <2>2, <2>3, <2>4 DEF Posting
<1>11. ASSUME CommitFails(w) PROVE WorkType' /\ Posting'
  <2> USE <1>11 DEF CommitFails, Return
  <2>1. WorkType'
    BY DEF WorkType, Steps, Posting, HasPayment
  <2>2. HasPayment' /\ InsertedIsNew' /\ Exclusive'
    BY DEF WorkType, Steps, Posting, HasPayment, InsertedIsNew, Exclusive, Progressed
  <2>3. Progressed'
    BY DEF WorkType, Steps, Posting, HasPayment, Progressed
  <2>4. Paired' /\ Acked'
    BY DEF WorkType, Steps, Posting, HasPayment, Progressed, Paired, Acked, InLedger
  <2> QED
    BY <2>1, <2>2, <2>3, <2>4 DEF Posting
<1>12. ASSUME Debit(w) PROVE WorkType' /\ Posting'
  <2> USE <1>12 DEF Debit, InsertLeg
  <2>1. WorkType' /\ cur[w] \in Payments /\ legs[cur[w]] \in [Directions -> Nat]
    BY DEF WorkType, Steps, Directions, Posting, HasPayment
  <2>2. /\ inserted'[w] = IF legs[cur[w]]["DEBIT"] = 0
                            THEN inserted[w] \cup {"DEBIT"} ELSE inserted[w]
        /\ \A v \in Workers : v # w => inserted'[v] = inserted[v]
    <3>1. inserted' = [inserted EXCEPT ![w] =
                          IF legs[cur[w]]["DEBIT"] = 0 THEN @ \cup {"DEBIT"} ELSE @]
      OBVIOUS
    <3>2. DOMAIN inserted = Workers
      BY DEF WorkType
    <3> QED
      BY <3>1, <3>2
  <2>3. HasPayment' /\ InsertedIsNew'
    BY <2>1, <2>2 DEF WorkType, Posting, HasPayment, InsertedIsNew
  <2>4. Exclusive'
    BY <2>1, <2>2 DEF WorkType, Posting, Exclusive
  <2>5. Progressed'
    BY <2>1, <2>2 DEF WorkType, Steps, Directions, Posting, Progressed, Paired
  <2>6. Paired' /\ Acked'
    BY <2>1 DEF WorkType, Steps, Posting, Paired, Acked, InLedger
  <2> QED
    BY <2>1, <2>3, <2>4, <2>5, <2>6 DEF Posting
<1>13. ASSUME Credit(w) PROVE WorkType' /\ Posting'
  <2> USE <1>13 DEF Credit, InsertLeg
  <2>1. WorkType' /\ cur[w] \in Payments /\ legs[cur[w]] \in [Directions -> Nat]
    BY DEF WorkType, Steps, Directions, Posting, HasPayment
  <2>2. /\ inserted'[w] = IF legs[cur[w]]["CREDIT"] = 0
                            THEN inserted[w] \cup {"CREDIT"} ELSE inserted[w]
        /\ \A v \in Workers : v # w => inserted'[v] = inserted[v]
    <3>1. inserted' = [inserted EXCEPT ![w] =
                          IF legs[cur[w]]["CREDIT"] = 0 THEN @ \cup {"CREDIT"} ELSE @]
      OBVIOUS
    <3>2. DOMAIN inserted = Workers
      BY DEF WorkType
    <3> QED
      BY <3>1, <3>2
  <2>3. HasPayment' /\ InsertedIsNew'
    BY <2>1, <2>2 DEF WorkType, Posting, HasPayment, InsertedIsNew
  <2>4. Exclusive'
    BY <2>1, <2>2 DEF WorkType, Posting, Exclusive
  <2>5. Progressed'
    BY <2>1, <2>2 DEF WorkType, Steps, Directions, Posting, Progressed, Paired
  <2>6. Paired' /\ Acked'
    BY <2>1 DEF WorkType, Steps, Posting, Paired, Acked, InLedger
  <2> QED
    BY <2>1, <2>3, <2>4, <2>5, <2>6 DEF Posting
<1>14. ASSUME MarkFailed(w) PROVE WorkType' /\ Posting'
  <2> USE <1>14 DEF MarkFailed
  <2>1. WorkType'
    BY DEF WorkType, Steps
  <2>2. HasPayment' /\ InsertedIsNew' /\ Exclusive'
    BY DEF WorkType, Posting, HasPayment, InsertedIsNew, Exclusive
  <2>3. Progressed' /\ Paired' /\ Acked'
    BY DEF WorkType, Posting, Progressed, Paired, Acked, InLedger
  <2> QED
    BY <2>1, <2>2, <2>3 DEF Posting
<1>15. ASSUME Capture(w) PROVE WorkType' /\ Posting'
  <2> USE <1>15 DEF Capture
  <2>1. WorkType'
    BY DEF WorkType, Steps
  <2>2. HasPayment' /\ InsertedIsNew' /\ Exclusive'
    BY DEF WorkType, Posting, HasPayment, InsertedIsNew, Exclusive
  <2>3. Progressed' /\ Paired' /\ Acked'
    BY DEF WorkType, Posting, Progressed, Paired, Acked, InLedger
  <2> QED
    BY <2>1, <2>2, <2>3 DEF Posting
<1>16. ASSUME CaptureFails(w) PROVE WorkType' /\ Posting'
  <2> USE <1>16 DEF CaptureFails
  <2>1. WorkType'
    BY DEF WorkType, Steps
  <2>2. HasPayment' /\ InsertedIsNew' /\ Exclusive'
    BY DEF WorkType, Posting, HasPayment, InsertedIsNew, Exclusive
  <2>3. Progressed' /\ Paired' /\ Acked'
    BY DEF WorkType, Posting, Progressed, Paired, Acked, InLedger
  <2> QED
    BY <2>1, <2>2, <2>3 DEF Posting
<1>17. ASSUME Commit(w) PROVE WorkType' /\ Posting'
  <2> USE <1>17 DEF Commit, Return
  <2> DEFINE q == cur[w]
  <2>0. q \in Payments /\ legs[q] \in [Directions -> Nat]
    BY DEF WorkType, Posting, HasPayment
  <2>1. /\ \A p \in Payments : p # q => legs'[p] = legs[p]
        /\ legs'[q] = [d \in Directions |->
                          IF d \in inserted[w] THEN legs[q][d] + 1 ELSE legs[q][d]]
        /\ DOMAIN legs' = Payments
    BY <2>0 DEF WorkType
  <2>2. legs'[q] \in [Directions -> Nat]
    BY <2>0, <2>1
  <2>3. legs' \in [Payments -> [Directions -> Nat]]
    BY <2>0, <2>2 DEF WorkType
  <2>4. WorkType'
    BY <2>3 DEF WorkType, Steps
  <2>5. \A d \in Directions : legs'[q][d] = 1
    BY <2>0, <2>1 DEF Posting, InsertedIsNew, Progressed
  <2>6. Paired'
    BY <2>1, <2>5 DEF Posting, Paired, Directions
  <2>7. inserted'[w] = {} /\ \A v \in Workers : v # w => inserted'[v] = inserted[v]
    BY DEF WorkType
  <2>8. InsertedIsNew'
    <3> SUFFICES ASSUME NEW v \in Workers, NEW d \in inserted[v], v # w
                 PROVE  cur[v] \in Payments /\ legs'[cur[v]][d] = 0
      BY <2>7 DEF InsertedIsNew
    <3>1. cur[v] \in Payments /\ legs[cur[v]][d] = 0 /\ d \in Directions
      BY DEF Posting, InsertedIsNew, WorkType
    <3>2. CASE cur[v] = q
      <4>1. d \notin inserted[w]
        BY <3>2 DEF Posting, Exclusive
      <4> QED
        BY <2>1, <3>1, <3>2, <4>1
    <3>3. CASE cur[v] # q
      BY <2>1, <3>1, <3>3
    <3> QED
      BY <3>2, <3>3
  <2>9. HasPayment' /\ Exclusive'
    BY <2>7 DEF WorkType, Posting, HasPayment, Exclusive
  <2>10. \A p \in Payments : \A d \in Directions :
            legs[p][d] = 1 => legs'[p][d] = 1
    BY <2>1, <2>5
  <2>11. Progressed'
    BY <2>0, <2>7, <2>10 DEF WorkType, Steps, Posting, HasPayment, Progressed, Directions
  <2>12. Acked'
    BY <2>5, <2>10 DEF WorkType, Posting, HasPayment, Acked, InLedger, Directions
  <2> QED
    BY <2>4, <2>6, <2>8, <2>9, <2>11, <2>12 DEF Posting
<1> QED
  BY <1>1, <1>2, <1>3, <1>4, <1>5, <1>6, <1>7, <1>8, <1>9,
     <1>10, <1>11, <1>12, <1>13, <1>14, <1>15, <1>16, <1>17
     DEF Step, Failure

\* Of the state column and the audit trail a worker only ever makes one of
\* Post's two moves, for the payment it has.
LEMMA StepMoves ==
    ASSUME Posting, NEW w \in Workers, Step(w) \/ Failure(w)
    PROVE  \/ UNCHANGED <<state, audit>>
           \/ /\ cur[w] \in Payments
              /\ \E to \in {"CAPTURED", "FAILED"} :
                    UpdateState(cur[w], "VALIDATED", to)
<1>1. pc[w] # "idle" => cur[w] \in Payments
  BY DEF Posting, HasPayment
<1>2. CASE MarkFailed(w) \/ Capture(w) \/ CaptureFails(w)
  BY <1>1, <1>2 DEF MarkFailed, Capture, CaptureFails, At
<1>3. CASE ~(MarkFailed(w) \/ Capture(w) \/ CaptureFails(w))
  BY <1>3 DEF Step, Failure, Deliver, Redeliver, Take, Begin, Debit, Credit,
              InsertLeg, Commit, Retry, PublishToDLQ, CommitRecord, LegsFail,
              MarkFailedFails, CommitFails, KafkaFails, Crash
<1> QED
  BY <1>2, <1>3

\* The deferred commit puts both legs of its payment into the ledger at once.
LEMMA CommitPosts ==
    ASSUME WorkType, Posting, NEW w \in Workers, Commit(w)
    PROVE  /\ cur[w] \in Payments
           /\ Posted(cur[w])'
           /\ \A p \in Payments : p # cur[w] => legs'[p] = legs[p]
<1>1. cur[w] \in Payments /\ legs[cur[w]] \in [Directions -> Nat]
  BY DEF Commit, At, WorkType, Posting, HasPayment
<1>2. /\ legs'[cur[w]] = [d \in Directions |->
             IF d \in inserted[w] THEN legs[cur[w]][d] + 1 ELSE legs[cur[w]][d]]
      /\ \A p \in Payments : p # cur[w] => legs'[p] = legs[p]
  BY <1>1 DEF Commit, WorkType
<1>3. \A d \in Directions : d \in inserted[w] => legs[cur[w]][d] = 0
  BY DEF Posting, InsertedIsNew
<1>4. \A d \in Directions : d \notin inserted[w] => legs[cur[w]][d] = 1
  BY DEF Commit, At, Posting, Progressed
<1>5. legs'[cur[w]] = [d \in Directions |-> 1]
  BY <1>1, <1>2, <1>3, <1>4
<1>6. cur'[w] = cur[w]
  BY DEF Commit
<1> QED
  BY <1>1, <1>2, <1>5, <1>6 DEF Posted

\* What the rest of the pipeline can see of a worker's step: nothing but a
\* move of the payment, both legs at once, a COMMIT that was lost, or how the
\* offset of the event was committed.
LEMMA StepEffects ==
    ASSUME WorkType, Posting, NEW w \in Workers, Step(w) \/ Failure(w)
    PROVE  \/ UNCHANGED <<legs, done, dropped>>
           \/ /\ UNCHANGED <<state, audit>>
              /\ cur[w] \in Payments
              /\ \/ /\ UNCHANGED <<done, dropped>>
                    /\ legs'[cur[w]] = [d \in Directions |-> 1]
                    /\ \A p \in Payments : p # cur[w] => legs'[p] = legs[p]
                 \/ UNCHANGED <<legs, done>> /\ dropped' = dropped \cup {cur[w]}
                 \/ /\ UNCHANGED <<legs, dropped>>
                    /\ done' = [done EXCEPT ![cur[w]] = "dlq"]
                 \/ /\ UNCHANGED <<legs, dropped>>
                    /\ done' = [done EXCEPT ![cur[w]] = "ok"]
                    /\ Posted(cur[w]) \/ cur[w] \in dropped
<1>1. pc[w] # "idle" => cur[w] \in Payments
  BY DEF Posting, HasPayment
<1>2. CASE Commit(w)
  <2>1. cur'[w] = cur[w] /\ UNCHANGED <<state, audit, done, dropped>>
    BY <1>2 DEF Commit
  <2> QED
    BY <1>2, <2>1, CommitPosts DEF Posted
<1>3. CASE CommitFails(w)
  BY <1>1, <1>3 DEF CommitFails, At
<1>4. CASE PublishToDLQ(w)
  BY <1>1, <1>4 DEF PublishToDLQ, At
<1>5. CASE CommitRecord(w)
  <2>1. InLedger(cur[w]) \/ cur[w] \in dropped
    BY <1>5 DEF CommitRecord, At, Posting, Acked
  <2> QED
    BY <1>1, <1>5, <2>1, PostedIsInLedger DEF CommitRecord, At
<1>6. CASE ~(Commit(w) \/ CommitFails(w) \/ PublishToDLQ(w) \/ CommitRecord(w))
  BY <1>6 DEF Step, Failure, Deliver, Redeliver, Take, Begin, Debit, Credit,
              InsertLeg, MarkFailed, Capture, Retry, LegsFail,
              MarkFailedFails, CaptureFails, KafkaFails, Crash, local
<1> QED
  BY <1>2, <1>3, <1>4, <1>5, <1>6

\* The faults stay within their bound.
LEMMA StepFaults ==
    ASSUME faults \in 0 .. MaxFaults, NEW w \in Workers, Step(w) \/ Failure(w)
    PROVE  faults' \in 0 .. MaxFaults
<1> USE LedgerAssumption
<1>1. CASE Step(w)
  BY <1>1 DEF Step, Deliver, Begin, Debit, Credit, InsertLeg, MarkFailed,
              Capture, Commit, Retry, PublishToDLQ, CommitRecord
<1>2. CASE Failure(w)
  BY <1>2 DEF Failure, Fault, Redeliver, LegsFail, MarkFailedFails,
              CaptureFails, CommitFails, KafkaFails, Crash
<1> QED
  BY <1>1, <1>2

\* Every step of the specification keeps the invariant.
LEMMA StepIInv == IInv /\ [Next]_vars => IInv'
<1> SUFFICES ASSUME IInv, [Next]_vars PROVE IInv'
  OBVIOUS
<1>1. ASSUME NEW w \in Workers, Step(w) \/ Failure(w) PROVE IInv'
  <2>1. WorkType /\ Posting /\ faults \in 0 .. MaxFaults
    BY DEF IInv, TypeOK, WorkType
  <2>2. WorkType' /\ Posting'
    BY <1>1, <2>1, StepPosting
  <2>3. faults' \in 0 .. MaxFaults
    BY <1>1, <2>1, StepFaults
  <2>4. /\ OneMove'
        /\ state' \in [Payments -> State]
        /\ audit' \in [Payments -> Seq(State \X State)]
    <3>1. CASE UNCHANGED <<state, audit>>
      BY <3>1 DEF IInv, OneMove, TypeOK
    <3>2. CASE ~UNCHANGED <<state, audit>>
      BY <1>1, <2>1, <3>2, StepMoves, UpdateStateKeeps
    <3> QED
      BY <3>1, <3>2
  <2> QED
    BY <2>2, <2>3, <2>4 DEF IInv, TypeOK, WorkType
<1>2. CASE UNCHANGED vars
  BY <1>2 DEF vars, local, IInv, TypeOK, OneMove, Posting, HasPayment,
              InsertedIsNew, Exclusive, Progressed, Paired, Acked, InLedger
<1> QED
  BY <1>1, <1>2 DEF Next

\* The invariant holds throughout.
THEOREM Invariance == Spec => []IInv
<1> QED
  BY InitIInv, StepIInv, PTL DEF Spec

\* TypeOK: every variable keeps its shape whatever workers race or fail.
THEOREM TypeCorrect == Spec => []TypeOK
<1>1. IInv => TypeOK
  BY DEF IInv
<1> QED
  BY <1>1, Invariance, PTL

\* Post never leaves one leg without the other, for any number of workers
\* posting one payment at once.
THEOREM AlwaysBalanced == Spec => []Balanced
<1> QED
  BY IInvImplies, Invariance, PTL

\* An event acknowledged as handled has its legs in the ledger, unless their
\* COMMIT failed.
THEOREM HandledSound == Spec => []HandledIsPosted
<1> QED
  BY IInvImplies, Invariance, PTL

\* The audit trail that UpdateState writes is the history of the state.
THEOREM AuditSound == Spec => []AuditTrail
<1> QED
  BY IInvImplies, Invariance, PTL
=============================================================================
