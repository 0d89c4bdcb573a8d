---------------------------- MODULE IntakeProofs ----------------------------
(***************************************************************************)
(* The safety of intake, for any number of calls, any requests, any set of *)
(* refused requests and every combination of faults.                       *)
(***************************************************************************)
EXTENDS Intake, TLAPS

(***************************************************************************)
(* The inductive invariant.  NeverDoubleProcess alone is not inductive: it *)
(* says nothing of rows that are inserted but not committed, and nothing   *)
(* ties a call to its request.                                             *)
(***************************************************************************)

\* Exactly the calls that were received carry a request.
HasRequest ==
    \A c \in Calls :
        IF phase[c] = "idle" THEN req[c] = Nil ELSE req[c] \in Requests

\* Call d has claimed slot k: it got past its claim under that key, or is going
\* to find its own claim there.
Claimed(k, d) ==
    /\ phase[d] # "idle"
    /\ phase[d] \in {"claim", "get"} => d \in resent
    /\ DeriveKey(req[d]) = k

\* A slot holds the payment id of a call that has claimed it.
SlotsMatch ==
    \A k \in DedupKeys : redis[k] # Nil =>
        \E d \in Calls : Claimed(k, d) /\ redis[k] = PaymentId(d)

\* Committed rows and the rows of open transactions collide neither in the
\* primary key nor in the idempotency_key column.
IndexUnique ==
    \A p, q \in transactions \cup InTx : Conflict(p, q) => p = q

\* A committed or failed COMMIT belongs to a call that is over.
CommitsOver ==
    \A c \in transactions \cup aborted : phase[c] \in {"done", "lost"}

\* A deduplicated answer is a call's last step.
DupOver == \A c \in Calls : resp[c].kind = "dup" => phase[c] = "done"

IInv ==
    /\ TypeOK
    /\ HasRequest
    /\ SlotsMatch
    /\ IndexUnique
    /\ CommitsOver
    /\ AckedUnlessCommitFailed
    /\ DupNamesSameKey
    /\ DupOver

-----------------------------------------------------------------------------
\* Two requests with one dedup key have one value of the indexed column: a
\* client key is indexed as it is, and all derived keys are indexed as empty.
LEMMA SameDedupSameIndex ==
    ASSUME NEW r, NEW s, DeriveKey(r) = DeriveKey(s)
    PROVE  r.key = s.key
<1>1. CASE r.key = NoKey /\ s.key = NoKey
  BY <1>1
<1>2. CASE r.key = NoKey /\ s.key # NoKey
  <2>1. DeriveKey(r)[1] = "derived" /\ DeriveKey(s)[1] = "client"
    BY <1>2 DEF DeriveKey
  <2> QED
    BY <2>1
<1>3. CASE r.key # NoKey /\ s.key = NoKey
  <2>1. DeriveKey(r)[1] = "client" /\ DeriveKey(s)[1] = "derived"
    BY <1>3 DEF DeriveKey
  <2> QED
    BY <2>1
<1>4. CASE r.key # NoKey /\ s.key # NoKey
  <2>1. DeriveKey(r)[2] = r.key /\ DeriveKey(s)[2] = s.key
    BY <1>4 DEF DeriveKey
  <2> QED
    BY <2>1
<1> QED
  BY <1>1, <1>2, <1>3, <1>4

\* A request's dedup key has a slot.
LEMMA DedupKeyHasSlot ==
    ASSUME NEW r \in Requests
    PROVE  DeriveKey(r) \in DedupKeys
BY DEF DedupKeys

\* The empty database with every call idle satisfies the invariant.
LEMMA InitIInv == Init => IInv
<1> SUFFICES ASSUME Init PROVE IInv
  OBVIOUS
<1> USE RequestAssumption DEF Init
<1>1. TypeOK
  BY DEF TypeOK, Phases, NoResponse
<1>2. HasRequest /\ SlotsMatch /\ CommitsOver
  BY DEF HasRequest, SlotsMatch, CommitsOver
<1>3. IndexUnique
  BY DEF IndexUnique, InTx
<1>4. AckedUnlessCommitFailed /\ DupNamesSameKey /\ DupOver
  BY DEF AckedUnlessCommitFailed, DupNamesSameKey, DupOver, NoResponse
<1> QED
  BY <1>1, <1>2, <1>3, <1>4 DEF IInv

\* Calls keep their request, do not go back before their claim and stay among
\* the calls that were sent again.
Onward ==
    /\ \A d \in Calls :
           /\ phase[d] # "idle" => phase'[d] # "idle" /\ req'[d] = req[d]
           /\ phase'[d] \in {"claim", "get"} =>
                  phase[d] \in {"idle", "claim", "get"}
    /\ resent \subseteq resent'

\* Who has claimed a slot has claimed it for good.
LEMMA ClaimedKept ==
    ASSUME Onward, NEW k, NEW d \in Calls, Claimed(k, d)
    PROVE  Claimed(k, d)' /\ PaymentId(d)' = PaymentId(d)
BY DEF Onward, Claimed, PaymentId

\* Slots that are kept or expire still match.
LEMMA SlotsKept ==
    ASSUME IInv, Onward, \A k \in DedupKeys : redis'[k] \in {Nil, redis[k]}
    PROVE  SlotsMatch'
<1> SUFFICES ASSUME NEW k \in DedupKeys, redis'[k] # Nil
             PROVE  \E d \in Calls : Claimed(k, d)' /\ redis'[k] = PaymentId(d)'
  BY DEF SlotsMatch
<1>1. redis'[k] = redis[k]
  OBVIOUS
<1>2. PICK d \in Calls : Claimed(k, d) /\ redis[k] = PaymentId(d)
  BY <1>1 DEF IInv, SlotsMatch
<1> QED
  BY <1>1, <1>2, ClaimedKept

\* Deduplicated answers that were given earlier stay right.
LEMMA DupsKept ==
    ASSUME IInv, Onward,
           \A c \in Calls : resp'[c].kind = "dup" => resp'[c] = resp[c]
    PROVE  DupNamesSameKey'
<1> SUFFICES ASSUME NEW c \in Calls, resp'[c].kind = "dup"
             PROVE  \E d \in Calls : /\ d # c \/ c \in resent'
                                     /\ req'[d] # Nil
                                     /\ resp'[c].id = PaymentId(d)'
                                     /\ DeriveKey(req'[d]) = DeriveKey(req'[c])
  BY DEF DupNamesSameKey
<1>1. resp'[c] = resp[c] /\ phase[c] = "done"
  BY DEF IInv, DupOver
<1>2. PICK d \in Calls : /\ d # c \/ c \in resent
                         /\ req[d] # Nil
                         /\ resp[c].id = PaymentId(d)
                         /\ DeriveKey(req[d]) = DeriveKey(req[c])
  BY <1>1 DEF DupNamesSameKey, IInv
<1>3. phase[d] # "idle"
  BY <1>2 DEF IInv, HasRequest
<1>4. req'[d] = req[d] /\ req'[c] = req[c] /\ resent \subseteq resent'
  BY <1>1, <1>3 DEF Onward
<1>5. PaymentId(d)' = PaymentId(d)
  BY <1>4 DEF PaymentId
<1> QED
  BY <1>1, <1>2, <1>4, <1>5

\* A handler that answers with an error and has changed nothing outside its
\* own goroutine keeps the invariant: its open transaction, if any, is rolled
\* back.
LEMMA ErrorKeepsIInv ==
    ASSUME IInv, NEW c \in Calls,
           phase[c] \notin {"idle", "done", "lost"},
           Answer(c, Error), UNCHANGED <<req, redis, db, resent>>
    PROVE  IInv'
<1> USE RequestAssumption DEF IInv, Answer, Error, db
<1>o. Onward
  BY DEF TypeOK, Onward, Phases
<1>1. TypeOK'
  BY DEF TypeOK, Phases
<1>2. HasRequest'
  BY DEF TypeOK, HasRequest
<1>3. SlotsMatch'
  BY <1>1, <1>o, SlotsKept DEF TypeOK
<1>4. IndexUnique'
  BY DEF TypeOK, IndexUnique, InTx, Conflict, IndexKey, PaymentId,
              CommitsOver
<1>5. CommitsOver'
  BY DEF TypeOK, CommitsOver
<1>6. AckedUnlessCommitFailed'
  BY DEF TypeOK, AckedUnlessCommitFailed, CommitsOver
<1>7. DupNamesSameKey'
  BY <1>1, <1>o, DupsKept DEF TypeOK
<1>8. DupOver'
  BY <1>1 DEF TypeOK, DupOver
<1> QED
  BY <1>1, <1>2, <1>3, <1>4, <1>5, <1>6, <1>7, <1>8

\* A handler that moves on without touching Redis or the database keeps the
\* invariant, as long as it does not go back before its claim and the only
\* way to the commit is from an inserted row.
LEMMA GotoKeepsIInv ==
    ASSUME IInv, NEW c \in Calls, NEW p,
           phase[c] \notin {"idle", "done", "lost"},
           p \in {"get", "validate", "insert", "commit"},
           p = "get" => phase[c] = "claim",
           p = "commit" => phase[c] = "outbox",
           Goto(c, p), UNCHANGED <<req, redis, db, resent>>
    PROVE  IInv'
<1> USE RequestAssumption DEF IInv, Goto, db
<1>o. Onward
  BY DEF TypeOK, Onward, Phases
<1>1. TypeOK'
  BY DEF TypeOK, Phases
<1>2. HasRequest'
  BY DEF TypeOK, HasRequest
<1>3. SlotsMatch'
  BY <1>1, <1>o, SlotsKept DEF TypeOK
<1>4. IndexUnique'
  BY DEF TypeOK, IndexUnique, InTx, Conflict, IndexKey, PaymentId,
              CommitsOver
<1>5. CommitsOver'
  BY DEF TypeOK, CommitsOver
<1>6. AckedUnlessCommitFailed'
  BY DEF TypeOK, AckedUnlessCommitFailed, CommitsOver
<1>7. DupNamesSameKey'
  BY <1>1, <1>o, DupsKept DEF TypeOK
<1>8. DupOver'
  BY <1>1 DEF TypeOK, DupOver
<1> QED
  BY <1>1, <1>2, <1>3, <1>4, <1>5, <1>6, <1>7, <1>8

\* Storing the id of a call in its slot keeps the slots' part of the invariant
\* when that call leaves its claim behind, or sends it again.
LEMMA ClaimKeepsSlots ==
    ASSUME IInv, NEW c \in Calls, Onward,
           phase[c] = "claim", phase'[c] # "idle",
           phase'[c] \in {"claim", "get"} => c \in resent',
           redis' = [redis EXCEPT ![DeriveKey(req[c])] = PaymentId(c)]
    PROVE  SlotsMatch' /\ redis' \in [DedupKeys -> PaymentIds \cup {Nil}]
<1>1. DeriveKey(req[c]) \in DedupKeys /\ PaymentId(c) \in PaymentIds
  BY DedupKeyHasSlot DEF IInv, HasRequest, PaymentId, PaymentIds
<1>2. redis' \in [DedupKeys -> PaymentIds \cup {Nil}]
  BY <1>1 DEF IInv, TypeOK
<1>3. ASSUME NEW k \in DedupKeys, redis'[k] # Nil
      PROVE  \E d \in Calls : Claimed(k, d)' /\ redis'[k] = PaymentId(d)'
  <2>1. CASE k = DeriveKey(req[c])
    <3>1. redis'[k] = PaymentId(c)
      BY <1>1, <2>1 DEF IInv, TypeOK
    <3>2. req'[c] = req[c]
      BY DEF Onward
    <3>3. PaymentId(c)' = PaymentId(c)
      BY <3>2 DEF PaymentId
    <3> QED
      BY <2>1, <3>1, <3>2, <3>3 DEF Claimed
  <2>2. CASE k # DeriveKey(req[c])
    <3>1. redis'[k] = redis[k]
      BY <1>1, <2>2 DEF IInv, TypeOK
    <3>2. PICK d \in Calls : Claimed(k, d) /\ redis[k] = PaymentId(d)
      BY <1>3, <3>1 DEF IInv, SlotsMatch
    <3> QED
      BY <3>1, <3>2, ClaimedKept
  <2> QED
    BY <2>1, <2>2
<1>4. SlotsMatch'
  BY <1>3 DEF SlotsMatch
<1> QED
  BY <1>2, <1>4

\* Every step of the specification keeps the invariant.
LEMMA StepIInv == IInv /\ [Next]_vars => IInv'
<1> SUFFICES ASSUME IInv, [Next]_vars PROVE IInv'
  OBVIOUS
<1> USE RequestAssumption
<1>1. ASSUME NEW c \in Calls, NEW r \in Requests, Receive(c, r)
      PROVE  IInv'
  <2> USE <1>1 DEF IInv, Receive, Goto, Answer, Error, db
  <2>0. phase[c] = "idle" /\ c \notin transactions \cup aborted
    BY DEF CommitsOver
  <2>o. Onward
    BY DEF TypeOK, Onward, Phases
  <2>1. TypeOK'
    BY <2>0 DEF TypeOK, Phases
  <2>2. HasRequest'
    BY <2>0 DEF TypeOK, HasRequest
  <2>3. SlotsMatch'
    BY <2>1, <2>o, SlotsKept DEF TypeOK
  <2>4. IndexUnique'
    BY <2>0 DEF TypeOK, IndexUnique, InTx, Conflict, IndexKey, PaymentId,
                CommitsOver
  <2>5. CommitsOver'
    BY <2>0 DEF TypeOK, CommitsOver
  <2>6. AckedUnlessCommitFailed'
    BY <2>0 DEF TypeOK, AckedUnlessCommitFailed, CommitsOver
  <2>7. DupNamesSameKey'
    BY <2>1, <2>o, DupsKept DEF TypeOK
  <2>8. DupOver'
    BY <2>1 DEF TypeOK, DupOver
  <2> QED
    BY <2>1, <2>2, <2>3, <2>4, <2>5, <2>6, <2>7, <2>8
<1>2. ASSUME NEW c \in Calls, ClaimSetNX(c)
      PROVE  IInv'
  <2>1. CASE redis[DeriveKey(req[c])] = Nil
    <3> USE <1>2, <2>1 DEF IInv, ClaimSetNX, Goto, db
    <3>o. Onward
      BY DEF TypeOK, Onward, Phases
    <3>0. SlotsMatch' /\ redis' \in [DedupKeys -> PaymentIds \cup {Nil}]
      BY <3>o, ClaimKeepsSlots DEF TypeOK
    <3>1. TypeOK'
      BY <3>0 DEF TypeOK, Phases
    <3>2. HasRequest'
      BY DEF TypeOK, HasRequest
    <3>4. IndexUnique'
      BY DEF TypeOK, IndexUnique, InTx, Conflict, IndexKey, PaymentId,
             CommitsOver
    <3>5. CommitsOver'
      BY DEF TypeOK, CommitsOver
    <3>6. AckedUnlessCommitFailed'
      BY DEF TypeOK, AckedUnlessCommitFailed, CommitsOver
    <3>7. DupNamesSameKey'
      BY <3>o, DupsKept DEF TypeOK
    <3>8. DupOver'
      BY DEF TypeOK, DupOver
    <3> QED
      BY <3>0, <3>1, <3>2, <3>4, <3>5, <3>6, <3>7, <3>8
  <2>2. CASE redis[DeriveKey(req[c])] # Nil
    BY <1>2, <2>2, GotoKeepsIInv DEF ClaimSetNX
  <2> QED
    BY <2>1, <2>2
<1>3. ASSUME NEW c \in Calls, ClaimGet(c)
      PROVE  IInv'
  <2>1. CASE redis[DeriveKey(req[c])] = Nil
    BY <1>3, <2>1, ErrorKeepsIInv DEF ClaimGet
  <2>2. CASE redis[DeriveKey(req[c])] # Nil
    <3> DEFINE p == redis[DeriveKey(req[c])]
    <3>a. DeriveKey(req[c]) \in DedupKeys
      BY <1>3, DedupKeyHasSlot DEF IInv, HasRequest, ClaimGet
    <3>b. p \in PaymentIds
      BY <2>2, <3>a DEF IInv, TypeOK
    <3>c. /\ phase' = [phase EXCEPT ![c] = "done"]
          /\ resp' = [resp EXCEPT ![c] = [kind |-> "dup", id |-> p]]
          /\ phase[c] = "get" /\ UNCHANGED <<req, redis, db, resent>>
      BY <1>3, <2>2 DEF ClaimGet, Answer, Dup
    <3>d. PICK d \in Calls : Claimed(DeriveKey(req[c]), d) /\ p = PaymentId(d)
      BY <2>2, <3>a DEF IInv, SlotsMatch
    <3>e. /\ d # c \/ c \in resent
          /\ req[d] # Nil
          /\ DeriveKey(req[d]) = DeriveKey(req[c])
      BY <3>c, <3>d, RequestAssumption DEF Claimed, IInv, HasRequest
    <3> HIDE DEF p
    <3> USE <3>b, <3>c DEF IInv, db
    <3>o. Onward
      BY DEF TypeOK, Onward, Phases
    <3>1. TypeOK'
      BY DEF TypeOK, Phases
    <3>2. HasRequest'
      BY DEF TypeOK, HasRequest
    <3>3. SlotsMatch'
      BY <3>o, SlotsKept
    <3>4. IndexUnique'
      BY DEF TypeOK, IndexUnique, InTx, Conflict, IndexKey, PaymentId,
             CommitsOver
    <3>5. CommitsOver'
      BY DEF TypeOK, CommitsOver
    <3>6. AckedUnlessCommitFailed'
      BY DEF TypeOK, AckedUnlessCommitFailed, CommitsOver
    <3>7. DupNamesSameKey'
      <4> SUFFICES ASSUME NEW a \in Calls, resp'[a].kind = "dup"
                   PROVE  \E b \in Calls :
                              /\ b # a \/ a \in resent
                              /\ req[b] # Nil
                              /\ resp'[a].id = PaymentId(b)
                              /\ DeriveKey(req[b]) = DeriveKey(req[a])
        BY DEF DupNamesSameKey, PaymentId
      <4>1. CASE a = c
        BY <3>d, <3>e, <4>1 DEF TypeOK
      <4>2. CASE a # c
        BY <4>2 DEF TypeOK, DupNamesSameKey
      <4> QED
        BY <4>1, <4>2
    <3>8. DupOver'
      BY DEF TypeOK, DupOver
    <3> QED
      BY <3>1, <3>2, <3>3, <3>4, <3>5, <3>6, <3>7, <3>8
  <2> QED
    BY <2>1, <2>2
<1>4. ASSUME NEW c \in Calls, ClaimError(c)
      PROVE  IInv'
  BY <1>4, ErrorKeepsIInv DEF ClaimError
<1>14. ASSUME NEW c \in Calls, ClaimResent(c)
      PROVE  IInv'
  <2> USE <1>14 DEF IInv, ClaimResent, db
  <2>o. Onward
    BY DEF TypeOK, Onward, Phases
  <2>0. SlotsMatch' /\ redis' \in [DedupKeys -> PaymentIds \cup {Nil}]
    BY <2>o, ClaimKeepsSlots DEF TypeOK
  <2>1. TypeOK'
    BY <2>0 DEF TypeOK, Phases
  <2>2. HasRequest'
    BY DEF TypeOK, HasRequest
  <2>4. IndexUnique'
    BY DEF TypeOK, IndexUnique, InTx, Conflict, IndexKey, PaymentId,
           CommitsOver
  <2>5. CommitsOver'
    BY DEF TypeOK, CommitsOver
  <2>6. AckedUnlessCommitFailed'
    BY DEF TypeOK, AckedUnlessCommitFailed, CommitsOver
  <2>7. DupNamesSameKey'
    BY <2>o, DupsKept DEF TypeOK
  <2>8. DupOver'
    BY DEF TypeOK, DupOver
  <2> QED
    BY <2>0, <2>1, <2>2, <2>4, <2>5, <2>6, <2>7, <2>8
<1>5. ASSUME NEW c \in Calls, Validate(c)
      PROVE  IInv'
  BY <1>5, ErrorKeepsIInv, GotoKeepsIInv DEF Validate
<1>6. ASSUME NEW c \in Calls, InsertTxn(c)
      PROVE  IInv'
  <2>1. CASE Answer(c, Error)
    BY <1>6, <2>1, ErrorKeepsIInv DEF InsertTxn
  <2>2. CASE /\ \A d \in InTx \cup transactions : ~Conflict(c, d)
             /\ Goto(c, "outbox")
    <3>0. phase[c] = "insert" /\ UNCHANGED <<req, redis, db, resent>>
      BY <1>6 DEF InsertTxn
    <3> USE <2>2, <3>0 DEF IInv, Goto, db
    <3>o. Onward
      BY DEF TypeOK, Onward, Phases
    <3>1. TypeOK'
      BY DEF TypeOK, Phases
    <3>2. HasRequest'
      BY DEF TypeOK, HasRequest
    <3>3. SlotsMatch'
      BY <3>1, <3>o, SlotsKept DEF TypeOK
    <3>4. IndexUnique'
      BY DEF TypeOK, IndexUnique, InTx, Conflict, IndexKey, PaymentId,
              CommitsOver
    <3>5. CommitsOver'
      BY DEF TypeOK, CommitsOver
    <3>6. AckedUnlessCommitFailed'
      BY DEF TypeOK, AckedUnlessCommitFailed, CommitsOver
    <3>7. DupNamesSameKey'
      BY <3>1, <3>o, DupsKept DEF TypeOK
    <3>8. DupOver'
      BY <3>1 DEF TypeOK, DupOver
    <3> QED
      BY <3>1, <3>2, <3>3, <3>4, <3>5, <3>6, <3>7, <3>8
  <2> QED
    BY <1>6, <2>1, <2>2 DEF InsertTxn
<1>7. ASSUME NEW c \in Calls, InsertOutbox(c)
      PROVE  IInv'
  BY <1>7, GotoKeepsIInv DEF InsertOutbox
<1>8. ASSUME NEW c \in Calls, SaveError(c)
      PROVE  IInv'
  BY <1>8, ErrorKeepsIInv DEF SaveError
<1>9. ASSUME NEW c \in Calls, Commit(c)
      PROVE  IInv'
  <2> USE <1>9 DEF IInv, Commit, Answer, Ack
  <2>o. Onward
    BY DEF TypeOK, Onward, Phases
  <2>0. PaymentId(c) \in PaymentIds
    BY DEF PaymentId, PaymentIds, HasRequest
  <2>1. TypeOK'
    BY <2>0 DEF TypeOK, Phases
  <2>2. HasRequest'
    BY DEF TypeOK, HasRequest
  <2>3. SlotsMatch'
    BY <2>1, <2>o, SlotsKept DEF TypeOK
  <2>4. IndexUnique'
    BY DEF TypeOK, IndexUnique, InTx, Conflict, IndexKey, PaymentId,
              CommitsOver
  <2>5. CommitsOver'
    BY DEF TypeOK, CommitsOver
  <2>6. AckedUnlessCommitFailed'
    BY DEF TypeOK, AckedUnlessCommitFailed, CommitsOver
  <2>7. DupNamesSameKey'
    BY <2>1, <2>o, DupsKept DEF TypeOK
  <2>8. DupOver'
    BY <2>1 DEF TypeOK, DupOver
  <2> QED
    BY <2>1, <2>2, <2>3, <2>4, <2>5, <2>6, <2>7, <2>8
<1>10. ASSUME NEW c \in Calls, CommitFails(c)
      PROVE  IInv'
  <2> USE <1>10 DEF IInv, CommitFails, Answer, Ack
  <2>o. Onward
    BY DEF TypeOK, Onward, Phases
  <2>0. PaymentId(c) \in PaymentIds
    BY DEF PaymentId, PaymentIds, HasRequest
  <2>1. TypeOK'
    BY <2>0 DEF TypeOK, Phases
  <2>2. HasRequest'
    BY DEF TypeOK, HasRequest
  <2>3. SlotsMatch'
    BY <2>1, <2>o, SlotsKept DEF TypeOK
  <2>4. IndexUnique'
    BY DEF TypeOK, IndexUnique, InTx, Conflict, IndexKey, PaymentId,
              CommitsOver
  <2>5. CommitsOver'
    BY DEF TypeOK, CommitsOver
  <2>6. AckedUnlessCommitFailed'
    BY DEF TypeOK, AckedUnlessCommitFailed, CommitsOver
  <2>7. DupNamesSameKey'
    BY <2>1, <2>o, DupsKept DEF TypeOK
  <2>8. DupOver'
    BY <2>1 DEF TypeOK, DupOver
  <2> QED
    BY <2>1, <2>2, <2>3, <2>4, <2>5, <2>6, <2>7, <2>8
<1>11. ASSUME NEW k \in DedupKeys, Expire(k)
      PROVE  IInv'
  <2> USE <1>11 DEF IInv, Expire, db
  <2>o. Onward
    BY DEF TypeOK, Onward, Phases
  <2>1. TypeOK'
    BY DEF TypeOK, Phases
  <2>2. HasRequest'
    BY DEF TypeOK, HasRequest
  <2>3. SlotsMatch'
    BY <2>1, <2>o, SlotsKept DEF TypeOK
  <2>4. IndexUnique'
    BY DEF TypeOK, IndexUnique, InTx, Conflict, IndexKey, PaymentId,
              CommitsOver
  <2>5. CommitsOver'
    BY DEF TypeOK, CommitsOver
  <2>6. AckedUnlessCommitFailed'
    BY DEF TypeOK, AckedUnlessCommitFailed, CommitsOver
  <2>7. DupNamesSameKey'
    BY <2>1, <2>o, DupsKept DEF TypeOK
  <2>8. DupOver'
    BY <2>1 DEF TypeOK, DupOver
  <2> QED
    BY <2>1, <2>2, <2>3, <2>4, <2>5, <2>6, <2>7, <2>8
<1>12. CASE Crash
  <2> USE <1>12 DEF IInv, Crash, Active
  <2>o. Onward
    BY DEF TypeOK, Onward, Phases
  <2>1. TypeOK'
    BY DEF TypeOK, Phases
  <2>2. HasRequest'
    BY DEF TypeOK, HasRequest
  <2>3. SlotsMatch'
    BY <2>1, <2>o, SlotsKept DEF TypeOK
  <2>4. IndexUnique'
    BY DEF TypeOK, IndexUnique, InTx, Conflict, IndexKey, PaymentId,
              CommitsOver
  <2>5. CommitsOver'
    BY DEF TypeOK, CommitsOver
  <2>6. AckedUnlessCommitFailed'
    BY DEF TypeOK, AckedUnlessCommitFailed, CommitsOver
  <2>7. DupNamesSameKey'
    BY <2>1, <2>o, DupsKept DEF TypeOK
  <2>8. DupOver'
    BY <2>1 DEF TypeOK, DupOver
  <2> QED
    BY <2>1, <2>2, <2>3, <2>4, <2>5, <2>6, <2>7, <2>8
<1>13. CASE UNCHANGED vars
  <2> USE <1>13 DEF IInv, vars
  <2>o. Onward
    BY DEF TypeOK, Onward, Phases
  <2>1. TypeOK'
    BY DEF TypeOK, Phases
  <2>2. HasRequest'
    BY DEF TypeOK, HasRequest
  <2>3. SlotsMatch'
    BY <2>1, <2>o, SlotsKept DEF TypeOK
  <2>4. IndexUnique'
    BY DEF TypeOK, IndexUnique, InTx, Conflict, IndexKey, PaymentId,
              CommitsOver
  <2>5. CommitsOver'
    BY DEF TypeOK, CommitsOver
  <2>6. AckedUnlessCommitFailed'
    BY DEF TypeOK, AckedUnlessCommitFailed, CommitsOver
  <2>7. DupNamesSameKey'
    BY <2>1, <2>o, DupsKept DEF TypeOK
  <2>8. DupOver'
    BY <2>1 DEF TypeOK, DupOver
  <2> QED
    BY <2>1, <2>2, <2>3, <2>4, <2>5, <2>6, <2>7, <2>8
<1> QED
  BY <1>1, <1>2, <1>3, <1>4, <1>5, <1>6, <1>7, <1>8, <1>9, <1>10, <1>11,
     <1>12, <1>13, <1>14 DEF Next, Handler, Step, Failure

\* The invariant holds throughout.
THEOREM Invariance == Spec => []IInv
<1>1. Init => IInv
  BY InitIInv
<1>2. IInv /\ [Next]_vars => IInv'
  BY StepIInv
<1> QED
  BY <1>1, <1>2, PTL DEF Spec

\* TypeOK: every variable keeps its shape through every interleaving of
\* handlers, faults and crashes.
THEOREM TypeCorrect == Spec => []TypeOK
<1>1. IInv => TypeOK
  BY DEF IInv
<1> QED
  BY <1>1, Invariance, PTL

\* SaveWithOutbox under the unique index books a dedup key at most once, for
\* any number of concurrent or retried calls, whatever Redis does.
THEOREM Idempotent == Spec => []NeverDoubleProcess
<1>1. IInv => NeverDoubleProcess
  <2> SUFFICES ASSUME IInv, NEW p \in transactions, NEW q \in transactions,
                      DeriveKey(req[p]) = DeriveKey(req[q])
               PROVE  p = q
    BY DEF NeverDoubleProcess
  <2>1. IndexKey(p) = IndexKey(q)
    BY SameDedupSameIndex DEF IndexKey
  <2> QED
    BY <2>1 DEF IInv, IndexUnique, Conflict
<1> QED
  BY <1>1, Invariance, PTL

\* SubmitPayment acknowledges a payment that is not booked only after a COMMIT
\* that failed; the transactions row and the outbox row stand or fall together.
THEOREM AckSound == Spec => []AckedUnlessCommitFailed
<1>1. IInv => AckedUnlessCommitFailed
  BY DEF IInv
<1> QED
  BY <1>1, Invariance, PTL

\* The id in a deduplicated answer belongs to a call with the same key, and
\* to another call unless Redis was sent the SETNX again: for every pattern of
\* lost answers, resends, expiries and ids that clients choose.
THEOREM DupSound == Spec => []DupNamesSameKey
<1>1. IInv => DupNamesSameKey
  BY DEF IInv
<1> QED
  BY <1>1, Invariance, PTL
=============================================================================
