----------------------------- MODULE RelayProofs -----------------------------
(***************************************************************************)
(* The safety of the outbox relay, for any number of relays, streams, rows *)
(* and faults and any batch size, and that it implements the safety part   *)
(* of the event channel.                                                   *)
(***************************************************************************)
EXTENDS Relay, FiniteSetTheorems, TLAPS

(***************************************************************************)
(* The inductive invariant.  CausalOrder needs to know why a relay may     *)
(* publish the head of its batch: what precedes it is in the batch ahead   *)
(* of it, or has been published.                                           *)
(***************************************************************************)

\* Ids are drawn in order.
IdsInOrder ==
    \A i, j \in Rows : i < j /\ status[j] # "free" => status[i] # "free"

\* before relates a row to smaller committed rows of its stream.
BeforeSound ==
    \A i \in Rows : \A a \in before[i] :
        a \in Visible /\ a < i /\ stream[a] = stream[i]

\* A batch holds committed rows, and with a row all that precedes it and has
\* not been published.
BatchClosed ==
    \A r \in Relays : \A i \in batch[r] :
        /\ i \in Visible
        /\ \A a \in before[i] : a \in batch[r] \/ status[a] = "published"

\* A relay marks a row only when the log has it.
MarkLogged ==
    \A r \in Relays, i \in Rows :
        pc[r] = "mark" /\ IsHead(r, i) => i \in Logged(stream[i])

\* A record is in the log of its own stream.
LogStreams == \A s \in Streams : \A i \in Logged(s) : stream[i] = s

IInv ==
    /\ TypeOK
    /\ IdsInOrder
    /\ BeforeSound
    /\ BatchClosed
    /\ MarkLogged
    /\ LogStreams
    /\ NoLostNoPhantom
    /\ CausalOrder

-----------------------------------------------------------------------------
\* What producing a record does to the logs: its own stream gains it at the
\* end, nothing else changes.
LEMMA ProduceEffect ==
    ASSUME TypeOK, NEW i \in Rows, Produce(i), UNCHANGED stream
    PROVE  /\ log' \in [Streams -> Seq(Rows)]
           /\ \A s \in Streams : s # stream[i] => log'[s] = log[s]
           /\ log'[stream[i]] = Append(log[stream[i]], i)
           /\ Range(log'[stream[i]]) = Range(log[stream[i]]) \cup {i}
<1> DEFINE t == stream[i]
<1>1. t \in Streams /\ log[t] \in Seq(Rows)
  BY DEF TypeOK
<1>2. log' = [log EXCEPT ![t] = Append(log[t], i)]
  BY DEF Produce
<1>3. log'[t] = Append(log[t], i) /\ Append(log[t], i) \in Seq(Rows)
  BY <1>1, <1>2 DEF TypeOK
<1>4. \A s \in Streams : s # t => log'[s] = log[s]
  BY <1>1, <1>2 DEF TypeOK
<1>5. log' \in [Streams -> Seq(Rows)]
  BY <1>1, <1>2, <1>3 DEF TypeOK
<1>6. Range(log'[t]) = Range(log[t]) \cup {i}
  <2>1. DOMAIN Append(log[t], i) = DOMAIN log[t] \cup {Len(log[t]) + 1}
    BY <1>1
  <2>2. \A n \in DOMAIN log[t] : Append(log[t], i)[n] = log[t][n]
    BY <1>1
  <2>3. Append(log[t], i)[Len(log[t]) + 1] = i
    BY <1>1
  <2>4. Range(Append(log[t], i)) = Range(log[t]) \cup {i}
    BY <2>1, <2>2, <2>3 DEF Range
  <2> QED
    BY <1>3, <2>4
<1> QED
  BY <1>1, <1>3, <1>4, <1>5, <1>6

\* The empty outbox satisfies the invariant.
LEMMA InitIInv == Init => IInv
<1> SUFFICES ASSUME Init PROVE IInv
  OBVIOUS
<1> USE RelayAssumption DEF Init
<1>1. TypeOK
  BY DEF TypeOK, Rows
<1>2. IdsInOrder /\ BeforeSound /\ BatchClosed /\ MarkLogged
  BY DEF IdsInOrder, BeforeSound, BatchClosed, MarkLogged
<1>3. \A s \in Streams : Logged(s) = {}
  BY DEF Logged, Range
<1>4. LogStreams /\ NoLostNoPhantom
  BY <1>3 DEF LogStreams, NoLostNoPhantom
<1>5. CausalOrder
  BY DEF CausalOrder
<1> QED
  BY <1>1, <1>2, <1>4, <1>5 DEF IInv

\* Appending the head of a batch keeps the order of first appearances.
LEMMA ProduceKeepsOrder ==
    ASSUME IInv, NEW r \in Relays, NEW i \in Rows, IsHead(r, i),
           Produce(i), UNCHANGED <<stream, before>>
    PROVE  CausalOrder'
<1> DEFINE t == stream[i]
<1>1. \A a \in before[i] : a \in Logged(t)
  <2> SUFFICES ASSUME NEW a \in before[i] PROVE a \in Logged(t)
    OBVIOUS
  <2>1. a \in Rows /\ a < i /\ stream[a] = t
    BY DEF IInv, BeforeSound, Visible
  <2>2. a \notin batch[r]
    BY <2>1 DEF IsHead, Rows
  <2>3. status[a] = "published"
    BY <2>2 DEF IInv, BatchClosed, IsHead
  <2> QED
    BY <2>1, <2>3 DEF IInv, NoLostNoPhantom
<1>2. t \in Streams /\ log[t] \in Seq(Rows)
  BY DEF IInv, TypeOK
<1>3. /\ \A s \in Streams : s # t => log'[s] = log[s]
      /\ log'[t] = Append(log[t], i)
  BY ProduceEffect DEF IInv
<1>4. SUFFICES ASSUME NEW s \in Streams, NEW n \in DOMAIN log'[s],
                      NEW a \in before[log'[s][n]]
               PROVE  \E m \in 1 .. n - 1 : log'[s][m] = a
  BY DEF CausalOrder
<1>5. CASE s # t
  <2>1. log'[s] = log[s]
    BY <1>3, <1>5
  <2>2. n \in DOMAIN log[s] /\ a \in before[log[s][n]]
    BY <2>1
  <2>3. PICK m \in 1 .. n - 1 : log[s][m] = a
    BY <2>2, Zenon DEF IInv, CausalOrder
  <2> QED
    BY <2>1, <2>3
<1>6. CASE s = t /\ n \in DOMAIN log[t]
  <2>1. log'[s][n] = log[t][n]
    BY <1>2, <1>3, <1>6
  <2>0. a \in before[log[t][n]]
    BY <2>1
  <2> HIDE DEF t
  <2>2. PICK m \in 1 .. n - 1 : log[t][m] = a
    BY <1>2, <1>6, <2>0, Zenon DEF IInv, CausalOrder
  <2>3. m \in DOMAIN log[t] /\ Append(log[t], i)[m] = log[t][m]
    BY <1>2, <1>6
  <2> QED
    BY <1>3, <1>6, <2>2, <2>3
<1>7. CASE s = t /\ n \notin DOMAIN log[t]
  <2>1. n = Len(log[t]) + 1 /\ log'[s][n] = i
    BY <1>2, <1>3, <1>7
  <2>2. PICK m \in DOMAIN log[t] : log[t][m] = a
    BY <1>1, <2>1 DEF Logged, Range
  <2>3. m \in 1 .. n - 1 /\ Append(log[t], i)[m] = log[t][m]
    BY <1>2, <2>1
  <2> QED
    BY <1>3, <1>7, <2>2, <2>3
<1> QED
  BY <1>5, <1>6, <1>7

\* A step that adds nothing to the log and keeps the streams keeps the parts
\* of the invariant that are about the log alone.
LEMMA QuietLog ==
    ASSUME IInv, UNCHANGED <<stream, before, log>>
    PROVE  LogStreams' /\ CausalOrder'
BY DEF IInv, LogStreams, CausalOrder, Logged

\* Every step of the specification keeps the invariant.
LEMMA StepIInv == IInv /\ [Next]_vars => IInv'
<1> SUFFICES ASSUME IInv, [Next]_vars PROVE IInv'
  OBVIOUS
<1> USE RelayAssumption
<1>1. ASSUME NEW i \in Rows, Insert(i) PROVE IInv'
  <2> USE <1>1 DEF IInv, Insert
  <2>0. i \notin Visible /\ \A a \in Visible : a < i
    <3>1. i \notin Visible
      BY DEF Visible
    <3>2. ASSUME NEW a \in Visible PROVE a < i
      <4>1. a \in Rows /\ status[a] # "free" /\ a # i
        BY <3>1 DEF Visible
      <4>2. ~(i < a)
        BY <4>1 DEF IdsInOrder
      <4> QED
        BY <4>1, <4>2 DEF Rows
    <3> QED
      BY <3>1, <3>2
  <2>a. IdsInOrder'
    BY DEF TypeOK, IdsInOrder, Rows
  <2>1. TypeOK'
    BY DEF TypeOK, Visible
  <2>2. BeforeSound'
    BY <2>0 DEF TypeOK, BeforeSound, Visible
  <2>3. BatchClosed'
    BY <2>0 DEF TypeOK, BatchClosed, Visible
  <2>4. MarkLogged'
    BY DEF MarkLogged, IsHead, Logged
  <2>b. \A s \in Streams : \A n \in DOMAIN log[s] : log[s][n] # i
    BY <2>0 DEF NoLostNoPhantom, Logged, Range
  <2>c. CausalOrder'
    <3> SUFFICES ASSUME NEW s \in Streams, NEW n \in DOMAIN log'[s],
                        NEW a \in before'[log'[s][n]]
                 PROVE  \E m \in 1 .. n - 1 : log'[s][m] = a
      BY DEF CausalOrder
    <3>0. log' = log /\ n \in DOMAIN log[s]
      OBVIOUS
    <3>1. before'[log[s][n]] = before[log[s][n]]
      BY <2>b, <3>0 DEF TypeOK
    <3>2. a \in before[log[s][n]]
      BY <3>0, <3>1
    <3>3. \E m \in 1 .. n - 1 : log[s][m] = a
      BY <3>0, <3>2, Zenon DEF CausalOrder
    <3> QED
      BY <3>0, <3>3
  <2>5. LogStreams' /\ CausalOrder'
    BY <2>c DEF LogStreams, Logged
  <2>6. NoLostNoPhantom'
    BY <2>0 DEF TypeOK, NoLostNoPhantom, Visible, Logged
  <2> QED
    BY <2>a, <2>1, <2>2, <2>3, <2>4, <2>5, <2>6
<1>2. ASSUME NEW i \in Rows, Commit(i) PROVE IInv'
  <2> USE <1>2 DEF IInv, Commit
  <2>a. IdsInOrder'
    BY DEF TypeOK, IdsInOrder, Rows
  <2>1. TypeOK'
    BY DEF TypeOK
  <2>2. BeforeSound'
    BY DEF TypeOK, BeforeSound, Visible
  <2>3. BatchClosed'
    BY DEF TypeOK, BatchClosed, BeforeSound, Visible
  <2>4. MarkLogged'
    BY DEF MarkLogged, IsHead, Logged
  <2>5. LogStreams' /\ CausalOrder'
    BY QuietLog
  <2>6. NoLostNoPhantom'
    BY DEF TypeOK, NoLostNoPhantom, Visible, Logged
  <2> QED
    BY <2>a, <2>1, <2>2, <2>3, <2>4, <2>5, <2>6
<1>12. ASSUME NEW i \in Rows, Abort(i) PROVE IInv'
  <2> USE <1>12 DEF IInv, Abort
  <2>a. IdsInOrder'
    BY DEF TypeOK, IdsInOrder, Rows
  <2>1. TypeOK'
    BY DEF TypeOK
  <2>2. BeforeSound'
    BY DEF TypeOK, BeforeSound, Visible
  <2>3. BatchClosed'
    BY DEF TypeOK, BatchClosed, BeforeSound, Visible
  <2>4. MarkLogged'
    BY DEF MarkLogged, IsHead, Logged
  <2>5. LogStreams' /\ CausalOrder'
    BY QuietLog
  <2>6. NoLostNoPhantom'
    BY DEF TypeOK, NoLostNoPhantom, Visible, Logged
  <2> QED
    BY <2>a, <2>1, <2>2, <2>3, <2>4, <2>5, <2>6
<1>3. ASSUME NEW r \in Relays, Select(r) PROVE IInv'
  <2> USE DEF IInv
  <2>0. PICK b \in SUBSET Pending :
            FirstRows(b, Pending) /\ batch' = [batch EXCEPT ![r] = b]
    BY <1>3 DEF Select
  <2> USE <1>3, <2>0 DEF Select, writers
  <2>a. IdsInOrder'
    BY DEF TypeOK, IdsInOrder, Rows
  <2>1. TypeOK'
    BY DEF TypeOK, Pending
  <2>2. BeforeSound'
    BY DEF BeforeSound, Visible
  <2>3. BatchClosed'
    <3>1. \A i \in b : i \in Visible
      BY DEF Pending, Visible
    <3>2. \A i \in b : \A a \in before[i] : a \in b \/ status[a] = "published"
      BY DEF FirstRows, BeforeSound, Pending, Visible, Rows
    <3> QED
      BY <3>1, <3>2 DEF TypeOK, BatchClosed, Visible
  <2>4. MarkLogged'
    BY DEF TypeOK, MarkLogged, IsHead, Logged
  <2>5. LogStreams' /\ CausalOrder'
    BY QuietLog
  <2>6. NoLostNoPhantom'
    BY DEF NoLostNoPhantom, Visible, Logged
  <2> QED
    BY <2>a, <2>1, <2>2, <2>3, <2>4, <2>5, <2>6
<1>4. ASSUME NEW r \in Relays, NEW i \in Rows, Publish(r, i) PROVE IInv'
  <2> USE <1>4 DEF IInv, Publish, writers
  <2>0. /\ log' \in [Streams -> Seq(Rows)]
        /\ \A s \in Streams : s # stream[i] => log'[s] = log[s]
        /\ Range(log'[stream[i]]) = Range(log[stream[i]]) \cup {i}
    BY ProduceEffect
  <2>a. IdsInOrder'
    BY DEF TypeOK, IdsInOrder, Rows
  <2>1. TypeOK'
    BY <2>0 DEF TypeOK
  <2>2. BeforeSound'
    BY DEF BeforeSound, Visible
  <2>3. BatchClosed'
    BY DEF BatchClosed, Visible
  <2>4. MarkLogged'
    <3> SUFFICES ASSUME NEW q \in Relays, NEW j \in Rows,
                        pc'[q] = "mark", IsHead(q, j)
                 PROVE  j \in Range(log'[stream[j]])
      BY DEF MarkLogged, IsHead, Logged
    <3>1. CASE q = r
      <4>1. i <= j /\ j <= i
        BY <3>1 DEF IsHead
      <4>2. i = j
        BY <4>1 DEF Rows
      <4> QED
        BY <2>0, <4>2
    <3>2. CASE q # r
      <4>1. j \in Range(log[stream[j]])
        BY <3>2 DEF TypeOK, MarkLogged, Logged
      <4>2. stream[j] \in Streams
        BY DEF TypeOK
      <4> QED
        BY <2>0, <4>1, <4>2
    <3> QED
      BY <3>1, <3>2
  <2>5. LogStreams'
    <3>1. ASSUME NEW s \in Streams, NEW j \in Range(log'[s])
          PROVE  stream[j] = s
      BY <2>0, <3>1 DEF LogStreams, Logged
    <3> QED
      BY <3>1 DEF LogStreams, Logged
  <2>6. CausalOrder'
    BY ProduceKeepsOrder
  <2>7. NoLostNoPhantom'
    <3>1. i \in Visible /\ UNCHANGED Visible
      BY DEF BatchClosed, IsHead, Visible
    <3>2. \A s \in Streams : Range(log'[s]) \subseteq Visible
      BY <2>0, <3>1 DEF NoLostNoPhantom, Logged
    <3>3. ASSUME NEW j \in Rows, status[j] = "published"
          PROVE  j \in Range(log'[stream[j]])
      <4>1. stream[j] \in Streams /\ j \in Range(log[stream[j]])
        BY <3>3 DEF TypeOK, NoLostNoPhantom, Logged
      <4> QED
        BY <2>0, <4>1
    <3> QED
      BY <3>1, <3>2, <3>3 DEF NoLostNoPhantom, Logged
  <2> QED
    BY <2>a, <2>1, <2>2, <2>3, <2>4, <2>5, <2>6, <2>7
<1>5. ASSUME NEW r \in Relays, NEW i \in Rows, Mark(r, i) PROVE IInv'
  <2> USE <1>5 DEF IInv, Mark
  <2>0. i \in Visible /\ i \in Logged(stream[i])
    BY DEF BatchClosed, IsHead, MarkLogged
  <2>a. IdsInOrder'
    BY <2>0 DEF TypeOK, IdsInOrder, Visible
  <2>1. TypeOK'
    BY DEF TypeOK
  <2>2. BeforeSound'
    BY DEF TypeOK, BeforeSound, Visible
  <2>3. BatchClosed'
    BY DEF TypeOK, BatchClosed, Visible
  <2>4. MarkLogged'
    BY DEF TypeOK, MarkLogged, IsHead, Logged
  <2>5. LogStreams' /\ CausalOrder'
    BY QuietLog
  <2>6. NoLostNoPhantom'
    BY <2>0 DEF TypeOK, NoLostNoPhantom, Visible, Logged
  <2> QED
    BY <2>a, <2>1, <2>2, <2>3, <2>4, <2>5, <2>6
<1>6. ASSUME NEW r \in Relays, NEW i \in Rows, PublishFails(r, i) PROVE IInv'
  <2> USE <1>6 DEF IInv, PublishFails, StopBatch, Fault, writers
  <2>0. /\ log' \in [Streams -> Seq(Rows)]
        /\ \A s \in Streams : s # stream[i] => log'[s] = log[s]
        /\ \/ Range(log'[stream[i]]) = Range(log[stream[i]]) \cup {i}
           \/ Range(log'[stream[i]]) = Range(log[stream[i]])
    <3>1. CASE Produce(i)
      BY <3>1, ProduceEffect
    <3>2. CASE UNCHANGED log
      BY <3>2 DEF TypeOK, Logged
    <3> QED
      BY <3>1, <3>2
  <2>a. IdsInOrder'
    BY DEF TypeOK, IdsInOrder, Rows
  <2>1. TypeOK'
    BY <2>0 DEF TypeOK
  <2>2. BeforeSound'
    BY DEF BeforeSound, Visible
  <2>3. BatchClosed'
    BY DEF TypeOK, BatchClosed, Visible
  <2>4. MarkLogged'
    BY <2>0 DEF TypeOK, MarkLogged, IsHead, Logged
  <2>5. LogStreams'
    <3>1. ASSUME NEW s \in Streams, NEW j \in Range(log'[s])
          PROVE  stream[j] = s
      BY <2>0, <3>1 DEF LogStreams, Logged
    <3> QED
      BY <3>1 DEF LogStreams, Logged
  <2>6. CausalOrder'
    BY ProduceKeepsOrder, QuietLog
  <2>7. NoLostNoPhantom'
    <3>1. i \in Visible /\ UNCHANGED Visible
      BY DEF BatchClosed, IsHead, Visible
    <3>2. \A s \in Streams : Range(log'[s]) \subseteq Visible
      BY <2>0, <3>1 DEF NoLostNoPhantom, Logged
    <3>3. ASSUME NEW j \in Rows, status[j] = "published"
          PROVE  j \in Range(log'[stream[j]])
      <4>1. stream[j] \in Streams /\ j \in Range(log[stream[j]])
        BY <3>3 DEF TypeOK, NoLostNoPhantom, Logged
      <4> QED
        BY <2>0, <4>1
    <3> QED
      BY <3>1, <3>2, <3>3 DEF NoLostNoPhantom, Logged
  <2> QED
    BY <2>a, <2>1, <2>2, <2>3, <2>4, <2>5, <2>6, <2>7
<1>7. ASSUME NEW r \in Relays, NEW i \in Rows, MarkFails(r, i) PROVE IInv'
  <2> USE <1>7 DEF IInv, MarkFails, StopBatch, Fault
  <2>0. i \in Visible /\ i \in Logged(stream[i])
    BY DEF BatchClosed, IsHead, MarkLogged
  <2>a. IdsInOrder'
    BY <2>0 DEF TypeOK, IdsInOrder, Visible
  <2>1. TypeOK'
    BY DEF TypeOK
  <2>2. BeforeSound'
    BY DEF TypeOK, BeforeSound, Visible
  <2>3. BatchClosed'
    BY DEF TypeOK, BatchClosed, Visible
  <2>4. MarkLogged'
    BY DEF TypeOK, MarkLogged, IsHead, Logged
  <2>5. LogStreams' /\ CausalOrder'
    BY QuietLog
  <2>6. NoLostNoPhantom'
    BY <2>0 DEF TypeOK, NoLostNoPhantom, Visible, Logged
  <2> QED
    BY <2>a, <2>1, <2>2, <2>3, <2>4, <2>5, <2>6
<1>13. ASSUME NEW r \in Relays, NEW i \in Rows, PublishRefused(r, i) PROVE IInv'
  <2> USE <1>13 DEF IInv, PublishRefused, StopBatch, writers
  <2>1. TypeOK' /\ IdsInOrder'
    BY DEF TypeOK, IdsInOrder
  <2>2. BeforeSound' /\ BatchClosed'
    BY DEF TypeOK, BeforeSound, BatchClosed, Visible
  <2>3. MarkLogged'
    BY DEF TypeOK, MarkLogged, IsHead, Logged
  <2>4. LogStreams' /\ CausalOrder'
    BY QuietLog
  <2>5. NoLostNoPhantom'
    BY DEF NoLostNoPhantom, Visible, Logged
  <2> QED
    BY <2>1, <2>2, <2>3, <2>4, <2>5
<1>8. CASE UNCHANGED vars
  BY <1>8 DEF vars, IInv, TypeOK, BeforeSound, BatchClosed, MarkLogged,
              LogStreams, NoLostNoPhantom, CausalOrder, IdsInOrder,
              Visible, Logged, IsHead
<1> QED
  BY <1>1, <1>2, <1>12, <1>3, <1>4, <1>13, <1>5, <1>6, <1>7, <1>8
     DEF Next, Writer, Step, Failure

\* The invariant holds throughout.
THEOREM Invariance == Spec => []IInv
<1> QED
  BY InitIInv, StepIInv, PTL DEF Spec

\* TypeOK: every variable keeps its shape whatever relays race or fail.
THEOREM TypeCorrect == Spec => []TypeOK
<1>1. IInv => TypeOK
  BY DEF IInv
<1> QED
  BY <1>1, Invariance, PTL

\* relayBatch loses no committed event and invents none: a row is marked
\* published only after Kafka has it, and only committed rows are published.
THEOREM NothingLost == Spec => []NoLostNoPhantom
<1>1. IInv => NoLostNoPhantom
  BY DEF IInv
<1> QED
  BY <1>1, Invariance, PTL

\* Per-account order of first appearances, for any number of relays.
THEOREM Ordered == Spec => []CausalOrder
<1>1. IInv => CausalOrder
  BY DEF IInv
<1> QED
  BY <1>1, Invariance, PTL

-----------------------------------------------------------------------------
(***************************************************************************)
(* Repetitions of one event.  A copy in the log of a row that is not yet   *)
(* marked is one a relay is about to mark or one a fault has cost.  Once   *)
(* the row is marked, every relay that still holds it may add one copy.    *)
(***************************************************************************)
Copies(i) == {n \in DOMAIN log[stream[i]] : log[stream[i]][n] = i}
Marking(i) == {r \in Relays : pc[r] = "mark" /\ IsHead(r, i)}
Stale(i) == {r \in Relays : i \in batch[r] /\ r \notin Marking(i)}

CopiesBound(i) ==
    /\ status[i] # "published" =>
          Cardinality(Copies(i)) <= Cardinality(Marking(i)) + faults
    /\ status[i] = "published" =>
          Cardinality(Copies(i)) + Cardinality(Stale(i))
              <= Cardinality(Relays) + faults

\* A finite set with one more element, and with one fewer.
LEMMA OneMore ==
    ASSUME NEW S, NEW x, IsFiniteSet(S), x \notin S
    PROVE  Cardinality(S \cup {x}) = Cardinality(S) + 1
BY FS_AddElement

LEMMA OneFewer ==
    ASSUME NEW S, NEW x, IsFiniteSet(S)
    PROVE  /\ Cardinality(S \ {x}) \in Nat
           /\ Cardinality(S \ {x}) <= Cardinality(S)
           /\ Cardinality(S) <= Cardinality(S \ {x}) + 1
           /\ x \in S => Cardinality(S \ {x}) = Cardinality(S) - 1
<1>1. /\ IsFiniteSet(S \ {x})
      /\ Cardinality(S \ {x}) = IF x \in S THEN Cardinality(S) - 1
                                           ELSE Cardinality(S)
  BY FS_RemoveElement
<1>2. Cardinality(S) \in Nat /\ Cardinality(S \ {x}) \in Nat
  BY <1>1, FS_CardinalityType
<1> QED
  BY <1>1, <1>2

\* The relays about to mark a row and the others that hold it are different
\* relays.
LEMMA CountedSets ==
    ASSUME TypeOK, NEW i \in Rows
    PROVE  /\ IsFiniteSet(Copies(i)) /\ Cardinality(Copies(i)) \in Nat
           /\ IsFiniteSet(Marking(i)) /\ Cardinality(Marking(i)) \in Nat
           /\ IsFiniteSet(Stale(i)) /\ Cardinality(Stale(i)) \in Nat
           /\ Cardinality(Relays) \in Nat
           /\ Cardinality(Marking(i)) + Cardinality(Stale(i))
                  <= Cardinality(Relays)
<1>1. IsFiniteSet(Relays)
  BY RelayAssumption
<1>2. IsFiniteSet(Copies(i))
  <2>1. log[stream[i]] \in Seq(Rows)
    BY DEF TypeOK
  <2>2. Len(log[stream[i]]) \in Int /\ 1 \in Int
    BY <2>1
  <2>3. Copies(i) \in SUBSET (1 .. Len(log[stream[i]]))
    BY <2>1 DEF Copies
  <2>4. IsFiniteSet(1 .. Len(log[stream[i]]))
    BY <2>2, FS_Interval, Zenon
  <2> QED
    BY <2>3, <2>4, FS_Subset, Zenon
<1>3. /\ Marking(i) \in SUBSET Relays
      /\ Stale(i) \in SUBSET Relays
      /\ Marking(i) \cup Stale(i) \in SUBSET Relays
      /\ Marking(i) \cap Stale(i) = {}
  BY DEF Marking, Stale
<1>4. IsFiniteSet(Marking(i)) /\ IsFiniteSet(Stale(i))
  BY <1>1, <1>3, FS_Subset, Zenon
<1>5. Cardinality(Marking(i) \cup Stale(i)) <= Cardinality(Relays)
  BY <1>1, <1>3, FS_Subset, Zenon
<1>6. Cardinality(Marking(i) \cup Stale(i)) =
          Cardinality(Marking(i)) + Cardinality(Stale(i))
             - Cardinality(Marking(i) \cap Stale(i))
  BY <1>4, FS_Union, Zenon
<1>7. Cardinality(Marking(i) \cap Stale(i)) = 0
  BY <1>3, FS_EmptySet, Zenon
<1>8. /\ Cardinality(Copies(i)) \in Nat /\ Cardinality(Marking(i)) \in Nat
      /\ Cardinality(Stale(i)) \in Nat /\ Cardinality(Relays) \in Nat
  BY <1>1, <1>2, <1>4, FS_CardinalityType, Zenon
<1> QED
  BY <1>2, <1>4, <1>5, <1>6, <1>7, <1>8

\* Producing a row adds one copy of it and none of another.
LEMMA ProduceCopies ==
    ASSUME TypeOK, NEW i \in Rows, NEW j \in Rows, Produce(j), UNCHANGED stream
    PROVE  /\ i = j => Cardinality(Copies(i)') = Cardinality(Copies(i)) + 1
           /\ i # j => Copies(i)' = Copies(i)
<1> DEFINE s == stream[i]
           n == Len(log[s]) + 1
<1>0. s \in Streams /\ log[s] \in Seq(Rows)
  BY DEF TypeOK
<1>1. /\ s # stream[j] => log'[s] = log[s]
      /\ s = stream[j] => log'[s] = Append(log[s], j)
  BY <1>0, ProduceEffect
<1>2. /\ n \notin DOMAIN log[s]
      /\ DOMAIN Append(log[s], j) = DOMAIN log[s] \cup {n}
      /\ \A m \in DOMAIN log[s] : Append(log[s], j)[m] = log[s][m]
      /\ Append(log[s], j)[n] = j
  BY <1>0
<1>3. Copies(i)' = {m \in DOMAIN log'[s] : log'[s][m] = i}
  BY DEF Copies
<1>4. ASSUME i # j PROVE Copies(i)' = Copies(i)
  <2> HIDE DEF n
  <2> QED
    BY <1>1, <1>2, <1>3, <1>4 DEF Copies
<1>5. ASSUME i = j PROVE Cardinality(Copies(i)') = Cardinality(Copies(i)) + 1
  <2> HIDE DEF n
  <2>1. Copies(i)' = Copies(i) \cup {n} /\ n \notin Copies(i)
    BY <1>1, <1>2, <1>3, <1>5 DEF Copies
  <2>2. Cardinality(Copies(i) \cup {n}) = Cardinality(Copies(i)) + 1
    BY <2>1, OneMore, CountedSets, Zenon
  <2> QED
    BY <2>1, <2>2
<1> QED
  BY <1>4, <1>5

\* The relay at a row does not hold another row at the head of its batch.
LEMMA OneHead ==
    ASSUME NEW r \in Relays, NEW i \in Rows, NEW j \in Rows,
           IsHead(r, i), IsHead(r, j)
    PROVE  i = j
BY DEF IsHead, Rows

\* A relay that drops its batch holds no row any more.
LEMMA StopCopies ==
    ASSUME TypeOK, NEW r \in Relays, StopBatch(r), NEW i \in Rows
    PROVE  /\ Marking(i)' = Marking(i) \ {r}
           /\ Stale(i)' = Stale(i) \ {r}
<1>1. \A q \in Relays \ {r} : pc'[q] = pc[q] /\ batch'[q] = batch[q]
  BY DEF StopBatch, TypeOK
<1>2. pc'[r] = "idle" /\ batch'[r] = {}
  BY DEF StopBatch, TypeOK
<1> QED
  BY <1>1, <1>2 DEF Marking, Stale, IsHead

\* Every step keeps the bound.
LEMMA StepCopies ==
    ASSUME TypeOK, TypeOK', [Next]_vars, NEW i \in Rows, CopiesBound(i)
    PROVE  CopiesBound(i)'
<1> DEFINE c == Cardinality(Copies(i))
           m == Cardinality(Marking(i))
           s == Cardinality(Stale(i))
           R == Cardinality(Relays)
<1>0. c \in Nat /\ m \in Nat /\ s \in Nat /\ R \in Nat /\ m + s <= R
  BY CountedSets
<1>f. faults \in Nat /\ faults' \in Nat
  BY RelayAssumption DEF TypeOK
<1>g. /\ status[i] # "published" => c <= m + faults
      /\ status[i] = "published" => c + s <= R + faults
  BY DEF CopiesBound
<1>h. SUFFICES /\ status'[i] # "published" => c' <= m' + faults'
               /\ status'[i] = "published" => c' + s' <= R + faults'
  BY DEF CopiesBound
<1>s. ASSUME UNCHANGED <<stream, log, pc, batch>>
      PROVE  c' = c /\ m' = m /\ s' = s
  BY <1>s DEF Copies, Marking, Stale, IsHead
<1>d. ASSUME NEW r \in Relays, StopBatch(r)
      PROVE  \E x, y \in Nat :
                /\ m' = x /\ m <= x + 1 /\ (pc[r] # "mark" => x = m)
                /\ s' = y /\ y <= s
  <2>1. Marking(i)' = Marking(i) \ {r} /\ Stale(i)' = Stale(i) \ {r}
    BY <1>d, StopCopies
  <2>2. pc[r] # "mark" => Marking(i)' = Marking(i)
    BY <2>1 DEF Marking
  <2>3. /\ Cardinality(Marking(i) \ {r}) \in Nat
        /\ m <= Cardinality(Marking(i) \ {r}) + 1
        /\ Cardinality(Stale(i) \ {r}) \in Nat
        /\ Cardinality(Stale(i) \ {r}) <= s
    BY OneFewer, CountedSets, Zenon
  <2> USE <2>3
  <2> WITNESS Cardinality(Marking(i) \ {r}) \in Nat,
              Cardinality(Stale(i) \ {r}) \in Nat
  <2> QED
    BY <2>1, <2>2, <2>3
<1> HIDE DEF c, m, s, R
<1>1. CASE \E j \in Rows : Writer(j)
  <2>1. UNCHANGED <<stream, log, pc, batch, faults>>
    BY <1>1 DEF Writer, Insert, Commit, Abort
  <2>2. status'[i] = "published" <=> status[i] = "published"
    BY <1>1 DEF Writer, Insert, Commit, Abort, TypeOK
  <2> QED
    BY <1>0, <1>f, <1>g, <1>s, <2>1, <2>2
<1>2. CASE \E r \in Relays : Select(r)
  <2>0. PICK r \in Relays : Select(r)
    BY <1>2
  <2>1. PICK b \in SUBSET Pending : batch' = [batch EXCEPT ![r] = b]
    BY <2>0 DEF Select
  <2>2. /\ pc[r] = "idle" /\ pc'[r] = "publish" /\ batch'[r] = b
        /\ \A q \in Relays \ {r} : pc'[q] = pc[q] /\ batch'[q] = batch[q]
        /\ UNCHANGED <<status, stream, log, faults>>
    BY <2>0, <2>1 DEF Select, writers, TypeOK
  <2>3. c' = c
    BY <2>2 DEF c, Copies
  <2>4. m' = m
    <3>1. Marking(i)' = Marking(i)
      BY <2>2 DEF Marking, IsHead
    <3> QED
      BY <3>1 DEF m
  <2>5. status[i] = "published" => s' \in Nat /\ s' <= s
    <3> SUFFICES ASSUME status[i] = "published" PROVE s' \in Nat /\ s' <= s
      OBVIOUS
    <3>1. Stale(i)' = Stale(i) \ {r}
      BY <2>1, <2>2 DEF Stale, Marking, IsHead, Pending
    <3>2. /\ Cardinality(Stale(i) \ {r}) \in Nat
          /\ Cardinality(Stale(i) \ {r}) <= Cardinality(Stale(i))
      BY OneFewer, CountedSets, Zenon
    <3> QED
      BY <3>1, <3>2 DEF s
  <2> QED
    BY <1>0, <1>f, <1>g, <2>2, <2>3, <2>4, <2>5
<1>3. CASE \E r \in Relays, j \in Rows : Publish(r, j)
  <2>0. PICK r \in Relays, j \in Rows : Publish(r, j)
    BY <1>3
  <2>1. /\ pc[r] = "publish" /\ pc'[r] = "mark" /\ IsHead(r, j)
        /\ \A q \in Relays \ {r} : pc'[q] = pc[q]
        /\ UNCHANGED <<status, stream, batch, faults>>
        /\ Produce(j)
    BY <2>0 DEF Publish, writers, TypeOK
  <2>2. CASE i # j
    <3>1. c' = c
      BY <2>1, <2>2, ProduceCopies DEF c
    <3>2. ~IsHead(r, i)
      BY <2>1, <2>2, OneHead
    <3>3. Marking(i)' = Marking(i) /\ Stale(i)' = Stale(i)
      BY <2>1, <3>2 DEF Marking, Stale, IsHead
    <3>4. m' = m /\ s' = s
      BY <3>3 DEF m, s
    <3> QED
      BY <1>g, <2>1, <3>1, <3>4
  <2>3. CASE i = j
    <3>1. c' = c + 1
      BY <2>1, <2>3, ProduceCopies DEF c
    <3>2. /\ Marking(i)' = Marking(i) \cup {r} /\ r \notin Marking(i)
          /\ Stale(i)' = Stale(i) \ {r} /\ r \in Stale(i)
      BY <2>1, <2>3 DEF Marking, Stale, IsHead
    <3>3. /\ Cardinality(Marking(i) \cup {r}) = Cardinality(Marking(i)) + 1
          /\ Cardinality(Stale(i) \ {r}) = Cardinality(Stale(i)) - 1
      BY <3>2, OneMore, OneFewer, CountedSets, Zenon
    <3>4. m' = m + 1 /\ s' = s - 1
      BY <3>2, <3>3 DEF m, s
    <3> QED
      BY <1>0, <1>f, <1>g, <2>1, <3>1, <3>4
  <2> QED
    BY <2>2, <2>3
<1>4. CASE \E r \in Relays, j \in Rows : Mark(r, j)
  <2>0. PICK r \in Relays, j \in Rows : Mark(r, j)
    BY <1>4
  <2>1. /\ pc[r] = "mark" /\ pc'[r] # "mark" /\ IsHead(r, j)
        /\ batch'[r] = batch[r] \ {j}
        /\ \A q \in Relays \ {r} : pc'[q] = pc[q] /\ batch'[q] = batch[q]
        /\ status'[j] = "published"
        /\ i # j => status'[i] = status[i]
        /\ UNCHANGED <<stream, log, faults>>
    BY <2>0 DEF Mark, TypeOK
  <2>2. c' = c
    BY <2>1 DEF c, Copies
  <2>3. CASE i # j
    <3>1. ~IsHead(r, i)
      BY <2>1, <2>3, OneHead
    <3>2. Marking(i)' = Marking(i) /\ Stale(i)' = Stale(i)
      BY <2>1, <2>3, <3>1 DEF Marking, Stale, IsHead
    <3>3. m' = m /\ s' = s
      BY <3>2 DEF m, s
    <3> QED
      BY <1>g, <2>1, <2>2, <2>3, <3>3
  <2>4. CASE i = j
    <3>1. Stale(i)' = Stale(i)
      BY <2>1, <2>4 DEF Marking, Stale, IsHead
    <3>2. s' = s
      BY <3>1 DEF s
    <3> QED
      BY <1>0, <1>f, <1>g, <2>1, <2>2, <2>4, <3>2
  <2> QED
    BY <2>3, <2>4
<1>5. CASE \E r \in Relays, j \in Rows : PublishRefused(r, j)
  <2>0. PICK r \in Relays, j \in Rows : PublishRefused(r, j)
    BY <1>5
  <2>1. pc[r] = "publish" /\ StopBatch(r)
    BY <2>0 DEF PublishRefused
  <2>a. UNCHANGED <<status, stream, log, faults>>
    BY <2>0 DEF PublishRefused, writers
  <2>2. c' = c
    BY <2>a DEF c, Copies
  <2>3. PICK y \in Nat : m' = m /\ s' = y /\ y <= s
    BY <1>d, <2>1 DEF StopBatch
  <2>4. CASE status'[i] # "published"
    BY <1>0, <1>f, <1>g, <2>a, <2>2, <2>3, <2>4
  <2>5. CASE status'[i] = "published"
    BY <1>0, <1>f, <1>g, <2>a, <2>2, <2>3, <2>5
  <2> QED
    BY <2>4, <2>5
<1>6. CASE \E r \in Relays, j \in Rows : PublishFails(r, j)
  <2>0. PICK r \in Relays, j \in Rows : PublishFails(r, j)
    BY <1>6
  <2>1. /\ pc[r] = "publish" /\ StopBatch(r) /\ faults' = faults + 1
        /\ UNCHANGED <<status, stream>>
        /\ Produce(j) \/ UNCHANGED log
    BY <2>0 DEF PublishFails, Fault, writers
  <2>2. c' = c \/ c' = c + 1
    <3>1. CASE Produce(j)
      BY <2>1, <3>1, ProduceCopies DEF c
    <3>2. CASE UNCHANGED log
      BY <2>1, <3>2 DEF c, Copies
    <3> QED
      BY <2>1, <3>1, <3>2
  <2>3. PICK y \in Nat : m' = m /\ s' = y /\ y <= s
    BY <1>d, <2>1 DEF StopBatch
  <2> QED
    BY <1>0, <1>f, <1>g, <2>1, <2>2, <2>3
<1>7. CASE \E r \in Relays, j \in Rows : MarkFails(r, j)
  <2>0. PICK r \in Relays, j \in Rows : MarkFails(r, j)
    BY <1>7
  <2>1. StopBatch(r)
    BY <2>0 DEF MarkFails
  <2>a. /\ faults' = faults + 1
        /\ status'[i] = status[i] \/ status'[i] = "published"
    BY <2>0 DEF MarkFails, Fault, TypeOK
  <2>2. c' = c
    BY <2>0 DEF MarkFails, c, Copies
  <2>3. PICK x, y \in Nat : m' = x /\ m <= x + 1 /\ s' = y /\ y <= s
    BY <1>d, <2>1 DEF StopBatch
  <2>4. CASE status'[i] # "published"
    BY <1>0, <1>f, <1>g, <2>a, <2>2, <2>3, <2>4
  <2>5. CASE status'[i] = "published"
    BY <1>0, <1>f, <1>g, <2>a, <2>2, <2>3, <2>5
  <2> QED
    BY <2>4, <2>5
<1>8. CASE UNCHANGED vars
  BY <1>g, <1>s, <1>8 DEF vars
<1> QED
  BY <1>1, <1>2, <1>3, <1>4, <1>5, <1>6, <1>7, <1>8
     DEF Next, Step, Failure

\* The empty log has no copies.
LEMMA InitCopies == Init => \A i \in Rows : CopiesBound(i)
<1> SUFFICES ASSUME Init, NEW i \in Rows PROVE CopiesBound(i)
  OBVIOUS
<1>1. TypeOK
  BY InitIInv DEF IInv
<1>2. Copies(i) = {} /\ status[i] # "published" /\ faults = 0
  BY <1>1 DEF Init, Copies, TypeOK
<1>3. Cardinality(Copies(i)) = 0
  BY <1>2, FS_EmptySet, Zenon
<1>4. Cardinality(Marking(i)) \in Nat
  BY <1>1, CountedSets
<1> QED
  BY <1>2, <1>3, <1>4 DEF CopiesBound

\* A consumer sees an event once, once more for each other relay that had read
\* it, and once more for each fault, for any number of relays and faults.
THEOREM RepeatsBounded == Spec => []RepeatsHaveCause
<1> DEFINE Bounds == \A i \in Rows : CopiesBound(i)
<1>1. Init => Bounds
  BY InitCopies
<1>2. IInv /\ IInv' /\ Bounds /\ [Next]_vars => Bounds'
  <2> SUFFICES ASSUME IInv, IInv', Bounds, [Next]_vars, NEW i \in Rows
               PROVE  CopiesBound(i)'
    OBVIOUS
  <2> QED
    BY StepCopies DEF IInv
<1>3. IInv /\ Bounds => RepeatsHaveCause
  <2> SUFFICES ASSUME IInv, Bounds, NEW i \in Rows
               PROVE  Cardinality(Copies(i)) <= Cardinality(Relays) + faults
    BY DEF RepeatsHaveCause, Copies
  <2>1. TypeOK /\ CopiesBound(i) /\ faults \in Nat
    BY RelayAssumption DEF IInv, TypeOK
  <2>2. /\ Cardinality(Copies(i)) \in Nat /\ Cardinality(Marking(i)) \in Nat
        /\ Cardinality(Stale(i)) \in Nat /\ Cardinality(Relays) \in Nat
        /\ Cardinality(Marking(i)) + Cardinality(Stale(i))
               <= Cardinality(Relays)
    BY <2>1, CountedSets
  <2> QED
    BY <2>1, <2>2 DEF CopiesBound
<1> HIDE DEF Bounds
<1> QED
  BY <1>1, <1>2, <1>3, Invariance, PTL DEF Spec

-----------------------------------------------------------------------------
(***************************************************************************)
(* The refinement.                                                         *)
(***************************************************************************)

\* The empty outbox is the empty channel.
LEMMA InitRefines == Init => Channel!Init
<1> SUFFICES ASSUME Init PROVE Channel!Init
  OBVIOUS
<1>1. UNION {Logged(s) : s \in Streams} = {}
  BY DEF Init, Logged, Range
<1> QED
  BY <1>1, RelayAssumption DEF Init, Channel!Init, Visible, Rows

\* Producing the head of a batch is a delivery of the channel.
LEMMA ProduceDelivers ==
    ASSUME IInv, NEW r \in Relays, NEW i \in Rows, IsHead(r, i),
           i \notin oversized, Produce(i), UNCHANGED writers
    PROVE  Channel!Deliver(i)
<1>1. i \in Visible /\ before[i] \subseteq Logged(stream[i])
  <2>1. i \in Visible
    BY DEF IInv, BatchClosed, IsHead
  <2>2. ASSUME NEW a \in before[i] PROVE a \in Logged(stream[i])
    <3>1. a \in Rows /\ a < i /\ stream[a] = stream[i]
      BY DEF IInv, BeforeSound, Visible
    <3>2. a \notin batch[r]
      BY <3>1 DEF IsHead, Rows
    <3>3. status[a] = "published"
      BY <3>2 DEF IInv, BatchClosed, IsHead
    <3> QED
      BY <3>1, <3>3 DEF IInv, NoLostNoPhantom
  <2> QED
    BY <2>1, <2>2
<1> USE DEF writers
<1>2. stream[i] \in Streams
  BY DEF IInv, TypeOK
<1>3. /\ \A s \in Streams : s # stream[i] => log'[s] = log[s]
      /\ Range(log'[stream[i]]) = Range(log[stream[i]]) \cup {i}
  BY ProduceEffect DEF IInv
<1>4. ASSUME NEW x
      PROVE  (\E s \in Streams : x \in Range(log'[s])) <=>
             (\E s \in Streams : x \in Range(log[s])) \/ x = i
  BY <1>2, <1>3
<1>5. UNION {Range(log'[s]) : s \in Streams} =
      (UNION {Range(log[s]) : s \in Streams}) \cup {i}
  <2>1. ASSUME NEW x
        PROVE  x \in UNION {Range(log'[s]) : s \in Streams} <=>
               x \in (UNION {Range(log[s]) : s \in Streams}) \cup {i}
    <3>1. x \in UNION {Range(log'[s]) : s \in Streams} <=>
          \E s \in Streams : x \in Range(log'[s])
      OBVIOUS
    <3>2. x \in UNION {Range(log[s]) : s \in Streams} <=>
          \E s \in Streams : x \in Range(log[s])
      OBVIOUS
    <3> QED
      BY <1>4, <3>1, <3>2, Zenon
  <2> QED
    BY <2>1, Zenon
<1>6. before[i] \subseteq UNION {Logged(s) : s \in Streams}
  BY <1>1, <1>2
<1>7. UNCHANGED <<before, Visible, {j \in Rows : status[j] = "published"}>>
  BY DEF Visible
<1>8. (UNION {Logged(s) : s \in Streams})' =
      (UNION {Logged(s) : s \in Streams}) \cup {i}
  BY <1>5 DEF Logged
<1> QED
  BY <1>1, <1>6, <1>7, <1>8 DEF Channel!Deliver

\* Every step is a step of the channel or leaves it as it was.
LEMMA StepRefines ==
    IInv /\ [Next]_vars => [Channel!Next]_(Channel!vars)
<1> SUFFICES ASSUME IInv, [Next]_vars
             PROVE  Channel!Next \/ UNCHANGED Channel!vars
  BY DEF Channel!vars
<1> USE DEF Channel!Next, Channel!vars
<1>1. ASSUME UNCHANGED log
      PROVE  UNCHANGED UNION {Logged(s) : s \in Streams}
  BY <1>1 DEF Logged
<1>2. ASSUME NEW i \in Rows, Insert(i) PROVE Channel!Begin(i)
  <2>1. i \notin Visible /\ UNCHANGED Visible
        /\ UNCHANGED {j \in Rows : status[j] = "published"}
    BY <1>2 DEF IInv, TypeOK, Insert, Visible
  <2> QED
    BY <1>1, <1>2, <2>1 DEF Insert, Channel!Begin
<1>3. ASSUME NEW i \in Rows, Commit(i) PROVE Channel!Accept(i)
  <2>1. Visible' = Visible \cup {i}
        /\ UNCHANGED {j \in Rows : status[j] = "published"}
    BY <1>3 DEF IInv, TypeOK, Commit, Visible
  <2> QED
    BY <1>1, <1>3, <2>1 DEF Commit, Channel!Accept
<1>4. ASSUME NEW i \in Rows, Abort(i) PROVE UNCHANGED Channel!vars
  <2>1. UNCHANGED Visible
        /\ UNCHANGED {j \in Rows : status[j] = "published"}
    BY <1>4 DEF IInv, TypeOK, Abort, Visible
  <2> QED
    BY <1>1, <1>4, <2>1 DEF Abort
<1>5. ASSUME NEW r \in Relays, Select(r) PROVE UNCHANGED Channel!vars
  BY <1>1, <1>5 DEF Select, writers, Visible
<1>6. ASSUME NEW r \in Relays, NEW i \in Rows, Publish(r, i)
      PROVE  Channel!Deliver(i)
  BY <1>6, ProduceDelivers DEF Publish
<1>12. ASSUME NEW r \in Relays, NEW i \in Rows, PublishRefused(r, i)
       PROVE  UNCHANGED Channel!vars
  BY <1>1, <1>12 DEF PublishRefused, writers, Visible
<1>7. ASSUME NEW r \in Relays, NEW i \in Rows, pc[r] = "mark", IsHead(r, i),
             status' = [status EXCEPT ![i] = "published"],
             UNCHANGED <<oversized, before, log>>
      PROVE  Channel!Close(i)
  <2>1. i \in Visible /\ i \in UNION {Logged(s) : s \in Streams}
    BY <1>7 DEF IInv, TypeOK, BatchClosed, MarkLogged, IsHead
  <2>2. UNCHANGED Visible
        /\ {j \in Rows : status'[j] = "published"} =
               {j \in Rows : status[j] = "published"} \cup {i}
    BY <1>7, <2>1 DEF IInv, TypeOK, Visible
  <2> QED
    BY <1>1, <1>7, <2>1, <2>2 DEF Channel!Close
<1>8. ASSUME NEW r \in Relays, NEW i \in Rows, Mark(r, i)
      PROVE  Channel!Close(i)
  BY <1>7, <1>8 DEF Mark
<1>9. ASSUME NEW r \in Relays, NEW i \in Rows, PublishFails(r, i)
      PROVE  Channel!Deliver(i) \/ UNCHANGED Channel!vars
  <2>1. CASE i \notin oversized /\ Produce(i)
    BY <1>9, <2>1, ProduceDelivers DEF PublishFails
  <2>2. CASE UNCHANGED log
    BY <1>1, <1>9, <2>2 DEF PublishFails, writers, Visible
  <2> QED
    BY <1>9, <2>1, <2>2 DEF PublishFails
<1>10. ASSUME NEW r \in Relays, NEW i \in Rows, MarkFails(r, i)
       PROVE  Channel!Close(i) \/ UNCHANGED Channel!vars
  <2>1. CASE status' = [status EXCEPT ![i] = "published"]
    BY <1>7, <1>10, <2>1 DEF MarkFails
  <2>2. CASE UNCHANGED status
    BY <1>1, <1>10, <2>2 DEF MarkFails, Visible
  <2> QED
    BY <1>10, <2>1, <2>2 DEF MarkFails
<1>11. CASE UNCHANGED vars
  BY <1>1, <1>11 DEF vars, Visible
<1> QED
  BY <1>2, <1>3, <1>4, <1>5, <1>6, <1>12, <1>8, <1>9, <1>10, <1>11
     DEF Next, Writer, Step, Failure

\* The outbox with its relays implements the channel's safety: at-least-once
\* bookkeeping, no invented event and causal order, for every parameter.
THEOREM Refines == Spec => Channel!Init /\ [][Channel!Next]_(Channel!vars)
<1> QED
  BY InitRefines, Invariance, StepRefines, PTL DEF Spec
=============================================================================
