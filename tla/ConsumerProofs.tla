--------------------------- MODULE ConsumerProofs ---------------------------
(***************************************************************************)
(* The safety of the consumer loop, for any group, any log and any number  *)
(* of attempts and faults.                                                 *)
(***************************************************************************)
EXTENDS Consumer, TLAPS

-----------------------------------------------------------------------------
(***************************************************************************)
(* The inductive invariant.                                                *)
(***************************************************************************)
Busy == {"handle", "dlq", "commit"}
Done == handled \cup dlq

\* Every record before offset n is done.
DoneBefore(n) == \A o \in Offsets : o < n => o \in Done

\* A member gets to a record when those before it are done, and commits it
\* when it is done itself.
Reached ==
    \A m \in Members :
        /\ pc[m] \in Busy => DoneBefore(pos[m])
        /\ pc[m] = "commit" => pos[m] \in Done

\* What the next poll leaves out is done, or is still in the member's hands.
FetchSound ==
    \A m \in Members : \A o \in Offsets :
        o < fetch[m] =>
            \/ o \in Done
            \/ pc[m] \in Busy /\ pos[m] <= o /\ o < end[m]

Inv ==
    /\ TypeOK
    /\ NoRecordSkipped
    /\ InOrder
    /\ Reached
    /\ FetchSound

-----------------------------------------------------------------------------
\* The length of the log is a natural number, and so offsets are.
LEMMA LogLength == Len(Log) \in Nat
BY ConsumerAssumption

\* The bounds of the specification are natural numbers.
LEMMA Bounds == MaxAttempts \in Nat /\ 1 <= MaxAttempts /\ MaxFaults \in Nat
BY ConsumerAssumption

\* A batch of records puts its member at an offset of the log.
LEMMA BusyOffset ==
    ASSUME TypeOK, NEW m \in Members, pc[m] \in Busy
    PROVE  pos[m] \in Offsets
BY LogLength DEF TypeOK, Busy, Offsets

\* Nothing has been handled, fetched or committed yet.
LEMMA InitInv == Init => Inv
BY LogLength, ConsumerAssumption
   DEF Init, Inv, TypeOK, NoRecordSkipped, InOrder, Reached, FetchSound, Busy,
       Done, DoneBefore, Offsets

\* Every step keeps the types.
LEMMA StepType == TypeOK /\ [Next]_vars => TypeOK'
<1> SUFFICES ASSUME TypeOK, [Next]_vars PROVE TypeOK'
  OBVIOUS
<1> USE LogLength, Bounds DEF TypeOK, Goto, cursor, Offsets
<1>1. ASSUME NEW m \in Members, Assign(m) PROVE TypeOK'
  <2>1. faults' \in 0 .. MaxFaults
    BY <1>1 DEF Assign, Fault
  <2> QED
    BY <1>1, <2>1 DEF Assign
<1>2. ASSUME NEW m \in Members, Restart(m) PROVE TypeOK'
  BY <1>2 DEF Restart
<1>3. ASSUME NEW m \in Members, PollFetches(m) PROVE TypeOK'
  BY <1>3 DEF PollFetches
<1>4. ASSUME NEW m \in Members, Handle(m) \/ HandleRejects(m) \/ PublishToDLQ(m)
      PROVE  TypeOK'
  <2>1. handled' \subseteq Offsets /\ dlq' \subseteq Offsets
    BY <1>4, BusyOffset DEF Handle, HandleRejects, PublishToDLQ, Busy
  <2>2. /\ pc[m] \in Busy
        /\ pc' \in [Members -> {"poll", "handle", "dlq", "commit", "down"}]
        /\ \A k \in Members : k # m => pc'[k] = pc[k]
        /\ UNCHANGED <<owner, fetch, pos, end, attempt, committed, faults>>
    BY <1>4 DEF Handle, HandleRejects, PublishToDLQ, Busy
  <2> QED
    BY <2>1, <2>2 DEF Busy
<1>5. ASSUME NEW m \in Members, HandleFails(m) PROVE TypeOK'
  <2>1. faults' \in 0 .. MaxFaults
    BY <1>5 DEF HandleFails, Fault
  <2>2. attempt' \in [Members -> 0 .. MaxAttempts]
    <3>1. CASE attempt[m] < MaxAttempts
      <4>1. attempt[m] + 1 \in 0 .. MaxAttempts
        BY <3>1
      <4>2. attempt' = [attempt EXCEPT ![m] = attempt[m] + 1]
        BY <1>5, <3>1 DEF HandleFails
      <4> QED
        BY <4>1, <4>2
    <3>2. CASE ~(attempt[m] < MaxAttempts)
      BY <1>5, <3>2 DEF HandleFails
    <3> QED
      BY <3>1, <3>2
  <2>3. /\ pc[m] \in Busy
        /\ pc' \in [Members -> {"poll", "handle", "dlq", "commit", "down"}]
        /\ \A k \in Members : k # m => pc'[k] = pc[k]
        /\ UNCHANGED <<owner, fetch, pos, end, committed, handled, dlq>>
    BY <1>5 DEF HandleFails, Busy
  <2> QED
    BY <2>1, <2>2, <2>3 DEF Busy
<1>6. ASSUME NEW m \in Members, CommitRecords(m) PROVE TypeOK'
  <2>1. /\ pos[m] < end[m] /\ pos[m] + 1 \in 1 .. Len(Log) + 1
        /\ committed' = pos[m] + 1
        /\ pos' = [pos EXCEPT ![m] = pos[m] + 1]
        /\ attempt' = [attempt EXCEPT ![m] = 1]
        /\ pc' = [pc EXCEPT ![m] = IF pos[m] + 1 < end[m] THEN "handle" ELSE "poll"]
        /\ UNCHANGED <<owner, fetch, end, handled, dlq, faults>>
    BY <1>6 DEF CommitRecords
  <2>2. /\ attempt' \in [Members -> 0 .. MaxAttempts]
        /\ pos' \in [Members -> 1 .. Len(Log) + 1]
        /\ pc' \in [Members -> {"poll", "handle", "dlq", "commit", "down"}]
    BY <2>1
  <2>3. \A k \in Members :
            pc'[k] \in {"handle", "dlq", "commit"} => pos'[k] < end[k]
    BY <2>1
  <2> QED
    BY <2>1, <2>2, <2>3
<1>7. ASSUME NEW m \in Members, Exit(m),
             committed' \in 1 .. Len(Log) + 1, handled' \subseteq Offsets,
             dlq' \subseteq Offsets, faults' \in 0 .. MaxFaults
      PROVE  TypeOK'
  BY <1>7 DEF Exit
<1>8. ASSUME NEW m \in Members,
             MarshalFails(m) \/ PublishFails(m) \/ CommitFails(m) \/ Crash(m)
      PROVE  TypeOK'
  <2>1. Exit(m) /\ faults' \in 0 .. MaxFaults
    BY <1>8 DEF MarshalFails, PublishFails, CommitFails, Crash, Fault
  <2>2. committed' \in 1 .. Len(Log) + 1
    BY <1>8 DEF MarshalFails, PublishFails, CommitFails, Crash
  <2>3. handled' \subseteq Offsets /\ dlq' \subseteq Offsets
    BY <1>8, BusyOffset DEF MarshalFails, PublishFails, CommitFails, Crash, Busy
  <2> QED
    BY <1>7, <2>1, <2>2, <2>3
<1>9. CASE UNCHANGED vars
  BY <1>9 DEF vars
<1> QED
  BY <1>1, <1>2, <1>3, <1>4, <1>5, <1>6, <1>8, <1>9
     DEF Next, Step, Environment

\* Records are only ever added to those that are done, one at a time and
\* behind others that are done; the group's offset stays behind them.
LEMMA DoneKeeps ==
    ASSUME Inv, TypeOK', NEW m \in Members,
           Done' = Done \/ (pc[m] \in Busy /\ Done' = Done \cup {pos[m]}),
           \/ committed' = committed
           \/ pc[m] = "commit" /\ committed' = pos[m] + 1
    PROVE  NoRecordSkipped' /\ InOrder'
<1> USE LogLength DEF Inv
<1>1. pc[m] \in Busy => pos[m] \in Offsets /\ DoneBefore(pos[m])
  BY BusyOffset DEF Reached
<1>2. Done \subseteq Done'
  OBVIOUS
<1>3. NoRecordSkipped'
  <2> SUFFICES ASSUME NEW o \in Offsets, o < committed' PROVE o \in Done'
    BY DEF NoRecordSkipped, Done
  <2>1. CASE committed' = committed
    BY <1>2, <2>1 DEF NoRecordSkipped, Done
  <2>2. CASE pc[m] = "commit" /\ committed' = pos[m] + 1
    <3>1. o < pos[m] \/ o = pos[m]
      BY <1>1, <2>2 DEF Offsets, Busy
    <3>2. pc[m] \in Busy /\ pos[m] \in Done
      BY <2>2 DEF Reached, Busy
    <3> QED
      BY <1>1, <1>2, <3>1, <3>2 DEF DoneBefore
  <2> QED
    BY <2>1, <2>2
<1>4. InOrder'
  <2> SUFFICES ASSUME NEW o \in Done', NEW q \in 1 .. o PROVE q \in Done'
    BY DEF InOrder, Done
  <2>1. CASE o \in Done
    BY <1>2, <2>1 DEF InOrder, Done
  <2>2. CASE pc[m] \in Busy /\ o = pos[m]
    <3>1. o \in Offsets /\ q \in Offsets
      BY <1>1, <2>2 DEF Offsets
    <3>2. q = o \/ q < pos[m]
      BY <2>2, <3>1 DEF Offsets
    <3> QED
      BY <1>1, <1>2, <2>2, <3>1, <3>2 DEF DoneBefore
  <2> QED
    BY <2>1, <2>2
<1> QED
  BY <1>3, <1>4

\* Every step but that of m leaves the other members where they are.
LEMMA OthersKeep ==
    ASSUME Inv, NEW m \in Members, Done \subseteq Done',
           \A k \in Members : k # m =>
               /\ pc'[k] = pc[k] /\ pos'[k] = pos[k]
               /\ end'[k] = end[k] /\ fetch'[k] = fetch[k],
           pc'[m] \in Busy => DoneBefore(pos[m])',
           pc'[m] = "commit" => pos'[m] \in Done',
           \A o \in Offsets :
               o < fetch'[m] =>
                   \/ o \in Done'
                   \/ pc'[m] \in Busy /\ pos'[m] <= o /\ o < end'[m]
    PROVE  Reached' /\ FetchSound'
<1>1. Reached'
  BY DEF Inv, Reached, DoneBefore
<1>2. FetchSound'
  BY DEF Inv, FetchSound
<1> QED
  BY <1>1, <1>2

\* A member that exits has nothing in its hands and nothing left out.
LEMMA ExitKeeps ==
    ASSUME Inv, NEW m \in Members, Exit(m), Done \subseteq Done'
    PROVE  Reached' /\ FetchSound'
<1>1. /\ pc'[m] = "down" /\ fetch'[m] = 1
      /\ \A k \in Members : k # m =>
             /\ pc'[k] = pc[k] /\ pos'[k] = pos[k]
             /\ end'[k] = end[k] /\ fetch'[k] = fetch[k]
  BY DEF Exit, Goto, Inv, TypeOK
<1>2. \A o \in Offsets : ~(o < fetch'[m])
  BY <1>1, LogLength DEF Offsets
<1> QED
  BY <1>1, <1>2, OthersKeep DEF Busy

\* Every step of the specification keeps the invariant.
LEMMA StepInv == Inv /\ [Next]_vars => Inv'
<1> SUFFICES ASSUME Inv, [Next]_vars PROVE Inv'
  OBVIOUS
<1> USE LogLength DEF cursor, Goto
<1>0. TypeOK'
  BY StepType DEF Inv
<1>1. ASSUME NEW m \in Members, Assign(m) PROVE Inv'
  <2>1. /\ fetch'[m] = committed
        /\ \A k \in Members : k # m => fetch'[k] = fetch[k]
        /\ UNCHANGED <<pc, pos, end, committed, handled, dlq>>
    BY <1>1 DEF Assign, Inv, TypeOK
  <2>2. Done' = Done
    BY <2>1 DEF Done
  <2>3. NoRecordSkipped' /\ InOrder'
    BY <1>0, <2>1, <2>2, DoneKeeps
  <2>4. \A o \in Offsets : o < fetch'[m] => o \in Done'
    BY <2>1, <2>2 DEF Inv, NoRecordSkipped, Done
  <2>5. /\ pc'[m] \in Busy => DoneBefore(pos[m])'
        /\ pc'[m] = "commit" => pos'[m] \in Done'
    BY <2>1, <2>2 DEF Inv, Reached, DoneBefore
  <2>6. Reached' /\ FetchSound'
    BY <2>1, <2>2, <2>4, <2>5, OthersKeep
  <2> QED
    BY <1>0, <2>3, <2>6 DEF Inv
<1>2. ASSUME NEW m \in Members, Restart(m) PROVE Inv'
  <2>1. /\ pc[m] = "down" /\ pc'[m] = "poll"
        /\ \A k \in Members : k # m => pc'[k] = pc[k]
        /\ UNCHANGED <<pos, end, fetch, committed, handled, dlq>>
    BY <1>2 DEF Restart, Inv, TypeOK
  <2>2. Done' = Done
    BY <2>1 DEF Done
  <2>3. NoRecordSkipped' /\ InOrder'
    BY <1>0, <2>1, <2>2, DoneKeeps
  <2>4. \A o \in Offsets : o < fetch'[m] => o \in Done'
    BY <2>1, <2>2 DEF Inv, FetchSound, Busy
  <2>5. Reached' /\ FetchSound'
    BY <2>1, <2>2, <2>4, OthersKeep DEF Busy
  <2> QED
    BY <1>0, <2>3, <2>5 DEF Inv
<1>3. ASSUME NEW m \in Members, PollFetches(m) PROVE Inv'
  <2>1. /\ pc[m] = "poll" /\ pc'[m] = "handle"
        /\ pos'[m] = fetch[m] /\ end'[m] = fetch'[m]
        /\ \A k \in Members : k # m =>
               /\ pc'[k] = pc[k] /\ pos'[k] = pos[k]
               /\ end'[k] = end[k] /\ fetch'[k] = fetch[k]
        /\ UNCHANGED <<committed, handled, dlq>>
    BY <1>3 DEF PollFetches, Inv, TypeOK
  <2>2. Done' = Done
    BY <2>1 DEF Done
  <2>3. NoRecordSkipped' /\ InOrder'
    BY <1>0, <2>1, <2>2, DoneKeeps
  <2>4. DoneBefore(fetch[m])
    BY <2>1 DEF Inv, FetchSound, DoneBefore, Busy
  <2>5. DoneBefore(pos[m])'
    BY <2>1, <2>2, <2>4 DEF DoneBefore
  <2>6. \A o \in Offsets :
            o < fetch'[m] => o \in Done' \/ (pos'[m] <= o /\ o < end'[m])
    BY <2>1, <2>2, <2>4 DEF DoneBefore, Inv, TypeOK, Offsets
  <2>7. Reached' /\ FetchSound'
    BY <2>1, <2>2, <2>5, <2>6, OthersKeep DEF Busy
  <2> QED
    BY <1>0, <2>3, <2>7 DEF Inv
<1>4. ASSUME NEW m \in Members, pc[m] \in Busy, pc'[m] \in Busy,
             Done' = Done \/ Done' = Done \cup {pos[m]},
             pc'[m] = "commit" => pos[m] \in Done',
             \A k \in Members : k # m => pc'[k] = pc[k],
             UNCHANGED <<cursor, committed>>
      PROVE  Inv'
  <2>1. NoRecordSkipped' /\ InOrder'
    BY <1>0, <1>4, DoneKeeps
  <2>2. DoneBefore(pos[m])'
    BY <1>4 DEF Inv, Reached, DoneBefore
  <2>3. \A o \in Offsets :
            o < fetch'[m] => o \in Done' \/ (pos'[m] <= o /\ o < end'[m])
    BY <1>4 DEF Inv, FetchSound
  <2>4. Reached' /\ FetchSound'
    BY <1>4, <2>2, <2>3, OthersKeep
  <2> QED
    BY <1>0, <2>1, <2>4 DEF Inv
<1>5. ASSUME NEW m \in Members,
             \/ Handle(m) \/ HandleFails(m) \/ HandleRejects(m)
             \/ PublishToDLQ(m)
      PROVE  Inv'
  <2>1. /\ pc[m] \in Busy /\ pc'[m] \in Busy
        /\ \A k \in Members : k # m => pc'[k] = pc[k]
        /\ UNCHANGED <<cursor, committed>>
    BY <1>5 DEF Handle, HandleFails, HandleRejects, PublishToDLQ, Busy, Inv,
                TypeOK
  <2>2. /\ Done' = Done \/ Done' = Done \cup {pos[m]}
        /\ pc'[m] = "commit" => pos[m] \in Done'
    BY <1>5 DEF Handle, HandleFails, HandleRejects, PublishToDLQ, Done, Inv,
                TypeOK
  <2> QED
    BY <1>4, <2>1, <2>2
<1>6. ASSUME NEW m \in Members, CommitRecords(m) PROVE Inv'
  <2>1. /\ pc[m] = "commit" /\ committed' = pos[m] + 1 /\ pos'[m] = pos[m] + 1
        /\ pc'[m] = IF pos[m] + 1 < end[m] THEN "handle" ELSE "poll"
        /\ \A k \in Members : k # m => pc'[k] = pc[k] /\ pos'[k] = pos[k]
        /\ UNCHANGED <<fetch, end, handled, dlq>>
    BY <1>6 DEF CommitRecords, Inv, TypeOK
  <2>2. Done' = Done
    BY <2>1 DEF Done
  <2>3. NoRecordSkipped' /\ InOrder'
    BY <1>0, <2>1, <2>2, DoneKeeps
  <2>4. pos[m] \in Offsets /\ pos[m] \in Done /\ DoneBefore(pos[m])
    BY <2>1, BusyOffset DEF Inv, Reached, Busy
  <2>5. DoneBefore(pos[m])'
    BY <2>1, <2>2, <2>4 DEF DoneBefore, Offsets
  <2>6. \A o \in Offsets :
            o < fetch'[m] =>
                \/ o \in Done'
                \/ pc'[m] \in Busy /\ pos'[m] <= o /\ o < end'[m]
    <3> SUFFICES ASSUME NEW o \in Offsets, o < fetch[m], o \notin Done
                 PROVE  pc'[m] \in Busy /\ pos[m] + 1 <= o /\ o < end[m]
      BY <2>1, <2>2
    <3>1. pos[m] <= o /\ o < end[m] /\ o # pos[m]
      BY <2>4 DEF Inv, FetchSound
    <3>2. end[m] \in Nat /\ pos[m] \in Nat /\ o \in Nat
      BY DEF Inv, TypeOK, Offsets
    <3>3. pos[m] + 1 <= o /\ pos[m] + 1 < end[m]
      BY <3>1, <3>2
    <3> QED
      BY <2>1, <3>1, <3>3 DEF Busy
  <2>7. Reached' /\ FetchSound'
    BY <2>1, <2>2, <2>5, <2>6, OthersKeep
  <2> QED
    BY <1>0, <2>3, <2>7 DEF Inv
<1>7. ASSUME NEW m \in Members,
             MarshalFails(m) \/ PublishFails(m) \/ CommitFails(m) \/ Crash(m)
      PROVE  Inv'
  <2>1. /\ Exit(m)
        /\ Done' = Done \/ (pc[m] \in Busy /\ Done' = Done \cup {pos[m]})
        /\ \/ committed' = committed
           \/ pc[m] = "commit" /\ committed' = pos[m] + 1
    BY <1>7 DEF MarshalFails, PublishFails, CommitFails, Crash, Done, Busy
  <2>2. NoRecordSkipped' /\ InOrder'
    BY <1>0, <2>1, DoneKeeps
  <2>3. Reached' /\ FetchSound'
    BY <2>1, ExitKeeps
  <2> QED
    BY <1>0, <2>2, <2>3 DEF Inv
<1>8. CASE UNCHANGED vars
  BY <1>0, <1>8 DEF vars, Inv, NoRecordSkipped, InOrder, Reached, FetchSound,
                    DoneBefore, Done
<1> QED
  BY <1>1, <1>2, <1>3, <1>5, <1>6, <1>7, <1>8 DEF Next, Step, Environment

\* The invariant holds throughout.
THEOREM Invariance == Spec => []Inv
BY InitInv, StepInv, PTL DEF Spec

\* The variables of the consumer loop keep their shape.
THEOREM TypeCorrect == Spec => []TypeOK
<1>1. Inv => TypeOK
  BY DEF Inv
<1> QED
  BY <1>1, Invariance, PTL

\* Whoever commits, and whatever happens to the commit, the group's offset
\* passes no record that was neither processed nor dead-lettered.
THEOREM NothingSkipped == Spec => []NoRecordSkipped
<1>1. Inv => NoRecordSkipped
  BY DEF Inv
<1> QED
  BY <1>1, Invariance, PTL

\* Records take effect in the order of the partition, through rebalances,
\* crashes and redeliveries.
THEOREM Ordered == Spec => []InOrder
<1>1. Inv => InOrder
  BY DEF Inv
<1> QED
  BY <1>1, Invariance, PTL
=============================================================================
