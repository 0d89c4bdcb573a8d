----------------------------- MODULE FraudProofs -----------------------------
(***************************************************************************)
(* The safety of the fraud consumer, for any number of workers, payments,  *)
(* attempts, faults and resends, and any limit and time to live.           *)
(***************************************************************************)
EXTENDS Fraud, FiniteSetTheorems, TLAPS

(***************************************************************************)
(* The inductive invariants.                                               *)
(***************************************************************************)

\* A worker that is not idle has a payment, and one that acknowledges has
\* saved its score.
Held ==
    \A w \in Workers :
        /\ pc[w] # "idle" <=> cur[w] \in Payments
        /\ pc[w] = "ack" => scores[cur[w]] > 0

\* The counter is at least the number of payments it has counted, and holds
\* those of the last minute until the minute is over, though INCR and EXPIRE
\* are apart.
KeyCovers ==
    /\ Cardinality(counted) <= count
    /\ \A p \in Payments : renewed[p] <= now
    /\ \A p \in Recent :
          p \in counted /\ expires # Never /\ expires >= renewed[p] + Minute

\* What a worker has read of the counter is enough to see the burst.
SeesBurst ==
    \A w \in Workers :
        /\ pc[w] = "expire" /\ fast[w] => val[w] > Limit
        /\ pc[w] = "save" /\ fast[w] => level[w] \in {"HIGH", "CRITICAL"}

(***************************************************************************)
(* Repetitions are bounded by a potential: what has been counted or saved, *)
(* together with what still may be without a further cause.                *)
(***************************************************************************)
AtIncr == {w \in Workers : pc[w] = "incr"}
Counting == {p \in Payments : \E w \in AtIncr : cur[w] = p}

\* A delivery of a free payment is no repetition.
Free(p) == done[p] = "no" /\ \A w \in Workers : cur[w] # p
Again == {p \in counted : Free(p)}

\* What may have made a worker count a payment again.
Causes == faults + resent

CountBound ==
    count + Cardinality(AtIncr) + Cardinality(Again)
        <= Cardinality(counted \cup Counting) + Causes

\* CountBound for the key that is created next.
NextKeyBound == Cardinality(AtIncr) <= Cardinality(Counting) + Causes

Saving(p) ==
    {w \in Workers : cur[w] = p /\ pc[w] \in {"incr", "expire", "save"}}

SaveBound ==
    \A p \in Payments :
        scores[p] + Cardinality(Saving(p)) + (IF Free(p) THEN 1 ELSE 0)
            <= 1 + faults

-----------------------------------------------------------------------------
\* A finite set with one more element, and with one fewer.
LEMMA OneMore ==
    ASSUME NEW S, NEW x, IsFiniteSet(S)
    PROVE  /\ IsFiniteSet(S \cup {x})
           /\ Cardinality(S) \in Nat
           /\ Cardinality(S \cup {x}) \in {Cardinality(S), Cardinality(S) + 1}
           /\ x \notin S => Cardinality(S \cup {x}) = Cardinality(S) + 1
<1>1. Cardinality(S) \in Nat
  BY FS_CardinalityType
<1>2. /\ IsFiniteSet(S \cup {x})
      /\ Cardinality(S \cup {x}) = IF x \in S THEN Cardinality(S)
                                              ELSE Cardinality(S) + 1
  BY FS_AddElement
<1> QED
  BY <1>1, <1>2

LEMMA OneFewer ==
    ASSUME NEW S, NEW x, IsFiniteSet(S)
    PROVE  /\ IsFiniteSet(S \ {x})
           /\ Cardinality(S) \in Nat
           /\ Cardinality(S \ {x}) \in Nat
           /\ Cardinality(S \ {x}) \in {Cardinality(S), Cardinality(S) - 1}
           /\ x \in S => Cardinality(S \ {x}) = Cardinality(S) - 1
<1>1. Cardinality(S) \in Nat
  BY FS_CardinalityType
<1>2. /\ IsFiniteSet(S \ {x})
      /\ Cardinality(S \ {x}) = IF x \in S THEN Cardinality(S) - 1
                                           ELSE Cardinality(S)
  BY FS_RemoveElement
<1>3. Cardinality(S \ {x}) \in Nat
  BY <1>2, FS_CardinalityType
<1> QED
  BY <1>1, <1>2, <1>3

-----------------------------------------------------------------------------
(***************************************************************************)
(* Types, and what a worker holds.                                         *)
(***************************************************************************)

\* toRiskLevel returns a level, whatever the rules add up to, and one for
\* review when the velocity rule has fired.
LEMMA Levelled ==
    ASSUME NEW p, NEW v \in BOOLEAN
    PROVE  /\ toRiskLevel(Score(p, v)) \in Levels
           /\ v => toRiskLevel(Score(p, v)) \in {"HIGH", "CRITICAL"}
<1>1. Score(p, v) \in {0, 4, 5, 9} /\ (v => Score(p, v) \in {5, 9})
  BY DEF Score
<1> QED
  BY <1>1 DEF toRiskLevel, Levels

\* The first state.
LEMMA InitTypes == Init => TypeOK /\ Held
BY FraudAssumption DEF Init, TypeOK, Held, Levels

\* Every step keeps the shapes and what workers hold.
LEMMA StepTypes ==
    ASSUME TypeOK, Held, [Next]_vars
    PROVE  TypeOK' /\ Held'
<1> USE FraudAssumption DEF TypeOK, Held, Goto, Fault, key, local
<1>1. ASSUME AdvanceClock PROVE TypeOK' /\ Held'
  BY <1>1 DEF AdvanceClock
<1>2. ASSUME NEW w \in Workers, NEW p \in Payments, Deliver(w, p) \/ Redeliver(w, p)
      PROVE  TypeOK' /\ Held'
  BY <1>2 DEF Deliver, Redeliver, Take
<1>3. ASSUME NEW w \in Workers, Incr(w) PROVE TypeOK' /\ Held'
  BY <1>3 DEF Incr
<1>4. ASSUME NEW w \in Workers, SetExpiry(w)
      PROVE  /\ expires' \in Nat \cup {Never}
             /\ renewed' \in [Payments -> -Minute .. MaxTime]
  BY <1>4 DEF SetExpiry
<1>5. ASSUME NEW w \in Workers, Expire(w) PROVE TypeOK' /\ Held'
  <2>1. toRiskLevel(Score(cur[w], val[w] > Limit)) \in Levels
    <3>1. (val[w] > Limit) \in BOOLEAN
      OBVIOUS
    <3> QED
      BY <3>1, Levelled
  <2> QED
    BY <1>4, <1>5, <2>1 DEF Expire
<1>6. ASSUME NEW w \in Workers, RedisFails(w) PROVE TypeOK' /\ Held'
  <2>1. toRiskLevel(Score(cur[w], FALSE)) \in Levels
    BY Levelled
  <2> QED
    BY <1>4, <1>6, <2>1 DEF RedisFails
<1>7. ASSUME NEW w \in Workers, Resend(w) PROVE TypeOK' /\ Held'
  BY <1>4, <1>7 DEF Resend
<1>8. ASSUME NEW w \in Workers, SaveScore(w) PROVE TypeOK' /\ Held'
  BY <1>8 DEF SaveScore, Insert, Scored, Levels
<1>9. ASSUME NEW w \in Workers, SaveFails(w) PROVE TypeOK' /\ Held'
  <2>1. scores' \in [Payments -> Nat] /\ \A p \in Payments : scores'[p] >= scores[p]
    BY <1>9 DEF SaveFails, Insert
  <2>2. PICK step \in {"incr", "dlq"} :
            /\ pc[w] = "save" /\ pc' = [pc EXCEPT ![w] = step]
            /\ attempt' \in [Workers -> 0 .. MaxAttempts]
            /\ fast' = [fast EXCEPT ![w] = FALSE]
            /\ level' = [level EXCEPT ![w] = "LOW"]
            /\ faults' \in 0 .. MaxFaults
            /\ UNCHANGED <<now, count, expires, counted, renewed, cur, val, done,
                           resent>>
    <3>1. CASE attempt[w] < MaxAttempts
      BY <1>9, <3>1 DEF SaveFails, Scored
    <3>2. CASE ~(attempt[w] < MaxAttempts)
      BY <1>9, <3>2 DEF SaveFails, Scored
    <3> QED
      BY <3>1, <3>2
  <2>3. TypeOK'
    BY <2>1, <2>2 DEF Levels
  <2>4. Held'
    BY <2>1, <2>2
  <2> QED
    BY <2>3, <2>4
<1>10. ASSUME NEW w \in Workers, CommitRecord(w) PROVE TypeOK' /\ Held'
  BY <1>10 DEF CommitRecord, Release, Levels
<1>11. ASSUME NEW w \in Workers, Crash(w) PROVE TypeOK' /\ Held'
  BY <1>11 DEF Crash, Release, Levels
<1>12. CASE UNCHANGED vars
  BY <1>12 DEF vars
<1> QED
  BY <1>1, <1>2, <1>3, <1>5, <1>6, <1>7, <1>8, <1>9, <1>10, <1>11, <1>12
     DEF Next, Step, Failure

-----------------------------------------------------------------------------
(***************************************************************************)
(* The velocity rule.                                                      *)
(***************************************************************************)

\* The counter counts every payment since its key was created, so that no
\* minute is over before the key goes.
LEMMA StepKey ==
    ASSUME TypeOK, Held, KeyCovers, [Next]_vars
    PROVE  KeyCovers'
<1> USE FraudAssumption DEF TypeOK
<1>1. IsFiniteSet(counted) /\ Cardinality(counted) \in Nat
  BY FS_Subset, FS_CardinalityType
<1>2. ASSUME AdvanceClock PROVE KeyCovers'
  <2>1. now' = now + 1 /\ UNCHANGED renewed
    BY <1>2 DEF AdvanceClock
  <2>2. Recent' \subseteq Recent
    BY <2>1 DEF Recent
  <2>3. CASE expires = now + 1
    <3>1. count' = 0 /\ counted' = {}
      BY <1>2, <2>3 DEF AdvanceClock
    <3>2. Recent' = {}
      BY <2>1, <2>2, <2>3 DEF Recent, KeyCovers
    <3> QED
      BY <2>1, <3>1, <3>2, FS_EmptySet DEF KeyCovers
  <2>4. CASE expires # now + 1
    BY <1>2, <2>1, <2>2, <2>4 DEF AdvanceClock, KeyCovers
  <2> QED
    BY <2>3, <2>4
<1>3. ASSUME NEW w \in Workers, Incr(w) PROVE KeyCovers'
  <2>1. /\ count' = count + 1 /\ counted' = counted \cup {cur[w]}
        /\ UNCHANGED <<now, expires, renewed>>
    BY <1>3 DEF Incr
  <2>2. Cardinality(counted') <= count'
    <3>1. Cardinality(counted \cup {cur[w]})
              \in {Cardinality(counted), Cardinality(counted) + 1}
      BY <1>1, OneMore, Zenon
    <3> QED
      BY <1>1, <2>1, <3>1 DEF KeyCovers
  <2>3. Recent' = Recent
    BY <2>1 DEF Recent
  <2> QED
    BY <2>1, <2>2, <2>3 DEF KeyCovers
<1>4. ASSUME NEW w \in Workers, SetExpiry(w), UNCHANGED <<now, count, counted>>
      PROVE  KeyCovers'
  <2>1. \A p \in Payments :
            \/ renewed'[p] = renewed[p]
            \/ renewed'[p] = now /\ p \in counted
    BY <1>4 DEF SetExpiry
  <2>2. \A p \in Payments : renewed'[p] <= now
    BY <2>1 DEF KeyCovers
  <2>3. \A p \in Recent' : p \in Payments /\ p \in counted
    BY <1>4, <2>1 DEF Recent, KeyCovers
  <2>4. Recent' # {} => count # 0
    BY <1>1, <2>3, FS_EmptySet DEF KeyCovers
  <2>5. ASSUME NEW p \in Recent'
        PROVE  expires' # Never /\ expires' >= renewed'[p] + Minute
    <3>1. expires' = now + Minute
      BY <1>4, <2>4, <2>5 DEF SetExpiry
    <3>2. renewed'[p] <= now /\ renewed'[p] \in Int
      BY <2>1, <2>2, <2>3, <2>5
    <3> QED
      BY <3>1, <3>2
  <2> QED
    BY <1>4, <2>2, <2>3, <2>5 DEF KeyCovers
<1>5. ASSUME UNCHANGED <<now, count, expires, counted, renewed>> PROVE KeyCovers'
  BY <1>5 DEF KeyCovers, Recent
<1>6. ASSUME NEW w \in Workers, Expire(w) \/ Resend(w) \/ RedisFails(w)
      PROVE  KeyCovers'
  BY <1>4, <1>5, <1>6 DEF Expire, Resend, RedisFails
<1>7. ASSUME NEW w \in Workers,
             \/ \E p \in Payments : Deliver(w, p) \/ Redeliver(w, p)
             \/ SaveScore(w) \/ SaveFails(w) \/ CommitRecord(w) \/ Crash(w)
      PROVE  KeyCovers'
  BY <1>5, <1>7 DEF Deliver, Redeliver, Take, SaveScore, SaveFails,
                    CommitRecord, Crash, key
<1>8. CASE UNCHANGED vars
  BY <1>5, <1>8 DEF vars, key
<1> QED
  BY <1>2, <1>3, <1>6, <1>7, <1>8 DEF Next, Step, Failure

\* The result of INCR exceeds the limit when that many payments of the last
\* minute were counted.
LEMMA IncrSees ==
    ASSUME TypeOK, Held, KeyCovers, NEW w \in Workers, Incr(w),
           Cardinality(Recent \cup {cur[w]}) > Limit
    PROVE  count + 1 > Limit
<1> USE FraudAssumption DEF TypeOK
<1>1. IsFiniteSet(counted) /\ Cardinality(counted) \in Nat
  BY FS_Subset, FS_CardinalityType
<1>2. Recent \subseteq counted
  BY DEF KeyCovers
<1>3. /\ IsFiniteSet(counted \cup {cur[w]})
      /\ Cardinality(counted \cup {cur[w]}) \in Nat
      /\ Cardinality(counted \cup {cur[w]}) <= count + 1
  <2>1. /\ IsFiniteSet(counted \cup {cur[w]})
        /\ Cardinality(counted \cup {cur[w]})
              \in {Cardinality(counted), Cardinality(counted) + 1}
    BY <1>1, OneMore, Zenon
  <2> QED
    BY <1>1, <2>1 DEF KeyCovers
<1>4. Recent \cup {cur[w]} \in SUBSET (counted \cup {cur[w]})
  BY <1>2
<1>5. /\ IsFiniteSet(Recent \cup {cur[w]})
      /\ Cardinality(Recent \cup {cur[w]}) <= Cardinality(counted \cup {cur[w]})
  BY <1>3, <1>4, FS_Subset
<1>6. Cardinality(Recent \cup {cur[w]}) \in Nat
  BY <1>5, FS_CardinalityType
<1> QED
  BY <1>3, <1>5, <1>6

\* Every step keeps what a worker knows of a burst.
LEMMA StepSees ==
    ASSUME TypeOK, Held, KeyCovers, SeesBurst, [Next]_vars
    PROVE  SeesBurst'
<1> USE FraudAssumption DEF TypeOK, Goto
<1>1. ASSUME NEW w \in Workers, Incr(w) PROVE SeesBurst'
  <2>1. /\ val' = [val EXCEPT ![w] = count + 1]
        /\ fast' = [fast EXCEPT ![w] = Cardinality(Recent \cup {cur[w]}) > Limit]
        /\ pc' = [pc EXCEPT ![w] = "expire"]
        /\ UNCHANGED level
    BY <1>1 DEF Incr
  <2>2. Cardinality(Recent \cup {cur[w]}) > Limit => count + 1 > Limit
    BY <1>1, IncrSees
  <2> QED
    BY <2>1, <2>2 DEF SeesBurst
<1>2. ASSUME NEW w \in Workers, Expire(w) PROVE SeesBurst'
  <2>1. /\ level' = [level EXCEPT ![w] =
                        toRiskLevel(Score(cur[w], val[w] > Limit))]
        /\ pc[w] = "expire"
        /\ pc' = [pc EXCEPT ![w] = "save"]
        /\ val' = [val EXCEPT ![w] = 0]
        /\ UNCHANGED fast
    BY <1>2 DEF Expire
  <2>2. val[w] > Limit =>
            toRiskLevel(Score(cur[w], val[w] > Limit)) \in {"HIGH", "CRITICAL"}
    <3>1. (val[w] > Limit) \in BOOLEAN
      OBVIOUS
    <3> QED
      BY <3>1, Levelled
  <2> QED
    BY <2>1, <2>2 DEF SeesBurst
<1>3. ASSUME NEW w \in Workers, fast' = [fast EXCEPT ![w] = FALSE],
             \A v \in Workers : v # w => /\ pc'[v] = pc[v] /\ val'[v] = val[v]
                                         /\ level'[v] = level[v]
      PROVE  SeesBurst'
  BY <1>3 DEF SeesBurst
<1>4. ASSUME NEW w \in Workers,
             \/ Resend(w) \/ RedisFails(w) \/ SaveScore(w) \/ SaveFails(w)
             \/ CommitRecord(w) \/ Crash(w)
      PROVE  SeesBurst'
  <2>1. /\ fast' = [fast EXCEPT ![w] = FALSE]
        /\ \A v \in Workers : v # w => /\ pc'[v] = pc[v] /\ val'[v] = val[v]
                                       /\ level'[v] = level[v]
    BY <1>4 DEF Resend, RedisFails, SaveScore, SaveFails, Scored, CommitRecord,
                Crash, Release
  <2> QED
    BY <1>3, <2>1
<1>5. ASSUME NEW w \in Workers, NEW p \in Payments, Deliver(w, p) \/ Redeliver(w, p)
      PROVE  SeesBurst'
  BY <1>5 DEF Deliver, Redeliver, Take, SeesBurst
<1>6. CASE AdvanceClock \/ UNCHANGED vars
  BY <1>6 DEF AdvanceClock, vars, local, SeesBurst
<1> QED
  BY <1>1, <1>2, <1>4, <1>5, <1>6 DEF Next, Step, Failure

\* TypeOK: every variable keeps its shape.
THEOREM TypeCorrect == Spec => []TypeOK
<1>1. TypeOK /\ Held /\ [Next]_vars => TypeOK' /\ Held'
  BY StepTypes
<1> QED
  BY <1>1, InitTypes, PTL DEF Spec

\* An event is acknowledged only after SaveScore has inserted its row.
THEOREM HandledSound == Spec => []HandledIsScored
<1>1. Init => HandledIsScored
  BY DEF Init, HandledIsScored
<1>2. TypeOK /\ Held /\ HandledIsScored /\ [Next]_vars => HandledIsScored'
  <2> SUFFICES ASSUME TypeOK, Held, HandledIsScored, [Next]_vars
               PROVE  HandledIsScored'
    OBVIOUS
  <2>1. ASSUME NEW w \in Workers, CommitRecord(w) PROVE HandledIsScored'
    BY <2>1 DEF CommitRecord, HandledIsScored, TypeOK, Held
  <2>2. ASSUME UNCHANGED done,
               \A p \in Payments : scores'[p] >= scores[p] /\ scores'[p] \in Nat
        PROVE  HandledIsScored'
    BY <2>2 DEF HandledIsScored, TypeOK
  <2>3. ASSUME NEW w \in Workers, SaveScore(w) \/ SaveFails(w)
        PROVE  HandledIsScored'
    BY <2>2, <2>3 DEF SaveScore, SaveFails, Insert, TypeOK
  <2>4. ASSUME UNCHANGED <<done, scores>> PROVE HandledIsScored'
    BY <2>4 DEF HandledIsScored
  <2>5. ASSUME NEW w \in Workers,
               \/ \E p \in Payments : Deliver(w, p) \/ Redeliver(w, p)
               \/ Incr(w) \/ Expire(w) \/ Resend(w) \/ RedisFails(w) \/ Crash(w)
        PROVE  HandledIsScored'
    BY <2>4, <2>5 DEF Deliver, Redeliver, Take, Incr, Expire, Resend,
                      RedisFails, Crash
  <2>6. CASE AdvanceClock \/ UNCHANGED vars
    BY <2>4, <2>6 DEF AdvanceClock, vars
  <2> QED
    BY <2>1, <2>3, <2>5, <2>6 DEF Next, Step, Failure
<1>3. TypeOK /\ Held /\ [Next]_vars => TypeOK' /\ Held'
  BY StepTypes
<1> QED
  BY <1>1, <1>2, <1>3, InitTypes, PTL DEF Spec

\* The velocity rule of Score misses no burst, whatever workers overlap
\* between INCR and EXPIRE and whenever the key expires.
THEOREM BurstsReviewed == Spec => []FastIsReviewed
<1> DEFINE Burst == TypeOK /\ Held /\ KeyCovers /\ SeesBurst
<1>1. Init => Burst
  <2> SUFFICES ASSUME Init PROVE KeyCovers /\ SeesBurst
    BY InitTypes
  <2> USE FraudAssumption DEF Init
  <2>1. Recent = {}
    BY DEF Recent
  <2> QED
    BY <2>1, FS_EmptySet DEF KeyCovers, SeesBurst
<1>2. Burst /\ [Next]_vars => Burst'
  BY StepTypes, StepKey, StepSees
<1>3. Burst => FastIsReviewed
  BY DEF SeesBurst, FastIsReviewed
<1> QED
  BY <1>1, <1>2, <1>3, PTL DEF Spec

-----------------------------------------------------------------------------
(***************************************************************************)
(* Repetitions and their causes.                                           *)
(***************************************************************************)

\* The sets of the potentials are finite.
LEMMA Finite ==
    ASSUME TypeOK
    PROVE  /\ IsFiniteSet(AtIncr) /\ Cardinality(AtIncr) \in Nat
           /\ IsFiniteSet(Counting) /\ Cardinality(Counting) \in Nat
           /\ IsFiniteSet(Again) /\ Cardinality(Again) \in Nat
           /\ Causes \in Nat
           /\ IsFiniteSet(counted \cup Counting)
           /\ Cardinality(counted \cup Counting) \in Nat
           /\ \A p : IsFiniteSet(Saving(p)) /\ Cardinality(Saving(p)) \in Nat
<1>1. /\ AtIncr \in SUBSET Workers /\ Counting \in SUBSET Payments
      /\ Again \in SUBSET Payments /\ counted \cup Counting \in SUBSET Payments
      /\ \A p : Saving(p) \in SUBSET Workers
  BY DEF TypeOK, AtIncr, Counting, Again, Saving
<1>2. ASSUME NEW S \in SUBSET Workers
      PROVE  IsFiniteSet(S) /\ Cardinality(S) \in Nat
  BY FraudAssumption, FS_Subset, FS_CardinalityType
<1>3. ASSUME NEW S \in SUBSET Payments
      PROVE  IsFiniteSet(S) /\ Cardinality(S) \in Nat
  BY FraudAssumption, FS_Subset, FS_CardinalityType
<1>4. Causes \in Nat
  BY FraudAssumption DEF Causes, TypeOK
<1> QED
  BY <1>1, <1>2, <1>3, <1>4, Zenon

\* A step that leaves the sets alone.
LEMMA CountsAlone ==
    ASSUME TypeOK, CountBound, NextKeyBound, Causes' \in Nat, Causes <= Causes',
           UNCHANGED <<count, counted>>, AtIncr' = AtIncr,
           Counting' = Counting, Again' = Again
    PROVE  CountBound' /\ NextKeyBound'
BY Finite DEF CountBound, NextKeyBound, TypeOK

\* A delivery counts a payment for the first time, or takes a free one that
\* was counted, or is a repetition and a fault.
LEMMA DeliverCounts ==
    ASSUME TypeOK, Held, CountBound, NextKeyBound,
           NEW w \in Workers, NEW p \in Payments, Deliver(w, p) \/ Redeliver(w, p)
    PROVE  CountBound' /\ NextKeyBound'
<1> USE FraudAssumption
<1>1. /\ pc[w] = "idle" /\ pc' = [pc EXCEPT ![w] = "incr"]
      /\ cur' = [cur EXCEPT ![w] = p]
      /\ UNCHANGED <<count, counted, done>>
  BY DEF Deliver, Redeliver, Take, Goto, key
<1>2. cur[w] \notin Payments
  BY <1>1 DEF Held
<1>3. AtIncr' = AtIncr \cup {w} /\ w \notin AtIncr
  BY <1>1 DEF AtIncr, TypeOK
<1>4. Counting' = Counting \cup {p}
  BY <1>1, <1>3 DEF Counting, TypeOK, AtIncr
<1>5. Again' = Again \ {p}
  BY <1>1, <1>2 DEF Again, Free, TypeOK
<1>6. Cardinality(AtIncr') = Cardinality(AtIncr) + 1
  BY <1>3, Finite, OneMore, Zenon
<1>7. (counted \cup Counting)' = (counted \cup Counting) \cup {p}
  BY <1>1, <1>4
<1>8. /\ Cardinality(Counting')
             \in {Cardinality(Counting), Cardinality(Counting) + 1}
      /\ Cardinality((counted \cup Counting)')
             \in {Cardinality(counted \cup Counting),
                  Cardinality(counted \cup Counting) + 1}
  BY <1>4, <1>7, Finite, OneMore, Zenon
<1>9. CASE Deliver(w, p)
  <2>1. Free(p) /\ Causes' = Causes
    BY <1>9 DEF Deliver, Take, Free, Causes
  <2>2. p \notin Counting
    BY <2>1 DEF Free, Counting, AtIncr
  <2>3. Cardinality(Counting') = Cardinality(Counting) + 1
    BY <1>4, <2>2, Finite, OneMore, Zenon
  <2>4. CASE p \in counted
    <3>1. p \in Again
      BY <2>1, <2>4 DEF Again
    <3>2. Cardinality(Again') = Cardinality(Again) - 1
      BY <1>5, <3>1, Finite, OneFewer, Zenon
    <3> QED
      BY <1>1, <1>6, <1>8, <2>1, <2>3, <3>2, Finite
         DEF CountBound, NextKeyBound, TypeOK
  <2>5. CASE p \notin counted
    <3>1. Again' = Again
      BY <1>5, <2>5 DEF Again
    <3>2. Cardinality((counted \cup Counting)')
              = Cardinality(counted \cup Counting) + 1
      BY <1>7, <2>2, <2>5, Finite, OneMore, Zenon
    <3> QED
      BY <1>1, <1>6, <2>1, <2>3, <3>1, <3>2, Finite
         DEF CountBound, NextKeyBound, TypeOK
  <2> QED
    BY <2>4, <2>5
<1>10. CASE Redeliver(w, p)
  <2>1. ~Free(p) /\ Causes' = Causes + 1
    BY <1>10, FraudAssumption DEF Redeliver, Take, Fault, Free, Causes, TypeOK
  <2>2. Again' = Again
    BY <1>5, <2>1 DEF Again
  <2> QED
    BY <1>1, <1>6, <1>8, <2>1, <2>2, Finite DEF CountBound, NextKeyBound, TypeOK
<1> QED
  BY <1>9, <1>10

\* A worker that stops to be about to count.
LEMMA LeaveIncr ==
    ASSUME TypeOK, Held, NEW w \in Workers, pc[w] = "incr",
           \A v \in Workers : v # w => pc'[v] = pc[v] /\ cur'[v] = cur[v],
           pc'[w] # "incr"
    PROVE  /\ Cardinality(AtIncr') = Cardinality(AtIncr) - 1
           /\ cur[w] \in Counting
           /\ Counting' \in {Counting, Counting \ {cur[w]}}
           /\ Cardinality(Counting')
                 \in {Cardinality(Counting), Cardinality(Counting) - 1}
<1>1. AtIncr' = AtIncr \ {w} /\ w \in AtIncr
  BY DEF AtIncr
<1>2. Cardinality(AtIncr') = Cardinality(AtIncr) - 1
  BY <1>1, Finite, OneFewer, Zenon
<1>3. cur[w] \in Counting
  BY <1>1 DEF Counting, Held
<1>4. Counting' \in {Counting, Counting \ {cur[w]}}
  <2>1. \A p : p # cur[w] => (p \in Counting' <=> p \in Counting)
    BY <1>1 DEF Counting, AtIncr
  <2>2. Counting' \subseteq Counting
    BY <1>1 DEF Counting, AtIncr
  <2> QED
    BY <2>1, <2>2
<1>5. Cardinality(Counting \ {cur[w]}) = Cardinality(Counting) - 1
  BY <1>3, Finite, OneFewer, Zenon
<1> QED
  BY <1>2, <1>3, <1>4, <1>5

\* INCR counts what was about to be counted.
LEMMA IncrCounts ==
    ASSUME TypeOK, Held, CountBound, NextKeyBound, NEW w \in Workers, Incr(w)
    PROVE  CountBound' /\ NextKeyBound'
<1>1. /\ pc[w] = "incr" /\ pc' = [pc EXCEPT ![w] = "expire"]
      /\ count' = count + 1 /\ counted' = counted \cup {cur[w]}
      /\ UNCHANGED <<cur, done, Causes>>
  BY DEF Incr, Goto, Causes
<1>2. /\ Cardinality(AtIncr') = Cardinality(AtIncr) - 1
      /\ cur[w] \in Counting
      /\ Counting' \in {Counting, Counting \ {cur[w]}}
      /\ Cardinality(Counting')
            \in {Cardinality(Counting), Cardinality(Counting) - 1}
  BY <1>1, LeaveIncr DEF TypeOK
<1>3. (counted \cup Counting)' = counted \cup Counting
  BY <1>1, <1>2
<1>4. Again' = Again
  BY <1>1 DEF Again, Free, Held
<1>5. /\ Cardinality((counted \cup Counting)') = Cardinality(counted \cup Counting)
      /\ Cardinality(Again') = Cardinality(Again)
      /\ count' = count + 1 /\ Causes' = Causes
  BY <1>1, <1>3, <1>4
<1> QED
  BY <1>2, <1>5, Finite DEF CountBound, NextKeyBound, TypeOK

\* A worker that gives up counting, without or with a fault; the fault may
\* free its payment.
LEMMA GiveUpCounts ==
    ASSUME TypeOK, Held, CountBound, NextKeyBound, NEW w \in Workers,
           pc[w] = "incr", pc'[w] # "incr",
           \A v \in Workers : v # w => pc'[v] = pc[v] /\ cur'[v] = cur[v],
           UNCHANGED <<count, counted>>,
           \/ Again' = Again /\ Causes' = Causes
           \/ Again' \in {Again, Again \cup {cur[w]}} /\ Causes' = Causes + 1
    PROVE  CountBound' /\ NextKeyBound'
<1> DEFINE U == counted \cup Counting
<1>1. /\ Cardinality(AtIncr') = Cardinality(AtIncr) - 1
      /\ cur[w] \in Counting
      /\ Counting' \in {Counting, Counting \ {cur[w]}}
      /\ Cardinality(Counting')
            \in {Cardinality(Counting), Cardinality(Counting) - 1}
  BY LeaveIncr
<1>2. U' \in {U, U \ {cur[w]}}
  BY <1>1
<1>3. Cardinality(U \ {cur[w]}) \in {Cardinality(U), Cardinality(U) - 1}
  BY Finite, OneFewer, Zenon
<1>4. Cardinality(Again \cup {cur[w]})
          \in {Cardinality(Again), Cardinality(Again) + 1}
  BY Finite, OneMore, Zenon
<1>5. Cardinality(U') \in {Cardinality(U), Cardinality(U) - 1}
  BY <1>2, <1>3
<1>6. \/ Cardinality(Again') = Cardinality(Again) /\ Causes' = Causes
      \/ /\ Cardinality(Again') \in {Cardinality(Again), Cardinality(Again) + 1}
         /\ Causes' = Causes + 1
  BY <1>4
<1> QED
  BY <1>1, <1>5, <1>6, Finite DEF CountBound, NextKeyBound, TypeOK

\* A worker that is about to count again, after a failed save or because
\* the pipeline is sent again.
LEMMA RetryCounts ==
    ASSUME TypeOK, Held, CountBound, NextKeyBound, NEW w \in Workers,
           pc[w] \in {"expire", "save"}, pc' = [pc EXCEPT ![w] = "incr"],
           Causes' = Causes + 1,
           UNCHANGED <<cur, done, count, counted>>
    PROVE  CountBound' /\ NextKeyBound'
<1> DEFINE U == counted \cup Counting
<1>1. AtIncr' = AtIncr \cup {w} /\ cur[w] \in Payments
  BY DEF AtIncr, TypeOK, Held
<1>2. Counting' = Counting \cup {cur[w]} /\ Again' = Again
  BY <1>1 DEF Counting, Again, Free
<1>3. U' = U \cup {cur[w]}
  BY <1>2
<1>4. /\ Cardinality(AtIncr') \in {Cardinality(AtIncr), Cardinality(AtIncr) + 1}
      /\ Cardinality(Counting')
            \in {Cardinality(Counting), Cardinality(Counting) + 1}
      /\ Cardinality(U') \in {Cardinality(U), Cardinality(U) + 1}
  BY <1>1, <1>2, <1>3, Finite, OneMore, Zenon
<1>5. Cardinality(Again') = Cardinality(Again)
  BY <1>2
<1> QED
  BY <1>4, <1>5, Finite DEF CountBound, NextKeyBound, TypeOK

\* Every step keeps the bounds on the counter.
LEMMA StepCounts ==
    ASSUME TypeOK, Held, CountBound, NextKeyBound, [Next]_vars
    PROVE  CountBound' /\ NextKeyBound'
<1> USE FraudAssumption
<1>1. ASSUME AdvanceClock PROVE CountBound' /\ NextKeyBound'
  <2>1. UNCHANGED <<pc, cur, done, Causes>>
    BY <1>1 DEF AdvanceClock, local, Causes
  <2>2. AtIncr' = AtIncr /\ Counting' = Counting
    BY <2>1 DEF AtIncr, Counting
  <2>3. CASE expires = now + 1
    <3>1. count' = 0 /\ counted' = {}
      BY <1>1, <2>3 DEF AdvanceClock
    <3>2. Again' = {} /\ (counted \cup Counting)' = Counting
      BY <2>2, <3>1 DEF Again
    <3>3. Cardinality(Again') = 0
      BY <3>2, FS_EmptySet
    <3>4. Cardinality((counted \cup Counting)') = Cardinality(Counting)
      BY <3>2
    <3>5. Cardinality(AtIncr') = Cardinality(AtIncr)
          /\ Cardinality(Counting') = Cardinality(Counting)
      BY <2>2
    <3> QED
      BY <2>1, <3>1, <3>3, <3>4, <3>5, Finite DEF CountBound, NextKeyBound, TypeOK
  <2>4. CASE expires # now + 1
    <3>1. UNCHANGED <<count, counted>>
      BY <1>1, <2>4 DEF AdvanceClock
    <3>2. Again' = Again
      BY <2>1, <3>1 DEF Again, Free
    <3> QED
      BY <2>1, <2>2, <3>1, <3>2, Finite, CountsAlone
  <2> QED
    BY <2>3, <2>4
<1>2. ASSUME NEW w \in Workers,
             pc[w] # "incr", pc'[w] # "incr",
             \A v \in Workers : v # w => pc'[v] = pc[v] /\ cur'[v] = cur[v],
             UNCHANGED <<count, counted>>, Again' = Again,
             Causes' \in {Causes, Causes + 1}
      PROVE  CountBound' /\ NextKeyBound'
  <2>1. AtIncr' = AtIncr
    BY <1>2 DEF AtIncr
  <2>2. Counting' = Counting
    BY <1>2, <2>1 DEF Counting, AtIncr
  <2>3. Causes' \in Nat /\ Causes <= Causes'
    BY <1>2, Finite
  <2> QED
    BY <1>2, <2>1, <2>2, <2>3, CountsAlone
<1>3. ASSUME NEW w \in Workers, Expire(w) \/ RedisFails(w) \/ SaveScore(w)
      PROVE  CountBound' /\ NextKeyBound'
  <2>1. /\ UNCHANGED <<count, counted, cur, done, Causes>>
        /\ pc[w] \in {"incr", "expire", "save"}
        /\ pc'[w] # "incr"
        /\ \A v \in Workers : v # w => pc'[v] = pc[v]
    BY <1>3 DEF Expire, RedisFails, SaveScore, Scored, Goto, key, TypeOK, Causes
  <2>2. Again' = Again
    BY <2>1 DEF Again, Free
  <2> QED
    BY <1>2, <2>1, <2>2, GiveUpCounts
<1>4. ASSUME NEW w \in Workers, SaveFails(w) PROVE CountBound' /\ NextKeyBound'
  <2>1. /\ UNCHANGED <<count, counted, cur, done>> /\ Causes' = Causes + 1
        /\ pc[w] = "save"
        /\ \/ pc' = [pc EXCEPT ![w] = "incr"]
           \/ pc' = [pc EXCEPT ![w] = "dlq"]
    BY <1>4 DEF SaveFails, Scored, Goto, Fault, key, Causes, TypeOK
  <2>2. CASE pc' = [pc EXCEPT ![w] = "incr"]
    BY <2>1, <2>2, RetryCounts
  <2>3. CASE pc' = [pc EXCEPT ![w] = "dlq"]
    <3>1. Again' = Again
      BY <2>1 DEF Again, Free
    <3> QED
      BY <1>2, <2>1, <2>3, <3>1 DEF TypeOK
  <2> QED
    BY <2>1, <2>2, <2>3
<1>5. ASSUME NEW w \in Workers, CommitRecord(w) PROVE CountBound' /\ NextKeyBound'
  <2>1. /\ UNCHANGED <<count, counted, Causes>>
        /\ pc[w] \in {"ack", "dlq"} /\ pc'[w] = "idle" /\ cur'[w] = Nobody
        /\ \A v \in Workers : v # w => pc'[v] = pc[v] /\ cur'[v] = cur[v]
        /\ done'[cur[w]] # "no"
        /\ \A p \in Payments : p # cur[w] => done'[p] = done[p]
    BY <1>5 DEF CommitRecord, Release, Goto, key, TypeOK, Held, Causes
  <2>2. Again' = Again
    BY <2>1 DEF Again, Free, TypeOK
  <2> QED
    BY <1>2, <2>1, <2>2
<1>6. ASSUME NEW w \in Workers, Crash(w) PROVE CountBound' /\ NextKeyBound'
  <2>1. /\ UNCHANGED <<count, counted, done>> /\ Causes' = Causes + 1
        /\ pc[w] # "idle" /\ pc'[w] = "idle" /\ cur'[w] = Nobody
        /\ \A v \in Workers : v # w => pc'[v] = pc[v] /\ cur'[v] = cur[v]
    BY <1>6 DEF Crash, Release, Goto, Fault, key, TypeOK, Causes
  <2>2. Again' \in {Again, Again \cup {cur[w]}}
    <3>1. \A p \in Payments : p # cur[w] => (p \in Again' <=> p \in Again)
      BY <2>1 DEF Again, Free
    <3>2. \A p \in Again : p # cur[w]
      BY DEF Again, Free
    <3>3. Again \subseteq Payments /\ Again' \subseteq Payments
      BY <2>1 DEF Again, TypeOK
    <3> QED
      BY <3>1, <3>2, <3>3
  <2>3. CASE pc[w] = "incr"
    BY <2>1, <2>2, <2>3, GiveUpCounts
  <2>4. CASE pc[w] # "incr"
    <3>1. AtIncr' = AtIncr
      BY <2>1, <2>4 DEF AtIncr
    <3>2. Counting' = Counting
      BY <2>1, <2>4, <3>1 DEF Counting, AtIncr
    <3>3. Cardinality(Again \cup {cur[w]})
              \in {Cardinality(Again), Cardinality(Again) + 1}
      BY Finite, OneMore, Zenon
    <3>4. Cardinality(Again') \in {Cardinality(Again), Cardinality(Again) + 1}
      BY <2>2, <3>3
    <3>5. /\ Cardinality(AtIncr') = Cardinality(AtIncr)
          /\ Cardinality(Counting') = Cardinality(Counting)
          /\ Cardinality((counted \cup Counting)') = Cardinality(counted \cup Counting)
      BY <2>1, <3>1, <3>2
    <3> QED
      BY <2>1, <3>4, <3>5, Finite DEF CountBound, NextKeyBound, TypeOK
  <2> QED
    BY <2>3, <2>4
<1>7. CASE UNCHANGED vars
  <2>1. UNCHANGED <<count, counted, pc, cur, done, Causes>>
    BY <1>7 DEF vars, key, local, Causes
  <2>2. AtIncr' = AtIncr /\ Counting' = Counting /\ Again' = Again
    BY <2>1 DEF AtIncr, Counting, Again, Free
  <2> QED
    BY <2>1, <2>2, Finite, CountsAlone
<1>8. ASSUME NEW w \in Workers, Resend(w) PROVE CountBound' /\ NextKeyBound'
  <2>1. /\ UNCHANGED <<count, counted, cur, done>> /\ Causes' = Causes + 1
        /\ pc[w] = "expire" /\ pc' = [pc EXCEPT ![w] = "incr"]
    BY <1>8 DEF Resend, Goto, Causes, TypeOK
  <2> QED
    BY <2>1, RetryCounts
<1> QED
  BY <1>1, <1>3, <1>4, <1>5, <1>6, <1>7, <1>8, DeliverCounts, IncrCounts
     DEF Next, Step, Failure

\* The bound gives the property: what is about to be counted is no more than
\* the workers about to count it.
LEMMA CountImplies ==
    ASSUME TypeOK, CountBound
    PROVE  count <= Cardinality(counted) + Causes
<1>1. Cardinality(Counting) <= Cardinality(AtIncr)
  <2> DEFINE f == [w \in AtIncr |-> cur[w]]
             T == {f[w] : w \in AtIncr}
  <2>1. f \in Surjection(AtIncr, T)
    BY DEF Surjection
  <2>2. IsFiniteSet(T) /\ Cardinality(T) <= Cardinality(AtIncr)
    <3> HIDE DEF f, T
    <3> QED
      BY <2>1, Finite, FS_Surjection, Zenon
  <2>3. Counting \in SUBSET T
    BY DEF Counting
  <2>4. Cardinality(Counting) <= Cardinality(T) /\ Cardinality(T) \in Nat
    <3> HIDE DEF T
    <3> QED
      BY <2>2, <2>3, FS_Subset, FS_CardinalityType, Zenon
  <2> HIDE DEF T
  <2> QED
    BY <2>2, <2>4, Finite
<1>2. IsFiniteSet(counted) /\ Cardinality(counted) \in Nat
  BY FraudAssumption, FS_Subset, FS_CardinalityType DEF TypeOK
<1>3. Cardinality(counted \cup Counting)
          = Cardinality(counted) + Cardinality(Counting)
            - Cardinality(counted \cap Counting)
  BY <1>2, Finite, FS_Union, Zenon
<1>4. Cardinality(counted \cap Counting) \in Nat
  BY <1>2, FS_Intersection, FS_CardinalityType, Zenon
<1> QED
  BY <1>1, <1>2, <1>3, <1>4, Finite DEF CountBound, TypeOK

\* Every step keeps the bound on the saved scores of a payment.
LEMMA StepSaves ==
    ASSUME TypeOK, Held, SaveBound, [Next]_vars
    PROVE  SaveBound'
<1> USE FraudAssumption
<1> DEFINE One(p) == IF Free(p) THEN 1 ELSE 0
<1>0. \A p : IsFiniteSet(Saving(p)) /\ Cardinality(Saving(p)) \in Nat
  BY Finite
<1>1. ASSUME NEW q \in Payments,
             \A p \in Payments : p # q =>
                 /\ scores'[p] = scores[p] /\ Saving(p)' = Saving(p)
                 /\ Free(p)' <=> Free(p),
             faults' \in {faults, faults + 1},
             scores'[q] + Cardinality(Saving(q)') + One(q)' <= 1 + faults'
      PROVE  SaveBound'
  <2> SUFFICES ASSUME NEW p \in Payments
               PROVE  scores'[p] + Cardinality(Saving(p)') + One(p)' <= 1 + faults'
    BY DEF SaveBound
  <2>1. CASE p = q
    BY <1>1, <2>1
  <2>2. CASE p # q
    BY <1>0, <1>1, <2>2 DEF SaveBound, TypeOK
  <2> QED
    BY <2>1, <2>2
<1>2. ASSUME NEW w \in Workers, NEW p \in Payments, Deliver(w, p) \/ Redeliver(w, p)
      PROVE  SaveBound'
  <2>1. /\ pc[w] = "idle" /\ pc' = [pc EXCEPT ![w] = "incr"]
        /\ cur' = [cur EXCEPT ![w] = p]
        /\ UNCHANGED <<scores, done>>
    BY <1>2 DEF Deliver, Redeliver, Take, Goto
  <2>2. cur[w] \notin Payments
    BY <2>1 DEF Held
  <2>3. Saving(p)' = Saving(p) \cup {w} /\ ~Free(p)'
    BY <2>1 DEF Saving, Free, TypeOK
  <2>4. \A q \in Payments : q # p => /\ Saving(q)' = Saving(q)
                                     /\ Free(q)' <=> Free(q)
    BY <2>1, <2>2 DEF Saving, Free, TypeOK
  <2>5. Cardinality(Saving(p)')
            \in {Cardinality(Saving(p)), Cardinality(Saving(p)) + 1}
    BY <1>0, <2>3, OneMore, Zenon
  <2>6. \/ Free(p) /\ faults' = faults
        \/ ~Free(p) /\ faults' = faults + 1
    BY <1>2 DEF Deliver, Redeliver, Free, Fault
  <2>7. scores'[p] + Cardinality(Saving(p)') + One(p)' <= 1 + faults'
    BY <1>0, <2>1, <2>3, <2>5, <2>6 DEF SaveBound, TypeOK
  <2> QED
    BY <1>1, <2>1, <2>4, <2>6, <2>7
<1>3. ASSUME NEW w \in Workers, pc[w] # "idle",
             \A v \in Workers : v # w => pc'[v] = pc[v] /\ cur'[v] = cur[v],
             cur'[w] \in {cur[w], Nobody},
             \A p \in Payments : p # cur[w] =>
                 scores'[p] = scores[p] /\ done'[p] = done[p]
      PROVE  \A p \in Payments : p # cur[w] =>
                 /\ scores'[p] = scores[p] /\ Saving(p)' = Saving(p)
                 /\ Free(p)' <=> Free(p)
  BY <1>3 DEF Saving, Free
<1>4. \A w \in Workers : pc[w] # "idle" =>
          cur[w] \in Payments /\ ~Free(cur[w])
  BY DEF Held, Free
<1>5. ASSUME NEW w \in Workers,
             Incr(w) \/ Expire(w) \/ Resend(w) \/ RedisFails(w)
      PROVE  SaveBound'
  <2>1. /\ pc[w] \in {"incr", "expire"}
        /\ pc'[w] \in {"incr", "expire", "save"}
        /\ \A v \in Workers : v # w => pc'[v] = pc[v]
        /\ UNCHANGED <<cur, done, scores, faults>>
    BY <1>5 DEF Incr, Expire, Resend, RedisFails, Goto, TypeOK
  <2>2. \A p \in Payments : Saving(p)' = Saving(p) /\ (Free(p)' <=> Free(p))
    BY <2>1 DEF Saving, Free
  <2> QED
    BY <2>1, <2>2 DEF SaveBound
<1>6. ASSUME NEW w \in Workers, SaveScore(w) PROVE SaveBound'
  <2> DEFINE q == cur[w]
  <2>1. /\ pc[w] = "save" /\ pc'[w] = "ack"
        /\ \A v \in Workers : v # w => pc'[v] = pc[v]
        /\ scores' = [scores EXCEPT ![q] = @ + 1]
        /\ UNCHANGED <<cur, done, faults>>
    BY <1>6 DEF SaveScore, Insert, Scored, Goto, TypeOK
  <2>2. q \in Payments /\ ~Free(q) /\ ~Free(q)'
    BY <1>4, <2>1 DEF Free
  <2>3. Saving(q)' = Saving(q) \ {w} /\ w \in Saving(q)
    BY <2>1 DEF Saving
  <2>4. Cardinality(Saving(q)') = Cardinality(Saving(q)) - 1
    BY <1>0, <2>3, OneFewer, Zenon
  <2>5. scores'[q] = scores[q] + 1
    BY <2>1, <2>2 DEF TypeOK
  <2>6. scores'[q] + Cardinality(Saving(q)') + One(q)' <= 1 + faults'
    BY <1>0, <2>1, <2>2, <2>4, <2>5 DEF SaveBound, TypeOK
  <2>7. \A p \in Payments : p # q =>
            /\ scores'[p] = scores[p] /\ Saving(p)' = Saving(p)
            /\ Free(p)' <=> Free(p)
    BY <1>3, <2>1 DEF TypeOK
  <2> QED
    BY <1>1, <2>1, <2>2, <2>6, <2>7
<1>7. ASSUME NEW w \in Workers, SaveFails(w) PROVE SaveBound'
  <2> DEFINE q == cur[w]
  <2>1. /\ pc[w] = "save" /\ pc'[w] \in {"incr", "dlq"}
        /\ \A v \in Workers : v # w => pc'[v] = pc[v]
        /\ scores' = [scores EXCEPT ![q] = @ + 1] \/ UNCHANGED scores
        /\ faults' = faults + 1
        /\ UNCHANGED <<cur, done>>
    BY <1>7 DEF SaveFails, Insert, Scored, Goto, Fault, TypeOK
  <2>2. q \in Payments /\ ~Free(q) /\ ~Free(q)'
    BY <1>4, <2>1 DEF Free
  <2>3. Saving(q)' \in {Saving(q), Saving(q) \ {w}}
    BY <2>1 DEF Saving
  <2>4. Cardinality(Saving(q) \ {w})
            \in {Cardinality(Saving(q)), Cardinality(Saving(q)) - 1}
    BY <1>0, OneFewer, Zenon
  <2>5. Cardinality(Saving(q)')
            \in {Cardinality(Saving(q)), Cardinality(Saving(q)) - 1}
    BY <2>3, <2>4
  <2>6. scores'[q] \in {scores[q], scores[q] + 1}
    BY <2>1, <2>2 DEF TypeOK
  <2>7. scores'[q] + Cardinality(Saving(q)') + One(q)' <= 1 + faults'
    BY <1>0, <2>1, <2>2, <2>5, <2>6 DEF SaveBound, TypeOK
  <2>8. \A p \in Payments : p # q =>
            /\ scores'[p] = scores[p] /\ Saving(p)' = Saving(p)
            /\ Free(p)' <=> Free(p)
    BY <1>3, <2>1 DEF TypeOK
  <2> QED
    BY <1>1, <2>1, <2>2, <2>7, <2>8
<1>8. ASSUME NEW w \in Workers, CommitRecord(w) \/ Crash(w) PROVE SaveBound'
  <2>0. PICK q \in Payments : q = cur[w]
    BY <1>8 DEF CommitRecord, Crash, Held
  <2>1. /\ pc[w] # "idle" /\ pc'[w] = "idle" /\ cur'[w] = Nobody
        /\ \A v \in Workers : v # w => pc'[v] = pc[v] /\ cur'[v] = cur[v]
        /\ UNCHANGED scores
        /\ \A p \in Payments : p # q => done'[p] = done[p]
        /\ \/ faults' = faults + 1
           \/ faults' = faults /\ done'[q] # "no"
    BY <1>8, <2>0 DEF CommitRecord, Crash, Release, Goto, Fault, TypeOK, Held
  <2>2. ~Free(q)
    BY <1>4, <2>0, <2>1
  <2>3. Saving(q)' = Saving(q) \ {w}
    BY <2>0, <2>1 DEF Saving
  <2>4. Cardinality(Saving(q)')
            \in {Cardinality(Saving(q)), Cardinality(Saving(q)) - 1}
    BY <1>0, <2>3, OneFewer, Zenon
  <2>5. faults' = faults + 1 \/ (faults' = faults /\ ~Free(q)')
    BY <2>1 DEF Free
  <2>6. scores'[q] + Cardinality(Saving(q)') + One(q)' <= 1 + faults'
    BY <1>0, <2>1, <2>2, <2>4, <2>5 DEF SaveBound, TypeOK
  <2>7. \A p \in Payments : p # q =>
            /\ scores'[p] = scores[p] /\ Saving(p)' = Saving(p)
            /\ Free(p)' <=> Free(p)
    BY <1>3, <2>0, <2>1
  <2> QED
    BY <1>1, <2>1, <2>2, <2>6, <2>7
<1>9. CASE AdvanceClock \/ UNCHANGED vars
  <2>1. UNCHANGED <<pc, cur, done, scores, faults>>
    BY <1>9 DEF AdvanceClock, vars, local
  <2> QED
    BY <2>1 DEF SaveBound, Saving, Free
<1> QED
  BY <1>2, <1>5, <1>6, <1>7, <1>8, <1>9 DEF Next, Step, Failure

\* A payment is saved again only after a failed save, a crash or a redelivery,
\* and counted again only after one of these or because the client of Redis
\* sent its pipeline again, once for each, whatever workers overlap and however
\* often the client gives up.
THEOREM RescoringSound == Spec => []RescoringHasCause
<1> DEFINE Bounded == TypeOK /\ Held /\ CountBound /\ NextKeyBound /\ SaveBound
<1>1. Init => Bounded
  <2> SUFFICES ASSUME Init PROVE CountBound /\ NextKeyBound /\ SaveBound
    BY InitTypes
  <2> USE FraudAssumption DEF Init
  <2>1. /\ AtIncr = {} /\ Counting = {} /\ Again = {} /\ counted \cup Counting = {}
        /\ \A p \in Payments : Saving(p) = {}
    BY DEF AtIncr, Counting, Again, Saving
  <2>2. CountBound /\ NextKeyBound
    BY <2>1, FS_EmptySet DEF CountBound, NextKeyBound, Causes
  <2>3. \A p \in Payments : Cardinality(Saving(p)) = 0
    BY <2>1, FS_EmptySet
  <2>4. SaveBound
    BY <2>3 DEF SaveBound
  <2> QED
    BY <2>2, <2>4
<1>2. Bounded /\ [Next]_vars => Bounded'
  BY StepTypes, StepCounts, StepSaves
<1>3. Bounded => RescoringHasCause
  <2> SUFFICES ASSUME Bounded PROVE RescoringHasCause
    OBVIOUS
  <2>1. count <= Cardinality(counted) + faults + resent
    <3>1. Cardinality(counted) \in Nat
      BY FraudAssumption, FS_Subset, FS_CardinalityType DEF TypeOK
    <3> QED
      BY <3>1, CountImplies DEF Causes, TypeOK
  <2>2. \A p \in Payments : scores[p] <= 1 + faults
    <3> SUFFICES ASSUME NEW p \in Payments PROVE scores[p] <= 1 + faults
      OBVIOUS
    <3>1. Cardinality(Saving(p)) \in Nat
      BY Finite
    <3>2. scores[p] + Cardinality(Saving(p)) + (IF Free(p) THEN 1 ELSE 0)
              <= 1 + faults
      BY DEF SaveBound
    <3> QED
      BY <3>1, <3>2 DEF TypeOK
  <2> QED
    BY <2>1, <2>2 DEF RescoringHasCause
<1> QED
  BY <1>1, <1>2, <1>3, PTL DEF Spec
=============================================================================
