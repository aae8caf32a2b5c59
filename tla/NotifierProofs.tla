--------------------------- MODULE NotifierProofs ---------------------------
(***************************************************************************)
(* What holds of the outbox for any number of rows, workers and deaths.    *)
(***************************************************************************)
EXTENDS Notifier, FiniteSetTheorems, TLAPS

(* The number a worker has read is on record already, or the next one of    *)
(* its row: this makes attempt_number a fence.                             *)
Fenced ==
  \A w \in Workers : worker[w].step \in {"send", "record"} =>
    worker[w].number \in 1 .. attempts[worker[w].note] + 1

(* The conjuncts of HistoryMatchesRow, for one row. *)
Numbered(n) == /\ \A d \in deliveries[n] : d.number \in 1 .. attempts[n]
               /\ \A k \in 1 .. attempts[n] : \E d \in deliveries[n] : d.number = k
Unrepeated(n) == \A d, e \in deliveries[n] : d.number = e.number => d = e
Truthful(n) == outbox[n] = "DELIVERED" <=>
                 \E d \in deliveries[n] : d.number = attempts[n] /\ d.ok
GivenUp(n) == /\ attempts[n] >= MaxAttempts => outbox[n] \in Closed
              /\ outbox[n] = "DEAD_LETTER" => attempts[n] >= MaxAttempts
RowInv(n) == Numbered(n) /\ Unrepeated(n) /\ Truthful(n) /\ GivenUp(n)

(* Beyond max_attempts, each attempt uses up one of the other workers that   *)
(* had claimed the row before it was closed.                               *)
Numbers(n) == attempts[n] >= MaxAttempts =>
                attempts[n] + Cardinality(Overtaking(n)) < MaxAttempts + Cardinality(Workers)

OutboxInv == TypeOK /\ Fenced /\ (\A n \in Notes : RowInv(n))
HistoryInv == OutboxInv /\ (\A n \in Notes : Numbers(n))

-----------------------------------------------------------------------------
LEMMA IdleTyped == Idle \in Holding
  BY DEF Idle, Holding

(* Every step keeps the types of the columns and of what each worker carries. *)
LEMMA TypeStep == TypeOK /\ [Next]_vars => TypeOK'
<1> SUFFICES ASSUME TypeOK, [Next]_vars PROVE TypeOK'
  OBVIOUS
<1>1. ASSUME NEW e \in Events, Occur(e) PROVE TypeOK'
  BY <1>1 DEF Occur, TypeOK, rowVars
<1>2. ASSUME NEW a \in Approvals, Ask(a) \/ Answer(a) PROVE TypeOK'
  BY <1>2 DEF Ask, Answer, TypeOK, rowVars
<1>3. ASSUME NEW w \in Workers, Collect(w) PROVE TypeOK'
  BY <1>3 DEF Collect, LastRow, TypeOK, Claimable
<1>4. ASSUME NEW w \in Workers, NEW n \in Notes, Claim(w, n) PROVE TypeOK'
  <2>1. worker' \in [Workers -> Holding]
    BY <1>4, IdleTyped DEF Claim, TypeOK, Holding
  <2> QED
    BY <1>4, <2>1 DEF Claim, Reconciled, TypeOK, sourceVars, Claimable, Idle
<1>5. ASSUME NEW w \in Workers, Read(w) PROVE TypeOK'
  <2>1. worker[w] \in Holding /\ worker[w].note \in Notes
    BY <1>5 DEF Read, TypeOK
  <2>2. attempts[worker[w].note] + 1 \in Nat
    BY <2>1 DEF TypeOK
  <2>3. [worker[w] EXCEPT !.step = "send", !.number = attempts[worker[w].note] + 1]
          \in Holding
    BY <2>1, <2>2 DEF Holding
  <2>4. worker' \in [Workers -> Holding]
    BY <1>5, <2>3 DEF Read, TypeOK
  <2> QED
    BY <1>5, <2>1, <2>4 DEF Read, TypeOK, sourceVars, rowVars
<1>6. ASSUME NEW w \in Workers, Send(w) PROVE TypeOK'
  <2>1. worker[w] \in Holding /\ worker[w].note \in Notes
    BY <1>6 DEF Send, TypeOK
  <2>2. PICK ok \in BOOLEAN :
          worker' = [worker EXCEPT ![w].step = "record", ![w].ok = ok]
    BY <1>6 DEF Send
  <2>3. [worker[w] EXCEPT !.step = "record", !.ok = ok] \in Holding
    BY <2>1 DEF Holding
  <2>4. worker' \in [Workers -> Holding]
    BY <2>2, <2>3 DEF TypeOK
  <2> QED
    BY <1>6, <2>1, <2>2, <2>4 DEF Send, TypeOK, sourceVars, rowVars
<1>7. ASSUME NEW w \in Workers, Record(w) PROVE TypeOK'
  <2>1. worker[w] \in Holding /\ worker[w].note \in Notes
    BY <1>7 DEF Record, TypeOK
  <2>2. [number |-> worker[w].number, ok |-> worker[w].ok] \in Attempt
    BY <2>1 DEF Holding, Attempt
  <2>3. Outcome(w) \in Closed \cup Claimable
    BY DEF Outcome, Closed, Claimable
  <2>4. worker' \in [Workers -> Holding]
    BY <1>7, IdleTyped DEF Record, TypeOK
  <2>5. deliveries' \in [Notes -> SUBSET Attempt]
    BY <1>7, <2>1, <2>2 DEF Record, TypeOK
  <2>6. attempts' \in [Notes -> Nat]
    BY <1>7, <2>1 DEF Record, TypeOK, Holding
  <2> QED
    BY <1>7, <2>3, <2>4, <2>5, <2>6 DEF Record, TypeOK, sourceVars, Idle
<1>8. ASSUME NEW w \in Workers, RecordRefused(w) \/ Die(w) PROVE TypeOK'
  <2>1. worker' \in [Workers -> Holding]
    BY <1>8, IdleTyped DEF RecordRefused, Die, TypeOK
  <2>2. crashes' \in 0 .. MaxCrashes
    BY <1>8, ConstantsAssumption DEF RecordRefused, Die, TypeOK
  <2>3. UNCHANGED <<sourceVars, rowVars>>
    BY <1>8 DEF RecordRefused, Die
  <2>4. \A v \in Workers : worker'[v].step # "idle" => worker'[v].note \in Notes
    BY <1>8 DEF RecordRefused, Die, TypeOK, Idle
  <2> QED
    BY <2>1, <2>2, <2>3, <2>4 DEF TypeOK, sourceVars, rowVars
<1>9. ASSUME NEW n \in Notes, Expire(n) PROVE TypeOK'
  BY <1>9 DEF Expire, TypeOK, sourceVars
<1>10. CASE UNCHANGED vars
  BY <1>10 DEF vars, TypeOK
<1>11. ASSUME NEW w \in Workers, Reconcile(w) PROVE TypeOK'
  BY <1>11 DEF Reconcile, Reconciled, TypeOK, sourceVars, Claimable
<1> QED
  BY <1>1, <1>2, <1>3, <1>4, <1>5, <1>6, <1>7, <1>8, <1>9, <1>10, <1>11 DEF Next, Deliver

(* Every column and everything a worker carries has its type, for any       *)
(* number of events, approvals, workers and deaths.                        *)
THEOREM TypeCorrect == Spec => []TypeOK
<1>1. Init => TypeOK
  BY ConstantsAssumption DEF Init, TypeOK, Idle, Holding
<1> QED
  BY <1>1, TypeStep, PTL DEF Spec

-----------------------------------------------------------------------------
(* The rows. *)

(* Sending a number twice is what the fence forbids: an attempt that is not *)
(* refused is recorded as the next one of its row.                         *)
LEMMA RecordIsNext ==
  ASSUME OutboxInv, NEW w \in Workers, Record(w)
  PROVE  /\ worker[w] \in Holding /\ worker[w].note \in Notes
         /\ worker[w].number = attempts[worker[w].note] + 1
<1>1. worker[w] \in Holding /\ worker[w].note \in Notes
  BY DEF Record, OutboxInv, TypeOK
<1>2. worker[w].number \in 1 .. attempts[worker[w].note] + 1
  BY DEF Record, OutboxInv, Fenced
<1>3. worker[w].number \notin 1 .. attempts[worker[w].note]
  BY <1>1 DEF Record, OnRecord, OutboxInv, RowInv, Numbered
<1>4. attempts[worker[w].note] \in Nat
  BY <1>1 DEF OutboxInv, TypeOK
<1> QED
  BY <1>1, <1>2, <1>3, <1>4 DEF Holding

(* A step that leaves attempts and deliveries alone, and does not open or   *)
(* close a row, keeps what is known of the rows.                           *)
LEMMA RowsKept ==
  ASSUME OutboxInv, attempts' = attempts, deliveries' = deliveries,
         \A n \in Notes : /\ outbox'[n] \in Closed <=> outbox[n] \in Closed
                          /\ outbox[n] \in Closed => outbox'[n] = outbox[n]
  PROVE  \A n \in Notes : RowInv(n)'
<1> SUFFICES ASSUME NEW n \in Notes PROVE RowInv(n)'
  OBVIOUS
<1>1. RowInv(n)
  BY DEF OutboxInv
<1>2. Numbered(n)' /\ Unrepeated(n)'
  BY <1>1 DEF RowInv, Numbered, Unrepeated
<1>3. outbox'[n] = "DELIVERED" <=> outbox[n] = "DELIVERED"
  BY DEF Closed
<1>4. Truthful(n)'
  BY <1>1, <1>3 DEF RowInv, Truthful
<1>5. GivenUp(n)'
  BY <1>1 DEF RowInv, GivenUp, Closed
<1> QED
  BY <1>2, <1>4, <1>5 DEF RowInv

(* Claiming, collecting and expiring only move open rows.                   *)
LEMMA OpenMoves ==
  ASSUME OutboxInv,
         \/ \E w \in Workers : Collect(w) \/ Reconcile(w) \/ \E n \in Notes : Claim(w, n)
         \/ \E n \in Notes : Expire(n)
  PROVE  \A n \in Notes : /\ outbox'[n] \in Closed <=> outbox[n] \in Closed
                          /\ outbox[n] \in Closed => outbox'[n] = outbox[n]
<1>1. ASSUME NEW w \in Workers, Collect(w)
      PROVE  \A n \in Notes : /\ outbox'[n] \in Closed <=> outbox[n] \in Closed
                              /\ outbox[n] \in Closed => outbox'[n] = outbox[n]
  BY <1>1 DEF Collect, Closed
<1>2. ASSUME NEW w \in Workers, NEW m \in Notes, Claim(w, m)
      PROVE  \A n \in Notes : /\ outbox'[n] \in Closed <=> outbox[n] \in Closed
                              /\ outbox[n] \in Closed => outbox'[n] = outbox[n]
  BY <1>2 DEF Claim, Eligible, Due, Reconciled, Claimable, Closed, OutboxInv, TypeOK
<1>3. ASSUME NEW w \in Workers, Reconcile(w)
      PROVE  \A n \in Notes : /\ outbox'[n] \in Closed <=> outbox[n] \in Closed
                              /\ outbox[n] \in Closed => outbox'[n] = outbox[n]
  BY <1>3 DEF Reconcile, Reconciled, Closed
<1>4. ASSUME NEW m \in Notes, Expire(m) PROVE outbox' = outbox
  BY <1>4 DEF Expire
<1> QED
  BY <1>1, <1>2, <1>3, <1>4

(* A recorded attempt extends the history of its row by one and leaves the  *)
(* other rows alone.                                                       *)
LEMMA RecordExtends ==
  ASSUME OutboxInv, NEW w \in Workers, Record(w)
  PROVE  \A n \in Notes : RowInv(n)'
<1>a. PICK r \in Notes : r = worker[w].note
  BY RecordIsNext
<1>b. PICK d0 : d0 = [number |-> worker[w].number, ok |-> worker[w].ok]
  OBVIOUS
<1>1. /\ worker[w] \in Holding /\ r \in Notes
      /\ worker[w].number = attempts[r] + 1
  BY <1>a, RecordIsNext
<1>2. attempts[r] \in Nat /\ worker[w].ok \in BOOLEAN
  BY <1>1 DEF OutboxInv, TypeOK, Holding
<1>3. /\ deliveries'[r] = deliveries[r] \cup {d0}
      /\ attempts'[r] = attempts[r] + 1
      /\ outbox'[r] = Outcome(w)
  BY <1>a, <1>b, <1>1 DEF Record, OutboxInv, TypeOK
<1>4. RowInv(r)
  BY <1>1 DEF OutboxInv
<1>5. Numbered(r)'
  <2>1. \A d \in deliveries[r] : d.number \in 1 .. attempts[r] + 1
    BY <1>2, <1>4 DEF RowInv, Numbered
  <2>2. d0.number = attempts[r] + 1
    BY <1>b, <1>1
  <2>3. ASSUME NEW k \in 1 .. attempts[r] + 1
        PROVE  \E d \in deliveries[r] \cup {d0} : d.number = k
    <3>1. CASE k = attempts[r] + 1
      BY <2>2, <3>1
    <3>2. CASE k # attempts[r] + 1
      <4>1. k \in 1 .. attempts[r]
        BY <1>2, <3>2
      <4> QED
        BY <4>1, <1>4 DEF RowInv, Numbered
    <3> QED
      BY <3>1, <3>2
  <2> QED
    BY <1>2, <1>3, <2>1, <2>2, <2>3 DEF Numbered
<1>6. \A d \in deliveries[r] : d.number # d0.number
  BY <1>b, <1>1, <1>2, <1>4 DEF RowInv, Numbered
<1>7. Unrepeated(r)'
  BY <1>3, <1>4, <1>6 DEF RowInv, Unrepeated
<1>8. Truthful(r)'
  <2>1. \A d \in deliveries[r] : d.number # attempts'[r]
    BY <1>b, <1>1, <1>3, <1>6
  <2>2. d0.ok <=> Outcome(w) = "DELIVERED"
    BY <1>b, <1>2 DEF Outcome
  <2>3. d0.number = attempts'[r]
    BY <1>b, <1>1, <1>3
  <2> QED
    BY <1>3, <2>1, <2>2, <2>3 DEF Truthful
<1>9. GivenUp(r)'
  BY <1>1, <1>2, <1>3, ConstantsAssumption DEF GivenUp, Outcome, Closed
<1>10. ASSUME NEW n \in Notes, n # r PROVE RowInv(n)'
  <2>1. /\ deliveries'[n] = deliveries[n] /\ attempts'[n] = attempts[n]
        /\ outbox'[n] = outbox[n]
    BY <1>a, <1>10 DEF Record, OutboxInv, TypeOK
  <2>2. RowInv(n)
    BY DEF OutboxInv
  <2> QED
    BY <2>1, <2>2 DEF RowInv, Numbered, Unrepeated, Truthful, GivenUp
<1> QED
  BY <1>5, <1>7, <1>8, <1>9, <1>10 DEF RowInv

-----------------------------------------------------------------------------
(* The workers. *)

(* A recorded number moves only the fence of its own row, and forward. *)
LEMMA RecordMoves ==
  ASSUME OutboxInv, NEW w \in Workers, Record(w), NEW n \in Notes
  PROVE  /\ attempts[n] \in Nat
         /\ n = worker[w].note => attempts'[n] = attempts[n] + 1
         /\ n # worker[w].note => /\ attempts'[n] = attempts[n]
                                  /\ outbox'[n] = outbox[n]
                                  /\ deliveries'[n] = deliveries[n]
<1>1. worker[w].number = attempts[worker[w].note] + 1
  BY RecordIsNext
<1> QED
  BY <1>1 DEF Record, OutboxInv, TypeOK

(* Where the worker v may come from, and with which number. *)
LEMMA HandsStep ==
  ASSUME OutboxInv, [Next]_vars, NEW v \in Workers
  PROVE  \/ worker'[v] = worker[v] /\ UNCHANGED rowVars
         \/ /\ worker'[v] = worker[v] /\ attempts' = attempts
            /\ \/ \E w \in Workers : \/ Collect(w) \/ Reconcile(w)
                                     \/ \E n \in Notes : Claim(w, n)
               \/ \E n \in Notes : Expire(n)
         \/ \E w \in Workers : w # v /\ Record(w) /\ worker'[v] = worker[v]
         \/ worker'[v] = Idle /\ (Record(v) \/ UNCHANGED rowVars)
         \/ \E n \in Notes : Claim(v, n) /\ worker'[v].step = "read" /\ worker'[v].note = n
         \/ /\ worker[v].step = "read" /\ worker[v].note \in Notes
            /\ worker'[v].note = worker[v].note
            /\ worker'[v].number = attempts[worker[v].note] + 1 /\ UNCHANGED rowVars
         \/ /\ worker[v].step = "send" /\ worker'[v].step = "record"
            /\ worker'[v].note = worker[v].note
            /\ worker'[v].number = worker[v].number /\ UNCHANGED rowVars
<1>1. worker \in [Workers -> Holding]
  BY DEF OutboxInv, TypeOK
<1>2. ASSUME \/ \E e \in Events : Occur(e)
             \/ \E a \in Approvals : Ask(a) \/ Answer(a)
             \/ UNCHANGED vars
      PROVE  worker'[v] = worker[v] /\ UNCHANGED rowVars
  BY <1>2 DEF Occur, Ask, Answer, vars, rowVars
<1>3. ASSUME NEW w \in Workers, Collect(w) \/ Reconcile(w)
      PROVE  worker'[v] = worker[v] /\ attempts' = attempts
  BY <1>3 DEF Collect, Reconcile
<1>4. ASSUME NEW n \in Notes, Expire(n) PROVE worker'[v] = worker[v] /\ attempts' = attempts
  BY <1>4 DEF Expire
<1>5. ASSUME NEW w \in Workers, w # v, NEW n \in Notes, Claim(w, n)
      PROVE  worker'[v] = worker[v] /\ attempts' = attempts
  BY <1>1, <1>5 DEF Claim
<1>6. ASSUME NEW w \in Workers, w # v, Read(w) \/ Send(w) \/ RecordRefused(w) \/ Die(w)
      PROVE  worker'[v] = worker[v] /\ UNCHANGED rowVars
  BY <1>1, <1>6 DEF Read, Send, RecordRefused, Die, rowVars
<1>7. ASSUME NEW w \in Workers, w # v, Record(w) PROVE worker'[v] = worker[v]
  BY <1>1, <1>7 DEF Record
<1>8. ASSUME Record(v) \/ RecordRefused(v) \/ Die(v)
      PROVE  worker'[v] = Idle /\ (Record(v) \/ UNCHANGED rowVars)
  BY <1>1, <1>8 DEF Record, RecordRefused, Die, rowVars
<1>9. ASSUME NEW n \in Notes, Claim(v, n)
      PROVE  worker'[v].step = "read" /\ worker'[v].note = n
  BY <1>1, <1>9 DEF Claim, Idle
<1>10. ASSUME Read(v)
       PROVE  /\ worker[v].step = "read" /\ worker[v].note \in Notes
              /\ worker'[v].note = worker[v].note
              /\ worker'[v].number = attempts[worker[v].note] + 1 /\ UNCHANGED rowVars
  BY <1>1, <1>10 DEF Read, Holding, rowVars, OutboxInv, TypeOK
<1>11. ASSUME Send(v)
       PROVE  /\ worker[v].step = "send" /\ worker'[v].step = "record"
              /\ worker'[v].note = worker[v].note
              /\ worker'[v].number = worker[v].number /\ UNCHANGED rowVars
  BY <1>1, <1>11 DEF Send, Holding, rowVars
<1> QED
  BY <1>2, <1>3, <1>4, <1>5, <1>6, <1>7, <1>8, <1>9, <1>10, <1>11 DEF Next, Deliver

(* What a worker has in hand stays within the fence. *)
LEMMA FencedStep ==
  ASSUME OutboxInv, [Next]_vars
  PROVE  Fenced'
<1> SUFFICES ASSUME NEW v \in Workers, worker'[v].step \in {"send", "record"}
             PROVE  worker'[v].number \in 1 .. attempts'[worker'[v].note] + 1
  BY DEF Fenced
<1>1. /\ worker \in [Workers -> Holding] /\ attempts \in [Notes -> Nat]
      /\ worker[v].step # "idle" => worker[v].note \in Notes
  BY DEF OutboxInv, TypeOK
<1>2. worker[v].step \in {"send", "record"} =>
        worker[v].number \in 1 .. attempts[worker[v].note] + 1
  BY DEF OutboxInv, Fenced
<1>3. CASE worker'[v] = worker[v] /\ attempts' = attempts
  BY <1>2, <1>3
<1>4. ASSUME NEW w \in Workers, Record(w), worker'[v] = worker[v]
      PROVE  worker'[v].number \in 1 .. attempts'[worker'[v].note] + 1
  <2>1. worker[v].note \in Notes
    BY <1>1, <1>4
  <2>2. \/ attempts'[worker[v].note] = attempts[worker[v].note]
        \/ attempts'[worker[v].note] = attempts[worker[v].note] + 1
    BY <1>4, <2>1, RecordMoves
  <2> QED
    BY <1>1, <1>2, <1>4, <2>1, <2>2
<1>5. CASE worker'[v] = Idle
  BY <1>5 DEF Idle
<1>6. CASE /\ worker[v].step = "read" /\ worker[v].note \in Notes
           /\ worker'[v].note = worker[v].note
           /\ worker'[v].number = attempts[worker[v].note] + 1 /\ UNCHANGED rowVars
  BY <1>1, <1>6 DEF rowVars
<1>7. CASE /\ worker[v].step = "send" /\ worker'[v].note = worker[v].note
           /\ worker'[v].number = worker[v].number /\ UNCHANGED rowVars
  BY <1>2, <1>7 DEF rowVars
<1> QED
  BY <1>3, <1>4, <1>5, <1>6, <1>7, HandsStep DEF rowVars

(* A closed row gains no worker that could still write it; one that does    *)
(* write it has its attempt on record then.                                *)
LEMMA ClosedGainsNone ==
  ASSUME OutboxInv, [Next]_vars, NEW n \in Notes, outbox[n] \in Closed
  PROVE  Overtaking(n)' \subseteq Overtaking(n)
<1> SUFFICES ASSUME NEW v \in Workers, worker'[v].note = n,
                    \/ worker'[v].step = "read"
                    \/ /\ worker'[v].step \in {"send", "record"}
                       /\ worker'[v].number = attempts'[n] + 1
             PROVE  v \in Overtaking(n)
  BY DEF Overtaking
<1>1. /\ worker \in [Workers -> Holding] /\ attempts \in [Notes -> Nat]
  BY DEF OutboxInv, TypeOK
<1>2. CASE worker'[v] = worker[v] /\ attempts'[n] = attempts[n]
  BY <1>2 DEF Overtaking
<1>3. ASSUME NEW w \in Workers, Record(w), worker'[v] = worker[v], attempts'[n] # attempts[n]
      PROVE  v \in Overtaking(n)
  <2>1. attempts'[n] = attempts[n] + 1
    BY <1>3, RecordMoves
  <2>2. worker[v].step \in {"send", "record"} => worker[v].number \in 1 .. attempts[n] + 1
    BY <1>3 DEF OutboxInv, Fenced
  <2>3. worker[v].step = "read"
    BY <1>1, <1>3, <2>1, <2>2
  <2> QED
    BY <1>3, <2>3 DEF Overtaking
<1>4. CASE worker'[v] = Idle
  BY <1>4 DEF Idle
<1>5. ASSUME NEW m \in Notes, Claim(v, m), worker'[v].note = m PROVE FALSE
  BY <1>5 DEF Claim, Eligible, Due, Reconciled, Claimable, Closed, OutboxInv, TypeOK
<1>6. CASE worker[v].step = "read" /\ worker'[v].note = worker[v].note
  BY <1>6 DEF Overtaking
<1>7. CASE /\ worker[v].step = "send" /\ worker'[v].step = "record"
           /\ worker'[v].note = worker[v].note
           /\ worker'[v].number = worker[v].number /\ UNCHANGED rowVars
  BY <1>7 DEF Overtaking, rowVars
<1> QED
  BY <1>2, <1>3, <1>4, <1>5, <1>6, <1>7, HandsStep DEF rowVars

(* The number of attempts stays below its bound. *)
LEMMA NumbersStep ==
  ASSUME OutboxInv, [Next]_vars, NEW n \in Notes, Numbers(n)
  PROVE  Numbers(n)'
<1>1. /\ IsFiniteSet(Workers) /\ MaxAttempts \in Nat
      /\ attempts[n] \in Nat /\ Cardinality(Workers) \in Nat
  BY ConstantsAssumption, FS_CardinalityType DEF OutboxInv, TypeOK
<1>2. /\ Overtaking(n) \subseteq Workers /\ Overtaking(n)' \subseteq Workers
  BY DEF Overtaking
<1>3. /\ IsFiniteSet(Overtaking(n)) /\ IsFiniteSet(Overtaking(n)')
      /\ Cardinality(Overtaking(n)) \in Nat /\ Cardinality(Overtaking(n)') \in Nat
  BY <1>1, <1>2, FS_Subset, FS_CardinalityType
<1>4. ASSUME NEW w \in Workers, Record(w), worker[w].note = n
      PROVE  Numbers(n)'
  <2>1. attempts'[n] = attempts[n] + 1
    BY <1>4, RecordMoves
  <2>2. w \notin Overtaking(n)'
    BY <1>4 DEF Record, Overtaking, Idle, OutboxInv, TypeOK
  <2>3. ASSUME NEW S, IsFiniteSet(S), w \in S, Overtaking(n)' \subseteq S
        PROVE  Cardinality(S) \in Nat /\ Cardinality(Overtaking(n)') <= Cardinality(S) - 1
    <3>1. /\ IsFiniteSet(S \ {w}) /\ Cardinality(S \ {w}) = Cardinality(S) - 1
          /\ Cardinality(S) \in Nat
      BY <2>3, FS_RemoveElement, FS_CardinalityType
    <3>2. Overtaking(n)' \subseteq S \ {w}
      BY <2>2, <2>3
    <3> QED
      BY <3>1, <3>2, FS_Subset
  <2>4. CASE attempts[n] >= MaxAttempts
    <3>1. outbox[n] \in Closed
      BY <2>4 DEF OutboxInv, RowInv, GivenUp
    <3>2. w \in Overtaking(n)
      BY <1>4, RecordIsNext DEF Record, Overtaking
    <3>3. Cardinality(Overtaking(n)') <= Cardinality(Overtaking(n)) - 1
      BY <1>3, <2>3, <3>1, <3>2, ClosedGainsNone
    <3> QED
      BY <1>1, <1>3, <2>1, <2>4, <3>3 DEF Numbers
  <2>5. CASE attempts[n] < MaxAttempts
    <3>1. Cardinality(Overtaking(n)') <= Cardinality(Workers) - 1
      BY <1>1, <1>2, <2>3
    <3> QED
      BY <1>1, <1>3, <2>1, <2>5, <3>1 DEF Numbers
  <2> QED
    BY <1>1, <2>4, <2>5
<1>5. CASE attempts'[n] = attempts[n]
  <2> SUFFICES ASSUME attempts[n] >= MaxAttempts
               PROVE  attempts[n] + Cardinality(Overtaking(n)')
                        < MaxAttempts + Cardinality(Workers)
    BY <1>5 DEF Numbers
  <2>1. outbox[n] \in Closed
    BY DEF OutboxInv, RowInv, GivenUp
  <2>2. Cardinality(Overtaking(n)') <= Cardinality(Overtaking(n))
    BY <1>3, <2>1, ClosedGainsNone, FS_Subset
  <2> QED
    BY <1>1, <1>3, <2>2 DEF Numbers
<1>6. ASSUME ~ \E w \in Workers : Record(w) PROVE attempts' = attempts
  BY <1>6 DEF Next, Deliver, Occur, Ask, Answer, Collect, Reconcile, Claim, Read, Send,
     RecordRefused, Die, Expire, vars, rowVars
<1> QED
  BY <1>4, <1>5, <1>6, RecordMoves

-----------------------------------------------------------------------------
(* The invariant is kept. *)
LEMMA OutboxStep ==
  ASSUME OutboxInv, [Next]_vars
  PROVE  OutboxInv'
<1>1. TypeOK'
  BY TypeStep DEF OutboxInv
<1>2. Fenced'
  BY FencedStep
<1>3. \A n \in Notes : RowInv(n)'
  <2>1. ASSUME NEW w \in Workers, Record(w) PROVE \A n \in Notes : RowInv(n)'
    BY <2>1, RecordExtends
  <2>2. ASSUME \/ \E w \in Workers : Collect(w) \/ Reconcile(w) \/ \E n \in Notes : Claim(w, n)
               \/ \E n \in Notes : Expire(n)
        PROVE  \A n \in Notes : RowInv(n)'
    <3>1. attempts' = attempts /\ deliveries' = deliveries
      BY <2>2 DEF Collect, Reconcile, Claim, Expire
    <3> QED
      BY <2>2, <3>1, OpenMoves, RowsKept
  <2>3. ASSUME UNCHANGED rowVars PROVE \A n \in Notes : RowInv(n)'
    BY <2>3, RowsKept DEF rowVars
  <2>4. ASSUME \/ \E e \in Events : Occur(e)
               \/ \E a \in Approvals : Ask(a) \/ Answer(a)
               \/ \E w \in Workers : Read(w) \/ Send(w) \/ RecordRefused(w) \/ Die(w)
               \/ UNCHANGED vars
        PROVE  UNCHANGED rowVars
    BY <2>4 DEF Occur, Ask, Answer, Read, Send, RecordRefused, Die, vars, rowVars
  <2> QED
    BY <2>1, <2>2, <2>3, <2>4 DEF Next, Deliver
<1> QED
  BY <1>1, <1>2, <1>3 DEF OutboxInv

LEMMA OutboxAlways == Spec => []HistoryInv
<1>1. Init => HistoryInv
  <2> SUFFICES ASSUME Init PROVE HistoryInv
    OBVIOUS
  <2>1. TypeOK
    BY ConstantsAssumption DEF Init, TypeOK, Idle, Holding
  <2>2. Fenced
    BY DEF Init, Fenced, Idle
  <2>3. \A n \in Notes : RowInv(n)
    BY ConstantsAssumption
    DEF Init, RowInv, Numbered, Unrepeated, Truthful, GivenUp, Closed
  <2>4. \A n \in Notes : Numbers(n)
    BY ConstantsAssumption DEF Init, Numbers
  <2> QED
    BY <2>1, <2>2, <2>3, <2>4 DEF OutboxInv, HistoryInv
<1>2. HistoryInv /\ [Next]_vars => HistoryInv'
  BY OutboxStep, NumbersStep DEF HistoryInv
<1> QED
  BY <1>1, <1>2, PTL DEF Spec

(* The attempts on record tell the row's status (finish_delivery) and stay  *)
(* below max_attempts and one for each other worker, for any number of     *)
(* workers, however their claims, late answers and expired leases overlap. *)
THEOREM HistoryIsKept == Spec => []HistoryMatchesRow
<1>1. HistoryInv => HistoryMatchesRow
  <2> SUFFICES ASSUME OutboxInv, \A n \in Notes : Numbers(n), NEW n \in Notes
               PROVE  /\ {d.number : d \in deliveries[n]} = 1 .. attempts[n]
                      /\ Unrepeated(n) /\ Truthful(n) /\ GivenUp(n)
                      /\ attempts[n] < MaxAttempts + Cardinality(Workers)
    BY DEF HistoryInv, HistoryMatchesRow, Unrepeated, Truthful, GivenUp
  <2>1. RowInv(n)
    BY DEF OutboxInv
  <2>2. /\ attempts[n] \in Nat /\ MaxAttempts \in Nat
        /\ Cardinality(Workers) \in Nat /\ Workers # {}
    BY ConstantsAssumption, FS_CardinalityType DEF OutboxInv, TypeOK
  <2>3. Cardinality(Workers) # 0
    BY <2>2, ConstantsAssumption, FS_EmptySet
  <2>4. Overtaking(n) \subseteq Workers
    BY DEF Overtaking
  <2>5. Cardinality(Overtaking(n)) \in Nat
    BY <2>4, ConstantsAssumption, FS_Subset, FS_CardinalityType
  <2>6. attempts[n] < MaxAttempts + Cardinality(Workers)
    BY <2>2, <2>3, <2>5 DEF Numbers
  <2> QED
    BY <2>1, <2>6 DEF RowInv, Numbered
<1> QED
  BY <1>1, OutboxAlways, PTL

(* A row that is delivered or given up is taken up by nobody, and rewritten  *)
(* only by a worker that had claimed it before (claim_one,                 *)
(* finish_delivery): the number of any other is on record, and UNIQUE      *)
(* refuses it.                                                             *)
THEOREM ClosedIsFinal == Spec => ClosedUnlessOvertaken
<1> DEFINE Kept == \A n \in Notes : outbox[n] \in Closed =>
                     /\ Overtaking(n)' \subseteq Overtaking(n)
                     /\ Overtaking(n) = {} =>
                          outbox'[n] = outbox[n] /\ deliveries'[n] = deliveries[n]
<1>1. HistoryInv /\ [Next]_vars => [Kept]_vars
  <2> SUFFICES ASSUME OutboxInv, [Next]_vars, NEW n \in Notes, outbox[n] \in Closed
               PROVE  /\ Overtaking(n)' \subseteq Overtaking(n)
                      /\ Overtaking(n) = {} =>
                           outbox'[n] = outbox[n] /\ deliveries'[n] = deliveries[n]
    BY DEF HistoryInv
  <2>1. ASSUME NEW w \in Workers, Record(w), Overtaking(n) = {}
        PROVE  outbox'[n] = outbox[n] /\ deliveries'[n] = deliveries[n]
    <3>1. worker[w].note # n
      BY <2>1, RecordIsNext DEF Record, Overtaking
    <3> QED
      BY <2>1, <3>1, RecordMoves
  <2>2. ASSUME \/ \E w \in Workers : Collect(w) \/ Reconcile(w) \/ \E m \in Notes : Claim(w, m)
               \/ \E m \in Notes : Expire(m)
        PROVE  outbox'[n] = outbox[n] /\ deliveries'[n] = deliveries[n]
    <3>1. deliveries' = deliveries
      BY <2>2 DEF Collect, Reconcile, Claim, Expire
    <3> QED
      BY <2>2, <3>1, OpenMoves
  <2>3. ASSUME \/ \E e \in Events : Occur(e)
               \/ \E a \in Approvals : Ask(a) \/ Answer(a)
               \/ \E w \in Workers : Read(w) \/ Send(w) \/ RecordRefused(w) \/ Die(w)
               \/ UNCHANGED vars
        PROVE  UNCHANGED rowVars
    BY <2>3 DEF Occur, Ask, Answer, Read, Send, RecordRefused, Die, vars, rowVars
  <2> QED
    BY <2>1, <2>2, <2>3, ClosedGainsNone DEF Next, Deliver, rowVars
<1> QED
  BY <1>1, OutboxAlways, PTL DEF Spec, ClosedUnlessOvertaken
=============================================================================
