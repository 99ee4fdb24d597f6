------------------------ MODULE ReferenceRetryProofs ------------------------
(***************************************************************************)
(* How long a transaction waits for its reference, and which dates its row *)
(* gets, for any rows and replicas, any clocks and any number of attempts. *)
(***************************************************************************)
EXTENDS ReferenceRetry, TLAPS

\* What is known of a row that waits: when it is tried next, and what it is dated.
Scheduled ==
  \A x \in Rows :
    /\ created[x] <= now
    /\ status[x] = "waiting" => next[x] - created[x] >= patience[x]
    /\ status[x] = "rejected" => now - created[x] >= patience[x]

\* A row that a replica has locked is due.
LockedAreDue == \A r \in Replicas : work[r] # NONE => next[work[r]] <= now

\* A row is locked by one replica.
LocksExclude == \A r, s \in Replicas : r # s /\ work[r] # NONE => work[r] # work[s]

IInv == TypeOK /\ Scheduled /\ LockedAreDue /\ LocksExclude

LEMMA DelayBounds ==
  ASSUME NEW n \in Nat \ {0}
  PROVE  Delay(n) \in Nat /\ Delay(n) >= Second
<1> DEFINE k == IF n < Cap THEN n ELSE Cap
<1>1. k \in 1..8
  BY DelaysAssumption
<1>2. Doubled[k] \in {1, 2, 4, 8, 16, 32, 64, 128}
  BY <1>1 DEF Doubled
<1>3. Delay(n) = Second * Doubled[k]
  BY DEF Delay
<1>4. QED
  BY <1>2, <1>3, DelaysAssumption

LEMMA InitIInv == Init => IInv
<1> SUFFICES ASSUME Init PROVE IInv
  OBVIOUS
<1>1. TypeOK
  <2>1. 0 \in 0..(MaxAttempts - 1)
    BY DelaysAssumption
  <2>2. QED
    BY <2>1 DEF Init, TypeOK
<1>2. Scheduled /\ LockedAreDue /\ LocksExclude
  BY DEF Init, Scheduled, LockedAreDue, LocksExclude
<1>3. QED
  BY <1>1, <1>2 DEF IInv

LEMMA TypeStep == TypeOK /\ LocksExclude /\ [Next]_vars => TypeOK'
<1> SUFFICES ASSUME TypeOK, LocksExclude, [Next]_vars PROVE TypeOK'
  OBVIOUS
<1> USE DelaysAssumption, ClocksAssumption, NoneAssumption DEF TypeOK, LocksExclude, row, Clock
<1>1. CASE Tick
  BY <1>1 DEF Tick
<1>2. ASSUME NEW x \in Rows, Begin(x) PROVE TypeOK'
  <2>1. /\ status' \in [Rows -> {"none", "begun", "waiting", "settled", "rejected"}]
        /\ created' \in [Rows -> Nat] /\ updated' \in [Rows -> Int]
        /\ UNCHANGED <<now, known, next, patience, attempts, work>>
    BY <1>2 DEF Begin
  <2>2. \A y \in Rows : status'[y] = "waiting" <=> status[y] = "waiting"
    BY <1>2 DEF Begin
  <2>3. QED
    BY <2>1, <2>2
<1>3. ASSUME NEW x \in Rows, NEW r \in Replicas, Record(r, x) PROVE TypeOK'
  <2>1. Clock(r) + Second \in Int /\ Second - Lag \in Int
    OBVIOUS
  <2>2. /\ status' \in [Rows -> {"none", "begun", "waiting", "settled", "rejected"}]
        /\ next' \in [Rows -> Int] /\ patience' \in [Rows -> Int]
        /\ UNCHANGED <<now, created, updated, known, attempts, work>>
    BY <1>3, <2>1 DEF Record
  <2>3. QED
    BY <1>3, <2>2 DEF Record
<1>4. ASSUME NEW x \in Rows, Settle(x) PROVE TypeOK'
  BY <1>4 DEF Settle
<1>5. ASSUME NEW r \in Replicas, Select(r) PROVE TypeOK'
  BY <1>5 DEF Select, Due
<1>6. ASSUME NEW r \in Replicas, Decide(r) PROVE TypeOK'
  BY <1>6 DEF Decide, Write
<1>7. ASSUME NEW r \in Replicas, Postpone(r) PROVE TypeOK'
  <2> DEFINE x == work[r] n == attempts[x] + 1
  <2>1. x \in Rows /\ n \in 1..MaxAttempts /\ n < MaxAttempts
    BY <1>7 DEF Postpone, Fruitless
  <2>2. Delay(n) \in Nat
    BY <2>1, DelayBounds
  <2>3. QED
    BY <1>7, <2>1, <2>2 DEF Postpone, Write
<1>8. ASSUME NEW r \in Replicas, GiveUp(r) PROVE TypeOK'
  BY <1>8 DEF GiveUp, Fruitless, Write
<1>9. ASSUME NEW r \in Replicas, Abort(r) PROVE TypeOK'
  BY <1>9 DEF Abort
<1>10. CASE UNCHANGED vars
  BY <1>10 DEF vars
<1>11. QED
  BY <1>1, <1>2, <1>3, <1>4, <1>5, <1>6, <1>7, <1>8, <1>9, <1>10 DEF Next

\* A step writes at most one row, and that row is locked or not yet recorded.
LEMMA LocksStep == TypeOK /\ LocksExclude /\ LockedAreDue /\ [Next]_vars
                     => LocksExclude' /\ LockedAreDue'
<1> SUFFICES ASSUME TypeOK, LocksExclude, LockedAreDue, [Next]_vars
             PROVE  LocksExclude' /\ LockedAreDue'
  OBVIOUS
<1> USE NoneAssumption DEF TypeOK, LocksExclude, LockedAreDue, row
<1>1. CASE Tick
  BY <1>1 DEF Tick
<1>2. ASSUME NEW x \in Rows, Begin(x) PROVE LocksExclude' /\ LockedAreDue'
  BY <1>2 DEF Begin
<1>3. ASSUME NEW x \in Rows, NEW r \in Replicas, Record(r, x)
      PROVE  LocksExclude' /\ LockedAreDue'
  BY <1>3 DEF Record
<1>4. ASSUME NEW x \in Rows, Settle(x) PROVE LocksExclude' /\ LockedAreDue'
  BY <1>4 DEF Settle
<1>5. ASSUME NEW r \in Replicas, Select(r) PROVE LocksExclude' /\ LockedAreDue'
  BY <1>5 DEF Select, Due, Locked
<1>6. ASSUME NEW r \in Replicas, Decide(r) \/ GiveUp(r) PROVE LocksExclude' /\ LockedAreDue'
  BY <1>6 DEF Decide, GiveUp, Write
<1>7. ASSUME NEW r \in Replicas, Postpone(r) PROVE LocksExclude' /\ LockedAreDue'
  BY <1>7 DEF Postpone, Fruitless, Write
<1>8. ASSUME NEW r \in Replicas, Abort(r) PROVE LocksExclude' /\ LockedAreDue'
  BY <1>8 DEF Abort
<1>9. CASE UNCHANGED vars
  BY <1>9 DEF vars
<1>10. QED
  BY <1>1, <1>2, <1>3, <1>4, <1>5, <1>6, <1>7, <1>8, <1>9 DEF Next

LEMMA ScheduledStep == TypeOK /\ LockedAreDue /\ Scheduled /\ [Next]_vars => Scheduled'
<1> SUFFICES ASSUME TypeOK, LockedAreDue, Scheduled, [Next]_vars PROVE Scheduled'
  OBVIOUS
<1> USE DelaysAssumption, ClocksAssumption, NoneAssumption
    DEF TypeOK, LockedAreDue, Scheduled, row, Clock
<1>1. CASE Tick
  BY <1>1 DEF Tick
<1>2. ASSUME NEW x \in Rows, Begin(x) PROVE Scheduled'
  BY <1>2 DEF Begin
<1>3. ASSUME NEW x \in Rows, NEW r \in Replicas, Record(r, x) PROVE Scheduled'
  BY <1>3 DEF Record
<1>4. ASSUME NEW x \in Rows, Settle(x) PROVE Scheduled'
  BY <1>4 DEF Settle
<1>5. ASSUME NEW r \in Replicas, Select(r) PROVE Scheduled'
  BY <1>5 DEF Select
<1>6. ASSUME NEW r \in Replicas, Decide(r) PROVE Scheduled'
  BY <1>6 DEF Decide, Write
<1>7. ASSUME NEW r \in Replicas, Postpone(r) PROVE Scheduled'
  <2> DEFINE x == work[r] n == attempts[x] + 1
  <2>1. x \in Rows /\ n \in 1..MaxAttempts /\ status[x] = "waiting" /\ next[x] <= now
    BY <1>7 DEF Postpone, Fruitless
  <2>2. Delay(n) \in Nat /\ Delay(n) >= Second
    BY <2>1, DelayBounds
  <2>3. /\ next'[x] = now + Skew[r] + Delay(n) /\ patience'[x] = patience[x] + Delay(n) - Lag
        /\ status'[x] = "waiting" /\ created'[x] = created[x]
    BY <1>7, <2>1 DEF Postpone, Write
  <2>4. next'[x] - created'[x] >= patience'[x]
    BY <2>1, <2>2, <2>3
  <2>5. QED
    BY <1>7, <2>1, <2>2, <2>3, <2>4 DEF Postpone, Write
<1>8. ASSUME NEW r \in Replicas, GiveUp(r) PROVE Scheduled'
  BY <1>8 DEF GiveUp, Fruitless, Write
<1>9. ASSUME NEW r \in Replicas, Abort(r) PROVE Scheduled'
  BY <1>9 DEF Abort
<1>10. CASE UNCHANGED vars
  BY <1>10 DEF vars
<1>11. QED
  BY <1>1, <1>2, <1>3, <1>4, <1>5, <1>6, <1>7, <1>8, <1>9, <1>10 DEF Next

LEMMA Inductive == Spec => []IInv
<1>1. IInv /\ [Next]_vars => IInv'
  BY TypeStep, LocksStep, ScheduledStep DEF IInv
<1>2. QED
  BY InitIInv, <1>1, PTL DEF Spec

\* The variables of ReferenceRetry have their types, and a row is given up at its last
\* attempt.
THEOREM RetryTypeCorrect == Spec => []TypeOK
BY Inductive, PTL DEF IInv

\* ResolvePendingReference gives a transaction up only after every delay of retryDelay,
\* less what the clocks of its replicas are behind.
THEOREM GivingUpTakesItsTime == Spec => []GivenUpInTime
<1>1. IInv => GivenUpInTime
  BY DEF IInv, Scheduled, GivenUpInTime
<1>2. QED
  BY <1>1, Inductive, PTL

-----------------------------------------------------------------------------
\* The dates, when no clock is behind by more than half a second.

Dated ==
  \A x \in Rows :
    /\ updated[x] >= created[x]
    /\ status[x] = "waiting" => next[x] >= created[x] + Second - Lag

LEMMA InitDated == Init => Dated
<1> SUFFICES ASSUME Init, NEW x \in Rows
             PROVE  updated[x] >= created[x]
                    /\ (status[x] = "waiting" => next[x] >= created[x] + Second - Lag)
  BY DEF Dated
<1>1. updated[x] = 0 /\ created[x] = 0 /\ status[x] = "none"
  BY DEF Init
<1>2. 0 >= 0
  OBVIOUS
<1>3. updated[x] >= created[x]
  BY <1>1, <1>2
<1>4. QED
  BY <1>1, <1>3

LEMMA DatedStep ==
  ASSUME 2 * Lag <= Second, IInv, Dated, [Next]_vars
  PROVE  Dated'
<1> USE DelaysAssumption, ClocksAssumption, NoneAssumption
    DEF IInv, TypeOK, LockedAreDue, Dated, row, Clock
<1>1. CASE Tick
  BY <1>1 DEF Tick
<1>2. ASSUME NEW x \in Rows, Begin(x) PROVE Dated'
  BY <1>2 DEF Begin
<1>3. ASSUME NEW x \in Rows, NEW r \in Replicas, Record(r, x) PROVE Dated'
  <2>1. created[x] <= now
    BY DEF Scheduled
  <2>2. QED
    BY <1>3, <2>1 DEF Record
<1>4. ASSUME NEW x \in Rows, Settle(x) PROVE Dated'
  BY <1>4 DEF Settle
<1>5. ASSUME NEW r \in Replicas, Select(r) PROVE Dated'
  BY <1>5 DEF Select
<1>6. ASSUME NEW r \in Replicas, work[r] # NONE
      PROVE  /\ work[r] \in Rows /\ status[work[r]] = "waiting"
             /\ Clock(r) >= created[work[r]]
             /\ now + Skew[r] + Second >= created[work[r]] + Second - Lag
  <2>1. work[r] \in Rows /\ status[work[r]] = "waiting" /\ next[work[r]] <= now
    BY <1>6
  <2>2. next[work[r]] >= created[work[r]] + Second - Lag /\ Skew[r] >= -Lag
    BY <2>1
  <2>3. /\ next[work[r]] \in Int /\ created[work[r]] \in Nat /\ now \in Nat
        /\ Skew[r] \in Int /\ Lag \in Nat /\ Second \in Nat
    BY <2>1
  <2>4. QED
    BY <2>1, <2>2, <2>3
<1>7. ASSUME NEW r \in Replicas, Decide(r) \/ GiveUp(r) PROVE Dated'
  BY <1>6, <1>7 DEF Decide, GiveUp, Fruitless, Write
<1>8. ASSUME NEW r \in Replicas, Postpone(r) PROVE Dated'
  <2> DEFINE x == work[r] n == attempts[x] + 1
  <2>1. work[r] # NONE /\ n \in 1..MaxAttempts
    BY <1>8 DEF Postpone, Fruitless
  <2>2. Delay(n) \in Nat /\ Delay(n) >= Second
    BY <2>1, DelayBounds
  <2>3. /\ next'[x] = now + Skew[r] + Delay(n) /\ updated'[x] = now + Skew[r]
        /\ created'[x] = created[x] /\ x \in Rows
    BY <1>6, <1>8, <2>1 DEF Postpone, Write
  <2>4. next'[x] >= created'[x] + Second - Lag /\ updated'[x] >= created'[x]
    <3>1. now + Skew[r] + Second >= created[x] + Second - Lag /\ now + Skew[r] >= created[x]
      BY <1>6, <2>1
    <3>2. QED
      BY <2>2, <2>3, <3>1
  <2>5. \A y \in Rows \ {x} : updated'[y] = updated[y] /\ next'[y] = next[y]
                              /\ status'[y] = status[y] /\ created'[y] = created[y]
    BY <1>8, <2>3 DEF Postpone, Write
  <2>6. QED
    BY <2>4, <2>5
<1>9. ASSUME NEW r \in Replicas, Abort(r) PROVE Dated'
  BY <1>9 DEF Abort
<1>10. CASE UNCHANGED vars
  BY <1>10 DEF vars
<1>11. QED
  BY <1>1, <1>2, <1>3, <1>4, <1>5, <1>7, <1>8, <1>9, <1>10 DEF Next

\* If no clock is behind the database's by more than half a second, the resolver never
\* dates a row before its creation.
THEOREM RowsStayReadable ==
  ASSUME 2 * Lag <= Second
  PROVE  Spec => []RowsAreReadable
<1>1. Init => Dated
  BY InitDated
<1>2. IInv /\ Dated /\ [Next]_vars => Dated'
  BY DatedStep
<1>3. Dated => RowsAreReadable
  BY DEF Dated, RowsAreReadable
<1>4. QED
  BY <1>1, <1>2, <1>3, Inductive, PTL DEF Spec
=============================================================================
