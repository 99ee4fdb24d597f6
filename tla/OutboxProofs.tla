---------------------------- MODULE OutboxProofs ----------------------------
(***************************************************************************)
(* What the publishers of the outbox do to it, for any transactions,       *)
(* events, publishers and size of a batch.                                 *)
(***************************************************************************)
EXTENDS Outbox, TLAPS

InHand(e) == \E p \in Publishers : e \in batch[p]

\* The rows that a publisher has locked are free; nobody else has locked them.
Locks ==
  \A p \in Publishers : pc[p] = "claim" =>
    \A e \in batch[p] :
      /\ e \notin leased /\ e \notin published
      /\ \A q \in Publishers \ {p} : pc[q] = "claim" => e \notin batch[q]

\* As long as nothing goes wrong with an event, one publisher has it, by its lease.
Leases ==
  \A p \in Publishers : pc[p] # "claim" =>
    \A e \in batch[p] \ troubled :
      /\ e \in leased /\ e \notin published
      /\ \A q \in Publishers \ {p} : e \notin batch[q]

\* What a publisher knows of the event at hand.
Hands ==
  \A p \in Publishers :
    /\ pc[p] = "idle" => batch[p] = {}
    /\ pc[p] = "mark" => current[p] \in sent
    /\ pc[p] = "retry" => current[p] \in troubled

\* An event that was handed over is marked next.
Marking ==
  \A e \in sent \ troubled : e \in published \/ \E p \in Publishers : pc[p] = "mark" /\ current[p] = e

\* A transaction that was committed before another began has the earlier date.
Dates ==
  /\ \A t \in Transactions : date[t] <= clock
  /\ \A e \in stored : date[TxOf[e]] > 0
  /\ \A t \in Transactions : \A e \in past[t] : e \in stored /\ date[TxOf[e]] < date[t]

\* An event that cannot be claimed is in the hands of a publisher or has had its trouble.
Accounted ==
  /\ \A e \in stored \ due : e \in troubled
  /\ \A e \in leased : e \in troubled \/ InHand(e)

\* What is true of the events handed over is true of those in hand.
Followed ==
  \A f \in stored : f \in sent \/ InHand(f) =>
    \A e \in past[TxOf[f]] : e \in sent \/ e \in troubled \/ InHand(e)

IInv == /\ TypeOK /\ Locks /\ Leases /\ Hands /\ Marking /\ Dates /\ Accounted /\ Followed
        /\ PublishedWasSent /\ OnceUnlessTroubled

LEMMA InitIInv == Init => IInv
<1> SUFFICES ASSUME Init PROVE IInv
  OBVIOUS
<1>1. TypeOK
  BY DEF Init, TypeOK, Steps
<1>2. Locks /\ Leases /\ Hands /\ Marking
  BY DEF Init, Locks, Leases, Hands, Marking
<1>3. Dates /\ Accounted /\ Followed /\ PublishedWasSent /\ OnceUnlessTroubled
  BY DEF Init, Dates, Accounted, Followed, PublishedWasSent, OnceUnlessTroubled
<1>4. QED
  BY <1>1, <1>2, <1>3 DEF IInv

-----------------------------------------------------------------------------
\* The type.

LEMMA TypeStep == TypeOK /\ [Next]_vars => TypeOK'
<1> SUFFICES ASSUME TypeOK, [Next]_vars PROVE TypeOK'
  OBVIOUS
<1> USE DEF TypeOK, writers, table, local, Steps
<1>1. ASSUME NEW t \in Transactions, Begin(t) PROVE TypeOK'
  BY <1>1 DEF Begin
<1>2. ASSUME NEW t \in Transactions, Commit(t) PROVE TypeOK'
  BY <1>2 DEF Commit, Written
<1>3. ASSUME NEW p \in Publishers, Select(p) PROVE TypeOK'
  <2>1. PICK chosen \in SUBSET Claimable : batch' = [batch EXCEPT ![p] = chosen]
    BY <1>3 DEF Select
  <2>2. chosen \subseteq stored
    BY <2>1 DEF Claimable
  <2>3. QED
    BY <1>3, <2>1, <2>2 DEF Select
<1>4. ASSUME NEW p \in Publishers, Claim(p) PROVE TypeOK'
  BY <1>4 DEF Claim
<1>5. ASSUME NEW p \in Publishers, NEW e \in Events, Publish(p, e) \/ PublishFails(p, e)
      PROVE  TypeOK'
  <2>1. e \in stored
    BY <1>5 DEF Publish, PublishFails
  <2>2. sent' \subseteq stored /\ again' \subseteq sent'
    BY <1>5, <2>1 DEF Publish, PublishFails, HandOver
  <2>3. QED
    BY <1>5, <2>1, <2>2 DEF Publish, PublishFails
<1>6. ASSUME NEW p \in Publishers, Mark(p) \/ Retry(p) PROVE TypeOK'
  <2>1. current[p] \in stored
    BY <1>6 DEF Mark, Retry
  <2>2. Proceed(p) /\ due' \subseteq stored /\ leased' \subseteq stored /\ published' \subseteq stored
    BY <1>6, <2>1 DEF Mark, Retry
  <2>3. batch' \in [Publishers -> SUBSET stored] /\ pc' \in [Publishers -> Steps]
        /\ current' \in [Publishers -> Events \cup {NONE}]
    BY <2>2 DEF Proceed
  <2>4. \A q \in Publishers : pc'[q] \in {"mark", "retry"} => current'[q] \in batch'[q]
    BY <2>2 DEF Proceed
  <2>5. QED
    BY <2>2, <2>3, <2>4 DEF Proceed
<1>7. ASSUME NEW p \in Publishers, Abandon(p) PROVE TypeOK'
  BY <1>7 DEF Abandon
<1>8. ASSUME NEW e \in Events, LeaseEnds(e) \/ DelayEnds(e) PROVE TypeOK'
  BY <1>8 DEF LeaseEnds, DelayEnds
<1>9. CASE UNCHANGED vars
  BY <1>9 DEF vars
<1>10. QED
  BY <1>1, <1>2, <1>3, <1>4, <1>5, <1>6, <1>7, <1>8, <1>9 DEF Next, Calm, Trouble, Work

-----------------------------------------------------------------------------
\* The invariants.

LEMMA LocksStep == TypeOK /\ Locks /\ [Next]_vars => Locks'
<1> SUFFICES ASSUME TypeOK, Locks, [Next]_vars PROVE Locks'
  OBVIOUS
<1> USE DEF TypeOK, writers, table, local, Steps, Locks
<1>1. ASSUME NEW t \in Transactions, Begin(t) PROVE Locks'
  BY <1>1 DEF Begin
<1>2. ASSUME NEW t \in Transactions, Commit(t) PROVE Locks'
  BY <1>2 DEF Commit
<1>3. ASSUME NEW p \in Publishers, Select(p) PROVE Locks'
  BY <1>3 DEF Select, Claimable, Locked
<1>4. ASSUME NEW p \in Publishers, Claim(p) PROVE Locks'
  BY <1>4 DEF Claim
<1>5. ASSUME NEW p \in Publishers, NEW e \in Events, Publish(p, e) \/ PublishFails(p, e)
      PROVE  Locks'
  BY <1>5 DEF Publish, PublishFails, HandOver
<1>6. ASSUME NEW p \in Publishers, Mark(p) \/ Retry(p) PROVE Locks'
  BY <1>6 DEF Mark, Retry, Proceed, Locked
<1>7. ASSUME NEW p \in Publishers, Abandon(p) PROVE Locks'
  BY <1>7 DEF Abandon
<1>8. ASSUME NEW e \in Events, LeaseEnds(e) \/ DelayEnds(e) PROVE Locks'
  BY <1>8 DEF LeaseEnds, DelayEnds, Working
<1>9. CASE UNCHANGED vars
  BY <1>9 DEF vars
<1>10. QED
  BY <1>1, <1>2, <1>3, <1>4, <1>5, <1>6, <1>7, <1>8, <1>9 DEF Next, Calm, Trouble, Work

LEMMA LeasesStep == TypeOK /\ Locks /\ Leases /\ [Next]_vars => Leases'
<1> SUFFICES ASSUME TypeOK, Locks, Leases, [Next]_vars PROVE Leases'
  OBVIOUS
<1> USE DEF TypeOK, writers, table, local, Steps, Locks, Leases
<1>1. ASSUME NEW t \in Transactions, Begin(t) PROVE Leases'
  BY <1>1 DEF Begin
<1>2. ASSUME NEW t \in Transactions, Commit(t) PROVE Leases'
  BY <1>2 DEF Commit
<1>3. ASSUME NEW p \in Publishers, Select(p) PROVE Leases'
  BY <1>3 DEF Select, Claimable, Locked
<1>4. ASSUME NEW p \in Publishers, Claim(p) PROVE Leases'
  BY <1>4 DEF Claim
<1>5. ASSUME NEW p \in Publishers, NEW e \in Events, Publish(p, e) \/ PublishFails(p, e)
      PROVE  Leases'
  BY <1>5 DEF Publish, PublishFails, HandOver
<1>6. ASSUME NEW p \in Publishers, Mark(p) \/ Retry(p) PROVE Leases'
  BY <1>6 DEF Mark, Retry, Proceed
<1>7. ASSUME NEW p \in Publishers, Abandon(p) PROVE Leases'
  BY <1>7 DEF Abandon
<1>8. ASSUME NEW e \in Events, LeaseEnds(e) \/ DelayEnds(e) PROVE Leases'
  BY <1>8 DEF LeaseEnds, DelayEnds, Working
<1>9. CASE UNCHANGED vars
  BY <1>9 DEF vars
<1>10. QED
  BY <1>1, <1>2, <1>3, <1>4, <1>5, <1>6, <1>7, <1>8, <1>9 DEF Next, Calm, Trouble, Work

LEMMA HandsStep == TypeOK /\ Hands /\ [Next]_vars => Hands'
<1> SUFFICES ASSUME TypeOK, Hands, [Next]_vars PROVE Hands'
  OBVIOUS
<1> USE DEF TypeOK, writers, table, local, Steps, Hands
<1>1. ASSUME NEW t \in Transactions, Begin(t) PROVE Hands'
  BY <1>1 DEF Begin
<1>2. ASSUME NEW t \in Transactions, Commit(t) PROVE Hands'
  BY <1>2 DEF Commit
<1>3. ASSUME NEW p \in Publishers, Select(p) PROVE Hands'
  BY <1>3 DEF Select
<1>4. ASSUME NEW p \in Publishers, Claim(p) PROVE Hands'
  BY <1>4 DEF Claim
<1>5. ASSUME NEW p \in Publishers, NEW e \in Events, Publish(p, e) \/ PublishFails(p, e)
      PROVE  Hands'
  BY <1>5 DEF Publish, PublishFails, HandOver
<1>6. ASSUME NEW p \in Publishers, Mark(p) \/ Retry(p) PROVE Hands'
  BY <1>6 DEF Mark, Retry, Proceed
<1>7. ASSUME NEW p \in Publishers, Abandon(p) PROVE Hands'
  BY <1>7 DEF Abandon
<1>8. ASSUME NEW e \in Events, LeaseEnds(e) \/ DelayEnds(e) PROVE Hands'
  BY <1>8 DEF LeaseEnds, DelayEnds, Working
<1>9. CASE UNCHANGED vars
  BY <1>9 DEF vars
<1>10. QED
  BY <1>1, <1>2, <1>3, <1>4, <1>5, <1>6, <1>7, <1>8, <1>9 DEF Next, Calm, Trouble, Work

LEMMA MarkingStep == TypeOK /\ Leases /\ Marking /\ [Next]_vars => Marking'
<1> SUFFICES ASSUME TypeOK, Leases, Marking, [Next]_vars PROVE Marking'
  OBVIOUS
<1> USE DEF TypeOK, writers, table, local, Steps, Leases, Marking
<1>1. ASSUME NEW t \in Transactions, Begin(t) PROVE Marking'
  BY <1>1 DEF Begin
<1>2. ASSUME NEW t \in Transactions, Commit(t) PROVE Marking'
  BY <1>2 DEF Commit
<1>3. ASSUME NEW p \in Publishers, Select(p) PROVE Marking'
  BY <1>3 DEF Select
<1>4. ASSUME NEW p \in Publishers, Claim(p) PROVE Marking'
  BY <1>4 DEF Claim
<1>5. ASSUME NEW p \in Publishers, NEW e \in Events, Publish(p, e) \/ PublishFails(p, e)
      PROVE  Marking'
  BY <1>5 DEF Publish, PublishFails, HandOver
<1>6. ASSUME NEW p \in Publishers, Mark(p) \/ Retry(p) PROVE Marking'
  BY <1>6 DEF Mark, Retry, Proceed
<1>7. ASSUME NEW p \in Publishers, Abandon(p) PROVE Marking'
  BY <1>7 DEF Abandon
<1>8. ASSUME NEW e \in Events, LeaseEnds(e) \/ DelayEnds(e) PROVE Marking'
  BY <1>8 DEF LeaseEnds, DelayEnds, Working
<1>9. CASE UNCHANGED vars
  BY <1>9 DEF vars
<1>10. QED
  BY <1>1, <1>2, <1>3, <1>4, <1>5, <1>6, <1>7, <1>8, <1>9 DEF Next, Calm, Trouble, Work

LEMMA DatesStep == TypeOK /\ Dates /\ [Next]_vars => Dates'
<1> SUFFICES ASSUME TypeOK, Dates, [Next]_vars PROVE Dates'
  OBVIOUS
<1> USE DEF TypeOK, writers, table, local, Steps, Dates
<1>1. ASSUME NEW t \in Transactions, Begin(t) PROVE Dates'
  <2>1. clock' = clock + 1 /\ date'[t] = clock + 1 /\ past'[t] = stored /\ UNCHANGED stored
    BY <1>1 DEF Begin
  <2>2. \A u \in Transactions \ {t} : date'[u] = date[u] /\ past'[u] = past[u]
    BY <1>1 DEF Begin
  <2>3. \A u \in Transactions : date[u] \in Nat /\ date[u] <= clock /\ clock \in Nat
    OBVIOUS
  <2>4. \A e \in stored : TxOf[e] # t /\ TxOf[e] \in Transactions
    BY <1>1, EventsAssumption DEF Begin
  <2>5. \A u \in Transactions : date'[u] <= clock'
    BY <2>1, <2>2, <2>3
  <2>6. \A e \in stored' : date'[TxOf[e]] > 0
    BY <2>1, <2>2, <2>4
  <2>7. ASSUME NEW u \in Transactions, NEW e \in past'[u]
        PROVE  e \in stored' /\ date'[TxOf[e]] < date'[u]
    <3>1. CASE u = t
      BY <2>1, <2>2, <2>3, <2>4, <3>1
    <3>2. CASE u # t
      BY <2>1, <2>2, <2>4, <3>2
    <3>3. QED
      BY <3>1, <3>2
  <2>8. QED
    BY <2>5, <2>6, <2>7
<1>2. ASSUME NEW t \in Transactions, Commit(t) PROVE Dates'
  <2>1. UNCHANGED <<clock, date, past>> /\ stored \subseteq stored'
    BY <1>2 DEF Commit
  <2>2. \A e \in stored' : e \in stored \/ TxOf[e] = t
    BY <1>2 DEF Commit, Written
  <2>3. QED
    BY <1>2, <2>1, <2>2 DEF Commit
<1>3. ASSUME NEW p \in Publishers, Select(p) PROVE Dates'
  BY <1>3 DEF Select
<1>4. ASSUME NEW p \in Publishers, Claim(p) PROVE Dates'
  BY <1>4 DEF Claim
<1>5. ASSUME NEW p \in Publishers, NEW e \in Events, Publish(p, e) \/ PublishFails(p, e)
      PROVE  Dates'
  BY <1>5 DEF Publish, PublishFails, HandOver
<1>6. ASSUME NEW p \in Publishers, Mark(p) \/ Retry(p) PROVE Dates'
  BY <1>6 DEF Mark, Retry, Proceed
<1>7. ASSUME NEW p \in Publishers, Abandon(p) PROVE Dates'
  BY <1>7 DEF Abandon
<1>8. ASSUME NEW e \in Events, LeaseEnds(e) \/ DelayEnds(e) PROVE Dates'
  BY <1>8 DEF LeaseEnds, DelayEnds, Working
<1>9. CASE UNCHANGED vars
  BY <1>9 DEF vars
<1>10. QED
  BY <1>1, <1>2, <1>3, <1>4, <1>5, <1>6, <1>7, <1>8, <1>9 DEF Next, Calm, Trouble, Work

LEMMA AccountedStep == TypeOK /\ Hands /\ Accounted /\ [Next]_vars => Accounted'
<1> SUFFICES ASSUME TypeOK, Hands, Accounted, [Next]_vars PROVE Accounted'
  OBVIOUS
<1> USE DEF TypeOK, writers, table, local, Steps, Hands, Accounted, InHand
<1>1. ASSUME NEW t \in Transactions, Begin(t) PROVE Accounted'
  BY <1>1 DEF Begin
<1>2. ASSUME NEW t \in Transactions, Commit(t) PROVE Accounted'
  BY <1>2 DEF Commit
<1>3. ASSUME NEW p \in Publishers, Select(p) PROVE Accounted'
  BY <1>3 DEF Select
<1>4. ASSUME NEW p \in Publishers, Claim(p) PROVE Accounted'
  BY <1>4 DEF Claim
<1>5. ASSUME NEW p \in Publishers, NEW e \in Events, Publish(p, e) \/ PublishFails(p, e)
      PROVE  Accounted'
  BY <1>5 DEF Publish, PublishFails, HandOver
<1>6. ASSUME NEW p \in Publishers, Mark(p) \/ Retry(p) PROVE Accounted'
  BY <1>6 DEF Mark, Retry, Proceed
<1>7. ASSUME NEW p \in Publishers, Abandon(p) PROVE Accounted'
  BY <1>7 DEF Abandon
<1>8. ASSUME NEW e \in Events, LeaseEnds(e) \/ DelayEnds(e) PROVE Accounted'
  BY <1>8 DEF LeaseEnds, DelayEnds, Working
<1>9. CASE UNCHANGED vars
  BY <1>9 DEF vars
<1>10. QED
  BY <1>1, <1>2, <1>3, <1>4, <1>5, <1>6, <1>7, <1>8, <1>9 DEF Next, Calm, Trouble, Work

LEMMA PublishedStep == TypeOK /\ Hands /\ PublishedWasSent /\ [Next]_vars => PublishedWasSent'
<1> SUFFICES ASSUME TypeOK, Hands, PublishedWasSent, [Next]_vars PROVE PublishedWasSent'
  OBVIOUS
<1> USE DEF TypeOK, writers, table, local, Steps, Hands, PublishedWasSent
<1>1. ASSUME NEW t \in Transactions, Begin(t) PROVE PublishedWasSent'
  BY <1>1 DEF Begin
<1>2. ASSUME NEW t \in Transactions, Commit(t) PROVE PublishedWasSent'
  BY <1>2 DEF Commit
<1>3. ASSUME NEW p \in Publishers, Select(p) PROVE PublishedWasSent'
  BY <1>3 DEF Select
<1>4. ASSUME NEW p \in Publishers, Claim(p) PROVE PublishedWasSent'
  BY <1>4 DEF Claim
<1>5. ASSUME NEW p \in Publishers, NEW e \in Events, Publish(p, e) \/ PublishFails(p, e)
      PROVE  PublishedWasSent'
  BY <1>5 DEF Publish, PublishFails, HandOver
<1>6. ASSUME NEW p \in Publishers, Mark(p) \/ Retry(p) PROVE PublishedWasSent'
  BY <1>6 DEF Mark, Retry, Proceed
<1>7. ASSUME NEW p \in Publishers, Abandon(p) PROVE PublishedWasSent'
  BY <1>7 DEF Abandon
<1>8. ASSUME NEW e \in Events, LeaseEnds(e) \/ DelayEnds(e) PROVE PublishedWasSent'
  BY <1>8 DEF LeaseEnds, DelayEnds, Working
<1>9. CASE UNCHANGED vars
  BY <1>9 DEF vars
<1>10. QED
  BY <1>1, <1>2, <1>3, <1>4, <1>5, <1>6, <1>7, <1>8, <1>9 DEF Next, Calm, Trouble, Work

LEMMA OnceStep == TypeOK /\ Leases /\ Marking /\ OnceUnlessTroubled /\ [Next]_vars => OnceUnlessTroubled'
<1> SUFFICES ASSUME TypeOK, Leases, Marking, OnceUnlessTroubled, [Next]_vars PROVE OnceUnlessTroubled'
  OBVIOUS
<1> USE DEF TypeOK, writers, table, local, Steps, Leases, Marking, OnceUnlessTroubled
<1>1. ASSUME NEW t \in Transactions, Begin(t) PROVE OnceUnlessTroubled'
  BY <1>1 DEF Begin
<1>2. ASSUME NEW t \in Transactions, Commit(t) PROVE OnceUnlessTroubled'
  BY <1>2 DEF Commit
<1>3. ASSUME NEW p \in Publishers, Select(p) PROVE OnceUnlessTroubled'
  BY <1>3 DEF Select
<1>4. ASSUME NEW p \in Publishers, Claim(p) PROVE OnceUnlessTroubled'
  BY <1>4 DEF Claim
<1>5. ASSUME NEW p \in Publishers, NEW e \in Events, Publish(p, e) \/ PublishFails(p, e)
      PROVE  OnceUnlessTroubled'
  BY <1>5 DEF Publish, PublishFails, HandOver
<1>6. ASSUME NEW p \in Publishers, Mark(p) \/ Retry(p) PROVE OnceUnlessTroubled'
  BY <1>6 DEF Mark, Retry, Proceed
<1>7. ASSUME NEW p \in Publishers, Abandon(p) PROVE OnceUnlessTroubled'
  BY <1>7 DEF Abandon
<1>8. ASSUME NEW e \in Events, LeaseEnds(e) \/ DelayEnds(e) PROVE OnceUnlessTroubled'
  BY <1>8 DEF LeaseEnds, DelayEnds, Working
<1>9. CASE UNCHANGED vars
  BY <1>9 DEF vars
<1>10. QED
  BY <1>1, <1>2, <1>3, <1>4, <1>5, <1>6, <1>7, <1>8, <1>9 DEF Next, Calm, Trouble, Work

-----------------------------------------------------------------------------
\* An event is overtaken only in a batch or in trouble.

\* Whatever a step does, an event that was handed over or in hand, or had its trouble,
\* is so afterwards.
Settled(e) == e \in sent \/ e \in troubled \/ InHand(e)

LEMMA SettledStays ==
  ASSUME TypeOK, Hands, [Next]_vars, NEW e \in Events, Settled(e)
  PROVE  Settled(e)'
<1> USE DEF TypeOK, writers, table, local, Steps, Hands, Settled, InHand
<1>1. ASSUME NEW t \in Transactions, Begin(t) \/ Commit(t) PROVE Settled(e)'
  BY <1>1 DEF Begin, Commit
<1>2. ASSUME NEW p \in Publishers, Select(p) PROVE Settled(e)'
  BY <1>2 DEF Select
<1>3. ASSUME NEW p \in Publishers, Claim(p) PROVE Settled(e)'
  BY <1>3 DEF Claim
<1>4. ASSUME NEW p \in Publishers, NEW f \in Events, Publish(p, f) \/ PublishFails(p, f)
      PROVE  Settled(e)'
  BY <1>4 DEF Publish, PublishFails, HandOver
<1>5. ASSUME NEW p \in Publishers, Mark(p) \/ Retry(p) PROVE Settled(e)'
  BY <1>5 DEF Mark, Retry, Proceed
<1>6. ASSUME NEW p \in Publishers, Abandon(p) PROVE Settled(e)'
  BY <1>6 DEF Abandon
<1>7. ASSUME NEW f \in Events, LeaseEnds(f) \/ DelayEnds(f) PROVE Settled(e)'
  BY <1>7 DEF LeaseEnds, DelayEnds
<1>8. CASE UNCHANGED vars
  BY <1>8 DEF vars
<1>9. QED
  BY <1>1, <1>2, <1>3, <1>4, <1>5, <1>6, <1>7, <1>8 DEF Next, Calm, Trouble, Work

\* What is not settled can be claimed.
LEMMA UnsettledIsClaimable ==
  ASSUME TypeOK, Accounted, PublishedWasSent, NEW e \in stored, ~Settled(e)
  PROVE  e \in Claimable
BY DEF TypeOK, Accounted, PublishedWasSent, Settled, InHand, Claimable, Locked

\* An event that comes into hand does so in a claim.
Held(f) == f \in sent \/ InHand(f)

LEMMA HeldStep ==
  ASSUME TypeOK, [Next]_vars, NEW f \in Events, Held(f)', ~Held(f)
  PROVE  \E p \in Publishers : Select(p) /\ f \in batch'[p]
<1> USE DEF TypeOK, writers, table, local, Steps, Held, InHand
<1>1. ASSUME NEW t \in Transactions, Begin(t) \/ Commit(t) PROVE FALSE
  BY <1>1 DEF Begin, Commit
<1>2. ASSUME NEW p \in Publishers, Select(p)
      PROVE  \E q \in Publishers : Select(q) /\ f \in batch'[q]
  BY <1>2 DEF Select
<1>3. ASSUME NEW p \in Publishers, Claim(p) PROVE FALSE
  BY <1>3 DEF Claim
<1>4. ASSUME NEW p \in Publishers, NEW e \in Events, Publish(p, e) \/ PublishFails(p, e)
      PROVE  FALSE
  BY <1>4 DEF Publish, PublishFails, HandOver
<1>5. ASSUME NEW p \in Publishers, Mark(p) \/ Retry(p) PROVE FALSE
  BY <1>5 DEF Mark, Retry, Proceed
<1>6. ASSUME NEW p \in Publishers, Abandon(p) PROVE FALSE
  BY <1>6 DEF Abandon
<1>7. ASSUME NEW e \in Events, LeaseEnds(e) \/ DelayEnds(e) PROVE FALSE
  BY <1>7 DEF LeaseEnds, DelayEnds
<1>8. CASE UNCHANGED vars
  BY <1>8 DEF vars
<1>9. QED
  BY <1>1, <1>2, <1>3, <1>4, <1>5, <1>6, <1>7, <1>8 DEF Next, Calm, Trouble, Work

\* The past of a transaction that has written events does not change.
LEMMA PastStep ==
  ASSUME TypeOK, Dates, [Next]_vars, NEW f \in stored
  PROVE  past'[TxOf[f]] = past[TxOf[f]]
<1> USE DEF TypeOK, writers, Dates
<1>1. ASSUME NEW t \in Transactions, Begin(t) PROVE past'[TxOf[f]] = past[TxOf[f]]
  BY <1>1, EventsAssumption DEF Begin
<1>2. ASSUME NEW t \in Transactions, Commit(t) PROVE UNCHANGED past
  BY <1>2 DEF Commit
<1>3. ASSUME NEW p \in Publishers, Select(p) \/ Claim(p) \/ Abandon(p) PROVE UNCHANGED past
  BY <1>3 DEF Select, Claim, Abandon
<1>4. ASSUME NEW p \in Publishers, Mark(p) \/ Retry(p) PROVE UNCHANGED past
  BY <1>4 DEF Mark, Retry, Proceed
<1>5. ASSUME NEW p \in Publishers, NEW e \in Events, Publish(p, e) \/ PublishFails(p, e)
      PROVE  UNCHANGED past
  BY <1>5 DEF Publish, PublishFails
<1>6. ASSUME NEW e \in Events, LeaseEnds(e) \/ DelayEnds(e) PROVE UNCHANGED past
  BY <1>6 DEF LeaseEnds, DelayEnds
<1>7. CASE UNCHANGED vars
  BY <1>7 DEF vars
<1>8. QED
  BY <1>1, <1>2, <1>3, <1>4, <1>5, <1>6, <1>7 DEF Next, Calm, Trouble, Work

LEMMA FollowedStep ==
  ASSUME TypeOK, Hands, Dates, Accounted, PublishedWasSent, Followed, [Next]_vars
  PROVE  Followed'
<1> SUFFICES ASSUME NEW f \in stored', Held(f)', NEW e \in past'[TxOf[f]] PROVE Settled(e)'
  BY DEF Followed, Held, Settled, InHand
<1>1. f \in Events
  BY TypeStep DEF TypeOK
<1>2. ASSUME NEW p \in Publishers, Select(p), f \in batch'[p] PROVE Settled(e)'
  <2>1. PICK chosen \in SUBSET Claimable : Oldest(chosen, Claimable) /\ batch'[p] = chosen
    BY <1>2 DEF Select, TypeOK
  <2>2. f \in chosen /\ f \in stored
    BY <1>2, <2>1 DEF Claimable, TypeOK
  <2>3. e \in past[TxOf[f]] /\ TxOf[f] \in Transactions
    BY <1>1, <2>2, PastStep, EventsAssumption
  <2>4. e \in stored /\ OccurredAt(e) < OccurredAt(f)
    BY <2>3 DEF Dates, OccurredAt
  <2>5. CASE Settled(e)
    BY <2>4, <2>5, SettledStays DEF TypeOK
  <2>6. CASE ~Settled(e)
    <3>1. e \in Claimable
      BY <2>4, <2>6, UnsettledIsClaimable
    <3>2. OccurredAt(e) \in Nat /\ OccurredAt(f) \in Nat
      BY <2>4, <1>1, EventsAssumption DEF OccurredAt, TypeOK
    <3>3. e \in chosen
      BY <2>1, <2>2, <2>4, <3>1, <3>2 DEF Oldest
    <3>4. QED
      BY <2>1, <3>3 DEF Settled, InHand
  <2>7. QED
    BY <2>5, <2>6
<1>3. CASE Held(f)
  <2>1. f \in stored
    BY <1>3 DEF Held, InHand, TypeOK
  <2>2. e \in past[TxOf[f]]
    BY <2>1, PastStep
  <2>3. Settled(e) /\ e \in Events
    BY <1>3, <2>1, <2>2, EventsAssumption DEF Followed, Held, Settled, TypeOK
  <2>4. QED
    BY <2>3, SettledStays
<1>4. QED
  BY <1>1, <1>2, <1>3, HeldStep

-----------------------------------------------------------------------------
\* The theorems.

LEMMA Inductive == Spec => []IInv
<1>1. IInv /\ [Next]_vars => IInv'
  BY TypeStep, LocksStep, LeasesStep, HandsStep, MarkingStep, DatesStep, AccountedStep,
     PublishedStep, OnceStep, FollowedStep DEF IInv
<1>2. QED
  BY InitIInv, <1>1, PTL DEF Spec

\* The variables of Outbox have their types, and a publisher publishes what it claimed.
THEOREM OutboxTypeCorrect == Spec => []TypeOK
BY Inductive, PTL DEF IInv

\* MarkOutboxPublished marks what SQS has got, whichever publishers are late or die.
THEOREM MarkedEventsWereSent == Spec => []PublishedWasSent
BY Inductive, PTL DEF IInv

\* The lease of ClaimOutbox keeps an event to one publisher until it ends too early.
THEOREM LeasesExclude == Spec => []LeaseExcludes
<1>1. IInv => LeaseExcludes
  <2> SUFFICES ASSUME IInv, NEW p \in Publishers, NEW q \in Publishers, p # q,
                      NEW e \in batch[p], e \in batch[q]
               PROVE  e \in troubled
    BY DEF LeaseExcludes
  <2>1. QED
    BY DEF IInv, Locks, Leases
<1>2. QED
  BY <1>1, Inductive, PTL

\* An event is published once unless a publisher dies, is late, or does not hear of it.
THEOREM EventsAreSentOnce == Spec => []OnceUnlessTroubled
BY Inductive, PTL DEF IInv

\* ClaimOutbox orders by occurred_at, so that an event is not overtaken by those of later
\* transactions outside its batch unless something goes wrong with it.
THEOREM EventsAreOvertakenInTrouble == Spec => []OvertakenInBatchOrTrouble
<1>1. IInv => OvertakenInBatchOrTrouble
  BY DEF IInv, TypeOK, Followed, OvertakenInBatchOrTrouble, InHand
<1>2. QED
  BY <1>1, Inductive, PTL

-----------------------------------------------------------------------------
\* The safety of AtLeastOnce.

LEMMA DeliverySimulation == IInv /\ [Next]_vars => [Delivery!Next]_(Delivery!items)
<1> SUFFICES ASSUME IInv, [Next]_vars PROVE [Delivery!Next]_(Delivery!items)
  OBVIOUS
<1> USE DEF IInv, TypeOK, writers, table, local, Delivery!items
<1>1. ASSUME NEW t \in Transactions, Begin(t) \/ Commit(t)
      PROVE  [Delivery!Next]_(Delivery!items)
  <2>1. CASE Begin(t)
    BY <2>1 DEF Begin
  <2>2. CASE Commit(t)
    <3>1. Delivery!Accept(Written(t)) /\ Written(t) \in SUBSET Events
      BY <2>2 DEF Commit, Written, Delivery!Accept
    <3>2. QED
      BY <3>1 DEF Delivery!Next
  <2>3. QED
    BY <1>1, <2>1, <2>2
<1>2. ASSUME NEW p \in Publishers, NEW e \in Events, Publish(p, e) \/ PublishFails(p, e)
      PROVE  [Delivery!Next]_(Delivery!items)
  BY <1>2 DEF Publish, PublishFails, HandOver, Delivery!Next, Delivery!Deliver
<1>3. ASSUME NEW p \in Publishers, Mark(p) PROVE [Delivery!Next]_(Delivery!items)
  BY <1>3 DEF Mark, Proceed, Hands, Delivery!Next, Delivery!Retire
<1>4. ASSUME NEW p \in Publishers, Select(p) \/ Claim(p) \/ Retry(p) \/ Abandon(p)
      PROVE  UNCHANGED <<stored, sent, published>>
  BY <1>4 DEF Select, Claim, Retry, Proceed, Abandon
<1>5. ASSUME NEW e \in Events, LeaseEnds(e) \/ DelayEnds(e)
      PROVE  UNCHANGED <<stored, sent, published>>
  BY <1>5 DEF LeaseEnds, DelayEnds
<1>6. CASE UNCHANGED vars
  BY <1>6 DEF vars
<1>7. QED
  BY <1>1, <1>2, <1>3, <1>4, <1>5, <1>6 DEF Next, Calm, Trouble, Work

\* The outbox implements the safety of AtLeastOnce: an event is handed over after it was
\* written, and marked after it was handed over.
THEOREM OutboxDeliversAtLeastOnce == Spec => Delivery!Spec
<1>1. Init => Delivery!Init
  BY DEF Init, Delivery!Init
<1>2. QED
  BY <1>1, DeliverySimulation, Inductive, PTL DEF Spec, Delivery!Spec
=============================================================================
