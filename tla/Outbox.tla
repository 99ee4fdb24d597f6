------------------------------- MODULE Outbox -------------------------------
(***************************************************************************)
(* The outbox: transactions of the store leave events in outbox_events,    *)
(* and the publishers of all replicas claim them with a lease, hand them   *)
(* to SQS, and mark them as published or postpone them.                    *)
(*                                                                         *)
(* Times are left out: a lease of any length may end at any moment, and so *)
(* may the delay of a postponed event.  What is kept of occurred_at is its *)
(* order: it is now() in the transaction that writes the event, which is   *)
(* when that transaction began.  The deduplication of SQS is left out: an  *)
(* event handed over twice counts twice.                                   *)
(***************************************************************************)
EXTENDS Integers, FiniteSets

CONSTANTS
  Transactions,
  Events, TxOf,   \* the transaction that writes an event
  Publishers,     \* OutboxPublisher.Run, one per replica
  Batch,          \* 20 events
  NONE

ASSUME EventsAssumption == TxOf \in [Events -> Transactions] /\ NONE \notin Events
ASSUME BatchAssumption == Batch \in Nat \ {0}

VARIABLES
  clock, date,    \* when a transaction began; 0 if it has not
  stored,         \* committed rows
  due,            \* those whose next_attempt_at is past
  leased,         \* those whose claimed_until is still to come
  published,      \* those that have a published_at
  pc,             \* what a publisher does next
  batch,          \* the events it has locked or claimed and is not done with
  current,        \* the one it is publishing
  sent, again,    \* events handed to SQS, and those handed over more than once
  past,           \* history: the rows committed when a transaction began
  troubled        \* history: events with which something went wrong

writers == <<clock, date, past>>
table == <<stored, due, leased, published>>
local == <<pc, batch, current>>
vars == <<writers, table, local, sent, again, troubled>>

Steps == {"idle", "claim", "publish", "mark", "retry"}

\* Every variable has its type, and a publisher publishes what it has claimed.
TypeOK ==
  /\ clock \in Nat /\ date \in [Transactions -> Nat] /\ past \in [Transactions -> SUBSET Events]
  /\ stored \subseteq Events /\ due \subseteq stored /\ leased \subseteq stored
  /\ published \subseteq stored /\ sent \subseteq stored /\ again \subseteq sent
  /\ troubled \subseteq stored
  /\ pc \in [Publishers -> Steps]
  /\ batch \in [Publishers -> SUBSET stored]
  /\ current \in [Publishers -> Events \cup {NONE}]
  /\ \A p \in Publishers : pc[p] \in {"mark", "retry"} => current[p] \in batch[p]

-----------------------------------------------------------------------------
\* The transactions of the store.

Begin(t) ==
  /\ date[t] = 0
  /\ clock' = clock + 1
  /\ date' = [date EXCEPT ![t] = clock']
  /\ past' = [past EXCEPT ![t] = stored]
  /\ UNCHANGED <<table, local, sent, again, troubled>>

Written(t) == {e \in Events : TxOf[e] = t}

\* Transactions commit in any order: those of one wallet in the order of its lock, which
\* need not be the order in which they began.
Commit(t) ==
  /\ date[t] > 0 /\ Written(t) # {} /\ Written(t) \cap stored = {}
  /\ stored' = stored \cup Written(t)
  /\ due' = due \cup Written(t)
  /\ UNCHANGED <<writers, leased, published, local, sent, again, troubled>>

-----------------------------------------------------------------------------
\* ClaimOutbox.

Locked == UNION {batch[p] : p \in {q \in Publishers : pc[q] = "claim"}}

Claimable == (due \ (published \cup leased)) \ Locked

OccurredAt(e) == date[TxOf[e]]

Oldest(chosen, all) ==
  /\ chosen \subseteq all
  /\ Cardinality(chosen) = IF Cardinality(all) < Batch THEN Cardinality(all) ELSE Batch
  /\ \A e \in chosen, f \in all \ chosen : OccurredAt(e) <= OccurredAt(f)

\* The SELECT in any order.
SelectUnordered(p) ==
  /\ pc[p] = "idle" /\ Claimable # {}
  /\ \E chosen \in SUBSET Claimable \ {{}} :
       Cardinality(chosen) <= Batch /\ batch' = [batch EXCEPT ![p] = chosen]
  /\ pc' = [pc EXCEPT ![p] = "claim"]
  /\ UNCHANGED <<writers, table, current, sent, again, troubled>>

\* The oldest rows that nobody has locked are locked.
Select(p) ==
  /\ pc[p] = "idle" /\ Claimable # {}
  /\ \E chosen \in SUBSET Claimable :
       Oldest(chosen, Claimable) /\ batch' = [batch EXCEPT ![p] = chosen]
  /\ pc' = [pc EXCEPT ![p] = "claim"]
  /\ UNCHANGED <<writers, table, current, sent, again, troubled>>

\* The lease is committed.
Claim(p) ==
  /\ pc[p] = "claim"
  /\ leased' = leased \cup batch[p]
  /\ pc' = [pc EXCEPT ![p] = "publish"]
  /\ UNCHANGED <<writers, stored, due, published, batch, current, sent, again, troubled>>

-----------------------------------------------------------------------------
\* publish.

HandOver(e) == sent' = sent \cup {e} /\ again' = again \cup ({e} \cap sent)

\* RETURNING has no order: the events of a batch are published in any.
Publish(p, e) ==
  /\ pc[p] = "publish" /\ e \in batch[p]
  /\ HandOver(e)
  /\ pc' = [pc EXCEPT ![p] = "mark"]
  /\ current' = [current EXCEPT ![p] = e]
  /\ UNCHANGED <<writers, table, batch, troubled>>

\* SQS refuses the event, or takes it and the answer is lost.
PublishFails(p, e) ==
  /\ pc[p] = "publish" /\ e \in batch[p]
  /\ HandOver(e) \/ UNCHANGED <<sent, again>>
  /\ pc' = [pc EXCEPT ![p] = "retry"]
  /\ current' = [current EXCEPT ![p] = e]
  /\ troubled' = troubled \cup {e}
  /\ UNCHANGED <<writers, table, batch>>

\* The publisher is done with its event and turns to the next one.
Proceed(p) ==
  /\ batch' = [batch EXCEPT ![p] = @ \ {current[p]}]
  /\ pc' = [pc EXCEPT ![p] = IF batch'[p] = {} THEN "idle" ELSE "publish"]
  /\ current' = [current EXCEPT ![p] = NONE]
  /\ UNCHANGED <<writers, stored, sent, again, troubled>>

\* MarkOutboxPublished without published_at.
MarkNothing(p) ==
  /\ pc[p] = "mark" /\ current[p] \notin Locked
  /\ leased' = leased \ {current[p]}
  /\ Proceed(p)
  /\ UNCHANGED <<due, published>>

\* MarkOutboxPublished, whoever has the lease now.
Mark(p) ==
  /\ pc[p] = "mark" /\ current[p] \notin Locked
  /\ published' = published \cup {current[p]}
  /\ leased' = leased \ {current[p]}
  /\ Proceed(p)
  /\ UNCHANGED due

\* RetryOutbox: unless it was published, the event waits and its lease ends, whoever has
\* it.
Retry(p) ==
  /\ pc[p] = "retry" /\ current[p] \notin Locked
  /\ IF current[p] \in published
     THEN UNCHANGED <<due, leased>>
     ELSE due' = due \ {current[p]} /\ leased' = leased \ {current[p]}
  /\ Proceed(p)
  /\ UNCHANGED published

\* A statement fails, the context is cancelled or the process dies: the rest of the
\* batch is left alone.  That a statement did its work before it failed is its step
\* followed by this one.
Abandon(p) ==
  /\ pc[p] # "idle"
  /\ troubled' = troubled \cup batch[p]
  /\ batch' = [batch EXCEPT ![p] = {}]
  /\ pc' = [pc EXCEPT ![p] = "idle"]
  /\ current' = [current EXCEPT ![p] = NONE]
  /\ UNCHANGED <<writers, table, sent, again>>

-----------------------------------------------------------------------------
\* Time.

Working(e) == \E p \in Publishers : pc[p] # "claim" /\ e \in batch[p]

\* LeaseEnds if only rows without a claimed_until could be claimed.
LeaseStays(e) ==
  /\ e \in leased /\ Working(e)
  /\ troubled' = troubled \cup {e}
  /\ UNCHANGED <<writers, table, local, sent, again>>

\* A lease ends, and with it the right of a publisher that is still at work.
LeaseEnds(e) ==
  /\ e \in leased
  /\ leased' = leased \ {e}
  /\ troubled' = IF Working(e) THEN troubled \cup {e} ELSE troubled
  /\ UNCHANGED <<writers, stored, due, published, local, sent, again>>

DelayEnds(e) ==
  /\ e \in stored \ due
  /\ due' = due \cup {e}
  /\ UNCHANGED <<writers, stored, leased, published, local, sent, again, troubled>>

-----------------------------------------------------------------------------

Init ==
  /\ clock = 0 /\ date = [t \in Transactions |-> 0] /\ past = [t \in Transactions |-> {}]
  /\ stored = {} /\ due = {} /\ leased = {} /\ published = {}
  /\ sent = {} /\ again = {} /\ troubled = {}
  /\ pc = [p \in Publishers |-> "idle"]
  /\ batch = [p \in Publishers |-> {}]
  /\ current = [p \in Publishers |-> NONE]

\* What a publisher does when all goes well.
Work(p) == Claim(p) \/ Mark(p) \/ Retry(p) \/ \E e \in Events : Publish(p, e)

Calm ==
  \/ \E t \in Transactions : Begin(t) \/ Commit(t)
  \/ \E p \in Publishers : Select(p) \/ Work(p)
  \/ \E e \in Events : DelayEnds(e) \/ (~Working(e) /\ LeaseEnds(e))

Trouble ==
  \/ \E p \in Publishers : Abandon(p) \/ \E e \in Events : PublishFails(p, e)
  \/ \E e \in Events : Working(e) /\ LeaseEnds(e)

Next == Calm \/ Trouble

Spec == Init /\ [][Next]_vars

\* Publishers claim every second and carry on with what they have; leases and delays end;
\* and from some time on nothing goes wrong, batches being published within their lease.
Fairness ==
  /\ \A p \in Publishers : WF_vars(Select(p)) /\ WF_vars(Work(p))
  /\ \A e \in Events : WF_vars(DelayEnds(e)) /\ WF_vars(~Working(e) /\ LeaseEnds(e))
  /\ <>[][Calm]_vars

FairSpec == Spec /\ Fairness

-----------------------------------------------------------------------------

\* No event is marked as published that SQS did not get.
PublishedWasSent == published \subseteq sent

\* Two publishers work on one event only if something went wrong with it: its lease ended
\* while one of them was at work.
LeaseExcludes ==
  \A p, q \in Publishers : p # q => batch[p] \cap batch[q] \subseteq troubled

\* An event is handed over twice only if something went wrong with it.
OnceUnlessTroubled == again \subseteq troubled

\* An event is handed over before one of a transaction that began after it was committed
\* only if they are in the hands of publishers at the same time, or if something went
\* wrong with the earlier one.
OvertakenInBatchOrTrouble ==
  \A f \in sent : \A e \in past[TxOf[f]] :
    e \in sent \/ e \in troubled \/ \E p \in Publishers : e \in batch[p]

\* The outbox hands every event to SQS at least once, marks it as published only then,
\* and does so in the end.
Delivery == INSTANCE AtLeastOnce
              WITH Items <- Events, accepted <- stored, delivered <- sent, retired <- published
ImplementsAtLeastOnce == Delivery!FairSpec
=============================================================================
