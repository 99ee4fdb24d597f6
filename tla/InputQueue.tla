----------------------------- MODULE InputQueue -----------------------------
(***************************************************************************)
(* The input queue and InputConsumer.Run of every replica: receptions,     *)
(* visibility, receipts, retries, the record of an operation as FAILED,    *)
(* the dead letter queue, deletion, and what happens when a consumer is    *)
(* stopped, dies or cannot reach SQS.                                      *)
(*                                                                         *)
(* What the store does with an operation is Wagering's business; here a    *)
(* message is answered for (outcome), refused because another request      *)
(* took its identity (taken), or fails.                                    *)
(*                                                                         *)
(* The queues are external, and modelled from how the code uses them: a    *)
(* FIFO queue delivers the oldest message of a group and keeps the others  *)
(* back while it is there.  Times are left out: a visibility timeout of    *)
(* any length may end at any moment.  A call whose receipt is no longer    *)
(* valid may still work (LocalStack) or not (AWS).                         *)
(***************************************************************************)
EXTENDS Integers

CONSTANTS
  Messages,    \* numbered as SQS numbers them, so that a group is in order
  Groups, GroupOf,
  Content,     \* what a message carries
  Consumers,   \* InputConsumer.Run, one per replica
  Limit,       \* 5 receptions
  Redrive,     \* whether the queue has a redrive policy (deploy/localstack/init.sh)
  NONE

\* A valid operation; one whose identity another request may take first; one that can
\* never be recorded (a wallet that does not exist, or in another currency); one
\* that is no operation at all.
Contents == {"good", "rival", "unrecordable", "malformed"}

ASSUME MessagesAssumption == Messages \subseteq Nat /\ NONE \notin Messages
ASSUME ContentAssumption == GroupOf \in [Messages -> Groups] /\ Content \in [Messages -> Contents]
ASSUME ConsumersAssumption == NONE \notin Consumers
ASSUME LimitAssumption == Limit \in Nat \ {0} /\ Redrive \in BOOLEAN

VARIABLES
  sent,      \* messages providers have sent
  queue,     \* those still in the input queue
  hidden,    \* those in flight or postponed: received, visibility not yet over
  holder,    \* who has the last receipt of a message
  count,     \* ApproximateReceiveCount, up to Limit + 1
  dlq,       \* messages in the dead letter queue
  outcome,   \* what the store answers for: the operation was recorded, or recorded FAILED
  taken,     \* messages whose identity belongs to another request
  pc,        \* the next step of a consumer
  msg, seen, \* the message it works on, and that message's ReceiveCount
  fate,      \* what handle returned
  stopping   \* its context was cancelled

sqs == <<sent, queue, hidden, holder, count, dlq>>
store == <<outcome, taken>>
local == <<pc, msg, seen, fate, stopping>>
vars == <<sqs, store, local>>

Steps == {"idle", "handle", "judge", "fail", "deadletter", "delete", "retry", "release", "down"}

QueuesOK ==
  /\ sent \subseteq Messages /\ queue \subseteq sent /\ hidden \subseteq queue
  /\ dlq \subseteq sent
  /\ holder \in [Messages -> Consumers \cup {NONE}]
  /\ count \in [Messages -> 0..(Limit + 1)]

StoreOK ==
  /\ outcome \in [Messages -> {"", "recorded", "failed"}]
  /\ taken \subseteq Messages

ConsumersOK ==
  /\ pc \in [Consumers -> Steps]
  /\ msg \in [Consumers -> Messages \cup {NONE}]
  /\ seen \in [Consumers -> 0..(Limit + 1)]
  /\ fate \in [Consumers -> {"", "ok", "transient", "permanent"}]
  /\ stopping \in [Consumers -> BOOLEAN]

Working(c) == pc[c] \notin {"idle", "down"}

\* Every variable has its type, and a consumer at work has a message it received.
TypeOK ==
  /\ QueuesOK /\ StoreOK /\ ConsumersOK
  /\ \A c \in Consumers : Working(c) => msg[c] \in sent /\ seen[c] \in 1..count[msg[c]]

-----------------------------------------------------------------------------
\* SQS.

\* The oldest message of its group, whether or not it is hidden.
OldestInGroup(m) == \A n \in queue : GroupOf[n] = GroupOf[m] => m <= n

\* Deliverable if the queue were not FIFO.
DeliverableInAnyOrder(m) == m \in queue \ hidden

Deliverable(m) == m \in queue \ hidden /\ OldestInGroup(m)

Exhausted(m) == Redrive /\ count[m] >= Limit

\* A message that was received the most often the queue allows goes to the dead
\* letter queue instead of being received again.
RedriveMessage(m) ==
  /\ Deliverable(m) /\ Exhausted(m)
  /\ queue' = queue \ {m}
  /\ dlq' = dlq \cup {m}
  /\ UNCHANGED <<sent, hidden, holder, count, store, local>>

Counted(m) == [count EXCEPT ![m] = IF @ > Limit THEN @ ELSE @ + 1]

\* The visibility timeout of a message ends: if a consumer still works on it, its
\* receipt is no longer valid.
Expire(m) ==
  /\ m \in hidden
  /\ hidden' = hidden \ {m}
  /\ UNCHANGED <<sent, queue, holder, count, dlq, store, local>>

Current(c) == msg[c] \in hidden /\ holder[msg[c]] = c

\* The receipt of a consumer at work is valid.
InTime(m) == \E c \in Consumers : Working(c) /\ msg[c] = m /\ Current(c)

-----------------------------------------------------------------------------
\* Providers, and requests that come another way.

\* The messages of a group are numbered as they are sent.
Send(m) ==
  /\ m \notin sent
  /\ \A n \in Messages : n < m /\ GroupOf[n] = GroupOf[m] => n \in sent
  /\ sent' = sent \cup {m}
  /\ queue' = queue \cup {m}
  /\ UNCHANGED <<hidden, holder, count, dlq, store, local>>

\* Another request with the same identity and other contents is recorded.
TakeIdentity(m) ==
  /\ Content[m] = "rival" /\ outcome[m] = "" /\ m \notin taken
  /\ taken' = taken \cup {m}
  /\ UNCHANGED <<sqs, outcome, local>>

-----------------------------------------------------------------------------
\* Receive.

Receive(c, m) ==
  /\ pc[c] = "idle" /\ ~stopping[c]
  /\ Deliverable(m) /\ ~Exhausted(m)
  /\ hidden' = hidden \cup {m}
  /\ count' = Counted(m)
  /\ holder' = [holder EXCEPT ![m] = c]
  /\ pc' = [pc EXCEPT ![c] = "handle"]
  /\ msg' = [msg EXCEPT ![c] = m]
  /\ seen' = [seen EXCEPT ![c] = count'[m]]
  /\ fate' = [fate EXCEPT ![c] = ""]
  /\ UNCHANGED <<sent, queue, dlq, store, stopping>>

\* The response never arrives: the message is hidden and nobody has it.
ReceiveUnheard(m) ==
  /\ Deliverable(m) /\ ~Exhausted(m)
  /\ hidden' = hidden \cup {m}
  /\ count' = Counted(m)
  /\ holder' = [holder EXCEPT ![m] = NONE]
  /\ UNCHANGED <<sent, queue, dlq, store, local>>

-----------------------------------------------------------------------------
\* handle: what ProcessInbox answers.

\* The store knows the message's operation, or can record it.
Recordable(m) ==
  outcome[m] # "" \/ (Content[m] \in {"good", "rival"} /\ m \notin taken)

\* What is recorded stays recorded: a repetition gets the same answer.
Answered(m, how) == [outcome EXCEPT ![m] = IF @ = "" THEN how ELSE @]

Judged(c, f) ==
  /\ pc' = [pc EXCEPT ![c] = "judge"]
  /\ fate' = [fate EXCEPT ![c] = f]
  /\ UNCHANGED <<sqs, taken, msg, seen, stopping>>

Handle(c) ==
  /\ pc[c] = "handle"
  /\ IF Recordable(msg[c])
     THEN Judged(c, "ok") /\ outcome' = Answered(msg[c], "recorded")
     ELSE /\ Judged(c, IF Content[msg[c]] = "unrecordable" THEN "transient" ELSE "permanent")
          /\ UNCHANGED outcome

\* The database is not there, or the context was cancelled: nothing was recorded, or it
\* was and the acknowledgement is lost.  A malformed message never gets that far.
Stumble(c) ==
  /\ pc[c] = "handle"
  /\ Content[msg[c]] # "malformed"
  /\ Judged(c, "transient")
  /\ \/ UNCHANGED outcome
     \/ Recordable(msg[c]) /\ outcome' = Answered(msg[c], "recorded")

-----------------------------------------------------------------------------
\* Run, after handle has returned.

Goto(c, step) ==
  pc' = [pc EXCEPT ![c] = step] /\ UNCHANGED <<msg, seen, fate, stopping>>

\* The consumer is done with its message.
Drop(c, step) ==
  /\ pc' = [pc EXCEPT ![c] = step]
  /\ msg' = [msg EXCEPT ![c] = NONE]
  /\ seen' = [seen EXCEPT ![c] = 0]
  /\ fate' = [fate EXCEPT ![c] = ""]
  /\ UNCHANGED stopping

\* Judge looking at the context first and deleting whatever it had received.
JudgeDroppingOnStop(c) ==
  /\ pc[c] = "judge"
  /\ Goto(c, IF stopping[c] THEN "delete"
             ELSE IF fate[c] = "ok" THEN "delete"
             ELSE IF fate[c] = "permanent" THEN "deadletter"
             ELSE IF seen[c] >= Limit THEN "fail" ELSE "retry")
  /\ UNCHANGED <<sqs, store>>

\* Judge taking every error for a permanent one.
JudgeImpatiently(c) ==
  /\ pc[c] = "judge"
  /\ Goto(c, IF fate[c] = "ok" THEN "delete" ELSE "deadletter")
  /\ UNCHANGED <<sqs, store>>

\* A stopped consumer deletes what is done and releases what is not; otherwise an error
\* is retried unless it is permanent or the receptions are used up.
Judge(c) ==
  /\ pc[c] = "judge"
  /\ \/ fate[c] = "ok" /\ Goto(c, "delete")
     \/ fate[c] # "ok" /\ stopping[c] /\ Goto(c, "release")
     \/ fate[c] = "permanent" /\ ~stopping[c] /\ Goto(c, "deadletter")
     \/ fate[c] = "transient" /\ ~stopping[c]
        /\ Goto(c, IF seen[c] >= Limit THEN "fail" ELSE "retry")
  /\ UNCHANGED <<sqs, store>>

\* recordPermanentFailure: the operation is recorded as FAILED unless it is recorded
\* already, or the store refuses it.
Fail(c) ==
  /\ pc[c] = "fail"
  /\ IF Recordable(msg[c])
     THEN Goto(c, "delete") /\ outcome' = Answered(msg[c], "failed")
     ELSE Goto(c, "deadletter") /\ UNCHANGED outcome
  /\ UNCHANGED <<sqs, taken>>

\* It fails, or does its work unheard: the dead letter queue is next either way.
FailStumbles(c) ==
  /\ pc[c] = "fail"
  /\ Goto(c, "deadletter")
  /\ \/ UNCHANGED outcome
     \/ Recordable(msg[c]) /\ outcome' = Answered(msg[c], "failed")
  /\ UNCHANGED <<sqs, taken>>

-----------------------------------------------------------------------------
\* Calls to SQS.  A call with an old receipt may do its work or nothing.

DeadLetters(m) == dlq' = dlq \cup {m} /\ UNCHANGED <<queue, hidden>>

Deletes(m) == queue' = queue \ {m} /\ hidden' = hidden \ {m} /\ UNCHANGED dlq

Hides(m) == hidden' = hidden \cup ({m} \cap queue) /\ UNCHANGED <<queue, dlq>>

Reveals(m) == hidden' = hidden \ {m} /\ UNCHANGED <<queue, dlq>>

Nothing == UNCHANGED <<queue, hidden, dlq>>

Effect(c) ==
  CASE pc[c] = "deadletter" -> DeadLetters(msg[c])
    [] pc[c] = "delete" -> Deletes(msg[c]) \/ (~Current(c) /\ Nothing)
    [] pc[c] = "retry" -> Hides(msg[c]) \/ (~Current(c) /\ Nothing)
    [] pc[c] = "release" -> Reveals(msg[c]) \/ (~Current(c) /\ Nothing)

Calling(c) == pc[c] \in {"deadletter", "delete", "retry", "release"}

\* What comes after the call: the source of a dead letter is deleted, and the loop
\* goes on.
Call(c) ==
  /\ Calling(c) /\ Effect(c)
  /\ IF pc[c] = "deadletter" THEN Goto(c, "delete") ELSE Drop(c, "idle")
  /\ UNCHANGED <<sent, holder, count, store>>

\* CallFails going on to the deletion whatever DeadLetter returned.
CallFailsUnnoticed(c) ==
  /\ Calling(c) /\ (Nothing \/ Effect(c))
  /\ IF pc[c] = "deadletter" THEN Goto(c, "delete") ELSE Drop(c, "idle")
  /\ UNCHANGED <<sent, holder, count, store>>

\* The call returns an error, having had its effect or not: the message stays hidden
\* until its visibility is over.
CallFails(c) ==
  /\ Calling(c) /\ (Nothing \/ Effect(c))
  /\ Drop(c, "idle")
  /\ UNCHANGED <<sent, holder, count, store>>

-----------------------------------------------------------------------------
\* Starting and stopping.

\* The worker manager cancels the context.
Stop(c) ==
  /\ pc[c] # "down" /\ ~stopping[c]
  /\ stopping' = [stopping EXCEPT ![c] = TRUE]
  /\ UNCHANGED <<sqs, store, pc, msg, seen, fate>>

\* Run returns at its next look at the context.
Leave(c) ==
  /\ pc[c] = "idle" /\ stopping[c]
  /\ Goto(c, "down")
  /\ UNCHANGED <<sqs, store>>

\* The process dies.
Crash(c) ==
  /\ pc[c] # "down"
  /\ Drop(c, "down")
  /\ UNCHANGED <<sqs, store>>

\* Start makes a new context.
Restart(c) ==
  /\ pc[c] = "down"
  /\ pc' = [pc EXCEPT ![c] = "idle"]
  /\ stopping' = [stopping EXCEPT ![c] = FALSE]
  /\ UNCHANGED <<sqs, store, msg, seen, fate>>

-----------------------------------------------------------------------------

Init ==
  /\ sent = {} /\ queue = {} /\ hidden = {} /\ dlq = {} /\ taken = {}
  /\ holder = [m \in Messages |-> NONE]
  /\ count = [m \in Messages |-> 0]
  /\ outcome = [m \in Messages |-> ""]
  /\ pc = [c \in Consumers |-> "idle"]
  /\ msg = [c \in Consumers |-> NONE]
  /\ seen = [c \in Consumers |-> 0]
  /\ fate = [c \in Consumers |-> ""]
  /\ stopping = [c \in Consumers |-> FALSE]

\* What a consumer does when all goes well.
Work(c) == Handle(c) \/ Judge(c) \/ Fail(c) \/ Call(c)

\* Nothing goes wrong and nobody is stopped.
Calm ==
  \/ \E m \in Messages : Send(m) \/ TakeIdentity(m) \/ RedriveMessage(m)
                         \/ (~InTime(m) /\ Expire(m))
  \/ \E c \in Consumers : (\E m \in Messages : Receive(c, m)) \/ Work(c) \/ Leave(c)
                          \/ Restart(c)

Trouble ==
  \/ \E m \in Messages : ReceiveUnheard(m) \/ (InTime(m) /\ Expire(m))
  \/ \E c \in Consumers : Stumble(c) \/ FailStumbles(c) \/ CallFails(c) \/ Stop(c) \/ Crash(c)

Next == Calm \/ Trouble

Spec == Init /\ [][Next]_vars

\* Replicas run, and are started again when they end; visibility timeouts end; and from
\* some time on nothing goes wrong, messages being handled within their visibility.
Fairness ==
  /\ \A c \in Consumers : /\ WF_vars(\E m \in Messages : Receive(c, m) \/ RedriveMessage(m))
                          /\ WF_vars(Work(c)) /\ WF_vars(Leave(c)) /\ WF_vars(Restart(c))
  /\ \A m \in Messages : WF_vars(~InTime(m) /\ Expire(m))
  /\ <>[][Calm]_vars

FairSpec == Spec /\ Fairness

-----------------------------------------------------------------------------

Delivered == {m \in Messages : outcome[m] # ""} \cup dlq

\* A message leaves the queue only when its operation is recorded or it is in the
\* dead letter queue, wherever a consumer is stopped, dies or fails, and whichever
\* consumer's receipt deletes it.
NothingIsLost == sent \ queue \subseteq Delivered

\* A message is dead-lettered only if it is malformed, if its identity belongs to another
\* request, or if its receptions are used up.  One that the store has answered for is
\* dead-lettered in the last case only (the record of FAILED was made unheard).
DeadLettersAreJustified ==
  \A m \in dlq : \/ count[m] >= Limit
                 \/ outcome[m] = "" /\ (Content[m] = "malformed" \/ m \in taken)

\* A message is answered for, or dead-lettered, only after all those sent before it in
\* its group, however often they were retried and by whom.
GroupsStayInOrder ==
  \A n \in Delivered : \A m \in Messages :
    m < n /\ GroupOf[m] = GroupOf[n] => m \in Delivered

\* The queue and its consumers deliver every message at least once, to the store or to
\* the dead letter queue; and no message stays in the queue for ever, poisonous or not.
Delivery == INSTANCE AtLeastOnce
              WITH Items <- Messages, accepted <- sent, delivered <- Delivered,
                   retired <- sent \ queue
ImplementsAtLeastOnce == Delivery!FairSpec
=============================================================================
