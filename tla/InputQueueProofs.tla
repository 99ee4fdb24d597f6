-------------------------- MODULE InputQueueProofs --------------------------
(***************************************************************************)
(* The input queue loses nothing, dead-letters nothing without a reason    *)
(* and keeps the order of its groups, for any messages, consumers and      *)
(* limit of receptions, with or without a redrive policy.                  *)
(***************************************************************************)
EXTENDS InputQueue, TLAPS

\* The store will never record the operation of m.
Refused(m) == outcome[m] = "" /\ (Content[m] = "malformed" \/ m \in taken)

\* What brought a consumer to its step.
Reasons ==
  \A c \in Consumers :
    /\ pc[c] = "judge" /\ fate[c] = "ok" => outcome[msg[c]] # ""
    /\ pc[c] = "judge" /\ fate[c] = "permanent" => Refused(msg[c])
    /\ pc[c] = "fail" => seen[c] >= Limit
    /\ pc[c] = "deadletter" => seen[c] >= Limit \/ Refused(msg[c])
    /\ pc[c] = "delete" => msg[c] \in Delivered

\* A message is sent and received after those before it in its group.
Received == {n \in Messages : count[n] > 0}

Before(m, n) == m \in Messages /\ m < n /\ GroupOf[m] = GroupOf[n]

InTurn ==
  /\ \A n \in sent : \A m \in Messages : Before(m, n) => m \in sent
  /\ \A n \in Received : \A m \in queue : ~Before(m, n)
  /\ Received \subseteq sent
  /\ Delivered \subseteq Received

IInv == /\ TypeOK /\ NothingIsLost /\ DeadLettersAreJustified /\ Reasons /\ InTurn

LEMMA Bounds == /\ 0 \in 0..(Limit + 1)
                /\ \A n \in 0..(Limit + 1) : n <= Limit => n + 1 \in 0..(Limit + 1)
BY LimitAssumption

LEMMA InitIInv == Init => IInv
<1> SUFFICES ASSUME Init PROVE IInv
  OBVIOUS
<1>1. QueuesOK
  BY Bounds DEF Init, QueuesOK
<1>2. StoreOK
  BY DEF Init, StoreOK
<1>3. ConsumersOK
  BY Bounds DEF Init, ConsumersOK, Steps
<1>4. \A c \in Consumers : pc[c] = "idle"
  BY DEF Init
<1>5. TypeOK
  BY <1>1, <1>2, <1>3, <1>4 DEF TypeOK, Working
<1>6. Delivered = {}
  <2>1. dlq = {} /\ \A m \in Messages : outcome[m] = ""
    BY DEF Init
  <2>2. QED
    BY <2>1 DEF Delivered
<1>7. Received = {}
  <2>1. \A m \in Messages : count[m] = 0
    BY DEF Init
  <2>2. QED
    BY <2>1 DEF Received
<1>8. NothingIsLost /\ DeadLettersAreJustified /\ InTurn
  BY <1>6, <1>7 DEF Init, NothingIsLost, DeadLettersAreJustified, InTurn
<1>9. Reasons
  BY <1>4 DEF Reasons
<1>10. QED
  BY <1>5, <1>8, <1>9 DEF IInv

-----------------------------------------------------------------------------
\* The shapes of the steps.

\* A consumer gets on with its message, or leaves it; the other consumers stay.
Proceeds(c) ==
  /\ pc' \in [Consumers -> Steps] /\ fate' \in [Consumers -> {"", "ok", "transient", "permanent"}]
  /\ \/ msg'[c] = msg[c] /\ seen'[c] = seen[c] /\ Working(c)
     \/ ~Working(c)'
  /\ msg' \in [Consumers -> Messages \cup {NONE}] /\ seen' \in [Consumers -> 0..(Limit + 1)]
  /\ stopping' \in [Consumers -> BOOLEAN]
  /\ \A d \in Consumers \ {c} : pc'[d] = pc[d] /\ msg'[d] = msg[d] /\ seen'[d] = seen[d]
                                /\ fate'[d] = fate[d]

LEMMA GotoProceeds ==
  ASSUME TypeOK, NEW c \in Consumers, NEW step \in Steps, Working(c), Goto(c, step)
  PROVE  Proceeds(c)
BY DEF TypeOK, ConsumersOK, Goto, Proceeds

LEMMA DropProceeds ==
  ASSUME TypeOK, NEW c \in Consumers, NEW step \in {"idle", "down"}, Drop(c, step)
  PROVE  Proceeds(c)
BY Bounds DEF TypeOK, ConsumersOK, Drop, Proceeds, Working, Steps

LEMMA JudgedProceeds ==
  ASSUME TypeOK, NEW c \in Consumers, NEW f \in {"ok", "transient", "permanent"},
         pc[c] = "handle", Judged(c, f)
  PROVE  Proceeds(c)
BY DEF TypeOK, ConsumersOK, Judged, Proceeds, Working, Steps

\* The consumers stay where they are, but may be told to stop.
Stays == /\ UNCHANGED <<pc, msg, seen, fate>>
         /\ stopping' \in [Consumers -> BOOLEAN]

LEMMA ProceedsKeepsType ==
  ASSUME TypeOK, NEW c \in Consumers, Proceeds(c), QueuesOK', StoreOK', UNCHANGED <<sent, count>>
  PROVE  TypeOK'
BY DEF TypeOK, Proceeds, ConsumersOK, Working

LEMMA StaysKeepsType ==
  ASSUME TypeOK, Stays, QueuesOK', StoreOK', sent \subseteq sent',
         \A m \in Messages : count[m] <= count'[m]
  PROVE  TypeOK'
<1>1. ConsumersOK'
  BY DEF TypeOK, ConsumersOK, Stays
<1>2. ASSUME NEW c \in Consumers, Working(c)'
      PROVE  msg'[c] \in sent' /\ seen'[c] \in 1..count'[msg'[c]]
  <2>1. msg[c] \in sent /\ seen[c] \in 1..count[msg[c]] /\ msg[c] \in Messages
    BY <1>2 DEF TypeOK, Working, Stays, QueuesOK
  <2>2. count[msg[c]] \in Nat /\ count'[msg[c]] \in Nat /\ count[msg[c]] <= count'[msg[c]]
    BY <2>1, LimitAssumption DEF TypeOK, QueuesOK
  <2>3. QED
    BY <2>1, <2>2 DEF Stays
<1>3. QED
  BY <1>1, <1>2 DEF TypeOK

LEMMA CountedGrows ==
  ASSUME TypeOK, NEW m \in Messages
  PROVE  /\ Counted(m) \in [Messages -> 0..(Limit + 1)]
         /\ \A n \in Messages : count[n] <= Counted(m)[n]
         /\ Counted(m)[m] \in 1..(Limit + 1)
         /\ \A n \in Messages \ {m} : Counted(m)[n] = count[n]
<1>1. count[m] \in 0..(Limit + 1) /\ count \in [Messages -> 0..(Limit + 1)]
  BY DEF TypeOK, QueuesOK
<1>2. QED
  BY <1>1, LimitAssumption DEF Counted

\* Whatever a call does to the queues, it takes away or hides messages, and adds none.
LEMMA EffectKeepsQueues ==
  ASSUME TypeOK, NEW c \in Consumers, Working(c), Calling(c), Nothing \/ Effect(c),
         UNCHANGED <<sent, holder, count>>
  PROVE  QueuesOK'
<1>1. msg[c] \in sent
  BY DEF TypeOK
<1>2. CASE Nothing
  BY <1>2 DEF TypeOK, QueuesOK, Nothing
<1>3. CASE DeadLetters(msg[c])
  BY <1>1, <1>3 DEF TypeOK, QueuesOK, DeadLetters
<1>4. CASE Deletes(msg[c])
  BY <1>1, <1>4 DEF TypeOK, QueuesOK, Deletes
<1>5. CASE Hides(msg[c])
  BY <1>1, <1>5 DEF TypeOK, QueuesOK, Hides
<1>6. CASE Reveals(msg[c])
  BY <1>1, <1>6 DEF TypeOK, QueuesOK, Reveals
<1>7. QED
  BY <1>2, <1>3, <1>4, <1>5, <1>6 DEF Effect, Calling

LEMMA AnsweredIsTyped ==
  ASSUME TypeOK, NEW m \in Messages, NEW how \in {"recorded", "failed"}
  PROVE  Answered(m, how) \in [Messages -> {"", "recorded", "failed"}]
BY DEF TypeOK, StoreOK, Answered

LEMMA TypeStep == TypeOK /\ [Next]_vars => TypeOK'
<1> SUFFICES ASSUME TypeOK, [Next]_vars PROVE TypeOK'
  OBVIOUS
<1>a. \A c \in Consumers : Working(c) => msg[c] \in Messages
  BY DEF TypeOK, QueuesOK
<1>1. ASSUME NEW m \in Messages, Send(m) PROVE TypeOK'
  <2>1. QueuesOK' /\ StoreOK' /\ Stays /\ UNCHANGED count /\ sent \subseteq sent'
    BY <1>1 DEF Send, TypeOK, QueuesOK, StoreOK, ConsumersOK, Stays, store, local
  <2>2. \A n \in Messages : count[n] <= count'[n]
    BY <2>1, LimitAssumption DEF TypeOK, QueuesOK
  <2>3. QED
    BY <2>1, <2>2, StaysKeepsType
<1>2. ASSUME NEW m \in Messages, TakeIdentity(m) \/ RedriveMessage(m) \/ Expire(m)
      PROVE  TypeOK'
  <2>1. StoreOK' /\ Stays /\ UNCHANGED <<sent, count>>
    BY <1>2 DEF TakeIdentity, RedriveMessage, Expire, TypeOK, StoreOK, ConsumersOK, Stays,
                sqs, store, local
  <2>2. QueuesOK'
    BY <1>2 DEF TakeIdentity, RedriveMessage, Expire, Deliverable, TypeOK, QueuesOK, sqs
  <2>3. \A n \in Messages : count[n] <= count'[n]
    BY <2>1, LimitAssumption DEF TypeOK, QueuesOK
  <2>4. QED
    BY <2>1, <2>2, <2>3, StaysKeepsType
<1>3. ASSUME NEW m \in Messages, ReceiveUnheard(m) PROVE TypeOK'
  <2>1. StoreOK' /\ Stays /\ sent' = sent /\ count' = Counted(m)
    BY <1>3 DEF ReceiveUnheard, TypeOK, StoreOK, ConsumersOK, Stays, store, local
  <2>2. QueuesOK'
    BY <1>3, CountedGrows DEF ReceiveUnheard, Deliverable, TypeOK, QueuesOK
  <2>3. QED
    BY <2>1, <2>2, CountedGrows, StaysKeepsType
<1>4. ASSUME NEW c \in Consumers, NEW m \in Messages, Receive(c, m) PROVE TypeOK'
  <2>1. QueuesOK' /\ StoreOK'
    BY <1>4, CountedGrows DEF Receive, Deliverable, TypeOK, QueuesOK, StoreOK, store
  <2>2. ConsumersOK'
    BY <1>4, CountedGrows DEF Receive, TypeOK, ConsumersOK, Steps
  <2>3. msg'[c] = m /\ m \in sent' /\ seen'[c] = count'[m] /\ count'[m] \in 1..(Limit + 1)
    BY <1>4, CountedGrows DEF Receive, Deliverable, TypeOK, QueuesOK, ConsumersOK
  <2>4. ASSUME NEW d \in Consumers \ {c}, Working(d)'
        PROVE  msg'[d] \in sent' /\ seen'[d] \in 1..count'[msg'[d]]
    <3>1. msg[d] \in sent /\ seen[d] \in 1..count[msg[d]] /\ msg[d] \in Messages
      BY <1>4, <2>4 DEF Receive, TypeOK, ConsumersOK, Working, QueuesOK
    <3>2. count[msg[d]] \in Nat /\ count'[msg[d]] \in Nat /\ count[msg[d]] <= count'[msg[d]]
      <4>1. count' = Counted(m)
        BY <1>4 DEF Receive
      <4>2. count[msg[d]] \in 0..(Limit + 1) /\ count'[msg[d]] \in 0..(Limit + 1)
        BY <3>1, <4>1, CountedGrows DEF TypeOK, QueuesOK
      <4>3. QED
        BY <3>1, <4>1, <4>2, CountedGrows, LimitAssumption
    <3>3. msg'[d] = msg[d] /\ seen'[d] = seen[d] /\ sent' = sent
      BY <1>4 DEF Receive, TypeOK, ConsumersOK
    <3>4. QED
      BY <3>1, <3>2, <3>3
  <2>5. seen'[c] \in 1..count'[msg'[c]]
    BY <2>3, LimitAssumption
  <2>6. QED
    BY <2>1, <2>2, <2>3, <2>4, <2>5 DEF TypeOK
<1>5. ASSUME NEW c \in Consumers, Handle(c) \/ Stumble(c) PROVE TypeOK'
  <2>1. pc[c] = "handle" /\ \E f \in {"ok", "transient", "permanent"} : Judged(c, f)
    BY <1>5 DEF Handle, Stumble
  <2>2. Proceeds(c)
    BY <2>1, JudgedProceeds
  <2>3. msg[c] \in Messages
    BY <1>a, <2>1 DEF Working
  <2>4. StoreOK'
    BY <1>5, <2>1, <2>3, AnsweredIsTyped DEF Handle, Stumble, Judged, TypeOK, StoreOK
  <2>5. QueuesOK' /\ UNCHANGED <<sent, count>>
    BY <2>1 DEF Judged, sqs, TypeOK, QueuesOK
  <2>6. QED
    BY <2>2, <2>4, <2>5, ProceedsKeepsType
<1>6. ASSUME NEW c \in Consumers, Judge(c) PROVE TypeOK'
  <2>1. Working(c) /\ \E step \in Steps : Goto(c, step)
    BY <1>6 DEF Judge, Working, Steps
  <2>2. Proceeds(c)
    BY <2>1, GotoProceeds
  <2>3. QueuesOK' /\ StoreOK' /\ UNCHANGED <<sent, count>>
    BY <1>6 DEF Judge, TypeOK, QueuesOK, StoreOK, sqs, store
  <2>4. QED
    BY <2>2, <2>3, ProceedsKeepsType
<1>7. ASSUME NEW c \in Consumers, Fail(c) \/ FailStumbles(c) PROVE TypeOK'
  <2>1. Working(c) /\ \E step \in Steps : Goto(c, step)
    BY <1>7 DEF Fail, FailStumbles, Working, Steps
  <2>2. Proceeds(c)
    BY <2>1, GotoProceeds
  <2>3. StoreOK'
    BY <1>7, <1>a, <2>1, AnsweredIsTyped DEF Fail, FailStumbles, TypeOK, StoreOK
  <2>4. QueuesOK' /\ UNCHANGED <<sent, count>>
    BY <1>7 DEF Fail, FailStumbles, TypeOK, QueuesOK, sqs
  <2>5. QED
    BY <2>2, <2>3, <2>4, ProceedsKeepsType
<1>8. ASSUME NEW c \in Consumers, Call(c) \/ CallFails(c) PROVE TypeOK'
  <2>1. Working(c) /\ Calling(c) /\ (Nothing \/ Effect(c)) /\ UNCHANGED <<sent, holder, count>>
    BY <1>8 DEF Call, CallFails, Calling, Working
  <2>2. Proceeds(c)
    BY <1>8, <2>1, GotoProceeds, DropProceeds DEF Call, CallFails, Steps
  <2>3. StoreOK'
    BY <1>8 DEF Call, CallFails, TypeOK, StoreOK, store
  <2>4. QED
    BY <2>1, <2>2, <2>3, EffectKeepsQueues, ProceedsKeepsType
<1>9. ASSUME NEW c \in Consumers, Leave(c) \/ Restart(c) \/ Crash(c) PROVE TypeOK'
  <2>1. Proceeds(c)
    BY <1>9, DropProceeds DEF Leave, Restart, Crash, Goto, Proceeds, Working, TypeOK,
                              ConsumersOK, Steps
  <2>2. QueuesOK' /\ StoreOK' /\ UNCHANGED <<sent, count>>
    BY <1>9 DEF Leave, Restart, Crash, TypeOK, QueuesOK, StoreOK, sqs, store
  <2>3. QED
    BY <2>1, <2>2, ProceedsKeepsType
<1>10. ASSUME Stays /\ UNCHANGED <<sqs, store>> PROVE TypeOK'
  <2>1. QueuesOK' /\ StoreOK' /\ UNCHANGED <<sent, count>>
    BY <1>10 DEF TypeOK, QueuesOK, StoreOK, sqs, store
  <2>2. \A n \in Messages : count[n] <= count'[n]
    BY <2>1, LimitAssumption DEF TypeOK, QueuesOK
  <2>3. QED
    BY <1>10, <2>1, <2>2, StaysKeepsType
<1>11. ASSUME NEW c \in Consumers, Stop(c) PROVE TypeOK'
  BY <1>10, <1>11 DEF Stop, Stays, TypeOK, ConsumersOK
<1>12. CASE UNCHANGED vars
  BY <1>10, <1>12 DEF vars, local, Stays, TypeOK, ConsumersOK
<1>13. QED
  BY <1>1, <1>2, <1>3, <1>4, <1>5, <1>6, <1>7, <1>8, <1>9, <1>11, <1>12
     DEF Next, Calm, Trouble, Work

-----------------------------------------------------------------------------
\* What is answered for stays so, and what is refused stays refused.

Progress ==
  /\ \A m \in Messages : outcome[m] # "" => outcome'[m] # ""
  /\ \A m \in Messages : Refused(m) => Refused(m)'
  /\ Delivered \subseteq Delivered'

\* The store answers for one more message at most, and only if it can record it.
LEMMA AnsweringIsProgress ==
  ASSUME TypeOK, NEW m \in Messages, NEW how \in {"recorded", "failed"}, Recordable(m),
         outcome' = Answered(m, how), UNCHANGED <<taken, dlq>>
  PROVE  Progress /\ outcome'[m] # "" /\ Delivered' = Delivered \cup {m}
<1>1. /\ \A n \in Messages \ {m} : outcome'[n] = outcome[n]
      /\ outcome'[m] # "" /\ (outcome[m] # "" => outcome'[m] = outcome[m])
  BY DEF Answered, TypeOK, StoreOK
<1>2. ~Refused(m)
  BY DEF Refused, Recordable
<1>3. QED
  BY <1>1, <1>2 DEF Progress, Refused, Delivered

LEMMA QuietIsProgress ==
  ASSUME UNCHANGED outcome, taken \subseteq taken', dlq \subseteq dlq'
  PROVE  Progress
BY DEF Progress, Refused, Delivered

LEMMA EffectOnDlq ==
  ASSUME NEW c \in Consumers, Calling(c), Nothing \/ Effect(c)
  PROVE  \/ dlq' = dlq
         \/ pc[c] = "deadletter" /\ dlq' = dlq \cup {msg[c]}
BY DEF Calling, Effect, DeadLetters, Deletes, Hides, Reveals, Nothing

LEMMA EffectOnQueue ==
  ASSUME NEW c \in Consumers, Calling(c), Nothing \/ Effect(c)
  PROVE  \/ queue' = queue
         \/ pc[c] = "delete" /\ queue' = queue \ {msg[c]}
BY DEF Calling, Effect, DeadLetters, Deletes, Hides, Reveals, Nothing

\* The steps in which the store answers: either it can record the operation of the
\* message and does, or nothing changes there.
Answers(c) ==
  \/ UNCHANGED outcome
  \/ Recordable(msg[c]) /\ \E how \in {"recorded", "failed"} : outcome' = Answered(msg[c], how)

LEMMA AnsweringSteps ==
  ASSUME NEW c \in Consumers, Handle(c) \/ Stumble(c) \/ Fail(c) \/ FailStumbles(c)
  PROVE  Answers(c) /\ UNCHANGED sqs /\ UNCHANGED taken /\ Working(c)
BY DEF Handle, Stumble, Fail, FailStumbles, Judged, Answers, Working

LEMMA ProgressStep == TypeOK /\ [Next]_vars => Progress
<1> SUFFICES ASSUME TypeOK, [Next]_vars PROVE Progress
  OBVIOUS
<1>1. ASSUME NEW c \in Consumers, Handle(c) \/ Stumble(c) \/ Fail(c) \/ FailStumbles(c)
      PROVE  Progress
  <2>1. Answers(c) /\ UNCHANGED dlq /\ UNCHANGED taken /\ msg[c] \in Messages
    BY <1>1, AnsweringSteps DEF sqs, TypeOK, QueuesOK
  <2>2. QED
    BY <2>1, AnsweringIsProgress, QuietIsProgress DEF Answers
<1>2. ASSUME NEW c \in Consumers, Call(c) \/ CallFails(c) PROVE Progress
  <2>1. dlq \subseteq dlq' /\ UNCHANGED store
    BY <1>2, EffectOnDlq DEF Call, CallFails
  <2>2. QED
    BY <2>1, QuietIsProgress DEF store
<1>3. ASSUME NEW c \in Consumers, Judge(c) \/ Leave(c) \/ Restart(c) \/ Stop(c) \/ Crash(c)
      PROVE  Progress
  BY <1>3, QuietIsProgress DEF Judge, Leave, Restart, Stop, Crash, sqs, store
<1>4. ASSUME NEW m \in Messages, Send(m) \/ TakeIdentity(m) \/ RedriveMessage(m)
                                  \/ Expire(m) \/ ReceiveUnheard(m)
      PROVE  Progress
  BY <1>4, QuietIsProgress DEF Send, TakeIdentity, RedriveMessage, Expire, ReceiveUnheard,
                               sqs, store
<1>5. ASSUME NEW c \in Consumers, NEW m \in Messages, Receive(c, m) PROVE Progress
  BY <1>5, QuietIsProgress DEF Receive, store
<1>6. CASE UNCHANGED vars
  BY <1>6, QuietIsProgress DEF vars, sqs, store
<1>7. QED
  BY <1>1, <1>2, <1>3, <1>4, <1>5, <1>6 DEF Next, Calm, Trouble, Work

-----------------------------------------------------------------------------
\* Each step has its reason.

Reason(c) ==
  /\ pc[c] = "judge" /\ fate[c] = "ok" => outcome[msg[c]] # ""
  /\ pc[c] = "judge" /\ fate[c] = "permanent" => Refused(msg[c])
  /\ pc[c] = "fail" => seen[c] >= Limit
  /\ pc[c] = "deadletter" => seen[c] >= Limit \/ Refused(msg[c])
  /\ pc[c] = "delete" => msg[c] \in Delivered

LEMMA ReasonKept ==
  ASSUME TypeOK, Progress, NEW c \in Consumers, Reason(c),
         pc'[c] = pc[c], msg'[c] = msg[c], seen'[c] = seen[c], fate'[c] = fate[c]
  PROVE  Reason(c)'
<1>1. CASE ~Working(c)
  BY <1>1 DEF Reason, Working
<1>2. CASE Working(c)
  <2>1. msg[c] \in Messages
    BY <1>2 DEF TypeOK, QueuesOK
  <2>2. QED
    BY <2>1 DEF Reason, Progress
<1>3. QED
  BY <1>1, <1>2

LEMMA ReasonOfOthers ==
  ASSUME TypeOK, Progress, NEW c \in Consumers, \A d \in Consumers : Reason(d),
         \A d \in Consumers \ {c} : pc'[d] = pc[d] /\ msg'[d] = msg[d] /\ seen'[d] = seen[d]
                                    /\ fate'[d] = fate[d],
         Reason(c)'
  PROVE  Reasons'
<1>1. ASSUME NEW d \in Consumers PROVE Reason(d)'
  BY ReasonKept
<1>2. QED
  BY <1>1 DEF Reasons, Reason

LEMMA ReasonsStep == TypeOK /\ Reasons /\ [Next]_vars => Reasons'
<1> SUFFICES ASSUME TypeOK, Reasons, [Next]_vars PROVE Reasons'
  OBVIOUS
<1>a. Progress
  BY ProgressStep
<1>b. \A d \in Consumers : Reason(d)
  BY DEF Reasons, Reason
<1>c. ASSUME UNCHANGED <<pc, msg, seen, fate>> PROVE Reasons'
  BY <1>a, <1>b, <1>c, ReasonKept DEF Reasons, Reason
<1>1. ASSUME NEW c \in Consumers, Handle(c) \/ Stumble(c) PROVE Reasons'
  <2>1. /\ pc[c] = "handle" /\ msg[c] \in Messages /\ pc'[c] = "judge" /\ msg'[c] = msg[c]
        /\ \A d \in Consumers \ {c} : pc'[d] = pc[d] /\ msg'[d] = msg[d] /\ seen'[d] = seen[d]
                                      /\ fate'[d] = fate[d]
    BY <1>1 DEF Handle, Stumble, Judged, TypeOK, ConsumersOK, QueuesOK, Working
  <2>2. CASE Stumble(c)
    <3>1. fate'[c] = "transient"
      BY <2>2 DEF Stumble, Judged, TypeOK, ConsumersOK
    <3>2. QED
      BY <1>a, <1>b, <2>1, <3>1, ReasonOfOthers DEF Reason
  <2>3. CASE Handle(c) /\ Recordable(msg[c])
    <3>1. fate'[c] = "ok" /\ outcome'[msg[c]] # ""
      BY <2>1, <2>3, AnsweringIsProgress DEF Handle, Judged, sqs, TypeOK, ConsumersOK
    <3>2. QED
      BY <1>a, <1>b, <2>1, <3>1, ReasonOfOthers DEF Reason
  <2>4. CASE Handle(c) /\ ~Recordable(msg[c])
    <3>1. fate'[c] = IF Content[msg[c]] = "unrecordable" THEN "transient" ELSE "permanent"
      BY <2>1, <2>4 DEF Handle, Judged, TypeOK, ConsumersOK
    <3>2. Content[msg[c]] # "unrecordable" => Refused(msg[c])'
      <4>1. Content[msg[c]] \in Contents
        BY <2>1, ContentAssumption
      <4>2. Content[msg[c]] # "unrecordable" => Refused(msg[c])
        BY <2>4, <4>1 DEF Recordable, Refused, Contents
      <4>3. UNCHANGED <<outcome, taken>> /\ msg'[c] = msg[c]
        BY <2>1, <2>4 DEF Handle, Judged
      <4>4. QED
        BY <4>2, <4>3 DEF Refused
    <3>3. QED
      BY <1>a, <1>b, <2>1, <3>1, <3>2, ReasonOfOthers DEF Reason, Refused
  <2>5. QED
    BY <1>1, <2>2, <2>3, <2>4
<1>2. ASSUME NEW c \in Consumers, Judge(c) PROVE Reasons'
  <2>1. /\ pc[c] = "judge" /\ msg'[c] = msg[c] /\ seen'[c] = seen[c] /\ UNCHANGED store
        /\ \A d \in Consumers \ {c} : pc'[d] = pc[d] /\ msg'[d] = msg[d] /\ seen'[d] = seen[d]
                                      /\ fate'[d] = fate[d]
    BY <1>2 DEF Judge, Goto, TypeOK, ConsumersOK
  <2>2. \/ fate[c] = "ok" /\ pc'[c] = "delete"
        \/ pc'[c] \in {"release", "retry"}
        \/ fate[c] = "permanent" /\ pc'[c] = "deadletter"
        \/ seen[c] >= Limit /\ pc'[c] = "fail"
    BY <1>2 DEF Judge, Goto, TypeOK, ConsumersOK
  <2>3. msg[c] \in Messages
    BY <2>1 DEF TypeOK, QueuesOK, Working
  <2>4. Reason(c)'
    BY <1>b, <2>1, <2>2, <2>3 DEF Reason, Refused, Delivered, store
  <2>5. QED
    BY <1>a, <1>b, <2>1, <2>4, ReasonOfOthers
<1>3. ASSUME NEW c \in Consumers, Fail(c) \/ FailStumbles(c) PROVE Reasons'
  <2>1. /\ pc[c] = "fail" /\ msg'[c] = msg[c] /\ seen'[c] = seen[c]
        /\ \A d \in Consumers \ {c} : pc'[d] = pc[d] /\ msg'[d] = msg[d] /\ seen'[d] = seen[d]
                                      /\ fate'[d] = fate[d]
    BY <1>3 DEF Fail, FailStumbles, Goto, TypeOK, ConsumersOK
  <2>2. msg[c] \in Messages
    BY <2>1 DEF TypeOK, QueuesOK, Working
  <2>3. CASE pc'[c] = "deadletter"
    BY <1>a, <1>b, <2>1, <2>3, ReasonOfOthers DEF Reason
  <2>4. CASE pc'[c] = "delete"
    <3>1. Recordable(msg[c]) /\ outcome' = Answered(msg[c], "failed") /\ UNCHANGED <<taken, dlq>>
      BY <1>3, <2>1, <2>4 DEF Fail, FailStumbles, Goto, sqs, TypeOK, ConsumersOK
    <3>2. msg[c] \in Delivered'
      BY <2>2, <3>1, AnsweringIsProgress
    <3>3. QED
      BY <1>a, <1>b, <2>1, <2>4, <3>2, ReasonOfOthers DEF Reason
  <2>5. QED
    BY <1>3, <2>3, <2>4 DEF Fail, FailStumbles, Goto, TypeOK, ConsumersOK
<1>4. ASSUME NEW c \in Consumers, Call(c) \/ CallFails(c) PROVE Reasons'
  <2>1. \A d \in Consumers \ {c} : pc'[d] = pc[d] /\ msg'[d] = msg[d] /\ seen'[d] = seen[d]
                                   /\ fate'[d] = fate[d]
    BY <1>4 DEF Call, CallFails, Goto, Drop, TypeOK, ConsumersOK
  <2>2. CASE pc'[c] = "idle"
    BY <1>a, <1>b, <2>1, <2>2, ReasonOfOthers DEF Reason
  <2>3. CASE pc[c] = "deadletter" /\ Call(c)
    <3>1. dlq' = dlq \cup {msg[c]} /\ msg'[c] = msg[c] /\ pc'[c] = "delete"
      BY <2>3 DEF Call, Effect, DeadLetters, Goto, TypeOK, ConsumersOK
    <3>2. QED
      BY <1>a, <1>b, <2>1, <3>1, ReasonOfOthers DEF Reason, Delivered
  <2>4. QED
    BY <1>4, <2>2, <2>3 DEF Call, CallFails, Drop, TypeOK, ConsumersOK
<1>5. ASSUME NEW c \in Consumers, Leave(c) \/ Restart(c) \/ Crash(c) PROVE Reasons'
  <2>1. /\ pc'[c] \in {"idle", "down"}
        /\ \A d \in Consumers \ {c} : pc'[d] = pc[d] /\ msg'[d] = msg[d] /\ seen'[d] = seen[d]
                                      /\ fate'[d] = fate[d]
    BY <1>5 DEF Leave, Restart, Crash, Goto, Drop, TypeOK, ConsumersOK
  <2>2. QED
    BY <1>a, <1>b, <2>1, ReasonOfOthers DEF Reason
<1>6. ASSUME NEW c \in Consumers, NEW m \in Messages, Receive(c, m) PROVE Reasons'
  <2>1. /\ pc'[c] = "handle"
        /\ \A d \in Consumers \ {c} : pc'[d] = pc[d] /\ msg'[d] = msg[d] /\ seen'[d] = seen[d]
                                      /\ fate'[d] = fate[d]
    BY <1>6 DEF Receive, TypeOK, ConsumersOK
  <2>2. QED
    BY <1>a, <1>b, <2>1, ReasonOfOthers DEF Reason
<1>7. ASSUME NEW m \in Messages, Send(m) \/ TakeIdentity(m) \/ RedriveMessage(m)
                                  \/ Expire(m) \/ ReceiveUnheard(m)
      PROVE  Reasons'
  BY <1>c, <1>7 DEF Send, TakeIdentity, RedriveMessage, Expire, ReceiveUnheard, local
<1>8. ASSUME NEW c \in Consumers, Stop(c) PROVE Reasons'
  BY <1>c, <1>8 DEF Stop
<1>9. CASE UNCHANGED vars
  BY <1>c, <1>9 DEF vars, local
<1>10. QED
  BY <1>1, <1>2, <1>3, <1>4, <1>5, <1>6, <1>7, <1>8, <1>9 DEF Next, Calm, Trouble, Work

-----------------------------------------------------------------------------
\* The messages of a group take their turns.

LEMMA SentStep ==
  ASSUME TypeOK, [Next]_vars
  PROVE  \/ UNCHANGED sent /\ queue' \subseteq queue
         \/ \E m \in Messages : Send(m)
<1>1. ASSUME NEW c \in Consumers, Call(c) \/ CallFails(c)
      PROVE  UNCHANGED sent /\ queue' \subseteq queue
  BY <1>1, EffectOnQueue DEF Call, CallFails
<1>2. ASSUME NEW c \in Consumers, Handle(c) \/ Stumble(c) \/ Fail(c) \/ FailStumbles(c)
      PROVE  UNCHANGED sent /\ queue' \subseteq queue
  BY <1>2, AnsweringSteps DEF sqs
<1>3. ASSUME NEW c \in Consumers, Judge(c) \/ Leave(c) \/ Restart(c) \/ Stop(c) \/ Crash(c)
      PROVE  UNCHANGED sent /\ queue' \subseteq queue
  BY <1>3 DEF Judge, Leave, Restart, Stop, Crash, sqs
<1>4. ASSUME NEW c \in Consumers, NEW m \in Messages, Receive(c, m)
      PROVE  UNCHANGED sent /\ queue' \subseteq queue
  BY <1>4 DEF Receive
<1>5. ASSUME NEW m \in Messages,
             TakeIdentity(m) \/ RedriveMessage(m) \/ Expire(m) \/ ReceiveUnheard(m)
      PROVE  UNCHANGED sent /\ queue' \subseteq queue
  BY <1>5 DEF TakeIdentity, RedriveMessage, Expire, ReceiveUnheard, sqs
<1>6. CASE UNCHANGED vars
  BY <1>6 DEF vars, sqs
<1>7. QED
  BY <1>1, <1>2, <1>3, <1>4, <1>5, <1>6 DEF Next, Calm, Trouble, Work

\* Only a message that is the oldest of its group is received.
LEMMA ReceivedStep ==
  ASSUME TypeOK, [Next]_vars
  PROVE  \/ Received' = Received /\ UNCHANGED count
         \/ \E m \in Messages : /\ Received' = Received \cup {m} /\ Deliverable(m)
                               /\ queue' = queue /\ count' = Counted(m)
<1>1. ASSUME NEW m \in Messages, Deliverable(m), count' = Counted(m)
      PROVE  Received' = Received \cup {m}
  <2>1. \A n \in Messages : count[n] \in 0..(Limit + 1)
    BY DEF TypeOK, QueuesOK
  <2>2. QED
    BY <1>1, <2>1, CountedGrows, LimitAssumption DEF Received
<1>2. ASSUME UNCHANGED count PROVE Received' = Received
  BY <1>2 DEF Received
<1>3. ASSUME NEW c \in Consumers, Call(c) \/ CallFails(c) PROVE UNCHANGED count
  BY <1>3 DEF Call, CallFails
<1>4. ASSUME NEW c \in Consumers, Handle(c) \/ Stumble(c) \/ Fail(c) \/ FailStumbles(c)
      PROVE  UNCHANGED count
  BY <1>4, AnsweringSteps DEF sqs
<1>5. ASSUME NEW c \in Consumers, Judge(c) \/ Leave(c) \/ Restart(c) \/ Stop(c) \/ Crash(c)
      PROVE  UNCHANGED count
  BY <1>5 DEF Judge, Leave, Restart, Stop, Crash, sqs
<1>6. ASSUME NEW m \in Messages,
             Send(m) \/ TakeIdentity(m) \/ RedriveMessage(m) \/ Expire(m)
      PROVE  UNCHANGED count
  BY <1>6 DEF Send, TakeIdentity, RedriveMessage, Expire, sqs
<1>7. ASSUME NEW m \in Messages, ReceiveUnheard(m) \/ \E c \in Consumers : Receive(c, m)
      PROVE  Deliverable(m) /\ queue' = queue /\ count' = Counted(m)
  BY <1>7 DEF ReceiveUnheard, Receive
<1>8. CASE UNCHANGED vars
  BY <1>2, <1>8 DEF vars, sqs
<1>9. QED
  BY <1>1, <1>2, <1>3, <1>4, <1>5, <1>6, <1>7, <1>8 DEF Next, Calm, Trouble, Work

\* A message newly answered for or dead-lettered was received before.
LEMMA DeliveredStep ==
  ASSUME TypeOK, [Next]_vars, Delivered \subseteq Received
  PROVE  \/ Delivered' = Delivered
         \/ \E m \in Received : Delivered' = Delivered \cup {m} /\ UNCHANGED count
<1>a. ASSUME NEW c \in Consumers, Working(c) PROVE msg[c] \in Received
  <2>1. msg[c] \in Messages /\ seen[c] \in 1..count[msg[c]] /\ count[msg[c]] \in 0..(Limit + 1)
    BY <1>a DEF TypeOK, QueuesOK
  <2>2. QED
    BY <2>1, LimitAssumption DEF Received
<1>b. ASSUME UNCHANGED <<outcome, dlq>> PROVE Delivered' = Delivered
  BY <1>b DEF Delivered
<1>1. ASSUME NEW c \in Consumers, Handle(c) \/ Stumble(c) \/ Fail(c) \/ FailStumbles(c)
      PROVE  \/ Delivered' = Delivered
             \/ \E m \in Received : Delivered' = Delivered \cup {m} /\ UNCHANGED count
  <2>1. /\ Answers(c) /\ UNCHANGED <<dlq, count, taken>>
        /\ msg[c] \in Received /\ msg[c] \in Messages
    BY <1>1, <1>a, AnsweringSteps DEF sqs, Received
  <2>2. CASE UNCHANGED outcome
    BY <1>b, <2>1, <2>2
  <2>3. CASE Recordable(msg[c]) /\ \E how \in {"recorded", "failed"} :
                                    outcome' = Answered(msg[c], how)
    BY <2>1, <2>3, AnsweringIsProgress
  <2>4. QED
    BY <2>1, <2>2, <2>3 DEF Answers
<1>2. ASSUME NEW c \in Consumers, Call(c) \/ CallFails(c)
      PROVE  \/ Delivered' = Delivered
             \/ \E m \in Received : Delivered' = Delivered \cup {m} /\ UNCHANGED count
  <2>1. Calling(c) /\ (Nothing \/ Effect(c)) /\ UNCHANGED <<outcome, count>>
    BY <1>2 DEF Call, CallFails, store
  <2>2. msg[c] \in Received
    BY <1>a, <2>1 DEF Calling, Working
  <2>3. QED
    BY <2>1, <2>2, EffectOnDlq DEF Delivered
<1>3. ASSUME NEW c \in Consumers, Judge(c) \/ Leave(c) \/ Restart(c) \/ Stop(c) \/ Crash(c)
      PROVE  Delivered' = Delivered
  BY <1>3, <1>b DEF Judge, Leave, Restart, Stop, Crash, sqs, store
<1>4. ASSUME NEW m \in Messages,
             Send(m) \/ TakeIdentity(m) \/ Expire(m) \/ ReceiveUnheard(m)
      PROVE  Delivered' = Delivered
  BY <1>4, <1>b DEF Send, TakeIdentity, Expire, ReceiveUnheard, sqs, store
<1>5. ASSUME NEW m \in Messages, RedriveMessage(m)
      PROVE  m \in Received /\ Delivered' = Delivered \cup {m} /\ UNCHANGED count
  <2>1. count[m] >= Limit /\ count[m] \in 0..(Limit + 1)
    BY <1>5 DEF RedriveMessage, Exhausted, TypeOK, QueuesOK
  <2>2. m \in Received
    BY <2>1, LimitAssumption DEF Received
  <2>3. QED
    BY <1>5, <2>2 DEF RedriveMessage, store, Delivered
<1>6. ASSUME NEW c \in Consumers, NEW m \in Messages, Receive(c, m)
      PROVE  Delivered' = Delivered
  BY <1>6, <1>b DEF Receive, store
<1>7. CASE UNCHANGED vars
  BY <1>7, <1>b DEF vars, sqs, store
<1>8. QED
  BY <1>1, <1>2, <1>3, <1>4, <1>5, <1>6, <1>7 DEF Next, Calm, Trouble, Work

LEMMA InTurnStep == TypeOK /\ InTurn /\ [Next]_vars => InTurn'
<1> SUFFICES ASSUME TypeOK, InTurn, [Next]_vars PROVE InTurn'
  OBVIOUS
<1>1. \A n \in sent' : \A m \in Messages : Before(m, n) => m \in sent'
  BY SentStep DEF InTurn, Send, Before
<1>2. Received \subseteq Received' /\ Received' \subseteq sent'
  <2>1. sent \subseteq sent'
    BY SentStep DEF Send
  <2>2. QED
    BY <2>1, ReceivedStep DEF InTurn, Deliverable, TypeOK, QueuesOK
<1>3. ASSUME NEW n \in Received', NEW m \in queue' PROVE ~Before(m, n)
  <2>1. CASE n \in Received /\ m \in queue
    BY <2>1 DEF InTurn
  <2>2. CASE n \in Received /\ m \notin queue
    <3>1. m \notin sent
      BY <2>2, SentStep DEF Send
    <3>2. QED
      BY <2>2, <3>1 DEF InTurn, Before
  <2>3. CASE n \notin Received
    <3>1. Deliverable(n) /\ m \in queue
      BY <2>3, ReceivedStep
    <3>2. n \in Nat /\ m \in Nat
      BY <3>1, MessagesAssumption DEF Deliverable, TypeOK, QueuesOK
    <3>3. QED
      BY <3>1, <3>2 DEF Deliverable, OldestInGroup, Before
  <2>4. QED
    BY <2>1, <2>2, <2>3
<1>4. Delivered' \subseteq Received'
  BY <1>2, DeliveredStep DEF InTurn
<1>5. QED
  BY <1>1, <1>2, <1>3, <1>4 DEF InTurn, Before

-----------------------------------------------------------------------------
\* What leaves the queue was delivered.

LEMMA LeavingStep ==
  ASSUME TypeOK, Reasons, [Next]_vars, NEW m \in queue, m \notin queue'
  PROVE  m \in Delivered \/ RedriveMessage(m)
<1>1. ASSUME NEW c \in Consumers, Call(c) \/ CallFails(c) PROVE m \in Delivered
  BY <1>1, EffectOnQueue DEF Call, CallFails, Reasons
<1>2. ASSUME NEW c \in Consumers, Handle(c) \/ Stumble(c) \/ Fail(c) \/ FailStumbles(c)
      PROVE  UNCHANGED queue
  BY <1>2, AnsweringSteps DEF sqs
<1>3. ASSUME NEW c \in Consumers, Judge(c) \/ Leave(c) \/ Restart(c) \/ Stop(c) \/ Crash(c)
      PROVE  UNCHANGED queue
  BY <1>3 DEF Judge, Leave, Restart, Stop, Crash, sqs
<1>4. ASSUME NEW n \in Messages, Send(n) \/ TakeIdentity(n) \/ Expire(n) \/ ReceiveUnheard(n)
                                  \/ \E c \in Consumers : Receive(c, n)
      PROVE  queue \subseteq queue'
  BY <1>4 DEF Send, TakeIdentity, Expire, ReceiveUnheard, Receive, sqs
<1>5. ASSUME NEW n \in Messages, RedriveMessage(n) PROVE RedriveMessage(m)
  BY <1>5 DEF RedriveMessage
<1>6. CASE UNCHANGED vars
  BY <1>6 DEF vars, sqs
<1>7. QED
  BY <1>1, <1>2, <1>3, <1>4, <1>5, <1>6 DEF Next, Calm, Trouble, Work

LEMMA NothingIsLostStep == TypeOK /\ Reasons /\ NothingIsLost /\ [Next]_vars => NothingIsLost'
<1> SUFFICES ASSUME TypeOK, Reasons, NothingIsLost, [Next]_vars, NEW m \in sent', m \notin queue'
             PROVE  m \in Delivered'
  BY DEF NothingIsLost
<1>1. m \in sent
  BY SentStep DEF Send
<1>2. CASE m \in Delivered
  BY <1>2, ProgressStep DEF Progress
<1>3. CASE m \notin Delivered
  <2>1. m \in queue
    BY <1>1, <1>3 DEF NothingIsLost
  <2>2. RedriveMessage(m)
    BY <1>3, <2>1, LeavingStep
  <2>3. QED
    BY <2>2 DEF RedriveMessage, Delivered
<1>4. QED
  BY <1>2, <1>3

\* What comes into the dead letter queue has a reason to be there.
LEMMA DeadLetterStep ==
  ASSUME TypeOK, Reasons, [Next]_vars, NEW m \in dlq', m \notin dlq
  PROVE  m \in Messages /\ (count[m] >= Limit \/ Refused(m))
<1>1. ASSUME NEW c \in Consumers, Call(c) \/ CallFails(c)
      PROVE  m \in Messages /\ (count[m] >= Limit \/ Refused(m))
  <2>1. pc[c] = "deadletter" /\ m = msg[c]
    BY <1>1, EffectOnDlq DEF Call, CallFails
  <2>2. m \in Messages /\ seen[c] \in 1..count[m] /\ count[m] \in 0..(Limit + 1)
    BY <2>1 DEF TypeOK, QueuesOK, Working
  <2>3. seen[c] >= Limit \/ Refused(m)
    BY <2>1 DEF Reasons
  <2>4. QED
    BY <2>2, <2>3, LimitAssumption
<1>2. ASSUME NEW c \in Consumers, Handle(c) \/ Stumble(c) \/ Fail(c) \/ FailStumbles(c)
      PROVE  UNCHANGED dlq
  BY <1>2, AnsweringSteps DEF sqs
<1>3. ASSUME NEW c \in Consumers, Judge(c) \/ Leave(c) \/ Restart(c) \/ Stop(c) \/ Crash(c)
      PROVE  UNCHANGED dlq
  BY <1>3 DEF Judge, Leave, Restart, Stop, Crash, sqs
<1>4. ASSUME NEW n \in Messages, Send(n) \/ TakeIdentity(n) \/ Expire(n) \/ ReceiveUnheard(n)
                                  \/ \E c \in Consumers : Receive(c, n)
      PROVE  UNCHANGED dlq
  BY <1>4 DEF Send, TakeIdentity, Expire, ReceiveUnheard, Receive, sqs
<1>5. ASSUME NEW n \in Messages, RedriveMessage(n)
      PROVE  m \in Messages /\ (count[m] >= Limit \/ Refused(m))
  BY <1>5 DEF RedriveMessage, Exhausted
<1>6. CASE UNCHANGED vars
  BY <1>6 DEF vars, sqs
<1>7. QED
  BY <1>1, <1>2, <1>3, <1>4, <1>5, <1>6 DEF Next, Calm, Trouble, Work

LEMMA DeadLettersStep ==
  TypeOK /\ Reasons /\ DeadLettersAreJustified /\ [Next]_vars => DeadLettersAreJustified'
<1> SUFFICES ASSUME TypeOK, Reasons, DeadLettersAreJustified, [Next]_vars, NEW m \in dlq'
             PROVE  count'[m] >= Limit \/ Refused(m)'
  BY DEF DeadLettersAreJustified, Refused
<1>1. m \in Messages /\ (count[m] >= Limit \/ Refused(m))
  BY DeadLetterStep DEF DeadLettersAreJustified, Refused, TypeOK, QueuesOK
<1>2. count[m] \in 0..(Limit + 1) /\ count'[m] \in 0..(Limit + 1) /\ count[m] <= count'[m]
  <2>1. count[m] \in 0..(Limit + 1) /\ count'[m] \in 0..(Limit + 1)
    BY <1>1, TypeStep DEF TypeOK, QueuesOK
  <2>2. QED
    BY <1>1, <2>1, ReceivedStep, CountedGrows, LimitAssumption
<1>3. Refused(m) => Refused(m)'
  BY <1>1, ProgressStep DEF Progress
<1>4. QED
  BY <1>1, <1>2, <1>3, LimitAssumption

-----------------------------------------------------------------------------
\* The theorems.

LEMMA Inductive == Spec => []IInv
<1>1. IInv /\ [Next]_vars => IInv'
  BY TypeStep, NothingIsLostStep, DeadLettersStep, ReasonsStep, InTurnStep DEF IInv
<1>2. QED
  BY InitIInv, <1>1, PTL DEF Spec

\* The variables of InputQueue have their types, and a consumer at work has a message
\* it received.
THEOREM InputQueueTypeCorrect == Spec => []TypeOK
BY Inductive, PTL DEF IInv

\* InputConsumer.Run deletes a message only when its operation is recorded or it is in
\* the dead letter queue, whatever fails and whoever is stopped.
THEOREM NoMessageIsLost == Spec => []NothingIsLost
BY Inductive, PTL DEF IInv

\* A message is dead-lettered because the store will never record it or because its
\* receptions are used up.
THEOREM DeadLettersHaveReasons == Spec => []DeadLettersAreJustified
BY Inductive, PTL DEF IInv

\* A message is answered for or dead-lettered after those sent before it in its group.
THEOREM GroupsKeepTheirOrder == Spec => []GroupsStayInOrder
<1>1. IInv => GroupsStayInOrder
  <2> SUFFICES ASSUME IInv, NEW n \in Delivered, NEW m \in Messages,
                      m < n, GroupOf[m] = GroupOf[n]
               PROVE  m \in Delivered
    BY DEF GroupsStayInOrder
  <2>1. n \in Received /\ n \in sent /\ Before(m, n)
    BY DEF IInv, InTurn, Before
  <2>2. m \in sent \ queue
    BY <2>1 DEF IInv, InTurn
  <2>3. QED
    BY <2>2 DEF IInv, NothingIsLost
<1>2. QED
  BY <1>1, Inductive, PTL

-----------------------------------------------------------------------------
\* The safety of AtLeastOnce.

LEMMA OneMoreDelivered ==
  ASSUME TypeOK, NEW m \in sent, UNCHANGED <<sent, queue>>,
         Delivered' = Delivered \/ Delivered' = Delivered \cup {m}
  PROVE  [Delivery!Next]_(Delivery!items)
<1>1. CASE Delivered' = Delivered
  BY <1>1 DEF Delivery!items
<1>2. CASE Delivered' = Delivered \cup {m} /\ m \notin Delivered
  BY <1>2 DEF Delivery!Next, Delivery!Deliver, TypeOK, QueuesOK
<1>3. QED
  BY <1>1, <1>2

LEMMA OneMoreRetired ==
  ASSUME TypeOK, NEW m \in queue, queue' = queue \ {m}, UNCHANGED sent,
         Delivered' = Delivered \cup {m}
  PROVE  [Delivery!Next]_(Delivery!items)
<1>1. m \in Messages /\ m \in sent /\ (sent \ queue)' = (sent \ queue) \cup {m}
  BY DEF TypeOK, QueuesOK
<1>2. CASE m \in Delivered
  BY <1>1, <1>2 DEF Delivery!Next, Delivery!Retire
<1>3. CASE m \notin Delivered
  BY <1>1, <1>3 DEF Delivery!Next, Delivery!Move
<1>4. QED
  BY <1>2, <1>3

LEMMA DeliverySimulation == IInv /\ [Next]_vars => [Delivery!Next]_(Delivery!items)
<1> SUFFICES ASSUME IInv, [Next]_vars PROVE [Delivery!Next]_(Delivery!items)
  OBVIOUS
<1> USE DEF IInv
<1>a. ASSUME UNCHANGED <<sent, queue, outcome, dlq>> PROVE [Delivery!Next]_(Delivery!items)
  BY <1>a DEF Delivery!items, Delivered
<1>1. ASSUME NEW m \in Messages, Send(m) PROVE [Delivery!Next]_(Delivery!items)
  <2>1. Delivered' = Delivered
    BY <1>1 DEF Send, store, Delivered
  <2>2. sent' = sent \cup {m} /\ m \notin sent /\ (sent \ queue)' = sent \ queue
    BY <1>1 DEF Send, TypeOK, QueuesOK
  <2>3. Delivery!Accept({m})
    BY <2>1, <2>2 DEF Delivery!Accept
  <2>4. QED
    BY <2>3 DEF Delivery!Next
<1>2. ASSUME NEW m \in Messages, RedriveMessage(m) PROVE [Delivery!Next]_(Delivery!items)
  <2>1. m \in queue /\ queue' = queue \ {m} /\ UNCHANGED sent
    BY <1>2 DEF RedriveMessage, Deliverable
  <2>2. Delivered' = Delivered \cup {m}
    BY <1>2 DEF RedriveMessage, store, Delivered
  <2>3. QED
    BY <2>1, <2>2, OneMoreRetired
<1>3. ASSUME NEW c \in Consumers, Handle(c) \/ Stumble(c) \/ Fail(c) \/ FailStumbles(c)
      PROVE  [Delivery!Next]_(Delivery!items)
  <2>1. Answers(c) /\ UNCHANGED <<sent, queue, dlq, taken>> /\ msg[c] \in sent
    BY <1>3, AnsweringSteps DEF sqs, TypeOK
  <2>2. msg[c] \in Messages
    BY <2>1 DEF TypeOK, QueuesOK
  <2>3. Delivered' = Delivered \/ Delivered' = Delivered \cup {msg[c]}
    <3>1. CASE UNCHANGED outcome
      BY <2>1, <3>1 DEF Delivered
    <3>2. CASE ~UNCHANGED outcome
      BY <2>1, <2>2, <3>2, AnsweringIsProgress DEF Answers
    <3>3. QED
      BY <3>1, <3>2
  <2>4. QED
    BY <2>1, <2>3, OneMoreDelivered
<1>4. ASSUME NEW c \in Consumers, Call(c) \/ CallFails(c)
      PROVE  [Delivery!Next]_(Delivery!items)
  <2>1. Calling(c) /\ (Nothing \/ Effect(c)) /\ UNCHANGED <<sent, outcome>> /\ msg[c] \in sent
    BY <1>4 DEF Call, CallFails, store, TypeOK, Calling, Working
  <2>2. CASE pc[c] = "deadletter"
    <3>1. UNCHANGED <<sent, queue>>
      BY <2>1, <2>2, EffectOnQueue
    <3>2. Delivered' = Delivered \/ Delivered' = Delivered \cup {msg[c]}
      BY <2>1, EffectOnDlq DEF Delivered
    <3>3. QED
      BY <2>1, <3>1, <3>2, OneMoreDelivered
  <2>3. CASE pc[c] = "delete" /\ msg[c] \in queue /\ queue' = queue \ {msg[c]}
    <3>1. msg[c] \in Delivered /\ Delivered' = Delivered
      BY <2>1, <2>3, EffectOnDlq DEF Reasons, Delivered
    <3>2. QED
      BY <2>1, <2>3, <3>1, OneMoreRetired
  <2>4. QED
    BY <1>a, <2>1, <2>2, <2>3, EffectOnQueue, EffectOnDlq
<1>5. ASSUME NEW c \in Consumers, Judge(c) \/ Leave(c) \/ Restart(c) \/ Stop(c) \/ Crash(c)
      PROVE  UNCHANGED <<sent, queue, outcome, dlq>>
  BY <1>5 DEF Judge, Leave, Restart, Stop, Crash, sqs, store
<1>6. ASSUME NEW n \in Messages, TakeIdentity(n) \/ Expire(n) \/ ReceiveUnheard(n)
                                  \/ \E c \in Consumers : Receive(c, n)
      PROVE  UNCHANGED <<sent, queue, outcome, dlq>>
  BY <1>6 DEF TakeIdentity, Expire, ReceiveUnheard, Receive, sqs, store
<1>7. CASE UNCHANGED vars
  BY <1>a, <1>7 DEF vars, sqs, store
<1>8. QED
  BY <1>a, <1>1, <1>2, <1>3, <1>4, <1>5, <1>6, <1>7 DEF Next, Calm, Trouble, Work

\* The input queue and its consumers implement the safety of AtLeastOnce: a message is
\* accepted before it is delivered, and delivered before it is forgotten.
THEOREM DeliversAtLeastOnce == Spec => Delivery!Spec
<1>1. Init => Delivery!Init
  <2> SUFFICES ASSUME Init PROVE Delivery!Init
    OBVIOUS
  <2>1. dlq = {} /\ sent = {} /\ \A m \in Messages : outcome[m] = ""
    BY DEF Init
  <2>2. QED
    BY <2>1 DEF Delivery!Init, Delivered
<1>2. QED
  BY <1>1, DeliverySimulation, Inductive, PTL DEF Spec, Delivery!Spec
=============================================================================
