--------------------------- MODULE SessionsProofs ---------------------------
(***************************************************************************)
(* What sessions know between their statements, and what follows from it:  *)
(* that identities, reversals and answers hold, that the triggers of the   *)
(* database stay silent, that entries, events and what readers find agree  *)
(* with the transactions, and that the store implements WagerBook.         *)
(***************************************************************************)
EXTENDS WageringProofs, Reads, WellFoundedInduction

-----------------------------------------------------------------------------
\* What a step does to the session that takes it, statement by statement.

\* The operations sessions are asked for.
Asked == Requests \cup {m.op : m \in Messages}

\* s takes up a request, a message or a pending row.
TakesUp(s) ==
  /\ UNCHANGED tables
  /\ pc[s] = "idle" /\ ref'[s] = ref[s] /\ answer'[s] = NONE
  /\ \/ pc'[s] = "wallet" /\ job'[s].via \in {"http", "fail"} /\ job'[s].op \in Asked
     \/ /\ pc'[s] = "inbox" /\ job'[s].via = "inbox"
        /\ job'[s].msg \in Messages /\ job'[s].op = job'[s].msg.op
     \/ /\ pc'[s] = "wallet" /\ job'[s].via = "resolve"
        /\ job'[s].tx \in Pending /\ job'[s].op = txn[job'[s].tx].op

\* Why CONFLICT is answered: other bytes came under the message id, or the identity of
\* the operation is taken.
Conflicts(s) ==
  \/ /\ pc[s] = "inbox"
     /\ inbox[job[s].msg.id] \notin {NONE, job[s].msg.digest}
  \/ pc[s] = "lookup" /\ \E id \in Existing(job[s].op) : ~IsSameRequest(job[s].op, txn[id])
  \/ pc[s] = "insert" /\ Existing(job[s].op) # {}

\* s returns an error.
Returns(s) ==
  /\ UNCHANGED tables
  /\ pc[s] # "idle" /\ pc'[s] = "idle" /\ ref'[s] = NONE
  /\ \E err \in {"NOT_FOUND", "CONFLICT", "INVALID_TRANSACTION", "UNAVAILABLE"} :
       /\ answer'[s] = Refusal(job[s].op, err)
       /\ err = "CONFLICT" => Conflicts(s)

\* s goes on from one statement to another.
GoesOn(s, from, to) ==
  /\ UNCHANGED tables
  /\ pc[s] = from /\ pc'[s] = to
  /\ job'[s] = job[s] /\ answer'[s] = answer[s]

\* One operator for each statement and what it may find.
Registers(s) ==
  /\ GoesOn(s, "inbox", "wallet") /\ ref'[s] = ref[s]
  /\ inbox[job[s].msg.id] \in {NONE, job[s].msg.digest}
  /\ Blockers(s) = {}

TakesWallet(s) ==
  /\ GoesOn(s, "wallet", IF job[s].via = "resolve" THEN "reference" ELSE "lookup")
  /\ ref'[s] = ref[s]

FindsNothing(s) ==
  /\ GoesOn(s, "lookup", IF job[s].op.ref = NONE THEN "decide" ELSE "reference")
  /\ ref'[s] = ref[s]
  /\ Existing(job[s].op) = {}

FindsItself(s) ==
  /\ GoesOn(s, "lookup", "commit") /\ ref'[s] = ref[s]
  /\ \E id \in Existing(job[s].op) :
       IsSameRequest(job[s].op, txn[id]) /\ plan'[s] = Replay(s, id)

\* What ReadReference takes from row id.
ReferenceTo(id) ==
  [id |-> id, kind |-> txn[id].op.kind, status |-> txn[id].status,
   wallet |-> txn[id].op.wallet, player |-> txn[id].op.player,
   round |-> txn[id].op.round, money |-> txn[id].op.money, reversed |-> FALSE]

MissesReference(s) ==
  /\ GoesOn(s, "reference", "decide") /\ ref'[s] = ref[s]
  /\ Named(job[s].op.provider, job[s].op.ref) = {}

FindsReference(s) ==
  /\ GoesOn(s, "reference", "reversal")
  /\ \E id \in Named(job[s].op.provider, job[s].op.ref) : ref'[s] = ReferenceTo(id)

ChecksReversal(s) ==
  /\ GoesOn(s, "reversal", "decide")
  /\ ref'[s] = [ref[s] EXCEPT !.reversed = AlreadyReversed(ref[s].id)]

\* p is how executeTx records op, decided at some moment.
RecordsNew(p, via, op, w, reference) ==
  /\ p.action = "insert"
  /\ \E now \in Times :
       p.decision = IF via = "fail" THEN Fail(w) ELSE Decide(op, w, reference, now)
  /\ TransitionAllows(op, p.decision)
  /\ p.row = RowFrom(op, p.decision)

\* p settles the pending row, which has another attempt for every postponement left.
Settles(p, op, w, reference, row) ==
  /\ p.action = "update"
  /\ \E now \in Times :
       LET d == Decide(op, w, reference, now) IN
       /\ p.decision = IF d.status = "PENDING_REFERENCE"
                       THEN Reject(w, "REFERENCE_NOT_FOUND") ELSE d
       /\ d.status = "PENDING_REFERENCE" => ~(row.attempts + 1 < MaxAttempts)
  /\ p.row = [RowFrom(op, p.decision) EXCEPT !.attempts = row.attempts]

Postpones(p, op, w, reference, row) ==
  /\ p.action = "postpone"
  /\ \E now \in Times : p.decision = Decide(op, w, reference, now)
  /\ p.decision.status = "PENDING_REFERENCE"
  /\ row.attempts + 1 < MaxAttempts
  /\ p.row = [row EXCEPT !.attempts = @ + 1]

DecidesFirst(s) ==
  /\ GoesOn(s, "decide", "insert") /\ ref'[s] = ref[s] /\ held'[s] = held[s]
  /\ job[s].via # "resolve"
  /\ RecordsNew(plan'[s], job[s].via, job[s].op, held[s], ref[s])

DecidesAgain(s) ==
  /\ GoesOn(s, "decide", "commit") /\ ref'[s] = ref[s] /\ held'[s] = held[s]
  /\ job[s].via = "resolve"
  /\ \/ Settles(plan'[s], job[s].op, held[s], ref[s], txn[job[s].tx])
     \/ Postpones(plan'[s], job[s].op, held[s], ref[s], txn[job[s].tx])

Inserts(s) ==
  /\ GoesOn(s, "insert", "commit")
  /\ ref'[s] = ref[s] /\ held'[s] = held[s] /\ plan'[s] = plan[s]
  /\ Blockers(s) = {} /\ Existing(job[s].op) = {}

Finishes(s) ==
  /\ Commits(s) /\ ref'[s] = NONE
  /\ answer'[s] \in {Result(s, IdFor(s)), Refusal(job[s].op, "UNAVAILABLE")}

Moves(s) ==
  \/ TakesUp(s) \/ Returns(s) \/ Registers(s) \/ TakesWallet(s)
  \/ FindsNothing(s) \/ FindsItself(s) \/ MissesReference(s) \/ FindsReference(s)
  \/ ChecksReversal(s) \/ DecidesFirst(s) \/ DecidesAgain(s) \/ Inserts(s) \/ Finishes(s)

\* The others neither move nor hear anything.
Alone(s) == \A t \in Sessions \ {s} : Idles(t) /\ answer'[t] = answer[t]

\* t is refused without a job, or nothing happens to it.
Ignored(t) ==
  Idles(t) /\ (answer'[t] = answer[t] \/ \E op : answer'[t] = Refusal(op, "INVALID_INPUT"))

\* A request, a message or a pending row becomes the job of a session.
LEMMA BeginMoves ==
  ASSUME TypeOK, NEW s \in Sessions, NEW j, NEW statement, Begin(s, j, statement)
  PROVE  /\ Alone(s) /\ UNCHANGED tables
         /\ pc[s] = "idle" /\ pc'[s] = statement /\ job'[s] = j
         /\ ref'[s] = ref[s] /\ answer'[s] = NONE
BY DEF TypeOK, SessionsOK, Begin, Goto, Alone, Idles

\* The end of a transaction forgets what it knew.
LEMMA EndMoves ==
  ASSUME TypeOK, NEW s \in Sessions, NEW a, End(s, a)
  PROVE  Alone(s) /\ pc'[s] = "idle" /\ ref'[s] = NONE /\ answer'[s] = a
BY DEF TypeOK, SessionsOK, End, Goto, Alone, Idles

\* An error return.
LEMMA RefuseMoves ==
  ASSUME TypeOK, NEW s \in Sessions, pc[s] # "idle",
         NEW err \in {"NOT_FOUND", "CONFLICT", "INVALID_TRANSACTION", "UNAVAILABLE"},
         Refuse(s, err), err = "CONFLICT" => Conflicts(s)
  PROVE  Alone(s) /\ Returns(s)
BY EndMoves DEF Refuse, Returns

\* A statement that only moves the program counter.
LEMMA GotoMoves ==
  ASSUME TypeOK, NEW s \in Sessions, NEW from, NEW to, pc[s] = from, Goto(s, to),
         UNCHANGED <<tables, job, held, ref, plan, answer>>
  PROVE  /\ Alone(s) /\ GoesOn(s, from, to)
         /\ ref'[s] = ref[s] /\ held'[s] = held[s] /\ plan'[s] = plan[s]
BY DEF TypeOK, SessionsOK, Goto, Alone, Idles, GoesOn

\* A statement that reads the referenced transaction.
LEMMA ReferenceMoves ==
  ASSUME TypeOK, NEW s \in Sessions, NEW from, NEW to, NEW r, pc[s] = from, Goto(s, to),
         ref' = [ref EXCEPT ![s] = r], UNCHANGED <<tables, job, held, plan, answer>>
  PROVE  Alone(s) /\ GoesOn(s, from, to) /\ ref'[s] = r
BY DEF TypeOK, SessionsOK, Goto, Alone, Idles, GoesOn

\* The jobs of clients, consumers and resolvers.
LEMMA JobsMove ==
  ASSUME TypeOK, NEW s \in Sessions,
         \/ \E op \in Requests : Request(s, op)
         \/ \E m \in Messages : Deliver(s, m) \/ GiveUp(s, m)
         \/ \E id \in TxIds : Claim(s, id)
  PROVE  Alone(s) /\ TakesUp(s)
<1>1. ASSUME NEW op \in Requests, Request(s, op)
      PROVE  Alone(s) /\ TakesUp(s)
  <2> DEFINE j == [via |-> "http", op |-> op, msg |-> NONE, tx |-> NONE]
  <2>1. Begin(s, j, "wallet") /\ j.via = "http" /\ j.op \in Asked
    BY <1>1 DEF Request, Asked
  <2> HIDE DEF j
  <2> QED BY <2>1, BeginMoves DEF TakesUp
<1>2. ASSUME NEW m \in Messages, Deliver(s, m)
      PROVE  Alone(s) /\ TakesUp(s)
  <2> DEFINE j == [via |-> "inbox", op |-> m.op, msg |-> m, tx |-> NONE]
  <2>1. Begin(s, j, "inbox") /\ j.via = "inbox" /\ j.msg = m /\ j.op = m.op
    BY <1>2 DEF Deliver
  <2> HIDE DEF j
  <2> QED BY <2>1, BeginMoves DEF TakesUp
<1>3. ASSUME NEW m \in Messages, GiveUp(s, m)
      PROVE  Alone(s) /\ TakesUp(s)
  <2> DEFINE j == [via |-> "fail", op |-> m.op, msg |-> NONE, tx |-> NONE]
  <2>1. Begin(s, j, "wallet") /\ j.via = "fail" /\ j.op \in Asked
    BY <1>3 DEF GiveUp, Asked
  <2> HIDE DEF j
  <2> QED BY <2>1, BeginMoves DEF TakesUp
<1>4. ASSUME NEW id \in TxIds, Claim(s, id)
      PROVE  Alone(s) /\ TakesUp(s)
  <2> DEFINE j == [via |-> "resolve", op |-> txn[id].op, msg |-> NONE, tx |-> id]
  <2>1. /\ Begin(s, j, "wallet") /\ id \in Pending
        /\ j.via = "resolve" /\ j.tx = id /\ j.op = txn[id].op
    BY <1>4 DEF Claim
  <2> HIDE DEF j
  <2> QED BY <2>1, BeginMoves DEF TakesUp
<1> QED BY <1>1, <1>2, <1>3, <1>4

\* The statements that lock and read.
LEMMA ReadsMove ==
  ASSUME TypeOK, NEW s \in Sessions,
         AcquireInbox(s) \/ LockWallet(s) \/ Lookup(s) \/ ReadReference(s) \/ ReadReversal(s)
  PROVE  Alone(s) /\ Moves(s)
<1>1. CASE AcquireInbox(s)
  <2>1. pc[s] = "inbox"
    BY <1>1 DEF AcquireInbox
  <2>2. CASE inbox[job[s].msg.id] \in {NONE, job[s].msg.digest}
    BY <1>1, <2>1, <2>2, GotoMoves DEF AcquireInbox, Moves, Registers
  <2>3. CASE inbox[job[s].msg.id] \notin {NONE, job[s].msg.digest}
    BY <1>1, <2>1, <2>3, RefuseMoves DEF AcquireInbox, Moves, Conflicts
  <2> QED BY <2>2, <2>3
<1>2. CASE LockWallet(s)
  <2> DEFINE next == IF job[s].via = "resolve" THEN "reference" ELSE "lookup"
  <2>1. pc[s] = "wallet"
    BY <1>2 DEF LockWallet
  <2>2. CASE Refuse(s, "NOT_FOUND")
    BY <2>1, <2>2, RefuseMoves DEF Moves
  <2>3. CASE /\ held' = [held EXCEPT ![s] = wallet[job[s].op.wallet]]
             /\ Goto(s, next) /\ UNCHANGED <<tables, job, ref, plan, answer>>
    <3>1. Alone(s) /\ GoesOn(s, "wallet", next) /\ ref'[s] = ref[s]
      BY <2>1, <2>3 DEF TypeOK, SessionsOK, Goto, Alone, Idles, GoesOn
    <3> QED BY <3>1 DEF Moves, TakesWallet
  <2> QED BY <1>2, <2>2, <2>3 DEF LockWallet
<1>3. CASE Lookup(s)
  <2> DEFINE op == job[s].op
             next == IF op.ref = NONE THEN "decide" ELSE "reference"
  <2>1. pc[s] = "lookup"
    BY <1>3 DEF Lookup
  <2>2. CASE /\ Existing(op) = {} /\ Goto(s, next)
             /\ UNCHANGED <<tables, job, held, ref, plan, answer>>
    <3>1. Alone(s) /\ GoesOn(s, "lookup", next) /\ ref'[s] = ref[s]
      BY <2>1, <2>2, GotoMoves
    <3> QED BY <2>2, <3>1 DEF Moves, FindsNothing
  <2>3. ASSUME NEW id \in Existing(op), IsSameRequest(op, txn[id]),
               plan' = [plan EXCEPT ![s] = Replay(s, id)], Goto(s, "commit"),
               UNCHANGED <<tables, job, held, ref, answer>>
        PROVE  Alone(s) /\ Moves(s)
    <3> DEFINE p == Replay(s, id)
    <3>1. plan' = [plan EXCEPT ![s] = p]
      BY <2>3
    <3> HIDE DEF p
    <3>2. /\ Alone(s) /\ GoesOn(s, "lookup", "commit") /\ ref'[s] = ref[s]
          /\ plan'[s] = p
      BY <2>1, <2>3, <3>1 DEF TypeOK, SessionsOK, Goto, Alone, Idles, GoesOn
    <3> QED BY <2>3, <3>2 DEF Moves, FindsItself, p
  <2>4. ASSUME NEW id \in Existing(op), ~IsSameRequest(op, txn[id]), Refuse(s, "CONFLICT")
        PROVE  Alone(s) /\ Moves(s)
    <3>1. Conflicts(s)
      BY <2>1, <2>4 DEF Conflicts
    <3> QED BY <2>1, <2>4, <3>1, RefuseMoves DEF Moves
  <2> QED BY <1>3, <2>2, <2>3, <2>4 DEF Lookup
<1>4. CASE ReadReference(s)
  <2> DEFINE op == job[s].op
  <2>1. pc[s] = "reference"
    BY <1>4 DEF ReadReference
  <2>2. CASE /\ Named(op.provider, op.ref) = {} /\ Goto(s, "decide")
             /\ UNCHANGED <<tables, job, held, ref, plan, answer>>
    BY <2>1, <2>2, GotoMoves DEF Moves, MissesReference
  <2>3. ASSUME NEW id \in Named(op.provider, op.ref),
               ref' = [ref EXCEPT ![s] = ReferenceTo(id)], Goto(s, "reversal"),
               UNCHANGED <<tables, job, held, plan, answer>>
        PROVE  Alone(s) /\ Moves(s)
    <3>1. Alone(s) /\ GoesOn(s, "reference", "reversal") /\ ref'[s] = ReferenceTo(id)
      BY <2>1, <2>3, ReferenceMoves
    <3> QED BY <2>3, <3>1 DEF Moves, FindsReference
  <2> QED BY <1>4, <2>2, <2>3 DEF ReadReference, ReferenceTo
<1>5. CASE ReadReversal(s)
  <2> DEFINE r == [ref[s] EXCEPT !.reversed = AlreadyReversed(ref[s].id)]
  <2>1. /\ pc[s] = "reversal" /\ Goto(s, "decide") /\ ref' = [ref EXCEPT ![s] = r]
        /\ UNCHANGED <<tables, job, held, plan, answer>>
    BY <1>5 DEF ReadReversal
  <2>2. Alone(s) /\ GoesOn(s, "reversal", "decide") /\ ref'[s] = r
    <3> HIDE DEF r
    <3> QED BY <2>1, ReferenceMoves
  <2> QED BY <2>2 DEF Moves, ChecksReversal
<1> QED BY <1>1, <1>2, <1>3, <1>4, <1>5

\* The statements that decide and insert.
LEMMA DecisionsMove ==
  ASSUME TypeOK, NEW s \in Sessions, DecideNew(s) \/ DecidePending(s) \/ Insert(s)
  PROVE  Alone(s) /\ Moves(s)
<1> DEFINE op == job[s].op
           w == held[s]
           r == ref[s]
           row == txn[job[s].tx]
<1>1. CASE DecideNew(s)
  <2>1. pc[s] = "decide" /\ job[s].via # "resolve"
    BY <1>1 DEF DecideNew
  <2>2. PICK now \in Times :
          LET d == IF job[s].via = "fail" THEN Fail(w) ELSE Decide(op, w, r, now) IN
          IF ~TransitionAllows(op, d) THEN Refuse(s, "INVALID_TRANSACTION")
          ELSE /\ plan' = [plan EXCEPT ![s] = [action |-> "insert", tx |-> NONE,
                                               row |-> RowFrom(op, d), decision |-> d]]
               /\ Goto(s, "insert")
               /\ UNCHANGED <<tables, job, held, ref, answer>>
    BY <1>1 DEF DecideNew
  <2> DEFINE d == IF job[s].via = "fail" THEN Fail(w) ELSE Decide(op, w, r, now)
             p == [action |-> "insert", tx |-> NONE, row |-> RowFrom(op, d), decision |-> d]
  <2>3. CASE Refuse(s, "INVALID_TRANSACTION")
    BY <2>1, <2>3, RefuseMoves DEF Moves
  <2>4. CASE /\ TransitionAllows(op, d) /\ plan' = [plan EXCEPT ![s] = p]
             /\ Goto(s, "insert") /\ UNCHANGED <<tables, job, held, ref, answer>>
    <3>1. RecordsNew(p, job[s].via, op, w, r)
      BY <2>4 DEF RecordsNew
    <3> HIDE DEF p
    <3>2. /\ Alone(s) /\ GoesOn(s, "decide", "insert")
          /\ ref'[s] = ref[s] /\ held'[s] = held[s] /\ plan'[s] = p
      BY <2>1, <2>4 DEF TypeOK, SessionsOK, Goto, Alone, Idles, GoesOn
    <3> QED BY <2>1, <3>1, <3>2 DEF Moves, DecidesFirst
  <2> QED BY <2>2, <2>3, <2>4
<1>2. CASE DecidePending(s)
  <2>1. /\ pc[s] = "decide" /\ job[s].via = "resolve"
        /\ Goto(s, "commit") /\ UNCHANGED <<tables, job, held, ref, answer>>
    BY <1>2 DEF DecidePending
  <2>2. PICK now \in Times :
          LET d == DecisionOfAttempt(s, Decide(op, w, r, now)) IN
          plan' = [plan EXCEPT ![s] =
            IF d.status = "PENDING_REFERENCE"
            THEN [action |-> "postpone", tx |-> job[s].tx, decision |-> d,
                  row |-> [row EXCEPT !.attempts = @ + 1]]
            ELSE [action |-> "update", tx |-> job[s].tx, decision |-> d,
                  row |-> [RowFrom(op, d) EXCEPT !.attempts = row.attempts]]]
    BY <1>2 DEF DecidePending
  <2> DEFINE e == Decide(op, w, r, now)
             d == DecisionOfAttempt(s, e)
             p == IF d.status = "PENDING_REFERENCE"
                  THEN [action |-> "postpone", tx |-> job[s].tx, decision |-> d,
                        row |-> [row EXCEPT !.attempts = @ + 1]]
                  ELSE [action |-> "update", tx |-> job[s].tx, decision |-> d,
                        row |-> [RowFrom(op, d) EXCEPT !.attempts = row.attempts]]
  <2>3. plan' = [plan EXCEPT ![s] = p]
    BY <2>2
  <2>4. Reject(w, "REFERENCE_NOT_FOUND").status = "REJECTED"
    BY DEF Reject, Keeps
  <2>5. row.attempts \in 0..(MaxAttempts - 1)
    <3>1. job[s].tx \in Rows
      BY <2>1 DEF TypeOK, SessionOK
    <3> QED BY <3>1 DEF TypeOK, TablesOK, TxnRow, Rows
  <2>6. d.status = "PENDING_REFERENCE" => d = e /\ row.attempts + 1 < MaxAttempts
    <3>1. d.status = "PENDING_REFERENCE" => d = e /\ ~(row.attempts + 1 >= MaxAttempts)
      <4> HIDE DEF e
      <4> QED BY <2>4 DEF DecisionOfAttempt
    <3> HIDE DEF d, e
    <3> QED BY <2>5, <3>1, MaxAttemptsAssumption
  <2>7. d.status # "PENDING_REFERENCE" =>
          /\ d = IF e.status = "PENDING_REFERENCE" THEN Reject(w, "REFERENCE_NOT_FOUND") ELSE e
          /\ e.status = "PENDING_REFERENCE" => ~(row.attempts + 1 < MaxAttempts)
    <3>1. /\ d.status # "PENDING_REFERENCE" =>
               d = IF e.status = "PENDING_REFERENCE" THEN Reject(w, "REFERENCE_NOT_FOUND") ELSE e
          /\ d.status # "PENDING_REFERENCE" /\ e.status = "PENDING_REFERENCE" =>
               row.attempts + 1 >= MaxAttempts
      <4> HIDE DEF e
      <4> QED BY DEF DecisionOfAttempt
    <3> HIDE DEF d, e
    <3> QED BY <2>5, <3>1, MaxAttemptsAssumption
  <2>8. \/ Settles(p, op, w, r, row)
        \/ Postpones(p, op, w, r, row)
    <3>1. CASE d.status = "PENDING_REFERENCE"
      <4>1. p.action = "postpone" /\ p.decision = d /\ p.row = [row EXCEPT !.attempts = @ + 1]
        BY <3>1
      <4> HIDE DEF d, p, row
      <4> QED BY <2>6, <3>1, <4>1 DEF Postpones
    <3>2. CASE d.status # "PENDING_REFERENCE"
      <4>1. /\ p.action = "update" /\ p.decision = d
            /\ p.row = [RowFrom(op, d) EXCEPT !.attempts = row.attempts]
        BY <3>2
      <4> HIDE DEF d, p, row
      <4> QED BY <2>7, <3>2, <4>1 DEF Settles
    <3> QED BY <3>1, <3>2
  <2> HIDE DEF p
  <2>9. /\ Alone(s) /\ GoesOn(s, "decide", "commit")
        /\ ref'[s] = ref[s] /\ held'[s] = held[s] /\ plan'[s] = p
    BY <2>1, <2>3 DEF TypeOK, SessionsOK, Goto, Alone, Idles, GoesOn
  <2> QED BY <2>1, <2>8, <2>9 DEF Moves, DecidesAgain
<1>3. CASE Insert(s)
  <2>1. pc[s] = "insert" /\ Blockers(s) = {}
    BY <1>3 DEF Insert
  <2>2. CASE Existing(op) # {}
    <3>1. Refuse(s, "CONFLICT") /\ Conflicts(s)
      BY <1>3, <2>1, <2>2 DEF Insert, Conflicts
    <3> QED BY <2>1, <3>1, RefuseMoves DEF Moves
  <2>3. CASE Existing(op) = {}
    BY <1>3, <2>1, <2>3, GotoMoves DEF Insert, Moves, Inserts
  <2> QED BY <2>2, <2>3
<1> QED BY <1>1, <1>2, <1>3

\* Every step is a move of one session, the opening of a wallet, or nothing at all.
LEMMA Behaviour ==
  ASSUME TypeOK, [Next]_vars
  PROVE  \/ UNCHANGED tables /\ \A t \in Sessions : Ignored(t)
         \/ \E o \in Openings : Opens(o) /\ answer' = answer
         \/ \E s \in Sessions : Alone(s) /\ Moves(s)
<1>1. ASSUME NEW o \in Openings, OpenWallet(o)
      PROVE  Opens(o) /\ answer' = answer
  BY <1>1 DEF OpenWallet, Opens, Idles
<1>2. ASSUME NEW s \in Sessions, NEW op, RefuseInput(s, op)
      PROVE  UNCHANGED tables /\ \A t \in Sessions : Ignored(t)
  BY <1>2 DEF TypeOK, SessionsOK, RefuseInput, Ignored, Idles
<1>3. ASSUME NEW s \in Sessions, Commit(s) \/ CommitUnheard(s)
      PROVE  Alone(s) /\ Moves(s)
  BY <1>3, EndMoves DEF Commit, CommitUnheard, Moves, Finishes, Commits
<1>4. ASSUME NEW s \in Sessions, Abort(s)
      PROVE  Alone(s) /\ Moves(s)
  BY <1>4, RefuseMoves DEF Abort, Moves
<1>5. UNCHANGED vars => UNCHANGED tables /\ \A t \in Sessions : Ignored(t)
  BY DEF vars, tables, Ignored, Idles
<1> QED BY <1>1, <1>2, <1>3, <1>4, <1>5, JobsMove, ReadsMove, DecisionsMove
        DEF Next, Sessions, Execute, Moves

-----------------------------------------------------------------------------
\* The rows a step writes.

\* The commit of s puts the row of its plan in the table.
Puts(s) ==
  /\ IdFor(s) \in TxIds
  /\ plan[s].row \in TxnRow /\ plan[s].row.op = job[s].op
  /\ Rows' = Rows \cup {IdFor(s)}
  /\ txn'[IdFor(s)] = plan[s].row
  /\ \A id \in TxIds \ {IdFor(s)} : txn'[id] = txn[id]
  /\ plan[s].action = "insert" => IdFor(s) \notin Rows
  /\ plan[s].action # "insert" => /\ job[s].via = "resolve" /\ IdFor(s) = job[s].tx
                                  /\ IdFor(s) \in Pending /\ txn[IdFor(s)].op = job[s].op

\* A commit puts one row, or repeats an answer and puts none.
LEMMA CommitRows ==
  ASSUME TypeOK, ClaimsAreExclusive, NEW s \in Sessions, Commits(s)
  PROVE  /\ plan[s].action = "replay" => txn' = txn /\ Rows' = Rows
         /\ plan[s].action # "replay" => Puts(s)
<1> DEFINE id == IdFor(s)
           row == plan[s].row
<1>1. pc[s] \in Writing /\ pc[s] # "idle" /\ CanCommit(s)
  BY DEF Commits, CanCommit, Writing
<1>2. /\ plan[s] \in Plan
      /\ plan[s].action # "replay" => row.op = job[s].op
      /\ plan[s].action # "insert" => plan[s].tx \in Rows /\ row.op = txn[plan[s].tx].op
  BY <1>1 DEF TypeOK, SessionOK
<1>3. row \in TxnRow /\ plan[s].action \in {"insert", "update", "postpone", "replay"}
  BY <1>2 DEF Plan
<1>4. /\ id \in TxIds
      /\ plan[s].action = "insert" => id \notin Rows
      /\ plan[s].action # "insert" => id = plan[s].tx
  BY <1>1, IdForType
<1>5. plan[s].action \in {"update", "postpone"} =>
        job[s].via = "resolve" /\ id = job[s].tx /\ id \in Pending
  BY <1>1, <1>4 DEF ClaimsAreExclusive
<1>6. CASE plan[s].action = "replay"
  BY <1>6 DEF Commits, Write, Rows
<1>7. CASE plan[s].action # "replay"
  <2>1. txn' = [txn EXCEPT ![id] = row]
    BY <1>7 DEF Commits, Write
  <2>2. row # NONE
    BY <1>3, NoneIsNoRowAssumption
  <2> HIDE DEF id, row
  <2>3. txn'[id] = row /\ \A other \in TxIds \ {id} : txn'[other] = txn[other]
    BY <1>4, <2>1 DEF TypeOK, TablesOK
  <2>4. Rows' = Rows \cup {id}
    BY <1>4, <2>2, <2>3 DEF Rows
  <2> QED BY <1>2, <1>3, <1>4, <1>5, <1>7, <2>3, <2>4 DEF Puts, id, row
<1> QED BY <1>6, <1>7

\* The opening of a wallet puts at most one row, of a wallet that was not there.
LEMMA OpenRows ==
  ASSUME TypeOK, NEW o \in Openings, Opens(o)
  PROVE  /\ wallet[o.wallet] = NONE /\ inbox' = inbox
         /\ \/ txn' = txn /\ Rows' = Rows
            \/ \E id \in TxIds \ Rows :
                 /\ Rows' = Rows \cup {id} /\ txn'[id] = OpeningRow(o)
                 /\ \A other \in TxIds \ {id} : txn'[other] = txn[other]
<1>1. wallet[o.wallet] = NONE /\ inbox' = inbox
  BY DEF Opens, OpenWallet
<1>2. CASE txn' = txn
  BY <1>1, <1>2 DEF Rows
<1>3. ASSUME NEW id \in TxIds \ Rows, txn' = [txn EXCEPT ![id] = OpeningRow(o)]
      PROVE  /\ Rows' = Rows \cup {id} /\ txn'[id] = OpeningRow(o)
             /\ \A other \in TxIds \ {id} : txn'[other] = txn[other]
  <2> DEFINE row == OpeningRow(o)
  <2>1. row # NONE
    <3>2. OpeningRow(o) \in TxnRow
      <4>1. o.wallet \in Wallets /\ o.player \in Players /\ o.money \in Money
        BY OpeningsAssumption DEF Opening
      <4>2. o.money.minor \in Int64 /\ 0 \in 0..(MaxAttempts - 1)
        BY <4>1, MaxAttemptsAssumption DEF Money
      <4>3. OpeningRow(o).op \in OpeningOp
        BY <4>1 DEF OpeningRow, OpeningOp
      <4> QED BY <4>2, <4>3 DEF OpeningRow, TxnRow, Statuses, Terminal
    <3> QED BY <3>2, NoneIsNoRowAssumption
  <2>2. txn' = [txn EXCEPT ![id] = row]
    BY <1>3
  <2> HIDE DEF row
  <2>3. txn'[id] = row /\ \A other \in TxIds \ {id} : txn'[other] = txn[other]
    BY <2>2 DEF TypeOK, TablesOK
  <2> QED BY <2>1, <2>3 DEF Rows, row
<1>4. txn' = txn \/ \E id \in TxIds \ Rows : txn' = [txn EXCEPT ![id] = OpeningRow(o)]
  BY DEF Opens, OpenWallet, NewTxId, Rows
<1> QED BY <1>1, <1>2, <1>3, <1>4

\* Of the moves of a session, only a commit writes.
LEMMA MoveWrites ==
  ASSUME NEW s, Moves(s)
  PROVE  UNCHANGED tables \/ Finishes(s)
BY DEF Moves, TakesUp, Returns, Registers, TakesWallet, FindsNothing, FindsItself,
   MissesReference, FindsReference, ChecksReversal, DecidesFirst, DecidesAgain, Inserts,
   GoesOn

\* The rows of wallet w are what they were.
SameRowsOf(w) ==
  \A id \in TxIds :
    (id \in Rows /\ txn[id].op.wallet = w) \/ (id \in Rows' /\ txn'[id].op.wallet = w) =>
      id \in Rows /\ id \in Rows' /\ txn'[id] = txn[id]

\* While a session has a wallet, nobody else writes a row of that wallet.
LEMMA HeldRows ==
  ASSUME TypeOK, WalletsAreLocked, ClaimsAreExclusive, [Next]_vars,
         NEW t \in Sessions, pc[t] \in Reading \cup Writing, Idles(t)
  PROVE  SameRowsOf(job[t].op.wallet)
<1> DEFINE w == job[t].op.wallet
<1>1. CASE UNCHANGED tables
  BY <1>1 DEF tables, SameRowsOf, Rows
<1>2. ASSUME NEW o \in Openings, Opens(o)
      PROVE  SameRowsOf(w)
  <2>1. w # o.wallet
    <3>1. held[t] = wallet[w] /\ held[t] \in WalletRow
      BY DEF WalletsAreLocked, TypeOK, SessionOK
    <3> QED BY <1>2, <3>1, OpenRows, NoneIsNoRowAssumption
  <2>2. OpeningRow(o).op.wallet = o.wallet
    BY DEF OpeningRow
  <2>3. CASE txn' = txn /\ Rows' = Rows
    BY <2>3 DEF SameRowsOf
  <2>4. CASE \E id \in TxIds \ Rows :
               /\ Rows' = Rows \cup {id} /\ txn'[id] = OpeningRow(o)
               /\ \A other \in TxIds \ {id} : txn'[other] = txn[other]
    BY <2>1, <2>2, <2>4 DEF SameRowsOf
  <2> QED BY <1>2, <2>3, <2>4, OpenRows
<1>3. ASSUME NEW s \in Sessions \ {t}, Commits(s)
      PROVE  SameRowsOf(w)
  <2>1. pc[s] \in Reading \cup Writing
    BY <1>3 DEF Commits, CanCommit, Writing
  <2>2. job[s].op.wallet # w
    BY <2>1 DEF WalletsAreLocked
  <2>3. CASE plan[s].action = "replay"
    BY <1>3, <2>3, CommitRows DEF SameRowsOf
  <2>4. CASE plan[s].action # "replay"
    <3>1. Puts(s)
      BY <1>3, <2>4, CommitRows
    <3>2. txn'[IdFor(s)].op.wallet # w
      BY <2>2, <3>1 DEF Puts
    <3>3. IdFor(s) \in Rows => txn[IdFor(s)].op.wallet # w
      BY <2>2, <3>1 DEF Puts
    <3> QED BY <3>1, <3>2, <3>3 DEF SameRowsOf, Puts
  <2> QED BY <2>3, <2>4
<1>4. ASSUME NEW s \in Sessions, Moves(s)
      PROVE  UNCHANGED tables \/ (Commits(s) /\ s # t)
  <2>1. ASSUME Finishes(s)
        PROVE  Commits(s) /\ s # t
    BY <2>1 DEF Finishes, Commits, CanCommit, Idles
  <2> QED BY <1>4, <2>1, MoveWrites
<1> QED BY <1>1, <1>2, <1>3, <1>4, Behaviour

\* A step leaves a session alone or is a move of its own.
LEMMA IdlesOrMoves ==
  ASSUME TypeOK, [Next]_vars, NEW t \in Sessions
  PROVE  \/ Idles(t)
         \/ Moves(t) /\ Alone(t)
BY Behaviour DEF Ignored, Alone, Opens

\* Only a commit and the opening of a wallet write.
LEMMA WhoWrites ==
  ASSUME TypeOK, [Next]_vars
  PROVE  \/ UNCHANGED tables
         \/ \E o \in Openings : Opens(o)
         \/ \E s \in Sessions : Finishes(s) /\ Alone(s)
BY Behaviour, MoveWrites

-----------------------------------------------------------------------------
\* What a session knows between its statements.

\* The message a session works on is its own, and so is the inbox row of it.
KnowsMessage(t) ==
  pc[t] # "idle" /\ job[t].via = "inbox" =>
    /\ job[t].msg \in Messages
    /\ job[t].op = job[t].msg.op
    /\ pc[t] # "inbox" =>
         /\ inbox[job[t].msg.id] \in {NONE, job[t].msg.digest}
         /\ \A u \in Sessions \ {t} : ~HoldsInbox(u, job[t].msg.id)

\* Only consumers use the inbox, a resolver looks nothing up and updates or postpones, and
\* the others insert, or repeat an answer.
KnowsAction(t) ==
  /\ pc[t] = "inbox" => job[t].via = "inbox"
  /\ pc[t] = "lookup" => job[t].via # "resolve"
  /\ pc[t] = "insert" => plan[t].action = "insert"
  /\ pc[t] \in Writing =>
       (job[t].via = "resolve" <=> plan[t].action \in {"update", "postpone"})

\* What is repeated is the answer of the same operation, and stays so if it is final.
KnowsReplay(t) ==
  pc[t] \in Writing /\ plan[t].action = "replay" =>
    /\ plan[t].row.op = job[t].op
    /\ plan[t].row.status \in Terminal => txn[plan[t].tx] = plan[t].row

\* A session past its lookup has found no row of its identity on its own wallet.
Looked(t) ==
  /\ pc[t] \in (Reading \ {"lookup"}) \cup Writing
  /\ job[t].via # "resolve"
  /\ pc[t] \in Writing => plan[t].action = "insert"

KnowsWallet(t) ==
  Looked(t) => \A id \in Existing(job[t].op) : txn[id].op.wallet # job[t].op.wallet

\* A session past its INSERT has the identity for itself.
KnowsIdentity(t) ==
  pc[t] = "commit" /\ plan[t].action = "insert" =>
    /\ Existing(job[t].op) = {}
    /\ \A u \in Sessions \ {t} : ~HoldsIdentity(u, job[t].op)

Knows(t) ==
  KnowsMessage(t) /\ KnowsAction(t) /\ KnowsReplay(t) /\ KnowsWallet(t) /\ KnowsIdentity(t)

\* Together with the books, inductive.
KnownInv == BooksInv /\ \A t \in Sessions : Knows(t)

\* Two operations share an identity or they do not.
LEMMA IdentityIsSymmetric ==
  \A a, b : SameIdentity(a, b) <=> SameIdentity(b, a)
BY DEF SameIdentity

\* The same request is the same operation: the key is all the hash leaves out.
LEMMA SameRequestSameOperation ==
  ASSUME NEW op \in Operation, NEW row, row.op \in Operation
  PROVE  IsSameRequest(op, row) <=> row.op = op
<1>1. ASSUME IsSameRequest(op, row), NEW f \in {"provider", "ext", "player", "wallet", "round",
                                               "kind", "money", "ref"}
      PROVE  row.op[f] = op[f]
  <2>1. Hash(row.op)[f] = row.op[f] /\ Hash(op)[f] = op[f]
    BY DEF Hash, Operation
  <2> QED BY <1>1, <2>1 DEF IsSameRequest
<1>2. ASSUME IsSameRequest(op, row)
      PROVE  row.op = op
  <2>1. row.op.key = op.key
    BY <1>2 DEF IsSameRequest
  <2>2. /\ row.op.provider = op.provider /\ row.op.ext = op.ext
        /\ row.op.player = op.player /\ row.op.wallet = op.wallet
        /\ row.op.round = op.round /\ row.op.kind = op.kind
        /\ row.op.money = op.money /\ row.op.ref = op.ref
    BY <1>1, <1>2
  <2> QED BY <2>1, <2>2 DEF Operation
<1> QED BY <1>2 DEF IsSameRequest

\* The inbox row of a message is written by the session that has the message.
LEMMA MessageKept ==
  ASSUME KnownInv, [Next]_vars, NEW t \in Sessions
  PROVE  KnowsMessage(t)'
<1>1. TypeOK /\ ClaimsAreExclusive /\ \A u \in Sessions : KnowsMessage(u)
  BY DEF KnownInv, BooksInv, Knows
<1>2. ASSUME Idles(t), pc[t] \notin {"idle", "inbox"}, job[t].via = "inbox"
      PROVE  /\ inbox'[job[t].msg.id] \in {NONE, job[t].msg.digest}
             /\ \A u \in Sessions \ {t} : ~HoldsInbox(u, job[t].msg.id)'
  <2> DEFINE m == job[t].msg
  <2>0. job'[t] = job[t] /\ m' = m
    BY <1>2 DEF Idles
  <2>1. m \in Messages /\ m.id \in MsgIds
    BY <1>1, <1>2, MessageOperation DEF KnowsMessage, Message
  <2>2. inbox'[m.id] = inbox[m.id]
    <3>1. ASSUME NEW s \in Sessions, Finishes(s)
          PROVE  inbox'[m.id] = inbox[m.id]
      <4>1. s # t /\ pc[s] = "commit" /\ Write(s, IdFor(s))
        BY <1>2, <3>1 DEF Finishes, Commits, CanCommit, Idles
      <4>2. job[s].via = "inbox" => job[s].msg.id # m.id
        BY <1>1, <1>2, <4>1 DEF KnowsMessage, HoldsInbox
      <4> QED BY <1>1, <2>1, <4>1, <4>2 DEF Write, TypeOK, TablesOK
    <3>2. UNCHANGED tables => inbox' = inbox
      BY DEF tables
    <3> QED BY <1>1, <3>1, <3>2, WhoWrites, OpenRows
  <2>3. ASSUME NEW u \in Sessions \ {t}
        PROVE  ~HoldsInbox(u, m.id)'
    <3>1. ~HoldsInbox(u, m.id)
      BY <1>1, <1>2 DEF KnowsMessage
    <3>2. CASE Idles(u)
      BY <2>0, <3>1, <3>2 DEF HoldsInbox, Idles
    <3>3. CASE Moves(u)
      <4>1. CASE TakesUp(u) \/ Returns(u) \/ Finishes(u)
        BY <4>1 DEF TakesUp, Returns, Finishes, Commits, HoldsInbox
      <4>2. CASE Registers(u)
        <5>1. ~HoldsInbox(t, job[u].msg.id)
          BY <4>2 DEF Registers, GoesOn, Blockers
        <5>2. job[u].msg.id # m.id /\ job'[u] = job[u]
          BY <1>2, <4>2, <5>1 DEF HoldsInbox, Registers, GoesOn
        <5> QED BY <2>0, <5>2 DEF HoldsInbox
      <4>3. \/ TakesUp(u) \/ Returns(u) \/ Finishes(u) \/ Registers(u)
            \/ pc[u] \notin {"idle", "inbox"} /\ job'[u] = job[u]
        BY <3>3 DEF Moves, TakesWallet, FindsNothing, FindsItself, MissesReference,
           FindsReference, ChecksReversal, DecidesFirst, DecidesAgain, Inserts, GoesOn
      <4> QED BY <2>0, <3>1, <4>1, <4>2, <4>3 DEF HoldsInbox
    <3> QED BY <1>1, <3>2, <3>3, IdlesOrMoves
  <2>4. inbox[m.id] \in {NONE, m.digest}
    BY <1>1, <1>2 DEF KnowsMessage
  <2> QED BY <2>0, <2>2, <2>3, <2>4
<1>3. CASE Idles(t)
  BY <1>1, <1>2, <1>3 DEF KnowsMessage, Idles
<1>4. CASE Moves(t) /\ Alone(t)
  <2>1. CASE TakesUp(t) \/ Returns(t) \/ Finishes(t)
    BY <2>1 DEF TakesUp, Returns, Finishes, Commits, KnowsMessage
  <2>2. CASE Registers(t)
    <3>1. pc[t] = "inbox" /\ job'[t] = job[t] /\ inbox' = inbox
      BY <2>2 DEF Registers, GoesOn, tables
    <3>2. inbox[job[t].msg.id] \in {NONE, job[t].msg.digest} /\ Blockers(t) = {}
      BY <2>2 DEF Registers
    <3>3. \A u \in Sessions \ {t} : ~HoldsInbox(u, job[t].msg.id)
      BY <3>1, <3>2 DEF Blockers
    <3>4. \A u \in Sessions \ {t} : ~HoldsInbox(u, job[t].msg.id)'
      BY <1>4, <3>1, <3>3 DEF Alone, Idles, HoldsInbox
    <3> QED BY <1>1, <3>1, <3>2, <3>4 DEF KnowsMessage
  <2>3. \/ TakesUp(t) \/ Returns(t) \/ Finishes(t) \/ Registers(t)
        \/ pc[t] \notin {"idle", "inbox"} /\ job'[t] = job[t] /\ UNCHANGED tables
    BY <1>4 DEF Moves, TakesWallet, FindsNothing, FindsItself, MissesReference,
       FindsReference, ChecksReversal, DecidesFirst, DecidesAgain, Inserts, GoesOn
  <2>4. CASE pc[t] \notin {"idle", "inbox"} /\ job'[t] = job[t] /\ UNCHANGED tables
    <3>1. \A u \in Sessions \ {t} : ~HoldsInbox(u, job[t].msg.id) => ~HoldsInbox(u, job[t].msg.id)'
      BY <1>4, <2>4 DEF Alone, Idles, HoldsInbox
    <3> QED BY <1>1, <2>4, <3>1 DEF KnowsMessage, tables
  <2> QED BY <2>1, <2>2, <2>3, <2>4
<1> QED BY <1>1, <1>3, <1>4, IdlesOrMoves

\* The kinds of plan.
LEMMA ActionKept ==
  ASSUME KnownInv, [Next]_vars, NEW t \in Sessions
  PROVE  KnowsAction(t)'
<1>1. TypeOK /\ KnowsAction(t)
  BY DEF KnownInv, BooksInv, Knows
<1>2. CASE Idles(t)
  BY <1>1, <1>2 DEF KnowsAction, Idles
<1>3. CASE Moves(t)
  <2>1. CASE \/ TakesUp(t) \/ Returns(t) \/ Registers(t) \/ TakesWallet(t) \/ FindsNothing(t)
             \/ MissesReference(t) \/ FindsReference(t) \/ ChecksReversal(t) \/ Finishes(t)
    <3>1. \/ pc'[t] \notin {"inbox", "lookup"} \cup Writing
          \/ TakesWallet(t)
          \/ pc'[t] = "inbox" /\ job'[t].via = "inbox"
      BY <2>1 DEF TakesUp, Returns, Registers, FindsNothing, MissesReference,
         FindsReference, ChecksReversal, Finishes, Commits, GoesOn, Writing
    <3> QED BY <3>1 DEF TakesWallet, GoesOn, KnowsAction, Writing
  <2>2. CASE FindsItself(t)
    <3>1. pc[t] = "lookup" /\ job'[t] = job[t] /\ pc'[t] = "commit" /\ plan'[t].action = "replay"
      BY <2>2 DEF FindsItself, GoesOn, Replay
    <3>2. job[t].via # "resolve"
      BY <1>1, <3>1 DEF KnowsAction
    <3> QED BY <3>1, <3>2 DEF KnowsAction
  <2>3. CASE DecidesFirst(t)
    BY <2>3 DEF DecidesFirst, RecordsNew, GoesOn, KnowsAction, Writing
  <2>4. CASE DecidesAgain(t)
    BY <2>4 DEF DecidesAgain, Settles, Postpones, GoesOn, KnowsAction, Writing
  <2>5. CASE Inserts(t)
    BY <1>1, <2>5 DEF Inserts, GoesOn, KnowsAction, Writing
  <2> QED BY <1>3, <2>1, <2>2, <2>3, <2>4, <2>5 DEF Moves
<1> QED BY <1>1, <1>2, <1>3, IdlesOrMoves

\* A recorded answer stays the answer of its operation.
LEMMA ReplayKept ==
  ASSUME KnownInv, [Next]_vars, NEW t \in Sessions
  PROVE  KnowsReplay(t)'
<1>1. TypeOK /\ KnowsReplay(t) /\ KnowsAction(t) /\ BooksInv
  BY DEF KnownInv, BooksInv, Knows
<1>2. ASSUME pc[t] \in Writing, plan[t].action = "replay"
      PROVE  plan[t].tx \in Rows
  BY <1>1, <1>2 DEF TypeOK, SessionOK
<1>3. CASE Idles(t)
  <2>1. ASSUME pc[t] \in Writing, plan[t].action = "replay", plan[t].row.status \in Terminal
        PROVE  txn'[plan[t].tx] = plan[t].row
    BY <1>1, <1>2, <2>1, StepRewritesNothing DEF KnowsReplay, RewritesNothing
  <2> QED BY <1>1, <1>3, <2>1 DEF KnowsReplay, Idles
<1>4. CASE Moves(t)
  <2>1. CASE FindsItself(t)
    <3>1. PICK id \in Existing(job[t].op) :
            IsSameRequest(job[t].op, txn[id]) /\ plan'[t] = Replay(t, id)
      BY <2>1 DEF FindsItself
    <3>2. pc[t] = "lookup" /\ job'[t] = job[t] /\ txn' = txn
      BY <2>1 DEF FindsItself, GoesOn, tables
    <3>3. job[t].op \in Operation
      BY <1>1, <3>2, JobOperation DEF TypeOK
    <3>4. txn[id].op \in Operation
      BY <1>1, <3>1, <3>3, RowOperation DEF Existing, SameIdentity, Operation
    <3>5. txn[id].op = job[t].op
      BY <3>1, <3>3, <3>4, SameRequestSameOperation
    <3>6. plan'[t].tx = id /\ plan'[t].row = txn[id]
      BY <3>1 DEF Replay
    <3> QED BY <3>2, <3>5, <3>6 DEF KnowsReplay
  <2>2. CASE ~FindsItself(t)
    <3>1. \/ pc'[t] \notin Writing
          \/ plan'[t].action # "replay"
      <4>1. CASE DecidesFirst(t) \/ DecidesAgain(t)
        BY <4>1 DEF DecidesFirst, RecordsNew, DecidesAgain, Settles, Postpones
      <4>2. CASE Inserts(t)
        BY <1>1, <4>2 DEF Inserts, GoesOn, KnowsAction
      <4> QED BY <1>4, <2>2, <4>1, <4>2 DEF Moves, TakesUp, Returns, Registers, TakesWallet,
            FindsNothing, MissesReference, FindsReference, ChecksReversal, Finishes,
            Commits, GoesOn, Writing
    <3> QED BY <3>1 DEF KnowsReplay
  <2> QED BY <2>1, <2>2
<1> QED BY <1>1, <1>3, <1>4, IdlesOrMoves

\* Nobody else writes on the wallet a session has looked at.
LEMMA WalletKept ==
  ASSUME KnownInv, [Next]_vars, NEW t \in Sessions
  PROVE  KnowsWallet(t)'
<1>1. TypeOK /\ BooksInv /\ KnowsWallet(t) /\ KnowsAction(t)
  BY DEF KnownInv, BooksInv, Knows
<1>2. CASE Idles(t)
  <2>1. CASE Looked(t)
    <3>1. SameRowsOf(job[t].op.wallet)
      BY <1>1, <1>2, <2>1, HeldRows DEF Looked, BooksInv
    <3>2. ASSUME NEW id \in Rows', SameIdentity(job[t].op, txn'[id].op),
                 txn'[id].op.wallet = job[t].op.wallet
          PROVE  FALSE
      <4>1. id \in TxIds
        BY <3>2 DEF Rows
      <4>2. id \in Rows /\ txn'[id] = txn[id]
        BY <3>1, <3>2, <4>1 DEF SameRowsOf
      <4> QED BY <1>1, <2>1, <3>2, <4>2 DEF KnowsWallet, Existing
    <3> QED BY <1>2, <3>2 DEF KnowsWallet, Existing, Idles
  <2>2. CASE ~Looked(t)
    BY <1>2, <2>2 DEF KnowsWallet, Looked, Idles
  <2> QED BY <2>1, <2>2
<1>3. CASE Moves(t)
  <2>1. CASE FindsNothing(t)
    <3>1. Existing(job[t].op) = {} /\ job'[t] = job[t] /\ Rows' = Rows /\ txn' = txn
      BY <2>1 DEF FindsNothing, GoesOn, tables, Rows
    <3> QED BY <3>1 DEF KnowsWallet, Existing
  <2>2. CASE \/ MissesReference(t) \/ FindsReference(t) \/ ChecksReversal(t)
             \/ DecidesFirst(t) \/ Inserts(t)
    <3>1. Looked(t)' => Looked(t)
      BY <1>1, <2>2 DEF MissesReference, FindsReference, ChecksReversal, DecidesFirst,
         Inserts, GoesOn, Looked, Reading, Writing
    <3>2. job'[t] = job[t] /\ Rows' = Rows /\ txn' = txn
      BY <2>2 DEF MissesReference, FindsReference, ChecksReversal, DecidesFirst, Inserts,
         GoesOn, tables, Rows
    <3> QED BY <1>1, <3>1, <3>2 DEF KnowsWallet, Existing
  <2>3. CASE \/ TakesUp(t) \/ Returns(t) \/ Registers(t) \/ TakesWallet(t) \/ FindsItself(t)
             \/ DecidesAgain(t) \/ Finishes(t)
    <3>1. ~Looked(t)'
      <4>1. CASE TakesUp(t) \/ Returns(t) \/ Registers(t) \/ Finishes(t)
        BY <4>1 DEF TakesUp, Returns, Registers, Finishes, Commits, GoesOn,
           Looked, Reading, Writing
      <4>2. CASE TakesWallet(t)
        BY <4>2 DEF TakesWallet, GoesOn, Looked, Reading, Writing
      <4>3. CASE FindsItself(t)
        BY <4>3 DEF FindsItself, GoesOn, Replay, Looked, Writing
      <4>4. CASE DecidesAgain(t)
        BY <4>4 DEF DecidesAgain, GoesOn, Looked
      <4> QED BY <2>3, <4>1, <4>2, <4>3, <4>4
    <3> QED BY <3>1 DEF KnowsWallet
  <2> QED BY <1>3, <2>1, <2>2, <2>3 DEF Moves
<1> QED BY <1>1, <1>2, <1>3, IdlesOrMoves

\* A session comes to its COMMIT with an insertion from its INSERT only.
LEMMA OnlyInsertsInsert ==
  ASSUME NEW u, Moves(u), ~Inserts(u)
  PROVE  pc'[u] # "commit" \/ plan'[u].action # "insert"
<1>1. CASE FindsItself(u)
  BY <1>1 DEF FindsItself, Replay
<1>2. CASE DecidesAgain(u)
  BY <1>2 DEF DecidesAgain, Settles, Postpones
<1>3. CASE ~FindsItself(u) /\ ~DecidesAgain(u)
  BY <1>3 DEF Moves, TakesUp, Returns, Registers, TakesWallet, FindsNothing, MissesReference,
     FindsReference, ChecksReversal, DecidesFirst, Finishes, Commits, GoesOn
<1> QED BY <1>1, <1>2, <1>3

\* The unique indexes give an identity to one inserting session at a time.
LEMMA IdentityKept ==
  ASSUME KnownInv, [Next]_vars, NEW t \in Sessions
  PROVE  KnowsIdentity(t)'
<1> DEFINE op == job[t].op
<1>1. TypeOK /\ ClaimsAreExclusive /\ \A u \in Sessions : KnowsIdentity(u) /\ KnowsAction(u)
  BY DEF KnownInv, BooksInv, Knows
<1>2. ASSUME Idles(t), pc[t] = "commit", plan[t].action = "insert"
      PROVE  KnowsIdentity(t)'
  <2>1. Existing(op) = {} /\ \A u \in Sessions \ {t} : ~HoldsIdentity(u, op)
    BY <1>1, <1>2 DEF KnowsIdentity
  <2>2. op.provider \in Providers /\ job'[t] = job[t]
    BY <1>1, <1>2, JobOperation DEF TypeOK, Operation, Idles
  <2>3. \A id \in Rows' : ~SameIdentity(op, txn'[id].op)
    <3>1. CASE UNCHANGED tables
      BY <2>1, <3>1 DEF tables, Existing, Rows
    <3>2. ASSUME NEW o \in Openings, Opens(o)
          PROVE  \A id \in Rows' : ~SameIdentity(op, txn'[id].op)
      <4>1. ~SameIdentity(op, OpeningRow(o).op)
        BY <2>2, NoneAssumption DEF OpeningRow, SameIdentity
      <4> QED BY <1>1, <2>1, <3>2, <4>1, OpenRows DEF Existing, Rows
    <3>3. ASSUME NEW s \in Sessions, Finishes(s)
          PROVE  \A id \in Rows' : ~SameIdentity(op, txn'[id].op)
      <4>1. s # t /\ Commits(s) /\ pc[s] = "commit"
        BY <1>2, <3>3 DEF Finishes, Commits, CanCommit, Idles
      <4>2. CASE plan[s].action = "replay"
        BY <1>1, <2>1, <4>1, <4>2, CommitRows DEF Existing
      <4>3. CASE plan[s].action # "replay"
        <5>1. Puts(s)
          BY <1>1, <4>1, <4>3, CommitRows
        <5>2. ~SameIdentity(op, plan[s].row.op)
          <6>1. CASE plan[s].action = "insert"
            BY <2>1, <4>1, <5>1, <6>1, IdentityIsSymmetric DEF HoldsIdentity, Puts
          <6>2. CASE plan[s].action # "insert"
            <7>1. IdFor(s) \in Rows /\ txn[IdFor(s)].op = plan[s].row.op
              BY <5>1, <6>2 DEF Puts, Pending
            <7> QED BY <2>1, <7>1 DEF Existing
          <6> QED BY <6>1, <6>2
        <5>3. ASSUME NEW id \in Rows', id # IdFor(s)
              PROVE  id \in Rows /\ txn'[id] = txn[id]
          BY <5>1, <5>3 DEF Puts, Rows
        <5> QED BY <2>1, <5>1, <5>2, <5>3 DEF Existing, Puts
      <4> QED BY <4>2, <4>3
    <3> QED BY <1>1, <3>1, <3>2, <3>3, WhoWrites
  <2>4. ASSUME NEW u \in Sessions \ {t}
        PROVE  ~HoldsIdentity(u, op)'
    <3>1. ~HoldsIdentity(u, op)
      BY <2>1
    <3>2. CASE Idles(u)
      BY <2>2, <3>1, <3>2 DEF HoldsIdentity, Idles
    <3>3. CASE Inserts(u)
      <4>1. ~HoldsIdentity(t, job[u].op) /\ job'[u] = job[u]
        BY <3>3 DEF Inserts, GoesOn, Blockers
      <4> QED BY <1>2, <2>2, <4>1, IdentityIsSymmetric DEF HoldsIdentity
    <3>4. CASE Moves(u) /\ ~Inserts(u)
      <4>1. pc'[u] # "commit" \/ plan'[u].action # "insert"
        BY <3>4, OnlyInsertsInsert
      <4> QED BY <4>1 DEF HoldsIdentity
    <3> QED BY <1>1, <3>2, <3>3, <3>4, IdlesOrMoves
  <2> QED BY <2>2, <2>3, <2>4 DEF KnowsIdentity, Existing, HoldsIdentity
<1>3. CASE Idles(t)
  BY <1>2, <1>3 DEF KnowsIdentity, Idles
<1>4. CASE Moves(t) /\ Alone(t)
  <2>1. CASE Inserts(t)
    <3>1. /\ Existing(op) = {} /\ Blockers(t) = {} /\ pc[t] = "insert" /\ job'[t] = job[t]
          /\ Rows' = Rows /\ txn' = txn
      BY <2>1 DEF Inserts, GoesOn, tables, Rows
    <3>2. \A u \in Sessions \ {t} : ~HoldsIdentity(u, op)
      BY <3>1 DEF Blockers
    <3>3. \A u \in Sessions \ {t} : ~HoldsIdentity(u, op)'
      BY <1>4, <3>1, <3>2 DEF Alone, Idles, HoldsIdentity
    <3> QED BY <3>1, <3>3 DEF KnowsIdentity, Existing, HoldsIdentity
  <2>2. CASE ~Inserts(t)
    <3>1. pc'[t] # "commit" \/ plan'[t].action # "insert"
      BY <1>4, <2>2, OnlyInsertsInsert
    <3> QED BY <3>1 DEF KnowsIdentity
  <2> QED BY <2>1, <2>2
<1> QED BY <1>1, <1>3, <1>4, IdlesOrMoves

-----------------------------------------------------------------------------
\* What sessions know stays true.

\* Initially there are no sessions in the middle of anything.
LEMMA KnownAtFirst == Init => KnownInv
<1> SUFFICES ASSUME Init
             PROVE  KnownInv
  OBVIOUS
<1>1. \A t \in Sessions : pc[t] = "idle"
  BY DEF Init
<1>2. \A t \in Sessions : Knows(t)
  BY <1>1 DEF Knows, KnowsMessage, KnowsAction, KnowsReplay, KnowsWallet, Looked,
     KnowsIdentity, Reading, Writing
<1> QED BY <1>2, BooksAtFirst DEF KnownInv

\* Every step keeps it.
LEMMA KnownKept == KnownInv /\ [Next]_vars => KnownInv'
<1> SUFFICES ASSUME KnownInv, [Next]_vars
             PROVE  KnownInv'
  OBVIOUS
<1>1. \A t \in Sessions : Knows(t)'
  BY MessageKept, ActionKept, ReplayKept, WalletKept, IdentityKept DEF Knows
<1> QED BY <1>1, BooksKept DEF KnownInv

\* What sessions know holds in every behaviour.
THEOREM SessionsKnow == Spec => []KnownInv
BY KnownAtFirst, KnownKept, PTL DEF Spec

-----------------------------------------------------------------------------
\* The unique indexes.

\* Of two rows, one is an opening or their identities differ.
Apart(a, b) == ~SameIdentity(a.op, b.op) \/ a.op.kind = "OPENING"

\* A row that is no opening is an operation of a provider, and an opening has none.
LEMMA RowsAndOpenings ==
  ASSUME TypeOK, NEW id \in Rows
  PROVE  \/ txn[id].op \in Operation /\ txn[id].op.provider # NONE
                                     /\ txn[id].op.kind # "OPENING"
         \/ txn[id].op \in OpeningOp /\ txn[id].op.provider = NONE
                                     /\ txn[id].op.kind = "OPENING"
<1>1. txn[id].op \in Operation \cup OpeningOp
  BY DEF TypeOK, TablesOK, TxnRow, Rows
<1> QED BY <1>1, NoneAssumption DEF Operation, OpeningOp, BusinessKinds

\* An INSERT waits for the other holders of its identity, and then finds it free.
LEMMA IdentitiesKept ==
  ASSUME KnownInv, IdentitiesAreUnique, [Next]_vars
  PROVE  IdentitiesAreUnique'
<1>1. TypeOK /\ ClaimsAreExclusive /\ \A s \in Sessions : KnowsIdentity(s)
  BY DEF KnownInv, BooksInv, Knows
<1>2. \A a, b \in Rows : a # b => Apart(txn[a], txn[b])
  BY DEF IdentitiesAreUnique, Apart
<1>3. CASE UNCHANGED tables
  BY <1>3 DEF tables, IdentitiesAreUnique, Rows
<1>4. ASSUME NEW o \in Openings, Opens(o)
      PROVE  IdentitiesAreUnique'
  <2>1. CASE txn' = txn /\ Rows' = Rows
    BY <2>1 DEF IdentitiesAreUnique
  <2>2. ASSUME NEW id \in TxIds \ Rows, Rows' = Rows \cup {id}, txn'[id] = OpeningRow(o),
               \A other \in TxIds \ {id} : txn'[other] = txn[other]
        PROVE  IdentitiesAreUnique'
    <3>1. OpeningRow(o).op.kind = "OPENING" /\ OpeningRow(o).op.provider = NONE
      BY DEF OpeningRow
    <3>2. ASSUME NEW a \in Rows', NEW b \in Rows', a # b
          PROVE  Apart(txn'[a], txn'[b])
      <4>1. CASE a = id
        BY <2>2, <3>1, <4>1 DEF Apart
      <4>2. CASE b = id
        <5>1. a \in Rows /\ txn'[a] = txn[a]
          BY <2>2, <3>2, <4>2 DEF Rows
        <5> QED BY <1>1, <2>2, <3>1, <4>2, <5>1, RowsAndOpenings DEF Apart, SameIdentity
      <4>3. CASE a # id /\ b # id
        <5>1. a \in Rows /\ b \in Rows /\ txn'[a] = txn[a] /\ txn'[b] = txn[b]
          BY <2>2, <3>2, <4>3 DEF Rows
        <5> QED BY <1>2, <3>2, <5>1
      <4> QED BY <4>1, <4>2, <4>3
    <3> QED BY <3>2 DEF IdentitiesAreUnique, Apart
  <2> QED BY <1>1, <1>4, <2>1, <2>2, OpenRows
<1>5. ASSUME NEW s \in Sessions, Finishes(s)
      PROVE  IdentitiesAreUnique'
  <2>1. Commits(s) /\ pc[s] = "commit"
    BY <1>5 DEF Finishes, Commits, CanCommit
  <2>2. CASE plan[s].action = "replay"
    BY <1>1, <2>1, <2>2, CommitRows DEF IdentitiesAreUnique
  <2>3. CASE plan[s].action # "replay"
    <3> DEFINE id == IdFor(s)
               op == job[s].op
    <3>1. Puts(s)
      BY <1>1, <2>1, <2>3, CommitRows
    <3> HIDE DEF id
    <3>2. \A other \in Rows' \ {id} : other \in Rows /\ txn'[other] = txn[other]
      BY <3>1 DEF Puts, Rows, id
    <3>3. ASSUME NEW other \in Rows' \ {id}
          PROVE  /\ ~SameIdentity(op, txn[other].op) \/ txn[other].op.kind = "OPENING"
                 /\ ~SameIdentity(op, txn[other].op) \/ op.kind = "OPENING"
      <4>1. CASE plan[s].action = "insert"
        BY <1>1, <2>1, <3>2, <4>1 DEF KnowsIdentity, Existing
      <4>2. CASE plan[s].action # "insert"
        <5>1. id \in Rows /\ txn[id].op = op
          BY <3>1, <4>2 DEF Puts, Pending, id
        <5> QED BY <1>2, <3>2, <3>3, <5>1, IdentityIsSymmetric DEF Apart
      <4> QED BY <4>1, <4>2
    <3>4. txn'[id].op = op
      BY <3>1 DEF Puts, id
    <3>5. ASSUME NEW a \in Rows', NEW b \in Rows', a # b
          PROVE  Apart(txn'[a], txn'[b])
      <4>1. CASE a = id
        BY <3>2, <3>3, <3>4, <3>5, <4>1 DEF Apart
      <4>2. CASE b = id
        BY <3>2, <3>3, <3>4, <3>5, <4>2, IdentityIsSymmetric DEF Apart
      <4>3. CASE a # id /\ b # id
        BY <1>2, <3>2, <3>5, <4>3
      <4> QED BY <4>1, <4>2, <4>3
    <3> QED BY <3>5 DEF IdentitiesAreUnique, Apart
  <2> QED BY <2>2, <2>3
<1> QED BY <1>1, <1>3, <1>4, <1>5, WhoWrites

\* A provider's external id and its idempotency key each name one transaction: the
\* unique indexes of migration 1, which the INSERT of executeTx may run into (store.go:550).
THEOREM IdentitiesStayUnique == Spec => []IdentitiesAreUnique
<1>1. Init => IdentitiesAreUnique
  BY DEF Init, IdentitiesAreUnique, Rows
<1> QED BY <1>1, IdentitiesKept, SessionsKnow, PTL DEF Spec

-----------------------------------------------------------------------------
\* The inbox.

\* A row keeps the operation it was recorded for.
LEMMA RowsKeepOperations ==
  ASSUME KnownInv, [Next]_vars, NEW id \in Rows
  PROVE  id \in Rows' /\ txn'[id].op = txn[id].op
BY StepRewritesNothing DEF KnownInv, RewritesNothing, Rows

\* What a consumer commits together with the inbox row is the row of its operation.
LEMMA CommitHasOutcome ==
  ASSUME KnownInv, [Next]_vars, NEW s \in Sessions, Finishes(s)
  PROVE  IdFor(s) \in Rows' /\ txn'[IdFor(s)].op = job[s].op
<1>1. TypeOK /\ ClaimsAreExclusive /\ KnowsReplay(s)
  BY DEF KnownInv, BooksInv, Knows
<1>2. Commits(s) /\ pc[s] \in Writing
  BY DEF Finishes, Commits, CanCommit, Writing
<1>3. CASE plan[s].action = "replay"
  <2>1. IdFor(s) = plan[s].tx /\ plan[s].tx \in Rows /\ plan[s].row.op = txn[plan[s].tx].op
    BY <1>1, <1>2, <1>3 DEF TypeOK, SessionOK, IdFor
  <2> QED BY <1>1, <1>2, <1>3, <2>1, CommitRows DEF KnowsReplay
<1>4. CASE plan[s].action # "replay"
  BY <1>1, <1>2, <1>4, CommitRows DEF Puts
<1> QED BY <1>3, <1>4

\* Inbox rows come with their outcome and are never alone afterwards.
LEMMA OutcomesKept ==
  ASSUME KnownInv, InboxHasOutcome, [Next]_vars
  PROVE  InboxHasOutcome'
<1>1. TypeOK /\ \A s \in Sessions : KnowsMessage(s)
  BY DEF KnownInv, BooksInv, Knows
<1> SUFFICES ASSUME NEW id \in MsgIds, inbox'[id] # NONE
             PROVE  \E m \in Messages : /\ m.id = id /\ m.digest = inbox'[id]
                                        /\ \E t \in Rows' : txn'[t].op = m.op
  BY DEF InboxHasOutcome
<1>2. CASE inbox'[id] = inbox[id]
  <2>1. PICK m \in Messages : /\ m.id = id /\ m.digest = inbox[id]
                              /\ \E t \in Rows : txn[t].op = m.op
    BY <1>2 DEF InboxHasOutcome
  <2> QED BY <1>2, <2>1, RowsKeepOperations
<1>3. CASE inbox'[id] # inbox[id]
  <2>1. PICK s \in Sessions : Finishes(s)
    BY <1>1, <1>3, WhoWrites, OpenRows DEF tables
  <2>2. pc[s] = "commit" /\ Write(s, IdFor(s))
    BY <2>1 DEF Finishes, Commits, CanCommit
  <2>3. job[s].via = "inbox" /\ inbox' = [inbox EXCEPT ![job[s].msg.id] = job[s].msg.digest]
    BY <1>3, <2>2 DEF Write
  <2>4. id = job[s].msg.id /\ inbox'[id] = job[s].msg.digest
    BY <1>1, <1>3, <2>3 DEF TypeOK, TablesOK
  <2>5. job[s].msg \in Messages /\ job[s].op = job[s].msg.op
    BY <1>1, <2>2, <2>3 DEF KnowsMessage
  <2> QED BY <2>1, <2>4, <2>5, CommitHasOutcome
<1> QED BY <1>2, <1>3

\* A message registered in the inbox has had its effect (store.go:56).
THEOREM InboxKeepsOutcomes == Spec => []InboxHasOutcome
<1>1. Init => InboxHasOutcome
  BY DEF Init, InboxHasOutcome
<1> QED BY <1>1, OutcomesKept, SessionsKnow, PTL DEF Spec

\* A row of the inbox is never altered or removed.
LEMMA InboxIsKept ==
  ASSUME KnownInv, [Next]_vars, NEW id \in MsgIds, inbox[id] # NONE
  PROVE  inbox'[id] = inbox[id]
<1>1. TypeOK /\ \A s \in Sessions : KnowsMessage(s)
  BY DEF KnownInv, BooksInv, Knows
<1>2. ASSUME NEW s \in Sessions, Finishes(s)
      PROVE  inbox'[id] = inbox[id]
  <2>1. pc[s] = "commit" /\ Write(s, IdFor(s))
    BY <1>2 DEF Finishes, Commits, CanCommit
  <2>2. job[s].via = "inbox" => inbox[job[s].msg.id] \in {NONE, job[s].msg.digest}
    BY <1>1, <2>1 DEF KnowsMessage
  <2> QED BY <1>1, <2>1, <2>2 DEF Write, TypeOK, TablesOK
<1>3. UNCHANGED tables => inbox' = inbox
  BY DEF tables
<1> QED BY <1>1, <1>2, <1>3, WhoWrites, OpenRows

-----------------------------------------------------------------------------
\* Answers.

\* The refusals.
Errors == {"INVALID_INPUT", "NOT_FOUND", "CONFLICT", "INVALID_TRANSACTION", "UNAVAILABLE"}

\* What a refusal says.
LEMMA RefusalSays ==
  ASSUME NEW op, NEW err \in Errors
  PROVE  /\ Refusal(op, err).op = op /\ Refusal(op, err).err = err
         /\ Refusal(op, err).tx = NONE
BY DEF Refusal

\* What the result of a commit says.
LEMMA ResultSays ==
  ASSUME NEW s \in Sessions, NEW id \in TxIds, job[s].via # "resolve"
  PROVE  /\ Result(s, id).op = job[s].op /\ Result(s, id).err = "" /\ Result(s, id).tx = id
         /\ Result(s, id).status = plan[s].row.status
         /\ Result(s, id).failure = plan[s].row.failure
         /\ Result(s, id).balance = plan[s].row.balance
BY DEF Result

\* What a step may do to the answer of a session.
LEMMA AnswersChange ==
  ASSUME TypeOK, [Next]_vars, NEW t \in Sessions
  PROVE  \/ answer'[t] = answer[t]
         \/ answer'[t] = NONE
         \/ answer'[t].err \notin {"", "CONFLICT"} /\ answer'[t].tx = NONE
         \/ answer'[t] = Refusal(job[t].op, "CONFLICT") /\ Conflicts(t) /\ UNCHANGED tables
         \/ answer'[t] = Result(t, IdFor(t)) /\ Finishes(t)
<1>0. ASSUME NEW op, NEW err \in Errors \ {"CONFLICT"}, answer'[t] = Refusal(op, err)
      PROVE  answer'[t].err \notin {"", "CONFLICT"} /\ answer'[t].tx = NONE
  <2>1. Refusal(op, err).err = err /\ Refusal(op, err).tx = NONE
    BY RefusalSays
  <2> QED BY <1>0, <2>1 DEF Errors
<1>1. CASE Ignored(t)
  <2>1. "INVALID_INPUT" \in Errors \ {"CONFLICT"}
    BY DEF Errors
  <2> QED BY <1>0, <1>1, <2>1 DEF Ignored
<1>2. CASE answer' = answer
  BY <1>2
<1>3. ASSUME NEW s \in Sessions, Alone(s), s # t
      PROVE  answer'[t] = answer[t]
  BY <1>3 DEF Alone
<1>4. CASE Returns(t)
  <2>1. PICK err \in {"NOT_FOUND", "CONFLICT", "INVALID_TRANSACTION", "UNAVAILABLE"} :
          /\ answer'[t] = Refusal(job[t].op, err)
          /\ err = "CONFLICT" => Conflicts(t)
    BY <1>4 DEF Returns
  <2>2. UNCHANGED tables /\ err \in Errors
    BY <1>4 DEF Returns, Errors
  <2> QED BY <1>0, <2>1, <2>2
<1>5. CASE Finishes(t)
  <2>1. "UNAVAILABLE" \in Errors \ {"CONFLICT"}
    BY DEF Errors
  <2> QED BY <1>0, <1>5, <2>1 DEF Finishes
<1>6. CASE Moves(t) /\ ~Returns(t) /\ ~Finishes(t)
  BY <1>6 DEF Moves, TakesUp, Registers, TakesWallet, FindsNothing, FindsItself,
     MissesReference, FindsReference, ChecksReversal, DecidesFirst, DecidesAgain, Inserts,
     GoesOn
<1> QED BY <1>1, <1>2, <1>3, <1>4, <1>5, <1>6, Behaviour

\* A session that is refused has met another operation, or other bytes.
LEMMA ConflictIsReal ==
  ASSUME KnownInv, NEW t \in Sessions, Conflicts(t)
  PROVE  \/ \E id \in Existing(job[t].op) : txn[id].op # job[t].op
         \/ \E m \in Messages : m.op = job[t].op /\ inbox[m.id] \notin {NONE, m.digest}
<1> DEFINE op == job[t].op
<1>1. TypeOK /\ KnowsMessage(t) /\ KnowsAction(t) /\ KnowsWallet(t)
  BY DEF KnownInv, BooksInv, Knows
<1>2. CASE pc[t] = "inbox" /\ inbox[job[t].msg.id] \notin {NONE, job[t].msg.digest}
  BY <1>1, <1>2 DEF KnowsMessage, KnowsAction
<1>3. CASE pc[t] = "lookup" /\ \E id \in Existing(op) : ~IsSameRequest(op, txn[id])
  <2>1. PICK id \in Existing(op) : ~IsSameRequest(op, txn[id])
    BY <1>3
  <2>2. op \in Operation
    BY <1>1, <1>3, JobOperation DEF TypeOK
  <2>3. txn[id].op \in Operation
    BY <1>1, <2>1, <2>2, RowOperation DEF Existing, SameIdentity, Operation
  <2> QED BY <2>1, <2>2, <2>3, SameRequestSameOperation
<1>4. CASE pc[t] = "insert" /\ Existing(op) # {}
  <2>1. Looked(t)
    BY <1>1, <1>4 DEF KnowsAction, Looked, Writing
  <2> QED BY <1>1, <1>4, <2>1 DEF KnowsWallet
<1> QED BY <1>2, <1>3, <1>4 DEF Conflicts

\* The reason for a conflict stays in the tables.
LEMMA ConflictsKept ==
  ASSUME KnownInv, ConflictsAreReal, [Next]_vars
  PROVE  ConflictsAreReal'
<1>1. TypeOK
  BY DEF KnownInv, BooksInv
<1> SUFFICES ASSUME NEW t \in Sessions, answer'[t] # NONE, answer'[t].err = "CONFLICT"
             PROVE  \/ \E id \in Existing(answer[t].op)' : txn'[id].op # answer'[t].op
                    \/ \E m \in Messages :
                         m.op = answer'[t].op /\ inbox'[m.id] \notin {NONE, m.digest}
  BY DEF ConflictsAreReal
<1> DEFINE op == answer'[t].op
<1>2. ASSUME \/ \E id \in Existing(op) : txn[id].op # op
             \/ \E m \in Messages : m.op = op /\ inbox[m.id] \notin {NONE, m.digest}
      PROVE  \/ \E id \in Existing(answer[t].op)' : txn'[id].op # op
             \/ \E m \in Messages : m.op = op /\ inbox'[m.id] \notin {NONE, m.digest}
  <2>1. ASSUME NEW id \in Existing(op), txn[id].op # op
        PROVE  id \in Existing(answer[t].op)' /\ txn'[id].op # op
    BY <2>1, RowsKeepOperations DEF Existing
  <2>2. ASSUME NEW m \in Messages, inbox[m.id] \notin {NONE, m.digest}
        PROVE  inbox'[m.id] = inbox[m.id]
    BY <2>2, InboxIsKept, MessagesAssumption DEF Message
  <2> QED BY <1>2, <2>1, <2>2
<1>3. CASE answer'[t] = answer[t]
  BY <1>2, <1>3 DEF ConflictsAreReal
<1>4. CASE answer'[t] = Refusal(job[t].op, "CONFLICT") /\ Conflicts(t) /\ UNCHANGED tables
  <2>1. op = job[t].op
    BY <1>4, RefusalSays DEF Errors
  <2> QED BY <1>2, <1>4, <2>1, ConflictIsReal
<1>5. CASE answer'[t] = NONE \/ answer'[t].err \notin {"", "CONFLICT"}
  BY <1>5
<1>6. CASE answer'[t] = Result(t, IdFor(t)) /\ Finishes(t)
  <2>1. job[t].via # "resolve" /\ IdFor(t) \in TxIds
    BY <1>6, CommitHasOutcome DEF Result, Rows
  <2>2. answer'[t].err = ""
    BY <1>6, <2>1, ResultSays
  <2> QED BY <2>2
<1> QED BY <1>1, <1>3, <1>4, <1>5, <1>6, AnswersChange

\* CONFLICT is never the answer to a plain repetition, however the two race
\* (store.go:47, 493, 550).
THEOREM ConflictsStayReal == Spec => []ConflictsAreReal
<1>1. Init => ConflictsAreReal
  BY DEF Init, ConflictsAreReal
<1> QED BY <1>1, ConflictsKept, SessionsKnow, PTL DEF Spec

\* The answer of a commit is what is in the table after it.
LEMMA CommitIsAnswered ==
  ASSUME KnownInv, [Next]_vars, NEW s \in Sessions, Finishes(s),
         plan[s].row.status \in Terminal
  PROVE  txn'[IdFor(s)] = plan[s].row
<1>1. TypeOK /\ ClaimsAreExclusive /\ KnowsReplay(s)
  BY DEF KnownInv, BooksInv, Knows
<1>2. Commits(s) /\ pc[s] \in Writing
  BY DEF Finishes, Commits, CanCommit, Writing
<1>3. CASE plan[s].action = "replay"
  BY <1>1, <1>2, <1>3, CommitRows DEF KnowsReplay, IdFor
<1>4. CASE plan[s].action # "replay"
  BY <1>1, <1>2, <1>4, CommitRows DEF Puts
<1> QED BY <1>3, <1>4

\* A committed answer stays true.
LEMMA AnswersKept ==
  ASSUME KnownInv, AnswersAreDurable, [Next]_vars
  PROVE  AnswersAreDurable'
<1> DEFINE Backed(a) ==
      /\ a.tx \in Rows
      /\ txn[a.tx].op = a.op
      /\ a.status \in Terminal => /\ txn[a.tx].status = a.status
                                  /\ txn[a.tx].failure = a.failure
                                  /\ txn[a.tx].balance = a.balance
<1>1. TypeOK /\ BooksInv
  BY DEF KnownInv, BooksInv
<1> SUFFICES ASSUME NEW t \in Sessions, answer'[t] # NONE, answer'[t].err = ""
             PROVE  Backed(answer[t])'
  BY DEF AnswersAreDurable
<1>2. CASE answer'[t] = answer[t]
  <2>1. Backed(answer[t])
    BY <1>2 DEF AnswersAreDurable
  <2>2. answer[t].status \in Terminal => txn'[answer[t].tx] = txn[answer[t].tx]
    BY <1>1, <2>1, StepRewritesNothing DEF RewritesNothing
  <2> QED BY <1>2, <2>1, <2>2, RowsKeepOperations
<1>3. CASE answer'[t] = Result(t, IdFor(t)) /\ Finishes(t)
  <2>1. IdFor(t) \in Rows' /\ txn'[IdFor(t)].op = job[t].op
    BY <1>3, CommitHasOutcome
  <2>2. /\ answer'[t].tx = IdFor(t) /\ answer'[t].op = job[t].op
        /\ answer'[t].status = plan[t].row.status
        /\ answer'[t].failure = plan[t].row.failure
        /\ answer'[t].balance = plan[t].row.balance
    <3>1. job[t].via # "resolve" /\ IdFor(t) \in TxIds
      BY <1>3, <2>1 DEF Result, Rows
    <3> DEFINE a == Result(t, IdFor(t))
    <3>2. /\ a.tx = IdFor(t) /\ a.op = job[t].op
          /\ a.status = plan[t].row.status
          /\ a.failure = plan[t].row.failure
          /\ a.balance = plan[t].row.balance
      BY <3>1, ResultSays
    <3> QED BY <1>3, <3>2
  <2>3. plan[t].row.status \in Terminal => txn'[IdFor(t)] = plan[t].row
    BY <1>3, CommitIsAnswered
  <2> QED BY <2>1, <2>2, <2>3
<1>4. CASE answer'[t].err \notin {"", "CONFLICT"}
  BY <1>4
<1>5. CASE answer'[t] = Refusal(job[t].op, "CONFLICT")
  BY <1>5, RefusalSays DEF Errors
<1> QED BY <1>1, <1>2, <1>3, <1>4, <1>5, AnswersChange

\* An answer with a result is backed by a row of the same operation, and a final one
\* never changes (store.go:491, 122).
THEOREM AnswersStayTrue == Spec => []AnswersAreDurable
<1>1. Init => AnswersAreDurable
  BY DEF Init, AnswersAreDurable
<1> QED BY <1>1, AnswersKept, SessionsKnow, PTL DEF Spec

-----------------------------------------------------------------------------
\* Time.

\* The entry that comes with the opening of a wallet.
OpeningEntry(o, id, now) ==
  [tx |-> id, direction |-> "CREDIT", amount |-> o.money.minor, before |-> 0,
   after |-> o.money.minor, version |-> 1, at |-> now]

\* A wallet that is opened starts a ledger, unless there is nothing on it.
LEMMA OpenBooks ==
  ASSUME BooksInv, NEW o \in Openings, Opens(o)
  PROVE  /\ o.wallet \in Wallets /\ wallet[o.wallet] = NONE /\ ledger[o.wallet] = <<>>
         /\ \E now \in Times :
              /\ wallet'[o.wallet] \in WalletRow /\ wallet'[o.wallet].updatedAt = now
              /\ \A w \in Wallets \ {o.wallet} : wallet'[w] = wallet[w] /\ ledger'[w] = ledger[w]
              /\ \/ UNCHANGED <<txn, ledger>>
                 \/ \E id \in TxIds \ Rows :
                      /\ OpeningEntry(o, id, now) \in Entry
                      /\ Rows' = Rows \cup {id} /\ txn'[id] = OpeningRow(o)
                      /\ \A other \in TxIds \ {id} : txn'[other] = txn[other]
                      /\ ledger'[o.wallet] = <<OpeningEntry(o, id, now)>>
<1>1. o.wallet \in Wallets /\ wallet[o.wallet] = NONE
  BY OpeningsAssumption DEF Opens, OpenWallet, Opening
<1>2. ledger[o.wallet] = <<>>
  BY <1>1 DEF BooksInv, Reconciled
<1>3. TypeOK
  BY DEF BooksInv
<1>4. PICK now \in Times :
        /\ wallet' = [wallet EXCEPT ![o.wallet] =
             [player |-> o.player, balance |-> o.money, version |-> 1, updatedAt |-> now]]
        /\ IF IsZero(o.money) THEN UNCHANGED <<txn, ledger, outbox>>
           ELSE /\ \E free \in TxIds : txn[free] = NONE
                /\ txn' = [txn EXCEPT ![NewTxId] = OpeningRow(o)]
                /\ ledger' = [ledger EXCEPT ![o.wallet] = <<OpeningEntry(o, NewTxId, now)>>]
  BY DEF Opens, OpenWallet, OpeningEntry
<1>5. /\ wallet'[o.wallet].updatedAt = now /\ wallet'[o.wallet] \in WalletRow
      /\ \A w \in Wallets \ {o.wallet} : wallet'[w] = wallet[w]
  <2> DEFINE v == [player |-> o.player, balance |-> o.money, version |-> 1, updatedAt |-> now]
  <2>1. v \in WalletRow
    <3>1. o.player \in Players /\ o.money \in Money
      BY OpeningsAssumption DEF Opening
    <3>2. 1 \in 1..MaxInt
      BY MaxIntAssumption
    <3> QED BY <3>1, <3>2 DEF WalletRow
  <2>2. v.updatedAt = now /\ wallet' = [wallet EXCEPT ![o.wallet] = v]
    BY <1>4
  <2> HIDE DEF v
  <2> QED BY <1>1, <1>3, <2>1, <2>2 DEF TypeOK, TablesOK
<1>6. CASE UNCHANGED <<txn, ledger>>
  BY <1>1, <1>2, <1>5, <1>6
<1>7. CASE ~IsZero(o.money)
  <2> DEFINE id == NewTxId
             e == OpeningEntry(o, id, now)
             row == OpeningRow(o)
  <2>1. id \in TxIds \ Rows
    BY <1>4, <1>7 DEF NewTxId, Rows
  <2>2. /\ txn' = [txn EXCEPT ![id] = row]
        /\ ledger' = [ledger EXCEPT ![o.wallet] = <<e>>]
    BY <1>4, <1>7
  <2>3. row \in TxnRow
    <3>1. o.wallet \in Wallets /\ o.player \in Players /\ o.money \in Money
      BY OpeningsAssumption DEF Opening
    <3>2. o.money.minor \in Int64 /\ 0 \in 0..(MaxAttempts - 1)
      BY <3>1, MaxAttemptsAssumption DEF Money
    <3>3. OpeningRow(o).op \in OpeningOp
      BY <3>1 DEF OpeningRow, OpeningOp
    <3> QED BY <3>2, <3>3 DEF OpeningRow, TxnRow, Statuses, Terminal
  <2>4. e \in Entry
    <3>1. o.money \in Money /\ o.money.minor \in Int64
      BY OpeningsAssumption DEF Opening, Money
    <3>2. 0 \in Int64 /\ 1 \in 1..MaxInt
      BY MaxIntAssumption, Integers64 DEF Int64
    <3> QED BY <2>1, <3>1, <3>2 DEF OpeningEntry, Entry
  <2> HIDE DEF id, e, row
  <2>5. /\ Rows' = Rows \cup {id} /\ txn'[id] = row
        /\ \A other \in TxIds \ {id} : txn'[other] = txn[other]
    <3>1. row # NONE
      BY <2>3, NoneIsNoRowAssumption
    <3> QED BY <1>3, <2>1, <2>2, <3>1 DEF TypeOK, TablesOK, Rows
  <2>6. /\ ledger'[o.wallet] = <<e>>
        /\ \A w \in Wallets \ {o.wallet} : ledger'[w] = ledger[w]
    BY <1>1, <1>3, <2>2 DEF TypeOK, TablesOK
  <2> QED BY <1>1, <1>2, <1>5, <2>1, <2>4, <2>5, <2>6 DEF id, e, row
<1> QED BY <1>4, <1>6, <1>7

\* A commit that moves money adds an entry to the ledger of its wallet.
LEMMA CommitBooks ==
  ASSUME BooksInv, NEW s \in Sessions, Commits(s)
  PROVE  LET d == plan[s].decision
             w == job[s].op.wallet
             e == EntryOf(IdFor(s), job[s].op, d) IN
         /\ w \in Wallets
         /\ \A v \in Wallets : d.direction = "" \/ v # w =>
              wallet'[v] = wallet[v] /\ ledger'[v] = ledger[v]
         /\ d.direction # "" =>
              /\ plan[s].action \in {"insert", "update"} /\ plan[s].row.op = job[s].op
              /\ d.direction \in {"DEBIT", "CREDIT"}
              /\ e \in Entry /\ wallet'[w] = d.wallet /\ wallet[w] \in WalletRow
              /\ MovedTo(d.wallet, wallet[w], d.wallet.balance.minor)
              /\ ledger'[w] = Append(ledger[w], e)
<1> DEFINE op == job[s].op
           id == IdFor(s)
           d == plan[s].decision
           w == op.wallet
           e == EntryOf(id, op, d)
<1>1. pc[s] \in Writing /\ pc[s] # "idle" /\ CanCommit(s) /\ TypeOK
  BY DEF Commits, CanCommit, Writing, BooksInv
<1>2. /\ op \in Operation /\ plan[s] \in Plan
      /\ held[s] \in WalletRow /\ held[s] = wallet[w]
      /\ Follows(d, held[s], op.money)
      /\ d.direction # "" => plan[s].action \in {"insert", "update"}
      /\ plan[s].action # "replay" => plan[s].row.op = op
  BY <1>1, JobOperation
     DEF BooksInv, TypeOK, SessionOK, WalletsAreLocked, DecisionsAreMovements
<1>3. d \in Decision /\ d.direction \in {"", "DEBIT", "CREDIT"} /\ w \in Wallets
  BY <1>2 DEF Plan, Decision, Operation
<1>4. /\ wallet' = IF d.direction = "" THEN wallet ELSE [wallet EXCEPT ![w] = d.wallet]
      /\ ledger' = IF d.direction = "" THEN ledger ELSE [ledger EXCEPT ![w] = Append(@, e)]
  BY DEF Commits, Write
<1>5. id \in TxIds
  BY <1>1, IdForType
<1>6. d.direction # "" => e \in Entry
  BY <1>2, <1>3, <1>5, EntryType
<1>7. d.direction # "" => MovedTo(d.wallet, wallet[w], d.wallet.balance.minor)
  BY <1>2, <1>3 DEF Follows, MovedTo
<1> HIDE DEF e, d, id
<1>8. CASE d.direction = ""
  BY <1>3, <1>4, <1>8 DEF d, e, id
<1>9. CASE d.direction # ""
  <2>1. wallet'[w] = d.wallet /\ ledger'[w] = Append(ledger[w], e)
    BY <1>1, <1>3, <1>4, <1>9 DEF TypeOK, TablesOK
  <2>2. \A v \in Wallets \ {w} : wallet'[v] = wallet[v] /\ ledger'[v] = ledger[v]
    BY <1>1, <1>4, <1>9 DEF TypeOK, TablesOK
  <2> QED BY <1>2, <1>3, <1>6, <1>7, <1>9, <2>1, <2>2 DEF d, e, id
<1> QED BY <1>8, <1>9

\* The ledger l is in the order of its timestamps, none of them after now.
InOrderBy(l, now) ==
  \A i, j \in DOMAIN l : l[i].at <= now /\ (i < j => l[i].at <= l[j].at)

\* An entry not older than the others goes at the end.
LEMMA AppendInOrder ==
  ASSUME NEW l \in Seq(Entry), NEW e \in Entry, NEW t \in Times, InOrderBy(l, t), t <= e.at
  PROVE  InOrderBy(Append(l, e), e.at)
<1> DEFINE m == Append(l, e)
           n == Len(l)
<1>1. n \in Nat /\ DOMAIN l = 1..n /\ DOMAIN m = 1..(n + 1)
  OBVIOUS
<1>2. m[n + 1] = e /\ \A i \in 1..n : m[i] = l[i]
  OBVIOUS
<1>3. e.at \in Nat /\ t \in Nat
  BY TimesAssumption DEF Entry
<1>4. \A i \in 1..n : l[i].at \in Nat /\ l[i].at <= t
  <2>1. \A i \in 1..n : l[i] \in Entry
    BY <1>1
  <2>2. \A i \in 1..n : l[i].at \in Times
    BY <2>1 DEF Entry
  <2> QED BY <1>1, <2>2, TimesAssumption DEF InOrderBy
<1> HIDE DEF m
<1>5. ASSUME NEW i \in 1..(n + 1), NEW j \in 1..(n + 1)
      PROVE  m[i].at <= e.at /\ (i < j => m[i].at <= m[j].at)
  <2>1. CASE i = n + 1
    BY <1>1, <1>2, <1>3, <2>1
  <2>2. CASE i # n + 1
    <3>1. i \in 1..n /\ m[i].at = l[i].at
      BY <1>1, <1>2, <2>2
    <3>2. l[i].at <= e.at
      BY <1>3, <1>4, <3>1
    <3>3. CASE j = n + 1
      BY <1>2, <3>1, <3>2, <3>3
    <3>4. CASE j # n + 1
      <4>1. j \in 1..n /\ m[j].at = l[j].at
        BY <1>1, <1>2, <3>4
      <4> QED BY <1>1, <3>1, <3>2, <4>1 DEF InOrderBy
    <3> QED BY <3>3, <3>4
  <2> QED BY <2>1, <2>2
<1>6. InOrderBy(m, e.at)
  BY <1>1, <1>5 DEF InOrderBy
<1> QED BY <1>6 DEF m

\* No entry of a wallet is younger than the wallet.
EntriesPrecedeWallets ==
  \A w \in Wallets : wallet[w] # NONE => InOrderBy(ledger[w], wallet[w].updatedAt)

\* A wallet moves forwards in time, whoever's clock it is.
LEMMA OrderKept ==
  ASSUME BooksInv, EntriesPrecedeWallets, [Next]_vars
  PROVE  EntriesPrecedeWallets'
<1> SUFFICES ASSUME NEW w \in Wallets, wallet'[w] # NONE
             PROVE  InOrderBy(ledger[w], wallet[w].updatedAt)'
  BY DEF EntriesPrecedeWallets
<1>1. TypeOK /\ ledger[w] \in Seq(Entry)
  BY DEF BooksInv, TypeOK, TablesOK
<1>2. CASE wallet'[w] = wallet[w] /\ ledger'[w] = ledger[w]
  BY <1>2 DEF EntriesPrecedeWallets, InOrderBy
<1>3. ASSUME NEW o \in Openings, Opens(o), w = o.wallet
      PROVE  InOrderBy(ledger[w], wallet[w].updatedAt)'
  <2>1. PICK now \in Times :
          /\ wallet'[o.wallet] \in WalletRow /\ wallet'[o.wallet].updatedAt = now
          /\ \/ UNCHANGED <<txn, ledger>>
             \/ \E id \in TxIds \ Rows : ledger'[o.wallet] = <<OpeningEntry(o, id, now)>>
    BY <1>3, OpenBooks
  <2>2. CASE ledger'[w] = <<>>
    BY <2>2 DEF InOrderBy
  <2>3. ASSUME NEW id, ledger'[w] = <<OpeningEntry(o, id, now)>>
        PROVE  InOrderBy(ledger[w], wallet[w].updatedAt)'
    <3>1. OpeningEntry(o, id, now).at = now /\ now <= now
      BY TimesAssumption DEF OpeningEntry
    <3> QED BY <1>3, <2>1, <2>3, <3>1 DEF InOrderBy
  <2> QED BY <1>3, <2>1, <2>2, <2>3, OpenBooks
<1>4. ASSUME NEW s \in Sessions, Commits(s), w = job[s].op.wallet,
             plan[s].decision.direction # ""
      PROVE  InOrderBy(ledger[w], wallet[w].updatedAt)'
  <2> DEFINE d == plan[s].decision
             e == EntryOf(IdFor(s), job[s].op, d)
  <2>1. /\ e \in Entry /\ wallet'[w] = d.wallet /\ wallet[w] \in WalletRow
        /\ MovedTo(d.wallet, wallet[w], d.wallet.balance.minor)
        /\ ledger'[w] = Append(ledger[w], e)
    BY <1>4, CommitBooks
  <2>2. e.at = d.wallet.updatedAt
    BY DEF EntryOf
  <2> HIDE DEF e
  <2>3. wallet[w].updatedAt \in Times /\ wallet[w].updatedAt <= e.at
    <3>1. wallet[w].updatedAt \in Times /\ d.wallet.updatedAt \in Times
      BY <2>1 DEF MovedTo, WalletRow
    <3> QED BY <2>1, <2>2, <3>1, TimesAssumption DEF MovedTo
  <2>4. InOrderBy(ledger[w], wallet[w].updatedAt)
    BY <2>1, NoneIsNoRowAssumption DEF EntriesPrecedeWallets
  <2>5. InOrderBy(Append(ledger[w], e), e.at)
    BY <1>1, <2>1, <2>3, <2>4, AppendInOrder
  <2> QED BY <2>1, <2>2, <2>5
<1>5. ASSUME NEW o \in Openings, Opens(o), w # o.wallet
      PROVE  wallet'[w] = wallet[w] /\ ledger'[w] = ledger[w]
  BY <1>5, OpenBooks
<1>6. ASSUME NEW s \in Sessions, Finishes(s)
      PROVE  InOrderBy(ledger[w], wallet[w].updatedAt)'
  BY <1>2, <1>4, <1>6, CommitBooks DEF Finishes
<1>7. CASE UNCHANGED tables
  BY <1>2, <1>7 DEF tables
<1> QED BY <1>1, <1>2, <1>3, <1>5, <1>6, <1>7, WhoWrites

\* Entries are in the order of their timestamps, because a wallet refuses a movement
\* dated before its last (wallet.go:50, 72), although each machine has a clock of its own.
THEOREM TimeRunsForwards == Spec => []LedgerIsInOrderOfTime
<1>1. Init => EntriesPrecedeWallets
  BY DEF Init, EntriesPrecedeWallets
<1>2. BooksInv /\ EntriesPrecedeWallets => LedgerIsInOrderOfTime
  <2> SUFFICES ASSUME BooksInv, EntriesPrecedeWallets, NEW w \in Wallets
               PROVE  \A i, j \in DOMAIN ledger[w] : i < j => ledger[w][i].at <= ledger[w][j].at
    BY DEF LedgerIsInOrderOfTime
  <2>1. CASE wallet[w] = NONE
    <3>1. ledger[w] = <<>>
      BY <2>1 DEF BooksInv, Reconciled
    <3> QED BY <3>1
  <2>2. CASE wallet[w] # NONE
    BY <2>2 DEF EntriesPrecedeWallets, InOrderBy
  <2> QED BY <2>1, <2>2
<1> QED BY <1>1, <1>2, OrderKept, BooksHold, PTL DEF Spec

-----------------------------------------------------------------------------
\* What a decision says of the operation it is about.

\* Money moves for what is processed and is no loss, on the side TakesMoney says; a
\* rejection or failure has its reason, and nothing else has one; a reversal is processed
\* only if the reference it was shown is accepted, and is then named; and only what is
\* processed names one.
Judges(d, op, r) ==
  /\ d.status \in {"PENDING_REFERENCE"} \cup Terminal
  /\ d.direction # "" <=> (d.status = "PROCESSED" /\ op.kind # "LOSS")
  /\ d.direction # "" => d.direction = IF TakesMoney(op, r) THEN "DEBIT" ELSE "CREDIT"
  /\ d.failure # "" <=> d.status \in {"REJECTED", "FAILED"}
  /\ d.refTx # NONE => d.status = "PROCESSED"
  /\ d.status = "PROCESSED" /\ op.kind \in Reversals =>
       r # NONE /\ AcceptsReference(op, r) /\ d.refTx = r.id

\* Rejecting judges, whatever the reference.
LEMMA RejectJudges ==
  ASSUME NEW op \in Operation, NEW w \in WalletRow, NEW r, NEW code \in Codes
  PROVE  Judges(Reject(w, code), op, r)
<1>1. /\ Reject(w, code).status = "REJECTED" /\ Reject(w, code).failure = code
      /\ Reject(w, code).direction = "" /\ Reject(w, code).refTx = NONE
  BY DEF Reject, Keeps
<1>2. code # ""
  BY DEF Codes
<1> QED BY <1>1, <1>2 DEF Judges, Terminal

\* MoveMoney judges whatever has come as far as that.
LEMMA MoveMoneyJudges ==
  ASSUME NEW op \in Operation, op.kind # "LOSS", NEW w \in WalletRow,
         NEW r \in Reference \cup {NONE}, NEW now \in Times,
         op.kind \in Reversals => r # NONE /\ AcceptsReference(op, r)
  PROVE  Judges(MoveMoney(op, w, r, now), op, r)
<1> DEFINE debit == TakesMoney(op, r)
           moved == IF debit THEN Debit(w, op.money, now) ELSE Credit(w, op.money, now)
           target == IF r = NONE THEN NONE ELSE r.id
           direction == IF debit THEN "DEBIT" ELSE "CREDIT"
           d == MoveMoney(op, w, r, now)
<1>1. CASE moved.err = ""
  <2>1. /\ d.status = "PROCESSED" /\ d.failure = "" /\ d.refTx = target
        /\ d.direction = direction
    <3>1. d = [status |-> "PROCESSED", failure |-> "", refTx |-> target,
               direction |-> direction, before |-> w.balance.minor, wallet |-> moved.wallet]
      BY <1>1 DEF MoveMoney
    <3> HIDE DEF d, target, direction, moved
    <3> QED BY <3>1
  <2>2. direction # ""
    OBVIOUS
  <2> HIDE DEF d
  <2>3. Judges(d, op, r)
    BY <2>1, <2>2 DEF Judges, Terminal
  <2> QED BY <2>3 DEF d
<1>2. CASE moved.err # ""
  <2>1. d = Reject(w, "AMOUNT_OVERFLOW") \/ d = Reject(w, InsufficientCode(op))
    BY <1>2 DEF MoveMoney
  <2>2. InsufficientCode(op) \in Codes /\ "AMOUNT_OVERFLOW" \in Codes
    BY DEF InsufficientCode, Codes
  <2> HIDE DEF d
  <2> QED BY <2>1, <2>2, RejectJudges DEF d
<1> QED BY <1>1, <1>2

\* Decide, case by case (wager.go:138).
LEMMA DecideJudges ==
  ASSUME NEW op \in Operation, NEW w \in WalletRow,
         NEW r \in Reference \cup {NONE}, NEW now \in Times
  PROVE  Judges(Decide(op, w, r, now), op, r)
<1> DEFINE d == Decide(op, w, r, now)
<1>1. CASE d = Reject(w, "WALLET_MISMATCH") \/ d = Reject(w, "INVALID_REFERENCE")
  <2>1. {"WALLET_MISMATCH", "INVALID_REFERENCE"} \subseteq Codes
    BY DEF Codes
  <2> HIDE DEF d
  <2> QED BY <1>1, <2>1, RejectJudges DEF d
<1>2. CASE d = Keeps(w, "PROCESSED", "") /\ op.kind = "LOSS"
  <2> HIDE DEF d
  <2>1. d.status = "PROCESSED" /\ d.failure = "" /\ d.direction = "" /\ d.refTx = NONE
    BY <1>2 DEF Keeps
  <2>2. Judges(d, op, r)
    BY <1>2, <2>1 DEF Judges, Terminal, Reversals
  <2> QED BY <2>2 DEF d
<1>3. CASE d = Keeps(w, "PENDING_REFERENCE", "")
  <2> HIDE DEF d
  <2>1. d.status = "PENDING_REFERENCE" /\ d.failure = "" /\ d.direction = "" /\ d.refTx = NONE
    BY <1>3 DEF Keeps
  <2>2. Judges(d, op, r)
    BY <2>1 DEF Judges, Terminal
  <2> QED BY <2>2 DEF d
<1>4. CASE /\ d = MoveMoney(op, w, r, now) /\ op.kind # "LOSS"
           /\ NeedsReference(op) => r # NONE /\ AcceptsReference(op, r)
  BY <1>4, MoveMoneyJudges DEF NeedsReference
<1>5. \/ d = Reject(w, "WALLET_MISMATCH") \/ d = Reject(w, "INVALID_REFERENCE")
      \/ d = Keeps(w, "PROCESSED", "") /\ op.kind = "LOSS"
      \/ d = Keeps(w, "PENDING_REFERENCE", "")
      \/ /\ d = MoveMoney(op, w, r, now) /\ op.kind # "LOSS"
         /\ NeedsReference(op) => r # NONE /\ AcceptsReference(op, r)
  BY DEF Decide, Unsettled
<1> QED BY <1>1, <1>2, <1>3, <1>4, <1>5

\* Wager.Fail.
LEMMA FailJudges ==
  ASSUME NEW op \in Operation, NEW w \in WalletRow, NEW r
  PROVE  Judges(Fail(w), op, r)
<1>1. /\ Fail(w).status = "FAILED" /\ Fail(w).failure = "PROCESSING_RETRIES_EXHAUSTED"
      /\ Fail(w).direction = "" /\ Fail(w).refTx = NONE
  BY DEF Fail, Keeps
<1> QED BY <1>1 DEF Judges, Terminal

-----------------------------------------------------------------------------
\* The plan of a session.

\* A plan to write is the decision on what the session has read, on the row it makes.
Decided(t) ==
  pc[t] \in Writing /\ plan[t].action # "replay" =>
    IF job[t].via = "resolve"
    THEN \/ Settles(plan[t], job[t].op, held[t], ref[t], txn[job[t].tx])
         \/ Postpones(plan[t], job[t].op, held[t], ref[t], txn[job[t].tx])
    ELSE RecordsNew(plan[t], job[t].via, job[t].op, held[t], ref[t])

\* Nothing a plan is made from changes before it is written.
LEMMA DecidedKept ==
  ASSUME KnownInv, [Next]_vars, NEW t \in Sessions, Decided(t)
  PROVE  Decided(t)'
<1>1. TypeOK /\ WalletsAreLocked /\ ClaimsAreExclusive
  BY DEF KnownInv, BooksInv
<1>2. CASE Idles(t) /\ pc[t] \in Writing
  <2>1. /\ job'[t] = job[t] /\ held'[t] = held[t] /\ ref'[t] = ref[t] /\ plan'[t] = plan[t]
        /\ pc'[t] = pc[t]
    BY <1>2 DEF Idles
  <2>2. CASE job[t].via = "resolve"
    <3>1. job[t].tx \in Rows /\ txn[job[t].tx].op = job[t].op
      BY <1>1, <1>2, <2>2 DEF TypeOK, SessionOK, Writing
    <3>2. SameRowsOf(job[t].op.wallet)
      BY <1>1, <1>2, HeldRows
    <3>3. txn'[job[t].tx] = txn[job[t].tx]
      BY <3>1, <3>2 DEF SameRowsOf, Rows
    <3> QED BY <2>1, <2>2, <3>3 DEF Decided
  <2>3. CASE job[t].via # "resolve"
    BY <2>1, <2>3 DEF Decided
  <2> QED BY <2>2, <2>3
<1>3. CASE Idles(t) /\ pc[t] \notin Writing
  BY <1>3 DEF Idles, Decided
<1>4. CASE DecidesFirst(t)
  BY <1>4 DEF DecidesFirst, GoesOn, Decided
<1>5. CASE DecidesAgain(t)
  <2>1. txn' = txn /\ job'[t] = job[t] /\ held'[t] = held[t] /\ ref'[t] = ref[t]
    BY <1>5 DEF DecidesAgain, GoesOn, tables
  <2> QED BY <1>5, <2>1 DEF DecidesAgain, Decided
<1>6. CASE Inserts(t)
  <2>1. /\ txn' = txn /\ job'[t] = job[t] /\ held'[t] = held[t] /\ ref'[t] = ref[t]
        /\ plan'[t] = plan[t] /\ pc[t] \in Writing
    BY <1>6 DEF Inserts, GoesOn, tables, Writing
  <2> QED BY <2>1 DEF Decided
<1>7. CASE FindsItself(t)
  BY <1>7 DEF FindsItself, Replay, Decided
<1>8. CASE \/ TakesUp(t) \/ Returns(t) \/ Registers(t) \/ TakesWallet(t) \/ FindsNothing(t)
           \/ MissesReference(t) \/ FindsReference(t) \/ ChecksReversal(t) \/ Finishes(t)
  <2>1. pc'[t] \notin Writing
    BY <1>8 DEF TakesUp, Returns, Registers, TakesWallet, FindsNothing, MissesReference,
       FindsReference, ChecksReversal, Finishes, Commits, GoesOn, Writing
  <2> QED BY <2>1 DEF Decided
<1> QED BY <1>1, <1>2, <1>3, <1>4, <1>5, <1>6, <1>7, <1>8, IdlesOrMoves DEF Moves

\* What is written follows from the decision.
LEMMA PlansJudge ==
  ASSUME KnownInv, NEW t \in Sessions, Decided(t), pc[t] \in Writing,
         plan[t].action # "replay"
  PROVE  LET p == plan[t]
             d == p.decision
             op == job[t].op IN
         /\ Judges(d, op, ref[t])
         /\ op \in Operation /\ p.row.op = op /\ p.row.status = d.status
         /\ p.action = "postpone" => d.status = "PENDING_REFERENCE" /\ job[t].via = "resolve"
         /\ p.action # "postpone" => /\ p.row.refTx = d.refTx /\ p.row.failure = d.failure
                                     /\ p.row.balance = d.wallet.balance.minor
         /\ p.action = "postpone" => p.row.refTx = txn[job[t].tx].refTx
<1> DEFINE p == plan[t]
           d == p.decision
           op == job[t].op
           w == held[t]
           r == ref[t]
<1>1. TypeOK /\ ClaimsAreExclusive /\ KnowsAction(t)
  BY DEF KnownInv, BooksInv, Knows
<1>2. pc[t] # "idle"
  BY DEF Writing
<1>3. op \in Operation /\ w \in WalletRow /\ r \in Reference \cup {NONE} /\ p.row.op = op
  BY <1>1, <1>2, JobOperation DEF TypeOK, SessionOK, SessionsOK
<1>4. CASE RecordsNew(p, job[t].via, op, w, r)
  <2>1. Judges(d, op, r)
    BY <1>3, <1>4, DecideJudges, FailJudges DEF RecordsNew
  <2>2. p.row = RowFrom(op, d) /\ p.action = "insert"
    BY <1>4 DEF RecordsNew
  <2>3. /\ p.row.status = d.status /\ p.row.failure = d.failure /\ p.row.refTx = d.refTx
        /\ p.row.balance = d.wallet.balance.minor
    BY <2>2 DEF RowFrom
  <2> QED BY <1>3, <2>1, <2>2, <2>3
<1>5. CASE Settles(p, op, w, r, txn[job[t].tx])
  <2>1. PICK now \in Times :
          LET e == Decide(op, w, r, now) IN
          d = IF e.status = "PENDING_REFERENCE" THEN Reject(w, "REFERENCE_NOT_FOUND") ELSE e
    BY <1>5 DEF Settles
  <2>2. "REFERENCE_NOT_FOUND" \in Codes
    BY DEF Codes
  <2>3. d = Decide(op, w, r, now) \/ d = Reject(w, "REFERENCE_NOT_FOUND")
    BY <2>1
  <2>4. Judges(d, op, r)
    BY <1>3, <2>2, <2>3, DecideJudges, RejectJudges
  <2> DEFINE n == txn[job[t].tx].attempts
  <2>5. p.row = [RowFrom(op, d) EXCEPT !.attempts = n] /\ p.action = "update"
    BY <1>5 DEF Settles
  <2> HIDE DEF n
  <2>6. /\ p.row.status = d.status /\ p.row.failure = d.failure /\ p.row.refTx = d.refTx
        /\ p.row.balance = d.wallet.balance.minor
    BY <2>5 DEF RowFrom
  <2> QED BY <1>3, <2>4, <2>5, <2>6
<1>6. CASE Postpones(p, op, w, r, txn[job[t].tx]) /\ job[t].via = "resolve"
  <2> DEFINE row == txn[job[t].tx]
             n == row.attempts + 1
  <2>1. Judges(d, op, r)
    BY <1>3, <1>6, DecideJudges DEF Postpones
  <2>2. /\ p.row = [row EXCEPT !.attempts = n] /\ p.action = "postpone"
        /\ d.status = "PENDING_REFERENCE"
    BY <1>6 DEF Postpones
  <2>3. row \in TxnRow /\ row.status = "PENDING_REFERENCE"
    <3>1. job[t].tx \in Pending
      BY <1>1, <1>2, <1>6 DEF ClaimsAreExclusive
    <3> QED BY <1>1, <3>1 DEF Pending, Rows, TypeOK, TablesOK
  <2> HIDE DEF row, n
  <2>4. p.row.status = "PENDING_REFERENCE" /\ p.row.refTx = row.refTx
    BY <2>2, <2>3 DEF TxnRow
  <2> QED BY <1>3, <1>6, <2>1, <2>2, <2>4 DEF row
<1> QED BY <1>4, <1>5, <1>6 DEF Decided

-----------------------------------------------------------------------------
\* Reversals.

\* The referenced transaction as a session has read it is the one its operation names;
\* of its own wallet, it is still as it was read, reversed or not.
KnowsReference(t) ==
  LET op == job[t].op
      r == ref[t] IN
  /\ pc[t] \notin {"reversal", "decide"} \cup Writing => r = NONE
  /\ r # NONE \/ pc[t] = "reversal" =>
       /\ op.ref # NONE
       /\ r.id \in Named(op.provider, op.ref)
       /\ r.kind = txn[r.id].op.kind /\ r.wallet = txn[r.id].op.wallet
       /\ r.player = txn[r.id].op.player /\ r.round = txn[r.id].op.round
       /\ r.money = txn[r.id].op.money
       /\ r.wallet = op.wallet =>
            /\ r.status = txn[r.id].status
            /\ pc[t] # "reversal" => (r.reversed <=> AlreadyReversed(r.id))

\* The processed reversals.
Undoing == {id \in Rows : txn[id].status = "PROCESSED" /\ txn[id].op.kind \in Reversals}

\* row undoes what its reference names.
Undoes(row, undone) ==
  /\ undone.status = "PROCESSED"
  /\ undone.op.provider = row.op.provider /\ undone.op.ext = row.op.ref
  /\ SameRound(row.op, undone.op)
  /\ undone.op.money = row.op.money
  /\ undone.op.kind \in Reversible(row.op.kind)

\* Only what is processed names its reference, and no two reversals the same.
RowsAreSound ==
  /\ \A id \in Rows : txn[id].refTx # NONE => txn[id].status = "PROCESSED"
  /\ \A id \in Undoing : txn[id].refTx \in Rows /\ Undoes(txn[id], txn[txn[id].refTx])
  /\ \A a, b \in Undoing : a # b => txn[a].refTx # txn[b].refTx

\* With KnownInv, inductive.
Sound == RowsAreSound /\ \A t \in Sessions : Decided(t) /\ KnowsReference(t)

\* AlreadyReversed, as a statement about those.
LEMMA ReversedIsUndone ==
  ASSUME NEW id
  PROVE  AlreadyReversed(id) <=> \E r \in Undoing : txn[r].refTx = id
BY DEF AlreadyReversed, Undoing

\* What a plan writes undoes what is processed, and has not been undone.
LEMMA PlanIsSound ==
  ASSUME KnownInv, Sound, NEW t \in Sessions, pc[t] \in Writing, plan[t].action # "replay"
  PROVE  LET row == plan[t].row IN
         /\ row.refTx # NONE => row.status = "PROCESSED"
         /\ row.status = "PROCESSED" /\ row.op.kind \in Reversals =>
              /\ row.refTx \in Rows /\ Undoes(row, txn[row.refTx])
              /\ row.refTx = ref[t].id /\ ref[t].kind = txn[row.refTx].op.kind
              /\ \A other \in Undoing : txn[other].refTx # row.refTx
<1> DEFINE p == plan[t]
           d == p.decision
           op == job[t].op
           row == p.row
           r == ref[t]
<1>1. Decided(t) /\ KnowsReference(t) /\ TypeOK /\ ClaimsAreExclusive
  BY DEF Sound, KnownInv, BooksInv
<1>2. /\ Judges(d, op, r)
      /\ op \in Operation /\ row.op = op /\ row.status = d.status
      /\ p.action = "postpone" => d.status = "PENDING_REFERENCE" /\ job[t].via = "resolve"
      /\ p.action # "postpone" => row.refTx = d.refTx
      /\ p.action = "postpone" => row.refTx = txn[job[t].tx].refTx
  BY <1>1, PlansJudge
<1>3. row.refTx # NONE => row.status = "PROCESSED"
  <2>1. CASE p.action = "postpone"
    <3>1. job[t].tx \in Pending
      BY <1>1, <1>2, <2>1 DEF ClaimsAreExclusive, Writing
    <3> QED BY <1>2, <2>1, <3>1 DEF Pending, Sound, RowsAreSound
  <2>2. CASE p.action # "postpone"
    BY <1>2, <2>2 DEF Judges
  <2> QED BY <2>1, <2>2
<1>4. ASSUME row.status = "PROCESSED", op.kind \in Reversals
      PROVE  /\ row.refTx \in Rows /\ Undoes(row, txn[row.refTx])
             /\ row.refTx = r.id /\ r.kind = txn[row.refTx].op.kind
             /\ \A other \in Undoing : txn[other].refTx # row.refTx
  <2>1. /\ p.action # "postpone" /\ r # NONE /\ row.refTx = r.id
        /\ AcceptsReference(op, r)
    BY <1>2, <1>4 DEF Judges
  <2>2. /\ op.kind # "WIN" /\ op.ref # NONE
        /\ r.status = "PROCESSED" /\ SameRound(op, r) /\ r.money = op.money
        /\ ~r.reversed /\ r.kind \in Reversible(op.kind)
    BY <1>1, <1>4, <2>1 DEF AcceptsReference, Reversals, KnowsReference
  <2>3. /\ r.id \in Named(op.provider, op.ref) /\ r.wallet = op.wallet
        /\ r.kind = txn[r.id].op.kind /\ r.wallet = txn[r.id].op.wallet
        /\ r.player = txn[r.id].op.player /\ r.round = txn[r.id].op.round
        /\ r.money = txn[r.id].op.money
        /\ r.status = txn[r.id].status
    BY <1>1, <2>1, <2>2 DEF KnowsReference, SameRound
  <2>4. ~AlreadyReversed(r.id)
    BY <1>1, <2>1, <2>2, <2>3 DEF KnowsReference, Writing
  <2>5. r.id \in Rows /\ Undoes(row, txn[r.id])
    BY <1>2, <2>2, <2>3 DEF Named, Undoes, SameRound
  <2> QED BY <2>1, <2>3, <2>4, <2>5, ReversedIsUndone
<1> QED BY <1>2, <1>3, <1>4

\* The rows stay sound when one that is sound is put among them.
LEMMA RowsStaySound ==
  ASSUME KnownInv, Sound, [Next]_vars
  PROVE  RowsAreSound'
<1>1. TypeOK /\ ClaimsAreExclusive /\ RowsAreSound /\ BooksInv
  BY DEF KnownInv, BooksInv, Sound
<1>2. \A id \in Rows : /\ id \in Rows' /\ txn'[id].op = txn[id].op
                       /\ txn[id].status \in Terminal => txn'[id] = txn[id]
  BY <1>1, RowsKeepOperations, StepRewritesNothing DEF RewritesNothing
<1>3. \A id \in Undoing : /\ id \in Undoing' /\ txn'[id] = txn[id]
                          /\ txn[id].refTx \in Rows'
                          /\ Undoes(txn'[id], txn'[txn[id].refTx])
  BY <1>1, <1>2 DEF Undoing, RowsAreSound, Terminal, Undoes
<1>4. CASE UNCHANGED tables
  <2>1. Rows' = Rows /\ txn' = txn /\ Undoing' = Undoing
    BY <1>4 DEF tables, Rows, Undoing
  <2> QED BY <1>1, <2>1 DEF RowsAreSound
<1>5. ASSUME NEW new \in TxIds, Rows' = Rows \cup {new},
             \A id \in TxIds \ {new} : txn'[id] = txn[id],
             new \in Rows => new \in Pending,
             txn'[new].refTx # NONE => txn'[new].status = "PROCESSED",
             new \in Undoing' =>
               /\ txn'[new].refTx \in Rows /\ Undoes(txn'[new], txn[txn'[new].refTx])
               /\ \A other \in Undoing : txn[other].refTx # txn'[new].refTx
      PROVE  RowsAreSound'
  <2>1. \A id \in Rows' : id # new => id \in Rows /\ txn'[id] = txn[id]
    BY <1>5 DEF Rows
  <2>2. \A id \in Undoing' : id # new => id \in Undoing
    BY <2>1 DEF Undoing
  <2>3. new \notin Undoing
    BY <1>5 DEF Undoing, Pending
  <2>4. \A id \in Rows' : txn'[id].refTx # NONE => txn'[id].status = "PROCESSED"
    BY <1>1, <1>5, <2>1 DEF RowsAreSound
  <2>5. new \in Undoing' => txn'[new].refTx \in Rows' /\ Undoes(txn'[new], txn'[txn'[new].refTx])
    BY <1>2, <1>5 DEF Undoes, Terminal
  <2>6. \A id \in Undoing' : txn'[id].refTx \in Rows' /\ Undoes(txn'[id], txn'[txn'[id].refTx])
    BY <1>3, <2>2, <2>5
  <2>7. \A a, b \in Undoing' : a # b => txn'[a].refTx # txn'[b].refTx
    BY <1>1, <1>3, <1>5, <2>2 DEF RowsAreSound
  <2> QED BY <2>4, <2>6, <2>7 DEF RowsAreSound
<1>6. ASSUME NEW o \in Openings, Opens(o)
      PROVE  RowsAreSound'
  <2>1. CASE txn' = txn /\ Rows' = Rows
    <3>1. Undoing' = Undoing
      BY <2>1 DEF Undoing
    <3> QED BY <1>1, <2>1, <3>1 DEF RowsAreSound
  <2>2. ASSUME NEW id \in TxIds \ Rows, Rows' = Rows \cup {id}, txn'[id] = OpeningRow(o),
               \A other \in TxIds \ {id} : txn'[other] = txn[other]
        PROVE  RowsAreSound'
    <3>1. OpeningRow(o).refTx = NONE /\ OpeningRow(o).op.kind = "OPENING"
      BY DEF OpeningRow
    <3>2. id \notin Undoing'
      BY <2>2, <3>1 DEF Undoing, Reversals
    <3> QED BY <1>5, <2>2, <3>1, <3>2
  <2> QED BY <1>1, <1>6, <2>1, <2>2, OpenRows
<1>7. ASSUME NEW s \in Sessions, Finishes(s)
      PROVE  RowsAreSound'
  <2>1. Commits(s) /\ pc[s] \in Writing
    BY <1>7 DEF Finishes, Commits, CanCommit, Writing
  <2>2. CASE plan[s].action = "replay"
    <3>1. txn' = txn /\ Rows' = Rows
      BY <1>1, <2>1, <2>2, CommitRows
    <3>2. Undoing' = Undoing
      BY <3>1 DEF Undoing
    <3> QED BY <1>1, <3>1, <3>2 DEF RowsAreSound
  <2>3. CASE plan[s].action # "replay"
    <3> DEFINE id == IdFor(s)
               row == plan[s].row
    <3>1. Puts(s)
      BY <1>1, <2>1, <2>3, CommitRows
    <3>2. /\ row.refTx # NONE => row.status = "PROCESSED"
          /\ row.status = "PROCESSED" /\ row.op.kind \in Reversals =>
               /\ row.refTx \in Rows /\ Undoes(row, txn[row.refTx])
               /\ \A other \in Undoing : txn[other].refTx # row.refTx
      BY <2>1, <2>3, PlanIsSound
    <3>3. /\ id \in TxIds /\ Rows' = Rows \cup {id} /\ txn'[id] = row
          /\ \A other \in TxIds \ {id} : txn'[other] = txn[other]
          /\ id \in Rows => id \in Pending
      BY <3>1 DEF Puts
    <3> HIDE DEF id
    <3>4. id \in Undoing' => row.status = "PROCESSED" /\ row.op.kind \in Reversals
      BY <3>3 DEF Undoing
    <3> QED BY <1>5, <3>2, <3>3, <3>4
  <2> QED BY <2>2, <2>3
<1> QED BY <1>1, <1>4, <1>6, <1>7, WhoWrites

\* While a session has a wallet, nobody else undoes a transaction of it.
LEMMA ReversalsAreHeld ==
  ASSUME KnownInv, Sound, [Next]_vars, NEW t \in Sessions,
         pc[t] \in Reading \cup Writing, Idles(t),
         NEW id \in Rows, txn[id].op.wallet = job[t].op.wallet
  PROVE  AlreadyReversed(id)' <=> AlreadyReversed(id)
<1>1. TypeOK /\ WalletsAreLocked /\ ClaimsAreExclusive /\ RowsAreSound
  BY DEF KnownInv, BooksInv, Sound
<1>2. SameRowsOf(job[t].op.wallet)
  BY <1>1, HeldRows
<1>3. txn'[id].op.wallet = job[t].op.wallet
  BY RowsKeepOperations
<1>4. ASSUME NEW r \in Undoing, txn[r].refTx = id
      PROVE  r \in Undoing' /\ txn'[r] = txn[r]
  <2>1. txn[r].op.wallet = job[t].op.wallet
    BY <1>1, <1>4 DEF RowsAreSound, Undoes, SameRound
  <2> QED BY <1>2, <2>1 DEF SameRowsOf, Undoing, Rows
<1>5. ASSUME NEW r \in Undoing', txn'[r].refTx = id
      PROVE  r \in Undoing /\ txn'[r] = txn[r]
  <2>1. txn'[r].op.wallet = job[t].op.wallet
    BY <1>3, <1>5, RowsStaySound DEF RowsAreSound, Undoes, SameRound
  <2> QED BY <1>2, <2>1 DEF SameRowsOf, Undoing, Rows
<1>6. AlreadyReversed(id)' <=> \E r \in Undoing' : txn'[r].refTx = id
  BY DEF AlreadyReversed, Undoing
<1> QED BY <1>4, <1>5, <1>6, ReversedIsUndone

\* What a session has read of the referenced transaction stays true while it holds the
\* wallet, although nothing locks that transaction.
LEMMA ReferenceKept ==
  ASSUME KnownInv, Sound, [Next]_vars, NEW t \in Sessions
  PROVE  KnowsReference(t)'
<1> DEFINE op == job[t].op
           r == ref[t]
           Late == {"reversal", "decide"} \cup Writing
<1>1. /\ TypeOK /\ WalletsAreLocked /\ ClaimsAreExclusive /\ KnowsReference(t)
      /\ KnowsAction(t)
  BY DEF KnownInv, BooksInv, Sound, Knows
<1>2. CASE Idles(t)
  <2>1. job'[t] = job[t] /\ ref'[t] = r /\ pc'[t] = pc[t]
    BY <1>2 DEF Idles
  <2>2. CASE ~(r # NONE \/ pc[t] = "reversal")
    BY <2>1, <2>2 DEF KnowsReference
  <2>3. CASE r # NONE \/ pc[t] = "reversal"
    <3>1. pc[t] \in Reading \cup Writing
      BY <1>1, <2>3 DEF KnowsReference, Reading
    <3>2. r.id \in Rows /\ r.id \in Named(op.provider, op.ref)
      BY <1>1, <2>3 DEF KnowsReference, Named
    <3>3. r.id \in Rows' /\ txn'[r.id].op = txn[r.id].op
      BY <3>2, RowsKeepOperations
    <3>4. ASSUME r.wallet = op.wallet
          PROVE  /\ txn'[r.id].status = txn[r.id].status
                 /\ AlreadyReversed(ref[t].id)' <=> AlreadyReversed(r.id)
      <4>1. txn[r.id].op.wallet = op.wallet
        BY <1>1, <2>3, <3>4 DEF KnowsReference
      <4>2. txn'[r.id] = txn[r.id]
        BY <1>1, <1>2, <3>1, <3>2, <4>1, HeldRows DEF SameRowsOf, Rows
      <4>3. PICK id \in Rows : id = r.id
        BY <3>2
      <4>4. AlreadyReversed(id)' <=> AlreadyReversed(id)
        BY <1>2, <3>1, <4>1, <4>3, ReversalsAreHeld
      <4>5. AlreadyReversed(ref[t].id)' <=> AlreadyReversed(id)'
        BY <2>1, <4>3 DEF AlreadyReversed
      <4> QED BY <4>2, <4>3, <4>4, <4>5
    <3> QED BY <1>1, <2>1, <2>3, <3>2, <3>3, <3>4 DEF KnowsReference, Named
  <2> QED BY <2>2, <2>3
<1>3. CASE \/ TakesUp(t) \/ Returns(t) \/ Registers(t) \/ TakesWallet(t) \/ Finishes(t)
           \/ FindsNothing(t) \/ FindsItself(t) \/ MissesReference(t)
  <2>1. CASE Returns(t) \/ Finishes(t)
    BY <2>1 DEF Returns, Finishes, Commits, KnowsReference
  <2>2. CASE \/ TakesUp(t) \/ Registers(t) \/ TakesWallet(t) \/ FindsNothing(t)
             \/ FindsItself(t) \/ MissesReference(t)
    <3>1. pc[t] \in {"idle", "inbox", "wallet", "lookup", "reference"} /\ ref'[t] = r
      BY <2>2 DEF TakesUp, Registers, TakesWallet, FindsNothing, FindsItself,
         MissesReference, GoesOn
    <3>2. r = NONE
      BY <1>1, <3>1 DEF KnowsReference, Writing
    <3>3. CASE TakesUp(t) \/ Registers(t) \/ FindsItself(t) \/ MissesReference(t)
      <4>1. pc'[t] \in {"inbox", "wallet", "commit", "decide"}
        BY <3>3 DEF TakesUp, Registers, FindsItself, MissesReference, GoesOn
      <4> QED BY <3>1, <3>2, <4>1 DEF KnowsReference
    <3>4. CASE TakesWallet(t)
      <4>1. pc'[t] \in {"reference", "lookup"}
        BY <3>4 DEF TakesWallet, GoesOn
      <4> QED BY <3>1, <3>2, <4>1 DEF KnowsReference
    <3>5. CASE FindsNothing(t)
      <4>1. pc'[t] \in {"reference", "decide"}
        BY <3>5 DEF FindsNothing, GoesOn
      <4> QED BY <3>1, <3>2, <4>1 DEF KnowsReference
    <3> QED BY <2>2, <3>3, <3>4, <3>5
  <2> QED BY <1>3, <2>1, <2>2
<1>4. CASE FindsReference(t)
  <2>1. PICK id \in Named(op.provider, op.ref) : ref'[t] = ReferenceTo(id)
    BY <1>4 DEF FindsReference
  <2>2. job'[t] = job[t] /\ txn' = txn /\ pc'[t] = "reversal" /\ pc[t] # "idle"
    BY <1>4 DEF FindsReference, GoesOn, tables
  <2>3. Rows' = Rows
    BY <2>2 DEF Rows
  <2>4. op \in Operation /\ txn[id].op.provider = op.provider /\ id \in Rows
    BY <1>1, <2>1, <2>2, JobOperation DEF Named, TypeOK
  <2>5. txn[id].op \in Operation
    BY <1>1, <2>4, RowOperation DEF Operation
  <2>6. op.ref # NONE
    BY <2>1, <2>5, NoneAssumption DEF Named, Operation
  <2>7. /\ ref'[t].id = id /\ ref'[t].kind = txn[id].op.kind
        /\ ref'[t].wallet = txn[id].op.wallet /\ ref'[t].player = txn[id].op.player
        /\ ref'[t].round = txn[id].op.round /\ ref'[t].money = txn[id].op.money
        /\ ref'[t].status = txn[id].status
    BY <2>1 DEF ReferenceTo
  <2> QED BY <2>1, <2>2, <2>3, <2>6, <2>7 DEF KnowsReference, Named
<1>5. CASE ChecksReversal(t)
  <2> DEFINE reversed == AlreadyReversed(r.id)
  <2>1. /\ job'[t] = job[t] /\ txn' = txn /\ pc'[t] = "decide" /\ pc[t] = "reversal"
        /\ ref'[t] = [r EXCEPT !.reversed = reversed]
    BY <1>5 DEF ChecksReversal, GoesOn, tables
  <2>2. r \in Reference
    BY <1>1, <2>1 DEF TypeOK, SessionOK
  <2>3. Rows' = Rows /\ (AlreadyReversed(ref[t].id)' <=> AlreadyReversed(ref'[t].id))
    BY <2>1 DEF Rows, AlreadyReversed
  <2> HIDE DEF reversed
  <2>4. /\ ref'[t].id = r.id /\ ref'[t].kind = r.kind
        /\ ref'[t].wallet = r.wallet /\ ref'[t].player = r.player
        /\ ref'[t].round = r.round /\ ref'[t].money = r.money
        /\ ref'[t].status = r.status /\ ref'[t].reversed = reversed
    BY <2>1, <2>2 DEF Reference
  <2> QED BY <1>1, <2>1, <2>3, <2>4 DEF KnowsReference, Named, reversed
<1>6. CASE DecidesFirst(t) \/ DecidesAgain(t) \/ Inserts(t)
  <2>1. /\ job'[t] = job[t] /\ txn' = txn /\ ref'[t] = ref[t]
        /\ pc'[t] # "reversal" /\ pc[t] # "reversal" /\ pc'[t] \in Writing
    BY <1>6 DEF DecidesFirst, DecidesAgain, Inserts, GoesOn, tables, Writing
  <2>2. Rows' = Rows /\ (AlreadyReversed(ref[t].id)' <=> AlreadyReversed(r.id))
    BY <2>1 DEF Rows, AlreadyReversed
  <2> QED BY <1>1, <2>1, <2>2 DEF KnowsReference, Named
<1> QED BY <1>1, <1>2, <1>3, <1>4, <1>5, <1>6, IdlesOrMoves DEF Moves

-----------------------------------------------------------------------------

\* There is nothing to undo, and nobody has read anything.
LEMMA SoundAtFirst == Init => Sound
<1> SUFFICES ASSUME Init
             PROVE  Sound
  OBVIOUS
<1>1. Rows = {} /\ Undoing = {}
  BY DEF Init, Rows, Undoing
<1>2. \A t \in Sessions : pc[t] = "idle" /\ ref[t] = NONE
  BY DEF Init
<1>3. \A t \in Sessions : Decided(t) /\ KnowsReference(t)
  BY <1>2 DEF Decided, KnowsReference, Writing
<1> QED BY <1>1, <1>3 DEF Sound, RowsAreSound

\* The inductive step.
LEMMA SoundKept == KnownInv /\ Sound /\ [Next]_vars => Sound'
<1> SUFFICES ASSUME KnownInv, Sound, [Next]_vars
             PROVE  Sound'
  OBVIOUS
<1>1. RowsAreSound'
  BY RowsStaySound
<1>2. \A t \in Sessions : Decided(t)' /\ KnowsReference(t)'
  BY DecidedKept, ReferenceKept DEF Sound
<1> QED BY <1>1, <1>2 DEF Sound

\* Plans follow from what their sessions have read, and that is still so when they are
\* written (wager.go:138, store.go:528).
THEOREM ReferencesAreHeld == Spec => [](KnownInv /\ Sound)
BY SessionsKnow, SoundAtFirst, SoundKept, PTL DEF Spec

\* The side of a reversal is the other one.
LEMMA SidesDiffer ==
  ASSUME NEW row, NEW undone, row.op.kind \in Reversals, txn[row.refTx] = undone,
         undone.op.kind \in Reversible(row.op.kind)
  PROVE  Side(undone) # Side(row)
<1>1. CASE row.op.kind = "REFUND"
  <2>1. undone.op.kind = "BET"
    BY <1>1 DEF Reversible
  <2> QED BY <1>1, <2>1 DEF Side
<1>2. CASE row.op.kind = "ROLLBACK"
  <2>1. undone.op.kind \in {"BET", "WIN", "REFUND"}
    BY <1>2 DEF Reversible
  <2>2. Side(row) = IF undone.op.kind = "BET" THEN "CREDIT" ELSE "DEBIT"
    BY <1>2 DEF Side
  <2>3. Side(undone) = IF undone.op.kind = "BET" THEN "DEBIT" ELSE "CREDIT"
    BY <2>1 DEF Side
  <2> QED BY <2>2, <2>3
<1> QED BY <1>1, <1>2 DEF Reversals

\* A refund or rollback undoes a processed transaction of its own wallet, player, round and
\* amount, and no two undo the same one: nothing locks what they refer to, but the lock on
\* the wallet is enough since both belong to it (store.go:471, 520).
THEOREM ReversalsStayUnique == Spec => []ReversalsUndoOnce
<1>1. Sound => ReversalsUndoOnce
  <2> SUFFICES ASSUME Sound, NEW id \in Rows,
                      txn[id].status = "PROCESSED", txn[id].op.kind \in Reversals
               PROVE  LET undone == txn[txn[id].refTx] IN
                      /\ txn[id].refTx \in Rows \ {id}
                      /\ undone.status = "PROCESSED"
                      /\ undone.op.ext = txn[id].op.ref
                      /\ undone.op.kind \in BusinessKinds \ {"LOSS", "ROLLBACK"}
                      /\ \A f \in {"wallet", "player", "round", "money", "provider"} :
                           undone.op[f] = txn[id].op[f]
                      /\ Side(undone) # Side(txn[id])
                      /\ \A other \in Rows \ {id} :
                           txn[other].status = "PROCESSED" /\ txn[other].op.kind \in Reversals =>
                             txn[other].refTx # txn[id].refTx
    BY DEF ReversalsUndoOnce
  <2> DEFINE undone == txn[txn[id].refTx]
  <2>1. id \in Undoing /\ txn[id].refTx \in Rows /\ Undoes(txn[id], undone)
    BY DEF Sound, RowsAreSound, Undoing
  <2>2. undone.op.kind \in Reversible(txn[id].op.kind)
    BY <2>1 DEF Undoes
  <2>3. undone.op.kind # txn[id].op.kind /\ undone.op.kind \in {"BET", "WIN", "REFUND"}
    BY <2>2 DEF Reversible, Reversals
  <2>4. txn[id].refTx # id
    BY <2>3
  <2>5. undone.op.kind \in BusinessKinds \ {"LOSS", "ROLLBACK"}
    BY <2>3 DEF BusinessKinds
  <2>6. \A f \in {"wallet", "player", "round", "money", "provider"} :
          undone.op[f] = txn[id].op[f]
    BY <2>1 DEF Undoes, SameRound
  <2>7. Side(undone) # Side(txn[id])
    BY <2>2, SidesDiffer
  <2>8. \A other \in Rows \ {id} :
          txn[other].status = "PROCESSED" /\ txn[other].op.kind \in Reversals =>
            txn[other].refTx # txn[id].refTx
    BY <2>1 DEF Sound, RowsAreSound, Undoing
  <2> QED BY <2>1, <2>4, <2>5, <2>6, <2>7, <2>8 DEF Undoes
<1> QED BY <1>1, ReferencesAreHeld, PTL

-----------------------------------------------------------------------------
\* The triggers.

\* A decision takes money on the side its row belongs on.
LEMMA SideIsTaken ==
  ASSUME KnownInv, Sound, NEW t \in Sessions, pc[t] \in Writing,
         plan[t].action # "replay", plan[t].decision.direction # ""
  PROVE  LET row == plan[t].row
             undone == txn[row.refTx].op.kind IN
         /\ row.status = "PROCESSED" /\ row.op.kind \in BusinessKinds \ {"LOSS"}
         /\ plan[t].decision.direction =
              IF row.op.kind = "ROLLBACK" THEN IF undone = "BET" THEN "CREDIT" ELSE "DEBIT"
              ELSE IF row.op.kind = "BET" THEN "DEBIT" ELSE "CREDIT"
<1> DEFINE row == plan[t].row
           r == ref[t]
           d == plan[t].decision
           op == job[t].op
<1>1. /\ Judges(d, op, r) /\ op \in Operation /\ row.op = op /\ row.status = d.status
  BY PlansJudge DEF Sound
<1>2. /\ row.status = "PROCESSED" /\ op.kind # "LOSS" /\ op.kind \in BusinessKinds
      /\ d.direction = IF TakesMoney(op, r) THEN "DEBIT" ELSE "CREDIT"
  BY <1>1 DEF Judges, Operation
<1>3. CASE op.kind = "ROLLBACK"
  <2>1. op.kind \in Reversals
    BY <1>3 DEF Reversals
  <2>2. /\ Undoes(row, txn[row.refTx]) /\ r.kind = txn[row.refTx].op.kind
        /\ r # NONE
    BY <1>1, <1>2, <2>1, PlanIsSound DEF Judges
  <2>3. r.kind \in {"BET", "WIN", "REFUND"}
    BY <1>1, <1>3, <2>2 DEF Undoes, Reversible
  <2> QED BY <1>1, <1>2, <1>3, <2>2, <2>3 DEF TakesMoney
<1>4. CASE op.kind # "ROLLBACK"
  BY <1>1, <1>2, <1>4 DEF TakesMoney
<1> QED BY <1>1, <1>2, <1>3, <1>4

\* What a session is about to commit satisfies the deferred triggers of migrations 2
\* and 3 and the unique index on reversals, as the tables stand at that moment.
THEOREM TriggersAgree == Spec => []TriggersStaySilent
<1>1. KnownInv /\ Sound => TriggersStaySilent
  <2> SUFFICES ASSUME KnownInv, Sound, NEW s \in Sessions, pc[s] = "commit"
               PROVE  LET p == plan[s]
                          d == p.decision
                          old == wallet[job[s].op.wallet]
                          side == IF p.row.op.kind = "ROLLBACK"
                                  THEN IF txn[p.row.refTx].op.kind = "BET" THEN "CREDIT" ELSE "DEBIT"
                                  ELSE IF p.row.op.kind = "BET" THEN "DEBIT" ELSE "CREDIT" IN
                      /\ d.direction # "" =>
                           /\ d.wallet.version = old.version + 1
                           /\ d.wallet.balance.minor # old.balance.minor
                           /\ d.before = old.balance.minor
                           /\ d.wallet.player = old.player
                           /\ d.wallet.balance.currency = old.balance.currency
                           /\ p.row.status = "PROCESSED"
                           /\ d.direction = side
                      /\ p.action \in {"update", "postpone"} =>
                           /\ txn[p.tx].status \notin Terminal
                           /\ txn[p.tx].op = p.row.op
                      /\ p.action \in {"insert", "update"} /\ p.row.op.kind \in Reversals =>
                           \A r \in Rows :
                             txn[r].status = "PROCESSED" /\ txn[r].op.kind \in Reversals =>
                               p.row.refTx \notin {txn[r].refTx} \ {NONE}
    BY DEF TriggersStaySilent
  <2> DEFINE p == plan[s]
             d == p.decision
             op == job[s].op
             w == held[s]
  <2>1. /\ TypeOK /\ ClaimsAreExclusive
        /\ pc[s] \in Writing /\ pc[s] # "idle"
        /\ ValidateOperation(op) /\ Follows(d, w, op.money)
        /\ d.direction # "" => p.action \in {"insert", "update"}
        /\ w = wallet[op.wallet]
    BY DEF KnownInv, BooksInv, DecisionsAreMovements, WalletsAreLocked, Writing
  <2>2. w \in WalletRow /\ op \in Operation /\ p \in Plan
    BY <2>1, JobOperation DEF TypeOK, SessionOK
  <2>3. ASSUME d.direction # ""
        PROVE  /\ d.wallet.version = w.version + 1
               /\ d.wallet.balance.minor # w.balance.minor
               /\ d.before = w.balance.minor
               /\ d.wallet.player = w.player
               /\ d.wallet.balance.currency = w.balance.currency
    <3>1. p.action # "replay"
      BY <2>1, <2>3
    <3>2. p.row.op = op /\ op.kind # "LOSS"
      BY <2>1, <2>3, <3>1, SideIsTaken, PlansJudge DEF Sound
    <3>3. op.money.minor > 0
      BY <2>1, <3>2 DEF ValidateOperation, IsPositive
    <3>4. d.direction \in {"DEBIT", "CREDIT"}
      BY <2>2, <2>3 DEF Plan, Decision
    <3>5. op.money.minor \in Int /\ w.balance.minor \in Int
      BY <2>2 DEF Operation, WalletRow, Money, Int64
    <3>6. /\ d.wallet.version = w.version + 1 /\ d.before = w.balance.minor
          /\ d.wallet.player = w.player
          /\ d.wallet.balance.currency = w.balance.currency
      BY <2>1, <2>3, <3>4 DEF Follows, MovedTo
    <3>7. \/ d.wallet.balance.minor = w.balance.minor + op.money.minor
          \/ d.wallet.balance.minor = w.balance.minor - op.money.minor
      BY <2>1, <3>4 DEF Follows, MovedTo
    <3> HIDE DEF d, w, op
    <3> QED BY <3>3, <3>5, <3>6, <3>7
  <2>4. ASSUME p.action \in {"update", "postpone"}
        PROVE  txn[p.tx].status \notin Terminal /\ txn[p.tx].op = p.row.op
    <3>1. p.tx \in Pending
      BY <2>1, <2>4 DEF ClaimsAreExclusive
    <3> QED BY <2>1, <2>4, <3>1 DEF Pending, Terminal, TypeOK, SessionOK
  <2>5. ASSUME p.action \in {"insert", "update"}, p.row.op.kind \in Reversals,
               NEW r \in Rows, txn[r].status = "PROCESSED", txn[r].op.kind \in Reversals
        PROVE  p.row.refTx \notin {txn[r].refTx} \ {NONE}
    BY <2>1, <2>5, PlanIsSound DEF Undoing
  <2>6. d.direction # "" => p.action # "replay"
    BY <2>1
  <2> QED BY <2>1, <2>3, <2>4, <2>5, <2>6, SideIsTaken
<1> QED BY <1>1, ReferencesAreHeld, PTL

-----------------------------------------------------------------------------
\* Money and transactions.

\* The entries of transaction id in the ledger l.
EntriesOf(l, id) == {i \in DOMAIN l : l[i].tx = id}

\* The ledger l of wallet w has what transaction id calls for, and nothing else of it.
Explains(l, w, id, row, side) ==
  IF row.op.wallet = w /\ row.status = "PROCESSED" /\ row.op.kind # "LOSS"
  THEN \E i \in EntriesOf(l, id) :
         /\ EntriesOf(l, id) = {i}
         /\ l[i].amount = row.op.money.minor
         /\ l[i].after = row.balance
         /\ l[i].direction = side
  ELSE EntriesOf(l, id) = {}

\* MoneyIsExplained, wallet by wallet and row by row.
LEMMA RowByRow ==
  MoneyIsExplained <=>
    /\ \A w \in Wallets, id \in Rows : Explains(ledger[w], w, id, txn[id], Side(txn[id]))
    /\ EntriesNameRows
BY DEF MoneyIsExplained, Explains, EntriesOf, EntriesNameRows

\* An entry is one more for its own transaction and no other.
LEMMA AppendedEntries ==
  ASSUME NEW l \in Seq(Entry), NEW e \in Entry, NEW id \in TxIds
  PROVE  /\ e.tx # id => EntriesOf(Append(l, e), id) = EntriesOf(l, id)
         /\ e.tx = id => EntriesOf(Append(l, e), id) = EntriesOf(l, id) \cup {Len(l) + 1}
<1> DEFINE n == Len(l)
           m == Append(l, e)
<1>1. n \in Nat /\ DOMAIN l = 1..n /\ DOMAIN m = 1..n \cup {n + 1}
  OBVIOUS
<1>2. m[n + 1] = e /\ \A i \in 1..n : m[i] = l[i]
  OBVIOUS
<1> HIDE DEF n, m
<1>3. /\ e.tx # id => EntriesOf(m, id) = EntriesOf(l, id)
      /\ e.tx = id => EntriesOf(m, id) = EntriesOf(l, id) \cup {n + 1}
  BY <1>1, <1>2 DEF EntriesOf
<1> QED BY <1>3 DEF n, m

\* The side of a processed row is settled once and for all.
LEMMA SideKept ==
  ASSUME KnownInv, Sound, [Next]_vars, NEW id \in Rows, txn'[id] = txn[id],
         txn[id].status = "PROCESSED"
  PROVE  Side(txn[id])' = Side(txn[id])
<1>1. CASE txn[id].op.kind = "ROLLBACK"
  <2>1. txn[id].refTx \in Rows
    BY <1>1 DEF Sound, RowsAreSound, Undoing, Reversals
  <2>2. txn'[txn[id].refTx].op = txn[txn[id].refTx].op
    BY <2>1, RowsKeepOperations
  <2> QED BY <1>1, <2>2 DEF Side
<1>2. CASE txn[id].op.kind # "ROLLBACK"
  BY <1>2 DEF Side
<1> QED BY <1>1, <1>2

\* The opening of a wallet comes with its one entry.
LEMMA OpeningExplained ==
  ASSUME KnownInv, Sound, MoneyIsExplained, [Next]_vars, NEW o \in Openings, Opens(o)
  PROVE  MoneyIsExplained'
<1>1. /\ BooksInv /\ TypeOK /\ EntriesNameRows
      /\ \A w \in Wallets, id \in Rows : Explains(ledger[w], w, id, txn[id], Side(txn[id]))
  BY RowByRow DEF KnownInv, BooksInv
<1>2. CASE UNCHANGED <<txn, ledger>>
  <2>1. Rows' = Rows /\ \A id \in Rows : Side(txn[id])' = Side(txn[id])
    BY <1>2 DEF Rows, Side
  <2> QED BY <1>1, <1>2, <2>1 DEF MoneyIsExplained, Explains, EntriesOf, EntriesNameRows
<1>3. ASSUME NEW id \in TxIds \ Rows, NEW now \in Times, OpeningEntry(o, id, now) \in Entry,
             Rows' = Rows \cup {id}, txn'[id] = OpeningRow(o),
             \A other \in TxIds \ {id} : txn'[other] = txn[other],
             ledger'[o.wallet] = <<OpeningEntry(o, id, now)>>
      PROVE  MoneyIsExplained'
  <2> DEFINE e == OpeningEntry(o, id, now)
             row == OpeningRow(o)
  <2>1. /\ o.wallet \in Wallets /\ ledger[o.wallet] = <<>>
        /\ \A w \in Wallets \ {o.wallet} : ledger'[w] = ledger[w]
    BY <1>1, OpenBooks
  <2>2. /\ e.tx = id /\ e.amount = o.money.minor /\ e.after = o.money.minor
        /\ e.direction = "CREDIT"
    BY DEF OpeningEntry
  <2>3. /\ row.op.wallet = o.wallet /\ row.op.kind = "OPENING" /\ row.op.money = o.money
        /\ row.status = "PROCESSED" /\ row.balance = o.money.minor
    BY DEF OpeningRow
  <2>4. Side(txn[id])' = "CREDIT"
    BY <1>3, <2>3 DEF Side
  <2> HIDE DEF e, row
  <2>5. DOMAIN ledger'[o.wallet] = {1} /\ ledger'[o.wallet][1] = e
    BY <1>3 DEF e
  <2>6. ASSUME NEW w \in Wallets, NEW other \in Rows', other # id
        PROVE  Explains(ledger'[w], w, other, txn'[other], Side(txn[other])')
    <3>1. other \in Rows /\ txn'[other] = txn[other]
      BY <1>3, <2>6 DEF Rows
    <3>2. Explains(ledger[w], w, other, txn[other], Side(txn[other]))
      BY <1>1, <3>1
    <3>3. CASE w # o.wallet
      <4>1. ledger'[w] = ledger[w]
        BY <2>1, <3>3
      <4>2. txn[other].status = "PROCESSED" => Side(txn[other])' = Side(txn[other])
        BY <3>1, SideKept
      <4> QED BY <3>1, <3>2, <4>1, <4>2 DEF Explains
    <3>4. CASE w = o.wallet
      <4>1. EntriesOf(ledger[w], other) = {}
        BY <2>1, <3>4 DEF EntriesOf
      <4>2. EntriesOf(ledger'[w], other) = {}
        BY <2>2, <2>5, <2>6, <3>4 DEF EntriesOf
      <4> QED BY <3>1, <3>2, <4>1, <4>2 DEF Explains
    <3> QED BY <3>3, <3>4
  <2>7. ASSUME NEW w \in Wallets
        PROVE  Explains(ledger'[w], w, id, txn'[id], Side(txn[id])')
    <3>1. CASE w # o.wallet
      <4>1. EntriesOf(ledger'[w], id) = {}
        BY <1>1, <1>3, <2>1, <3>1 DEF EntriesNameRows, EntriesOf
      <4> QED BY <1>3, <2>3, <3>1, <4>1 DEF Explains, row
    <3>2. CASE w = o.wallet
      <4>1. EntriesOf(ledger'[w], id) = {1}
        BY <2>2, <2>5, <3>2 DEF EntriesOf
      <4>2. txn'[id] = row
        BY <1>3 DEF row
      <4> QED BY <2>2, <2>3, <2>4, <2>5, <3>2, <4>1, <4>2 DEF Explains
    <3> QED BY <3>1, <3>2
  <2>8. EntriesNameRows'
    BY <1>1, <1>3, <2>1, <2>2, <2>5 DEF EntriesNameRows
  <2>9. \A w \in Wallets, other \in Rows' :
          Explains(ledger'[w], w, other, txn'[other], Side(txn[other])')
    BY <2>6, <2>7
  <2> QED BY <2>8, <2>9 DEF MoneyIsExplained, Explains, EntriesOf, EntriesNameRows
<1> QED BY <1>1, <1>2, <1>3, OpenBooks

\* A commit that processes a transaction adds its entry, and no other commit adds any.
LEMMA CommitExplained ==
  ASSUME KnownInv, Sound, MoneyIsExplained, [Next]_vars, NEW s \in Sessions, Commits(s)
  PROVE  MoneyIsExplained'
<1> DEFINE p == plan[s]
           d == p.decision
           row == p.row
           op == job[s].op
           home == op.wallet
           e == EntryOf(IdFor(s), op, d)
<1>1. /\ BooksInv /\ TypeOK /\ ClaimsAreExclusive /\ EntriesNameRows
      /\ \A w \in Wallets, other \in Rows :
           Explains(ledger[w], w, other, txn[other], Side(txn[other]))
  BY RowByRow DEF KnownInv, BooksInv
<1>2. pc[s] \in Writing
  BY DEF Commits, CanCommit, Writing
<1>0. PICK id \in TxIds : id = IdFor(s)
  BY <1>1, IdForType DEF Commits
<1>3. /\ home \in Wallets
      /\ \A w \in Wallets : d.direction = "" \/ w # home => ledger'[w] = ledger[w]
      /\ d.direction # "" => /\ p.action \in {"insert", "update"}
                             /\ e \in Entry /\ ledger'[home] = Append(ledger[home], e)
  BY <1>1, CommitBooks
<1>4. \A w \in Wallets : ledger[w] \in Seq(Entry)
  BY <1>1 DEF TypeOK, TablesOK
<1>5. /\ e.tx = id /\ e.amount = op.money.minor /\ e.after = d.wallet.balance.minor
      /\ e.direction = d.direction
  BY <1>0 DEF EntryOf
<1>6. CASE p.action = "replay"
  <2>1. txn' = txn /\ Rows' = Rows /\ d.direction = ""
    BY <1>1, <1>3, <1>6, CommitRows
  <2>2. \A w \in Wallets : ledger'[w] = ledger[w]
    BY <1>3, <2>1
  <2>3. ASSUME NEW other \in Rows
        PROVE  Side(txn[other])' = Side(txn[other])
    BY <2>1 DEF Side
  <2>4. EntriesNameRows'
    BY <1>1, <2>1, <2>2 DEF EntriesNameRows
  <2>5. \A w \in Wallets, other \in Rows' :
          Explains(ledger'[w], w, other, txn'[other], Side(txn[other])')
    BY <1>1, <2>1, <2>2, <2>3
  <2> QED BY <2>4, <2>5 DEF MoneyIsExplained, Explains, EntriesOf, EntriesNameRows
<1>7. CASE p.action # "replay"
  <2>1. Puts(s)
    BY <1>1, <1>7, CommitRows
  <2>2. /\ id \in TxIds /\ Rows' = Rows \cup {id} /\ txn'[id] = row
        /\ \A other \in TxIds \ {id} : txn'[other] = txn[other]
        /\ id \in Rows => id \in Pending
        /\ row.op = op
    BY <1>0, <2>1 DEF Puts
  <2>3. /\ Judges(d, op, ref[s]) /\ row.status = d.status
        /\ p.action # "postpone" => row.balance = d.wallet.balance.minor
    BY <1>2, <1>7, PlansJudge DEF Sound
  <2>4. d.direction # "" <=> (row.status = "PROCESSED" /\ row.op.kind # "LOSS")
    BY <2>2, <2>3 DEF Judges
  <2>5. d.direction # "" => Side(txn[id])' = d.direction
    <3> SUFFICES ASSUME d.direction # ""
                 PROVE  Side(txn[id])' = d.direction
      OBVIOUS
    <3>1. /\ row.op.kind \in BusinessKinds \ {"LOSS"} /\ row.status = "PROCESSED"
          /\ d.direction =
               IF row.op.kind = "ROLLBACK"
               THEN IF txn[row.refTx].op.kind = "BET" THEN "CREDIT" ELSE "DEBIT"
               ELSE IF row.op.kind = "BET" THEN "DEBIT" ELSE "CREDIT"
      BY <1>2, <1>7, SideIsTaken
    <3>2. row.op.kind = "ROLLBACK" => txn'[row.refTx].op = txn[row.refTx].op
      BY <1>2, <1>7, <3>1, PlanIsSound, RowsKeepOperations DEF Reversals
    <3>3. Side(txn[id])' =
            IF row.op.kind = "ROLLBACK"
            THEN IF txn'[row.refTx].op.kind = "BET" THEN "CREDIT" ELSE "DEBIT"
            ELSE IF row.op.kind = "BET" THEN "DEBIT" ELSE "CREDIT"
      <4>1. row.op.kind \in {"BET", "WIN", "REFUND", "ROLLBACK"}
        BY <3>1 DEF BusinessKinds
      <4> HIDE DEF row
      <4> QED BY <2>2, <4>1 DEF Side
    <3> QED BY <3>1, <3>2, <3>3
  <2>6. \A w \in Wallets : EntriesOf(ledger[w], id) = {}
    <3>1. CASE id \notin Rows
      BY <1>1, <3>1 DEF EntriesNameRows, EntriesOf
    <3>2. CASE id \in Rows
      <4>1. txn[id].status = "PENDING_REFERENCE" /\ id \in Rows
        BY <2>2, <3>2 DEF Pending
      <4> QED BY <1>1, <4>1 DEF Explains
    <3> QED BY <3>1, <3>2
  <2> HIDE DEF row, e, d, op
  <2>7. ASSUME NEW w \in Wallets, NEW other \in Rows', other # id
        PROVE  Explains(ledger'[w], w, other, txn'[other], Side(txn[other])')
    <3>1. other \in Rows /\ txn'[other] = txn[other]
      BY <2>2, <2>7 DEF Rows
    <3>2. Explains(ledger[w], w, other, txn[other], Side(txn[other]))
      BY <1>1, <3>1
    <3>3. Explains(ledger'[w], w, other, txn[other], Side(txn[other]))
      <4>1. CASE d.direction = "" \/ w # home
        BY <1>3, <3>2, <4>1
      <4>2. CASE d.direction # "" /\ w = home
        <5>1. ledger'[w] = Append(ledger[w], e) /\ e \in Entry /\ e.tx # other
          BY <1>3, <1>5, <2>7, <4>2
        <5>2. ledger[w] \in Seq(Entry) /\ other \in TxIds
          BY <1>4, <3>1 DEF Rows
        <5>3. EntriesOf(ledger'[w], other) = EntriesOf(ledger[w], other)
          BY <5>1, <5>2, AppendedEntries
        <5>4. \A i \in EntriesOf(ledger[w], other) : ledger'[w][i] = ledger[w][i]
          BY <5>1, <5>2 DEF EntriesOf
        <5> QED BY <3>2, <5>3, <5>4 DEF Explains
      <4> QED BY <4>1, <4>2
    <3>4. txn[other].status = "PROCESSED" => Side(txn[other])' = Side(txn[other])
      BY <3>1, SideKept
    <3> QED BY <3>1, <3>3, <3>4 DEF Explains
  <2>8. ASSUME NEW w \in Wallets
        PROVE  Explains(ledger'[w], w, id, txn'[id], Side(txn[id])')
    <3>1. CASE d.direction # "" /\ w = home
      <4>1. ledger'[w] = Append(ledger[w], e) /\ e \in Entry
        BY <1>3, <3>1
      <4>2. /\ EntriesOf(ledger'[w], id) = {Len(ledger[w]) + 1}
            /\ ledger'[w][Len(ledger[w]) + 1] = e
        <5>1. ledger[w] \in Seq(Entry) /\ e.tx = id
          BY <1>4, <1>5
        <5>2. EntriesOf(ledger'[w], id) = EntriesOf(ledger[w], id) \cup {Len(ledger[w]) + 1}
          BY <4>1, <5>1, AppendedEntries
        <5>3. ledger'[w][Len(ledger[w]) + 1] = e
          BY <4>1, <5>1
        <5> QED BY <2>6, <5>2, <5>3
      <4>3. /\ e.amount = row.op.money.minor /\ e.after = row.balance
            /\ e.direction = Side(txn[id])'
        BY <1>3, <1>5, <2>2, <2>3, <2>5, <3>1
      <4> QED BY <2>2, <2>4, <3>1, <4>2, <4>3 DEF Explains
    <3>2. CASE d.direction = "" \/ w # home
      <4>1. EntriesOf(ledger'[w], id) = {}
        BY <1>3, <2>6, <3>2
      <4> QED BY <2>2, <2>4, <3>2, <4>1 DEF Explains
    <3> QED BY <3>1, <3>2
  <2>9. EntriesNameRows'
    <3>1. ASSUME NEW w \in Wallets, NEW i \in DOMAIN ledger'[w]
          PROVE  ledger'[w][i].tx \in Rows'
      <4>1. CASE d.direction = "" \/ w # home
        BY <1>1, <1>3, <2>2, <3>1, <4>1 DEF EntriesNameRows
      <4>2. CASE d.direction # "" /\ w = home
        <5>1. ledger'[w] = Append(ledger[w], e) /\ ledger[w] \in Seq(Entry)
          BY <1>3, <1>4, <4>2
        <5>2. \/ i \in DOMAIN ledger[w] /\ ledger'[w][i] = ledger[w][i]
              \/ ledger'[w][i] = e
          BY <3>1, <5>1
        <5> QED BY <1>1, <1>5, <2>2, <5>2 DEF EntriesNameRows
      <4> QED BY <4>1, <4>2
    <3> QED BY <3>1 DEF EntriesNameRows
  <2>10. \A w \in Wallets, other \in Rows' :
           Explains(ledger'[w], w, other, txn'[other], Side(txn[other])')
    BY <2>7, <2>8
  <2> QED BY <2>9, <2>10 DEF MoneyIsExplained, Explains, EntriesOf, EntriesNameRows
<1> QED BY <1>6, <1>7

\* Money moves for processed transactions only, and exactly once for each: whatever races,
\* crashes and repetitions there are, every entry is accounted for by a transaction and
\* every processed transaction but a LOSS by one entry (store.go:554).
THEOREM MoneyStaysExplained == Spec => []MoneyIsExplained
<1>1. Init => MoneyIsExplained
  <2> SUFFICES ASSUME Init
               PROVE  MoneyIsExplained
    OBVIOUS
  <2>1. Rows = {} /\ \A w \in Wallets : ledger[w] = <<>>
    BY DEF Init, Rows
  <2> QED BY <2>1 DEF MoneyIsExplained
<1>2. KnownInv /\ Sound /\ MoneyIsExplained /\ [Next]_vars => MoneyIsExplained'
  <2> SUFFICES ASSUME KnownInv, Sound, MoneyIsExplained, [Next]_vars
               PROVE  MoneyIsExplained'
    OBVIOUS
  <2>1. CASE UNCHANGED tables
    <3>1. Rows' = Rows /\ \A id \in Rows : Side(txn[id])' = Side(txn[id])
      BY <2>1 DEF tables, Rows, Side
    <3> QED BY <2>1, <3>1 DEF tables, MoneyIsExplained
  <2>2. TypeOK
    BY DEF KnownInv, BooksInv
  <2> QED BY <2>1, <2>2, OpeningExplained, CommitExplained, WhoWrites DEF Finishes
<1> QED BY <1>1, <1>2, ReferencesAreHeld, PTL DEF Spec

-----------------------------------------------------------------------------
\* What a session decides from, as it is when it commits.

\* A session has looked for the referenced transaction and found none.
Missed(t) ==
  /\ pc[t] \in {"decide"} \cup Writing /\ ref[t] = NONE
  /\ pc[t] \in Writing => plan[t].action # "replay"

\* A session records what was asked for; there is still no referenced transaction on its
\* wallet if it found none; and one it found is in the status it saw, or was still waiting.
Sees(t) ==
  LET op == job[t].op
      r == ref[t] IN
  /\ pc[t] # "idle" /\ job[t].via # "resolve" => op \in Asked
  /\ Missed(t) => \A id \in Named(op.provider, op.ref) : txn[id].op.wallet # op.wallet
  /\ r # NONE => r.status \in {txn[r.id].status, "PENDING_REFERENCE"}

\* With KnownInv and Sound, inductive.
Seeing ==
  /\ \A id \in Rows : txn[id].status \in {"PENDING_REFERENCE"} \cup Terminal
  /\ \A t \in Sessions : Sees(t)

\* No row is ever written with a status that is neither final nor a wait.
LEMMA StatusesKept ==
  ASSUME KnownInv, Sound, Seeing, [Next]_vars
  PROVE  \A id \in Rows' : txn'[id].status \in {"PENDING_REFERENCE"} \cup Terminal
<1>1. TypeOK /\ ClaimsAreExclusive /\ KnownInv
  BY DEF KnownInv, BooksInv
<1>2. CASE UNCHANGED tables
  BY <1>2 DEF tables, Rows, Seeing
<1>3. ASSUME NEW o \in Openings, Opens(o)
      PROVE  \A id \in Rows' : txn'[id].status \in {"PENDING_REFERENCE"} \cup Terminal
  <2>1. OpeningRow(o).status = "PROCESSED"
    BY DEF OpeningRow
  <2> QED BY <1>1, <1>3, <2>1, OpenRows DEF Seeing, Rows, Terminal
<1>4. ASSUME NEW s \in Sessions, Commits(s)
      PROVE  \A id \in Rows' : txn'[id].status \in {"PENDING_REFERENCE"} \cup Terminal
  <2>1. pc[s] \in Writing
    BY <1>4 DEF Commits, CanCommit, Writing
  <2>2. CASE plan[s].action = "replay"
    BY <1>1, <1>4, <2>2, CommitRows DEF Seeing
  <2>3. CASE plan[s].action # "replay"
    <3>1. Puts(s)
      BY <1>1, <1>4, <2>3, CommitRows
    <3>2. plan[s].row.status \in {"PENDING_REFERENCE"} \cup Terminal
      BY <1>1, <2>1, <2>3, PlansJudge DEF Sound, Judges
    <3> QED BY <3>1, <3>2 DEF Puts, Seeing, Rows
  <2> QED BY <2>2, <2>3
<1> QED BY <1>1, <1>2, <1>3, <1>4, WhoWrites DEF Finishes

\* A session works on what it was asked for.
LEMMA OriginKept ==
  ASSUME KnownInv, [Next]_vars, NEW t \in Sessions,
         pc[t] # "idle" /\ job[t].via # "resolve" => job[t].op \in Asked
  PROVE  (pc[t] # "idle" /\ job[t].via # "resolve" => job[t].op \in Asked)'
<1>1. TypeOK
  BY DEF KnownInv, BooksInv
<1>2. CASE Idles(t)
  BY <1>2 DEF Idles, Asked
<1>3. CASE TakesUp(t)
  <2>1. \/ job'[t].via = "resolve" \/ job'[t].op \in Asked
        \/ job'[t].msg \in Messages /\ job'[t].op = job'[t].msg.op
    BY <1>3 DEF TakesUp
  <2> QED BY <2>1 DEF Asked
<1>4. CASE Returns(t) \/ Finishes(t)
  BY <1>4 DEF Returns, Finishes, Commits
<1>5. CASE Moves(t) /\ ~TakesUp(t) /\ ~Returns(t) /\ ~Finishes(t)
  <2>1. job'[t] = job[t] /\ pc[t] # "idle"
    BY <1>5 DEF Moves, Registers, TakesWallet, FindsNothing, FindsItself, MissesReference,
       FindsReference, ChecksReversal, DecidesFirst, DecidesAgain, Inserts, GoesOn
  <2> QED BY <2>1 DEF Asked
<1> QED BY <1>1, <1>2, <1>3, <1>4, <1>5, IdlesOrMoves

\* Nobody adds a referenced transaction to a wallet another session has.
LEMMA MissKept ==
  ASSUME KnownInv, [Next]_vars, NEW t \in Sessions,
         Missed(t) => \A id \in Named(job[t].op.provider, job[t].op.ref) :
                        txn[id].op.wallet # job[t].op.wallet,
         Missed(t)'
  PROVE  \A id \in Named(job[t].op.provider, job[t].op.ref)' :
           txn'[id].op.wallet # job'[t].op.wallet
<1> DEFINE op == job[t].op
<1>1. /\ TypeOK /\ WalletsAreLocked /\ ClaimsAreExclusive /\ KnowsAction(t)
  BY DEF KnownInv, BooksInv, Knows
<1>2. CASE Idles(t)
  <2>1. /\ job'[t] = job[t] /\ Missed(t) /\ pc[t] \in Reading \cup Writing
    BY <1>2 DEF Missed, Idles, Reading
  <2>2. SameRowsOf(op.wallet)
    BY <1>1, <1>2, <2>1, HeldRows
  <2> QED BY <2>1, <2>2 DEF SameRowsOf, Named, Rows
<1>3. CASE FindsNothing(t)
  <2>1. /\ job'[t] = job[t] /\ Rows' = Rows /\ txn' = txn /\ op.ref = NONE /\ pc[t] # "idle"
    BY <1>3 DEF FindsNothing, GoesOn, tables, Rows, Missed, Writing
  <2>2. op.provider \in Providers
    BY <1>1, <2>1, JobOperation DEF TypeOK, Operation
  <2>3. \A id \in Rows : txn[id].op.provider \in Providers => txn[id].op.ext # NONE
    BY <1>1, RowOperation, NoneAssumption DEF Operation
  <2>4. Named(op.provider, op.ref) = {}
    BY <2>1, <2>2, <2>3 DEF Named
  <2> QED BY <2>1, <2>4 DEF Named
<1>4. CASE MissesReference(t)
  <2>1. job'[t] = job[t] /\ Rows' = Rows /\ txn' = txn /\ Named(op.provider, op.ref) = {}
    BY <1>4 DEF MissesReference, GoesOn, tables, Rows
  <2> QED BY <2>1 DEF Named
<1>5. CASE DecidesFirst(t) \/ DecidesAgain(t) \/ Inserts(t)
  <2>1. job'[t] = job[t] /\ Rows' = Rows /\ txn' = txn /\ ref'[t] = ref[t]
    BY <1>5 DEF DecidesFirst, DecidesAgain, Inserts, GoesOn, tables, Rows
  <2>2. Missed(t)
    <3>1. CASE Inserts(t)
      BY <1>1, <2>1, <3>1 DEF Missed, Inserts, GoesOn, KnowsAction, Writing
    <3>2. CASE DecidesFirst(t) \/ DecidesAgain(t)
      BY <2>1, <3>2 DEF Missed, DecidesFirst, DecidesAgain, GoesOn, Writing
    <3> QED BY <1>5, <3>1, <3>2
  <2> QED BY <2>1, <2>2 DEF Named
<1>6. CASE \/ TakesUp(t) \/ Returns(t) \/ Registers(t) \/ TakesWallet(t) \/ FindsReference(t)
           \/ Finishes(t)
  <2>1. ~Missed(t)'
    BY <1>6 DEF TakesUp, Returns, Registers, TakesWallet, FindsReference, Finishes, Commits,
       GoesOn, Missed, Writing
  <2> QED BY <2>1
<1>7. CASE FindsItself(t)
  <2>1. ~Missed(t)'
    BY <1>7 DEF FindsItself, GoesOn, Replay, Missed, Writing
  <2> QED BY <2>1
<1>8. CASE ChecksReversal(t)
  <2> DEFINE reversed == AlreadyReversed(ref[t].id)
  <2>1. ref[t] \in Reference /\ ref'[t] = [ref[t] EXCEPT !.reversed = reversed]
    BY <1>1, <1>8 DEF ChecksReversal, GoesOn, TypeOK, SessionOK
  <2>2. reversed \in BOOLEAN
    BY DEF AlreadyReversed
  <2> HIDE DEF reversed
  <2>3. ref'[t] \in Reference
    BY <2>1, <2>2 DEF Reference
  <2> QED BY <2>3, NoneIsNoRowAssumption DEF Missed
<1> QED BY <1>1, <1>2, <1>3, <1>4, <1>5, <1>6, <1>7, <1>8, IdlesOrMoves DEF Moves

\* What a session saw of the referenced transaction is its status or an earlier one.
LEMMA SightKept ==
  ASSUME KnownInv, Sound, Seeing, [Next]_vars, NEW t \in Sessions, ref'[t] # NONE
  PROVE  ref'[t].status \in {txn'[ref'[t].id].status, "PENDING_REFERENCE"}
<1>1. TypeOK /\ KnowsReference(t) /\ Sees(t)
  BY DEF KnownInv, BooksInv, Sound, Seeing
<1>2. ASSUME ref[t] # NONE
      PROVE  ref[t].status \in {txn'[ref[t].id].status, "PENDING_REFERENCE"}
  <2>1. /\ ref[t].id \in Rows
        /\ ref[t].status \in {txn[ref[t].id].status, "PENDING_REFERENCE"}
    BY <1>1, <1>2 DEF KnowsReference, Named, Sees
  <2> QED BY <2>1, StepRewritesNothing DEF KnownInv, RewritesNothing, Seeing
<1>3. CASE ref'[t] = ref[t]
  BY <1>2, <1>3
<1>4. CASE FindsReference(t)
  <2>1. PICK id \in Rows : ref'[t] = ReferenceTo(id)
    BY <1>4 DEF FindsReference, Named
  <2>2. txn' = txn /\ ref'[t].id = id /\ ref'[t].status = txn[id].status
    BY <1>4, <2>1 DEF FindsReference, GoesOn, tables, ReferenceTo
  <2> QED BY <2>2
<1>5. CASE ChecksReversal(t)
  <2> DEFINE reversed == AlreadyReversed(ref[t].id)
  <2>1. ref[t] \in Reference /\ ref'[t] = [ref[t] EXCEPT !.reversed = reversed]
    BY <1>1, <1>5 DEF ChecksReversal, GoesOn, TypeOK, SessionOK
  <2> HIDE DEF reversed
  <2>2. ref'[t].id = ref[t].id /\ ref'[t].status = ref[t].status /\ ref[t] # NONE
    BY <2>1, NoneIsNoRowAssumption DEF Reference
  <2> QED BY <1>2, <2>2
<1>6. ref'[t] = NONE \/ ref'[t] = ref[t] \/ FindsReference(t) \/ ChecksReversal(t)
  BY <1>1, IdlesOrMoves DEF Moves, Idles, TakesUp, Returns, Registers, TakesWallet,
     FindsNothing, FindsItself, MissesReference, DecidesFirst, DecidesAgain, Inserts,
     Finishes
<1> QED BY <1>3, <1>4, <1>5, <1>6

\* The inductive step.
LEMMA SeeingKept == KnownInv /\ Sound /\ Seeing /\ [Next]_vars => Seeing'
<1> SUFFICES ASSUME KnownInv, Sound, Seeing, [Next]_vars
             PROVE  Seeing'
  OBVIOUS
<1>1. ASSUME NEW t \in Sessions
      PROVE  Sees(t)'
  <2>1. Sees(t)
    BY DEF Seeing
  <2>2. (pc[t] # "idle" /\ job[t].via # "resolve" => job[t].op \in Asked)'
    BY <2>1, OriginKept DEF Sees
  <2>3. Missed(t)' => \A id \in Named(job[t].op.provider, job[t].op.ref)' :
                        txn'[id].op.wallet # job'[t].op.wallet
    BY <2>1, MissKept DEF Sees
  <2>4. ref'[t] # NONE => ref'[t].status \in {txn'[ref'[t].id].status, "PENDING_REFERENCE"}
    BY SightKept
  <2> QED BY <2>2, <2>3, <2>4 DEF Sees
<1> QED BY <1>1, StatusesKept DEF Seeing

\* At first nobody sees anything.
LEMMA SeeingAtFirst == Init => Seeing
<1> SUFFICES ASSUME Init
             PROVE  Seeing
  OBVIOUS
<1>1. Rows = {} /\ \A t \in Sessions : pc[t] = "idle" /\ ref[t] = NONE
  BY DEF Init, Rows
<1>2. \A t \in Sessions : Sees(t)
  BY <1>1 DEF Sees, Missed, Writing
<1> QED BY <1>1, <1>2 DEF Seeing

-----------------------------------------------------------------------------
\* The store implements the book.

\* The book decides as the store does.
LEMMA SameRules ==
  /\ \A op, w, r, now : Book!Decide(op, w, r, now) = Decide(op, w, r, now)
  /\ \A w : Book!Fail(w) = Fail(w)
  /\ \A w, code : Book!Reject(w, code) = Reject(w, code)
  /\ \A op, d : Book!TransitionAllows(op, d) <=> TransitionAllows(op, d)
  /\ \A op : Book!ValidateOperation(op) <=> ValidateOperation(op)
  /\ Book!Rows = Rows
<1>1. \A w, status, failure : Book!Keeps(w, status, failure) = Keeps(w, status, failure)
  BY DEF Book!Keeps, Keeps
<1>2. \A w, code : Book!Reject(w, code) = Reject(w, code)
  BY <1>1 DEF Book!Reject, Reject
<1>3. \A w : Book!Fail(w) = Fail(w)
  BY <1>1 DEF Book!Fail, Fail
<1>4. \A op, d : Book!TransitionAllows(op, d) <=> TransitionAllows(op, d)
  BY DEF Book!TransitionAllows, TransitionAllows, Book!StateAllows, StateAllows,
     Book!Terminal, Terminal, Book!Statuses, Statuses
<1>5. \A op : Book!ValidateOperation(op) <=> ValidateOperation(op)
  BY DEF Book!ValidateOperation, ValidateOperation, Book!IsPositive, IsPositive,
     Book!IsZero, IsZero, Book!Reversals, Reversals
<1>6. Book!Rows = Rows
  BY DEF Book!Rows, Rows
<1>7. ASSUME NEW m, NEW n
      PROVE  Book!Add(m, n) = Add(m, n) /\ Book!Sub(m, n) = Sub(m, n)
  <2>1. /\ \A x : Book!Wrap(x) = Wrap(x)
        /\ Book!MinInt = MinInt
    BY DEF Book!Wrap, Wrap, Book!MinInt, MinInt
  <2>2. /\ \A x, y : Book!AddOverflows(x, y) <=> AddOverflows(x, y)
        /\ \A x, y : Book!SubOverflows(x, y) <=> SubOverflows(x, y)
    BY <2>1, Zenon DEF Book!AddOverflows, AddOverflows, Book!SubOverflows, SubOverflows
  <2>3. /\ \A e : Book!Err(e) = Err(e)
        /\ \A x : Book!Ok(x) = Ok(x)
        /\ \A c, x : Book!InCurrency(c, x) = InCurrency(c, x)
    BY DEF Book!Err, Err, Book!Ok, Ok, Book!InCurrency, InCurrency
  <2> QED BY <2>1, <2>2, <2>3, Zenon DEF Book!Add, Add, Book!Sub, Sub
<1>8. \A w, next, now : Book!Move(w, next, now) = Move(w, next, now)
  BY DEF Book!Move, Move
<1>9. \A op, r : Book!TakesMoney(op, r) <=> TakesMoney(op, r)
  BY DEF Book!TakesMoney, TakesMoney
<1>10. /\ \A w, amount, now : Book!Credit(w, amount, now) = Credit(w, amount, now)
       /\ \A w, amount, now : Book!Debit(w, amount, now) = Debit(w, amount, now)
  <2>1. \A w, now : Book!CanMove(w, now) <=> CanMove(w, now)
    BY DEF Book!CanMove, CanMove
  <2>2. \A e : Book!Err(e) = Err(e)
    BY DEF Book!Err, Err
  <2> QED BY <1>7, <1>8, <2>1, <2>2, Zenon DEF Book!Credit, Credit, Book!Debit, Debit
<1>11. \A op : Book!InsufficientCode(op) = InsufficientCode(op)
  BY DEF Book!InsufficientCode, InsufficientCode
<1>12. ASSUME NEW op, NEW w, NEW r, NEW now
       PROVE  Book!MoveMoney(op, w, r, now) = MoveMoney(op, w, r, now)
  <2> DEFINE debit == TakesMoney(op, r)
             moved == IF debit THEN Debit(w, op.money, now) ELSE Credit(w, op.money, now)
             code == IF moved.err = "INSUFFICIENT_FUNDS"
                     THEN InsufficientCode(op) ELSE "AMOUNT_OVERFLOW"
             movement == [status |-> "PROCESSED", failure |-> "",
                          refTx |-> IF r = NONE THEN NONE ELSE r.id,
                          direction |-> IF debit THEN "DEBIT" ELSE "CREDIT",
                          before |-> w.balance.minor, wallet |-> moved.wallet]
  <2>1. MoveMoney(op, w, r, now) = IF moved.err = "" THEN movement ELSE Reject(w, code)
    BY DEF MoveMoney
  <2>2. Book!MoveMoney(op, w, r, now) = IF moved.err = "" THEN movement ELSE Reject(w, code)
    BY <1>2, <1>9, <1>10, <1>11 DEF Book!MoveMoney
  <2> HIDE DEF debit, moved, code, movement
  <2> QED BY <2>1, <2>2
<1>13. ASSUME NEW op, NEW w, NEW r, NEW now
       PROVE  Book!Decide(op, w, r, now) = Decide(op, w, r, now)
  <2>1. /\ \A o, v : Book!Mismatches(o, v) <=> Mismatches(o, v)
        /\ \A o : Book!NeedsReference(o) <=> NeedsReference(o)
        /\ \A q : Book!Unsettled(q) <=> Unsettled(q)
    BY DEF Book!Mismatches, Mismatches, Book!NeedsReference, NeedsReference,
       Book!Unsettled, Unsettled, Book!Reversals, Reversals, Book!Terminal, Terminal
  <2>2. \A o, q : Book!AcceptsReference(o, q) <=> AcceptsReference(o, q)
    BY DEF Book!AcceptsReference, AcceptsReference, Book!SameRound, SameRound,
       Book!Reversible, Reversible
  <2> QED BY <1>1, <1>2, <1>12, <2>1, <2>2 DEF Book!Decide, Decide
<1> QED BY <1>2, <1>3, <1>4, <1>5, <1>6, <1>13

\* What a session has read of the reference is a view the book allows.
LEMMA ViewIsAllowed ==
  ASSUME KnownInv, Sound, Seeing, NEW t \in Sessions, pc[t] \in Writing,
         plan[t].action # "replay"
  PROVE  ref[t] \in Book!Views(job[t].op)
<1> DEFINE op == job[t].op
           r == ref[t]
<1>1. /\ TypeOK /\ KnowsReference(t) /\ Sees(t) /\ KnowsAction(t)
      /\ r \in Reference \cup {NONE} /\ Book!Rows = Rows
      /\ Book!Reversals = Reversals
  BY SameRules DEF KnownInv, BooksInv, Sound, Seeing, Knows, TypeOK, SessionsOK,
     Book!Reversals, Reversals
<1>2. \A id : Book!Reversed(id) <=> AlreadyReversed(id)
  BY <1>1 DEF Book!Reversed, AlreadyReversed
<1> DEFINE named == {id \in Rows : /\ op.ref # NONE
                                  /\ txn[id].op.provider = op.provider
                                  /\ txn[id].op.ext = op.ref}
           own == {id \in named : txn[id].op.wallet = op.wallet}
           seen == {Book!ViewOf(id, reversed) : id \in named \ own, reversed \in BOOLEAN}
<1>3. Book!Views(op) =
        {Book!ViewOf(id, Book!Reversed(id)) : id \in own}
        \cup seen \cup {[v EXCEPT !.status = "PENDING_REFERENCE"] : v \in seen}
        \cup (IF own = {} THEN {NONE} ELSE {})
  BY <1>1 DEF Book!Views
<1>4. CASE r = NONE
  <2>1. \A id \in Named(op.provider, op.ref) : txn[id].op.wallet # op.wallet
    BY <1>1, <1>4 DEF Sees, Missed
  <2>2. own = {}
    BY <2>1 DEF Named
  <2> HIDE DEF own, named, seen
  <2> QED BY <1>3, <1>4, <2>2
<1>5. CASE r # NONE
  <2>1. /\ r \in Reference /\ r.id \in named
        /\ r.kind = txn[r.id].op.kind /\ r.wallet = txn[r.id].op.wallet
        /\ r.player = txn[r.id].op.player /\ r.round = txn[r.id].op.round
        /\ r.money = txn[r.id].op.money
        /\ r.status \in {txn[r.id].status, "PENDING_REFERENCE"}
        /\ r.wallet = op.wallet =>
             r.status = txn[r.id].status /\ (r.reversed <=> AlreadyReversed(r.id))
    BY <1>1, <1>5 DEF KnowsReference, Named, Sees, Writing
  <2>2. r = [id |-> r.id, kind |-> r.kind, status |-> r.status, wallet |-> r.wallet,
             player |-> r.player, round |-> r.round, money |-> r.money,
             reversed |-> r.reversed] /\ r.reversed \in BOOLEAN
    BY <2>1 DEF Reference
  <2>3. CASE r.id \in own
    <3>1. r.reversed = Book!Reversed(r.id) /\ r.status = txn[r.id].status
      BY <1>2, <2>1, <2>2, <2>3 DEF Book!Reversed
    <3>2. r = Book!ViewOf(r.id, Book!Reversed(r.id))
      BY <2>1, <2>2, <3>1 DEF Book!ViewOf
    <3> HIDE DEF own, named, seen
    <3> QED BY <1>3, <2>3, <3>2
  <2>4. CASE r.id \notin own
    <3> DEFINE v == Book!ViewOf(r.id, r.reversed)
    <3>1. v \in seen
      BY <2>1, <2>2, <2>4
    <3>2. r = v \/ r = [v EXCEPT !.status = "PENDING_REFERENCE"]
      <4>1. v = [id |-> r.id, kind |-> r.kind, status |-> txn[r.id].status, wallet |-> r.wallet,
                 player |-> r.player, round |-> r.round, money |-> r.money,
                 reversed |-> r.reversed]
        BY <2>1 DEF Book!ViewOf
      <4> HIDE DEF v
      <4>2. CASE r.status = txn[r.id].status
        BY <2>2, <4>1, <4>2
      <4>3. CASE r.status = "PENDING_REFERENCE"
        BY <2>2, <4>1, <4>3
      <4> QED BY <2>1, <4>2, <4>3
    <3> HIDE DEF own, named, seen, v
    <3> QED BY <1>3, <3>1, <3>2
  <2> QED BY <2>3, <2>4
<1> QED BY <1>4, <1>5

-----------------------------------------------------------------------------
\* Every step of the store is a step of the book, or none.

\* A wallet is opened in the book as in the store.
LEMMA OpeningIsBooked ==
  ASSUME TypeOK, NEW o \in Openings, Opens(o)
  PROVE  Book!Open(o)
<1>1. /\ o.money.minor >= 0 /\ wallet[o.wallet] = NONE /\ ~Taken(o)
      /\ o.money.minor \in Int
  <2>1. o.money \in Money
    BY OpeningsAssumption DEF Opening
  <2> QED BY <2>1, Integers64 DEF Opens, OpenWallet, Money
<1>2. \A w \in Wallets : wallet[w] # NONE =>
        wallet[w].player # o.player \/ wallet[w].balance.currency # o.money.currency
  BY <1>1 DEF Taken
<1>3. PICK now \in Times :
        /\ wallet' = [wallet EXCEPT ![o.wallet] =
             [player |-> o.player, balance |-> o.money, version |-> 1, updatedAt |-> now]]
        /\ IF IsZero(o.money) THEN UNCHANGED <<txn, ledger, outbox>>
           ELSE /\ \E free \in TxIds : txn[free] = NONE
                /\ txn' = [txn EXCEPT ![NewTxId] = OpeningRow(o)]
                /\ ledger' = [ledger EXCEPT ![o.wallet] = <<OpeningEntry(o, NewTxId, now)>>]
  BY DEF Opens, OpenWallet, OpeningEntry
<1>4. /\ Book!IsZero(o.money) <=> IsZero(o.money)
      /\ ~IsZero(o.money) => Book!IsPositive(o.money)
      /\ Book!Rows = Rows
  BY <1>1, SameRules DEF Book!IsZero, IsZero, Book!IsPositive
<1>5. CASE IsZero(o.money)
  BY <1>1, <1>2, <1>3, <1>4, <1>5 DEF Book!Open
<1>6. CASE ~IsZero(o.money)
  <2>1. PICK id \in TxIds \ Rows : id = NewTxId
    BY <1>3, <1>6 DEF NewTxId, Rows
  <2>2. /\ txn' = [txn EXCEPT ![id] = OpeningRow(o)]
        /\ ledger' = [ledger EXCEPT ![o.wallet] = <<OpeningEntry(o, id, now)>>]
    BY <1>3, <1>6, <2>1
  <2> QED BY <1>1, <1>2, <1>3, <1>4, <1>6, <2>2 DEF Book!Open, OpeningRow, OpeningEntry
<1> QED BY <1>5, <1>6

\* A commit that inserts or updates enters its decision in the book.
LEMMA DecisionIsEntered ==
  ASSUME KnownInv, NEW s \in Sessions, Commits(s), NEW n,
         plan[s].action \in {"insert", "update"},
         plan[s].row = [op |-> job[s].op, status |-> plan[s].decision.status,
                        failure |-> plan[s].decision.failure,
                        refTx |-> plan[s].decision.refTx,
                        balance |-> plan[s].decision.wallet.balance.minor, attempts |-> n]
  PROVE  Book!Enter(IdFor(s), job[s].op, plan[s].decision, n)
<1> DEFINE op == job[s].op
           d == plan[s].decision
           w == op.wallet
           id == IdFor(s)
           row == plan[s].row
<1>1. pc[s] \in Writing /\ pc[s] # "idle" /\ TypeOK
  BY DEF Commits, CanCommit, Writing, KnownInv, BooksInv
<1>2. /\ op \in Operation /\ held[s] = wallet[w] /\ Follows(d, held[s], op.money)
  BY <1>1, JobOperation
     DEF KnownInv, BooksInv, TypeOK, WalletsAreLocked, DecisionsAreMovements
<1>3. /\ txn' = [txn EXCEPT ![id] = row]
      /\ wallet' = IF d.direction = "" THEN wallet ELSE [wallet EXCEPT ![w] = d.wallet]
      /\ ledger' = IF d.direction = "" THEN ledger
                   ELSE [ledger EXCEPT ![w] = Append(@, EntryOf(id, op, d))]
  BY DEF Commits, Write
<1>4. /\ w \in Wallets /\ wallet \in [Wallets -> WalletRow \cup {NONE}]
  BY <1>1, <1>2 DEF TypeOK, TablesOK, Operation
<1>5. wallet' = [wallet EXCEPT ![w] = d.wallet]
  <2>1. CASE d.direction = ""
    <3>1. d.wallet = wallet[w]
      BY <1>2, <2>1 DEF Follows
    <3> HIDE DEF d, w
    <3> QED BY <1>3, <1>4, <2>1, <3>1
  <2> QED BY <1>3, <2>1
<1>6. ledger' = IF d.direction = "" THEN ledger
               ELSE [ledger EXCEPT ![w] = Append(@,
                      [tx |-> id, direction |-> d.direction, amount |-> op.money.minor,
                       before |-> wallet[w].balance.minor,
                       after |-> d.wallet.balance.minor, version |-> d.wallet.version,
                       at |-> d.wallet.updatedAt])]
  <2>1. d.direction # "" => d.before = wallet[w].balance.minor
    BY <1>2 DEF Follows
  <2> HIDE DEF d, w, op, id
  <2> QED BY <1>3, <2>1 DEF EntryOf
<1> HIDE DEF row
<1>7. txn' = [txn EXCEPT ![id] = [op |-> op, status |-> d.status, failure |-> d.failure,
                refTx |-> d.refTx, balance |-> d.wallet.balance.minor, attempts |-> n]]
  BY <1>3 DEF row
<1> QED BY <1>5, <1>6, <1>7 DEF Book!Enter

\* An operation is recorded in the book as in the store.
LEMMA InsertionIsBooked ==
  ASSUME KnownInv, Sound, Seeing, NEW s \in Sessions, Commits(s), plan[s].action = "insert"
  PROVE  \E op \in Asked : Book!Record(op)
<1> DEFINE op == job[s].op
           d == plan[s].decision
           w == op.wallet
<1>1. pc[s] \in Writing /\ pc[s] = "commit" /\ pc[s] # "idle" /\ TypeOK /\ Knows(s)
  BY DEF Commits, CanCommit, Writing, KnownInv, BooksInv
<1>2. job[s].via # "resolve" /\ op \in Asked
  BY <1>1 DEF Knows, KnowsAction, Seeing, Sees
<1>3. /\ held[s] = wallet[w] /\ held[s] \in WalletRow /\ ValidateOperation(op)
  BY <1>1 DEF KnownInv, BooksInv, TypeOK, SessionOK, WalletsAreLocked, DecisionsAreMovements
<1>4. RecordsNew(plan[s], job[s].via, op, held[s], ref[s])
  BY <1>1, <1>2 DEF Sound, Decided
<1>5. Book!ValidateOperation(op) /\ wallet[w] # NONE
  BY <1>3, SameRules, NoneIsNoRowAssumption
<1>6. ~Book!Recorded(op)
  <2>1. Existing(op) = {} /\ Book!Rows = Rows
    BY <1>1, SameRules DEF Knows, KnowsIdentity
  <2> QED BY <2>1 DEF Book!Recorded, Existing, SameIdentity
<1>7. PICK id \in TxIds \ Rows : id = IdFor(s)
  BY <1>1, IdForType DEF Commits
<1>8. ref[s] \in Book!Views(op)
  BY <1>1, ViewIsAllowed
<1>9. PICK now \in Times :
        d \in {Book!Decide(op, wallet[w], ref[s], now), Book!Fail(wallet[w])}
  BY <1>3, <1>4, SameRules DEF RecordsNew
<1>10. Book!TransitionAllows(op, d)
  BY <1>4, SameRules DEF RecordsNew
<1>11. Book!Enter(id, op, d, 0)
  BY <1>4, <1>7, DecisionIsEntered DEF RecordsNew, RowFrom
<1>12. id \in TxIds \ Book!Rows
  BY <1>7, SameRules
<1> HIDE DEF op, d
<1>13. Book!Record(op)
  BY <1>5, <1>6, <1>8, <1>9, <1>10, <1>11, <1>12 DEF Book!Record, w
<1> QED BY <1>2, <1>13 DEF op

\* A pending row is tried again in the book as in the store.
LEMMA RetryIsBooked ==
  ASSUME KnownInv, Sound, Seeing, NEW s \in Sessions, Commits(s),
         plan[s].action \in {"update", "postpone"}
  PROVE  \E id \in TxIds : Book!Retry(id)
<1> DEFINE op == job[s].op
           p == plan[s]
           d == p.decision
           row == txn[job[s].tx]
           w == op.wallet
<1>1. pc[s] \in Writing /\ pc[s] # "idle" /\ TypeOK /\ ClaimsAreExclusive /\ KnowsAction(s)
  BY DEF Commits, CanCommit, Writing, KnownInv, BooksInv, Knows
<1>2. PICK id \in TxIds : id = IdFor(s)
  BY <1>1, IdForType DEF Commits
<1>3. /\ job[s].via = "resolve" /\ id = job[s].tx /\ id \in Pending
  BY <1>1, <1>2 DEF KnowsAction, ClaimsAreExclusive, IdFor
<1>4. row # NONE /\ row.status = "PENDING_REFERENCE" /\ row.op = op /\ row \in TxnRow
  BY <1>1, <1>3 DEF Pending, Rows, TypeOK, TablesOK, SessionOK
<1>5. held[s] = wallet[w]
  BY <1>1 DEF KnownInv, BooksInv, WalletsAreLocked
<1>6. ref[s] \in Book!Views(op)
  BY <1>1, ViewIsAllowed
<1>7. /\ \A r, now : Book!Decide(op, wallet[w], r, now) = Decide(op, wallet[w], r, now)
      /\ Book!Reject(wallet[w], "REFERENCE_NOT_FOUND")
           = Reject(wallet[w], "REFERENCE_NOT_FOUND")
  BY SameRules
<1>8. CASE Settles(p, op, held[s], ref[s], row)
  <2>1. PICK now \in Times :
          LET e == Decide(op, wallet[w], ref[s], now) IN
          /\ d = IF e.status = "PENDING_REFERENCE"
                 THEN Reject(wallet[w], "REFERENCE_NOT_FOUND") ELSE e
          /\ e.status = "PENDING_REFERENCE" => ~(row.attempts + 1 < MaxAttempts)
    BY <1>5, <1>8 DEF Settles
  <2>2. p.action = "update" /\ p.row = [RowFrom(op, d) EXCEPT !.attempts = row.attempts]
    BY <1>8 DEF Settles
  <2>3. Book!Enter(id, op, d, row.attempts)
    <3> DEFINE n == row.attempts
    <3>1. p.row = [RowFrom(op, d) EXCEPT !.attempts = n]
      BY <2>2
    <3> HIDE DEF n
    <3>2. p.row = [op |-> op, status |-> d.status, failure |-> d.failure, refTx |-> d.refTx,
                   balance |-> d.wallet.balance.minor, attempts |-> n]
      BY <3>1 DEF RowFrom
    <3>3. Book!Enter(id, op, d, n)
      BY <1>2, <2>2, <3>2, DecisionIsEntered
    <3> QED BY <3>3 DEF n
  <2> DEFINE e == Decide(op, wallet[w], ref[s], now)
  <2>4. /\ e = Book!Decide(op, wallet[w], ref[s], now)
        /\ e.status # "PENDING_REFERENCE" => d = e
        /\ e.status = "PENDING_REFERENCE" =>
             /\ d = Book!Reject(wallet[w], "REFERENCE_NOT_FOUND")
             /\ ~(row.attempts + 1 < MaxAttempts)
    BY <1>7, <2>1
  <2> HIDE DEF e, d, op
  <2>5. Book!Retry(id)
    BY <1>3, <1>4, <1>6, <2>3, <2>4 DEF Book!Retry, w
  <2> QED BY <2>5
<1>9. CASE Postpones(p, op, held[s], ref[s], row)
  <2>1. PICK now \in Times : d = Decide(op, wallet[w], ref[s], now)
    BY <1>5, <1>9 DEF Postpones
  <2>2. /\ p.action = "postpone" /\ d.status = "PENDING_REFERENCE"
        /\ row.attempts + 1 < MaxAttempts
        /\ p.row = [row EXCEPT !.attempts = @ + 1]
    BY <1>9 DEF Postpones
  <2>3. d.direction = ""
    BY <1>1, <2>2 DEF KnownInv, BooksInv, DecisionsAreMovements
  <2>4. UNCHANGED <<wallet, ledger>> /\ txn' = [txn EXCEPT ![id] = p.row]
    BY <1>2, <2>2, <2>3 DEF Commits, Write
  <2>5. txn' = [txn EXCEPT ![id].attempts = @ + 1]
    BY <1>1, <1>3, <2>2, <2>4 DEF TypeOK, TablesOK
  <2> DEFINE e == Decide(op, wallet[w], ref[s], now)
  <2>6. /\ e = Book!Decide(op, wallet[w], ref[s], now) /\ e.status = "PENDING_REFERENCE"
    BY <1>7, <2>1, <2>2
  <2> HIDE DEF e, d, op
  <2>7. Book!Retry(id)
    BY <1>3, <1>4, <1>6, <2>2, <2>4, <2>5, <2>6 DEF Book!Retry, w
  <2> QED BY <2>7
<1> QED BY <1>1, <1>3, <1>8, <1>9 DEF Sound, Decided

\* A commit that repeats an answer changes nothing in the book.
LEMMA RepeatIsSilent ==
  ASSUME KnownInv, NEW s \in Sessions, Commits(s), plan[s].action = "replay"
  PROVE  UNCHANGED <<wallet, txn, ledger>>
<1>1. pc[s] \in Writing
  BY DEF Commits, CanCommit, Writing
<1>2. plan[s].decision.direction = ""
  BY <1>1 DEF KnownInv, BooksInv, DecisionsAreMovements
<1> QED BY <1>2 DEF Commits, Write

\* A step of the store is a step of the book or changes nothing in it.
LEMMA StepIsBooked ==
  KnownInv /\ Sound /\ Seeing /\ [Next]_vars => [Book!Next]_(Book!books)
<1> SUFFICES ASSUME KnownInv, Sound, Seeing, [Next]_vars
             PROVE  Book!Next \/ UNCHANGED <<wallet, txn, ledger>>
  BY DEF Book!books
<1>1. TypeOK
  BY DEF KnownInv, BooksInv
<1>2. ASSUME NEW s \in Sessions, Commits(s)
      PROVE  Book!Next \/ UNCHANGED <<wallet, txn, ledger>>
  <2>1. plan[s].action \in {"insert", "update", "postpone", "replay"}
    BY <1>1, <1>2 DEF Commits, CanCommit, TypeOK, SessionOK, Writing, Plan
  <2>2. CASE plan[s].action = "insert"
    BY <1>2, <2>2, InsertionIsBooked DEF Book!Next, Asked
  <2>3. CASE plan[s].action \in {"update", "postpone"}
    BY <1>2, <2>3, RetryIsBooked DEF Book!Next
  <2> QED BY <1>2, <2>1, <2>2, <2>3, RepeatIsSilent
<1>3. ASSUME NEW o \in Openings, Opens(o)
      PROVE  Book!Next
  BY <1>1, <1>3, OpeningIsBooked DEF Book!Next
<1> QED BY <1>1, <1>2, <1>3, WhoWrites DEF Finishes, tables

\* The store implements the book: every behaviour of the sessions, seen through the
\* wallets, the transactions and the ledgers alone, is one in which operations are
\* recorded one at a time, each decided on its wallet as it is (executeTx,
\* ResolvePendingReference and CreateWallet in store.go).
THEOREM StoreImplementsTheBook == Spec => ImplementsWagerBook
<1>1. Init => Book!Init
  BY DEF Init, Book!Init
<1> QED BY <1>1, StepIsBooked, SeeingAtFirst, SeeingKept, ReferencesAreHeld, PTL
        DEF Spec, ImplementsWagerBook, Book!Spec

-----------------------------------------------------------------------------
\* What the outbox tells.

\* The events of transaction id in the outbox o, and those of one type.
Told(o, id) == {i \in DOMAIN o : o[i].tx = id}
ToldAs(o, id, type) == {i \in Told(o, id) : o[i].type = type}

\* The outbox o of a wallet tells of transaction id what its row and the ledger l say.
Announced(o, l, id, row) ==
  /\ \A i, j \in Told(o, id) : o[i].type = o[j].type => i = j
  /\ row.status # "FAILED" <=> ToldAs(o, id, row.status) # {}
  /\ ToldAs(o, id, "BALANCE") # {} <=> EntriesOf(l, id) # {}
  /\ Told(o, id) \subseteq ToldAs(o, id, "BALANCE") \cup ToldAs(o, id, row.status)
                           \cup ToldAs(o, id, "PENDING_REFERENCE")
  /\ \A i \in ToldAs(o, id, "PENDING_REFERENCE"), j \in Told(o, id) : i <= j

\* The balance events of o are those of the ledger l, in the order of their versions.
Matches(o, l) ==
  LET changes == {i \in DOMAIN o : o[i].type = "BALANCE"}
      Tells(i, k) == o[i].version = l[k].version /\ o[i].tx = l[k].tx IN
  /\ \A i \in changes : \E k \in DOMAIN l : Tells(i, k)
  /\ \A k \in DOMAIN l : \E i \in changes : Tells(i, k)
  /\ \A i, j \in changes : i < j => o[i].version < o[j].version

\* Transaction id is announced on its own wallet and on no other.
Tells(w, id) ==
  IF id \notin Rows \/ txn[id].op.wallet # w THEN Told(outbox[w], id) = {}
  ELSE Announced(outbox[w], ledger[w], id, txn[id])

\* OutboxTellsTheBooks, wallet by wallet and transaction by transaction.
LEMMA WalletByTransaction ==
  OutboxTellsTheBooks <=>
    \A w \in Wallets : Matches(outbox[w], ledger[w]) /\ \A id \in TxIds : Tells(w, id)
BY DEF OutboxTellsTheBooks, Matches, Tells, Told, ToldAs, Announced, EntriesOf

\* m is the outbox o with the events of transaction id, which took status and moved money
\* if moved says so, as version of its wallet.
Grown(m, o, id, status, moved, version) ==
  LET new == DOMAIN m \ DOMAIN o IN
  /\ DOMAIN o \subseteq DOMAIN m
  /\ \A i \in DOMAIN o : m[i] = o[i]
  /\ DOMAIN m \subseteq Int
  /\ \A i \in DOMAIN o, j \in new : i < j
  /\ \A i \in new : /\ m[i].tx = id
                    /\ m[i].type = "BALANCE" \/ (m[i].type = status /\ status # "FAILED")
                    /\ m[i].type = "BALANCE" => m[i].version = version
  /\ \A i, j \in new : m[i].type = m[j].type => i = j
  /\ status # "FAILED" => \E i \in new : m[i].type = status
  /\ moved <=> \E i \in new : m[i].type = "BALANCE"

\* The events of a transaction do not concern another.
LEMMA OthersStayTold ==
  ASSUME NEW m, NEW o, NEW id, NEW status, NEW moved, NEW version,
         Grown(m, o, id, status, moved, version), NEW other, other # id
  PROVE  /\ Told(m, other) = Told(o, other)
         /\ \A i \in Told(o, other) : m[i] = o[i]
BY DEF Grown, Told

\* What is told of a transaction depends on what the outbox has of it.
LEMMA SameAnnouncement ==
  ASSUME NEW m, NEW o, NEW k, NEW l, NEW id, NEW row, NEW status,
         Told(m, id) = Told(o, id), \A i \in Told(o, id) : m[i] = o[i],
         EntriesOf(k, id) = EntriesOf(l, id), Announced(o, l, id, row), row.status = status
  PROVE  \A new : new.status = status => Announced(m, k, id, new)
<1>1. \A type : ToldAs(m, id, type) = ToldAs(o, id, type)
  BY DEF ToldAs
<1> QED BY <1>1 DEF Announced

\* A transaction that is new or was waiting is announced by its events.
LEMMA AnnouncementGrows ==
  ASSUME NEW m, NEW o, NEW l, NEW id, NEW status, NEW moved \in BOOLEAN, NEW version, NEW row,
         Grown(m, o, id, status, moved, version), row.status = status, status # "BALANCE",
         \A i, j \in Told(o, id) : i = j,
         \A i \in Told(o, id) : o[i].type = "PENDING_REFERENCE",
         status = "PENDING_REFERENCE" => Told(o, id) = {} /\ ~moved,
         moved <=> EntriesOf(l, id) # {}
  PROVE  Announced(m, l, id, row)
<1> DEFINE new == DOMAIN m \ DOMAIN o
<1>1. Told(m, id) = Told(o, id) \cup new
  BY DEF Told, Grown
<1>2. \A i \in Told(o, id) : m[i] = o[i] /\ m[i].type = "PENDING_REFERENCE"
  BY DEF Told, Grown
<1>3. \A i \in Told(o, id), j \in new : i < j /\ i \in Int /\ j \in Int
  BY DEF Told, Grown
<1>4. \A i, j \in Told(m, id) : m[i].type = m[j].type => i = j
  BY <1>1, <1>2 DEF Grown
<1>5. row.status # "FAILED" <=> ToldAs(m, id, row.status) # {}
  BY <1>1, <1>2 DEF Grown, ToldAs
<1>6. ToldAs(m, id, "BALANCE") # {} <=> EntriesOf(l, id) # {}
  BY <1>1, <1>2 DEF Grown, ToldAs
<1>7. Told(m, id) \subseteq ToldAs(m, id, "BALANCE") \cup ToldAs(m, id, row.status)
                             \cup ToldAs(m, id, "PENDING_REFERENCE")
  BY <1>1, <1>2 DEF Grown, ToldAs
<1>8. ASSUME NEW i \in ToldAs(m, id, "PENDING_REFERENCE"), NEW j \in Told(m, id)
      PROVE  i <= j
  <2>1. i \in Int /\ j \in Int
    BY DEF ToldAs, Told, Grown
  <2>2. CASE i \in Told(o, id)
    BY <1>1, <1>3, <2>1, <2>2
  <2>3. CASE i \notin Told(o, id)
    <3>1. status = "PENDING_REFERENCE" /\ i \in new
      BY <1>1, <2>3 DEF ToldAs, Grown
    <3>2. j \in new /\ m[j].type = status
      BY <1>1, <3>1 DEF Grown
    <3> QED BY <2>1, <3>1, <3>2 DEF Grown, ToldAs
  <2> QED BY <2>2, <2>3
<1> QED BY <1>4, <1>5, <1>6, <1>7, <1>8 DEF Announced

\* The balance event of an entry that is one version on goes with it.
LEMMA MatchGrows ==
  ASSUME NEW m, NEW o, NEW l \in Seq(Entry), NEW e \in Entry, NEW status,
         Grown(m, o, e.tx, status, TRUE, e.version), status # "BALANCE", Matches(o, l),
         \A k \in DOMAIN l : l[k].version < e.version
  PROVE  Matches(m, Append(l, e))
<1> DEFINE n == Len(l)
           g == Append(l, e)
           new == DOMAIN m \ DOMAIN o
<1>1. /\ DOMAIN l = 1..n /\ n \in Nat /\ DOMAIN g = DOMAIN l \cup {n + 1}
      /\ g[n + 1] = e /\ \A k \in DOMAIN l : g[k] = l[k]
  OBVIOUS
<1> HIDE DEF g, n
<1>2. PICK b \in new : m[b].type = "BALANCE"
  BY DEF Grown
<1>3. /\ m[b].version = e.version /\ m[b].tx = e.tx
      /\ \A i \in DOMAIN m : m[i].type = "BALANCE" => i = b \/ i \in DOMAIN o
  BY <1>2 DEF Grown
<1>4. /\ DOMAIN o \subseteq DOMAIN m /\ \A i \in DOMAIN o : m[i] = o[i] /\ i < b
      /\ DOMAIN m \subseteq Int /\ b \in DOMAIN m
  BY <1>2 DEF Grown
<1>5. \A i \in DOMAIN m : m[i].type = "BALANCE" =>
        \E k \in DOMAIN g : m[i].version = g[k].version /\ m[i].tx = g[k].tx
  <2>1. ASSUME NEW i \in DOMAIN o, o[i].type = "BALANCE"
        PROVE  \E k \in DOMAIN l : o[i].version = l[k].version /\ o[i].tx = l[k].tx
    BY <2>1 DEF Matches
  <2>2. ASSUME NEW i \in DOMAIN o, m[i].type = "BALANCE"
        PROVE  \E k \in DOMAIN g : m[i].version = g[k].version /\ m[i].tx = g[k].tx
    BY <1>1, <1>4, <2>1, <2>2
  <2>3. g[n + 1].version = m[b].version /\ g[n + 1].tx = m[b].tx /\ n + 1 \in DOMAIN g
    BY <1>1, <1>3
  <2> QED BY <1>3, <2>2, <2>3
<1>6. \A k \in DOMAIN g : \E i \in DOMAIN m :
        m[i].type = "BALANCE" /\ m[i].version = g[k].version /\ m[i].tx = g[k].tx
  <2>1. ASSUME NEW k \in DOMAIN l
        PROVE  \E i \in DOMAIN o :
                 o[i].type = "BALANCE" /\ o[i].version = l[k].version /\ o[i].tx = l[k].tx
    BY DEF Matches
  <2>2. ASSUME NEW k \in DOMAIN l
        PROVE  \E i \in DOMAIN m :
                 m[i].type = "BALANCE" /\ m[i].version = g[k].version /\ m[i].tx = g[k].tx
    BY <1>1, <1>4, <2>1, <2>2
  <2>3. /\ m[b].type = "BALANCE" /\ m[b].version = g[n + 1].version /\ m[b].tx = g[n + 1].tx
        /\ b \in DOMAIN m
    BY <1>1, <1>2, <1>3, <1>4
  <2> QED BY <1>1, <2>2, <2>3
<1>7. \A i \in DOMAIN o : o[i].type = "BALANCE" => o[i].version < e.version
  BY DEF Matches
<1>8. ASSUME NEW i \in DOMAIN m, NEW j \in DOMAIN m, m[i].type = "BALANCE",
             m[j].type = "BALANCE", i < j
      PROVE  m[i].version < m[j].version
  <2>1. i \in DOMAIN o
    BY <1>3, <1>4, <1>8
  <2>2. CASE j = b
    BY <1>3, <1>4, <1>7, <1>8, <2>1, <2>2
  <2>3. CASE j \in DOMAIN o
    BY <1>4, <1>8, <2>1, <2>3 DEF Matches
  <2> QED BY <1>3, <1>8, <2>2, <2>3
<1>9. Matches(m, g)
  BY <1>5, <1>6, <1>8 DEF Matches
<1> QED BY <1>9 DEF g

\* Without a balance event there is nothing to match.
LEMMA MatchStays ==
  ASSUME NEW m, NEW o, NEW l, NEW id, NEW status, NEW version,
         Grown(m, o, id, status, FALSE, version), Matches(o, l)
  PROVE  Matches(m, l)
<1>1. \A i \in DOMAIN m : m[i].type = "BALANCE" => i \in DOMAIN o
  BY DEF Grown
<1>2. DOMAIN o \subseteq DOMAIN m /\ \A i \in DOMAIN o : m[i] = o[i]
  BY DEF Grown
<1> QED BY <1>1, <1>2 DEF Matches

-----------------------------------------------------------------------------
\* The events of a step.

\* The version of an entry is one its wallet has had.
VersionsPrecede ==
  \A w \in Wallets : \A k \in DOMAIN ledger[w] :
    wallet[w] # NONE /\ ledger[w][k].version <= wallet[w].version

\* Nothing is told of a wallet before it exists.
SilentBefore == \A w \in Wallets : wallet[w] = NONE => outbox[w] = <<>>

\* What the outbox tells rests on these two and on what the ledger says.
StoryInv == OutboxTellsTheBooks /\ MoneyIsExplained /\ VersionsPrecede /\ SilentBefore

\* The members of a concatenation.
LEMMA Concatenation ==
  ASSUME NEW S, NEW k \in Seq(S), NEW l \in Seq(S)
  PROVE  /\ DOMAIN (k \o l) = 1..(Len(k) + Len(l))
         /\ \A i \in 1..Len(k) : (k \o l)[i] = k[i]
         /\ \A i \in 1..Len(l) : (k \o l)[Len(k) + i] = l[i]
<1>1. DOMAIN (k \o l) = 1..(Len(k) + Len(l))
  OBVIOUS
<1>2. \A i \in 1..Len(k) : (k \o l)[i] = k[i]
  OBVIOUS
<1>3. \A i \in 1..Len(l) : (k \o l)[Len(k) + i] = l[i]
  OBVIOUS
<1> QED BY <1>1, <1>2, <1>3

\* One event that is no balance event.
LEMMA OneEvent ==
  ASSUME NEW o \in Seq(Event), NEW a \in Event, a.type # "BALANCE", a.type # "FAILED",
         NEW version
  PROVE  Grown(o \o <<a>>, o, a.tx, a.type, FALSE, version)
<1> DEFINE n == Len(o)
           m == o \o <<a>>
<1>1. /\ n \in Nat /\ DOMAIN o = 1..n /\ DOMAIN m = 1..(n + 1)
      /\ m[n + 1] = a /\ \A i \in 1..n : m[i] = o[i]
  OBVIOUS
<1> HIDE DEF n, m
<1>2. DOMAIN m \ DOMAIN o = {n + 1}
  BY <1>1
<1>3. Grown(m, o, a.tx, a.type, FALSE, version)
  BY <1>1, <1>2 DEF Grown
<1> QED BY <1>3 DEF m

\* A balance event and the event of the outcome, in either order.
LEMMA TwoEvents ==
  ASSUME NEW o \in Seq(Event), NEW m, NEW a \in Event, NEW b \in Event,
         DOMAIN m = 1..(Len(o) + 2), m[Len(o) + 1] = a, m[Len(o) + 2] = b,
         \A i \in 1..Len(o) : m[i] = o[i], a.tx = b.tx,
         a.type # "FAILED" /\ b.type # "FAILED", NEW version,
         \/ a.type = "BALANCE" /\ b.type # "BALANCE" /\ a.version = version
         \/ b.type = "BALANCE" /\ a.type # "BALANCE" /\ b.version = version
  PROVE  Grown(m, o, a.tx, IF a.type = "BALANCE" THEN b.type ELSE a.type, TRUE, version)
<1> DEFINE n == Len(o)
<1>1. n \in Nat /\ DOMAIN o = 1..n
  OBVIOUS
<1> HIDE DEF n
<1>2. DOMAIN m \ DOMAIN o = {n + 1, n + 2} /\ DOMAIN o \subseteq DOMAIN m
  BY <1>1 DEF n
<1> QED BY <1>1, <1>2 DEF Grown, n

\* No event at all.
LEMMA NoEvent ==
  ASSUME NEW o \in Seq(Event), NEW id, NEW version
  PROVE  Grown(o, o, id, "FAILED", FALSE, version)
BY DEF Grown

\* A pending row is settled for good.
LEMMA SettledIsFinal ==
  ASSUME NEW p, NEW op, NEW w, NEW r, NEW row, Settles(p, op, w, r, row)
  PROVE  p.decision.status # "PENDING_REFERENCE"
<1>1. Reject(w, "REFERENCE_NOT_FOUND").status = "REJECTED"
  BY DEF Reject, Keeps
<1>2. PICK now \in Times :
        LET e == Decide(op, w, r, now) IN
        p.decision = IF e.status = "PENDING_REFERENCE"
                     THEN Reject(w, "REFERENCE_NOT_FOUND") ELSE e
  BY DEF Settles
<1> QED BY <1>1, <1>2

\* A commit tells of its own transaction, on its own wallet: addBalanceEvent and
\* addWagerEvent.
LEMMA CommitTells ==
  ASSUME KnownInv, Sound, NEW s \in Sessions, Commits(s)
  PROVE  LET p == plan[s]
             d == p.decision
             w == job[s].op.wallet IN
         /\ w \in Wallets /\ wallet[w] # NONE /\ wallet'[w] # NONE
         /\ \A v \in Wallets \ {w} : outbox'[v] = outbox[v] /\ wallet'[v] = wallet[v]
         /\ p.action \in {"replay", "postpone"} =>
              d.direction = "" /\ outbox'[w] = outbox[w]
         /\ p.action \in {"insert", "update"} =>
              Grown(outbox'[w], outbox[w], IdFor(s), d.status, d.direction # "",
                    d.wallet.version)
<1> DEFINE p == plan[s]
           d == p.decision
           w == job[s].op.wallet
           o == outbox[w]
<1>1. /\ pc[s] \in Writing /\ pc[s] # "idle" /\ CanCommit(s) /\ TypeOK /\ BooksInv
  BY DEF Commits, CanCommit, Writing, KnownInv, BooksInv
<1>2. /\ job[s].op \in Operation /\ p \in Plan /\ held[s] \in WalletRow /\ held[s] = wallet[w]
      /\ d.direction # "" => p.action \in {"insert", "update"}
  BY <1>1, JobOperation
     DEF BooksInv, TypeOK, SessionOK, WalletsAreLocked, DecisionsAreMovements
<1>3. d \in Decision /\ w \in Wallets /\ wallet[w] # NONE
  BY <1>2, NoneIsNoRowAssumption DEF Plan, Operation
<1>4. PICK id \in TxIds : id = IdFor(s)
  BY <1>1, IdForType
<1>5. /\ o \in Seq(Event) /\ Events(id, p) \in Seq(Event)
      /\ outbox'[w] = o \o Events(id, p)
      /\ \A v \in Wallets \ {w} : outbox'[v] = outbox[v]
  <2>1. outbox' = [outbox EXCEPT ![w] = @ \o Events(id, p)]
    BY <1>4 DEF Commits, Write
  <2>2. Events(id, p) \in Seq(Event)
    BY <1>2, <1>4, EventsType
  <2> HIDE DEF p
  <2> QED BY <1>1, <1>3, <2>1, <2>2 DEF TypeOK, TablesOK
<1>6. wallet'[w] # NONE /\ \A v \in Wallets \ {w} : wallet'[v] = wallet[v]
  <2>1. d.wallet # NONE
    BY <1>3, NoneIsNoRowAssumption DEF Decision
  <2> QED BY <1>1, <1>3, <2>1, CommitBooks
<1>7. CASE p.action \in {"replay", "postpone"}
  <2>1. d.direction = ""
    BY <1>2, <1>7
  <2>0. Events(id, p) = <<>>
    <3>1. Events(id, p) = <<>> \o <<>>
      BY <1>7, <2>1 DEF Events
    <3> HIDE DEF p
    <3> QED BY <3>1
  <2>2. outbox'[w] = o
    <3>1. outbox'[w] = o \o <<>>
      BY <1>5, <2>0
    <3> HIDE DEF o
    <3> QED BY <1>5, <3>1
  <2> QED BY <1>3, <1>5, <1>6, <1>7, <2>1, <2>2
<1>8. CASE p.action \in {"insert", "update"}
  <2>1. Judges(d, job[s].op, ref[s])
    BY <1>1, <1>8, PlansJudge DEF Sound
  <2>2. /\ d.status \in {"PENDING_REFERENCE"} \cup Terminal
        /\ d.direction # "" => d.status = "PROCESSED"
    BY <2>1 DEF Judges
  <2> DEFINE told == WagerEvent(id, d.status)
             moved == BalanceEvent(id, d.wallet.version)
  <2>3. /\ told \in Event /\ told.type = d.status /\ told.tx = id
        /\ moved \in Event /\ moved.type = "BALANCE" /\ moved.tx = id
        /\ moved.version = d.wallet.version
    <3>0. d.wallet.version \in 1..MaxInt
      BY <1>3 DEF Decision, WalletRow
    <3>1. d.wallet.version \in 0..MaxInt /\ 0 \in 0..MaxInt
      <4> HIDE DEF d
      <4> QED BY <3>0, MaxIntAssumption
    <3> QED BY <2>2, <3>1 DEF WagerEvent, BalanceEvent, Event, Statuses
  <2>4. Events(id, p) = (IF d.direction = "" THEN <<>> ELSE <<moved>>)
                        \o (IF d.status # "FAILED" THEN <<told>> ELSE <<>>)
    BY <1>8 DEF Events
  <2> HIDE DEF told, moved, d, o, p
  <2>8. /\ <<>> \o <<>> = <<>> /\ <<>> \o <<told>> = <<told>>
    <3>1. <<>> \o <<>> = <<>>
      OBVIOUS
    <3>2. <<>> \o <<told>> = <<told>>
      <4> DEFINE l == <<told>>
      <4>1. l \in Seq(Event)
        BY <2>3
      <4> HIDE DEF l
      <4>2. <<>> \o l = l
        BY <4>1
      <4> QED BY <4>2 DEF l
    <3> QED BY <3>1, <3>2
  <2>5. CASE d.status = "FAILED"
    <3>1. outbox'[w] = o /\ ~(d.direction # "")
      <4>1. Events(id, p) = <<>>
        BY <2>2, <2>4, <2>5, <2>8
      <4>2. outbox'[w] = o \o <<>>
        BY <1>5, <4>1
      <4>3. outbox'[w] = o
        BY <1>5, <4>2
      <4> QED BY <2>2, <2>5, <4>3
    <3>2. Grown(o, o, id, d.status, FALSE, d.wallet.version)
      BY <1>5, <2>5, NoEvent
    <3>3. (d.direction # "") = FALSE
      BY <3>1
    <3>4. Grown(outbox'[w], o, id, d.status, d.direction # "", d.wallet.version)
      BY <3>1, <3>2, <3>3
    <3> QED BY <1>3, <1>4, <1>5, <1>6, <1>8, <3>4 DEF d, o, p
  <2>6. CASE d.status # "FAILED" /\ d.direction = ""
    <3>1. outbox'[w] = o \o <<told>>
      <4>1. Events(id, p) = <<told>>
        BY <2>4, <2>6, <2>8
      <4> QED BY <1>5, <4>1
    <3>2. d.status # "BALANCE"
      BY <2>2 DEF Terminal
    <3>3. Grown(o \o <<told>>, o, told.tx, told.type, FALSE, d.wallet.version)
      BY <1>5, <2>3, <2>6, <3>2, OneEvent
    <3>4. (d.direction # "") = FALSE
      BY <2>6
    <3>5. Grown(outbox'[w], o, id, d.status, d.direction # "", d.wallet.version)
      BY <2>3, <3>1, <3>3, <3>4
    <3> QED BY <1>3, <1>4, <1>5, <1>6, <1>8, <3>5 DEF d, o, p
  <2>7. CASE d.status # "FAILED" /\ d.direction # ""
    <3> DEFINE l == <<moved>> \o <<told>>
    <3>1. outbox'[w] = o \o l
      <4>1. Events(id, p) = l
        BY <2>4, <2>7
      <4> QED BY <1>5, <4>1
    <3>2. d.status # "BALANCE"
      BY <2>2 DEF Terminal
    <3>3. l \in Seq(Event) /\ Len(l) = 2 /\ l[1] = moved /\ l[2] = told
      <4>1. <<moved>> \in Seq(Event) /\ <<told>> \in Seq(Event)
        BY <2>3
      <4> QED BY <4>1
    <3> DEFINE m == o \o l
    <3>6. /\ DOMAIN m = 1..(Len(o) + 2) /\ \A i \in 1..Len(o) : m[i] = o[i]
          /\ m[Len(o) + 1] = moved /\ m[Len(o) + 2] = told
      <4> HIDE DEF l
      <4>1. /\ DOMAIN m = 1..(Len(o) + Len(l))
            /\ \A i \in 1..Len(o) : m[i] = o[i]
            /\ \A i \in 1..Len(l) : m[Len(o) + i] = l[i]
        <5>1. o \in Seq(Event) /\ l \in Seq(Event)
          BY <1>5, <3>3
        <5> QED BY <5>1, Concatenation
      <4> HIDE DEF m
      <4>2. 1 \in 1..Len(l) /\ 2 \in 1..Len(l)
        BY <3>3
      <4> QED BY <3>3, <4>1, <4>2
    <3> HIDE DEF l, m
    <3>4. Grown(m, o, moved.tx, IF moved.type = "BALANCE" THEN told.type ELSE moved.type,
                TRUE, d.wallet.version)
      BY <1>5, <2>3, <2>7, <3>2, <3>6, TwoEvents
    <3>5. (d.direction # "") = TRUE
      BY <2>7
    <3>7. Grown(outbox'[w], o, id, d.status, d.direction # "", d.wallet.version)
      BY <2>3, <3>1, <3>4, <3>5 DEF m
    <3> QED BY <1>3, <1>4, <1>5, <1>6, <1>8, <3>7 DEF d, o, p
  <2> QED BY <2>5, <2>6, <2>7
<1> QED BY <1>2, <1>7, <1>8 DEF Plan

-----------------------------------------------------------------------------
\* The outbox.

\* A commit leaves the versions of entries below those of their wallets, and the wallets
\* that do not exist silent.
LEMMA CommitKeepsVersions ==
  ASSUME KnownInv, Sound, StoryInv, NEW s \in Sessions, Commits(s)
  PROVE  VersionsPrecede' /\ SilentBefore'
<1> DEFINE d == plan[s].decision
           home == job[s].op.wallet
           e == EntryOf(IdFor(s), job[s].op, d)
<1>1. BooksInv /\ VersionsPrecede /\ SilentBefore
  BY DEF KnownInv, StoryInv
<1>2. /\ home \in Wallets /\ wallet[home] # NONE /\ wallet'[home] # NONE
      /\ \A v \in Wallets \ {home} : outbox'[v] = outbox[v] /\ wallet'[v] = wallet[v]
  BY CommitTells
<1>3. SilentBefore'
  BY <1>1, <1>2 DEF SilentBefore
<1>4. ASSUME NEW w \in Wallets, NEW k \in DOMAIN ledger'[w]
      PROVE  wallet'[w] # NONE /\ ledger'[w][k].version <= wallet'[w].version
  <2>1. CASE d.direction = "" \/ w # home
    <3>1. wallet'[w] = wallet[w] /\ ledger'[w] = ledger[w]
      BY <1>1, <2>1, CommitBooks
    <3> QED BY <1>1, <1>4, <3>1 DEF VersionsPrecede
  <2>2. CASE d.direction # "" /\ w = home
    <3>1. /\ e \in Entry /\ wallet'[w] = d.wallet /\ wallet[w] \in WalletRow
          /\ MovedTo(d.wallet, wallet[w], d.wallet.balance.minor)
          /\ ledger'[w] = Append(ledger[w], e)
      BY <1>1, <2>2, CommitBooks
    <3>2. d.wallet.version = wallet[w].version + 1 /\ wallet[w].version \in Int
          /\ e.version = d.wallet.version
      BY <3>1 DEF MovedTo, WalletRow, EntryOf
    <3>3. ledger[w] \in Seq(Entry) /\ \A i \in DOMAIN ledger[w] : ledger[w][i].version \in Int
      <4>1. ledger[w] \in Seq(Entry)
        BY <1>1 DEF BooksInv, TypeOK, TablesOK
      <4>2. \A i \in DOMAIN ledger[w] : ledger[w][i] \in Entry
        BY <4>1
      <4> QED BY <4>1, <4>2 DEF Entry
    <3> HIDE DEF e, d
    <3>4. \/ k \in DOMAIN ledger[w] /\ ledger'[w][k] = ledger[w][k]
          \/ ledger'[w][k] = e
      BY <1>4, <3>1, <3>3
    <3>5. \A i \in DOMAIN ledger[w] : ledger[w][i].version <= wallet[w].version
      BY <1>1 DEF VersionsPrecede
    <3>6. wallet'[w].version = wallet[w].version + 1
      BY <3>1, <3>2
    <3>7. wallet'[w] # NONE
      BY <1>2, <2>2
    <3>8. ledger'[w][k].version <= wallet'[w].version
      <4> DEFINE old == wallet[w].version
                 new == wallet'[w].version
                 here == ledger'[w][k].version
      <4>1. old \in Int /\ new = old + 1
        BY <3>2, <3>6
      <4>2. (here \in Int /\ here <= old) \/ here = new
        <5>1. CASE k \in DOMAIN ledger[w] /\ ledger'[w][k] = ledger[w][k]
          BY <3>3, <3>5, <5>1
        <5>2. CASE ledger'[w][k] = e
          BY <3>1, <3>2, <5>2
        <5> QED BY <3>4, <5>1, <5>2
      <4> HIDE DEF old, new, here
      <4>3. here <= new
        BY <4>1, <4>2
      <4> QED BY <4>3 DEF here, new
    <3> QED BY <3>7, <3>8
  <2> QED BY <2>1, <2>2
<1>5. VersionsPrecede'
  BY <1>4 DEF VersionsPrecede
<1> QED BY <1>3, <1>5

\* A commit announces what it does.
LEMMA CommitIsTold ==
  ASSUME KnownInv, Sound, StoryInv, [Next]_vars, NEW s \in Sessions, Commits(s),
         MoneyIsExplained'
  PROVE  OutboxTellsTheBooks'
<1> DEFINE p == plan[s]
           d == p.decision
           op == job[s].op
           home == op.wallet
           e == EntryOf(IdFor(s), op, d)
<1>1. /\ BooksInv /\ TypeOK /\ ClaimsAreExclusive /\ VersionsPrecede
      /\ \A w \in Wallets : Matches(outbox[w], ledger[w]) /\ \A id \in TxIds : Tells(w, id)
      /\ \A w \in Wallets, id \in Rows :
           Explains(ledger[w], w, id, txn[id], Side(txn[id]))
  BY WalletByTransaction, RowByRow DEF KnownInv, BooksInv, StoryInv
<1>2. /\ pc[s] \in Writing /\ Decided(s) /\ KnowsAction(s)
      /\ p.action \in {"insert", "update", "postpone", "replay"}
  BY <1>1 DEF Commits, CanCommit, Writing, Sound, KnownInv, Knows, TypeOK, SessionOK, Plan
<1>3. PICK id \in TxIds : id = IdFor(s)
  BY <1>1, IdForType DEF Commits
<1>0. PICK moved \in BOOLEAN : moved = (d.direction # "")
  OBVIOUS
<1>4. /\ home \in Wallets
      /\ \A w \in Wallets \ {home} : outbox'[w] = outbox[w]
      /\ p.action \in {"replay", "postpone"} => d.direction = "" /\ outbox'[home] = outbox[home]
      /\ p.action \in {"insert", "update"} =>
           Grown(outbox'[home], outbox[home], id, d.status, moved, d.wallet.version)
  BY <1>0, <1>3, CommitTells
<1>5. /\ \A w \in Wallets : d.direction = "" \/ w # home => ledger'[w] = ledger[w]
      /\ d.direction # "" =>
           /\ e \in Entry /\ ledger'[home] = Append(ledger[home], e)
           /\ wallet[home] \in WalletRow
           /\ MovedTo(d.wallet, wallet[home], d.wallet.balance.minor)
  BY <1>1, CommitBooks
<1>6. \A w \in Wallets : ledger[w] \in Seq(Entry)
  BY <1>1 DEF TypeOK, TablesOK
<1>7. e.tx = id /\ e.version = d.wallet.version
  BY <1>3 DEF EntryOf
<1> HIDE DEF e

\* Nothing is announced.
<1>8. CASE p.action \in {"replay", "postpone"}
  <2>1. \A w \in Wallets : outbox'[w] = outbox[w] /\ ledger'[w] = ledger[w]
    BY <1>4, <1>5, <1>8
  <2>2. /\ Rows' = Rows
        /\ \A other \in Rows : /\ txn'[other].status = txn[other].status
                               /\ txn'[other].op.wallet = txn[other].op.wallet
    <3>1. CASE p.action = "replay"
      BY <1>1, <3>1, CommitRows
    <3>2. CASE p.action = "postpone"
      <4>1. Puts(s)
        BY <1>1, <3>2, CommitRows
      <4>2. p.row.status = "PENDING_REFERENCE"
        BY <1>2, <3>2, PlansJudge
      <4>3. /\ id \in Rows /\ txn[id].status = "PENDING_REFERENCE" /\ txn[id].op = op
            /\ txn'[id] = p.row /\ p.row.op = op /\ Rows' = Rows \cup {id}
            /\ \A other \in TxIds \ {id} : txn'[other] = txn[other]
        BY <1>3, <3>2, <4>1 DEF Puts, Pending
      <4> QED BY <4>2, <4>3 DEF Rows
    <3> QED BY <1>8, <3>1, <3>2
  <2>3. ASSUME NEW w \in Wallets, NEW other \in TxIds
        PROVE  Tells(w, other)'
    <3>1. CASE other \notin Rows \/ txn[other].op.wallet # w
      BY <1>1, <2>1, <2>2, <3>1 DEF Tells
    <3>2. CASE other \in Rows /\ txn[other].op.wallet = w
      <4>1. Announced(outbox[w], ledger[w], other, txn[other])
        BY <1>1, <3>2 DEF Tells
      <4>2. Announced(outbox[w], ledger[w], other, txn'[other])
        BY <2>2, <3>2, <4>1 DEF Announced
      <4> QED BY <2>1, <2>2, <3>2, <4>2 DEF Tells
    <3> QED BY <3>1, <3>2
  <2>4. \A w \in Wallets : Matches(outbox'[w], ledger'[w])
    BY <1>1, <2>1
  <2> QED BY <2>3, <2>4, WalletByTransaction
          DEF OutboxTellsTheBooks, Matches, Tells, Told, ToldAs, Announced, EntriesOf

\* A decision is announced.
<1>9. CASE p.action \in {"insert", "update"}
  <2>1. Puts(s) /\ Judges(d, op, ref[s]) /\ p.row.status = d.status
    BY <1>1, <1>2, <1>9, CommitRows, PlansJudge
  <2>2. /\ Rows' = Rows \cup {id} /\ txn'[id] = p.row /\ p.row.op = op
        /\ \A other \in TxIds \ {id} : txn'[other] = txn[other]
    BY <1>3, <2>1 DEF Puts
  <2>3. id \notin Rows \/ (/\ id \in Rows /\ txn[id].status = "PENDING_REFERENCE"
                           /\ txn[id].op = op /\ d.status # "PENDING_REFERENCE")
    <3>1. CASE p.action = "insert"
      BY <1>3, <2>1, <3>1 DEF Puts
    <3>2. CASE p.action = "update"
      <4>1. job[s].via = "resolve" /\ id \in Pending /\ txn[id].op = op
        BY <1>3, <2>1, <3>2 DEF Puts
      <4>2. Settles(p, op, held[s], ref[s], txn[job[s].tx])
        BY <1>2, <3>2, <4>1 DEF Decided, Postpones
      <4> QED BY <4>1, <4>2, SettledIsFinal DEF Pending
    <3> QED BY <1>9, <3>1, <3>2
  <2>4. /\ d.status \in {"PENDING_REFERENCE"} \cup Terminal
        /\ d.direction # "" <=> (d.status = "PROCESSED" /\ op.kind # "LOSS")
    BY <2>1 DEF Judges
  <2>5. Told(outbox[home], id) = {} \/
          /\ id \in Rows /\ d.status # "PENDING_REFERENCE"
          /\ Announced(outbox[home], ledger[home], id, txn[id])
          /\ EntriesOf(ledger[home], id) = {}
    <3>1. CASE id \notin Rows
      BY <1>1, <1>4, <3>1 DEF Tells
    <3>2. CASE id \in Rows
      <4>1. EntriesOf(ledger[home], id) = {}
        BY <1>1, <1>4, <2>3, <3>2 DEF Explains
      <4> QED BY <1>1, <1>4, <2>3, <3>2, <4>1 DEF Tells
    <3> QED BY <3>1, <3>2
  <2>6. /\ \A i, j \in Told(outbox[home], id) : i = j
        /\ \A i \in Told(outbox[home], id) : outbox[home][i].type = "PENDING_REFERENCE"
        /\ d.status = "PENDING_REFERENCE" => Told(outbox[home], id) = {} /\ ~moved
    <3>1. CASE Told(outbox[home], id) = {}
      BY <1>0, <2>4, <3>1
    <3>2. CASE /\ id \in Rows /\ d.status # "PENDING_REFERENCE"
               /\ Announced(outbox[home], ledger[home], id, txn[id])
               /\ EntriesOf(ledger[home], id) = {}
      <4>1. \A i \in Told(outbox[home], id) : outbox[home][i].type = "PENDING_REFERENCE"
        BY <2>3, <3>2 DEF Announced, ToldAs
      <4> QED BY <3>2, <4>1 DEF Announced
    <3> QED BY <2>5, <3>1, <3>2
  <2>7. moved <=> EntriesOf(ledger'[home], id) # {}
    <3>0. \A w \in Wallets, i \in Rows' :
            Explains(ledger'[w], w, i, txn'[i], Side(txn[i])')
      BY DEF MoneyIsExplained, Explains, EntriesOf
    <3>1. Explains(ledger'[home], home, id, txn'[id], Side(txn[id])')
      BY <1>4, <2>2, <3>0
    <3>2. txn'[id].op.wallet = home /\ txn'[id].op.kind = op.kind /\ txn'[id].status = d.status
      BY <2>1, <2>2
    <3> QED BY <1>0, <2>4, <3>1, <3>2 DEF Explains
  <2>8. ASSUME NEW w \in Wallets, NEW other \in TxIds, other # id
        PROVE  Tells(w, other)'
    <3>1. EntriesOf(ledger'[w], other) = EntriesOf(ledger[w], other)
      <4>1. CASE d.direction = "" \/ w # home
        BY <1>5, <4>1
      <4>2. CASE d.direction # "" /\ w = home
        <5> DEFINE l == ledger[w]
                   m == ledger'[w]
        <5>1. l \in Seq(Entry) /\ e \in Entry /\ e.tx # other /\ m = Append(l, e)
          BY <1>5, <1>6, <1>7, <2>8, <4>2
        <5> HIDE DEF l, m, d
        <5>2. EntriesOf(m, other) = EntriesOf(l, other)
          BY <5>1, AppendedEntries
        <5> QED BY <5>2 DEF l, m
      <4> QED BY <4>1, <4>2
    <3>2. /\ Told(outbox'[w], other) = Told(outbox[w], other)
          /\ \A i \in Told(outbox[w], other) : outbox'[w][i] = outbox[w][i]
      <4>1. CASE w = home
        <5> DEFINE o == outbox[w]
                   m == outbox'[w]
                   status == d.status
                   version == d.wallet.version
        <5>1. Grown(m, o, id, status, moved, version)
          BY <1>4, <1>9, <4>1
        <5> HIDE DEF o, m, status, version
        <5>2. Told(m, other) = Told(o, other) /\ \A i \in Told(o, other) : m[i] = o[i]
          BY <2>8, <5>1, OthersStayTold
        <5> QED BY <5>2 DEF o, m
      <4>2. CASE w # home
        BY <1>4, <4>2
      <4> QED BY <4>1, <4>2
    <3>3. (other \in Rows' <=> other \in Rows) /\ txn'[other] = txn[other]
      BY <2>2, <2>8
    <3>4. CASE other \notin Rows \/ txn[other].op.wallet # w
      BY <1>1, <3>2, <3>3, <3>4 DEF Tells
    <3>5. CASE other \in Rows /\ txn[other].op.wallet = w
      <4>1. Announced(outbox[w], ledger[w], other, txn[other])
        BY <1>1, <3>5 DEF Tells
      <4>2. Announced(outbox'[w], ledger'[w], other, txn[other])
        BY <3>1, <3>2, <4>1, SameAnnouncement
      <4> QED BY <3>3, <3>5, <4>2 DEF Tells
    <3> QED BY <3>4, <3>5
  <2>9. ASSUME NEW w \in Wallets
        PROVE  Tells(w, id)'
    <3>1. CASE w = home
      <4>1. d.status # "BALANCE"
        BY <2>4 DEF Terminal
      <4>2. Announced(outbox'[w], ledger'[w], id, txn'[id])
        <5> DEFINE o == outbox[w]
                   m == outbox'[w]
                   l == ledger'[w]
                   row == txn'[id]
                   status == d.status
                   version == d.wallet.version
        <5>1. Grown(m, o, id, status, moved, version)
          BY <1>4, <1>9, <3>1
        <5>2. row.status = status /\ status # "BALANCE"
          BY <2>1, <2>2, <4>1
        <5>3. /\ \A i, j \in Told(o, id) : i = j
              /\ \A i \in Told(o, id) : o[i].type = "PENDING_REFERENCE"
              /\ status = "PENDING_REFERENCE" => Told(o, id) = {} /\ ~moved
              /\ moved <=> EntriesOf(l, id) # {}
          BY <2>6, <2>7, <3>1
        <5> HIDE DEF o, m, l, row, status, version
        <5>4. Announced(m, l, id, row)
          BY <5>1, <5>2, <5>3, AnnouncementGrows
        <5> QED BY <5>4 DEF m, l, row
      <4> QED BY <2>2, <3>1, <4>2 DEF Tells
    <3>2. CASE w # home
      <4>1. Told(outbox[w], id) = {}
        BY <1>1, <2>3, <3>2 DEF Tells
      <4> QED BY <1>4, <2>2, <3>2, <4>1 DEF Tells
    <3> QED BY <3>1, <3>2
  <2>10. ASSUME NEW w \in Wallets
         PROVE  Matches(outbox'[w], ledger'[w])
    <3>1. CASE w # home
      BY <1>1, <1>4, <1>5, <3>1
    <3>2. CASE w = home /\ d.direction = ""
      <4>1. ledger'[w] = ledger[w] /\ (d.direction # "") = FALSE
        BY <1>5, <3>2
      <4> DEFINE o == outbox[w]
                 m == outbox'[w]
                 status == d.status
                 version == d.wallet.version
      <4>2. moved = FALSE
        BY <1>0, <3>2
      <4>3. Grown(m, o, id, status, moved, version)
        BY <1>4, <1>9, <3>2
      <4> HIDE DEF o, m, status, version
      <4>4. Grown(m, o, id, status, FALSE, version)
        BY <4>2, <4>3
      <4>5. Matches(o, ledger[w])
        BY <1>1 DEF o
      <4>6. Matches(m, ledger[w])
        BY <4>4, <4>5, MatchStays
      <4> QED BY <4>1, <4>6 DEF m
    <3>3. CASE w = home /\ d.direction # ""
      <4>1. ledger'[w] = Append(ledger[w], e) /\ moved = TRUE
        BY <1>0, <1>5, <3>3
      <4>2. Grown(outbox'[w], outbox[w], e.tx, d.status, TRUE, e.version)
        BY <1>4, <1>7, <1>9, <3>3, <4>1
      <4>3. d.status # "BALANCE"
        BY <2>4 DEF Terminal
      <4>4. \A k \in DOMAIN ledger[w] : ledger[w][k].version < e.version
        <5>1. \A k \in DOMAIN ledger[w] : /\ ledger[w][k].version <= wallet[w].version
                                          /\ ledger[w][k] \in Entry
          BY <1>1, <1>6 DEF VersionsPrecede
        <5>2. /\ e.version = wallet[w].version + 1 /\ wallet[w].version \in Int
          <6>1. wallet[w] \in WalletRow /\ MovedTo(d.wallet, wallet[w], d.wallet.balance.minor)
            BY <1>5, <3>3
          <6>2. wallet[w].version \in Int
            BY <6>1 DEF WalletRow
          <6>3. d.wallet.version = wallet[w].version + 1
            BY <6>1 DEF MovedTo
          <6> QED BY <1>7, <6>2, <6>3
        <5>3. \A k \in DOMAIN ledger[w] : ledger[w][k].version \in Int
          BY <5>1 DEF Entry
        <5> HIDE DEF d
        <5> QED BY <5>1, <5>2, <5>3
      <4> DEFINE o == outbox[w]
                 m == outbox'[w]
                 l == ledger[w]
                 status == d.status
      <4>5. /\ l \in Seq(Entry) /\ e \in Entry /\ status # "BALANCE"
            /\ Grown(m, o, e.tx, status, TRUE, e.version) /\ Matches(o, l)
            /\ \A k \in DOMAIN l : l[k].version < e.version
        BY <1>1, <1>5, <1>6, <3>3, <4>2, <4>3, <4>4
      <4> HIDE DEF o, m, l, status
      <4>6. Matches(m, Append(l, e))
        BY <4>5, MatchGrows
      <4> QED BY <4>1, <4>6 DEF m, l
    <3> QED BY <3>1, <3>2, <3>3
  <2>11. \A w \in Wallets, other \in TxIds : Tells(w, other)'
    BY <2>8, <2>9
  <2> QED BY <2>10, <2>11
          DEF OutboxTellsTheBooks, Matches, Tells, Told, ToldAs, Announced, EntriesOf
<1> QED BY <1>2, <1>8, <1>9

-----------------------------------------------------------------------------

\* The opening of a wallet with money on it is announced by its two events, and that of
\* an empty wallet by none: CreateWallet.
LEMMA OpeningTells ==
  ASSUME KnownInv, StoryInv, NEW o \in Openings, Opens(o)
  PROVE  /\ o.wallet \in Wallets /\ outbox[o.wallet] = <<>> /\ ledger[o.wallet] = <<>>
         /\ \A w \in Wallets \ {o.wallet} :
              outbox'[w] = outbox[w] /\ ledger'[w] = ledger[w] /\ wallet'[w] = wallet[w]
         /\ wallet'[o.wallet] # NONE /\ wallet'[o.wallet].version = 1
         /\ \/ Rows' = Rows /\ UNCHANGED <<txn, ledger, outbox>>
            \/ \E id \in TxIds \ Rows, now \in Times :
                 /\ OpeningEntry(o, id, now) \in Entry
                 /\ Rows' = Rows \cup {id} /\ txn'[id] = OpeningRow(o)
                 /\ \A other \in TxIds \ {id} : txn'[other] = txn[other]
                 /\ ledger'[o.wallet] = <<OpeningEntry(o, id, now)>>
                 /\ outbox'[o.wallet] = <<WagerEvent(id, "PROCESSED"), BalanceEvent(id, 1)>>
<1>1. BooksInv /\ TypeOK /\ SilentBefore
  BY DEF KnownInv, BooksInv, StoryInv
<1>2. o.wallet \in Wallets /\ wallet[o.wallet] = NONE /\ ledger[o.wallet] = <<>>
  BY <1>1, OpenBooks
<1>3. outbox[o.wallet] = <<>>
  BY <1>1, <1>2 DEF SilentBefore
<1>4. PICK now \in Times :
        /\ wallet' = [wallet EXCEPT ![o.wallet] =
             [player |-> o.player, balance |-> o.money, version |-> 1, updatedAt |-> now]]
        /\ IF IsZero(o.money) THEN UNCHANGED <<txn, ledger, outbox>>
           ELSE /\ \E free \in TxIds : txn[free] = NONE
                /\ txn' = [txn EXCEPT ![NewTxId] = OpeningRow(o)]
                /\ ledger' = [ledger EXCEPT ![o.wallet] = <<OpeningEntry(o, NewTxId, now)>>]
                /\ outbox' = [outbox EXCEPT ![o.wallet] =
                     <<WagerEvent(NewTxId, "PROCESSED"), BalanceEvent(NewTxId, 1)>>]
  BY DEF Opens, OpenWallet, OpeningEntry
<1>5. /\ wallet'[o.wallet] \in WalletRow /\ wallet'[o.wallet] # NONE
      /\ \A w \in Wallets \ {o.wallet} : wallet'[w] = wallet[w]
  BY <1>1, OpenBooks, NoneIsNoRowAssumption
<1>6. wallet'[o.wallet].version = 1
  BY <1>1, <1>2, <1>4 DEF TypeOK, TablesOK
<1>7. CASE IsZero(o.money)
  <2>1. UNCHANGED <<txn, ledger, outbox>>
    BY <1>4, <1>7
  <2>2. Rows' = Rows
    BY <2>1 DEF Rows
  <2> QED BY <1>2, <1>3, <1>5, <1>6, <2>1, <2>2
<1>8. CASE ~IsZero(o.money)
  <2>1. PICK id \in TxIds \ Rows : id = NewTxId
    BY <1>4, <1>8 DEF NewTxId, Rows
  <2> DEFINE e == OpeningEntry(o, id, now)
             row == OpeningRow(o)
             events == <<WagerEvent(id, "PROCESSED"), BalanceEvent(id, 1)>>
  <2>2. /\ txn' = [txn EXCEPT ![id] = row]
        /\ ledger' = [ledger EXCEPT ![o.wallet] = <<e>>]
        /\ outbox' = [outbox EXCEPT ![o.wallet] = events]
    BY <1>4, <1>8, <2>1
  <2>3. row # NONE
    <3>1. o.wallet \in Wallets /\ o.player \in Players /\ o.money \in Money
      BY OpeningsAssumption DEF Opening
    <3>2. o.money.minor \in Int64 /\ 0 \in 0..(MaxAttempts - 1)
      BY <3>1, MaxAttemptsAssumption DEF Money
    <3>3. OpeningRow(o).op \in OpeningOp
      BY <3>1 DEF OpeningRow, OpeningOp
    <3>4. OpeningRow(o) \in TxnRow
      BY <3>2, <3>3 DEF OpeningRow, TxnRow, Statuses, Terminal
    <3> QED BY <3>4, NoneIsNoRowAssumption
  <2>4. e \in Entry
    <3>1. o.money \in Money /\ o.money.minor \in Int64
      BY OpeningsAssumption DEF Opening, Money
    <3>2. 0 \in Int64 /\ 1 \in 1..MaxInt
      BY MaxIntAssumption, Integers64 DEF Int64
    <3> QED BY <2>1, <3>1, <3>2 DEF OpeningEntry, Entry
  <2> HIDE DEF e, row, events
  <2>5. /\ Rows' = Rows \cup {id} /\ txn'[id] = row
        /\ \A other \in TxIds \ {id} : txn'[other] = txn[other]
    BY <1>1, <2>1, <2>2, <2>3 DEF TypeOK, TablesOK, Rows
  <2>6. /\ ledger'[o.wallet] = <<e>> /\ outbox'[o.wallet] = events
        /\ \A w \in Wallets \ {o.wallet} : ledger'[w] = ledger[w] /\ outbox'[w] = outbox[w]
    BY <1>1, <1>2, <2>2 DEF TypeOK, TablesOK
  <2> QED BY <1>2, <1>3, <1>5, <1>6, <2>1, <2>4, <2>5, <2>6 DEF e, row, events
<1> QED BY <1>7, <1>8

\* So nothing is told too early, and no entry is ahead of its wallet.
LEMMA OpeningKeepsVersions ==
  ASSUME KnownInv, StoryInv, NEW o \in Openings, Opens(o)
  PROVE  VersionsPrecede' /\ SilentBefore'
<1>1. VersionsPrecede /\ SilentBefore
  BY DEF StoryInv
<1>2. /\ o.wallet \in Wallets /\ ledger[o.wallet] = <<>> /\ wallet'[o.wallet] # NONE
      /\ wallet'[o.wallet].version = 1
      /\ \A w \in Wallets \ {o.wallet} :
           outbox'[w] = outbox[w] /\ ledger'[w] = ledger[w] /\ wallet'[w] = wallet[w]
      /\ \/ ledger' = ledger
         \/ \E id \in TxIds \ Rows, now \in Times :
              ledger'[o.wallet] = <<OpeningEntry(o, id, now)>>
  BY OpeningTells
<1>3. SilentBefore'
  BY <1>1, <1>2 DEF SilentBefore
<1>4. \A k \in DOMAIN ledger'[o.wallet] : ledger'[o.wallet][k].version <= 1
  <2>1. CASE ledger' = ledger
    BY <1>2, <2>1
  <2>2. ASSUME NEW id, NEW now, ledger'[o.wallet] = <<OpeningEntry(o, id, now)>>
        PROVE  \A k \in DOMAIN ledger'[o.wallet] : ledger'[o.wallet][k].version <= 1
    <3> DEFINE e == OpeningEntry(o, id, now)
    <3>1. e.version = 1
      BY DEF OpeningEntry
    <3>2. ledger'[o.wallet] = <<e>>
      BY <2>2
    <3> HIDE DEF e
    <3> QED BY <3>1, <3>2
  <2> QED BY <1>2, <2>1, <2>2
<1>5. VersionsPrecede'
  BY <1>1, <1>2, <1>4 DEF VersionsPrecede
<1> QED BY <1>3, <1>5

\* What the opening of a wallet announces is what it enters.
LEMMA OpeningIsTold ==
  ASSUME KnownInv, StoryInv, NEW o \in Openings, Opens(o)
  PROVE  OutboxTellsTheBooks'
<1>1. \A w \in Wallets : Matches(outbox[w], ledger[w]) /\ \A id \in TxIds : Tells(w, id)
  BY WalletByTransaction DEF StoryInv
<1>2. /\ o.wallet \in Wallets /\ outbox[o.wallet] = <<>> /\ ledger[o.wallet] = <<>>
      /\ \A w \in Wallets \ {o.wallet} : outbox'[w] = outbox[w] /\ ledger'[w] = ledger[w]
  BY OpeningTells
<1>3. CASE Rows' = Rows /\ UNCHANGED <<txn, ledger, outbox>>
  BY <1>3 DEF StoryInv, OutboxTellsTheBooks
<1>4. ASSUME NEW id \in TxIds \ Rows, NEW now \in Times,
             Rows' = Rows \cup {id}, txn'[id] = OpeningRow(o),
             \A other \in TxIds \ {id} : txn'[other] = txn[other],
             ledger'[o.wallet] = <<OpeningEntry(o, id, now)>>,
             outbox'[o.wallet] = <<WagerEvent(id, "PROCESSED"), BalanceEvent(id, 1)>>
      PROVE  OutboxTellsTheBooks'
  <2> DEFINE e == OpeningEntry(o, id, now)
             a == WagerEvent(id, "PROCESSED")
             b == BalanceEvent(id, 1)
             l == ledger'[o.wallet]
             m == outbox'[o.wallet]
  <2>1. /\ e.tx = id /\ e.version = 1 /\ a.tx = id /\ b.tx = id /\ b.version = 1
        /\ a.type = "PROCESSED" /\ b.type = "BALANCE"
    BY DEF OpeningEntry, WagerEvent, BalanceEvent
  <2>2. l = <<e>> /\ m = <<a, b>>
    BY <1>4
  <2> HIDE DEF e, a, b, l, m
  <2>3. /\ DOMAIN l = {1} /\ l[1] = e
        /\ DOMAIN m = {1, 2} /\ m[1] = a /\ m[2] = b
    BY <2>2
  <2>4. Matches(m, l)
    BY <2>1, <2>3 DEF Matches
  <2>5. txn'[id].status = "PROCESSED" /\ txn'[id].op.wallet = o.wallet
    <3>1. OpeningRow(o).status = "PROCESSED" /\ OpeningRow(o).op.wallet = o.wallet
      BY DEF OpeningRow
    <3>2. txn'[id] = OpeningRow(o)
      BY <1>4
    <3> QED BY <3>1, <3>2
  <2>6. Announced(m, l, id, txn'[id])
    <3>1. /\ Told(m, id) = {1, 2} /\ ToldAs(m, id, "PROCESSED") = {1}
          /\ ToldAs(m, id, "BALANCE") = {2} /\ ToldAs(m, id, "PENDING_REFERENCE") = {}
          /\ EntriesOf(l, id) = {1}
      BY <2>1, <2>3 DEF Told, ToldAs, EntriesOf
    <3> QED BY <2>1, <2>3, <2>5, <3>1 DEF Announced
  <2>7. ASSUME NEW w \in Wallets
        PROVE  Tells(w, id)'
    <3>1. CASE w = o.wallet
      BY <1>4, <2>5, <2>6, <3>1 DEF Tells, l, m
    <3>2. CASE w # o.wallet
      <4>1. Told(outbox[w], id) = {}
        BY <1>1 DEF Tells
      <4> QED BY <1>2, <2>5, <3>2, <4>1 DEF Tells
    <3> QED BY <3>1, <3>2
  <2>8. ASSUME NEW w \in Wallets, NEW other \in TxIds, other # id
        PROVE  Tells(w, other)'
    <3>1. (other \in Rows' <=> other \in Rows) /\ txn'[other] = txn[other]
      BY <1>4, <2>8
    <3>2. /\ Told(outbox'[w], other) = Told(outbox[w], other)
          /\ \A i \in Told(outbox[w], other) : outbox'[w][i] = outbox[w][i]
          /\ EntriesOf(ledger'[w], other) = EntriesOf(ledger[w], other)
      <4>1. CASE w = o.wallet
        <5>1. Told(m, other) = {} /\ EntriesOf(l, other) = {}
          BY <2>1, <2>3, <2>8 DEF Told, EntriesOf
        <5>2. Told(outbox[w], other) = {} /\ EntriesOf(ledger[w], other) = {}
          BY <1>2, <4>1 DEF Told, EntriesOf
        <5> QED BY <4>1, <5>1, <5>2 DEF l, m
      <4>2. CASE w # o.wallet
        BY <1>2, <4>2
      <4> QED BY <4>1, <4>2
    <3>3. CASE other \notin Rows \/ txn[other].op.wallet # w
      BY <1>1, <3>1, <3>2, <3>3 DEF Tells
    <3>4. CASE other \in Rows /\ txn[other].op.wallet = w
      <4>1. Announced(outbox[w], ledger[w], other, txn[other])
        BY <1>1, <3>4 DEF Tells
      <4>2. Announced(outbox'[w], ledger'[w], other, txn[other])
        BY <3>2, <4>1, SameAnnouncement
      <4> QED BY <3>1, <3>4, <4>2 DEF Tells
    <3> QED BY <3>3, <3>4
  <2>9. \A w \in Wallets : Matches(outbox'[w], ledger'[w])
    BY <1>1, <1>2, <2>4 DEF l, m
  <2>10. \A w \in Wallets, other \in TxIds : Tells(w, other)'
    BY <2>7, <2>8
  <2> QED BY <2>9, <2>10
          DEF OutboxTellsTheBooks, Matches, Tells, Told, ToldAs, Announced, EntriesOf
<1> QED BY <1>3, <1>4, OpeningTells

\* Before the first wallet there is nothing to tell.
LEMMA StoryAtFirst == Init => StoryInv
<1> SUFFICES ASSUME Init
             PROVE  StoryInv
  OBVIOUS
<1>1. /\ Rows = {} /\ \A w \in Wallets : ledger[w] = <<>> /\ outbox[w] = <<>>
  BY DEF Init, Rows
<1>2. OutboxTellsTheBooks /\ MoneyIsExplained
  BY <1>1 DEF OutboxTellsTheBooks, MoneyIsExplained
<1>3. VersionsPrecede /\ SilentBefore
  BY <1>1 DEF VersionsPrecede, SilentBefore
<1> QED BY <1>2, <1>3 DEF StoryInv

\* What the outbox tells stays true with each commit.
LEMMA StoryHolds == Spec => []StoryInv
<1>1. KnownInv /\ Sound /\ StoryInv /\ MoneyIsExplained' /\ [Next]_vars => StoryInv'
  <2> SUFFICES ASSUME KnownInv, Sound, StoryInv, MoneyIsExplained', [Next]_vars
               PROVE  StoryInv'
    OBVIOUS
  <2>1. TypeOK
    BY DEF KnownInv, BooksInv
  <2>2. CASE UNCHANGED tables
    BY <2>2 DEF tables, StoryInv, OutboxTellsTheBooks, VersionsPrecede, SilentBefore, Rows
  <2>3. ASSUME NEW o \in Openings, Opens(o)
        PROVE  StoryInv'
    BY <2>3, OpeningKeepsVersions, OpeningIsTold DEF StoryInv
  <2>4. ASSUME NEW s \in Sessions, Commits(s)
        PROVE  StoryInv'
    BY <2>4, CommitKeepsVersions, CommitIsTold DEF StoryInv
  <2> QED BY <2>1, <2>2, <2>3, <2>4, WhoWrites DEF Finishes
<1> QED BY <1>1, StoryAtFirst, ReferencesAreHeld, MoneyStaysExplained, PTL DEF Spec

\* The outbox tells the books: every transaction is announced on its own wallet, once
\* per event type, by the status of its row and, if it moved money, by one balance event;
\* the balance events of a wallet are its ledger entries in the order of their versions
\* (addWagerEvent, addBalanceEvent).
THEOREM OutboxStaysTrue == Spec => []OutboxTellsTheBooks
<1>1. StoryInv => OutboxTellsTheBooks
  BY DEF StoryInv
<1> QED BY <1>1, StoryHolds, PTL

\* An event that is in the outbox stays there, at its place.
LEMMA EventsStay ==
  ASSUME KnownInv, Sound, StoryInv, [Next]_vars,
         NEW w \in Wallets, NEW i \in DOMAIN outbox[w]
  PROVE  i \in DOMAIN outbox'[w] /\ outbox'[w][i] = outbox[w][i]
<1>1. CASE UNCHANGED tables
  BY <1>1 DEF tables
<1>2. ASSUME NEW o \in Openings, Opens(o)
      PROVE  i \in DOMAIN outbox'[w] /\ outbox'[w][i] = outbox[w][i]
  <2>1. /\ outbox[o.wallet] = <<>>
        /\ \A v \in Wallets \ {o.wallet} : outbox'[v] = outbox[v]
    BY <1>2, OpeningTells
  <2>2. w # o.wallet
    BY <2>1
  <2> QED BY <2>1, <2>2
<1>3. ASSUME NEW s \in Sessions, Commits(s)
      PROVE  i \in DOMAIN outbox'[w] /\ outbox'[w][i] = outbox[w][i]
  <2> DEFINE home == job[s].op.wallet
             action == plan[s].action
  <2>1. action \in {"insert", "update", "postpone", "replay"}
    BY <1>3 DEF Commits, CanCommit, Writing, KnownInv, BooksInv, TypeOK, SessionOK, Plan
  <2>2. /\ \A v \in Wallets \ {home} : outbox'[v] = outbox[v]
        /\ action \in {"replay", "postpone"} => outbox'[home] = outbox[home]
        /\ action \in {"insert", "update"} =>
             \A j \in DOMAIN outbox[home] :
               j \in DOMAIN outbox'[home] /\ outbox'[home][j] = outbox[home][j]
    BY <1>3, CommitTells DEF Grown
  <2> QED BY <2>1, <2>2
<1> QED BY <1>1, <1>2, <1>3, WhoWrites DEF KnownInv, BooksInv, Finishes

-----------------------------------------------------------------------------
\* What readers find.

\* PENDING ends in the transaction that writes the row.
Lasting == {"PENDING_REFERENCE"} \cup Terminal

\* The checks on reading, but for that of the timestamps, let row pass, and it is past
\* PENDING.
Readable(row) == ColumnsFit(row) /\ row.status \in Lasting

\* The columns of every row fit, and so did those sessions repeat and have answered from.
ReadInv ==
  /\ \A id \in Rows : Readable(txn[id])
  /\ \A t \in Sessions :
       /\ pc[t] \in Writing /\ plan[t].action = "replay" => plan[t].row.status \in Lasting
       /\ answer[t] # NONE /\ answer[t].tx # NONE =>
            answer[t].err = "" /\ answer[t].status \in Lasting

\* A well formed operation passes them with a balance that is no debt.
LEMMA OperationReads ==
  ASSUME NEW row, row.op \in Operation, ValidateOperation(row.op), row.balance >= 0,
         row.failure # "" <=> row.status \in {"REJECTED", "FAILED"}
  PROVE  ColumnsFit(row)
<1> DEFINE op == row.op
<1>1. op.kind # "OPENING"
  BY DEF Operation, BusinessKinds
<1>2. op.provider # NONE /\ op.ext # NONE /\ op.key # NONE /\ op.round # NONE
  BY NoneAssumption DEF Operation
<1>3. NONE \notin {op[f] : f \in {"provider", "ext", "key", "round"}}
  BY <1>2
<1> HIDE DEF op
<1> QED BY <1>1, <1>3 DEF ColumnsFit, op

\* What is planned can be read once it is written.
LEMMA PlanReads ==
  ASSUME KnownInv, Sound, ReadInv, NEW t \in Sessions, pc[t] \in Writing,
         plan[t].action # "replay"
  PROVE  Readable(plan[t].row)
<1> DEFINE p == plan[t]
           d == p.decision
           op == job[t].op
           row == p.row
<1>1. Decided(t) /\ TypeOK /\ ClaimsAreExclusive /\ Reconciled /\ WalletsAreLocked
  BY DEF Sound, KnownInv, BooksInv
<1>2. /\ Judges(d, op, ref[t])
      /\ op \in Operation /\ row.op = op /\ row.status = d.status
      /\ p.action = "postpone" => job[t].via = "resolve"
      /\ p.action # "postpone" => /\ row.failure = d.failure
                                  /\ row.balance = d.wallet.balance.minor
  BY <1>1, PlansJudge
<1>3. /\ ValidateOperation(op) /\ Follows(d, held[t], op.money)
      /\ held[t] = wallet[op.wallet] /\ held[t] \in WalletRow
  BY <1>1 DEF KnownInv, BooksInv, DecisionsAreMovements, WalletsAreLocked, TypeOK, SessionOK,
     Writing
<1>4. d.status \in Lasting /\ (d.failure # "" <=> d.status \in {"REJECTED", "FAILED"})
  BY <1>2 DEF Judges, Lasting
<1>5. CASE p.action # "postpone"
  <2>1. held[t].balance.minor >= 0 /\ held[t].balance.minor \in Int
    <3>1. op.wallet \in Wallets /\ wallet[op.wallet] # NONE
      BY <1>2, <1>3, NoneIsNoRowAssumption DEF Operation
    <3>2. Balances(wallet[op.wallet], ledger[op.wallet])
      BY <1>1, <3>1 DEF Reconciled
    <3> QED BY <1>3, <3>2, Integers64 DEF Balances, WalletRow, Money
  <2>2. op.money.minor >= 0 /\ op.money.minor \in Int
    <3>1. op.money.minor \in Int
      BY <1>2, Integers64 DEF Operation, Money
    <3>2. IsPositive(op.money) \/ IsZero(op.money)
      BY <1>3 DEF ValidateOperation
    <3> QED BY <3>1, <3>2 DEF IsPositive, IsZero
  <2>3. d.direction \in {"", "CREDIT", "DEBIT"}
    BY <1>1, <1>2 DEF TypeOK, SessionOK, Plan, Decision, Writing
  <2>4. d.wallet.balance.minor >= 0
    <3>1. CASE d.direction = ""
      BY <1>3, <2>1, <3>1 DEF Follows
    <3>2. CASE d.direction = "CREDIT"
      <4>1. d.wallet.balance.minor = held[t].balance.minor + op.money.minor
        BY <1>3, <3>2 DEF Follows, MovedTo
      <4> QED BY <2>1, <2>2, <4>1
    <3>3. CASE d.direction = "DEBIT"
      BY <1>3, <3>3 DEF Follows, MovedTo
    <3> QED BY <2>3, <3>1, <3>2, <3>3
  <2> QED BY <1>2, <1>3, <1>4, <1>5, <2>4, OperationReads DEF Readable
<1>6. CASE p.action = "postpone"
  <2> DEFINE old == txn[job[t].tx]
             n == old.attempts + 1
  <2>1. old \in TxnRow /\ Readable(old) /\ old.status = "PENDING_REFERENCE"
    <3>1. job[t].tx \in Pending
      BY <1>1, <1>2, <1>6 DEF ClaimsAreExclusive, Writing
    <3> QED BY <1>1, <3>1 DEF Pending, Rows, TypeOK, TablesOK, ReadInv
  <2>2. row = [old EXCEPT !.attempts = n]
    BY <1>1, <1>2, <1>6 DEF Decided, Postpones, Settles
  <2> HIDE DEF old, n
  <2>3. /\ row.status = old.status /\ row.failure = old.failure /\ row.balance = old.balance
    BY <2>1, <2>2 DEF TxnRow
  <2> HIDE DEF row, op
  <2>4. row.balance >= 0 /\ (row.failure # "" <=> row.status \in {"REJECTED", "FAILED"})
    BY <2>1, <2>3 DEF Readable, ColumnsFit
  <2>5. ColumnsFit(row)
    BY <1>2, <1>3, <2>4, OperationReads
  <2> QED BY <2>1, <2>3, <2>5 DEF Readable, row
<1> QED BY <1>5, <1>6

\* The opening of a wallet can be read.
LEMMA OpeningReads ==
  ASSUME NEW o \in Openings, o.money.minor > 0
  PROVE  Readable(OpeningRow(o))
<1> DEFINE row == OpeningRow(o)
           op == row.op
<1>1. /\ op.provider = NONE /\ op.ext = NONE /\ op.key = NONE /\ op.round = NONE
      /\ op.ref = NONE /\ op.kind = "OPENING" /\ op.money = o.money
  BY DEF OpeningRow
<1>2. /\ row.status = "PROCESSED" /\ row.failure = "" /\ row.refTx = NONE
      /\ row.balance = o.money.minor
  BY DEF OpeningRow
<1>3. o.money.minor \in Int
  BY OpeningsAssumption, Integers64 DEF Opening, Money
<1> HIDE DEF op
<1>4. {op[f] : f \in {"provider", "ext", "key", "round", "ref"}} = {NONE}
  BY <1>1
<1> HIDE DEF row
<1>5. /\ row.balance >= 0 /\ row.status \in Lasting /\ IsPositive(op.money)
      /\ row.balance = op.money.minor
  <2>1. row.status \in Lasting
    BY <1>2 DEF Lasting, Terminal
  <2>2. row.balance >= 0
    <3>1. \A n \in Int : n > 0 => n >= 0
      OBVIOUS
    <3>2. o.money.minor >= 0
      BY <1>3, <3>1
    <3> QED BY <1>2, <3>2
  <2>3. IsPositive(op.money) /\ row.balance = op.money.minor
    BY <1>1, <1>2 DEF IsPositive
  <2> QED BY <2>1, <2>2, <2>3
<1>6. ColumnsFit(row)
  <2>1. {row.op[f] : f \in {"provider", "ext", "key", "round", "ref"}} = {NONE}
    BY <1>4 DEF op
  <2>2. row.op.kind = "OPENING" /\ IsPositive(row.op.money) /\ row.balance = row.op.money.minor
    BY <1>1, <1>5 DEF op
  <2>3. row.failure # "" <=> row.status \in {"REJECTED", "FAILED"}
    BY <1>2
  <2> QED BY <1>2, <1>5, <2>1, <2>2, <2>3 DEF ColumnsFit
<1> QED BY <1>5, <1>6 DEF Readable, row

\* Whatever a step writes can be read.
LEMMA WhatIsWrittenReads ==
  ASSUME KnownInv, Sound, ReadInv, [Next]_vars
  PROVE  \A id \in Rows' : Readable(txn'[id])
<1>1. TypeOK /\ ClaimsAreExclusive /\ \A id \in Rows : Readable(txn[id])
  BY DEF KnownInv, BooksInv, ReadInv
<1>2. CASE UNCHANGED tables
  BY <1>1, <1>2 DEF tables, Rows
<1>3. ASSUME NEW o \in Openings, Opens(o)
      PROVE  \A id \in Rows' : Readable(txn'[id])
  <2>1. CASE Rows' = Rows /\ txn' = txn
    BY <1>1, <2>1
  <2>2. ASSUME NEW new \in TxIds \ Rows, Rows' = Rows \cup {new}, txn'[new] = OpeningRow(o),
               \A id \in TxIds \ {new} : txn'[id] = txn[id]
        PROVE  \A id \in Rows' : Readable(txn'[id])
    <3>1. o.money.minor > 0
      <4>1. o.money.minor >= 0 /\ o.money.minor \in Int
        BY <1>3, OpeningsAssumption, Integers64 DEF Opens, OpenWallet, Opening, Money
      <4>2. o.money.minor # 0
        <5>1. Rows' # Rows
          BY <2>2
        <5> QED BY <1>3, <5>1 DEF Opens, OpenWallet, IsZero, Rows
      <4> QED BY <4>1, <4>2
    <3>2. Readable(txn'[new])
      BY <2>2, <3>1, OpeningReads
    <3>3. \A id \in Rows' : id # new => id \in Rows /\ txn'[id] = txn[id]
      BY <2>2 DEF Rows
    <3> QED BY <1>1, <3>2, <3>3
  <2> QED BY <1>1, <1>3, <2>1, <2>2, OpenRows
<1>4. ASSUME NEW s \in Sessions, Finishes(s)
      PROVE  \A id \in Rows' : Readable(txn'[id])
  <2>1. Commits(s) /\ pc[s] \in Writing
    BY <1>4 DEF Finishes, Commits, CanCommit, Writing
  <2>2. CASE plan[s].action = "replay"
    BY <1>1, <2>1, <2>2, CommitRows
  <2>3. CASE plan[s].action # "replay"
    <3>1. Puts(s) /\ Readable(plan[s].row)
      BY <1>1, <2>1, <2>3, CommitRows, PlanReads
    <3>2. PICK new : new = IdFor(s)
      OBVIOUS
    <3>3. /\ Rows' = Rows \cup {new} /\ txn'[new] = plan[s].row
          /\ \A id \in Rows : id # new => txn'[id] = txn[id]
      BY <3>1, <3>2 DEF Puts, Rows
    <3> QED BY <1>1, <3>1, <3>3
  <2> QED BY <2>2, <2>3
<1> QED BY <1>1, <1>2, <1>3, <1>4, WhoWrites

\* And so does every answer.
LEMMA ReadKept == KnownInv /\ Sound /\ ReadInv /\ [Next]_vars => ReadInv'
<1> SUFFICES ASSUME KnownInv, Sound, ReadInv, [Next]_vars
             PROVE  ReadInv'
  OBVIOUS
<1>1. TypeOK
  BY DEF KnownInv, BooksInv
<1>2. \A id \in Rows' : Readable(txn'[id])
  BY WhatIsWrittenReads
<1>3. ASSUME NEW t \in Sessions, pc'[t] \in Writing, plan'[t].action = "replay"
      PROVE  plan'[t].row.status \in Lasting
  <2>1. CASE pc'[t] = pc[t] /\ plan'[t] = plan[t]
    BY <1>3, <2>1 DEF ReadInv
  <2>2. CASE FindsItself(t)
    <3>1. PICK id \in Existing(job[t].op) : plan'[t] = Replay(t, id)
      BY <2>2 DEF FindsItself
    <3>2. Replay(t, id).row = txn[id] /\ id \in Rows
      BY DEF Replay, Existing
    <3> QED BY <3>1, <3>2 DEF ReadInv, Readable
  <2>3. CASE Inserts(t)
    BY <1>3, <2>3 DEF Inserts, GoesOn, ReadInv, Writing
  <2>4. CASE DecidesFirst(t) \/ DecidesAgain(t)
    BY <1>3, <2>4 DEF DecidesFirst, DecidesAgain, RecordsNew, Settles, Postpones
  <2>5. CASE \/ TakesUp(t) \/ Returns(t) \/ Registers(t) \/ TakesWallet(t) \/ FindsNothing(t)
             \/ MissesReference(t) \/ FindsReference(t) \/ ChecksReversal(t) \/ Finishes(t)
    <3>1. pc'[t] \notin Writing
      BY <2>5 DEF TakesUp, Returns, Registers, TakesWallet, FindsNothing, MissesReference,
         FindsReference, ChecksReversal, Finishes, Commits, GoesOn, Writing
    <3> QED BY <1>3, <3>1
  <2> QED BY <1>1, <2>1, <2>2, <2>3, <2>4, <2>5, IdlesOrMoves DEF Moves, Idles
<1>4. ASSUME NEW t \in Sessions, answer'[t] # NONE, answer'[t].tx # NONE
      PROVE  answer'[t].err = "" /\ answer'[t].status \in Lasting
  <2>1. CASE answer'[t] = answer[t]
    BY <1>4, <2>1 DEF ReadInv
  <2>2. CASE answer'[t] = Refusal(job[t].op, "CONFLICT")
    <3>1. Refusal(job[t].op, "CONFLICT").tx = NONE
      BY RefusalSays DEF Errors
    <3> QED BY <1>4, <2>2, <3>1
  <2>3. CASE answer'[t] = Result(t, IdFor(t)) /\ Finishes(t)
    <3>1. job[t].via # "resolve"
      BY <1>4, <2>3 DEF Result
    <3>2. PICK id \in TxIds : id = IdFor(t)
      BY <2>3, CommitHasOutcome DEF Rows
    <3>3. Result(t, id).err = "" /\ Result(t, id).status = plan[t].row.status
      BY <3>1, ResultSays
    <3>4. plan[t].row.status \in Lasting
      <4>1. pc[t] \in Writing
        BY <2>3 DEF Finishes, Commits, CanCommit, Writing
      <4> QED BY <4>1, PlanReads DEF ReadInv, Readable
    <3> QED BY <2>3, <3>2, <3>3, <3>4
  <2> QED BY <1>1, <1>4, <2>1, <2>2, <2>3, AnswersChange
<1> QED BY <1>2, <1>3, <1>4 DEF ReadInv

\* Only a row that has waited can be dated before its creation.
DatesInv == \A id \in antedated : id \in Rows /\ HasWaited(id)

\* What readers see of the dates rests on what Wagering does.
LEMMA ReadsAreWagering == ReadsSpec => Spec
<1>1. ReadsInit => Init
  BY DEF ReadsInit
<1>2. [ReadsNext]_readVars => [Next]_vars
  BY DEF ReadsNext, readVars
<1> QED BY <1>1, <1>2, PTL DEF ReadsSpec, Spec

\* A transaction is on a wallet.
LEMMA RowOfWallet ==
  ASSUME TypeOK, NEW id \in Rows
  PROVE  txn[id].op.wallet \in Wallets
<1>1. txn[id].op \in Operation \/ txn[id].op \in OpeningOp
  BY RowsAndOpenings
<1> QED BY <1>1 DEF Operation, OpeningOp

\* Who has waited has waited for ever.
LEMMA WaitingIsRemembered ==
  ASSUME KnownInv, Sound, StoryInv, [Next]_vars, NEW id \in Rows, HasWaited(id)
  PROVE  id \in Rows' /\ HasWaited(id)'
<1>1. id \in Rows' /\ txn'[id].op = txn[id].op
  BY RowsKeepOperations
<1> DEFINE w == txn[id].op.wallet
<1>2. w \in Wallets
  BY RowOfWallet DEF KnownInv, BooksInv
<1>3. PICK i \in DOMAIN outbox[w] : /\ outbox[w][i].tx = id
                                    /\ outbox[w][i].type = "PENDING_REFERENCE"
  BY DEF HasWaited
<1>4. i \in DOMAIN outbox'[w] /\ outbox'[w][i] = outbox[w][i]
  BY <1>2, EventsStay
<1> QED BY <1>1, <1>3, <1>4 DEF HasWaited

\* A row that waits for its reference was announced as such.
LEMMA WaitingIsAnnounced ==
  ASSUME OutboxTellsTheBooks, TypeOK, NEW id \in Pending
  PROVE  HasWaited(id)
<1> DEFINE w == txn[id].op.wallet
<1>1. id \in Rows /\ txn[id].status = "PENDING_REFERENCE" /\ id \in TxIds
  BY DEF Pending, Rows
<1>2. w \in Wallets
  BY <1>1, RowOfWallet
<1>3. Announced(outbox[w], ledger[w], id, txn[id])
  BY <1>1, <1>2, WalletByTransaction DEF Tells
<1>4. ToldAs(outbox[w], id, "PENDING_REFERENCE") # {}
  BY <1>1, <1>3 DEF Announced
<1> QED BY <1>4 DEF ToldAs, Told, HasWaited

\* An UPDATE finds a row that waits.
LEMMA DatesKept ==
  KnownInv /\ Sound /\ StoryInv /\ ReadInv /\ DatesInv /\ [ReadsNext]_readVars => DatesInv'
<1> SUFFICES ASSUME KnownInv, Sound, StoryInv, ReadInv, DatesInv, [ReadsNext]_readVars,
                    NEW id \in antedated'
             PROVE  id \in Rows' /\ HasWaited(id)'
  BY DEF DatesInv
<1>1. [Next]_vars /\ id \in antedated \cup Updated
  BY DEF ReadsNext, Dates, readVars
<1>2. id \in Rows /\ HasWaited(id)
  <2>1. CASE id \in antedated
    BY <2>1 DEF DatesInv
  <2>2. CASE id \in Updated
    <3>1. id \in Rows /\ txn'[id] # txn[id]
      BY <2>2 DEF Updated
    <3>2. txn[id].status \notin Terminal
      BY <1>1, <3>1, StepRewritesNothing DEF KnownInv, RewritesNothing
    <3>3. id \in Pending
      BY <3>1, <3>2 DEF ReadInv, Readable, Lasting, Pending
    <3> QED BY <3>1, <3>3, WaitingIsAnnounced DEF StoryInv, KnownInv, BooksInv
  <2> QED BY <1>1, <2>1, <2>2
<1> QED BY <1>1, <1>2, WaitingIsRemembered

\* There is nothing to read at first.
LEMMA ReadAtFirst == Init => ReadInv
<1> SUFFICES ASSUME Init
             PROVE  ReadInv
  OBVIOUS
<1>1. Rows = {} /\ \A t \in Sessions : pc[t] = "idle" /\ answer[t] = NONE
  BY DEF Init, Rows
<1> QED BY <1>1 DEF ReadInv, Writing

\* A row that can be read is found, unless its dates are in disorder.
LEMMA OneIsScanned ==
  ASSUME NEW id, ColumnsFit(txn[id])
  PROVE  LET found == scanTransaction({id}) IN
         IF found.err = "" THEN found.tx = id ELSE id \in antedated
<1>1. CASE id \in antedated
  <2>1. scanTransaction({id}) = Err("INVALID_TRANSACTION")
    BY <1>1 DEF scanTransaction, RehydrateWagerTransaction
  <2>2. Err("INVALID_TRANSACTION").err # ""
    BY DEF Err
  <2> QED BY <1>1, <2>1, <2>2
<1>2. CASE id \notin antedated
  <2> DEFINE found == scanTransaction({id})
             it == [err |-> "", tx |-> id]
  <2>1. found = it
    BY <1>2 DEF scanTransaction, RehydrateWagerTransaction
  <2>2. it.err = "" /\ it.tx = id
    OBVIOUS
  <2> HIDE DEF found, it
  <2>3. IF found.err = "" THEN found.tx = id ELSE id \in antedated
    BY <2>1, <2>2
  <2> QED BY <2>3 DEF found
<1> QED BY <1>1, <1>2

\* What was answered is found under its id and its external id, and by nobody else.
LEMMA AnswersAreFound ==
  ASSUME KnownInv, ReadInv, DatesInv, AnswersAreDurable, IdentitiesAreUnique
  PROVE  AnswersCanBeRead
<1> SUFFICES ASSUME NEW s \in Sessions, answer[s] # NONE, answer[s].tx # NONE
             PROVE  LET a == answer[s]
                        found == GetTransaction(a.op.provider, a.tx) IN
      /\ IF found.err = "" THEN found.tx = a.tx ELSE a.tx \in antedated /\ HasWaited(a.tx)
      /\ GetProviderTransaction(a.op.provider, a.op.provider, a.op.ext) = found
      /\ a.status \in {txn[a.tx].status, "PENDING_REFERENCE"}
      /\ \A other \in Providers \ {a.op.provider, WalletService} :
           /\ GetTransaction(other, a.tx).err = "NOT_FOUND"
           /\ GetProviderTransaction(other, other, a.op.ext) # [err |-> "", tx |-> a.tx]
  BY DEF AnswersCanBeRead
<1> DEFINE a == answer[s]
           id == a.tx
           op == a.op
<1>1. a.err = "" /\ a.status \in Lasting
  BY DEF ReadInv
<1>2. /\ id \in Rows /\ txn[id].op = op
      /\ a.status \in Terminal => txn[id].status = a.status
  BY <1>1 DEF AnswersAreDurable
<1>3. op \in Operation
  BY DEF KnownInv, BooksInv, TypeOK, SessionsOK, Answer
<1>4. ColumnsFit(txn[id]) /\ (id \in antedated => HasWaited(id))
  BY <1>2 DEF ReadInv, Readable, DatesInv
<1>5. op.kind # "OPENING"
  BY <1>3 DEF Operation, BusinessKinds
<1> HIDE DEF id, op
<1> DEFINE found == GetTransaction(op.provider, id)
<1>6. found = scanTransaction({id})
  <2>1. {i \in Rows \cap {id} : op.provider \in {WalletService, txn[i].op.provider}} = {id}
    BY <1>2
  <2> QED BY <2>1 DEF GetTransaction
<1> HIDE DEF found
<1>7. IF found.err = "" THEN found.tx = id ELSE id \in antedated /\ HasWaited(id)
  BY <1>4, <1>6, OneIsScanned
<1>8. GetProviderTransaction(op.provider, op.provider, op.ext) = found
  <2>1. Named(op.provider, op.ext) = {id}
    BY <1>2, <1>5 DEF Named, IdentitiesAreUnique, SameIdentity
  <2> QED BY <1>6, <2>1 DEF GetProviderTransaction
<1>9. a.status \in {txn[id].status, "PENDING_REFERENCE"}
  BY <1>1, <1>2 DEF Lasting
<1>10. ASSUME NEW other \in Providers \ {op.provider, WalletService}
       PROVE  /\ GetTransaction(other, id).err = "NOT_FOUND"
              /\ GetProviderTransaction(other, other, op.ext) # [err |-> "", tx |-> id]
  <2>1. {i \in Rows \cap {id} : other \in {WalletService, txn[i].op.provider}} = {}
    BY <1>2
  <2>2. GetTransaction(other, id) = Err("NOT_FOUND")
    BY <2>1 DEF GetTransaction, scanTransaction
  <2>3. id \notin Named(other, op.ext)
    BY <1>2 DEF Named
  <2>4. scanTransaction(Named(other, op.ext)) # [err |-> "", tx |-> id]
    <3> DEFINE ids == Named(other, op.ext)
               i == CHOOSE j \in ids : TRUE
    <3> HIDE DEF ids
    <3>1. ids # {} => i \in ids
      OBVIOUS
    <3>2. \/ scanTransaction(ids).err # ""
          \/ ids # {} /\ scanTransaction(ids).tx = i
      BY DEF scanTransaction, Err
    <3> HIDE DEF i
    <3> DEFINE it == [err |-> "", tx |-> id]
    <3>3. it.err = "" /\ it.tx = id
      OBVIOUS
    <3> HIDE DEF it
    <3>4. scanTransaction(ids) # it
      BY <2>3, <3>1, <3>2, <3>3 DEF ids
    <3> QED BY <3>4 DEF ids, it
  <2>5. GetProviderTransaction(other, other, op.ext) = scanTransaction(Named(other, op.ext))
    BY DEF GetProviderTransaction
  <2>6. Err("NOT_FOUND").err = "NOT_FOUND"
    BY DEF Err
  <2> QED BY <2>2, <2>4, <2>5, <2>6
<1> QED BY <1>7, <1>8, <1>9, <1>10 DEF id, op, found

\* What readers rest on holds whatever the clocks of the resolvers say.
LEMMA ReadingHolds == ReadsSpec => [](KnownInv /\ Sound /\ ReadInv /\ DatesInv)
<1>1. ReadsInit => DatesInv
  BY DEF ReadsInit, DatesInv
<1>2. Spec => []ReadInv
  BY ReadAtFirst, ReadKept, ReferencesAreHeld, PTL DEF Spec
<1> QED BY <1>1, <1>2, DatesKept, ReadsAreWagering, ReferencesAreHeld, StoryHolds, PTL
        DEF ReadsSpec

\* Whoever was given the id of a transaction finds it, by this id and by its own external
\* id, unless it has waited and a resolver dated it before its creation; and other providers
\* do not (canReadTransaction, GetTransactionByExternal, wager_transaction.go:106).
THEOREM AnswersStayReadable == ReadsSpec => []AnswersCanBeRead
BY ReadingHolds, AnswersAreFound, ReadsAreWagering, AnswersStayTrue, IdentitiesStayUnique, PTL

-----------------------------------------------------------------------------
\* Reconciliation.

\* A set of naturals that has zero and with every number the next has them all.
LEMMA Induction ==
  ASSUME NEW S, 0 \in S, \A n \in Nat : n \in S => n + 1 \in S
  PROVE  Nat \subseteq S
<1> DEFINE Less == {ss \in Nat \X Nat : ss[1] < ss[2]}
           Rest == Nat \ S
<1>1. IsWellFoundedOn(Less, Nat)
  BY NatLessThanWellFounded DEF OpToRel
<1>2. ASSUME Rest # {}
      PROVE  FALSE
  <2>1. PICK n \in Rest : \A m \in Rest : <<m, n>> \notin Less
    <3> HIDE DEF Less, Rest
    <3>1. Rest \subseteq Nat
      BY DEF Rest
    <3> QED BY <1>1, <1>2, <3>1, WFMin
  <2>2. n # 0 /\ n \in Nat
    OBVIOUS
  <2>3. n - 1 \in Nat /\ <<n - 1, n>> \in Less
    BY <2>2
  <2>4. n - 1 \in S
    BY <2>1, <2>3
  <2>5. (n - 1) + 1 \in S
    BY <2>3, <2>4
  <2> QED BY <2>2, <2>5
<1> QED BY <1>2

\* The entries of a ledger without gaps add up to where the last one ends, and their
\* versions count them.
LEMMA EntriesAddUp ==
  ASSUME TypeOK, Reconciled, NEW w \in Wallets, ledger[w] # <<>>
  PROVE  /\ SumOfEntries(w) = ledger[w][Len(ledger[w])].after
         /\ ledger[w][Len(ledger[w])].version = ledger[w][1].version + Len(ledger[w]) - 1
<1> DEFINE l == ledger[w]
           end == Len(l)
           sum == CHOOSE f : f = [n \in 0..end |-> IF n = 0 THEN 0 ELSE f[n - 1] + Signed(l[n])]
           upto == [n \in 0..end |-> IF n = 0 THEN 0 ELSE l[n].after]
<1>1. SumOfEntries(w) = sum[end]
  BY DEF SumOfEntries
<1>2. l \in Seq(Entry)
  BY DEF TypeOK, TablesOK
<1>3. end \in Nat \ {0} /\ DOMAIN l = 1..end
  BY <1>2
<1>4. \A i \in 1..end : Chained(l, i) /\ l[i] \in Entry
  BY <1>2, <1>3 DEF Reconciled
<1> HIDE DEF l, end
<1>5. ASSUME NEW i \in 1..end
      PROVE  /\ l[i].direction \in {"CREDIT", "DEBIT"}
             /\ l[i].amount \in Int /\ l[i].before \in Int /\ l[i].after \in Int
             /\ l[i].version \in Int
  BY <1>4, Integers64 DEF Entry
<1>6. \A n \in 1..end : upto[n] = upto[n - 1] + Signed(l[n])
  <2>1. ASSUME NEW n \in 1..end
        PROVE  upto[n] = upto[n - 1] + Signed(l[n])
    <3>1. l[n].after = l[n].before + Signed(l[n])
      BY <1>4, <1>5 DEF Chained, Signed
    <3>2. upto[n] = l[n].after /\ upto[n - 1] = IF n = 1 THEN 0 ELSE l[n - 1].after
      BY <1>3
    <3>3. l[n].before = upto[n - 1]
      BY <1>4, <3>2 DEF Chained
    <3> QED BY <3>1, <3>2, <3>3
  <2> QED BY <2>1
<1>7. upto = [n \in 0..end |-> IF n = 0 THEN 0 ELSE upto[n - 1] + Signed(l[n])]
  <2>1. \A n \in 0..end : n = 0 \/ n \in 1..end
    BY <1>3
  <2>2. upto[0] = 0
    BY <1>3
  <2>3. \A n \in 0..end : upto[n] = IF n = 0 THEN 0 ELSE upto[n - 1] + Signed(l[n])
    BY <1>6, <2>1, <2>2
  <2>4. upto = [n \in 0..end |-> upto[n]]
    OBVIOUS
  <2> HIDE DEF upto
  <2> QED BY <2>3, <2>4
<1> HIDE DEF upto
<1>8. sum = [n \in 0..end |-> IF n = 0 THEN 0 ELSE sum[n - 1] + Signed(l[n])]
  BY <1>7
<1> HIDE DEF sum
<1> DEFINE S == {n \in Nat : n \in 0..end => sum[n] = upto[n]}
           V == {n \in Nat : n + 1 \in 1..end => l[n + 1].version = l[1].version + n}
<1>9. Nat \subseteq S
  <2>1. 0 \in S
    BY <1>3, <1>7, <1>8
  <2>2. ASSUME NEW n \in Nat, n \in S
        PROVE  n + 1 \in S
    <3>1. ASSUME n + 1 \in 0..end
          PROVE  sum[n + 1] = upto[n + 1]
      <4>1. n \in 0..end /\ n + 1 # 0 /\ (n + 1) - 1 = n
        BY <1>3, <3>1
      <4>2. sum[n + 1] = sum[n] + Signed(l[n + 1])
        BY <1>8, <3>1, <4>1
      <4>3. upto[n + 1] = upto[n] + Signed(l[n + 1])
        BY <1>7, <3>1, <4>1
      <4> QED BY <2>2, <4>1, <4>2, <4>3
    <3> QED BY <3>1
  <2> HIDE DEF S
  <2> QED BY <2>1, <2>2, Induction
<1>10. Nat \subseteq V
  <2>1. 0 \in V
    BY <1>3, <1>5
  <2>2. ASSUME NEW n \in Nat, n \in V
        PROVE  n + 1 \in V
    <3>1. ASSUME (n + 1) + 1 \in 1..end
          PROVE  l[(n + 1) + 1].version = l[1].version + (n + 1)
      <4>1. n + 1 \in 1..end /\ (n + 1) + 1 # 1 /\ ((n + 1) + 1) - 1 = n + 1 /\ 1 \in 1..end
        BY <1>3, <3>1
      <4>2. l[(n + 1) + 1].version = l[n + 1].version + 1
        BY <1>4, <3>1, <4>1 DEF Chained
      <4>3. l[n + 1].version = l[1].version + n
        BY <2>2, <4>1
      <4> QED BY <1>5, <4>1, <4>2, <4>3
    <3> QED BY <3>1
  <2> HIDE DEF V
  <2> QED BY <2>1, <2>2, Induction
<1>11. sum[end] = l[end].after
  <2>1. end \in S /\ end \in 0..end
    BY <1>3, <1>9
  <2> QED BY <1>3, <2>1 DEF upto
<1>12. l[end].version = l[1].version + end - 1
  <2>1. end - 1 \in V /\ (end - 1) + 1 = end /\ end \in 1..end /\ 1 \in 1..end
    BY <1>3, <1>10
  <2> QED BY <1>3, <1>5, <2>1
<1> QED BY <1>1, <1>11, <1>12 DEF l, end

\* An empty ledger adds up to nothing.
LEMMA NoEntries ==
  ASSUME NEW w \in Wallets, ledger[w] = <<>>
  PROVE  SumOfEntries(w) = 0
<1> DEFINE l == ledger[w]
           end == Len(l)
           sum == CHOOSE f : f = [n \in 0..end |-> IF n = 0 THEN 0 ELSE f[n - 1] + Signed(l[n])]
           none == [n \in 0..end |-> 0]
<1>1. SumOfEntries(w) = sum[end]
  BY DEF SumOfEntries
<1>2. end = 0
  OBVIOUS
<1> HIDE DEF end, l
<1>3. none = [n \in 0..end |-> IF n = 0 THEN 0 ELSE none[n - 1] + Signed(l[n])]
  BY <1>2
<1> HIDE DEF none
<1>4. sum = [n \in 0..end |-> IF n = 0 THEN 0 ELSE sum[n - 1] + Signed(l[n])]
  BY <1>3
<1> HIDE DEF sum
<1>5. sum[0] = 0
  BY <1>2, <1>4
<1> QED BY <1>1, <1>2, <1>5

\* No amount less itself overflows.
LEMMA SameLessSame ==
  ASSUME NEW m \in Money, m.minor >= 0
  PROVE  Sub(m, InCurrency(m.currency, m.minor)).err = "" /\
         IsZero(Sub(m, InCurrency(m.currency, m.minor)).money)
<1> DEFINE n == m.minor
           same == InCurrency(m.currency, n)
<1>1. n \in Int64 /\ n >= 0 /\ same.minor = n /\ same.currency = m.currency
  BY DEF Money, InCurrency
<1> HIDE DEF n
<1>2. ~SubOverflows(n, n) /\ Wrap(n - n) = 0
  BY <1>1, MaxIntAssumption DEF SubOverflows, Wrap, Int64, MinInt
<1> HIDE DEF same
<1>3. Sub(m, same) = Ok(InCurrency(m.currency, Wrap(n - n)))
  BY <1>1, <1>2 DEF Sub, n
<1> DEFINE zero == InCurrency(m.currency, Wrap(n - n))
<1>4. zero.minor = 0
  BY <1>2 DEF InCurrency
<1> HIDE DEF zero
<1>5. Ok(zero).err = "" /\ Ok(zero).money = zero
  BY DEF Ok
<1> QED BY <1>3, <1>4, <1>5 DEF IsZero, same, n, zero

\* A reconciliation finds nothing wrong with books that are in order.
LEMMA BooksReconcile ==
  ASSUME TypeOK, Reconciled, NEW w \in Wallets, wallet[w] # NONE
  PROVE  Reconciles(w)
<1> DEFINE stored == wallet[w].balance
           l == ledger[w]
           r == ReconcileWallet(w)
           difference == Sub(stored, InCurrency(stored.currency, SumOfEntries(w)))
<1>1. wallet[w] \in WalletRow /\ l \in Seq(Entry) /\ Balances(wallet[w], l)
  BY DEF TypeOK, TablesOK, Reconciled
<1>2. SumOfEntries(w) = stored.minor
  BY <1>1, NoEntries, EntriesAddUp DEF Balances
<1>3. stored \in Money /\ stored.minor >= 0 /\ wallet[w].version \in Int
  BY <1>1 DEF WalletRow, Balances
<1>4. difference.err = "" /\ IsZero(difference.money)
  BY <1>2, <1>3, SameLessSame
<1>5. SumOfEntries(w) \in Int64
  BY <1>2, <1>3 DEF Money
<1>6. Len(l) \in {wallet[w].version - 1, wallet[w].version}
  <2>1. CASE l = <<>>
    BY <1>1, <2>1 DEF Balances
  <2>2. CASE l # <<>>
    <3>1. Len(l) \in Nat /\ wallet[w].version = l[1].version + Len(l) - 1
      BY <1>1, <2>2, EntriesAddUp DEF Balances
    <3>2. l[1].version \in {1, 2}
      BY <2>2 DEF Reconciled
    <3> QED BY <3>1, <3>2
  <2> QED BY <2>1, <2>2
<1> HIDE DEF stored, difference
<1>7. r = [err |-> "", consistent |-> IsZero(difference.money), checked |-> Len(l)]
  BY <1>4, <1>5 DEF ReconcileWallet, difference, stored
<1> HIDE DEF r, l
<1>8. r.err = "" /\ r.consistent /\ r.checked = Len(l)
  BY <1>4, <1>7
<1> QED BY <1>6, <1>8 DEF Reconciles, r, l

\* Every transaction the service wrote passes the checks on reading, but for one that has
\* waited and that a resolver dated before its creation; and at every moment the balances and
\* the entries agree (ReconcileWallet, validateWagerTransaction).
THEOREM RecordsStayReadable == ReadsSpec => []RecordsCanBeRead
<1>1. ASSUME TypeOK, Reconciled, ReadInv, DatesInv
      PROVE  RecordsCanBeRead
  <2>1. ASSUME NEW id \in Rows, GetTransaction(WalletService, id).err # ""
        PROVE  id \in antedated /\ HasWaited(id)
    <3>1. {i \in Rows \cap {id} : WalletService \in {WalletService, txn[i].op.provider}} = {id}
      BY <2>1
    <3>2. GetTransaction(WalletService, id) = scanTransaction({id})
      BY <3>1 DEF GetTransaction
    <3>3. ColumnsFit(txn[id])
      BY <1>1, <2>1 DEF ReadInv, Readable
    <3> QED BY <1>1, <2>1, <3>2, <3>3, OneIsScanned DEF DatesInv
  <2> QED BY <1>1, <2>1, BooksReconcile DEF RecordsCanBeRead
<1>2. KnownInv => TypeOK /\ Reconciled
  BY DEF KnownInv, BooksInv
<1> QED BY <1>1, <1>2, ReadingHolds, PTL
=============================================================================
