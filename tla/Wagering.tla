------------------------------ MODULE Wagering ------------------------------
(***************************************************************************)
(* store.go and the tables it writes: the HTTP handlers, the SQS consumer  *)
(* and the resolver of pending references of every replica, each running   *)
(* one PostgreSQL transaction at a time at READ COMMITTED.                 *)
(*                                                                         *)
(* A session takes one step per statement it sends.  A statement sees what *)
(* was committed when it starts, and waits for the sessions that hold a    *)
(* row or a unique key it needs (Blockers).  What a session has written is *)
(* kept in plan until Commit makes all of it visible at once; Abort is the *)
(* deferred Rollback, a lost connection or the death of the process.       *)
(*                                                                         *)
(* Time: a session reads the clock of its own machine when it decides, and *)
(* gets any member of Times.  When a pending transaction is due again is   *)
(* left open, so one may be claimed at any moment.                         *)
(***************************************************************************)
EXTENDS Wager

CONSTANTS Clients,      \* goroutines serving POST /wagering/transactions
          Consumers,    \* InputConsumer.Run, one per replica
          Resolvers,    \* ReferenceResolver.Run, one per replica
          Requests,     \* operations clients and game providers send
          MsgIds, Digests,
          Messages,     \* what may be received from the input queue
          Openings,     \* wallets clients ask for
          MaxAttempts   \* 10 in ResolvePendingReference

Sessions == Clients \cup Consumers \cup Resolvers

\* An envelope: the SHA-256 of its bytes stands for them.
Message == [id : MsgIds, digest : Digests, op : Operation]

\* OpenWallet inputs: the id is uuid.New() in the program and given here.
Opening == [wallet : Wallets, player : Players, money : Money]

ASSUME RequestsAssumption == Requests \subseteq Operation
ASSUME MessagesAssumption ==
  /\ Messages \subseteq Message
  /\ \A m, n \in Messages : m.digest = n.digest => m = n    \* SHA-256
ASSUME OpeningsAssumption == Openings \subseteq Opening
ASSUME MaxAttemptsAssumption == MaxAttempts \in Nat \ {0}
ASSUME SessionsAssumption ==
  /\ Clients \cap Consumers = {}
  /\ Clients \cap Resolvers = {}
  /\ Consumers \cap Resolvers = {}

VARIABLES
  wallet,   \* wallets
  txn,      \* wager_transactions
  ledger,   \* wallet_ledger_entries of each wallet, ORDER BY wallet_version
  inbox,    \* inbox_messages: the digest stored for a message id
  outbox,   \* outbox_events of each wallet, in the order they were committed
  pc,       \* the statement a session sends next
  job,      \* what it works on
  held,     \* the wallet row it locked and read
  ref,      \* the referenced transaction it read
  plan,     \* its decision and the row it writes
  answer    \* what its last job returned

tables == <<wallet, txn, ledger, inbox, outbox>>
vars == <<wallet, txn, ledger, inbox, outbox, pc, job, held, ref, plan, answer>>

-----------------------------------------------------------------------------
\* Types.

OpeningOp == [provider : {NONE}, ext : {NONE}, key : {NONE}, player : Players,
              wallet : Wallets, round : {NONE}, kind : {"OPENING"},
              money : Money, ref : {NONE}]

\* The idempotency key and the rest of an operation are columns of its row.
TxnRow == [op : Operation \cup OpeningOp, status : Statuses, failure : Codes \cup {""},
           refTx : TxIds \cup {NONE}, balance : Int64, attempts : 0..(MaxAttempts - 1)]

ASSUME NoneIsNoRowAssumption ==
  /\ NONE \notin Digests
  /\ NONE \notin Message
  /\ NONE \notin WalletRow
  /\ NONE \notin TxnRow
  /\ NONE \notin Reference

Entry == [tx : TxIds, direction : {"DEBIT", "CREDIT"}, amount : Int64,
          before : Int64, after : Int64, version : 1..MaxInt, at : Times]

\* Only a balance event carries a wallet version.
Event == [type : Statuses \cup {"BALANCE"}, tx : TxIds, version : 0..MaxInt]

Job == [via : {"http", "inbox", "fail", "resolve"}, op : Operation,
        msg : Message \cup {NONE}, tx : TxIds \cup {NONE}]

Plan == [action : {"insert", "update", "postpone", "replay"}, tx : TxIds \cup {NONE},
         row : TxnRow, decision : Decision]

Answer == [op : Operation, err : {"", "INVALID_INPUT", "NOT_FOUND", "CONFLICT",
                                  "INVALID_TRANSACTION", "UNAVAILABLE"},
           tx : TxIds \cup {NONE}, status : Statuses \cup {""},
           failure : Codes \cup {""}, balance : Int64, replay : BOOLEAN]

\* The statements of a transaction, in the order they are sent.
BeforeWallet == {"inbox", "wallet"}
Reading == {"lookup", "reference", "reversal", "decide"}
Writing == {"insert", "commit"}
Statements == BeforeWallet \cup Reading \cup Writing

Rows == {id \in TxIds : txn[id] # NONE}

\* Only operations wait, never openings.
TablesOK ==
  /\ wallet \in [Wallets -> WalletRow \cup {NONE}]
  /\ txn \in [TxIds -> TxnRow \cup {NONE}]
  /\ ledger \in [Wallets -> Seq(Entry)]
  /\ inbox \in [MsgIds -> Digests \cup {NONE}]
  /\ outbox \in [Wallets -> Seq(Event)]
  /\ \A id \in Rows : txn[id].status = "PENDING_REFERENCE" => txn[id].op \in Operation

SessionsOK ==
  /\ pc \in [Sessions -> Statements \cup {"idle"}]
  /\ job \in [Sessions -> Job \cup {NONE}]
  /\ held \in [Sessions -> WalletRow \cup {NONE}]
  /\ ref \in [Sessions -> Reference \cup {NONE}]
  /\ plan \in [Sessions -> Plan \cup {NONE}]
  /\ answer \in [Sessions -> Answer \cup {NONE}]

\* What a session in the middle of a transaction has from its earlier statements.
SessionOK(s) ==
  /\ pc[s] # "idle" => /\ job[s] \in Job
                       /\ job[s].via = "inbox" => job[s].msg # NONE
                       /\ job[s].via = "resolve" => /\ job[s].tx \in Rows
                                                     /\ job[s].op = txn[job[s].tx].op
  /\ pc[s] \in Reading \cup Writing => held[s] \in WalletRow
  /\ pc[s] = "reversal" => ref[s] \in Reference
  /\ pc[s] \in Writing =>
       /\ plan[s] \in Plan
       /\ plan[s].action # "replay" => plan[s].row.op = job[s].op
       /\ plan[s].action # "insert" => /\ plan[s].tx \in Rows
                                       /\ plan[s].row.op = txn[plan[s].tx].op

\* Every variable has the type of the column or the Go value it stands for.
TypeOK == TablesOK /\ SessionsOK /\ \A s \in Sessions : SessionOK(s)

-----------------------------------------------------------------------------
\* Rows.

\* Pending selected by what it is not.
Unprocessed == {id \in Rows : txn[id].status # "PROCESSED"}

Pending == {id \in Rows : txn[id].status = "PENDING_REFERENCE"}

\* A column compared with NULL is never equal: openings match no operation.
SameIdentity(op, other) ==
  op.provider = other.provider /\ (op.key = other.key \/ op.ext = other.ext)

Existing(op) == {id \in Rows : SameIdentity(op, txn[id].op)}

Named(provider, ext) == {id \in Rows : txn[id].op.provider = provider /\ txn[id].op.ext = ext}

\* AlreadyReversed looking for refunds alone.
AlreadyRefunded(id) ==
  \E r \in Rows : /\ txn[r].refTx = id
                  /\ txn[r].status = "PROCESSED"
                  /\ txn[r].op.kind = "REFUND"

AlreadyReversed(id) ==
  \E r \in Rows : /\ txn[r].refTx = id
                  /\ txn[r].status = "PROCESSED"
                  /\ txn[r].op.kind \in Reversals

NewTxId == CHOOSE id \in TxIds : txn[id] = NONE

-----------------------------------------------------------------------------
\* Locks.

HoldsInbox(t, id) ==
  pc[t] \notin {"idle", "inbox"} /\ job[t].via = "inbox" /\ job[t].msg.id = id

\* HoldsWallet if the wallet were read without FOR UPDATE and locked by the first
\* write.
HoldsWalletToWrite(t, w) == pc[t] \in Writing /\ job[t].op.wallet = w

HoldsWallet(t, w) == pc[t] \in Reading \cup Writing /\ job[t].op.wallet = w

\* An uncommitted row makes an INSERT of the same unique key wait.
HoldsIdentity(t, op) ==
  pc[t] = "commit" /\ plan[t].action = "insert" /\ SameIdentity(job[t].op, op)

\* HoldsPending if the row were claimed without FOR UPDATE and locked by its UPDATE.
HoldsPendingToWrite(t, id) ==
  pc[t] \in Writing /\ job[t].via = "resolve" /\ job[t].tx = id

HoldsPending(t, id) == pc[t] # "idle" /\ job[t].via = "resolve" /\ job[t].tx = id

\* Blockers if the referenced transaction were read FOR UPDATE.
BlockersLockingReferences(s) ==
  {t \in Sessions \ {s} :
     \/ pc[s] = "inbox" /\ HoldsInbox(t, job[s].msg.id)
     \/ pc[s] = "wallet" /\ HoldsWallet(t, job[s].op.wallet)
     \/ pc[s] = "reference" /\ \E id \in Named(job[s].op.provider, job[s].op.ref) :
                                   HoldsPending(t, id)
     \/ pc[s] = "insert" /\ HoldsIdentity(t, job[s].op)}

\* The sessions the next statement of s waits for.
Blockers(s) ==
  {t \in Sessions \ {s} :
     \/ pc[s] = "inbox" /\ HoldsInbox(t, job[s].msg.id)
     \/ pc[s] = "wallet" /\ HoldsWallet(t, job[s].op.wallet)
     \/ pc[s] = "insert" /\ HoldsIdentity(t, job[s].op)}

-----------------------------------------------------------------------------
\* Moves of one session.

Goto(s, statement) == pc' = [pc EXCEPT ![s] = statement]

Begin(s, j, statement) ==
  /\ pc[s] = "idle"
  /\ Goto(s, statement)
  /\ job' = [job EXCEPT ![s] = j]
  /\ answer' = [answer EXCEPT ![s] = NONE]
  /\ UNCHANGED <<tables, held, ref, plan>>

\* The transaction is over, committed or not, and the caller has a.
End(s, a) ==
  /\ Goto(s, "idle")
  /\ job' = [job EXCEPT ![s] = NONE]
  /\ held' = [held EXCEPT ![s] = NONE]
  /\ ref' = [ref EXCEPT ![s] = NONE]
  /\ plan' = [plan EXCEPT ![s] = NONE]
  /\ answer' = [answer EXCEPT ![s] = a]

Refusal(op, err) == [op |-> op, err |-> err, tx |-> NONE, status |-> "", failure |-> "",
                     balance |-> 0, replay |-> FALSE]

\* An error return: the deferred Rollback leaves the tables alone.
Refuse(s, err) == End(s, Refusal(job[s].op, err)) /\ UNCHANGED tables

Init ==
  /\ wallet = [w \in Wallets |-> NONE]
  /\ txn = [id \in TxIds |-> NONE]
  /\ ledger = [w \in Wallets |-> <<>>]
  /\ inbox = [m \in MsgIds |-> NONE]
  /\ outbox = [w \in Wallets |-> <<>>]
  /\ pc = [s \in Sessions |-> "idle"]
  /\ job = [s \in Sessions |-> NONE]
  /\ held = [s \in Sessions |-> NONE]
  /\ ref = [s \in Sessions |-> NONE]
  /\ plan = [s \in Sessions |-> NONE]
  /\ answer = [s \in Sessions |-> NONE]

-----------------------------------------------------------------------------
\* Jobs.

\* Wager.Process: a malformed operation is answered without touching the store.
Request(s, op) ==
  /\ ValidateOperation(op)
  /\ Begin(s, [via |-> "http", op |-> op, msg |-> NONE, tx |-> NONE], "wallet")

RefuseInput(s, op) ==
  /\ pc[s] = "idle"
  /\ ~ValidateOperation(op)
  /\ answer' = [answer EXCEPT ![s] = Refusal(op, "INVALID_INPUT")]
  /\ UNCHANGED <<tables, pc, job, held, ref, plan>>

\* InputConsumer.handle and Wager.ProcessInbox, for a message received any number
\* of times.
Deliver(s, m) ==
  /\ ValidateOperation(m.op)
  /\ Begin(s, [via |-> "inbox", op |-> m.op, msg |-> m, tx |-> NONE], "inbox")

\* recordPermanentFailure and Wager.Fail, once the consumer's retries are used up.
\* No inbox row is written on this path.
GiveUp(s, m) ==
  /\ ValidateOperation(m.op)
  /\ Begin(s, [via |-> "fail", op |-> m.op, msg |-> NONE, tx |-> NONE], "wallet")

\* Claim leaving out the rows on their last attempt.
ClaimBelowLimit(s, id) ==
  /\ id \in Pending
  /\ txn[id].attempts + 1 < MaxAttempts
  /\ \A t \in Sessions : ~HoldsPending(t, id)
  /\ Begin(s, [via |-> "resolve", op |-> txn[id].op, msg |-> NONE, tx |-> id], "wallet")

\* SELECT ... WHERE status = 'PENDING_REFERENCE' ... FOR UPDATE SKIP LOCKED.
Claim(s, id) ==
  /\ id \in Pending
  /\ \A t \in Sessions : ~HoldsPending(t, id)
  /\ Begin(s, [via |-> "resolve", op |-> txn[id].op, msg |-> NONE, tx |-> id], "wallet")

\* AcquireInbox in a transaction of its own.
AcquireInboxAtOnce(s) ==
  /\ pc[s] = "inbox"
  /\ Blockers(s) = {}
  /\ IF inbox[job[s].msg.id] \in {NONE, job[s].msg.digest}
     THEN /\ inbox' = [inbox EXCEPT ![job[s].msg.id] = job[s].msg.digest]
          /\ Goto(s, "wallet")
          /\ UNCHANGED <<wallet, txn, ledger, outbox, job, held, ref, plan, answer>>
     ELSE Refuse(s, "CONFLICT")

\* INSERT ... ON CONFLICT DO NOTHING and SELECT ... FOR UPDATE of the inbox row.
AcquireInbox(s) ==
  /\ pc[s] = "inbox"
  /\ Blockers(s) = {}
  /\ IF inbox[job[s].msg.id] \in {NONE, job[s].msg.digest}
     THEN Goto(s, "wallet") /\ UNCHANGED <<tables, job, held, ref, plan, answer>>
     ELSE Refuse(s, "CONFLICT")

-----------------------------------------------------------------------------
\* The statements of executeTx and ResolvePendingReference.

\* SELECT ... FROM wallets ... FOR UPDATE.
LockWallet(s) ==
  /\ pc[s] = "wallet"
  /\ Blockers(s) = {}
  /\ LET w == job[s].op.wallet IN
     IF wallet[w] = NONE THEN Refuse(s, "NOT_FOUND")
     ELSE /\ held' = [held EXCEPT ![s] = wallet[w]]
          /\ Goto(s, IF job[s].via = "resolve" THEN "reference" ELSE "lookup")
          /\ UNCHANGED <<tables, job, ref, plan, answer>>

\* IsSameRequest without the comparison of the idempotency keys.
HasSameHash(op, row) == Hash(row.op) = Hash(op)

IsSameRequest(op, row) == Hash(row.op) = Hash(op) /\ row.op.key = op.key

\* The answer of an operation already recorded, read from its row.
Replay(s, id) ==
  [action |-> "replay", tx |-> id, row |-> txn[id],
   decision |-> Keeps(held[s], txn[id].status, txn[id].failure)]

\* SELECT ... WHERE provider_id = $1 AND (idempotency_key = $2 OR
\* external_transaction_id = $3) LIMIT 1: any of the rows that match.
Lookup(s) ==
  /\ pc[s] = "lookup"
  /\ LET op == job[s].op IN
     \/ /\ Existing(op) = {}
        /\ Goto(s, IF op.ref = NONE THEN "decide" ELSE "reference")
        /\ UNCHANGED <<tables, job, held, ref, plan, answer>>
     \/ \E id \in Existing(op) :
          IF IsSameRequest(op, txn[id])
          THEN /\ plan' = [plan EXCEPT ![s] = Replay(s, id)]
               /\ Goto(s, "commit")
               /\ UNCHANGED <<tables, job, held, ref, answer>>
          ELSE Refuse(s, "CONFLICT")

\* SELECT ... WHERE provider_id = $1 AND external_transaction_id = $2, no lock.
ReadReference(s) ==
  /\ pc[s] = "reference"
  /\ LET named == Named(job[s].op.provider, job[s].op.ref) IN
     \/ /\ named = {}
        /\ Goto(s, "decide")
        /\ UNCHANGED <<tables, job, held, ref, plan, answer>>
     \/ \E id \in named :
          /\ ref' = [ref EXCEPT ![s] =
               [id |-> id, kind |-> txn[id].op.kind, status |-> txn[id].status,
                wallet |-> txn[id].op.wallet, player |-> txn[id].op.player,
                round |-> txn[id].op.round, money |-> txn[id].op.money,
                reversed |-> FALSE]]
          /\ Goto(s, "reversal")
          /\ UNCHANGED <<tables, job, held, plan, answer>>

\* SELECT EXISTS(... status = 'PROCESSED' AND kind IN ('REFUND', 'ROLLBACK')).
ReadReversal(s) ==
  /\ pc[s] = "reversal"
  /\ ref' = [ref EXCEPT ![s].reversed = AlreadyReversed(ref[s].id)]
  /\ Goto(s, "decide")
  /\ UNCHANGED <<tables, job, held, plan, answer>>

RowFrom(op, d) ==
  [op |-> op, status |-> d.status, failure |-> d.failure, refTx |-> d.refTx,
   balance |-> d.wallet.balance.minor, attempts |-> 0]

\* executeTx: decide, build the transaction, go on to the INSERT.
DecideNew(s) ==
  /\ pc[s] = "decide"
  /\ job[s].via # "resolve"
  /\ \E now \in Times :
       LET op == job[s].op
           d == IF job[s].via = "fail" THEN Fail(held[s])
                ELSE Decide(op, held[s], ref[s], now) IN
       IF ~TransitionAllows(op, d) THEN Refuse(s, "INVALID_TRANSACTION")
       ELSE /\ plan' = [plan EXCEPT ![s] = [action |-> "insert", tx |-> NONE,
                                            row |-> RowFrom(op, d), decision |-> d]]
            /\ Goto(s, "insert")
            /\ UNCHANGED <<tables, job, held, ref, answer>>

\* DecisionOfAttempt with one attempt too many.
DecisionOfLateAttempt(s, d) ==
  IF d.status = "PENDING_REFERENCE" /\ txn[job[s].tx].attempts = MaxAttempts
  THEN Reject(held[s], "REFERENCE_NOT_FOUND") ELSE d

\* DecisionOfAttempt giving no reason.
DecisionOfSilentAttempt(s, d) ==
  IF d.status = "PENDING_REFERENCE" /\ txn[job[s].tx].attempts + 1 >= MaxAttempts
  THEN Reject(held[s], "") ELSE d

\* The last attempt rejects what still waits for its reference.
DecisionOfAttempt(s, d) ==
  IF d.status = "PENDING_REFERENCE" /\ txn[job[s].tx].attempts + 1 >= MaxAttempts
  THEN Reject(held[s], "REFERENCE_NOT_FOUND") ELSE d

\* ResolvePendingReference: postpone the row, or settle it.  attempts counts only
\* the postponements.
DecidePending(s) ==
  /\ pc[s] = "decide"
  /\ job[s].via = "resolve"
  /\ \E now \in Times :
       LET id == job[s].tx
           d == DecisionOfAttempt(s, Decide(job[s].op, held[s], ref[s], now)) IN
       plan' = [plan EXCEPT ![s] =
         IF d.status = "PENDING_REFERENCE"
         THEN [action |-> "postpone", tx |-> id, decision |-> d,
               row |-> [txn[id] EXCEPT !.attempts = @ + 1]]
         ELSE [action |-> "update", tx |-> id, decision |-> d,
               row |-> [RowFrom(job[s].op, d) EXCEPT !.attempts = txn[id].attempts]]]
  /\ Goto(s, "commit")
  /\ UNCHANGED <<tables, job, held, ref, answer>>

\* Insert without the unique indexes on provider and identity.
InsertUnchecked(s) ==
  /\ pc[s] = "insert"
  /\ Goto(s, "commit") /\ UNCHANGED <<tables, job, held, ref, plan, answer>>

\* INSERT INTO wager_transactions: 23505 becomes ErrConflict.
Insert(s) ==
  /\ pc[s] = "insert"
  /\ Blockers(s) = {}
  /\ IF Existing(job[s].op) # {} THEN Refuse(s, "CONFLICT")
     ELSE Goto(s, "commit") /\ UNCHANGED <<tables, job, held, ref, plan, answer>>

-----------------------------------------------------------------------------
\* The end of a transaction.

EntryOf(id, op, d) ==
  [tx |-> id, direction |-> d.direction, amount |-> op.money.minor, before |-> d.before,
   after |-> d.wallet.balance.minor, version |-> d.wallet.version,
   at |-> d.wallet.updatedAt]

BalanceEvent(id, version) == [type |-> "BALANCE", tx |-> id, version |-> version]
WagerEvent(id, status) == [type |-> status, tx |-> id, version |-> 0]

\* Events announcing a transaction each time it is postponed.
EventsOfEveryAttempt(id, p) ==
  (IF p.decision.direction = "" THEN <<>>
   ELSE <<BalanceEvent(id, p.decision.wallet.version)>>)
  \o (IF p.action # "replay" /\ p.decision.status # "FAILED"
      THEN <<WagerEvent(id, p.decision.status)>> ELSE <<>>)

\* addBalanceEvent when money moved, then addWagerEvent, which is silent on FAILED.
Events(id, p) ==
  (IF p.decision.direction = "" THEN <<>>
   ELSE <<BalanceEvent(id, p.decision.wallet.version)>>)
  \o (IF p.action \in {"insert", "update"} /\ p.decision.status # "FAILED"
      THEN <<WagerEvent(id, p.decision.status)>> ELSE <<>>)

\* What the statements from INSERT or UPDATE to COMMIT leave in the tables.
Write(s, id) ==
  LET p == plan[s]
      d == p.decision
      w == job[s].op.wallet IN
  /\ txn' = IF p.action = "replay" THEN txn ELSE [txn EXCEPT ![id] = p.row]
  /\ wallet' = IF d.direction = "" THEN wallet ELSE [wallet EXCEPT ![w] = d.wallet]
  /\ ledger' = IF d.direction = "" THEN ledger
               ELSE [ledger EXCEPT ![w] = Append(@, EntryOf(id, job[s].op, d))]
  /\ outbox' = [outbox EXCEPT ![w] = @ \o Events(id, p)]
  /\ inbox' = IF job[s].via = "inbox"
              THEN [inbox EXCEPT ![job[s].msg.id] = job[s].msg.digest] ELSE inbox

\* A resolver answers nobody.
Result(s, id) ==
  IF job[s].via = "resolve" THEN NONE
  ELSE [op |-> job[s].op, err |-> "", tx |-> id, status |-> plan[s].row.status,
        failure |-> plan[s].row.failure, balance |-> plan[s].row.balance,
        replay |-> plan[s].action = "replay"]

\* The id is taken when the row becomes visible: uuid.New() never repeats one.
IdFor(s) == IF plan[s].action = "insert" THEN NewTxId ELSE plan[s].tx

CanCommit(s) ==
  pc[s] = "commit" /\ (plan[s].action = "insert" => \E id \in TxIds : txn[id] = NONE)

Commit(s) == CanCommit(s) /\ Write(s, IdFor(s)) /\ End(s, Result(s, IdFor(s)))

\* The commit happened and its acknowledgement was lost.
CommitUnheard(s) ==
  CanCommit(s) /\ Write(s, IdFor(s)) /\ End(s, Refusal(job[s].op, "UNAVAILABLE"))

Abort(s) == pc[s] # "idle" /\ Refuse(s, "UNAVAILABLE")

-----------------------------------------------------------------------------
\* Store.CreateWallet, in one step: it reads nothing, and what it writes concerns a
\* wallet nobody can name before it commits.

OpeningRow(o) ==
  [op |-> [provider |-> NONE, ext |-> NONE, key |-> NONE, player |-> o.player,
           wallet |-> o.wallet, round |-> NONE, kind |-> "OPENING",
           money |-> o.money, ref |-> NONE],
   status |-> "PROCESSED", failure |-> "", refTx |-> NONE,
   balance |-> o.money.minor, attempts |-> 0]

\* UNIQUE (player_id, currency).
Taken(o) ==
  \E w \in Wallets : /\ wallet[w] # NONE
                     /\ wallet[w].player = o.player
                     /\ wallet[w].balance.currency = o.money.currency

OpenWallet(o) ==
  /\ o.money.minor >= 0
  /\ wallet[o.wallet] = NONE
  /\ ~Taken(o)
  /\ \E now \in Times :
       /\ wallet' = [wallet EXCEPT ![o.wallet] =
            [player |-> o.player, balance |-> o.money, version |-> 1, updatedAt |-> now]]
       /\ IF IsZero(o.money) THEN UNCHANGED <<txn, ledger, outbox>>
          ELSE LET id == NewTxId IN
               /\ \E free \in TxIds : txn[free] = NONE
               /\ txn' = [txn EXCEPT ![id] = OpeningRow(o)]
               /\ ledger' = [ledger EXCEPT ![o.wallet] =
                    <<[tx |-> id, direction |-> "CREDIT", amount |-> o.money.minor,
                       before |-> 0, after |-> o.money.minor, version |-> 1, at |-> now]>>]
               /\ outbox' = [outbox EXCEPT ![o.wallet] =
                    <<WagerEvent(id, "PROCESSED"), BalanceEvent(id, 1)>>]
  /\ UNCHANGED <<inbox, pc, job, held, ref, plan, answer>>

-----------------------------------------------------------------------------

Execute(s) ==
  \/ AcquireInbox(s) \/ LockWallet(s) \/ Lookup(s) \/ ReadReference(s)
  \/ ReadReversal(s) \/ DecideNew(s) \/ DecidePending(s) \/ Insert(s) \/ Commit(s)

Next ==
  \/ \E o \in Openings : OpenWallet(o)
  \/ \E s \in Clients, op \in Requests : Request(s, op) \/ RefuseInput(s, op)
  \/ \E s \in Consumers, m \in Messages :
       Deliver(s, m) \/ GiveUp(s, m) \/ RefuseInput(s, m.op)
  \/ \E s \in Resolvers, id \in TxIds : Claim(s, id)
  \/ \E s \in Sessions : Execute(s) \/ CommitUnheard(s) \/ Abort(s)

Spec == Init /\ [][Next]_vars

\* The goroutine of a resolver claims whatever is due and sends statement after
\* statement; PostgreSQL queues those who want a row lock first come, first served; a
\* session that holds locks ends its transaction, one way or the other; and from some
\* time on the database no longer fails the resolvers.
Fairness ==
  /\ \A s \in Resolvers :
       /\ WF_vars(\E id \in TxIds : Claim(s, id))
       /\ WF_vars(Execute(s))
       /\ SF_vars(LockWallet(s))
       /\ <>[][~Abort(s)]_vars
  /\ \A s \in Clients \cup Consumers :
       WF_vars(Execute(s) \/ CommitUnheard(s) \/ Abort(s))

FairSpec == Spec /\ Fairness

-----------------------------------------------------------------------------
\* Consistency of the books.

\* Entry i of the ledger l starts where the one before it ended, and ends where its
\* amount takes it.
Chained(l, i) ==
  /\ l[i].after = IF l[i].direction = "CREDIT" THEN l[i].before + l[i].amount
                 ELSE l[i].before - l[i].amount
  /\ IF i = 1 THEN l[1].before = 0
     ELSE l[i].before = l[i - 1].after /\ l[i].version = l[i - 1].version + 1

Balances(row, l) ==
  /\ row.balance.minor >= 0
  /\ l = <<>> => row.balance.minor = 0 /\ row.version = 1
  /\ l # <<>> => row.balance.minor = l[Len(l)].after /\ row.version = l[Len(l)].version

\* The columns of a wallet agree with its last ledger entry, and each entry starts
\* where the one before it ended (what ReconcileWallet and the triggers of
\* migration 2 look for), whatever sessions interleave, crash or repeat.
Reconciled ==
  \A w \in Wallets :
    /\ wallet[w] = NONE => ledger[w] = <<>>
    /\ wallet[w] # NONE => Balances(wallet[w], ledger[w])
    /\ \A i \in DOMAIN ledger[w] : Chained(ledger[w], i)
    /\ ledger[w] # <<>> =>
         LET first == ledger[w][1] IN
         first.version = IF txn[first.tx].op.kind = "OPENING" THEN 1 ELSE 2

\* The row lock on a wallet serves its purpose: one session at a time has the wallet,
\* and what it read of it is still true when it writes.
WalletsAreLocked ==
  \A s \in Sessions : pc[s] \in Reading \cup Writing =>
    /\ held[s] = wallet[job[s].op.wallet]
    /\ \A t \in Sessions \ {s} :
         pc[t] \in Reading \cup Writing => job[t].op.wallet # job[s].op.wallet

\* The lock on a pending transaction serves its purpose: one resolver at a time works
\* on it, it is still pending when that resolver writes, and nobody else writes it.
ClaimsAreExclusive ==
  \A s \in Sessions :
    /\ pc[s] # "idle" /\ job[s].via = "resolve" =>
         /\ job[s].tx \in Pending
         /\ \A t \in Sessions \ {s} : ~HoldsPending(t, job[s].tx)
    /\ pc[s] \in Writing /\ plan[s].action \in {"update", "postpone"} =>
         job[s].via = "resolve" /\ plan[s].tx = job[s].tx

\* Sessions work on well formed operations only, and what they are about to write is a
\* movement of the wallet they read, by the amount of the operation, or none at all.
DecisionsAreMovements ==
  /\ \A s \in Sessions :
       /\ pc[s] # "idle" => ValidateOperation(job[s].op)
       /\ pc[s] \in Writing =>
            /\ Follows(plan[s].decision, held[s], job[s].op.money)
            /\ plan[s].decision.direction # "" => plan[s].action \in {"insert", "update"}
  /\ \A id \in Pending : ValidateOperation(txn[id].op)

\* The side of the ledger a processed transaction belongs on: enforce_ledger_transaction.
Side(row) ==
  CASE row.op.kind = "BET" -> "DEBIT"
    [] row.op.kind \in {"OPENING", "WIN", "REFUND"} -> "CREDIT"
    [] row.op.kind = "ROLLBACK" ->
         IF txn[row.refTx].op.kind = "BET" THEN "CREDIT" ELSE "DEBIT"

\* Money moves for processed transactions only and once for each of them: a
\* transaction has an entry, on its own wallet, for its amount, on the side its
\* kind calls for and with the balance the row reports, exactly if it was processed
\* and is no LOSS.
MoneyIsExplained ==
  /\ \A w \in Wallets, id \in Rows :
       LET entries == {i \in DOMAIN ledger[w] : ledger[w][i].tx = id}
           row == txn[id] IN
       IF row.op.wallet = w /\ row.status = "PROCESSED" /\ row.op.kind # "LOSS"
       THEN \E i \in entries :
              /\ entries = {i}
              /\ ledger[w][i].amount = row.op.money.minor
              /\ ledger[w][i].after = row.balance
              /\ ledger[w][i].direction = Side(row)
       ELSE entries = {}
  /\ \A w \in Wallets : \A i \in DOMAIN ledger[w] : ledger[w][i].tx \in Rows

\* A processed refund or rollback undoes a processed transaction of the same
\* wallet, player, round and amount, on the opposite side of the ledger, and no two
\* of them undo the same one, although nothing locks the transaction they refer to.
ReversalsUndoOnce ==
  \A id \in Rows :
    txn[id].status = "PROCESSED" /\ txn[id].op.kind \in Reversals =>
      LET undone == txn[txn[id].refTx] IN
      /\ txn[id].refTx \in Rows \ {id}
      /\ undone.status = "PROCESSED"
      /\ undone.op.ext = txn[id].op.ref
      /\ undone.op.kind \in BusinessKinds \ {"LOSS", "ROLLBACK"}
      /\ \A f \in {"wallet", "player", "round", "money", "provider"} :
           undone.op[f] = txn[id].op[f]
      /\ Side(undone) # Side(txn[id])
      /\ \A other \in Rows \ {id} :
           txn[other].status = "PROCESSED" /\ txn[other].op.kind \in Reversals =>
             txn[other].refTx # txn[id].refTx

\* The deferred triggers and the unique index on reversals, which answer with an
\* error the caller sees as an unavailable store, never fire: what a session is about
\* to commit passes protect_wallet_identity, enforce_wallet_ledger_integrity,
\* enforce_ledger_transaction, protect_financial_history and
\* wager_single_reversal_unique as the tables then stand.
TriggersStaySilent ==
  \A s \in Sessions : pc[s] = "commit" =>
    LET p == plan[s]
        d == p.decision
        old == wallet[job[s].op.wallet]
        side == IF p.row.op.kind = "ROLLBACK"
                THEN IF txn[p.row.refTx].op.kind = "BET" THEN "CREDIT" ELSE "DEBIT"
                ELSE IF p.row.op.kind = "BET" THEN "DEBIT" ELSE "CREDIT" IN
    /\ d.direction # "" =>
         /\ d.wallet.version = old.version + 1
         /\ d.wallet.balance.minor # old.balance.minor
         /\ d.before = old.balance.minor
         /\ d.wallet.player = old.player
         /\ d.wallet.balance.currency = old.balance.currency
         /\ p.row.status = "PROCESSED"
         /\ d.direction = side
    /\ p.action \in {"update", "postpone"} =>
         /\ txn[p.tx].status \notin Terminal
         /\ txn[p.tx].op = p.row.op
    /\ p.action \in {"insert", "update"} /\ p.row.op.kind \in Reversals =>
         \A r \in Rows : txn[r].status = "PROCESSED" /\ txn[r].op.kind \in Reversals =>
           p.row.refTx \notin {txn[r].refTx} \ {NONE}

\* Entries of a wallet are in the order of their timestamps, although each was dated
\* by the clock of the machine that wrote it.
LedgerIsInOrderOfTime ==
  \A w \in Wallets : \A i, j \in DOMAIN ledger[w] :
    i < j => ledger[w][i].at <= ledger[w][j].at

-----------------------------------------------------------------------------
\* What callers are told.

\* An answer with a result is backed by a committed row with the operation's hash and
\* key, and a final result never changes afterwards, whoever asks again.
AnswersAreDurable ==
  \A s \in Sessions : answer[s] # NONE /\ answer[s].err = "" =>
    LET a == answer[s] IN
    /\ a.tx \in Rows
    /\ txn[a.tx].op = a.op
    /\ a.status \in Terminal =>
         /\ txn[a.tx].status = a.status
         /\ txn[a.tx].failure = a.failure
         /\ txn[a.tx].balance = a.balance

\* CONFLICT is answered only if another request took the idempotency key or the
\* external id, or other bytes came under the same message id: never to a plain
\* repetition, however the two race.
ConflictsAreReal ==
  \A s \in Sessions : answer[s] # NONE /\ answer[s].err = "CONFLICT" =>
    \/ \E id \in Existing(answer[s].op) : txn[id].op # answer[s].op
    \/ \E m \in Messages : m.op = answer[s].op /\ inbox[m.id] \notin {NONE, m.digest}

\* A message registered in the inbox has had its effect: its operation is recorded,
\* so deleting the message from the queue loses nothing.
InboxHasOutcome ==
  \A id \in MsgIds : inbox[id] # NONE =>
    \E m \in Messages : /\ m.id = id /\ m.digest = inbox[id]
                        /\ \E t \in Rows : txn[t].op = m.op

\* A provider's external id and its idempotency key each name one transaction.
IdentitiesAreUnique ==
  \A a, b \in Rows : a # b => ~SameIdentity(txn[a].op, txn[b].op)
                              \/ txn[a].op.kind = "OPENING"

\* The outbox tells the story of each transaction once and in order: a waiting
\* transaction is announced before its outcome, the balance event comes with the
\* outcome if and only if money moved, a failed one is never announced; and the
\* balance events of a wallet are those of its ledger in version order.
OutboxTellsTheBooks ==
  /\ \A w \in Wallets : \A id \in TxIds :
       LET told == {i \in DOMAIN outbox[w] : outbox[w][i].tx = id}
           at(type) == {i \in told : outbox[w][i].type = type}
           row == txn[id] IN
       IF id \notin Rows \/ row.op.wallet # w THEN told = {}
       ELSE /\ \A i, j \in told : outbox[w][i].type = outbox[w][j].type => i = j
            /\ row.status # "FAILED" <=> at(row.status) # {}
            /\ at("BALANCE") # {} <=> \E k \in DOMAIN ledger[w] : ledger[w][k].tx = id
            /\ told \subseteq at("BALANCE") \cup at(row.status) \cup at("PENDING_REFERENCE")
            /\ \A i \in at("PENDING_REFERENCE"), j \in told : i <= j
  /\ \A w \in Wallets :
       LET changes == {i \in DOMAIN outbox[w] : outbox[w][i].type = "BALANCE"}
           Tells(i, k) == /\ outbox[w][i].version = ledger[w][k].version
                          /\ outbox[w][i].tx = ledger[w][k].tx IN
       /\ \A i \in changes : \E k \in DOMAIN ledger[w] : Tells(i, k)
       /\ \A k \in DOMAIN ledger[w] : \E i \in changes : Tells(i, k)
       /\ \A i, j \in changes : i < j => outbox[w][i].version < outbox[w][j].version

-----------------------------------------------------------------------------
\* What the documentation says of two failure codes.

\* ARCHITECTURE.md: an operation in another currency than the wallet's is refused for
\* good, and recorded as WALLET_MISMATCH.
MismatchesAreRecorded ==
  \A s \in Sessions : answer[s] # NONE /\ answer[s].err \in {"", "INVALID_TRANSACTION"} =>
    LET op == answer[s].op IN
    Mismatches(op, wallet[op.wallet]) =>
      \E id \in Existing(op) : txn[id].failure = "WALLET_MISMATCH"

\* ARCHITECTURE.md: AMOUNT_OVERFLOW means that the movement exceeds the integer.
OverflowsAreArithmetic ==
  \A id \in Rows : txn[id].failure = "AMOUNT_OVERFLOW" =>
    ~({txn[id].balance + txn[id].op.money.minor, txn[id].balance - txn[id].op.money.minor}
      \subseteq Int64)

-----------------------------------------------------------------------------
\* What a step may never do.

\* m is l with entries added, none taken away or altered.
Extends(m, l) == Len(m) >= Len(l) /\ SubSeq(m, 1, Len(l)) = l

RewritesNothing ==
  /\ \A id \in Rows : /\ txn'[id] # NONE
                      /\ txn'[id].op = txn[id].op
                      /\ txn[id].status \in Terminal => txn'[id] = txn[id]
  /\ \A w \in Wallets : Extends(ledger'[w], ledger[w])

\* A recorded operation is never altered or removed, a final status is final, and the
\* ledger only grows.
HistoryIsFrozen == [][RewritesNothing]_vars

\* No set of sessions waits for itself: each such set has a member that waits for
\* none of the others.  PostgreSQL would break a cycle by failing a transaction.
NoWaitCycle ==
  \A S \in SUBSET Sessions : S # {} => \E s \in S : Blockers(s) \cap S = {}

\* A transaction that waits for its reference is settled or rejected in the end.
PendingIsSettled == \A id \in TxIds : id \in Pending ~> id \in Rows \ Pending

\* The store keeps the promise of WagerBook.
Book == INSTANCE WagerBook WITH Requests <- Requests \cup {m.op : m \in Messages}
ImplementsWagerBook == Book!Spec
=============================================================================
