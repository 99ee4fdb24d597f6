--------------------------- MODULE WageringProofs ---------------------------
(***************************************************************************)
(* For any number of sessions, wallets and operations: what Decide may     *)
(* answer, that every variable keeps its type, and that the books stay     *)
(* consistent under the locks, whose holders never wait in a circle.       *)
(***************************************************************************)
EXTENDS Wagering, TLAPS

-----------------------------------------------------------------------------
\* The arithmetic.

\* Machine integers are integers, and zero is one.
LEMMA Integers64 ==
  /\ Int64 \subseteq Int
  /\ 0 \in Int64
  /\ 1..MaxInt \subseteq Int
BY MaxIntAssumption DEF Int64, MinInt

\* A counter below its limit can take one more step.
LEMMA NextVersion ==
  ASSUME NEW v \in 1..MaxInt, v < MaxInt
  PROVE  v + 1 \in 1..MaxInt
BY MaxIntAssumption

\* What is not less than the amount taken covers it.
LEMMA Covers ==
  ASSUME NEW m \in Int, NEW n \in Int, ~(m < n)
  PROVE  m - n >= 0
OBVIOUS

\* Amounts that are not negative add up to one.
LEMMA Grows ==
  ASSUME NEW m \in Int, NEW n \in Int, m >= 0, n > 0 \/ n = 0
  PROVE  m + n >= 0
OBVIOUS

\* A sum for which Add finds no overflow fits the machine integer, which holds it as it is.
LEMMA SumFits ==
  ASSUME NEW m \in Int64, NEW n \in Int64, ~AddOverflows(m, n)
  PROVE  m + n \in Int64 /\ Wrap(m + n) = m + n
<1>1. m + n \in Int64
  <2>1. CASE n > 0
    <3>1. Wrap(MaxInt - n) = MaxInt - n
      BY <2>1, MaxIntAssumption DEF Int64, MinInt, Wrap
    <3> QED BY <2>1, <3>1, MaxIntAssumption DEF Int64, MinInt, AddOverflows
  <2>2. CASE n < 0
    <3>1. Wrap(MinInt - n) = MinInt - n
      BY <2>2, MaxIntAssumption DEF Int64, MinInt, Wrap
    <3> QED BY <2>2, <3>1, MaxIntAssumption DEF Int64, MinInt, AddOverflows
  <2>3. CASE n = 0
    BY <2>3, MaxIntAssumption DEF Int64, MinInt
  <2> QED BY <2>1, <2>2, <2>3 DEF Int64, MinInt
<1> QED BY <1>1, MaxIntAssumption DEF Int64, MinInt, Wrap

\* The same of a difference and Sub.
LEMMA DifferenceFits ==
  ASSUME NEW m \in Int64, NEW n \in Int64, ~SubOverflows(m, n)
  PROVE  m - n \in Int64 /\ Wrap(m - n) = m - n
<1>1. m - n \in Int64
  <2>1. CASE n > 0
    <3>1. Wrap(MinInt + n) = MinInt + n
      BY <2>1, MaxIntAssumption DEF Int64, MinInt, Wrap
    <3> QED BY <2>1, <3>1, MaxIntAssumption DEF Int64, MinInt, SubOverflows
  <2>2. CASE n < 0
    <3>1. Wrap(MaxInt + n) = MaxInt + n
      BY <2>2, MaxIntAssumption DEF Int64, MinInt, Wrap
    <3> QED BY <2>2, <3>1, MaxIntAssumption DEF Int64, MinInt, SubOverflows
  <2>3. CASE n = 0
    BY <2>3, MaxIntAssumption DEF Int64, MinInt
  <2> QED BY <2>1, <2>2, <2>3 DEF Int64, MinInt
<1> QED BY <1>1, MaxIntAssumption DEF Int64, MinInt, Wrap

\* An answer carries the amount and the currency it was made of.
LEMMA OkMoney ==
  ASSUME NEW c \in Currencies, NEW x \in Int64
  PROVE  /\ Ok(InCurrency(c, x)).money \in Money
         /\ Ok(InCurrency(c, x)).money.minor = x
         /\ Ok(InCurrency(c, x)).money.currency = c
<1>1. Ok(InCurrency(c, x)).money = InCurrency(c, x)
  BY DEF Ok
<1>2. InCurrency(c, x) \in Money
  BY DEF InCurrency, Money
<1>3. InCurrency(c, x).minor = x /\ InCurrency(c, x).currency = c
  BY DEF InCurrency
<1> QED BY <1>1, <1>2, <1>3

\* A sum that Add answers is the sum, in the same currency.
LEMMA AddResult ==
  ASSUME NEW m \in Money, NEW n \in Money, Add(m, n).err = ""
  PROVE  /\ Add(m, n).money \in Money
         /\ Add(m, n).money.minor = m.minor + n.minor
         /\ Add(m, n).money.currency = m.currency
<1>1. m.minor \in Int64 /\ n.minor \in Int64 /\ m.currency \in Currencies
  BY DEF Money
<1>2. m.currency = n.currency /\ ~AddOverflows(m.minor, n.minor)
  BY DEF Add, Err
<1>3. m.minor + n.minor \in Int64 /\ Wrap(m.minor + n.minor) = m.minor + n.minor
  BY <1>1, <1>2, SumFits
<1> DEFINE x == m.minor + n.minor
<1>4. Add(m, n) = Ok(InCurrency(m.currency, x))
  BY <1>2, <1>3 DEF Add
<1>5. x \in Int64
  BY <1>3
<1> HIDE DEF x
<1>6. Ok(InCurrency(m.currency, x)).money \in Money
  BY <1>1, <1>5, OkMoney
<1>7. Ok(InCurrency(m.currency, x)).money.minor = x
  BY <1>1, <1>5, OkMoney
<1>8. Ok(InCurrency(m.currency, x)).money.currency = m.currency
  BY <1>1, <1>5, OkMoney
<1> QED BY <1>4, <1>6, <1>7, <1>8 DEF x

\* A difference that Sub answers is the difference, in the same currency.
LEMMA SubResult ==
  ASSUME NEW m \in Money, NEW n \in Money, Sub(m, n).err = ""
  PROVE  /\ Sub(m, n).money \in Money
         /\ Sub(m, n).money.minor = m.minor - n.minor
         /\ Sub(m, n).money.currency = m.currency
<1>1. m.minor \in Int64 /\ n.minor \in Int64 /\ m.currency \in Currencies
  BY DEF Money
<1>2. m.currency = n.currency /\ ~SubOverflows(m.minor, n.minor)
  BY DEF Sub, Err
<1>3. m.minor - n.minor \in Int64 /\ Wrap(m.minor - n.minor) = m.minor - n.minor
  BY <1>1, <1>2, DifferenceFits
<1> DEFINE x == m.minor - n.minor
<1>4. Sub(m, n) = Ok(InCurrency(m.currency, x))
  BY <1>2, <1>3 DEF Sub
<1>5. x \in Int64
  BY <1>3
<1> HIDE DEF x
<1>6. Ok(InCurrency(m.currency, x)).money \in Money
  BY <1>1, <1>5, OkMoney
<1>7. Ok(InCurrency(m.currency, x)).money.minor = x
  BY <1>1, <1>5, OkMoney
<1>8. Ok(InCurrency(m.currency, x)).money.currency = m.currency
  BY <1>1, <1>5, OkMoney
<1> QED BY <1>4, <1>6, <1>7, <1>8 DEF x

-----------------------------------------------------------------------------
\* The business rules.

\* A movement that succeeds leaves the balance it was given.
LEMMA MoveResult ==
  ASSUME NEW w \in WalletRow, NEW now \in Times, CanMove(w, now),
         NEW next, next.err = "", next.money \in Money,
         next.money.currency = w.balance.currency
  PROVE  MovedTo(Move(w, next, now).wallet, w, next.money.minor)
<1> DEFINE version == w.version + 1
           money == next.money
           v == [w EXCEPT !.balance = money, !.version = version, !.updatedAt = now]
<1>1. Move(w, next, now).wallet = v
  BY DEF Move
<1>2. version \in 1..MaxInt
  <2>1. w.version \in 1..MaxInt /\ w.version < MaxInt
    BY DEF WalletRow, CanMove
  <2> QED BY <2>1, NextVersion DEF version
<1> HIDE DEF version, money
<1>3. v \in WalletRow
  <2>1. money \in Money
    BY DEF money
  <2> QED BY <1>2, <2>1 DEF WalletRow
<1>4. v.balance = next.money
  BY DEF money, WalletRow
<1>5. v.version = w.version + 1
  BY DEF version, WalletRow
<1>6. v.player = w.player
  BY DEF WalletRow
<1>7. v.updatedAt = now
  BY DEF WalletRow
<1>8. now >= w.updatedAt
  BY DEF CanMove
<1> HIDE DEF v
<1> QED BY <1>1, <1>3, <1>4, <1>5, <1>6, <1>7, <1>8 DEF MovedTo

\* Why a movement failed is why the arithmetic failed.
LEMMA MoveFailure ==
  ASSUME NEW w, NEW next, NEW now, Move(w, next, now).err = ""
  PROVE  next.err = ""
BY DEF Move

\* A credit that succeeds adds the amount.
LEMMA CreditResult ==
  ASSUME NEW w \in WalletRow, NEW amount \in Money, NEW now \in Times,
         Credit(w, amount, now).err = ""
  PROVE  MovedTo(Credit(w, amount, now).wallet, w, w.balance.minor + amount.minor)
<1> DEFINE sum == Add(w.balance, amount)
<1>1. CanMove(w, now) /\ Credit(w, amount, now) = Move(w, sum, now)
  BY DEF Credit, Err
<1>2. w.balance \in Money
  BY DEF WalletRow
<1>3. sum.err = ""
  BY <1>1, MoveFailure
<1>4. sum.money \in Money
  BY <1>2, <1>3, AddResult
<1>5. sum.money.minor = w.balance.minor + amount.minor
  BY <1>2, <1>3, AddResult
<1>6. sum.money.currency = w.balance.currency
  BY <1>2, <1>3, AddResult
<1> HIDE DEF sum
<1>7. MovedTo(Move(w, sum, now).wallet, w, sum.money.minor)
  BY <1>1, <1>3, <1>4, <1>6, MoveResult
<1> QED BY <1>1, <1>5, <1>7

\* A debit that succeeds takes the amount and leaves no debt.
LEMMA DebitResult ==
  ASSUME NEW w \in WalletRow, NEW amount \in Money, NEW now \in Times,
         Debit(w, amount, now).err = ""
  PROVE  /\ MovedTo(Debit(w, amount, now).wallet, w, w.balance.minor - amount.minor)
         /\ w.balance.minor - amount.minor >= 0
<1> DEFINE difference == Sub(w.balance, amount)
<1>1. /\ CanMove(w, now)
      /\ ~(w.balance.minor < amount.minor)
      /\ Debit(w, amount, now) = Move(w, difference, now)
  BY DEF Debit, Err
<1>2. w.balance \in Money
  BY DEF WalletRow
<1>3. difference.err = ""
  BY <1>1, MoveFailure
<1>4. difference.money \in Money
  BY <1>2, <1>3, SubResult
<1>5. difference.money.minor = w.balance.minor - amount.minor
  BY <1>2, <1>3, SubResult
<1>6. difference.money.currency = w.balance.currency
  BY <1>2, <1>3, SubResult
<1> HIDE DEF difference
<1>7. MovedTo(Move(w, difference, now).wallet, w, difference.money.minor)
  BY <1>1, <1>3, <1>4, <1>6, MoveResult
<1>8. w.balance.minor - amount.minor >= 0
  <2>1. w.balance.minor \in Int /\ amount.minor \in Int
    BY <1>2, Integers64 DEF Money
  <2> QED BY <1>1, <2>1, Covers
<1> QED BY <1>1, <1>5, <1>7, <1>8

-----------------------------------------------------------------------------

\* A decision that keeps the wallet is a decision.
LEMMA KeepsResult ==
  ASSUME NEW w \in WalletRow, NEW amount, NEW status \in Statuses,
         NEW failure \in Codes \cup {""}
  PROVE  Keeps(w, status, failure) \in Decision /\ Follows(Keeps(w, status, failure), w, amount)
<1>1. 0 \in Int64
  BY Integers64
<1>2. Keeps(w, status, failure) \in Decision
  BY <1>1 DEF Keeps, Decision
<1>3. Keeps(w, status, failure).direction = "" /\ Keeps(w, status, failure).wallet = w
  BY DEF Keeps
<1> QED BY <1>2, <1>3 DEF Follows

\* A decision that moves money follows the wallet it was made on.
LEMMA MoveMoneyResult ==
  ASSUME NEW op \in Operation, NEW w \in WalletRow,
         NEW reference \in Reference \cup {NONE}, NEW now \in Times
  PROVE  /\ MoveMoney(op, w, reference, now) \in Decision
         /\ Follows(MoveMoney(op, w, reference, now), w, op.money)
<1> DEFINE d == MoveMoney(op, w, reference, now)
           debit == TakesMoney(op, reference)
           moved == IF debit THEN Debit(w, op.money, now) ELSE Credit(w, op.money, now)
           target == IF reference = NONE THEN NONE ELSE reference.id
           direction == IF debit THEN "DEBIT" ELSE "CREDIT"
<1>1. op.money \in Money
  BY DEF Operation
<1>2. w.balance.minor \in Int64
  BY DEF WalletRow, Money
<1>3. target \in TxIds \cup {NONE}
  BY DEF Reference
<1>4. CASE moved.err = ""
  <2>1. d = [status |-> "PROCESSED", failure |-> "", refTx |-> target,
             direction |-> direction, before |-> w.balance.minor, wallet |-> moved.wallet]
    BY <1>4 DEF MoveMoney
  <2>2. debit => /\ MovedTo(moved.wallet, w, w.balance.minor - op.money.minor)
                 /\ w.balance.minor - op.money.minor >= 0
    BY <1>1, <1>4, DebitResult
  <2>3. ~debit => MovedTo(moved.wallet, w, w.balance.minor + op.money.minor)
    BY <1>1, <1>4, CreditResult
  <2>4. moved.wallet \in WalletRow
    BY <2>2, <2>3 DEF MovedTo
  <2>5. direction \in {"DEBIT", "CREDIT"} /\ (direction = "DEBIT" <=> debit)
    OBVIOUS
  <2> HIDE DEF d, debit, moved, target, direction
  <2>6. d \in Decision
    BY <1>2, <1>3, <2>1, <2>4, <2>5 DEF Decision, Statuses, Terminal
  <2>7. d.status = "PROCESSED" /\ d.before = w.balance.minor
    BY <2>1
  <2>8. d.wallet = moved.wallet /\ d.direction = direction
    BY <2>1
  <2>9. Follows(d, w, op.money)
    BY <2>2, <2>3, <2>5, <2>7, <2>8 DEF Follows
  <2> QED BY <2>6, <2>9 DEF d
<1>5. CASE moved.err # ""
  <2>1. \E code \in Codes : d = Reject(w, code)
    BY <1>5 DEF MoveMoney, InsufficientCode, Codes
  <2> QED BY <2>1, KeepsResult DEF Reject, Statuses, Terminal
<1> QED BY <1>4, <1>5

\* Whatever Decide answers, it left the wallet alone or moved it by the amount of the
\* operation, one version on, without taking it into debt (wager.go:138).
THEOREM DecideResult ==
  ASSUME NEW op \in Operation, NEW w \in WalletRow,
         NEW reference \in Reference \cup {NONE}, NEW now \in Times
  PROVE  /\ Decide(op, w, reference, now) \in Decision
         /\ Follows(Decide(op, w, reference, now), w, op.money)
<1> DEFINE d == Decide(op, w, reference, now)
<1>1. \/ d = Keeps(w, "REJECTED", "WALLET_MISMATCH")
      \/ d = Keeps(w, "PROCESSED", "")
      \/ d = Keeps(w, "PENDING_REFERENCE", "")
      \/ d = Keeps(w, "REJECTED", "INVALID_REFERENCE")
      \/ d = MoveMoney(op, w, reference, now)
  BY DEF Decide, Reject
<1>2. ASSUME NEW status \in Statuses, NEW failure \in Codes \cup {""},
             d = Keeps(w, status, failure)
      PROVE  d \in Decision /\ Follows(d, w, op.money)
  BY <1>2, KeepsResult
<1>3. d = MoveMoney(op, w, reference, now) => d \in Decision /\ Follows(d, w, op.money)
  BY MoveMoneyResult
<1> HIDE DEF d
<1>4. d \in Decision /\ Follows(d, w, op.money)
  BY <1>1, <1>2, <1>3 DEF Statuses, Terminal, Codes
<1> QED BY <1>4 DEF d

-----------------------------------------------------------------------------
\* The sessions and the tables.

\* The rows there are stay, and stay the same operations.
Kept == \A id \in Rows : id \in Rows' /\ txn'[id].op = txn[id].op

\* What concerns session t alone is as it was.
Idles(t) == /\ pc'[t] = pc[t] /\ job'[t] = job[t] /\ held'[t] = held[t]
            /\ ref'[t] = ref[t] /\ plan'[t] = plan[t]

\* A step that touches no table keeps its type and its rows.
LEMMA TablesUnchanged ==
  ASSUME UNCHANGED tables
  PROVE  Kept /\ (TablesOK => TablesOK')
BY DEF tables, Kept, TablesOK, Rows

\* A session that did nothing still has what it needs, as rows never disappear.
LEMMA OthersStay ==
  ASSUME NEW t \in Sessions, SessionOK(t), Kept, Idles(t)
  PROVE  SessionOK(t)'
BY DEF SessionOK, Kept, Idles

\* A new job starts with the facts its first statement needs.
LEMMA BeginStep ==
  ASSUME TypeOK, NEW s \in Sessions, NEW j \in Job, NEW statement \in BeforeWallet,
         j.via = "inbox" => j.msg # NONE,
         j.via = "resolve" => j.tx \in Rows /\ j.op = txn[j.tx].op,
         Begin(s, j, statement)
  PROVE  TypeOK'
<1>1. TablesOK' /\ Kept
  BY TablesUnchanged DEF Begin, TypeOK
<1>2. SessionsOK'
  BY DEF TypeOK, SessionsOK, Begin, Goto, Statements
<1>3. SessionOK(s)'
  <2>1. pc'[s] = statement /\ job'[s] = j
    BY DEF TypeOK, SessionsOK, Begin, Goto
  <2>2. statement \notin Reading \cup Writing \cup {"idle", "reversal"}
    BY DEF BeforeWallet, Reading, Writing
  <2> QED BY <1>1, <2>1, <2>2 DEF SessionOK, Kept
<1>4. ASSUME NEW t \in Sessions \ {s}
      PROVE  SessionOK(t)'
  BY <1>1, OthersStay DEF TypeOK, SessionsOK, Begin, Goto, Idles
<1> QED BY <1>1, <1>2, <1>3, <1>4 DEF TypeOK

\* A transaction that ends leaves its session idle.
LEMMA EndStep ==
  ASSUME TypeOK, NEW s \in Sessions, NEW a \in Answer \cup {NONE},
         TablesOK', Kept, End(s, a)
  PROVE  TypeOK'
<1>1. SessionsOK'
  BY DEF TypeOK, SessionsOK, End, Goto, Statements
<1>2. SessionOK(s)'
  <2>1. pc'[s] = "idle"
    BY DEF TypeOK, SessionsOK, End, Goto
  <2> QED BY <2>1 DEF SessionOK, Reading, Writing
<1>3. ASSUME NEW t \in Sessions \ {s}
      PROVE  SessionOK(t)'
  BY OthersStay DEF TypeOK, SessionsOK, End, Goto, Idles
<1> QED BY <1>1, <1>2, <1>3 DEF TypeOK

\* The answer built from an error is an answer.
LEMMA RefusalType ==
  ASSUME NEW op \in Operation,
         NEW err \in {"INVALID_INPUT", "NOT_FOUND", "CONFLICT",
                      "INVALID_TRANSACTION", "UNAVAILABLE"}
  PROVE  Refusal(op, err) \in Answer
<1>1. 0 \in Int64
  BY Integers64
<1> QED BY <1>1 DEF Refusal, Answer

\* A session in the middle of a transaction works on an operation.
LEMMA JobOperation ==
  ASSUME NEW s \in Sessions, SessionOK(s), pc[s] # "idle"
  PROVE  job[s] \in Job /\ job[s].op \in Operation
BY DEF SessionOK, Job

\* An error return keeps the types.
LEMMA RefuseStep ==
  ASSUME TypeOK, NEW s \in Sessions, pc[s] # "idle",
         NEW err \in {"INVALID_INPUT", "NOT_FOUND", "CONFLICT",
                      "INVALID_TRANSACTION", "UNAVAILABLE"},
         Refuse(s, err)
  PROVE  TypeOK'
<1>1. Refusal(job[s].op, err) \in Answer
  BY JobOperation, RefusalType DEF TypeOK
<1>2. TablesOK' /\ Kept
  BY TablesUnchanged DEF TypeOK, Refuse
<1> QED BY <1>1, <1>2, EndStep DEF Refuse

\* A statement that changes what the session knows and nothing else.
LEMMA StatementStep ==
  ASSUME TypeOK, NEW s \in Sessions, NEW statement \in Statements,
         UNCHANGED <<tables, job, answer>>, Goto(s, statement),
         SessionsOK', SessionOK(s)',
         \A t \in Sessions \ {s} :
           held'[t] = held[t] /\ ref'[t] = ref[t] /\ plan'[t] = plan[t]
  PROVE  TypeOK'
<1>1. TablesOK' /\ Kept
  BY TablesUnchanged DEF TypeOK
<1>2. ASSUME NEW t \in Sessions \ {s}
      PROVE  SessionOK(t)'
  BY <1>1, OthersStay DEF TypeOK, SessionsOK, Goto, Idles
<1> QED BY <1>1, <1>2 DEF TypeOK

-----------------------------------------------------------------------------
\* One lemma per action.

\* Wager.Process keeps the types.
LEMMA RequestStep ==
  ASSUME TypeOK, NEW s \in Clients, NEW op \in Requests, Request(s, op)
  PROVE  TypeOK'
<1> DEFINE j == [via |-> "http", op |-> op, msg |-> NONE, tx |-> NONE]
<1>1. j \in Job
  BY RequestsAssumption DEF Job
<1>2. j.via = "http"
  OBVIOUS
<1> HIDE DEF j
<1> QED BY <1>1, <1>2, BeginStep DEF Request, j, Sessions, BeforeWallet

\* A message carries an operation.
LEMMA MessageOperation ==
  ASSUME NEW m \in Messages
  PROVE  m \in Message /\ m.op \in Operation /\ m # NONE
BY MessagesAssumption, NoneIsNoRowAssumption DEF Message

\* InputConsumer.handle keeps the types.
LEMMA DeliverStep ==
  ASSUME TypeOK, NEW s \in Consumers, NEW m \in Messages, Deliver(s, m)
  PROVE  TypeOK'
<1> DEFINE j == [via |-> "inbox", op |-> m.op, msg |-> m, tx |-> NONE]
<1>1. j \in Job
  BY MessageOperation DEF Job
<1>2. j.via = "inbox" /\ j.msg # NONE
  BY MessageOperation
<1> HIDE DEF j
<1> QED BY <1>1, <1>2, BeginStep DEF Deliver, j, Sessions, BeforeWallet

\* recordPermanentFailure keeps the types.
LEMMA GiveUpStep ==
  ASSUME TypeOK, NEW s \in Consumers, NEW m \in Messages, GiveUp(s, m)
  PROVE  TypeOK'
<1> DEFINE j == [via |-> "fail", op |-> m.op, msg |-> NONE, tx |-> NONE]
<1>1. j \in Job
  BY MessageOperation DEF Job
<1>2. j.via = "fail"
  OBVIOUS
<1> HIDE DEF j
<1> QED BY <1>1, <1>2, BeginStep DEF GiveUp, j, Sessions, BeforeWallet

\* The answer to a malformed operation keeps the types.
LEMMA RefuseInputStep ==
  ASSUME TypeOK, NEW s \in Sessions, NEW op \in Operation, RefuseInput(s, op)
  PROVE  TypeOK'
<1>1. TablesOK' /\ Kept
  BY TablesUnchanged DEF TypeOK, RefuseInput
<1>2. Refusal(op, "INVALID_INPUT") \in Answer
  BY RefusalType
<1>3. SessionsOK'
  BY <1>2 DEF TypeOK, SessionsOK, RefuseInput
<1>4. ASSUME NEW t \in Sessions
      PROVE  SessionOK(t)'
  BY <1>1, OthersStay DEF TypeOK, RefuseInput, Idles
<1> QED BY <1>1, <1>3, <1>4 DEF TypeOK

\* The claim of a resolver keeps the types: the row it works on exists.
LEMMA ClaimStep ==
  ASSUME TypeOK, NEW s \in Resolvers, NEW id \in TxIds, Claim(s, id)
  PROVE  TypeOK'
<1> DEFINE j == [via |-> "resolve", op |-> txn[id].op, msg |-> NONE, tx |-> id]
<1>1. id \in Rows /\ txn[id].op \in Operation
  BY DEF Claim, Pending, TypeOK, TablesOK
<1>2. j \in Job
  BY <1>1 DEF Job
<1>3. j.via = "resolve" /\ j.tx \in Rows /\ j.op = txn[j.tx].op
  BY <1>1
<1> HIDE DEF j
<1> QED BY <1>2, <1>3, BeginStep DEF Claim, j, Sessions, BeforeWallet

\* The inbox statement keeps the types.
LEMMA AcquireInboxStep ==
  ASSUME TypeOK, NEW s \in Sessions, AcquireInbox(s)
  PROVE  TypeOK'
<1>1. pc[s] = "inbox"
  BY DEF AcquireInbox
<1>2. CASE Refuse(s, "CONFLICT")
  BY <1>1, <1>2, RefuseStep
<1>3. CASE Goto(s, "wallet") /\ UNCHANGED <<tables, job, held, ref, plan, answer>>
  <2>1. SessionsOK'
    BY <1>3 DEF TypeOK, SessionsOK, Goto, Statements, BeforeWallet
  <2>2. pc'[s] = "wallet" /\ job'[s] = job[s] /\ Rows' = Rows /\ txn' = txn
    BY <1>3 DEF TypeOK, SessionsOK, Goto, tables, Rows
  <2>3. SessionOK(s)'
    BY <1>1, <2>2 DEF TypeOK, SessionOK, Reading, Writing
  <2> QED BY <1>3, <2>1, <2>3, StatementStep DEF Statements, BeforeWallet
<1> QED BY <1>2, <1>3 DEF AcquireInbox

\* The lock on the wallet keeps the types: what is held is a wallet row.
LEMMA LockWalletStep ==
  ASSUME TypeOK, NEW s \in Sessions, LockWallet(s)
  PROVE  TypeOK'
<1> DEFINE w == job[s].op.wallet
           next == IF job[s].via = "resolve" THEN "reference" ELSE "lookup"
<1>1. pc[s] = "wallet"
  BY DEF LockWallet
<1>2. CASE Refuse(s, "NOT_FOUND")
  BY <1>1, <1>2, RefuseStep
<1>3. CASE /\ wallet[w] # NONE
           /\ held' = [held EXCEPT ![s] = wallet[w]]
           /\ Goto(s, next)
           /\ UNCHANGED <<tables, job, ref, plan, answer>>
  <2>1. w \in Wallets
    BY <1>1, JobOperation DEF TypeOK, Operation
  <2>2. wallet[w] \in WalletRow
    BY <1>3, <2>1 DEF TypeOK, TablesOK
  <2>3. next \in {"reference", "lookup"}
    OBVIOUS
  <2>4. next \in Statements
    BY <2>3 DEF Statements, Reading
  <2> HIDE DEF w, next
  <2>5. SessionsOK'
    BY <1>3, <2>2, <2>4 DEF TypeOK, SessionsOK, Goto
  <2>6. pc'[s] = next /\ held'[s] = wallet[w] /\ job'[s] = job[s] /\ Rows' = Rows /\ txn' = txn
    BY <1>3 DEF TypeOK, SessionsOK, Goto, tables, Rows
  <2>7. SessionOK(s)'
    BY <1>1, <2>2, <2>3, <2>6 DEF TypeOK, SessionOK, Reading, Writing
  <2>8. \A t \in Sessions \ {s} :
          held'[t] = held[t] /\ ref'[t] = ref[t] /\ plan'[t] = plan[t]
    BY <1>3 DEF TypeOK, SessionsOK
  <2> QED BY <1>3, <2>4, <2>5, <2>7, <2>8, StatementStep
<1> QED BY <1>2, <1>3 DEF LockWallet

\* A row of the provider of an operation is an operation's, not an opening.
LEMMA RowOperation ==
  ASSUME TypeOK, NEW id \in Rows, txn[id].op.provider \in Providers
  PROVE  txn[id] \in TxnRow /\ txn[id].op \in Operation
<1>1. txn[id] \in TxnRow
  BY DEF TypeOK, TablesOK, Rows
<1>2. txn[id].op \in Operation \cup OpeningOp
  BY <1>1 DEF TxnRow
<1>3. txn[id].op \notin OpeningOp
  BY NoneAssumption DEF OpeningOp
<1> QED BY <1>1, <1>2, <1>3

\* The lookup keeps the types, and a replay is made of a recorded row.
LEMMA LookupStep ==
  ASSUME TypeOK, NEW s \in Sessions, Lookup(s)
  PROVE  TypeOK'
<1> DEFINE op == job[s].op
           next == IF op.ref = NONE THEN "decide" ELSE "reference"
<1>1. pc[s] = "lookup" /\ pc[s] \in Reading
  BY DEF Lookup, Reading
<1>2. job[s] \in Job /\ op \in Operation /\ held[s] \in WalletRow
  BY <1>1, JobOperation DEF TypeOK, SessionOK
<1>3. CASE /\ Goto(s, next)
           /\ UNCHANGED <<tables, job, held, ref, plan, answer>>
  <2>1. next \in {"decide", "reference"}
    OBVIOUS
  <2>2. next \in Statements
    BY <2>1 DEF Statements, Reading
  <2> HIDE DEF next
  <2>3. SessionsOK'
    BY <1>3, <2>2 DEF TypeOK, SessionsOK, Goto
  <2>4. pc'[s] = next /\ held'[s] = held[s] /\ job'[s] = job[s] /\ Rows' = Rows /\ txn' = txn
    BY <1>3 DEF TypeOK, SessionsOK, Goto, tables, Rows
  <2>5. SessionOK(s)'
    BY <1>1, <2>1, <2>4 DEF TypeOK, SessionOK, Reading, Writing
  <2> QED BY <1>3, <2>2, <2>3, <2>5, StatementStep
<1>4. ASSUME NEW id \in Existing(op),
             plan' = [plan EXCEPT ![s] = Replay(s, id)],
             Goto(s, "commit"),
             UNCHANGED <<tables, job, held, ref, answer>>
      PROVE  TypeOK'
  <2>1. id \in Rows /\ id \in TxIds
    BY <1>4 DEF Existing, Rows
  <2>2. txn[id] \in TxnRow
    BY <2>1 DEF TypeOK, TablesOK, Rows
  <2>3. Keeps(held[s], txn[id].status, txn[id].failure) \in Decision
    BY <1>2, <2>2, KeepsResult DEF TxnRow
  <2>4. Replay(s, id) \in Plan
    BY <2>1, <2>2, <2>3 DEF Replay, Plan
  <2>5. /\ Replay(s, id).action = "replay" /\ Replay(s, id).tx = id
        /\ Replay(s, id).row = txn[id]
    BY DEF Replay
  <2>6. SessionsOK'
    BY <1>4, <2>4 DEF TypeOK, SessionsOK, Goto, Statements, Writing
  <2>7. /\ pc'[s] = "commit" /\ held'[s] = held[s] /\ job'[s] = job[s]
        /\ plan'[s] = Replay(s, id) /\ Rows' = Rows /\ txn' = txn
    BY <1>4 DEF TypeOK, SessionsOK, Goto, tables, Rows
  <2>8. SessionOK(s)'
    BY <1>1, <2>1, <2>4, <2>5, <2>7 DEF TypeOK, SessionOK, Reading, Writing
  <2>9. \A t \in Sessions \ {s} :
          held'[t] = held[t] /\ ref'[t] = ref[t] /\ plan'[t] = plan[t]
    BY <1>4 DEF TypeOK, SessionsOK
  <2> QED BY <1>4, <2>6, <2>8, <2>9, StatementStep DEF Statements, Writing
<1>5. Refuse(s, "CONFLICT") => TypeOK'
  BY <1>1, RefuseStep DEF Reading
<1> QED BY <1>3, <1>4, <1>5 DEF Lookup

\* What is read of the referenced transaction is a Reference.
LEMMA ReadReferenceStep ==
  ASSUME TypeOK, NEW s \in Sessions, ReadReference(s)
  PROVE  TypeOK'
<1> DEFINE op == job[s].op
<1>1. pc[s] = "reference" /\ pc[s] \in Reading
  BY DEF ReadReference, Reading
<1>2. op \in Operation
  BY <1>1, JobOperation DEF TypeOK
<1>3. CASE /\ Goto(s, "decide")
           /\ UNCHANGED <<tables, job, held, ref, plan, answer>>
  <2>1. SessionsOK'
    BY <1>3 DEF TypeOK, SessionsOK, Goto, Statements, Reading
  <2>2. pc'[s] = "decide" /\ held'[s] = held[s] /\ job'[s] = job[s] /\ Rows' = Rows /\ txn' = txn
    BY <1>3 DEF TypeOK, SessionsOK, Goto, tables, Rows
  <2>3. SessionOK(s)'
    BY <1>1, <2>2 DEF TypeOK, SessionOK, Reading, Writing
  <2> QED BY <1>3, <2>1, <2>3, StatementStep DEF Statements, Reading
<1>4. ASSUME NEW id \in Named(op.provider, op.ref),
             ref' = [ref EXCEPT ![s] =
               [id |-> id, kind |-> txn[id].op.kind, status |-> txn[id].status,
                wallet |-> txn[id].op.wallet, player |-> txn[id].op.player,
                round |-> txn[id].op.round, money |-> txn[id].op.money,
                reversed |-> FALSE]],
             Goto(s, "reversal"),
             UNCHANGED <<tables, job, held, plan, answer>>
      PROVE  TypeOK'
  <2> DEFINE r == [id |-> id, kind |-> txn[id].op.kind, status |-> txn[id].status,
                   wallet |-> txn[id].op.wallet, player |-> txn[id].op.player,
                   round |-> txn[id].op.round, money |-> txn[id].op.money,
                   reversed |-> FALSE]
  <2>1. id \in Rows /\ id \in TxIds /\ txn[id].op.provider \in Providers
    BY <1>2, <1>4 DEF Named, Rows, Operation
  <2>2. txn[id] \in TxnRow /\ txn[id].op \in Operation
    BY <2>1, RowOperation
  <2>3. r \in Reference
    BY <2>1, <2>2 DEF Reference, TxnRow, Operation
  <2>4. ref' = [ref EXCEPT ![s] = r]
    BY <1>4
  <2> HIDE DEF r
  <2>5. SessionsOK'
    BY <1>4, <2>3, <2>4 DEF TypeOK, SessionsOK, Goto, Statements, Reading
  <2>6. /\ pc'[s] = "reversal" /\ held'[s] = held[s] /\ job'[s] = job[s]
        /\ ref'[s] = r /\ Rows' = Rows /\ txn' = txn
    BY <1>4, <2>4 DEF TypeOK, SessionsOK, Goto, tables, Rows
  <2>7. SessionOK(s)'
    BY <1>1, <2>3, <2>6 DEF TypeOK, SessionOK, Reading, Writing
  <2>8. \A t \in Sessions \ {s} :
          held'[t] = held[t] /\ ref'[t] = ref[t] /\ plan'[t] = plan[t]
    BY <1>4, <2>4 DEF TypeOK, SessionsOK
  <2> QED BY <1>4, <2>5, <2>7, <2>8, StatementStep DEF Statements, Reading
<1> QED BY <1>3, <1>4 DEF ReadReference

\* The answer of the reversal query completes the Reference.
LEMMA ReadReversalStep ==
  ASSUME TypeOK, NEW s \in Sessions, ReadReversal(s)
  PROVE  TypeOK'
<1> DEFINE reversed == AlreadyReversed(ref[s].id)
           r == [ref[s] EXCEPT !.reversed = reversed]
<1>1. pc[s] = "reversal" /\ pc[s] \in Reading
  BY DEF ReadReversal, Reading
<1>2. ref[s] \in Reference
  BY <1>1 DEF TypeOK, SessionOK
<1>3. reversed \in BOOLEAN
  BY DEF AlreadyReversed
<1>4. r \in Reference
  BY <1>2, <1>3 DEF Reference
<1>5. /\ ref' = [ref EXCEPT ![s] = r] /\ Goto(s, "decide")
      /\ UNCHANGED <<tables, job, held, plan, answer>>
  BY DEF ReadReversal
<1> HIDE DEF r
<1>6. SessionsOK'
  BY <1>4, <1>5 DEF TypeOK, SessionsOK, Goto, Statements, Reading
<1>7. pc'[s] = "decide" /\ held'[s] = held[s] /\ job'[s] = job[s] /\ Rows' = Rows /\ txn' = txn
  BY <1>5 DEF TypeOK, SessionsOK, Goto, tables, Rows
<1>8. SessionOK(s)'
  BY <1>1, <1>7 DEF TypeOK, SessionOK, Reading, Writing
<1>9. \A t \in Sessions \ {s} :
        held'[t] = held[t] /\ ref'[t] = ref[t] /\ plan'[t] = plan[t]
  BY <1>5 DEF TypeOK, SessionsOK
<1> QED BY <1>5, <1>6, <1>8, <1>9, StatementStep DEF Statements, Reading

\* The row made from a decision is a row.
LEMMA RowFromType ==
  ASSUME NEW op \in Operation, NEW d \in Decision
  PROVE  RowFrom(op, d) \in TxnRow /\ RowFrom(op, d).op = op
<1>1. d.wallet.balance.minor \in Int64
  BY DEF Decision, WalletRow, Money
<1>2. 0 \in 0..(MaxAttempts - 1)
  BY MaxAttemptsAssumption
<1> QED BY <1>1, <1>2 DEF RowFrom, TxnRow, Decision

\* The decision of Wager.Fail is a decision.
LEMMA FailType ==
  ASSUME NEW w \in WalletRow
  PROVE  Fail(w) \in Decision
BY KeepsResult DEF Fail, Statuses, Terminal, Codes

\* executeTx decides on the right types and plans an insert.
LEMMA DecideNewStep ==
  ASSUME TypeOK, NEW s \in Sessions, DecideNew(s)
  PROVE  TypeOK'
<1> DEFINE op == job[s].op
<1>1. pc[s] = "decide" /\ pc[s] \in Reading
  BY DEF DecideNew, Reading
<1>2. op \in Operation /\ held[s] \in WalletRow /\ ref[s] \in Reference \cup {NONE}
  BY <1>1, JobOperation DEF TypeOK, SessionOK, SessionsOK
<1>3. PICK d : /\ \/ d = Fail(held[s])
                  \/ \E now \in Times : d = Decide(op, held[s], ref[s], now)
               /\ \/ Refuse(s, "INVALID_TRANSACTION")
                  \/ /\ plan' = [plan EXCEPT ![s] = [action |-> "insert", tx |-> NONE,
                                                     row |-> RowFrom(op, d), decision |-> d]]
                     /\ Goto(s, "insert")
                     /\ UNCHANGED <<tables, job, held, ref, answer>>
  BY DEF DecideNew
<1>4. d \in Decision
  BY <1>2, <1>3, FailType, DecideResult
<1>5. CASE Refuse(s, "INVALID_TRANSACTION")
  BY <1>1, <1>5, RefuseStep DEF Reading
<1>6. CASE /\ plan' = [plan EXCEPT ![s] = [action |-> "insert", tx |-> NONE,
                                           row |-> RowFrom(op, d), decision |-> d]]
           /\ Goto(s, "insert")
           /\ UNCHANGED <<tables, job, held, ref, answer>>
  <2> DEFINE p == [action |-> "insert", tx |-> NONE, row |-> RowFrom(op, d), decision |-> d]
  <2>1. p \in Plan
    BY <1>2, <1>4, RowFromType DEF Plan
  <2>2. p.action = "insert" /\ p.row.op = op
    BY <1>2, <1>4, RowFromType
  <2>3. plan' = [plan EXCEPT ![s] = p]
    BY <1>6
  <2> HIDE DEF p
  <2>4. SessionsOK'
    BY <1>6, <2>1, <2>3 DEF TypeOK, SessionsOK, Goto, Statements, Writing
  <2>5. /\ pc'[s] = "insert" /\ held'[s] = held[s] /\ job'[s] = job[s]
        /\ plan'[s] = p /\ Rows' = Rows /\ txn' = txn
    BY <1>6, <2>3 DEF TypeOK, SessionsOK, Goto, tables, Rows
  <2>6. SessionOK(s)'
    BY <1>1, <1>2, <2>1, <2>2, <2>5 DEF TypeOK, SessionOK, Reading, Writing
  <2>7. \A t \in Sessions \ {s} :
          held'[t] = held[t] /\ ref'[t] = ref[t] /\ plan'[t] = plan[t]
    BY <1>6, <2>3 DEF TypeOK, SessionsOK
  <2> QED BY <1>6, <2>4, <2>6, <2>7, StatementStep DEF Statements, Writing
<1> QED BY <1>3, <1>5, <1>6

\* A postponed row has an attempt left.
LEMMA PostponedRow ==
  ASSUME NEW row \in TxnRow, row.attempts + 1 < MaxAttempts
  PROVE  /\ [row EXCEPT !.attempts = @ + 1] \in TxnRow
         /\ [row EXCEPT !.attempts = @ + 1].op = row.op
<1> DEFINE n == row.attempts + 1
<1>1. row.attempts \in 0..(MaxAttempts - 1)
  BY DEF TxnRow
<1>2. n \in 0..(MaxAttempts - 1)
  BY <1>1, MaxAttemptsAssumption
<1> HIDE DEF n
<1>3. [row EXCEPT !.attempts = n] \in TxnRow /\ [row EXCEPT !.attempts = n].op = row.op
  BY <1>2 DEF TxnRow
<1> QED BY <1>3 DEF n

\* The row of a settled transaction keeps its count of attempts in range.
LEMMA SettledRow ==
  ASSUME NEW op \in Operation, NEW d \in Decision, NEW n \in 0..(MaxAttempts - 1)
  PROVE  /\ [RowFrom(op, d) EXCEPT !.attempts = n] \in TxnRow
         /\ [RowFrom(op, d) EXCEPT !.attempts = n].op = op
<1> DEFINE row == RowFrom(op, d)
<1>1. row \in TxnRow /\ row.op = op
  BY RowFromType
<1> HIDE DEF row
<1>2. [row EXCEPT !.attempts = n] \in TxnRow /\ [row EXCEPT !.attempts = n].op = row.op
  BY <1>1 DEF TxnRow
<1> QED BY <1>1, <1>2 DEF row

\* ResolvePendingReference plans an update of the row it claimed.
LEMMA DecidePendingStep ==
  ASSUME TypeOK, NEW s \in Sessions, DecidePending(s)
  PROVE  TypeOK'
<1> DEFINE op == job[s].op
           id == job[s].tx
<1>1. pc[s] = "decide" /\ pc[s] \in Reading /\ job[s].via = "resolve"
  BY DEF DecidePending, Reading
<1>2. op \in Operation /\ held[s] \in WalletRow /\ ref[s] \in Reference \cup {NONE}
  BY <1>1, JobOperation DEF TypeOK, SessionOK, SessionsOK
<1>3. id \in Rows /\ id \in TxIds /\ txn[id].op = op
  BY <1>1 DEF TypeOK, SessionOK, Rows
<1>4. txn[id] \in TxnRow /\ txn[id].attempts \in 0..(MaxAttempts - 1)
  BY <1>3 DEF TypeOK, TablesOK, TxnRow, Rows
<1>5. PICK now \in Times :
        LET d == DecisionOfAttempt(s, Decide(op, held[s], ref[s], now)) IN
        plan' = [plan EXCEPT ![s] =
          IF d.status = "PENDING_REFERENCE"
          THEN [action |-> "postpone", tx |-> id, decision |-> d,
                row |-> [txn[id] EXCEPT !.attempts = @ + 1]]
          ELSE [action |-> "update", tx |-> id, decision |-> d,
                row |-> [RowFrom(op, d) EXCEPT !.attempts = txn[id].attempts]]]
  BY DEF DecidePending
<1> DEFINE d == DecisionOfAttempt(s, Decide(op, held[s], ref[s], now))
           p == IF d.status = "PENDING_REFERENCE"
                THEN [action |-> "postpone", tx |-> id, decision |-> d,
                      row |-> [txn[id] EXCEPT !.attempts = @ + 1]]
                ELSE [action |-> "update", tx |-> id, decision |-> d,
                      row |-> [RowFrom(op, d) EXCEPT !.attempts = txn[id].attempts]]
<1>6. d \in Decision
  BY <1>2, DecideResult, KeepsResult DEF DecisionOfAttempt, Reject, Statuses, Terminal, Codes
<1>7. d.status = "PENDING_REFERENCE" => txn[id].attempts + 1 < MaxAttempts
  <2>1. Reject(held[s], "REFERENCE_NOT_FOUND").status = "REJECTED"
    BY DEF Reject, Keeps
  <2>2. d.status = "PENDING_REFERENCE" => ~(txn[id].attempts + 1 >= MaxAttempts)
    BY <2>1 DEF DecisionOfAttempt
  <2> QED BY <1>4, <2>2, MaxAttemptsAssumption
<1>8. plan' = [plan EXCEPT ![s] = p]
  BY <1>5
<1> HIDE DEF d
<1>9. /\ p \in Plan
      /\ p.action # "insert"
      /\ p.tx = id
      /\ p.row.op = op
  <2>1. CASE d.status = "PENDING_REFERENCE"
    <3> DEFINE row == [txn[id] EXCEPT !.attempts = @ + 1]
    <3>1. row \in TxnRow /\ row.op = op
      BY <1>3, <1>4, <1>7, <2>1, PostponedRow
    <3>2. p = [action |-> "postpone", tx |-> id, decision |-> d, row |-> row]
      BY <2>1
    <3> HIDE DEF row, p
    <3> QED BY <1>3, <1>6, <3>1, <3>2 DEF Plan
  <2>2. CASE d.status # "PENDING_REFERENCE"
    <3> DEFINE row == [RowFrom(op, d) EXCEPT !.attempts = txn[id].attempts]
    <3>1. row \in TxnRow /\ row.op = op
      BY <1>2, <1>4, <1>6, SettledRow
    <3>2. p = [action |-> "update", tx |-> id, decision |-> d, row |-> row]
      BY <2>2
    <3> HIDE DEF row, p
    <3> QED BY <1>3, <1>6, <3>1, <3>2 DEF Plan
  <2> QED BY <2>1, <2>2
<1>10. Goto(s, "commit") /\ UNCHANGED <<tables, job, held, ref, answer>>
  BY DEF DecidePending
<1> HIDE DEF p
<1>11. SessionsOK'
  BY <1>8, <1>9, <1>10 DEF TypeOK, SessionsOK, Goto, Statements, Writing
<1>12. /\ pc'[s] = "commit" /\ held'[s] = held[s] /\ job'[s] = job[s]
       /\ plan'[s] = p /\ Rows' = Rows /\ txn' = txn
  BY <1>8, <1>10 DEF TypeOK, SessionsOK, Goto, tables, Rows
<1>13. SessionOK(s)'
  BY <1>1, <1>3, <1>9, <1>12 DEF TypeOK, SessionOK, Reading, Writing
<1>14. \A t \in Sessions \ {s} :
         held'[t] = held[t] /\ ref'[t] = ref[t] /\ plan'[t] = plan[t]
  BY <1>8, <1>10 DEF TypeOK, SessionsOK
<1> QED BY <1>10, <1>11, <1>13, <1>14, StatementStep DEF Statements, Writing

\* INSERT INTO wager_transactions keeps the types.
LEMMA InsertStep ==
  ASSUME TypeOK, NEW s \in Sessions, Insert(s)
  PROVE  TypeOK'
<1>1. pc[s] = "insert" /\ pc[s] \in Writing
  BY DEF Insert, Writing
<1>2. CASE Refuse(s, "CONFLICT")
  BY <1>1, <1>2, RefuseStep
<1>3. CASE Goto(s, "commit") /\ UNCHANGED <<tables, job, held, ref, plan, answer>>
  <2>1. SessionsOK'
    BY <1>3 DEF TypeOK, SessionsOK, Goto, Statements, Writing
  <2>2. /\ pc'[s] = "commit" /\ held'[s] = held[s] /\ job'[s] = job[s]
        /\ plan'[s] = plan[s] /\ Rows' = Rows /\ txn' = txn
    BY <1>3 DEF TypeOK, SessionsOK, Goto, tables, Rows
  <2>3. SessionOK(s)'
    BY <1>1, <2>2 DEF TypeOK, SessionOK, Reading, Writing
  <2> QED BY <1>3, <2>1, <2>3, StatementStep DEF Statements, Writing
<1> QED BY <1>2, <1>3 DEF Insert

-----------------------------------------------------------------------------
\* The end of a transaction.

\* A row is written under a fresh id or in the place of the same operation.
LEMMA WriteRow ==
  ASSUME TypeOK, NEW id \in TxIds, NEW row \in TxnRow,
         id \in Rows => row.op = txn[id].op,
         row.status = "PENDING_REFERENCE" => row.op \in Operation,
         txn' = [txn EXCEPT ![id] = row]
  PROVE  /\ txn' \in [TxIds -> TxnRow \cup {NONE}]
         /\ Kept
         /\ \A r \in Rows' : txn'[r].status = "PENDING_REFERENCE" => txn'[r].op \in Operation
<1>1. txn \in [TxIds -> TxnRow \cup {NONE}] /\ row # NONE
  BY NoneIsNoRowAssumption DEF TypeOK, TablesOK
<1>2. txn'[id] = row /\ \A r \in TxIds \ {id} : txn'[r] = txn[r]
  BY <1>1
<1>3. txn' \in [TxIds -> TxnRow \cup {NONE}]
  BY <1>1
<1>4. Kept
  BY <1>1, <1>2 DEF Kept, Rows
<1>5. ASSUME NEW r \in Rows', txn'[r].status = "PENDING_REFERENCE"
      PROVE  txn'[r].op \in Operation
  BY <1>2, <1>5 DEF TypeOK, TablesOK, Rows
<1> QED BY <1>3, <1>4, <1>5

\* The id of the written row is an id: a fresh one or that of the claimed row.
LEMMA IdForType ==
  ASSUME TypeOK, NEW s \in Sessions, CanCommit(s)
  PROVE  /\ IdFor(s) \in TxIds
         /\ plan[s].action = "insert" => IdFor(s) \notin Rows
         /\ plan[s].action # "insert" => IdFor(s) = plan[s].tx /\ plan[s].tx \in Rows
<1>1. pc[s] = "commit" /\ pc[s] \in Writing
  BY DEF CanCommit, Writing
<1>2. CASE plan[s].action = "insert"
  <2>1. \E id \in TxIds : txn[id] = NONE
    BY <1>2 DEF CanCommit
  <2>2. NewTxId \in TxIds /\ txn[NewTxId] = NONE
    BY <2>1 DEF NewTxId
  <2> QED BY <1>2, <2>2 DEF IdFor, Rows
<1>3. CASE plan[s].action # "insert"
  BY <1>1, <1>3 DEF TypeOK, SessionOK, IdFor, Rows
<1> QED BY <1>2, <1>3

\* The entry insertLedger writes is an entry.
LEMMA EntryType ==
  ASSUME NEW id \in TxIds, NEW op \in Operation, NEW d \in Decision, d.direction # ""
  PROVE  EntryOf(id, op, d) \in Entry
<1>1. op.money.minor \in Int64
  BY DEF Operation, Money
<1>2. d.wallet \in WalletRow /\ d.before \in Int64 /\ d.direction \in {"DEBIT", "CREDIT"}
  BY DEF Decision
<1>3. /\ d.wallet.balance.minor \in Int64
      /\ d.wallet.version \in 1..MaxInt
      /\ d.wallet.updatedAt \in Times
  BY <1>2 DEF WalletRow, Money
<1> QED BY <1>1, <1>2, <1>3 DEF EntryOf, Entry

\* The events of a transaction are events.
LEMMA EventsType ==
  ASSUME NEW id \in TxIds, NEW p \in Plan
  PROVE  Events(id, p) \in Seq(Event)
<1> DEFINE moved == BalanceEvent(id, p.decision.wallet.version)
           told == WagerEvent(id, p.decision.status)
<1>1. p.decision.status \in Statuses /\ p.decision.wallet.version \in 1..MaxInt
  BY DEF Plan, Decision, WalletRow
<1>2. p.decision.wallet.version \in 0..MaxInt /\ 0 \in 0..MaxInt
  BY <1>1, MaxIntAssumption
<1>3. moved \in Event
  BY <1>2 DEF BalanceEvent, Event
<1>4. told \in Event
  BY <1>1, <1>2 DEF WagerEvent, Event
<1> HIDE DEF moved, told
<1>5. <<>> \in Seq(Event) /\ <<moved>> \in Seq(Event) /\ <<told>> \in Seq(Event)
  BY <1>3, <1>4
<1>6. \A a, b \in Seq(Event) : a \o b \in Seq(Event)
  OBVIOUS
<1> QED BY <1>5, <1>6 DEF Events, moved, told

\* What a transaction leaves in the tables has their types.
LEMMA WriteType ==
  ASSUME TypeOK, NEW s \in Sessions, CanCommit(s), Write(s, IdFor(s))
  PROVE  TablesOK' /\ Kept
<1> DEFINE id == IdFor(s)
           p == plan[s]
           d == p.decision
           w == job[s].op.wallet
<1>1. pc[s] = "commit" /\ pc[s] \in Writing
  BY DEF CanCommit, Writing
<1>2. /\ job[s] \in Job /\ job[s].op \in Operation /\ p \in Plan
      /\ job[s].via = "inbox" => job[s].msg # NONE
      /\ p.action # "replay" => p.row.op = job[s].op
      /\ p.action # "insert" => p.tx \in Rows /\ p.row.op = txn[p.tx].op
  BY <1>1, JobOperation DEF TypeOK, SessionOK
<1>3. /\ id \in TxIds
      /\ p.action = "insert" => id \notin Rows
      /\ p.action # "insert" => id = p.tx
  BY IdForType
<1>4. d \in Decision /\ p.row \in TxnRow /\ w \in Wallets
  BY <1>2 DEF Plan, Operation
<1>5. /\ txn' \in [TxIds -> TxnRow \cup {NONE}]
      /\ Kept
      /\ \A r \in Rows' : txn'[r].status = "PENDING_REFERENCE" => txn'[r].op \in Operation
  <2>1. CASE p.action = "replay"
    BY <2>1 DEF Write, TypeOK, TablesOK, Kept, Rows
  <2>2. CASE p.action # "replay"
    <3>1. txn' = [txn EXCEPT ![id] = p.row]
      BY <2>2 DEF Write
    <3>2. id \in Rows => p.row.op = txn[id].op
      BY <1>2, <1>3
    <3>3. p.row.status = "PENDING_REFERENCE" => p.row.op \in Operation
      BY <1>2, <2>2
    <3> QED BY <1>3, <1>4, <3>1, <3>2, <3>3, WriteRow
  <2> QED BY <2>1, <2>2
<1>6. wallet' \in [Wallets -> WalletRow \cup {NONE}]
  BY <1>4 DEF Write, TypeOK, TablesOK, Decision
<1>7. ledger' \in [Wallets -> Seq(Entry)]
  <2>1. CASE d.direction = ""
    BY <2>1 DEF Write, TypeOK, TablesOK
  <2>2. CASE d.direction # ""
    <3> DEFINE e == EntryOf(id, job[s].op, d)
    <3>1. e \in Entry
      BY <1>2, <1>3, <1>4, <2>2, EntryType
    <3>2. ledger' = [ledger EXCEPT ![w] = Append(ledger[w], e)]
      BY <2>2 DEF Write
    <3> HIDE DEF e, w
    <3> QED BY <1>4, <3>1, <3>2 DEF TypeOK, TablesOK
  <2> QED BY <2>1, <2>2
<1>8. inbox' \in [MsgIds -> Digests \cup {NONE}]
  BY <1>2 DEF Write, TypeOK, TablesOK, Job, Message
<1>9. outbox' \in [Wallets -> Seq(Event)]
  <2> DEFINE events == Events(id, p)
  <2>1. events \in Seq(Event)
    BY <1>2, <1>3, EventsType
  <2>2. outbox' = [outbox EXCEPT ![w] = outbox[w] \o events]
    BY DEF Write
  <2> HIDE DEF events, w
  <2> QED BY <1>4, <2>1, <2>2 DEF TypeOK, TablesOK
<1> QED BY <1>5, <1>6, <1>7, <1>8, <1>9 DEF TablesOK

\* The result of a committed transaction is an answer.
LEMMA ResultType ==
  ASSUME TypeOK, NEW s \in Sessions, CanCommit(s)
  PROVE  Result(s, IdFor(s)) \in Answer \cup {NONE}
<1>1. pc[s] = "commit" /\ pc[s] \in Writing
  BY DEF CanCommit, Writing
<1>2. job[s].op \in Operation /\ plan[s] \in Plan
  BY <1>1, JobOperation DEF TypeOK, SessionOK
<1>3. plan[s].row \in TxnRow
  BY <1>2 DEF Plan
<1>4. IdFor(s) \in TxIds
  BY IdForType
<1>5. (plan[s].action = "replay") \in BOOLEAN
  OBVIOUS
<1> QED BY <1>2, <1>3, <1>4, <1>5 DEF Result, Answer, TxnRow

\* Commit keeps the types.
LEMMA CommitStep ==
  ASSUME TypeOK, NEW s \in Sessions, Commit(s)
  PROVE  TypeOK'
BY WriteType, ResultType, EndStep DEF Commit

\* A commit whose acknowledgement is lost keeps the types.
LEMMA CommitUnheardStep ==
  ASSUME TypeOK, NEW s \in Sessions, CommitUnheard(s)
  PROVE  TypeOK'
<1>1. Refusal(job[s].op, "UNAVAILABLE") \in Answer
  BY JobOperation, RefusalType DEF TypeOK, CommitUnheard, CanCommit
<1> QED BY <1>1, WriteType, EndStep DEF CommitUnheard

\* CreateWallet keeps the types.
LEMMA OpenWalletStep ==
  ASSUME TypeOK, NEW o \in Openings, OpenWallet(o)
  PROVE  TypeOK'
<1> DEFINE id == NewTxId
           row == OpeningRow(o)
           w == o.wallet
<1>1. w \in Wallets /\ o.player \in Players /\ o.money \in Money
  BY OpeningsAssumption DEF Opening
<1>2. o.money.minor \in Int64 /\ o.money.currency \in Currencies
  BY <1>1 DEF Money
<1>3. PICK now \in Times :
        /\ wallet' = [wallet EXCEPT ![w] =
             [player |-> o.player, balance |-> o.money, version |-> 1, updatedAt |-> now]]
        /\ IF IsZero(o.money) THEN UNCHANGED <<txn, ledger, outbox>>
           ELSE /\ \E free \in TxIds : txn[free] = NONE
                /\ txn' = [txn EXCEPT ![id] = row]
                /\ ledger' = [ledger EXCEPT ![w] =
                     <<[tx |-> id, direction |-> "CREDIT", amount |-> o.money.minor,
                        before |-> 0, after |-> o.money.minor, version |-> 1, at |-> now]>>]
                /\ outbox' = [outbox EXCEPT ![w] =
                     <<WagerEvent(id, "PROCESSED"), BalanceEvent(id, 1)>>]
  BY DEF OpenWallet
<1>4. UNCHANGED <<inbox, pc, job, held, ref, plan, answer>>
  BY DEF OpenWallet
<1>5. 1 \in 1..MaxInt /\ 1 \in 0..MaxInt /\ 0 \in 0..MaxInt /\ 0 \in Int64
  BY Integers64, MaxIntAssumption
<1>6. wallet' \in [Wallets -> WalletRow \cup {NONE}]
  <2> DEFINE v == [player |-> o.player, balance |-> o.money, version |-> 1, updatedAt |-> now]
  <2>1. v \in WalletRow
    BY <1>1, <1>5 DEF WalletRow
  <2> HIDE DEF v
  <2>2. [wallet EXCEPT ![w] = v] \in [Wallets -> WalletRow \cup {NONE}]
    BY <1>1, <2>1 DEF TypeOK, TablesOK
  <2> QED BY <1>3, <2>2 DEF v
<1>7. /\ txn' \in [TxIds -> TxnRow \cup {NONE}]
      /\ Kept
      /\ \A r \in Rows' : txn'[r].status = "PENDING_REFERENCE" => txn'[r].op \in Operation
      /\ ledger' \in [Wallets -> Seq(Entry)]
      /\ outbox' \in [Wallets -> Seq(Event)]
  <2>1. CASE IsZero(o.money)
    BY <1>3, <2>1 DEF TypeOK, TablesOK, Kept, Rows
  <2>2. CASE ~IsZero(o.money)
    <3>1. id \in TxIds /\ id \notin Rows
      <4>1. \E free \in TxIds : txn[free] = NONE
        BY <1>3, <2>2
      <4> QED BY <4>1 DEF NewTxId, Rows
    <3>2. row \in TxnRow /\ row.status = "PROCESSED"
      <4>1. 0 \in 0..(MaxAttempts - 1)
        BY MaxAttemptsAssumption
      <4>2. row.op \in OpeningOp
        BY <1>1 DEF OpeningRow, OpeningOp
      <4> QED BY <1>2, <4>1, <4>2 DEF OpeningRow, TxnRow, Statuses, Terminal
    <3>3. txn' = [txn EXCEPT ![id] = row]
      BY <1>3, <2>2
    <3> HIDE DEF row, id
    <3>4. /\ txn' \in [TxIds -> TxnRow \cup {NONE}]
          /\ Kept
          /\ \A r \in Rows' : txn'[r].status = "PENDING_REFERENCE" => txn'[r].op \in Operation
      BY <3>1, <3>2, <3>3, WriteRow
    <3> DEFINE e == [tx |-> id, direction |-> "CREDIT", amount |-> o.money.minor,
                     before |-> 0, after |-> o.money.minor, version |-> 1, at |-> now]
    <3>5. e \in Entry
      BY <1>2, <1>5, <3>1 DEF Entry
    <3>6. ledger' = [ledger EXCEPT ![w] = <<e>>]
      BY <1>3, <2>2 DEF id
    <3>7. WagerEvent(id, "PROCESSED") \in Event /\ BalanceEvent(id, 1) \in Event
      BY <1>5, <3>1 DEF WagerEvent, BalanceEvent, Event, Statuses, Terminal
    <3>8. <<WagerEvent(id, "PROCESSED"), BalanceEvent(id, 1)>> \in Seq(Event)
      BY <3>7
    <3>9. outbox' = [outbox EXCEPT ![w] = <<WagerEvent(id, "PROCESSED"), BalanceEvent(id, 1)>>]
      BY <1>3, <2>2 DEF id
    <3> HIDE DEF e, w
    <3>10. ledger' \in [Wallets -> Seq(Entry)]
      BY <1>1, <3>5, <3>6 DEF TypeOK, TablesOK
    <3>11. outbox' \in [Wallets -> Seq(Event)]
      BY <1>1, <3>8, <3>9 DEF TypeOK, TablesOK
    <3> QED BY <3>4, <3>10, <3>11
  <2> QED BY <2>1, <2>2
<1>8. TablesOK'
  BY <1>4, <1>6, <1>7 DEF TypeOK, TablesOK
<1>9. SessionsOK'
  BY <1>4 DEF TypeOK, SessionsOK
<1>10. ASSUME NEW t \in Sessions
       PROVE  SessionOK(t)'
  BY <1>4, <1>7, OthersStay DEF TypeOK, Idles
<1> QED BY <1>8, <1>9, <1>10 DEF TypeOK

-----------------------------------------------------------------------------

\* Empty tables and idle sessions have their types.
LEMMA TypesAtFirst == Init => TypeOK
<1> SUFFICES ASSUME Init
             PROVE  TypeOK
  OBVIOUS
<1>1. TablesOK
  BY DEF Init, TablesOK, Rows
<1>2. SessionsOK
  BY DEF Init, SessionsOK
<1>3. ASSUME NEW s \in Sessions
      PROVE  SessionOK(s)
  <2>1. pc[s] = "idle"
    BY DEF Init
  <2> QED BY <2>1 DEF SessionOK, Reading, Writing
<1> QED BY <1>1, <1>2, <1>3 DEF TypeOK

\* The inductive step, one case for each action.
LEMMA TypesKept == TypeOK /\ [Next]_vars => TypeOK'
<1> SUFFICES ASSUME TypeOK, [Next]_vars
             PROVE  TypeOK'
  OBVIOUS
<1>1. ASSUME NEW o \in Openings, OpenWallet(o)
      PROVE  TypeOK'
  BY <1>1, OpenWalletStep
<1>2. ASSUME NEW s \in Clients, NEW op \in Requests, Request(s, op) \/ RefuseInput(s, op)
      PROVE  TypeOK'
  BY <1>2, RequestStep, RefuseInputStep, RequestsAssumption DEF Sessions
<1>3. ASSUME NEW s \in Consumers, NEW m \in Messages,
             Deliver(s, m) \/ GiveUp(s, m) \/ RefuseInput(s, m.op)
      PROVE  TypeOK'
  BY <1>3, DeliverStep, GiveUpStep, RefuseInputStep, MessageOperation DEF Sessions
<1>4. ASSUME NEW s \in Resolvers, NEW id \in TxIds, Claim(s, id)
      PROVE  TypeOK'
  BY <1>4, ClaimStep
<1>5. ASSUME NEW s \in Sessions, Execute(s)
      PROVE  TypeOK'
  BY <1>5, AcquireInboxStep, LockWalletStep, LookupStep, ReadReferenceStep,
     ReadReversalStep, DecideNewStep, DecidePendingStep, InsertStep, CommitStep
     DEF Execute
<1>6. ASSUME NEW s \in Sessions, CommitUnheard(s) \/ Abort(s)
      PROVE  TypeOK'
  BY <1>6, CommitUnheardStep, RefuseStep DEF Abort
<1>7. CASE UNCHANGED vars
  <2>1. UNCHANGED tables /\ \A t \in Sessions : Idles(t)
    BY <1>7 DEF vars, tables, Idles
  <2>2. TablesOK' /\ Kept
    BY <2>1, TablesUnchanged DEF TypeOK
  <2>3. SessionsOK'
    BY <1>7 DEF vars, TypeOK, SessionsOK
  <2> QED BY <2>1, <2>2, <2>3, OthersStay DEF TypeOK
<1> QED BY <1>1, <1>2, <1>3, <1>4, <1>5, <1>6, <1>7 DEF Next

\* Every column and every Go value keeps its type, and a session in the middle of a
\* transaction has what its next statement reads (store.go:464).
THEOREM TypeCorrect == Spec => []TypeOK
BY TypesAtFirst, TypesKept, PTL DEF Spec

-----------------------------------------------------------------------------
\* The books.

\* What Reconciled rests on: the wallet a session works on is its own until it
\* commits, and what it is about to commit is a movement of that wallet.
EntriesNameRows == \A w \in Wallets : \A i \in DOMAIN ledger[w] : ledger[w][i].tx \in Rows

BooksInv ==
  /\ TypeOK /\ WalletsAreLocked /\ ClaimsAreExclusive /\ DecisionsAreMovements
  /\ EntriesNameRows /\ Reconciled

-----------------------------------------------------------------------------
\* What a step can be, seen from the tables and the locks.

OthersIdle(s) == \A t \in Sessions \ {s} : Idles(t)

\* s takes up an operation or waits for its wallet.
Starts(s) ==
  /\ UNCHANGED tables
  /\ pc'[s] \in BeforeWallet
  /\ ValidateOperation(job'[s].op)
  /\ \/ pc[s] # "idle" /\ job'[s] = job[s]
     \/ job'[s].via # "resolve"
     \/ job'[s].tx \in Pending /\ \A t \in Sessions : ~HoldsPending(t, job'[s].tx)

\* s ends its transaction without writing.
Leaves(s) == UNCHANGED tables /\ pc'[s] = "idle"

Locks(s) ==
  /\ UNCHANGED tables
  /\ pc[s] = "wallet" /\ pc'[s] \in Reading
  /\ job'[s] = job[s]
  /\ held'[s] = wallet[job[s].op.wallet]
  /\ \A t \in Sessions \ {s} : ~HoldsWallet(t, job[s].op.wallet)

\* s reads on.
Consults(s) ==
  /\ UNCHANGED tables
  /\ pc[s] \in Reading /\ pc'[s] \in Reading
  /\ job'[s] = job[s] /\ held'[s] = held[s]

\* p is a plan to move the wallet a session has read, or to leave it.
Movement(p, v, op) ==
  /\ Follows(p.decision, v, op.money)
  /\ p.decision.direction # "" => p.action \in {"insert", "update"}

\* Only a resolver writes a row that is there, and only the one it claimed.
Claimed(p, j) ==
  p.action \in {"update", "postpone"} => j.via = "resolve" /\ p.tx = j.tx

Plans(s) ==
  /\ UNCHANGED tables
  /\ pc[s] \in Reading \cup Writing /\ pc'[s] \in Writing
  /\ job'[s] = job[s] /\ held'[s] = held[s]
  /\ Movement(plan'[s], held[s], job[s].op)
  /\ Claimed(plan'[s], job[s])

Commits(s) == CanCommit(s) /\ Write(s, IdFor(s)) /\ pc'[s] = "idle"

Steps(s) ==
  /\ OthersIdle(s)
  /\ Starts(s) \/ Leaves(s) \/ Locks(s) \/ Consults(s) \/ Plans(s) \/ Commits(s)

Opens(o) == OpenWallet(o) /\ \A t \in Sessions : Idles(t)

Stays == UNCHANGED tables /\ \A t \in Sessions : Idles(t)

\* Taking up a request, a message or a pending row starts a job and touches no table.
LEMMA BeginIsStep ==
  ASSUME TypeOK, NEW s \in Sessions, NEW j, NEW statement \in BeforeWallet,
         ValidateOperation(j.op), Begin(s, j, statement),
         j.via = "resolve" => j.tx \in Pending /\ \A t \in Sessions : ~HoldsPending(t, j.tx)
  PROVE  Steps(s)
<1>1. OthersIdle(s)
  BY DEF TypeOK, SessionsOK, Begin, Goto, OthersIdle, Idles
<1>2. UNCHANGED tables /\ pc'[s] = statement /\ job'[s] = j
  BY DEF TypeOK, SessionsOK, Begin, Goto
<1> QED BY <1>1, <1>2 DEF Steps, Starts

\* A session that ends its transaction changes its own variables only.
LEMMA EndIsStep ==
  ASSUME TypeOK, NEW s \in Sessions, NEW a, End(s, a)
  PROVE  OthersIdle(s) /\ pc'[s] = "idle"
BY DEF TypeOK, SessionsOK, End, Goto, OthersIdle, Idles

\* An error return leaves the tables as they are.
LEMMA RefuseIsStep ==
  ASSUME TypeOK, NEW s \in Sessions, NEW err, Refuse(s, err)
  PROVE  Steps(s)
BY EndIsStep DEF Refuse, Steps, Leaves

\* The inbox statement goes on to the wallet or refuses: ExecuteInbox up to executeTx.
LEMMA AcquireInboxIsStep ==
  ASSUME TypeOK, DecisionsAreMovements, NEW s \in Sessions, AcquireInbox(s)
  PROVE  Steps(s)
<1>1. pc[s] = "inbox"
  BY DEF AcquireInbox
<1>2. CASE Goto(s, "wallet") /\ UNCHANGED <<tables, job, held, ref, plan, answer>>
  <2>1. OthersIdle(s) /\ pc'[s] = "wallet"
    BY <1>2 DEF TypeOK, SessionsOK, Goto, OthersIdle, Idles
  <2>2. ValidateOperation(job'[s].op) /\ job'[s] = job[s]
    BY <1>1, <1>2 DEF DecisionsAreMovements
  <2> QED BY <1>1, <1>2, <2>1, <2>2 DEF Steps, Starts, BeforeWallet
<1> QED BY <1>2, RefuseIsStep DEF AcquireInbox

\* SELECT ... FOR UPDATE reads the wallet as it is, when nobody else holds it.
LEMMA LockWalletIsStep ==
  ASSUME TypeOK, NEW s \in Sessions, LockWallet(s)
  PROVE  Steps(s)
<1> DEFINE w == job[s].op.wallet
           next == IF job[s].via = "resolve" THEN "reference" ELSE "lookup"
<1>1. pc[s] = "wallet" /\ Blockers(s) = {}
  BY DEF LockWallet
<1>2. CASE /\ held' = [held EXCEPT ![s] = wallet[w]]
           /\ Goto(s, next)
           /\ UNCHANGED <<tables, job, ref, plan, answer>>
  <2>1. next \in Reading
    BY DEF Reading
  <2> HIDE DEF next
  <2>2. OthersIdle(s) /\ pc'[s] = next /\ held'[s] = wallet[w] /\ job'[s] = job[s]
    BY <1>2 DEF TypeOK, SessionsOK, Goto, OthersIdle, Idles
  <2>3. \A t \in Sessions \ {s} : ~HoldsWallet(t, w)
    BY <1>1 DEF Blockers
  <2> QED BY <1>1, <1>2, <2>1, <2>2, <2>3 DEF Steps, Locks
<1> QED BY <1>2, RefuseIsStep DEF LockWallet

\* A decision that keeps the wallet moves nothing.
LEMMA KeepsMoves ==
  ASSUME NEW w \in WalletRow, NEW op, NEW status \in Statuses,
         NEW failure \in Codes \cup {""}, NEW p,
         p.decision = Keeps(w, status, failure)
  PROVE  Movement(p, w, op)
<1>1. Follows(p.decision, w, op.money)
  BY KeepsResult
<1>2. Keeps(w, status, failure).direction = ""
  BY DEF Keeps
<1> QED BY <1>1, <1>2 DEF Movement

\* The lookup reads on, or plans the replay of a recorded answer.
LEMMA LookupIsStep ==
  ASSUME TypeOK, NEW s \in Sessions, Lookup(s)
  PROVE  Steps(s)
<1> DEFINE op == job[s].op
           next == IF op.ref = NONE THEN "decide" ELSE "reference"
<1>1. pc[s] = "lookup" /\ pc[s] \in Reading
  BY DEF Lookup, Reading
<1>2. CASE Goto(s, next) /\ UNCHANGED <<tables, job, held, ref, plan, answer>>
  <2>1. next \in Reading
    BY DEF Reading
  <2> HIDE DEF next
  <2>2. OthersIdle(s) /\ pc'[s] = next
    BY <1>2 DEF TypeOK, SessionsOK, Goto, OthersIdle, Idles
  <2> QED BY <1>1, <1>2, <2>1, <2>2 DEF Steps, Consults
<1>3. ASSUME NEW id \in Existing(op),
             plan' = [plan EXCEPT ![s] = Replay(s, id)],
             Goto(s, "commit"),
             UNCHANGED <<tables, job, held, ref, answer>>
      PROVE  Steps(s)
  <2>1. txn[id] \in TxnRow
    BY <1>3 DEF Existing, Rows, TypeOK, TablesOK
  <2>2. held[s] \in WalletRow
    BY <1>1 DEF TypeOK, SessionOK
  <2>3. Replay(s, id).decision = Keeps(held[s], txn[id].status, txn[id].failure)
    BY DEF Replay
  <2>4. Movement(Replay(s, id), held[s], op)
    BY <2>1, <2>2, <2>3, KeepsMoves DEF TxnRow
  <2>5. OthersIdle(s) /\ pc'[s] = "commit" /\ plan'[s] = Replay(s, id)
    BY <1>3 DEF TypeOK, SessionsOK, Goto, OthersIdle, Idles
  <2>6. Claimed(Replay(s, id), job[s])
    BY DEF Replay, Claimed
  <2> QED BY <1>1, <1>3, <2>4, <2>5, <2>6 DEF Steps, Plans, Writing
<1> QED BY <1>2, <1>3, RefuseIsStep DEF Lookup

\* Reading the referenced transaction only reads.
LEMMA ReadReferenceIsStep ==
  ASSUME TypeOK, NEW s \in Sessions, ReadReference(s)
  PROVE  Steps(s)
<1>1. /\ UNCHANGED <<tables, job, held, plan, answer>>
      /\ pc[s] \in Reading
      /\ Goto(s, "decide") \/ Goto(s, "reversal")
      /\ ref' = ref \/ \E r : ref' = [ref EXCEPT ![s] = r]
  BY DEF ReadReference, Reading
<1>2. OthersIdle(s) /\ pc'[s] \in Reading
  BY <1>1 DEF TypeOK, SessionsOK, Goto, OthersIdle, Idles, Reading
<1> QED BY <1>1, <1>2 DEF Steps, Consults

\* Asking whether it was reversed only reads.
LEMMA ReadReversalIsStep ==
  ASSUME TypeOK, NEW s \in Sessions, ReadReversal(s)
  PROVE  Steps(s)
<1>1. /\ UNCHANGED <<tables, job, held, plan, answer>>
      /\ pc[s] \in Reading
      /\ Goto(s, "decide")
      /\ \E r : ref' = [ref EXCEPT ![s] = r]
  BY DEF ReadReversal, Reading
<1>2. OthersIdle(s) /\ pc'[s] \in Reading
  BY <1>1 DEF TypeOK, SessionsOK, Goto, OthersIdle, Idles, Reading
<1> QED BY <1>1, <1>2 DEF Steps, Consults

\* The decision of executeTx is a plan that moves the wallet as Decide says, or an error.
LEMMA DecideNewIsStep ==
  ASSUME TypeOK, NEW s \in Sessions, DecideNew(s)
  PROVE  Steps(s)
<1> DEFINE op == job[s].op
<1>1. pc[s] \in Reading /\ pc[s] # "idle"
  BY DEF DecideNew, Reading
<1>2. op \in Operation /\ held[s] \in WalletRow /\ ref[s] \in Reference \cup {NONE}
  BY <1>1, JobOperation DEF TypeOK, SessionOK, SessionsOK
<1>3. PICK d : /\ \/ d = Fail(held[s])
                  \/ \E now \in Times : d = Decide(op, held[s], ref[s], now)
               /\ \/ Refuse(s, "INVALID_TRANSACTION")
                  \/ /\ plan' = [plan EXCEPT ![s] = [action |-> "insert", tx |-> NONE,
                                                     row |-> RowFrom(op, d), decision |-> d]]
                     /\ Goto(s, "insert")
                     /\ UNCHANGED <<tables, job, held, ref, answer>>
  BY DEF DecideNew
<1>4. Follows(d, held[s], op.money)
  <2>1. Follows(Fail(held[s]), held[s], op.money)
    BY <1>2, KeepsResult DEF Fail, Statuses, Terminal, Codes
  <2> QED BY <1>2, <1>3, <2>1, DecideResult
<1>5. CASE /\ plan' = [plan EXCEPT ![s] = [action |-> "insert", tx |-> NONE,
                                           row |-> RowFrom(op, d), decision |-> d]]
           /\ Goto(s, "insert")
           /\ UNCHANGED <<tables, job, held, ref, answer>>
  <2> DEFINE p == [action |-> "insert", tx |-> NONE, row |-> RowFrom(op, d), decision |-> d]
  <2>1. p.decision = d /\ p.action = "insert"
    OBVIOUS
  <2>2. plan' = [plan EXCEPT ![s] = p]
    BY <1>5
  <2> HIDE DEF p
  <2>3. Movement(p, held[s], op) /\ Claimed(p, job[s])
    BY <1>4, <2>1 DEF Movement, Claimed
  <2>4. OthersIdle(s) /\ pc'[s] = "insert" /\ plan'[s] = p
    BY <1>5, <2>2 DEF TypeOK, SessionsOK, Goto, OthersIdle, Idles
  <2> QED BY <1>1, <1>5, <2>3, <2>4 DEF Steps, Plans, Writing
<1> QED BY <1>3, <1>5, RefuseIsStep

\* The decision of ResolvePendingReference is a plan for the claimed row.
LEMMA DecidePendingIsStep ==
  ASSUME TypeOK, NEW s \in Sessions, DecidePending(s)
  PROVE  Steps(s)
<1> DEFINE op == job[s].op
<1>1. pc[s] \in Reading /\ pc[s] # "idle"
  BY DEF DecidePending, Reading
<1>2. op \in Operation /\ held[s] \in WalletRow /\ ref[s] \in Reference \cup {NONE}
  BY <1>1, JobOperation DEF TypeOK, SessionOK, SessionsOK
<1>3. PICK now, p :
        /\ now \in Times
        /\ p.decision = DecisionOfAttempt(s, Decide(op, held[s], ref[s], now))
        /\ p.decision.status # "PENDING_REFERENCE" => p.action = "update"
        /\ p.tx = job[s].tx
        /\ plan' = [plan EXCEPT ![s] = p]
  BY DEF DecidePending
<1>4. Follows(p.decision, held[s], op.money)
  BY <1>2, <1>3, DecideResult, KeepsResult
     DEF DecisionOfAttempt, Reject, Statuses, Terminal, Codes
<1>5. p.decision.direction # "" => p.action = "update"
  BY <1>3, <1>4 DEF Follows
<1>6. Movement(p, held[s], op)
  BY <1>4, <1>5 DEF Movement
<1>7. /\ Goto(s, "commit") /\ UNCHANGED <<tables, job, held, ref, answer>>
      /\ job[s].via = "resolve"
  BY DEF DecidePending
<1>8. OthersIdle(s) /\ pc'[s] = "commit" /\ plan'[s] = p
  BY <1>3, <1>7 DEF TypeOK, SessionsOK, Goto, OthersIdle, Idles
<1> QED BY <1>1, <1>3, <1>6, <1>7, <1>8 DEF Steps, Plans, Claimed, Writing

\* INSERT INTO wager_transactions keeps the plan, or answers a conflict.
LEMMA InsertIsStep ==
  ASSUME TypeOK, DecisionsAreMovements, ClaimsAreExclusive, NEW s \in Sessions, Insert(s)
  PROVE  Steps(s)
<1>1. pc[s] = "insert" /\ pc[s] \in Writing
  BY DEF Insert, Writing
<1>2. CASE Goto(s, "commit") /\ UNCHANGED <<tables, job, held, ref, plan, answer>>
  <2>1. OthersIdle(s) /\ pc'[s] = "commit" /\ plan'[s] = plan[s]
    BY <1>2 DEF TypeOK, SessionsOK, Goto, OthersIdle, Idles
  <2>2. Movement(plan[s], held[s], job[s].op) /\ Claimed(plan[s], job[s])
    BY <1>1 DEF DecisionsAreMovements, ClaimsAreExclusive, Movement, Claimed
  <2> QED BY <1>1, <1>2, <2>1, <2>2 DEF Steps, Plans, Writing
<1> QED BY <1>2, RefuseIsStep DEF Insert

\* Every step is one of these.
LEMMA StepShapes ==
  ASSUME TypeOK, DecisionsAreMovements, ClaimsAreExclusive, [Next]_vars
  PROVE  Stays \/ (\E o \in Openings : Opens(o)) \/ (\E s \in Sessions : Steps(s))
<1>1. ASSUME NEW o \in Openings, OpenWallet(o)
      PROVE  Opens(o)
  BY <1>1 DEF OpenWallet, Opens, Idles
<1>2. ASSUME NEW s \in Sessions, NEW op, RefuseInput(s, op)
      PROVE  Stays
  BY <1>2 DEF RefuseInput, Stays, Idles
<1>3. ASSUME NEW s \in Clients, NEW op \in Requests, Request(s, op)
      PROVE  Steps(s)
  <2> DEFINE j == [via |-> "http", op |-> op, msg |-> NONE, tx |-> NONE]
  <2>1. ValidateOperation(j.op) /\ Begin(s, j, "wallet") /\ j.via # "resolve"
    BY <1>3 DEF Request
  <2> HIDE DEF j
  <2> QED BY <2>1, BeginIsStep DEF Sessions, BeforeWallet
<1>4. ASSUME NEW s \in Consumers, NEW m \in Messages, Deliver(s, m)
      PROVE  Steps(s)
  <2> DEFINE j == [via |-> "inbox", op |-> m.op, msg |-> m, tx |-> NONE]
  <2>1. ValidateOperation(j.op) /\ Begin(s, j, "inbox") /\ j.via # "resolve"
    BY <1>4 DEF Deliver
  <2> HIDE DEF j
  <2> QED BY <2>1, BeginIsStep DEF Sessions, BeforeWallet
<1>5. ASSUME NEW s \in Consumers, NEW m \in Messages, GiveUp(s, m)
      PROVE  Steps(s)
  <2> DEFINE j == [via |-> "fail", op |-> m.op, msg |-> NONE, tx |-> NONE]
  <2>1. ValidateOperation(j.op) /\ Begin(s, j, "wallet") /\ j.via # "resolve"
    BY <1>5 DEF GiveUp
  <2> HIDE DEF j
  <2> QED BY <2>1, BeginIsStep DEF Sessions, BeforeWallet
<1>6. ASSUME NEW s \in Resolvers, NEW id \in TxIds, Claim(s, id)
      PROVE  Steps(s)
  <2> DEFINE j == [via |-> "resolve", op |-> txn[id].op, msg |-> NONE, tx |-> id]
  <2>1. /\ ValidateOperation(j.op) /\ Begin(s, j, "wallet")
        /\ j.tx \in Pending /\ \A t \in Sessions : ~HoldsPending(t, j.tx)
    BY <1>6 DEF Claim, DecisionsAreMovements
  <2> HIDE DEF j
  <2> QED BY <2>1, BeginIsStep DEF Sessions, BeforeWallet
<1>7. ASSUME NEW s \in Sessions, Execute(s) \/ CommitUnheard(s) \/ Abort(s)
      PROVE  Steps(s)
  <2>1. ASSUME Commit(s) \/ CommitUnheard(s)
        PROVE  Steps(s)
    BY <2>1, EndIsStep DEF Commit, CommitUnheard, Steps, Commits
  <2> QED BY <1>7, <2>1, AcquireInboxIsStep, LockWalletIsStep, LookupIsStep,
             ReadReferenceIsStep, ReadReversalIsStep, DecideNewIsStep,
             DecidePendingIsStep, InsertIsStep, RefuseIsStep DEF Execute, Abort
<1>8. UNCHANGED vars => Stays
  BY DEF vars, Stays, tables, Idles
<1> QED BY <1>1, <1>2, <1>3, <1>4, <1>5, <1>6, <1>7, <1>8 DEF Next, Sessions

-----------------------------------------------------------------------------
\* The lock on a wallet.

\* No step of anybody takes a locked wallet away or changes what was read of it.
LEMMA LocksKept ==
  ASSUME TypeOK, WalletsAreLocked, DecisionsAreMovements, ClaimsAreExclusive, [Next]_vars
  PROVE  WalletsAreLocked'
<1>1. CASE Stays
  BY <1>1 DEF Stays, Idles, tables, WalletsAreLocked
<1>2. ASSUME NEW o \in Openings, Opens(o)
      PROVE  WalletsAreLocked'
  <2>1. wallet[o.wallet] = NONE
    BY <1>2 DEF Opens, OpenWallet
  <2>2. ASSUME NEW s \in Sessions, pc[s] \in Reading \cup Writing
        PROVE  wallet'[job[s].op.wallet] = wallet[job[s].op.wallet]
    <3>1. held[s] = wallet[job[s].op.wallet] /\ held[s] \in WalletRow
      BY <2>2 DEF WalletsAreLocked, TypeOK, SessionOK
    <3>2. job[s].op.wallet # o.wallet
      BY <2>1, <3>1, NoneIsNoRowAssumption
    <3>3. job[s].op.wallet \in Wallets
      BY <2>2, JobOperation DEF TypeOK, Operation, Reading, Writing
    <3> QED BY <1>2, <3>2, <3>3 DEF Opens, OpenWallet, TypeOK, TablesOK
  <2> QED BY <1>2, <2>2 DEF Opens, Idles, WalletsAreLocked
<1>3. ASSUME NEW s \in Sessions, Steps(s)
      PROVE  WalletsAreLocked'
  <2>1. \A t \in Sessions \ {s} : pc'[t] = pc[t] /\ job'[t] = job[t] /\ held'[t] = held[t]
    BY <1>3 DEF Steps, OthersIdle, Idles
  <2>2. CASE Starts(s) \/ Leaves(s)
    <3>1. pc'[s] \notin Reading \cup Writing /\ wallet' = wallet
      BY <2>2 DEF Starts, Leaves, BeforeWallet, Reading, Writing, tables
    <3> QED BY <2>1, <3>1 DEF WalletsAreLocked
  <2>3. CASE Consults(s) \/ Plans(s)
    <3>1. /\ pc[s] \in Reading \cup Writing /\ pc'[s] \in Reading \cup Writing
          /\ job'[s] = job[s] /\ held'[s] = held[s] /\ wallet' = wallet
      BY <2>3 DEF Consults, Plans, tables
    <3> QED BY <2>1, <3>1 DEF WalletsAreLocked
  <2>4. CASE Locks(s)
    <3>1. /\ job'[s] = job[s] /\ held'[s] = wallet[job[s].op.wallet] /\ wallet' = wallet
          /\ \A t \in Sessions \ {s} :
               pc[t] \in Reading \cup Writing => job[t].op.wallet # job[s].op.wallet
      BY <2>4 DEF Locks, tables, HoldsWallet
    <3> QED BY <2>1, <3>1 DEF WalletsAreLocked
  <2>5. CASE Commits(s)
    <3>1. pc'[s] \notin Reading \cup Writing /\ pc[s] \in Reading \cup Writing
      BY <2>5 DEF Commits, CanCommit, Reading, Writing
    <3>2. ASSUME NEW t \in Sessions \ {s}, pc[t] \in Reading \cup Writing
          PROVE  wallet'[job[t].op.wallet] = wallet[job[t].op.wallet]
      <4>1. job[t].op.wallet # job[s].op.wallet
        BY <3>1, <3>2 DEF WalletsAreLocked
      <4>2. job[t].op.wallet \in Wallets
        BY <3>2, JobOperation DEF TypeOK, Operation, Reading, Writing
      <4> QED BY <2>5, <4>1, <4>2 DEF Commits, Write, TypeOK, TablesOK
    <3> QED BY <2>1, <3>1, <3>2 DEF WalletsAreLocked
  <2> QED BY <1>3, <2>2, <2>3, <2>4, <2>5 DEF Steps
<1> QED BY <1>1, <1>2, <1>3, StepShapes

-----------------------------------------------------------------------------
\* What sessions are about to write.

\* Plans stay movements of the wallets that were read until they are committed.
LEMMA MovementsKept ==
  ASSUME TypeOK, DecisionsAreMovements, ClaimsAreExclusive, [Next]_vars
  PROVE  DecisionsAreMovements'
<1> DEFINE Sound(t) == /\ pc[t] # "idle" => ValidateOperation(job[t].op)
                       /\ pc[t] \in Writing => Movement(plan[t], held[t], job[t].op)
           Waiting == \A id \in Pending : ValidateOperation(txn[id].op)
<1>1. DecisionsAreMovements <=> Waiting /\ \A t \in Sessions : Sound(t)
  BY DEF DecisionsAreMovements, Movement
<1>2. DecisionsAreMovements' <=> Waiting' /\ \A t \in Sessions : Sound(t)'
  BY DEF DecisionsAreMovements, Movement
<1>3. ASSUME NEW t \in Sessions, Idles(t)
      PROVE  Sound(t)'
  BY <1>1, <1>3 DEF Idles
<1>4. UNCHANGED tables => Waiting'
  BY <1>1 DEF tables, Pending, Rows
<1>5. CASE Stays
  BY <1>2, <1>3, <1>4, <1>5 DEF Stays
<1>6. ASSUME NEW o \in Openings, Opens(o)
      PROVE  DecisionsAreMovements'
  <2>1. Waiting'
    <3>1. OpeningRow(o).status = "PROCESSED"
      BY DEF OpeningRow
    <3>2. txn' = txn \/ \E id \in TxIds : txn' = [txn EXCEPT ![id] = OpeningRow(o)]
      BY <1>6 DEF Opens, OpenWallet, NewTxId
    <3>3. Pending' \subseteq Pending /\ \A id \in Pending' : txn'[id] = txn[id]
      BY <3>1, <3>2 DEF Pending, Rows, TypeOK, TablesOK
    <3> QED BY <1>1, <3>3
  <2> QED BY <1>2, <1>3, <1>6, <2>1 DEF Opens
<1>7. ASSUME NEW s \in Sessions, Steps(s)
      PROVE  DecisionsAreMovements'
  <2>1. Waiting'
    <3>1. CASE Commits(s)
      <4>1. pc[s] \in Writing /\ pc[s] # "idle" /\ CanCommit(s)
        BY <3>1 DEF Commits, CanCommit, Writing
      <4>2. /\ ValidateOperation(job[s].op)
            /\ plan[s].action # "replay" => plan[s].row.op = job[s].op
        BY <1>1, <4>1 DEF TypeOK, SessionOK
      <4>3. IdFor(s) \in TxIds
        BY <4>1, IdForType
      <4>4. txn' = txn \/ (/\ plan[s].action # "replay"
                           /\ txn' = [txn EXCEPT ![IdFor(s)] = plan[s].row])
        BY <3>1 DEF Commits, Write
      <4>5. ASSUME NEW id \in Pending'
            PROVE  ValidateOperation(txn'[id].op)
        BY <1>1, <4>2, <4>3, <4>4 DEF Pending, Rows, TypeOK, TablesOK
      <4> QED BY <4>5
    <3>2. CASE ~Commits(s)
      BY <1>4, <1>7, <3>2 DEF Steps, Starts, Leaves, Locks, Consults, Plans
    <3> QED BY <3>1, <3>2
  <2>2. Sound(s)'
    <3>1. CASE Starts(s) \/ Leaves(s) \/ Commits(s)
      BY <3>1 DEF Starts, Leaves, Commits, BeforeWallet, Writing
    <3>2. CASE Locks(s) \/ Consults(s)
      <4>1. job'[s] = job[s] /\ pc[s] # "idle" /\ pc'[s] \notin Writing
        BY <3>2 DEF Locks, Consults, Reading, Writing
      <4> QED BY <1>1, <4>1
    <3>3. CASE Plans(s)
      <4>1. pc[s] # "idle"
        BY <3>3 DEF Plans, Reading, Writing
      <4> QED BY <1>1, <3>3, <4>1 DEF Plans
    <3> QED BY <1>7, <3>1, <3>2, <3>3 DEF Steps
  <2> QED BY <1>2, <1>3, <1>7, <2>1, <2>2 DEF Steps, OthersIdle
<1> QED BY <1>5, <1>6, <1>7, StepShapes

-----------------------------------------------------------------------------
\* The lock on a pending transaction.

\* A commit writes a fresh row, the row its session claimed, or no row at all.
LEMMA RowsOfOthers ==
  ASSUME TypeOK, ClaimsAreExclusive, NEW s \in Sessions, Commits(s), NEW id \in Rows,
         ~HoldsPending(s, id)
  PROVE  txn'[id] = txn[id]
<1>1. pc[s] \in Writing /\ pc[s] # "idle" /\ CanCommit(s) /\ id \in TxIds
  BY DEF Commits, CanCommit, Writing, Rows
<1>2. plan[s].action \in {"insert", "update", "postpone", "replay"}
  BY <1>1 DEF TypeOK, SessionOK, Plan
<1>3. CASE plan[s].action = "replay"
  BY <1>3 DEF Commits, Write
<1>4. CASE plan[s].action # "replay"
  <2>1. txn' = [txn EXCEPT ![IdFor(s)] = plan[s].row]
    BY <1>4 DEF Commits, Write
  <2>2. IdFor(s) # id
    <3>1. CASE plan[s].action = "insert"
      BY <1>1, <3>1, IdForType
    <3>2. CASE plan[s].action \in {"update", "postpone"}
      <4>1. job[s].via = "resolve" /\ IdFor(s) = job[s].tx
        BY <1>1, <3>2, IdForType DEF ClaimsAreExclusive
      <4> QED BY <1>1, <4>1 DEF HoldsPending
    <3> QED BY <1>2, <1>4, <3>1, <3>2
  <2> QED BY <1>1, <2>1, <2>2 DEF TypeOK, TablesOK
<1> QED BY <1>3, <1>4

\* A claimed row stays pending, and claimed by one resolver, until that one commits.
LEMMA ClaimsKept ==
  ASSUME TypeOK, DecisionsAreMovements, ClaimsAreExclusive, [Next]_vars
  PROVE  ClaimsAreExclusive'
<1> DEFINE Holds(t) == pc[t] # "idle" /\ job[t].via = "resolve"
           Alone(t) == \A u \in Sessions \ {t} : Holds(u) => job[u].tx # job[t].tx
           Owns(t) == pc[t] \in Writing => Claimed(plan[t], job[t])
<1>1. \A t \in Sessions : Holds(t) => job[t].tx \in Pending /\ Alone(t)
  BY DEF ClaimsAreExclusive, HoldsPending
<1>2. \A t \in Sessions : Owns(t)
  BY DEF ClaimsAreExclusive, Claimed
<1>3. (\A t \in Sessions : (Holds(t) => job[t].tx \in Pending /\ Alone(t))' /\ Owns(t)')
        => ClaimsAreExclusive'
  BY DEF ClaimsAreExclusive, HoldsPending, Claimed
<1>4. UNCHANGED tables => Pending' = Pending
  BY DEF tables, Pending, Rows
<1>5. CASE Stays
  BY <1>1, <1>2, <1>3, <1>4, <1>5 DEF Stays, Idles
<1>6. ASSUME NEW o \in Openings, Opens(o)
      PROVE  ClaimsAreExclusive'
  <2>1. Pending \subseteq Pending'
    <3>1. txn' = txn \/ \E id \in TxIds \ Rows : txn' = [txn EXCEPT ![id] = OpeningRow(o)]
      BY <1>6 DEF Opens, OpenWallet, NewTxId, Rows
    <3> QED BY <3>1 DEF Pending, Rows, TypeOK, TablesOK
  <2> QED BY <1>1, <1>2, <1>3, <1>6, <2>1 DEF Opens, Idles
<1>7. ASSUME NEW s \in Sessions, Steps(s)
      PROVE  ClaimsAreExclusive'
  <2>1. \A t \in Sessions \ {s} : pc'[t] = pc[t] /\ job'[t] = job[t] /\ plan'[t] = plan[t]
    BY <1>7 DEF Steps, OthersIdle, Idles
  <2>2. \/ pc'[s] = "idle"
        \/ pc[s] # "idle" /\ job'[s] = job[s]
        \/ job'[s].via # "resolve"
        \/ job'[s].tx \in Pending /\ \A t \in Sessions : Holds(t) => job[t].tx # job'[s].tx
    BY <1>7 DEF Steps, Starts, Leaves, Locks, Consults, Plans, Commits, Reading, Writing, HoldsPending
  <2>3. ASSUME NEW t \in Sessions, Holds(t)'
        PROVE  Alone(t)'
    BY <1>1, <2>1, <2>2, <2>3
  <2>4. ASSUME NEW t \in Sessions, Holds(t)'
        PROVE  (job[t].tx \in Pending)'
    <3>1. CASE Commits(s)
      <4>1. t # s /\ Holds(t) /\ job'[t].tx = job[t].tx
        BY <2>1, <2>4, <3>1 DEF Commits
      <4>2. job[t].tx \in Pending /\ ~HoldsPending(s, job[t].tx)
        BY <1>1, <4>1 DEF HoldsPending
      <4>3. job[t].tx \in Rows /\ txn'[job[t].tx] = txn[job[t].tx]
        BY <3>1, <4>2, RowsOfOthers DEF Pending
      <4> QED BY <4>1, <4>2, <4>3 DEF Pending, Rows
    <3>2. CASE ~Commits(s)
      <4>1. UNCHANGED tables
        BY <1>7, <3>2 DEF Steps, Starts, Leaves, Locks, Consults, Plans
      <4> QED BY <1>1, <1>4, <2>1, <2>2, <2>4, <4>1
    <3> QED BY <3>1, <3>2
  <2>5. Owns(s)'
    BY <1>7 DEF Steps, Starts, Leaves, Locks, Consults, Plans, Commits, BeforeWallet, Reading, Writing
  <2>6. ASSUME NEW t \in Sessions
        PROVE  Owns(t)'
    BY <1>2, <2>1, <2>5, <2>6
  <2> QED BY <1>3, <2>3, <2>4, <2>6
<1> QED BY <1>5, <1>6, <1>7, StepShapes

-----------------------------------------------------------------------------
\* The ledger.

\* An entry that starts from the balance and the version of its wallet is chained.
LEMMA ChainGrows ==
  ASSUME NEW row, NEW l \in Seq(Entry), NEW e \in Entry, Balances(row, l),
         \A i \in DOMAIN l : Chained(l, i),
         e.before = row.balance.minor, e.version = row.version + 1,
         e.after = IF e.direction = "CREDIT" THEN e.before + e.amount
                   ELSE e.before - e.amount
  PROVE  /\ \A i \in DOMAIN Append(l, e) : Chained(Append(l, e), i)
         /\ Append(l, e) # <<>>
         /\ Append(l, e)[Len(Append(l, e))] = e
         /\ l = <<>> => Append(l, e)[1] = e /\ e.version = 2
         /\ l # <<>> => Append(l, e)[1] = l[1]
         /\ \A i \in DOMAIN Append(l, e) :
              Append(l, e)[i] = e \/ \E j \in DOMAIN l : Append(l, e)[i] = l[j]
<1> DEFINE m == Append(l, e)
           n == Len(l)
<1>1. n \in Nat /\ DOMAIN l = 1..n /\ DOMAIN m = 1..(n + 1) /\ Len(m) = n + 1
  OBVIOUS
<1>2. m[n + 1] = e /\ \A i \in 1..n : m[i] = l[i]
  OBVIOUS
<1>3. m # <<>> /\ (l = <<>> <=> n = 0)
  OBVIOUS
<1> HIDE DEF m
<1>4. ASSUME NEW i \in 1..n
      PROVE  Chained(m, i)
  <2>1. Chained(l, i)
    BY <1>1
  <2>2. m[i] = l[i]
    BY <1>2
  <2>3. i # 1 => m[i - 1] = l[i - 1]
    BY <1>1, <1>2
  <2> QED BY <2>1, <2>2, <2>3 DEF Chained
<1>5. Chained(m, n + 1)
  <2>1. CASE n = 0
    <3>1. e.before = 0
      BY <1>3, <2>1 DEF Balances
    <3> QED BY <1>2, <2>1, <3>1 DEF Chained
  <2>2. CASE n > 0
    <3>1. m[n + 1] = e /\ m[(n + 1) - 1] = l[n]
      BY <1>1, <1>2, <2>2
    <3>2. e.before = l[n].after /\ e.version = l[n].version + 1
      BY <1>3, <2>2 DEF Balances
    <3>3. n + 1 # 1
      BY <1>1, <2>2
    <3> QED BY <3>1, <3>2, <3>3 DEF Chained
  <2> QED BY <1>1, <2>1, <2>2
<1>6. l = <<>> => m[1] = e /\ e.version = 2
  BY <1>2, <1>3 DEF Balances
<1>7. l # <<>> => m[1] = l[1]
  BY <1>1, <1>2, <1>3
<1>8. \A i \in DOMAIN m : m[i] = e \/ \E j \in DOMAIN l : m[i] = l[j]
  BY <1>1, <1>2
<1> QED BY <1>1, <1>2, <1>3, <1>4, <1>5, <1>6, <1>7, <1>8 DEF m

\* Reconciled and EntriesNameRows, wallet by wallet.
WalletOK(w) ==
  /\ wallet[w] = NONE => ledger[w] = <<>>
  /\ wallet[w] # NONE => Balances(wallet[w], ledger[w])
  /\ \A i \in DOMAIN ledger[w] : Chained(ledger[w], i)
  /\ ledger[w] # <<>> =>
       ledger[w][1].version = IF txn[ledger[w][1].tx].op.kind = "OPENING" THEN 1 ELSE 2
  /\ \A i \in DOMAIN ledger[w] : ledger[w][i].tx \in Rows

\* Reconciled is a statement about each wallet on its own.
LEMMA WalletByWallet ==
  Reconciled /\ EntriesNameRows <=> \A w \in Wallets : WalletOK(w)
BY DEF Reconciled, EntriesNameRows, WalletOK

\* The first entry of a ledger names a transaction that exists.
LEMMA FirstIsEntry ==
  ASSUME NEW l \in Seq(Entry), l # <<>>
  PROVE  1 \in DOMAIN l
OBVIOUS

\* A wallet whose columns and ledger stay the same stays reconciled, whatever rows are
\* added elsewhere.
LEMMA UntouchedWallet ==
  ASSUME TypeOK, NEW w \in Wallets, WalletOK(w), Kept,
         wallet'[w] = wallet[w], ledger'[w] = ledger[w]
  PROVE  WalletOK(w)'
<1>1. ledger[w] \in Seq(Entry)
  BY DEF TypeOK, TablesOK
<1>2. ledger[w] # <<>> => ledger[w][1].tx \in Rows
  BY <1>1, FirstIsEntry DEF WalletOK
<1> QED BY <1>2 DEF WalletOK, Kept

\* A wallet moved by a commit.
LEMMA MovedWallet ==
  ASSUME BooksInv, NEW s \in Sessions, Commits(s), plan[s].decision.direction # "",
         NEW w \in Wallets, w = job[s].op.wallet
  PROVE  WalletOK(w)'
<1> DEFINE op == job[s].op
           id == IdFor(s)
           d == plan[s].decision
           e == EntryOf(id, op, d)
           l == ledger[w]
<1>1. pc[s] \in Writing /\ pc[s] # "idle" /\ CanCommit(s)
  BY DEF Commits, CanCommit, Writing
<1>2. /\ op \in Operation /\ plan[s] \in Plan
      /\ held[s] \in WalletRow /\ held[s] = wallet[w]
      /\ Follows(d, held[s], op.money) /\ plan[s].action \in {"insert", "update"}
      /\ plan[s].row.op = op /\ ValidateOperation(op)
  BY <1>1, JobOperation
     DEF BooksInv, TypeOK, SessionOK, WalletsAreLocked, DecisionsAreMovements
<1>3. /\ op.money.minor \in Int
      /\ op.money.minor > 0 \/ op.money.minor = 0
      /\ op.kind # "OPENING"
  <2>1. op.money.minor \in Int
    BY <1>2, Integers64 DEF Operation, Money
  <2>2. op.money.minor > 0 \/ op.money.minor = 0
    BY <1>2 DEF ValidateOperation, IsPositive, IsZero
  <2>3. op.kind # "OPENING"
    BY <1>2 DEF Operation, BusinessKinds
  <2> QED BY <2>1, <2>2, <2>3
<1>4. d \in Decision /\ d.direction \in {"DEBIT", "CREDIT"}
  BY <1>2 DEF Plan, Decision
<1>5. /\ txn' = [txn EXCEPT ![id] = plan[s].row]
      /\ wallet' = [wallet EXCEPT ![w] = d.wallet]
      /\ ledger' = [ledger EXCEPT ![w] = Append(l, e)]
  BY <1>2 DEF Commits, Write
<1>6. id \in TxIds /\ Kept /\ TablesOK'
  BY <1>1, IdForType, WriteType DEF BooksInv, Commits
<1>7. e \in Entry
  BY <1>2, <1>4, <1>6, EntryType
<1>8. /\ wallet'[w] = d.wallet /\ ledger'[w] = Append(l, e)
      /\ txn'[id] = plan[s].row /\ id \in Rows'
  <2>1. plan[s].row \in TxnRow
    BY <1>2 DEF Plan
  <2>2. plan[s].row # NONE
    BY <2>1, NoneIsNoRowAssumption
  <2> QED BY <1>3, <1>5, <1>6, <2>2 DEF BooksInv, TypeOK, TablesOK, Rows
<1>9. WalletOK(w) /\ Balances(wallet[w], l) /\ l \in Seq(Entry)
  <2>1. WalletOK(w) /\ l \in Seq(Entry)
    BY <1>3, WalletByWallet DEF BooksInv, TypeOK, TablesOK
  <2> QED BY <1>2, <2>1, NoneIsNoRowAssumption DEF WalletOK
<1>10. /\ e.tx = id /\ e.direction = d.direction /\ e.amount = op.money.minor
       /\ e.before = d.before /\ e.after = d.wallet.balance.minor
       /\ e.version = d.wallet.version
  BY DEF EntryOf
<1>11. /\ d.before = wallet[w].balance.minor
       /\ d.wallet \in WalletRow
       /\ d.wallet.version = wallet[w].version + 1
       /\ d.wallet.balance.minor = IF d.direction = "CREDIT"
                                   THEN wallet[w].balance.minor + op.money.minor
                                   ELSE wallet[w].balance.minor - op.money.minor
       /\ d.direction = "DEBIT" => d.wallet.balance.minor >= 0
  BY <1>2, <1>4 DEF Follows, MovedTo
<1>12. d.wallet.balance.minor >= 0
  <2>1. CASE d.direction = "CREDIT"
    <3>1. wallet[w].balance.minor \in Int /\ wallet[w].balance.minor >= 0
      BY <1>2, <1>9, Integers64 DEF WalletRow, Money, Balances
    <3>2. wallet[w].balance.minor + op.money.minor >= 0
      BY <1>3, <3>1, Grows
    <3> QED BY <1>11, <2>1, <3>2
  <2> QED BY <1>4, <1>11, <2>1
<1>13. /\ \A i \in DOMAIN l : Chained(l, i)
       /\ e.before = wallet[w].balance.minor
       /\ e.version = wallet[w].version + 1
       /\ e.after = IF e.direction = "CREDIT" THEN e.before + e.amount
                    ELSE e.before - e.amount
  BY <1>9, <1>10, <1>11 DEF WalletOK
<1> HIDE DEF e, l, d, id
<1>14. /\ \A i \in DOMAIN Append(l, e) : Chained(Append(l, e), i)
       /\ Append(l, e) # <<>>
       /\ Append(l, e)[Len(Append(l, e))] = e
       /\ l = <<>> => Append(l, e)[1] = e /\ e.version = 2
       /\ l # <<>> => Append(l, e)[1] = l[1]
       /\ \A i \in DOMAIN Append(l, e) :
            Append(l, e)[i] = e \/ \E j \in DOMAIN l : Append(l, e)[i] = l[j]
  BY <1>7, <1>9, <1>13, ChainGrows
<1>15. d.wallet # NONE /\ Balances(d.wallet, Append(l, e))
  BY <1>10, <1>11, <1>12, <1>14, NoneIsNoRowAssumption DEF Balances
<1>16. \A i \in DOMAIN Append(l, e) : Append(l, e)[i].tx \in Rows'
  <2>1. \A i \in DOMAIN l : l[i].tx \in Rows'
    BY <1>6, <1>9 DEF WalletOK, Kept, l
  <2> QED BY <1>8, <1>10, <1>14, <2>1
<1>17. Append(l, e)[1].version =
         IF txn'[Append(l, e)[1].tx].op.kind = "OPENING" THEN 1 ELSE 2
  <2>1. CASE l = <<>>
    <3>1. txn'[e.tx].op.kind # "OPENING"
      BY <1>2, <1>3, <1>8, <1>10
    <3>2. e.version = 2 /\ Append(l, e)[1] = e
      BY <1>14, <2>1
    <3> HIDE DEF op
    <3> QED BY <3>1, <3>2
  <2>2. CASE l # <<>>
    <3>1. l[1].tx \in Rows
      BY <1>9, <2>2, FirstIsEntry DEF WalletOK, l
    <3> QED BY <1>6, <1>9, <1>14, <2>2, <3>1 DEF WalletOK, Kept, l
  <2> QED BY <2>1, <2>2
<1> QED BY <1>8, <1>14, <1>15, <1>16, <1>17 DEF WalletOK

\* A wallet that is opened.
LEMMA OpenedWallet ==
  ASSUME BooksInv, NEW o \in Openings, Opens(o), NEW w \in Wallets
  PROVE  WalletOK(w)'
<1> DEFINE id == NewTxId
           row == OpeningRow(o)
<1>1. /\ o.wallet \in Wallets /\ o.money.minor \in Int /\ o.money.minor >= 0
      /\ wallet[o.wallet] = NONE
  <2>1. o.wallet \in Wallets /\ o.money \in Money
    BY OpeningsAssumption DEF Opening
  <2> QED BY <2>1, Integers64 DEF Opens, OpenWallet, Money
<1>2. /\ wallet \in [Wallets -> WalletRow \cup {NONE}]
      /\ txn \in [TxIds -> TxnRow \cup {NONE}]
      /\ ledger \in [Wallets -> Seq(Entry)]
      /\ WalletOK(w)
      /\ ledger[o.wallet] = <<>>
  BY <1>1, WalletByWallet DEF BooksInv, TypeOK, TablesOK, WalletOK
<1>3. PICK now \in Times :
        /\ wallet' = [wallet EXCEPT ![o.wallet] =
             [player |-> o.player, balance |-> o.money, version |-> 1, updatedAt |-> now]]
        /\ IF IsZero(o.money) THEN UNCHANGED <<txn, ledger, outbox>>
           ELSE /\ \E free \in TxIds : txn[free] = NONE
                /\ txn' = [txn EXCEPT ![id] = row]
                /\ ledger' = [ledger EXCEPT ![o.wallet] =
                     <<[tx |-> id, direction |-> "CREDIT", amount |-> o.money.minor,
                        before |-> 0, after |-> o.money.minor, version |-> 1, at |-> now]>>]
  BY DEF Opens, OpenWallet
<1> DEFINE v == [player |-> o.player, balance |-> o.money, version |-> 1, updatedAt |-> now]
           e == [tx |-> id, direction |-> "CREDIT", amount |-> o.money.minor,
                 before |-> 0, after |-> o.money.minor, version |-> 1, at |-> now]
<1>4. v \in WalletRow
  <2>1. o.player \in Players /\ o.money \in Money
    BY OpeningsAssumption DEF Opening
  <2>2. 1 \in 1..MaxInt
    BY MaxIntAssumption
  <2> QED BY <2>1, <2>2 DEF WalletRow
<1>5. v # NONE
  BY <1>4, NoneIsNoRowAssumption
<1>6. v.balance.minor = o.money.minor /\ v.version = 1
  OBVIOUS
<1>7. CASE IsZero(o.money)
  <2>1. Kept /\ ledger' = ledger
    BY <1>3, <1>7 DEF Kept, Rows
  <2>2. CASE w = o.wallet
    <3>1. wallet'[w] = v /\ ledger'[w] = <<>>
      BY <1>1, <1>2, <1>3, <2>1, <2>2
    <3>2. Balances(v, <<>>)
      BY <1>1, <1>6, <1>7 DEF Balances, IsZero
    <3> HIDE DEF v
    <3> QED BY <1>5, <3>1, <3>2 DEF WalletOK
  <2>3. CASE w # o.wallet
    BY <1>2, <1>3, <2>1, <2>3, UntouchedWallet DEF BooksInv
  <2> QED BY <2>2, <2>3
<1>8. CASE ~IsZero(o.money)
  <2>1. id \in TxIds /\ txn[id] = NONE
    <3>1. \E free \in TxIds : txn[free] = NONE
      BY <1>3, <1>8
    <3> QED BY <3>1 DEF NewTxId
  <2>2. row.op.kind = "OPENING" /\ row # NONE
    <3>1. row \in TxnRow
      <4>1. o.player \in Players /\ o.money \in Money /\ o.money.minor \in Int64
        BY OpeningsAssumption DEF Opening, Money
      <4>2. 0 \in 0..(MaxAttempts - 1)
        BY MaxAttemptsAssumption
      <4>3. row.op \in OpeningOp
        BY <1>1, <4>1 DEF OpeningRow, OpeningOp
      <4> QED BY <4>1, <4>2, <4>3 DEF OpeningRow, TxnRow, Statuses, Terminal
    <3> QED BY <3>1, NoneIsNoRowAssumption DEF OpeningRow
  <2>3. txn' = [txn EXCEPT ![id] = row] /\ ledger' = [ledger EXCEPT ![o.wallet] = <<e>>]
    BY <1>3, <1>8
  <2>4. /\ e.tx = id /\ e.direction = "CREDIT" /\ e.amount = o.money.minor
        /\ e.before = 0 /\ e.after = o.money.minor /\ e.version = 1
    OBVIOUS
  <2> HIDE DEF id, row, e, v
  <2>5. Kept /\ txn'[id] = row /\ id \in Rows'
    BY <1>2, <2>1, <2>2, <2>3 DEF Kept, Rows
  <2>6. CASE w = o.wallet
    <3>1. wallet'[w] = v /\ ledger'[w] = <<e>>
      BY <1>1, <1>2, <1>3, <2>3, <2>6 DEF v
    <3>2. Balances(v, <<e>>)
      BY <1>1, <1>6, <2>4 DEF Balances
    <3>3. Chained(<<e>>, 1)
      <4>1. 0 + o.money.minor = o.money.minor
        BY <1>1
      <4> QED BY <2>4, <4>1 DEF Chained
    <3>4. DOMAIN <<e>> = {1} /\ <<e>>[1] = e /\ <<e>> # <<>>
      OBVIOUS
    <3>5. txn'[e.tx].op.kind = "OPENING" /\ e.tx \in Rows'
      BY <2>2, <2>4, <2>5
    <3> QED BY <1>5, <2>4, <3>1, <3>2, <3>3, <3>4, <3>5 DEF WalletOK
  <2>7. CASE w # o.wallet
    BY <1>2, <1>3, <2>3, <2>5, <2>7, UntouchedWallet DEF BooksInv
  <2> QED BY <2>6, <2>7
<1> QED BY <1>7, <1>8

\* No step of executeTx, ResolvePendingReference or CreateWallet unbalances a wallet.
LEMMA LedgerKept ==
  ASSUME BooksInv, [Next]_vars
  PROVE  Reconciled' /\ EntriesNameRows'
<1>1. \A w \in Wallets : WalletOK(w)
  BY WalletByWallet DEF BooksInv
<1>2. ASSUME UNCHANGED tables, NEW w \in Wallets
      PROVE  WalletOK(w)'
  BY <1>1, <1>2 DEF tables, WalletOK, Rows
<1>3. ASSUME NEW s \in Sessions, Commits(s), NEW w \in Wallets
      PROVE  WalletOK(w)'
  <2>1. Kept
    BY <1>3, WriteType DEF Commits, BooksInv
  <2>2. CASE plan[s].decision.direction # "" /\ w = job[s].op.wallet
    BY <1>3, <2>2, MovedWallet
  <2>3. CASE plan[s].decision.direction = "" \/ w # job[s].op.wallet
    <3>1. wallet'[w] = wallet[w] /\ ledger'[w] = ledger[w]
      BY <1>3, <2>3 DEF Commits, Write, BooksInv, TypeOK, TablesOK
    <3> QED BY <1>1, <2>1, <3>1, UntouchedWallet DEF BooksInv
  <2> QED BY <2>2, <2>3
<1>4. ASSUME NEW w \in Wallets
      PROVE  WalletOK(w)'
  <2>1. Stays => UNCHANGED tables
    BY DEF Stays
  <2>2. ASSUME NEW s \in Sessions, Steps(s), ~Commits(s)
        PROVE  UNCHANGED tables
    BY <2>2 DEF Steps, Starts, Leaves, Locks, Consults, Plans
  <2> QED BY <1>2, <1>3, <2>1, <2>2, OpenedWallet, StepShapes DEF BooksInv
<1>5. (Reconciled /\ EntriesNameRows)' <=> \A w \in Wallets : WalletOK(w)'
  BY DEF Reconciled, EntriesNameRows, WalletOK
<1> QED BY <1>4, <1>5

-----------------------------------------------------------------------------

\* Empty tables are consistent books.
LEMMA BooksAtFirst == Init => BooksInv
<1> SUFFICES ASSUME Init
             PROVE  BooksInv
  OBVIOUS
<1>1. TypeOK
  BY TypesAtFirst
<1>2. \A s \in Sessions : pc[s] \notin Reading \cup Writing /\ pc[s] = "idle"
  BY DEF Init, Reading, Writing
<1>3. Rows = {} /\ \A w \in Wallets : wallet[w] = NONE /\ ledger[w] = <<>>
  BY DEF Init, Rows
<1>4. \A w \in Wallets : DOMAIN ledger[w] = {}
  BY <1>3
<1>5. WalletsAreLocked
  BY <1>2 DEF WalletsAreLocked
<1>6. DecisionsAreMovements
  BY <1>2, <1>3 DEF DecisionsAreMovements, Pending
<1>7. EntriesNameRows /\ ClaimsAreExclusive
  BY <1>2, <1>4 DEF EntriesNameRows, ClaimsAreExclusive
<1>8. Reconciled
  BY <1>3, <1>4 DEF Reconciled
<1> QED BY <1>1, <1>5, <1>6, <1>7, <1>8 DEF BooksInv

\* The inductive step, one lemma for each conjunct.
LEMMA BooksKept == BooksInv /\ [Next]_vars => BooksInv'
BY TypesKept, LocksKept, ClaimsKept, MovementsKept, LedgerKept DEF BooksInv

\* Behind every Reconciled state is one in which the wallet locks work.
THEOREM BooksHold == Spec => []BooksInv
BY BooksAtFirst, BooksKept, PTL DEF Spec

\* The columns of every wallet agree with its ledger, and the ledger is an unbroken
\* chain that starts from nothing and never shows a debt (store.go:554).
THEOREM BooksAreReconciled == Spec => []Reconciled
BY BooksHold, PTL DEF BooksInv

\* One session at a time has a wallet, and what it read is true when it writes
\* (store.go:471).
THEOREM LocksExclude == Spec => []WalletsAreLocked
BY BooksHold, PTL DEF BooksInv

\* Sessions plan movements of well formed operations only (wager.go:138).
THEOREM PlansAreMovements == Spec => []DecisionsAreMovements
BY BooksHold, PTL DEF BooksInv

\* One resolver at a time has a pending transaction, which is pending until that
\* resolver writes it (store.go:122).
THEOREM ClaimsExclude == Spec => []ClaimsAreExclusive
BY BooksHold, PTL DEF BooksInv

-----------------------------------------------------------------------------
\* The statements of a transaction come in one order, inbox, wallet, identity, and a
\* session waits only for sessions that are further on; so a set of waiting sessions
\* has a member nobody in the set holds up (store.go:38, 471, 550).
THEOREM NobodyWaitsInACircle == Spec => []NoWaitCycle
<1>1. NoWaitCycle
  <2> SUFFICES ASSUME NEW S \in SUBSET Sessions, S # {}
               PROVE  \E s \in S : Blockers(s) \cap S = {}
    BY DEF NoWaitCycle
  <2>1. ASSUME NEW s \in S, pc[s] \notin {"inbox", "wallet", "insert"}
        PROVE  Blockers(s) \cap S = {}
    BY <2>1 DEF Blockers
  <2>2. ASSUME NEW s \in S, pc[s] = "insert", \A t \in S : pc[t] # "commit"
        PROVE  Blockers(s) \cap S = {}
    BY <2>2 DEF Blockers, HoldsIdentity
  <2>3. ASSUME NEW s \in S, pc[s] = "wallet", \A t \in S : pc[t] \notin Reading \cup Writing
        PROVE  Blockers(s) \cap S = {}
    BY <2>3 DEF Blockers, HoldsWallet
  <2>4. ASSUME NEW s \in S, \A t \in S : pc[t] = "inbox"
        PROVE  Blockers(s) \cap S = {}
    BY <2>4 DEF Blockers, HoldsInbox
  <2>5. CASE \E s \in S : pc[s] \notin {"inbox", "wallet", "insert"}
    BY <2>1, <2>5
  <2>6. CASE \A s \in S : pc[s] \in {"inbox", "wallet", "insert"}
    <3>1. CASE \E s \in S : pc[s] = "insert"
      BY <2>2, <2>6, <3>1
    <3>2. CASE \A s \in S : pc[s] \in {"inbox", "wallet"}
      <4>1. \A t \in S : pc[t] \notin Reading \cup Writing
        BY <3>2 DEF Reading, Writing
      <4> QED BY <2>3, <2>4, <3>2, <4>1
    <3> QED BY <2>6, <3>1, <3>2
  <2> QED BY <2>5, <2>6
<1> QED BY <1>1, PTL

-----------------------------------------------------------------------------
\* What is written stays written.

\* A sequence with one more element starts as it did before.
LEMMA AppendExtends ==
  ASSUME NEW l \in Seq(Entry), NEW e \in Entry
  PROVE  Extends(Append(l, e), l) /\ Extends(l, l)
<1>1. /\ Append(l, e) \in Seq(Entry) /\ Len(Append(l, e)) = Len(l) + 1
      /\ \A i \in 1..Len(l) : Append(l, e)[i] = l[i]
  OBVIOUS
<1>2. SubSeq(Append(l, e), 1, Len(l)) = l
  BY <1>1
<1>3. SubSeq(l, 1, Len(l)) = l
  OBVIOUS
<1> QED BY <1>1, <1>2, <1>3 DEF Extends

\* A step keeps recorded operations, final rows and ledger entries.
LEMMA StepRewritesNothing ==
  ASSUME BooksInv, [Next]_vars
  PROVE  RewritesNothing
<1>1. \A w \in Wallets : ledger[w] \in Seq(Entry) /\ Extends(ledger[w], ledger[w])
  BY AppendExtends DEF BooksInv, TypeOK, TablesOK, Extends
<1>2. CASE UNCHANGED tables
  BY <1>1, <1>2 DEF tables, RewritesNothing, Rows
<1>3. ASSUME NEW o \in Openings, Opens(o)
      PROVE  RewritesNothing
  <2>1. wallet[o.wallet] = NONE /\ o.wallet \in Wallets
    BY <1>3, OpeningsAssumption DEF Opens, OpenWallet, Opening
  <2>2. ledger[o.wallet] = <<>>
    BY <2>1 DEF BooksInv, Reconciled
  <2>3. txn' = txn \/ \E id \in TxIds \ Rows : txn' = [txn EXCEPT ![id] = OpeningRow(o)]
    BY <1>3 DEF Opens, OpenWallet, NewTxId, Rows
  <2>4. ledger' = ledger \/ \E e \in Entry : ledger' = [ledger EXCEPT ![o.wallet] = <<e>>]
    <3>1. TablesOK'
      BY <1>3, OpenWalletStep DEF Opens, BooksInv, TypeOK
    <3>2. ledger' = ledger \/ \E e : ledger' = [ledger EXCEPT ![o.wallet] = <<e>>]
      BY <1>3 DEF Opens, OpenWallet
    <3>3. ASSUME NEW e, ledger' = [ledger EXCEPT ![o.wallet] = <<e>>]
          PROVE  e \in Entry
      <4>1. ledger'[o.wallet] = <<e>> /\ ledger'[o.wallet] \in Seq(Entry)
        BY <2>1, <3>1, <3>3 DEF BooksInv, TypeOK, TablesOK
      <4>2. <<e>>[1] \in Entry
        BY <4>1
      <4> QED BY <4>2
    <3> QED BY <3>2, <3>3
  <2>5. \A id \in Rows : txn'[id] = txn[id]
    BY <2>3 DEF BooksInv, TypeOK, TablesOK, Rows
  <2>6. ASSUME NEW w \in Wallets
        PROVE  Extends(ledger'[w], ledger[w])
    <3>1. CASE ledger'[w] = ledger[w]
      BY <1>1, <3>1
    <3>2. CASE \E e \in Entry : ledger[w] = <<>> /\ ledger'[w] = Append(ledger[w], e)
      BY <1>1, <3>2, AppendExtends
    <3>3. \A e \in Entry : <<e>> = Append(<<>>, e)
      OBVIOUS
    <3> QED BY <2>2, <2>4, <3>1, <3>2, <3>3 DEF BooksInv, TypeOK, TablesOK
  <2> QED BY <2>5, <2>6 DEF RewritesNothing, Rows
<1>4. ASSUME NEW s \in Sessions, Commits(s)
      PROVE  RewritesNothing
  <2>1. Kept
    BY <1>4, WriteType DEF Commits, BooksInv
  <2>2. ASSUME NEW id \in Rows, txn[id].status \in Terminal
        PROVE  txn'[id] = txn[id]
    <3>1. ~HoldsPending(s, id)
      BY <2>2 DEF BooksInv, ClaimsAreExclusive, HoldsPending, Pending, Terminal
    <3> QED BY <1>4, <3>1, RowsOfOthers DEF BooksInv
  <2>3. ASSUME NEW w \in Wallets
        PROVE  Extends(ledger'[w], ledger[w])
    <3> DEFINE d == plan[s].decision
               e == EntryOf(IdFor(s), job[s].op, d)
    <3>1. CASE d.direction # "" /\ w = job[s].op.wallet
      <4>1. pc[s] \in Writing /\ pc[s] # "idle" /\ CanCommit(s)
        BY <1>4 DEF Commits, CanCommit, Writing
      <4>2. job[s].op \in Operation /\ d \in Decision
        BY <4>1, JobOperation DEF BooksInv, TypeOK, SessionOK, Plan
      <4>3. e \in Entry
        BY <3>1, <4>1, <4>2, IdForType, EntryType DEF BooksInv
      <4>4. ledger'[w] = Append(ledger[w], e)
        BY <1>4, <3>1 DEF Commits, Write, BooksInv, TypeOK, TablesOK
      <4> HIDE DEF e
      <4> QED BY <1>1, <4>3, <4>4, AppendExtends
    <3>2. CASE d.direction = "" \/ w # job[s].op.wallet
      <4>1. ledger'[w] = ledger[w]
        BY <1>4, <3>2 DEF Commits, Write, BooksInv, TypeOK, TablesOK
      <4> QED BY <1>1, <4>1
    <3> QED BY <3>1, <3>2
  <2> QED BY <2>1, <2>2, <2>3 DEF RewritesNothing, Kept, Rows
<1>5. ASSUME NEW s \in Sessions, Steps(s), ~Commits(s)
      PROVE  UNCHANGED tables
  BY <1>5 DEF Steps, Starts, Leaves, Locks, Consults, Plans
<1> QED BY <1>2, <1>3, <1>4, <1>5, StepShapes DEF BooksInv, Stays

\* Recorded operations stay, final results are final, and the ledger only grows
\* (store.go:196, the triggers of migration 3).
THEOREM HistoryStaysFrozen == Spec => HistoryIsFrozen
<1>1. BooksInv /\ [Next]_vars => [RewritesNothing]_vars
  BY StepRewritesNothing
<1> QED BY <1>1, BooksHold, PTL DEF Spec, HistoryIsFrozen
=============================================================================
