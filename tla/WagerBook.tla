----------------------------- MODULE WagerBook -----------------------------
(***************************************************************************)
(* What the wagering store promises: operations are recorded one at a      *)
(* time, each decided on the wallet as it is at that moment and on the     *)
(* transaction it refers to as it is at that moment.  There are no         *)
(* sessions, no locks and no duplicates here, only the books.              *)
(*                                                                         *)
(* One liberty is left to an implementation.  A wallet serializes its own  *)
(* operations and not those of other wallets, so the reference of an       *)
(* operation may be missed, or seen before it settled, when it belongs to  *)
(* a wallet other than the operation's own.                                *)
(***************************************************************************)
EXTENDS Wager

CONSTANTS Requests, Openings, MaxAttempts

VARIABLES wallet, txn, ledger

books == <<wallet, txn, ledger>>

Rows == {id \in TxIds : txn[id] # NONE}

Recorded(op) ==
  \E id \in Rows : /\ txn[id].op.provider = op.provider
                   /\ txn[id].op.key = op.key \/ txn[id].op.ext = op.ext

Reversed(id) ==
  \E r \in Rows : /\ txn[r].refTx = id /\ txn[r].status = "PROCESSED"
                  /\ txn[r].op.kind \in Reversals

ViewOf(id, reversed) ==
  [id |-> id, kind |-> txn[id].op.kind, status |-> txn[id].status,
   wallet |-> txn[id].op.wallet, player |-> txn[id].op.player,
   round |-> txn[id].op.round, money |-> txn[id].op.money, reversed |-> reversed]

\* What an operation may be told of its reference.
Views(op) ==
  LET named == {id \in Rows : /\ op.ref # NONE
                              /\ txn[id].op.provider = op.provider
                              /\ txn[id].op.ext = op.ref}
      own == {id \in named : txn[id].op.wallet = op.wallet}
      seen == {ViewOf(id, r) : id \in named \ own, r \in BOOLEAN} IN
  {ViewOf(id, Reversed(id)) : id \in own}
  \cup seen \cup {[v EXCEPT !.status = "PENDING_REFERENCE"] : v \in seen}
  \cup (IF own = {} THEN {NONE} ELSE {})

Init ==
  /\ wallet = [w \in Wallets |-> NONE]
  /\ txn = [id \in TxIds |-> NONE]
  /\ ledger = [w \in Wallets |-> <<>>]

\* A wallet appears with its opening credit, if there is one.
Open(o) ==
  /\ wallet[o.wallet] = NONE
  /\ \A w \in Wallets : wallet[w] # NONE =>
       wallet[w].player # o.player \/ wallet[w].balance.currency # o.money.currency
  /\ \E now \in Times :
       /\ wallet' = [wallet EXCEPT ![o.wallet] =
            [player |-> o.player, balance |-> o.money, version |-> 1, updatedAt |-> now]]
       /\ \/ IsZero(o.money) /\ UNCHANGED <<txn, ledger>>
          \/ /\ IsPositive(o.money)
             /\ \E id \in TxIds \ Rows :
                  /\ txn' = [txn EXCEPT ![id] =
                       [op |-> [provider |-> NONE, ext |-> NONE, key |-> NONE,
                                player |-> o.player, wallet |-> o.wallet,
                                round |-> NONE, kind |-> "OPENING",
                                money |-> o.money, ref |-> NONE],
                        status |-> "PROCESSED", failure |-> "", refTx |-> NONE,
                        balance |-> o.money.minor, attempts |-> 0]]
                  /\ ledger' = [ledger EXCEPT ![o.wallet] =
                       <<[tx |-> id, direction |-> "CREDIT", amount |-> o.money.minor,
                          before |-> 0, after |-> o.money.minor, version |-> 1,
                          at |-> now]>>]

\* The row, the wallet and the ledger follow one decision together.
Enter(id, op, d, attempts) ==
  /\ txn' = [txn EXCEPT ![id] =
       [op |-> op, status |-> d.status, failure |-> d.failure, refTx |-> d.refTx,
        balance |-> d.wallet.balance.minor, attempts |-> attempts]]
  /\ wallet' = [wallet EXCEPT ![op.wallet] = d.wallet]
  /\ ledger' = IF d.direction = "" THEN ledger
               ELSE [ledger EXCEPT ![op.wallet] = Append(@,
                      [tx |-> id, direction |-> d.direction, amount |-> op.money.minor,
                       before |-> wallet[op.wallet].balance.minor,
                       after |-> d.wallet.balance.minor, version |-> d.wallet.version,
                       at |-> d.wallet.updatedAt])]

\* An operation of a known wallet is recorded once.
Record(op) ==
  /\ ValidateOperation(op)
  /\ wallet[op.wallet] # NONE
  /\ ~Recorded(op)
  /\ \E id \in TxIds \ Rows, view \in Views(op), now \in Times :
       \E d \in {Decide(op, wallet[op.wallet], view, now), Fail(wallet[op.wallet])} :
         TransitionAllows(op, d) /\ Enter(id, op, d, 0)

\* A pending transaction is tried again: settled, postponed, or given up at last.
Retry(id) ==
  /\ txn[id] # NONE /\ txn[id].status = "PENDING_REFERENCE"
  /\ LET row == txn[id]
         w == wallet[row.op.wallet] IN
     \E view \in Views(row.op), now \in Times :
       LET d == Decide(row.op, w, view, now) IN
       IF d.status # "PENDING_REFERENCE" THEN Enter(id, row.op, d, row.attempts)
       ELSE IF row.attempts + 1 < MaxAttempts
       THEN /\ txn' = [txn EXCEPT ![id].attempts = @ + 1]
            /\ UNCHANGED <<wallet, ledger>>
       ELSE Enter(id, row.op, Reject(w, "REFERENCE_NOT_FOUND"), row.attempts)

Next ==
  \/ \E o \in Openings : Open(o)
  \/ \E op \in Requests : Record(op)
  \/ \E id \in TxIds : Retry(id)

Spec == Init /\ [][Next]_books
=============================================================================
