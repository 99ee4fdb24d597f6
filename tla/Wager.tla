------------------------------- MODULE Wager -------------------------------
(***************************************************************************)
(* The business rules: what an operation is (usecases/wager.go), when it   *)
(* is well formed and how a transaction may change status                  *)
(* (model/transaction.go, model/wager_transaction.go), how a wallet is     *)
(* credited and debited (model/wallet.go), and what Decide answers.        *)
(* Nothing here has state: the module Wagering runs these rules inside the *)
(* database transactions of store.go.                                      *)
(***************************************************************************)
EXTENDS Money

CONSTANTS NONE,        \* SQL NULL, Go nil, the empty optional string
          Wallets, Players, Providers, Rounds,
          Exts,        \* external transaction ids
          Keys,        \* idempotency keys
          TxIds,       \* transaction uuids
          Times        \* what time.Now may return

ASSUME TimesAssumption == Times \subseteq Nat
ASSUME NoneAssumption ==
  /\ NONE \notin Providers /\ NONE \notin Exts /\ NONE \notin Keys /\ NONE \notin Rounds
  /\ NONE \notin TxIds

BusinessKinds == {"BET", "WIN", "LOSS", "REFUND", "ROLLBACK"}
Reversals == {"REFUND", "ROLLBACK"}
Terminal == {"PROCESSED", "REJECTED", "FAILED"}
Statuses == {"PENDING", "PENDING_REFERENCE"} \cup Terminal
Codes == {"WALLET_MISMATCH", "INVALID_REFERENCE", "INSUFFICIENT_FUNDS",
          "REVERSAL_INSUFFICIENT_FUNDS", "AMOUNT_OVERFLOW", "REFERENCE_NOT_FOUND",
          "PROCESSING_RETRIES_EXHAUSTED"}

\* The game of an operation is left out: only the hash reads it, as it does round.
Operation == [provider : Providers, ext : Exts, key : Keys, player : Players,
              wallet : Wallets, round : Rounds, kind : BusinessKinds,
              money : Money, ref : Exts \cup {NONE}]

WalletRow == [player : Players, balance : Money, version : 1..MaxInt, updatedAt : Times]

\* What Decide is told of the transaction an operation refers to.
Reference == [id : TxIds, kind : BusinessKinds, status : Statuses, wallet : Wallets,
              player : Players, round : Rounds, money : Money, reversed : BOOLEAN]

\* wallet is the caller's copy of the wallet, which Decide moves in place.
Decision == [status : Statuses, failure : Codes \cup {""}, refTx : TxIds \cup {NONE},
             direction : {"", "DEBIT", "CREDIT"}, before : Int64, wallet : WalletRow]

-----------------------------------------------------------------------------

ValidateOperation(op) ==
  \/ op.kind = "BET" /\ IsPositive(op.money) /\ op.ref = NONE
  \/ op.kind = "WIN" /\ IsPositive(op.money)
  \/ op.kind = "LOSS" /\ IsZero(op.money) /\ op.ref = NONE
  \/ op.kind \in Reversals /\ IsPositive(op.money) /\ op.ref # NONE

\* canonicalOperation and its SHA-256: everything except the idempotency key.
Hash(op) == [op EXCEPT !.key = NONE]

\* Move without the next version.
MoveAtSameVersion(w, next, now) ==
  IF next.err # "" THEN next
  ELSE [err |-> "", wallet |-> [w EXCEPT !.balance = next.money, !.updatedAt = now]]

\* Wallet.Credit and Wallet.Debit: the moved wallet, or why it did not move.
Move(w, next, now) ==
  IF next.err # "" THEN next
  ELSE [err |-> "",
        wallet |-> [w EXCEPT !.balance = next.money, !.version = @ + 1, !.updatedAt = now]]

\* CanMove without the comparison of the clock with the last movement.
CanMoveAtAnyTime(w, now) == w.version < MaxInt

CanMove(w, now) == now >= w.updatedAt /\ w.version < MaxInt

Credit(w, amount, now) ==
  IF ~CanMove(w, now) THEN Err("NOT_MOVABLE")
  ELSE Move(w, Add(w.balance, amount), now)

Debit(w, amount, now) ==
  IF ~CanMove(w, now) THEN Err("NOT_MOVABLE")
  ELSE IF w.balance.minor < amount.minor THEN Err("INSUFFICIENT_FUNDS")
  ELSE Move(w, Sub(w.balance, amount), now)

-----------------------------------------------------------------------------

Keeps(w, status, failure) ==
  [status |-> status, failure |-> failure, refTx |-> NONE,
   direction |-> "", before |-> 0, wallet |-> w]

Reject(w, code) == Keeps(w, "REJECTED", code)

Mismatches(op, w) == w.player # op.player \/ w.balance.currency # op.money.currency

NeedsReference(op) == op.kind \in Reversals \/ (op.kind = "WIN" /\ op.ref # NONE)

Unsettled(ref) == ref = NONE \/ ref.status \notin Terminal

SameRound(op, ref) ==
  ref.player = op.player /\ ref.wallet = op.wallet /\ ref.round = op.round

Reversible(kind) == IF kind = "REFUND" THEN {"BET"} ELSE {"BET", "WIN", "REFUND"}

\* AcceptsReference without the look at earlier reversals.
AcceptsReversedReference(op, ref) ==
  /\ ref.status = "PROCESSED" /\ SameRound(op, ref)
  /\ IF op.kind = "WIN"
     THEN ref.kind = "BET" /\ ref.money.currency = op.money.currency
     ELSE ref.money = op.money /\ ref.kind \in Reversible(op.kind)

AcceptsReference(op, ref) ==
  /\ ref.status = "PROCESSED" /\ SameRound(op, ref)
  /\ IF op.kind = "WIN"
     THEN ref.kind = "BET" /\ ref.money.currency = op.money.currency
     ELSE ref.money = op.money /\ ~ref.reversed /\ ref.kind \in Reversible(op.kind)

\* TakesMoney with every reversal a credit, as a refund is.
TakesMoneyOnBetsOnly(op, ref) == op.kind = "BET"

\* A bet, and the rollback of what had paid the player.
TakesMoney(op, ref) ==
  \/ op.kind = "BET"
  \/ op.kind = "ROLLBACK" /\ ref # NONE /\ ref.kind \in {"WIN", "REFUND"}

InsufficientCode(op) ==
  IF op.kind = "ROLLBACK" THEN "REVERSAL_INSUFFICIENT_FUNDS" ELSE "INSUFFICIENT_FUNDS"

MoveMoney(op, w, ref, now) ==
  LET debit == TakesMoney(op, ref)
      moved == IF debit THEN Debit(w, op.money, now) ELSE Credit(w, op.money, now) IN
  IF moved.err = "" THEN
    [status |-> "PROCESSED", failure |-> "",
     refTx |-> IF ref = NONE THEN NONE ELSE ref.id,
     direction |-> IF debit THEN "DEBIT" ELSE "CREDIT",
     before |-> w.balance.minor, wallet |-> moved.wallet]
  ELSE Reject(w, IF moved.err = "INSUFFICIENT_FUNDS"
                 THEN InsufficientCode(op) ELSE "AMOUNT_OVERFLOW")

Decide(op, w, ref, now) ==
  IF Mismatches(op, w) THEN Reject(w, "WALLET_MISMATCH")
  ELSE IF op.kind = "LOSS" THEN Keeps(w, "PROCESSED", "")
  ELSE IF NeedsReference(op) /\ Unsettled(ref) THEN Keeps(w, "PENDING_REFERENCE", "")
  ELSE IF NeedsReference(op) /\ ~AcceptsReference(op, ref)
       THEN Reject(w, "INVALID_REFERENCE")
  ELSE MoveMoney(op, w, ref, now)

\* The decision of Wager.Fail: no reference is consulted and no money moves.
Fail(w) == Keeps(w, "FAILED", "PROCESSING_RETRIES_EXHAUSTED")

\* TransactionState.Transition.
StateAllows(from, to) == from \notin Terminal /\ to \in Statuses \ {"PENDING"}

\* WagerTransaction.Transition of a transaction just created: the result balance
\* must be in the currency of the operation, a failure code goes with a rejection
\* or a failure only, and only a processed transaction names its reference.
TransitionAllows(op, d) ==
  /\ StateAllows("PENDING", d.status)
  /\ d.wallet.balance.currency = op.money.currency
  /\ d.failure # "" <=> d.status \in {"REJECTED", "FAILED"}
  /\ d.refTx # NONE => d.status = "PROCESSED"

-----------------------------------------------------------------------------
\* What the rules may do to a wallet.

\* v is w after one movement that left minor units on it.
MovedTo(v, w, minor) ==
  /\ v \in WalletRow
  /\ v.balance.minor = minor
  /\ v.balance.currency = w.balance.currency
  /\ v.version = w.version + 1
  /\ v.player = w.player
  /\ v.updatedAt >= w.updatedAt

\* What a decision may do to the wallet it was made on: leave it alone, or move it by
\* exactly the amount, one version on, without taking it into debt.
Follows(d, w, amount) ==
  /\ d.direction = "" => d.wallet = w
  /\ d.direction # "" => d.status = "PROCESSED" /\ d.before = w.balance.minor
  /\ d.direction = "CREDIT" => MovedTo(d.wallet, w, w.balance.minor + amount.minor)
  /\ d.direction = "DEBIT" => /\ MovedTo(d.wallet, w, w.balance.minor - amount.minor)
                              /\ w.balance.minor - amount.minor >= 0
=============================================================================
