------------------------------- MODULE Reads -------------------------------
(***************************************************************************)
(* What readers see while Wagering runs: the queries of store.go that      *)
(* change nothing, each one statement and so one snapshot of the tables,   *)
(* and who may send them (http.go).                                        *)
(*                                                                         *)
(* A row is checked again when it is read, its timestamps too: no session  *)
(* looks at these, so they are added here.  An INSERT leaves both to their *)
(* DEFAULT now(), the clock of the database; the UPDATE of a resolver sets *)
(* updated_at by the clock of its replica, which may be on either side.    *)
(* All that is asked of them is whether they are in order.                 *)
(*                                                                         *)
(* The pages of the ledger are left to LedgerPages.                        *)
(***************************************************************************)
EXTENDS Wagering

VARIABLE antedated      \* the rows whose updated_at lies before their created_at

readVars == <<vars, antedated>>

\* What an UPDATE has changed; an INSERT makes a row that was not there.
Updated == {id \in Rows : txn'[id] # txn[id]}

\* UPDATE wager_transactions SET ... updated_at = $4, or $6.
Dates == \E late \in SUBSET Updated : antedated' = (antedated \ Updated) \cup late

ReadsInit == Init /\ antedated = {}

ReadsNext == Next /\ Dates

ReadsSpec == ReadsInit /\ [][ReadsNext]_readVars

-----------------------------------------------------------------------------
\* ReconcileWallet.

Signed(entry) == IF entry.direction = "CREDIT" THEN entry.amount ELSE -entry.amount

SumOfEntries(w) ==
  LET l == ledger[w]
      sum[n \in 0..Len(l)] == IF n = 0 THEN 0 ELSE sum[n - 1] + Signed(l[n]) IN
  sum[Len(l)]

\* The sum of bigints is numeric; the cast back to bigint is checked.
ReconcileWallet(w) ==
  IF wallet[w] = NONE THEN Err("NOT_FOUND")
  ELSE IF SumOfEntries(w) \notin Int64 THEN Err("UNAVAILABLE")
  ELSE LET stored == wallet[w].balance
           difference == Sub(stored, InCurrency(stored.currency, SumOfEntries(w))) IN
       IF difference.err # "" THEN difference
       ELSE [err |-> "", consistent |-> IsZero(difference.money),
             checked |-> Len(ledger[w])]

-----------------------------------------------------------------------------
\* GetTransaction, GetTransactionForProvider, GetTransactionByExternal.

\* validateWagerTransaction of a stored row, but for its timestamps.
ColumnsFit(row) ==
  /\ row.balance >= 0
  /\ row.failure # "" <=> row.status \in {"REJECTED", "FAILED"}
  /\ IF row.op.kind = "OPENING"
     THEN /\ IsPositive(row.op.money) /\ row.balance = row.op.money.minor
          /\ row.status = "PROCESSED"
          /\ {row.op[f] : f \in {"provider", "ext", "key", "round", "ref"}} = {NONE}
          /\ row.refTx = NONE
     ELSE /\ NONE \notin {row.op[f] : f \in {"provider", "ext", "key", "round"}}
          /\ ValidateOperation(row.op)

RehydrateWagerTransaction(id) == ColumnsFit(txn[id]) /\ id \notin antedated

scanTransaction(ids) ==
  IF ids = {} THEN Err("NOT_FOUND")
  ELSE LET id == CHOOSE i \in ids : TRUE IN
       IF ~RehydrateWagerTransaction(id) THEN Err("INVALID_TRANSACTION")
       ELSE [err |-> "", tx |-> id]

WalletService == "wallet-service"

\* GET /wagering/transactions/{transactionId} for any provider.
GetAnyTransaction(principal, id) == scanTransaction(Rows \cap {id})

\* GET /wagering/transactions/{transactionId}.
GetTransaction(principal, id) ==
  scanTransaction({i \in Rows \cap {id} : principal \in {WalletService, txn[i].op.provider}})

\* GET /providers/{providerId}/wagering/transactions/{externalTransactionId}.
GetProviderTransaction(principal, provider, ext) ==
  IF principal \notin {WalletService, provider} THEN Err("FORBIDDEN")
  ELSE scanTransaction(Named(provider, ext))

-----------------------------------------------------------------------------

\* A reconciliation finds the wallet and nothing wrong with it, overflows nowhere, and has
\* looked at one entry for each of its versions (version 1 may have none).
Reconciles(w) ==
  LET r == ReconcileWallet(w) IN
  /\ r.err = "" /\ r.consistent
  /\ r.checked \in {wallet[w].version - 1, wallet[w].version}

\* The transaction was announced as waiting for its reference.
HasWaited(id) ==
  LET events == outbox[txn[id].op.wallet] IN
  \E i \in DOMAIN events : events[i].tx = id /\ events[i].type = "PENDING_REFERENCE"

\* Whatever wrote a transaction, a request, a message, its failure or the opening of a
\* wallet, the checks on reading let it pass; only one that has waited, and that a resolver
\* with a clock behind the database's wrote last, is refused.  And at no moment does a
\* reconciliation find the balances and the entries apart.
RecordsCanBeRead ==
  /\ \A id \in Rows :
       GetTransaction(WalletService, id).err # "" => id \in antedated /\ HasWaited(id)
  /\ \A w \in Wallets : wallet[w] # NONE => Reconciles(w)

\* A caller that was given the id of a transaction finds it, by this id and by its own
\* external id, unless the clock of a resolver keeps it from every reader, and in the status
\* it was told or, if that was not final, in a later one; and other providers find it by
\* neither, although their external ids may be the same.
AnswersCanBeRead ==
  \A s \in Sessions : (answer[s] # NONE /\ answer[s].tx # NONE) =>
    LET a == answer[s]
        found == GetTransaction(a.op.provider, a.tx) IN
    /\ IF found.err = "" THEN found.tx = a.tx ELSE a.tx \in antedated /\ HasWaited(a.tx)
    /\ GetProviderTransaction(a.op.provider, a.op.provider, a.op.ext) = found
    /\ a.status \in {txn[a.tx].status, "PENDING_REFERENCE"}
    /\ \A other \in Providers \ {a.op.provider, WalletService} :
         /\ GetTransaction(other, a.tx).err = "NOT_FOUND"
         /\ GetProviderTransaction(other, other, a.op.ext) # [err |-> "", tx |-> a.tx]
=============================================================================
