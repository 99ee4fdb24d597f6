---------------------------- MODULE LedgerPages ----------------------------
(***************************************************************************)
(* GET /wallets/{walletId}/ledger: a client walks through the ledger of    *)
(* one wallet page by page (http.go, getLedger; store.go, ListLedger)      *)
(* while transactions go on adding entries to it.                          *)
(*                                                                         *)
(* Entries are committed in the order of their timestamps, as              *)
(* Wagering.LedgerIsInOrderOfTime has it, and several may share one; their *)
(* ids are random.  The cursor is opaque to the client, and what           *)
(* encodeCursor writes decodeCursor reads.                                 *)
(***************************************************************************)
EXTENDS Integers, SequencesExt

CONSTANTS
  Ids,            \* uuids, in the order of PostgreSQL
  Times,          \* timestamps
  Asked,          \* what clients send as limit, NONE when they leave it out
  DefaultLimit,   \* 50
  MaxLimit,       \* 100
  NONE

ASSUME LimitsAssumption == MaxLimit \in Nat /\ DefaultLimit \in 1..MaxLimit
ASSUME EntriesAssumption == Ids \subseteq Nat /\ Times \subseteq Nat

VARIABLES
  open,           \* whether the wallet exists
  ledger,         \* its committed entries
  pc,             \* where the client's request is
  limit,          \* the limit it sent
  answer,         \* the page read for it
  cursor,         \* what it sends to go on: the nextCursor of its last page
  seen,           \* the entries of the pages it received
  cuts            \* history: where each page ended, and the ledger it was read from

client == <<cursor, seen, cuts>>
vars == <<open, ledger, pc, limit, answer, client>>

Entry == [at : Times, id : Ids]

ASSUME NoneIsNoEntryAssumption == NONE \notin Entry

Steps == {"idle", "asked", "query", "answered", "done"}

\* Every variable has its type, and a page on its way is no longer than was asked for.
TypeOK ==
  /\ open \in BOOLEAN /\ ledger \subseteq Entry /\ (ledger # {} => open)
  /\ pc \in Steps
  /\ limit \in Asked
  /\ seen \in Seq(ledger)
  /\ cursor \in ledger \cup {NONE}
  /\ cuts \in Seq([last : ledger \cup {NONE}, upto : SUBSET ledger])
  /\ answer = NONE \/ Len(answer.entries) \in 0..MaxLimit

-----------------------------------------------------------------------------
\* The ledger.

Open ==
  /\ ~open
  /\ open' = TRUE
  /\ UNCHANGED <<ledger, pc, limit, answer, client>>

Commit(e) ==
  /\ open
  /\ \A f \in ledger : f.id # e.id /\ f.at <= e.at
  /\ ledger' = ledger \cup {e}
  /\ UNCHANGED <<open, pc, limit, answer, client>>

-----------------------------------------------------------------------------
\* getLedger and ListLedger.

ledgerLimit(value) == IF value = NONE THEN DefaultLimit ELSE value

LimitIsValid(value) == value = NONE \/ value \in 1..MaxLimit

\* ORDER BY created_at, id.
Before(e, f) == e.at < f.at \/ (e.at = f.at /\ e.id < f.id)

\* IsAfter with >= for >.
IsAtOrAfter(e, c) == c = NONE \/ e = c \/ Before(c, e)

\* (created_at, id) > ($2, $3).
IsAfter(e, c) == c = NONE \/ Before(c, e)

\* An entry comes after as many as are before it.
InOrder(S) ==
  [i \in 1..Cardinality(S) |-> CHOOSE e \in S : Cardinality({f \in S : Before(f, e)}) = i - 1]

\* LIMIT n + 1.
Rows(c, n) == LET rest == InOrder({e \in ledger : IsAfter(e, c)}) IN
  IF Len(rest) > n THEN SubSeq(rest, 1, n + 1) ELSE rest

\* Page going on after the row it has cut off.
PageFromExtra(c, n) == LET rows == Rows(c, n) IN
  IF Len(rows) > n THEN [entries |-> SubSeq(rows, 1, n), next |-> rows[n + 1], upto |-> ledger]
                   ELSE [entries |-> rows, next |-> NONE, upto |-> ledger]

\* The extra row is cut off and tells that there is a next page.
Page(c, n) == LET rows == Rows(c, n) IN
  IF Len(rows) > n THEN [entries |-> SubSeq(rows, 1, n), next |-> rows[n], upto |-> ledger]
                   ELSE [entries |-> rows, next |-> NONE, upto |-> ledger]

Ask(value) ==
  /\ pc = "idle"
  /\ pc' = "asked" /\ limit' = value
  /\ UNCHANGED <<open, ledger, answer, client>>

\* 400 or 404: the client may ask again.
Refuse ==
  /\ pc = "asked"
  /\ ~LimitIsValid(limit) \/ ~open
  /\ pc' = "idle"
  /\ UNCHANGED <<open, ledger, limit, answer, client>>

\* SELECT EXISTS(... FROM wallets ...).
FindWallet ==
  /\ pc = "asked"
  /\ LimitIsValid(limit) /\ open
  /\ pc' = "query"
  /\ UNCHANGED <<open, ledger, limit, answer, client>>

Query ==
  /\ pc = "query"
  /\ answer' = Page(cursor, ledgerLimit(limit))
  /\ pc' = "answered"
  /\ UNCHANGED <<open, ledger, limit, client>>

\* A failed statement, or an answer that never arrives.
Lose ==
  /\ pc \in {"asked", "query", "answered"}
  /\ pc' = "idle" /\ answer' = NONE
  /\ UNCHANGED <<open, ledger, limit, client>>

\* Without a nextCursor the client has reached the end.
Receive ==
  /\ pc = "answered"
  /\ seen' = seen \o answer.entries
  /\ cursor' = answer.next
  /\ cuts' = Append(cuts, [last |-> IF answer.entries = <<>> THEN NONE ELSE Last(answer.entries),
                           upto |-> answer.upto])
  /\ pc' = IF answer.next = NONE THEN "done" ELSE "idle"
  /\ answer' = NONE
  /\ UNCHANGED <<open, ledger, limit>>

-----------------------------------------------------------------------------

Init ==
  /\ open = FALSE /\ ledger = {}
  /\ pc = "idle" /\ limit \in Asked /\ answer = NONE
  /\ cursor = NONE /\ seen = <<>> /\ cuts = <<>>

Next ==
  \/ Open
  \/ \E e \in Entry : Commit(e)
  \/ \E value \in Asked : Ask(value)
  \/ Refuse \/ FindWallet \/ Query \/ Lose \/ Receive

Spec == Init /\ [][Next]_vars

-----------------------------------------------------------------------------

Walked == Range(seen)

\* The pages put together are in the order of the ledger and repeat nothing, whatever is
\* committed, lost and asked for again between two of them, and whatever their sizes.
PagesAreInOrder ==
  \A i, j \in DOMAIN seen : i < j => Before(seen[i], seen[j])

\* What the walk is past: all before its last entry, and at its end all that its last page
\* could have shown.
Passed(e) ==
  \/ seen # <<>> /\ Before(e, Last(seen))
  \/ pc = "done" /\ e \in Last(cuts).upto

\* An entry the walk is past without having shown it was committed after the page that
\* passed it, with the very timestamp on which that page ended.
OnlyTwinsAreMissed ==
  \A e \in ledger \ Walked : Passed(e) =>
    \E i \in DOMAIN cuts : LET cut == cuts[i] IN
      cut.last # NONE /\ e.at = cut.last.at /\ Before(e, cut.last) /\ e \notin cut.upto
=============================================================================
