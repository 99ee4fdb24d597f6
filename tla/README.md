# apostas_api: a verification project

This directory holds TLA+ models of the wagering API, the TLC runs that check them on
small instances, and proofs that TLAPS checks for every instance. Paths below are
relative to the repository (`internal/...` is `src/internal/...` in `PROJECT.json`).

## 1. The system and its parts

A player's wallet is debited by bets and credited by wins; refunds and rollbacks undo
earlier operations. Game providers send operations over HTTP or through an SQS queue,
more than once and in any order. All state that matters is in PostgreSQL; any number of
replicas of one process run an HTTP server, an input consumer, an outbox publisher and a
resolver of pending references against it.

| Part | State | Operations | Talks to | What is hard | What makes it correct |
|---|---|---|---|---|---|
| Money (`internal/model/money.go`) | none | Add, Sub, Negate, Compare, Amount, ParseMoney | everyone | overflow tests in the integer they protect; the largest amount | exact result or an error |
| Rules (`internal/usecases/wager.go`, `internal/model`) | none (a wallet is moved in memory) | Decide, Fail, ValidateOperation, Transition, Credit, Debit | called by the store with what it read | combinations of kind, reference and status; clock behind the wallet | a movement by exactly the amount, no debt, one version on |
| Store (`internal/infra/postgres/store.go`, `migrations/`) | `wallets`, `wager_transactions`, `wallet_ledger_entries`, `inbox_messages`, `outbox_events` | Execute, ExecuteInbox, ResolvePendingReference, CreateWallet | rules, through a callback in the middle of a transaction | sessions at READ COMMITTED, row locks and unique keys, reads without a lock, crashes, lost commits | books chained, each operation once, reversals once, answers durable |
| Resolver (`internal/worker/workers.go` 194-221) | `attempts`, `next_attempt_at` of pending rows | claim, retry, give up | store | several resolvers; references that never come | every pending transaction is settled |
| Input consumer (`workers.go` 26-176, `internal/infra/queue`) | the queue: visibility, receive counts, receipts; the inbox | receive, handle, retry, record FAILED, dead-letter, delete | SQS, store | redelivery, timeouts, stop in the middle | nothing lost, nothing done twice |
| Outbox publisher (`workers.go` 178-269) | `claimed_until`, `attempts`, `published_at` | claim, publish, mark, retry | SQS, store | lease expires, crash between publish and mark, order | published at least once |
| Ledger pages, reads (`internal/usecases/read.go`) | a cursor kept by the client | ListLedger, ReconcileWallet, Get... | store | pages while the ledger grows | every entry once |
| Migrations (`cmd/migrate`) | `schema_migrations` | up, down, registerLegacy | database | two runners, failure in between | each migration once |
| Lifecycle (`cmd/api/main.go`, `worker.Register`) | workers, context, done channel, listener, pool | start, stop | everyone | stop while working, two deadlines | parts stop in the order of their needs |
| Deployment (`compose.yaml`) | exit status of the migrations' container | migrate, then launch | migrations, lifecycle | an interrupted migration; operators' migrations beside it | the service finds what the container made |
| Controller, OIDC, config, metrics | none of consequence | | | | |

Clients call the store through the use cases; the consumer does so for each message and
deletes the message when the commit is known; the store writes events in the same commit
for the publisher to send. There are no calls between replicas: they meet in the tables.

`PROJECT.json` lists the hazards of the code line by line with the properties that cover
them.

## 2. Modules

| Module | Models | Uses |
|---|---|---|
| `Money` | `money.go`; the integer has the width `MaxInt` | |
| `MoneySweep` | a walk over all pairs of integers, for checking `Money` | `Money` |
| `Wager` | the rules, as operators | `Money` |
| `Wagering` | `store.go` with its tables and sessions, and the use cases and workers that start them | `Wager`, `WagerBook` |
| `WagerBook` | no code: what the store promises, one atomic step per operation | `Wager` |
| `Reads` | the queries that change nothing, and who may send them | `Wagering` |
| `InputQueue` | the input queue, the dead letter queue and `InputConsumer.Run` | `AtLeastOnce` |
| `Outbox` | `outbox_events` and `OutboxPublisher.Run` | `AtLeastOnce` |
| `AtLeastOnce` | no code: what both queues promise | |
| `ReferenceRetry` | the delays of pending references and the clocks they are computed with | |
| `LedgerPages` | a client's walk through the pages of a growing ledger | |
| `Migrate` | `cmd/migrate`, by several processes | |
| `Lifecycle` | the start and the stop of one process of `cmd/api` | |
| `Deployment` | the order in which `compose.yaml` runs both | `Migrate`, `Lifecycle` |
| `MCWagering`, `MCReads`, `MCInputQueue`, `MCOutbox`, `MCReferenceRetry`, `MCLedgerPages` | the instances that are checked | |
| `MoneyProofs`, `WageringProofs`, `SessionsProofs`, `LedgerPagesProofs`, `InputQueueProofs`, `OutboxProofs`, `ReferenceRetryProofs`, `DeploymentProofs` | theorems | TLAPS |

`Wagering` is the centre. What surrounds it is split along what can be told apart: a
message is to `InputQueue` what the store answers for it, an event is to `Outbox` the
transaction that wrote it, a pending row is to `ReferenceRetry` its timestamps, an entry is
to `LedgerPages` its place in the order of the ledger. Each of these takes from `Wagering`
what is shown there (a repeated message gets the same answer: `AnswersAreDurable`,
`InboxHasOutcome`; entries are committed in the order of their timestamps:
`LedgerIsInOrderOfTime`; events are committed with the movement they tell of:
`OutboxTellsTheBooks`).

Operators named `...AtSameVersion`, `...ToWrite`, `Accepts...`, `InsertUnchecked` and
the like that stand before a definition of the code and are used nowhere are plausible
mistakes in it: each property is known to fail with one of them (`mutants`).

### Wagering

*Tables.* `wallet`, `txn`, `ledger`, `inbox` and `outbox` hold what is committed. A wallet
row has player, balance, version and `updated_at`; a transaction row has the operation it
records (the idempotency key and the hashed fields are columns of it) with status, failure
code, reference, result balance and attempts; the ledger and the outbox are kept per
wallet, the ledger in the order of `wallet_version` and the outbox in the order of commits.

*Sessions.* A client, consumer or resolver has `pc`, the statement it sends next, and the
local variables of the Go function: `job` (the operation and where it came from), `held`
(the wallet row it locked), `ref` (the reference it read), `plan` (its decision and the row
it will write), `answer` (what the caller got last). The statements are one action each:

| Action | Code |
|---|---|
| `Request`, `RefuseInput` | `Wager.process` |
| `Deliver`, `GiveUp` | `InputConsumer.handle`, `recordPermanentFailure` with `Wager.Fail` |
| `Claim` | the `FOR UPDATE SKIP LOCKED` of `ResolvePendingReference` |
| `AcquireInbox` | the first two statements of `ExecuteInbox` |
| `LockWallet` | `SELECT ... FROM wallets ... FOR UPDATE` in both transactions |
| `Lookup` | the search for the same identity; answers replay and conflict |
| `ReadReference`, `ReadReversal` | two statements without locks, so two steps |
| `DecideNew`, `DecidePending` | the callback, the new entity and its transition, `attempts` |
| `Insert` | `INSERT INTO wager_transactions`, 23505 becomes `CONFLICT` |
| `Commit` | the writes of both transactions, made visible at once |
| `CommitUnheard` | the commit happened, the acknowledgement was lost |
| `Abort` | an error, a timeout, a lost connection or a dead process before the commit |
| `OpenWallet` | `CreateWallet` |

*Locks.* A session waits for those that hold what its statement needs (`Blockers`): an
inbox row, a wallet row, or an uncommitted row with the same unique key. A resolver skips
claimed rows. The foreign key on the reference takes a share lock on a row that is final
when it is taken (a reference is named only by a processed transaction), and nobody locks
final rows, so it adds no waiting. The foreign key on the wallet is taken by the session
that already holds the wallet.

*What is left out, and why nothing depends on it.*
- `CreateWallet` is one step: it reads nothing, and nobody can name the new wallet before
  it commits; two of them that compete for (player, currency) are serialized by the unique
  key, and the loser writes nothing.
- `next_attempt_at` is left out: a pending row may be claimed at any moment. Every schedule
  of the code is one of these; the delays are in `ReferenceRetry`.
- The retries of the consumer are not counted: a message may be received any number of
  times and `GiveUp` may happen at any of them. The code reaches each of these by failing
  often enough (`Abort` is always possible); the receptions are counted in `InputQueue`.
- The game of an operation is left out; only the hash reads it, as it does the round.
- The SHA-256 of an envelope stands for the envelope, that of an operation for the
  operation without its idempotency key (`Hash`).
- A clock is read when a session decides, and returns any of `Times`: clocks of
  machines disagree, and jump.
- Triggers, CHECKs and the index on reversals are not guards of `Commit`. They are the
  invariant `TriggersStaySilent`: none of them ever has to stop the code. So the model would
  show what the code does wrong even where the database saves it.

### Reads

`ReconcileWallet`, `GetTransaction` and `GetProviderTransaction` are operators on the state of
`Wagering`: each is one SQL statement, so one snapshot, and evaluating it in every state is
what a reader at any moment gets. A row that is read is checked again
(`RehydrateWagerTransaction`); the model does the same, so that a row the code can write
and cannot read back shows. `GetWallet` returns one row unchanged and is left out.

There is such a row: the checks demand that `updated_at` is not before `created_at`
(`wager_transaction.go` 106). An INSERT leaves both to the clock of the database; a resolver's
UPDATE sets `updated_at` by the clock of its replica, which may be behind (`store.go` 181,
204). No session looks at these columns, so `Reads` adds them to `Wagering` (`ReadsSpec`):
`antedated` has the rows in which they are out of order, and each UPDATE chooses on which
side its date falls (`Dates`). By how much clocks may differ before this happens is
the question of `ReferenceRetry`. `RecordsCanBeRead` and `AnswersCanBeRead` say that nothing else keeps
a row from its readers: one that is refused has waited for its reference, and was dated so.

### InputQueue

A consumer receives (`Receive`), handles (`Handle`, or `Stumble` when the database fails or
the acknowledgement is lost), decides what to do next (`Judge`, the `switch` of
`workers.go` 69-110), records the operation as FAILED after the last reception (`Fail`), and
calls SQS (`Call`: dead-letter, delete, postpone, release). Every call may fail with or
without having had its effect (`CallFails`, `FailStumbles`, `ReceiveUnheard`), a consumer may
be told to stop at any step (`Stop`), die (`Crash`) and start again (`Restart`).

SQS is external. It is modelled from how the code uses it: FIFO per message group (`GroupOf`
is the wallet), a visibility timeout that may end at any moment (`Expire`; the lengths of
`RetryDelay` and the 30 seconds are left out, every schedule being one of these), a receipt
that may or may not still work when a newer one exists, a receive count, and the redrive
policy as a choice (`Redrive`). The store is reduced to what it answers: `outcome` for what it
recorded, `taken` for an identity that belongs to another request; what it does with an
operation is in `Wagering`.

### Outbox

`Begin` and `Commit` are the transactions of the store; an event is dated by the start of
its transaction (`now()`), not by its commit, which is why rows appear in the table behind
others that are already claimed. A publisher locks the oldest rows (`Select`, `FOR UPDATE
SKIP LOCKED`), commits its lease (`Claim`), hands over each event in any order (`Publish`;
`UPDATE ... RETURNING` promises none) and marks or postpones it (`Mark`, `Retry`), whoever has
the lease by then: the code does not test it. `Abandon` is an error, a stop or a crash
anywhere. Leases and delays end at any moment. SQS's own deduplication is left out: an event
handed over twice counts twice.

Two things follow that a reader of the code may not expect, and that the properties state
as they are. Events of one wallet may be handed over in the reverse of their order even
by a single publisher, within one batch. And across batches an event is overtaken only by
events claimed while it was in somebody's hands, or after something went wrong with it
(`OvertakenInBatchOrTrouble`). Consumers of the events must order them by wallet version.

### ReferenceRetry

Here time counts. `now` is the clock of the database (`created_at`, what is due); a replica's
clock is `Skew` ahead of it or behind (`updated_at`, `next_attempt_at`). `Record`, `Select`,
`Postpone`, `GiveUp`, `Decide` and `Abort` are the steps of `ResolvePendingReference`
that touch these columns, with the table of delays of `retryDelay`. `patience` is a history
variable: the sum of the delays that were imposed.

### LedgerPages

The walk is `Ask`, `FindWallet`, `Query`, `Receive`, with `Refuse` and `Lose` for the answers
that do not come; each statement sees the ledger as it is then, and `Commit` adds to it in
between. `Query` reads one row more than the page to learn whether there is another. ORDER BY
is `InOrder`. The cursor is what `encodeCursor` puts in it (timestamp and id). An entry may be missed: one
committed later with exactly the timestamp on which a page ended and a smaller random id.
`OnlyTwinsAreMissed` says that nothing else is.

### Migrate, Lifecycle and Deployment

`Migrate` has a file as its number, the objects that exist (`schema`), the registry and the
advisory lock. The statements of `registerLegacy` are steps of their own, since they are
not in one transaction; a file and its registration are. A runner may be interrupted at each
(`Abort`), and its session keeps the lock until the server notices (`SessionEnds`).

`Lifecycle` has the hooks of Fx as steps: start workers, listen; then stop HTTP, stop workers,
close the pool. Fx is external: it calls `OnStop` in the reverse order, begins no hook once
the shared context has expired, and waits for none beyond it. So a request that hangs uses
up the time of the workers, which are then cut off, and when the *start* times out nothing
is stopped at all; `EndsTidily` says for which exits everything is known to be done.

A process that ends forgets what it knew (`Exit`).

`Deployment` runs migrations of either direction in any number and order, before the service
is launched and beside it. `compose.yaml` 65 waits for one thing only, that its own container of
`migrate up` exits with 0 (`migrated`); any run of `up` that comes to its end may be that
container, and one that is through may still die before it exits. What other runners do
meanwhile or afterwards keeps nobody from launching (`Launch`): an operator may run `down`
by hand at any time (README.md:375), and the service does not look at the schema when it
starts. So it may find less than all files, but only less by those that somebody reverted after
the container had exited (`reverted`, `ServesOnWholeSchema`). A `down` that comes before the
container has the lock is made good by it, and one that waits for the lock cannot take
anything from its work.

## 3. Runs

Bounds common to the runs of `Wagering`: `MaxInt = 6`, so that adding to a balance can
overflow; `MaxAttempts = 2` instead of 10, so that a row is postponed once and then given
up; one round, and one provider but in `reversals` and `duplicates`, where a second one reads or
sends. `TxIds` has room for every operation of the run and for the
opening, so that no operation is kept from committing for lack of ids. Symmetry permutes
the sessions of one role, which run the same code; it is used in runs without liveness only.

| Run | Instance | What it shows |
|---|---|---|
| `money_sweep` | `MaxInt = 250`: every pair of a 502-value integer, enough for two decimals and both overflow boundaries; two currencies | `ArithmeticIsExact`, `DecimalsRoundTrip` |
| `reversals` | 2 clients, 1 resolver, a bet with a refund and a rollback of it, arriving in any order, and readers of two providers; `ReadsSpec` | `Reconciled`, `WalletsAreLocked`, `DecisionsAreMovements`, `ReversalsUndoOnce`, `TriggersStaySilent`, `TypeOK`, `RecordsCanBeRead`, `AnswersCanBeRead`, and that `Wagering` implements `WagerBook` |
| `duplicates` | 1 client, 2 consumers, two providers, two clock readings; one bet under two keys, on another wallet, in two envelopes under one message id, and past the retry limit | `AnswersAreDurable`, `ConflictsAreReal`, `InboxHasOutcome`, `IdentitiesAreUnique`, `LedgerIsInOrderOfTime` |
| `chains` | 1 client, 1 resolver; bet, refund, rollback of the refund, win with a reference, with and without money | `MoneyIsExplained`, `OutboxTellsTheBooks`, `NoWaitCycle`, `HistoryIsFrozen` |
| `settling` | 1 client, 2 resolvers, two wallets, `FairSpec` | `ClaimsAreExclusive`, `PendingIsSettled` |
| `consuming` | 2 consumers, two messages of one group: the first can never be recorded, the second may lose its identity to another request meanwhile; 3 receptions instead of 5, redrive on | `NothingIsLost`, `DeadLettersAreJustified`, `GroupsStayInOrder`, and that the queue implements `AtLeastOnce` with its liveness |
| `publishing` | 2 publishers, two transactions with an event each, batches of 2 | `OnceUnlessTroubled`, `OvertakenInBatchOrTrouble`, and that the outbox implements `AtLeastOnce` with its liveness |
| `retries` | 2 rows, 2 replicas half a second ahead and half a second behind, 3 attempts, a delay that stops growing after the second, half seconds as the unit of time | `GivenUpInTime`, `RowsAreReadable` |
| `paging` | up to 5 entries on 3 timestamps, limits left out, 0, 1 and above the maximum of 2 | `PagesAreInOrder`, `OnlyTwinsAreMissed` |
| `deploying` | 2 runners of up or down over 3 files, starting from a new database or from one older than the registry with one or two files; beside them, once it is launched, a service with 3 workers and 2 requests | `RegistryMatchesSchema`, `DownRevertsTheLast`, `ServesOnWholeSchema`, `StopsInOrder`, `EndsTidily`, `UpReachesTheTop`, `StopsByItself` |
| `foreign` | a bet in a currency the wallet does not have | violation of `MismatchesAreRecorded` |
| `skewed` | small movements, two clock readings | violation of `OverflowsAreArithmetic` |

*Why the bounds are enough.* Two sessions on one wallet are enough for a lost update, two
reversals for a double one, two consumers for a message delivered twice at once, and two
resolvers for a double claim; a third session of a kind would only wait behind the other two.
The same holds of two consumers and two publishers with old and new receipts or leases. A
message has a receive count of its own, so `consuming` needs three receptions to have a
first, a middle and a last one; malformed messages are only in the proofs. With two
events a batch of 2 never leaves one out; that the oldest are taken when it must is covered
by `EventsAreOvertakenInTrouble`, for batches of any size. Three files are the two that
`registerLegacy` knows and one more. `Horizon` in `retries` (and `Slack`, how late a
step may be made) leaves room for every attempt of a row and its rejection where a replica that is behind
makes them, the earliest there can be.

`NoWaitCycle` meets in `chains` the waits for pending rows and wallets; those for inbox rows and
unique keys are in its theorem, `NobodyWaitsInACircle`. In `reversals` a pending row is postponed, settled or
given up with a date on either side, and looked up by callers who were told PENDING_REFERENCE.

The deadlock check is off in five runs that really come to an end: the walk of
`money_sweep`, all events published, the horizon of time, the last page, and the exit of
the process. In the others some action is always possible, a request that has already been
made being answered again, or a message received again.

*Refinement.* `WagerBook` has the books only: `wallet`, `txn` and `ledger`. `Record` takes an
operation that is not yet recorded and enters the decision on the wallet as it is;
`Retry` does so for a pending one. The mapping is the identity on the three tables;
`Commit` and `CommitUnheard` map to `Record` or `Retry`, or to a stutter when they replay, and
everything else to a stutter. The book has one liberty, which the code needs: references
that belong to another wallet are not protected by the wallet's lock and may be seen out
of date. Such an operation is rejected or waits, so no money depends on it
(`ReversalsUndoOnce`, `MoneyIsExplained`). `reversals` checks the refinement on its instance, and
`StoreImplementsTheBook` proves it.

`AtLeastOnce` has items that are accepted, delivered and retired. The input queue maps the
messages sent to accepted, those with an outcome in the store or a place in the dead letter
queue to delivered, and those no longer in the queue to retired; the outbox maps its
committed rows, the events SQS got, and the rows marked as published. The safety part is
proved (section 4); the runs check it with the fairness of the abstract specification, so
that they also show that every message leaves the queue and every event is published.

*Fairness.* `PendingIsSettled` is a promise of the resolvers, so the fairness is theirs:
weak fairness of claiming (`ReferenceResolver.Run` loops for ever, at once after success and
after a second otherwise) and of sending the next statement; strong fairness of getting
the lock on a wallet, since PostgreSQL queues those who wait for a row; the other
sessions end what they began, one way or the other. In addition the database must stop
failing the resolvers from some time on (`<>[][~Abort(s)]_vars`): with a failure in each
attempt a pending row stays pending for ever, since a failed attempt is not counted. The
claim is weakly fair for the resolver and not for each row; that a row is never passed over
for ever follows because each attempt brings another one closer to its end. Operations that
arrive for ever are outside the bounds of the run.

In `consuming` and `publishing` the loops of the workers are weakly fair (they run again at
once or after a second), replicas that end are started again, and visibility timeouts,
leases and delays end. From some time on nothing goes wrong (`<>[][Calm]_vars`): in
particular a message is handled within its visibility and a batch published within its
lease. Without that neither queue promises an end: an event published more slowly than its
lease lasts is claimed again each time.

In `deploying` somebody runs a migration again whenever it has ended (each runner in one of
its directions), statements are answered, and the lock is strongly fair because PostgreSQL queues
those who wait for it; a lost session is noticed in the end. Fx goes on by itself, handlers
return, and workers look at their context around every call. From some time on nothing
fails but files that do not fit, and no deadline passes. `UpReachesTheTop` demands in addition
that from some time on only `up` is run.

### What the two violations say

- *`foreign`.* `Decide` answers `WALLET_MISMATCH` for a currency that differs, but `Transition`
  refuses a result balance in another currency than the operation's. The
  transaction is rolled back: no row, 503 instead of 422 over HTTP; over SQS the message is
  retried, recording FAILED is refused for the same reason, and it ends in the dead letter
  queue. The architecture document says that such a rejection is recorded.
- *`skewed`.* A machine whose clock is behind the wallet's last movement cannot move it:
  `Credit` and `Debit` answer `ErrInvalidWallet`, and `Decide` makes of it the final rejection
  `AMOUNT_OVERFLOW`. The same check is what keeps the ledger in the order of time
  (`LedgerIsInOrderOfTime` fails without it).

### Disagreements seen while modelling, without a run

- After five receptions the code records the operation as FAILED and deletes the message
  (`workers.go` 82); only if that record is refused does it go to the dead letter queue.
  README.md:524 and ARCHITECTURE.md:199 send every such message to the dead letter queue.
- A reference is waited for during 1 + 1 + 2 + ... + 128 + 128 = 384 seconds (`store.go` 226,
  the delay stops growing with the eighth attempt); ARCHITECTURE.md:211 speaks of 512.
- A replica whose clock is more than half a second behind the database's can record a
  pending row, find it due, and write an `updated_at` that is before its `created_at`
  (`store.go` 181). `validateWagerTransaction` (`wager_transaction.go` 106) then
  refuses to read it, and the caller that was told to wait for it does not find it.
  `RowsAreReadable` holds for clocks at most half a second behind, which is the assumption of
  its theorem; `RecordsCanBeRead` and `AnswersCanBeRead` assume nothing of the clocks and except
  exactly these rows.
- If `registerLegacy` is interrupted between its two INSERTs, the registry says that file 1
  alone is applied, the registration is not tried again, and file 2 fails for ever on
  objects that exist (`cmd/migrate/main.go` 121; README.md:102 lets an old database be
  migrated by running `up`). The history variable `torn` marks this in `RegistryMatchesSchema` and
  `UpReachesTheTop`. The container of the migrations never exits with 0 on such a database, so
  the service is not launched on it (`ServesOnWholeSchema` does not except `torn`).

One sentence of the documents is more careful than the code needs: ARCHITECTURE.md:213 says
that one of two simultaneous reversals may meet the unique index at its commit. In
`reversals` it never does (`TriggersStaySilent`): both must be on the wallet of what they
reverse, so the wallet's lock decides between them and the loser is rejected.

## 4. Proofs

`tlapm` proves the following for all values of the constants: any sets of wallets, players,
operations, messages and sessions, any width of the integer, any limit of attempts. The
assumptions are those stated in the modules: `MaxInt` and `MaxAttempts` positive,
times are numbers, requests and messages are well typed, envelopes with one digest are equal
(SHA-256), the sets of sessions of the three roles are disjoint, and `NONE` is none of the
values it is told apart from: it is no external id, no key and no round, which the code
refuses to take blank (`wager.go` 104, `wager_transaction.go` 131), and no row, no message
and no reference, which are records. The other modules assume what their `ASSUME`s say of
the limits, the clocks and the shape of their constants.

### Money

- `MoneyProofs`: the overflow tests, computed with wrap-around, are exact
  (`AddTestIsExact`, `SubTestIsExact`); `ArithmeticCorrect` and `DecimalsAreRead` are the two
  invariants of the run `money_sweep` for every width: `Add`, `Sub`, `Negate` and `Compare`
  agree with the unbounded integers and refuse to mix currencies; `ParseMoney` reads back what `Amount` writes of an amount
  that is no debt, and of the numbers with two decimals it refuses exactly those that do not fit.

### The books: `WageringProofs`

- `DecideResult`: `Decide` leaves the wallet alone or moves it by the amount.
- `TypeCorrect`: `Spec => []TypeOK`. The third part of `TypeOK` (`SessionOK`) is
  needed for induction: what a session read is kept until it is used, and the row a
  resolver works on still exists with the same operation.
- `BooksAreReconciled`: `Spec => []Reconciled`, with the inductive invariant

      BooksInv == TypeOK /\ WalletsAreLocked /\ ClaimsAreExclusive
                  /\ DecisionsAreMovements /\ EntriesNameRows /\ Reconciled

  `Reconciled` alone is not inductive: a commit writes what was decided several steps
  before. It keeps the books if what it writes is a movement of the wallet it read
  (`DecisionsAreMovements`, from `DecideResult`), if that wallet is still what it read and
  nobody else has it (`WalletsAreLocked`), and if the transaction of the first entry keeps its
  kind (`ClaimsAreExclusive`, `EntriesNameRows`). The proof first reduces each action to one of
  six shapes of step (`Starts`, `Leaves`, `Locks`, `Consults`, `Plans`, `Commits`) and opening a
  wallet, and then shows each conjunct for the shapes that touch it.
- From the same invariant: `LocksExclude`, `ClaimsExclude`, `PlansAreMovements`,
  `HistoryStaysFrozen` (an action property), and `NobodyWaitsInACircle`: a session waits
  only for sessions that are further on, since the inbox row, the wallet and the unique
  keys are taken in this order.

### What sessions know: `SessionsProofs`

Each property below depends on something a session read one or several statements earlier. The
proofs first say, statement by statement, what a step does to the session that takes it and to
the tables (`Behaviour`, `MoveWrites`), and then keep five invariants, which rest on the books and
on one another.

    KnownInv == BooksInv /\ \A t \in Sessions : Knows(t)

`Knows` says what is still true of what a session learnt from the inbox, the lookup and the
INSERT: the inbox row of a message is its own, a row found for the same request has the same
operation and stays as it is once final, no row of the identity is on the session's wallet
after the lookup, and none is anywhere after the INSERT. From it: `IdentitiesStayUnique`,
`InboxKeepsOutcomes` (a message that is in the inbox has a transaction), `ConflictsStayReal`
(CONFLICT is answered only for an identity or a message id that belongs to something else) and
`AnswersStayTrue` (a final answer is what the table says, for ever). `TimeRunsForwards` needs
in addition that no entry of a wallet is later than the wallet's `updated_at`
(`EntriesPrecedeWallets`); the order of the entries alone is not inductive.

    Sound == RowsAreSound /\ \A t \in Sessions : Decided(t) /\ KnowsReference(t)

`RowsAreSound`: only what is processed names its reference, a processed reversal undoes what
it names, and no two name the same. A commit keeps this because a plan is the decision on what
was read (`Decided`), and what was read of a reference on the same wallet, its status and
whether it is reversed, is still so (`KnowsReference`): whoever could change it needs that
wallet. From it: `ReversalsStayUnique`, `TriggersAgree` (no trigger, CHECK or unique index
ever has to stop the code), and, with what a decision says of the movement (`Judges`),
`MoneyStaysExplained`: every entry belongs to one processed transaction and has its amount and
direction, and every processed transaction that moves money has its entry.

    Seeing == (statuses are final or waiting) /\ \A t \in Sessions : Sees(t)

What is left for the refinement: a reference that was not found is still not on this wallet,
and one that was found has the status that was seen or was still waiting. With it
`StoreImplementsTheBook`: `Spec => ImplementsWagerBook`. Each `Commit` is a `Record` or a
`Retry` of `WagerBook` on the books of that moment, which takes as its view the reference the
session read; all other steps but the opening of a wallet are stutters.

    StoryInv == OutboxTellsTheBooks /\ MoneyIsExplained /\ VersionsPrecede /\ SilentBefore

`OutboxStaysTrue`: every transaction is announced once on its own wallet, a wait before its
outcome, and the balance events are the ledger's entries in the order of their versions. A
commit adds to the end of the outbox, so the induction needs that no entry is ahead of the
wallet's version (`VersionsPrecede`) and that a wallet that does not exist has no events
(`SilentBefore`).

    DatesInv == \A id \in antedated : id \in Rows /\ HasWaited(id)

`AnswersStayReadable` and `RecordsStayReadable` are about `ReadsSpec`, each step of which is one
of `Wagering` (`ReadsAreWagering`). `ReadInv` says that each row that is written passes the
checks of `RehydrateWagerTransaction` on its columns (`ColumnsFit`), and that each row or status a
session is about to repeat is final or waiting. `DatesInv` says who can be dated wrongly: an
UPDATE finds a row that is not final, which is one that waits, and a row that waits has been
announced so (`StoryInv`); announcements stay (`EventsStay`). That reconciliation
never finds a difference is then a statement about the sum of a ledger of any length, the one
place where induction over data is needed: `SumOfEntries` is a recursive function, and
`Induction` (derived from the well-foundedness of the naturals, for a set of numbers instead
of a predicate) carries it along the ledger.

### Pages: `LedgerPagesProofs`

`PagesKeepOrder`, `PagesMissOnlyTwins` and `PagesTypeCorrect`, for any number of entries, ids
and timestamps, and limits of any size. `InOrderSorts` shows that `InOrder`, which places an
entry by the number of those before it, puts a finite set in its order, each element once;
`PageIsPage` that a page is the beginning of what comes after the cursor and that its cursor
is its last entry. The inductive invariant is

    IInv == TypeOK /\ IsFiniteSet(ledger) /\ (pc = "query" => LimitIsValid(limit))
            /\ Going /\ OnItsWay /\ PagesAreInOrder /\ OnlyTwinsAreMissed

`OnItsWay` says what an answer still tells when the ledger has grown behind it: it is a page
of the ledger it was read from, and what has been committed since is no older than anything in
that. `Going` says that the cursor is the last entry seen and that a page ended there. A
commit then lands before it only on the very timestamp of that end. The proof assumes, as the
module does, that entries are committed in the order of their timestamps, which is
`TimeRunsForwards` of `Wagering`.

### Queues, retries, deployment

- `InputQueueProofs`, for any messages, groups, contents and consumers, any limit, with
  and without redrive: `NoMessageIsLost`, `DeadLettersHaveReasons`, `GroupsKeepTheirOrder` and
  `DeliversAtLeastOnce` (the step simulation of `AtLeastOnce`). The inductive invariant is

      IInv == TypeOK /\ NothingIsLost /\ DeadLettersAreJustified /\ Reasons /\ InTurn

  `Reasons` says what a consumer knows at each step (one about to delete has an answer or a
  dead letter, one about to dead-letter has a reason), whoever else had the message in
  between; `InTurn` that a message is received only when all before it in its group have left
  the queue, which for a consumer with an old receipt is still true.
- `OutboxProofs`, for any transactions, events, publishers and batch size:
  `MarkedEventsWereSent`, `LeasesExclude`, `EventsAreSentOnce`, `EventsAreOvertakenInTrouble`
  and `OutboxDeliversAtLeastOnce`. The inductive invariant adds to these who may hold
  an event: a locked row is free and locked once (`Locks`), an event with which nothing went
  wrong is in one pair of hands, by its lease (`Leases`), what a publisher marks was sent
  (`Hands`), and what was sent is marked next (`Marking`). For the order it adds that a
  transaction committed before another began has the earlier date (`Dates`), that an event
  which cannot be claimed is in somebody's hands or has had its trouble (`Accounted`), and that
  what the property says of the events handed over is true of those in hand (`Followed`).
- `ReferenceRetryProofs`: `GivingUpTakesItsTime` and `RowsStayReadable`, for any clocks
  within `Lag`, any number of attempts and any cap on the delay; the second assumes that
  `Lag` is at most half a second. The invariant ties `next_attempt_at` to `patience`
  (`Scheduled`) and the locks of the resolvers to rows that are due.
- `DeploymentProofs`, for any runners, any number of files, workers and requests:
  `RegistryIsTrue`, `FilesFit`, `DownRevertsOne`, `ServiceFindsItsSchema`, `PartsStopInOrder` and
  `SuccessIsTidy`. The migrations' invariant follows each statement of a runner with what
  it has found out while it has the lock; that of the composition adds that an `up` that passed a
  file left it registered (`UpPassed`), so that one that is through has registered all
  (`SuccessRegistersAll`, which rests on the lock); and that what is missing after the container has
  exited was reverted since (`MissingIsReverted`, from `RegistryFollowsSchema`).

Every safety property that a passing run checks is proved, and the action properties and
the refinement of `WagerBook` with them. Model-checked only is liveness, which with `ENABLED`
is beyond the prover: `PendingIsSettled`, `UpReachesTheTop`, `StopsByItself`, and the fairness
of `AtLeastOnce`.

## 5. Not modelled, and what could follow

- Parsing of requests, status codes and JSON in the HTTP controller, the configuration and
  the metrics keep no state that anything else reads.
- Authentication keeps none either: the keys of the identity provider are fetched for each
  request, and the token is verified by a library. Who may read what once the caller is
  known is in `Reads`.
- The test programs and the containers of PostgreSQL, LocalStack and Keycloak.
- What the files of the migrations do to rows that exist, and how a service fails whose tables
  are reverted while it runs.
- Two processes of the service in one deployment meet in the tables only: they are the
  sessions, consumers and publishers of the other modules, not of `Lifecycle`.

## 6. Running

    cd tla
    tlc -workers 2 -config reversals.cfg MCReads
    tlc -workers 2 -config consuming.cfg MCInputQueue
    tlc -workers 2 -config chains.cfg MCWagering
    tlc -workers 2 -config deploying.cfg Deployment
    tlc -config MoneySweep.cfg MoneySweep
    tlapm WageringProofs.tla
    tlapm SessionsProofs.tla
    tlapm LedgerPagesProofs.tla
    tlapm DeploymentProofs.tla
