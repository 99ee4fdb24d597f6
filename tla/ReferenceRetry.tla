--------------------------- MODULE ReferenceRetry ---------------------------
(***************************************************************************)
(* When a transaction that waits for its reference is tried again: the     *)
(* delays of ResolvePendingReference, and the clocks they are computed     *)
(* with.  created_at, and what is due, are read from the clock of the      *)
(* database; next_attempt_at and updated_at are written by the clocks of   *)
(* the replicas, which may be ahead of it or behind.                       *)
(*                                                                         *)
(* What a transaction does when it is settled is Wagering's business.      *)
(***************************************************************************)
EXTENDS Integers

CONSTANTS
  Rows,              \* transactions that name a reference
  Replicas, Skew,    \* how far the clock of a replica is ahead of the database's
  Lag,               \* no clock is behind by more
  Second,            \* a second, in units of time
  MaxAttempts, Cap,  \* 10 attempts, and the delay stops growing with the eighth
  Horizon, Slack,    \* bounds: of time, and of how late a step is made
  NONE

ASSUME ClocksAssumption ==
  /\ Skew \in [Replicas -> Int] /\ Lag \in Nat
  /\ \A r \in Replicas : Skew[r] >= -Lag
ASSUME DelaysAssumption == Second \in Nat \ {0} /\ MaxAttempts \in Nat \ {0} /\ Cap \in 1..8
ASSUME NoneAssumption == NONE \notin Rows

VARIABLES
  now,          \* the clock of the database
  status, created, updated, attempts, next,    \* columns of the rows
  known,        \* rows whose reference is settled
  work,         \* the row a resolver has locked
  patience      \* history: the time that must have passed before the next attempt

row == <<status, created, updated, attempts, next, patience>>
vars == <<now, row, known, work>>

\* Every column has its type, the last attempt is not counted, and a locked row waits.
TypeOK ==
  /\ now \in Nat /\ known \subseteq Rows
  /\ status \in [Rows -> {"none", "begun", "waiting", "settled", "rejected"}]
  /\ created \in [Rows -> Nat] /\ updated \in [Rows -> Int] /\ next \in [Rows -> Int]
  /\ patience \in [Rows -> Int]
  /\ attempts \in [Rows -> 0..(MaxAttempts - 1)]
  /\ work \in [Replicas -> Rows \cup {NONE}]
  /\ \A r \in Replicas : work[r] # NONE => status[work[r]] = "waiting"

Clock(r) == now + Skew[r]

\* retryDelay, and the second that nextAttempt waits before the first attempt.
Doubled == <<1, 2, 4, 8, 16, 32, 64, 128>>

Delay(n) == Second * Doubled[IF n < Cap THEN n ELSE Cap]

\* Transactions are short, and the replicas look for rows every second.
Tick ==
  /\ now < Horizon
  /\ \A x \in Rows : /\ status[x] = "begun" => now < created[x] + Slack
                     /\ status[x] = "waiting" => now < next[x] + Slack
  /\ now' = now + 1
  /\ UNCHANGED <<row, known, work>>

-----------------------------------------------------------------------------
\* executeTx.

\* created_at is now(): when the transaction of the database began.
Begin(x) ==
  /\ status[x] = "none"
  /\ status' = [status EXCEPT ![x] = "begun"]
  /\ created' = [created EXCEPT ![x] = now]
  /\ updated' = [updated EXCEPT ![x] = now]
  /\ UNCHANGED <<now, attempts, next, patience, known, work>>

\* RecordDue without the first second.
RecordDue(r, x) ==
  /\ status[x] = "begun"
  /\ status' = [status EXCEPT ![x] = "waiting"]
  /\ next' = [next EXCEPT ![x] = Clock(r)]
  /\ patience' = [patience EXCEPT ![x] = -Lag]
  /\ UNCHANGED <<now, created, updated, attempts, known, work>>

\* The reference is not there: the row waits, and is due in a second.
Record(r, x) ==
  /\ status[x] = "begun"
  /\ status' = [status EXCEPT ![x] = "waiting"]
  /\ next' = [next EXCEPT ![x] = Clock(r) + Second]
  /\ patience' = [patience EXCEPT ![x] = Second - Lag]
  /\ UNCHANGED <<now, created, updated, attempts, known, work>>

Settle(x) ==
  /\ x \notin known
  /\ known' = known \cup {x}
  /\ UNCHANGED <<now, row, work>>

-----------------------------------------------------------------------------
\* ResolvePendingReference.

Locked == {work[r] : r \in Replicas}

Due == {x \in Rows \ Locked : status[x] = "waiting" /\ next[x] <= now}

Select(r) ==
  /\ work[r] = NONE
  /\ \E x \in Due :
       /\ \A y \in Due : next[x] <= next[y]
       /\ work' = [work EXCEPT ![r] = x]
  /\ UNCHANGED <<now, row, known>>

Write(r, x, s) ==
  /\ status' = [status EXCEPT ![x] = s]
  /\ updated' = [updated EXCEPT ![x] = Clock(r)]
  /\ work' = [work EXCEPT ![r] = NONE]
  /\ UNCHANGED <<now, created, known>>

\* The reference is there, and the transaction is decided.
Decide(r) ==
  /\ work[r] # NONE /\ work[r] \in known
  /\ Write(r, work[r], "settled")
  /\ UNCHANGED <<attempts, next, patience>>

Fruitless(r) == work[r] # NONE /\ work[r] \notin known

\* Postpone counting the delay from the creation of the row.
PostponeFromCreation(r) ==
  LET x == work[r] n == attempts[x] + 1 IN
  /\ Fruitless(r) /\ n < MaxAttempts
  /\ Write(r, x, "waiting")
  /\ attempts' = [attempts EXCEPT ![x] = n]
  /\ next' = [next EXCEPT ![x] = created[x] + Delay(n)]
  /\ patience' = [patience EXCEPT ![x] = @ + Delay(n) - Lag]

Postpone(r) ==
  LET x == work[r] n == attempts[x] + 1 IN
  /\ Fruitless(r) /\ n < MaxAttempts
  /\ Write(r, x, "waiting")
  /\ attempts' = [attempts EXCEPT ![x] = n]
  /\ next' = [next EXCEPT ![x] = Clock(r) + Delay(n)]
  /\ patience' = [patience EXCEPT ![x] = @ + Delay(n) - Lag]

\* The last attempt is fruitless; it is not written how many there were.
GiveUp(r) ==
  /\ Fruitless(r) /\ attempts[work[r]] + 1 >= MaxAttempts
  /\ Write(r, work[r], "rejected")
  /\ UNCHANGED <<attempts, next, patience>>

\* The attempt fails or its process dies: it is as if it had not been made.
Abort(r) ==
  /\ work[r] # NONE
  /\ work' = [work EXCEPT ![r] = NONE]
  /\ UNCHANGED <<now, row, known>>

-----------------------------------------------------------------------------

Init ==
  /\ now = 0 /\ known = {}
  /\ status = [x \in Rows |-> "none"]
  /\ created = [x \in Rows |-> 0] /\ updated = [x \in Rows |-> 0]
  /\ attempts = [x \in Rows |-> 0] /\ next = [x \in Rows |-> 0]
  /\ patience = [x \in Rows |-> 0]
  /\ work = [r \in Replicas |-> NONE]

Next ==
  \/ Tick
  \/ \E x \in Rows : Begin(x) \/ Settle(x) \/ \E r \in Replicas : Record(r, x)
  \/ \E r \in Replicas : Select(r) \/ Decide(r) \/ Postpone(r) \/ GiveUp(r) \/ Abort(r)

Spec == Init /\ [][Next]_vars

-----------------------------------------------------------------------------

\* A transaction is given up only after all the delays, whoever made the attempts, less
\* what the clocks of those who made them were behind.
GivenUpInTime == \A x \in Rows : status[x] = "rejected" => now - created[x] >= patience[x]

\* No attempt dates a row before its creation, which validateWagerTransaction demands of
\* every row that is read.  It holds as long as no clock is behind the database's by more
\* than half a second: created_at is read from the one, updated_at from the other.
RowsAreReadable == \A x \in Rows : updated[x] >= created[x]
=============================================================================
