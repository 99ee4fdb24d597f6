------------------------- MODULE LedgerPagesProofs -------------------------
(***************************************************************************)
(* The walk through the pages, for any number of entries on any            *)
(* timestamps and for limits of any size.                                  *)
(***************************************************************************)
EXTENDS LedgerPages, FiniteSetTheorems, TLAPS

-----------------------------------------------------------------------------
\* The order of the ledger.

\* Timestamps and ids are numbers.
LEMMA EntryNumbers ==
  ASSUME NEW e \in Entry
  PROVE  e.at \in Int /\ e.id \in Int
<1>1. e.at \in Times /\ e.id \in Ids
  BY DEF Entry
<1>2. Times \subseteq Int /\ Ids \subseteq Int
  BY EntriesAssumption
<1> QED BY <1>1, <1>2

\* No two entries share a place, whichever they are.
LEMMA OrderIsTotal ==
  ASSUME NEW e \in Entry, NEW f \in Entry
  PROVE  /\ ~Before(e, e)
         /\ Before(e, f) => ~Before(f, e)
         /\ e = f \/ Before(e, f) \/ Before(f, e)
<1>1. e.at \in Int /\ e.id \in Int /\ f.at \in Int /\ f.id \in Int
  BY EntryNumbers
<1>2. e.at = f.at /\ e.id = f.id => e = f
  BY DEF Entry
<1> QED BY <1>1, <1>2 DEF Before

\* What is before what is before an entry is before it.
LEMMA OrderIsTransitive ==
  ASSUME NEW e \in Entry, NEW f \in Entry, NEW g \in Entry, Before(e, f), Before(f, g)
  PROVE  Before(e, g)
<1>1. /\ e.at \in Int /\ e.id \in Int /\ f.at \in Int /\ f.id \in Int
      /\ g.at \in Int /\ g.id \in Int
  BY EntryNumbers
<1> QED BY <1>1 DEF Before

\* ORDER BY: each entry of a finite set once, every one after those before it.
LEMMA InOrderSorts ==
  ASSUME NEW S \in SUBSET Entry, IsFiniteSet(S)
  PROVE  /\ InOrder(S) \in Seq(S)
         /\ Len(InOrder(S)) = Cardinality(S)
         /\ \A i, j \in DOMAIN InOrder(S) : i < j => Before(InOrder(S)[i], InOrder(S)[j])
         /\ \A e \in S : \E i \in DOMAIN InOrder(S) : InOrder(S)[i] = e
<1> DEFINE n == Cardinality(S)
           Under(e) == {f \in S : Before(f, e)}
           rank == [e \in S |-> Cardinality(Under(e))]
           at(i) == CHOOSE e \in S : Cardinality(Under(e)) = i - 1
<1>1. n \in Nat
  BY FS_CardinalityType
<1>2. ASSUME NEW e \in S
      PROVE  rank[e] \in 0..(n - 1)
  <2>1. Under(e) \in SUBSET S /\ Under(e) # S
    BY OrderIsTotal
  <2>2. IsFiniteSet(Under(e)) /\ Cardinality(Under(e)) <= n /\ Cardinality(Under(e)) # n
    BY <2>1, FS_Subset
  <2>3. Cardinality(Under(e)) \in Nat
    BY <2>2, FS_CardinalityType
  <2> QED BY <1>1, <2>2, <2>3
<1>3. ASSUME NEW e \in S, NEW f \in S, Before(e, f)
      PROVE  rank[e] < rank[f]
  <2>1. Under(e) \in SUBSET Under(f) /\ e \in Under(f) /\ e \notin Under(e)
    BY <1>3, OrderIsTotal, OrderIsTransitive
  <2>2. IsFiniteSet(Under(f))
    BY FS_Subset
  <2>3. /\ Cardinality(Under(e)) <= Cardinality(Under(f))
        /\ Cardinality(Under(e)) # Cardinality(Under(f))
    BY <2>1, <2>2, FS_Subset
  <2>4. rank[e] \in Int /\ rank[f] \in Int
    BY <1>1, <1>2
  <2> QED BY <2>3, <2>4
<1>4. \A i \in 1..n : at(i) \in S /\ rank[at(i)] = i - 1
  <2>1. rank \in Injection(S, 0..(n - 1))
    <3>1. rank \in [S -> 0..(n - 1)]
      BY <1>2
    <3>2. \A e, f \in S : rank[e] = rank[f] => e = f
      <4>1. \A e \in S : rank[e] \in Int
        BY <1>1, <1>2
      <4> HIDE DEF rank
      <4> QED BY <1>3, <4>1, OrderIsTotal
    <3> QED BY <3>1, <3>2 DEF Injection, IsInjective
  <2>2. IsFiniteSet(0..(n - 1)) /\ Cardinality(0..(n - 1)) = n
    BY <1>1, FS_Interval
  <2>3. rank \in Surjection(S, 0..(n - 1))
    BY <2>1, <2>2, FS_Injection
  <2>4. \A i \in 1..n : \E e \in S : rank[e] = i - 1
    <3> HIDE DEF rank
    <3>1. \A i \in 1..n : i - 1 \in 0..(n - 1)
      BY <1>1
    <3> QED BY <2>3, <3>1 DEF Surjection
  <2> QED BY <2>4
<1>5. InOrder(S) = [i \in 1..n |-> at(i)]
  BY DEF InOrder
<1> HIDE DEF n, rank, at
<1>6. /\ InOrder(S) \in Seq(S) /\ Len(InOrder(S)) = n /\ DOMAIN InOrder(S) = 1..n
      /\ \A i \in 1..n : InOrder(S)[i] = at(i)
  BY <1>1, <1>4, <1>5
<1>7. ASSUME NEW i \in 1..n, NEW j \in 1..n, i < j
      PROVE  Before(at(i), at(j))
  <2>1. rank[at(i)] < rank[at(j)]
    BY <1>1, <1>4, <1>7
  <2>2. ~Before(at(j), at(i)) /\ at(i) # at(j)
    <3>1. at(i) \in S /\ at(j) \in S /\ rank[at(i)] \in Int /\ rank[at(j)] \in Int
      BY <1>1, <1>2, <1>4
    <3>2. Before(at(j), at(i)) => rank[at(j)] < rank[at(i)]
      BY <1>3, <3>1
    <3> QED BY <2>1, <3>1, <3>2
  <2> QED BY <1>4, <2>2, OrderIsTotal
<1>8. ASSUME NEW e \in S
      PROVE  \E i \in 1..n : at(i) = e
  <2>1. rank[e] + 1 \in 1..n /\ rank[e] \in Int
    BY <1>1, <1>2
  <2>2. at(rank[e] + 1) \in S /\ rank[at(rank[e] + 1)] = rank[e]
    BY <1>4, <2>1
  <2>3. at(rank[e] + 1) = e
    BY <1>3, <2>1, <2>2, OrderIsTotal
  <2> QED BY <2>1, <2>3
<1> QED BY <1>6, <1>7, <1>8 DEF n

-----------------------------------------------------------------------------
\* A page.

\* What a page read after c says of the ledger it was read from.
IsPage(p, c) ==
  /\ p.entries \in Seq(p.upto)
  /\ \A i, j \in DOMAIN p.entries : i < j => Before(p.entries[i], p.entries[j])
  /\ \A i \in DOMAIN p.entries : IsAfter(p.entries[i], c)
  /\ \A e \in p.upto : IsAfter(e, c) /\ (\A i \in DOMAIN p.entries : p.entries[i] # e) =>
       p.next # NONE /\ Before(p.next, e)
  /\ p.next # NONE => p.entries # <<>> /\ p.next = Last(p.entries)

\* A page has the first entries after the cursor, and says whether there are more.
LEMMA PageIsPage ==
  ASSUME ledger \in SUBSET Entry, IsFiniteSet(ledger), NEW c, NEW n \in Nat \ {0}
  PROVE  /\ Page(c, n).upto = ledger /\ IsPage(Page(c, n), c)
         /\ Len(Page(c, n).entries) \in 0..n
<1> DEFINE S == {e \in ledger : IsAfter(e, c)}
           rest == InOrder(S)
           rows == Rows(c, n)
           p == Page(c, n)
<1>1. S \in SUBSET Entry /\ IsFiniteSet(S)
  BY FS_Subset
<1>2. /\ rest \in Seq(S)
      /\ \A i, j \in DOMAIN rest : i < j => Before(rest[i], rest[j])
      /\ \A e \in S : \E i \in DOMAIN rest : rest[i] = e
  BY <1>1, InOrderSorts
<1>3. rows = IF Len(rest) > n THEN SubSeq(rest, 1, n + 1) ELSE rest
  BY DEF Rows
<1>4. p = IF Len(rows) > n
          THEN [entries |-> SubSeq(rows, 1, n), next |-> rows[n], upto |-> ledger]
          ELSE [entries |-> rows, next |-> NONE, upto |-> ledger]
  BY DEF Page
<1> HIDE DEF rest, rows, p
<1>5. CASE Len(rest) > n
  <2> DEFINE shown == SubSeq(rows, 1, n)
  <2>1. rows \in Seq(S) /\ Len(rows) = n + 1 /\ \A i \in 1..(n + 1) : rows[i] = rest[i]
    BY <1>2, <1>3, <1>5
  <2>2. /\ shown \in Seq(S) /\ Len(shown) = n /\ DOMAIN shown = 1..n
        /\ \A i \in 1..n : shown[i] = rest[i]
    BY <2>1
  <2>3. p = [entries |-> shown, next |-> rest[n], upto |-> ledger]
    <3>1. Len(rows) > n /\ rows[n] = rest[n]
      BY <2>1
    <3> QED BY <1>4, <3>1
  <2> HIDE DEF shown
  <2>4. p.entries = shown /\ p.next = rest[n] /\ p.upto = ledger
    BY <2>3
  <2>5. DOMAIN rest = 1..Len(rest) /\ Len(rest) \in Nat /\ 1..n \subseteq DOMAIN rest
    BY <1>2, <1>5
  <2>6. \A i, j \in 1..n : i < j => Before(shown[i], shown[j])
    BY <1>2, <2>2, <2>5
  <2>7. \A i \in 1..n : shown[i] \in S
    BY <2>2
  <2>8. ASSUME NEW e \in S, \A i \in 1..n : shown[i] # e
        PROVE  Before(rest[n], e)
    <3>1. PICK i \in DOMAIN rest : rest[i] = e
      BY <1>2
    <3>2. i \notin 1..n /\ i \in Int
      BY <2>2, <2>5, <2>8, <3>1
    <3>3. n < i /\ n \in DOMAIN rest
      BY <2>5, <3>2
    <3> QED BY <1>2, <3>1, <3>3
  <2>9. rest[n] = Last(shown) /\ shown # <<>>
    BY <2>2 DEF Last
  <2>10. rest[n] # NONE
    <3>1. rest[n] \in Entry
      BY <1>1, <1>2, <2>5
    <3> QED BY <3>1, NoneIsNoEntryAssumption
  <2>11. shown \in Seq(ledger)
    BY <2>2, <2>7
  <2>12. p.upto = ledger /\ IsPage(p, c) /\ Len(p.entries) \in 0..n
    BY <2>2, <2>4, <2>6, <2>7, <2>8, <2>9, <2>10, <2>11 DEF IsPage
  <2> QED BY <2>12 DEF p
<1>6. CASE ~(Len(rest) > n)
  <2>1. rows = rest /\ ~(Len(rows) > n)
    BY <1>3, <1>6
  <2>2. p = [entries |-> rest, next |-> NONE, upto |-> ledger]
    BY <1>4, <2>1
  <2>3. p.entries = rest /\ p.next = NONE /\ p.upto = ledger
    BY <2>2
  <2>4. rest \in Seq(ledger) /\ \A i \in DOMAIN rest : rest[i] \in S
    BY <1>2
  <2>5. p.upto = ledger /\ IsPage(p, c) /\ Len(p.entries) \in 0..n
    BY <1>2, <1>6, <2>3, <2>4 DEF IsPage
  <2> QED BY <2>5 DEF p
<1> QED BY <1>5, <1>6

-----------------------------------------------------------------------------
\* The walk.

\* A client whose walk goes on has come to the last entry it was shown, and each page it
\* was shown something on has left a cut there.
Going ==
  /\ pc # "done" => cursor = IF seen = <<>> THEN NONE ELSE Last(seen)
  /\ pc = "done" => cuts # <<>>
  /\ seen # <<>> => \E i \in DOMAIN cuts : cuts[i].last = Last(seen)

\* A page on its way was true of the ledger it was read from, and what has been committed
\* since is no older than any entry of that ledger.
OnItsWay ==
  pc = "answered" =>
    /\ answer.upto \subseteq ledger
    /\ IsPage(answer, cursor)
    /\ \A e \in ledger \ answer.upto, f \in answer.upto : f.at <= e.at

\* PagesAreInOrder and OnlyTwinsAreMissed are about the pages that have arrived; they stay
\* true because of the page that is on its way.
IInv ==
  /\ TypeOK /\ IsFiniteSet(ledger)
  /\ pc = "query" => LimitIsValid(limit)
  /\ Going /\ OnItsWay
  /\ PagesAreInOrder /\ OnlyTwinsAreMissed

\* Two sequences, one after the other.
LEMMA OneAfterTheOther ==
  ASSUME NEW S, NEW s \in Seq(S), NEW t \in Seq(S)
  PROVE  /\ s \o t \in Seq(S)
         /\ \A i \in DOMAIN (s \o t) :
              \/ i \in DOMAIN s /\ (s \o t)[i] = s[i]
              \/ i - Len(s) \in DOMAIN t /\ (s \o t)[i] = t[i - Len(s)] /\ i > Len(s)
         /\ Range(s \o t) = Range(s) \cup Range(t)
         /\ t = <<>> => s \o t = s
         /\ t # <<>> => s \o t # <<>> /\ Last(s \o t) = Last(t)
<1> DEFINE m == Len(s)
           n == Len(t)
           u == s \o t
<1>1. m \in Nat /\ n \in Nat /\ DOMAIN s = 1..m /\ DOMAIN t = 1..n
  OBVIOUS
<1>2. /\ u \in Seq(S) /\ Len(u) = m + n /\ DOMAIN u = 1..(m + n)
      /\ \A i \in 1..(m + n) : u[i] = IF i <= m THEN s[i] ELSE t[i - m]
  OBVIOUS
<1> HIDE DEF m, n, u
<1>3. \A i \in DOMAIN u : \/ i \in DOMAIN s /\ u[i] = s[i]
                          \/ i - m \in DOMAIN t /\ u[i] = t[i - m] /\ i > m
  <2> SUFFICES ASSUME NEW i \in 1..(m + n)
               PROVE  \/ i \in DOMAIN s /\ u[i] = s[i]
                      \/ i - m \in DOMAIN t /\ u[i] = t[i - m] /\ i > m
    BY <1>2
  <2>1. CASE i <= m
    <3>1. i \in DOMAIN s
      BY <1>1, <2>1
    <3>2. u[i] = s[i]
      BY <1>2, <2>1
    <3> QED BY <3>1, <3>2
  <2>2. CASE i > m
    <3>1. i - m \in DOMAIN t /\ ~(i <= m)
      BY <1>1, <2>2
    <3>2. u[i] = t[i - m]
      BY <1>2, <3>1
    <3> QED BY <2>2, <3>1, <3>2
  <2>3. i <= m \/ i > m
    BY <1>1
  <2> QED BY <2>1, <2>2, <2>3
<1>4. \A i \in DOMAIN s : i \in DOMAIN u /\ u[i] = s[i]
  BY <1>1, <1>2
<1>5. \A i \in DOMAIN t : m + i \in DOMAIN u /\ u[m + i] = t[i]
  BY <1>1, <1>2
<1>6. Range(u) = Range(s) \cup Range(t)
  <2>1. \A i \in DOMAIN u : \/ \E j \in DOMAIN s : u[i] = s[j]
                            \/ \E j \in DOMAIN t : u[i] = t[j]
    <3> TAKE i \in DOMAIN u
    <3>1. CASE i \in DOMAIN s /\ u[i] = s[i]
      BY <3>1
    <3>2. CASE i - m \in DOMAIN t /\ u[i] = t[i - m]
      BY <3>2
    <3> QED BY <1>3, <3>1, <3>2
  <2>2. \A j \in DOMAIN s : \E i \in DOMAIN u : u[i] = s[j]
    BY <1>4
  <2>3. \A j \in DOMAIN t : \E i \in DOMAIN u : u[i] = t[j]
    BY <1>5
  <2> QED BY <2>1, <2>2, <2>3 DEF Range
<1>7. t = <<>> => u = s
  BY DEF u
<1>8. ASSUME t # <<>>
      PROVE  u # <<>> /\ Last(u) = Last(t)
  <2>1. n > 0
    BY <1>1, <1>8 DEF n
  <2>2. u[m + n] = t[n] /\ m + n \in DOMAIN u
    BY <1>1, <1>5, <2>1
  <2>3. u # <<>>
    BY <2>2
  <2> QED BY <1>2, <2>2, <2>3 DEF Last, n
<1> QED BY <1>2, <1>3, <1>6, <1>7, <1>8 DEF m, n, u

\* What a sequence ends with is in it.
LEMMA LastIsThere ==
  ASSUME NEW S, NEW s \in Seq(S), s # <<>>
  PROVE  /\ Last(s) \in S /\ Len(s) \in DOMAIN s /\ s[Len(s)] = Last(s)
         /\ \A i \in DOMAIN s : i \in Int /\ (i = Len(s) \/ i < Len(s))
<1>1. Len(s) \in Nat /\ DOMAIN s = 1..Len(s) /\ Len(s) # 0
  OBVIOUS
<1>2. Len(s) \in DOMAIN s
  BY <1>1
<1>3. s[Len(s)] \in S
  BY <1>2
<1>4. Last(s) = s[Len(s)]
  BY DEF Last
<1>5. \A i \in DOMAIN s : i \in Int /\ (i = Len(s) \/ i < Len(s))
  BY <1>1
<1> QED BY <1>2, <1>3, <1>4, <1>5

\* One more element comes last.
LEMMA OneMore ==
  ASSUME NEW S, NEW s \in Seq(S), NEW e \in S
  PROVE  /\ Append(s, e) \in Seq(S) /\ Append(s, e) # <<>> /\ Last(Append(s, e)) = e
         /\ \A i \in DOMAIN s : i \in DOMAIN Append(s, e) /\ Append(s, e)[i] = s[i]
         /\ \E i \in DOMAIN Append(s, e) : Append(s, e)[i] = e
<1> DEFINE n == Len(s)
           t == Append(s, e)
<1>1. n \in Nat /\ DOMAIN s = 1..n
  OBVIOUS
<1>2. /\ t \in Seq(S) /\ Len(t) = n + 1 /\ DOMAIN t = 1..(n + 1) /\ t[n + 1] = e
      /\ \A i \in 1..n : t[i] = s[i]
  OBVIOUS
<1> HIDE DEF n, t
<1>3. t # <<>> /\ n + 1 \in DOMAIN t
  BY <1>1, <1>2
<1>4. Last(t) = e
  BY <1>2 DEF Last
<1>5. \A i \in DOMAIN s : i \in DOMAIN t /\ t[i] = s[i]
  BY <1>1, <1>2
<1> QED BY <1>2, <1>3, <1>4, <1>5 DEF t

\* What is at a place of a sequence is one of its elements.
LEMMA InSequence ==
  ASSUME NEW S, NEW s \in Seq(S), NEW i \in DOMAIN s
  PROVE  s[i] \in S
OBVIOUS

\* What is in a sequence stays in it when its set grows.
LEMMA WiderSequence ==
  ASSUME NEW S, NEW T, S \subseteq T, NEW s \in Seq(S)
  PROVE  s \in Seq(T)
OBVIOUS

-----------------------------------------------------------------------------
\* The steps.

\* A request that goes on or is given up leaves what the client has seen as it was.
LEMMA StillWalking ==
  ASSUME IInv, UNCHANGED <<ledger, client>>, pc # "done", pc' # "done"
  PROVE  Going' /\ PagesAreInOrder' /\ OnlyTwinsAreMissed'
<1>1. ledger' = ledger /\ cursor' = cursor /\ seen' = seen /\ cuts' = cuts
  BY DEF client
<1>2. Going'
  BY <1>1 DEF IInv, Going
<1>3. PagesAreInOrder'
  BY <1>1 DEF IInv, PagesAreInOrder
<1>4. OnlyTwinsAreMissed'
  <2> SUFFICES ASSUME NEW x \in ledger \ Walked, Passed(x)'
               PROVE  \E i \in DOMAIN cuts : LET cut == cuts[i] IN
                        cut.last # NONE /\ x.at = cut.last.at /\ Before(x, cut.last)
                          /\ x \notin cut.upto
    BY <1>1 DEF OnlyTwinsAreMissed, Walked
  <2>1. Passed(x)
    BY <1>1 DEF Passed
  <2> QED BY <2>1 DEF IInv, OnlyTwinsAreMissed
<1> QED BY <1>2, <1>3, <1>4

\* A new wallet, and a request asked, refused or given up.
LEMMA OutsideKeeps ==
  ASSUME IInv,
         \/ Open
         \/ \E value \in Asked : Ask(value)
         \/ Refuse \/ FindWallet \/ Lose \/ UNCHANGED vars
  PROVE  IInv'
<1>1. CASE Open
  <2>1. TypeOK'
    BY <1>1 DEF IInv, TypeOK, Open, client
  <2>2. UNCHANGED <<ledger, pc, limit, answer, cursor, seen, cuts>>
    BY <1>1 DEF Open, client
  <2> QED BY <2>1, <2>2
        DEF IInv, Going, OnItsWay, PagesAreInOrder, OnlyTwinsAreMissed, Walked, Passed
<1>2. ASSUME NEW value \in Asked, Ask(value)
      PROVE  IInv'
  <2>1. /\ TypeOK' /\ UNCHANGED <<ledger, client>> /\ pc # "done" /\ pc' # "done"
        /\ pc' # "query" /\ pc' # "answered"
    BY <1>2 DEF IInv, TypeOK, Ask, client, Steps
  <2> QED BY <2>1, StillWalking DEF IInv, OnItsWay
<1>3. CASE Refuse
  <2>1. /\ TypeOK' /\ UNCHANGED <<ledger, client>> /\ pc # "done" /\ pc' # "done"
        /\ pc' # "query" /\ pc' # "answered"
    BY <1>3 DEF IInv, TypeOK, Refuse, client, Steps
  <2> QED BY <2>1, StillWalking DEF IInv, OnItsWay
<1>4. CASE FindWallet
  <2>1. /\ TypeOK' /\ UNCHANGED <<ledger, client>> /\ pc # "done" /\ pc' # "done"
        /\ pc' # "answered"
    BY <1>4 DEF IInv, TypeOK, FindWallet, client, Steps
  <2>2. LimitIsValid(limit')
    BY <1>4 DEF FindWallet
  <2>3. LimitIsValid(limit)'
    BY <2>2 DEF LimitIsValid
  <2> QED BY <2>1, <2>3, StillWalking DEF IInv, OnItsWay
<1>5. CASE Lose
  <2>1. /\ TypeOK' /\ UNCHANGED <<ledger, client>> /\ pc # "done" /\ pc' # "done"
        /\ pc' # "query" /\ pc' # "answered"
    BY <1>5 DEF IInv, TypeOK, Lose, client, Steps
  <2> QED BY <2>1, StillWalking DEF IInv, OnItsWay
<1>6. CASE UNCHANGED vars
  <2>1. UNCHANGED <<open, ledger, pc, limit, answer, cursor, seen, cuts>>
    BY <1>6 DEF vars, client
  <2>2. TypeOK'
    BY <2>1 DEF IInv, TypeOK
  <2> QED BY <2>1, <2>2
        DEF IInv, Going, OnItsWay, PagesAreInOrder, OnlyTwinsAreMissed, Walked, Passed
<1> QED BY <1>1, <1>2, <1>3, <1>4, <1>5, <1>6

\* A new entry: where it lands before what a client has been shown, the timestamp is the
\* one on which a page of that client ended.
LEMMA CommitKeeps ==
  ASSUME IInv, NEW e \in Entry, Commit(e)
  PROVE  IInv'
<1>1. /\ open /\ open' = open /\ ledger' = ledger \cup {e}
      /\ UNCHANGED <<pc, limit, answer, cursor, seen, cuts>>
      /\ \A f \in ledger : f.id # e.id /\ f.at <= e.at
  BY DEF Commit, client
<1>2. e \notin ledger
  BY <1>1
<1>3. TypeOK'
  <2> DEFINE Cut(S) == [last : S \cup {NONE}, upto : SUBSET S]
  <2>1. seen \in Seq(ledger') /\ cuts \in Seq(Cut(ledger'))
    <3>1. seen \in Seq(ledger) /\ cuts \in Seq(Cut(ledger))
      BY DEF IInv, TypeOK
    <3>2. ledger \subseteq ledger' /\ Cut(ledger) \subseteq Cut(ledger')
      BY <1>1
    <3> HIDE DEF Cut
    <3> QED BY <3>1, <3>2, WiderSequence
  <2>2. ledger' \subseteq Entry /\ cursor \in ledger' \cup {NONE}
    BY <1>1 DEF IInv, TypeOK
  <2> QED BY <1>1, <2>1, <2>2 DEF IInv, TypeOK
<1>4. IsFiniteSet(ledger')
  BY <1>1, FS_AddElement DEF IInv
<1>5. (pc = "query" => LimitIsValid(limit))' /\ Going'
  BY <1>1 DEF IInv, Going, LimitIsValid
<1>6. OnItsWay'
  <2> SUFFICES ASSUME pc = "answered"
               PROVE  /\ answer.upto \subseteq ledger' /\ IsPage(answer, cursor)
                      /\ \A g \in ledger' \ answer.upto, f \in answer.upto : f.at <= g.at
    BY <1>1 DEF OnItsWay
  <2>1. /\ answer.upto \subseteq ledger /\ IsPage(answer, cursor)
        /\ \A g \in ledger \ answer.upto, f \in answer.upto : f.at <= g.at
    BY DEF IInv, OnItsWay
  <2> QED BY <1>1, <2>1
<1>7. PagesAreInOrder'
  BY <1>1 DEF IInv, PagesAreInOrder
<1>8. OnlyTwinsAreMissed'
  <2> DEFINE Missed(x) == \E i \in DOMAIN cuts : LET cut == cuts[i] IN
               cut.last # NONE /\ x.at = cut.last.at /\ Before(x, cut.last)
                 /\ x \notin cut.upto
  <2> SUFFICES ASSUME NEW x \in ledger' \ Walked, Passed(x)
               PROVE  Missed(x)
    BY <1>1 DEF OnlyTwinsAreMissed, Walked, Passed
  <2>1. CASE x \in ledger
    BY <2>1 DEF IInv, OnlyTwinsAreMissed
  <2>2. CASE x = e
    <3>1. ~(pc = "done" /\ e \in Last(cuts).upto)
      <4>1. cuts # <<>> => Last(cuts).upto \subseteq ledger
        <5> HAVE cuts # <<>>
        <5>1. Last(cuts) \in [last : ledger \cup {NONE}, upto : SUBSET ledger]
          BY LastIsThere DEF IInv, TypeOK
        <5> QED BY <5>1
      <4> QED BY <1>2, <4>1 DEF IInv, Going
    <3>2. seen # <<>> /\ Before(e, Last(seen))
      BY <2>2, <3>1 DEF Passed
    <3>3. Last(seen) \in ledger
      BY <3>2, LastIsThere DEF IInv, TypeOK
    <3>4. PICK i \in DOMAIN cuts : cuts[i].last = Last(seen)
      BY <3>2 DEF IInv, Going
    <3>5. cuts[i].upto \subseteq ledger
      <4>1. cuts \in Seq([last : ledger \cup {NONE}, upto : SUBSET ledger])
        BY DEF IInv, TypeOK
      <4>2. cuts[i] \in [last : ledger \cup {NONE}, upto : SUBSET ledger]
        BY <3>4, <4>1, InSequence
      <4> QED BY <4>2
    <3>6. Last(seen) # NONE
      BY <3>3, NoneIsNoEntryAssumption DEF IInv, TypeOK
    <3>7. e.at = Last(seen).at
      <4>1. Last(seen) \in Entry
        BY <3>3 DEF IInv, TypeOK
      <4>2. e.at \in Int /\ Last(seen).at \in Int
        BY <4>1, EntryNumbers
      <4>3. Last(seen).at <= e.at
        BY <1>1, <3>3
      <4> QED BY <3>2, <4>2, <4>3 DEF Before
    <3> QED BY <1>2, <2>2, <3>2, <3>4, <3>5, <3>6, <3>7
  <2> QED BY <1>1, <2>1, <2>2
<1> QED BY <1>3, <1>4, <1>5, <1>6, <1>7, <1>8 DEF IInv

\* A page read: it is true of the ledger of this moment.
LEMMA QueryKeeps ==
  ASSUME IInv, Query
  PROVE  IInv'
<1> DEFINE n == ledgerLimit(limit)
           p == Page(cursor, n)
<1>1. /\ pc = "query" /\ pc' = "answered" /\ answer' = p
      /\ UNCHANGED <<open, ledger, limit, cursor, seen, cuts>>
  BY DEF Query, client
<1>2. n \in Nat \ {0} /\ n <= MaxLimit
  BY <1>1, LimitsAssumption DEF IInv, LimitIsValid, ledgerLimit
<1> HIDE DEF n
<1>3. ledger \in SUBSET Entry /\ IsFiniteSet(ledger)
  BY DEF IInv, TypeOK
<1>4. p.upto = ledger /\ IsPage(p, cursor) /\ Len(p.entries) \in 0..n
  BY <1>2, <1>3, PageIsPage
<1> HIDE DEF p
<1>5. TypeOK'
  <2>1. Len(p.entries) \in 0..MaxLimit
    BY <1>2, <1>4, LimitsAssumption
  <2> QED BY <1>1, <2>1 DEF IInv, TypeOK, Steps
<1>6. OnItsWay'
  <2>1. p.upto \subseteq ledger /\ ledger \ p.upto = {}
    BY <1>4
  <2> QED BY <1>1, <1>4, <2>1 DEF OnItsWay
<1>7. Going' /\ PagesAreInOrder' /\ OnlyTwinsAreMissed'
  BY <1>1, StillWalking DEF client
<1> QED BY <1>1, <1>5, <1>6, <1>7 DEF IInv

\* The cut that a page leaves.
Mark == [last |-> IF answer.entries = <<>> THEN NONE ELSE Last(answer.entries),
         upto |-> answer.upto]

\* What Receive does with a page that was true of the ledger it was read from.
Received ==
  /\ pc = "answered" /\ pc' = (IF answer.next = NONE THEN "done" ELSE "idle")
  /\ seen' = seen \o answer.entries /\ cursor' = answer.next /\ cuts' = Append(cuts, Mark)
  /\ answer' = NONE /\ UNCHANGED <<open, ledger, limit>>
  /\ cursor = (IF seen = <<>> THEN NONE ELSE Last(seen))
  /\ ledger \subseteq Entry /\ seen \in Seq(ledger)
  /\ answer.upto \subseteq ledger /\ IsPage(answer, cursor)
  /\ answer.entries \in Seq(ledger)
  /\ Mark \in [last : ledger \cup {NONE}, upto : SUBSET ledger]

LEMMA ReceiveReceives ==
  ASSUME IInv, Receive
  PROVE  Received
<1>1. /\ pc = "answered" /\ pc' = (IF answer.next = NONE THEN "done" ELSE "idle")
      /\ seen' = seen \o answer.entries /\ cursor' = answer.next /\ cuts' = Append(cuts, Mark)
      /\ answer' = NONE /\ UNCHANGED <<open, ledger, limit>>
  BY DEF Receive, Mark
<1>2. answer.upto \subseteq ledger /\ IsPage(answer, cursor)
  BY <1>1 DEF IInv, OnItsWay
<1>3. ledger \subseteq Entry /\ seen \in Seq(ledger)
  BY DEF IInv, TypeOK
<1>4. answer.entries \in Seq(ledger)
  BY <1>2, WiderSequence DEF IsPage
<1>5. Mark \in [last : ledger \cup {NONE}, upto : SUBSET ledger]
  <2>1. answer.entries # <<>> => Last(answer.entries) \in ledger
    BY <1>4, LastIsThere
  <2> QED BY <1>2, <2>1 DEF Mark
<1>6. cursor = IF seen = <<>> THEN NONE ELSE Last(seen)
  BY <1>1 DEF IInv, Going
<1> QED BY <1>1, <1>2, <1>3, <1>4, <1>5, <1>6 DEF Received

\* What the client has seen is typed, and it goes on from the end of it.
LEMMA ReceiveGoesOn ==
  ASSUME IInv, Received
  PROVE  TypeOK' /\ Going'
<1> DEFINE Cuts == [last : ledger \cup {NONE}, upto : SUBSET ledger]
<1>1. cuts \in Seq(Cuts) /\ Mark \in Cuts
  BY DEF Received, IInv, TypeOK
<1> HIDE DEF Cuts
<1>2. /\ cuts' \in Seq(Cuts) /\ cuts' # <<>>
      /\ \A i \in DOMAIN cuts : i \in DOMAIN cuts' /\ cuts'[i] = cuts[i]
      /\ \E i \in DOMAIN cuts' : cuts'[i] = Mark
  BY <1>1, OneMore DEF Received
<1>3. /\ seen' \in Seq(ledger)
      /\ answer.entries = <<>> => seen' = seen
      /\ answer.entries # <<>> => seen' # <<>> /\ Last(seen') = Last(answer.entries)
  BY OneAfterTheOther DEF Received
<1>4. answer.next # NONE => answer.entries # <<>> /\ answer.next = Last(answer.entries)
  BY DEF Received, IsPage
<1>5. TypeOK'
  <2>1. cursor' \in ledger \cup {NONE}
    BY <1>4, LastIsThere DEF Received
  <2>2. pc' \in Steps
    BY DEF Received, Steps
  <2>3. cuts' \in Seq([last : ledger \cup {NONE}, upto : SUBSET ledger])
    BY <1>2 DEF Cuts
  <2> QED BY <1>3, <2>1, <2>2, <2>3 DEF Received, IInv, TypeOK
<1>6. Going'
  <2>1. pc' # "done" => cursor' = IF seen' = <<>> THEN NONE ELSE Last(seen')
    BY <1>3, <1>4 DEF Received
  <2>2. seen' # <<>> => \E i \in DOMAIN cuts' : cuts'[i].last = Last(seen')
    <3>1. CASE answer.entries = <<>>
      BY <1>2, <1>3, <3>1 DEF IInv, Going
    <3>2. CASE answer.entries # <<>>
      <4>1. Mark.last = Last(answer.entries)
        BY <3>2 DEF Mark
      <4> QED BY <1>2, <1>3, <3>2, <4>1
    <3> QED BY <3>1, <3>2
  <2> QED BY <1>2, <2>1, <2>2 DEF Going
<1> QED BY <1>5, <1>6

\* A page comes after all that was seen before it.
LEMMA ReceiveKeepsOrder ==
  ASSUME IInv, Received
  PROVE  PagesAreInOrder'
<1> DEFINE m == Len(seen)
           p == answer.entries
<1>1. /\ m \in Nat /\ DOMAIN seen = 1..m /\ seen \in Seq(Entry) /\ p \in Seq(Entry)
      /\ DOMAIN p \subseteq Nat \ {0}
  BY WiderSequence DEF Received
<1>2. \A i \in DOMAIN seen' :
        \/ i \in DOMAIN seen /\ seen'[i] = seen[i]
        \/ i - m \in DOMAIN p /\ seen'[i] = p[i - m] /\ i > m
  BY <1>1, OneAfterTheOther DEF Received
<1>3. DOMAIN seen' \subseteq Int
  <2>1. seen' \in Seq(Entry)
    BY <1>1, OneAfterTheOther DEF Received
  <2> QED BY <2>1
<1>4. \A i, j \in DOMAIN p : i < j => Before(p[i], p[j])
  BY DEF Received, IsPage
<1>5. \A i \in DOMAIN seen, j \in DOMAIN p : Before(seen[i], p[j])
  <2> TAKE i \in DOMAIN seen, j \in DOMAIN p
  <2>1. seen # <<>> /\ seen[i] \in Entry /\ p[j] \in Entry
    BY <1>1
  <2>2. /\ Last(seen) \in Entry /\ seen[Len(seen)] = Last(seen) /\ Len(seen) \in DOMAIN seen
        /\ i = Len(seen) \/ i < Len(seen)
    BY <1>1, <2>1, LastIsThere
  <2>3. Before(Last(seen), p[j])
    <3>1. cursor = Last(seen) /\ cursor # NONE /\ IsAfter(p[j], cursor)
      BY <2>1, <2>2, NoneIsNoEntryAssumption DEF Received, IsPage
    <3> QED BY <3>1 DEF IsAfter
  <2>4. seen[i] = Last(seen) \/ Before(seen[i], Last(seen))
    BY <2>2 DEF IInv, PagesAreInOrder
  <2> QED BY <2>1, <2>2, <2>3, <2>4, OrderIsTransitive
<1> HIDE DEF m, p
<1>6. ASSUME NEW i \in DOMAIN seen', NEW j \in DOMAIN seen', i < j
      PROVE  Before(seen'[i], seen'[j])
  <2>1. CASE j \in DOMAIN seen /\ seen'[j] = seen[j]
    <3>1. i \in DOMAIN seen /\ seen'[i] = seen[i]
      <4>1. ~(i > m)
        BY <1>1, <1>3, <1>6, <2>1
      <4> QED BY <1>2, <4>1
    <3> QED BY <1>6, <2>1, <3>1 DEF IInv, PagesAreInOrder
  <2>2. CASE j - m \in DOMAIN p /\ seen'[j] = p[j - m]
    <3>1. CASE i \in DOMAIN seen /\ seen'[i] = seen[i]
      BY <1>5, <2>2, <3>1
    <3>2. CASE i - m \in DOMAIN p /\ seen'[i] = p[i - m]
      <4>1. i - m < j - m
        BY <1>1, <1>3, <1>6
      <4> QED BY <1>4, <2>2, <3>2, <4>1
    <3> QED BY <1>2, <3>1, <3>2
  <2> QED BY <1>2, <2>1, <2>2
<1> QED BY <1>6 DEF PagesAreInOrder

\* What a page passes without showing it was committed after the page was read.
LEMMA ReceiveKeepsTwins ==
  ASSUME IInv, Received
  PROVE  OnlyTwinsAreMissed'
<1> DEFINE Twin(x, cut) ==
             cut.last # NONE /\ x.at = cut.last.at /\ Before(x, cut.last) /\ x \notin cut.upto
           p == answer.entries
           Cuts == [last : ledger \cup {NONE}, upto : SUBSET ledger]
<1>1. cuts \in Seq(Cuts) /\ Mark \in Cuts
  BY DEF Received, IInv, TypeOK
<1> HIDE DEF Cuts
<1>2. /\ cuts' # <<>> /\ Last(cuts') = Mark
      /\ \A i \in DOMAIN cuts : i \in DOMAIN cuts' /\ cuts'[i] = cuts[i]
      /\ \E i \in DOMAIN cuts' : cuts'[i] = Mark
  <2>1. cuts' = Append(cuts, Mark)
    BY DEF Received
  <2>2. Append(cuts, Mark) # <<>> /\ Last(Append(cuts, Mark)) = Mark
    BY <1>1, OneMore
  <2>3. \A i \in DOMAIN cuts :
          i \in DOMAIN Append(cuts, Mark) /\ Append(cuts, Mark)[i] = cuts[i]
    BY <1>1, OneMore
  <2>4. \E i \in DOMAIN Append(cuts, Mark) : Append(cuts, Mark)[i] = Mark
    BY <1>1, OneMore
  <2> QED BY <2>1, <2>2, <2>3, <2>4
<1>3. /\ Walked' = Walked \cup Range(p)
      /\ p = <<>> => seen' = seen
      /\ p # <<>> => seen' # <<>> /\ Last(seen') = Last(p)
  <2>1. seen \in Seq(ledger) /\ p \in Seq(ledger) /\ seen' = seen \o p
    BY DEF Received
  <2>2. Walked' = Range(seen') /\ Walked = Range(seen)
    BY DEF Walked
  <2> HIDE DEF p
  <2>3. Range(seen \o p) = Range(seen) \cup Range(p)
    BY <2>1, OneAfterTheOther
  <2>4. p = <<>> => seen \o p = seen
    BY <2>1, OneAfterTheOther
  <2>5. p # <<>> => seen \o p # <<>> /\ Last(seen \o p) = Last(p)
    BY <2>1, OneAfterTheOther
  <2> QED BY <2>1, <2>2, <2>3, <2>4, <2>5
<1>4. ledger' = ledger /\ pc = "answered" /\ ledger \subseteq Entry
  BY DEF Received
<1> SUFFICES ASSUME NEW x \in ledger \ Walked', Passed(x)'
             PROVE  \E i \in DOMAIN cuts' : Twin(x, cuts'[i])
  BY <1>4 DEF OnlyTwinsAreMissed
<1>5. x \in Entry /\ x \in ledger /\ x \notin Walked /\ \A i \in DOMAIN p : p[i] # x
  BY <1>3, <1>4 DEF Range
<1>6. ASSUME Passed(x)
      PROVE  \E i \in DOMAIN cuts' : Twin(x, cuts'[i])
  <2>1. \E i \in DOMAIN cuts : Twin(x, cuts[i])
    BY <1>5, <1>6 DEF IInv, OnlyTwinsAreMissed
  <2> HIDE DEF Twin
  <2> QED BY <1>2, <2>1
<1>7. p # <<>> => Last(p) \in answer.upto /\ Last(p) \in Entry
  BY LastIsThere DEF Received, IsPage
<1>8. CASE x \in answer.upto
  <2>1. ~IsAfter(x, cursor)
    <3> SUFFICES ASSUME IsAfter(x, cursor)
                 PROVE  FALSE
      OBVIOUS
    <3>1. answer.next # NONE /\ Before(answer.next, x)
      BY <1>5, <1>8 DEF Received, IsPage
    <3>2. p # <<>> /\ answer.next = Last(p)
      BY <3>1 DEF Received, IsPage
    <3>3. pc' # "done"
      BY <3>1 DEF Received
    <3>4. Before(x, Last(p))
      BY <1>3, <3>2, <3>3 DEF Passed
    <3> QED BY <1>5, <1>7, <3>1, <3>2, <3>4, OrderIsTotal
  <2>2. cursor # NONE /\ ~Before(cursor, x)
    BY <2>1 DEF IsAfter
  <2>3. seen # <<>> /\ cursor = Last(seen)
    BY <2>2 DEF Received
  <2>4. Last(seen) \in Entry /\ Last(seen) \in Walked
    BY <1>4, <2>3, LastIsThere DEF Received, Walked, Range
  <2>5. Before(x, Last(seen))
    BY <1>5, <2>2, <2>3, <2>4, OrderIsTotal
  <2> QED BY <1>6, <2>3, <2>5 DEF Passed
<1>9. CASE x \notin answer.upto
  <2>1. seen' # <<>> /\ Before(x, Last(seen'))
    <3>1. x \notin Last(cuts').upto
      BY <1>2, <1>9 DEF Mark
    <3> QED BY <3>1 DEF Passed
  <2>2. CASE p = <<>>
    BY <1>3, <1>6, <2>1, <2>2 DEF Passed
  <2>3. CASE p # <<>>
    <3>1. Before(x, Last(p))
      BY <1>3, <2>1, <2>3
    <3>2. Last(p).at <= x.at
      BY <1>4, <1>5, <1>7, <1>9, <2>3 DEF IInv, OnItsWay
    <3>3. x.at = Last(p).at
      <4>1. x.at \in Int /\ Last(p).at \in Int
        BY <1>5, <1>7, <2>3, EntryNumbers
      <4> QED BY <3>1, <3>2, <4>1 DEF Before
    <3>4. Last(p) # NONE
      BY <1>7, <2>3, NoneIsNoEntryAssumption
    <3>5. Mark.last = Last(p) /\ Mark.upto = answer.upto
      BY <2>3 DEF Mark
    <3>6. Twin(x, Mark)
      BY <1>9, <3>1, <3>3, <3>4, <3>5
    <3> HIDE DEF Twin
    <3> QED BY <1>2, <3>6
  <2> QED BY <2>2, <2>3
<1> QED BY <1>8, <1>9

\* A page received.
LEMMA ReceiveKeeps ==
  ASSUME IInv, Receive
  PROVE  IInv'
<1>1. Received
  BY ReceiveReceives
<1>2. /\ ledger' = ledger /\ pc' # "query" /\ pc' # "answered"
  BY <1>1 DEF Received
<1>3. TypeOK' /\ Going' /\ PagesAreInOrder' /\ OnlyTwinsAreMissed'
  BY <1>1, ReceiveGoesOn, ReceiveKeepsOrder, ReceiveKeepsTwins
<1> QED BY <1>2, <1>3 DEF IInv, OnItsWay

-----------------------------------------------------------------------------
\* The walk as a whole.

LEMMA Initially ==
  ASSUME Init
  PROVE  IInv
<1>1. /\ open = FALSE /\ ledger = {} /\ pc = "idle" /\ limit \in Asked /\ answer = NONE
      /\ cursor = NONE /\ seen = <<>> /\ cuts = <<>>
  BY DEF Init
<1>2. TypeOK
  <2>1. seen \in Seq(ledger) /\ cuts \in Seq([last : ledger \cup {NONE}, upto : SUBSET ledger])
    BY <1>1
  <2>2. ledger \subseteq Entry
    BY <1>1
  <2> QED BY <1>1, <2>1, <2>2 DEF TypeOK, Steps
<1>3. IsFiniteSet(ledger)
  BY <1>1, FS_EmptySet
<1> QED BY <1>1, <1>2, <1>3
      DEF IInv, Going, OnItsWay, PagesAreInOrder, OnlyTwinsAreMissed, Walked, Passed

LEMMA Steadily == IInv /\ [Next]_vars => IInv'
BY OutsideKeeps, CommitKeeps, QueryKeeps, ReceiveKeeps DEF Next

LEMMA Walking == Spec => []IInv
BY Initially, Steadily, PTL DEF Spec

\* Every variable keeps its type, and no page is longer than the limit allows.
THEOREM PagesTypeCorrect == Spec => []TypeOK
<1>1. IInv => TypeOK
  BY DEF IInv
<1> QED BY <1>1, Walking, PTL

\* A client is shown the entries in the order of the ledger and none of them twice, for
\* any number of entries and pages, of whatever sizes, with entries committed, requests
\* refused and answers lost between two of them.
THEOREM PagesKeepOrder == Spec => []PagesAreInOrder
<1>1. IInv => PagesAreInOrder
  BY DEF IInv
<1> QED BY <1>1, Walking, PTL

\* The only entries a client is never shown are those committed after the page that passed
\* them, on the very timestamp with which that page ended.
THEOREM PagesMissOnlyTwins == Spec => []OnlyTwinsAreMissed
<1>1. IInv => OnlyTwinsAreMissed
  BY DEF IInv
<1> QED BY <1>1, Walking, PTL
=============================================================================
