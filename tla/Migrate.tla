------------------------------- MODULE Migrate -------------------------------
(***************************************************************************)
(* cmd/migrate: programs that apply or revert the files of migrations/     *)
(* under an advisory lock, and register databases older than the registry. *)
(*                                                                         *)
(* A file is its number.  schema tells which files have their objects in   *)
(* the database, whatever schema_migrations says of them; a table that     *)
(* does not exist yet is an empty registry.                                *)
(***************************************************************************)
EXTENDS Integers, FiniteSets

CONSTANTS
  Runners,        \* processes
  Top,            \* the number of the last file
  Directions      \* what runners are started with

ASSUME TopAssumption == Top \in Nat /\ Top >= 2
ASSUME DirectionsAssumption == Directions \subseteq {"up", "down"}

VARIABLES
  schema,         \* the files whose objects exist
  registry,       \* schema_migrations
  lock,           \* sessions that hold the advisory lock
  pc,             \* the statement a runner sends next
  direction,
  file,           \* the file it has come to
  found,          \* history: the schema when it got the lock
  torn            \* history: whether registerLegacy was cut short

database == <<schema, registry, torn>>
vars == <<database, lock, pc, direction, file, found>>

Versions == 1..Top
Statements == {"lock", "count", "tables", "first", "columns", "second", "check", "apply"}

\* Every variable has its type, and files are applied in the order of their numbers.
TypeOK ==
  /\ schema \subseteq Versions /\ registry \subseteq Versions /\ torn \in BOOLEAN
  /\ lock \subseteq Runners
  /\ pc \in [Runners -> Statements \cup {"idle"}]
  /\ direction \in [Runners -> Directions]
  /\ file \in [Runners -> 0..(Top + 1)]
  /\ \A r \in Runners : pc[r] = "apply" => file[r] \in Versions
  /\ found \in [Runners -> SUBSET Versions]

-----------------------------------------------------------------------------

Goto(r, statement) == pc' = [pc EXCEPT ![r] = statement]

Step(r, from, to) == pc[r] = from /\ Goto(r, to)

Start(r, d) ==
  /\ Step(r, "idle", "lock")
  /\ direction' = [direction EXCEPT ![r] = d]
  /\ UNCHANGED <<database, lock, file, found>>

\* SELECT pg_advisory_lock(1631829162).
Lock(r) ==
  /\ Step(r, "lock", "count")
  /\ lock = {}
  /\ lock' = {r}
  /\ found' = [found EXCEPT ![r] = schema]
  /\ UNCHANGED <<database, direction, file>>

-----------------------------------------------------------------------------
\* registerLegacy.

\* The files in the order of the direction.
FirstFile(r) == IF direction[r] = "up" THEN 1 ELSE Top

ToFiles(r, from) ==
  /\ Step(r, from, "check")
  /\ file' = [file EXCEPT ![r] = FirstFile(r)]

\* SELECT count(*) FROM schema_migrations.
Count(r) ==
  /\ IF registry = {} THEN Step(r, "count", "tables") /\ UNCHANGED file
                      ELSE ToFiles(r, "count")
  /\ UNCHANGED <<database, lock, direction, found>>

\* SELECT to_regclass('public.wallets') IS NOT NULL.
FindTables(r) ==
  /\ IF 1 \in schema THEN Step(r, "tables", "first") /\ UNCHANGED file
                     ELSE ToFiles(r, "tables")
  /\ UNCHANGED <<database, lock, direction, found>>

RegisterFirst(r) ==
  /\ Step(r, "first", "columns")
  /\ registry' = registry \cup {1}
  /\ UNCHANGED <<schema, torn, lock, direction, file, found>>

\* The search for the column wallet_version, which goes with its table.
FindColumns(r) ==
  /\ IF {1, 2} \subseteq schema THEN Step(r, "columns", "second") /\ UNCHANGED file
                                ELSE ToFiles(r, "columns")
  /\ UNCHANGED <<database, lock, direction, found>>

RegisterSecond(r) ==
  /\ ToFiles(r, "second")
  /\ registry' = registry \cup {2}
  /\ UNCHANGED <<schema, torn, lock, direction, found>>

-----------------------------------------------------------------------------
\* The files.

\* CREATE and DROP fail on what is there already and on what is not.
Fits(d, v) ==
  IF d = "up" THEN v \notin schema /\ (v = 1 \/ v - 1 \in schema) ELSE v \in schema

Advance(r) == file' = [file EXCEPT ![r] = IF direction[r] = "up" THEN @ + 1 ELSE @ - 1]

\* SELECT EXISTS(... WHERE version = $1): a file that is done is skipped.
Check(r) ==
  /\ pc[r] = "check" /\ file[r] \in Versions
  /\ IF (direction[r] = "up") = (file[r] \in registry)
     THEN Advance(r) /\ UNCHANGED pc
     ELSE Goto(r, "apply") /\ UNCHANGED file
  /\ UNCHANGED <<database, lock, direction, found>>

\* Change without the DELETE.
ChangeRegisteringOnly(r) ==
  /\ pc[r] = "apply" /\ Fits(direction[r], file[r])
  /\ IF direction[r] = "up"
     THEN schema' = schema \cup {file[r]} /\ registry' = registry \cup {file[r]}
     ELSE schema' = schema \ {file[r]} /\ UNCHANGED registry
  /\ UNCHANGED torn

\* The file and its registration are one transaction.
Change(r) ==
  /\ pc[r] = "apply" /\ Fits(direction[r], file[r])
  /\ IF direction[r] = "up"
     THEN schema' = schema \cup {file[r]} /\ registry' = registry \cup {file[r]}
     ELSE schema' = schema \ {file[r]} /\ registry' = registry \ {file[r]}
  /\ UNCHANGED torn

\* Apply without the break.
ApplyAll(r) ==
  /\ Change(r)
  /\ Goto(r, "check") /\ Advance(r)
  /\ UNCHANGED <<lock, direction, found>>

\* down stops after the first file it reverts.
Apply(r) ==
  /\ Change(r)
  /\ Goto(r, "check")
  /\ IF direction[r] = "up" THEN Advance(r) ELSE file' = [file EXCEPT ![r] = 0]
  /\ UNCHANGED <<lock, direction, found>>

\* What a process knows goes with it.
Exit(r) ==
  /\ Goto(r, "idle")
  /\ file' = [file EXCEPT ![r] = 0] /\ found' = [found EXCEPT ![r] = {}]

\* An error return: the transaction is rolled back, and the deferred unlock works.
ApplyFails(r) ==
  /\ pc[r] = "apply" /\ Exit(r)
  /\ lock' = lock \ {r}
  /\ UNCHANGED <<database, direction>>

\* Nothing is left to be done.
Through(r) == pc[r] = "check" /\ file[r] \notin Versions

Finish(r) ==
  /\ Through(r) /\ Exit(r)
  /\ lock' = lock \ {r}
  /\ UNCHANGED <<database, direction>>

-----------------------------------------------------------------------------

\* The two minutes are over, the connection is lost or the process dies.  The session
\* keeps the lock until the server notices.
Abort(r) ==
  /\ pc[r] # "idle" /\ Exit(r)
  /\ torn' = (torn \/ (pc[r] \in {"columns", "second"} /\ registry # schema))
  /\ UNCHANGED <<schema, registry, lock, direction>>

\* SessionEnds if the lock were a row of a table.
SessionStays(r) ==
  /\ r \in lock /\ pc[r] \in {"idle", "lock"}
  /\ UNCHANGED vars

SessionEnds(r) ==
  /\ r \in lock /\ pc[r] \in {"idle", "lock"}
  /\ lock' = lock \ {r}
  /\ UNCHANGED <<database, pc, direction, file, found>>

-----------------------------------------------------------------------------

\* A new database, or one that has no registry yet and the first file or two.
Init ==
  /\ schema \in {{}, {1}, {1, 2}} /\ registry = {} /\ torn = FALSE
  /\ lock = {}
  /\ pc = [r \in Runners |-> "idle"]
  /\ direction \in [Runners -> Directions]
  /\ file = [r \in Runners |-> 0]
  /\ found = [r \in Runners |-> {}]

Work(r) ==
  \/ Lock(r)
  \/ Count(r) \/ FindTables(r) \/ RegisterFirst(r) \/ FindColumns(r) \/ RegisterSecond(r)
  \/ Check(r) \/ Apply(r) \/ Finish(r)

Misfit(r) == ~Fits(direction[r], file[r]) /\ ApplyFails(r)

Calm == \E r \in Runners :
  (\E d \in Directions : Start(r, d)) \/ Work(r) \/ Misfit(r) \/ SessionEnds(r)

Next == Calm \/ \E r \in Runners : ApplyFails(r) \/ Abort(r)

Spec == Init /\ [][Next]_vars

-----------------------------------------------------------------------------

\* Between two runners the registry says what the schema is, or has not been started,
\* unless the registration of an old database was cut short.
RegistryMatchesSchema ==
  lock = {} /\ ~torn => registry = schema \/ (registry = {} /\ schema \subseteq {1, 2})

\* Whoever is about to run a file found out that it is due, and it still is: it fits the
\* schema, unless the registration of an old database was cut short.
FilesFitTheSchema ==
  \A r \in Runners : pc[r] = "apply" /\ ~torn => Fits(direction[r], file[r])

\* One run of down reverts one file at most, the last one applied.
DownRevertsTheLast ==
  \A r \in Runners : pc[r] \notin {"idle", "lock"} /\ direction[r] = "down" =>
    /\ schema \subseteq found[r]
    /\ \A v \in found[r] \ schema : ~torn => \A w \in found[r] : w <= v
=============================================================================
