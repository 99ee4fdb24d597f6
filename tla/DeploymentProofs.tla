-------------------------- MODULE DeploymentProofs --------------------------
(***************************************************************************)
(* What the migrations leave behind, for any number of files and runners   *)
(* of either direction, whichever of them are interrupted; that the        *)
(* service finds whole what nobody reverted; and that it stops in order,   *)
(* whatever workers it has and requests it gets.                           *)
(***************************************************************************)
EXTENDS Deployment, TLAPS

Working(r) == pc[r] \notin {"idle", "lock"}

\* A runner at work has the lock for itself.
LockExcludes == \A r \in Runners : Working(r) => lock = {r}

\* The schema has no gaps.
Closed == \A v \in schema : \A w \in 1..v : w \in schema

Registering == \E r \in Runners : pc[r] \in {"columns", "second"}

Registered ==
  registry = schema \/ (registry = {} /\ schema \subseteq {1, 2}) \/ Registering

\* What the runner with the lock has found out about the registry ...
Legacy(r) ==
  /\ pc[r] = "tables" => registry = {}
  /\ pc[r] = "first" => registry = {} /\ 1 \in schema /\ schema \subseteq {1, 2}
  /\ pc[r] = "columns" => registry = {1} /\ 1 \in schema /\ schema \subseteq {1, 2}
  /\ pc[r] = "second" => registry = {1} /\ schema = {1, 2}

\* ... and about the files it has passed.
Passed(r) ==
  pc[r] \in {"check", "apply"} =>
    /\ registry = schema
    /\ file[r] \in Versions =>
         IF direction[r] = "up" THEN \A w \in 1..(file[r] - 1) : w \in schema
                                ELSE \A w \in schema : w <= file[r]
    /\ pc[r] = "apply" => (direction[r] = "up" <=> file[r] \notin schema)

Sound == ~torn => Closed /\ Registered /\ \A r \in Runners : Legacy(r) /\ Passed(r)

\* A runner of down that has not come to its file has changed nothing.
Reverted(r) ==
  Working(r) /\ direction[r] = "down" =>
    IF pc[r] = "check" /\ file[r] = 0
    THEN /\ schema \subseteq found[r]
         /\ \A v \in found[r] \ schema : ~torn => \A w \in found[r] : w <= v
    ELSE schema = found[r]

Downs == \A r \in Runners : Reverted(r)

IInv == TypeOK /\ LockExcludes /\ Sound /\ Downs

LEMMA InitIInv == Init => IInv
<1> SUFFICES ASSUME Init PROVE IInv
  OBVIOUS
<1> USE TopAssumption DEF Init
<1>1. schema \subseteq Versions
  BY DEF Versions
<1>2. TypeOK
  <2>1. pc \in [Runners -> Statements \cup {"idle"}] /\ (\A r \in Runners : pc[r] # "apply")
    OBVIOUS
  <2>2. file \in [Runners -> 0..(Top + 1)] /\ found \in [Runners -> SUBSET Versions]
    OBVIOUS
  <2>3. QED
    BY <1>1, <2>1, <2>2 DEF TypeOK
<1>3. LockExcludes /\ Downs
  BY DEF LockExcludes, Downs, Reverted, Working
<1>4. Closed
  BY DEF Closed
<1>5. Sound
  BY <1>4 DEF Sound, Registered, Legacy, Passed
<1>6. QED
  BY <1>2, <1>3, <1>5 DEF IInv

LEMMA TypeStep == TypeOK /\ [Next]_vars => TypeOK'
<1> SUFFICES ASSUME TypeOK, [Next]_vars PROVE TypeOK'
  OBVIOUS
<1> USE TopAssumption DEF TypeOK, database, Statements, Versions, Goto, Step
<1>1. ASSUME NEW r \in Runners, NEW d \in Directions, Start(r, d) PROVE TypeOK'
  BY <1>1 DEF Start
<1>2. ASSUME NEW r \in Runners, Lock(r) PROVE TypeOK'
  BY <1>2 DEF Lock
<1>3. ASSUME NEW r \in Runners, Count(r) \/ FindTables(r) \/ FindColumns(r) PROVE TypeOK'
  <2>1. FirstFile(r) \in 0..(Top + 1)
    BY DEF FirstFile
  <2>2. file' \in [Runners -> 0..(Top + 1)]
    BY <1>3, <2>1 DEF Count, FindTables, FindColumns, ToFiles
  <2>3. pc' \in [Runners -> Statements \cup {"idle"}] /\ pc'[r] # "apply"
        /\ (\A q \in Runners \ {r} : pc'[q] = pc[q] /\ file'[q] = file[q])
    BY <1>3 DEF Count, FindTables, FindColumns, ToFiles
  <2>4. QED
    BY <1>3, <2>2, <2>3 DEF Count, FindTables, FindColumns
<1>4. ASSUME NEW r \in Runners, RegisterFirst(r) PROVE TypeOK'
  BY <1>4 DEF RegisterFirst
<1>5. ASSUME NEW r \in Runners, RegisterSecond(r) PROVE TypeOK'
  <2>1. FirstFile(r) \in 0..(Top + 1)
    BY DEF FirstFile
  <2>2. QED
    BY <1>5, <2>1 DEF RegisterSecond, ToFiles
<1>6. ASSUME NEW r \in Runners, Check(r) PROVE TypeOK'
  <2>1. file[r] + 1 \in 0..(Top + 1) /\ file[r] - 1 \in 0..(Top + 1)
    BY <1>6 DEF Check
  <2>2. QED
    BY <1>6, <2>1 DEF Check, Advance
<1>7. ASSUME NEW r \in Runners, Apply(r) PROVE TypeOK'
  <2>1. file[r] + 1 \in 0..(Top + 1) /\ 0 \in 0..(Top + 1)
    BY <1>7 DEF Apply, Change
  <2>2. schema' \subseteq Versions /\ registry' \subseteq Versions /\ torn' = torn
    BY <1>7 DEF Apply, Change
  <2>3. file' \in [Runners -> 0..(Top + 1)]
    BY <1>7, <2>1 DEF Apply, Advance
  <2>4. QED
    BY <1>7, <2>2, <2>3 DEF Apply, Advance
<1>8. ASSUME NEW r \in Runners, ApplyFails(r) \/ Finish(r) \/ SessionEnds(r) PROVE TypeOK'
  <2>1. CASE SessionEnds(r)
    BY <2>1 DEF SessionEnds
  <2>2. CASE ApplyFails(r) \/ Finish(r)
    <3>1. 0 \in 0..(Top + 1) /\ {} \in SUBSET Versions
      OBVIOUS
    <3>2. UNCHANGED <<schema, registry, torn, direction>> /\ lock' = lock \ {r} /\ Exit(r)
      BY <2>2 DEF ApplyFails, Finish
    <3>3. QED
      BY <3>1, <3>2 DEF Exit
  <2>3. QED
    BY <1>8, <2>1, <2>2
<1>9. ASSUME NEW r \in Runners, Abort(r) PROVE TypeOK'
  BY <1>9 DEF Abort, Exit
<1>10. CASE UNCHANGED vars
  BY <1>10 DEF vars
<1>11. QED
  BY <1>1, <1>2, <1>3, <1>4, <1>5, <1>6, <1>7, <1>8, <1>9, <1>10
     DEF Next, Calm, Work, Misfit

\* The lock goes from nobody to one runner, and from it to nobody.
LEMMA LockStep == TypeOK /\ LockExcludes /\ [Next]_vars => LockExcludes'
<1> SUFFICES ASSUME TypeOK, LockExcludes, [Next]_vars PROVE LockExcludes'
  OBVIOUS
<1> USE DEF TypeOK, LockExcludes, Working, database, Goto, Step
<1>1. ASSUME NEW r \in Runners, NEW d \in Directions, Start(r, d) PROVE LockExcludes'
  BY <1>1 DEF Start
<1>2. ASSUME NEW r \in Runners, Lock(r) PROVE LockExcludes'
  BY <1>2 DEF Lock
<1>3. ASSUME NEW r \in Runners,
             Count(r) \/ FindTables(r) \/ RegisterFirst(r) \/ FindColumns(r) \/ RegisterSecond(r)
      PROVE  LockExcludes'
  BY <1>3 DEF Count, FindTables, RegisterFirst, FindColumns, RegisterSecond, ToFiles
<1>4. ASSUME NEW r \in Runners, Check(r) \/ Apply(r) PROVE LockExcludes'
  BY <1>4 DEF Check, Apply, Change
<1>5. ASSUME NEW r \in Runners, ApplyFails(r) \/ Finish(r) \/ SessionEnds(r) PROVE LockExcludes'
  BY <1>5 DEF ApplyFails, Finish, SessionEnds, Exit, Through
<1>6. ASSUME NEW r \in Runners, Abort(r) PROVE LockExcludes'
  BY <1>6 DEF Abort, Exit
<1>7. CASE UNCHANGED vars
  BY <1>7 DEF vars
<1>8. QED
  BY <1>1, <1>2, <1>3, <1>4, <1>5, <1>6, <1>7 DEF Next, Calm, Work, Misfit

-----------------------------------------------------------------------------
\* The registry.

\* What a runner is told concerns it alone, and it is alone.
LEMMA OthersRest ==
  ASSUME LockExcludes, NEW r \in Runners, Working(r),
         NEW q \in Runners \ {r}
  PROVE  ~Working(q)
BY DEF LockExcludes

\* A runner that comes to its first file, or from one file to the next.
LEMMA Arrival ==
  ASSUME NEW r \in Runners, pc'[r] = "check", registry' = schema',
         direction'[r] = "up" => \A w \in 1..(file'[r] - 1) : w \in schema',
         direction'[r] # "up" => \A w \in schema' : w <= file'[r]
  PROVE  (Legacy(r) /\ Passed(r) /\ Registered)'
<1>1. Legacy(r)' /\ Registered'
  BY DEF Legacy, Registered
<1>2. Passed(r)'
  BY DEF Passed
<1> QED
  BY <1>1, <1>2

LEMMA FirstArrival ==
  ASSUME NEW r \in Runners, pc'[r] = "check", registry' = schema', UNCHANGED direction,
         file'[r] = FirstFile(r), \A w \in schema' : w <= Top
  PROVE  (Legacy(r) /\ Passed(r) /\ Registered)'
<1>1. CASE direction[r] = "up"
  <2>1. \A w \in 1..(file'[r] - 1) : w \in schema'
    BY <1>1 DEF FirstFile
  <2>2. QED
    BY <1>1, <2>1, Arrival
<1>2. CASE direction[r] # "up"
  BY <1>2, Arrival DEF FirstFile
<1> QED
  BY <1>1, <1>2

LEMMA SoundStep == IInv /\ [Next]_vars => Sound'
<1> SUFFICES ASSUME IInv, [Next]_vars, ~torn' PROVE (Closed /\ Registered)' /\
                     \A r \in Runners : (Legacy(r) /\ Passed(r))'
  BY DEF Sound
<1> USE TopAssumption DEF IInv, TypeOK, database, Goto, Step
<1>1. ~torn
  BY DEF Next, Calm, Work, Misfit, Start, Lock, Count, FindTables, RegisterFirst, FindColumns,
         RegisterSecond, Check, Apply, Change, ApplyFails, Finish, Abort, SessionEnds, vars
<1>2. Closed /\ Registered /\ \A r \in Runners : Legacy(r) /\ Passed(r)
  BY <1>1 DEF Sound
<1> DEFINE Kept(q) == pc'[q] = pc[q] /\ file'[q] = file[q] /\ direction'[q] = direction[q]
<1>3. ASSUME NEW r \in Runners,
             \/ \E d \in Directions : Start(r, d)
             \/ Lock(r) \/ ApplyFails(r) \/ Finish(r) \/ SessionEnds(r)
      PROVE  (Closed /\ Registered)' /\ \A q \in Runners : (Legacy(q) /\ Passed(q))'
  <2>1. \/ UNCHANGED <<schema, registry>> /\ pc'[r] \in {"lock", "count", "idle"}
        \/ UNCHANGED <<schema, registry, pc, file, direction>>
    BY <1>3 DEF Start, Lock, ApplyFails, Finish, SessionEnds, Exit, Through
  <2>2. \A q \in Runners \ {r} : Kept(q)
    BY <1>3 DEF Start, Lock, ApplyFails, Finish, SessionEnds, Exit, Through
  <2>3. pc[r] \notin {"columns", "second"} \/ pc'[r] = pc[r]
    BY <1>3 DEF Start, Lock, ApplyFails, Finish, SessionEnds, Exit, Through
  <2>4. QED
    BY <1>2, <2>1, <2>2, <2>3 DEF Closed, Registered, Registering, Legacy, Passed
<1>4. ASSUME NEW r \in Runners, Abort(r)
      PROVE  (Closed /\ Registered)' /\ \A q \in Runners : (Legacy(q) /\ Passed(q))'
  <2>1. UNCHANGED <<schema, registry>> /\ pc'[r] = "idle"
    BY <1>4 DEF Abort, Exit
  <2>2. \A q \in Runners \ {r} : Kept(q)
    BY <1>4 DEF Abort, Exit
  <2>3. pc[r] \in {"columns", "second"} => registry = schema
    BY <1>4 DEF Abort, Exit
  <2>4. QED
    BY <1>2, <2>1, <2>2, <2>3 DEF Closed, Registered, Registering, Legacy, Passed
<1>5. ASSUME NEW r \in Runners, Working(r), \A q \in Runners \ {r} : Kept(q),
             (Closed /\ Registered /\ Legacy(r) /\ Passed(r))'
      PROVE  (Closed /\ Registered)' /\ \A q \in Runners : (Legacy(q) /\ Passed(q))'
  <2>1. \A q \in Runners \ {r} : ~Working(q)
    BY <1>5, OthersRest
  <2>2. \A q \in Runners \ {r} : (Legacy(q) /\ Passed(q))'
    BY <1>5, <2>1 DEF Working, Legacy, Passed
  <2>3. QED
    BY <1>5, <2>2
<1>6. ASSUME NEW r \in Runners, pc[r] \notin {"columns", "second"}, Working(r)
      PROVE  ~Registering
  BY <1>6, OthersRest DEF Registering, Working
<1>7. ASSUME NEW r \in Runners,
             Count(r) \/ FindTables(r) \/ RegisterFirst(r) \/ FindColumns(r) \/ RegisterSecond(r)
      PROVE  (Closed /\ Registered)' /\ \A q \in Runners : (Legacy(q) /\ Passed(q))'
  <2>1. Working(r) /\ (\A q \in Runners \ {r} : Kept(q)) /\ UNCHANGED <<schema, direction>>
    BY <1>7 DEF Working, Count, FindTables, RegisterFirst, FindColumns, RegisterSecond, ToFiles
  <2>2. Closed'
    BY <1>2, <2>1 DEF Closed
  <2>3. \A w \in schema : w <= Top
    BY DEF Versions
  <2>4. CASE Count(r)
    <3>1. ~Registering
      BY <1>6, <2>1, <2>4 DEF Count, ToFiles
    <3>2. UNCHANGED registry /\ pc'[r] \in {"tables", "check"}
      BY <2>4 DEF Count, ToFiles
    <3>3. Registered'
      BY <1>2, <2>1, <3>1, <3>2 DEF Registered
    <3>4. ASSUME registry = {} PROVE (Legacy(r) /\ Passed(r))'
      <4>1. pc'[r] = "tables" /\ registry' = {}
        BY <2>4, <3>2, <3>4 DEF Count
      <4>2. QED
        BY <4>1 DEF Legacy, Passed
    <3>5. ASSUME registry # {} PROVE (Legacy(r) /\ Passed(r))'
      <4>1. pc'[r] = "check" /\ file'[r] = FirstFile(r) /\ registry' = schema'
        BY <1>2, <2>1, <2>4, <3>1, <3>5 DEF Count, ToFiles, Registered
      <4>2. QED
        BY <2>1, <2>3, <4>1, FirstArrival
    <3>6. (Legacy(r) /\ Passed(r))'
      BY <3>4, <3>5
    <3>7. QED
      BY <1>5, <2>1, <2>2, <3>3, <3>6
  <2>5. CASE FindTables(r)
    <3>1. ~Registering /\ registry = {} /\ UNCHANGED registry
      BY <1>2, <1>6, <2>1, <2>5 DEF FindTables, ToFiles, Legacy
    <3>2. Registered'
      BY <1>2, <2>1, <3>1 DEF Registered
    <3>3. ASSUME 1 \in schema PROVE (Legacy(r) /\ Passed(r))'
      <4>1. pc'[r] = "first"
        BY <2>5, <3>3 DEF FindTables
      <4>2. registry' = {} /\ schema' \subseteq {1, 2} /\ 1 \in schema'
        BY <1>2, <2>1, <3>1, <3>3 DEF Registered
      <4>3. QED
        BY <4>1, <4>2 DEF Legacy, Passed
    <3>4. ASSUME 1 \notin schema PROVE (Legacy(r) /\ Passed(r))'
      <4>1. schema = {}
        BY <1>2, <3>4 DEF Closed, Versions
      <4>2. pc'[r] = "check"
        BY <2>5, <3>4 DEF FindTables, ToFiles
      <4>3. file'[r] = FirstFile(r)
        BY <2>5, <3>4 DEF FindTables, ToFiles
      <4>4. QED
        BY <2>1, <2>3, <3>1, <4>1, <4>2, <4>3, FirstArrival
    <3>5. QED
      BY <1>5, <2>1, <2>2, <3>2, <3>3, <3>4
  <2>6. CASE RegisterFirst(r)
    BY <1>2, <1>5, <2>1, <2>2, <2>6 DEF RegisterFirst, Registered, Registering, Legacy, Passed
  <2>7. CASE FindColumns(r)
    <3>1. registry = {1} /\ 1 \in schema /\ schema \subseteq {1, 2} /\ UNCHANGED registry
      BY <1>2, <2>7 DEF FindColumns, ToFiles, Legacy
    <3>2. CASE 2 \in schema
      BY <1>5, <2>1, <2>2, <2>7, <3>1, <3>2 DEF FindColumns, Registered, Registering, Legacy, Passed
    <3>3. CASE 2 \notin schema
      <4>1. schema = {1}
        BY <3>1, <3>3
      <4>2. registry' = schema'
        BY <2>1, <3>1, <4>1
      <4>3. ~({1, 2} \subseteq schema)
        BY <3>3
      <4>4. pc'[r] = "check" /\ file'[r] = FirstFile(r)
        BY <2>7, <4>3 DEF FindColumns, ToFiles
      <4>5. QED
        BY <1>5, <2>1, <2>2, <2>3, <4>2, <4>4, FirstArrival
    <3>4. QED
      BY <3>2, <3>3
  <2>8. CASE RegisterSecond(r)
    <3>1. registry' = schema' /\ pc'[r] = "check" /\ file'[r] = FirstFile(r)
      BY <1>2, <2>1, <2>8 DEF RegisterSecond, ToFiles, Legacy
    <3>2. QED
      BY <1>5, <2>1, <2>2, <2>3, <3>1, FirstArrival
  <2>9. QED
    BY <1>7, <2>4, <2>5, <2>6, <2>7, <2>8
<1>8. ASSUME NEW r \in Runners, Check(r)
      PROVE  (Closed /\ Registered)' /\ \A q \in Runners : (Legacy(q) /\ Passed(q))'
  <2>1. Working(r) /\ (\A q \in Runners \ {r} : Kept(q)) /\ UNCHANGED <<schema, registry, direction>>
    BY <1>8 DEF Check, Advance, Working
  <2>2. registry = schema /\ Closed'
    BY <1>2, <1>8, <2>1 DEF Check, Passed, Closed
  <2>3. pc'[r] \in {"check", "apply"} /\ file[r] \in Versions
    BY <1>8 DEF Check
  <2>4. CASE direction[r] = "up" <=> file[r] \in registry
    <3>1. pc'[r] = "check" /\ file'[r] = IF direction[r] = "up" THEN file[r] + 1 ELSE file[r] - 1
      BY <1>8, <2>4 DEF Check, Advance
    <3>2. CASE direction[r] = "up"
      <4>1. \A w \in 1..(file'[r] - 1) : w \in schema
        BY <1>2, <1>8, <2>2, <2>3, <2>4, <3>1, <3>2 DEF Check, Passed, Versions
      <4>2. QED
        BY <1>5, <2>1, <2>2, <3>1, <3>2, <4>1, Arrival
    <3>3. CASE direction[r] # "up"
      <4>1. \A w \in schema : w <= file'[r]
        BY <1>2, <1>8, <2>2, <2>3, <2>4, <3>1, <3>3 DEF Check, Passed, Versions
      <4>2. QED
        BY <1>5, <2>1, <2>2, <3>1, <3>3, <4>1, Arrival
    <3>4. QED
      BY <3>2, <3>3
  <2>5. CASE ~(direction[r] = "up" <=> file[r] \in registry)
    <3>1. pc'[r] = "apply" /\ UNCHANGED file
      BY <1>8, <2>5 DEF Check
    <3>2. Passed(r)'
      BY <1>2, <1>8, <2>1, <2>2, <2>3, <2>5, <3>1 DEF Check, Passed
    <3>3. Legacy(r)' /\ Registered'
      BY <2>1, <2>2, <3>1 DEF Legacy, Registered
    <3>4. QED
      BY <1>5, <2>1, <2>2, <3>2, <3>3
  <2>6. QED
    BY <2>4, <2>5
<1>9. ASSUME NEW r \in Runners, Apply(r)
      PROVE  (Closed /\ Registered)' /\ \A q \in Runners : (Legacy(q) /\ Passed(q))'
  <2>1. Working(r) /\ (\A q \in Runners \ {r} : Kept(q)) /\ UNCHANGED direction /\ pc'[r] = "check"
    BY <1>9 DEF Apply, Advance, Change, Working
  <2>2. pc[r] = "apply" /\ registry = schema /\ file[r] \in Versions
    BY <1>2, <1>9 DEF Apply, Change, Passed
  <2>3. CASE direction[r] = "up"
    <3>1. /\ schema' = schema \cup {file[r]} /\ registry' = schema'
          /\ file'[r] = file[r] + 1
      BY <1>9, <2>2, <2>3 DEF Apply, Change, Advance
    <3>2. \A w \in 1..(file[r] - 1) : w \in schema
      BY <1>2, <2>2, <2>3 DEF Passed
    <3>3. Closed'
      BY <1>2, <2>2, <3>1, <3>2 DEF Closed, Versions
    <3>4. (Legacy(r) /\ Passed(r) /\ Registered)'
      BY <2>1, <2>2, <2>3, <3>1, <3>2 DEF Legacy, Passed, Registered, Versions
    <3>5. QED
      BY <1>5, <2>1, <3>3, <3>4
  <2>4. CASE direction[r] # "up"
    <3>1. schema' = schema \ {file[r]} /\ registry' = schema' /\ file'[r] = 0
      BY <1>9, <2>2, <2>4 DEF Apply, Change
    <3>2. \A w \in schema : w <= file[r]
      BY <1>2, <2>2, <2>4 DEF Passed
    <3>3. Closed'
      BY <1>2, <2>2, <3>1, <3>2 DEF Closed, Versions
    <3>4. (Legacy(r) /\ Passed(r) /\ Registered)'
      BY <2>1, <3>1 DEF Legacy, Passed, Registered, Versions
    <3>5. QED
      BY <1>5, <2>1, <3>3, <3>4
  <2>5. QED
    BY <2>3, <2>4
<1>10. CASE UNCHANGED vars
  BY <1>2, <1>10 DEF vars, Closed, Registered, Registering, Legacy, Passed
<1>11. QED
  BY <1>3, <1>4, <1>7, <1>8, <1>9, <1>10 DEF Next, Calm, Work, Misfit

-----------------------------------------------------------------------------
\* Runners of down.

LEMMA DownsStep == IInv /\ [Next]_vars => Downs'
<1> SUFFICES ASSUME IInv, [Next]_vars, NEW q \in Runners PROVE Reverted(q)'
  BY DEF Downs
<1> USE TopAssumption DEF IInv, TypeOK, database, Goto, Step
<1>1. Reverted(q)
  BY DEF Downs
<1>2. ASSUME NEW r \in Runners, NEW d \in Directions, Start(r, d) PROVE Reverted(q)'
  BY <1>1, <1>2 DEF Start, Reverted, Working
<1>3. ASSUME NEW r \in Runners, Lock(r) PROVE Reverted(q)'
  BY <1>1, <1>3 DEF Lock, Reverted, Working
<1>4. ASSUME NEW r \in Runners,
             Count(r) \/ FindTables(r) \/ RegisterFirst(r) \/ FindColumns(r) \/ RegisterSecond(r)
      PROVE  Reverted(q)'
  <2>1. FirstFile(r) # 0
    BY DEF FirstFile
  <2>2. UNCHANGED <<schema, torn, direction, found>>
    BY <1>4 DEF Count, FindTables, RegisterFirst, FindColumns, RegisterSecond
  <2>3. pc[r] \in {"count", "tables", "first", "columns", "second"}
    BY <1>4 DEF Count, FindTables, RegisterFirst, FindColumns, RegisterSecond, ToFiles
  <2>4. pc'[r] = "check" => file'[r] # 0
    BY <1>4, <2>1 DEF Count, FindTables, RegisterFirst, FindColumns, RegisterSecond, ToFiles
  <2>5. q # r => pc'[q] = pc[q] /\ file'[q] = file[q]
    BY <1>4 DEF Count, FindTables, RegisterFirst, FindColumns, RegisterSecond, ToFiles
  <2>6. CASE q = r
    BY <1>1, <2>2, <2>3, <2>4, <2>6 DEF Reverted, Working
  <2>7. CASE q # r
    BY <1>1, <2>2, <2>5, <2>7 DEF Reverted, Working
  <2>8. QED
    BY <2>6, <2>7
<1>5. ASSUME NEW r \in Runners, Check(r) PROVE Reverted(q)'
  <2>1. UNCHANGED <<schema, torn, direction, found>> /\ pc[r] = "check" /\ file[r] # 0
    BY <1>5 DEF Check, Versions
  <2>2. q # r => pc'[q] = pc[q] /\ file'[q] = file[q]
    BY <1>5 DEF Check, Advance
  <2>3. CASE q = r
    BY <1>1, <2>1, <2>3 DEF Reverted, Working
  <2>4. CASE q # r
    BY <1>1, <2>1, <2>2, <2>4 DEF Reverted, Working
  <2>5. QED
    BY <2>3, <2>4
<1>6. ASSUME NEW r \in Runners, Apply(r) PROVE Reverted(q)'
  <2>1. Working(r) /\ UNCHANGED <<torn, direction, found>>
    BY <1>6 DEF Apply, Change, Working
  <2>2. CASE q # r
    <3>1. ~Working(q) /\ pc'[q] = pc[q]
      BY <1>6, <2>1, <2>2, OthersRest DEF Apply
    <3>2. QED
      BY <3>1 DEF Reverted, Working
  <2>3. CASE q = r /\ direction[r] = "down"
    <3>1. pc'[r] = "check" /\ file'[r] = 0 /\ schema' = schema \ {file[r]}
      BY <1>6, <2>3 DEF Apply, Change
    <3>2. schema = found[r]
      BY <1>1, <1>6, <2>3 DEF Reverted, Working, Apply, Change
    <3>3. ~torn => \A w \in schema : w <= file[r]
      BY <1>6, <2>3 DEF Sound, Passed, Apply, Change
    <3>4. QED
      BY <2>1, <2>3, <3>1, <3>2, <3>3 DEF Reverted
  <2>4. CASE q = r /\ direction[r] # "down"
    BY <2>1, <2>4 DEF Reverted
  <2>5. QED
    BY <2>2, <2>3, <2>4
<1>7. ASSUME NEW r \in Runners, ApplyFails(r) \/ Finish(r) \/ SessionEnds(r) PROVE Reverted(q)'
  BY <1>1, <1>7 DEF ApplyFails, Finish, SessionEnds, Reverted, Working, Exit, Through
<1>8. ASSUME NEW r \in Runners, Abort(r) PROVE Reverted(q)'
  <2>1. torn => torn'
    BY <1>8 DEF Abort, Exit
  <2>2. UNCHANGED <<schema, direction>>
    BY <1>8 DEF Abort
  <2>3. pc'[q] = "idle" \/ (pc'[q] = pc[q] /\ file'[q] = file[q] /\ found'[q] = found[q])
    BY <1>8 DEF Abort, Exit
  <2>4. QED
    BY <1>1, <2>1, <2>2, <2>3 DEF Reverted, Working
<1>9. CASE UNCHANGED vars
  BY <1>1, <1>9 DEF vars, Reverted, Working
<1>10. QED
  BY <1>2, <1>3, <1>4, <1>5, <1>6, <1>7, <1>8, <1>9 DEF Next, Calm, Work, Misfit

-----------------------------------------------------------------------------

LEMMA Invariance == Spec => []IInv
<1>1. IInv /\ [Next]_vars => IInv'
  BY TypeStep, LockStep, SoundStep, DownsStep DEF IInv
<1> QED
  BY InitIInv, <1>1, PTL DEF Spec

\* The tables and the runners have their types, however many files there are.
THEOREM MigrateTypeCorrect == Spec => []TypeOK
<1>1. IInv => TypeOK
  BY DEF IInv
<1> QED
  BY Invariance, <1>1, PTL

\* Between two runners the registry says what the schema is, unless the registration of
\* an old database was cut short.
THEOREM RegistryIsTrue == Spec => []RegistryMatchesSchema
<1>1. IInv => RegistryMatchesSchema
  <2> SUFFICES ASSUME IInv, lock = {}, ~torn
               PROVE  registry = schema \/ (registry = {} /\ schema \subseteq {1, 2})
    BY DEF RegistryMatchesSchema
  <2>1. ~Registering
    BY DEF IInv, LockExcludes, Registering, Working
  <2>2. QED
    BY <2>1 DEF IInv, Sound, Registered
<1> QED
  BY Invariance, <1>1, PTL

\* A file about to be run fits the schema, unless the registration of an old database was
\* cut short.
THEOREM FilesFit == Spec => []FilesFitTheSchema
<1>1. IInv => FilesFitTheSchema
  <2> SUFFICES ASSUME IInv, NEW r \in Runners, pc[r] = "apply", ~torn
               PROVE  Fits(direction[r], file[r])
    BY DEF FilesFitTheSchema
  <2>1. Passed(r) /\ file[r] \in Versions
    BY DEF IInv, Sound, TypeOK
  <2>2. QED
    BY <2>1, TopAssumption DEF Passed, Fits, Versions
<1> QED
  BY Invariance, <1>1, PTL

\* One run of down reverts one file at most, the last one applied.
THEOREM DownRevertsOne == Spec => []DownRevertsTheLast
<1>1. IInv => DownRevertsTheLast
  BY DEF IInv, Downs, Reverted, Working, DownRevertsTheLast
<1> QED
  BY Invariance, <1>1, PTL

-----------------------------------------------------------------------------
\* The deployment runs the migrations, and nothing else touches their tables.

LEMMA StepsOfMigrations == [DeploymentNext]_all => [Next]_vars
  BY DEF DeploymentNext, all, Migrating, Launch, Serving

LEMMA DeploymentMigrates == DeploymentSpec => Spec
<1>1. DeploymentInit => Init
  BY DEF DeploymentInit
<1> QED
  BY <1>1, StepsOfMigrations, PTL DEF DeploymentSpec, Spec

\* What is registered is there, even after a registration that was cut short.
RegistryIsBacked ==
  /\ registry \subseteq schema
  /\ \A r \in Runners : /\ pc[r] = "first" => 1 \in schema
                        /\ pc[r] = "second" => 2 \in schema

\* A runner of up has seen every file before its own registered.
UpPassed ==
  \A r \in Runners : pc[r] \in {"check", "apply"} /\ direction[r] = "up" =>
    file[r] >= 1 /\ \A w \in 1..(file[r] - 1) : w \in registry

\* Once the container has exited, a file is missing only if somebody reverted it.
MissingIsReverted ==
  /\ migrated => Versions \ reverted \subseteq registry
  /\ launched => migrated

WholeInv == RegistryIsBacked /\ UpPassed /\ MissingIsReverted

LEMMA BackedStep ==
  TypeOK /\ LockExcludes /\ RegistryIsBacked /\ [Next]_vars => RegistryIsBacked'
<1> SUFFICES ASSUME TypeOK, LockExcludes, RegistryIsBacked, [Next]_vars
             PROVE  RegistryIsBacked'
  OBVIOUS
<1> USE DEF TypeOK, LockExcludes, Working, RegistryIsBacked, database, Goto, Step
<1>1. ASSUME NEW r \in Runners, NEW d \in Directions, Start(r, d) PROVE RegistryIsBacked'
  BY <1>1 DEF Start
<1>2. ASSUME NEW r \in Runners, Lock(r) PROVE RegistryIsBacked'
  BY <1>2 DEF Lock
<1>3. ASSUME NEW r \in Runners,
             Count(r) \/ FindTables(r) \/ RegisterFirst(r) \/ FindColumns(r) \/ RegisterSecond(r)
      PROVE  RegistryIsBacked'
  BY <1>3 DEF Count, FindTables, RegisterFirst, FindColumns, RegisterSecond, ToFiles
<1>4. ASSUME NEW r \in Runners, Check(r) PROVE RegistryIsBacked'
  BY <1>4 DEF Check
<1>5. ASSUME NEW r \in Runners, Apply(r) PROVE RegistryIsBacked'
  <2>1. \A q \in Runners : pc'[q] \notin {"first", "second"}
    BY <1>5 DEF Apply, Change
  <2>2. registry' \subseteq schema'
    BY <1>5 DEF Apply, Change
  <2>3. QED
    BY <2>1, <2>2
<1>6. ASSUME NEW r \in Runners, ApplyFails(r) \/ Finish(r) \/ SessionEnds(r)
      PROVE  RegistryIsBacked'
  BY <1>6 DEF ApplyFails, Finish, SessionEnds, Exit, Through
<1>7. ASSUME NEW r \in Runners, Abort(r) PROVE RegistryIsBacked'
  BY <1>7 DEF Abort, Exit
<1>8. CASE UNCHANGED vars
  BY <1>8 DEF vars
<1>9. QED
  BY <1>1, <1>2, <1>3, <1>4, <1>5, <1>6, <1>7, <1>8 DEF Next, Calm, Work, Misfit

LEMMA UpPassedStep == TypeOK /\ LockExcludes /\ UpPassed /\ [Next]_vars => UpPassed'
<1> SUFFICES ASSUME TypeOK, LockExcludes, UpPassed, [Next]_vars, NEW q \in Runners,
                    pc'[q] \in {"check", "apply"}, direction'[q] = "up"
             PROVE  file'[q] >= 1 /\ \A w \in 1..(file'[q] - 1) : w \in registry'
  BY DEF UpPassed
<1> USE DEF TypeOK, LockExcludes, Working, UpPassed, database, Goto, Step
<1>1. ASSUME NEW r \in Runners, NEW d \in Directions, Start(r, d)
      PROVE  file'[q] >= 1 /\ \A w \in 1..(file'[q] - 1) : w \in registry'
  BY <1>1 DEF Start
<1>2. ASSUME NEW r \in Runners, Lock(r)
      PROVE  file'[q] >= 1 /\ \A w \in 1..(file'[q] - 1) : w \in registry'
  BY <1>2 DEF Lock
<1>3. ASSUME NEW r \in Runners,
             Count(r) \/ FindTables(r) \/ RegisterFirst(r) \/ FindColumns(r) \/ RegisterSecond(r)
      PROVE  file'[q] >= 1 /\ \A w \in 1..(file'[q] - 1) : w \in registry'
  <2>1. CASE q = r
    <3>1. file'[q] = 1
      BY <1>3, <2>1 DEF Count, FindTables, RegisterFirst, FindColumns, RegisterSecond,
                        ToFiles, FirstFile
    <3>2. QED
      BY <3>1
  <2>2. CASE q # r
    BY <1>3, <2>2 DEF Count, FindTables, RegisterFirst, FindColumns, RegisterSecond, ToFiles
  <2>3. QED
    BY <2>1, <2>2
<1>4. ASSUME NEW r \in Runners, Check(r)
      PROVE  file'[q] >= 1 /\ \A w \in 1..(file'[q] - 1) : w \in registry'
  <2>1. q = r /\ registry' = registry /\ direction' = direction
    BY <1>4 DEF Check
  <2>2. file[r] >= 1 /\ file[r] \in Nat /\ \A w \in 1..(file[r] - 1) : w \in registry
    BY <1>4, <2>1 DEF Check, Versions
  <2>3. CASE file[r] \in registry
    <3>1. file'[r] = file[r] + 1
      BY <1>4, <2>1, <2>3 DEF Check, Advance
    <3>2. QED
      BY <2>1, <2>2, <2>3, <3>1
  <2>4. CASE file[r] \notin registry
    BY <1>4, <2>1, <2>2, <2>4 DEF Check
  <2>5. QED
    BY <2>3, <2>4
<1>5. ASSUME NEW r \in Runners, Apply(r)
      PROVE  file'[q] >= 1 /\ \A w \in 1..(file'[q] - 1) : w \in registry'
  <2>1. q = r /\ direction[r] = "up"
    BY <1>5 DEF Apply, Change
  <2>2. file'[r] = file[r] + 1 /\ registry' = registry \cup {file[r]}
    BY <1>5, <2>1 DEF Apply, Change, Advance
  <2>3. file[r] >= 1 /\ file[r] \in Nat /\ \A w \in 1..(file[r] - 1) : w \in registry
    BY <1>5, <2>1 DEF Apply, Change
  <2>4. QED
    BY <2>1, <2>2, <2>3
<1>6. ASSUME NEW r \in Runners, ApplyFails(r) \/ Finish(r) \/ SessionEnds(r)
      PROVE  file'[q] >= 1 /\ \A w \in 1..(file'[q] - 1) : w \in registry'
  BY <1>6 DEF ApplyFails, Finish, SessionEnds, Exit, Through
<1>7. ASSUME NEW r \in Runners, Abort(r)
      PROVE  file'[q] >= 1 /\ \A w \in 1..(file'[q] - 1) : w \in registry'
  BY <1>7 DEF Abort, Exit
<1>8. CASE UNCHANGED vars
  BY <1>8 DEF vars
<1>9. QED
  BY <1>1, <1>2, <1>3, <1>4, <1>5, <1>6, <1>7, <1>8 DEF Next, Calm, Work, Misfit

\* A file leaves the registry with its objects.
LEMMA RegistryFollowsSchema ==
  ASSUME TypeOK, [Next]_vars
  PROVE  registry \ registry' \subseteq schema \ schema'
<1> USE DEF TypeOK, database
<1>1. ASSUME NEW r \in Runners, Apply(r) PROVE registry \ registry' \subseteq schema \ schema'
  <2>1. CASE direction[r] = "up"
    BY <1>1, <2>1 DEF Apply, Change
  <2>2. CASE direction[r] # "up"
    <3>1. file[r] \in schema
      BY <1>1, <2>2 DEF Apply, Change, Fits
    <3>2. schema' = schema \ {file[r]} /\ registry' = registry \ {file[r]}
      BY <1>1, <2>2 DEF Apply, Change
    <3>3. QED
      BY <3>1, <3>2
  <2>3. QED
    BY <2>1, <2>2
<1>2. ASSUME NEW r \in Runners,
             \/ \E d \in Directions : Start(r, d)
             \/ Lock(r) \/ Count(r) \/ FindTables(r) \/ RegisterFirst(r)
             \/ FindColumns(r) \/ RegisterSecond(r) \/ Check(r)
             \/ ApplyFails(r) \/ Finish(r) \/ SessionEnds(r) \/ Abort(r)
      PROVE  registry \subseteq registry'
  BY <1>2 DEF Start, Lock, Count, FindTables, RegisterFirst, FindColumns, RegisterSecond,
              Check, ApplyFails, Finish, SessionEnds, Abort
<1>3. CASE UNCHANGED vars
  BY <1>3 DEF vars
<1>4. QED
  BY <1>1, <1>2, <1>3 DEF Next, Calm, Work, Misfit

\* The last step of a run that is through writes nothing.
LEMMA LastStepWritesNothing ==
  ASSUME TypeOK, [Next]_vars, NEW r \in Runners, Through(r), pc'[r] = "idle"
  PROVE  registry' = registry
<1> USE DEF TypeOK, database, Goto, Step, Through
<1>1. ASSUME NEW q \in Runners,
             RegisterFirst(q) \/ RegisterSecond(q) \/ Apply(q)
      PROVE  FALSE
  <2>1. q # r
    BY <1>1 DEF RegisterFirst, RegisterSecond, ToFiles, Apply, Change
  <2>2. pc'[r] = pc[r]
    BY <1>1, <2>1 DEF RegisterFirst, RegisterSecond, ToFiles, Apply
  <2>3. QED
    BY <2>2
<1>2. ASSUME NEW q \in Runners,
             \/ \E d \in Directions : Start(q, d)
             \/ Lock(q) \/ Count(q) \/ FindTables(q) \/ FindColumns(q) \/ Check(q)
             \/ ApplyFails(q) \/ Finish(q) \/ SessionEnds(q) \/ Abort(q)
      PROVE  registry' = registry
  BY <1>2 DEF Start, Lock, Count, FindTables, FindColumns, Check, ApplyFails, Finish,
              SessionEnds, Abort
<1>3. CASE UNCHANGED vars
  BY <1>3 DEF vars
<1>4. QED
  BY <1>1, <1>2, <1>3 DEF Next, Calm, Work, Misfit

\* A run of up that is through leaves every file registered, for it had the lock.
LEMMA SuccessRegistersAll ==
  ASSUME TypeOK, UpPassed, [Next]_vars, Succeeds
  PROVE  registry' = Versions
<1>1. PICK r \in Runners : direction[r] = "up" /\ Through(r) /\ pc'[r] = "idle"
  BY DEF Succeeds
<1>2. file[r] \in 0..(Top + 1) /\ file[r] \notin 1..Top /\ file[r] >= 1
  BY <1>1 DEF Through, TypeOK, UpPassed, Versions
<1>3. file[r] = Top + 1
  BY <1>2, TopAssumption
<1>4. \A w \in 1..Top : w \in registry
  BY <1>1, <1>3, TopAssumption DEF Through, UpPassed
<1>5. QED
  BY <1>1, <1>4, LastStepWritesNothing DEF TypeOK, Versions

LEMMA MissingStep ==
  TypeOK /\ UpPassed /\ MissingIsReverted /\ [DeploymentNext]_all => MissingIsReverted'
<1> SUFFICES ASSUME TypeOK, UpPassed, MissingIsReverted, [DeploymentNext]_all
             PROVE  MissingIsReverted'
  OBVIOUS
<1>1. CASE Migrating(Next)
  <2>1. (launched => migrated)' /\ (migrated => migrated')
    BY <1>1 DEF Migrating, MissingIsReverted
  <2>2. CASE migrated
    <3>1. Versions \ reverted \subseteq registry /\ reverted' = reverted \cup (schema \ schema')
      BY <1>1, <2>2 DEF Migrating, MissingIsReverted
    <3>2. registry \ registry' \subseteq schema \ schema'
      BY <1>1, RegistryFollowsSchema DEF Migrating
    <3>3. QED
      BY <2>1, <3>1, <3>2 DEF MissingIsReverted, Versions
  <2>3. CASE ~migrated /\ migrated'
    <3>1. Succeeds
      BY <1>1, <2>3 DEF Migrating
    <3>2. registry' = Versions
      BY <1>1, <3>1, SuccessRegistersAll DEF Migrating
    <3>3. QED
      BY <2>1, <3>2 DEF MissingIsReverted, Versions
  <2>4. CASE ~migrated /\ ~migrated'
    BY <2>1, <2>4 DEF MissingIsReverted
  <2>5. QED
    BY <2>2, <2>3, <2>4
<1>2. CASE Launch
  BY <1>2 DEF Launch, vars, database, MissingIsReverted, Versions
<1>3. CASE Serving(Life!Next) \/ UNCHANGED all
  BY <1>3 DEF Serving, all, deployment, vars, database, MissingIsReverted, Versions
<1>4. QED
  BY <1>1, <1>2, <1>3 DEF DeploymentNext

LEMMA WholeInvariance == DeploymentSpec => [](IInv /\ WholeInv)
<1>1. DeploymentInit => WholeInv
  BY TopAssumption DEF DeploymentInit, Init, WholeInv, RegistryIsBacked, UpPassed,
                       MissingIsReverted
<1>2. IInv /\ WholeInv /\ [DeploymentNext]_all => WholeInv'
  BY BackedStep, UpPassedStep, MissingStep, StepsOfMigrations DEF IInv, WholeInv
<1> QED
  BY DeploymentMigrates, Invariance, <1>1, <1>2, PTL DEF DeploymentSpec

\* What the service was launched on is whole but for files reverted after the container of
\* the migrations had exited, whatever else runs, waits or is interrupted beside it.
THEOREM ServiceFindsItsSchema == DeploymentSpec => []ServesOnWholeSchema
<1>1. IInv /\ WholeInv => ServesOnWholeSchema
  BY DEF WholeInv, RegistryIsBacked, MissingIsReverted, ServesOnWholeSchema
<1> QED
  BY WholeInvariance, <1>1, PTL

-----------------------------------------------------------------------------
\* One process of the service.

Idle == running = {} /\ active = {}

\* What each phase and each step of the stop finds.
Started ==
  /\ phase = "opening" => pool = "none" /\ Idle /\ ~listening /\ ~cancelled /\ ~expired
  /\ phase = "starting" =>
       /\ pool = "open" /\ ~listening /\ active = {} /\ ~cancelled /\ ~expired
       /\ step \in {"workers", "http"} /\ (step = "http" => running = Workers)
       /\ step = "workers" => running = {}
  /\ phase = "serving" => pool = "open" /\ listening /\ running = Workers /\ ~cancelled

Stopped ==
  phase = "stopping" =>
    /\ step \in Life!Steps \ {"none", "workers", "http"}
    /\ pool = IF step = "stopping pool" THEN "closing"
              ELSE IF step = "stopped" THEN "closed" ELSE "open"
    /\ listening => step = "stop http"
    /\ step \in {"stop http", "stopping http", "stop workers"} =>
         running = Workers /\ ~cancelled
    /\ step \in {"stop workers", "stopping workers", "stop pool"} => active = {} \/ expired
    /\ step = "stop pool" => running = {} \/ expired
    /\ step \in {"stopping pool", "stopped"} => Idle

Exited ==
  phase = "exited" => Life!PoolClosesLast /\ Life!EndsTidily

LifeInv == Life!TypeOK /\ (code # "" => phase = "exited") /\ Started /\ Stopped /\ Exited

LEMMA LifeInvClosesLast == LifeInv => Life!PoolClosesLast
  BY DEF LifeInv, Life!TypeOK, Life!Phases, Started, Stopped, Exited, Idle, Life!PoolClosesLast

LEMMA LifeStep == LifeInv /\ [DeploymentNext]_all => LifeInv'
<1> SUFFICES ASSUME LifeInv, [DeploymentNext]_all PROVE LifeInv'
  OBVIOUS
<1> USE DEF Life!parts, Life!app, Idle
<1>1. CASE UNCHANGED life
  <2>1. Life!TypeOK'
    BY <1>1 DEF life, LifeInv, Life!TypeOK, Life!Phases, Life!Steps, Started
  <2>2. (code # "" => phase = "exited")'
    BY <1>1 DEF life, LifeInv
  <2>3. Started'
    BY <1>1 DEF life, LifeInv, Started
  <2>4. Stopped'
    BY <1>1 DEF life, LifeInv, Started, Stopped, Life!Steps
  <2>5. Exited'
    BY <1>1 DEF life, LifeInv, Started, Stopped, Exited, Life!PoolClosesLast, Life!EndsTidily
  <2>6. QED
    BY <2>1, <2>2, <2>3, <2>4, <2>5 DEF LifeInv
<1>2. CASE Life!OpenPool
  <2>1. Life!TypeOK'
    BY <1>2 DEF Life!OpenPool, LifeInv, Life!TypeOK, Life!Phases, Life!Steps, Started
  <2>2. (code # "" => phase = "exited")'
    BY <1>2 DEF Life!OpenPool, LifeInv
  <2>3. Started'
    BY <1>2 DEF Life!OpenPool, LifeInv, Started
  <2>4. Stopped'
    BY <1>2 DEF Life!OpenPool, LifeInv, Started, Stopped, Life!Steps
  <2>5. Exited'
    BY <1>2 DEF Life!OpenPool, LifeInv, Started, Stopped, Exited, Life!PoolClosesLast, Life!EndsTidily
  <2>6. QED
    BY <2>1, <2>2, <2>3, <2>4, <2>5 DEF LifeInv
<1>3. CASE Life!OpenFails
  <2>1. Life!TypeOK'
    BY <1>3 DEF Life!OpenFails, Life!Exit, LifeInv, Life!TypeOK, Life!Phases, Life!Steps, Started
  <2>2. (code # "" => phase = "exited")'
    BY <1>3 DEF Life!OpenFails, Life!Exit, LifeInv
  <2>3. Started'
    BY <1>3 DEF Life!OpenFails, Life!Exit, LifeInv, Started
  <2>4. Stopped'
    BY <1>3 DEF Life!OpenFails, Life!Exit, LifeInv, Started, Stopped, Life!Steps
  <2>5. Exited'
    BY <1>3 DEF Life!OpenFails, Life!Exit, LifeInv, Started, Stopped, Exited, Life!PoolClosesLast, Life!EndsTidily
  <2>6. QED
    BY <2>1, <2>2, <2>3, <2>4, <2>5 DEF LifeInv
<1>4. CASE Life!StartWorkers
  <2>1. Life!TypeOK'
    BY <1>4 DEF Life!StartWorkers, LifeInv, Life!TypeOK, Life!Phases, Life!Steps, Started
  <2>2. (code # "" => phase = "exited")'
    BY <1>4 DEF Life!StartWorkers, LifeInv
  <2>3. Started'
    BY <1>4 DEF Life!StartWorkers, LifeInv, Started
  <2>4. Stopped'
    BY <1>4 DEF Life!StartWorkers, LifeInv, Started, Stopped, Life!Steps
  <2>5. Exited'
    BY <1>4 DEF Life!StartWorkers, LifeInv, Started, Stopped, Exited, Life!PoolClosesLast, Life!EndsTidily
  <2>6. QED
    BY <2>1, <2>2, <2>3, <2>4, <2>5 DEF LifeInv
<1>5. CASE Life!StartHTTP
  <2>1. Life!TypeOK'
    BY <1>5 DEF Life!StartHTTP, LifeInv, Life!TypeOK, Life!Phases, Life!Steps, Started
  <2>2. (code # "" => phase = "exited")'
    BY <1>5 DEF Life!StartHTTP, LifeInv
  <2>3. Started'
    BY <1>5 DEF Life!StartHTTP, LifeInv, Started
  <2>4. Stopped'
    BY <1>5 DEF Life!StartHTTP, LifeInv, Started, Stopped, Life!Steps
  <2>5. Exited'
    BY <1>5 DEF Life!StartHTTP, LifeInv, Started, Stopped, Exited, Life!PoolClosesLast, Life!EndsTidily
  <2>6. QED
    BY <2>1, <2>2, <2>3, <2>4, <2>5 DEF LifeInv
<1>6. CASE Life!ListenFails
  <2>1. Life!TypeOK'
    BY <1>6 DEF Life!ListenFails, LifeInv, Life!TypeOK, Life!Phases, Life!Steps, Started
  <2>2. (code # "" => phase = "exited")'
    BY <1>6 DEF Life!ListenFails, LifeInv
  <2>3. Started'
    BY <1>6 DEF Life!ListenFails, LifeInv, Started
  <2>4. Stopped'
    BY <1>6 DEF Life!ListenFails, LifeInv, Started, Stopped, Life!Steps
  <2>5. Exited'
    BY <1>6 DEF Life!ListenFails, LifeInv, Started, Stopped, Exited, Life!PoolClosesLast, Life!EndsTidily
  <2>6. QED
    BY <2>1, <2>2, <2>3, <2>4, <2>5 DEF LifeInv
<1>7. CASE Life!StartExpires
  <2>1. Life!TypeOK'
    BY <1>7 DEF Life!StartExpires, Life!Exit, LifeInv, Life!TypeOK, Life!Phases, Life!Steps, Started
  <2>2. (code # "" => phase = "exited")'
    BY <1>7 DEF Life!StartExpires, Life!Exit, LifeInv
  <2>3. Started'
    BY <1>7 DEF Life!StartExpires, Life!Exit, LifeInv, Started
  <2>4. Stopped'
    BY <1>7 DEF Life!StartExpires, Life!Exit, LifeInv, Started, Stopped, Life!Steps
  <2>5. Exited'
    BY <1>7 DEF Life!StartExpires, Life!Exit, LifeInv, Started, Stopped, Exited, Life!PoolClosesLast, Life!EndsTidily
  <2>6. QED
    BY <2>1, <2>2, <2>3, <2>4, <2>5 DEF LifeInv
<1>8. CASE Life!Signal
  <2>1. Life!TypeOK'
    BY <1>8 DEF Life!Signal, LifeInv, Life!TypeOK, Life!Phases, Life!Steps, Started
  <2>2. (code # "" => phase = "exited")'
    BY <1>8 DEF Life!Signal, LifeInv
  <2>3. Started'
    BY <1>8 DEF Life!Signal, LifeInv, Started
  <2>4. Stopped'
    BY <1>8 DEF Life!Signal, LifeInv, Started, Stopped, Life!Steps
  <2>5. Exited'
    BY <1>8 DEF Life!Signal, LifeInv, Started, Stopped, Exited, Life!PoolClosesLast, Life!EndsTidily
  <2>6. QED
    BY <2>1, <2>2, <2>3, <2>4, <2>5 DEF LifeInv
<1>9. ASSUME NEW r \in Requests, Life!Serve(r) \/ Life!Respond(r) PROVE LifeInv'
  <2>1. Life!TypeOK'
    BY <1>9 DEF Life!Serve, Life!Respond, LifeInv, Life!TypeOK, Life!Phases, Life!Steps, Started
  <2>2. (code # "" => phase = "exited")'
    BY <1>9 DEF Life!Serve, Life!Respond, LifeInv
  <2>3. Started'
    <3>1. UNCHANGED <<phase, step, expired, pool, running, cancelled, listening>>
      BY <1>9 DEF Life!Serve, Life!Respond
    <3>2. CASE active' \subseteq active
      BY <3>1, <3>2 DEF LifeInv, Started
    <3>3. CASE listening /\ phase # "exited"
      BY <3>1, <3>3 DEF LifeInv, Started
    <3>4. QED
      BY <1>9, <3>2, <3>3 DEF Life!Serve, Life!Respond
  <2>4. Stopped'
    BY <1>9 DEF Life!Serve, Life!Respond, LifeInv, Started, Stopped, Life!Steps
  <2>5. Exited'
    BY <1>9 DEF Life!Serve, Life!Respond, LifeInv, Started, Stopped, Exited, Life!PoolClosesLast, Life!EndsTidily
  <2>6. QED
    BY <2>1, <2>2, <2>3, <2>4, <2>5 DEF LifeInv
<1>10. ASSUME NEW w \in Workers, Life!WorkerReturns(w) PROVE LifeInv'
  <2>1. Life!TypeOK'
    BY <1>10 DEF Life!WorkerReturns, LifeInv, Life!TypeOK, Life!Phases, Life!Steps, Started
  <2>2. (code # "" => phase = "exited")'
    BY <1>10 DEF Life!WorkerReturns, LifeInv
  <2>3. Started'
    BY <1>10 DEF Life!WorkerReturns, LifeInv, Started
  <2>4. Stopped'
    BY <1>10 DEF Life!WorkerReturns, LifeInv, Started, Stopped, Life!Steps
  <2>5. Exited'
    BY <1>10 DEF Life!WorkerReturns, LifeInv, Started, Stopped, Exited, Life!PoolClosesLast, Life!EndsTidily
  <2>6. QED
    BY <2>1, <2>2, <2>3, <2>4, <2>5 DEF LifeInv
<1>11. CASE Life!ShutdownHTTP
  <2>1. Life!TypeOK'
    BY <1>11 DEF Life!ShutdownHTTP, Life!Call, LifeInv, Life!TypeOK, Life!Phases, Life!Steps, Started
  <2>2. (code # "" => phase = "exited")'
    BY <1>11 DEF Life!ShutdownHTTP, Life!Call, LifeInv
  <2>3. Started'
    BY <1>11 DEF Life!ShutdownHTTP, Life!Call, LifeInv, Started
  <2>4. Stopped'
    BY <1>11 DEF Life!ShutdownHTTP, Life!Call, LifeInv, Started, Stopped, Life!Steps
  <2>5. Exited'
    BY <1>11 DEF Life!ShutdownHTTP, Life!Call, LifeInv, Started, Stopped, Exited, Life!PoolClosesLast, Life!EndsTidily
  <2>6. QED
    BY <2>1, <2>2, <2>3, <2>4, <2>5 DEF LifeInv
<1>12. CASE Life!HTTPIsDown
  <2>1. Life!TypeOK'
    BY <1>12 DEF Life!HTTPIsDown, Life!Return, LifeInv, Life!TypeOK, Life!Phases, Life!Steps, Started
  <2>2. (code # "" => phase = "exited")'
    BY <1>12 DEF Life!HTTPIsDown, Life!Return, LifeInv
  <2>3. Started'
    BY <1>12 DEF Life!HTTPIsDown, Life!Return, LifeInv, Started
  <2>4. Stopped'
    BY <1>12 DEF Life!HTTPIsDown, Life!Return, LifeInv, Started, Stopped, Life!Steps
  <2>5. Exited'
    BY <1>12 DEF Life!HTTPIsDown, Life!Return, LifeInv, Started, Stopped, Exited, Life!PoolClosesLast, Life!EndsTidily
  <2>6. QED
    BY <2>1, <2>2, <2>3, <2>4, <2>5 DEF LifeInv
<1>13. CASE Life!CancelWorkers
  <2>1. Life!TypeOK'
    BY <1>13 DEF Life!CancelWorkers, Life!Call, LifeInv, Life!TypeOK, Life!Phases, Life!Steps, Started
  <2>2. (code # "" => phase = "exited")'
    BY <1>13 DEF Life!CancelWorkers, Life!Call, LifeInv
  <2>3. Started'
    BY <1>13 DEF Life!CancelWorkers, Life!Call, LifeInv, Started
  <2>4. Stopped'
    BY <1>13 DEF Life!CancelWorkers, Life!Call, LifeInv, Started, Stopped, Life!Steps
  <2>5. Exited'
    BY <1>13 DEF Life!CancelWorkers, Life!Call, LifeInv, Started, Stopped, Exited, Life!PoolClosesLast, Life!EndsTidily
  <2>6. QED
    BY <2>1, <2>2, <2>3, <2>4, <2>5 DEF LifeInv
<1>14. CASE Life!WorkersAreDone
  <2>1. Life!TypeOK'
    BY <1>14 DEF Life!WorkersAreDone, Life!Return, LifeInv, Life!TypeOK, Life!Phases, Life!Steps, Started
  <2>2. (code # "" => phase = "exited")'
    BY <1>14 DEF Life!WorkersAreDone, Life!Return, LifeInv
  <2>3. Started'
    BY <1>14 DEF Life!WorkersAreDone, Life!Return, LifeInv, Started
  <2>4. Stopped'
    BY <1>14 DEF Life!WorkersAreDone, Life!Return, LifeInv, Started, Stopped, Life!Steps
  <2>5. Exited'
    BY <1>14 DEF Life!WorkersAreDone, Life!Return, LifeInv, Started, Stopped, Exited, Life!PoolClosesLast, Life!EndsTidily
  <2>6. QED
    BY <2>1, <2>2, <2>3, <2>4, <2>5 DEF LifeInv
<1>15. CASE Life!ClosePool
  <2>1. Life!TypeOK'
    BY <1>15 DEF Life!ClosePool, Life!Call, LifeInv, Life!TypeOK, Life!Phases, Life!Steps, Started
  <2>2. (code # "" => phase = "exited")'
    BY <1>15 DEF Life!ClosePool, Life!Call, LifeInv
  <2>3. Started'
    BY <1>15 DEF Life!ClosePool, Life!Call, LifeInv, Started
  <2>4. Stopped'
    BY <1>15 DEF Life!ClosePool, Life!Call, LifeInv, Started, Stopped, Life!Steps
  <2>5. Exited'
    BY <1>15 DEF Life!ClosePool, Life!Call, LifeInv, Started, Stopped, Exited, Life!PoolClosesLast, Life!EndsTidily
  <2>6. QED
    BY <2>1, <2>2, <2>3, <2>4, <2>5 DEF LifeInv
<1>16. CASE Life!PoolIsClosed
  <2>1. Life!TypeOK'
    BY <1>16 DEF Life!PoolIsClosed, LifeInv, Life!TypeOK, Life!Phases, Life!Steps, Started
  <2>2. (code # "" => phase = "exited")'
    BY <1>16 DEF Life!PoolIsClosed, LifeInv
  <2>3. Started'
    BY <1>16 DEF Life!PoolIsClosed, LifeInv, Started
  <2>4. Stopped'
    BY <1>16 DEF Life!PoolIsClosed, LifeInv, Started, Stopped, Life!Steps
  <2>5. Exited'
    BY <1>16 DEF Life!PoolIsClosed, LifeInv, Started, Stopped, Exited, Life!PoolClosesLast, Life!EndsTidily
  <2>6. QED
    BY <2>1, <2>2, <2>3, <2>4, <2>5 DEF LifeInv
<1>17. CASE Life!StopExpires
  <2>1. Life!TypeOK'
    BY <1>17 DEF Life!StopExpires, LifeInv, Life!TypeOK, Life!Phases, Life!Steps, Started
  <2>2. (code # "" => phase = "exited")'
    BY <1>17 DEF Life!StopExpires, LifeInv
  <2>3. Started'
    BY <1>17 DEF Life!StopExpires, LifeInv, Started
  <2>4. Stopped'
    BY <1>17 DEF Life!StopExpires, LifeInv, Started, Stopped, Life!Steps
  <2>5. Exited'
    BY <1>17 DEF Life!StopExpires, LifeInv, Started, Stopped, Exited, Life!PoolClosesLast, Life!EndsTidily
  <2>6. QED
    BY <2>1, <2>2, <2>3, <2>4, <2>5 DEF LifeInv
<1>18. CASE Life!ExitStopped
  <2>1. Life!TypeOK'
    BY <1>18 DEF Life!ExitStopped, Life!Exit, LifeInv, Life!TypeOK, Life!Phases, Life!Steps, Started
  <2>2. (code # "" => phase = "exited")'
    BY <1>18 DEF Life!ExitStopped, Life!Exit, LifeInv
  <2>3. Started'
    BY <1>18 DEF Life!ExitStopped, Life!Exit, LifeInv, Started
  <2>4. Stopped'
    BY <1>18 DEF Life!ExitStopped, Life!Exit, LifeInv, Started, Stopped, Life!Steps
  <2>5. Exited'
    BY <1>18 DEF Life!ExitStopped, Life!Exit, LifeInv, Started, Stopped, Exited, Life!PoolClosesLast, Life!EndsTidily
  <2>6. QED
    BY <2>1, <2>2, <2>3, <2>4, <2>5 DEF LifeInv
<1>19. CASE Life!Kill
  <2>1. Life!TypeOK'
    BY <1>19 DEF Life!Kill, Life!Exit, LifeInv, Life!TypeOK, Life!Phases, Life!Steps, Started
  <2>2. (code # "" => phase = "exited")'
    BY <1>19 DEF Life!Kill, Life!Exit, LifeInv
  <2>3. Started'
    BY <1>19 DEF Life!Kill, Life!Exit, LifeInv, Started
  <2>4. Stopped'
    BY <1>19 DEF Life!Kill, Life!Exit, LifeInv, Started, Stopped, Life!Steps
  <2>5. Exited'
    <3>1. Life!PoolClosesLast'
      BY <1>19, LifeInvClosesLast DEF Life!Kill, Life!PoolClosesLast
    <3>2. Life!EndsTidily'
      BY <1>19 DEF Life!Kill, Life!Exit, Life!EndsTidily
    <3>3. QED
      BY <3>1, <3>2 DEF Exited
  <2>6. QED
    BY <2>1, <2>2, <2>3, <2>4, <2>5 DEF LifeInv
<1>20. QED
  BY <1>1, <1>2, <1>3, <1>4, <1>5, <1>6, <1>7, <1>8, <1>9, <1>10, <1>11, <1>12, <1>13, <1>14, <1>15, <1>16, <1>17, <1>18, <1>19
     DEF DeploymentNext, all, Migrating, Launch, Serving, Life!Next, Life!Prompt,
         Life!Start, Life!Stop

LEMMA LifeInvariance == DeploymentSpec => []LifeInv
<1>1. DeploymentInit => LifeInv
  BY DEF DeploymentInit, Life!Init, LifeInv, Life!TypeOK, Life!Phases, Life!Steps, Started,
         Stopped, Exited, Idle
<1> QED
  BY <1>1, LifeStep, PTL DEF DeploymentSpec

\* Every variable of the migrations and of the service has its type.
THEOREM DeploymentTypeCorrect == DeploymentSpec => []DeploymentTypeOK
<1> DEFINE Typed == migrated \in BOOLEAN /\ launched \in BOOLEAN /\ reverted \subseteq Versions
<1>1. DeploymentInit => Typed
  BY DEF DeploymentInit
<1>2. IInv /\ Typed /\ [DeploymentNext]_all => Typed'
  BY DEF IInv, TypeOK, DeploymentNext, all, deployment, Migrating, Launch, Serving, Versions
<1>3. IInv /\ LifeInv /\ Typed => DeploymentTypeOK
  BY DEF IInv, LifeInv, DeploymentTypeOK
<1> QED
  BY WholeInvariance, LifeInvariance, <1>1, <1>2, <1>3, PTL DEF DeploymentSpec

\* The listener is closed before the workers are stopped, and the pool after the workers
\* and the requests, whatever hangs, expires or fails to start.
THEOREM PartsStopInOrder == DeploymentSpec => []StopsInOrder
<1>1. LifeInv => Life!ListensWithWorkers
  BY DEF LifeInv, Life!TypeOK, Life!Phases, Started, Stopped, Idle, Life!ListensWithWorkers
<1>2. LifeInv => StopsInOrder
  BY <1>1, LifeInvClosesLast DEF StopsInOrder
<1> QED
  BY LifeInvariance, <1>2, PTL

\* A process whose exit reports success has left nothing undone.
THEOREM SuccessIsTidy == DeploymentSpec => []EndsTidily
<1>1. LifeInv => EndsTidily
  BY DEF LifeInv, Exited, EndsTidily, Life!EndsTidily
<1> QED
  BY LifeInvariance, <1>1, PTL
=============================================================================
