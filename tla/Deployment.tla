----------------------------- MODULE Deployment -----------------------------
(***************************************************************************)
(* The deployment of compose.yaml: the container that runs the migrations, *)
(* and then one process of the service, which is launched when that        *)
(* container has exited with 0.                                            *)
(*                                                                         *)
(* Operators run migrations of their own, of either direction, before the  *)
(* launch and beside the service.  Any run of up may be the container's.   *)
(***************************************************************************)
EXTENDS Migrate

CONSTANTS Workers, Requests

VARIABLES
  migrated,       \* whether the container of the migrations exited with 0
  launched,       \* whether the service was started
  reverted,       \* history: the files reverted since then
  phase, step, expired, failed, code, pool, running, cancelled, listening, active

Life == INSTANCE Lifecycle

life == <<phase, step, expired, failed, code, pool, running, cancelled, listening, active>>
deployment == <<migrated, launched, reverted>>
all == <<vars, deployment, life>>

\* Every variable of the deployment has its type.
DeploymentTypeOK ==
  /\ TypeOK /\ Life!TypeOK
  /\ migrated \in BOOLEAN /\ launched \in BOOLEAN /\ reverted \subseteq Versions

-----------------------------------------------------------------------------

\* A run of up comes to its end, or dies before it exits.  An unlock that fails is ignored.
Succeeds == \E r \in Runners : direction[r] = "up" /\ Through(r) /\ pc'[r] = "idle"

\* A step of a migration, perhaps the exit of the container.
Migrating(A) ==
  /\ A
  /\ migrated' \in {migrated, migrated \/ Succeeds}
  /\ reverted' = IF migrated THEN reverted \cup (schema \ schema') ELSE reverted
  /\ UNCHANGED <<launched, life>>

\* Launch with the condition service_started.
LaunchAtOnce ==
  /\ ~launched
  /\ launched' = TRUE
  /\ UNCHANGED <<vars, migrated, reverted, life>>

\* depends_on: migrate: condition: service_completed_successfully.
Launch ==
  /\ ~launched /\ migrated
  /\ launched' = TRUE
  /\ UNCHANGED <<vars, migrated, reverted, life>>

Serving(A) == launched /\ A /\ UNCHANGED <<vars, deployment>>

DeploymentInit ==
  Init /\ Life!Init /\ migrated = FALSE /\ launched = FALSE /\ reverted = {}

DeploymentNext == Migrating(Next) \/ Launch \/ Serving(Life!Next)

DeploymentSpec == DeploymentInit /\ [][DeploymentNext]_all

\* A migration that has ended is run again, and the server ends lost sessions.
KeepsMigrating ==
  \A r \in Runners :
    /\ WF_all(Migrating(\E d \in Directions : Start(r, d)))
    /\ WF_all(Migrating(Work(r) \/ Misfit(r)))
    /\ SF_all(Migrating(Lock(r)))
    /\ WF_all(Migrating(SessionEnds(r)))

\* Fx goes on; handlers return; workers look at their context around every call.
KeepsServing ==
  /\ WF_all(Serving(Life!Stop))
  /\ \A r \in Requests : WF_all(Serving(Life!Respond(r)))
  /\ \A w \in Workers : WF_all(Serving(Life!WorkerReturns(w)))

\* From some time on nothing fails but files that do not fit, and no deadline passes.
FairDeploymentSpec ==
  /\ DeploymentSpec /\ KeepsMigrating /\ KeepsServing
  /\ <>[][Migrating(Calm) \/ Launch \/ Serving(Life!Prompt)]_all

-----------------------------------------------------------------------------

\* What the service was launched on is whole but for files somebody reverted after the
\* container had exited: what runs, waits or is lost beside the container takes nothing
\* from its work, even if a registration of an old database was cut short.
ServesOnWholeSchema == launched => Versions \ reverted \subseteq schema \cap registry

\* Runners of up come to the last file, unless the registration of an old database was
\* cut short.
UpReachesTheTop ==
  <>[](\A r \in Runners : direction[r] = "up") => <>(torn \/ registry = Versions)

\* The listener is closed before the workers are stopped, and the pool after the workers
\* and the requests, whatever hangs, expires or fails to start (see Lifecycle).
StopsInOrder == Life!ListensWithWorkers /\ Life!PoolClosesLast

\* A process whose exit reports success, or that gave up its start in time, has left
\* nothing undone.
EndsTidily == Life!EndsTidily

\* Once asked to stop, a process in which nothing hangs comes to its end without the help
\* of a deadline, although requests keep coming until the listener is closed.
StopsByItself == phase = "stopping" ~> phase = "exited"
=============================================================================
