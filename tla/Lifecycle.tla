------------------------------ MODULE Lifecycle ------------------------------
(***************************************************************************)
(* The start and the stop of one process of cmd/api: the connection pool,  *)
(* the workers and the HTTP server, with the hooks each appends to the     *)
(* lifecycle of Fx.                                                        *)
(*                                                                         *)
(* Fx is external: it runs OnStart in the order of the hooks and OnStop in *)
(* the reverse order, from the last hook that started; it begins no hook   *)
(* once the context is over, and waits for none beyond it.                 *)
(***************************************************************************)
EXTENDS FiniteSets

CONSTANTS
  Workers,        \* the three of NewManager
  Requests        \* HTTP requests that may come

VARIABLES
  phase,          \* of fx.App.Run
  step,           \* the hook that is to be started or stopped next
  expired,        \* whether the context of this phase is over
  failed,         \* whether an OnStop hook returned an error
  code,           \* how the process ended
  pool,           \* the pgxpool
  running,        \* the workers whose Run has not returned
  cancelled,      \* their context
  listening,      \* the HTTP server's listener
  active          \* the requests it is serving

app == <<phase, step, expired, failed, code>>
parts == <<pool, running, cancelled, listening, active>>
vars == <<app, parts>>

Phases == {"opening", "starting", "serving", "stopping", "exited"}

\* A step of a hook's OnStop: to be called, or called and not back yet.
Steps == {"none", "workers", "http", "stop http", "stopping http", "stop workers",
          "stopping workers", "stop pool", "stopping pool", "stopped"}

\* Every variable has its type, and a process that serves has all its parts.
TypeOK ==
  /\ phase \in Phases /\ step \in Steps
  /\ expired \in BOOLEAN /\ failed \in BOOLEAN
  /\ code \in {"", "done", "error", "killed"}
  /\ pool \in {"none", "open", "closing", "closed"}
  /\ running \subseteq Workers /\ active \subseteq Requests
  /\ cancelled \in BOOLEAN /\ listening \in BOOLEAN
  /\ phase = "serving" => pool = "open" /\ running = Workers /\ listening

-----------------------------------------------------------------------------
\* Starting.

\* openPool, while the application is put together.
OpenPool ==
  /\ phase = "opening"
  /\ phase' = "starting" /\ step' = "workers" /\ pool' = "open"
  /\ UNCHANGED <<expired, failed, code, running, cancelled, listening, active>>

Exit(c) == phase' = "exited" /\ code' = c

OpenFails ==
  /\ phase = "opening"
  /\ Exit("error")
  /\ UNCHANGED <<step, expired, failed, parts>>

\* Register.OnStart, when the three queues have answered.
StartWorkers ==
  /\ phase = "starting" /\ step = "workers"
  /\ running' = Workers /\ step' = "http"
  /\ UNCHANGED <<phase, expired, failed, code, pool, cancelled, listening, active>>

\* startHTTP.OnStart, when the keys of the identity provider are there.
StartHTTP ==
  /\ phase = "starting" /\ step = "http"
  /\ listening' = TRUE
  /\ phase' = "serving" /\ step' = "none"
  /\ UNCHANGED <<expired, failed, code, pool, running, cancelled, active>>

\* The address is taken: what has started is stopped again.
ListenFails ==
  /\ phase = "starting" /\ step = "http"
  /\ phase' = "stopping" /\ step' = "stop workers" /\ failed' = TRUE
  /\ UNCHANGED <<expired, code, parts>>

\* Ninety seconds are over: nothing that has started is stopped.
StartExpires ==
  /\ phase = "starting"
  /\ Exit("error") /\ expired' = TRUE
  /\ UNCHANGED <<step, failed, parts>>

-----------------------------------------------------------------------------
\* Serving.

Serve(r) ==
  /\ listening /\ phase # "exited"
  /\ active' = active \cup {r}
  /\ UNCHANGED <<app, pool, running, cancelled, listening>>

Respond(r) ==
  /\ r \in active /\ phase # "exited"
  /\ active' = active \ {r}
  /\ UNCHANGED <<app, pool, running, cancelled, listening>>

\* Signal if the HTTP server had been registered before the workers.
SignalWorkersFirst ==
  /\ phase = "serving"
  /\ phase' = "stopping" /\ step' = "stop workers"
  /\ UNCHANGED <<expired, failed, code, parts>>

\* SIGTERM or SIGINT.
Signal ==
  /\ phase = "serving"
  /\ phase' = "stopping" /\ step' = "stop http"
  /\ UNCHANGED <<expired, failed, code, parts>>

-----------------------------------------------------------------------------
\* Stopping.

\* Fx calls the next OnStop.
Call(from, to) ==
  /\ phase = "stopping" /\ step = from /\ ~expired
  /\ step' = to
  /\ UNCHANGED <<phase, expired, failed, code>>

\* An OnStop returns, with the error of its context if it did not get to its end.
Return(from, to, complete) ==
  /\ phase = "stopping" /\ step = from
  /\ complete \/ expired
  /\ step' = to /\ failed' = (failed \/ ~complete)
  /\ UNCHANGED <<phase, expired, code, parts>>

\* ShutdownHTTP leaving the listener open.
ShutdownHTTPLater ==
  Call("stop http", "stopping http") /\ UNCHANGED parts

\* http.Server.Shutdown closes the listener, then waits for the requests.
ShutdownHTTP ==
  /\ Call("stop http", "stopping http")
  /\ listening' = FALSE
  /\ UNCHANGED <<pool, running, cancelled, active>>

HTTPIsDown == Return("stopping http", "stop workers", active = {})

\* Register.OnStop: cancel, then wait for the workers.
CancelWorkers ==
  /\ Call("stop workers", "stopping workers")
  /\ cancelled' = TRUE
  /\ UNCHANGED <<pool, running, listening, active>>

\* WorkersAreDone if the pool had no OnStop.
WorkersAreLast == Return("stopping workers", "stopped", running = {})

WorkersAreDone == Return("stopping workers", "stop pool", running = {})

\* A worker returns from Run when its context is cancelled and its call is over.
WorkerReturns(w) ==
  /\ cancelled /\ w \in running /\ phase # "exited"
  /\ running' = running \ {w}
  /\ UNCHANGED <<app, pool, cancelled, listening, active>>

\* pgxpool.Close refuses new uses and waits for those that are going on; it is given no
\* context.
ClosePool ==
  /\ Call("stop pool", "stopping pool")
  /\ pool' = "closing"
  /\ UNCHANGED <<running, cancelled, listening, active>>

PoolIsClosed ==
  /\ phase = "stopping" /\ step = "stopping pool"
  /\ running = {} /\ active = {}
  /\ step' = "stopped" /\ pool' = "closed"
  /\ UNCHANGED <<phase, expired, failed, code, running, cancelled, listening, active>>

\* APP_SHUTDOWN_TIMEOUT, or what is left of the ninety seconds.
StopExpires ==
  /\ phase = "stopping" /\ ~expired
  /\ expired' = TRUE
  /\ UNCHANGED <<phase, step, failed, code, parts>>

\* The last hook is back, or Fx waits no longer.
ExitStopped ==
  /\ phase = "stopping"
  /\ step = "stopped" \/ expired
  /\ Exit(IF failed \/ step # "stopped" THEN "error" ELSE "done")
  /\ UNCHANGED <<step, expired, failed, parts>>

Kill ==
  /\ phase # "exited"
  /\ Exit("killed")
  /\ UNCHANGED <<step, expired, failed, parts>>

-----------------------------------------------------------------------------

Init ==
  /\ phase = "opening" /\ step = "none" /\ code = ""
  /\ expired = FALSE /\ failed = FALSE
  /\ pool = "none" /\ running = {} /\ cancelled = FALSE
  /\ listening = FALSE /\ active = {}

Start == OpenPool \/ OpenFails \/ StartWorkers \/ StartHTTP \/ ListenFails

Stop ==
  \/ ShutdownHTTP \/ HTTPIsDown
  \/ CancelWorkers \/ WorkersAreDone
  \/ ClosePool \/ PoolIsClosed
  \/ ExitStopped

Prompt ==
  \/ Start \/ Signal \/ Stop
  \/ \E r \in Requests : Serve(r) \/ Respond(r)
  \/ \E w \in Workers : WorkerReturns(w)

Next == Prompt \/ StartExpires \/ StopExpires \/ Kill

Spec == Init /\ [][Next]_vars

-----------------------------------------------------------------------------

\* The pool is closed after the workers and the requests, whatever hangs, expires or
\* fails to start.
PoolClosesLast == pool \in {"closing", "closed"} => running = {} /\ active = {} /\ ~listening

\* A process whose exit reports success has left nothing undone, and so has one that
\* gave up its start in time.
EndsTidily ==
  code = "done" \/ (code = "error" /\ ~expired) =>
    running = {} /\ active = {} /\ pool \in {"none", "closed"}

\* The listener is open only while the workers are at work: no request that leaves
\* something to the outbox or to the resolver comes to a process that has stopped them.
ListensWithWorkers == listening /\ phase # "exited" => running = Workers /\ ~cancelled
=============================================================================
