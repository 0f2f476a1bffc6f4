----------------------------- MODULE Lifecycle -----------------------------
(***************************************************************************)
(* Start and stop of one process: the hooks registered with Fx, run in     *)
(* order at start and in reverse at stop (external), the HTTP server, the  *)
(* three loops (awssqs/consumer.go, awssqs/publisher.go,                   *)
(* workers/pending_reference.go) and the connection pool they share.       *)
(* A unit of work is what goes on while a connection is held.              *)
(***************************************************************************)
EXTENDS Naturals, Sequences, FiniteSets

CONSTANTS
  Requests,         \* HTTP calls that may be in progress at once
  Enabled,          \* the loops the configuration enables
  MaxConns,         \* POSTGRES_MAX_CONNS
  ShutdownTimeout,  \* HTTP_SHUTDOWN_TIMEOUT, in ticks
  StopTimeout       \* what Fx allows all the stop hooks together

Loops == {"consumer", "publisher", "worker"}

ASSUME LifecycleAssumption ==
  /\ Enabled \subseteq Loops /\ Requests \cap Loops = {}
  /\ MaxConns \in Nat \ {0}
  /\ ShutdownTimeout \in Nat /\ StopTimeout \in Nat

VARIABLES
  phase,      \* "starting", "running", "stopping", "exited"
  at,         \* hooks started; while stopping, the hook that is being stopped
  elapsed,    \* ticks since the stop began
  listening,  \* the listener is open
  request,    \* request[r]: "none", "handler", "unit", "answered", "refused", "cut"
  loop,       \* loop[l]: "off", "top", "batch", "unit", "waiting"
  cancelled,  \* the loops whose context Stop has cancelled
  pool        \* "open", "closing", "closed"

vars == <<phase, at, elapsed, listening, request, loop, cancelled, pool>>

\* Fx builds what the first invoked module needs before it: the pool, the
\* consumer and the publisher, then the worker, then the server.
HooksPoolLate == <<"consumer", "publisher", "pool", "worker", "http">>
Hooks == <<"pool", "consumer", "publisher", "worker", "http">>
HookCount == Len(Hooks)

TypeOK ==
  /\ phase \in {"starting", "running", "stopping", "exited"}
  /\ at \in 0..HookCount
  /\ elapsed \in 0..StopTimeout
  /\ listening \in BOOLEAN
  /\ request \in [Requests -> {"none", "handler", "unit", "answered", "refused", "cut"}]
  /\ loop \in [Loops -> {"off", "top", "batch", "unit", "waiting"}]
  /\ cancelled \subseteq Loops
  /\ pool \in {"open", "closing", "closed"}

Init ==
  /\ phase = "starting" /\ at = 0
  /\ elapsed = 0
  /\ listening = FALSE
  /\ request = [r \in Requests |-> "none"]
  /\ loop = [l \in Loops |-> "off"]
  /\ cancelled = {}
  /\ pool = "open"

Active == {r \in Requests : request[r] \in {"handler", "unit"}}
Holders == {r \in Requests : request[r] = "unit"} \cup {l \in Loops : loop[l] = "unit"}
Acquirable == pool = "open" /\ Cardinality(Holders) < MaxConns

work == <<request, loop>>

-----------------------------------------------------------------------------
(* Start.                                                                  *)

StartHook ==
  /\ phase = "starting"
  /\ at' = at + 1
  /\ phase' = IF at + 1 = HookCount THEN "running" ELSE phase
  /\ loop' = [l \in Loops |-> IF Hooks[at + 1] = l /\ l \in Enabled THEN "top" ELSE loop[l]]
  /\ listening' = (Hooks[at + 1] = "http")
  /\ UNCHANGED <<elapsed, request, cancelled, pool>>

\* The port is taken: the hooks started so far are stopped again.
ListenFails ==
  /\ phase = "starting" /\ Hooks[at + 1] = "http"
  /\ phase' = "stopping"
  /\ UNCHANGED <<at, elapsed, listening, work, cancelled, pool>>

-----------------------------------------------------------------------------
(* HTTP calls.                                                             *)

Accept(r) ==
  /\ listening /\ request[r] \in {"none", "answered"}
  /\ request' = [request EXCEPT ![r] = "handler"]
  /\ UNCHANGED <<phase, at, elapsed, listening, loop, cancelled, pool>>

\* The handler begins a unit of work; a pool that is closed refuses it.
BeginRequest(r) ==
  /\ phase # "exited" /\ request[r] = "handler"
  /\ \/ Acquirable /\ request' = [request EXCEPT ![r] = "unit"]
     \/ pool # "open" /\ request' = [request EXCEPT ![r] = "refused"]
  /\ UNCHANGED <<phase, at, elapsed, listening, loop, cancelled, pool>>

\* The unit is committed or rolled back, and the call answered.
EndRequest(r) ==
  /\ phase # "exited" /\ request[r] = "unit"
  /\ request' = [request EXCEPT ![r] = "answered"]
  /\ UNCHANGED <<phase, at, elapsed, listening, loop, cancelled, pool>>

\* A call that needs no unit of work: it is not authorised, or malformed.
AnswerAtOnce(r) ==
  /\ phase # "exited" /\ request[r] = "handler"
  /\ request' = [request EXCEPT ![r] = "answered"]
  /\ UNCHANGED <<phase, at, elapsed, listening, loop, cancelled, pool>>

-----------------------------------------------------------------------------
(* The loops.                                                              *)

\* What a loop learns from ctx.Err() and ctx.Done().
NeverNoticed(l) == FALSE
Noticed(l) == l \in cancelled

LoopGoes(l, from, to) ==
  /\ phase # "exited" /\ loop[l] = from
  /\ loop' = [loop EXCEPT ![l] = to]
  /\ UNCHANGED <<phase, at, elapsed, listening, request, cancelled, pool>>

\* The top of the loop: it ends, or claims or receives a batch.
LoopTop(l) ==
  IF Noticed(l) THEN LoopGoes(l, "top", "off") ELSE LoopGoes(l, "top", "batch")

\* The next unit of the batch; a cancelled context or a closed pool fails it,
\* as it fails the rest of the batch.
BeginLoopUnit(l) == Acquirable /\ ~ Noticed(l) /\ LoopGoes(l, "batch", "unit")

\* The unit is committed or rolled back, the latter also when its context is
\* cancelled under it.
EndLoopUnit(l) == LoopGoes(l, "unit", "batch")

\* The batch is done: go on at once, or after the poll interval.
EndBatch(l) == LoopGoes(l, "batch", "top") \/ LoopGoes(l, "batch", "waiting")
EndWait(l) ==
  IF Noticed(l) THEN LoopGoes(l, "waiting", "off") ELSE LoopGoes(l, "waiting", "top")

-----------------------------------------------------------------------------
(* Stop.                                                                   *)

Sigterm ==
  /\ phase = "running"
  /\ phase' = "stopping"
  /\ UNCHANGED <<at, elapsed, listening, work, cancelled, pool>>

Tick ==
  /\ phase = "stopping" /\ elapsed < StopTimeout
  /\ elapsed' = elapsed + 1
  /\ UNCHANGED <<phase, at, listening, work, cancelled, pool>>

Stopping(hook) == phase = "stopping" /\ at > 0 /\ Hooks[at] = hook

\* Server.Stop closes the listener and waits for the calls in progress, under
\* a timeout of its own that Fx's context does not end.
CloseListener ==
  /\ Stopping("http") /\ listening
  /\ listening' = FALSE
  /\ UNCHANGED <<phase, at, elapsed, work, cancelled, pool>>
DrainedAtOnce == TRUE
Drained == Active = {} \/ elapsed >= ShutdownTimeout
HttpStopped ==
  /\ Stopping("http") /\ ~ listening /\ Drained
  /\ at' = at - 1
  /\ UNCHANGED <<phase, elapsed, listening, work, cancelled, pool>>

\* Stop of a loop: cancel its context, then wait until it has ended.
CancelLoop(l) ==
  /\ Stopping(l) /\ loop[l] # "off" /\ l \notin cancelled
  /\ cancelled' = cancelled \cup {l}
  /\ UNCHANGED <<phase, at, elapsed, listening, work, pool>>
LoopStopped(l) ==
  /\ Stopping(l) /\ loop[l] = "off"
  /\ at' = at - 1
  /\ UNCHANGED <<phase, elapsed, listening, work, cancelled, pool>>

\* pool.Close: no more connections, then wait for those that are held.
ClosePool ==
  /\ Stopping("pool") /\ pool = "open"
  /\ pool' = "closing"
  /\ UNCHANGED <<phase, at, elapsed, listening, work, cancelled>>
PoolClosed ==
  /\ Stopping("pool") /\ pool = "closing" /\ Holders = {}
  /\ pool' = "closed"
  /\ at' = at - 1
  /\ UNCHANGED <<phase, elapsed, listening, work, cancelled>>

\* The process ends once every hook has been stopped or Fx runs out of time.
\* What still went on is cut off, its unit of work rolled back.
Exit ==
  /\ phase = "stopping" /\ (at = 0 \/ elapsed = StopTimeout)
  /\ phase' = "exited"
  /\ listening' = FALSE
  /\ request' = [r \in Requests |-> IF r \in Active THEN "cut" ELSE request[r]]
  /\ loop' = [l \in Loops |-> "off"]
  /\ UNCHANGED <<at, elapsed, cancelled, pool>>

StopStep ==
  \/ CloseListener \/ HttpStopped
  \/ \E l \in Loops : CancelLoop(l) \/ LoopStopped(l)
  \/ ClosePool \/ PoolClosed \/ Exit

RequestStep(r) == BeginRequest(r) \/ EndRequest(r)
LoopStep(l) == LoopTop(l) \/ BeginLoopUnit(l) \/ EndLoopUnit(l) \/ EndBatch(l) \/ EndWait(l)

Next ==
  \/ StartHook \/ ListenFails \/ Sigterm \/ Tick
  \/ \E r \in Requests : Accept(r) \/ RequestStep(r) \/ AnswerAtOnce(r)
  \/ \E l \in Loops : LoopStep(l)
  \/ StopStep

Spec == Init /\ [][Next]_vars

\* Goroutines run, units of work end, and connections are handed out in the
\* order they were asked for.  Nothing is assumed of the clock.
Fairness ==
  /\ WF_vars(StopStep)
  /\ \A r \in Requests : SF_vars(RequestStep(r))
  /\ \A l \in Loops : WF_vars(LoopStep(l))
FairSpec == Spec /\ Fairness

-----------------------------------------------------------------------------
(* Correctness.                                                            *)

\* The pool begins to close only after every loop has ended, and after every
\* HTTP call unless the server's own timeout ran out (app.go: connections close
\* after the components that use them).
PoolClosesLast ==
  pool # "open" =>
    /\ \A l \in Loops : loop[l] = "off"
    /\ Active # {} => elapsed >= ShutdownTimeout

\* A call that was accepted is refused its unit of work, or cut off, only when
\* the time to drain is over (ADR-011: the HTTP server is drained).
OnlyTimeCutsCalls ==
  \A r \in Requests : request[r] \in {"refused", "cut"} =>
    elapsed >= ShutdownTimeout \/ elapsed >= StopTimeout

\* The stop needs no timeout: every loop notices that it is cancelled, wherever
\* it stands, and the process ends although the clock stands still.
StopEndsByItself == phase = "stopping" ~> phase = "exited"
=============================================================================
