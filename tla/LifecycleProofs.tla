-------------------------- MODULE LifecycleProofs --------------------------
(***************************************************************************)
(* Start and stop of a process, for any number of calls and connections,   *)
(* any enabled loops and any timeouts: the pool closes last, and a call is *)
(* dropped only when the time to drain is over.                            *)
(***************************************************************************)
EXTENDS Lifecycle, TLAPS

\* A loop runs only between its start and its stop.
LoopsFollowHooks ==
  \A i \in 1..5 : at < i /\ Hooks[i] \in Loops => loop[Hooks[i]] = "off"

\* Calls are accepted only while the server's hook is started, and once it is
\* stopped none is in progress unless its timeout ran out.
CallsFollowServer ==
  /\ listening => at = 5 /\ phase \in {"running", "stopping"}
  /\ phase = "running" => at = 5
  /\ phase = "starting" => at < 5 /\ Active = {}
  /\ at < 5 /\ Active # {} => elapsed >= ShutdownTimeout

\* The pool's hook is the last to be stopped.
PoolFollowsHooks == pool # "open" => at <= 1 /\ phase \in {"stopping", "exited"}

StopInvariant ==
  TypeOK /\ LoopsFollowHooks /\ CallsFollowServer /\ PoolFollowsHooks /\ OnlyTimeCutsCalls

-----------------------------------------------------------------------------

\* The hooks, one by one.
LEMMA HookFacts ==
  /\ HookCount = 5
  /\ Hooks[1] = "pool" /\ Hooks[2] = "consumer" /\ Hooks[3] = "publisher"
  /\ Hooks[4] = "worker" /\ Hooks[5] = "http"
BY DEF Hooks, HookCount

\* A process starts in a state of the invariant.
LEMMA StopInvariantInit == Init => StopInvariant
<1> SUFFICES ASSUME Init PROVE StopInvariant
  OBVIOUS
<1>1. TypeOK
  <2>1. 0 \in 0..HookCount /\ 0 \in 0..StopTimeout
    BY HookFacts, LifecycleAssumption
  <2>2. cancelled \subseteq Loops
    BY DEF Init
  <2>3. QED BY <2>1, <2>2 DEF Init, TypeOK
<1>2. LoopsFollowHooks /\ PoolFollowsHooks /\ OnlyTimeCutsCalls
  BY DEF Init, LoopsFollowHooks, PoolFollowsHooks, OnlyTimeCutsCalls
<1>3. CallsFollowServer
  BY DEF Init, CallsFollowServer, Active
<1>4. QED BY <1>1, <1>2, <1>3 DEF StopInvariant

\* Starting a hook, or failing to.
LEMMA StartKeeps ==
  ASSUME StopInvariant, StartHook \/ ListenFails
  PROVE  StopInvariant'
<1> USE HookFacts, LifecycleAssumption
<1>1. CASE StartHook
  <2>1. phase = "starting" /\ at \in 0..5 /\ Active = {} /\ pool = "open"
    BY <1>1 DEF StartHook, StopInvariant, TypeOK, CallsFollowServer, PoolFollowsHooks
  <2>2. at < 5
    BY <1>1, <2>1 DEF StartHook, StopInvariant, TypeOK, CallsFollowServer
  <2>3. TypeOK'
    BY <1>1, <2>1, <2>2 DEF StartHook, StopInvariant, TypeOK
  <2>4. LoopsFollowHooks'
    BY <1>1, <2>1, <2>2 DEF StartHook, StopInvariant, TypeOK, LoopsFollowHooks, Loops
  <2>5. CallsFollowServer'
    BY <1>1, <2>1, <2>2 DEF StartHook, StopInvariant, TypeOK, CallsFollowServer, Active
  <2>6. PoolFollowsHooks' /\ OnlyTimeCutsCalls'
    BY <1>1, <2>1 DEF StartHook, StopInvariant, PoolFollowsHooks, OnlyTimeCutsCalls
  <2>7. QED BY <2>3, <2>4, <2>5, <2>6 DEF StopInvariant
<1>2. CASE ListenFails
  BY <1>2 DEF ListenFails, work, StopInvariant, TypeOK, LoopsFollowHooks, CallsFollowServer,
     PoolFollowsHooks, OnlyTimeCutsCalls, Active
<1>3. QED BY <1>1, <1>2

\* Calls.
LEMMA CallsKeep ==
  ASSUME StopInvariant, NEW r \in Requests, Accept(r) \/ RequestStep(r) \/ AnswerAtOnce(r)
  PROVE  StopInvariant'
<1> USE LifecycleAssumption
<1>1. /\ UNCHANGED <<phase, at, elapsed, listening, loop, cancelled, pool>>
      /\ request' \in [Requests -> {"none", "handler", "unit", "answered", "refused", "cut"}]
  BY DEF Accept, RequestStep, BeginRequest, EndRequest, AnswerAtOnce, StopInvariant, TypeOK
<1>2. TypeOK' /\ LoopsFollowHooks' /\ PoolFollowsHooks'
  BY <1>1 DEF StopInvariant, TypeOK, LoopsFollowHooks, PoolFollowsHooks
<1>3. CASE Accept(r)
  <2>1. at = 5 /\ phase \in {"running", "stopping"}
    BY <1>3 DEF Accept, StopInvariant, CallsFollowServer
  <2>2. CallsFollowServer'
    BY <1>1, <2>1 DEF StopInvariant, CallsFollowServer
  <2>3. OnlyTimeCutsCalls'
    BY <1>1, <1>3 DEF Accept, StopInvariant, TypeOK, OnlyTimeCutsCalls
  <2>4. QED BY <1>2, <2>2, <2>3 DEF StopInvariant
<1>4. CASE RequestStep(r) \/ AnswerAtOnce(r)
  <2>1. r \in Active
    BY <1>4 DEF RequestStep, BeginRequest, EndRequest, AnswerAtOnce, Active
  <2>2. Active' \subseteq Active
    BY <1>4 DEF RequestStep, BeginRequest, EndRequest, AnswerAtOnce, Active, StopInvariant, TypeOK
  <2>3. CallsFollowServer'
    BY <1>1, <2>1, <2>2 DEF StopInvariant, CallsFollowServer
  <2>4. request'[r] = "refused" => elapsed >= ShutdownTimeout
    BY <1>4, <2>1 DEF RequestStep, BeginRequest, EndRequest, AnswerAtOnce, StopInvariant, TypeOK,
       PoolFollowsHooks, CallsFollowServer
  <2>5. request'[r] # "cut" /\ \A q \in Requests \ {r} : request'[q] = request[q]
    BY <1>4 DEF RequestStep, BeginRequest, EndRequest, AnswerAtOnce, StopInvariant, TypeOK
  <2>6. OnlyTimeCutsCalls'
    BY <1>1, <2>4, <2>5 DEF StopInvariant, OnlyTimeCutsCalls
  <2>7. QED BY <1>2, <2>3, <2>6 DEF StopInvariant
<1>5. QED BY <1>3, <1>4

\* A loop moves only while it runs.
LEMMA LoopsKeep ==
  ASSUME StopInvariant, NEW l \in Loops, LoopStep(l)
  PROVE  StopInvariant'
<1> USE LifecycleAssumption
<1>1. PICK from \in {"top", "batch", "unit", "waiting"},
           to \in {"off", "top", "batch", "unit", "waiting"} : LoopGoes(l, from, to)
  BY DEF LoopStep, LoopTop, BeginLoopUnit, EndLoopUnit, EndBatch, EndWait
<1>2. /\ UNCHANGED <<phase, at, elapsed, listening, request, cancelled, pool>>
      /\ loop[l] # "off" /\ loop' = [loop EXCEPT ![l] = to]
  BY <1>1 DEF LoopGoes
<1>3. TypeOK' /\ LoopsFollowHooks'
  BY <1>2 DEF StopInvariant, TypeOK, LoopsFollowHooks
<1>4. CallsFollowServer' /\ PoolFollowsHooks' /\ OnlyTimeCutsCalls'
  BY <1>2 DEF StopInvariant, CallsFollowServer, PoolFollowsHooks, OnlyTimeCutsCalls, Active
<1>5. QED BY <1>3, <1>4 DEF StopInvariant

\* The signal, the clock, and the steps of the stop.
LEMMA StopKeeps ==
  ASSUME StopInvariant, Sigterm \/ Tick \/ StopStep
  PROVE  StopInvariant'
<1> USE HookFacts, LifecycleAssumption
<1>1. CASE Sigterm
  BY <1>1 DEF Sigterm, work, StopInvariant, TypeOK, LoopsFollowHooks, CallsFollowServer,
     PoolFollowsHooks, OnlyTimeCutsCalls, Active
<1>2. CASE Tick
  BY <1>2 DEF Tick, work, StopInvariant, TypeOK, LoopsFollowHooks, CallsFollowServer,
     PoolFollowsHooks, OnlyTimeCutsCalls, Active
<1>3. CASE CloseListener
  BY <1>3 DEF CloseListener, work, StopInvariant, TypeOK, LoopsFollowHooks, CallsFollowServer,
     PoolFollowsHooks, OnlyTimeCutsCalls, Active
<1>4. CASE HttpStopped
  <2>1. at = 5 /\ ~ listening /\ at' = 4 /\ (Active # {} => elapsed >= ShutdownTimeout)
    BY <1>4 DEF HttpStopped, Stopping, Drained, StopInvariant, TypeOK
  <2>2. UNCHANGED <<phase, elapsed, listening, request, loop, cancelled, pool>> /\ phase = "stopping"
    BY <1>4 DEF HttpStopped, work, Stopping
  <2>3. LoopsFollowHooks'
    BY <2>1, <2>2 DEF LoopsFollowHooks, Loops
  <2>4. QED BY <2>1, <2>2, <2>3 DEF StopInvariant, TypeOK, CallsFollowServer, PoolFollowsHooks,
               OnlyTimeCutsCalls, Active
<1>5. ASSUME NEW l \in Loops, CancelLoop(l) PROVE StopInvariant'
  BY <1>5 DEF CancelLoop, work, StopInvariant, TypeOK, LoopsFollowHooks, CallsFollowServer,
     PoolFollowsHooks, OnlyTimeCutsCalls, Active
<1>6. ASSUME NEW l \in Loops, LoopStopped(l) PROVE StopInvariant'
  <2>1. /\ at \in 2..4 /\ Hooks[at] = l /\ loop[l] = "off" /\ at' = at - 1 /\ phase = "stopping"
        /\ UNCHANGED <<phase, elapsed, listening, request, loop, cancelled, pool>>
    BY <1>6 DEF LoopStopped, Stopping, work, Loops, StopInvariant, TypeOK
  <2>2. LoopsFollowHooks'
    BY <2>1 DEF StopInvariant, LoopsFollowHooks
  <2>3. ~ listening /\ pool = "open"
    BY <2>1 DEF StopInvariant, CallsFollowServer, PoolFollowsHooks
  <2>4. QED BY <2>1, <2>2, <2>3 DEF StopInvariant, TypeOK, CallsFollowServer, PoolFollowsHooks,
               OnlyTimeCutsCalls, Active
<1>7. CASE ClosePool
  BY <1>7 DEF ClosePool, Stopping, work, StopInvariant, TypeOK, LoopsFollowHooks, CallsFollowServer,
     PoolFollowsHooks, OnlyTimeCutsCalls, Active
<1>8. CASE PoolClosed
  <2>1. /\ at = 1 /\ at' = 0 /\ pool # "open" /\ pool' = "closed" /\ phase = "stopping"
        /\ UNCHANGED <<phase, elapsed, listening, request, loop, cancelled>>
    BY <1>8 DEF PoolClosed, Stopping, work, StopInvariant, TypeOK
  <2>2. LoopsFollowHooks'
    BY <2>1 DEF StopInvariant, LoopsFollowHooks, Loops
  <2>3. QED BY <2>1, <2>2 DEF StopInvariant, TypeOK, CallsFollowServer, PoolFollowsHooks,
               OnlyTimeCutsCalls, Active
<1>9. CASE Exit
  <2>1. /\ phase' = "exited" /\ listening' = FALSE /\ UNCHANGED <<at, elapsed, cancelled, pool>>
        /\ loop' = [l \in Loops |-> "off"]
        /\ request' = [r \in Requests |-> IF r \in Active THEN "cut" ELSE request[r]]
        /\ phase = "stopping" /\ (at = 0 \/ elapsed = StopTimeout)
    BY <1>9 DEF Exit
  <2>2. Active' = {}
    BY <2>1 DEF Active
  <2>3. TypeOK' /\ LoopsFollowHooks' /\ PoolFollowsHooks'
    BY <2>1 DEF StopInvariant, TypeOK, LoopsFollowHooks, PoolFollowsHooks
  <2>4. CallsFollowServer'
    BY <2>1, <2>2 DEF CallsFollowServer
  <2>5. Active # {} => elapsed >= ShutdownTimeout \/ elapsed >= StopTimeout
    BY <2>1 DEF StopInvariant, TypeOK, CallsFollowServer
  <2>6. OnlyTimeCutsCalls'
    BY <2>1, <2>5 DEF StopInvariant, OnlyTimeCutsCalls
  <2>7. QED BY <2>3, <2>4, <2>6 DEF StopInvariant
<1>10. QED
  BY <1>1, <1>2, <1>3, <1>4, <1>5, <1>6, <1>7, <1>8, <1>9 DEF StopStep

\* Every step keeps the invariant.
LEMMA StopInvariantNext == StopInvariant /\ [Next]_vars => StopInvariant'
<1> SUFFICES ASSUME StopInvariant, [Next]_vars PROVE StopInvariant'
  OBVIOUS
<1>1. CASE UNCHANGED vars
  BY <1>1 DEF vars, StopInvariant, TypeOK, LoopsFollowHooks, CallsFollowServer, PoolFollowsHooks,
     OnlyTimeCutsCalls, Active
<1>2. QED BY <1>1, StartKeeps, CallsKeep, LoopsKeep, StopKeeps DEF Next

\* The variables of the process always have their types.
THEOREM LifecycleTypeCorrect == Spec => []TypeOK
BY StopInvariantInit, StopInvariantNext, PTL DEF Spec, StopInvariant

\* The pool closes after every loop, and after every call the server waited for.
THEOREM PoolClosesLastHolds == Spec => []PoolClosesLast
<1>1. StopInvariant => PoolClosesLast
  <2> SUFFICES ASSUME StopInvariant, pool # "open"
               PROVE  (\A l \in Loops : loop[l] = "off") /\ (Active # {} => elapsed >= ShutdownTimeout)
    BY DEF PoolClosesLast
  <2>1. at <= 1 /\ at \in 0..5
    BY HookFacts DEF StopInvariant, PoolFollowsHooks, TypeOK
  <2>2. \A l \in Loops : loop[l] = "off"
    BY <2>1, HookFacts DEF StopInvariant, LoopsFollowHooks, Loops
  <2>3. QED BY <2>1, <2>2 DEF StopInvariant, CallsFollowServer
<1>2. QED BY <1>1, StopInvariantInit, StopInvariantNext, PTL DEF Spec

\* A call is refused or cut off only when the time to drain is over.
THEOREM OnlyTimeCutsCallsHolds == Spec => []OnlyTimeCutsCalls
BY StopInvariantInit, StopInvariantNext, PTL DEF Spec, StopInvariant

\* With the default timeouts, where Fx runs out of time before the server does,
\* no call ever outlives the pool: the process ends first.
THEOREM NoCallOutlivesThePool ==
  ASSUME ShutdownTimeout > StopTimeout
  PROVE  Spec => [](pool # "open" => Active = {})
<1>1. StopInvariant => (pool # "open" => Active = {})
  BY LifecycleAssumption DEF StopInvariant, TypeOK, PoolFollowsHooks, CallsFollowServer
<1>2. QED BY <1>1, StopInvariantInit, StopInvariantNext, PTL DEF Spec
=============================================================================
