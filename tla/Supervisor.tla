----------------------------- MODULE Supervisor -----------------------------
(***************************************************************************)
(* The service state machine of internal/supervisor: one goroutine owns    *)
(* the service status and runs the child program, while SCM control        *)
(* callbacks, the watcher of the child, asynchronous hooks and the child   *)
(* itself run beside it.                                                   *)
(*                                                                         *)
(* `pc` names the place in stateMachine.run (or in the function it called) *)
(* where the supervisor goroutine stands; `ret` is where it goes on after  *)
(* a synchronous hook.  A step of the goroutine ends where it waits, or    *)
(* before it reads restartAllowed again.  Durations appear as the number   *)
(* of select slices they take; RestartClock.tla has the clock.             *)
(***************************************************************************)
EXTENDS Throttle, Sequences, FiniteSets

CONSTANTS Process,               \* child processes, an identity is reused when
                                 \* nothing in the program refers to it any more
          NoProcess,             \* the nil process
          Controls,              \* the control codes the SCM sends
          Configs,               \* the configurations LoadConfig may return
          ConfiguredHooks,       \* the hooks with a command in the registry
          ExitActions,           \* the exit actions in the registry
          Faults,                \* which calls may fail, see AllFaults
          EventQueueCapacity,
          StatusReportInterval,  \* the longest select slice
          RestartRetrySleep,     \* the wait after a failed restart
          MaxInFlight,           \* bound: notifications in flight when the SCM sends
          MaxHooks               \* bound: asynchronous hooks running at a time

StopCodes == {"Stop", "Shutdown"}
Hooks == {"Start/Pre", "Stop/Pre", "Rotate/Pre",
          "Start/Post", "Exit/Post", "Rotate/Post", "Power"}

\* report: SetServiceStatus; load: LoadConfig; redirect: OpenRedirect;
\* start: StartProcess; wait: the watcher's Wait; tree: StopProcessTree;
\* hookTimeout: an asynchronous hook outlives HookThreadsDeadline.
AllFaults == {"report", "load", "redirect", "start", "wait", "tree", "hookTimeout"}

\* terminates: the stop method has the terminate stage, which AppStopMethodSkip masks.
Config == [threshold : Nat, restartDelay : Nat, redirected : BOOLEAN,
           terminates : BOOLEAN, killTree : BOOLEAN]

ASSUME SupervisorAssumption ==
    /\ NoProcess \notin Process
    /\ Controls \subseteq StopCodes \cup {"Continue", "Interrogate", "Rotate", "PowerEvent"}
    /\ Configs # {} /\ Configs \subseteq Config
    /\ ConfiguredHooks \subseteq Hooks
    /\ ExitActions # {} /\ ExitActions \subseteq {"Restart", "Ignore", "Exit", "Suicide"}
    /\ Faults \subseteq AllFaults
    /\ EventQueueCapacity \in Nat \ {0}
    /\ StatusReportInterval \in Nat \ {0}
    /\ RestartRetrySleep \in Nat \ {0}
    /\ MaxInFlight \in Nat
    /\ MaxHooks \in Nat

VARIABLES
    \* the supervisor goroutine
    pc, ret,
    hook,            \* the synchronous hook it waits for, or "none"
    config,          \* m.config (any member of Configs before it is loaded)
    count,           \* the throttle counter
    restarting,      \* a child has exited before
    waitState,       \* the state waitWithoutChild reports
    remaining,       \* slices left in a wait
    logged,          \* the last restart record since the last start attempt
    process,         \* m.process
    redirect,        \* m.redirect: "closed" or "open"
    stopHookRun,     \* m.stopHookRun
    outcome,         \* how run ended
    \* what it shares with the other actors
    restartAllowed,
    events, forwarders, done,
    status,          \* m.status.State
    scm,             \* the state the SCM holds
    \* the other actors
    handler,         \* the stop code a callback is about to enqueue, or "idle"
    running,         \* the processes that run
    watching,        \* processes whose watcher has not reported yet
    asyncHooks,      \* how many asynchronous hooks run
    lateStarts       \* history: starts since restartAllowed was cleared

flow    == <<pc, ret, hook>>
plan    == <<count, restarting, waitState, remaining, logged>>
kids    == <<process, running, watching, lateStarts>>
ending  == <<stopHookRun, outcome>>
reports == <<status, scm>>
queue   == <<events, forwarders, done>>
vars    == <<flow, config, plan, kids, redirect, ending, restartAllowed, queue,
             reports, handler, asyncHooks>>

control(c)      == [kind |-> "control", code |-> c]
exit(p, r)      == [kind |-> "exit", process |-> p, result |-> r]

\* What a watcher learned: that its process exited, or that Wait failed.
Results == {"exited", "waitFailed"}

Event == {control(c) : c \in Controls}
         \cup {exit(p, r) : p \in Process, r \in Results}

Q == INSTANCE EventQueue

PCs == {"boot", "load", "loop", "wait", "recheck", "open", "spawn", "startFailed",
        "startup", "healthy", "running", "stopping", "stopTree", "drain", "collect",
        "ignored", "suicide", "finish", "hook", "failed", "aborted", "unwind",
        "returned", "dead"}

States == {"Registered", "StartPending", "Paused", "Running", "StopPending",
           "Stopped", "Crashed"}

TypeOK == /\ pc \in PCs /\ ret \in PCs /\ hook \in Hooks \cup {"none"}
          /\ config \in Configs
          /\ count \in Nat /\ remaining \in Nat /\ restarting \in BOOLEAN
          /\ waitState \in {"Paused", "StartPending"}
          /\ logged \in {"none", "Throttled", "RestartDelay", "ResetThrottle"}
          /\ process \in Process \cup {NoProcess}
          /\ running \subseteq Process /\ watching \subseteq Process
          /\ redirect \in {"closed", "open"}
          /\ stopHookRun \in BOOLEAN
          /\ outcome \in {"none", "clean", "aborted", "failed"}
          /\ restartAllowed \in BOOLEAN
          /\ Q!TypeOK
          /\ status \in States /\ scm \in States
          /\ handler \in (StopCodes \cap Controls) \cup {"idle"}
          /\ asyncHooks \in Nat /\ lateStarts \in Nat

Init == /\ pc = "boot" /\ ret = "boot" /\ hook = "none"
        /\ config \in Configs
        /\ count = 0 /\ remaining = 0 /\ restarting = FALSE
        /\ waitState = "Paused" /\ logged = "none"
        /\ process = NoProcess /\ running = {} /\ watching = {}
        /\ redirect = "closed"
        /\ stopHookRun = FALSE /\ outcome = "none"
        /\ restartAllowed = TRUE
        /\ Q!Init
        /\ status = "Registered" /\ scm = "Registered"
        /\ handler = "idle"
        /\ asyncHooks = 0 /\ lateStarts = 0

-----------------------------------------------------------------------------
(* The calls the steps are made of.                                        *)

\* reportStable, reportPending, reportStopped: m.status is set before the SCM
\* is told, so it keeps the new state when the SCM refuses it.
Reported(s)     == status' = s /\ scm' = s
ReportFailed(s) == "report" \in Faults /\ status' = s /\ UNCHANGED scm
ReportIgnored(s) == Reported(s) \/ ReportFailed(s)

\* reportProgress and Interrogate send the current status again.
ProgressReported == scm' = status /\ UNCHANGED status
ProgressFailed   == "report" \in Faults /\ UNCHANGED reports

\* runHook: a hook without a command, or whose command cannot be read or
\* started, is passed over.
RunSync(name, next) ==
    \/ /\ name \in ConfiguredHooks
       /\ pc' = "hook" /\ hook' = name /\ ret' = next
    \/ pc' = next /\ UNCHANGED <<hook, ret>>

RunAsync(name) ==
    \/ /\ name \in ConfiguredHooks
       /\ asyncHooks < MaxHooks
       /\ asyncHooks' = asyncHooks + 1
    \/ UNCHANGED asyncHooks

\* The hooks have ended, or the supervisor may give up on them.
HooksOver == asyncHooks = 0 \/ "hookTimeout" \in Faults

\* A broken variant: the end is reported without waiting for the hooks.
WaitHooksNot == TRUE

\* waitHooks returns.
WaitHooks == HooksOver

PrepareStop(next) ==
    \/ /\ stopHookRun
       /\ pc' = next
       /\ UNCHANGED <<hook, ret, stopHookRun, outcome, reports>>
    \/ /\ ~stopHookRun
       /\ stopHookRun' = TRUE
       /\ ReportIgnored("StopPending")
       /\ RunSync("Stop/Pre", next)
       /\ UNCHANGED outcome

Receive(e) == Q!Dequeue(e)
On(code)   == Receive(control(code))
OnStop     == \E c \in StopCodes : On(c)

\* The five select loops that receive events.
SelectLoops == {"wait", "startup", "running", "drain", "ignored"}

Slices(time) == (time + StatusReportInterval - 1) \div StatusReportInterval

\* The counter matters up to the end of the doubling only.
Saturated(n) == IF n > ThrottleExponentMax + 1 THEN ThrottleExponentMax + 1 ELSE n

\* What follows a wait that nobody stopped.
AfterWait == IF waitState = "Paused" THEN "recheck" ELSE "loop"

\* recordExit, the Exit/Post hook and closeRedirect.
Collected ==
    /\ process' = NoProcess
    /\ redirect' = "closed"
    /\ RunAsync("Exit/Post")
    /\ UNCHANGED <<running, watching, lateStarts>>

-----------------------------------------------------------------------------
(* Broken variants of the steps below, for the sensitivity checks.         *)

\* The wait goes on for a slice too many.
WaitSlicePastZero ==
    /\ pc = "wait"
    /\ remaining' = remaining - 1
    /\ IF remaining >= 0 THEN UNCHANGED pc ELSE pc' = AfterWait
    /\ UNCHANGED <<ret, hook, config, count, restarting, waitState, logged, kids, redirect,
                   ending, restartAllowed, queue, reports, handler, asyncHooks>>

\* A stop during a wait prepares the stop and then goes on with the start.
WaitStopGoesOn ==
    /\ pc = "wait"
    /\ OnStop
    /\ PrepareStop(AfterWait)
    /\ UNCHANGED <<config, plan, kids, redirect, restartAllowed, handler, asyncHooks>>

\* The exit of the child is taken for an older child's.
StaleExitOfAnyone ==
    /\ pc \in {"wait", "startup", "running", "ignored"}
    /\ \E p \in Process, r \in Results : Receive(exit(p, r))

\* A stop that arrives during the startup wait is dropped with the CONTINUEs.
IgnoredControlDropsStop ==
    \/ pc \in {"startup", "running", "drain", "ignored"} /\ On("Continue")
    \/ pc \in {"startup", "drain"} /\ OnStop

\* The log files stay open when the start fails.
SpawnFailsKeepsLogs ==
    /\ pc = "spawn"
    /\ "start" \in Faults
    /\ pc' = "startFailed"
    /\ UNCHANGED <<ret, hook, config, plan, kids, redirect, ending, restartAllowed, queue,
                   reports, handler, asyncHooks>>

\* A watcher that failed counts as an exit.
ChildEndedIgnoresError ==
    /\ pc \in {"startup", "running"}
    /\ \E r \in Results : Receive(exit(process, r))
    /\ pc' = "collect"
    /\ remaining' = 0
    /\ UNCHANGED <<ret, hook, config, count, restarting, waitState, logged, kids, redirect,
                   ending, restartAllowed, reports, handler, asyncHooks>>

\* The exit action Restart starts the child at once, without the loop's checks.
CollectRestartsAtOnce ==
    /\ pc = "collect"
    /\ Collected
    /\ restarting' = TRUE
    /\ pc' = "open"
    /\ UNCHANGED <<ret, hook, config, count, waitState, remaining, logged, ending,
                   restartAllowed, queue, reports, handler>>

\* The stop does not wait for the notification of the exit.
DrainedEarly ==
    /\ pc = "drain"
    /\ Collected
    /\ pc' = "finish"
    /\ UNCHANGED <<ret, hook, config, plan, ending, restartAllowed, queue, reports, handler>>

-----------------------------------------------------------------------------
(* The supervisor goroutine.                                               *)

Boot == /\ pc = "boot"
        /\ \/ Reported("StartPending") /\ pc' = "load"
           \/ ReportFailed("StartPending") /\ pc' = "unwind"
        /\ UNCHANGED <<ret, hook, config, plan, kids, redirect, ending, restartAllowed,
                       queue, handler, asyncHooks>>

Load == /\ pc = "load"
        /\ \/ pc' = "loop"
           \/ "load" \in Faults /\ pc' = "failed"
        /\ UNCHANGED <<ret, hook, config, plan, kids, redirect, ending, restartAllowed,
                       queue, reports, handler, asyncHooks>>

\* waitWithoutChild up to its first select.
EnterWait(time, state) ==
    /\ waitState' = state
    /\ remaining' = Slices(time)
    /\ \/ Reported(state) /\ pc' = "wait"
       \/ ReportFailed(state) /\ pc' = "failed"

\* The head of the for loop and the plan for the next start.
Plan ==
    /\ pc = "loop"
    /\ \/ /\ ~restartAllowed
          /\ pc' = "finish"
          /\ UNCHANGED <<plan, reports>>
       \/ /\ restartAllowed
          /\ LET next == NextPlan(count, config.restartDelay)
             IN  /\ count' = Saturated(next.count)
                 /\ \/ /\ next.wait = 0
                       /\ pc' = "recheck"
                       /\ UNCHANGED <<waitState, remaining, logged, reports>>
                    \/ /\ next.wait > 0
                       /\ logged' = IF next.throttled THEN "Throttled" ELSE "RestartDelay"
                       /\ EnterWait(next.wait, "Paused")
          /\ UNCHANGED restarting
    /\ UNCHANGED <<ret, hook, config, kids, redirect, ending, restartAllowed, queue,
                   handler, asyncHooks>>

\* waitWithoutChild: the timer of a slice.
WaitSlice ==
    /\ pc = "wait"
    /\ remaining' = remaining - 1
    /\ \/ /\ remaining > 1
          /\ \/ ProgressReported /\ UNCHANGED pc
             \/ ProgressFailed /\ pc' = "failed"
       \/ /\ remaining = 1
          /\ pc' = AfterWait
          /\ UNCHANGED reports
    /\ UNCHANGED <<ret, hook, config, count, restarting, waitState, logged, kids, redirect,
                   ending, restartAllowed, queue, handler, asyncHooks>>

WaitStop ==
    /\ pc = "wait"
    /\ OnStop
    /\ PrepareStop("finish")
    /\ UNCHANGED <<config, plan, kids, redirect, restartAllowed, handler, asyncHooks>>

\* CONTINUE ends the wait.  Its result resets the counter in the wait before a
\* planned start and is discarded in the wait after a failed one.
WaitContinue ==
    /\ pc = "wait"
    /\ On("Continue")
    /\ logged' = "ResetThrottle"
    /\ count' = IF waitState = "Paused" THEN 0 ELSE count
    /\ remaining' = 0
    /\ pc' = AfterWait
    /\ UNCHANGED <<ret, hook, config, restarting, waitState, kids, redirect, ending,
                   restartAllowed, reports, handler, asyncHooks>>

\* Where the error of a failed Interrogate leads.
OnReportError == CASE pc = "drain"   -> "drain"
                   [] pc = "ignored" -> "unwind"
                   [] OTHER          -> "failed"

\* The controls which every select loop serves in the same way.
ServeControl ==
    /\ pc \in SelectLoops
    /\ \/ /\ On("Interrogate")
          /\ \/ ProgressReported /\ UNCHANGED pc
             \/ ProgressFailed /\ pc' = OnReportError
          /\ UNCHANGED <<ret, hook, asyncHooks>>
       \/ /\ On("PowerEvent")
          /\ RunAsync("Power")
          /\ UNCHANGED <<flow, reports>>
       \/ /\ On("Rotate")
          /\ RunSync("Rotate/Pre", pc)
          /\ IF pc' = "hook" THEN UNCHANGED asyncHooks ELSE RunAsync("Rotate/Post")
          /\ UNCHANGED reports
    /\ UNCHANGED <<config, plan, kids, redirect, ending, restartAllowed, handler>>

\* The controls that mean nothing to a loop.
IgnoredControl == \/ pc \in {"startup", "running", "drain", "ignored"} /\ On("Continue")
                  \/ pc = "drain" /\ OnStop

\* An exit of a process that a loop does not wait for.
StaleExit == /\ pc \in SelectLoops
             /\ \E p \in Process, r \in Results :
                   /\ pc \in {"startup", "running", "drain"} => p # process
                   /\ Receive(exit(p, r))

\* What a loop receives without acting on it.
SkipEvent ==
    /\ IgnoredControl \/ StaleExit
    /\ UNCHANGED <<flow, config, plan, kids, redirect, ending, restartAllowed, reports,
                   handler, asyncHooks>>

\* The last look at restartAllowed before a start.
Recheck ==
    /\ pc = "recheck"
    /\ \/ ~restartAllowed /\ PrepareStop("finish")
       \/ /\ restartAllowed
          /\ \/ Reported("StartPending") /\ pc' = "open"
             \/ ReportFailed("StartPending") /\ pc' = "unwind"
          /\ UNCHANGED <<ret, hook, ending>>
    /\ UNCHANGED <<config, plan, kids, redirect, restartAllowed, queue, handler, asyncHooks>>

Open ==
    /\ pc = "open"
    /\ logged' = "none"
    /\ \/ /\ config.redirected /\ "redirect" \in Faults
          /\ redirect' = "closed"
          /\ pc' = "failed"
          /\ UNCHANGED <<ret, hook, reports>>
       \/ /\ redirect' = IF config.redirected THEN "open" ELSE "closed"
          /\ ReportIgnored("StartPending")
          /\ RunSync("Start/Pre", "spawn")
    /\ UNCHANGED <<config, count, restarting, waitState, remaining, kids, ending,
                   restartAllowed, queue, handler, asyncHooks>>

\* A process identity to which neither a watcher nor a notification refers.
Free(p) == /\ p \notin running \cup watching
           /\ \A r \in Results : Q!InFlight(exit(p, r)) = 0

Spawn ==
    /\ pc = "spawn"
    /\ \E p \in Process :
          /\ Free(p)
          /\ process' = p
          /\ running' = running \cup {p}
          /\ watching' = watching \cup {p}
    /\ lateStarts' = IF restartAllowed THEN lateStarts ELSE lateStarts + 1
    /\ remaining' = Slices(config.threshold)
    /\ pc' = IF config.threshold > 0 THEN "startup" ELSE "healthy"
    /\ UNCHANGED <<ret, hook, config, count, restarting, waitState, logged, redirect, ending,
                   restartAllowed, queue, reports, handler, asyncHooks>>

SpawnFails ==
    /\ pc = "spawn"
    /\ "start" \in Faults
    /\ redirect' = "closed"
    /\ pc' = "startFailed"
    /\ UNCHANGED <<ret, hook, config, plan, kids, ending, restartAllowed, queue, reports,
                   handler, asyncHooks>>

AfterFailedStart ==
    /\ pc = "startFailed"
    /\ \/ /\ ~restartAllowed
          /\ PrepareStop("finish")
          /\ UNCHANGED <<waitState, remaining>>
       \/ /\ restartAllowed /\ ~restarting
          /\ pc' = "failed"
          /\ UNCHANGED <<ret, hook, ending, waitState, remaining, reports>>
       \/ /\ restartAllowed /\ restarting
          /\ EnterWait(RestartRetrySleep, "StartPending")
          /\ UNCHANGED <<ret, hook, ending>>
    /\ UNCHANGED <<config, count, restarting, logged, kids, redirect, restartAllowed, queue,
                   handler, asyncHooks>>

\* awaitStartup: the timer of a slice.
StartupSlice ==
    /\ pc = "startup"
    /\ remaining' = remaining - 1
    /\ \/ /\ remaining > 1
          /\ \/ ProgressReported /\ UNCHANGED pc
             \/ ProgressFailed /\ pc' = "failed"
       \/ /\ remaining = 1
          /\ pc' = "healthy"
          /\ UNCHANGED reports
    /\ UNCHANGED <<ret, hook, config, count, restarting, waitState, logged, kids, redirect,
                   ending, restartAllowed, queue, handler, asyncHooks>>

\* awaitStartup and awaitRunning: a stop control.
ChildStop ==
    /\ pc \in {"startup", "running"}
    /\ OnStop
    /\ pc' = "stopping"
    /\ remaining' = 0
    /\ UNCHANGED <<ret, hook, config, count, restarting, waitState, logged, kids, redirect,
                   ending, restartAllowed, reports, handler, asyncHooks>>

\* awaitStartup and awaitRunning: the child's exit, or that nobody can wait for it.
ChildEnded ==
    /\ pc \in {"startup", "running"}
    /\ \E r \in Results : /\ Receive(exit(process, r))
                          /\ pc' = IF r = "exited" THEN "collect" ELSE "failed"
    /\ remaining' = 0
    /\ UNCHANGED <<ret, hook, config, count, restarting, waitState, logged, kids, redirect,
                   ending, restartAllowed, reports, handler, asyncHooks>>

BecomesHealthy ==
    /\ pc = "healthy"
    /\ count' = AfterHealthyStart(config.restartDelay)
    /\ \/ Reported("Running") /\ pc' = "running" /\ RunAsync("Start/Post")
       \/ ReportFailed("Running") /\ pc' = "stopping" /\ UNCHANGED asyncHooks
    /\ UNCHANGED <<ret, hook, config, restarting, waitState, remaining, logged, kids,
                   redirect, ending, restartAllowed, queue, handler>>

\* What stopTree may report while it waits.
TreeProgress == (config.killTree /\ ProgressReported) \/ UNCHANGED reports

\* The child exited on its own: clean up, then do what AppExit says.  KillTree
\* stops what the child left behind and may report progress meanwhile.
Collect ==
    /\ pc = "collect"
    /\ Collected
    /\ \/ /\ "Restart" \in ExitActions
          /\ restarting' = TRUE
          /\ pc' = "loop"
          /\ TreeProgress
       \/ /\ "Ignore" \in ExitActions
          /\ UNCHANGED restarting
          /\ \/ Reported("Running") /\ pc' = "ignored"
             \/ ReportFailed("Running") /\ pc' = "unwind"
       \/ /\ "Exit" \in ExitActions
          /\ UNCHANGED restarting
          /\ ReportIgnored("StopPending")
          /\ pc' = "finish"
       \/ /\ "Suicide" \in ExitActions
          /\ UNCHANGED restarting
          /\ pc' = "suicide"
          /\ TreeProgress
    /\ UNCHANGED <<ret, hook, config, count, waitState, remaining, logged, ending,
                   restartAllowed, queue, handler>>

\* Exit code zero with the default action is a plain end, any other ends the process.
Suicide ==
    /\ pc = "suicide"
    /\ WaitHooks
    /\ \/ /\ ReportIgnored("Stopped")
          /\ outcome' = "clean"
          /\ pc' = "unwind"
       \/ /\ scm' = "Crashed"
          /\ pc' = "dead"
          /\ UNCHANGED <<outcome, status>>
    /\ UNCHANGED <<ret, hook, config, plan, kids, redirect, stopHookRun, restartAllowed,
                   queue, handler, asyncHooks>>

IgnoredStop ==
    /\ pc = "ignored"
    /\ OnStop
    /\ PrepareStop("finish")
    /\ UNCHANGED <<config, plan, kids, redirect, restartAllowed, handler, asyncHooks>>

\* stopProcess.
Stopping ==
    /\ pc = "stopping"
    /\ restartAllowed' = FALSE
    /\ PrepareStop("stopTree")
    /\ UNCHANGED <<config, plan, kids, redirect, queue, handler, asyncHooks>>

\* stopTree returns when the child has exited, or gives up on an error.  It may
\* wait for ever: see Unforced.
StopTree ==
    /\ pc = "stopTree"
    /\ \/ running' = running \ {process}
       \/ "tree" \in Faults /\ UNCHANGED running
    /\ ProgressReported \/ UNCHANGED reports
    /\ pc' = "drain"
    /\ UNCHANGED <<ret, hook, config, plan, process, watching, lateStarts, redirect, ending,
                   restartAllowed, queue, handler, asyncHooks>>

\* stopProcess waits for the notification of the watcher, whatever it says.
Drained ==
    /\ pc = "drain"
    /\ \E r \in Results : Receive(exit(process, r))
    /\ Collected
    /\ pc' = "finish"
    /\ UNCHANGED <<ret, hook, config, plan, ending, restartAllowed, reports, handler>>

\* awaitHook returns to where the hook was run.
HookEnds ==
    /\ pc = "hook"
    /\ hook' = "none"
    /\ \/ /\ pc' = ret
          /\ UNCHANGED redirect
          /\ IF hook = "Rotate/Pre" THEN RunAsync("Rotate/Post") ELSE UNCHANGED asyncHooks
       \/ /\ hook = "Start/Pre"   \* StatusAbort
          /\ pc' = "aborted"
          /\ redirect' = "closed"
          /\ UNCHANGED asyncHooks
    /\ UNCHANGED <<ret, config, plan, kids, ending, restartAllowed, queue, reports, handler>>

\* waitHooks and the final report of the ends that need no error code.
Finish ==
    /\ pc \in {"finish", "aborted"}
    /\ WaitHooks
    /\ ReportIgnored("Stopped")
    /\ outcome' = IF pc = "finish" THEN "clean" ELSE "aborted"
    /\ pc' = "unwind"
    /\ UNCHANGED <<ret, hook, config, plan, kids, redirect, stopHookRun, restartAllowed,
                   queue, handler, asyncHooks>>

\* An error is reported at once and the hooks are awaited by the deferred call.
Failed ==
    /\ pc = "failed"
    /\ ReportIgnored("Stopped")
    /\ outcome' = "failed"
    /\ pc' = "unwind"
    /\ UNCHANGED <<ret, hook, config, plan, kids, redirect, stopHookRun, restartAllowed,
                   queue, handler, asyncHooks>>

\* The deferred waitHooks and closeRedirect of run and close(done) of Run.
Unwind ==
    /\ pc = "unwind"
    /\ WaitHooks
    /\ redirect' = "closed"
    /\ Q!Close
    /\ pc' = "returned"
    /\ UNCHANGED <<ret, hook, config, plan, kids, ending, restartAllowed, reports, handler,
                   asyncHooks>>

Supervise ==
    \/ Boot \/ Load \/ Plan \/ WaitSlice \/ WaitStop \/ WaitContinue
    \/ ServeControl \/ SkipEvent \/ Recheck \/ Open \/ Spawn \/ SpawnFails
    \/ AfterFailedStart \/ StartupSlice \/ ChildStop \/ ChildEnded \/ BecomesHealthy
    \/ Collect \/ Suicide \/ IgnoredStop \/ Stopping \/ StopTree \/ Drained \/ HookEnds
    \/ Finish \/ Failed \/ Unwind

-----------------------------------------------------------------------------
(* The other actors, for as long as the process lives.                     *)

Alive == pc # "dead"

\* The controls the SCM delivers in a service state: what accepted() announced,
\* and Interrogate and user-defined codes to any service that has not ended.
Accepted(state) ==
    CASE state \in {"StartPending"}      -> StopCodes \cup {"Interrogate", "Rotate"}
      [] state \in {"Running", "Paused"} -> Controls
      [] state \in {"Stopped", "Crashed"} -> {}
      [] OTHER                           -> {"Interrogate", "Rotate"}

InFlightEvents == {e \in Event : Q!InFlight(e) > 0}

\* The control callback, up to its enqueue for the codes that stop the service.
ScmSends(code) ==
    /\ Alive
    /\ handler = "idle"
    /\ code \in Accepted(scm)
    /\ Cardinality(InFlightEvents) < MaxInFlight
    /\ Q!InFlight(control(code)) = 0
    /\ IF code \in StopCodes
       THEN /\ restartAllowed' = FALSE
            /\ handler' = code
            /\ UNCHANGED queue
       ELSE /\ Q!Enqueue(control(code))
            /\ UNCHANGED <<restartAllowed, handler>>
    /\ UNCHANGED <<flow, config, plan, kids, redirect, ending, reports, asyncHooks>>

HandlerEnqueues ==
    /\ Alive
    /\ handler # "idle"
    /\ Q!Enqueue(control(handler))
    /\ handler' = "idle"
    /\ UNCHANGED <<flow, config, plan, kids, redirect, ending, restartAllowed, reports,
                   asyncHooks>>

\* The child program exits when it wants to.
ChildExits(p) ==
    /\ Alive
    /\ p \in running
    /\ running' = running \ {p}
    /\ UNCHANGED <<flow, config, plan, process, watching, lateStarts, redirect, ending,
                   restartAllowed, queue, reports, handler, asyncHooks>>

\* The watcher's Wait returns, and the watcher enqueues what it learned.
WatcherReports(p) ==
    /\ Alive
    /\ p \in watching
    /\ \/ p \notin running /\ Q!Enqueue(exit(p, "exited"))
       \/ "wait" \in Faults /\ Q!Enqueue(exit(p, "waitFailed"))
    /\ watching' = watching \ {p}
    /\ UNCHANGED <<flow, config, plan, process, running, lateStarts, redirect, ending,
                   restartAllowed, reports, handler, asyncHooks>>

AsyncHookEnds ==
    /\ Alive
    /\ asyncHooks > 0
    /\ asyncHooks' = asyncHooks - 1
    /\ UNCHANGED <<flow, config, plan, kids, redirect, ending, restartAllowed, queue,
                   reports, handler>>

\* The goroutines of enqueue that wait for a slot.
Forwarder(e) ==
    /\ Alive
    /\ Q!Forward(e) \/ Q!Release(e)
    /\ UNCHANGED <<flow, config, plan, kids, redirect, ending, restartAllowed, reports,
                   handler, asyncHooks>>

Next == \/ Supervise
        \/ \E c \in Controls : ScmSends(c)
        \/ HandlerEnqueues
        \/ \E p \in Process : ChildExits(p) \/ WatcherReports(p)
        \/ AsyncHookEnds
        \/ \E e \in Event : Forwarder(e)

Spec == Init /\ [][Next]_vars

\* stopOne ends in a wait without a deadline.  Unless the last stage terminates the
\* process, it lasts for as long as the child, or a descendant, refuses to exit.
Unforced == /\ ~config.terminates
            /\ \/ pc = "stopTree" /\ (process \in running \/ config.killTree)
               \/ pc = "collect" /\ config.killTree

(* The Go scheduler runs every goroutine and timers fire; hooks have a     *)
(* deadline, and one that misses it is terminated; blocked senders of a    *)
(* channel are served first in first out.  Nothing is assumed of the SCM   *)
(* or of the child, which need not exit unless it is terminated.           *)
Fairness == /\ WF_vars(~Unforced /\ Supervise)
            /\ WF_vars(HandlerEnqueues)
            /\ WF_vars(AsyncHookEnds)
            /\ \A p \in Process : WF_vars(WatcherReports(p))
            /\ \A e \in Event : SF_vars(Forwarder(e))

FairSpec == Spec /\ Fairness

-----------------------------------------------------------------------------
\* The exits which are not yet known to the supervisor.
Unreported == watching \cup {p \in Process : \E r \in Results : Q!InFlight(exit(p, r)) > 0}

(* The loops without a child skip process exits, and the loops with one    *)
(* compare them with their process.  Nothing is lost by either: an exit on *)
(* its way to the supervisor is always that of the process it supervises.  *)
NoStaleExit == Unreported \subseteq {process}

\* Where the goroutine stands, or goes on once its hook has ended.
At == IF pc = "hook" THEN ret ELSE pc

(* Log files are held only while a child is being started, runs or is      *)
(* collected, so the next start can rotate them (the comment before the    *)
(* closeRedirect that follows an exit).                                    *)
LogsReleasedBetweenRuns == redirect = "open" => process # NoProcess \/ At = "spawn"

(* The stop path never leads back to a start: once the Stop/Pre hook was   *)
(* run, the only child alive is the one that is being stopped.             *)
NoStartAfterStopHook ==
    stopHookRun => At \in {"stopTree", "drain", "finish", "unwind", "returned"}

(* A service that reports a regular end supervises no child any more, has  *)
(* closed its logs, and has no hook left running unless one outlived the   *)
(* deadline: after Stopped the SCM may end the process.  The child itself  *)
(* may run on if the watcher's Wait failed while it was stopped: the drain *)
(* takes that report for the end.                                          *)
StoppedIsQuiet ==
    scm = "Stopped" /\ outcome \in {"clean", "aborted"} =>
        process = NoProcess /\ redirect = "closed" /\ HooksOver

(* While one child lives no second one is started, whichever wait, report  *)
(* or tree stop fails ("Only one child runs at a time").                   *)
OneChild == Cardinality(running) <= 1

(* A stop request that arrives between the last look at restartAllowed and *)
(* StartProcess races with at most one start, also when starts fail and    *)
(* are tried again.                                                        *)
AtMostOneLateStart == lateStarts <= 1

\* The promise of ServiceLifecycle.tla.
Lifecycle == INSTANCE ServiceLifecycle WITH stopRequested <- ~restartAllowed,
                                            alive <- running # {},
                                            unforced <- Unforced

(* Every step reports only legal transitions, starts and loses children as *)
(* the lifecycle allows, and a stop request is answered however it meets   *)
(* the waits, the hooks, a full queue and an exit of the child, unless the *)
(* service waits for ever for a program that it may not terminate.         *)
ImplementsLifecycle == Lifecycle!FairSpec

(* The exit of the child is noticed wherever the supervisor is, also when  *)
(* its notification finds the queue full, unless it waits for ever for a   *)
(* descendant that it may not terminate.                                   *)
ExitNoticed ==
    []<>~Unforced =>
        \A p \in Process : (process = p /\ p \notin running) ~> (process # p)

(* Event 1035, "Request to resume service %1.  Throttling of restart       *)
(* attempts will be reset.": after it is logged, the next start is planned *)
(* from zero.  The code does not keep this in the wait after a failed      *)
(* start, which discards the CONTINUE.                                     *)
ContinueResets == logged = "ResetThrottle" /\ pc \in {"loop", "recheck"} => count = 0
=============================================================================
