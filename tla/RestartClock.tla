---------------------------- MODULE RestartClock ----------------------------
(***************************************************************************)
(* The restart policy of the supervisor against a clock: when is an exit   *)
(* an early one, how long does the next start wait, and what do the event  *)
(* log records about it say.  One child whose launches succeed, whose exit *)
(* action is Restart and that nobody stops; Supervisor.tla has the other   *)
(* paths and leaves the clock out.                                         *)
(*                                                                         *)
(* The supervisor measures time in slices: it takes StatusReportInterval   *)
(* (or what is left) off `remaining` only when a whole slice passed        *)
(* without a notification, because every turn of its select loop makes a   *)
(* new timer.                                                              *)
(***************************************************************************)
EXTENDS Throttle

CONSTANTS Thresholds,            \* the values AppThrottle may have
          RestartDelays,         \* the values AppRestartDelay may have
          StatusReportInterval,  \* the longest slice
          MaxAge,                \* bound: ages are not told apart beyond it
          MaxCount,              \* bound: a child started at this count lives on
          MaxNotify              \* bound: notifications handled per phase

ASSUME ClockAssumption == /\ Thresholds \subseteq Nat
                          /\ RestartDelays \subseteq 0..MaxAge
                          /\ StatusReportInterval \in Nat \ {0}
                          /\ MaxAge \in Nat
                          /\ MaxCount \in Nat
                          /\ MaxNotify \in Nat

VARIABLES threshold,     \* AppThrottle of this service
          restartDelay,  \* AppRestartDelay of this service
          phase,         \* "deciding", "waiting", "startup" or "running"
          count,         \* the throttle counter of run()
          remaining,     \* what awaitStartup or waitWithoutChild still wants to wait
          elapsed,       \* time since the current slice's timer was made
          age,           \* time since this phase's child was started, or the wait began
          notified,      \* notifications handled in this phase
          announced,     \* the last restart record in the event log
          lastRun,       \* how long the last child lived
          lastExit,      \* "none", "early" or "healthy"
          wait,          \* the last planned wait, 0 once a CONTINUE cut it short
          eager          \* early exits in a row that were followed by no wait

config  == <<threshold, restartDelay>>
clock   == <<remaining, elapsed, age, notified>>
history == <<announced, lastRun, lastExit, wait, eager>>
vars    == <<config, phase, count, clock, history>>

Announcements == {"none", "Throttled", "RestartDelay", "ResetThrottle"}

TypeOK == /\ threshold \in Nat
          /\ restartDelay \in Nat
          /\ phase \in {"deciding", "waiting", "startup", "running"}
          /\ count \in Nat
          /\ remaining \in Nat
          /\ elapsed \in Nat
          /\ age \in Nat
          /\ notified \in Nat
          /\ announced \in Announcements
          /\ lastRun \in Nat
          /\ lastExit \in {"none", "early", "healthy"}
          /\ wait \in Nat
          /\ eager \in Nat

Init == /\ threshold \in Thresholds
        /\ restartDelay \in RestartDelays
        /\ phase = "deciding"
        /\ count = 0
        /\ remaining = 0
        /\ elapsed = 0
        /\ age = 0
        /\ notified = 0
        /\ announced = "none"
        /\ lastRun = 0
        /\ lastExit = "none"
        /\ wait = 0
        /\ eager = 0

-----------------------------------------------------------------------------
Bounded(n) == IF n > MaxAge THEN MaxAge ELSE n

\* The interval of the select loop that is about to turn.
Slice == IF remaining > StatusReportInterval THEN StatusReportInterval ELSE remaining

(* Broken variants, for the sensitivity checks.                            *)

\* A notification in the select loop takes the slice off as if it had passed.
NotifyConsumesSlice ==
    /\ phase \in {"waiting", "startup"}
    /\ notified < MaxNotify
    /\ notified' = notified + 1
    /\ elapsed' = 0
    /\ remaining' = IF remaining > Slice THEN remaining - Slice ELSE remaining
    /\ UNCHANGED <<config, phase, count, age, history>>

\* The timer of a slice is renewed without taking the slice off.
SliceEndsKeepsRemaining ==
    /\ phase \in {"waiting", "startup"}
    /\ elapsed = Slice
    /\ remaining > Slice
    /\ elapsed' = 0
    /\ UNCHANGED <<config, phase, count, remaining, age, notified, history>>

-----------------------------------------------------------------------------
(* The child is started: awaitStartup begins, and ends at once when the    *)
(* threshold is zero, which makes every start a healthy one.               *)
Launch(n) ==
    /\ age' = 0
    /\ elapsed' = 0
    /\ notified' = 0
    /\ \/ /\ threshold > 0
          /\ phase' = "startup"
          /\ remaining' = threshold
          /\ count' = n
       \/ /\ threshold = 0
          /\ phase' = "running"
          /\ remaining' = 0
          /\ count' = AfterHealthyStart(restartDelay)

\* The top of the loop: plan the next start, and either wait or go on.
Decide ==
    /\ phase = "deciding"
    /\ LET plan == NextPlan(count, restartDelay)
       IN  \/ /\ plan.wait = 0
              /\ Launch(plan.count)
              /\ wait' = 0
              /\ eager' = IF lastExit = "early" THEN eager + 1 ELSE 0
              /\ UNCHANGED announced
           \/ /\ plan.wait > 0
              /\ phase' = "waiting"
              /\ count' = plan.count
              /\ remaining' = plan.wait
              /\ elapsed' = 0
              /\ age' = 0
              /\ notified' = 0
              /\ wait' = plan.wait
              /\ eager' = 0
              /\ announced' = IF plan.throttled THEN "Throttled" ELSE "RestartDelay"
    /\ UNCHANGED <<config, lastRun, lastExit>>

\* Time passes; a timer that is due fires first.
Tick ==
    /\ phase \in {"waiting", "startup", "running"}
    /\ phase \in {"waiting", "startup"} => elapsed < Slice
    /\ elapsed' = IF phase = "running" THEN 0 ELSE elapsed + 1
    /\ age' = Bounded(age + 1)
    /\ UNCHANGED <<config, phase, count, remaining, notified, history>>

\* Interrogate, Rotate or a power event: one turn of the loop, with a new timer.
Notify ==
    /\ phase \in {"waiting", "startup"}
    /\ notified < MaxNotify
    /\ notified' = notified + 1
    /\ elapsed' = 0
    /\ UNCHANGED <<config, phase, count, remaining, age, history>>

\* A whole slice passed and more is left: progress is reported to the SCM.
SliceEnds ==
    /\ phase \in {"waiting", "startup"}
    /\ elapsed = Slice
    /\ remaining > Slice
    /\ remaining' = remaining - Slice
    /\ elapsed' = 0
    /\ UNCHANGED <<config, phase, count, age, notified, history>>

\* The last slice of the wait passed: start.
WaitEnds ==
    /\ phase = "waiting"
    /\ elapsed = Slice
    /\ remaining = Slice
    /\ Launch(count)
    /\ UNCHANGED <<config, history>>

\* CONTINUE during the wait: the counter is reset and the start is due now.
Continue ==
    /\ phase = "waiting"
    /\ Launch(0)
    /\ announced' = "ResetThrottle"
    /\ wait' = 0
    /\ UNCHANGED <<config, lastRun, lastExit, eager>>

\* The child outlived the threshold.
BecomesHealthy ==
    /\ phase = "startup"
    /\ elapsed = Slice
    /\ remaining = Slice
    /\ phase' = "running"
    /\ count' = AfterHealthyStart(restartDelay)
    /\ remaining' = 0
    /\ elapsed' = 0
    /\ notified' = 0
    /\ UNCHANGED <<config, age, history>>

\* The child exits; its exit action is Restart.
ChildExits ==
    /\ phase \in {"startup", "running"}
    /\ phase = "startup" => count < MaxCount
    /\ phase' = "deciding"
    /\ lastRun' = age
    /\ lastExit' = IF phase = "startup" THEN "early" ELSE "healthy"
    /\ remaining' = 0
    /\ elapsed' = 0
    /\ age' = 0
    /\ notified' = 0
    /\ UNCHANGED <<config, count, announced, wait, eager>>

Next == \/ Decide \/ Tick \/ Notify \/ SliceEnds \/ WaitEnds \/ Continue
        \/ BecomesHealthy \/ ChildExits

(* The goroutine runs and its timers fire.  Nothing is assumed of the      *)
(* child or of the SCM.                                                    *)
Fairness == WF_vars(Decide) /\ WF_vars(Tick) /\ WF_vars(SliceEnds)
            /\ WF_vars(WaitEnds) /\ WF_vars(BecomesHealthy)

Spec == Init /\ [][Next]_vars

FairSpec == Spec /\ Fairness

-----------------------------------------------------------------------------
(* A child that keeps dying early is not restarted in a hot loop: of two   *)
(* early exits in a row at least one is followed by a wait.  One restart   *)
(* without a wait is the most that a CONTINUE, which resets the counter to *)
(* zero, buys.                                                             *)
AtMostOneEagerRestart == eager <= 1

(* After a run that outlived the threshold the next start comes at least   *)
(* AppRestartDelay after the exit, however many notifications cut the      *)
(* slices short, unless an administrator sends CONTINUE.                   *)
HealthyRestartDelayed ==
    [][ /\ phase \in {"deciding", "waiting"}
        /\ phase' \in {"startup", "running"}
        /\ lastExit = "healthy"
        /\ announced' # "ResetThrottle"
        => age >= restartDelay ]_vars

(* While the child keeps exiting early and nobody intervenes, no wait is   *)
(* shorter than the one before.                                            *)
BackoffNeverShrinks ==
    [][ phase = "deciding" /\ phase' = "waiting" /\ lastExit = "early"
        => wait' >= wait ]_vars

(* Event 1072, "Restart of service %1 will be delayed by %2 milliseconds", *)
(* announces the administrator's delay: the wait is the restart delay, and *)
(* it follows the first early exit or a healthy run.                       *)
RestartDelayRecordIsTrue ==
    phase = "waiting" /\ announced = "RestartDelay" => wait = restartDelay

(* A wait for a restart ends in the start of the child, provided that      *)
(* notifications cease (MaxNotify per wait).                               *)
WaitLeadsToStart == (phase = "waiting") ~> (phase \in {"startup", "running"})

(* Event 1034, "Service %1 ran for less than %2 milliseconds": a throttled *)
(* restart is announced only after a run that was not longer than          *)
(* AppThrottle.  The code does not keep this: a notification renews the    *)
(* startup timer.                                                          *)
ThrottledRunWasShort ==
    phase = "waiting" /\ announced = "Throttled" => lastRun <= threshold
=============================================================================
