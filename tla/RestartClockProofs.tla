------------------------- MODULE RestartClockProofs -------------------------
(***************************************************************************)
(* Proofs about the restart policy for every threshold, restart delay and  *)
(* slice length: no hot restart loop, the restart delay is honoured, waits *)
(* do not shrink, and the record of a restart delay is true.               *)
(***************************************************************************)
EXTENDS RestartClock, TLAPS

-----------------------------------------------------------------------------
(* What the operators of Throttle return.                                  *)

\* A delay is a positive number.
LEMMA DelayPositive ==
    ASSUME NEW n \in Nat
    PROVE  Delay(n) \in Nat \ {0}
<1>1. Clamp(n) - 1 \in 0..(ThrottleExponentMax - 1)
  BY ThrottleAssumption DEF Clamp
<1>2. 2 ^ (Clamp(n) - 1) \in Nat \ {0}
  BY <1>1, PowersArePositive
<1>3. \A x \in Nat \ {0} : ThrottleBase * x \in Nat \ {0}
  BY ThrottleAssumption
<1>4. QED
  BY <1>2, <1>3 DEF Delay

\* The first start is free; every other one waits, and at least the restart delay.
LEMMA PlanFacts ==
    ASSUME NEW c \in Nat, NEW d \in Nat
    PROVE  /\ NextPlan(c, d).count = c + 1
           /\ NextPlan(c, d).wait \in Nat
           /\ c = 0 => NextPlan(c, d).wait = 0
           /\ c # 0 => NextPlan(c, d).wait > 0 /\ NextPlan(c, d).wait >= d
<1>1. CASE c = 0
  BY <1>1 DEF NextPlan
<1>2. CASE c # 0
  <2>1. Delay(c + 1) \in Nat \ {0}
    BY DelayPositive
  <2>2. LargerOf(Delay(c + 1), d) \in Nat /\ LargerOf(Delay(c + 1), d) > 0
        /\ LargerOf(Delay(c + 1), d) >= d
    BY <2>1 DEF LargerOf
  <2>3. NextPlan(c, d).count = c + 1 /\ NextPlan(c, d).wait = LargerOf(Delay(c + 1), d)
    BY <1>2 DEF NextPlan
  <2>4. QED
    BY <1>2, <2>2, <2>3
<1>3. QED
  BY <1>1, <1>2

\* A delay is never shorter than the one of an earlier start.
LEMMA DelayGrows ==
    ASSUME NEW m \in Nat, NEW n \in Nat, m <= n
    PROVE  Delay(m) <= Delay(n)
<1>1. /\ Clamp(m) - 1 \in 0..(ThrottleExponentMax - 1)
      /\ Clamp(n) - 1 \in 0..(ThrottleExponentMax - 1)
      /\ Clamp(m) - 1 <= Clamp(n) - 1
  BY ThrottleAssumption DEF Clamp
<1>2. 2 ^ (Clamp(m) - 1) <= 2 ^ (Clamp(n) - 1)
  BY <1>1, PowersGrow
<1>3. 2 ^ (Clamp(m) - 1) \in Nat /\ 2 ^ (Clamp(n) - 1) \in Nat
  BY <1>1, PowersArePositive
<1>4. \A x, y \in Nat : x <= y => ThrottleBase * x <= ThrottleBase * y
  BY ThrottleAssumption
<1>5. QED
  BY <1>2, <1>3, <1>4 DEF Delay

\* One more start without a reset in between waits at least as long.
LEMMA WaitGrows ==
    ASSUME NEW c \in Nat \ {0}, NEW d \in Nat
    PROVE  NextPlan(c - 1, d).wait <= NextPlan(c, d).wait
<1>1. NextPlan(c, d).wait = LargerOf(Delay(c + 1), d)
  BY DEF NextPlan
<1>2. Delay(c) \in Nat /\ Delay(c + 1) \in Nat /\ Delay(c) <= Delay(c + 1)
  BY DelayPositive, DelayGrows
<1>3. CASE c = 1
  <2>1. NextPlan(c - 1, d).wait = 0
    BY <1>3 DEF NextPlan
  <2>2. QED
    BY <1>1, <1>2, <2>1 DEF LargerOf
<1>4. CASE c # 1
  <2>1. c - 1 \in Nat /\ c - 1 # 0 /\ (c - 1) + 1 = c
    BY <1>4
  <2>2. NextPlan(c - 1, d).wait = LargerOf(Delay(c), d)
    BY <2>1 DEF NextPlan
  <2>3. QED
    BY <1>1, <1>2, <2>2 DEF LargerOf
<1>5. QED
  BY <1>3, <1>4

\* A wait that is not called a throttled one is the restart delay.
LEMMA DelayedPlan ==
    ASSUME NEW c \in Nat, NEW d \in Nat,
           NextPlan(c, d).wait > 0, ~NextPlan(c, d).throttled
    PROVE  NextPlan(c, d).wait = d
<1>1. c # 0
  BY DEF NextPlan
<1>2. c = 1 /\ d > Delay(c + 1) /\ NextPlan(c, d).wait = LargerOf(Delay(c + 1), d)
  BY <1>1 DEF NextPlan
<1>3. Delay(c + 1) \in Nat
  BY DelayPositive
<1>4. QED
  BY <1>2, <1>3 DEF LargerOf

-----------------------------------------------------------------------------
(* The inductive invariant.                                                *)

\* After a restart without a wait the counter is no longer zero, so the next one waits.
EagerInv == /\ eager \in {0, 1}
            /\ phase = "waiting" => eager = 0
            /\ eager = 1 /\ phase = "startup" => count > 0
            /\ eager = 1 /\ phase = "deciding" /\ lastExit = "early" => count > 0

\* The counter after a healthy run remembers whether there is a restart delay.
HealthyInv == /\ restartDelay <= MaxAge
              /\ phase = "running" => count = AfterHealthyStart(restartDelay)
              /\ phase = "deciding" /\ lastExit = "healthy"
                    => count = AfterHealthyStart(restartDelay)

\* What the slices took off the wait has really passed.
WaitInv == phase = "waiting" => /\ wait >= restartDelay
                                /\ remaining <= wait
                                /\ elapsed <= Slice
                                /\ age >= Bounded(wait - remaining + elapsed)

IInv == TypeOK /\ EagerInv /\ HealthyInv /\ WaitInv

LEMMA InitIInv == Init => IInv
BY ClockAssumption DEF Init, IInv, TypeOK, EagerInv, HealthyInv, WaitInv, Announcements

\* A launch leads to a child whose counter is n, or, unwatched, to a healthy one.
LEMMA LaunchStep ==
    ASSUME TypeOK, HealthyInv, NEW n \in Nat, Launch(n), UNCHANGED config
    PROVE  /\ phase' \in {"startup", "running"}
           /\ count' \in Nat /\ remaining' \in Nat /\ elapsed' = 0 /\ age' = 0
           /\ notified' = 0
           /\ phase' = "startup" => count' = n
           /\ HealthyInv' /\ WaitInv'
BY DEF Launch, TypeOK, HealthyInv, WaitInv, AfterHealthyStart, config

\* Decide without a wait: the counter was zero, so at most one eager restart results.
LEMMA DecideStep ==
    ASSUME IInv, Decide PROVE IInv'
<1> DEFINE plan == NextPlan(count, restartDelay)
<1> USE DEF IInv
<1>1. /\ count \in Nat /\ restartDelay \in Nat
      /\ phase = "deciding"
      /\ UNCHANGED <<config, lastRun, lastExit>>
  BY DEF Decide, TypeOK
<1>2. /\ plan.count = count + 1 /\ plan.wait \in Nat
      /\ count = 0 => plan.wait = 0
      /\ count # 0 => plan.wait > 0 /\ plan.wait >= restartDelay
  BY <1>1, PlanFacts
<1>3. CASE /\ plan.wait = 0
           /\ Launch(plan.count)
           /\ wait' = 0
           /\ eager' = IF lastExit = "early" THEN eager + 1 ELSE 0
           /\ UNCHANGED announced
  <2>1. count = 0 /\ plan.count = 1
    BY <1>1, <1>2, <1>3
  <2>2. /\ phase' \in {"startup", "running"}
        /\ count' \in Nat /\ remaining' \in Nat /\ elapsed' = 0 /\ age' = 0
        /\ notified' = 0
        /\ phase' = "startup" => count' = 1
        /\ HealthyInv' /\ WaitInv'
    BY <1>1, <1>3, <2>1, LaunchStep
  <2>3. eager' \in {0, 1}
    BY <1>1, <1>3, <2>1 DEF EagerInv
  <2>4. TypeOK'
    BY <1>1, <1>3, <2>2, <2>3 DEF TypeOK, config
  <2>5. QED
    BY <2>2, <2>3, <2>4 DEF EagerInv
<1>4. CASE /\ plan.wait > 0
           /\ phase' = "waiting"
           /\ count' = plan.count
           /\ remaining' = plan.wait
           /\ elapsed' = 0
           /\ age' = 0
           /\ notified' = 0
           /\ wait' = plan.wait
           /\ eager' = 0
           /\ announced' \in {"Throttled", "RestartDelay"}
  <2>1. plan.wait >= restartDelay
    BY <1>1, <1>2, <1>4
  <2>2. TypeOK'
    BY <1>1, <1>2, <1>4 DEF TypeOK, config, Announcements
  <2>3. EagerInv' /\ HealthyInv'
    BY <1>1, <1>4 DEF EagerInv, HealthyInv, config
  <2>4. WaitInv'
    BY <1>1, <1>2, <1>4, <2>1, ClockAssumption DEF WaitInv, config, Slice, Bounded
  <2>5. QED
    BY <2>2, <2>3, <2>4
<1>5. QED
  BY <1>3, <1>4 DEF Decide

LEMMA StepIInv == IInv /\ [Next]_vars => IInv'
<1> SUFFICES ASSUME IInv, [Next]_vars PROVE IInv'
  OBVIOUS
<1> USE ClockAssumption DEF IInv, config, history
<1>1. CASE Decide
  BY <1>1, DecideStep
<1>2. CASE Tick
  <2>1. TypeOK'
    BY <1>2 DEF Tick, TypeOK, Bounded
  <2>2. EagerInv' /\ HealthyInv'
    BY <1>2 DEF Tick, EagerInv, HealthyInv
  <2>3. WaitInv'
    BY <1>2 DEF Tick, TypeOK, WaitInv, Slice, Bounded
  <2>4. QED
    BY <2>1, <2>2, <2>3
<1>3. CASE Notify
  <2>1. TypeOK'
    BY <1>3 DEF Notify, TypeOK
  <2>2. EagerInv' /\ HealthyInv'
    BY <1>3 DEF Notify, EagerInv, HealthyInv
  <2>3. WaitInv'
    BY <1>3 DEF Notify, TypeOK, WaitInv, Slice, Bounded
  <2>4. QED
    BY <2>1, <2>2, <2>3
<1>4. CASE SliceEnds
  <2>1. Slice \in Nat /\ remaining - Slice \in Nat
    BY <1>4 DEF SliceEnds, TypeOK, Slice
  <2>2. TypeOK'
    BY <1>4, <2>1 DEF SliceEnds, TypeOK
  <2>3. EagerInv' /\ HealthyInv'
    BY <1>4 DEF SliceEnds, EagerInv, HealthyInv
  <2>4. WaitInv'
    BY <1>4, <2>1 DEF SliceEnds, TypeOK, WaitInv, Slice, Bounded
  <2>5. QED
    BY <2>2, <2>3, <2>4
<1>5. CASE WaitEnds
  <2>1. count \in Nat /\ eager = 0
    BY <1>5 DEF WaitEnds, TypeOK, EagerInv
  <2>2. /\ phase' \in {"startup", "running"}
        /\ count' \in Nat /\ remaining' \in Nat /\ elapsed' = 0 /\ age' = 0
        /\ notified' = 0
        /\ HealthyInv' /\ WaitInv'
    BY <1>5, <2>1, LaunchStep DEF WaitEnds
  <2>3. QED
    BY <1>5, <2>1, <2>2 DEF WaitEnds, TypeOK, EagerInv
<1>6. CASE Continue
  <2>1. eager = 0
    BY <1>6 DEF Continue, EagerInv
  <2>2. /\ phase' \in {"startup", "running"}
        /\ count' \in Nat /\ remaining' \in Nat /\ elapsed' = 0 /\ age' = 0
        /\ notified' = 0
        /\ HealthyInv' /\ WaitInv'
    BY <1>6, LaunchStep DEF Continue
  <2>3. QED
    BY <1>6, <2>1, <2>2 DEF Continue, TypeOK, EagerInv, Announcements
<1>7. CASE BecomesHealthy
  BY <1>7 DEF BecomesHealthy, TypeOK, EagerInv, HealthyInv, WaitInv, AfterHealthyStart
<1>8. CASE ChildExits
  BY <1>8 DEF ChildExits, TypeOK, EagerInv, HealthyInv, WaitInv
<1>9. CASE UNCHANGED vars
  BY <1>9 DEF vars, clock, TypeOK, EagerInv, HealthyInv, WaitInv, Slice, Bounded
<1>10. QED
  BY <1>1, <1>2, <1>3, <1>4, <1>5, <1>6, <1>7, <1>8, <1>9 DEF Next

THEOREM ClockInductive == Spec => []IInv
BY InitIInv, StepIInv, PTL DEF Spec

(* Whatever the threshold, the restart delay and the notifications, a      *)
(* child that keeps dying early is never restarted twice in a row without  *)
(* a wait.                                                                 *)
THEOREM NoHotRestartLoop == Spec => []AtMostOneEagerRestart
<1>1. IInv => AtMostOneEagerRestart
  BY DEF IInv, EagerInv, AtMostOneEagerRestart
<1>2. QED
  BY <1>1, ClockInductive, PTL

(* Whatever the length of the slices and however notifications interrupt   *)
(* them, a restart after a healthy run comes at least AppRestartDelay      *)
(* after the exit, unless CONTINUE asked for it.                           *)
THEOREM RestartDelayHonoured == Spec => HealthyRestartDelayed
<1> DEFINE A == /\ phase \in {"deciding", "waiting"}
                /\ phase' \in {"startup", "running"}
                /\ lastExit = "healthy"
                /\ announced' # "ResetThrottle"
                => age >= restartDelay
<1>1. IInv /\ [Next]_vars => A \/ UNCHANGED vars
  <2> SUFFICES ASSUME IInv, Next,
                      phase \in {"deciding", "waiting"},
                      phase' \in {"startup", "running"},
                      lastExit = "healthy",
                      announced' # "ResetThrottle"
               PROVE  age >= restartDelay
    OBVIOUS
  <2> USE DEF IInv
  <2>1. CASE Decide
    <3>1. count = AfterHealthyStart(restartDelay) /\ count \in Nat /\ restartDelay \in Nat
      BY <2>1 DEF Decide, HealthyInv, TypeOK
    <3>2. NextPlan(count, restartDelay).wait = 0
      BY <2>1 DEF Decide
    <3>3. restartDelay = 0
      BY <3>1, <3>2, PlanFacts DEF AfterHealthyStart
    <3>4. QED
      BY <3>3 DEF TypeOK
  <2>2. CASE WaitEnds
    <3>1. wait >= restartDelay /\ age >= Bounded(wait) /\ restartDelay <= MaxAge
      BY <2>2 DEF WaitEnds, WaitInv, HealthyInv, TypeOK
    <3>2. QED
      BY <3>1, ClockAssumption DEF Bounded, TypeOK
  <2>3. ~Continue
    BY DEF Continue
  <2>4. QED
    BY <2>1, <2>2, <2>3 DEF Next, Tick, Notify, SliceEnds, BecomesHealthy, ChildExits
<1>2. QED
  BY <1>1, ClockInductive, PTL DEF Spec, HealthyRestartDelayed

-----------------------------------------------------------------------------
(* What a wait is: the one planned for the counter, unless a CONTINUE or a *)
(* free start made it nothing, and for a reason that is on record.         *)

PlannedInv == /\ (phase \in {"waiting", "startup"}
                    \/ (phase = "deciding" /\ lastExit = "early"))
                 => wait = 0 \/ (count > 0 /\ wait = NextPlan(count - 1, restartDelay).wait)
              /\ phase = "waiting" /\ announced = "RestartDelay" => wait = restartDelay

LEMMA InitPlanned == Init => PlannedInv
BY DEF Init, PlannedInv

LEMMA StepPlanned ==
    ASSUME IInv, PlannedInv, [Next]_vars PROVE PlannedInv'
<1> USE DEF config, history
<1>0. count \in Nat /\ restartDelay \in Nat /\ wait \in Nat
  BY DEF IInv, TypeOK
<1>1. CASE Decide
  <2> DEFINE plan == NextPlan(count, restartDelay)
  <2>1. phase = "deciding" /\ UNCHANGED config
    BY <1>1 DEF Decide
  <2>2. plan.count = count + 1
    BY <1>0, PlanFacts
  <2>3. CASE plan.wait = 0 /\ Launch(plan.count) /\ wait' = 0
    BY <2>3 DEF PlannedInv, Launch
  <2>4. CASE /\ plan.wait > 0 /\ phase' = "waiting" /\ count' = plan.count
             /\ wait' = plan.wait
             /\ announced' = IF plan.throttled THEN "Throttled" ELSE "RestartDelay"
    <3>1. count' > 0 /\ wait' = NextPlan(count' - 1, restartDelay').wait
      BY <1>0, <2>1, <2>2, <2>4
    <3>2. announced' = "RestartDelay" => wait' = restartDelay'
      BY <1>0, <2>1, <2>4, DelayedPlan
    <3>3. QED
      BY <3>1, <3>2 DEF PlannedInv
  <2>5. QED
    BY <1>1, <2>3, <2>4 DEF Decide
<1>2. CASE Tick
  BY <1>2 DEF Tick, PlannedInv
<1>3. CASE Notify
  BY <1>3 DEF Notify, PlannedInv
<1>4. CASE SliceEnds
  BY <1>4 DEF SliceEnds, PlannedInv
<1>5. CASE WaitEnds
  BY <1>5 DEF WaitEnds, Launch, PlannedInv
<1>6. CASE Continue
  BY <1>6 DEF Continue, Launch, PlannedInv
<1>7. CASE BecomesHealthy
  BY <1>7 DEF BecomesHealthy, PlannedInv
<1>8. CASE ChildExits
  BY <1>8 DEF ChildExits, PlannedInv
<1>9. CASE UNCHANGED vars
  BY <1>9 DEF vars, PlannedInv
<1>10. QED
  BY <1>1, <1>2, <1>3, <1>4, <1>5, <1>6, <1>7, <1>8, <1>9 DEF Next

THEOREM WaitsArePlanned == Spec => []PlannedInv
BY InitPlanned, StepPlanned, ClockInductive, PTL DEF Spec

(* Whatever the delays and the number of starts, the wait that event 1072  *)
(* announces is the administrator's restart delay.                         *)
THEOREM RestartDelayRecordsAreTrue == Spec => []RestartDelayRecordIsTrue
<1>1. PlannedInv => RestartDelayRecordIsTrue
  BY DEF PlannedInv, RestartDelayRecordIsTrue
<1>2. QED
  BY <1>1, WaitsArePlanned, PTL

(* However often a child exits early, each wait is at least as long as the *)
(* one before, unless CONTINUE came between.                               *)
THEOREM BackoffGrows == Spec => BackoffNeverShrinks
<1> DEFINE A == phase = "deciding" /\ phase' = "waiting" /\ lastExit = "early"
                  => wait' >= wait
<1>1. IInv /\ PlannedInv /\ [Next]_vars => A \/ UNCHANGED vars
  <2> SUFFICES ASSUME IInv, PlannedInv, Next,
                      phase = "deciding", phase' = "waiting", lastExit = "early"
               PROVE  wait' >= wait
    OBVIOUS
  <2>1. Decide
    BY DEF Next, Tick, Notify, SliceEnds, WaitEnds, Continue, BecomesHealthy, ChildExits,
           Launch
  <2>2. wait' = NextPlan(count, restartDelay).wait
    BY <2>1 DEF Decide, Launch
  <2>3. count \in Nat /\ restartDelay \in Nat
    BY DEF IInv, TypeOK
  <2>4. CASE wait = 0
    BY <2>2, <2>3, <2>4, PlanFacts
  <2>5. CASE count > 0 /\ wait = NextPlan(count - 1, restartDelay).wait
    <3>1. count \in Nat \ {0}
      BY <2>3, <2>5
    <3>2. /\ NextPlan(count - 1, restartDelay).wait \in Nat
          /\ NextPlan(count, restartDelay).wait \in Nat
      BY <2>3, <3>1, PlanFacts
    <3>3. QED
      BY <2>2, <2>3, <2>5, <3>1, <3>2, WaitGrows
  <2>6. QED
    BY <2>4, <2>5 DEF PlannedInv
<1>2. QED
  BY <1>1, ClockInductive, WaitsArePlanned, PTL DEF Spec, BackoffNeverShrinks
=============================================================================
