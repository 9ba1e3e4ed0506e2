-------------------------- MODULE SupervisorProofs --------------------------
(***************************************************************************)
(* Proofs about the supervisor for every set of processes, controls,       *)
(* configurations, hooks, exit actions and faults and for every capacity   *)
(* of the event queue: its type invariant, its safety properties, and that *)
(* its steps are those of ServiceLifecycle.tla.                            *)
(*                                                                         *)
(* IInv is the inductive invariant.  FlowInv relates the place of the      *)
(* goroutine to its own variables; ExitInv relates it to the exits that    *)
(* are on their way through the queue.  LifeInv, for the lifecycle, relates*)
(* it to what the SCM was told and to the stops on their way.              *)
(***************************************************************************)
EXTENDS Supervisor, MultiplicityLemmas

-----------------------------------------------------------------------------
(* What the operations of the queue do to the exits in flight.             *)

InQueue(p, f) == Q!InFlight(exit(p, f))

LEMMA EventShapes ==
    /\ \A c, p, f : control(c) # exit(p, f)
    /\ \A p, q, f, g : exit(p, f) = exit(q, g) <=> p = q /\ f = g
    /\ \A p \in Process, f \in Results : exit(p, f) \in Event
<1>1. ASSUME NEW c, NEW p, NEW f PROVE control(c) # exit(p, f)
  <2>1. control(c).kind = "control" /\ exit(p, f).kind = "exit"
    BY DEF control, exit
  <2>2. QED
    BY <2>1
<1>2. ASSUME NEW p, NEW q, NEW f, NEW g PROVE exit(p, f) = exit(q, g) <=> p = q /\ f = g
  BY DEF exit
<1>3. ASSUME NEW p \in Process, NEW f \in Results PROVE exit(p, f) \in Event
  BY DEF Event
<1>4. QED
  BY <1>1, <1>2, <1>3

\* The queue of this instance counts as Multiplicity does.
LEMMA SameCount == \A s, e : Q!Buffered(s, e) = Buffered(s, e)
<1>1. ASSUME NEW s, NEW e PROVE Q!Buffered(s, e) = Buffered(s, e)
  <2>1. Q!Places(s, e) = Places(s, e)
    BY DEF Q!Places, Places
  <2>2. Q!Cardinality(Places(s, e)) = Cardinality(Places(s, e))
    BY DEF Q!Cardinality, Cardinality
  <2>3. QED
    BY <2>1, <2>2 DEF Q!Buffered, Buffered
<1>2. QED
  BY <1>1

LEMMA InFlightNat ==
    ASSUME Q!TypeOK
    PROVE  \A e \in Event : Q!InFlight(e) \in Nat
<1>1. ASSUME NEW e \in Event PROVE Q!InFlight(e) \in Nat
  <2>1. Buffered(events, e) \in Nat /\ forwarders[e] \in Nat
    BY BufferedNat DEF Q!TypeOK
  <2>2. QED
    BY <2>1, SameCount DEF Q!InFlight
<1>2. QED
  BY <1>1

LEMMA InFlightNatNext ==
    ASSUME Q!TypeOK'
    PROVE  \A e \in Event : Q!InFlight(e)' \in Nat
<1>1. ASSUME NEW e \in Event PROVE Q!InFlight(e)' \in Nat
  <2>1. Buffered(events', e) \in Nat /\ forwarders'[e] \in Nat
    BY BufferedNat DEF Q!TypeOK
  <2>2. QED
    BY <2>1, SameCount DEF Q!InFlight
<1>2. QED
  BY <1>1

\* An operation changes the count of its own event only, and by one.
LEMMA QueueStep ==
    ASSUME Q!TypeOK, NEW x
    PROVE  /\ x \in Event /\ Q!Enqueue(x) =>
                \A e \in Event : Q!InFlight(e)' = Q!InFlight(e) + (IF x = e THEN 1 ELSE 0)
           /\ Q!Dequeue(x) =>
                \A e \in Event : Q!InFlight(e) = Q!InFlight(e)' + (IF x = e THEN 1 ELSE 0)
           /\ x \in Event /\ (Q!Forward(x) \/ Q!Release(x)) =>
                \A e \in Event : Q!InFlight(e)' <= Q!InFlight(e)
<1> USE DEF Q!TypeOK, Q!InFlight
<1>1. \A e : Q!Buffered(events, e) = Buffered(events, e)
             /\ Q!Buffered(events', e) = Buffered(events', e)
  BY SameCount
<1>2. \A e : Buffered(events, e) \in Nat
  BY BufferedNat
<1>3. ASSUME NEW e \in Event, x \in Event, Q!Enqueue(x)
      PROVE  Q!InFlight(e)' = Q!InFlight(e) + (IF x = e THEN 1 ELSE 0)
  <2>1. CASE events' = Append(events, x) /\ forwarders' = forwarders
    BY <1>1, <1>2, <1>3, <2>1, BufferedAppend
  <2>2. CASE forwarders' = [forwarders EXCEPT ![x] = @ + 1] /\ events' = events
    BY <1>1, <1>2, <1>3, <2>2
  <2>3. QED
    BY <1>3, <2>1, <2>2 DEF Q!Enqueue
<1>4. ASSUME NEW e \in Event, Q!Dequeue(x)
      PROVE  Q!InFlight(e) = Q!InFlight(e)' + (IF x = e THEN 1 ELSE 0)
  <2>1. events # <<>> /\ events' = Tail(events) /\ x = Head(events) /\ forwarders' = forwarders
    BY <1>4 DEF Q!Dequeue
  <2>2. Buffered(events, e) = Buffered(events', e) + (IF x = e THEN 1 ELSE 0)
    BY <2>1, BufferedTail
  <2>3. Buffered(events', e) \in Nat
    <3>1. Tail(events) \in Seq(Event)
      BY <2>1
    <3>2. QED
      BY <2>1, <3>1, BufferedNat
  <2>4. QED
    BY <1>1, <1>2, <2>1, <2>2, <2>3
<1>5. ASSUME NEW e \in Event, x \in Event, Q!Forward(x) \/ Q!Release(x)
      PROVE  Q!InFlight(e)' <= Q!InFlight(e)
  <2>1. forwarders' = [forwarders EXCEPT ![x] = @ - 1] /\ forwarders[x] > 0
    BY <1>5 DEF Q!Forward, Q!Release
  <2>2. forwarders'[e] = forwarders[e] - (IF x = e THEN 1 ELSE 0)
    BY <1>5, <2>1
  <2>3. CASE events' = Append(events, x)
    <3>1. Buffered(events', e) = Buffered(events, e) + (IF x = e THEN 1 ELSE 0)
      BY <1>5, <2>3, BufferedAppend
    <3>2. QED
      BY <1>1, <1>2, <2>2, <3>1
  <2>4. CASE events' = events
    BY <1>1, <1>2, <2>2, <2>4
  <2>5. QED
    BY <1>5, <2>3, <2>4 DEF Q!Forward, Q!Release
<1>6. QED
  BY <1>3, <1>4, <1>5

\* The exits in flight stay as they are.
SameExits == \A p \in Process, f \in Results : InQueue(p, f)' = InQueue(p, f)

LEMMA SameExitsSteps ==
    ASSUME Q!TypeOK
    PROVE  /\ UNCHANGED queue => SameExits
           /\ Q!Close => SameExits
           /\ \A c : On(c) => SameExits
           /\ \A c \in Controls : Q!Enqueue(control(c)) => SameExits
<1> USE DEF InQueue, SameExits
<1>1. ASSUME events' = events, forwarders' = forwarders PROVE SameExits
  BY <1>1, SameCount DEF Q!InFlight
<1>2. UNCHANGED queue => SameExits
  BY <1>1 DEF queue
<1>3. Q!Close => SameExits
  BY <1>1 DEF Q!Close
<1>4. ASSUME NEW c, On(c) PROVE SameExits
  <2>1. ASSUME NEW p \in Process, NEW f \in Results PROVE InQueue(p, f)' = InQueue(p, f)
    <3>1. exit(p, f) \in Event /\ control(c) # exit(p, f)
      BY EventShapes
    <3>2. Q!InFlight(exit(p, f)) = Q!InFlight(exit(p, f))' + 0
      BY <1>4, <3>1, QueueStep DEF On, Receive
    <3>3. Q!InFlight(exit(p, f))' \in Nat
      <4>1. Buffered(events', exit(p, f)) \in Nat /\ forwarders'[exit(p, f)] \in Nat
        <5>1. events' \in Seq(Event) /\ forwarders' = forwarders
          BY <1>4 DEF On, Receive, Q!Dequeue, Q!TypeOK
        <5>2. QED
          BY <3>1, <5>1, BufferedNat DEF Q!TypeOK
      <4>2. QED
        BY <4>1, SameCount DEF Q!InFlight
    <3>4. QED
      BY <3>2, <3>3
  <2>2. QED
    BY <2>1
<1>5. ASSUME NEW c \in Controls, Q!Enqueue(control(c)) PROVE SameExits
  <2>1. ASSUME NEW p \in Process, NEW f \in Results PROVE InQueue(p, f)' = InQueue(p, f)
    <3>1. exit(p, f) \in Event /\ control(c) \in Event /\ control(c) # exit(p, f)
      BY EventShapes DEF Event
    <3>2. Q!InFlight(exit(p, f))' = Q!InFlight(exit(p, f)) + 0 /\ Q!InFlight(exit(p, f)) \in Nat
      BY <1>5, <3>1, QueueStep, InFlightNat
    <3>3. QED
      BY <3>2
  <2>2. QED
    BY <2>1
<1>6. QED
  BY <1>2, <1>3, <1>4, <1>5

\* A received exit was in flight and leaves one of it less.
LEMMA ExitReceived ==
    ASSUME Q!TypeOK, NEW q \in Process, NEW g \in Results, Receive(exit(q, g))
    PROVE  \A p \in Process, f \in Results :
              /\ InQueue(p, f)' \in Nat
              /\ InQueue(p, f) = InQueue(p, f)' + (IF p = q /\ f = g THEN 1 ELSE 0)
<1>1. ASSUME NEW p \in Process, NEW f \in Results
      PROVE  /\ InQueue(p, f)' \in Nat
             /\ InQueue(p, f) = InQueue(p, f)' + (IF p = q /\ f = g THEN 1 ELSE 0)
  <2>1. exit(p, f) \in Event /\ (exit(q, g) = exit(p, f) <=> p = q /\ f = g)
    BY EventShapes
  <2>2. Q!InFlight(exit(p, f))' \in Nat
    <3>1. events' \in Seq(Event) /\ forwarders' = forwarders
      BY DEF Receive, Q!Dequeue, Q!TypeOK
    <3>2. Buffered(events', exit(p, f)) \in Nat /\ forwarders'[exit(p, f)] \in Nat
      BY <2>1, <3>1, BufferedNat DEF Q!TypeOK
    <3>3. QED
      BY <3>2, SameCount DEF Q!InFlight
  <2>3. QED
    BY <2>1, <2>2, QueueStep DEF Receive, InQueue
<1>2. QED
  BY <1>1

\* A reported exit is in flight once more.
LEMMA ExitEnqueued ==
    ASSUME Q!TypeOK, NEW q \in Process, NEW g \in Results, Q!Enqueue(exit(q, g))
    PROVE  \A p \in Process, f \in Results :
              InQueue(p, f)' = InQueue(p, f) + (IF p = q /\ f = g THEN 1 ELSE 0)
BY EventShapes, QueueStep DEF InQueue

LEMMA ExitForwarded ==
    ASSUME Q!TypeOK, NEW e \in Event, Q!Forward(e) \/ Q!Release(e)
    PROVE  \A p \in Process, f \in Results : InQueue(p, f)' <= InQueue(p, f)
BY EventShapes, QueueStep DEF InQueue

-----------------------------------------------------------------------------
(* The type invariant.                                                     *)

LEMMA QueueTypes ==
    ASSUME Q!TypeOK
    PROVE  /\ UNCHANGED queue => Q!TypeOK'
           /\ \A e : Q!Dequeue(e) => Q!TypeOK'
           /\ \A e \in Event : Q!Enqueue(e) \/ Q!Forward(e) \/ Q!Release(e) => Q!TypeOK'
           /\ Q!Close => Q!TypeOK'
<1> USE SupervisorAssumption DEF Q!TypeOK
<1>1. UNCHANGED queue => Q!TypeOK'
  BY DEF queue
<1>2. ASSUME NEW e, Q!Dequeue(e) PROVE Q!TypeOK'
  <2>1. Tail(events) \in Seq(Event) /\ Len(Tail(events)) = Len(events) - 1
    BY <1>2 DEF Q!Dequeue
  <2>2. Len(events) \in Nat
    OBVIOUS
  <2>3. QED
    BY <1>2, <2>1, <2>2 DEF Q!Dequeue
<1>3. ASSUME NEW e \in Event, Q!HasRoom, events' = Append(events, e)
      PROVE  events' \in Seq(Event) /\ Len(events') <= EventQueueCapacity
  <2>1. Append(events, e) \in Seq(Event) /\ Len(Append(events, e)) = Len(events) + 1
    OBVIOUS
  <2>2. Len(events) \in Nat /\ Len(events) < EventQueueCapacity
    BY <1>3 DEF Q!HasRoom
  <2>3. QED
    BY <1>3, <2>1, <2>2
<1>4. ASSUME NEW e \in Event, Q!Enqueue(e) PROVE Q!TypeOK'
  BY <1>3, <1>4 DEF Q!Enqueue
<1>5. ASSUME NEW e \in Event, Q!Forward(e) PROVE Q!TypeOK'
  BY <1>3, <1>5 DEF Q!Forward
<1>6. ASSUME NEW e \in Event, Q!Release(e) PROVE Q!TypeOK'
  BY <1>6 DEF Q!Release
<1>7. Q!Close => Q!TypeOK'
  BY DEF Q!Close
<1>8. QED
  BY <1>1, <1>2, <1>4, <1>5, <1>6, <1>7

\* What the arguments of a wait come to.
LEMMA SlicesNat == \A t \in Nat : Slices(t) \in Nat
BY SupervisorAssumption DEF Slices

\* Whatever is reported, both sides hold a service state.
LEMMA ReportTypes ==
    ASSUME TypeOK, NEW s \in States
    PROVE  /\ ReportIgnored(s) => status' \in States /\ scm' \in States
           /\ ProgressReported \/ ProgressFailed => status' \in States /\ scm' \in States
BY DEF TypeOK, ReportIgnored, Reported, ReportFailed, ProgressReported, ProgressFailed,
        reports

LEMMA PrepareStopTypes ==
    ASSUME TypeOK, NEW next \in PCs, PrepareStop(next)
    PROVE  /\ pc' \in PCs /\ ret' \in PCs /\ hook' \in Hooks \cup {"none"}
           /\ stopHookRun' \in BOOLEAN /\ outcome' = outcome
           /\ status' \in States /\ scm' \in States
<1>1. CASE stopHookRun
  BY <1>1 DEF PrepareStop, TypeOK, reports
<1>2. CASE ~stopHookRun
  <2>1. "StopPending" \in States /\ "hook" \in PCs /\ "Stop/Pre" \in Hooks
    BY DEF States, PCs, Hooks
  <2>2. ReportIgnored("StopPending") /\ RunSync("Stop/Pre", next) /\ stopHookRun' = TRUE
        /\ outcome' = outcome
    BY <1>2 DEF PrepareStop
  <2>3. status' \in States /\ scm' \in States
    BY <2>1, <2>2, ReportTypes
  <2>4. pc' \in PCs /\ ret' \in PCs /\ hook' \in Hooks \cup {"none"}
    BY <2>1, <2>2 DEF RunSync, TypeOK
  <2>5. QED
    BY <2>2, <2>3, <2>4
<1>3. QED
  BY <1>1, <1>2

\* The numbers of a plan.
LEMMA PlanNat ==
    ASSUME NEW c \in Nat, NEW d \in Nat
    PROVE  NextPlan(c, d).count \in Nat /\ NextPlan(c, d).wait \in Nat
<1>1. Clamp(c + 1) - 1 \in 0..(ThrottleExponentMax - 1)
  BY ThrottleAssumption DEF Clamp
<1>2. 2 ^ (Clamp(c + 1) - 1) \in Nat
  BY <1>1, PowersArePositive
<1>3. \A x \in Nat : ThrottleBase * x \in Nat
  BY ThrottleAssumption
<1>4. Delay(c + 1) \in Nat
  BY <1>2, <1>3 DEF Delay
<1>5. QED
  BY <1>4 DEF NextPlan, LargerOf

LEMMA SuperviseTypes == TypeOK /\ Supervise => TypeOK'
<1> SUFFICES ASSUME TypeOK, Supervise PROVE TypeOK'
  OBVIOUS
<1> USE DEF TypeOK, PCs, States, Hooks, StopCodes, flow, plan, kids, ending, reports
<1>1. CASE Boot
  <2>1. Q!TypeOK'
    BY <1>1, QueueTypes DEF Boot, Reported, ReportFailed
  <2>2. QED
    BY <1>1, <2>1 DEF Boot, Reported, ReportFailed
<1>2. CASE Load
  <2>1. Q!TypeOK'
    BY <1>2, QueueTypes DEF Load
  <2>2. QED
    BY <1>2, <2>1 DEF Load
<1>3. CASE Plan
  <2> DEFINE next == NextPlan(count, config.restartDelay)
  <2>1. config.restartDelay \in Nat
    BY SupervisorAssumption DEF Config
  <2>2. next.count \in Nat /\ next.wait \in Nat
    BY <2>1, PlanNat
  <2>3. Saturated(next.count) \in Nat /\ Slices(next.wait) \in Nat
    BY <2>2, SlicesNat, ThrottleAssumption DEF Saturated
  <2>4. Q!TypeOK'
    BY <1>3, QueueTypes DEF Plan
  <2> HIDE DEF next
  <2>5. QED
    BY <1>3, <2>3, <2>4 DEF Plan, EnterWait, Reported, ReportFailed, next
<1>4. CASE WaitSlice
  <2>1. Q!TypeOK'
    BY <1>4, QueueTypes DEF WaitSlice
  <2>2. remaining' \in Nat
    BY <1>4 DEF WaitSlice
  <2>3. pc' \in PCs /\ status' \in States /\ scm' \in States
    BY <1>4, ReportTypes DEF WaitSlice, AfterWait
  <2>4. QED
    BY <1>4, <2>1, <2>2, <2>3 DEF WaitSlice
<1>5. CASE WaitStop
  <2>1. Q!TypeOK'
    BY <1>5, QueueTypes DEF WaitStop, OnStop, On, Receive
  <2>2. PrepareStop("finish")
    BY <1>5 DEF WaitStop
  <2>3. QED
    BY <1>5, <2>1, <2>2, PrepareStopTypes DEF WaitStop
<1>6. CASE WaitContinue
  <2>1. Q!TypeOK'
    BY <1>6, QueueTypes DEF WaitContinue, On, Receive, AfterWait
  <2>2. QED
    BY <1>6, <2>1 DEF WaitContinue, On, Receive, AfterWait
<1>8. CASE ServeControl
  <2>1. Q!TypeOK'
    BY <1>8, QueueTypes DEF ServeControl, On, Receive, ProgressReported, ProgressFailed,
            OnReportError, RunAsync, RunSync
  <2>2. QED
    BY <1>8, <2>1 DEF ServeControl, On, Receive, ProgressReported, ProgressFailed,
            OnReportError, RunAsync, RunSync
<1>9. CASE SkipEvent
  <2>1. Q!TypeOK'
    BY <1>9, QueueTypes DEF SkipEvent, IgnoredControl, StaleExit, On, OnStop, Receive
  <2>2. QED
    BY <1>9, <2>1 DEF SkipEvent
<1>10. CASE Recheck
  <2>1. Q!TypeOK'
    BY <1>10, QueueTypes DEF Recheck
  <2>2. CASE PrepareStop("finish")
    BY <1>10, <2>1, <2>2, PrepareStopTypes DEF Recheck
  <2>3. CASE ~PrepareStop("finish")
    BY <1>10, <2>1, <2>3 DEF Recheck, Reported, ReportFailed
  <2>4. QED
    BY <2>2, <2>3
<1>11. CASE Open
  <2>1. Q!TypeOK'
    BY <1>11, QueueTypes DEF Open
  <2>3. QED
    BY <1>11, <2>1 DEF Open, ReportIgnored, Reported, ReportFailed, RunSync
<1>12. CASE Spawn
  <2>1. Q!TypeOK'
    BY <1>12, QueueTypes DEF Spawn
  <2>2. Slices(config.threshold) \in Nat
    BY SlicesNat, SupervisorAssumption DEF Config
  <2>3. QED
    BY <1>12, <2>1, <2>2 DEF Spawn
<1>13. CASE SpawnFails
  <2>1. Q!TypeOK'
    BY <1>13, QueueTypes DEF SpawnFails
  <2>2. QED
    BY <1>13, <2>1 DEF SpawnFails
<1>14. CASE AfterFailedStart
  <2>1. Q!TypeOK'
    BY <1>14, QueueTypes DEF AfterFailedStart
  <2>2. Slices(RestartRetrySleep) \in Nat
    BY SlicesNat, SupervisorAssumption
  <2>3. CASE PrepareStop("finish") /\ UNCHANGED <<waitState, remaining>>
    BY <1>14, <2>1, <2>3, PrepareStopTypes DEF AfterFailedStart
  <2>4. CASE pc' = "failed" /\ UNCHANGED <<ret, hook, ending, waitState, remaining, reports>>
    BY <1>14, <2>1, <2>4 DEF AfterFailedStart
  <2>5. CASE EnterWait(RestartRetrySleep, "StartPending") /\ UNCHANGED <<ret, hook, ending>>
    BY <1>14, <2>1, <2>2, <2>5 DEF AfterFailedStart, EnterWait, Reported, ReportFailed
  <2>6. QED
    BY <1>14, <2>3, <2>4, <2>5 DEF AfterFailedStart
<1>15. CASE StartupSlice
  <2>1. Q!TypeOK'
    BY <1>15, QueueTypes DEF StartupSlice
  <2>2. remaining' \in Nat
    BY <1>15 DEF StartupSlice
  <2>3. pc' \in PCs /\ status' \in States /\ scm' \in States
    BY <1>15, ReportTypes DEF StartupSlice
  <2>4. QED
    BY <1>15, <2>1, <2>2, <2>3 DEF StartupSlice
<1>16. CASE ChildStop
  <2>1. Q!TypeOK'
    BY <1>16, QueueTypes DEF ChildStop, On, OnStop, Receive
  <2>2. QED
    BY <1>16, <2>1 DEF ChildStop, On, OnStop, Receive
<1>17. CASE ChildEnded
  <2>1. Q!TypeOK'
    BY <1>17, QueueTypes DEF ChildEnded, Receive
  <2>2. QED
    BY <1>17, <2>1 DEF ChildEnded, Receive
<1>18. CASE BecomesHealthy
  <2>1. Q!TypeOK'
    BY <1>18, QueueTypes DEF BecomesHealthy, Reported, ReportFailed, RunAsync,
            AfterHealthyStart
  <2>2. QED
    BY <1>18, <2>1 DEF BecomesHealthy, Reported, ReportFailed, RunAsync, AfterHealthyStart
<1>19. CASE Collect
  <2>1. Q!TypeOK'
    BY <1>19, QueueTypes DEF Collect
  <2>2. /\ process' = NoProcess /\ redirect' = "closed" /\ asyncHooks' \in Nat
        /\ UNCHANGED <<running, watching, lateStarts>>
    BY <1>19 DEF Collect, Collected, RunAsync
  <2>3. pc' \in PCs /\ restarting' \in BOOLEAN /\ status' \in States /\ scm' \in States
    BY <1>19, ReportTypes DEF Collect, TreeProgress, Reported, ReportFailed
  <2>4. QED
    BY <1>19, <2>1, <2>2, <2>3 DEF Collect
<1>20. CASE Suicide
  <2>1. Q!TypeOK'
    BY <1>20, QueueTypes DEF Suicide, ReportIgnored, Reported, ReportFailed
  <2>2. QED
    BY <1>20, <2>1 DEF Suicide, ReportIgnored, Reported, ReportFailed
<1>21. CASE IgnoredStop
  <2>1. Q!TypeOK'
    BY <1>21, QueueTypes DEF IgnoredStop, OnStop, On, Receive
  <2>2. PrepareStop("finish")
    BY <1>21 DEF IgnoredStop
  <2>3. QED
    BY <1>21, <2>1, <2>2, PrepareStopTypes DEF IgnoredStop
<1>22. CASE Stopping
  <2>1. Q!TypeOK'
    BY <1>22, QueueTypes DEF Stopping
  <2>2. PrepareStop("stopTree")
    BY <1>22 DEF Stopping
  <2>3. QED
    BY <1>22, <2>1, <2>2, PrepareStopTypes, ZenonT(40) DEF Stopping
<1>23. CASE StopTree
  <2>1. Q!TypeOK'
    BY <1>23, QueueTypes DEF StopTree, ProgressReported
  <2>2. QED
    BY <1>23, <2>1 DEF StopTree, ProgressReported
<1>24. CASE Drained
  <2>1. Q!TypeOK'
    BY <1>24, QueueTypes DEF Drained, Receive, Collected, RunAsync
  <2>2. QED
    BY <1>24, <2>1 DEF Drained, Receive, Collected, RunAsync
<1>25. CASE HookEnds
  <2>1. Q!TypeOK'
    BY <1>25, QueueTypes DEF HookEnds, RunAsync
  <2>2. QED
    BY <1>25, <2>1 DEF HookEnds, RunAsync
<1>26. CASE Finish
  <2>1. Q!TypeOK'
    BY <1>26, QueueTypes DEF Finish, ReportIgnored, Reported, ReportFailed
  <2>2. QED
    BY <1>26, <2>1 DEF Finish, ReportIgnored, Reported, ReportFailed
<1>27. CASE Failed
  <2>1. Q!TypeOK'
    BY <1>27, QueueTypes DEF Failed, ReportIgnored, Reported, ReportFailed
  <2>2. QED
    BY <1>27, <2>1 DEF Failed, ReportIgnored, Reported, ReportFailed
<1>28. CASE Unwind
  <2>1. Q!TypeOK'
    BY <1>28, QueueTypes DEF Unwind
  <2>2. QED
    BY <1>28, <2>1 DEF Unwind
<1>29. QED
  BY <1>1, <1>2, <1>3, <1>4, <1>5, <1>6, <1>8, <1>9, <1>10, <1>11, <1>12, <1>13,
     <1>14, <1>15, <1>16, <1>17, <1>18, <1>19, <1>20, <1>21, <1>22, <1>23, <1>24, <1>25,
     <1>26, <1>27, <1>28
  DEF
          Supervise

LEMMA ActorTypes ==
    /\ TypeOK
    /\ \/ \E c \in Controls : ScmSends(c)
       \/ HandlerEnqueues
       \/ \E q \in Process : ChildExits(q) \/ WatcherReports(q)
       \/ AsyncHookEnds
       \/ \E e \in Event : Forwarder(e)
    => TypeOK'
<1> SUFFICES ASSUME TypeOK PROVE
       \/ \E c \in Controls : ScmSends(c)
       \/ HandlerEnqueues
       \/ \E q \in Process : ChildExits(q) \/ WatcherReports(q)
       \/ AsyncHookEnds
       \/ \E e \in Event : Forwarder(e)
       => TypeOK'
  OBVIOUS
<1> USE DEF TypeOK, flow, plan, kids, ending, reports
<1>1. ASSUME NEW c \in Controls, ScmSends(c) PROVE TypeOK'
  <2>1. Q!TypeOK'
    BY <1>1, QueueTypes DEF ScmSends, Event
  <2>2. QED
    BY <1>1, <2>1, ZenonT(40) DEF ScmSends
<1>2. CASE HandlerEnqueues
  <2>1. Q!TypeOK'
    <3>1. control(handler) \in Event
      BY <1>2 DEF HandlerEnqueues, Event
    <3>2. QED
      BY <1>2, <3>1, QueueTypes DEF HandlerEnqueues
  <2>2. QED
    BY <1>2, <2>1 DEF HandlerEnqueues
<1>3. ASSUME NEW q \in Process, ChildExits(q) PROVE TypeOK'
  BY <1>3, QueueTypes DEF ChildExits
<1>4. ASSUME NEW q \in Process, WatcherReports(q) PROVE TypeOK'
  <2>1. Q!TypeOK'
    BY <1>4, QueueTypes, EventShapes DEF WatcherReports, Results
  <2>2. QED
    BY <1>4, <2>1 DEF WatcherReports
<1>5. CASE AsyncHookEnds
  BY <1>5, QueueTypes DEF AsyncHookEnds
<1>6. ASSUME NEW e \in Event, Forwarder(e) PROVE TypeOK'
  <2>1. Q!TypeOK'
    BY <1>6, QueueTypes DEF Forwarder
  <2>2. QED
    BY <1>6, <2>1 DEF Forwarder
<1>7. QED
  BY <1>1, <1>2, <1>3, <1>4, <1>5, <1>6

-----------------------------------------------------------------------------
(* The goroutine against its own variables.                                *)

\* A synchronous hook goes back to where it was run.
HookShape ==
    pc = "hook" =>
        \/ hook = "Start/Pre" /\ ret = "spawn"
        \/ hook = "Stop/Pre" /\ ret \in {"finish", "stopTree"}
        \/ hook = "Rotate/Pre" /\ ret \in {"wait", "startup", "running", "drain", "ignored"}

\* Where no child is supervised, and where one is.
Childless == {"boot", "load", "loop", "wait", "recheck", "open", "spawn", "startFailed",
              "ignored", "suicide", "finish", "aborted"}

WithChild == {"startup", "healthy", "running", "stopping", "stopTree", "drain", "collect"}

Supervised ==
    /\ At \in Childless => process = NoProcess
    /\ At \in WithChild => process # NoProcess

\* The stop path runs no Start/Pre hook.
StopInv == stopHookRun /\ pc = "hook" => hook # "Start/Pre"

\* Nothing was started late before the stop request, nor by the start under way.
LateInv ==
    /\ restartAllowed => lateStarts = 0
    /\ At \in {"open", "spawn"} => lateStarts = 0

\* The regular ends are quiet.
OutcomeInv ==
    outcome \in {"clean", "aborted"} =>
        /\ pc \in {"unwind", "returned"}
        /\ process = NoProcess /\ redirect = "closed" /\ HooksOver

FlowInv == /\ HookShape /\ Supervised
           /\ StopInv /\ NoStartAfterStopHook
           /\ LateInv /\ AtMostOneLateStart
           /\ LogsReleasedBetweenRuns /\ OutcomeInv

LEMMA PrepareStopFlow ==
    ASSUME NEW next \in {"finish", "stopTree"}, pc # "hook", PrepareStop(next)
    PROVE  /\ At' = next
           /\ pc' = "hook" => hook' = "Stop/Pre" /\ ret' = next
           /\ stopHookRun' = TRUE /\ outcome' = outcome
<1>1. CASE stopHookRun
  BY <1>1 DEF PrepareStop, At
<1>2. CASE ~stopHookRun
  BY <1>2 DEF PrepareStop, RunSync, At
<1>3. QED
  BY <1>1, <1>2

LEMMA SuperviseFlow == TypeOK /\ FlowInv /\ Supervise => FlowInv'
<1> SUFFICES ASSUME TypeOK, FlowInv, Supervise PROVE FlowInv'
  OBVIOUS
<1>0. asyncHooks \in Nat /\ lateStarts \in Nat /\ redirect \in {"closed", "open"}
      /\ NoProcess \notin Process
  BY SupervisorAssumption DEF TypeOK
<1> USE <1>0 DEF FlowInv, At, HookShape, Childless, WithChild, Supervised, StopInv,
       NoStartAfterStopHook, LateInv, AtMostOneLateStart, LogsReleasedBetweenRuns,
       OutcomeInv, HooksOver, flow, kids, ending
<1>1. CASE Boot
  BY <1>1 DEF Boot
<1>2. CASE Load
  BY <1>2 DEF Load
<1>3. CASE Plan
  BY <1>3 DEF Plan, EnterWait
<1>4. CASE WaitSlice
  BY <1>4 DEF WaitSlice, AfterWait
<1>5. CASE WaitStop
  <2>1. PrepareStop("finish") /\ pc # "hook"
    BY <1>5 DEF WaitStop
  <2>2. QED
    BY <1>5, <2>1, PrepareStopFlow DEF WaitStop
<1>6. CASE WaitContinue
  BY <1>6 DEF WaitContinue, AfterWait
<1>8. CASE ServeControl
  BY <1>8 DEF ServeControl, SelectLoops, OnReportError, RunAsync, RunSync
<1>9. CASE SkipEvent
  BY <1>9 DEF SkipEvent
<1>10. CASE Recheck
  <2>1. CASE PrepareStop("finish")
    BY <1>10, <2>1, PrepareStopFlow DEF Recheck
  <2>2. CASE ~PrepareStop("finish")
    BY <1>10, <2>2 DEF Recheck
  <2>3. QED
    BY <2>1, <2>2
<1>11. CASE Open
  BY <1>11 DEF Open, RunSync
<1>12. CASE Spawn
  BY <1>12 DEF Spawn
<1>13. CASE SpawnFails
  BY <1>13 DEF SpawnFails
<1>14. CASE AfterFailedStart
  <2>1. CASE PrepareStop("finish")
    BY <1>14, <2>1, PrepareStopFlow DEF AfterFailedStart
  <2>2. CASE ~PrepareStop("finish")
    BY <1>14, <2>2 DEF AfterFailedStart, EnterWait
  <2>3. QED
    BY <2>1, <2>2
<1>15. CASE StartupSlice
  BY <1>15 DEF StartupSlice
<1>16. CASE ChildStop
  BY <1>16 DEF ChildStop
<1>17. CASE ChildEnded
  BY <1>17 DEF ChildEnded
<1>18. CASE BecomesHealthy
  BY <1>18 DEF BecomesHealthy, RunAsync, AfterHealthyStart
<1>19. CASE Collect
  BY <1>19 DEF Collect, Collected, RunAsync
<1>20. CASE Suicide
  BY <1>20 DEF Suicide, WaitHooks
<1>21. CASE IgnoredStop
  <2>1. PrepareStop("finish") /\ pc # "hook"
    BY <1>21 DEF IgnoredStop
  <2>2. QED
    BY <1>21, <2>1, PrepareStopFlow DEF IgnoredStop
<1>22. CASE Stopping
  <2>1. PrepareStop("stopTree") /\ pc # "hook"
    BY <1>22 DEF Stopping
  <2>2. QED
    BY <1>22, <2>1, PrepareStopFlow DEF Stopping
<1>23. CASE StopTree
  BY <1>23 DEF StopTree
<1>24. CASE Drained
  BY <1>24 DEF Drained, Collected, RunAsync
<1>25. CASE HookEnds
  BY <1>25 DEF HookEnds, RunAsync
<1>26. CASE Finish
  BY <1>26 DEF Finish, WaitHooks
<1>27. CASE Failed
  BY <1>27 DEF Failed
<1>28. CASE Unwind
  BY <1>28 DEF Unwind, WaitHooks, Q!Close
<1>29. QED
  BY <1>1, <1>2, <1>3, <1>4, <1>5, <1>6, <1>8, <1>9, <1>10, <1>11, <1>12, <1>13,
     <1>14, <1>15, <1>16, <1>17, <1>18, <1>19, <1>20, <1>21, <1>22, <1>23, <1>24, <1>25,
     <1>26, <1>27, <1>28
  DEF
         Supervise

\* The steps of the other actors, collected.
Actors == \/ \E c \in Controls : ScmSends(c)
          \/ HandlerEnqueues
          \/ \E q \in Process : ChildExits(q) \/ WatcherReports(q)
          \/ AsyncHookEnds
          \/ \E e \in Event : Forwarder(e)

LEMMA ActorsFlow == TypeOK /\ FlowInv /\ Actors => FlowInv'
<1> SUFFICES ASSUME TypeOK, FlowInv, Actors PROVE FlowInv'
  OBVIOUS
<1> DEFINE Same == /\ UNCHANGED <<flow, ending, process, redirect, lateStarts>>
                   /\ restartAllowed' => restartAllowed
                   /\ asyncHooks = 0 => asyncHooks' = 0
<1>1. Same
  <2>1. ASSUME NEW c \in Controls, ScmSends(c) PROVE Same
    BY <2>1 DEF ScmSends, kids, TypeOK
  <2>2. CASE HandlerEnqueues
    BY <2>2 DEF HandlerEnqueues, kids
  <2>3. ASSUME NEW q \in Process, ChildExits(q) \/ WatcherReports(q) PROVE Same
    <3>1. CASE ChildExits(q)
      BY <3>1 DEF ChildExits
    <3>2. CASE WatcherReports(q)
      BY <3>2 DEF WatcherReports
    <3>3. QED
      BY <2>3, <3>1, <3>2
  <2>4. CASE AsyncHookEnds
    BY <2>4 DEF AsyncHookEnds, kids, TypeOK
  <2>5. ASSUME NEW e \in Event, Forwarder(e) PROVE Same
    BY <2>5 DEF Forwarder, kids
  <2>6. QED
    BY <2>1, <2>2, <2>3, <2>4, <2>5 DEF Actors
<1>2. QED
  BY <1>1 DEF FlowInv, At, HookShape, Supervised, StopInv, NoStartAfterStopHook, LateInv,
      AtMostOneLateStart, LogsReleasedBetweenRuns, OutcomeInv, HooksOver, flow, ending

-----------------------------------------------------------------------------
(* The goroutine against the exits on their way to it.                     *)

\* The exit of p is on its way to the supervisor at most once.
ExitsOnce ==
    \A p \in Process :
        /\ p \in watching => \A f \in Results : InQueue(p, f) = 0
        /\ InQueue(p, "waitFailed") + InQueue(p, "exited") <= 1
        /\ InQueue(p, "exited") > 0 => p \notin running

\* Nothing refers to a process that is not supervised.
NoneStale ==
    \A p \in Process \ {process} :
        p \notin watching /\ \A f \in Results : InQueue(p, f) = 0

\* The ends, where a child whose watcher failed may be left behind.
Ended == {"finish", "unwind", "returned", "dead"}

\* At most one process runs, and until the supervisor ends it is the child; once
\* its exit was received nothing is left of it.
RunningChild ==
    /\ \A p, q \in running : p = q
    /\ At \notin Ended => running \subseteq {process}
    /\ At = "collect" => /\ running = {} /\ watching = {}
                         /\ \A p \in Process, f \in Results : InQueue(p, f) = 0

ExitInv == ExitsOnce /\ NoneStale /\ RunningChild

\* A step that leaves the processes and their exits alone.
LEMMA QuietExits ==
    ASSUME ExitInv, SameExits, UNCHANGED <<process, running, watching>>,
           At' \notin Ended => At \notin Ended,
           At' = "collect" => At = "collect"
    PROVE  ExitInv'
BY DEF ExitInv, ExitsOnce, NoneStale, RunningChild, SameExits, Results

\* What a step of the goroutine that is quiet in this sense leaves as it was.
Quiet == /\ SameExits
         /\ UNCHANGED <<process, running, watching>>
         /\ At' \notin Ended => At \notin Ended
         /\ At' = "collect" => At = "collect"

LEMMA SuperviseQuiet ==
    ASSUME TypeOK, FlowInv,
           \/ Boot \/ Load \/ Plan \/ WaitSlice \/ WaitStop \/ WaitContinue \/ ServeControl
           \/ (SkipEvent /\ ~StaleExit) \/ Recheck \/ Open \/ SpawnFails \/ AfterFailedStart
           \/ StartupSlice \/ ChildStop \/ BecomesHealthy \/ Suicide \/ IgnoredStop
           \/ Stopping \/ HookEnds \/ Finish \/ Failed \/ Unwind
    PROVE  Quiet
<1> USE DEF Quiet, At, Ended, TypeOK, FlowInv, HookShape, flow, kids
<1>1. CASE Boot
  <2>1. SameExits
    BY <1>1, SameExitsSteps DEF Boot
  <2>2. QED
    BY <1>1, <2>1 DEF Boot
<1>2. CASE Load
  <2>1. SameExits
    BY <1>2, SameExitsSteps DEF Load
  <2>2. QED
    BY <1>2, <2>1 DEF Load
<1>3. CASE Plan
  <2>1. SameExits
    BY <1>3, SameExitsSteps DEF Plan
  <2>2. QED
    BY <1>3, <2>1 DEF Plan, EnterWait
<1>4. CASE WaitSlice
  <2>1. SameExits
    BY <1>4, SameExitsSteps DEF WaitSlice
  <2>2. QED
    BY <1>4, <2>1 DEF WaitSlice, AfterWait
<1>5. CASE WaitStop
  <2>1. SameExits
    BY <1>5, SameExitsSteps DEF WaitStop, OnStop
  <2>2. pc # "hook" /\ At' = "finish"
    BY <1>5, PrepareStopFlow DEF WaitStop
  <2>3. QED
    BY <1>5, <2>1, <2>2 DEF WaitStop
<1>6. CASE WaitContinue
  <2>1. SameExits
    BY <1>6, SameExitsSteps DEF WaitContinue
  <2>2. QED
    BY <1>6, <2>1 DEF WaitContinue, AfterWait
<1>7. CASE ServeControl
  <2>1. SameExits
    BY <1>7, SameExitsSteps DEF ServeControl
  <2>2. QED
    BY <1>7, <2>1 DEF ServeControl, SelectLoops, RunSync, OnReportError
<1>8. CASE SkipEvent /\ ~StaleExit
  <2>1. SameExits
    BY <1>8, SameExitsSteps DEF SkipEvent, IgnoredControl, OnStop
  <2>2. QED
    BY <1>8, <2>1 DEF SkipEvent
<1>9. CASE Recheck
  <2>1. SameExits
    BY <1>9, SameExitsSteps DEF Recheck
  <2>2. CASE PrepareStop("finish")
    BY <1>9, <2>1, <2>2, PrepareStopFlow DEF Recheck
  <2>3. CASE ~PrepareStop("finish")
    BY <1>9, <2>1, <2>3 DEF Recheck
  <2>4. QED
    BY <2>2, <2>3
<1>10. CASE Open
  <2>1. SameExits
    BY <1>10, SameExitsSteps DEF Open
  <2>2. QED
    BY <1>10, <2>1 DEF Open, RunSync
<1>11. CASE SpawnFails
  <2>1. SameExits
    BY <1>11, SameExitsSteps DEF SpawnFails
  <2>2. QED
    BY <1>11, <2>1 DEF SpawnFails
<1>12. CASE AfterFailedStart
  <2>1. SameExits
    BY <1>12, SameExitsSteps DEF AfterFailedStart
  <2>2. CASE PrepareStop("finish")
    BY <1>12, <2>1, <2>2, PrepareStopFlow DEF AfterFailedStart
  <2>3. CASE ~PrepareStop("finish")
    BY <1>12, <2>1, <2>3 DEF AfterFailedStart, EnterWait
  <2>4. QED
    BY <2>2, <2>3
<1>13. CASE StartupSlice
  <2>1. SameExits
    BY <1>13, SameExitsSteps DEF StartupSlice
  <2>2. QED
    BY <1>13, <2>1 DEF StartupSlice
<1>14. CASE ChildStop
  <2>1. SameExits
    BY <1>14, SameExitsSteps DEF ChildStop, OnStop
  <2>2. QED
    BY <1>14, <2>1 DEF ChildStop
<1>15. CASE BecomesHealthy
  <2>1. SameExits
    BY <1>15, SameExitsSteps DEF BecomesHealthy
  <2>2. QED
    BY <1>15, <2>1 DEF BecomesHealthy
<1>16. CASE Suicide
  <2>1. SameExits
    BY <1>16, SameExitsSteps DEF Suicide
  <2>2. QED
    BY <1>16, <2>1 DEF Suicide
<1>17. CASE IgnoredStop
  <2>1. SameExits
    BY <1>17, SameExitsSteps DEF IgnoredStop, OnStop
  <2>2. pc # "hook" /\ At' = "finish"
    BY <1>17, PrepareStopFlow DEF IgnoredStop
  <2>3. QED
    BY <1>17, <2>1, <2>2 DEF IgnoredStop
<1>18. CASE Stopping
  <2>1. SameExits
    BY <1>18, SameExitsSteps DEF Stopping
  <2>2. pc # "hook" /\ At' = "stopTree"
    BY <1>18, PrepareStopFlow DEF Stopping
  <2>3. QED
    BY <1>18, <2>1, <2>2 DEF Stopping
<1>19. CASE HookEnds
  <2>1. SameExits
    BY <1>19, SameExitsSteps DEF HookEnds
  <2>2. QED
    BY <1>19, <2>1 DEF HookEnds
<1>20. CASE Finish
  <2>1. SameExits
    BY <1>20, SameExitsSteps DEF Finish
  <2>2. QED
    BY <1>20, <2>1 DEF Finish
<1>21. CASE Failed
  <2>1. SameExits
    BY <1>21, SameExitsSteps DEF Failed
  <2>2. QED
    BY <1>21, <2>1 DEF Failed
<1>22. CASE Unwind
  <2>1. SameExits
    BY <1>22, SameExitsSteps DEF Unwind
  <2>2. QED
    BY <1>22, <2>1 DEF Unwind
<1>23. QED
  BY <1>1, <1>2, <1>3, <1>4, <1>5, <1>6, <1>7, <1>8, <1>9, <1>10, <1>11,
     <1>12, <1>13, <1>14, <1>15, <1>16, <1>17, <1>18, <1>19, <1>20, <1>21, <1>22

LEMMA SuperviseExits == TypeOK /\ FlowInv /\ ExitInv /\ Supervise => ExitInv'
<1> SUFFICES ASSUME TypeOK, FlowInv, ExitInv, Supervise PROVE ExitInv'
  OBVIOUS
<1>0. /\ Q!TypeOK /\ NoProcess \notin Process
      /\ process \in Process \cup {NoProcess}
      /\ running \subseteq Process /\ watching \subseteq Process
  BY SupervisorAssumption DEF TypeOK
<1>1. At \in Childless => process = NoProcess
  BY DEF FlowInv, Supervised
<1>2. At \in WithChild => process \in Process
  BY <1>0 DEF FlowInv, Supervised
<1>3. \A p \in Process, f \in Results : InQueue(p, f) \in Nat
  BY <1>0, EventShapes, InFlightNat DEF InQueue
<1> DEFINE Nothing == /\ running = {} /\ watching = {}
                      /\ \A p \in Process, f \in Results : InQueue(p, f) = 0
<1>4. At \in Childless \ {"finish"} => Nothing
  <2>1. At \in Childless \ {"finish"} => At \notin Ended
    BY DEF Childless, Ended
  <2>2. QED
    BY <1>0, <1>1, <2>1 DEF ExitInv, NoneStale, RunningChild
<1>5. CASE Quiet
  BY <1>5, QuietExits DEF Quiet
<1>6. ~StaleExit
  <2>1. ASSUME StaleExit PROVE FALSE
    <3>1. PICK p \in Process, f \in Results :
             /\ pc \in {"startup", "running", "drain"} => p # process
             /\ Receive(exit(p, f))
      BY <2>1 DEF StaleExit
    <3>2. InQueue(p, f) > 0
      <4>1. InQueue(p, f)' \in Nat /\ InQueue(p, f) = InQueue(p, f)' + 1
        BY <1>0, <3>1, ExitReceived
      <4>2. QED
        BY <4>1
    <3>3. CASE pc \in {"startup", "running", "drain"}
      BY <3>1, <3>2, <3>3 DEF ExitInv, NoneStale
    <3>4. CASE pc \in {"wait", "ignored"}
      <4>1. At \in Childless \ {"finish"}
        BY <3>4 DEF At, Childless
      <4>2. QED
        BY <1>4, <3>2, <4>1
    <3>5. QED
      BY <2>1, <3>3, <3>4 DEF StaleExit, SelectLoops
  <2>2. QED
    BY <2>1
<1>7. CASE Spawn
  <2>1. Nothing
    BY <1>4, <1>7 DEF Spawn, At, Childless
  <2>2. PICK p \in Process : /\ process' = p /\ running' = running \cup {p}
                             /\ watching' = watching \cup {p}
    BY <1>7 DEF Spawn
  <2>3. SameExits
    BY <1>0, <1>7, SameExitsSteps DEF Spawn
  <2>4. At' \notin Ended /\ At' # "collect"
    BY <1>7 DEF Spawn, At, Ended
  <2>5. \A q \in Process, f \in Results : InQueue(q, f)' = 0
    BY <2>1, <2>3 DEF SameExits
  <2>6. running' = {p} /\ watching' = {p}
    BY <2>1, <2>2
  <2>7. QED
    BY <2>2, <2>4, <2>5, <2>6 DEF ExitInv, ExitsOnce, NoneStale, RunningChild, Results
<1>8. ASSUME NEW r \in Process, r = process, NEW f \in Results, Receive(exit(r, f))
      PROVE  /\ \A q \in Process, g \in Results : InQueue(q, g)' = 0
             /\ r \notin watching
             /\ f = "exited" => r \notin running
  <2>1. \A q \in Process, g \in Results :
           /\ InQueue(q, g)' \in Nat
           /\ InQueue(q, g) = InQueue(q, g)' + (IF q = r /\ g = f THEN 1 ELSE 0)
    BY <1>0, <1>8, ExitReceived
  <2>2. InQueue(r, f) = InQueue(r, f)' + 1 /\ InQueue(r, f)' \in Nat
    BY <2>1
  <2>3. InQueue(r, f) > 0
    BY <2>2
  <2>4. r \notin watching /\ (f = "exited" => r \notin running)
    BY <2>3 DEF ExitInv, ExitsOnce
  <2>5. InQueue(r, "waitFailed")' = 0 /\ InQueue(r, "exited")' = 0
    <3>1. InQueue(r, "waitFailed") + InQueue(r, "exited") <= 1
      BY DEF ExitInv, ExitsOnce
    <3>2. InQueue(r, "waitFailed")' \in Nat /\ InQueue(r, "exited")' \in Nat
      BY <2>1 DEF Results
    <3>3. /\ InQueue(r, "waitFailed") = InQueue(r, "waitFailed")' + (IF f = "waitFailed" THEN 1 ELSE 0)
          /\ InQueue(r, "exited") = InQueue(r, "exited")' + (IF f = "exited" THEN 1 ELSE 0)
      BY <2>1 DEF Results
    <3>4. QED
      BY <3>1, <3>2, <3>3 DEF Results
  <2>6. ASSUME NEW q \in Process, NEW g \in Results, q # r PROVE InQueue(q, g)' = 0
    <3>1. InQueue(q, g) = 0
      BY <1>8, <2>6 DEF ExitInv, NoneStale
    <3>2. InQueue(q, g)' \in Nat /\ InQueue(q, g) = InQueue(q, g)' + 0
      BY <2>1, <2>6
    <3>3. QED
      BY <3>1, <3>2
  <2>7. ASSUME NEW q \in Process, NEW g \in Results PROVE InQueue(q, g)' = 0
    BY <2>5, <2>6 DEF Results
  <2>8. QED
    BY <2>4, <2>7
<1>9. CASE ChildEnded
  <2>1. process \in Process /\ At \notin Ended
    BY <1>2, <1>9 DEF ChildEnded, At, WithChild, Ended
  <2>2. PICK f \in Results : /\ Receive(exit(process, f))
                             /\ pc' = IF f = "exited" THEN "collect" ELSE "failed"
    BY <1>9 DEF ChildEnded
  <2>3. /\ \A q \in Process, g \in Results : InQueue(q, g)' = 0
        /\ process \notin watching
        /\ f = "exited" => process \notin running
    BY <1>8, <2>1, <2>2
  <2>4. At' = IF f = "exited" THEN "collect" ELSE "failed"
    BY <2>2 DEF At
  <2>5. UNCHANGED <<process, running, watching>>
    BY <1>9 DEF ChildEnded, kids
  <2>6. watching = {} /\ running \subseteq {process}
    BY <1>0, <2>1, <2>3 DEF ExitInv, NoneStale, RunningChild
  <2>7. QED
    BY <2>3, <2>4, <2>5, <2>6 DEF ExitInv, ExitsOnce, NoneStale, RunningChild, Ended, Results
<1>10. CASE Collect
  <2>1. Nothing
    BY <1>10 DEF Collect, At, ExitInv, RunningChild
  <2>2. UNCHANGED <<running, watching>>
    BY <1>10 DEF Collect, Collected
  <2>3. SameExits
    BY <1>0, <1>10, SameExitsSteps DEF Collect
  <2>4. At' # "collect"
    BY <1>10 DEF Collect, At
  <2>5. QED
    BY <2>1, <2>2, <2>3, <2>4 DEF ExitInv, ExitsOnce, NoneStale, RunningChild, SameExits, Results
<1>11. CASE StopTree
  <2>1. running' \subseteq running /\ UNCHANGED <<process, watching>>
    BY <1>11 DEF StopTree
  <2>2. SameExits
    BY <1>0, <1>11, SameExitsSteps DEF StopTree
  <2>3. At \notin Ended /\ At' # "collect"
    BY <1>11 DEF StopTree, At, Ended
  <2>4. QED
    BY <2>1, <2>2, <2>3 DEF ExitInv, ExitsOnce, NoneStale, RunningChild, SameExits, Results
<1>12. CASE Drained
  <2>1. process \in Process
    BY <1>2, <1>12 DEF Drained, At, WithChild
  <2>2. PICK f \in Results : Receive(exit(process, f))
    BY <1>12 DEF Drained
  <2>3. /\ \A q \in Process, g \in Results : InQueue(q, g)' = 0
        /\ process \notin watching
    BY <1>8, <2>1, <2>2
  <2>4. At' = "finish" /\ UNCHANGED <<running, watching>>
    BY <1>12 DEF Drained, Collected, At
  <2>5. watching = {}
    BY <1>0, <2>1, <2>3 DEF ExitInv, NoneStale
  <2>6. QED
    BY <2>3, <2>4, <2>5 DEF ExitInv, ExitsOnce, NoneStale, RunningChild, Ended, Results
<1>13. QED
  BY <1>5, <1>6, <1>7, <1>9, <1>10, <1>11, <1>12, SuperviseQuiet DEF Supervise

LEMMA ActorsExits == TypeOK /\ FlowInv /\ ExitInv /\ Actors => ExitInv'
<1> SUFFICES ASSUME TypeOK, FlowInv, ExitInv, Actors PROVE ExitInv'
  OBVIOUS
<1>0. /\ Q!TypeOK /\ running \subseteq Process /\ watching \subseteq Process
      /\ handler \in Controls \cup {"idle"}
  BY DEF TypeOK
<1>1. \A p \in Process, f \in Results : InQueue(p, f) \in Nat
  BY <1>0, EventShapes, InFlightNat DEF InQueue
<1>2. At' = At /\ process' = process
  <2>1. UNCHANGED flow /\ UNCHANGED process
    <3>1. ASSUME NEW c \in Controls, ScmSends(c) PROVE UNCHANGED flow /\ UNCHANGED process
      BY <3>1 DEF ScmSends, kids
    <3>2. CASE HandlerEnqueues
      BY <3>2 DEF HandlerEnqueues, kids
    <3>3. ASSUME NEW q \in Process, ChildExits(q) PROVE UNCHANGED flow /\ UNCHANGED process
      BY <3>3 DEF ChildExits
    <3>4. ASSUME NEW q \in Process, WatcherReports(q) PROVE UNCHANGED flow /\ UNCHANGED process
      BY <3>4 DEF WatcherReports
    <3>5. CASE AsyncHookEnds
      BY <3>5 DEF AsyncHookEnds, kids
    <3>6. ASSUME NEW e \in Event, Forwarder(e) PROVE UNCHANGED flow /\ UNCHANGED process
      BY <3>6 DEF Forwarder, kids
    <3>7. QED
      BY <3>1, <3>2, <3>3, <3>4, <3>5, <3>6 DEF Actors
  <2>2. QED
    BY <2>1 DEF flow, At
<1>3. ASSUME SameExits, UNCHANGED <<running, watching>> PROVE ExitInv'
  BY <1>2, <1>3, QuietExits
<1>4. ASSUME NEW c \in Controls, ScmSends(c) PROVE ExitInv'
  <2>1. SameExits
    BY <1>0, <1>4, SameExitsSteps DEF ScmSends
  <2>2. QED
    BY <1>3, <1>4, <2>1 DEF ScmSends, kids
<1>5. CASE HandlerEnqueues
  <2>1. SameExits
    BY <1>0, <1>5, SameExitsSteps DEF HandlerEnqueues
  <2>2. QED
    BY <1>3, <1>5, <2>1 DEF HandlerEnqueues, kids
<1>6. ASSUME NEW q \in Process, ChildExits(q) PROVE ExitInv'
  <2>1. running' \subseteq running /\ UNCHANGED watching
    BY <1>6 DEF ChildExits
  <2>2. SameExits
    BY <1>0, <1>6, SameExitsSteps DEF ChildExits
  <2>3. QED
    BY <1>2, <2>1, <2>2
    DEF ExitInv, ExitsOnce, NoneStale, RunningChild, SameExits, Results
<1>7. ASSUME NEW q \in Process, WatcherReports(q) PROVE ExitInv'
  <2>1. q \in watching /\ watching' = watching \ {q} /\ running' = running
    BY <1>7 DEF WatcherReports
  <2>2. q = process /\ \A f \in Results : InQueue(q, f) = 0
    BY <2>1 DEF ExitInv, ExitsOnce, NoneStale
  <2>3. PICK r \in Results : Q!Enqueue(exit(q, r)) /\ (r = "exited" => q \notin running)
    BY <1>7 DEF WatcherReports, Results
  <2>4. \A p \in Process, f \in Results :
           InQueue(p, f)' = InQueue(p, f) + (IF p = q /\ f = r THEN 1 ELSE 0)
    BY <1>0, <2>3, ExitEnqueued
  <2>5. At # "collect"
    BY <2>1 DEF ExitInv, RunningChild
  <2>6. ASSUME NEW p \in Process
        PROVE  /\ InQueue(p, "waitFailed")' + InQueue(p, "exited")' <= 1
               /\ InQueue(p, "exited")' > 0 => p \notin running
               /\ p # q => \A f \in Results : InQueue(p, f)' = InQueue(p, f)
    <3>1. CASE p = q
      <4>1. /\ InQueue(p, "waitFailed")' = IF "waitFailed" = r THEN 1 ELSE 0
            /\ InQueue(p, "exited")' = IF "exited" = r THEN 1 ELSE 0
        BY <2>2, <2>4, <3>1 DEF Results
      <4>2. QED
        BY <2>3, <3>1, <4>1 DEF Results
    <3>2. CASE p # q
      <4>1. \A f \in Results : InQueue(p, f)' = InQueue(p, f)
        BY <1>1, <2>4, <3>2
      <4>2. QED
        BY <4>1, <3>2 DEF ExitInv, ExitsOnce, Results
    <3>3. QED
      BY <3>1, <3>2
  <2>7. ExitsOnce'
    BY <2>1, <2>6 DEF ExitInv, ExitsOnce
  <2>8. NoneStale'
    BY <1>2, <2>1, <2>2, <2>6 DEF ExitInv, NoneStale
  <2>9. RunningChild'
    BY <1>2, <2>1, <2>5 DEF ExitInv, RunningChild
  <2>10. QED
    BY <2>7, <2>8, <2>9 DEF ExitInv
<1>8. CASE AsyncHookEnds
  <2>1. SameExits
    BY <1>0, <1>8, SameExitsSteps DEF AsyncHookEnds
  <2>2. QED
    BY <1>3, <1>8, <2>1 DEF AsyncHookEnds, kids
<1>9. ASSUME NEW e \in Event, Forwarder(e) PROVE ExitInv'
  <2>1. UNCHANGED <<running, watching>>
    BY <1>9 DEF Forwarder, kids
  <2>2. \A p \in Process, f \in Results : InQueue(p, f)' <= InQueue(p, f)
    BY <1>0, <1>9, ExitForwarded DEF Forwarder
  <2>3. \A p \in Process, f \in Results : InQueue(p, f)' \in Nat
    <3>1. Q!TypeOK'
      BY <1>0, <1>9, QueueTypes DEF Forwarder
    <3>2. \A p \in Process, f \in Results : InQueue(p, f)' \in Nat
      BY <3>1, EventShapes, InFlightNatNext DEF InQueue
    <3>3. QED
      BY <3>2
  <2>4. ASSUME NEW p \in Process
        PROVE  /\ InQueue(p, "waitFailed")' + InQueue(p, "exited")' <= 1
               /\ InQueue(p, "exited")' > 0 => InQueue(p, "exited") > 0
               /\ \A f \in Results : InQueue(p, f) = 0 => InQueue(p, f)' = 0
    <3>1. InQueue(p, "waitFailed") + InQueue(p, "exited") <= 1
      BY DEF ExitInv, ExitsOnce
    <3>2. QED
      BY <1>1, <2>2, <2>3, <3>1 DEF Results
  <2>5. ExitsOnce'
    BY <2>1, <2>4 DEF ExitInv, ExitsOnce
  <2>6. NoneStale'
    BY <1>2, <2>1, <2>4 DEF ExitInv, NoneStale
  <2>7. RunningChild'
    BY <1>2, <2>1, <2>4 DEF ExitInv, RunningChild
  <2>8. QED
    BY <2>5, <2>6, <2>7 DEF ExitInv
<1>10. QED
  BY <1>4, <1>5, <1>6, <1>7, <1>8, <1>9 DEF Actors

-----------------------------------------------------------------------------
(* The inductive invariant, and what follows from it.                      *)

IInv == TypeOK /\ FlowInv /\ ExitInv

LEMMA InitIInv == Init => IInv
<1> SUFFICES ASSUME Init PROVE IInv
  OBVIOUS
<1>1. Q!TypeOK
  <2>1. <<>> \in Seq(Event) /\ Len(<<>>) = 0 /\ 0 <= EventQueueCapacity
    BY SupervisorAssumption
  <2>2. QED
    BY <2>1 DEF Init, Q!Init, Q!TypeOK
<1>2. TypeOK
  BY <1>1 DEF Init, TypeOK, PCs, States, Hooks
<1>3. FlowInv
  BY DEF Init, FlowInv, At, HookShape, Childless, WithChild, Supervised, StopInv,
         NoStartAfterStopHook, LateInv, AtMostOneLateStart, LogsReleasedBetweenRuns,
         OutcomeInv
<1>4. \A p \in Process, f \in Results : InQueue(p, f) = 0
  <2>1. ASSUME NEW e \in Event PROVE Q!InFlight(e) = 0
    <3>1. Places(<<>>, e) = {}
      BY DEF Places
    <3>2. Buffered(<<>>, e) = 0
      BY <3>1, FS_EmptySet DEF Buffered
    <3>3. events = <<>> /\ forwarders[e] = 0
      BY DEF Init, Q!Init
    <3>4. QED
      BY <3>2, <3>3, SameCount DEF Q!InFlight
  <2>2. QED
    BY <2>1, EventShapes DEF InQueue
<1>5. ExitInv
  BY <1>4 DEF Init, ExitInv, ExitsOnce, NoneStale, RunningChild, At, Results
<1>6. QED
  BY <1>2, <1>3, <1>5 DEF IInv

LEMMA StutterIInv == IInv /\ UNCHANGED vars => IInv'
<1> SUFFICES ASSUME IInv, UNCHANGED vars PROVE IInv'
  OBVIOUS
<1>1. UNCHANGED <<flow, config, plan, kids, redirect, ending, restartAllowed, queue,
                  reports, handler, asyncHooks>>
  BY DEF vars
<1>2. TypeOK'
  BY <1>1, QueueTypes DEF IInv, TypeOK, flow, plan, kids, ending, reports
<1>3. FlowInv'
  BY <1>1 DEF IInv, FlowInv, At, HookShape, Supervised, StopInv, NoStartAfterStopHook, LateInv,
      AtMostOneLateStart, LogsReleasedBetweenRuns, OutcomeInv, HooksOver, flow, kids, ending
<1>4. SameExits
  BY <1>1, SameExitsSteps DEF IInv, TypeOK
<1>5. ExitInv'
  BY <1>1, <1>4, QuietExits DEF IInv, At, flow, kids
<1>6. QED
  BY <1>2, <1>3, <1>5 DEF IInv

LEMMA StepIInv == IInv /\ [Next]_vars => IInv'
<1> SUFFICES ASSUME IInv, [Next]_vars PROVE IInv'
  OBVIOUS
<1>1. CASE Supervise
  BY <1>1, SuperviseTypes, SuperviseFlow, SuperviseExits DEF IInv
<1>2. CASE Actors
  BY <1>2, ActorTypes, ActorsFlow, ActorsExits DEF IInv, Actors
<1>3. CASE UNCHANGED vars
  BY <1>3, StutterIInv
<1>4. Next => Supervise \/ Actors
  BY DEF Next, Actors
<1>5. QED
  BY <1>1, <1>2, <1>3, <1>4

LEMMA SpecIInv == Spec => []IInv
<1>1. QED
  BY InitIInv, StepIInv, PTL DEF Spec

(* The state machine keeps its types, whatever fails and however the SCM,  *)
(* the watchers, the hooks and the children interleave with it.            *)
THEOREM SupervisorTypes == Spec => []TypeOK
<1>1. IInv => TypeOK
  BY DEF IInv
<1>2. QED
  BY <1>1, SpecIInv, PTL

(* No process exit is thrown away: what is on its way to the supervisor is *)
(* the exit of the process it supervises.                                  *)
THEOREM ExitsAreNeverStale == Spec => []NoStaleExit
<1>1. IInv => NoStaleExit
  <2> SUFFICES ASSUME IInv, NEW p \in Unreported PROVE p = process
    BY DEF NoStaleExit
  <2>1. p \in Process
    BY DEF IInv, TypeOK, Unreported
  <2>2. \A f \in Results : InQueue(p, f) = 0 => ~(InQueue(p, f) > 0)
    OBVIOUS
  <2>3. QED
    BY <2>1, <2>2 DEF IInv, ExitInv, NoneStale, Unreported, InQueue
<1>2. QED
  BY <1>1, SpecIInv, PTL

(* Two children never run at the same time, also when starts, waits, the   *)
(* reports to the SCM or the tree stop fail.                               *)
THEOREM NeverTwoChildren == Spec => []OneChild
<1>1. IInv => OneChild
  <2> SUFFICES ASSUME IInv PROVE Cardinality(running) <= 1
    BY DEF OneChild
  <2>1. CASE running = {}
    BY <2>1, FS_EmptySet
  <2>2. CASE running # {}
    <3>1. PICK p : p \in running
      BY <2>2
    <3>2. running = {p}
      BY <3>1 DEF IInv, ExitInv, RunningChild
    <3>3. Cardinality({p}) = 1
      BY FS_Singleton
    <3>4. QED
      BY <3>2, <3>3
  <2>3. QED
    BY <2>1, <2>2
<1>2. QED
  BY <1>1, SpecIInv, PTL

(* A stop request races with at most one start.                            *)
THEOREM StopsRestarts == Spec => []AtMostOneLateStart
<1>1. IInv => AtMostOneLateStart
  BY DEF IInv, FlowInv
<1>2. QED
  BY <1>1, SpecIInv, PTL

(* Nothing is started once the Stop/Pre hook was run.                      *)
THEOREM StopIsFinal == Spec => []NoStartAfterStopHook
<1>1. IInv => NoStartAfterStopHook
  BY DEF IInv, FlowInv
<1>2. QED
  BY <1>1, SpecIInv, PTL

(* The log files are released before the supervisor plans the next run, on *)
(* every path that a failed or aborted start takes too.                    *)
THEOREM LogsAreReleased == Spec => []LogsReleasedBetweenRuns
<1>1. IInv => LogsReleasedBetweenRuns
  BY DEF IInv, FlowInv
<1>2. QED
  BY <1>1, SpecIInv, PTL

(* A service that reports a regular end supervises no child, holds no log  *)
(* and has no hook left that has not outlived its deadline.  A child whose *)
(* watcher failed while it was stopped is not supervised any more.         *)
THEOREM RegularEndIsQuiet == Spec => []StoppedIsQuiet
<1>1. IInv => StoppedIsQuiet
  BY DEF IInv, FlowInv, OutcomeInv, StoppedIsQuiet
<1>2. QED
  BY <1>1, SpecIInv, PTL

-----------------------------------------------------------------------------
(* The promise of ServiceLifecycle.tla, where the SCM takes every report   *)
(* and every watcher can wait for its child.                               *)

Reliable == "report" \notin Faults /\ "wait" \notin Faults

\* The state the SCM holds at each place of the goroutine.
Held ==
    /\ pc # "dead" => status = scm
    /\ At = "boot" => scm = "Registered"
    /\ At \in {"load", "open", "spawn", "startFailed", "startup", "healthy", "aborted",
               "failed"} => scm = "StartPending"
    /\ At = "wait" => scm = waitState
    /\ At = "recheck" => scm \in {"Paused", "StartPending", "Running"}
    /\ At \in {"loop", "stopping", "collect", "suicide"} => scm \in {"StartPending", "Running"}
    /\ At \in {"running", "ignored"} => scm = "Running"
    /\ At \in {"stopTree", "drain"} => scm = "StopPending"
    /\ At = "finish" => scm \in {"StartPending", "Running", "StopPending"}
    /\ At \in {"unwind", "returned"} => scm = "Stopped"
    /\ At = "dead" => scm = "Crashed"

\* Where no child is left.
Empty == Childless \cup {"failed", "unwind", "returned", "dead"}

NoneLeft ==
    /\ At \in Empty => running = {}
    /\ \A p \in Process : InQueue(p, "waitFailed") = 0

\* A stop that is on its way was requested.
Asked ==
    /\ handler # "idle" => ~restartAllowed
    /\ \A c \in StopCodes \cap Controls : Q!InFlight(control(c)) > 0 => ~restartAllowed
    /\ At = "stopping" => ~restartAllowed

LifeInv == Held /\ NoneLeft /\ Asked

\* What is received was in flight, and no failed wait is.
LEMMA ExitTaken ==
    ASSUME Q!TypeOK, NEW p \in Process, NEW r \in Results, Receive(exit(p, r))
    PROVE  InQueue(p, r) > 0
<1>1. InQueue(p, r)' \in Nat /\ InQueue(p, r) = InQueue(p, r)' + 1
  BY ExitReceived
<1>2. QED
  BY <1>1

LEMMA OnlyExits ==
    ASSUME Q!TypeOK, NoneLeft, NEW p \in Process, NEW r \in Results, Receive(exit(p, r))
    PROVE  r = "exited"
BY ExitTaken DEF NoneLeft, Results

LEMMA ChildIsAProcess ==
    ASSUME TypeOK, FlowInv, At \in WithChild
    PROVE  process \in Process
BY DEF TypeOK, FlowInv, Supervised

LEMMA PrepareStopHeld ==
    ASSUME Reliable, ~stopHookRun, NEW next \in {"finish", "stopTree"}, pc # "hook",
           PrepareStop(next)
    PROVE  /\ At' = next /\ pc' \in {"hook", next}
           /\ status' = "StopPending" /\ scm' = "StopPending"
BY DEF Reliable, PrepareStop, RunSync, ReportIgnored, Reported, ReportFailed, At

LEMMA SuperviseHeld ==
    Reliable /\ TypeOK /\ FlowInv /\ NoneLeft /\ Held /\ Supervise => Held'
<1> SUFFICES ASSUME Reliable, TypeOK, FlowInv, NoneLeft, Held, Supervise PROVE Held'
  OBVIOUS
<1>0. /\ waitState \in {"Paused", "StartPending"}
      /\ HookShape
      /\ At \in {"wait", "recheck", "startFailed", "ignored", "stopping"} => ~stopHookRun
      /\ ChildEnded => pc' = "collect"
  <2>1. ASSUME ChildEnded PROVE pc' = "collect"
    <3>1. process \in Process /\ Q!TypeOK
      BY <2>1, ChildIsAProcess DEF ChildEnded, At, WithChild, TypeOK
    <3>2. QED
      BY <2>1, <3>1, OnlyExits DEF ChildEnded
  <2>2. QED
    BY <2>1 DEF TypeOK, FlowInv, NoStartAfterStopHook
<1> USE <1>0 DEF Reliable, Held, At, HookShape, ReportIgnored, Reported, ReportFailed,
                 ProgressReported, ProgressFailed, flow, plan, reports
<1>1. CASE Boot
  BY <1>1 DEF Boot
<1>2. CASE Load
  BY <1>2 DEF Load
<1>3. CASE Plan
  BY <1>3 DEF Plan, EnterWait
<1>4. CASE WaitSlice
  BY <1>4 DEF WaitSlice, AfterWait
<1>5. CASE WaitStop
  BY <1>5, PrepareStopHeld DEF WaitStop
<1>6. CASE WaitContinue
  BY <1>6 DEF WaitContinue, AfterWait
<1>7. CASE ServeControl
  BY <1>7 DEF ServeControl, SelectLoops, RunSync
<1>8. CASE SkipEvent
  BY <1>8 DEF SkipEvent
<1>9. CASE Recheck
  <2>1. CASE PrepareStop("finish")
    BY <1>9, <2>1, PrepareStopHeld DEF Recheck
  <2>2. CASE ~PrepareStop("finish")
    BY <1>9, <2>2 DEF Recheck
  <2>3. QED
    BY <2>1, <2>2
<1>10. CASE Open
  BY <1>10 DEF Open, RunSync
<1>11. CASE Spawn
  BY <1>11 DEF Spawn
<1>12. CASE SpawnFails
  BY <1>12 DEF SpawnFails
<1>13. CASE AfterFailedStart
  <2>1. CASE PrepareStop("finish")
    BY <1>13, <2>1, PrepareStopHeld DEF AfterFailedStart
  <2>2. CASE ~PrepareStop("finish")
    BY <1>13, <2>2 DEF AfterFailedStart, EnterWait
  <2>3. QED
    BY <2>1, <2>2
<1>14. CASE StartupSlice
  BY <1>14 DEF StartupSlice
<1>15. CASE ChildStop
  BY <1>15 DEF ChildStop
<1>16. CASE BecomesHealthy
  BY <1>16 DEF BecomesHealthy
<1>17. CASE Collect
  BY <1>17 DEF Collect, TreeProgress
<1>18. CASE Suicide
  BY <1>18 DEF Suicide
<1>19. CASE IgnoredStop
  BY <1>19, PrepareStopHeld DEF IgnoredStop
<1>20. CASE Stopping
  BY <1>20, PrepareStopHeld DEF Stopping
<1>21. CASE StopTree
  BY <1>21 DEF StopTree
<1>22. CASE Drained
  BY <1>22 DEF Drained
<1>23. CASE HookEnds
  BY <1>23 DEF HookEnds
<1>24. CASE Finish
  BY <1>24 DEF Finish
<1>25. CASE Failed
  BY <1>25 DEF Failed
<1>26. CASE Unwind
  BY <1>26 DEF Unwind
<1>27. CASE ChildEnded
  BY <1>27 DEF ChildEnded
<1> HIDE DEF Reliable, Held, At, HookShape, ReportIgnored, Reported, ReportFailed,
             ProgressReported, ProgressFailed, flow, plan, reports
<1>28. QED
  BY <1>1, <1>2, <1>3, <1>4, <1>5, <1>6, <1>7, <1>8, <1>9, <1>10, <1>11, <1>12, <1>13,
     <1>14, <1>15, <1>16, <1>17, <1>18, <1>19, <1>20, <1>21, <1>22, <1>23, <1>24, <1>25,
     <1>26, <1>27
  DEF Supervise

\* The goroutine closes the queue or takes a notification from it, and adds none.
LEMMA SuperviseTakes ==
    ASSUME TypeOK, Supervise
    PROVE  UNCHANGED queue \/ Q!Close \/ \E e : Receive(e)
BY DEF Supervise, Boot, Load, Plan, WaitSlice, WaitStop, WaitContinue, ServeControl, SkipEvent,
       IgnoredControl, StaleExit, Recheck, Open, Spawn, SpawnFails, AfterFailedStart,
       StartupSlice, ChildStop, ChildEnded, BecomesHealthy, Collect, Suicide, IgnoredStop,
       Stopping, StopTree, Drained, HookEnds, Finish, Failed, Unwind, On, OnStop, Receive

LEMMA SuperviseCounts ==
    ASSUME TypeOK, TypeOK', Supervise
    PROVE  \A e \in Event : Q!InFlight(e)' <= Q!InFlight(e)
<1>0. Q!TypeOK /\ Q!TypeOK'
  BY DEF TypeOK
<1>1. \A e \in Event : Q!InFlight(e) \in Nat /\ Q!InFlight(e)' \in Nat
  BY <1>0, InFlightNat, InFlightNatNext
<1>2. CASE UNCHANGED queue \/ Q!Close
  <2>1. UNCHANGED <<events, forwarders>>
    BY <1>2 DEF queue, Q!Close
  <2>2. \A e \in Event : Q!InFlight(e)' = Q!InFlight(e)
    BY <2>1 DEF Q!InFlight, Q!Buffered, Q!Places
  <2>3. QED
    BY <1>1, <2>2
<1>3. ASSUME NEW x, Receive(x) PROVE \A e \in Event : Q!InFlight(e)' <= Q!InFlight(e)
  <2>1. \A e \in Event : Q!InFlight(e) = Q!InFlight(e)' + (IF x = e THEN 1 ELSE 0)
    BY <1>0, <1>3, QueueStep DEF Receive
  <2>2. QED
    BY <1>1, <2>1
<1>4. QED
  BY <1>2, <1>3, SuperviseTakes

\* A stop that is received was in flight, and its code is one the SCM sends.
LEMMA StopReceived ==
    ASSUME Q!TypeOK, OnStop
    PROVE  \E c \in StopCodes \cap Controls : Q!InFlight(control(c)) > 0
<1>1. PICK c \in StopCodes : Q!Dequeue(control(c))
  BY DEF OnStop, On, Receive
<1>2. events # <<>> /\ events' = Tail(events) /\ control(c) = Head(events)
      /\ forwarders' = forwarders
  BY <1>1 DEF Q!Dequeue
<1>3. control(c) \in Event /\ events' \in Seq(Event) /\ forwarders' \in [Event -> Nat]
  BY <1>2 DEF Q!TypeOK
<1>4. c \in Controls
  <2>1. control(c).code = c /\ \A d : control(d).code = d
    BY DEF control
  <2>2. PICK d \in Controls : control(c) = control(d)
    BY <1>3, EventShapes DEF Event
  <2>3. QED
    BY <2>1, <2>2
<1>5. Q!InFlight(control(c)) = Q!InFlight(control(c))' + 1
  BY <1>1, <1>3, QueueStep
<1>6. Q!InFlight(control(c))' \in Nat
  <2>1. Buffered(events', control(c)) \in Nat /\ forwarders'[control(c)] \in Nat
    BY <1>3, BufferedNat
  <2>2. QED
    BY <2>1, SameCount DEF Q!InFlight
<1>7. QED
  BY <1>1, <1>4, <1>5, <1>6

\* Where the goroutine stands at "stopping" it came through a received stop.
LEMMA SuperviseStopping ==
    ASSUME Reliable, TypeOK, FlowInv, Supervise
    PROVE  /\ UNCHANGED handler
           /\ restartAllowed' => restartAllowed
           /\ At' = "stopping" => At = "stopping" \/ OnStop
<1>1. HookShape
  BY DEF FlowInv
<1> USE DEF Reliable, At, HookShape, flow, PrepareStop, RunSync, ReportFailed
<1>2. CASE \/ Boot \/ Load \/ Plan \/ WaitSlice \/ WaitStop \/ WaitContinue \/ ServeControl
           \/ SkipEvent \/ Recheck
  BY <1>1, <1>2 DEF Boot, Load, Plan, EnterWait, WaitSlice, WaitStop, WaitContinue, AfterWait,
                    ServeControl, OnReportError, SkipEvent, Recheck
<1>3. CASE \/ Open \/ Spawn \/ SpawnFails \/ AfterFailedStart \/ StartupSlice \/ ChildStop
           \/ ChildEnded \/ BecomesHealthy \/ Collect \/ Suicide
  BY <1>1, <1>3 DEF Open, Spawn, SpawnFails, AfterFailedStart, EnterWait, StartupSlice,
                    ChildStop, ChildEnded, BecomesHealthy, Collect, Suicide
<1>4. CASE \/ IgnoredStop \/ Stopping \/ StopTree \/ Drained \/ HookEnds \/ Finish \/ Failed
           \/ Unwind
  BY <1>1, <1>4 DEF IgnoredStop, Stopping, StopTree, Drained, HookEnds, Finish, Failed, Unwind
<1>5. QED
  BY <1>2, <1>3, <1>4 DEF Supervise

LEMMA SuperviseAsked ==
    ASSUME Reliable, TypeOK, TypeOK', FlowInv, Asked, Supervise
    PROVE  Asked'
<1>1. /\ UNCHANGED handler
      /\ restartAllowed' => restartAllowed
      /\ At' = "stopping" => At = "stopping" \/ OnStop
  BY SuperviseStopping
<1>2. ASSUME NEW c \in StopCodes \cap Controls, Q!InFlight(control(c))' > 0
      PROVE  ~restartAllowed'
  <2>1. control(c) \in Event
    BY DEF Event
  <2>2. Q!InFlight(control(c))' <= Q!InFlight(control(c))
    BY <2>1, SuperviseCounts
  <2>3. Q!InFlight(control(c)) \in Nat /\ Q!InFlight(control(c))' \in Nat
    BY <2>1, InFlightNat, InFlightNatNext DEF TypeOK
  <2>4. Q!InFlight(control(c)) > 0
    BY <1>2, <2>2, <2>3
  <2>5. QED
    BY <1>1, <2>4 DEF Asked
<1>3. OnStop => ~restartAllowed
  BY StopReceived DEF Asked, TypeOK
<1>4. QED
  BY <1>1, <1>2, <1>3 DEF Asked

\* The other actors stand still at the goroutine's places and report nothing.
LEMMA ActorsStandBy ==
    ASSUME Actors
    PROVE  /\ UNCHANGED <<flow, reports, waitState, lateStarts>>
           /\ running' \subseteq running
           /\ restartAllowed' => restartAllowed
<1> USE DEF flow, reports, plan, kids
<1>1. ASSUME NEW c \in Controls, ScmSends(c)
      PROVE  /\ UNCHANGED <<flow, reports, waitState, lateStarts>>
             /\ running' \subseteq running
             /\ restartAllowed' => restartAllowed
  BY <1>1 DEF ScmSends
<1>2. ASSUME NEW p \in Process, ChildExits(p) \/ WatcherReports(p)
      PROVE  /\ UNCHANGED <<flow, reports, waitState, lateStarts>>
             /\ running' \subseteq running
             /\ restartAllowed' => restartAllowed
  BY <1>2 DEF ChildExits, WatcherReports
<1>3. ASSUME NEW e \in Event, Forwarder(e)
      PROVE  /\ UNCHANGED <<flow, reports, waitState, lateStarts>>
             /\ running' \subseteq running
             /\ restartAllowed' => restartAllowed
  BY <1>3 DEF Forwarder
<1>4. QED
  BY <1>1, <1>2, <1>3 DEF Actors, HandlerEnqueues, AsyncHookEnds

LEMMA ActorsHeld == Held /\ Actors => Held'
BY ActorsStandBy DEF Held, At, flow, reports

LEMMA ActorsAsked ==
    ASSUME TypeOK, TypeOK', Asked, Actors
    PROVE  Asked'
<1>0. Q!TypeOK /\ Q!TypeOK'
  BY DEF TypeOK
<1>1. UNCHANGED flow /\ (restartAllowed' => restartAllowed)
  BY ActorsStandBy
<1>2. \A e \in Event : Q!InFlight(e) \in Nat /\ Q!InFlight(e)' \in Nat
  BY <1>0, InFlightNat, InFlightNatNext
<1>3. \A c \in Controls : control(c) \in Event
  BY DEF Event
<1>4. (At = "stopping")' => ~restartAllowed'
  BY <1>1 DEF Asked, At, flow
<1>5. ASSUME handler' = handler \/ ~restartAllowed',
             \A c \in StopCodes \cap Controls :
                 Q!InFlight(control(c))' > 0 => Q!InFlight(control(c)) > 0 \/ ~restartAllowed'
      PROVE  Asked'
  BY <1>1, <1>4, <1>5 DEF Asked
<1>6. ASSUME handler' = handler, \A e \in Event : Q!InFlight(e)' <= Q!InFlight(e)
      PROVE  Asked'
  <2>1. \A c \in StopCodes \cap Controls :
           Q!InFlight(control(c))' > 0 => Q!InFlight(control(c)) > 0
    BY <1>2, <1>3, <1>6
  <2>2. QED
    BY <1>5, <1>6, <2>1
<1>7. ASSUME UNCHANGED queue PROVE \A e \in Event : Q!InFlight(e)' = Q!InFlight(e)
  BY <1>7 DEF queue, Q!InFlight, Q!Buffered, Q!Places
<1>8. ASSUME NEW c \in Controls, ScmSends(c) PROVE Asked'
  <2>1. CASE c \in StopCodes
    BY <1>5, <1>8, <2>1 DEF ScmSends
  <2>2. CASE c \notin StopCodes
    <3>1. Q!Enqueue(control(c)) /\ handler' = handler
      BY <1>8, <2>2 DEF ScmSends
    <3>2. ASSUME NEW d \in StopCodes \cap Controls
          PROVE  Q!InFlight(control(d))' = Q!InFlight(control(d))
      <4>1. control(c) # control(d)
        <5>1. control(c).code = c /\ control(d).code = d
          BY DEF control
        <5>2. QED
          BY <2>2, <5>1
      <4>2. Q!InFlight(control(d))' = Q!InFlight(control(d)) + 0
        BY <1>0, <1>3, <3>1, <4>1, QueueStep
      <4>3. QED
        BY <1>2, <1>3, <4>2
    <3>3. QED
      BY <1>5, <3>1, <3>2
  <2>3. QED
    BY <2>1, <2>2
<1>9. CASE HandlerEnqueues
  <2>1. ~restartAllowed'
    BY <1>1, <1>9 DEF HandlerEnqueues, Asked
  <2>2. QED
    BY <1>5, <2>1
<1>10. ASSUME NEW p \in Process, ChildExits(p) PROVE Asked'
  <2>1. UNCHANGED <<queue, handler>>
    BY <1>10 DEF ChildExits
  <2>2. QED
    BY <1>5, <1>7, <2>1, <1>3
<1>11. ASSUME NEW p \in Process, WatcherReports(p) PROVE Asked'
  <2>1. PICK r \in Results : Q!Enqueue(exit(p, r))
    BY <1>11 DEF WatcherReports, Results
  <2>2. ASSUME NEW c \in StopCodes \cap Controls
        PROVE  Q!InFlight(control(c))' = Q!InFlight(control(c))
    <3>1. Q!InFlight(control(c))' = Q!InFlight(control(c)) + 0
      BY <1>0, <1>3, <2>1, EventShapes, QueueStep
    <3>2. QED
      BY <1>2, <1>3, <3>1
  <2>3. QED
    BY <1>5, <1>11, <2>2 DEF WatcherReports
<1>12. CASE AsyncHookEnds
  <2>1. UNCHANGED <<queue, handler>>
    BY <1>12 DEF AsyncHookEnds
  <2>2. QED
    BY <1>5, <1>7, <2>1, <1>3
<1>13. ASSUME NEW e \in Event, Forwarder(e) PROVE Asked'
  <2>1. handler' = handler /\ (Q!Forward(e) \/ Q!Release(e))
    BY <1>13 DEF Forwarder
  <2>2. QED
    BY <1>0, <1>6, <2>1, QueueStep
<1>14. QED
  BY <1>8, <1>9, <1>10, <1>11, <1>12, <1>13 DEF Actors

\* The places without a child follow one another, but for the exit of the child.
LEMMA SuperviseEmpties ==
    ASSUME Reliable, TypeOK, FlowInv, NoneLeft, ExitInv, Supervise, At' \in Empty
    PROVE  running' = {}
<1>0. /\ HookShape /\ Q!TypeOK
      /\ At \in Empty => running = {}
      /\ At = "collect" => running = {}
      /\ UNCHANGED kids => UNCHANGED running
  BY DEF FlowInv, NoneLeft, ExitInv, RunningChild, TypeOK, kids
<1>1. CASE Collect
  BY <1>0, <1>1 DEF Collect, Collected, At
<1>2. CASE Drained
  <2>1. process \in Process /\ running \subseteq {process}
    BY <1>2, ChildIsAProcess DEF Drained, At, WithChild, Ended, ExitInv, RunningChild
  <2>2. PICK r \in Results : Receive(exit(process, r))
    BY <1>2 DEF Drained
  <2>3. r = "exited"
    BY <1>0, <2>1, <2>2, OnlyExits
  <2>4. InQueue(process, "exited") > 0
    BY <1>0, <2>1, <2>2, <2>3, ExitTaken
  <2>5. process \notin running
    BY <2>1, <2>4 DEF ExitInv, ExitsOnce
  <2>6. QED
    BY <1>2, <2>1, <2>5 DEF Drained, Collected
<1> DEFINE Calm == UNCHANGED running /\ (At \in Empty \/ At' \notin Empty)
<1>3. ASSUME Calm PROVE running' = {}
  BY <1>0, <1>3
<1>4. ASSUME NEW next \in {"finish", "stopTree"}, pc # "hook", PrepareStop(next)
      PROVE  At' = next
  BY <1>4, PrepareStopFlow
<1> USE DEF Empty, Childless, At
<1>5. CASE Boot \/ Load \/ Plan \/ WaitSlice \/ WaitContinue \/ SkipEvent
  BY <1>0, <1>3, <1>5 DEF Boot, Load, Plan, WaitSlice, WaitContinue, SkipEvent, flow
<1>6. CASE WaitStop \/ Recheck \/ IgnoredStop \/ AfterFailedStart
  BY <1>0, <1>3, <1>6 DEF WaitStop, Recheck, IgnoredStop, AfterFailedStart
<1>7. CASE ServeControl
  BY <1>0, <1>3, <1>7 DEF ServeControl, SelectLoops, RunSync, ProgressFailed, Reliable, flow
<1>8. CASE Open \/ SpawnFails \/ Suicide \/ Finish \/ Failed \/ Unwind
  BY <1>0, <1>3, <1>8 DEF Open, SpawnFails, Suicide, Finish, Failed, Unwind
<1>9. CASE Spawn
  BY <1>9 DEF Spawn
<1>10. CASE StartupSlice
  BY <1>10 DEF StartupSlice, ProgressFailed, Reliable
<1>11. CASE ChildStop
  BY <1>11 DEF ChildStop
<1>12. CASE ChildEnded
  <2>1. process \in Process
    BY <1>12, ChildIsAProcess DEF ChildEnded, WithChild
  <2>2. pc' = "collect"
    BY <1>0, <1>12, <2>1, OnlyExits DEF ChildEnded
  <2>3. QED
    BY <2>2
<1>13. CASE BecomesHealthy
  BY <1>13 DEF BecomesHealthy
<1>14. CASE Stopping
  BY <1>4, <1>14 DEF Stopping
<1>15. CASE StopTree
  BY <1>15 DEF StopTree
<1>16. CASE HookEnds
  BY <1>0, <1>3, <1>16 DEF HookEnds, HookShape
<1> HIDE DEF Empty, Childless, At
<1>17. QED
  BY <1>1, <1>2, <1>5, <1>6, <1>7, <1>8, <1>9, <1>10, <1>11, <1>12, <1>13, <1>14, <1>15,
     <1>16
  DEF Supervise

LEMMA SuperviseNoneLeft ==
    ASSUME Reliable, TypeOK, TypeOK', FlowInv, ExitInv, NoneLeft, Supervise
    PROVE  NoneLeft'
<1>1. ASSUME NEW p \in Process PROVE InQueue(p, "waitFailed")' = 0
  <2>1. exit(p, "waitFailed") \in Event
    BY EventShapes DEF Results
  <2>2. InQueue(p, "waitFailed")' <= InQueue(p, "waitFailed") /\ InQueue(p, "waitFailed")' \in Nat
    BY <2>1, SuperviseCounts, InFlightNatNext DEF InQueue, TypeOK
  <2>3. InQueue(p, "waitFailed") = 0
    BY DEF NoneLeft
  <2>4. QED
    BY <2>2, <2>3
<1>2. QED
  BY <1>1, SuperviseEmpties DEF NoneLeft

LEMMA ActorsNoneLeft ==
    ASSUME Reliable, TypeOK, TypeOK', NoneLeft, Actors
    PROVE  NoneLeft'
<1>0. Q!TypeOK /\ Q!TypeOK'
  BY DEF TypeOK
<1>1. At' = At /\ running' \subseteq running
  BY ActorsStandBy DEF At, flow
<1>2. ASSUME NEW p \in Process PROVE InQueue(p, "waitFailed")' = 0
  <2>1. exit(p, "waitFailed") \in Event /\ "waitFailed" \in Results
    BY EventShapes DEF Results
  <2>2. InQueue(p, "waitFailed") = 0 /\ InQueue(p, "waitFailed")' \in Nat
    BY <1>0, <2>1, InFlightNatNext DEF InQueue, NoneLeft
  <2>3. CASE SameExits
    BY <2>1, <2>2, <2>3 DEF SameExits
  <2>4. ASSUME NEW c \in Controls, ScmSends(c) PROVE SameExits
    BY <1>0, <2>4, SameExitsSteps DEF ScmSends
  <2>5. CASE HandlerEnqueues
    <3>1. handler \in Controls
      BY <2>5 DEF HandlerEnqueues, TypeOK
    <3>2. SameExits
      BY <1>0, <2>5, <3>1, SameExitsSteps DEF HandlerEnqueues
    <3>3. QED
      BY <2>3, <3>2
  <2>6. ASSUME NEW q \in Process, ChildExits(q) PROVE SameExits
    BY <1>0, <2>6, SameExitsSteps DEF ChildExits
  <2>7. ASSUME NEW q \in Process, WatcherReports(q) PROVE InQueue(p, "waitFailed")' = 0
    <3>1. Q!Enqueue(exit(q, "exited"))
      BY <2>7 DEF WatcherReports, Reliable
    <3>2. InQueue(p, "waitFailed")' = InQueue(p, "waitFailed") + 0
      BY <1>0, <2>1, <3>1, ExitEnqueued DEF Results
    <3>3. QED
      BY <2>2, <3>2
  <2>8. CASE AsyncHookEnds
    BY <1>0, <2>3, <2>8, SameExitsSteps DEF AsyncHookEnds
  <2>9. ASSUME NEW e \in Event, Forwarder(e) PROVE InQueue(p, "waitFailed")' = 0
    <3>1. InQueue(p, "waitFailed")' <= InQueue(p, "waitFailed")
      BY <1>0, <2>1, <2>9, ExitForwarded DEF Forwarder
    <3>2. QED
      BY <2>2, <3>1
  <2>10. QED
    BY <2>3, <2>4, <2>5, <2>6, <2>7, <2>8, <2>9 DEF Actors
<1>3. QED
  BY <1>1, <1>2 DEF NoneLeft

LEMMA InitLifeInv == Init => LifeInv
<1> SUFFICES ASSUME Init PROVE LifeInv
  OBVIOUS
<1>1. \A e \in Event : Q!InFlight(e) = 0
  <2>1. ASSUME NEW e \in Event PROVE Q!InFlight(e) = 0
    <3>1. Places(<<>>, e) = {}
      BY DEF Places
    <3>2. Buffered(<<>>, e) = 0
      BY <3>1, FS_EmptySet DEF Buffered
    <3>3. events = <<>> /\ forwarders[e] = 0
      BY DEF Init, Q!Init
    <3>4. QED
      BY <3>2, <3>3, SameCount DEF Q!InFlight
  <2>2. QED
    BY <2>1
<1>2. Held
  BY DEF Init, Held, At
<1>3. NoneLeft
  BY <1>1, EventShapes DEF Init, NoneLeft, InQueue, Results
<1>4. Asked
  BY <1>1 DEF Init, Asked, At, Event
<1>5. QED
  BY <1>2, <1>3, <1>4 DEF LifeInv

LEMMA StepLifeInv ==
    ASSUME Reliable, IInv, LifeInv, [Next]_vars
    PROVE  LifeInv'
<1>1. IInv'
  BY StepIInv
<1>2. TypeOK /\ TypeOK' /\ FlowInv /\ ExitInv
  BY <1>1 DEF IInv
<1>3. CASE Supervise
  BY <1>2, <1>3, SuperviseHeld, SuperviseNoneLeft, SuperviseAsked DEF LifeInv
<1>4. CASE Actors
  BY <1>2, <1>4, ActorsHeld, ActorsNoneLeft, ActorsAsked DEF LifeInv
<1>5. CASE UNCHANGED vars
  <2>1. UNCHANGED <<flow, plan, kids, restartAllowed, queue, reports, handler>>
    BY <1>5 DEF vars
  <2>2. \A e : Q!InFlight(e)' = Q!InFlight(e)
    BY <2>1 DEF queue, Q!InFlight, Q!Buffered, Q!Places
  <2>3. Held'
    BY <2>1 DEF LifeInv, Held, At, flow, plan, reports
  <2>4. NoneLeft'
    BY <2>1, <2>2 DEF LifeInv, NoneLeft, InQueue, At, flow, kids
  <2>5. Asked'
    BY <2>1, <2>2 DEF LifeInv, Asked, At, flow
  <2>6. QED
    BY <2>3, <2>4, <2>5 DEF LifeInv
<1>6. QED
  BY <1>3, <1>4, <1>5 DEF Next, Actors

-----------------------------------------------------------------------------
(* Every step of the supervisor is a step of the lifecycle or invisible.   *)

LegalStep == [Lifecycle!Next]_(Lifecycle!vars)

LEMMA LegalReports ==
    /\ DOMAIN Lifecycle!Legal = States
    /\ "StartPending" \in Lifecycle!Legal["Registered"]
    /\ \A s \in {"StartPending", "Paused", "Running", "StopPending", "Stopped", "Crashed"} :
          s \in Lifecycle!Legal["StartPending"] /\ s \in Lifecycle!Legal["Running"]
    /\ \A s \in {"Paused", "StartPending", "StopPending"} : s \in Lifecycle!Legal["Paused"]
    /\ \A s \in {"StopPending", "Stopped"} : s \in Lifecycle!Legal["StopPending"]
BY DEF Lifecycle!Legal, States

\* A report that is legal after what the SCM holds, or repeats it.
LEMMA ReportStep ==
    ASSUME NEW s \in States, scm' = s, scm \in States,
           s \in Lifecycle!Legal[scm] \/ s = scm,
           s \in {"Paused", "Stopped", "Crashed"} => running = {} \/ s = scm,
           scm = "Running" /\ s = "StartPending" => running = {},
           UNCHANGED <<restartAllowed, running, lateStarts>>
    PROVE  LegalStep
<1>1. CASE s = scm
  BY <1>1 DEF LegalStep, Lifecycle!vars
<1>2. CASE s # scm
  <2>1. Lifecycle!Report(s) /\ UNCHANGED ~restartAllowed
    BY <1>2 DEF Lifecycle!Report
  <2>2. QED
    BY <2>1, LegalReports DEF LegalStep, Lifecycle!Next
<1>3. QED
  BY <1>1, <1>2

LEMMA SilentStep ==
    ASSUME UNCHANGED <<scm, restartAllowed, running, lateStarts>>
    PROVE  LegalStep
BY DEF LegalStep, Lifecycle!vars

\* At most one process runs, so that the end of one leaves none.
LEMMA LossStep ==
    ASSUME \A p, q \in running : p = q, NEW p, running' = running \ {p},
           UNCHANGED <<scm, restartAllowed, lateStarts>>
    PROVE  LegalStep
<1>1. CASE p \notin running
  BY <1>1, SilentStep
<1>2. CASE p \in running
  <2>1. Lifecycle!ChildEnds
    BY <1>2 DEF Lifecycle!ChildEnds
  <2>2. QED
    BY <2>1 DEF LegalStep, Lifecycle!Next
<1>3. QED
  BY <1>1, <1>2

LEMMA ActorsLifecycle ==
    ASSUME IInv, Actors
    PROVE  LegalStep
<1>0. UNCHANGED <<scm, lateStarts>>
  BY ActorsStandBy DEF reports
<1>1. ASSUME NEW c \in Controls, ScmSends(c) PROVE LegalStep
  <2>1. running' = running /\ (restartAllowed' = restartAllowed \/ restartAllowed' = FALSE)
    BY <1>1 DEF ScmSends, kids
  <2>2. CASE restartAllowed' = restartAllowed
    BY <1>0, <2>1, <2>2, SilentStep
  <2>3. CASE restartAllowed' = FALSE
    BY <1>0, <2>1, <2>3 DEF LegalStep, Lifecycle!Next, Lifecycle!RequestStop
  <2>4. QED
    BY <2>1, <2>2, <2>3
<1>2. ASSUME NEW p \in Process, ChildExits(p) PROVE LegalStep
  BY <1>0, <1>2, LossStep DEF ChildExits, IInv, ExitInv, RunningChild
<1>3. CASE HandlerEnqueues \/ AsyncHookEnds
  BY <1>0, <1>3, SilentStep DEF HandlerEnqueues, AsyncHookEnds, kids
<1>4. ASSUME NEW p \in Process, WatcherReports(p) PROVE LegalStep
  BY <1>0, <1>4, SilentStep DEF WatcherReports
<1>5. ASSUME NEW e \in Event, Forwarder(e) PROVE LegalStep
  BY <1>0, <1>5, SilentStep DEF Forwarder, kids
<1>6. QED
  BY <1>1, <1>2, <1>3, <1>4, <1>5 DEF Actors

LEMMA SuperviseLifecycle ==
    ASSUME Reliable, IInv, LifeInv, Supervise
    PROVE  LegalStep
<1>0. /\ Reliable /\ TypeOK /\ FlowInv /\ Held /\ NoneLeft /\ Asked /\ HookShape
      /\ waitState \in {"Paused", "StartPending"} /\ restartAllowed \in BOOLEAN
      /\ scm \in States
      /\ At \in {"wait", "recheck", "startFailed", "ignored", "stopping"} => ~stopHookRun
      /\ At \in Empty => running = {}
      /\ At = "collect" => running = {}
      /\ At = "spawn" => lateStarts = 0
      /\ \A p, q \in running : p = q
  BY DEF IInv, LifeInv, TypeOK, FlowInv, NoStartAfterStopHook, NoneLeft, ExitInv, RunningChild,
         LateInv
<1>1. ASSUME NEW s \in States, scm' = s,
             s \in Lifecycle!Legal[scm] \/ s = scm,
             s \in {"Paused", "Stopped", "Crashed"} => running = {} \/ s = scm,
             scm = "Running" /\ s = "StartPending" => running = {},
             UNCHANGED <<restartAllowed, running, lateStarts>>
      PROVE  LegalStep
  BY <1>0, <1>1, ReportStep
<1>2. ASSUME NEW next \in {"finish", "stopTree"}, At = pc, pc # "hook", ~stopHookRun,
             scm \in {"Paused", "StartPending", "Running"}, PrepareStop(next),
             UNCHANGED <<restartAllowed, running, lateStarts>>
      PROVE  LegalStep
  <2>1. scm' = "StopPending" /\ "StopPending" \in States
    BY <1>0, <1>2, PrepareStopHeld DEF States
  <2>2. "StopPending" \in Lifecycle!Legal[scm]
    BY <1>2, LegalReports
  <2>3. QED
    BY <1>1, <1>2, <2>1, <2>2
<1>3. UNCHANGED kids => UNCHANGED <<running, lateStarts>>
  BY DEF kids
<1> USE <1>0, <1>3, LegalReports
    DEF Reliable, Held, At, Empty, Childless, States, ReportIgnored, Reported, ReportFailed,
        ProgressReported, ProgressFailed, reports
<1>4. CASE Boot
  BY <1>1, <1>4 DEF Boot
<1>5. CASE Load
  BY <1>5, SilentStep DEF Load
<1>6. CASE Plan
  <2>1. CASE UNCHANGED scm
    BY <1>6, <2>1, SilentStep DEF Plan
  <2>2. CASE scm' = "Paused"
    BY <1>1, <1>6, <2>2 DEF Plan
  <2>3. QED
    BY <1>6, <2>1, <2>2 DEF Plan, EnterWait
<1>7. CASE WaitSlice
  BY <1>7, SilentStep DEF WaitSlice
<1>8. CASE WaitStop
  BY <1>2, <1>8 DEF WaitStop
<1>9. CASE WaitContinue
  BY <1>9, SilentStep DEF WaitContinue
<1>10. CASE ServeControl
  BY <1>10, SilentStep DEF ServeControl, SelectLoops
<1>11. CASE SkipEvent
  BY <1>11, SilentStep DEF SkipEvent
<1>12. CASE Recheck
  <2>1. CASE PrepareStop("finish")
    BY <1>2, <1>12, <2>1 DEF Recheck
  <2>2. CASE scm' = "StartPending"
    BY <1>1, <1>12, <2>2 DEF Recheck
  <2>3. QED
    BY <1>12, <2>1, <2>2 DEF Recheck
<1>13. CASE Open
  BY <1>13, SilentStep DEF Open
<1>14. CASE Spawn
  <2>1. /\ running' # {} /\ running = {} /\ scm = "StartPending" /\ lateStarts = 0
        /\ UNCHANGED <<scm, restartAllowed>>
        /\ lateStarts' = IF ~restartAllowed THEN lateStarts + 1 ELSE lateStarts
    BY <1>14 DEF Spawn
  <2>2. Lifecycle!StartChild
    BY <2>1 DEF Lifecycle!StartChild
  <2>3. QED
    BY <2>2 DEF LegalStep, Lifecycle!Next
<1>15. CASE SpawnFails
  BY <1>15, SilentStep DEF SpawnFails
<1>16. CASE AfterFailedStart
  <2>1. CASE PrepareStop("finish")
    BY <1>2, <1>16, <2>1 DEF AfterFailedStart
  <2>2. CASE ~PrepareStop("finish")
    BY <1>16, <2>2, SilentStep DEF AfterFailedStart, EnterWait
  <2>3. QED
    BY <2>1, <2>2
<1>17. CASE StartupSlice
  BY <1>17, SilentStep DEF StartupSlice
<1>18. CASE ChildStop \/ ChildEnded
  BY <1>18, SilentStep DEF ChildStop, ChildEnded
<1>19. CASE BecomesHealthy
  BY <1>1, <1>19 DEF BecomesHealthy
<1>20. CASE Collect
  <2>1. UNCHANGED <<restartAllowed, running, lateStarts>> /\ scm \in {"StartPending", "Running"}
    BY <1>20 DEF Collect, Collected
  <2>2. CASE UNCHANGED scm
    BY <2>1, <2>2, SilentStep
  <2>3. CASE scm' = "Running"
    BY <1>1, <2>1, <2>3
  <2>4. CASE scm' = "StopPending"
    BY <1>1, <2>1, <2>4
  <2>5. QED
    BY <1>20, <2>2, <2>3, <2>4 DEF Collect, TreeProgress
<1>21. CASE Suicide
  BY <1>1, <1>21 DEF Suicide
<1>22. CASE IgnoredStop
  BY <1>2, <1>22 DEF IgnoredStop
<1>23. CASE Stopping
  <2>1. UNCHANGED restartAllowed
    BY <1>23 DEF Stopping, Asked
  <2>2. QED
    BY <1>2, <1>23, <2>1 DEF Stopping
<1>24. CASE StopTree
  <2>1. UNCHANGED <<scm, restartAllowed, lateStarts>>
    BY <1>24 DEF StopTree
  <2>2. CASE running' = running \ {process}
    BY <2>1, <2>2, LossStep
  <2>3. CASE UNCHANGED running
    BY <2>1, <2>3, SilentStep
  <2>4. QED
    BY <1>24, <2>2, <2>3 DEF StopTree
<1>25. CASE Drained
  BY <1>25, SilentStep DEF Drained, Collected
<1>26. CASE HookEnds
  BY <1>26, SilentStep DEF HookEnds
<1>27. CASE Finish
  BY <1>1, <1>27 DEF Finish
<1>28. CASE Failed
  BY <1>1, <1>28 DEF Failed
<1>29. CASE Unwind
  BY <1>29, SilentStep DEF Unwind
<1> HIDE DEF Reliable, Held, At, Empty, Childless, States, ReportIgnored, Reported, ReportFailed,
             ProgressReported, ProgressFailed, reports
<1>30. QED
  BY <1>4, <1>5, <1>6, <1>7, <1>8, <1>9, <1>10, <1>11, <1>12, <1>13, <1>14, <1>15, <1>16,
     <1>17, <1>18, <1>19, <1>20, <1>21, <1>22, <1>23, <1>24, <1>25, <1>26, <1>27, <1>28, <1>29
  DEF Supervise

(* Where the SCM takes every report and no watcher fails, every step of    *)
(* the state machine keeps the promise of the service lifecycle: only      *)
(* legal states follow one another, nothing is reported as paused, stopped *)
(* or crashed and no running service as starting while a child lives, one  *)
(* child is started at a time, and at most one after a stop was requested. *)
(* That the stop is answered too, where the child does not refuse to exit  *)
(* for ever, is left to TLC; with it, the supervisor implements the        *)
(* lifecycle.                                                              *)
THEOREM KeepsTheLifecycle ==
    ASSUME "report" \notin Faults, "wait" \notin Faults
    PROVE  /\ Spec => Lifecycle!Spec
           /\ Spec /\ Lifecycle!Answered => ImplementsLifecycle
<1>0. Reliable
  BY DEF Reliable
<1>1. Init => Lifecycle!Init
  BY DEF Init, Lifecycle!Init
<1>2. IInv /\ LifeInv /\ [Next]_vars => LifeInv'
  BY <1>0, StepLifeInv
<1>3. IInv /\ LifeInv /\ [Next]_vars => [Lifecycle!Next]_(Lifecycle!vars)
  <2> SUFFICES ASSUME IInv, LifeInv, [Next]_vars PROVE LegalStep
    BY DEF LegalStep
  <2>1. CASE Supervise
    BY <1>0, <2>1, SuperviseLifecycle
  <2>2. CASE Actors
    BY <2>2, ActorsLifecycle
  <2>3. CASE UNCHANGED vars
    BY <2>3, SilentStep DEF vars, kids, reports
  <2>4. QED
    BY <2>1, <2>2, <2>3 DEF Next, Actors
<1>4. Spec => Lifecycle!Spec
  BY InitLifeInv, SpecIInv, <1>1, <1>2, <1>3, PTL DEF Spec, Lifecycle!Spec
<1>5. QED
  BY <1>4, PTL DEF ImplementsLifecycle, Lifecycle!FairSpec
=============================================================================
