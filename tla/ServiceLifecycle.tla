-------------------------- MODULE ServiceLifecycle --------------------------
(***************************************************************************)
(* What an administrator and the service control manager may rely on: the  *)
(* states a service reports, in which order, when its child program may be *)
(* started, and that a stop is final and is answered.  Supervisor.tla is   *)
(* the state machine that keeps this promise.                              *)
(***************************************************************************)
EXTENDS Naturals

VARIABLES scm,            \* the service state the SCM holds
          stopRequested,  \* the service was told to stop
          alive,          \* the child program runs
          lateStarts,     \* how often it was started after the stop request
          unforced        \* the service waits for a program that may refuse to exit
                          \* and that its stop method does not terminate

vars == <<scm, stopRequested, alive, lateStarts>>

Ended == {"Stopped", "Crashed"}

Init == /\ scm = "Registered"
        /\ stopRequested = FALSE
        /\ alive = FALSE
        /\ lateStarts = 0

\* Which state may be reported after which.  Nothing follows an end, only the
\* end follows a pending stop, and a running service never claims to be starting
\* again without its child having gone.
Legal == [ Registered   |-> {"StartPending"},
           StartPending |-> {"StartPending", "Paused", "Running", "StopPending",
                             "Stopped", "Crashed"},
           Paused       |-> {"Paused", "StartPending", "StopPending"},
           Running      |-> {"Running", "Paused", "StartPending", "StopPending",
                             "Stopped", "Crashed"},
           StopPending  |-> {"StopPending", "Stopped"},
           Stopped      |-> {},
           Crashed      |-> {} ]

Report(s) == /\ s \in Legal[scm]
             /\ s \in {"Paused", "Stopped", "Crashed"} => ~alive
             /\ scm = "Running" /\ s = "StartPending" => ~alive
             /\ scm' = s
             /\ UNCHANGED <<alive, lateStarts>>

\* One child at a time, and at most one start slips through after a stop request.
StartChild == /\ scm = "StartPending"
              /\ ~alive
              /\ stopRequested => lateStarts = 0
              /\ alive' = TRUE
              /\ lateStarts' = IF stopRequested THEN lateStarts + 1 ELSE lateStarts
              /\ UNCHANGED <<scm, stopRequested>>

ChildEnds == /\ alive
             /\ alive' = FALSE
             /\ UNCHANGED <<scm, stopRequested, lateStarts>>

RequestStop == /\ stopRequested' = TRUE
               /\ UNCHANGED <<scm, alive, lateStarts>>

Next == \/ \E s \in DOMAIN Legal : Report(s) /\ UNCHANGED stopRequested
        \/ StartChild
        \/ ChildEnds
        \/ RequestStop

\* A stop request is answered, unless the program refuses to exit for ever and may
\* not be terminated.
Answered == []<>~unforced => (stopRequested ~> (scm \in Ended))

Spec == Init /\ [][Next]_vars

FairSpec == Spec /\ Answered
=============================================================================
