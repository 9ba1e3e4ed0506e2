--------------------------- MODULE ServiceControl ---------------------------
(***************************************************************************)
(* The commands that administer one service, given at a command line       *)
(* (app/command.go) or in the dashboard and its forms (gui/): install,     *)
(* remove, start, stop, restart, pause, continue and rotate.  Several      *)
(* callers run them at the same time against the service control manager   *)
(* (platform/manager_windows.go), which holds the registration of the      *)
(* service and relays controls to the running instance.                    *)
(*                                                                         *)
(* The running instance is not modelled again: it may report whatever      *)
(* ServiceLifecycle allows it to, in any order that module allows, or be   *)
(* killed.  The service control manager and the registry are external:     *)
(* what they do is taken from the calls and the error codes in src/.       *)
(***************************************************************************)
EXTENDS Naturals, Sequences, FiniteSets

CONSTANTS Callers,          \* processes that run commands, one at a time each
          Commands,         \* the commands they run
          MayRefuse,        \* TRUE: any call may also fail for a reason of its own
          MaxPolls,         \* bound: polls before the 30 s deadline of waitState
          MaxCommands       \* bound: commands run altogether

AllCommands == {"start", "stop", "restart", "pause", "continue", "rotate",
                "install", "form", "remove"}

ASSUME CallersAssumption  == IsFiniteSet(Callers)
ASSUME CommandsAssumption == Commands \subseteq AllCommands
ASSUME RefuseAssumption   == MayRefuse \in BOOLEAN
ASSUME BoundsAssumption   == MaxPolls \in Nat /\ MaxCommands \in Nat

VARIABLES registration,   \* number of the registration under the name, 0: none
          registrations,  \* registrations created so far
          marked,         \* it is marked for deletion
          stored,         \* parameters stored under the name
          handles,        \* callers that hold a handle of the registration
          scm,            \* what the running instance last reported
          instance,       \* number of the instance last started
          asked,          \* that instance was told to stop
          pc,             \* what a caller does next
          command,        \* the command it runs, or ran last
          code,           \* the control waitState waits for
          polls,          \* polls of waitState so far
          step,           \* writes of an installation so far
          since,          \* instance that was the last when the command began
          target,         \* instance a Stop was delivered to, 0: none
          own,            \* registration the command created, 0: none
          stuck,          \* the removal of it in a roll-back was refused
          result,         \* how its last command ended
          issued          \* commands begun so far

service == <<scm, instance, asked>>
database == <<registration, registrations, marked, stored>>
caller == <<command, since, own, stuck, issued>>
vars == <<database, handles, service, pc, code, polls, step, target, result, caller>>

Life == INSTANCE ServiceLifecycle
          WITH stopRequested <- asked, alive <- FALSE, lateStarts <- 0, unforced <- FALSE

\* The state the manager shows for what the instance reported (control.go: State).
Shown(s) == CASE s = "Registered" -> "StartPending"
              [] s = "Crashed"    -> "Stopped"
              [] OTHER            -> s

\* Whether a state is the wanted one, a step towards it, or neither, after a
\* control was sent.  The states PausePending and ContinuePending are never shown.
Wanted == {<<"Start", "Running">>, <<"Stop", "Stopped">>, <<"Pause", "Paused">>,
           <<"Continue", "Running">>}

OnTheWay == {<<"Start", "StartPending">>, <<"Stop", "Running">>, <<"Stop", "StopPending">>}

ClassifyPendingAsDone(k, s) ==    \* mutant: a pending stop counts as the stop
  CASE k = "Rotate" \/ <<k, s>> \in Wanted \/ s = "StopPending" -> "Desired"
    [] <<k, s>> \in OnTheWay -> "Expected"
    [] OTHER -> "Unexpected"
Classify(k, s) == CASE k = "Rotate" \/ <<k, s>> \in Wanted -> "Desired"
                    [] <<k, s>> \in OnTheWay -> "Expected"
                    [] OTHER -> "Unexpected"

Codes == {"Start", "Stop", "Pause", "Continue", "Rotate"}

\* The control each command sends; restart sends Stop before it starts.
ControlOf == [stop |-> "Stop", restart |-> "Stop", pause |-> "Pause",
              continue |-> "Continue", rotate |-> "Rotate"]

\* Where each command begins.
Entry(k) == CASE k \in DOMAIN ControlOf       -> "control"
              [] k \in {"install", "form"}    -> "create"
              [] k = "remove"                 -> "delete"
              [] OTHER                        -> "start"

\* The writes of InstallService: the program and its arguments, the default exit
\* action, the event source.  Any may fail, and each failure is treated alike.
InstallWrites == <<"Application", "AppExit", "EventSource">>

\* The writes of the form that follow: one that the manager stores, which needs
\* the service, and one stored as a parameter, which does not.
FormWrites == <<"ObjectName", "AppEvents">>

Installed == {"Application", "AppExit", "EventSource"}
Parameters == Installed \cup {"ObjectName", "AppEvents"}

\* What a command stores when it succeeds.
Promised(k) == IF k = "form" THEN Parameters ELSE Installed

Results == {"none", "ok", "refused", "unexpected", "timeout"}

PCs == {"idle", "start", "control", "poll", "create", "write", "persist", "undo", "delete"}

\* The instance with number n has ended.
Over(n) == n < instance \/ (n = instance /\ scm \in Life!Ended)

-----------------------------------------------------------------------------
Init ==
  /\ \/ registration = 0 /\ scm = "Stopped"
     \/ registration = 1 /\ scm \in {"Stopped", "Running", "Paused"}
  /\ registrations = registration
  /\ marked = FALSE
  /\ stored = IF registration = 0 THEN {} ELSE Parameters
  /\ handles = {}
  /\ instance = IF scm = "Stopped" THEN 0 ELSE 1
  /\ asked = FALSE
  /\ pc = [c \in Callers |-> "idle"]
  /\ command = [c \in Callers |-> "start"]
  /\ code = [c \in Callers |-> "Start"]
  /\ polls = [c \in Callers |-> 0]
  /\ step = [c \in Callers |-> 0]
  /\ since = [c \in Callers |-> 0]
  /\ target = [c \in Callers |-> 0]
  /\ own = [c \in Callers |-> 0]
  /\ stuck = [c \in Callers |-> FALSE]
  /\ result = [c \in Callers |-> "none"]
  /\ issued = 0

Goto(c, p) == pc' = [pc EXCEPT ![c] = p] /\ UNCHANGED result

Finish(c, r) == /\ pc' = [pc EXCEPT ![c] = "idle"]
                /\ result' = [result EXCEPT ![c] = r]

\* The deferred closeServiceHandle of every call.
CloseHandleForgotten(c) == UNCHANGED handles    \* mutant
CloseHandle(c) == handles' = handles \ {c}

-----------------------------------------------------------------------------
\* A caller runs a command: RunCommand, or a button of the dashboard.
Begin(c, k) ==
  /\ pc[c] = "idle"
  /\ issued < MaxCommands
  /\ issued' = issued + 1
  /\ pc' = [pc EXCEPT ![c] = Entry(k)]
  /\ command' = [command EXCEPT ![c] = k]
  /\ code' = [code EXCEPT ![c] = IF k \in DOMAIN ControlOf THEN ControlOf[k] ELSE "Start"]
  /\ since' = [since EXCEPT ![c] = instance]
  /\ step' = [step EXCEPT ![c] = 0]
  /\ target' = [target EXCEPT ![c] = 0]
  /\ own' = [own EXCEPT ![c] = 0]
  /\ stuck' = [stuck EXCEPT ![c] = FALSE]
  /\ result' = [result EXCEPT ![c] = "none"]
  /\ UNCHANGED <<database, handles, service, polls>>

-----------------------------------------------------------------------------
\* StartServiceW accepts only a registered service that has no instance.
Startable == registration # 0 /\ ~marked /\ scm \in Life!Ended

\* Mutant: the error that the service already runs is taken for success.
StartAlreadyRunning(c) ==
  /\ pc[c] = "start"
  /\ IF Startable THEN /\ scm' = "Registered"
                       /\ instance' = instance + 1
                       /\ asked' = FALSE
                  ELSE UNCHANGED service
  /\ handles' = handles \cup {c}
  /\ code' = [code EXCEPT ![c] = "Start"]
  /\ polls' = [polls EXCEPT ![c] = 0]
  /\ Goto(c, "poll")
  /\ UNCHANGED <<database, step, target, caller>>

\* StartService.  An error of the call ends the command; otherwise the manager
\* has created an instance, which it shows as starting, and waitState begins.
Start(c) ==
  /\ pc[c] = "start"
  /\ \/ /\ Startable
        /\ scm' = "Registered"
        /\ instance' = instance + 1
        /\ asked' = FALSE
        /\ handles' = handles \cup {c}
        /\ code' = [code EXCEPT ![c] = "Start"]
        /\ polls' = [polls EXCEPT ![c] = 0]
        /\ Goto(c, "poll")
     \/ /\ ~Startable
        /\ Finish(c, "refused")
        /\ UNCHANGED <<handles, service, code, polls>>
  /\ UNCHANGED <<database, step, target, caller>>

\* The controls the handler of the supervisor takes in each state it may report,
\* as the flags it reports with the state allow them through.  Nothing gets
\* through to an instance that has not registered its handler or is stopping.
Accepts(s, k) == CASE k = "Stop"     -> s \in {"StartPending", "Running", "Paused"}
                   [] k = "Continue" -> s \in {"Running", "Paused"}
                   [] k = "Rotate"   -> s \in {"StartPending", "Running", "Paused"}
                   [] OTHER          -> FALSE

\* An error of ControlService.  restart goes on to the start when the error says
\* that the service is not active, and only then.
ControlFails(c, notActive) ==
  IF command[c] = "restart" /\ notActive
  THEN Goto(c, "start")
  ELSE Finish(c, "refused")

\* SendControl up to waitState.  The handler only enqueues the control, so the
\* state is the same after the call as before it.
SendControl(c) ==
  /\ pc[c] = "control"
  /\ \/ /\ registration # 0
        /\ Accepts(scm, code[c])
        /\ asked' = (asked \/ code[c] = "Stop")
        /\ target' = IF code[c] = "Stop" THEN [target EXCEPT ![c] = instance] ELSE target
        /\ handles' = handles \cup {c}
        /\ polls' = [polls EXCEPT ![c] = 0]
        /\ Goto(c, "poll")
     \/ /\ registration # 0 /\ scm \in Life!Ended
        /\ ControlFails(c, TRUE)
        /\ UNCHANGED <<asked, target, handles, polls>>
     \/ /\ registration = 0 \/ (scm \notin Life!Ended /\ ~Accepts(scm, code[c]))
        /\ ControlFails(c, FALSE)
        /\ UNCHANGED <<asked, target, handles, polls>>
  /\ UNCHANGED <<database, scm, instance, code, step, caller>>

\* The deadline of waitState has passed.
Late(c) == polls[c] >= MaxPolls

\* Another round, 100 ms later.
AgainForEver(c) ==                     \* mutant: every round sets a new deadline
  polls' = [polls EXCEPT ![c] = 0] /\ UNCHANGED <<handles, pc, result>>
Again(c) == polls' = [polls EXCEPT ![c] = @ + 1] /\ UNCHANGED <<handles, pc, result>>

\* One round of waitState: the state is read and judged, and the handle closed
\* when the wait is over.
Judge(c, verdict) ==
  CASE verdict = "Desired" ->
         /\ CloseHandle(c)
         /\ IF command[c] = "restart" /\ code[c] = "Stop"
            THEN Goto(c, "start")
            ELSE Finish(c, "ok")
         /\ UNCHANGED polls
    [] verdict = "Unexpected" -> CloseHandle(c) /\ Finish(c, "unexpected") /\ UNCHANGED polls
    [] verdict = "Expected" /\ Late(c) ->
         CloseHandle(c) /\ Finish(c, "timeout") /\ UNCHANGED polls
    [] OTHER -> Again(c)

WaitState(c) ==
  /\ pc[c] = "poll"
  /\ Judge(c, Classify(code[c], Shown(scm)))
  /\ UNCHANGED <<database, service, code, step, target, caller>>

-----------------------------------------------------------------------------
\* CreateServiceW accepts the name only when nothing is registered under it, a
\* registration that waits for its deletion included.
Create(c) ==
  /\ pc[c] = "create"
  /\ \/ /\ registration = 0
        /\ registration' = registrations + 1
        /\ registrations' = registrations + 1
        /\ own' = [own EXCEPT ![c] = registrations + 1]
        /\ handles' = handles \cup {c}
        /\ scm' = "Stopped"
        /\ Goto(c, "write")
     \/ /\ registration # 0
        /\ Finish(c, "refused")
        /\ UNCHANGED <<registration, registrations, own, handles, scm>>
  /\ UNCHANGED <<marked, stored, instance, asked, code, polls, step, target,
                 command, since, stuck, issued>>

\* One write of InstallService, while the handle of CreateServiceW is held.  The
\* last one is the commit.
Write(c) ==
  /\ pc[c] = "write"
  /\ stored' = stored \cup {InstallWrites[step[c] + 1]}
  /\ IF step[c] + 1 < Len(InstallWrites)
     THEN /\ step' = [step EXCEPT ![c] = @ + 1]
          /\ UNCHANGED <<handles, pc, result>>
     ELSE /\ step' = [step EXCEPT ![c] = 0]
          /\ CloseHandle(c)
          /\ IF command[c] = "form" THEN Goto(c, "persist") ELSE Finish(c, "ok")
  /\ UNCHANGED <<registration, registrations, marked, service, code, polls, target, caller>>

\* ChangeServiceConfigW needs a registration that nobody has deleted.
Changeable == registration # 0 /\ ~marked

\* One write of Form.persist, which names the service and holds no handle.  What
\* the manager stores needs the service to exist; a parameter is written to the
\* registry whether it does or not.
Persist(c) ==
  /\ pc[c] = "persist"
  /\ LET p == FormWrites[step[c] + 1] IN
     \/ /\ p = "ObjectName" => Changeable
        /\ stored' = stored \cup {p}
        /\ IF step[c] + 1 < Len(FormWrites)
           THEN /\ step' = [step EXCEPT ![c] = @ + 1]
                /\ UNCHANGED <<pc, result>>
           ELSE /\ Finish(c, "ok")
                /\ UNCHANGED step
     \/ /\ p = "ObjectName" /\ ~Changeable
        /\ Goto(c, "undo")
        /\ UNCHANGED <<stored, step>>
  /\ UNCHANGED <<registration, registrations, marked, handles, service, code, polls,
                 target, caller>>

\* The roll-back of Form.Save: RemoveService by name, its error ignored.
Undo(c) ==
  /\ pc[c] = "undo"
  /\ marked' = (registration # 0)
  /\ Finish(c, "refused")
  /\ UNCHANGED <<registration, registrations, stored, handles, service, code, polls,
                 step, target, caller>>

\* RemoveService: a second deletion of the same registration is an error.
Remove(c) ==
  /\ pc[c] = "delete"
  /\ \/ /\ registration # 0 /\ ~marked
        /\ marked' = TRUE
        /\ Finish(c, "ok")
     \/ /\ registration = 0 \/ marked
        /\ Finish(c, "refused")
        /\ UNCHANGED marked
  /\ UNCHANGED <<registration, registrations, stored, handles, service, code, polls,
                 step, target, caller>>

\* The deferred roll-back of InstallService, which deletes through the handle.
RollbackForgotten(c) == UNCHANGED marked    \* mutant: rollback cleared too early
Rollback(c) == marked' = TRUE

\* A call fails for a reason of its own: access, memory, the registry.  A failed
\* write undoes the installation; the roll-back of the form has nothing to fall
\* back on; every other failure just ends the command.
Refuse(c) ==
  /\ MayRefuse
  /\ pc[c] # "idle"
  /\ CloseHandle(c)
  /\ IF pc[c] = "persist" THEN Goto(c, "undo") ELSE Finish(c, "refused")
  /\ IF pc[c] = "write" THEN Rollback(c) ELSE UNCHANGED marked
  /\ stuck' = [stuck EXCEPT ![c] = (pc[c] = "undo")]
  /\ UNCHANGED <<registration, registrations, stored, service, code, polls, step,
                 target, command, since, own, issued>>

-----------------------------------------------------------------------------
\* The running instance reports a state that its life cycle allows, or dies.
Serve(s) ==
  /\ scm \notin Life!Ended
  /\ s \in Life!Legal[scm] \cup {"Crashed"}
  /\ scm' = s
  /\ UNCHANGED <<database, handles, instance, asked, pc, code, polls, step, target,
                 result, caller>>

\* The manager forgets a registration that was marked once no instance runs and
\* nobody holds a handle; what was stored under the name goes with it.
Vanish ==
  /\ registration # 0 /\ marked /\ handles = {} /\ scm \in Life!Ended
  /\ registration' = 0
  /\ marked' = FALSE
  /\ stored' = {}
  /\ UNCHANGED <<registrations, handles, service, pc, code, polls, step, target,
                 result, caller>>

Act(c) == Start(c) \/ SendControl(c) \/ WaitState(c) \/ Create(c) \/ Write(c)
            \/ Persist(c) \/ Undo(c) \/ Remove(c)

Next == \/ \E c \in Callers : Act(c) \/ Refuse(c)
        \/ \E c \in Callers, k \in Commands : Begin(c, k)
        \/ \E s \in DOMAIN Life!Legal : Serve(s)
        \/ Vanish

Spec == Init /\ [][Next]_vars

\* The process of a command is scheduled, the calls it makes return, and the
\* manager forgets what it may forget.  No call is bound to be refused, and nothing
\* is assumed of the service, which may stay in any state for ever.
FairSpec == Spec /\ WF_vars(Vanish) /\ \A c \in Callers : WF_vars(Act(c))

-----------------------------------------------------------------------------
\* Every variable has its type; waitState does not poll beyond its deadline.
TypeOK ==
  /\ registrations \in Nat
  /\ registration \in {0, registrations}
  /\ marked \in BOOLEAN /\ (marked => registration # 0)
  /\ stored \subseteq Parameters
  /\ handles \subseteq Callers
  /\ scm \in DOMAIN Life!Legal
  /\ instance \in Nat
  /\ asked \in BOOLEAN
  /\ pc \in [Callers -> PCs]
  /\ command \in [Callers -> AllCommands]
  /\ code \in [Callers -> Codes]
  /\ polls \in [Callers -> 0..MaxPolls]
  /\ step \in [Callers -> 0..(Len(InstallWrites) - 1)]
  /\ since \in [Callers -> Nat]
  /\ target \in [Callers -> Nat]
  /\ own \in [Callers -> Nat]
  /\ stuck \in [Callers -> BOOLEAN]
  /\ result \in [Callers -> Results]
  /\ issued \in 0..MaxCommands

\* A start or a restart that reports success has seen the service running in an
\* instance which was started after the command began: success is never the
\* running of an instance that was there before (StartService, waitState).
NewInstance ==
  [][\A c \in Callers :
       /\ command[c] \in {"start", "restart"}
       /\ result[c] # "ok" /\ result'[c] = "ok"
       => scm = "Running" /\ instance > since[c]]_vars

\* A stop or a restart that reports success has ended the instance it sent the
\* Stop to, whatever other commands did to the service meanwhile (SendControl).
StoppedIsOver ==
  \A c \in Callers :
    /\ command[c] \in {"stop", "restart"}
    /\ result[c] = "ok" /\ target[c] # 0
    => Over(target[c])

\* An installation, by the command or by the form, is all or nothing: after a
\* success the registration it made holds everything it had to store, and after
\* a failure that registration is gone or waits for its deletion, unless the
\* manager refused the removal of the form's roll-back (InstallService, Save).
InstallIsAllOrNothing ==
  \A c \in Callers :
    /\ command[c] \in {"install", "form"}
    /\ pc[c] = "idle" /\ own[c] # 0
    => \/ registration # own[c] \/ marked
       \/ result[c] = "ok" /\ Promised(command[c]) \subseteq stored
       \/ stuck[c]

\* Every command ends, even when the service hangs in a pending state (waitState).
CommandEnds == \A c \in Callers : pc[c] # "idle" ~> pc[c] = "idle"

\* A service that was removed disappears once its instance has ended: no command,
\* however it ended, keeps a handle that holds the registration (RemoveService
\* and the deferred closeServiceHandle of every call).
RemovalCompletes == marked /\ scm \in Life!Ended ~> ~marked

\* The contract of restart, "end up running" (command.go:577): a restart that gives
\* up because of the state it saw has not told the service to stop.
RestartEndsRunning ==
  \A c \in Callers :
    command[c] = "restart" /\ result[c] = "unexpected" => ~asked
=============================================================================
