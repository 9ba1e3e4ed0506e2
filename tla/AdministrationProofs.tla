------------------------- MODULE AdministrationProofs -------------------------
(***************************************************************************)
(* Proofs about the runs that administer a service, for every number of    *)
(* runs, every store, command line and user to begin with, and all bounds: *)
(* a run asks for administrator rights once, an installation that failed   *)
(* is not left behind, what the supervisor reads is what `get` shows and   *)
(* stays so, an edit writes no setting whose control was left alone, and   *)
(* what a save or a command reports to have stored can be read back.       *)
(***************************************************************************)
EXTENDS Administration, FiniteSetTheorems, SequenceTheorems, WellFoundedInduction, TLAPS

-----------------------------------------------------------------------------
(* Elevation.  All that a step does to a run is one of the following, and  *)
(* only two of them raise the number of elevations.                        *)

RunStep(p) ==
  \/ UNCHANGED run
  \/ \E c : GoTo(p, c)
  \/ \E c : End(p, c)
  \/ \E c : Return(p, c)
  \/ NeedsElevation(run[p].argv, run[p].admin) /\ Elevate(p)

RunFields == {"pc", "argv", "admin", "user", "elevations", "result"}

RunShape == DOMAIN run = Runs /\ \A p \in Runs : DOMAIN run[p] = RunFields

\* What holds of one run: it has asked at most once, is an administrator's once
\* it has, and was short if it was denied.
Asked1(r) ==
  /\ r.elevations \in {0, 1}
  /\ r.elevations = 1 =>
       /\ r.admin
       /\ Commands[CommandOf(r.argv)].elevation = "denied" => Len(r.argv) = 3

ElevationInv == RunShape /\ \A p \in Runs : Asked1(run[p])

LEMMA AdvanceRuns ==
  ASSUME NEW p \in Runs, Advance(p, store') PROVE RunStep(p)
BY DEF Advance, Close, RunStep

LEMMA FailRuns ==
  ASSUME NEW p \in Runs, NEW code, Fail(p, code) PROVE RunStep(p)
BY DEF Fail, RunStep

LEMMA StepRuns ==
  ASSUME NEW p \in Runs, Step(p) PROVE RunStep(p)
<1>1. CASE NoCommand(p)
  BY <1>1 DEF NoCommand, RunStep
<1>2. CASE ElevateFirst(p)
  BY <1>2 DEF ElevateFirst, RunStep
<1>3. CASE OpenWindow(p)
  BY <1>3 DEF OpenWindow, Open, RunStep
<1>4. CASE ReadCommand(p)
  BY <1>4 DEF ReadCommand, RunStep
<1>5. CASE SetOrReset(p)
  BY <1>5 DEF SetOrReset, RunStep
<1>6. CASE InstallOrRemove(p)
  BY <1>6 DEF InstallOrRemove, RunStep
<1>7. CASE ChangeRegistry(p)
  BY <1>7, AdvanceRuns, FailRuns DEF ChangeRegistry
<1>8. CASE ReadConfiguration(p)
  BY <1>8, FailRuns DEF ReadConfiguration, RunStep
<1>9. CASE ChangeConfiguration(p)
  BY <1>9, AdvanceRuns, FailRuns DEF ChangeConfiguration, RunStep
<1>10. CASE ChangeDelay(p)
  BY <1>10, AdvanceRuns, FailRuns DEF ChangeDelay
<1>11. CASE Create(p)
  BY <1>11 DEF Create, RunStep
<1>12. CASE Rollback(p)
  BY <1>12 DEF Rollback, RunStep
<1>13. CASE Type(p) \/ SwitchHook(p)
  BY <1>13 DEF Type, SwitchHook, RunStep
<1>14. CASE Accept(p)
  BY <1>14 DEF Accept, Close, RunStep
<1>15. CASE AcceptRemoval(p)
  BY <1>15 DEF AcceptRemoval, Close, RunStep
<1>16. CASE Cancel(p)
  BY <1>16 DEF Cancel, Close, RunStep
<1>17. CASE Select(p) \/ Refresh(p) \/ WindowRemove(p)
  BY <1>17 DEF Select, Refresh, WindowRemove, RunStep
<1>18. CASE WindowInstall(p) \/ WindowEdit(p)
  BY <1>18 DEF WindowInstall, WindowEdit, Open, RunStep
<1>19. CASE CloseWindow(p)
  BY <1>19 DEF CloseWindow, RunStep
<1> QED
  BY <1>1, <1>2, <1>3, <1>4, <1>5, <1>6, <1>7, <1>8, <1>9, <1>10, <1>11, <1>12, <1>13,
     <1>14, <1>15, <1>16, <1>17, <1>18, <1>19 DEF Step, Call

\* What a run has become after each of the three ways to change it.
LEMMA GoToRun ==
  ASSUME RunShape, NEW p \in Runs, NEW c, GoTo(p, c)
  PROVE  /\ RunShape'
         /\ \A q \in Runs : q # p => run'[q] = run[q]
         /\ run'[p].pc = c /\ run'[p].admin = run[p].admin
         /\ run'[p].argv = run[p].argv /\ run'[p].elevations = run[p].elevations
BY DEF RunShape, RunFields, GoTo

LEMMA EndRun ==
  ASSUME RunShape, NEW p \in Runs, NEW c, End(p, c)
  PROVE  /\ RunShape'
         /\ \A q \in Runs : q # p => run'[q] = run[q]
         /\ run'[p].pc = "ended" /\ run'[p].admin = run[p].admin
         /\ run'[p].argv = run[p].argv /\ run'[p].elevations = run[p].elevations
BY DEF RunShape, RunFields, End

LEMMA ElevateRun ==
  ASSUME RunShape, NEW p \in Runs, Elevate(p)
  PROVE  /\ RunShape'
         /\ \A q \in Runs : q # p => run'[q] = run[q]
         /\ run'[p].argv = run[p].argv
         /\ \/ /\ run'[p].pc = "launch" /\ run'[p].admin
               /\ run'[p].elevations = run[p].elevations + 1
            \/ /\ run'[p].pc = "ended" /\ run'[p].admin = run[p].admin
               /\ run'[p].elevations = run[p].elevations
<1>1. CASE run' = [run EXCEPT ![p].pc = "launch", ![p].admin = TRUE, ![p].elevations = @ + 1]
  BY <1>1 DEF RunShape, RunFields
<1>2. CASE End(p, 100)
  BY <1>2, EndRun
<1> QED
  BY <1>1, <1>2 DEF Elevate

\* Only a run that is no administrator's asks, and by the second way only when
\* it was short.
LEMMA ElevateKeeps ==
  ASSUME ElevationInv, NEW p \in Runs, Elevate(p), ~run[p].admin,
         Commands[CommandOf(run[p].argv)].elevation = "denied" => Len(run[p].argv) = 3
  PROVE  ElevationInv'
<1>1. RunShape /\ Asked1(run[p]) /\ run[p].elevations = 0
  BY DEF ElevationInv, Asked1
<1>2. Asked1(run'[p])
  BY <1>1, ElevateRun DEF Asked1
<1>3. \A q \in Runs : q # p => Asked1(run'[q])
  BY <1>1, ElevateRun DEF ElevationInv
<1> QED
  BY <1>1, <1>2, <1>3, ElevateRun DEF ElevationInv

LEMMA QuietKeeps ==
  ASSUME ElevationInv, NEW p \in Runs, NEW c, GoTo(p, c) \/ End(p, c)
  PROVE  ElevationInv'
<1>1. RunShape /\ \A q \in Runs : Asked1(run[q])
  BY DEF ElevationInv
<1>2. /\ RunShape' /\ \A q \in Runs : q # p => run'[q] = run[q]
      /\ run'[p].admin = run[p].admin
      /\ run'[p].argv = run[p].argv /\ run'[p].elevations = run[p].elevations
  BY <1>1, GoToRun, EndRun
<1>3. Asked1(run'[p])
  BY <1>1, <1>2 DEF Asked1
<1> QED
  BY <1>1, <1>2, <1>3 DEF ElevationInv

LEMMA ReturnKeeps ==
  ASSUME ElevationInv, NEW p \in Runs, NEW c, Return(p, c)
  PROVE  ElevationInv'
<1>1. CASE ShouldElevate(run[p].argv, c, run[p].admin)
  <2>1. Elevate(p)
    BY <1>1 DEF Return
  <2>2. /\ ~run[p].admin
        /\ Commands[CommandOf(run[p].argv)].elevation = "denied" => Len(run[p].argv) = 3
    BY <1>1 DEF ShouldElevate
  <2> QED
    BY <2>1, <2>2, ElevateKeeps
<1>2. CASE ~ShouldElevate(run[p].argv, c, run[p].admin)
  BY <1>2, QuietKeeps DEF Return
<1> QED
  BY <1>1, <1>2

LEMMA ElevationStep == ElevationInv /\ [Next]_vars => ElevationInv'
<1> SUFFICES ASSUME ElevationInv, [Next]_vars PROVE ElevationInv'
  OBVIOUS
<1>1. CASE UNCHANGED run
  BY <1>1 DEF ElevationInv, RunShape, Asked1
<1>2. ASSUME NEW p \in Runs, Step(p) PROVE ElevationInv'
  <2>1. RunStep(p)
    BY <1>2, StepRuns
  <2>2. ASSUME NeedsElevation(run[p].argv, run[p].admin), Elevate(p) PROVE ElevationInv'
    <3>1. ~run[p].admin /\ Commands[CommandOf(run[p].argv)].elevation # "denied"
      BY <2>2 DEF NeedsElevation
    <3> QED
      BY <2>2, <3>1, ElevateKeeps
  <2>3. ASSUME NEW c, GoTo(p, c) \/ End(p, c) PROVE ElevationInv'
    BY <2>3, QuietKeeps
  <2>4. ASSUME NEW c, Return(p, c) PROVE ElevationInv'
    BY <2>4, ReturnKeeps
  <2> QED
    BY <1>1, <2>1, <2>2, <2>3, <2>4 DEF RunStep
<1> QED
  BY <1>1, <1>2 DEF Next, vars

LEMMA InitElevation == Init => ElevationInv
<1> SUFFICES ASSUME Init PROVE ElevationInv
  OBVIOUS
<1>1. PICK scenario \in Scenarios :
        run = [p \in Runs |->
                 [pc |-> "launch", argv |-> scenario.argv[p], admin |-> scenario.admin,
                  user |-> scenario.user, elevations |-> 0, result |-> 0]]
  BY DEF Init
<1> QED
  BY <1>1 DEF ElevationInv, RunShape, RunFields, Asked1

\* However many runs there are and whatever they are refused, none asks for
\* administrator rights twice, and one that was denied hands on no more than
\* its name and the service's.
THEOREM AsksOnce == Spec => []ElevatesAtMostOnce
<1>1. ElevationInv => ElevatesAtMostOnce
  BY DEF ElevationInv, Asked1, ElevatesAtMostOnce
<1> QED
  BY <1>1, InitElevation, ElevationStep, PTL DEF Spec

-----------------------------------------------------------------------------
(* A failed installation.  Between the creation of its service and the end *)
(* of its save a run is making calls; it comes back to its dialog through  *)
(* a roll back only, which removes the service or notes that it is left.   *)

Busy == {"calls", "change", "delay", "rollback"}

DialogShape ==
  /\ DOMAIN dialog = Runs
  /\ \A p \in Runs : {"mode", "left"} \subseteq DOMAIN dialog[p]

StoreShape == "installed" \in DOMAIN store

\* A run without a dialog is one that starts, or shows its window.
NoDialogYet(p) == run[p].pc \in {"launch", "window"} => dialog[p].mode = "none"

OwnOrLeft(p) ==
  creator = p /\ store.installed /\ dialog[p].mode = "install"
    => run[p].pc \in Busy \/ dialog[p].left

InstallInv ==
  /\ RunShape /\ DialogShape /\ StoreShape
  /\ \A p \in Runs : NoDialogYet(p) /\ OwnOrLeft(p)

\* A step of one run leaves another's place and dialog alone, and gives it no
\* service.
Alone(p) ==
  /\ RunShape' /\ DialogShape' /\ StoreShape'
  /\ \A q \in Runs : q # p => run'[q] = run[q] /\ dialog'[q] = dialog[q]
  /\ \A q \in Runs : q # p /\ creator' = q => creator = q
  /\ creator' \in Runs \ {p} => store'.installed = store.installed

LEMMA OthersKeep ==
  ASSUME InstallInv, NEW p \in Runs, Alone(p), NoDialogYet(p)', OwnOrLeft(p)'
  PROVE  InstallInv'
<1>1. ASSUME NEW q \in Runs, q # p PROVE NoDialogYet(q)' /\ OwnOrLeft(q)'
  BY <1>1 DEF InstallInv, Alone, NoDialogYet, OwnOrLeft
<1> QED
  BY <1>1 DEF InstallInv, Alone

LEMMA ReturnRun ==
  ASSUME RunShape, NEW p \in Runs, NEW c, Return(p, c)
  PROVE  /\ RunShape'
         /\ \A q \in Runs : q # p => run'[q] = run[q]
         /\ run'[p].pc \in {"launch", "ended"}
BY ElevateRun, EndRun DEF Return

LEMMA NoDialogFacts ==
  /\ NoDialog.mode = "none" /\ ~NoDialog.left /\ {"mode", "left"} \subseteq DOMAIN NoDialog
  /\ \A m, n, o, g : /\ Dialog(m, n, o, g).mode = m /\ ~Dialog(m, n, o, g).left
                     /\ {"mode", "left"} \subseteq DOMAIN Dialog(m, n, o, g)
BY DEF NoDialog, Dialog

LEMMA CloseDialog ==
  ASSUME InstallInv, NEW p \in Runs, Close(p, store')
  PROVE  /\ RunShape' /\ DialogShape' /\ dialog'[p].mode = "none"
         /\ \A q \in Runs : q # p => run'[q] = run[q] /\ dialog'[q] = dialog[q]
<1>1. RunShape' /\ \A q \in Runs : q # p => run'[q] = run[q]
  BY GoToRun, ReturnRun DEF InstallInv, Close
<1>2. dialog' = [dialog EXCEPT ![p] = NoDialog]
  BY DEF Close
<1> QED
  BY <1>1, <1>2, NoDialogFacts DEF InstallInv, DialogShape

LEMMA OpenDialog ==
  ASSUME InstallInv, NEW p \in Runs, NEW m, NEW n, NEW o, NEW g, Open(p, Dialog(m, n, o, g)),
         UNCHANGED store
  PROVE  InstallInv'
<1>1. /\ RunShape' /\ run'[p].pc = "dialog"
      /\ \A q \in Runs : q # p => run'[q] = run[q]
  BY GoToRun DEF InstallInv, Open
<1>2. /\ DialogShape' /\ \A q \in Runs : q # p => dialog'[q] = dialog[q]
  BY NoDialogFacts DEF InstallInv, DialogShape, Open
<1>3. creator' # p /\ (creator' \in Runs => creator' = creator)
  BY RunsAssumption DEF Open
<1>4. Alone(p) /\ NoDialogYet(p)' /\ OwnOrLeft(p)'
  BY <1>1, <1>2, <1>3 DEF Alone, InstallInv, StoreShape, NoDialogYet, OwnOrLeft
<1> QED
  BY <1>4, OthersKeep

\* The end of a call that went well.
LEMMA AdvanceInstall ==
  ASSUME InstallInv, NEW p \in Runs, run[p].pc \in Busy, Advance(p, store'),
         StoreShape', store'.installed = store.installed, UNCHANGED creator
  PROVE  InstallInv'
<1>1. CASE GoTo(p, "calls") /\ UNCHANGED dialog
  <2>1. /\ RunShape' /\ run'[p].pc = "calls"
        /\ \A q \in Runs : q # p => run'[q] = run[q]
    BY <1>1, GoToRun DEF InstallInv
  <2>2. Alone(p) /\ NoDialogYet(p)' /\ OwnOrLeft(p)'
    BY <1>1, <2>1 DEF Alone, InstallInv, DialogShape, NoDialogYet, OwnOrLeft, Busy
  <2> QED
    BY <2>2, OthersKeep
<1>2. CASE dialog[p].mode = "none" /\ Return(p, 0) /\ UNCHANGED dialog
  <2>1. RunShape' /\ \A q \in Runs : q # p => run'[q] = run[q]
    BY <1>2, ReturnRun DEF InstallInv
  <2>2. Alone(p) /\ NoDialogYet(p)' /\ OwnOrLeft(p)'
    BY <1>2, <2>1 DEF Alone, InstallInv, DialogShape, NoDialogYet, OwnOrLeft
  <2> QED
    BY <2>2, OthersKeep
<1>3. CASE Close(p, store')
  <2>1. Alone(p) /\ NoDialogYet(p)' /\ OwnOrLeft(p)'
    BY <1>3, CloseDialog DEF Alone, NoDialogYet, OwnOrLeft
  <2> QED
    BY <2>1, OthersKeep
<1> QED
  BY <1>1, <1>2, <1>3 DEF Advance

\* The end of a call that failed: an installation goes on to its roll back.
LEMMA FailInstall ==
  ASSUME InstallInv, NEW p \in Runs, NEW c, run[p].pc \in Busy, Fail(p, c),
         UNCHANGED <<store, creator>>
  PROVE  InstallInv'
<1>1. CASE dialog[p].mode = "none" /\ Return(p, c) /\ UNCHANGED dialog
  <2>1. RunShape' /\ \A q \in Runs : q # p => run'[q] = run[q]
    BY <1>1, ReturnRun DEF InstallInv
  <2>2. Alone(p) /\ NoDialogYet(p)' /\ OwnOrLeft(p)'
    BY <1>1, <2>1 DEF Alone, InstallInv, DialogShape, StoreShape, NoDialogYet, OwnOrLeft
  <2> QED
    BY <2>2, OthersKeep
<1>2. CASE dialog[p].mode = "install" /\ GoTo(p, "rollback") /\ UNCHANGED dialog
  <2>1. /\ RunShape' /\ run'[p].pc = "rollback"
        /\ \A q \in Runs : q # p => run'[q] = run[q]
    BY <1>2, GoToRun DEF InstallInv
  <2>2. Alone(p) /\ NoDialogYet(p)' /\ OwnOrLeft(p)'
    BY <1>2, <2>1 DEF Alone, InstallInv, DialogShape, StoreShape, NoDialogYet, OwnOrLeft, Busy
  <2> QED
    BY <2>2, OthersKeep
<1>3. CASE /\ dialog[p].mode = "edit" /\ GoTo(p, "dialog")
           /\ dialog' = [dialog EXCEPT ![p].failed = TRUE]
  <2>1. /\ RunShape' /\ run'[p].pc = "dialog"
        /\ \A q \in Runs : q # p => run'[q] = run[q]
    BY <1>3, GoToRun DEF InstallInv
  <2>2. /\ DialogShape' /\ dialog'[p].mode = "edit"
        /\ \A q \in Runs : q # p => dialog'[q] = dialog[q]
    BY <1>3 DEF InstallInv, DialogShape
  <2>3. Alone(p) /\ NoDialogYet(p)' /\ OwnOrLeft(p)'
    BY <2>1, <2>2 DEF Alone, InstallInv, StoreShape, NoDialogYet, OwnOrLeft
  <2> QED
    BY <2>3, OthersKeep
<1> QED
  BY <1>1, <1>2, <1>3 DEF Fail

LEMMA StoreChanges ==
  ASSUME StoreShape, NEW p \in Runs
  PROVE  /\ Uninstall(p) => StoreShape' /\ ~store'.installed /\ creator' = Nobody
         /\ \A a, b, c, d : Install(p, InstalledStore(a, b, c, d))
              => StoreShape' /\ creator' = p
         /\ \A x : store' = [store EXCEPT !.registry = x]
              => StoreShape' /\ store'.installed = store.installed
         /\ \A x : store' = [store EXCEPT !.scm = x]
              => StoreShape' /\ store'.installed = store.installed
<1>1. Uninstall(p) => StoreShape' /\ ~store'.installed /\ creator' = Nobody
  BY DEF Uninstall, Removed, StoreShape
<1>2. ASSUME NEW a, NEW b, NEW c, NEW d, Install(p, InstalledStore(a, b, c, d))
      PROVE  StoreShape' /\ creator' = p
  BY <1>2 DEF Install, InstalledStore, StoreShape
<1>3. ASSUME NEW x, store' = [store EXCEPT !.registry = x]
      PROVE  StoreShape' /\ store'.installed = store.installed
  BY <1>3 DEF StoreShape
<1>4. ASSUME NEW x, store' = [store EXCEPT !.scm = x]
      PROVE  StoreShape' /\ store'.installed = store.installed
  BY <1>4 DEF StoreShape
<1> QED
  BY <1>1, <1>2, <1>3, <1>4

\* A run goes somewhere else and its dialog, if it changes, keeps its mode and
\* the note of what was left.
LEMMA MoveInstall ==
  ASSUME InstallInv, NEW p \in Runs, NEW c, GoTo(p, c),
         UNCHANGED <<dialog, store, creator>>,
         run[p].pc = "dialog" \/ (run[p].pc \in Busy /\ c \in Busy)
           \/ (dialog[p].mode = "none" /\ c = "window"),
         c \notin {"launch", "window"} \/ dialog[p].mode = "none"
  PROVE  InstallInv'
<1>1. /\ RunShape' /\ run'[p].pc = c
      /\ \A q \in Runs : q # p => run'[q] = run[q]
  BY GoToRun DEF InstallInv
<1>2. Alone(p) /\ NoDialogYet(p)' /\ OwnOrLeft(p)'
  BY <1>1 DEF Alone, InstallInv, DialogShape, StoreShape, NoDialogYet, OwnOrLeft, Busy
<1> QED
  BY <1>2, OthersKeep

LEMMA ReturnInstall ==
  ASSUME InstallInv, NEW p \in Runs, NEW c, Return(p, c) \/ End(p, c),
         dialog[p].mode = "none", UNCHANGED dialog,
         StoreShape', creator' \in Runs \ {p} => creator' = creator /\ store'.installed = store.installed
  PROVE  InstallInv'
<1>1. RunShape' /\ \A q \in Runs : q # p => run'[q] = run[q]
  BY ReturnRun, EndRun DEF InstallInv
<1>2. Alone(p) /\ NoDialogYet(p)' /\ OwnOrLeft(p)'
  BY <1>1 DEF Alone, InstallInv, DialogShape, NoDialogYet, OwnOrLeft
<1> QED
  BY <1>2, OthersKeep

LEMMA StepInstall ==
  ASSUME InstallInv, NEW p \in Runs, Step(p)
  PROVE  InstallInv'
<1> USE DEF Busy
<1>0. /\ RunShape /\ DialogShape /\ StoreShape /\ NoDialogYet(p) /\ OwnOrLeft(p)
      /\ Nobody \notin Runs
  BY RunsAssumption DEF InstallInv
<1>a. run[p].pc \in {"launch", "window"} => dialog[p].mode = "none"
  BY <1>0 DEF NoDialogYet
<1>s. UNCHANGED store => StoreShape'
  BY <1>0 DEF StoreShape
<1>1. CASE NoCommand(p)
  <2>1. \E c : End(p, c)
    BY <1>1 DEF NoCommand
  <2>2. run[p].pc = "launch" /\ UNCHANGED <<store, creator, dialog>>
    BY <1>1 DEF NoCommand
  <2> QED
    BY <1>a, <1>s, <2>1, <2>2, ReturnInstall
<1>2. CASE ElevateFirst(p)
  <2>1. Elevate(p) /\ run[p].pc = "launch" /\ UNCHANGED <<store, creator, dialog>>
    BY <1>2 DEF ElevateFirst, Manages
  <2>2. RunShape' /\ \A q \in Runs : q # p => run'[q] = run[q]
    BY <1>0, <2>1, ElevateRun
  <2>3. Alone(p) /\ NoDialogYet(p)' /\ OwnOrLeft(p)'
    BY <1>0, <1>a, <2>1, <2>2 DEF Alone, DialogShape, StoreShape, NoDialogYet, OwnOrLeft
  <2> QED
    BY <2>3, OthersKeep
<1>3. CASE OpenWindow(p)
  <2>1. run[p].pc = "launch" /\ UNCHANGED store
    BY <1>3 DEF OpenWindow, Proceeds, Manages
  <2>2. \/ GoTo(p, "window") /\ UNCHANGED <<dialog, creator>>
        \/ \E m, n, o, g : Open(p, Dialog(m, n, o, g))
        \/ (\E c : Return(p, c)) /\ UNCHANGED <<dialog, creator>>
    BY <1>3 DEF OpenWindow
  <2>3. CASE GoTo(p, "window") /\ UNCHANGED <<dialog, creator>>
    BY <1>a, <2>1, <2>3, MoveInstall
  <2>4. CASE \E m, n, o, g : Open(p, Dialog(m, n, o, g))
    BY <2>1, <2>4, OpenDialog
  <2>5. CASE (\E c : Return(p, c)) /\ UNCHANGED <<dialog, creator>>
    BY <1>a, <1>s, <2>1, <2>5, ReturnInstall
  <2> QED
    BY <2>2, <2>3, <2>4, <2>5
<1>4. CASE ReadCommand(p)
  <2>1. run[p].pc = "launch" /\ UNCHANGED <<store, creator, dialog>>
    BY <1>4 DEF ReadCommand, Manages
  <2>2. \E c : Return(p, c) \/ End(p, c)
    BY <1>4 DEF ReadCommand
  <2> QED
    BY <1>a, <1>s, <2>1, <2>2, ReturnInstall
<1>5. CASE SetOrReset(p)
  <2>1. run[p].pc = "launch" /\ UNCHANGED <<store, creator, dialog>>
    BY <1>5 DEF SetOrReset, Proceeds, Manages
  <2>2. (\E c : Return(p, c)) \/ GoTo(p, "calls")
    BY <1>5 DEF SetOrReset
  <2>3. CASE GoTo(p, "calls")
    <3>1. /\ RunShape' /\ run'[p].pc = "calls"
          /\ \A q \in Runs : q # p => run'[q] = run[q]
      BY <1>0, <2>3, GoToRun
    <3>2. Alone(p) /\ NoDialogYet(p)' /\ OwnOrLeft(p)'
      BY <1>0, <1>a, <2>1, <3>1 DEF Alone, DialogShape, StoreShape, NoDialogYet, OwnOrLeft
    <3> QED
      BY <3>2, OthersKeep
  <2> QED
    BY <1>a, <1>s, <2>1, <2>2, <2>3, ReturnInstall
<1>6. CASE InstallOrRemove(p)
  <2>1. run[p].pc = "launch" /\ UNCHANGED dialog /\ \E c : Return(p, c)
    BY <1>6 DEF InstallOrRemove, Proceeds, Manages
  <2>2. \/ \E a, b, c, d : Install(p, InstalledStore(a, b, c, d))
        \/ Uninstall(p) \/ UNCHANGED <<store, creator>>
    BY <1>6 DEF InstallOrRemove, InstallCommand
  <2>3. StoreShape' /\ (creator' \in Runs \ {p} => creator' = creator /\ store'.installed = store.installed)
    BY <1>0, <1>s, <2>2, StoreChanges
  <2> QED
    BY <1>a, <2>1, <2>3, ReturnInstall
<1>7. CASE ChangeRegistry(p)
  <2>1. run[p].pc \in Busy /\ UNCHANGED creator
    BY <1>7 DEF ChangeRegistry
  <2>2. \/ (\E x : store' = [store EXCEPT !.registry = x]) /\ Advance(p, store')
        \/ Fail(p, 6) /\ UNCHANGED store
    BY <1>7 DEF ChangeRegistry
  <2> QED
    BY <1>0, <2>1, <2>2, StoreChanges, AdvanceInstall, FailInstall
<1>8. CASE ReadConfiguration(p)
  <2>1. run[p].pc \in Busy /\ run[p].pc \notin {"launch", "window"} /\ UNCHANGED <<store, creator>>
    BY <1>8 DEF ReadConfiguration
  <2>2. \/ GoTo(p, "change")
        \/ \E c : Fail(p, c)
    BY <1>8 DEF ReadConfiguration
  <2>3. CASE GoTo(p, "change")
    <3>1. UNCHANGED dialog \/ \E c : Fail(p, c)
      BY <1>8 DEF ReadConfiguration
    <3> QED
      BY <2>1, <2>3, <3>1, MoveInstall, FailInstall
  <2> QED
    BY <2>1, <2>2, <2>3, FailInstall
<1>9. CASE ChangeConfiguration(p)
  <2>1. run[p].pc \in Busy /\ UNCHANGED creator
    BY <1>9 DEF ChangeConfiguration
  <2>2. \/ (\E x : store' = [store EXCEPT !.scm = x]) /\ GoTo(p, "delay") /\ UNCHANGED dialog
        \/ (\E x : store' = [store EXCEPT !.scm = x]) /\ Advance(p, store')
        \/ Fail(p, 6) /\ UNCHANGED store
    BY <1>9 DEF ChangeConfiguration
  <2>3. CASE (\E x : store' = [store EXCEPT !.scm = x]) /\ GoTo(p, "delay") /\ UNCHANGED dialog
    <3>1. StoreShape' /\ store'.installed = store.installed
      BY <1>0, <2>3, StoreChanges
    <3>2. /\ RunShape' /\ run'[p].pc = "delay"
          /\ \A q \in Runs : q # p => run'[q] = run[q]
      BY <1>0, <2>3, GoToRun
    <3>3. Alone(p) /\ NoDialogYet(p)' /\ OwnOrLeft(p)'
      BY <1>0, <2>1, <2>3, <3>1, <3>2 DEF Alone, DialogShape, NoDialogYet, OwnOrLeft
    <3> QED
      BY <3>3, OthersKeep
  <2>4. CASE (\E x : store' = [store EXCEPT !.scm = x]) /\ Advance(p, store')
    BY <1>0, <2>1, <2>4, StoreChanges, AdvanceInstall
  <2> QED
    BY <2>1, <2>2, <2>3, <2>4, FailInstall
<1>10. CASE ChangeDelay(p)
  <2>1. run[p].pc \in Busy /\ UNCHANGED creator
    BY <1>10 DEF ChangeDelay
  <2>2. \/ (\E x : store' = [store EXCEPT !.scm = x]) /\ Advance(p, store')
        \/ Fail(p, 6) /\ UNCHANGED store
    BY <1>10 DEF ChangeDelay, WithDelay
  <2> QED
    BY <1>0, <2>1, <2>2, StoreChanges, AdvanceInstall, FailInstall
<1>11. CASE Create(p)
  <2>1. run[p].pc = "create"
    BY <1>11 DEF Create
  <2>2. CASE GoTo(p, "calls") /\ UNCHANGED dialog /\ \E a, b, c, d : Install(p, InstalledStore(a, b, c, d))
    <3>1. StoreShape' /\ creator' = p
      BY <1>0, <2>2, StoreChanges
    <3>2. /\ RunShape' /\ run'[p].pc = "calls"
          /\ \A q \in Runs : q # p => run'[q] = run[q]
      BY <1>0, <2>2, GoToRun
    <3>3. Alone(p) /\ NoDialogYet(p)' /\ OwnOrLeft(p)'
      BY <1>0, <2>2, <3>1, <3>2 DEF Alone, DialogShape, NoDialogYet, OwnOrLeft
    <3> QED
      BY <3>3, OthersKeep
  <2>3. CASE /\ GoTo(p, "dialog") /\ UNCHANGED <<store, creator>>
             /\ dialog' = [dialog EXCEPT ![p].failed = TRUE]
    <3>1. /\ RunShape' /\ run'[p].pc = "dialog"
          /\ \A q \in Runs : q # p => run'[q] = run[q]
      BY <1>0, <2>3, GoToRun
    <3>2. /\ DialogShape' /\ dialog'[p].mode = dialog[p].mode /\ dialog'[p].left = dialog[p].left
          /\ \A q \in Runs : q # p => dialog'[q] = dialog[q]
      BY <1>0, <2>3 DEF DialogShape
    <3>3. Alone(p) /\ NoDialogYet(p)' /\ OwnOrLeft(p)'
      BY <1>0, <1>s, <2>1, <2>3, <3>1, <3>2 DEF Alone, NoDialogYet, OwnOrLeft
    <3> QED
      BY <3>3, OthersKeep
  <2> QED
    BY <1>11, <2>2, <2>3 DEF Create, InstallSpec
<1>12. CASE Rollback(p)
  <2>1. GoTo(p, "dialog")
    BY <1>12 DEF Rollback
  <2>2. /\ RunShape' /\ run'[p].pc = "dialog"
        /\ \A q \in Runs : q # p => run'[q] = run[q]
    BY <1>0, <2>1, GoToRun
  <2>3. PICK ok \in BOOLEAN :
          /\ IF ok THEN Uninstall(p) ELSE UNCHANGED <<store, creator, disturbed>>
          /\ dialog' = [dialog EXCEPT ![p].failed = TRUE,
                                      ![p].left = @ \/ (store.installed /\ ~ok)]
    BY <1>12 DEF Rollback
  <2>4. /\ DialogShape' /\ dialog'[p].mode = dialog[p].mode
        /\ (store.installed /\ ~ok => dialog'[p].left)
        /\ \A q \in Runs : q # p => dialog'[q] = dialog[q]
    BY <1>0, <2>3 DEF DialogShape
  <2>5. StoreShape' /\ (ok => ~store'.installed /\ creator' = Nobody)
                    /\ (~ok => UNCHANGED <<store, creator>>)
    BY <1>0, <1>s, <2>3, StoreChanges
  <2>6. Alone(p) /\ NoDialogYet(p)' /\ OwnOrLeft(p)'
    BY <1>0, <2>2, <2>4, <2>5 DEF Alone, NoDialogYet, OwnOrLeft
  <2> QED
    BY <2>6, OthersKeep
<1>13. CASE Type(p) \/ SwitchHook(p)
  <2>1. UNCHANGED <<store, creator, run>>
    BY <1>13 DEF Type, SwitchHook
  <2>2. /\ DialogShape' /\ dialog'[p].mode = dialog[p].mode /\ dialog'[p].left = dialog[p].left
        /\ \A q \in Runs : q # p => dialog'[q] = dialog[q]
    BY <1>0, <1>13 DEF Type, SwitchHook, DialogShape
  <2>3. Alone(p) /\ NoDialogYet(p)' /\ OwnOrLeft(p)'
    BY <1>0, <1>s, <2>1, <2>2 DEF Alone, RunShape, NoDialogYet, OwnOrLeft
  <2> QED
    BY <2>3, OthersKeep
<1>14. CASE Accept(p)
  <2>1. run[p].pc = "dialog" /\ UNCHANGED <<store, creator>>
    BY <1>14 DEF Accept
  <2>2. \/ Close(p, store)
        \/ \E c \in {"create", "calls"} : \E x :
             GoTo(p, c) /\ dialog' = [dialog EXCEPT ![p].attempted = x]
    BY <1>14 DEF Accept
  <2>3. CASE Close(p, store)
    <3>1. Close(p, store')
      BY <2>1, <2>3
    <3>2. Alone(p) /\ NoDialogYet(p)' /\ OwnOrLeft(p)'
      BY <1>s, <2>1, <3>1, CloseDialog DEF Alone, NoDialogYet, OwnOrLeft
    <3> QED
      BY <3>2, OthersKeep
  <2>4. ASSUME NEW c \in {"create", "calls"}, NEW x, GoTo(p, c),
               dialog' = [dialog EXCEPT ![p].attempted = x]
        PROVE  InstallInv'
    <3>1. /\ RunShape' /\ run'[p].pc = c
          /\ \A q \in Runs : q # p => run'[q] = run[q]
      BY <1>0, <2>4, GoToRun
    <3>2. /\ DialogShape' /\ dialog'[p].mode = dialog[p].mode /\ dialog'[p].left = dialog[p].left
          /\ \A q \in Runs : q # p => dialog'[q] = dialog[q]
      BY <1>0, <2>4 DEF DialogShape
    <3>3. Alone(p) /\ NoDialogYet(p)' /\ OwnOrLeft(p)'
      BY <1>0, <1>s, <2>1, <2>4, <3>1, <3>2 DEF Alone, NoDialogYet, OwnOrLeft
    <3> QED
      BY <3>3, OthersKeep
  <2> QED
    BY <2>2, <2>3, <2>4
<1>15. CASE AcceptRemoval(p)
  <2>1. \/ Uninstall(p) /\ Close(p, Removed)
        \/ UNCHANGED <<store, creator, run>> /\ dialog' = [dialog EXCEPT ![p].failed = TRUE]
    BY <1>15 DEF AcceptRemoval
  <2>2. CASE Uninstall(p) /\ Close(p, Removed)
    <3>1. Close(p, store')
      BY <2>2 DEF Uninstall
    <3>2. Alone(p) /\ NoDialogYet(p)' /\ OwnOrLeft(p)'
      BY <1>0, <2>2, <3>1, CloseDialog, StoreChanges DEF Alone, NoDialogYet, OwnOrLeft
    <3> QED
      BY <3>2, OthersKeep
  <2>3. CASE UNCHANGED <<store, creator, run>> /\ dialog' = [dialog EXCEPT ![p].failed = TRUE]
    <3>1. /\ DialogShape' /\ dialog'[p].mode = dialog[p].mode /\ dialog'[p].left = dialog[p].left
          /\ \A q \in Runs : q # p => dialog'[q] = dialog[q]
      BY <1>0, <2>3 DEF DialogShape
    <3>2. Alone(p) /\ NoDialogYet(p)' /\ OwnOrLeft(p)'
      BY <1>0, <1>s, <2>3, <3>1 DEF Alone, RunShape, NoDialogYet, OwnOrLeft
    <3> QED
      BY <3>2, OthersKeep
  <2> QED
    BY <2>1, <2>2, <2>3
<1>16. CASE Cancel(p)
  <2>1. Close(p, store') /\ UNCHANGED <<store, creator>>
    BY <1>16 DEF Cancel
  <2>2. Alone(p) /\ NoDialogYet(p)' /\ OwnOrLeft(p)'
    BY <1>s, <2>1, CloseDialog DEF Alone, NoDialogYet, OwnOrLeft
  <2> QED
    BY <2>2, OthersKeep
<1>17. CASE Select(p) \/ Refresh(p) \/ WindowRemove(p)
  <2>1. UNCHANGED <<run, dialog>> /\ (Uninstall(p) \/ UNCHANGED <<store, creator>>)
    BY <1>17 DEF Select, Refresh, WindowRemove
  <2>2. Alone(p) /\ NoDialogYet(p)' /\ OwnOrLeft(p)'
    BY <1>0, <1>s, <2>1, StoreChanges DEF Alone, RunShape, DialogShape, NoDialogYet, OwnOrLeft
  <2> QED
    BY <2>2, OthersKeep
<1>18. CASE WindowInstall(p) \/ WindowEdit(p)
  <2>1. UNCHANGED store /\ \E m, n, o, g : Open(p, Dialog(m, n, o, g))
    BY <1>18 DEF WindowInstall, WindowEdit
  <2> QED
    BY <2>1, OpenDialog
<1>19. CASE CloseWindow(p)
  <2>1. run[p].pc = "window" /\ UNCHANGED <<store, creator, dialog>> /\ Return(p, 0)
    BY <1>19 DEF CloseWindow
  <2> QED
    BY <1>a, <1>s, <2>1, ReturnInstall
<1> QED
  BY <1>1, <1>2, <1>3, <1>4, <1>5, <1>6, <1>7, <1>8, <1>9, <1>10, <1>11, <1>12, <1>13,
     <1>14, <1>15, <1>16, <1>17, <1>18, <1>19 DEF Step, Call

LEMMA InitInstall == Init => InstallInv
<1> SUFFICES ASSUME Init PROVE InstallInv
  OBVIOUS
<1>1. PICK scenario \in Scenarios :
        /\ store = scenario.store
        /\ run = [p \in Runs |->
                   [pc |-> "launch", argv |-> scenario.argv[p], admin |-> scenario.admin,
                    user |-> scenario.user, elevations |-> 0, result |-> 0]]
  BY DEF Init
<1>2. StoreShape
  BY <1>1, ScenariosAssumption DEF StoreShape
<1>3. RunShape /\ \A p \in Runs : run[p].pc = "launch"
  BY <1>1 DEF RunShape, RunFields
<1>4. DialogShape /\ \A p \in Runs : dialog[p].mode = "none"
  BY NoDialogFacts DEF Init, DialogShape
<1> QED
  BY <1>2, <1>3, <1>4 DEF InstallInv, NoDialogYet, OwnOrLeft

LEMMA InstallStep == InstallInv /\ [Next]_vars => InstallInv'
<1> SUFFICES ASSUME InstallInv, [Next]_vars PROVE InstallInv'
  OBVIOUS
<1>1. CASE Next
  BY <1>1, StepInstall DEF Next
<1>2. CASE UNCHANGED vars
  BY <1>2 DEF vars, InstallInv, RunShape, DialogShape, StoreShape, NoDialogYet, OwnOrLeft
<1> QED
  BY <1>1, <1>2

\* Whatever other runs install and remove meanwhile, an installation that could
\* not be saved leaves no service of its own, unless its removal failed too.
THEOREM FailedInstallsAreUndone == Spec => []FailedInstallLeavesNothing
<1>1. InstallInv => FailedInstallLeavesNothing
  <2> SUFFICES ASSUME InstallInv, NEW p \in Runs, run[p].pc = "dialog",
                      dialog[p].mode = "install", ~dialog[p].left,
                      store.installed, creator = p
               PROVE  FALSE
    BY DEF FailedInstallLeavesNothing
  <2> QED
    BY DEF InstallInv, OwnOrLeft, Busy
<1> QED
  BY <1>1, InitInstall, InstallStep, PTL DEF Spec

-----------------------------------------------------------------------------
(* What the supervisor reads and what `get` shows, whatever is stored.     *)

\* The defaults that the start names itself are the catalog's.
LEMMA FallbacksAreDefaults ==
  ASSUME NEW name \in DOMAIN Numbers PROVE Fallback(name) = Numbers[name]
BY DEF Fallback, Numbers

LEMMA OursIsRead ==
  ASSUME NEW registry, NEW scm, NEW name, NEW sub, InParameters(name)
  PROVE  ReadSetting(registry, scm, <<name, sub>>) = Stored(registry, <<name, sub>>)
<1>1. InRegistry(<<name, sub>>)
  BY DEF InRegistry
<1>2. name \notin {"Start", "Type"} \cup Dependencies
  BY DEF InParameters, InSCM, Dependencies
<1> QED
  BY <1>1, <1>2 DEF ReadSetting

\* A setting of ours is looked up in the registry, and only a value of its own
\* kind is taken.
LEMMA EffectiveOfOurs ==
  ASSUME NEW registry, NEW scm, NEW name, InParameters(name), name \notin {"AppExit", "AppEvents"}
  PROVE  Effective(registry, scm, Key(name))
           = IF Stored(registry, Key(name)).kind = KindOf(name)
             THEN Stored(registry, Key(name)) ELSE DefaultValue(scm, name)
<1>1. ReadSetting(registry, scm, Key(name)) = Stored(registry, Key(name))
  BY OursIsRead DEF Key
<1>2. Key(name)[1] = name
  BY DEF Key
<1> QED
  BY <1>1, <1>2 DEF Effective, CompatibleKind

LEMMA NumbersAreOurs ==
  ASSUME NEW name \in DOMAIN Numbers
  PROVE  InParameters(name) /\ name \notin {"AppExit", "AppEvents"} /\ KindOf(name) = "dword"
<1>1. name \notin {"AppExit", "AppEvents"} \cup InSCM
  BY DEF Numbers, InSCM
<1>2. KindOf(name) = "dword"
  <2>1. name \notin Lists \cup Expanded
    BY DEF Numbers, Lists, Expanded
  <2> QED
    BY <2>1 DEF KindOf
<1> QED
  BY <1>1, <1>2 DEF InParameters

LEMMA TextsAreOurs ==
  ASSUME NEW name \in Expanded \ {"ImagePath"}
  PROVE  /\ InParameters(name) /\ name \notin {"AppExit", "AppEvents"} /\ KindOf(name) = "expand"
         /\ \A scm : DefaultValue(scm, name).data = NoText
<1>1. name \notin {"AppExit", "AppEvents"} \cup InSCM
  BY DEF Expanded, InSCM
<1>2. name \notin DOMAIN Numbers \cup Lists
  BY DEF Expanded, Numbers, Lists
<1>3. KindOf(name) = "expand"
  BY <1>2 DEF KindOf
<1>4. name \in DOMAIN DefaultTexts => DefaultTexts[name] = NoText
  <2>1. name \in DOMAIN DefaultTexts => name \in {"Application", "AppParameters", "AppDirectory"}
    BY DEF Expanded, DefaultTexts
  <2>2. /\ DefaultTexts["Application"] = NoText /\ DefaultTexts["AppParameters"] = NoText
        /\ DefaultTexts["AppDirectory"] = NoText
    BY DEF DefaultTexts
  <2> QED
    BY <2>1, <2>2
<1>5. name \notin {"Name", "DisplayName", "ImagePath", "Start", "Type"}
  BY DEF Expanded
<1>6. ASSUME NEW scm PROVE DefaultValue(scm, name).data = NoText
  BY <1>2, <1>4, <1>5 DEF DefaultValue, Value
<1> QED
  BY <1>1, <1>3, <1>6 DEF InParameters

LEMMA ConfigFields ==
  ASSUME NEW registry
  PROVE  /\ LoadConfig(registry).environment = Environment(registry)
         /\ LoadConfig(registry).number
              = [name \in DOMAIN Numbers |-> ReadNumber(registry, name, Fallback(name))]
         /\ LoadConfig(registry).priority
              = ParsePriority(IF Found(Read(registry, "AppPriority"))
                              THEN Read(registry, "AppPriority").data
                              ELSE "NORMAL_PRIORITY_CLASS")
BY DEF LoadConfig

LEMMA KindIsFound ==
  ASSUME NEW registry, NEW name, KindOf(name) # "none"
  PROVE  /\ Stored(registry, Key(name)).kind = KindOf(name) =>
              Found(Read(registry, name)) /\ Read(registry, name) = Stored(registry, Key(name))
         /\ Stored(registry, Key(name)).kind # KindOf(name) => ~Found(Read(registry, name))
BY DEF Read, Found, Absent

LEMMA NumbersAgree ==
  ASSUME NEW registry, NEW scm, NEW name \in DOMAIN Numbers
  PROVE  LoadConfig(registry).number[name] = Effective(registry, scm, Key(name)).data
<1>1. LoadConfig(registry).number[name] = ReadNumber(registry, name, Numbers[name])
  <2>1. LoadConfig(registry).number
          = [n \in DOMAIN Numbers |-> ReadNumber(registry, n, Fallback(n))]
    BY ConfigFields
  <2>2. LoadConfig(registry).number[name] = ReadNumber(registry, name, Fallback(name))
    BY <2>1
  <2> QED
    BY <2>2, FallbacksAreDefaults
<1>2. DefaultValue(scm, name).data = Numbers[name]
  <2>1. name \notin DOMAIN DefaultTexts \cup Lists \cup {"Name", "DisplayName", "ImagePath", "Start", "Type"}
    BY DEF Numbers, DefaultTexts, Lists
  <2> QED
    BY <2>1 DEF DefaultValue, Value
<1> QED
  BY <1>1, <1>2, NumbersAreOurs, KindIsFound, EffectiveOfOurs, ZenonT(40) DEF ReadNumber

LEMMA TextsAgree ==
  ASSUME NEW registry, NEW scm, NEW environment, NEW name \in Expanded \ {"ImagePath"}
  PROVE  ReadString(registry, environment, name)
           = ExpandPercent(environment, Effective(registry, scm, Key(name)).data)
<1>1. ExpandPercent(environment, NoText) = NoText
  BY TextsAssumption DEF ExpandPercent
<1>2. /\ InParameters(name) /\ name \notin {"AppExit", "AppEvents"} /\ KindOf(name) = "expand"
      /\ DefaultValue(scm, name).data = NoText
  BY TextsAreOurs
<1>3. CASE Stored(registry, Key(name)).kind = KindOf(name)
  <2>1. Found(Read(registry, name)) /\ Read(registry, name) = Stored(registry, Key(name))
    BY <1>2, <1>3, KindIsFound
  <2>2. Effective(registry, scm, Key(name)) = Stored(registry, Key(name))
    BY <1>2, <1>3, EffectiveOfOurs
  <2> QED
    BY <2>1, <2>2 DEF ReadString
<1>4. CASE Stored(registry, Key(name)).kind # KindOf(name)
  <2>1. ~Found(Read(registry, name))
    BY <1>2, <1>4, KindIsFound
  <2>2. Effective(registry, scm, Key(name)) = DefaultValue(scm, name)
    BY <1>2, <1>4, EffectiveOfOurs
  <2> QED
    BY <1>1, <1>2, <2>1, <2>2 DEF ReadString
<1> QED
  BY <1>3, <1>4

LEMMA PrioritiesAgree ==
  ASSUME NEW registry, NEW scm
  PROVE  LoadConfig(registry).priority
           = ParsePriority(Effective(registry, scm, Key("AppPriority")).data)
<1>1. InParameters("AppPriority") /\ KindOf("AppPriority") = "sz"
  BY DEF InParameters, InSCM, KindOf, Numbers, Lists, Expanded
<1>2. DefaultValue(scm, "AppPriority").data = "NORMAL_PRIORITY_CLASS"
  BY DEF DefaultValue, DefaultTexts, Value, Numbers, Lists
<1>3. LoadConfig(registry).priority
        = ParsePriority(IF Found(Read(registry, "AppPriority"))
                        THEN Read(registry, "AppPriority").data ELSE "NORMAL_PRIORITY_CLASS")
  BY ConfigFields
<1>4. Effective(registry, scm, Key("AppPriority"))
        = IF Stored(registry, Key("AppPriority")).kind = "sz"
          THEN Stored(registry, Key("AppPriority")) ELSE DefaultValue(scm, "AppPriority")
  BY <1>1, EffectiveOfOurs
<1>5. CASE Stored(registry, Key("AppPriority")).kind = "sz"
  <2>1. /\ Found(Read(registry, "AppPriority"))
        /\ Read(registry, "AppPriority") = Stored(registry, Key("AppPriority"))
    BY <1>1, <1>5, KindIsFound
  <2> QED
    BY <1>3, <1>4, <1>5, <2>1
<1>6. CASE Stored(registry, Key("AppPriority")).kind # "sz"
  <2>1. ~Found(Read(registry, "AppPriority"))
    BY <1>1, <1>6, KindIsFound
  <2> QED
    BY <1>2, <1>3, <1>4, <1>6, <2>1
<1> QED
  BY <1>5, <1>6

\* Unless the action for every code is of a foreign kind and the code has no text
\* of its own, `get` shows what the supervisor does.
LEMMA ActionsAgree ==
  ASSUME NEW registry, NEW scm, NEW code, ~ShownOtherwise(registry, code)
  PROVE  ResolveExitAction(registry, code)
           = ParseAction(Effective(registry, scm, <<"AppExit", code>>).data)
<1>1. InParameters("AppExit") /\ KindOf("AppExit") = "sz"
  BY DEF InParameters, InSCM, KindOf, Numbers, Lists, Expanded
<1>2. DefaultValue(scm, "AppExit").data = "Restart" /\ ParseAction("Restart") = "Restart"
  BY DEF DefaultValue, DefaultTexts, Value, Numbers, Lists, ParseAction
<1>3. ReadSetting(registry, scm, <<"AppExit", code>>) = Stored(registry, <<"AppExit", code>>)
  BY <1>1, OursIsRead
<1>4. CASE Stored(registry, <<"AppExit", code>>).kind = "sz"
  BY <1>1, <1>3, <1>4 DEF ResolveExitAction, Effective, CompatibleKind
<1>5. CASE Stored(registry, <<"AppExit", code>>).kind # "sz"
  <2>1. ~CompatibleKind("AppExit", Stored(registry, <<"AppExit", code>>))
    BY <1>1, <1>5 DEF CompatibleKind
  <2>2. CASE code = "Default" \/ Stored(registry, <<"AppExit", "Default">>).kind = "none"
    BY <1>2, <1>3, <1>5, <2>1, <2>2 DEF ResolveExitAction, Effective, Found
  <2>3. CASE code # "Default" /\ Stored(registry, <<"AppExit", "Default">>).kind = "sz"
    BY <1>3, <1>5, <2>1, <2>3 DEF ResolveExitAction, Effective, Found
  <2> QED
    BY <1>5, <2>2, <2>3 DEF ShownOtherwise
<1> QED
  BY <1>4, <1>5

\* For every store, whoever has written what into it: numbers, paths, priority
\* and exit actions that the supervisor goes by are those that `get` shows, but
\* for codes without a text of their own beside an action for every code of a
\* foreign kind.
THEOREM RuntimeReadsWhatGetShows == RuntimeAgreesWithGet
<1> DEFINE config == LoadConfig(store.registry)
           Get(key) == Effective(store.registry, store.scm, key).data
<1>1. ASSUME NEW name \in DOMAIN Numbers PROVE config.number[name] = Get(Key(name))
  BY NumbersAgree
<1>2. config.priority = ParsePriority(Get(Key("AppPriority")))
  BY PrioritiesAgree
<1>3. ASSUME NEW name \in Expanded \ {"ImagePath"}
      PROVE  ReadString(store.registry, config.environment, name)
               = ExpandPercent(config.environment, Get(Key(name)))
  BY TextsAgree
<1>4. ASSUME NEW code \in ExitCodes \cup {"Default"}
      PROVE  \/ ShownOtherwise(store.registry, code)
             \/ ResolveExitAction(store.registry, code) = ParseAction(Get(<<"AppExit", code>>))
  BY ActionsAgree
<1> HIDE DEF config, Get
<1> QED
  BY <1>1, <1>2, <1>3, <1>4 DEF RuntimeAgreesWithGet, config, Get

-----------------------------------------------------------------------------
(* What an edit writes.  A control that is left alone gives back what it   *)
(* was given, if it can hold it; the proof goes control by control.        *)

LEMMA ControlsShow ==
  ASSUME NEW form, NEW managed, NEW control \in (Controls \ {"Name"}) \cup ToSet(HookNames)
  PROVE  Shown(form, managed)[control] = Display(control, form, managed)
BY DEF Shown

LEMMA SettingsDisplayed ==
  ASSUME NEW form, NEW managed
  PROVE  LET Of(name) == form[Key(name)].data
             s(control) == Display(control, form, managed)
         IN /\ \A name \in Direct \ {"Application"} : s(name) = Of(name)
            /\ managed => s("Application") = Of("Application")
            /\ \A name \in Ticks : s(name) = (Of(name) # 0)
            /\ s("AppNoConsole") = (Of("AppNoConsole") = 0)
            /\ s("Start") = Choice(StartChoices, Of("Start"))
            /\ s("AppPriority") = Choice(Priorities, Of("AppPriority"))
            /\ s("AppExit") = Choice(ActionChoices, form[<<"AppExit", "Default">>].data)
<1> DEFINE Of(name) == form[Key(name)].data
           s(control) == Display(control, form, managed)
<1> DEFINE Others == {"AppNoConsole", "Start", "AppPriority", "AppExit", "Interactive", "Skip",
                      "Truncate", "Bytes", "Dependencies", "Replace", "Lines", "Password", "Confirm"}
<1>1. ASSUME NEW name \in Direct \ {"Application"} PROVE s(name) = Of(name)
  <2>1. name # "Application" /\ name \in Direct /\ name \notin Ticks /\ name \notin Others
    BY <1>1 DEF Direct, PlainTexts, Trimmed, PlainNumbers, Ticks
  <2> QED
    BY <2>1, Zenon DEF Display
<1>2. managed => s("Application") = Of("Application")
  <2>1. managed => (IF managed THEN "Application" ELSE "ImagePath") = "Application"
    OBVIOUS
  <2>2. s("Application") = Of(IF managed THEN "Application" ELSE "ImagePath")
    BY DEF Display, Ticks
  <2> QED
    BY <2>1, <2>2, Zenon
<1>3. ASSUME NEW name \in Ticks PROVE s(name) = (Of(name) # 0)
  <2>1. name \notin Direct /\ name # "Application" /\ name \notin Others
    BY DEF Ticks, Direct, PlainTexts, Trimmed, PlainNumbers
  <2> QED
    BY <1>3, <2>1, Zenon DEF Display
<1> HIDE DEF Others
<1> USE DEF Display
<1> USE DEF Direct, PlainTexts, Trimmed, PlainNumbers, Ticks
<1>4. s("AppNoConsole") = (Of("AppNoConsole") = 0)
  OBVIOUS
<1>5. s("Start") = Choice(StartChoices, Of("Start"))
  OBVIOUS
<1>6. s("AppPriority") = Choice(Priorities, Of("AppPriority"))
  OBVIOUS
<1>7. s("AppExit") = Choice(ActionChoices, form[<<"AppExit", "Default">>].data)
  OBVIOUS
<1> HIDE DEF Display
<1> QED
  BY <1>1, <1>2, <1>3, <1>4, <1>5, <1>6, <1>7

LEMMA PartsDisplayed ==
  ASSUME NEW form, NEW managed
  PROVE  LET Of(name) == form[Key(name)].data
             s(control) == Display(control, form, managed)
         IN /\ s("Interactive") = (Of("Type") \in {TypeName(256), TypeName(288)})
            /\ s("Skip") = Of("AppStopMethodSkip") % 16
            /\ s("Truncate") = (2 \in {Of("AppStdoutCreationDisposition"),
                                        Of("AppStderrCreationDisposition")})
            /\ s("Bytes") = <<Of("AppRotateBytes"), Of("AppRotateBytesHigh")>>
            /\ s("Dependencies") = [services |-> Of("DependOnService"), groups |-> Of("DependOnGroup")]
            /\ s("Replace") = (Of("AppEnvironment") # <<>>)
            /\ s("Lines") = IF Of("AppEnvironment") # <<>> THEN Of("AppEnvironment")
                            ELSE Of("AppEnvironmentExtra")
            /\ \A hook \in ToSet(HookNames) : s(hook) = form[<<"AppEvents", hook>>].data
<1> DEFINE Of(name) == form[Key(name)].data
           s(control) == Display(control, form, managed)
<1> USE DEF Display, Direct, PlainTexts, Trimmed, PlainNumbers, Ticks
<1>1. s("Interactive") = (Of("Type") \in {TypeName(256), TypeName(288)})
  OBVIOUS
<1>2. s("Skip") = Of("AppStopMethodSkip") % 16
  OBVIOUS
<1>3. s("Truncate") = (2 \in {Of("AppStdoutCreationDisposition"), Of("AppStderrCreationDisposition")})
  OBVIOUS
<1>4. s("Bytes") = <<Of("AppRotateBytes"), Of("AppRotateBytesHigh")>>
  OBVIOUS
<1>5. s("Dependencies") = [services |-> Of("DependOnService"), groups |-> Of("DependOnGroup")]
  OBVIOUS
<1>6. s("Replace") = (Of("AppEnvironment") # <<>>)
  OBVIOUS
<1>7. s("Lines") = IF Of("AppEnvironment") # <<>> THEN Of("AppEnvironment")
                   ELSE Of("AppEnvironmentExtra")
  OBVIOUS
<1>8. ASSUME NEW hook \in ToSet(HookNames) PROVE s(hook) = form[<<"AppEvents", hook>>].data
  <2>1. hook \notin Controls
    BY HooksAssumption
  <2> QED
    BY <2>1 DEF Controls, Parts
<1> HIDE DEF Display
<1> QED
  BY <1>1, <1>2, <1>3, <1>4, <1>5, <1>6, <1>7, <1>8

LEMMA SettingsEntered ==
  ASSUME NEW shown
  PROVE  /\ \A name \in (Direct \ Trimmed) \cup {"Start", "AppPriority"} :
              Entered(name, shown) = shown[name]
         /\ \A name \in Trimmed : Entered(name, shown) = Trim(shown[name])
         /\ \A name \in Ticks : Entered(name, shown) = Flag(shown[name])
         /\ Entered("AppNoConsole", shown) = Flag(~shown["AppNoConsole"])
         /\ Entered("AppStopMethodSkip", shown) = shown["Skip"]
         /\ \A name \in {"AppStdoutCreationDisposition", "AppStderrCreationDisposition"} :
              Entered(name, shown) = IF shown["Truncate"] THEN 2 ELSE 4
         /\ Entered("AppRotateBytes", shown) = shown["Bytes"][1]
         /\ Entered("AppRotateBytesHigh", shown) = shown["Bytes"][2]
         /\ Entered("AppEnvironment", shown) = Replacement(shown["Replace"], SplitLines(shown["Lines"]))
         /\ Entered("AppEnvironmentExtra", shown)
              = IF shown["Replace"] THEN <<>> ELSE SplitLines(shown["Lines"])
         /\ Entered("Type", shown) = TypeName(IF shown["Interactive"] THEN 256 ELSE 16)
         /\ Entered("DependOnService", shown) = SplitLines(shown["Dependencies"].services)
         /\ Entered("DependOnGroup", shown) = TrimAll(shown["Dependencies"].groups)
<1> DEFINE Others == {"AppNoConsole", "AppStopMethodSkip", "AppStdoutCreationDisposition",
                      "AppStderrCreationDisposition", "AppRotateBytes", "AppRotateBytesHigh",
                      "AppEnvironment", "AppEnvironmentExtra", "Type", "DependOnService",
                      "DependOnGroup"}
<1>1. ASSUME NEW name \in (Direct \ Trimmed) \cup {"Start", "AppPriority"}
      PROVE  Entered(name, shown) = shown[name]
  <2>1. name \notin Trimmed /\ name \notin Ticks /\ name \notin Others
    BY <1>1 DEF Direct, PlainTexts, Trimmed, PlainNumbers, Ticks
  <2> QED
    BY <1>1, <2>1, Zenon DEF Entered
<1>2. ASSUME NEW name \in Trimmed PROVE Entered(name, shown) = Trim(shown[name])
  <2>1. name \notin (Direct \ Trimmed) \cup {"Start", "AppPriority"} /\ name \notin Ticks /\ name \notin Others
    BY <1>2 DEF Trimmed, Ticks
  <2> QED
    BY <1>2, <2>1, Zenon DEF Entered
<1>3. ASSUME NEW name \in Ticks PROVE Entered(name, shown) = Flag(shown[name])
  <2>1. /\ name \notin (Direct \ Trimmed) \cup {"Start", "AppPriority"} /\ name \notin Trimmed
        /\ name \notin Others
    BY <1>3 DEF Direct, PlainTexts, Trimmed, PlainNumbers, Ticks
  <2> QED
    BY <1>3, <2>1, Zenon DEF Entered
<1> HIDE DEF Others
<1>4. ASSUME NEW name \in {"AppStdoutCreationDisposition", "AppStderrCreationDisposition"}
      PROVE  Entered(name, shown) = IF shown["Truncate"] THEN 2 ELSE 4
  <2>1. /\ name \notin (Direct \ Trimmed) \cup {"Start", "AppPriority"} /\ name \notin Trimmed
        /\ name \notin Ticks
        /\ name \notin {"AppNoConsole", "AppStopMethodSkip", "AppRotateBytes", "AppRotateBytesHigh",
                        "AppEnvironment", "AppEnvironmentExtra", "Type", "DependOnService",
                        "DependOnGroup"}
    BY <1>4 DEF Direct, PlainTexts, Trimmed, PlainNumbers, Ticks
  <2> QED
    BY <1>4, <2>1, Zenon DEF Entered
<1> USE DEF Entered, Direct, PlainTexts, Trimmed, PlainNumbers, Ticks
<1>5. Entered("AppNoConsole", shown) = Flag(~shown["AppNoConsole"])
  BY Zenon
<1>6. Entered("AppStopMethodSkip", shown) = shown["Skip"]
  BY Zenon
<1>7. Entered("AppRotateBytes", shown) = shown["Bytes"][1]
  BY Zenon
<1>8. Entered("AppRotateBytesHigh", shown) = shown["Bytes"][2]
  BY Zenon
<1>9. Entered("AppEnvironment", shown) = Replacement(shown["Replace"], SplitLines(shown["Lines"]))
  BY Zenon
<1>10. Entered("AppEnvironmentExtra", shown)
         = IF shown["Replace"] THEN <<>> ELSE SplitLines(shown["Lines"])
  BY Zenon
<1>11. Entered("Type", shown) = TypeName(IF shown["Interactive"] THEN 256 ELSE 16)
  BY Zenon
<1>12. Entered("DependOnService", shown) = SplitLines(shown["Dependencies"].services)
  BY Zenon
<1>13. Entered("DependOnGroup", shown) = TrimAll(shown["Dependencies"].groups)
  BY Zenon
<1> HIDE DEF Entered
<1> QED
  BY <1>1, <1>2, <1>3, <1>4, <1>5, <1>6, <1>7, <1>8, <1>9, <1>10, <1>11, <1>12, <1>13, Zenon

LEMMA KeyName == \A name : Key(name)[1] = name
BY DEF Key

LEMMA ControlsNamed ==
  /\ \A name \in Direct \cup Ticks \cup {"AppNoConsole", "Start", "AppPriority"} :
        ControlsOf(Key(name)) = {name}
  /\ ControlsOf(Key("Type")) = {"Interactive"}
  /\ ControlsOf(Key("AppStopMethodSkip")) = {"Skip"}
  /\ \A name \in {"AppStdoutCreationDisposition", "AppStderrCreationDisposition"} :
        ControlsOf(Key(name)) = {"Truncate"}
  /\ \A name \in {"AppRotateBytes", "AppRotateBytesHigh"} : ControlsOf(Key(name)) = {"Bytes"}
  /\ \A name \in {"AppEnvironment", "AppEnvironmentExtra"} :
        ControlsOf(Key(name)) = {"Lines", "Replace"}
  /\ \A name \in {"DependOnService", "DependOnGroup"} : ControlsOf(Key(name)) = {"Dependencies"}
  /\ \A hook : ControlsOf(<<"AppEvents", hook>>) = {hook}
  /\ ControlsOf(<<"AppExit", "Default">>) = {"AppExit"}
<1> DEFINE Others == {"AppEvents", "Type", "AppStopMethodSkip", "AppStdoutCreationDisposition",
                      "AppStderrCreationDisposition", "AppRotateBytes", "AppRotateBytesHigh",
                      "AppEnvironment", "AppEnvironmentExtra", "DependOnService", "DependOnGroup"}
<1>1. ASSUME NEW name \in Direct \cup Ticks \cup {"AppNoConsole", "Start", "AppPriority"}
      PROVE  ControlsOf(Key(name)) = {name}
  <2>1. name \notin Others
    BY DEF Direct, PlainTexts, Trimmed, PlainNumbers, Ticks
  <2>2. Key(name)[1] = name
    BY KeyName
  <2> QED
    BY <2>1, <2>2, Zenon DEF ControlsOf
<1> HIDE DEF Others
<1>2. ControlsOf(Key("Type")) = {"Interactive"}
  BY KeyName DEF ControlsOf
<1>3. ControlsOf(Key("AppStopMethodSkip")) = {"Skip"}
  BY KeyName DEF ControlsOf
<1>4. ASSUME NEW name \in {"AppStdoutCreationDisposition", "AppStderrCreationDisposition"}
      PROVE  ControlsOf(Key(name)) = {"Truncate"}
  BY KeyName DEF ControlsOf
<1>5. ASSUME NEW name \in {"AppRotateBytes", "AppRotateBytesHigh"}
      PROVE  ControlsOf(Key(name)) = {"Bytes"}
  BY KeyName DEF ControlsOf
<1>6. ASSUME NEW name \in {"AppEnvironment", "AppEnvironmentExtra"}
      PROVE  ControlsOf(Key(name)) = {"Lines", "Replace"}
  BY KeyName DEF ControlsOf
<1>7. ASSUME NEW name \in {"DependOnService", "DependOnGroup"}
      PROVE  ControlsOf(Key(name)) = {"Dependencies"}
  BY KeyName DEF ControlsOf
<1>8. ASSUME NEW hook PROVE ControlsOf(<<"AppEvents", hook>>) = {hook}
  BY DEF ControlsOf
<1>9. ControlsOf(<<"AppExit", "Default">>) = {"AppExit"}
  BY DEF ControlsOf
<1> QED
  BY <1>1, <1>2, <1>3, <1>4, <1>5, <1>6, <1>7, <1>8, <1>9

LEMMA ShowableNamed ==
  ASSUME NEW form
  PROVE  LET Of(name) == form[Key(name)].data
             Can(name) == Showable(form, Key(name))
         IN /\ \A name \in Ticks \cup {"AppNoConsole"} : Can(name) => Of(name) \in {0, 1}
            /\ Can("AppStopMethodSkip") => Of("AppStopMethodSkip") \in 0..15
            /\ Can("AppPriority") => Of("AppPriority") \in ToSet(Priorities)
            /\ Can("Start") => Of("Start") \in ToSet(StartChoices)
            /\ Can("Type") => Of("Type") \in {"SERVICE_WIN32_OWN_PROCESS", "SERVICE_INTERACTIVE_PROCESS"}
            /\ \A name \in {"AppStdoutCreationDisposition", "AppStderrCreationDisposition"} :
                 Can(name) => /\ Of(name) \in {2, 4}
                              /\ Of("AppStdoutCreationDisposition") = Of("AppStderrCreationDisposition")
            /\ Can("AppEnvironmentExtra") =>
                 /\ SplitLines(Of("AppEnvironmentExtra")) = Of("AppEnvironmentExtra")
                 /\ <<>> \in {Of("AppEnvironmentExtra"), Of("AppEnvironment")}
            /\ \A name \in {"AppEnvironment", "DependOnService"} : Can(name) => SplitLines(Of(name)) = Of(name)
            /\ Can("DependOnGroup") => TrimAll(Of("DependOnGroup")) = Of("DependOnGroup")
            /\ \A name \in Trimmed : Can(name) => Trim(Of(name)) = Of(name)
            /\ Showable(form, <<"AppExit", "Default">>) => form[<<"AppExit", "Default">>].data \in Actions
<1> DEFINE Of(name) == form[Key(name)].data
           Can(name) == Showable(form, Key(name))
<1> USE KeyName DEF Showable, Ticks, Trimmed
<1>1. ASSUME NEW name \in Ticks \cup {"AppNoConsole"} PROVE Can(name) => Of(name) \in {0, 1}
  OBVIOUS
<1>2. Can("AppStopMethodSkip") => Of("AppStopMethodSkip") \in 0..15
  OBVIOUS
<1>3. Can("AppPriority") => Of("AppPriority") \in ToSet(Priorities)
  OBVIOUS
<1>4. Can("Start") => Of("Start") \in ToSet(StartChoices)
  OBVIOUS
<1>5. Can("Type") => Of("Type") \in {"SERVICE_WIN32_OWN_PROCESS", "SERVICE_INTERACTIVE_PROCESS"}
  OBVIOUS
<1>6. ASSUME NEW name \in {"AppStdoutCreationDisposition", "AppStderrCreationDisposition"}
      PROVE  Can(name) => /\ Of(name) \in {2, 4}
                          /\ Of("AppStdoutCreationDisposition") = Of("AppStderrCreationDisposition")
  OBVIOUS
<1>7. Can("AppEnvironmentExtra") =>
        /\ SplitLines(Of("AppEnvironmentExtra")) = Of("AppEnvironmentExtra")
        /\ <<>> \in {Of("AppEnvironmentExtra"), Of("AppEnvironment")}
  OBVIOUS
<1>8. ASSUME NEW name \in {"AppEnvironment", "DependOnService"}
      PROVE  Can(name) => SplitLines(Of(name)) = Of(name)
  OBVIOUS
<1>9. Can("DependOnGroup") => TrimAll(Of("DependOnGroup")) = Of("DependOnGroup")
  OBVIOUS
<1>10. ASSUME NEW name \in Trimmed PROVE Can(name) => Trim(Of(name)) = Of(name)
  OBVIOUS
<1>11. Showable(form, <<"AppExit", "Default">>) => form[<<"AppExit", "Default">>].data \in Actions
  OBVIOUS
<1> HIDE DEF Showable, Ticks, Trimmed
<1> QED
  BY <1>1, <1>2, <1>3, <1>4, <1>5, <1>6, <1>7, <1>8, <1>9, <1>10, <1>11

LEMMA TypesNamed ==
  /\ TypeName(16) = "SERVICE_WIN32_OWN_PROCESS" /\ TypeName(256) = "SERVICE_INTERACTIVE_PROCESS"
  /\ TypeName(288) = "SERVICE_WIN32_SHARE_PROCESS|SERVICE_INTERACTIVE_PROCESS"
BY DEF TypeName

\* What is collected from controls that show what was loaded is what was loaded.
LEMMA EnteredBack ==
  ASSUME NEW form, NEW managed, NEW shown, NEW name \in Collects,
         managed \/ ~InParameters(name),
         \A control \in ControlsOf(Key(name)) : shown[control] = Display(control, form, managed),
         Showable(form, Key(name))
  PROVE  Entered(name, shown) = form[Key(name)].data
<1> DEFINE Of(n) == form[Key(n)].data
<1>0. name \in Direct \cup Ticks => shown[name] = Display(name, form, managed)
  BY ControlsNamed
<1>1. CASE name \in (Direct \ Trimmed) \ {"Application"}
  <2>0. name \in Direct \ {"Application"}
    BY <1>1
  <2>1. shown[name] = Of(name)
    BY <1>0, <2>0, SettingsDisplayed
  <2> QED
    BY <1>1, <2>1, SettingsEntered
<1>2. CASE name = "Application"
  <2>1. name \in Direct \ Trimmed
    BY <1>2 DEF Direct, PlainTexts, Trimmed
  <2>2. managed
    BY <1>2 DEF InParameters, InSCM
  <2>3. shown[name] = Of(name)
    BY <1>0, <1>2, <2>1, <2>2, SettingsDisplayed
  <2> QED
    BY <2>1, <2>3, SettingsEntered
<1>3. CASE name \in Trimmed
  <2>1. name \in Direct \ {"Application"}
    BY <1>3 DEF Direct, Trimmed
  <2>2. shown[name] = Of(name)
    BY <1>0, <2>1, SettingsDisplayed
  <2>3. Trim(Of(name)) = Of(name)
    BY <1>3, ShowableNamed
  <2> QED
    BY <1>3, <2>2, <2>3, SettingsEntered
<1>4. CASE name \in Ticks
  <2>1. shown[name] = (Of(name) # 0)
    BY <1>0, <1>4, SettingsDisplayed
  <2>2. Of(name) \in {0, 1}
    BY <1>4, ShowableNamed
  <2>3. Entered(name, shown) = Flag(shown[name])
    BY <1>4, SettingsEntered
  <2> QED
    BY <2>1, <2>2, <2>3 DEF Flag
<1>5. CASE name = "AppNoConsole"
  <2>1. shown["AppNoConsole"] = (Of("AppNoConsole") = 0)
    BY <1>5, ControlsNamed, SettingsDisplayed
  <2>2. Of("AppNoConsole") \in {0, 1}
    BY <1>5, ShowableNamed
  <2>3. Entered("AppNoConsole", shown) = Flag(~shown["AppNoConsole"])
    BY SettingsEntered
  <2> QED
    BY <1>5, <2>1, <2>2, <2>3 DEF Flag
<1>6. CASE name = "AppStopMethodSkip"
  <2>1. shown["Skip"] = Of("AppStopMethodSkip") % 16
    BY <1>6, ControlsNamed, PartsDisplayed
  <2>2. Of("AppStopMethodSkip") \in 0..15
    BY <1>6, ShowableNamed
  <2>3. Of("AppStopMethodSkip") % 16 = Of("AppStopMethodSkip")
    BY <2>2
  <2>4. Entered("AppStopMethodSkip", shown) = shown["Skip"]
    BY SettingsEntered
  <2> QED
    BY <1>6, <2>1, <2>3, <2>4
<1>7. CASE name \in {"AppStdoutCreationDisposition", "AppStderrCreationDisposition"}
  <2>1. shown["Truncate"] = (2 \in {Of("AppStdoutCreationDisposition"),
                                     Of("AppStderrCreationDisposition")})
    BY <1>7, ControlsNamed, PartsDisplayed
  <2>2. /\ Of(name) \in {2, 4}
        /\ Of("AppStdoutCreationDisposition") = Of("AppStderrCreationDisposition")
    BY <1>7, ShowableNamed
  <2>3. Entered(name, shown) = IF shown["Truncate"] THEN 2 ELSE 4
    BY <1>7, SettingsEntered
  <2> HIDE DEF Of
  <2> QED
    BY <1>7, <2>1, <2>2, <2>3 DEF Of
<1>8. CASE name \in {"AppRotateBytes", "AppRotateBytesHigh"}
  <2>1. shown["Bytes"] = <<Of("AppRotateBytes"), Of("AppRotateBytesHigh")>>
    BY <1>8, ControlsNamed, PartsDisplayed
  <2>2. /\ Entered("AppRotateBytes", shown) = shown["Bytes"][1]
        /\ Entered("AppRotateBytesHigh", shown) = shown["Bytes"][2]
    BY SettingsEntered
  <2> QED
    BY <1>8, <2>1, <2>2
<1>9. CASE name \in {"AppEnvironment", "AppEnvironmentExtra"}
  <2>1. /\ shown["Replace"] = (Of("AppEnvironment") # <<>>)
        /\ shown["Lines"] = IF Of("AppEnvironment") # <<>> THEN Of("AppEnvironment")
                            ELSE Of("AppEnvironmentExtra")
    BY <1>9, ControlsNamed, PartsDisplayed
  <2>2. CASE name = "AppEnvironment"
    <3>1. SplitLines(Of("AppEnvironment")) = Of("AppEnvironment")
      BY <2>2, ShowableNamed
    <3>2. Entered("AppEnvironment", shown) = Replacement(shown["Replace"], SplitLines(shown["Lines"]))
      BY SettingsEntered
    <3> QED
      BY <2>1, <2>2, <3>1, <3>2 DEF Replacement
  <2>3. CASE name = "AppEnvironmentExtra"
    <3>1. /\ SplitLines(Of("AppEnvironmentExtra")) = Of("AppEnvironmentExtra")
          /\ <<>> \in {Of("AppEnvironmentExtra"), Of("AppEnvironment")}
      BY <2>3, ShowableNamed
    <3>2. Entered("AppEnvironmentExtra", shown)
            = IF shown["Replace"] THEN <<>> ELSE SplitLines(shown["Lines"])
      BY SettingsEntered
    <3> QED
      BY <2>1, <2>3, <3>1, <3>2
  <2> QED
    BY <1>9, <2>2, <2>3
<1>10. CASE name = "Type"
  <2>1. shown["Interactive"] = (Of("Type") \in {TypeName(256), TypeName(288)})
    BY <1>10, ControlsNamed, PartsDisplayed
  <2>2. Of("Type") \in {"SERVICE_WIN32_OWN_PROCESS", "SERVICE_INTERACTIVE_PROCESS"}
    BY <1>10, ShowableNamed
  <2>3. Entered("Type", shown) = TypeName(IF shown["Interactive"] THEN 256 ELSE 16)
    BY SettingsEntered
  <2>4. CASE Of("Type") = "SERVICE_WIN32_OWN_PROCESS"
    <3>1. ~(Of("Type") \in {TypeName(256), TypeName(288)})
      BY <2>4, TypesNamed
    <3>2. TypeName(IF shown["Interactive"] THEN 256 ELSE 16) = TypeName(16)
      BY <2>1, <3>1, Zenon
    <3> QED
      BY <1>10, <2>3, <2>4, <3>2, TypesNamed
  <2>5. CASE Of("Type") = "SERVICE_INTERACTIVE_PROCESS"
    <3>1. Of("Type") \in {TypeName(256), TypeName(288)}
      BY <2>5, TypesNamed
    <3>2. TypeName(IF shown["Interactive"] THEN 256 ELSE 16) = TypeName(256)
      BY <2>1, <3>1, Zenon
    <3> QED
      BY <1>10, <2>3, <2>5, <3>2, TypesNamed
  <2> QED
    BY <2>2, <2>4, <2>5
<1>11. CASE name = "DependOnService"
  <2>1. shown["Dependencies"]
          = [services |-> Of("DependOnService"), groups |-> Of("DependOnGroup")]
    BY <1>11, ControlsNamed, PartsDisplayed
  <2>2. SplitLines(Of("DependOnService")) = Of("DependOnService")
    BY <1>11, ShowableNamed
  <2>3. Entered("DependOnService", shown) = SplitLines(shown["Dependencies"].services)
    BY SettingsEntered
  <2> QED
    BY <1>11, <2>1, <2>2, <2>3
<1>12. CASE name = "DependOnGroup"
  <2>1. shown["Dependencies"]
          = [services |-> Of("DependOnService"), groups |-> Of("DependOnGroup")]
    BY <1>12, ControlsNamed, PartsDisplayed
  <2>2. TrimAll(Of("DependOnGroup")) = Of("DependOnGroup")
    BY <1>12, ShowableNamed
  <2>3. Entered("DependOnGroup", shown) = TrimAll(shown["Dependencies"].groups)
    BY SettingsEntered
  <2> QED
    BY <1>12, <2>1, <2>2, <2>3
<1>13. CASE name = "Start"
  <2>1. shown["Start"] = Choice(StartChoices, Of("Start"))
    BY <1>13, ControlsNamed, SettingsDisplayed
  <2>2. Of("Start") \in ToSet(StartChoices)
    BY <1>13, ShowableNamed
  <2> QED
    BY <1>13, <2>1, <2>2, SettingsEntered DEF Choice
<1>14. CASE name = "AppPriority"
  <2>1. shown["AppPriority"] = Choice(Priorities, Of("AppPriority"))
    BY <1>14, ControlsNamed, SettingsDisplayed
  <2>2. Of("AppPriority") \in ToSet(Priorities)
    BY <1>14, ShowableNamed
  <2> QED
    BY <1>14, <2>1, <2>2, SettingsEntered DEF Choice
<1> QED
  BY <1>1, <1>2, <1>3, <1>4, <1>5, <1>6, <1>7, <1>8, <1>9, <1>10, <1>11, <1>12, <1>13, <1>14
  DEF Collects

-----------------------------------------------------------------------------
(* What a save writes, as a sequence of changes.                           *)

\* The next place is counted if it is picked.
LEMMA CountedUpTo ==
  ASSUME NEW I \in SUBSET Nat, NEW m \in Nat, m # 0
  PROVE  {j \in I : j <= m}
           = {j \in I : j <= m - 1} \cup (IF m \in I THEN {m} ELSE {})
<1>1. \A j \in I : j \in Nat
  OBVIOUS
<1>2. \A j \in I : j <= m <=> j <= m - 1 \/ j = m
  BY <1>1
<1> QED
  BY <1>2

\* The places that are picked are counted from the first one on.
LEMMA PickedAre ==
  ASSUME NEW s, NEW n \in Nat, NEW I \in SUBSET (1..n)
  PROVE  /\ Cardinality(I) \in Nat /\ DOMAIN Picked(s, I) = 1..Cardinality(I)
         /\ \A k \in 1..Cardinality(I) : \E i \in I : Picked(s, I)[k] = s[i]
<1> DEFINE upTo(m) == {j \in I : j <= m}
           f(m) == Cardinality(upTo(m))
<1>0. \A i \in I : i \in Nat /\ 1 <= i /\ i <= n
  OBVIOUS
<1>1. IsFiniteSet(I) /\ Cardinality(I) \in Nat
  <2>1. IsFiniteSet(1..n)
    BY FS_Interval
  <2> QED
    BY <2>1, FS_Subset, FS_CardinalityType
<1>2. \A m \in Nat : IsFiniteSet(upTo(m)) /\ f(m) \in Nat
  BY <1>1, FS_Subset, FS_CardinalityType
<1>3. f(0) = 0 /\ f(n) = Cardinality(I)
  <2>1. \A i \in I : ~(i <= 0) /\ i <= n
    BY <1>0
  <2>2. upTo(0) = {} /\ upTo(n) = I
    BY <2>1
  <2> QED
    BY <2>2, FS_EmptySet
<1>4. ASSUME NEW k \in 1..Cardinality(I) PROVE \E i \in I : f(i) = k
  <2> DEFINE M == {m \in Nat : f(m) >= k}
  <2>1. M \in SUBSET Nat /\ n \in M
    BY <1>1, <1>3
  <2>2. PICK m \in M : \A j \in M : ~(<<j, m>> \in OpToRel(<, Nat))
    BY <2>1, NatLessThanWellFounded, WFMin
  <2>3. m \in Nat /\ f(m) >= k /\ \A j \in Nat : j < m => ~(f(j) >= k)
    BY <2>2 DEF OpToRel
  <2>4. m # 0
    BY <1>3, <2>3
  <2>5. m - 1 \in Nat /\ f(m - 1) < k
    <3>1. m - 1 \in Nat /\ m - 1 < m
      BY <2>3, <2>4
    <3>2. ~(f(m - 1) >= k) /\ f(m - 1) \in Nat
      BY <1>2, <2>3, <3>1
    <3> HIDE DEF f
    <3> QED
      BY <1>1, <3>1, <3>2
  <2>6. m \in I
    <3>1. m \notin I => upTo(m) = upTo(m - 1) \cup {}
      BY <1>0, <2>3, <2>4, CountedUpTo
    <3> HIDE DEF upTo
    <3> QED
      BY <1>1, <2>3, <2>5, <3>1
  <2>7. f(m) = f(m - 1) + 1
    <3>1. upTo(m) = upTo(m - 1) \cup {m}
      BY <1>0, <2>3, <2>4, <2>6, CountedUpTo
    <3>3. m \notin upTo(m - 1)
      BY <2>3
    <3>2. IsFiniteSet(upTo(m - 1))
      BY <1>2, <2>5
    <3> HIDE DEF upTo
    <3> QED
      BY <3>1, <3>2, <3>3, FS_AddElement
  <2> HIDE DEF upTo
  <2>8. f(m) = k
    BY <1>1, <1>2, <2>3, <2>5, <2>7
  <2> QED
    BY <2>6, <2>8
<1>5. ASSUME NEW k \in 1..Cardinality(I) PROVE \E i \in I : Picked(s, I)[k] = s[i]
  <2>1. Picked(s, I)[k] = s[CHOOSE i \in I : f(i) = k]
    BY DEF Picked
  <2> HIDE DEF f
  <2> QED
    BY <1>4, <2>1
<1>6. DOMAIN Picked(s, I) = 1..Cardinality(I)
  BY DEF Picked
<1> QED
  BY <1>1, <1>5, <1>6

\* Where the keys of a form come from.
LEMMA KeysOfForms ==
  ASSUME NEW key \in FormKeys
  PROVE  \/ \E name \in ToSet(All) \ RequiresSub : key = Key(name)
         \/ key = <<"AppExit", "Default">>
         \/ \E hook \in ToSet(HookNames) : key = <<"AppEvents", hook>>
<1>1. CASE key \in ToSet(SubparameterKeys)
  <2>1. PICK i \in DOMAIN SubparameterKeys : key = SubparameterKeys[i]
    BY <1>1 DEF ToSet
  <2> DEFINE hooks == [j \in DOMAIN HookNames |-> <<"AppEvents", HookNames[j]>>]
  <2>2. SubparameterKeys = << <<"AppExit", "Default">> >> \o hooks
    BY DEF SubparameterKeys
  <2>3. hooks \in Seq({<<"AppEvents", hook>> : hook \in ToSet(HookNames)})
    BY HooksAssumption DEF ToSet
  <2>4. CASE i = 1
    BY <2>1, <2>2, <2>3, <2>4
  <2>5. CASE i # 1
    <3>1. i - 1 \in DOMAIN hooks /\ key = hooks[i - 1]
      BY <2>1, <2>2, <2>3, <2>5
    <3> QED
      BY <2>3, <3>1
  <2> QED
    BY <2>4, <2>5
<1>2. CASE key \in {Key(name) : name \in ToSet(All) \ RequiresSub}
  BY <1>2
<1> QED
  BY <1>1, <1>2 DEF FormKeys

LEMMA CollectedAre ==
  ASSUME NEW form, NEW shown, NEW managed, NEW visited, NEW key \in FormKeys
  PROVE  /\ key[1] \in Collects /\ (managed \/ ~InParameters(key[1])) =>
              Collected(form, shown, managed, visited)[key]
                = Value(key[1], Entered(key[1], shown))
         /\ key[1] \notin Collects \cup RequiresSub =>
              Collected(form, shown, managed, visited)[key] = form[key]
         /\ key[1] = "AppExit" /\ managed =>
              Collected(form, shown, managed, visited)[key] = Text(shown["AppExit"])
         /\ key[1] = "AppEvents" /\ managed =>
              Collected(form, shown, managed, visited)[key] \in {Text(shown[key[2]]), form[key]}
<1>1. Collected(form, shown, managed, visited)[key] = Collect(key, form, shown, managed, visited)
  BY DEF Collected
<1>2. key[1] \in Collects => key[1] \notin {"AppExit", "AppEvents"}
  BY DEF Collects, Direct, PlainTexts, Trimmed, PlainNumbers, Ticks
<1>3. CASE key[1] \in Collects /\ (managed \/ ~InParameters(key[1]))
  <2>1. Collect(key, form, shown, managed, visited) = Value(key[1], Entered(key[1], shown))
    BY <1>2, <1>3 DEF Collect
  <2> QED
    BY <1>1, <1>2, <1>3, <2>1 DEF RequiresSub
<1>4. CASE key[1] \notin Collects \cup RequiresSub
  <2>1. Collect(key, form, shown, managed, visited) = form[key]
    BY <1>4 DEF Collect, RequiresSub
  <2> QED
    BY <1>1, <1>4, <2>1 DEF RequiresSub
<1>5. CASE key[1] = "AppExit" /\ managed
  <2>1. Collect(key, form, shown, managed, visited) = Text(shown["AppExit"])
    BY <1>2, <1>5 DEF Collect
  <2> QED
    BY <1>1, <1>2, <1>5, <2>1 DEF RequiresSub
<1>6. CASE key[1] = "AppEvents" /\ managed
  <2>1. CASE key[2] \in visited
    <3>1. Collect(key, form, shown, managed, visited) = Text(shown[key[2]])
      BY <1>2, <1>6, <2>1 DEF Collect
    <3> QED
      BY <1>1, <1>2, <1>6, <3>1 DEF RequiresSub
  <2>2. CASE key[2] \notin visited
    <3>1. Collect(key, form, shown, managed, visited) = form[key]
      BY <1>2, <1>6, <2>2 DEF Collect
    <3> QED
      BY <1>1, <1>2, <1>6, <3>1 DEF RequiresSub
  <2> QED
    BY <2>1, <2>2
<1> QED
  BY <1>1, <1>3, <1>4, <1>5, <1>6

\* A control that was left alone shows what was loaded.
LEMMA LeftAlone ==
  ASSUME NEW p, NEW control \in (Controls \ {"Name"}) \cup ToSet(HookNames),
         control \notin DOMAIN dialog[p].typed
  PROVE  Contents(p)[control] = Display(control, dialog[p].original, dialog[p].managed)
<1> DEFINE shown == Shown(dialog[p].original, dialog[p].managed)
<1>1. control # "Name"
  BY HooksAssumption DEF Controls
<1>2. control \in DOMAIN shown
  BY DEF Shown
<1>3. shown[control] = Display(control, dialog[p].original, dialog[p].managed)
  BY ControlsShow
<1> HIDE DEF shown
<1>4. Contents(p)[control] = shown[control]
  BY <1>1, <1>2 DEF Contents, shown
<1> QED
  BY <1>3, <1>4

LEMMA CollectedFromControls ==
  ASSUME NEW name \in Collects PROVE ControlsOf(Key(name)) \subseteq Controls \ {"Name"}
<1>1. CASE name \in Direct \cup Ticks \cup {"AppNoConsole", "Start", "AppPriority"}
  <2>1. ControlsOf(Key(name)) = {name}
    BY <1>1, ControlsNamed
  <2>2. name \in Controls /\ name # "Name"
    BY <1>1 DEF Controls, Direct, PlainTexts, Trimmed, PlainNumbers, Ticks
  <2> QED
    BY <2>1, <2>2
<1>2. CASE name \notin Direct \cup Ticks \cup {"AppNoConsole", "Start", "AppPriority"}
  <2>1. name \in {"Type", "AppStopMethodSkip", "AppStdoutCreationDisposition",
                  "AppStderrCreationDisposition", "AppRotateBytes", "AppRotateBytesHigh",
                  "AppEnvironment", "AppEnvironmentExtra", "DependOnService", "DependOnGroup"}
    BY <1>2 DEF Collects
  <2>2. ControlsOf(Key(name)) \subseteq Parts
    BY <2>1, ControlsNamed DEF Parts
  <2>3. Parts \subseteq Controls \ {"Name"}
    BY DEF Parts, Controls
  <2> QED
    BY <2>2, <2>3
<1> QED
  BY <1>1, <1>2

\* What a request for a subparameter comes to, whatever is stored.
Comes(request) ==
  IF Found(request.value) THEN request.value.data
  ELSE IF request.key[1] = "AppExit" THEN "Restart" ELSE NoText

\* A request that a dialog with these contents may make.
Fits(d, request) ==
  ControlsOf(request.key) \cap DOMAIN d.typed = {} =>
    \/ ~Showable(d.original, request.key)
    \/ /\ request.key[1] \in RequiresSub
       /\ Comes(request) = d.original[request.key].data

\* What was loaded for a setting has the kind that a form gives it.
KindsLoaded(form) ==
  \A key \in FormKeys : key[1] \notin RequiresSub => form[key].kind = KindOf(key[1])

LEMMA TextsDiffer == NoText \notin Actions
BY Zenon DEF NoText, Actions

LEMMA DefaultsOfSubparameters ==
  ASSUME NEW scm
  PROVE  DefaultFor(scm, "AppExit").data = "Restart" /\ DefaultFor(scm, "AppEvents").data = NoText
<1>1. DefaultFor(scm, "AppEvents").data = NoText
  BY DEF DefaultFor
<1>2. DefaultFor(scm, "AppExit") = DefaultValue(scm, "AppExit")
  BY DEF DefaultFor
<1>3. DefaultValue(scm, "AppExit").data = "Restart"
  BY DEF DefaultValue, DefaultTexts, Value, Numbers, Lists
<1> QED
  BY <1>1, <1>2, <1>3

LEMMA AskedComes ==
  ASSUME NEW p, NEW request, request.key[1] \in RequiresSub
  PROVE  Asked(p, request) = Comes(request)
BY DefaultsOfSubparameters DEF Asked, Comes, RequiresSub

LEMMA KeyWritten ==
  ASSUME NEW key, NEW v, NEW password PROVE WriteValue(key, v, password).key = key
<1>1. WriteValue(key, v, password) \in {Delete(key), Write(key, v, password)}
  BY DEF WriteValue
<1> QED
  BY <1>1 DEF Delete, Write

\* An exit action of every code is written as it is, or deleted as the default.
LEMMA ExitWritten ==
  ASSUME NEW data \in Actions, NEW password
  PROVE  Comes(WriteValue(<<"AppExit", "Default">>, Text(data), password)) = data
<1> DEFINE key == <<"AppExit", "Default">>
           request == WriteValue(key, Text(data), password)
<1>1. InParameters("AppExit") /\ "AppExit" \notin DOMAIN Numbers /\ "AppExit" \notin Lists
  BY DEF InParameters, InSCM, Numbers, Lists
<1>2. "AppExit" \in DOMAIN DefaultTexts /\ DefaultTexts["AppExit"] = "Restart"
  BY DEF DefaultTexts
<1>3. "Restart" # NoText /\ data # NoText
  BY TextsDiffer DEF Actions
<1>4. CASE data = "Restart"
  <2>1. PlanWriteString("AppExit", Text(data).data) = "reset"
    BY <1>2, <1>3, <1>4 DEF PlanWriteString, Text
  <2>2. request = Delete(key)
    BY <1>1, <2>1 DEF WriteValue
  <2> QED
    BY <1>4, <2>2 DEF Comes, Delete, Write, Absent, Found
<1>5. CASE data # "Restart"
  <2>1. PlanWriteString("AppExit", Text(data).data) # "reset" /\ Text(data).data # NoText
    BY <1>2, <1>3, <1>5 DEF PlanWriteString, Text
  <2>2. request = Write(key, Text(data), password)
    BY <1>1, <2>1 DEF WriteValue
  <2> QED
    BY <2>2 DEF Comes, Write, Found, Text
<1> QED
  BY <1>4, <1>5

LEMMA HookWritten ==
  ASSUME NEW hook, NEW data, NEW password
  PROVE  Comes(WriteValue(<<"AppEvents", hook>>, Text(data), password)) = data
<1> DEFINE key == <<"AppEvents", hook>>
           request == WriteValue(key, Text(data), password)
<1>1. InParameters("AppEvents") /\ "AppEvents" \notin DOMAIN Numbers /\ "AppEvents" \notin Lists
  BY DEF InParameters, InSCM, Numbers, Lists
<1>2. DefaultTexts["AppEvents"] = NoText
  BY DEF DefaultTexts
<1>3. PlanWriteString("AppEvents", Text(data).data) # "reset"
  BY <1>2 DEF PlanWriteString
<1>4. CASE data = NoText
  <2>1. request = Delete(key)
    BY <1>1, <1>4 DEF WriteValue, Text
  <2> QED
    BY <1>4, <2>1 DEF Comes, Delete, Write, Absent, Found
<1>5. CASE data # NoText
  <2>1. request = Write(key, Text(data), password)
    BY <1>1, <1>3, <1>5 DEF WriteValue, Text
  <2> QED
    BY <2>1 DEF Comes, Write, Found, Text
<1> QED
  BY <1>4, <1>5

\* What a save asks for, for each key whose value is not what was loaded.
LEMMA RequestsFit ==
  ASSUME NEW p, KindsLoaded(dialog[p].original), NEW key \in FormKeys, NEW password,
         dialog[p].managed \/ ~InParameters(key[1]),
         ~ValuesEqual(Form(p)[key], dialog[p].original[key])
  PROVE  Fits(dialog[p], WriteValue(key, Form(p)[key], password))
<1> DEFINE original == dialog[p].original
           managed == dialog[p].managed
           visited == dialog[p].visited \cup {dialog[p].hook}
           request == WriteValue(key, Form(p)[key], password)
<1>1. request.key = key
  BY KeyWritten
<1>2. SUFFICES ASSUME ControlsOf(key) \cap DOMAIN dialog[p].typed = {}, Showable(original, key)
               PROVE  key[1] \in RequiresSub /\ Comes(request) = original[key].data
  BY <1>1 DEF Fits
<1>3. Form(p) = Collected(original, Contents(p), managed, visited)
  BY DEF Form
<1> HIDE DEF original, managed, visited, request
<1>4. CASE key[1] \in Collects
  <2>1. key[1] \notin {"AppExit", "AppEvents"}
    BY <1>4 DEF Collects, Direct, PlainTexts, Trimmed, PlainNumbers, Ticks
  <2>2. key = Key(key[1])
    BY <2>1, KeysOfForms, KeyName DEF Key
  <2>3. Form(p)[key] = Value(key[1], Entered(key[1], Contents(p)))
    BY <1>3, <1>4, CollectedAre DEF managed
  <2>4. \A control \in ControlsOf(Key(key[1])) :
          Contents(p)[control] = Display(control, original, managed)
    BY <1>2, <1>4, <2>2, CollectedFromControls, LeftAlone DEF original, managed
  <2>5. Entered(key[1], Contents(p)) = original[Key(key[1])].data
    BY <1>2, <1>4, <2>2, <2>4, EnteredBack DEF managed
  <2>6. original[key].kind = KindOf(key[1])
    BY <2>1 DEF KindsLoaded, RequiresSub, original
  <2> QED
    BY <2>2, <2>3, <2>5, <2>6 DEF ValuesEqual, Value, original
<1>5. CASE key[1] \notin Collects \cup RequiresSub
  <2>1. Form(p)[key] = original[key]
    BY <1>3, <1>5, CollectedAre
  <2> QED
    BY <2>1 DEF ValuesEqual, original
<1>6. CASE key[1] = "AppExit"
  <2>1. key = <<"AppExit", "Default">>
    BY <1>6, KeysOfForms, KeyName DEF RequiresSub
  <2>2. managed
    BY <1>6 DEF InParameters, InSCM, managed
  <2>3. Form(p)[key] = Text(Contents(p)["AppExit"])
    <3>1. Collected(original, Contents(p), managed, visited)[key]
            = Collect(key, original, Contents(p), managed, visited)
      BY DEF Collected
    <3>2. key[1] \notin Collects
      BY <1>6 DEF Collects, Direct, PlainTexts, Trimmed, PlainNumbers, Ticks
    <3>3. Collect(key, original, Contents(p), managed, visited) = Text(Contents(p)["AppExit"])
      BY <1>6, <2>2, <3>2 DEF Collect
    <3> QED
      BY <1>3, <3>1, <3>3
  <2>4. Contents(p)["AppExit"] = Display("AppExit", original, managed)
    <3>1. "AppExit" \in Controls \ {"Name"}
      BY DEF Controls
    <3>2. "AppExit" \notin DOMAIN dialog[p].typed
      BY <1>2, <2>1, ControlsNamed
    <3> QED
      BY <3>1, <3>2, LeftAlone DEF original, managed
  <2>5. original[key].data \in Actions
    BY <1>2, <2>1, ShowableNamed
  <2>6. Display("AppExit", original, managed) = original[key].data
    <3>1. Display("AppExit", original, managed) = Choice(ActionChoices, original[key].data)
      BY <2>1, SettingsDisplayed
    <3>2. original[key].data \in ToSet(ActionChoices)
      BY <2>5 DEF Actions, ActionChoices, ToSet
    <3> QED
      BY <3>1, <3>2 DEF Choice
  <2> QED
    BY <1>6, <2>1, <2>3, <2>4, <2>5, <2>6, ExitWritten DEF RequiresSub, request
<1>7. CASE key[1] = "AppEvents"
  <2>1. PICK hook \in ToSet(HookNames) : key = <<"AppEvents", hook>>
    BY <1>7, KeysOfForms, KeyName DEF RequiresSub
  <2>2. managed
    BY <1>7 DEF InParameters, InSCM, managed
  <2>3. Form(p)[key] \in {Text(Contents(p)[hook]), original[key]}
    <3>1. key[1] = "AppEvents" /\ managed =>
            Collected(original, Contents(p), managed, visited)[key]
              \in {Text(Contents(p)[key[2]]), original[key]}
      BY CollectedAre, Zenon
    <3>2. key[2] = hook
      BY <2>1
    <3> QED
      BY <1>3, <1>7, <2>2, <3>1, <3>2, Zenon
  <2>4. Form(p)[key] # original[key]
    BY DEF ValuesEqual, original
  <2>5. Contents(p)[hook] = Display(hook, original, managed)
    <3>1. hook \notin DOMAIN dialog[p].typed
      BY <1>2, <2>1, ControlsNamed
    <3> QED
      BY <3>1, LeftAlone DEF original, managed
  <2>6. Display(hook, original, managed) = original[key].data
    BY <2>1, PartsDisplayed, ZenonT(40)
  <2> QED
    BY <1>7, <2>1, <2>3, <2>4, <2>5, <2>6, HookWritten DEF RequiresSub, request
<1> QED
  BY <1>4, <1>5, <1>6, <1>7 DEF RequiresSub

\* A sequence of requests that the dialog may make.
AllFit(d, requests) == \E S : requests \in Seq(S) /\ \A request \in S : Fits(d, request)

\* The keys that a save goes through are a sequence.
SaveOrder == [i \in DOMAIN All |-> Key(All[i])] \o SubparameterKeys

LEMMA KeysInOrder ==
  /\ \E S : SaveOrder \in Seq(S)
  /\ \E i \in DOMAIN SaveOrder : SaveOrder[i] = Key("DisplayName")
<1> DEFINE K == {Key(All[i]) : i \in DOMAIN All}
           H == {<<"AppEvents", HookNames[i]>> : i \in DOMAIN HookNames}
           D == <<"AppExit", "Default">>
           S == (K \cup H) \cup {D}
           hooks == [i \in DOMAIN HookNames |-> <<"AppEvents", HookNames[i]>>]
           names == [i \in DOMAIN All |-> Key(All[i])]
<1>1. names \in Seq(K) /\ Len(names) = 49 /\ names[43] = Key("DisplayName")
  <2>1. DOMAIN All = 1..49 /\ All[43] = "DisplayName"
    BY DEF All
  <2> QED
    BY <2>1
<1>2. hooks \in Seq(H)
  BY HooksAssumption
<1>3. SaveOrder = names \o (<<D>> \o hooks)
  BY DEF SaveOrder, SubparameterKeys
<1> HIDE DEF K, H, D, hooks, names
<1>4. names \in Seq(S) /\ hooks \in Seq(S) /\ <<D>> \in Seq(S)
  BY <1>1, <1>2
<1> HIDE DEF S
<1>5. <<D>> \o hooks \in Seq(S)
  BY <1>4, ConcatProperties
<1>6. /\ SaveOrder \in Seq(S) /\ Len(SaveOrder) = Len(names) + Len(<<D>> \o hooks)
      /\ \A i \in 1..(Len(names) + Len(<<D>> \o hooks)) :
           SaveOrder[i] = IF i <= Len(names) THEN names[i] ELSE (<<D>> \o hooks)[i - Len(names)]
  BY <1>3, <1>4, <1>5, ConcatProperties
<1>7. 43 \in 1..(Len(names) + Len(<<D>> \o hooks)) /\ DOMAIN SaveOrder = 1..Len(SaveOrder)
  BY <1>1, <1>5, <1>6, LenProperties
<1>8. 43 \in DOMAIN SaveOrder /\ SaveOrder[43] = Key("DisplayName")
  BY <1>1, <1>6, <1>7
<1> QED
  BY <1>6, <1>8

\* The keys that a save of a dialog passes over, and what it asks for at the others.
Skipped(p, key) ==
  \/ key \notin FormKeys \/ key[1] \in {"Name", "ImagePath"}
  \/ ~dialog[p].managed /\ InParameters(key[1])
  \/ dialog[p].mode = "edit" /\ ValuesEqual(Form(p)[key], dialog[p].original[key])
  \/ dialog[p].mode # "edit" /\ key[1] \in {"Application", "AppDirectory", "AppParameters"}

RequestFor(p, key) ==
  WriteValue(key, Form(p)[key], key[1] = "ObjectName" /\ Contents(p)["Password"] # NoText)

LEMMA ChangesAre ==
  ASSUME NEW p
  PROVE  /\ \E S : /\ Changes(p) \in Seq(S)
                   /\ \A request \in S : \E key : ~Skipped(p, key) /\ request = RequestFor(p, key)
         /\ dialog[p].mode # "edit" => Changes(p) # <<>>
<1> DEFINE I == DOMAIN SaveOrder \ {i \in DOMAIN SaveOrder : Skipped(p, SaveOrder[i])}
           keys == Picked(SaveOrder, I)
           c == Cardinality(I)
<1>1. Changes(p) = [i \in DOMAIN keys |-> RequestFor(p, keys[i])]
  BY DEF Changes, Persist, SaveOrder, Skipped, RequestFor
<1>2. DOMAIN SaveOrder = 1..Len(SaveOrder) /\ Len(SaveOrder) \in Nat
  BY KeysInOrder, LenProperties
<1>3. I \in SUBSET (1..Len(SaveOrder))
  BY <1>2
<1>4. dialog[p].mode # "edit" => I # {}
  <2>1. PICK i \in DOMAIN SaveOrder : SaveOrder[i] = Key("DisplayName")
    BY KeysInOrder
  <2>2. Key("DisplayName") \in FormKeys
    <3>1. 43 \in DOMAIN All /\ All[43] = "DisplayName"
      BY DEF All
    <3> QED
      BY <3>1 DEF FormKeys, RequiresSub, ToSet
  <2>3. dialog[p].mode # "edit" => ~Skipped(p, Key("DisplayName"))
    BY <2>2, KeyName DEF Skipped, InParameters, InSCM
  <2> QED
    BY <2>1, <2>3
<1>5. \A i \in I : ~Skipped(p, SaveOrder[i])
  OBVIOUS
<1> HIDE DEF I
<1>6. c \in Nat /\ DOMAIN keys = 1..c /\ \A k \in 1..c : \E i \in I : keys[k] = SaveOrder[i]
  <2>1. PICK n \in Nat : I \in SUBSET (1..n)
    BY <1>2, <1>3
  <2>2. /\ Cardinality(I) \in Nat /\ DOMAIN Picked(SaveOrder, I) = 1..Cardinality(I)
        /\ \A k \in 1..Cardinality(I) : \E i \in I : Picked(SaveOrder, I)[k] = SaveOrder[i]
    BY <2>1, PickedAre, ZenonT(60)
  <2> QED
    BY <2>2
<1>7. dialog[p].mode # "edit" => c # 0
  <2>1. PICK n \in Nat : I \in SUBSET (1..n)
    BY <1>2, <1>3
  <2>2. IsFiniteSet(1..n)
    BY FS_Interval
  <2>3. IsFiniteSet(I)
    BY <2>1, <2>2, FS_Subset
  <2> QED
    BY <1>4, <2>3, FS_EmptySet
<1> HIDE DEF keys, c
<1> DEFINE S == {RequestFor(p, keys[k]) : k \in 1..c}
<1>8. Changes(p) \in Seq(S) /\ (c # 0 => Changes(p) # <<>>)
  BY <1>1, <1>6
<1>9. \A request \in S : \E key : ~Skipped(p, key) /\ request = RequestFor(p, key)
  BY <1>5, <1>6
<1> HIDE DEF S
<1> QED
  BY <1>7, <1>8, <1>9

\* An edit asks for a key only if its value is not what was loaded.
LEMMA ChangesFit ==
  ASSUME NEW p, dialog[p].mode = "edit", KindsLoaded(dialog[p].original)
  PROVE  AllFit(dialog[p], Changes(p))
<1>1. PICK S : /\ Changes(p) \in Seq(S)
               /\ \A request \in S : \E key : ~Skipped(p, key) /\ request = RequestFor(p, key)
  BY ChangesAre
<1>2. ASSUME NEW request \in S PROVE Fits(dialog[p], request)
  <2>1. PICK key : ~Skipped(p, key) /\ request = RequestFor(p, key)
    BY <1>1
  <2>2. /\ key \in FormKeys /\ (dialog[p].managed \/ ~InParameters(key[1]))
        /\ ~ValuesEqual(Form(p)[key], dialog[p].original[key])
    BY <2>1 DEF Skipped
  <2> QED
    BY <2>1, <2>2, RequestsFit DEF RequestFor
<1> QED
  BY <1>1, <1>2 DEF AllFit

-----------------------------------------------------------------------------
(* An edit from its dialog to its last change.  What it has still to make  *)
(* fits the dialog, whose contents stay as they are until it is done.      *)

DialogFields == {"mode", "name", "original", "managed", "typed", "hook", "visited",
                 "attempted", "failed", "left"}

EditOf(p) ==
  /\ DOMAIN dialog[p] = DialogFields
  /\ dialog[p].mode = "edit" => KindsLoaded(dialog[p].original)
  /\ Editing(p) => AllFit(dialog[p], todo[p])

EditInv == InstallInv /\ DOMAIN todo = Runs /\ \A p \in Runs : EditOf(p)

\* All that a step does to a dialog is one of the following.
DialogStep(p) ==
  \/ UNCHANGED dialog
  \/ \E m, n, o, g :
       dialog' = [dialog EXCEPT ![p] = Dialog(m, n, o, g)] /\ (m = "edit" => KindsLoaded(o))
  \/ \E x : dialog' = [dialog EXCEPT ![p].failed = x]
  \/ \E x : dialog' = [dialog EXCEPT ![p].attempted = x]
  \/ \E x, y : dialog' = [dialog EXCEPT ![p].failed = x, ![p].left = y]
  \/ \E x : dialog' = [dialog EXCEPT ![p].typed = x]
  \/ \E x, y : dialog' = [dialog EXCEPT ![p].hook = x, ![p].visited = y]

TodoStep(p) == UNCHANGED todo \/ \E x : todo' = [todo EXCEPT ![p] = x]

LEMMA DefaultKinds ==
  ASSUME NEW scm, NEW name, name # "AppEvents"
  PROVE  DefaultFor(scm, name).kind = KindOf(name)
<1>1. \A data : Value(name, data).kind = KindOf(name)
  BY DEF Value
<1>2. \E data : DefaultValue(scm, name) = Value(name, data)
  <2>1. CASE name \in DOMAIN Numbers
    BY <2>1 DEF DefaultValue
  <2>2. CASE name \in DOMAIN DefaultTexts
    BY <2>2 DEF DefaultValue
  <2>3. CASE name \in Lists \cup {"Name", "DisplayName", "ImagePath", "Start", "Type"}
    BY <2>3 DEF DefaultValue
  <2>4. CASE name \notin DOMAIN Numbers \cup DOMAIN DefaultTexts \cup Lists
                         \cup {"Name", "DisplayName", "ImagePath", "Start", "Type"}
    BY <2>4 DEF DefaultValue
  <2> QED
    BY <2>1, <2>2, <2>3, <2>4
<1>3. \E data : DefaultFor(scm, name) = Value(name, data)
  BY <1>2 DEF DefaultFor
<1> QED
  BY <1>1, <1>3

\* A value of another kind is not taken into a form.
LEMMA LoadedKinds == ASSUME NEW st PROVE KindsLoaded(LoadForm(st))
<1> SUFFICES ASSUME NEW key \in FormKeys, key[1] \notin RequiresSub
             PROVE  LoadForm(st)[key].kind = KindOf(key[1])
  BY DEF KindsLoaded
<1> DEFINE v == ReadSetting(st.registry, st.scm, key)
<1>1. key[1] # "AppEvents"
  BY DEF RequiresSub
<1>2. LoadForm(st)[key] = IF ~Managed(st.registry) /\ InParameters(key[1]) THEN NewForm(Service)[key]
                          ELSE IF v.kind = KindOf(key[1]) THEN v
                          ELSE DefaultFor(st.scm, key[1])
  BY DEF LoadForm
<1>3. \E scm : NewForm(Service)[key] = DefaultFor(scm, key[1])
  BY DEF NewForm
<1> QED
  BY <1>1, <1>2, <1>3, DefaultKinds

LEMMA DialogStepKeeps ==
  ASSUME EditInv, NEW p \in Runs, DialogStep(p)
  PROVE  /\ DOMAIN dialog' = Runs /\ \A q \in Runs : q # p => dialog'[q] = dialog[q]
         /\ DOMAIN dialog'[p] = DialogFields
         /\ dialog'[p].mode = "edit" => KindsLoaded(dialog'[p].original)
<1>1. /\ DOMAIN dialog = Runs /\ DOMAIN dialog[p] = DialogFields
      /\ dialog[p].mode = "edit" => KindsLoaded(dialog[p].original)
  BY DEF EditInv, EditOf, InstallInv, DialogShape
<1>2. CASE UNCHANGED dialog
  BY <1>1, <1>2
<1>3. ASSUME NEW m, NEW n, NEW o, NEW g, dialog' = [dialog EXCEPT ![p] = Dialog(m, n, o, g)],
             m = "edit" => KindsLoaded(o)
      PROVE  /\ DOMAIN dialog' = Runs /\ \A q \in Runs : q # p => dialog'[q] = dialog[q]
             /\ DOMAIN dialog'[p] = DialogFields
             /\ dialog'[p].mode = "edit" => KindsLoaded(dialog'[p].original)
  <2>1. /\ DOMAIN Dialog(m, n, o, g) = DialogFields
        /\ Dialog(m, n, o, g).mode = m /\ Dialog(m, n, o, g).original = o
    BY DEF Dialog, DialogFields
  <2> QED
    BY <1>1, <1>3, <2>1
<1>4. CASE \/ \E x : dialog' = [dialog EXCEPT ![p].failed = x]
           \/ \E x : dialog' = [dialog EXCEPT ![p].attempted = x]
           \/ \E x, y : dialog' = [dialog EXCEPT ![p].failed = x, ![p].left = y]
           \/ \E x : dialog' = [dialog EXCEPT ![p].typed = x]
           \/ \E x, y : dialog' = [dialog EXCEPT ![p].hook = x, ![p].visited = y]
  <2>1. /\ DOMAIN dialog' = Runs /\ \A q \in Runs : q # p => dialog'[q] = dialog[q]
        /\ DOMAIN dialog'[p] = DialogFields
        /\ dialog'[p].mode = dialog[p].mode /\ dialog'[p].original = dialog[p].original
    BY <1>1, <1>4 DEF DialogFields
  <2> QED
    BY <1>1, <2>1
<1> QED
  BY <1>2, <1>3, <1>4 DEF DialogStep

\* A step of another run changes nothing of an edit.
LEMMA OthersEdit ==
  ASSUME EditInv, NEW p \in Runs, InstallInv', RunStep(p), DialogStep(p), TodoStep(p), EditOf(p)'
  PROVE  EditInv'
<1>1. \A q \in Runs : q # p => run'[q] = run[q]
  BY GoToRun, EndRun, ReturnRun, ElevateRun DEF RunStep, EditInv, InstallInv
<1>2. \A q \in Runs : q # p => dialog'[q] = dialog[q]
  BY DialogStepKeeps
<1>3. DOMAIN todo' = Runs /\ \A q \in Runs : q # p => todo'[q] = todo[q]
  BY DEF EditInv, TodoStep
<1>4. ASSUME NEW q \in Runs, q # p PROVE EditOf(q)'
  BY <1>1, <1>2, <1>3, <1>4 DEF EditInv, EditOf, Editing
<1> QED
  BY <1>3, <1>4 DEF EditInv

\* A run that makes no call is no edit under way.
LEMMA NotCalling ==
  ASSUME EditInv, NEW p \in Runs, InstallInv', RunStep(p), DialogStep(p), TodoStep(p),
         run'[p].pc \notin Calling
  PROVE  EditInv'
<1>1. EditOf(p)'
  BY DialogStepKeeps DEF EditOf, Editing
<1> QED
  BY <1>1, OthersEdit

LEMMA NotEditing ==
  ASSUME EditInv, NEW p \in Runs, InstallInv', RunStep(p), DialogStep(p), TodoStep(p),
         dialog'[p].mode # "edit"
  PROVE  EditInv'
<1>1. EditOf(p)'
  BY DialogStepKeeps DEF EditOf, Editing
<1> QED
  BY <1>1, OthersEdit

LEMMA StillCalling ==
  ASSUME EditInv, NEW p \in Runs, InstallInv', RunStep(p), run[p].pc \in Calling, UNCHANGED dialog,
         \/ UNCHANGED todo
         \/ Len(todo[p]) > 1 /\ todo' = [todo EXCEPT ![p] = Tail(@)]
  PROVE  EditInv'
<1>1. EditOf(p) /\ DOMAIN todo = Runs
  BY DEF EditInv
<1>2. AllFit(dialog[p], todo[p]) => AllFit(dialog[p], todo'[p])
  <2>1. CASE UNCHANGED todo
    BY <2>1
  <2>2. CASE Len(todo[p]) > 1 /\ todo' = [todo EXCEPT ![p] = Tail(@)]
    <3> SUFFICES ASSUME NEW S, todo[p] \in Seq(S), \A request \in S : Fits(dialog[p], request)
                 PROVE  todo'[p] \in Seq(S)
      BY DEF AllFit
    <3>1. todo'[p] = Tail(todo[p])
      BY <1>1, <2>2
    <3>2. todo[p] # <<>>
      BY <2>2
    <3> QED
      BY <3>1, <3>2, HeadTailProperties
  <2> QED
    BY <2>1, <2>2
<1>3. EditOf(p)'
  BY <1>1, <1>2 DEF EditOf, Editing
<1> QED
  BY <1>3, OthersEdit DEF DialogStep, TodoStep

LEMMA CloseEdit ==
  ASSUME EditInv, NEW p \in Runs, InstallInv', NEW st, Close(p, st), TodoStep(p)
  PROVE  EditInv'
<1>1. RunStep(p)
  BY DEF Close, RunStep
<1>2. DialogStep(p)
  <2>1. dialog' = [dialog EXCEPT ![p] = Dialog("none", NoText, <<>>, FALSE)]
    BY DEF Close, NoDialog
  <2>2. "none" # "edit"
    OBVIOUS
  <2> QED
    BY <2>1, <2>2, Zenon DEF DialogStep
<1>3. run'[p].pc \in {"window", "launch", "ended"}
  BY GoToRun, ReturnRun DEF EditInv, InstallInv, Close
<1> QED
  BY <1>1, <1>2, <1>3, NotCalling DEF Calling

LEMMA OpenEdit ==
  ASSUME EditInv, NEW p \in Runs, InstallInv', NEW m, NEW n, NEW o, NEW g,
         Open(p, Dialog(m, n, o, g)), m = "edit" => KindsLoaded(o), UNCHANGED todo
  PROVE  EditInv'
<1>1. RunStep(p) /\ DialogStep(p) /\ TodoStep(p)
  BY DEF Open, RunStep, DialogStep, TodoStep
<1>2. run'[p].pc = "dialog"
  BY GoToRun DEF EditInv, InstallInv, Open
<1> QED
  BY <1>1, <1>2, NotCalling DEF Calling

\* A run that moves on, but not to a call.
LEMMA MoveEdit ==
  ASSUME EditInv, NEW p \in Runs, InstallInv', NEW c, c \notin Calling, GoTo(p, c),
         RunStep(p), DialogStep(p), TodoStep(p)
  PROVE  EditInv'
<1>1. run'[p].pc = c
  BY GoToRun DEF EditInv, InstallInv
<1> QED
  BY <1>1, NotCalling

LEMMA ReturnEdit ==
  ASSUME EditInv, NEW p \in Runs, InstallInv', NEW c, End(p, c) \/ Return(p, c),
         UNCHANGED dialog, TodoStep(p)
  PROVE  EditInv'
<1>1. run'[p].pc \in {"launch", "ended"}
  BY EndRun, ReturnRun DEF EditInv, InstallInv
<1>2. RunStep(p) /\ DialogStep(p)
  BY DEF RunStep, DialogStep
<1> QED
  BY <1>1, <1>2, NotCalling DEF Calling

LEMMA AdvanceEdit ==
  ASSUME EditInv, NEW p \in Runs, InstallInv', run[p].pc \in Calling, Advance(p, store')
  PROVE  EditInv'
<1>1. TodoStep(p) /\ todo' = [todo EXCEPT ![p] = Tail(@)]
  BY DEF Advance, TodoStep
<1>2. RunStep(p)
  BY AdvanceRuns
<1>3. CASE Len(todo[p]) > 1 /\ UNCHANGED dialog
  BY <1>1, <1>2, <1>3, StillCalling
<1>4. CASE Return(p, 0) /\ UNCHANGED dialog
  BY <1>1, <1>4, ReturnEdit
<1>5. CASE Close(p, store')
  BY <1>1, <1>5, CloseEdit
<1> QED
  BY <1>3, <1>4, <1>5 DEF Advance

LEMMA FailEdit ==
  ASSUME EditInv, NEW p \in Runs, InstallInv', NEW c, Fail(p, c)
  PROVE  EditInv'
<1>1. TodoStep(p)
  BY DEF Fail, TodoStep
<1>2. RunStep(p)
  BY FailRuns
<1>3. CASE Return(p, c) /\ UNCHANGED dialog
  BY <1>1, <1>3, ReturnEdit
<1>4. CASE dialog[p].mode = "install" /\ UNCHANGED dialog
  BY <1>1, <1>2, <1>4, NotEditing DEF DialogStep
<1>5. CASE GoTo(p, "dialog") /\ dialog' = [dialog EXCEPT ![p].failed = TRUE]
  <2>1. DialogStep(p)
    BY <1>5 DEF DialogStep
  <2> QED
    BY <1>1, <1>2, <1>5, <2>1, MoveEdit DEF Calling
<1> QED
  BY <1>3, <1>4, <1>5 DEF Fail

LEMMA AcceptEdit ==
  ASSUME EditInv, NEW p \in Runs, InstallInv', Accept(p)
  PROVE  EditInv'
<1>1. RunStep(p)
  BY StepRuns DEF Step
<1>2. dialog[p].mode \in {"install", "edit"}
  BY DEF Accept
<1>3. \/ Close(p, store) /\ UNCHANGED todo
      \/ /\ todo' = [todo EXCEPT ![p] = Changes(p)]
         /\ \E x : dialog' = [dialog EXCEPT ![p].attempted = x]
  BY DEF Accept
<1>4. CASE Close(p, store) /\ UNCHANGED todo
  BY <1>4, CloseEdit DEF TodoStep
<1>5. ASSUME NEW x, dialog' = [dialog EXCEPT ![p].attempted = x],
             todo' = [todo EXCEPT ![p] = Changes(p)]
      PROVE  EditInv'
  <2>1. DialogStep(p) /\ TodoStep(p)
    BY <1>5 DEF DialogStep, TodoStep
  <2>2. /\ DOMAIN dialog = Runs /\ DOMAIN dialog[p] = DialogFields /\ DOMAIN todo = Runs
        /\ dialog[p].mode = "edit" => KindsLoaded(dialog[p].original)
    BY DEF EditInv, EditOf, InstallInv, DialogShape
  <2>3. /\ dialog'[p].mode = dialog[p].mode /\ dialog'[p].original = dialog[p].original
        /\ dialog'[p].typed = dialog[p].typed /\ todo'[p] = Changes(p)
    BY <1>5, <2>2 DEF DialogFields
  <2>4. CASE dialog[p].mode = "edit"
    <3>1. AllFit(dialog[p], Changes(p))
      BY <2>2, <2>4, ChangesFit
    <3>2. AllFit(dialog'[p], todo'[p])
      BY <2>3, <3>1 DEF AllFit, Fits
    <3>3. EditOf(p)'
      BY <2>1, <3>2, DialogStepKeeps DEF EditOf
    <3> QED
      BY <1>1, <2>1, <3>3, OthersEdit
  <2>5. CASE dialog[p].mode = "install"
    BY <1>1, <2>1, <2>3, <2>5, NotEditing
  <2> QED
    BY <1>2, <2>4, <2>5
<1> QED
  BY <1>3, <1>4, <1>5

LEMMA StepEdit ==
  ASSUME EditInv, NEW p \in Runs, Step(p)
  PROVE  EditInv'
<1>0. InstallInv /\ InstallInv' /\ RunStep(p)
  BY StepInstall, StepRuns DEF EditInv
<1>a. run[p].pc \in {"launch", "window"} => dialog[p].mode = "none"
  BY <1>0 DEF InstallInv, NoDialogYet
<1>r. UNCHANGED run => run'[p].pc = run[p].pc
  OBVIOUS
<1> USE DEF Calling
<1>1. CASE NoCommand(p) \/ ReadCommand(p) \/ CloseWindow(p)
  <2>1. UNCHANGED <<dialog, todo>>
    BY <1>1 DEF NoCommand, ReadCommand, CloseWindow
  <2>2. \E c : End(p, c) \/ Return(p, c)
    BY <1>1 DEF NoCommand, ReadCommand, CloseWindow
  <2> QED
    BY <1>0, <2>1, <2>2, ReturnEdit DEF TodoStep
<1>2. CASE ElevateFirst(p)
  <2>1. UNCHANGED <<dialog, todo>> /\ Elevate(p)
    BY <1>2 DEF ElevateFirst
  <2>2. run'[p].pc \in {"launch", "ended"}
    BY <1>0, <2>1, ElevateRun, EndRun DEF InstallInv
  <2> QED
    BY <1>0, <2>1, <2>2, NotCalling DEF DialogStep, TodoStep
<1>3. CASE OpenWindow(p)
  <2>1. UNCHANGED todo
    BY <1>3 DEF OpenWindow
  <2>2. \/ GoTo(p, "window") /\ UNCHANGED dialog
        \/ \E m \in {"install", "remove"} : \E n, o, g : Open(p, Dialog(m, n, o, g))
        \/ Open(p, Dialog("edit", Service, LoadForm(store), Managed(store.registry)))
        \/ (\E c : Return(p, c)) /\ UNCHANGED dialog
    BY <1>3 DEF OpenWindow
  <2>3. CASE GoTo(p, "window") /\ UNCHANGED dialog
    BY <1>0, <2>1, <2>3, MoveEdit DEF DialogStep, TodoStep
  <2>4. CASE \E m \in {"install", "remove"} : \E n, o, g : Open(p, Dialog(m, n, o, g))
    BY <1>0, <2>1, <2>4, OpenEdit
  <2>5. CASE Open(p, Dialog("edit", Service, LoadForm(store), Managed(store.registry)))
    BY <1>0, <2>1, <2>5, OpenEdit, LoadedKinds
  <2>6. CASE (\E c : Return(p, c)) /\ UNCHANGED dialog
    BY <1>0, <2>1, <2>6, ReturnEdit DEF TodoStep
  <2> QED
    BY <2>2, <2>3, <2>4, <2>5, <2>6
<1>4. CASE SetOrReset(p)
  <2>1. run[p].pc = "launch" /\ UNCHANGED dialog /\ TodoStep(p)
    BY <1>4 DEF SetOrReset, Proceeds, Manages, TodoStep
  <2> QED
    BY <1>0, <1>a, <2>1, NotEditing DEF DialogStep
<1>5. CASE InstallOrRemove(p)
  <2>1. UNCHANGED <<dialog, todo>> /\ \E c : Return(p, c)
    BY <1>5 DEF InstallOrRemove
  <2> QED
    BY <1>0, <2>1, ReturnEdit DEF TodoStep
<1>6. CASE ChangeRegistry(p)
  <2>1. run[p].pc \in Calling /\ (Advance(p, store') \/ Fail(p, 6))
    BY <1>6 DEF ChangeRegistry
  <2> QED
    BY <1>0, <2>1, AdvanceEdit, FailEdit
<1>7. CASE ReadConfiguration(p)
  <2>1. run[p].pc \in Calling
    BY <1>7 DEF ReadConfiguration
  <2>2. UNCHANGED <<dialog, todo>> \/ Fail(p, 3) \/ Fail(p, 6)
    BY <1>7 DEF ReadConfiguration
  <2> QED
    BY <1>0, <2>1, <2>2, StillCalling, FailEdit
<1>8. CASE ChangeConfiguration(p)
  <2>1. run[p].pc \in Calling
    BY <1>8 DEF ChangeConfiguration
  <2>2. UNCHANGED <<dialog, todo>> \/ Advance(p, store') \/ Fail(p, 6)
    BY <1>8 DEF ChangeConfiguration
  <2> QED
    BY <1>0, <2>1, <2>2, StillCalling, AdvanceEdit, FailEdit
<1>9. CASE ChangeDelay(p)
  <2>1. run[p].pc \in Calling /\ (Advance(p, store') \/ Fail(p, 6))
    BY <1>9 DEF ChangeDelay
  <2> QED
    BY <1>0, <2>1, AdvanceEdit, FailEdit
<1>10. CASE Create(p)
  <2>1. run[p].pc \in Calling
    BY <1>10 DEF Create
  <2>2. \/ UNCHANGED <<dialog, todo>>
        \/ /\ GoTo(p, "dialog") /\ TodoStep(p)
           /\ dialog' = [dialog EXCEPT ![p].failed = TRUE]
    BY <1>10 DEF Create, TodoStep
  <2>3. CASE UNCHANGED <<dialog, todo>>
    BY <1>0, <2>1, <2>3, StillCalling
  <2>4. CASE /\ GoTo(p, "dialog") /\ TodoStep(p)
             /\ dialog' = [dialog EXCEPT ![p].failed = TRUE]
    <3>1. DialogStep(p)
      BY <2>4 DEF DialogStep
    <3> QED
      BY <1>0, <2>4, <3>1, MoveEdit
  <2> QED
    BY <2>2, <2>3, <2>4
<1>11. CASE Rollback(p)
  <2>1. GoTo(p, "dialog") /\ UNCHANGED todo
    BY <1>11 DEF Rollback
  <2>2. \E x : dialog' = [dialog EXCEPT ![p].failed = TRUE, ![p].left = x]
    BY <1>11 DEF Rollback
  <2>3. DialogStep(p)
    BY <2>2 DEF DialogStep
  <2> QED
    BY <1>0, <2>1, <2>3, MoveEdit DEF TodoStep
<1>12. CASE Type(p) \/ SwitchHook(p)
  <2>1. run[p].pc = "dialog" /\ UNCHANGED <<run, todo>>
    BY <1>12 DEF Type, SwitchHook
  <2>2. DialogStep(p)
    BY <1>12 DEF Type, SwitchHook, DialogStep
  <2> QED
    BY <1>0, <2>1, <2>2, NotCalling DEF TodoStep
<1>13. CASE Accept(p)
  BY <1>0, <1>13, AcceptEdit
<1>14. CASE AcceptRemoval(p)
  <2>1. run[p].pc = "dialog" /\ UNCHANGED todo
    BY <1>14 DEF AcceptRemoval
  <2>2. Close(p, Removed) \/ (UNCHANGED run /\ dialog' = [dialog EXCEPT ![p].failed = TRUE])
    BY <1>14 DEF AcceptRemoval
  <2>3. CASE Close(p, Removed)
    BY <1>0, <2>1, <2>3, CloseEdit DEF TodoStep
  <2>4. CASE UNCHANGED run /\ dialog' = [dialog EXCEPT ![p].failed = TRUE]
    BY <1>0, <2>1, <2>4, NotCalling DEF DialogStep, TodoStep
  <2> QED
    BY <2>2, <2>3, <2>4
<1>15. CASE Cancel(p)
  <2>1. Close(p, store) /\ UNCHANGED todo
    BY <1>15 DEF Cancel
  <2> QED
    BY <1>0, <2>1, CloseEdit DEF TodoStep
<1>16. CASE Select(p) \/ Refresh(p) \/ WindowRemove(p)
  <2>1. run[p].pc = "window" /\ UNCHANGED <<run, dialog, todo>>
    BY <1>16 DEF Select, Refresh, WindowRemove
  <2> QED
    BY <1>0, <2>1, NotCalling DEF DialogStep, TodoStep
<1>17. CASE WindowInstall(p) \/ WindowEdit(p)
  <2>1. /\ UNCHANGED todo
        /\ \/ \E n, o, g : Open(p, Dialog("install", n, o, g))
           \/ Open(p, Dialog("edit", Service, LoadForm(store), Managed(store.registry)))
    BY <1>17 DEF WindowInstall, WindowEdit
  <2>2. CASE \E n, o, g : Open(p, Dialog("install", n, o, g))
    BY <1>0, <2>1, <2>2, OpenEdit
  <2>3. CASE Open(p, Dialog("edit", Service, LoadForm(store), Managed(store.registry)))
    BY <1>0, <2>1, <2>3, OpenEdit, LoadedKinds
  <2> QED
    BY <2>1, <2>2, <2>3
<1> QED
  BY <1>1, <1>2, <1>3, <1>4, <1>5, <1>6, <1>7, <1>8, <1>9, <1>10, <1>11, <1>12, <1>13,
     <1>14, <1>15, <1>16, <1>17 DEF Step, Call

LEMMA InitEdit == Init => EditInv
<1> SUFFICES ASSUME Init PROVE EditInv
  OBVIOUS
<1>1. InstallInv /\ DOMAIN todo = Runs
  BY InitInstall DEF Init
<1>2. ASSUME NEW p \in Runs PROVE EditOf(p)
  <2>1. dialog[p] = NoDialog
    BY DEF Init
  <2>2. DOMAIN NoDialog = DialogFields /\ NoDialog.mode = "none"
    BY DEF NoDialog, Dialog, DialogFields
  <2> QED
    BY <2>1, <2>2 DEF EditOf, Editing
<1> QED
  BY <1>1, <1>2 DEF EditInv

LEMMA EditStep == EditInv /\ [Next]_vars => EditInv'
<1> SUFFICES ASSUME EditInv, [Next]_vars PROVE EditInv'
  OBVIOUS
<1>1. CASE Next
  BY <1>1, StepEdit DEF Next
<1>2. CASE UNCHANGED vars
  <2>1. InstallInv'
    BY InstallStep DEF EditInv
  <2> QED
    BY <1>2, <2>1 DEF vars, EditInv, EditOf, Editing
<1> QED
  BY <1>1, <1>2

\* However many runs and whatever they and other tools have stored: an edit
\* writes no setting whose control was left alone, unless the control cannot
\* show what was loaded; a hook or an exit action comes to what it was.
THEOREM EditsLeaveTheRest == Spec => []RewritesOnlyTheUnshowable
<1>1. EditInv => RewritesOnlyTheUnshowable
  <2> SUFFICES ASSUME EditInv, NEW p \in Runs, Editing(p), NEW i \in DOMAIN todo[p],
                      Untouched(p, todo[p][i].key)
               PROVE  \/ ~Showable(dialog[p].original, todo[p][i].key)
                      \/ /\ todo[p][i].key[1] \in RequiresSub
                         /\ Asked(p, todo[p][i]) = dialog[p].original[todo[p][i].key].data
    BY DEF RewritesOnlyTheUnshowable
  <2>1. PICK S : todo[p] \in Seq(S) /\ \A request \in S : Fits(dialog[p], request)
    BY DEF EditInv, EditOf, AllFit
  <2>2. Fits(dialog[p], todo[p][i])
    BY <2>1
  <2> QED
    BY <2>2, AskedComes DEF Fits, Untouched
<1> QED
  BY <1>1, InitEdit, EditStep, PTL DEF Spec

-----------------------------------------------------------------------------
(* The action for every code, while the runs change the store.  None of    *)
(* them writes one that is not a text, so that the case in which the       *)
(* supervisor and `get` differ stays out if it was not there before.       *)

ForEveryCode == <<"AppExit", "Default">>

TextOrNone(v) == v.kind \in {"none", "sz"}

Agrees(registry) == TextOrNone(Stored(registry, ForEveryCode))

AgreeingRequest(request) == request.key = ForEveryCode => TextOrNone(request.value)

\* What a run has to do while it makes its calls: something, and nothing that
\* is in the way of the agreement.
AllAgree(requests) ==
  /\ requests # <<>>
  /\ \E S : requests \in Seq(S) /\ \A request \in S : AgreeingRequest(request)

Asking == {"calls", "change", "delay", "create"}

AgreeOf(p) == run[p].pc \in Asking => AllAgree(todo[p])

StoreParts == {"registry", "scm", "installed"}

AgreeInv ==
  /\ EditInv /\ DOMAIN store = StoreParts /\ Agrees(store.registry)
  /\ \A p \in Runs : AgreeOf(p)

LEMMA KindOfExit == Value("AppExit", NoText).kind = "sz" /\ \A data : TextOrNone(Value("AppExit", data))
BY DEF Value, KindOf, TextOrNone, Numbers, Lists, Expanded

LEMMA StoredOver ==
  ASSUME NEW f, NEW g, NEW key
  PROVE  Stored(Over(f, g), key) = IF key \in DOMAIN f THEN f[key] ELSE Stored(g, key)
BY DEF Stored, Over

\* What one change leaves in the place.
LEMMA WithValueAgrees ==
  ASSUME NEW registry, Agrees(registry), NEW request, AgreeingRequest(request)
  PROVE  Agrees(WithValue(registry, request.key, request.value))
<1> DEFINE key == request.key
           v == request.value
<1>1. CASE Found(v)
  <2> DEFINE one == [k \in {key} |-> AsStored(key, v)]
  <2>1. WithValue(registry, key, v) = Over(one, registry)
    BY <1>1 DEF WithValue
  <2>2. CASE key = ForEveryCode
    <3>1. v.kind = "sz"
      BY <1>1, <2>2 DEF AgreeingRequest, TextOrNone, Found
    <3>2. AsStored(key, v) = v
      BY <2>2, <3>1 DEF AsStored, ForEveryCode
    <3> QED
      BY <2>1, <2>2, <3>1, <3>2, StoredOver DEF Agrees, TextOrNone
  <2>3. CASE key # ForEveryCode
    BY <2>1, <2>3, StoredOver DEF Agrees
  <2> QED
    BY <2>2, <2>3
<1>2. CASE ~Found(v)
  <2>1. WithValue(registry, key, v) = [k \in DOMAIN registry \ {key} |-> registry[k]]
    BY <1>2 DEF WithValue
  <2> QED
    BY <2>1 DEF Agrees, Stored, TextOrNone, Absent
<1> QED
  BY <1>1, <1>2

LEMMA InstalledAgrees ==
  ASSUME NEW a, NEW b, NEW c, NEW d, NEW registry
  PROVE  Agrees(Over(InstalledStore(a, b, c, d).registry, registry))
<1> DEFINE data == [Application |-> b, AppDirectory |-> c, AppParameters |-> d, AppExit |-> "Restart"]
           new == [key \in {Location(name, NoText) : name \in DOMAIN data} |-> Value(key[1], data[key[1]])]
<1>1. InstalledStore(a, b, c, d).registry = new
  BY DEF InstalledStore
<1>2. Location("AppExit", NoText) = ForEveryCode /\ ForEveryCode[1] = "AppExit"
  BY DEF Location, ForEveryCode
<1>3. "AppExit" \in DOMAIN data
  OBVIOUS
<1>4. ForEveryCode \in DOMAIN new /\ new[ForEveryCode] = Value("AppExit", data["AppExit"])
  BY <1>2, <1>3
<1> HIDE DEF new, data
<1> QED
  BY <1>1, <1>4, StoredOver, KindOfExit DEF Agrees

\* No command asks for anything else.
LEMMA CommandsAgree ==
  ASSUME NEW st, NEW args, NEW requests, requests # <<>>,
         \/ requests = SetCommand(st, args).requests
         \/ requests = ResetCommand(st, args).requests
  PROVE  AllAgree(requests)
<1>1. PICK request : requests = <<request>> /\ AgreeingRequest(request)
  <2>1. \A code : Refuse(code).requests = <<>>
    BY DEF Refuse
  <2>2. \A request : Ask(request).requests = <<request>>
    BY DEF Ask
  <2>3. \A key : AgreeingRequest(Delete(key))
    BY DEF AgreeingRequest, TextOrNone, Delete, Write, Absent
  <2>4. ASSUME NEW key, NEW texts PROVE AgreeingRequest(PlanSet(key, texts))
    <3>1. SUFFICES ASSUME PlanSet(key, texts).key = ForEveryCode
                   PROVE  TextOrNone(PlanSet(key, texts).value)
      BY DEF AgreeingRequest
    <3>2. PlanSet(key, texts).key = key
      BY DEF PlanSet, Delete, Write
    <3>3. key[1] = "AppExit"
      BY <3>1, <3>2 DEF ForEveryCode
    <3>4. \/ PlanSet(key, texts) = Delete(key)
          \/ \E password : PlanSet(key, texts) = Write(key, Value("AppExit", texts[1]), password)
      BY <3>3 DEF PlanSet, Numbers, Lists
    <3> QED
      BY <3>4, KindOfExit DEF Delete, Write, Absent, TextOrNone
  <2>5. CASE requests = SetCommand(st, args).requests
    <3>1. \/ \E code : SetCommand(st, args) = Refuse(code)
          \/ \E key, texts : SetCommand(st, args) = Ask(PlanSet(key, texts))
      BY DEF SetCommand
    <3> QED
      BY <2>1, <2>2, <2>4, <2>5, <3>1
  <2>6. CASE requests = ResetCommand(st, args).requests
    <3>1. \/ \E code : ResetCommand(st, args) = Refuse(code)
          \/ \E key : ResetCommand(st, args) = Ask(Delete(key))
      BY DEF ResetCommand
    <3> QED
      BY <2>1, <2>2, <2>3, <2>6, <3>1
  <2> QED
    BY <2>5, <2>6
<1> DEFINE S == {request}
<1>2. requests \in Seq(S) /\ \A r \in S : r = request
  BY <1>1
<1> HIDE DEF S
<1>3. \A r \in S : AgreeingRequest(r)
  BY <1>1, <1>2
<1>4. requests # <<>>
  OBVIOUS
<1> QED
  BY <1>2, <1>3, <1>4 DEF AllAgree

\* What a dialog of ansm's own service stores for it is a text, whatever was
\* loaded; the other dialogs do not write it.
LEMMA SavesAgree ==
  ASSUME NEW p, NEW key \in FormKeys, NEW password,
         dialog[p].managed \/ ~InParameters(key[1])
  PROVE  AgreeingRequest(WriteValue(key, Form(p)[key], password))
<1> SUFFICES ASSUME WriteValue(key, Form(p)[key], password).key = ForEveryCode
             PROVE  TextOrNone(WriteValue(key, Form(p)[key], password).value)
  BY DEF AgreeingRequest
<1>1. key = ForEveryCode
  BY DEF WriteValue, Delete, Write
<1>2. dialog[p].managed
  BY <1>1 DEF ForEveryCode, InParameters, InSCM
<1>3. Form(p)[key] = Text(Contents(p)["AppExit"])
  BY <1>1, <1>2 DEF Form, Collected, Collect, Collects, Direct, PlainTexts, Trimmed, PlainNumbers,
                    Ticks, ForEveryCode
<1> QED
  BY <1>3 DEF WriteValue, Delete, Write, Absent, Text, TextOrNone

\* A save has something to do: an edit that has not is not made, and an
\* installation writes at least the display name.
LEMMA ChangesAgree ==
  ASSUME NEW p, dialog[p].mode # "edit" \/ Changes(p) # <<>>
  PROVE  AllAgree(Changes(p))
<1>1. PICK S : /\ Changes(p) \in Seq(S)
               /\ \A request \in S : \E key : ~Skipped(p, key) /\ request = RequestFor(p, key)
  BY ChangesAre
<1>2. ASSUME NEW request \in S PROVE AgreeingRequest(request)
  <2>1. PICK key : ~Skipped(p, key) /\ request = RequestFor(p, key)
    BY <1>1
  <2>2. key \in FormKeys /\ (dialog[p].managed \/ ~InParameters(key[1]))
    BY <2>1 DEF Skipped
  <2>3. AgreeingRequest(RequestFor(p, key))
    BY <2>2, SavesAgree DEF RequestFor
  <2> QED
    BY <2>1, <2>3
<1>3. Changes(p) # <<>>
  BY ChangesAre
<1> QED
  BY <1>1, <1>2, <1>3 DEF AllAgree

\* All that a step does to the store is one of the following.
StoreStep(p) ==
  \/ UNCHANGED store
  \/ \E x : store' = [store EXCEPT !.scm = x]
  \/ LET request == Head(todo[p]) IN
     /\ run[p].pc \in Asking
     /\ store' = [store EXCEPT !.registry = WithValue(@, request.key, request.value)]
  \/ \E a, b, c, d : Install(p, InstalledStore(a, b, c, d))
  \/ Uninstall(p)

LEMMA StepStores ==
  ASSUME NEW p \in Runs, Step(p)
  PROVE  StoreStep(p)
<1>1. CASE NoCommand(p) \/ ElevateFirst(p) \/ OpenWindow(p) \/ ReadCommand(p) \/ SetOrReset(p)
  BY <1>1 DEF NoCommand, ElevateFirst, OpenWindow, ReadCommand, SetOrReset, StoreStep
<1>2. CASE InstallOrRemove(p)
  BY <1>2 DEF InstallOrRemove, InstallCommand, StoreStep
<1>3. CASE ChangeRegistry(p)
  BY <1>3 DEF ChangeRegistry, StoreStep, Asking
<1>4. CASE ReadConfiguration(p)
  BY <1>4 DEF ReadConfiguration, StoreStep
<1>5. CASE ChangeConfiguration(p)
  BY <1>5 DEF ChangeConfiguration, StoreStep
<1>6. CASE ChangeDelay(p)
  BY <1>6 DEF ChangeDelay, StoreStep
<1>7. CASE Create(p)
  BY <1>7 DEF Create, InstallSpec, StoreStep
<1>8. CASE Rollback(p) \/ AcceptRemoval(p) \/ WindowRemove(p)
  BY <1>8 DEF Rollback, AcceptRemoval, WindowRemove, StoreStep
<1>9. CASE Type(p) \/ SwitchHook(p) \/ Accept(p) \/ Cancel(p)
  BY <1>9 DEF Type, SwitchHook, Accept, Cancel, StoreStep
<1>10. CASE Select(p) \/ Refresh(p) \/ WindowInstall(p) \/ WindowEdit(p) \/ CloseWindow(p)
  BY <1>10 DEF Select, Refresh, WindowInstall, WindowEdit, CloseWindow, StoreStep
<1> QED
  BY <1>1, <1>2, <1>3, <1>4, <1>5, <1>6, <1>7, <1>8, <1>9, <1>10 DEF Step, Call

LEMMA StoreAgrees ==
  ASSUME AgreeInv, NEW p \in Runs, StoreStep(p)
  PROVE  DOMAIN store' = StoreParts /\ Agrees(store'.registry)
<1>0. DOMAIN store = StoreParts /\ Agrees(store.registry) /\ AgreeOf(p)
  BY DEF AgreeInv
<1>1. CASE UNCHANGED store
  BY <1>0, <1>1
<1>2. CASE \E x : store' = [store EXCEPT !.scm = x]
  BY <1>0, <1>2 DEF StoreParts
<1>3. CASE LET request == Head(todo[p]) IN
           /\ run[p].pc \in Asking
           /\ store' = [store EXCEPT !.registry = WithValue(@, request.key, request.value)]
  <2>1. PICK S : todo[p] \in Seq(S) /\ \A request \in S : AgreeingRequest(request)
    BY <1>0, <1>3 DEF AgreeOf, AllAgree
  <2>2. todo[p] # <<>>
    BY <1>0, <1>3 DEF AgreeOf, AllAgree
  <2>3. Head(todo[p]) \in S
    BY <2>1, <2>2, HeadTailProperties
  <2>4. AgreeingRequest(Head(todo[p]))
    BY <2>1, <2>3
  <2>5. /\ DOMAIN store' = StoreParts
        /\ store'.registry = WithValue(store.registry, Head(todo[p]).key, Head(todo[p]).value)
    BY <1>0, <1>3 DEF StoreParts
  <2> QED
    BY <1>0, <2>4, <2>5, WithValueAgrees
<1>4. ASSUME NEW a, NEW b, NEW c, NEW d, Install(p, InstalledStore(a, b, c, d))
      PROVE  DOMAIN store' = StoreParts /\ Agrees(store'.registry)
  <2> DEFINE new == InstalledStore(a, b, c, d)
  <2>1. DOMAIN new = StoreParts
    BY DEF InstalledStore, StoreParts
  <2>2. store' = [new EXCEPT !.registry = Over(@, store.registry)]
    BY <1>4 DEF Install
  <2> HIDE DEF new
  <2>3. DOMAIN store' = StoreParts /\ store'.registry = Over(new.registry, store.registry)
    BY <2>1, <2>2 DEF StoreParts
  <2> QED
    BY <2>3, InstalledAgrees DEF new
<1>5. CASE Uninstall(p)
  <2>1. DOMAIN store' = StoreParts /\ store'.registry = <<>>
    BY <1>0, <1>5 DEF Uninstall, Removed, StoreParts
  <2>2. Stored(<<>>, ForEveryCode) = Absent
    BY DEF Stored
  <2> QED
    BY <2>1, <2>2 DEF Agrees, TextOrNone, Absent
<1> QED
  BY <1>1, <1>2, <1>3, <1>4, <1>5 DEF StoreStep

\* All that a step does to the changes a run has still to make.
AskStep(p) ==
  \/ run'[p].pc \notin Asking
  \/ run[p].pc \in Asking /\ UNCHANGED todo
  \/ run[p].pc \in Asking /\ Len(todo[p]) > 1 /\ todo' = [todo EXCEPT ![p] = Tail(@)]
  \/ AllAgree(todo'[p])

LEMMA EndAsk ==
  ASSUME RunShape, NEW p \in Runs, NEW c,
         \/ End(p, c) \/ Return(p, c) \/ Elevate(p) \/ (\E st : Close(p, st))
         \/ (c \notin Asking /\ GoTo(p, c)) \/ Fail(p, c)
  PROVE  AskStep(p)
<1>1. \/ run'[p].pc \in {"ended", "launch", "window", "dialog", "rollback"}
      \/ run'[p].pc = c /\ c \notin Asking
  <2>1. CASE End(p, c)
    BY <2>1, EndRun
  <2>2. CASE Return(p, c)
    BY <2>2, ReturnRun
  <2>3. CASE Elevate(p)
    BY <2>3, ElevateRun
  <2>4. CASE \E st : Close(p, st)
    BY <2>4, GoToRun, ReturnRun DEF Close
  <2>5. CASE c \notin Asking /\ GoTo(p, c)
    BY <2>5, GoToRun
  <2>6. CASE Fail(p, c)
    BY <2>6, GoToRun, ReturnRun DEF Fail
  <2> QED
    BY <2>1, <2>2, <2>3, <2>4, <2>5, <2>6
<1> QED
  BY <1>1 DEF AskStep, Asking

LEMMA AdvanceAsk ==
  ASSUME RunShape, NEW p \in Runs, run[p].pc \in Asking, Advance(p, store')
  PROVE  AskStep(p)
<1>1. CASE Len(todo[p]) > 1
  BY <1>1 DEF Advance, AskStep
<1>2. CASE Return(p, 0) \/ Close(p, store')
  BY <1>2, EndAsk
<1> QED
  BY <1>1, <1>2 DEF Advance

LEMMA StepAsks ==
  ASSUME EditInv, NEW p \in Runs, Step(p)
  PROVE  AskStep(p)
<1>0. RunShape /\ DOMAIN todo = Runs
  BY DEF EditInv, InstallInv
<1>1. CASE NoCommand(p) \/ ReadCommand(p) \/ CloseWindow(p) \/ ElevateFirst(p) \/ InstallOrRemove(p)
  <2>1. (\E c : End(p, c) \/ Return(p, c)) \/ Elevate(p)
    BY <1>1 DEF NoCommand, ReadCommand, CloseWindow, ElevateFirst, InstallOrRemove
  <2> QED
    BY <1>0, <2>1, EndAsk
<1>2. CASE OpenWindow(p)
  <2>1. (\E c : Return(p, c)) \/ GoTo(p, "window") \/ GoTo(p, "dialog")
    BY <1>2 DEF OpenWindow, Open
  <2> QED
    BY <1>0, <2>1, EndAsk DEF Asking
<1>3. CASE SetOrReset(p)
  <2>1. \/ \E c : Return(p, c)
        \/ \E st, args, requests :
             /\ requests # <<>>
             /\ \/ requests = SetCommand(st, args).requests
                \/ requests = ResetCommand(st, args).requests
             /\ todo' = [todo EXCEPT ![p] = requests]
    BY <1>3 DEF SetOrReset
  <2>2. ASSUME NEW requests, AllAgree(requests), todo' = [todo EXCEPT ![p] = requests]
        PROVE  AskStep(p)
    BY <1>0, <2>2 DEF AskStep
  <2> QED
    BY <1>0, <2>1, <2>2, EndAsk, CommandsAgree
<1>4. CASE ChangeRegistry(p) \/ ChangeDelay(p)
  <2>1. run[p].pc \in Asking /\ (Advance(p, store') \/ Fail(p, 6))
    BY <1>4 DEF ChangeRegistry, ChangeDelay, Asking
  <2> QED
    BY <1>0, <2>1, AdvanceAsk, EndAsk
<1>5. CASE ReadConfiguration(p)
  <2>1. run[p].pc \in Asking /\ (UNCHANGED todo \/ Fail(p, 3) \/ Fail(p, 6))
    BY <1>5 DEF ReadConfiguration, Asking
  <2> QED
    BY <1>0, <2>1, EndAsk DEF AskStep
<1>6. CASE ChangeConfiguration(p)
  <2>1. run[p].pc \in Asking /\ (UNCHANGED todo \/ Advance(p, store') \/ Fail(p, 6))
    BY <1>6 DEF ChangeConfiguration, Asking
  <2> QED
    BY <1>0, <2>1, AdvanceAsk, EndAsk DEF AskStep
<1>7. CASE Create(p)
  <2>1. run[p].pc \in Asking /\ (UNCHANGED todo \/ GoTo(p, "dialog"))
    BY <1>7 DEF Create, Asking
  <2> QED
    BY <1>0, <2>1, EndAsk DEF AskStep, Asking
<1>8. CASE Accept(p)
  <2>1. \/ Close(p, store)
        \/ /\ dialog[p].mode # "edit" \/ Changes(p) # <<>>
           /\ todo' = [todo EXCEPT ![p] = Changes(p)]
    BY <1>8 DEF Accept
  <2>2. CASE Close(p, store)
    BY <1>0, <2>2, EndAsk
  <2>3. CASE /\ dialog[p].mode # "edit" \/ Changes(p) # <<>>
             /\ todo' = [todo EXCEPT ![p] = Changes(p)]
    BY <1>0, <2>3, ChangesAgree DEF AskStep
  <2> QED
    BY <2>1, <2>2, <2>3
<1>9. CASE Rollback(p)
  <2>1. GoTo(p, "dialog")
    BY <1>9 DEF Rollback
  <2> QED
    BY <1>0, <2>1, EndAsk DEF Asking
<1>10. CASE Type(p) \/ SwitchHook(p) \/ Select(p) \/ Refresh(p) \/ WindowRemove(p)
  <2>1. run[p].pc \in {"dialog", "window"} /\ UNCHANGED run
    BY <1>10 DEF Type, SwitchHook, Select, Refresh, WindowRemove
  <2> QED
    BY <2>1 DEF AskStep, Asking
<1>11. CASE AcceptRemoval(p)
  <2>1. run[p].pc = "dialog" /\ (Close(p, Removed) \/ UNCHANGED run)
    BY <1>11 DEF AcceptRemoval
  <2>2. CASE Close(p, Removed)
    BY <1>0, <2>2, EndAsk
  <2>3. CASE UNCHANGED run
    BY <2>1, <2>3 DEF AskStep, Asking
  <2> QED
    BY <2>1, <2>2, <2>3
<1>12. CASE Cancel(p)
  BY <1>0, <1>12, EndAsk DEF Cancel
<1>13. CASE WindowInstall(p) \/ WindowEdit(p)
  <2>1. GoTo(p, "dialog")
    BY <1>13 DEF WindowInstall, WindowEdit, Open
  <2> QED
    BY <1>0, <2>1, EndAsk DEF Asking
<1> QED
  BY <1>1, <1>2, <1>3, <1>4, <1>5, <1>6, <1>7, <1>8, <1>9, <1>10, <1>11, <1>12, <1>13
  DEF Step, Call

LEMMA StepTodo ==
  ASSUME NEW p \in Runs, DOMAIN todo = Runs, Step(p)
  PROVE  DOMAIN todo' = Runs /\ \A q \in Runs : q # p => todo'[q] = todo[q]
<1>1. TodoStep(p)
  <2>1. CASE NoCommand(p) \/ ElevateFirst(p) \/ OpenWindow(p) \/ ReadCommand(p) \/ SetOrReset(p)
             \/ InstallOrRemove(p)
    BY <2>1 DEF NoCommand, ElevateFirst, OpenWindow, ReadCommand, SetOrReset, InstallOrRemove, TodoStep
  <2>2. CASE ChangeRegistry(p) \/ ReadConfiguration(p) \/ ChangeConfiguration(p) \/ ChangeDelay(p)
    BY <2>2 DEF ChangeRegistry, ReadConfiguration, ChangeConfiguration, ChangeDelay, Advance, Fail, TodoStep
  <2>3. CASE Create(p) \/ Rollback(p) \/ Accept(p) \/ AcceptRemoval(p) \/ Cancel(p)
    BY <2>3 DEF Create, Rollback, Accept, AcceptRemoval, Cancel, TodoStep
  <2>4. CASE Type(p) \/ SwitchHook(p) \/ Select(p) \/ Refresh(p) \/ WindowInstall(p)
             \/ WindowEdit(p) \/ WindowRemove(p) \/ CloseWindow(p)
    BY <2>4 DEF Type, SwitchHook, Select, Refresh, WindowInstall, WindowEdit, WindowRemove, CloseWindow, TodoStep
  <2> QED
    BY <2>1, <2>2, <2>3, <2>4 DEF Step, Call
<1> QED
  BY <1>1 DEF TodoStep

LEMMA LongTail ==
  ASSUME NEW S, NEW s \in Seq(S), Len(s) > 1
  PROVE  Tail(s) \in Seq(S) /\ Tail(s) # <<>>
<1>1. s # <<>>
  OBVIOUS
<1>2. Tail(s) \in Seq(S) /\ Len(Tail(s)) = Len(s) - 1
  BY <1>1, HeadTailProperties
<1>3. Len(s) \in Nat
  OBVIOUS
<1>4. Tail(s) = <<>> => Len(Tail(s)) = 0
  BY EmptySeq, Zenon
<1> QED
  BY <1>2, <1>3, <1>4

LEMMA StepAgree ==
  ASSUME AgreeInv, NEW p \in Runs, Step(p)
  PROVE  AgreeInv'
<1>0. EditInv /\ AgreeOf(p) /\ DOMAIN todo = Runs
  BY DEF AgreeInv, EditInv
<1>1. EditInv' /\ DOMAIN store' = StoreParts /\ Agrees(store'.registry)
  BY <1>0, StepEdit, StepStores, StoreAgrees
<1>2. ASSUME NEW q \in Runs, q # p PROVE AgreeOf(q)'
  <2>1. run'[q] = run[q]
    <3>1. RunShape /\ RunStep(p)
      BY <1>0, StepRuns DEF EditInv, InstallInv
    <3> QED
      BY <1>2, <3>1, GoToRun, EndRun, ReturnRun, ElevateRun DEF RunStep
  <2>2. todo'[q] = todo[q]
    BY <1>0, <1>2, StepTodo
  <2> QED
    BY <2>1, <2>2 DEF AgreeInv, AgreeOf
<1>3. AgreeOf(p)'
  <2>1. CASE run'[p].pc \notin Asking
    BY <2>1 DEF AgreeOf
  <2>2. CASE run[p].pc \in Asking /\ UNCHANGED todo
    BY <1>0, <2>2 DEF AgreeOf
  <2>3. CASE run[p].pc \in Asking /\ Len(todo[p]) > 1 /\ todo' = [todo EXCEPT ![p] = Tail(@)]
    <3>1. PICK S : todo[p] \in Seq(S) /\ \A request \in S : AgreeingRequest(request)
      BY <1>0, <2>3 DEF AgreeOf, AllAgree
    <3>2. Tail(todo[p]) \in Seq(S) /\ Tail(todo[p]) # <<>>
      BY <2>3, <3>1, LongTail
    <3>3. todo'[p] = Tail(todo[p])
      BY <1>0, <2>3
    <3>4. AllAgree(todo'[p])
      BY <3>1, <3>2, <3>3 DEF AllAgree
    <3> QED
      BY <3>4 DEF AgreeOf
  <2>4. CASE AllAgree(todo'[p])
    BY <2>4 DEF AgreeOf
  <2> QED
    BY <1>0, <2>1, <2>2, <2>3, <2>4, StepAsks DEF AskStep
<1> QED
  BY <1>1, <1>2, <1>3 DEF AgreeInv

LEMMA AgreeStep == AgreeInv /\ [Next]_vars => AgreeInv'
<1> SUFFICES ASSUME AgreeInv, [Next]_vars PROVE AgreeInv'
  OBVIOUS
<1>1. CASE Next
  BY <1>1, StepAgree DEF Next
<1>2. CASE UNCHANGED vars
  <2>1. EditInv'
    BY EditStep DEF AgreeInv
  <2> QED
    BY <1>2, <2>1 DEF vars, AgreeInv, AgreeOf
<1> QED
  BY <1>1, <1>2

\* The supervisor goes by the exit action that `get` shows, for every code.
EveryActionAgrees ==
    \A code \in ExitCodes \cup {"Default"} :
        ResolveExitAction(store.registry, code)
          = ParseAction(Effective(store.registry, store.scm, <<"AppExit", code>>).data)

\* No run writes what the supervisor and `get` would take differently: if the
\* service came with none or a text as its action for every code, they agree on
\* numbers, paths, priority and, for every code, on the exit action ever after,
\* whatever runs and other removals and installations follow.
THEOREM AgreementLasts ==
  ASSUME \A scenario \in Scenarios : Agrees(scenario.store.registry)
  PROVE  Spec => [](RuntimeAgreesWithGet /\ EveryActionAgrees)
<1>1. Init => AgreeInv
  <2> SUFFICES ASSUME Init PROVE AgreeInv
    OBVIOUS
  <2>1. DOMAIN store = StoreParts /\ Agrees(store.registry)
    BY ScenariosAssumption DEF Init, StoreParts
  <2>2. \A p \in Runs : run[p].pc = "launch"
    BY DEF Init
  <2>3. EditInv
    BY InitEdit
  <2> QED
    BY <2>1, <2>2, <2>3 DEF AgreeInv, AgreeOf, Asking
<1>2. AgreeInv => RuntimeAgreesWithGet /\ EveryActionAgrees
  <2> SUFFICES ASSUME AgreeInv PROVE EveryActionAgrees
    BY RuntimeReadsWhatGetShows
  <2>1. Stored(store.registry, <<"AppExit", "Default">>).kind \in {"none", "sz"}
    BY DEF AgreeInv, Agrees, TextOrNone, ForEveryCode
  <2>2. \A code : ~ShownOtherwise(store.registry, code)
    BY <2>1 DEF ShownOtherwise
  <2> QED
    BY <2>2, ActionsAgree DEF EveryActionAgrees
<1> QED
  BY <1>1, <1>2, AgreeStep, PTL DEF Spec

-----------------------------------------------------------------------------
(* What is read back after a change of one setting.                        *)

\* The keys that a form has, or a command other than one for an exit code.
Single(key) == key[1] = "AppExit" => key[2] = "Default"

\* The settings that the control manager keeps in its configuration.
ScmNames == InSCM \ {"Environment"}

LEMMA KindsFound == \A name : KindOf(name) \in {"dword", "multi", "expand", "sz"}
BY DEF KindOf

LEMMA NotInRegistry ==
  ASSUME NEW key PROVE ~InRegistry(key) <=> key[1] \in ScmNames
BY DEF InRegistry, InParameters, InSCM, ScmNames

LEMMA StoredAfter ==
  ASSUME NEW registry, NEW key, NEW v, NEW other
  PROVE  Stored(WithValue(registry, key, v), other)
           = IF other # key THEN Stored(registry, other)
             ELSE IF Found(v) THEN AsStored(key, v) ELSE Absent
<1>1. CASE Found(v)
  <2> DEFINE one == [k \in {key} |-> AsStored(key, v)]
  <2>1. WithValue(registry, key, v) = Over(one, registry)
    BY <1>1 DEF WithValue
  <2>2. DOMAIN one = {key} /\ (other = key => one[other] = AsStored(key, v))
    OBVIOUS
  <2> HIDE DEF one
  <2> QED
    BY <1>1, <2>1, <2>2, StoredOver
<1>2. CASE ~Found(v)
  <2>1. WithValue(registry, key, v) = [k \in DOMAIN registry \ {key} |-> registry[k]]
    BY <1>2 DEF WithValue
  <2> QED
    BY <1>2, <2>1 DEF Stored
<1> QED
  BY <1>1, <1>2

LEMMA EffectiveStored ==
  ASSUME NEW registry, NEW scm, NEW key, InRegistry(key), Single(key)
  PROVE  Effective(registry, scm, key)
           = IF CompatibleKind(key[1], Stored(registry, key)) THEN Stored(registry, key)
             ELSE DefaultValue(scm, key[1])
<1>1. ReadSetting(registry, scm, key) = Stored(registry, key)
  <2>1. key[1] \notin {"Start", "Type"} \cup Dependencies
    BY DEF InRegistry, InParameters, InSCM, Dependencies
  <2> QED
    BY <2>1 DEF ReadSetting
<1> QED
  BY <1>1 DEF Effective, Single

\* The defaults of what is in the registry are the catalog's.
LEMMA DefaultsOfStored ==
  ASSUME NEW a, NEW b, NEW key, InRegistry(key)
  PROVE  DefaultValue(a, key[1]) = DefaultValue(b, key[1])
<1>1. key[1] \notin {"Name", "DisplayName", "ImagePath", "Start", "Type"}
  BY DEF InRegistry, InParameters, InSCM
<1> QED
  BY <1>1 DEF DefaultValue

\* What is in the configuration.
LEMMA EffectiveInScm ==
  ASSUME NEW registry, NEW scm, NEW name \in ScmNames
  PROVE  /\ name = "Start" =>
              Effective(registry, scm, Key(name)).data = StartName(scm.start, scm.delayed)
         /\ name = "Type" => Effective(registry, scm, Key(name)).data = TypeName(scm.type)
         /\ name \notin {"Start", "Type"} => Effective(registry, scm, Key(name)).data = scm[name]
<1> DEFINE v == ReadSetting(registry, scm, Key(name))
<1>0. ~InRegistry(Key(name)) /\ Key(name)[1] = name /\ name # "AppExit"
  BY NotInRegistry, KeyName DEF ScmNames, InSCM
<1>1. \A data : CompatibleKind(name, Value(name, data)) /\ Value(name, data).data = data
  BY DEF CompatibleKind, Value
<1>2. CASE name = "Start"
  <2>1. v = Value(name, StartName(scm.start, scm.delayed))
    BY <1>0, <1>2 DEF ReadSetting, Dependencies
  <2> QED
    BY <1>0, <1>1, <1>2, <2>1 DEF Effective
<1>3. CASE name = "Type"
  <2>1. v = Value(name, TypeName(scm.type))
    BY <1>0, <1>3 DEF ReadSetting, Dependencies
  <2> QED
    BY <1>0, <1>1, <1>3, <2>1 DEF Effective
<1>4. CASE name \in Dependencies
  <2>1. v = IF scm[name] = <<>> THEN Absent ELSE Value(name, scm[name])
    BY <1>0, <1>4 DEF ReadSetting, Dependencies
  <2>2. CASE scm[name] = <<>>
    <3>1. v.kind = "none"
      BY <2>1, <2>2 DEF Absent
    <3>2. ~CompatibleKind(name, v)
      BY <1>4, <3>1, KindsFound DEF CompatibleKind, Dependencies
    <3>3. Effective(registry, scm, Key(name)) = DefaultValue(scm, name)
      BY <1>0, <3>2 DEF Effective
    <3>4. DefaultValue(scm, name) = Value(name, <<>>)
      BY <1>4 DEF DefaultValue, Dependencies, Numbers, DefaultTexts, Lists
    <3> QED
      BY <1>1, <1>4, <2>2, <3>3, <3>4 DEF Dependencies
  <2>3. CASE scm[name] # <<>>
    BY <1>0, <1>1, <1>4, <2>1, <2>3 DEF Effective, Dependencies
  <2> QED
    BY <2>2, <2>3
<1>5. CASE name \notin {"Start", "Type"} \cup Dependencies
  <2>1. v = Value(name, scm[name])
    BY <1>0, <1>5 DEF ReadSetting
  <2> QED
    BY <1>0, <1>1, <1>5, <2>1 DEF Effective
<1> QED
  BY <1>2, <1>3, <1>4, <1>5

LEMMA KeyOfScm == ASSUME NEW key \in FormKeys, ~InRegistry(key) PROVE key = Key(key[1])
<1>1. key[1] \in ScmNames
  BY NotInRegistry
<1>2. key[1] \notin {"AppExit", "AppEvents"}
  BY <1>1 DEF ScmNames, InSCM
<1> QED
  BY <1>2, KeysOfForms, KeyName DEF Key

LEMMA FormKeysSingle == ASSUME NEW key \in FormKeys PROVE Single(key)
BY KeysOfForms, KeyName DEF Single, RequiresSub

\* A change in the registry is read at its own key and no other.
LEMMA OtherKeysRead ==
  ASSUME NEW registry, NEW scm, NEW request, NEW key \in FormKeys, key # request.key
  PROVE  Effective(WithValue(registry, request.key, request.value), scm, key)
           = Effective(registry, scm, key)
<1> DEFINE after == WithValue(registry, request.key, request.value)
<1>1. Stored(after, key) = Stored(registry, key)
  BY StoredAfter
<1>2. Single(key)
  BY FormKeysSingle
<1>3. CASE InRegistry(key)
  BY <1>1, <1>2, <1>3, EffectiveStored
<1>4. CASE ~InRegistry(key)
  <2>1. ReadSetting(after, scm, key) = ReadSetting(registry, scm, key)
    BY <1>4 DEF ReadSetting
  <2>2. key[1] # "AppExit"
    BY <1>4, NotInRegistry DEF ScmNames, InSCM
  <2> QED
    BY <2>1, <2>2 DEF Effective
<1> QED
  BY <1>3, <1>4

\* The fields of the configuration that a change writes and leaves.
LEMMA ChangedFields ==
  ASSUME NEW scm, DOMAIN scm = ScmFields, NEW cfg0, NEW name \in ScmNames, NEW data
  PROVE  LET new == Changed(scm, cfg0, name, data) IN
         /\ DOMAIN new = ScmFields /\ new.delayed = scm.delayed
         /\ name # "Start" => new.start = scm.start
         /\ name # "Type" => new.type = scm.type
         /\ name \notin Dependencies =>
              \A list \in Dependencies : new[list] = scm[list]
         /\ name \in Dependencies =>
              \A list \in Dependencies \ {name} : new[list] = cfg0[list]
         /\ \A other \in ScmNames \ (Dependencies \cup {name, "Start", "Type"}) :
              new[other] = scm[other]
<1> DEFINE new == Changed(scm, cfg0, name, data)
<1>1. CASE name = "Start"
  <2>1. new = [scm EXCEPT !.start = CHOOSE s \in ParseStart(data) : TRUE]
    BY <1>1 DEF Changed, Dependencies
  <2> QED
    BY <1>1, <2>1 DEF ScmFields, ScmNames, InSCM, Dependencies
<1>2. CASE name = "Type"
  <2>1. new = [scm EXCEPT !.type = CHOOSE t \in ParseType(data) : TRUE]
    BY <1>2 DEF Changed, Dependencies
  <2> QED
    BY <1>2, <2>1 DEF ScmFields, ScmNames, InSCM, Dependencies
<1>3. CASE name \in Dependencies
  <2> DEFINE names == AsStored(Key(name), Value(name, data)).data
  <2>1. new = MergedDependencies(scm, cfg0, name, names)
    BY <1>3 DEF Changed, Dependencies
  <2> HIDE DEF names
  <2> QED
    BY <1>3, <2>1 DEF MergedDependencies, ScmFields, ScmNames, InSCM, Dependencies
<1>4. CASE name \notin {"Start", "Type"} \cup Dependencies
  <2>1. new = [scm EXCEPT ![name] = data]
    BY <1>4 DEF Changed
  <2> QED
    BY <1>4, <2>1 DEF ScmFields, ScmNames, InSCM, Dependencies
<1> QED
  BY <1>1, <1>2, <1>3, <1>4

\* A change in the configuration, and the call that a start type takes besides,
\* are read at no other setting, but for the partner in a list.
LEMMA OtherSettingsRead ==
  ASSUME NEW registry, NEW scm, DOMAIN scm = ScmFields, NEW cfg0, NEW name \in ScmNames,
         NEW data, NEW key \in FormKeys, key # Key(name),
         name \in Dependencies /\ key[1] \in Dependencies => cfg0[key[1]] = scm[key[1]]
  PROVE  Effective(registry, Changed(scm, cfg0, name, data), key).data
           = Effective(registry, scm, key).data
<1> DEFINE new == Changed(scm, cfg0, name, data)
<1>1. CASE InRegistry(key)
  <2>1. DefaultValue(new, key[1]) = DefaultValue(scm, key[1])
    BY <1>1, DefaultsOfStored
  <2> QED
    BY <1>1, <2>1, FormKeysSingle, EffectiveStored
<1>2. CASE ~InRegistry(key)
  <2>1. key = Key(key[1]) /\ key[1] \in ScmNames
    BY <1>2, KeyOfScm, NotInRegistry
  <2>2. key[1] # name
    BY <2>1
  <2> DEFINE other == key[1]
  <2>3. /\ new.delayed = scm.delayed
        /\ name # "Start" => new.start = scm.start
        /\ name # "Type" => new.type = scm.type
        /\ name \notin Dependencies => \A list \in Dependencies : new[list] = scm[list]
        /\ name \in Dependencies => \A list \in Dependencies \ {name} : new[list] = cfg0[list]
        /\ \A o \in ScmNames \ (Dependencies \cup {name, "Start", "Type"}) : new[o] = scm[o]
    BY ChangedFields
  <2>4. other \notin {"Start", "Type"} => new[other] = scm[other]
    <3>1. CASE other \in Dependencies
      BY <2>2, <2>3, <3>1
    <3>2. CASE other \notin Dependencies
      BY <2>1, <2>2, <2>3, <3>2
    <3> QED
      BY <3>1, <3>2
  <2> QED
    BY <2>1, <2>2, <2>3, <2>4, EffectiveInScm
<1> QED
  BY <1>1, <1>2

LEMMA OthersReadAfterDelay ==
  ASSUME NEW registry, NEW scm, DOMAIN scm = ScmFields, NEW data,
         NEW key \in FormKeys, key # Key("Start")
  PROVE  Effective(registry, WithDelay(scm, "Start", data), key).data
           = Effective(registry, scm, key).data
<1> DEFINE new == WithDelay(scm, "Start", data)
<1>0. new = [scm EXCEPT !.delayed = (data = "SERVICE_DELAYED_AUTO_START")]
  BY DEF WithDelay
<1>1. CASE InRegistry(key)
  <2>1. DefaultValue(new, key[1]) = DefaultValue(scm, key[1])
    BY <1>1, DefaultsOfStored
  <2> QED
    BY <1>1, <2>1, FormKeysSingle, EffectiveStored
<1>2. CASE ~InRegistry(key)
  <2>1. key = Key(key[1]) /\ key[1] \in ScmNames
    BY <1>2, KeyOfScm, NotInRegistry
  <2>2. key[1] # "Start"
    BY <2>1
  <2> DEFINE other == key[1]
  <2>3. new.type = scm.type /\ \A o \in ScmNames \ {"Start", "Type"} : new[o] = scm[o]
    BY <1>0 DEF ScmFields, ScmNames, InSCM, Dependencies
  <2> QED
    BY <2>1, <2>2, <2>3, EffectiveInScm
<1> QED
  BY <1>1, <1>2

\* What is read back of a change of the configuration.
LEMMA ChangeReadsBack ==
  ASSUME NEW registry, NEW scm, DOMAIN scm = ScmFields, NEW cfg0, NEW name \in ScmNames,
         name # "Start", NEW data, NEW password, ~Refused(cfg0, name, data, password)
  PROVE  Effective(registry, Changed(scm, cfg0, name, data), Key(name)).data
           = IF name \in Dependencies THEN AsStored(Key(name), Value(name, data)).data ELSE data
<1> DEFINE new == Changed(scm, cfg0, name, data)
<1>1. CASE name = "Type"
  <2>1. ParseType(data) # {}
    BY <1>1 DEF Refused
  <2>2. new = [scm EXCEPT !.type = CHOOSE t \in ParseType(data) : TRUE]
    BY <1>1 DEF Changed, Dependencies
  <2>3. new.type \in ParseType(data)
    BY <2>1, <2>2 DEF ScmFields
  <2>4. TypeName(new.type) = data
    BY <2>3 DEF ParseType
  <2> QED
    BY <1>1, <2>4, EffectiveInScm DEF Dependencies
<1>2. CASE name \in Dependencies
  <2> DEFINE names == AsStored(Key(name), Value(name, data)).data
  <2>1. new = MergedDependencies(scm, cfg0, name, names)
    BY <1>2 DEF Changed, Dependencies
  <2> HIDE DEF names
  <2>2. new[name] = names
    BY <1>2, <2>1 DEF MergedDependencies, ScmFields, Dependencies
  <2> QED
    BY <1>2, <2>2, EffectiveInScm DEF Dependencies, names
<1>3. CASE name \notin {"Start", "Type"} \cup Dependencies
  <2>1. new = [scm EXCEPT ![name] = data]
    BY <1>3 DEF Changed
  <2>2. new[name] = data
    BY <1>3, <2>1 DEF ScmFields, ScmNames, InSCM, Dependencies
  <2> QED
    BY <1>3, <2>2, EffectiveInScm
<1> QED
  BY <1>1, <1>2, <1>3

LEMMA StartChanges ==
  ASSUME NEW scm, DOMAIN scm = ScmFields, NEW cfg0, NEW data, NEW password,
         ~Refused(cfg0, "Start", data, password)
  PROVE  Changed(scm, cfg0, "Start", data).start \in ParseStart(data)
<1>1. ParseStart(data) # {}
  BY DEF Refused
<1>2. Changed(scm, cfg0, "Start", data) = [scm EXCEPT !.start = CHOOSE s \in ParseStart(data) : TRUE]
  BY DEF Changed, Dependencies
<1> QED
  BY <1>1, <1>2 DEF ScmFields

LEMMA DelayReadsBack ==
  ASSUME NEW registry, NEW scm, DOMAIN scm = ScmFields, NEW data, scm.start \in ParseStart(data)
  PROVE  Effective(registry, WithDelay(scm, "Start", data), Key("Start")).data = data
<1> DEFINE new == WithDelay(scm, "Start", data)
<1>1. /\ new.start = scm.start
      /\ new.delayed = (data = "SERVICE_DELAYED_AUTO_START")
  BY DEF WithDelay, ScmFields
<1>2. StartName(new.start, new.delayed) = data
  <2>1. CASE data = "SERVICE_DELAYED_AUTO_START"
    BY <1>1, <2>1 DEF ParseStart, StartName
  <2>2. CASE data # "SERVICE_DELAYED_AUTO_START"
    BY <1>1, <2>2 DEF ParseStart, StartName
  <2> QED
    BY <2>1, <2>2
<1>3. "Start" \in ScmNames
  BY DEF ScmNames, InSCM
<1> QED
  BY <1>2, <1>3, EffectiveInScm

-----------------------------------------------------------------------------
(* Lists of texts.                                                         *)

IsList(x) == \E S : x \in Seq(S)

\* No place that is picked is left out.
LEMMA PickedAll ==
  ASSUME NEW s, NEW n \in Nat, NEW I \in SUBSET (1..n), NEW i \in I
  PROVE  \E k \in 1..Cardinality(I) : Picked(s, I)[k] = s[i]
<1> DEFINE upTo(m) == {j \in I : j <= m}
           f(m) == Cardinality(upTo(m))
<1>0. \A j \in I : j \in Nat /\ 1 <= j /\ j <= n
  OBVIOUS
<1>1. IsFiniteSet(I) /\ Cardinality(I) \in Nat
  <2>1. IsFiniteSet(1..n)
    BY FS_Interval
  <2> QED
    BY <2>1, FS_Subset, FS_CardinalityType
<1>2. \A m \in Nat : /\ IsFiniteSet(upTo(m)) /\ f(m) \in Nat /\ f(m) <= Cardinality(I)
  BY <1>1, FS_Subset, FS_CardinalityType
<1>3. ASSUME NEW a \in I, NEW b \in I, a < b PROVE f(a) < f(b)
  <2>1. a \in Nat /\ b \in Nat /\ IsFiniteSet(upTo(a)) /\ IsFiniteSet(upTo(b))
    BY <1>0, <1>2
  <2>2. b \notin upTo(a) /\ upTo(a) \cup {b} \in SUBSET upTo(b)
    <3>1. \A j \in I : j <= a => j <= b
      BY <1>0, <1>3
    <3>2. ~(b <= a) /\ b <= b
      BY <1>3, <2>1
    <3> QED
      BY <3>1, <3>2
  <2>3. Cardinality(upTo(a) \cup {b}) = f(a) + 1
    <3> HIDE DEF upTo
    <3> QED
      BY <2>1, <2>2, FS_AddElement
  <2>4. Cardinality(upTo(a) \cup {b}) <= f(b)
    <3> HIDE DEF upTo
    <3> QED
      BY <2>1, <2>2, FS_Subset
  <2>5. f(a) \in Nat /\ f(b) \in Nat
    BY <1>2, <2>1
  <2> HIDE DEF upTo
  <2> QED
    BY <2>3, <2>4, <2>5
<1>4. f(i) \in 1..Cardinality(I)
  <2>1. i \in Nat /\ i \in upTo(i) /\ IsFiniteSet(upTo(i)) /\ f(i) \in Nat /\ f(i) <= Cardinality(I)
    BY <1>0, <1>2
  <2>2. f(i) # 0
    <3> HIDE DEF upTo
    <3> QED
      BY <2>1, FS_EmptySet
  <2> HIDE DEF f
  <2> QED
    BY <1>1, <2>1, <2>2
<1>5. \A j \in I : f(j) = f(i) => j = i
  <2> SUFFICES ASSUME NEW j \in I, f(j) = f(i), j # i PROVE FALSE
    OBVIOUS
  <2>1. j < i \/ i < j
    BY <1>0
  <2>2. f(i) \in Nat
    BY <1>0, <1>2
  <2>3. f(j) < f(i) \/ f(i) < f(j)
    BY <1>3, <2>1
  <2> HIDE DEF f
  <2> QED
    BY <2>2, <2>3
<1>6. Picked(s, I)[f(i)] = s[CHOOSE j \in I : f(j) = f(i)]
  BY <1>4 DEF Picked
<1>7. (CHOOSE j \in I : f(j) = f(i)) = i
  <2> HIDE DEF f
  <2> QED
    BY <1>5
<1> QED
  BY <1>4, <1>6, <1>7

\* What is collected from lines is a list without an empty one.
LEMMA LinesSplit ==
  ASSUME NEW lines, IsList(lines)
  PROVE  /\ IsList(SplitLines(lines))
         /\ \A k \in DOMAIN SplitLines(lines) : SplitLines(lines)[k] # NoText
<1> DEFINE I == {i \in DOMAIN lines : Trim(lines[i]) # NoText}
           s == TrimAll(lines)
           c == Cardinality(I)
           S == {s[i] : i \in I}
<1>1. PICK n \in Nat : DOMAIN lines = 1..n
  BY DEF IsList
<1>2. I \in SUBSET (1..n) /\ \A i \in I : s[i] = Trim(lines[i]) /\ s[i] # NoText
  BY <1>1 DEF TrimAll
<1>3. SplitLines(lines) = Picked(s, I)
  BY DEF SplitLines
<1> HIDE DEF I, s
<1>4. /\ c \in Nat /\ DOMAIN Picked(s, I) = 1..c
      /\ \A k \in 1..c : \E i \in I : Picked(s, I)[k] = s[i]
  BY <1>1, <1>2, PickedAre
<1>5. Picked(s, I) = [k \in 1..c |-> Picked(s, I)[k]]
  BY <1>4 DEF Picked
<1>6. Picked(s, I) \in Seq(S)
  <2>1. \A k \in 1..c : Picked(s, I)[k] \in S
    BY <1>4
  <2> HIDE DEF S, c
  <2> QED
    BY <1>4, <1>5, <2>1
<1> QED
  BY <1>2, <1>3, <1>4, <1>6 DEF IsList

LEMMA Decoded ==
  ASSUME NEW strings, IsList(strings)
  PROVE  /\ IsList(EncodeThenDecode(strings))
         /\ (\A i \in DOMAIN strings : strings[i] # NoText) => EncodeThenDecode(strings) = strings
<1> DEFINE empty == {i \in DOMAIN strings : strings[i] = NoText}
<1>1. CASE empty = {}
  BY <1>1 DEF EncodeThenDecode
<1>2. CASE empty # {}
  <2>1. empty \in SUBSET Nat
    BY DEF IsList
  <2>2. PICK m \in empty : \A j \in empty : ~(<<j, m>> \in OpToRel(<, Nat))
    BY <1>2, <2>1, NatLessThanWellFounded, WFMin
  <2>3. \A j \in empty : m <= j
    <3> HIDE DEF empty
    <3> SUFFICES ASSUME NEW j \in empty PROVE m <= j
      OBVIOUS
    <3>1. j \in Nat /\ m \in Nat
      BY <2>1
    <3>2. ~(j < m)
      BY <2>2, <3>1 DEF OpToRel
    <3> QED
      BY <3>1, <3>2
  <2>4. Min(empty) \in empty
    BY <2>3 DEF Min
  <2> DEFINE n == Min(empty) - 1
             S == {strings[i] : i \in 1..n}
  <2>5. EncodeThenDecode(strings) = SubSeq(strings, 1, n)
    BY <1>2 DEF EncodeThenDecode
  <2>6. n \in Int
    BY <2>1, <2>4
  <2> HIDE DEF n
  <2>7. \A i \in 1..n : strings[i] \in S
    OBVIOUS
  <2> HIDE DEF S
  <2>8. SubSeq(strings, 1, n) \in Seq(S)
    BY <2>6, <2>7, SubSeqProperties
  <2> QED
    BY <1>2, <2>5, <2>8 DEF IsList
<1> QED
  BY <1>1, <1>2

LEMMA EmptyIsList == IsList(<<>>) /\ EncodeThenDecode(<<>>) = <<>>
<1>1. <<>> \in Seq({})
  OBVIOUS
<1>2. IsList(<<>>)
  BY <1>1 DEF IsList
<1>3. \A i \in DOMAIN <<>> : FALSE
  OBVIOUS
<1> QED
  BY <1>2, <1>3, Decoded

-----------------------------------------------------------------------------
(* What a save asks for: every key of the form that it does not pass over. *)

LEMMA OrderCovers == \A key \in FormKeys : \E i \in DOMAIN SaveOrder : SaveOrder[i] = key
<1> DEFINE D == <<"AppExit", "Default">>
           hooks == [i \in DOMAIN HookNames |-> <<"AppEvents", HookNames[i]>>]
           names == [i \in DOMAIN All |-> Key(All[i])]
           rest == <<D>> \o hooks
           S == {names[i] : i \in DOMAIN names} \cup {hooks[i] : i \in DOMAIN hooks} \cup {D}
<1>1. names \in Seq(S) /\ Len(names) = 49 /\ \A i \in 1..49 : names[i] = Key(All[i])
  <2>1. DOMAIN All = 1..49
    BY DEF All
  <2> QED
    BY <2>1
<1>2. hooks \in Seq(S) /\ DOMAIN hooks = DOMAIN HookNames /\ <<D>> \in Seq(S)
  BY HooksAssumption
<1>3. SaveOrder = names \o rest
  BY DEF SaveOrder, SubparameterKeys
<1> HIDE DEF names, S
<1>4. /\ rest \in Seq(S) /\ Len(rest) = 1 + Len(hooks) /\ rest[1] = D
      /\ \A i \in 1..Len(hooks) : rest[i + 1] = hooks[i]
  <2> HIDE DEF hooks, D
  <2>1. /\ rest \in Seq(S) /\ Len(rest) = Len(<<D>>) + Len(hooks)
        /\ \A i \in 1..(Len(<<D>>) + Len(hooks)) :
             rest[i] = IF i <= Len(<<D>>) THEN <<D>>[i] ELSE hooks[i - Len(<<D>>)]
    BY <1>2, ConcatProperties
  <2>2. Len(<<D>>) = 1 /\ <<D>>[1] = D /\ Len(hooks) \in Nat
    BY <1>2, LenProperties
  <2>3. rest[1] = D
    BY <2>1, <2>2
  <2>4. ASSUME NEW i \in 1..Len(hooks) PROVE rest[i + 1] = hooks[i]
    <3>1. i + 1 \in 1..(1 + Len(hooks)) /\ ~(i + 1 <= 1) /\ (i + 1) - 1 = i
      BY <2>2
    <3> QED
      BY <2>1, <2>2, <3>1
  <2> QED
    BY <2>1, <2>2, <2>3, <2>4
<1> DEFINE n == Len(rest)
<1>5. n \in Nat /\ n = 1 + Len(hooks) /\ Len(hooks) \in Nat
  <2> HIDE DEF hooks, D
  <2> QED
    BY <1>2, <1>4, LenProperties
<1>6. /\ DOMAIN SaveOrder = 1..(49 + n)
      /\ \A i \in 1..49 : SaveOrder[i] = names[i]
      /\ \A i \in 1..n : SaveOrder[49 + i] = rest[i]
  <2> HIDE DEF rest, hooks, D
  <2>0. names \in Seq(S) /\ rest \in Seq(S) /\ SaveOrder = names \o rest
    BY <1>1, <1>3, <1>4
  <2>1. /\ SaveOrder \in Seq(S) /\ Len(SaveOrder) = Len(names) + n
        /\ \A i \in 1..(Len(names) + n) :
             SaveOrder[i] = IF i <= Len(names) THEN names[i] ELSE rest[i - Len(names)]
    BY <2>0, ConcatProperties
  <2>2. DOMAIN SaveOrder = 1..(49 + n)
    BY <1>1, <2>1, LenProperties
  <2>5. \A k \in 1..(49 + n) : SaveOrder[k] = IF k <= 49 THEN names[k] ELSE rest[k - 49]
    BY <1>1, <2>1
  <2>3. ASSUME NEW i \in 1..n PROVE SaveOrder[49 + i] = rest[i]
    <3>1. PICK k : k = 49 + i
      OBVIOUS
    <3>2. k \in 1..(49 + n) /\ ~(k <= 49) /\ k - 49 = i
      BY <1>5, <3>1
    <3>3. SaveOrder[k] = rest[k - 49]
      BY <2>5, <3>2
    <3> QED
      BY <3>1, <3>2, <3>3, Zenon
  <2>4. ASSUME NEW i \in 1..49 PROVE SaveOrder[i] = names[i]
    <3>1. i \in 1..(49 + n) /\ i <= 49
      BY <1>5
    <3> QED
      BY <1>1, <2>1, <3>1
  <2> QED
    BY <2>2, <2>3, <2>4
<1>7. ASSUME NEW key \in FormKeys PROVE \E i \in DOMAIN SaveOrder : SaveOrder[i] = key
  <2>1. CASE \E name \in ToSet(All) \ RequiresSub : key = Key(name)
    <3>1. PICK i \in DOMAIN All : key = Key(All[i])
      BY <2>1 DEF ToSet
    <3>2. i \in 1..49
      BY DEF All
    <3> HIDE DEF n
    <3>3. i \in 1..(49 + n)
      <4>1. \A j \in 1..49 : \A m \in Nat : j \in 1..(49 + m)
        OBVIOUS
      <4> QED
        BY <1>5, <3>2, <4>1, Zenon
    <3>4. i \in DOMAIN SaveOrder /\ SaveOrder[i] = names[i]
      BY <1>6, <3>2, <3>3, Zenon
    <3>5. names[i] = key
      BY <1>1, <3>1, <3>2, Zenon
    <3> QED
      BY <3>4, <3>5, Zenon
  <2>2. CASE key = D
    <3>1. 1 \in 1..n /\ 49 + 1 \in 1..(49 + n)
      BY <1>5
    <3> HIDE DEF n, rest, D
    <3> QED
      BY <1>4, <1>6, <2>2, <3>1
  <2>3. CASE \E hook \in ToSet(HookNames) : key = <<"AppEvents", hook>>
    <3>1. PICK i \in DOMAIN HookNames : key = <<"AppEvents", HookNames[i]>>
      BY <2>3 DEF ToSet
    <3>2. key = hooks[i] /\ i \in 1..Len(hooks)
      BY <1>2, <3>1, LenProperties
    <3>3. i + 1 \in 1..n /\ 49 + (i + 1) \in 1..(49 + n)
      BY <1>5, <3>2
    <3> HIDE DEF n, rest, hooks, D
    <3>4. rest[i + 1] = hooks[i]
      BY <1>4, <3>2
    <3>5. SaveOrder[49 + (i + 1)] = rest[i + 1]
      BY <1>6, <3>3
    <3> QED
      BY <1>6, <3>2, <3>3, <3>4, <3>5
  <2> QED
    BY <2>1, <2>2, <2>3, KeysOfForms
<1> QED
  BY <1>7

LEMMA ChangesCover ==
  ASSUME NEW p, NEW key \in FormKeys, ~Skipped(p, key)
  PROVE  \E i \in DOMAIN Changes(p) : Changes(p)[i] = RequestFor(p, key)
<1> DEFINE I == DOMAIN SaveOrder \ {i \in DOMAIN SaveOrder : Skipped(p, SaveOrder[i])}
           keys == Picked(SaveOrder, I)
           c == Cardinality(I)
<1>1. Changes(p) = [i \in DOMAIN keys |-> RequestFor(p, keys[i])]
  BY DEF Changes, Persist, SaveOrder, Skipped, RequestFor
<1>2. PICK n \in Nat : DOMAIN SaveOrder = 1..n
  BY KeysInOrder, LenProperties
<1>3. I \in SUBSET (1..n)
  BY <1>2
<1>4. PICK i \in I : SaveOrder[i] = key
  BY OrderCovers
<1> HIDE DEF I
<1>5. DOMAIN Picked(SaveOrder, I) = 1..Cardinality(I)
  BY <1>3, PickedAre
<1>6. PICK k \in 1..Cardinality(I) : Picked(SaveOrder, I)[k] = SaveOrder[i]
  BY <1>3, <1>4, PickedAll
<1> QED
  BY <1>1, <1>4, <1>5, <1>6

-----------------------------------------------------------------------------
(* Requests: what they hold and what is read back of them.                 *)

\* What is read of a setting after a change that was asked for.
Comeback(scm, request) ==
  IF Found(request.value) THEN AsStored(request.key, request.value).data
  ELSE DefaultValue(scm, request.key[1]).data

\* A value that a command or a dialog stores for a setting.
ValueFor(name, v) ==
  \E data : /\ v = Value(name, data) \/ (name = "AppEvents" /\ v = [kind |-> "expand", data |-> data])
            /\ name \in Lists \ {"DependOnGroup"} => IsList(data)

Sound(request) ==
  /\ InRegistry(request.key) \/ request.key = Key(request.key[1])
  /\ Found(request.value) => ValueFor(request.key[1], request.value)

LEMMA ListKinds == \A name : KindOf(name) = "multi" <=> name \in Lists
<1> SUFFICES ASSUME NEW name PROVE KindOf(name) = "multi" <=> name \in Lists
  OBVIOUS
<1>1. CASE name \in Lists
  <2>1. name \notin DOMAIN Numbers
    BY <1>1 DEF Lists, Numbers
  <2> QED
    BY <1>1, <2>1 DEF KindOf, Lists, Expanded
<1>2. CASE name \notin Lists
  BY <1>2 DEF KindOf
<1> QED
  BY <1>1, <1>2

LEMMA StoredSoundly ==
  ASSUME NEW key, NEW v, ValueFor(key[1], v)
  PROVE  /\ Found(v) /\ CompatibleKind(key[1], AsStored(key, v))
         /\ key[1] # "DependOnGroup" /\ AsStored(key, v).kind = "multi" =>
              IsList(AsStored(key, v).data)
         /\ key[1] \notin Lists => AsStored(key, v).data = v.data
<1>1. PICK data : /\ \/ v = Value(key[1], data)
                     \/ key[1] = "AppEvents" /\ v = [kind |-> "expand", data |-> data]
                  /\ key[1] \in Lists \ {"DependOnGroup"} => IsList(data)
  BY DEF ValueFor
<1>2. CASE key[1] = "AppEvents"
  <2>1. v.kind \in {"sz", "expand"} /\ v.data = data /\ v = [kind |-> v.kind, data |-> data]
    BY <1>1, <1>2 DEF Value, KindOf, Numbers, Lists, Expanded
  <2>2. AsStored(key, v) = [v EXCEPT !.kind = "expand"]
    BY <1>2, <2>1 DEF AsStored
  <2>3. AsStored(key, v).kind = "expand" /\ AsStored(key, v).data = data
    BY <2>1, <2>2
  <2> QED
    BY <1>2, <2>1, <2>3 DEF Found, CompatibleKind
<1>3. CASE key[1] # "AppEvents" /\ key[1] \in Lists
  <2>1. /\ v.kind = "multi" /\ KindOf(key[1]) = "multi" /\ v = [kind |-> "multi", data |-> data]
        /\ key[1] # "DependOnGroup" => IsList(data)
    BY <1>1, <1>3, ListKinds DEF Value
  <2>2. AsStored(key, v) = IF key[1] # "DependOnGroup" THEN [v EXCEPT !.data = EncodeThenDecode(@)] ELSE v
    BY <1>3, <2>1 DEF AsStored
  <2>3. AsStored(key, v).kind = "multi" /\ AsStored(key, v).data \in {data, EncodeThenDecode(data)}
    BY <2>1, <2>2
  <2>4. key[1] # "DependOnGroup" => IsList(data) /\ IsList(EncodeThenDecode(data))
    BY <2>1, Decoded
  <2>5. key[1] # "DependOnGroup" => IsList(AsStored(key, v).data)
    BY <2>3, <2>4, Zenon
  <2> QED
    BY <1>3, <2>1, <2>3, <2>5 DEF Found, CompatibleKind
<1>4. CASE key[1] # "AppEvents" /\ key[1] \notin Lists
  <2>1. v.kind = KindOf(key[1]) /\ v.kind # "multi" /\ v.data = data
    BY <1>1, <1>4, ListKinds DEF Value
  <2>2. AsStored(key, v) = v
    BY <1>4, <2>1 DEF AsStored
  <2> QED
    BY <2>1, <2>2, KindsFound DEF Found, CompatibleKind
<1> QED
  BY <1>2, <1>3, <1>4

LEMMA RegistryReadsBack ==
  ASSUME NEW registry, NEW scm, NEW request, Sound(request), InRegistry(request.key),
         Single(request.key) \/ Found(request.value)
  PROVE  Effective(WithValue(registry, request.key, request.value), scm, request.key).data
           = Comeback(scm, request)
<1> DEFINE key == request.key
           v == request.value
           after == WithValue(registry, key, v)
<1>1. CASE Found(v)
  <2>1. Stored(after, key) = AsStored(key, v)
    BY <1>1, StoredAfter
  <2>2. CompatibleKind(key[1], AsStored(key, v))
    BY <1>1, StoredSoundly DEF Sound
  <2>3. ReadSetting(after, scm, key) = AsStored(key, v)
    <3>1. key[1] \notin {"Start", "Type"} \cup Dependencies
      BY DEF InRegistry, InParameters, InSCM, Dependencies
    <3> QED
      BY <2>1, <3>1 DEF ReadSetting
  <2> QED
    BY <1>1, <2>2, <2>3 DEF Effective, Comeback
<1>2. CASE ~Found(v)
  <2>1. Stored(after, key) = Absent
    BY <1>2, StoredAfter
  <2>2. ~CompatibleKind(key[1], Absent)
    BY KindsFound DEF CompatibleKind, Absent
  <2>3. Effective(after, scm, key) = DefaultValue(scm, key[1])
    BY <1>2, <2>1, <2>2, EffectiveStored
  <2> QED
    BY <1>2, <2>3 DEF Comeback
<1> QED
  BY <1>1, <1>2

\* The data of a default.
LEMMA DefaultsNamed ==
  ASSUME NEW scm, NEW name
  PROVE  /\ name \in DOMAIN Numbers => DefaultValue(scm, name).data = Numbers[name]
         /\ name \in DOMAIN DefaultTexts => DefaultValue(scm, name).data = DefaultTexts[name]
         /\ name \in Lists => DefaultValue(scm, name).data = <<>>
         /\ name \notin (DOMAIN Numbers \cup DOMAIN DefaultTexts) \cup (Lists
                           \cup {"Name", "DisplayName", "ImagePath", "Start", "Type"})
              => DefaultValue(scm, name).data = NoText
<1>1. CASE name \in DOMAIN Numbers
  <2>1. DefaultValue(scm, name) = Value(name, Numbers[name])
    BY <1>1 DEF DefaultValue, Numbers, DefaultTexts, Lists
  <2> QED
    BY <1>1, <2>1 DEF Value, Numbers, DefaultTexts, Lists
<1>2. CASE name \in DOMAIN DefaultTexts
  <2>1. DefaultValue(scm, name) = Value(name, DefaultTexts[name])
    BY <1>2 DEF DefaultValue, Numbers, DefaultTexts, Lists
  <2> QED
    BY <1>2, <2>1 DEF Value, Numbers, DefaultTexts, Lists
<1>3. CASE name \in Lists
  <2>1. DefaultValue(scm, name) = Value(name, <<>>)
    BY <1>3 DEF DefaultValue, Numbers, DefaultTexts, Lists
  <2> QED
    BY <1>3, <2>1 DEF Value, Numbers, DefaultTexts, Lists
<1>4. CASE name \notin (DOMAIN Numbers \cup DOMAIN DefaultTexts) \cup (Lists
                           \cup {"Name", "DisplayName", "ImagePath", "Start", "Type"})
  <2>1. DefaultValue(scm, name) = Value(name, NoText)
    BY <1>4 DEF DefaultValue
  <2> QED
    BY <1>4, <2>1 DEF Value
<1>5. CASE name \in {"Name", "DisplayName", "ImagePath", "Start", "Type"}
  BY <1>5 DEF Numbers, DefaultTexts, Lists
<1> QED
  BY <1>1, <1>2, <1>3, <1>4, <1>5

\* What a deletion in the configuration writes is the default.
LEMMA ResetsAreDefaults ==
  ASSUME NEW scm, NEW name, Found(ResetOf(name))
  PROVE  /\ name \in {"Description", "ObjectName"} \cup Dependencies
         /\ ResetOf(name) = Value(name, DefaultValue(scm, name).data)
<1>1. CASE name \in {"Description", "ObjectName"}
  <2>1. ResetOf(name) = Value(name, DefaultTexts[name]) /\ name \in DOMAIN DefaultTexts
    BY <1>1 DEF ResetOf, Dependencies, DefaultTexts
  <2> QED
    BY <1>1, <2>1, DefaultsNamed
<1>2. CASE name \in Dependencies
  <2>1. ResetOf(name) = Value(name, <<>>) /\ name \in Lists
    BY <1>2 DEF ResetOf, Dependencies, Lists
  <2> QED
    BY <1>2, <2>1, DefaultsNamed
<1>3. CASE name \notin {"Description", "ObjectName"} \cup Dependencies
  <2>1. ResetOf(name) = Absent
    BY <1>3 DEF ResetOf
  <2> QED
    BY <2>1 DEF Found, Absent
<1> QED
  BY <1>1, <1>2, <1>3

LEMMA ConfigurationReadsBack ==
  ASSUME NEW registry, NEW scm, DOMAIN scm = ScmFields, NEW cfg0, NEW request, Sound(request),
         ~InRegistry(request.key), request.key[1] # "Start", Found(Wanted(request)),
         ~Refused(cfg0, request.key[1], Wanted(request).data, request.password)
  PROVE  Effective(registry, Changed(scm, cfg0, request.key[1], Wanted(request).data), request.key).data
           = Comeback(scm, request)
<1> DEFINE name == request.key[1]
           data == Wanted(request).data
<1>1. request.key = Key(name) /\ name \in ScmNames
  BY NotInRegistry DEF Sound
<1>2. Effective(registry, Changed(scm, cfg0, name, data), Key(name)).data
        = IF name \in Dependencies THEN AsStored(Key(name), Value(name, data)).data ELSE data
  BY <1>1, ChangeReadsBack
<1>3. name \notin {"AppEvents", "AppExit"} /\ (name \in Lists => name \in Dependencies)
  BY <1>1 DEF ScmNames, InSCM, Lists, Dependencies
<1>4. CASE Found(request.value)
  <2>1. Wanted(request) = request.value
    BY <1>4 DEF Wanted
  <2>2. ValueFor(name, request.value)
    BY <1>4 DEF Sound
  <2>3. request.value = Value(name, data)
    BY <1>3, <2>1, <2>2 DEF ValueFor, Value
  <2>4. name \notin Dependencies => AsStored(request.key, request.value).data = data
    BY <1>3, <2>1, <2>2, StoredSoundly
  <2> QED
    BY <1>1, <1>2, <1>4, <2>3, <2>4 DEF Comeback
<1>5. CASE ~Found(request.value)
  <2>1. Wanted(request) = ResetOf(name)
    BY <1>5 DEF Wanted
  <2>2. ResetOf(name) = Value(name, DefaultValue(scm, name).data)
    BY <2>1, ResetsAreDefaults
  <2>3. data = DefaultValue(scm, name).data
    BY <2>1, <2>2 DEF Value
  <2>4. name \in Dependencies => AsStored(Key(name), Value(name, data)).data = data
    <3>1. SUFFICES ASSUME name \in Dependencies
                   PROVE  AsStored(Key(name), Value(name, data)).data = data
      OBVIOUS
    <3>2. name \in Lists
      BY <3>1 DEF Dependencies, Lists
    <3>3. data = <<>>
      BY <2>3, <3>2, DefaultsNamed
    <3>4. EncodeThenDecode(data) = data
      BY <3>3, EmptyIsList
    <3>5. Value(name, data) = [kind |-> "multi", data |-> data] /\ Key(name)[1] = name
      BY <3>2, ListKinds, KeyName DEF Value
    <3>6. name # "AppEvents"
      BY <1>3
    <3> HIDE DEF data, name
    <3>7. AsStored(Key(name), Value(name, data)).data \in {data, EncodeThenDecode(data)}
      BY <3>5, <3>6 DEF AsStored
    <3> QED
      BY <3>4, <3>7
  <2>5. Comeback(scm, request) = data
    BY <1>5, <2>3 DEF Comeback
  <2> QED
    BY <1>1, <1>2, <2>4, <2>5
<1> QED
  BY <1>4, <1>5

-----------------------------------------------------------------------------
(* The form of a dialog, and what comes back of what it asks for.          *)

ListsLoaded(form) ==
  \A name \in {"AppEnvironment", "AppEnvironmentExtra", "DependOnService"} :
    IsList(form[Key(name)].data)

\* What is in a dialog: what a user can put there, over what was loaded.
Sensible(d) ==
  /\ \A control \in DOMAIN d.typed : FitsControl(control, d.typed[control])
  /\ d.mode \in {"edit", "install"} => KindsLoaded(d.original) /\ ListsLoaded(d.original)
  /\ d.mode = "install" => d.managed /\ \E name : d.original = NewForm(name)

LEMMA TypedIn ==
  ASSUME NEW p, NEW control \in (Controls \ {"Name"}) \cup ToSet(HookNames),
         control \in DOMAIN dialog[p].typed
  PROVE  Contents(p)[control] = dialog[p].typed[control]
<1>1. DOMAIN Shown(dialog[p].original, dialog[p].managed) = (Controls \ {"Name"}) \cup ToSet(HookNames)
  BY DEF Shown
<1> QED
  BY <1>1 DEF Contents

LEMMA TypedOrLoaded ==
  ASSUME NEW p, Sensible(dialog[p]), dialog[p].mode \in {"edit", "install"}
  PROVE  /\ Contents(p)["AppPriority"] \in ToSet(Priorities)
         /\ IsList(Contents(p)["Lines"])
         /\ IsList(Contents(p)["Dependencies"].services)
<1> DEFINE original == dialog[p].original
           managed == dialog[p].managed
           typed == dialog[p].typed
<1>0. {"AppPriority", "Lines", "Dependencies"} \subseteq Controls \ {"Name"}
  BY DEF Controls, Parts
<1>1. \A x : x \in Seq(STRING) => IsList(x)
  BY DEF IsList
<1>2. \A control \in DOMAIN typed : FitsControl(control, typed[control])
  BY DEF Sensible
<1>3. Contents(p)["AppPriority"] \in ToSet(Priorities)
  <2>1. CASE "AppPriority" \in DOMAIN typed
    BY <1>0, <1>2, <2>1, TypedIn DEF FitsControl
  <2>2. CASE "AppPriority" \notin DOMAIN typed
    <3>1. Contents(p)["AppPriority"] = Choice(Priorities, original[Key("AppPriority")].data)
      BY <1>0, <2>2, LeftAlone, SettingsDisplayed
    <3>2. Priorities[1] \in ToSet(Priorities)
      BY DEF Priorities, ToSet
    <3> QED
      BY <3>1, <3>2 DEF Choice
  <2> QED
    BY <2>1, <2>2
<1>4. IsList(Contents(p)["Lines"])
  <2>1. CASE "Lines" \in DOMAIN typed
    BY <1>0, <1>1, <1>2, <2>1, TypedIn DEF FitsControl
  <2>2. CASE "Lines" \notin DOMAIN typed
    <3>1. Contents(p)["Lines"] \in {original[Key("AppEnvironment")].data,
                                    original[Key("AppEnvironmentExtra")].data}
      BY <1>0, <2>2, LeftAlone, PartsDisplayed
    <3>2. /\ IsList(original[Key("AppEnvironment")].data)
          /\ IsList(original[Key("AppEnvironmentExtra")].data)
      BY DEF Sensible, ListsLoaded
    <3> QED
      BY <3>1, <3>2
  <2> QED
    BY <2>1, <2>2
<1>5. IsList(Contents(p)["Dependencies"].services)
  <2>1. CASE "Dependencies" \in DOMAIN typed
    BY <1>0, <1>1, <1>2, <2>1, TypedIn DEF FitsControl
  <2>2. CASE "Dependencies" \notin DOMAIN typed
    <3>1. Contents(p)["Dependencies"].services = original[Key("DependOnService")].data
      BY <1>0, <2>2, LeftAlone, PartsDisplayed
    <3> QED
      BY <3>1 DEF Sensible, ListsLoaded
  <2> QED
    BY <2>1, <2>2
<1> QED
  BY <1>3, <1>4, <1>5

\* A list that a save writes has no empty text in it, but for groups.
LEMMA ListsEntered ==
  ASSUME NEW p, Sensible(dialog[p]), dialog[p].mode \in {"edit", "install"},
         NEW name \in {"AppEnvironment", "AppEnvironmentExtra", "DependOnService"}
  PROVE  LET x == Entered(name, Contents(p)) IN IsList(x) /\ EncodeThenDecode(x) = x
<1> DEFINE shown == Contents(p)
           x == Entered(name, shown)
           good(y) == IsList(y) /\ EncodeThenDecode(y) = y
<1>1. \A lines : IsList(lines) => good(SplitLines(lines))
  BY LinesSplit, Decoded
<1>2. good(<<>>) /\ good(SplitLines(shown["Lines"])) /\ good(SplitLines(shown["Dependencies"].services))
  BY <1>1, TypedOrLoaded, EmptyIsList
<1>3. x \in {<<>>, SplitLines(shown["Lines"]), SplitLines(shown["Dependencies"].services)}
  BY SettingsEntered DEF Replacement
<1> HIDE DEF x, shown
<1>4. good(x)
  BY <1>2, <1>3
<1> QED
  BY <1>4 DEF x, shown

\* The settings whose values a dialog leaves as they were loaded.
LEMMA Uncollected ==
  ASSUME NEW name \in ToSet(All), name \notin Collects \cup RequiresSub,
         name \notin {"Name", "ImagePath"}
  PROVE  name \in DOMAIN Numbers \cup {"Environment"}
BY DEF All, ToSet, Collects, RequiresSub, Direct, PlainTexts, Trimmed, PlainNumbers, Ticks, Numbers

LEMMA NewlyDefault ==
  ASSUME NEW name, NEW key \in FormKeys
  PROVE  /\ key[1] = "AppEvents" => NewForm(name)[key] = [kind |-> "expand", data |-> NoText]
         /\ key[1] \in DOMAIN Numbers => NewForm(name)[key] = Value(key[1], Numbers[key[1]])
         /\ key[1] \in Lists => NewForm(name)[key] = Value(key[1], <<>>)
<1>1. PICK scm : NewForm(name)[key] = DefaultFor(scm, key[1])
  BY DEF NewForm
<1>2. CASE key[1] = "AppEvents"
  BY <1>1, <1>2 DEF DefaultFor, Numbers, Lists
<1>3. CASE key[1] \in DOMAIN Numbers \cup Lists
  <2>1. key[1] \notin {"AppEvents", "Start", "Type"} \cup DOMAIN DefaultTexts
    BY <1>3 DEF Numbers, Lists, DefaultTexts
  <2>2. DefaultFor(scm, key[1]) = DefaultValue(scm, key[1])
    BY <2>1 DEF DefaultFor
  <2>3. DOMAIN Numbers \cap Lists = {}
    BY DEF Numbers, Lists
  <2>4. key[1] \in DOMAIN Numbers => DefaultValue(scm, key[1]) = Value(key[1], Numbers[key[1]])
    BY <2>1, <2>3 DEF DefaultValue, Numbers
  <2>5. key[1] \in Lists => DefaultValue(scm, key[1]) = Value(key[1], <<>>)
    BY <2>1, <2>3 DEF DefaultValue, Numbers, Lists
  <2> QED
    BY <1>1, <1>3, <2>1, <2>2, <2>4, <2>5
<1> QED
  BY <1>2, <1>3

LEMMA PrioritiesAreTexts == NoText \notin ToSet(Priorities)
<1>1. ToSet(Priorities) = {"REALTIME_PRIORITY_CLASS", "HIGH_PRIORITY_CLASS",
        "ABOVE_NORMAL_PRIORITY_CLASS", "NORMAL_PRIORITY_CLASS", "BELOW_NORMAL_PRIORITY_CLASS",
        "IDLE_PRIORITY_CLASS"}
  BY DEF Priorities, ToSet
<1> HIDE DEF NoText
<1>2. NoText \notin {"REALTIME_PRIORITY_CLASS", "HIGH_PRIORITY_CLASS",
        "ABOVE_NORMAL_PRIORITY_CLASS", "NORMAL_PRIORITY_CLASS", "BELOW_NORMAL_PRIORITY_CLASS",
        "IDLE_PRIORITY_CLASS"}
  BY Zenon DEF NoText
<1> QED
  BY <1>1, <1>2

\* What a save may write: a value of the setting's kind, of which all comes back.
Writable(key, v) ==
  /\ ValueFor(key[1], v) /\ AsStored(key, v).data = v.data
  /\ key[1] = "AppPriority" => v.data # NoText
  /\ key[1] = "AppExit" => key[2] = "Default" /\ v.data \in Actions

\* What the dialog checks before it saves.
ActionChosen(p) == dialog[p].managed => Form(p)[<<"AppExit", "Default">>].data \in Actions

LEMMA CollectedEntry ==
  ASSUME NEW form, NEW shown, NEW managed, NEW visited, NEW key \in FormKeys,
         key[1] \in Collects, managed \/ ~InParameters(key[1])
  PROVE  Collected(form, shown, managed, visited)[key] = Value(key[1], Entered(key[1], shown))
BY CollectedAre

LEMMA FormWritable ==
  ASSUME NEW p, Sensible(dialog[p]), dialog[p].mode \in {"edit", "install"}, ActionChosen(p),
         NEW key \in FormKeys, ~Skipped(p, key)
  PROVE  Writable(key, Form(p)[key])
<1> DEFINE original == dialog[p].original
           managed == dialog[p].managed
           shown == Contents(p)
           visited == dialog[p].visited \cup {dialog[p].hook}
           name == key[1]
           v == Form(p)[key]
<1>1. v = Collected(original, shown, managed, visited)[key]
  BY DEF Form
<1>2. /\ name \notin {"Name", "ImagePath"}
      /\ managed \/ ~InParameters(name)
      /\ dialog[p].mode = "edit" => ~ValuesEqual(v, original[key])
  BY DEF Skipped
<1>3. CASE name \in Collects
  <2>0. v = Value(name, Entered(name, shown)) /\ v.data = Entered(name, shown)
    <3>1. Collected(original, shown, managed, visited)[key] = Value(key[1], Entered(key[1], shown))
      BY <1>2, <1>3, CollectedEntry
    <3>2. v = Value(name, Entered(name, shown))
      BY <1>1, <3>1, Zenon
    <3> QED
      BY <3>2 DEF Value
  <2>1. name \notin {"AppExit", "AppEvents", "Environment"}
    BY <1>3 DEF Collects, Direct, PlainTexts, Trimmed, PlainNumbers, Ticks
  <2>2. CASE name \in {"AppEnvironment", "AppEnvironmentExtra", "DependOnService"}
    <3>1. IsList(v.data) /\ EncodeThenDecode(v.data) = v.data
      BY <2>0, <2>2, ListsEntered
    <3>2. name \in Lists
      BY <2>2 DEF Lists
    <3>3. v = [kind |-> "multi", data |-> v.data]
      BY <2>0, <3>2, ListKinds DEF Value
    <3>4. AsStored(key, v).data \in {v.data, EncodeThenDecode(v.data)}
      BY <2>1, <3>3 DEF AsStored
    <3>5. ValueFor(name, v)
      BY <2>0, <3>1 DEF ValueFor
    <3> QED
      BY <2>1, <2>2, <3>1, <3>4, <3>5 DEF Writable
  <2>3. CASE name \notin {"AppEnvironment", "AppEnvironmentExtra", "DependOnService"}
    <3>1. ValueFor(name, v)
      BY <2>0, <2>1, <2>3 DEF ValueFor, Lists
    <3>2. AsStored(key, v).data = v.data
      <4>1. CASE name = "DependOnGroup"
        BY <2>1, <4>1 DEF AsStored
      <4>2. CASE name # "DependOnGroup"
        <5>1. name \notin Lists
          BY <2>1, <2>3, <4>2 DEF Lists
        <5> QED
          BY <3>1, <5>1, StoredSoundly
      <4> QED
        BY <4>1, <4>2
    <3>3. name = "AppPriority" => v.data # NoText
      <4>1. SUFFICES ASSUME name = "AppPriority" PROVE v.data # NoText
        OBVIOUS
      <4>2. v.data = shown["AppPriority"]
        BY <2>0, <4>1, SettingsEntered
      <4>3. v.data \in ToSet(Priorities)
        BY <4>2, TypedOrLoaded
      <4>4. NoText \notin ToSet(Priorities)
        BY PrioritiesAreTexts
      <4> QED
        BY <4>3, <4>4
    <3> QED
      BY <2>1, <3>1, <3>2, <3>3 DEF Writable
  <2> QED
    BY <2>2, <2>3
<1>4. CASE name = "AppExit"
  <2>1. managed /\ key = <<"AppExit", "Default">>
    BY <1>2, <1>4, KeysOfForms, KeyName DEF InParameters, InSCM, RequiresSub
  <2>2. v = Text(shown["AppExit"])
    <3> HIDE DEF original, managed, shown, visited
    <3>1. Collected(original, shown, managed, visited)[key]
            = Collect(key, original, shown, managed, visited)
      BY DEF Collected
    <3>2. key[1] \notin Collects
      BY <1>4 DEF Collects, Direct, PlainTexts, Trimmed, PlainNumbers, Ticks
    <3>3. Collect(key, original, shown, managed, visited) = Text(shown["AppExit"])
      BY <1>4, <2>1, <3>2 DEF Collect
    <3> QED
      BY <1>1, <3>1, <3>3
  <2>3. v = Value(name, v.data)
    BY <1>4, <2>2 DEF Text, Value, KindOf, Numbers, Lists, Expanded
  <2>4. name \notin Lists /\ name # "AppPriority"
    BY <1>4 DEF Lists
  <2>5. ValueFor(name, v)
    BY <2>3, <2>4 DEF ValueFor
  <2>6. AsStored(key, v).data = v.data
    BY <2>4, <2>5, StoredSoundly
  <2>7. v.data \in Actions /\ key[2] = "Default"
    BY <2>1 DEF ActionChosen
  <2> QED
    BY <2>4, <2>5, <2>6, <2>7 DEF Writable
<1>5. CASE name = "AppEvents"
  <2>1. managed
    BY <1>2, <1>5 DEF InParameters, InSCM
  <2>2. v \in {Text(shown[key[2]]), original[key]}
    <3>1. key[1] = "AppEvents" /\ managed =>
            Collected(original, shown, managed, visited)[key] \in {Text(shown[key[2]]), original[key]}
      BY CollectedAre, Zenon
    <3> QED
      BY <1>1, <1>5, <2>1, <3>1, Zenon
  <2>3. v = original[key] => v = [kind |-> "expand", data |-> NoText]
    <3>1. SUFFICES ASSUME v = original[key] PROVE v = [kind |-> "expand", data |-> NoText]
      OBVIOUS
    <3>2. dialog[p].mode = "install"
      BY <1>2, <3>1 DEF ValuesEqual
    <3>3. PICK n : original = NewForm(n)
      BY <3>2 DEF Sensible
    <3>4. NewForm(n)[key] = [kind |-> "expand", data |-> NoText]
      BY <1>5, NewlyDefault
    <3> QED
      BY <3>1, <3>3, <3>4
  <2>4. name \notin Lists /\ name \notin {"AppPriority", "AppExit"}
    BY <1>5 DEF Lists
  <2>5. \A data : Text(data) = Value("AppEvents", data)
    BY DEF Text, Value, KindOf, Numbers, Lists, Expanded
  <2>6. ValueFor(name, v)
    <3>1. CASE v = Text(shown[key[2]])
      BY <1>5, <2>4, <2>5, <3>1 DEF ValueFor
    <3>2. CASE v = original[key]
      BY <1>5, <2>3, <2>4, <3>2 DEF ValueFor
    <3> QED
      BY <2>2, <3>1, <3>2
  <2>7. AsStored(key, v).data = v.data
    BY <2>4, <2>6, StoredSoundly
  <2> QED
    BY <2>4, <2>6, <2>7 DEF Writable
<1>6. CASE name \notin Collects \cup RequiresSub
  <2>1. v = original[key] /\ name \in ToSet(All)
    BY <1>1, <1>6, CollectedAre, KeysOfForms, KeyName DEF RequiresSub
  <2>2. name \in DOMAIN Numbers \cup {"Environment"}
    BY <1>2, <1>6, <2>1, Uncollected
  <2>3. dialog[p].mode = "install"
    BY <1>2, <2>1 DEF ValuesEqual
  <2>4. PICK n : original = NewForm(n)
    BY <2>3 DEF Sensible
  <2>5. CASE name = "Environment"
    <3>1. name \in Lists
      BY <2>5 DEF Lists
    <3>2. v = Value(name, <<>>)
      BY <2>1, <2>4, <3>1, NewlyDefault
    <3>3. ValueFor(name, v)
      BY <3>2, EmptyIsList DEF ValueFor
    <3>4. v = [kind |-> "multi", data |-> <<>>]
      BY <3>1, <3>2, ListKinds DEF Value
    <3>5. AsStored(key, v).data = EncodeThenDecode(<<>>)
      BY <2>5, <3>4 DEF AsStored
    <3>6. AsStored(key, v).data = v.data
      BY <3>4, <3>5, EmptyIsList
    <3> QED
      BY <2>5, <3>3, <3>6 DEF Writable
  <2>6. CASE name \in DOMAIN Numbers
    <3>1. v = Value(name, Numbers[name])
      BY <2>1, <2>4, <2>6, NewlyDefault
    <3>2. name \notin Lists /\ name \notin {"AppPriority", "AppExit"}
      BY <2>6 DEF Lists, Numbers
    <3>3. ValueFor(name, v)
      BY <3>1, <3>2 DEF ValueFor
    <3>4. AsStored(key, v).data = v.data
      BY <3>2, <3>3, StoredSoundly
    <3> QED
      BY <3>2, <3>3, <3>4 DEF Writable
  <2> QED
    BY <2>2, <2>5, <2>6
<1> QED
  BY <1>3, <1>4, <1>5, <1>6 DEF RequiresSub

\* What a save asks for comes back.
LEMMA SaveComesBack ==
  ASSUME NEW key, NEW v, Writable(key, v), NEW password,
         InRegistry(key) \/ key = Key(key[1])
  PROVE  LET request == WriteValue(key, v, password) IN
         /\ request.key = key /\ Sound(request)
         /\ Single(key) /\ \A scm : Comeback(scm, request) = v.data
<1> DEFINE request == WriteValue(key, v, password)
           name == key[1]
<1>0. request.key = key /\ Single(key)
  BY KeyWritten DEF Single, Writable
<1>1. ValueFor(name, v) /\ Found(v) /\ AsStored(key, v).data = v.data
  BY StoredSoundly DEF Writable
<1>2. CASE request = Write(key, v, password)
  BY <1>0, <1>1, <1>2 DEF Write, Sound, Comeback
<1>3. CASE request # Write(key, v, password)
  <2>1. /\ request = Delete(key)
        /\ IF name \in DOMAIN Numbers THEN PlanWriteNumber(name, v.data) = "reset"
           ELSE IF name \in Lists THEN v.data = <<>>
           ELSE v.data = NoText \/ PlanWriteString(name, v.data) = "reset"
        /\ \/ InParameters(name)
           \/ name \in {"Environment", "Description", "DependOnService", "DependOnGroup"}
    BY <1>3 DEF WriteValue
  <2>2. ~Found(request.value)
    BY <2>1 DEF Delete, Write, Found, Absent
  <2>3. ASSUME NEW scm PROVE DefaultValue(scm, name).data = v.data
    <3>1. CASE name \in DOMAIN Numbers
      BY <2>1, <3>1, DefaultsNamed DEF PlanWriteNumber
    <3>2. CASE name \in Lists
      <4>1. name \notin DOMAIN Numbers
        BY <3>2 DEF Lists, Numbers
      <4> QED
        BY <2>1, <3>2, <4>1, DefaultsNamed
    <3>3. CASE name \notin DOMAIN Numbers \cup Lists
      <4>1. CASE PlanWriteString(name, v.data) = "reset"
        BY <4>1, DefaultsNamed DEF PlanWriteString
      <4>2. CASE v.data = NoText
        <5>1. name \notin {"AppExit", "AppPriority"}
          BY <4>2, TextsDiffer DEF Writable
        <5>2. name \notin {"ObjectName", "Name", "DisplayName", "ImagePath", "Start", "Type"}
          BY <2>1 DEF InParameters, InSCM
        <5>3. name \in DOMAIN DefaultTexts => DefaultTexts[name] = NoText
          BY <5>1, <5>2 DEF DefaultTexts
        <5> QED
          BY <3>3, <4>2, <5>2, <5>3, DefaultsNamed
      <4> QED
        BY <2>1, <3>3, <4>1, <4>2
    <3> QED
      BY <3>1, <3>2, <3>3
  <2> QED
    BY <1>0, <2>2, <2>3 DEF Sound, Comeback
<1> QED
  BY <1>2, <1>3

-----------------------------------------------------------------------------
(* What a run knows of the store while it edits or saves: a key that no    *)
(* other run has changed under it reads as it was loaded or, once it has   *)
(* been written, as the form has it.                                       *)

Effect(key) == Effective(store.registry, store.scm, key).data

Held(p, key) == \E i \in DOMAIN todo[p] : todo[p][i].key = key

\* The keys that a dialog loads, but for those that it never saves.
Answered(p) ==
  {key \in FormKeys : /\ key[1] \notin {"Name", "ImagePath"}
                      /\ dialog[p].managed \/ ~InParameters(key[1])}

ListKeys == {Key(name) : name \in Dependencies}

StoreTyped ==
  /\ DOMAIN store = StoreParts /\ DOMAIN store.scm = ScmFields
  /\ IsList(store.scm.DependOnService)
  /\ \A key : Stored(store.registry, key).kind = "multi" =>
                IsList(Stored(store.registry, key).data)

WordsOf(p) ==
  /\ run[p].argv \in Seq(STRING)
  /\ \A gesture \in run[p].user : FitsControl(gesture[1], gesture[2])

\* A request of a command, or one of a dialog that stands for a key of its form.
Good(p, request) ==
  /\ Sound(request)
  /\ dialog[p].mode # "none" =>
       /\ request.key \in dialog[p].attempted
       /\ ~Skipped(p, request.key) /\ request = RequestFor(p, request.key)

AskedOf(p) ==
  /\ run[p].pc = "rollback" => dialog[p].mode = "install"
  /\ run[p].pc \in Asking =>
       /\ dialog[p].mode \in {"none", "edit", "install"}
       /\ dialog[p].mode = "none" => Len(todo[p]) = 1
       /\ dialog[p].mode # "none" => ActionChosen(p)
       /\ todo[p] # <<>> /\ \E S : todo[p] \in Seq(S) /\ \A request \in S : Good(p, request)

\* An edit: what it has not tried to change is as it was loaded.
LoadedOf(p) ==
  dialog[p].mode = "edit" /\ run[p].pc \in {"dialog", "calls", "change", "delay"} =>
    /\ \A key \in Answered(p) \ (disturbed[p] \cup dialog[p].attempted) :
         CompatibleKind(key[1], dialog[p].original[key]) =>
           Effect(key) = dialog[p].original[key].data
    /\ run[p].pc = "dialog" => dialog[p].attempted \subseteq disturbed[p]

\* A save: what it has not still to write is as the form has it.
SavingOf(p) ==
  dialog[p].mode # "none" /\ run[p].pc \in {"calls", "change", "delay"} =>
    \A key \in SavedKeys(p) \ disturbed[p] : Held(p, key) \/ Effect(key) = Form(p)[key].data

\* An installation before its first call: the call writes what is not held.
CreateOf(p) ==
  run[p].pc = "create" =>
    /\ dialog[p].mode = "install"
    /\ \A key \in SavedKeys(p) :
         Held(p, key) \/ key[1] \in {"Application", "AppDirectory", "AppParameters"}

\* The configuration that a change has read has both lists as they are.
CfgOf(p) ==
  run[p].pc = "change" =>
    /\ ListKeys \subseteq disturbed[p] \/ \A name \in Dependencies : cfg[p][name] = store.scm[name]
    /\ IsList(cfg[p].DependOnService)
    /\ Found(Wanted(Head(todo[p]))) /\ ~InRegistry(Head(todo[p]).key)

\* Between the two calls of a change of the start type.
DelayOf(p) ==
  run[p].pc = "delay" =>
    /\ Head(todo[p]).key = Key("Start") /\ Found(Head(todo[p]).value)
    /\ Key("Start") \in disturbed[p] \/ store.scm.start \in ParseStart(Head(todo[p]).value.data)

SaveOf(p) ==
  /\ WordsOf(p) /\ Sensible(dialog[p]) /\ AskedOf(p) /\ LoadedOf(p)
  /\ SavingOf(p) /\ CreateOf(p) /\ CfgOf(p) /\ DelayOf(p)

SaveInv ==
  /\ EditInv /\ StoreTyped /\ DOMAIN cfg = Runs /\ DOMAIN disturbed = Runs
  /\ \A p \in Runs : SaveOf(p)

\* The form stays as it is while its dialog only notes what it attempts.
SameForm(p) ==
  /\ dialog'[p].original = dialog[p].original /\ dialog'[p].typed = dialog[p].typed
  /\ dialog'[p].name = dialog[p].name /\ dialog'[p].managed = dialog[p].managed
  /\ dialog'[p].visited = dialog[p].visited /\ dialog'[p].hook = dialog[p].hook
  /\ dialog'[p].mode = dialog[p].mode

LEMMA FormKept ==
  ASSUME NEW p, SameForm(p)
  PROVE  /\ Form(p)' = Form(p) /\ SavedKeys(p)' = SavedKeys(p) /\ Answered(p)' = Answered(p)
         /\ ActionChosen(p)' <=> ActionChosen(p)
         /\ \A key : /\ Skipped(p, key)' <=> Skipped(p, key)
                     /\ RequestFor(p, key)' = RequestFor(p, key)
<1>1. Contents(p)' = Contents(p)
  BY DEF SameForm, Contents
<1>2. Form(p)' = Form(p)
  BY <1>1 DEF SameForm, Form
<1>3. SavedKeys(p)' = SavedKeys(p)
  BY <1>2 DEF SameForm, SavedKeys
<1>4. Answered(p)' = Answered(p)
  BY DEF SameForm, Answered
<1>5. ActionChosen(p)' <=> ActionChosen(p)
  BY <1>2 DEF SameForm, ActionChosen
<1>6. ASSUME NEW key PROVE (Skipped(p, key)' <=> Skipped(p, key)) /\ RequestFor(p, key)' = RequestFor(p, key)
  BY <1>1, <1>2 DEF SameForm, Skipped, RequestFor
<1> QED
  BY <1>2, <1>3, <1>4, <1>5, <1>6

LEMMA SameDialog == ASSUME NEW p, dialog'[p] = dialog[p] PROVE SameForm(p)
BY DEF SameForm

LEMMA GoodKept ==
  ASSUME NEW p, SameForm(p), dialog'[p].attempted = dialog[p].attempted,
         NEW request, Good(p, request)
  PROVE  Good(p, request)'
<1>1. /\ Skipped(p, request.key)' <=> Skipped(p, request.key)
      /\ RequestFor(p, request.key)' = RequestFor(p, request.key)
  BY FormKept
<1> QED
  BY <1>1 DEF Good, SameForm

\* A run that another one is not to disturb.
Unclosed(q) == run[q].pc \notin {"launch", "window", "ended"}

\* What changes under a run is among what it is told of.
Undisturbed(q) ==
  /\ disturbed[q] \subseteq disturbed'[q]
  /\ \A key \in FormKeys \ disturbed'[q] : Effect(key)' = Effect(key)
  /\ Key("Start") \in disturbed'[q] \/ store'.scm.start = store.scm.start
  /\ ListKeys \subseteq disturbed'[q] \/ \A name \in Dependencies : store'.scm[name] = store.scm[name]

LEMMA OthersSave ==
  ASSUME NEW q, SaveOf(q), run'[q] = run[q], dialog'[q] = dialog[q], todo'[q] = todo[q],
         cfg'[q] = cfg[q], Unclosed(q) => Undisturbed(q)
  PROVE  SaveOf(q)'
<1>1. SameForm(q) /\ Form(q)' = Form(q) /\ SavedKeys(q)' = SavedKeys(q) /\ Answered(q)' = Answered(q)
      /\ (ActionChosen(q)' <=> ActionChosen(q))
  BY SameDialog, FormKept
<1>2. WordsOf(q)' /\ Sensible(dialog[q])'
  BY DEF SaveOf, WordsOf, Sensible
<1>3. AskedOf(q)'
  <2>1. CASE run[q].pc \in Asking
    <3>1. PICK S : todo[q] \in Seq(S) /\ \A request \in S : Good(q, request)
      BY <2>1 DEF SaveOf, AskedOf
    <3>2. \A request \in S : Good(q, request)'
      BY <1>1, <3>1, GoodKept
    <3> QED
      BY <1>1, <2>1, <3>1, <3>2 DEF SaveOf, AskedOf
  <2>2. CASE run[q].pc \notin Asking
    BY <2>2 DEF SaveOf, AskedOf
  <2> QED
    BY <2>1, <2>2
<1>4. LoadedOf(q)'
  BY <1>1 DEF SaveOf, LoadedOf, Unclosed, Undisturbed, Answered
<1>5. SavingOf(q)'
  BY <1>1 DEF SaveOf, SavingOf, Unclosed, Undisturbed, SavedKeys, Held
<1>6. CreateOf(q)'
  BY <1>1 DEF SaveOf, CreateOf, Held
<1>7. CfgOf(q)'
  BY DEF SaveOf, CfgOf, Unclosed, Undisturbed, Wanted
<1>8. DelayOf(q)'
  BY DEF SaveOf, DelayOf, Unclosed, Undisturbed
<1> QED
  BY <1>2, <1>3, <1>4, <1>5, <1>6, <1>7, <1>8 DEF SaveOf

-----------------------------------------------------------------------------
(* What a change of the store moves, and whom it tells.                    *)

Moves(K) ==
  /\ \A key \in FormKeys \ K : Effect(key)' = Effect(key)
  /\ Key("Start") \in K \/ store'.scm.start = store.scm.start
  /\ ListKeys \subseteq K \/ \A name \in Dependencies : store'.scm[name] = store.scm[name]

Tells(p, K) ==
  /\ DOMAIN disturbed' = Runs
  /\ \A q \in Runs : q # p /\ Unclosed(q) => disturbed[q] \cup K \subseteq disturbed'[q]

LEMMA DisturbTells ==
  ASSUME NEW p \in Runs, NEW K, disturbed' = Disturb(p, K)
  PROVE  Tells(p, K) /\ disturbed'[p] = disturbed[p]
BY DEF Disturb, Tells, Unclosed

LEMMA ToldUndisturbed ==
  ASSUME NEW p \in Runs, NEW q \in Runs, q # p, Unclosed(q), NEW K, Moves(K), Tells(p, K)
  PROVE  Undisturbed(q)
BY DEF Moves, Tells, Undisturbed

LEMMA NothingMoves == ASSUME UNCHANGED store PROVE Moves({}) /\ (StoreTyped => StoreTyped')
BY DEF Moves, Effect, StoreTyped

LEMMA SettingInForm == ASSUME NEW name \in ScmNames PROVE Key(name) \in FormKeys
<1>1. name \in ToSet(All) \ RequiresSub
  BY DEF ScmNames, InSCM, All, ToSet, RequiresSub
<1> QED
  BY <1>1 DEF FormKeys

LEMMA AllMoves == Moves(FormKeys)
<1>1. Key("Start") \in FormKeys /\ ListKeys \subseteq FormKeys
  BY SettingInForm DEF ScmNames, InSCM, ListKeys, Dependencies
<1> QED
  BY <1>1 DEF Moves

LEMMA RegistryMoves ==
  ASSUME StoreTyped, NEW request, Sound(request), InRegistry(request.key),
         store' = [store EXCEPT !.registry = WithValue(@, request.key, request.value)]
  PROVE  Moves({request.key}) /\ StoreTyped'
<1>1. /\ DOMAIN store' = StoreParts /\ store'.scm = store.scm
      /\ store'.registry = WithValue(store.registry, request.key, request.value)
  BY DEF StoreTyped, StoreParts
<1>2. \A key \in FormKeys \ {request.key} : Effect(key)' = Effect(key)
  BY <1>1, OtherKeysRead DEF Effect
<1>3. ASSUME NEW key, Stored(store'.registry, key).kind = "multi"
      PROVE  IsList(Stored(store'.registry, key).data)
  <2>1. Stored(store'.registry, key)
          = IF key # request.key THEN Stored(store.registry, key)
            ELSE IF Found(request.value) THEN AsStored(request.key, request.value) ELSE Absent
    BY <1>1, StoredAfter
  <2>2. CASE key # request.key
    BY <1>3, <2>1, <2>2 DEF StoreTyped
  <2>3. CASE key = request.key /\ Found(request.value)
    <3>1. key[1] # "DependOnGroup" /\ ValueFor(key[1], request.value)
      BY <2>3 DEF Sound, InRegistry, InParameters, InSCM
    <3> QED
      BY <1>3, <2>1, <2>3, <3>1, StoredSoundly
  <2>4. CASE key = request.key /\ ~Found(request.value)
    BY <1>3, <2>1, <2>4 DEF Absent
  <2> QED
    BY <2>2, <2>3, <2>4
<1> QED
  BY <1>1, <1>2, <1>3 DEF Moves, StoreTyped

LEMMA ListWritten ==
  ASSUME NEW request, Sound(request), ~InRegistry(request.key),
         request.key[1] = "DependOnService", Found(Wanted(request))
  PROVE  IsList(AsStored(Key("DependOnService"), Value("DependOnService", Wanted(request).data)).data)
<1> DEFINE name == "DependOnService"
           data == Wanted(request).data
<1>1. IsList(data)
  <2>1. CASE Found(request.value)
    <3>1. PICK d : request.value = Value(name, d) /\ IsList(d)
      BY <2>1 DEF Sound, ValueFor, Lists
    <3> QED
      BY <2>1, <3>1 DEF Wanted, Value
  <2>2. CASE ~Found(request.value)
    <3>1. Wanted(request) = Value(name, <<>>)
      BY <2>2 DEF Wanted, ResetOf, Dependencies
    <3> QED
      BY <3>1, EmptyIsList DEF Value
  <2> QED
    BY <2>1, <2>2
<1>2. ValueFor(name, Value(name, data)) /\ Key(name)[1] = name
  BY <1>1, KeyName DEF ValueFor
<1>3. CompatibleKind(name, AsStored(Key(name), Value(name, data)))
  BY <1>2, StoredSoundly
<1>4. AsStored(Key(name), Value(name, data)).kind = "multi"
  BY <1>3, ListKinds DEF CompatibleKind, Lists
<1> QED
  BY <1>2, <1>4, StoredSoundly

LEMMA MergedList ==
  ASSUME NEW scm, DOMAIN scm = ScmFields, NEW cfg0, NEW names
  PROVE  MergedDependencies(scm, cfg0, "DependOnService", names).DependOnService = names
BY DEF MergedDependencies, ScmFields, Dependencies

LEMMA ConfigurationMoves ==
  ASSUME StoreTyped, NEW request, Sound(request), ~InRegistry(request.key), Found(Wanted(request)),
         NEW cfg0, IsList(cfg0.DependOnService),
         store' = [store EXCEPT !.scm = Changed(@, cfg0, request.key[1], Wanted(request).data)]
  PROVE  Moves(Touched(request.key)) /\ StoreTyped'
<1> DEFINE name == request.key[1]
           data == Wanted(request).data
           K == Touched(request.key)
<1>0. request.key = Key(name) /\ name \in ScmNames /\ DOMAIN store.scm = ScmFields
  BY NotInRegistry DEF Sound, StoreTyped
<1>1. /\ DOMAIN store' = StoreParts /\ store'.registry = store.registry
      /\ store'.scm = Changed(store.scm, cfg0, name, data)
  BY DEF StoreTyped, StoreParts
<1>2. /\ DOMAIN store'.scm = ScmFields
      /\ name # "Start" => store'.scm.start = store.scm.start
      /\ name \notin Dependencies => \A list \in Dependencies : store'.scm[list] = store.scm[list]
      /\ name \in Dependencies => \A list \in Dependencies \ {name} : store'.scm[list] = cfg0[list]
  BY <1>0, <1>1, ChangedFields
<1>3. /\ name \in Dependencies => K = ListKeys
      /\ name \notin Dependencies => K = {Key(name)}
  BY <1>0 DEF Touched, ListKeys
<1>4. ASSUME NEW key \in FormKeys \ K PROVE Effect(key)' = Effect(key)
  <2>1. key # Key(name)
    BY <1>0, <1>3 DEF ListKeys
  <2>2. ~(name \in Dependencies /\ key[1] \in Dependencies)
    <3>1. SUFFICES ASSUME name \in Dependencies, key[1] \in Dependencies PROVE FALSE
      OBVIOUS
    <3>2. key[1] \notin RequiresSub
      BY <3>1 DEF Dependencies, RequiresSub
    <3>3. key = Key(key[1])
      BY <3>2, KeysOfForms, KeyName DEF RequiresSub
    <3> QED
      BY <1>3, <3>1, <3>3 DEF ListKeys
  <2> QED
    BY <1>0, <1>1, <2>1, <2>2, OtherSettingsRead DEF Effect
<1>5. Key("Start") \in K \/ store'.scm.start = store.scm.start
  BY <1>2, <1>3 DEF Dependencies
<1>6. IsList(store'.scm.DependOnService)
  <2>1. CASE name \notin Dependencies
    BY <1>2, <2>1 DEF StoreTyped, Dependencies
  <2>2. CASE name = "DependOnGroup"
    BY <1>2, <2>2 DEF Dependencies
  <2>3. CASE name = "DependOnService"
    <3> DEFINE names == AsStored(Key(name), Value(name, data)).data
    <3>1. Changed(store.scm, cfg0, name, data) = MergedDependencies(store.scm, cfg0, name, names)
      BY <2>3 DEF Changed, Dependencies
    <3>2. IsList(names)
      BY <2>3, ListWritten
    <3> HIDE DEF names, data
    <3>3. store'.scm = MergedDependencies(store.scm, cfg0, name, names)
      BY <1>1, <3>1
    <3>4. store'.scm.DependOnService = names
      BY <1>0, <2>3, <3>3, MergedList
    <3> QED
      BY <3>2, <3>4
  <2> QED
    BY <2>1, <2>2, <2>3 DEF Dependencies
<1>7. Moves(K)
  BY <1>2, <1>3, <1>4, <1>5 DEF Moves
<1> QED
  BY <1>1, <1>2, <1>6, <1>7 DEF StoreTyped

LEMMA DelayMoves ==
  ASSUME StoreTyped, NEW data, store' = [store EXCEPT !.scm = WithDelay(@, "Start", data)]
  PROVE  Moves({Key("Start")}) /\ StoreTyped'
<1>1. /\ DOMAIN store' = StoreParts /\ store'.registry = store.registry
      /\ store'.scm = WithDelay(store.scm, "Start", data)
  BY DEF StoreTyped, StoreParts
<1>2. /\ DOMAIN store'.scm = ScmFields /\ store'.scm.start = store.scm.start
      /\ \A list \in Dependencies : store'.scm[list] = store.scm[list]
  BY <1>1 DEF StoreTyped, WithDelay, ScmFields, Dependencies
<1>3. \A key \in FormKeys \ {Key("Start")} : Effect(key)' = Effect(key)
  BY <1>1, OthersReadAfterDelay DEF Effect, StoreTyped
<1> QED
  BY <1>1, <1>2, <1>3 DEF Moves, StoreTyped, Dependencies

LEMMA UninstallMoves ==
  ASSUME StoreTyped, NEW p \in Runs, Uninstall(p)
  PROVE  StoreTyped'
<1>1. DOMAIN store' = StoreParts /\ store'.scm = store.scm /\ store'.registry = <<>>
  BY DEF StoreTyped, StoreParts, Uninstall, Removed
<1>2. \A key : Stored(<<>>, key) = Absent
  BY DEF Stored
<1> QED
  BY <1>1, <1>2 DEF StoreTyped, Absent

LEMMA InstallMoves ==
  ASSUME StoreTyped, NEW p \in Runs, NEW a, NEW b, NEW c, NEW d, Install(p, InstalledStore(a, b, c, d))
  PROVE  /\ StoreTyped'
         /\ store'.registry = Over(InstalledStore(a, b, c, d).registry, store.registry)
<1> DEFINE new == InstalledStore(a, b, c, d)
           names == {"Application", "AppDirectory", "AppParameters", "AppExit"}
<1>1. DOMAIN new = StoreParts
  BY DEF InstalledStore, StoreParts
<1>2. DOMAIN new.scm = ScmFields /\ new.scm.DependOnService = <<>>
  BY DEF InstalledStore, ScmFields, Dependencies
<1>3. \A key \in DOMAIN new.registry : new.registry[key].kind # "multi"
  <2> DEFINE data == [Application |-> b, AppDirectory |-> c, AppParameters |-> d, AppExit |-> "Restart"]
  <2>1. new.registry = [key \in {Location(name, NoText) : name \in DOMAIN data} |->
                          Value(key[1], data[key[1]])]
    BY DEF InstalledStore
  <2>2. \A name \in names : Location(name, NoText)[1] = name
    BY DEF Location
  <2>3. DOMAIN data = names
    OBVIOUS
  <2>4. \A name \in names : KindOf(name) # "multi"
    BY ListKinds DEF Lists
  <2> HIDE DEF data, new
  <2>5. ASSUME NEW key \in DOMAIN new.registry PROVE new.registry[key].kind # "multi"
    <3>1. PICK name \in names : key = Location(name, NoText)
      BY <2>1, <2>3
    <3>2. new.registry[key] = Value(key[1], data[key[1]]) /\ key[1] = name
      BY <2>1, <2>2, <3>1
    <3> QED
      BY <2>4, <3>1, <3>2 DEF Value
  <2> QED
    BY <2>5
<1>4. store' = [new EXCEPT !.registry = Over(@, store.registry)]
  BY DEF Install
<1> HIDE DEF new
<1>5. DOMAIN store' = StoreParts /\ store'.scm = new.scm /\ store'.registry = Over(new.registry, store.registry)
  BY <1>1, <1>4 DEF StoreParts
<1>6. ASSUME NEW key, Stored(store'.registry, key).kind = "multi"
      PROVE  IsList(Stored(store'.registry, key).data)
  BY <1>3, <1>5, <1>6, StoredOver DEF StoreTyped
<1> QED
  BY <1>2, <1>5, <1>6, EmptyIsList DEF StoreTyped, new

-----------------------------------------------------------------------------
(* One change of a save or a command, once it has gone well.               *)

\* What the first of a run's requests has left.
Wrote(p) ==
  LET request == Head(todo[p]) IN
  /\ \A key \in FormKeys \ disturbed[p] : key # request.key => Effect(key)' = Effect(key)
  /\ \/ request.key \in disturbed[p]
     \/ ~Single(request.key) /\ ~Found(request.value)
     \/ ReadsBack(request.key, Comeback(store.scm, request))

LEMMA HeadGood ==
  ASSUME NEW p, AskedOf(p), run[p].pc \in Asking
  PROVE  Good(p, Head(todo[p])) /\ Sound(Head(todo[p]))
<1>1. PICK S : todo[p] \in Seq(S) /\ \A request \in S : Good(p, request)
  BY DEF AskedOf
<1>2. todo[p] # <<>>
  BY DEF AskedOf
<1>3. Head(todo[p]) \in S
  BY <1>1, <1>2, HeadTailProperties
<1> QED
  BY <1>1, <1>3 DEF Good

LEMMA RegistryWrote ==
  ASSUME StoreTyped, NEW p, NEW request, request = Head(todo[p]), Sound(request), InRegistry(request.key),
         store' = [store EXCEPT !.registry = WithValue(@, request.key, request.value)]
  PROVE  Wrote(p)
<1>1. /\ store'.scm = store.scm
      /\ store'.registry = WithValue(store.registry, request.key, request.value)
  BY DEF StoreTyped, StoreParts
<1>2. \A key \in FormKeys : key # request.key => Effect(key)' = Effect(key)
  BY RegistryMoves DEF Moves
<1>3. Single(request.key) \/ Found(request.value) => ReadsBack(request.key, Comeback(store.scm, request))
  BY <1>1, RegistryReadsBack DEF ReadsBack
<1> QED
  BY <1>2, <1>3 DEF Wrote

LEMMA ConfigurationWrote ==
  ASSUME StoreTyped, NEW p, run[p].pc = "change", CfgOf(p),
         NEW request, request = Head(todo[p]), Sound(request), request.key[1] # "Start",
         ~Refused(cfg[p], request.key[1], Wanted(request).data, request.password),
         store' = [store EXCEPT !.scm = Changed(@, cfg[p], request.key[1], Wanted(request).data)]
  PROVE  Wrote(p)
<1> DEFINE name == request.key[1]
           data == Wanted(request).data
<1>1. /\ store'.registry = store.registry /\ DOMAIN store.scm = ScmFields
      /\ store'.scm = Changed(store.scm, cfg[p], name, data)
  BY DEF StoreTyped, StoreParts
<1>2. /\ ListKeys \subseteq disturbed[p] \/ \A list \in Dependencies : cfg[p][list] = store.scm[list]
      /\ Found(Wanted(request)) /\ ~InRegistry(request.key)
  BY DEF CfgOf
<1>3. request.key = Key(name) /\ name \in ScmNames
  BY <1>2, NotInRegistry DEF Sound
<1>4. ASSUME NEW key \in FormKeys \ disturbed[p], key # request.key PROVE Effect(key)' = Effect(key)
  <2>1. name \in Dependencies /\ key[1] \in Dependencies => cfg[p][key[1]] = store.scm[key[1]]
    <3>1. SUFFICES ASSUME key[1] \in Dependencies PROVE cfg[p][key[1]] = store.scm[key[1]]
      OBVIOUS
    <3>2. key[1] \notin RequiresSub
      BY <3>1 DEF Dependencies, RequiresSub
    <3>3. key = Key(key[1])
      BY <3>2, KeysOfForms, KeyName DEF RequiresSub
    <3>4. key \in ListKeys
      BY <3>1, <3>3 DEF ListKeys
    <3> QED
      BY <1>2, <1>4, <3>1, <3>4
  <2>2. key # Key(name)
    BY <1>3, <1>4
  <2>3. Effective(store.registry, Changed(store.scm, cfg[p], name, data), key).data
          = Effective(store.registry, store.scm, key).data
    BY <1>1, <1>3, <2>1, <2>2, OtherSettingsRead
  <2> QED
    BY <1>1, <2>3 DEF Effect
<1>5. ReadsBack(request.key, Comeback(store.scm, request))
  <2>1. PICK c, scm : c = cfg[p] /\ scm = store.scm
    OBVIOUS
  <2>2. DOMAIN scm = ScmFields /\ ~Refused(c, name, data, request.password)
    BY <1>1, <2>1
  <2>3. Effective(store.registry, Changed(scm, c, name, data), request.key).data = Comeback(scm, request)
    BY <1>2, <2>2, ConfigurationReadsBack
  <2>4. store'.registry = store.registry /\ store'.scm = Changed(scm, c, name, data)
    BY <1>1, <2>1
  <2> HIDE DEF name, data
  <2> QED
    BY <2>1, <2>3, <2>4, Zenon DEF ReadsBack
<1> QED
  BY <1>4, <1>5 DEF Wrote

LEMMA DelayWrote ==
  ASSUME StoreTyped, NEW p, run[p].pc = "delay", DelayOf(p),
         NEW request, request = Head(todo[p]), Sound(request),
         store' = [store EXCEPT !.scm = WithDelay(@, "Start", request.value.data)]
  PROVE  Wrote(p)
<1>1. /\ store'.registry = store.registry /\ DOMAIN store.scm = ScmFields
      /\ store'.scm = WithDelay(store.scm, "Start", request.value.data)
  BY DEF StoreTyped, StoreParts
<1>2. /\ request.key = Key("Start") /\ Found(request.value)
      /\ Key("Start") \in disturbed[p] \/ store.scm.start \in ParseStart(request.value.data)
  BY DEF DelayOf
<1>3. \A key \in FormKeys : key # request.key => Effect(key)' = Effect(key)
  BY <1>2, DelayMoves DEF Moves
<1>4. CASE request.key \in disturbed[p]
  BY <1>3, <1>4 DEF Wrote
<1>5. CASE request.key \notin disturbed[p]
  <2>1. Effective(store.registry, WithDelay(store.scm, "Start", request.value.data), Key("Start")).data
          = request.value.data
    BY <1>1, <1>2, <1>5, DelayReadsBack
  <2>2. ValueFor(request.key[1], request.value) /\ request.key[1] \notin Lists
    BY <1>2, KeyName DEF Sound, Lists
  <2>3. Comeback(store.scm, request) = request.value.data
    BY <1>2, <2>2, StoredSoundly DEF Comeback
  <2> QED
    BY <1>1, <1>2, <1>3, <2>1, <2>3 DEF Wrote, ReadsBack
<1> QED
  BY <1>4, <1>5

\* A request of a dialog brings back what the form has.
LEMMA GoodComesBack ==
  ASSUME NEW p, Sensible(dialog[p]), dialog[p].mode \in {"edit", "install"}, ActionChosen(p),
         NEW request, Good(p, request)
  PROVE  /\ request.key \in FormKeys /\ Single(request.key) /\ request.key \in dialog[p].attempted
         /\ \A scm : Comeback(scm, request) = Form(p)[request.key].data
<1> DEFINE key == request.key
           password == key[1] = "ObjectName" /\ Contents(p)["Password"] # NoText
<1>1. request.key \in dialog[p].attempted /\ ~Skipped(p, key) /\ request = RequestFor(p, key)
  BY DEF Good
<1>2. key \in FormKeys
  BY <1>1 DEF Skipped
<1>3. Writable(key, Form(p)[key])
  BY <1>1, <1>2, FormWritable
<1>4. InRegistry(key) \/ key = Key(key[1])
  BY <1>2, KeyOfScm
<1>5. request = WriteValue(key, Form(p)[key], password)
  BY <1>1 DEF RequestFor
<1> HIDE DEF key, password
<1>6. LET r == WriteValue(key, Form(p)[key], password) IN
      Single(key) /\ \A scm : Comeback(scm, r) = Form(p)[key].data
  BY <1>3, <1>4, SaveComesBack
<1> QED
  BY <1>1, <1>2, <1>5, <1>6 DEF key

\* What holds of the saved keys once one more of them is written.
LEMMA WroteSaved ==
  ASSUME NEW p, SaveOf(p), run[p].pc \in {"calls", "change", "delay"}, dialog[p].mode # "none",
         Wrote(p), NEW key \in SavedKeys(p) \ disturbed[p]
  PROVE  \/ ReadsBack(key, Form(p)[key].data)
         \/ \E i \in DOMAIN todo[p] \ {1} : todo[p][i].key = key
<1>1. /\ Sensible(dialog[p]) /\ AskedOf(p) /\ SavingOf(p) /\ run[p].pc \in Asking
      /\ dialog[p].mode \in {"edit", "install"} /\ ActionChosen(p)
  BY DEF SaveOf, AskedOf, Asking
<1>2. Good(p, Head(todo[p])) /\ Head(todo[p]) = todo[p][1]
  BY <1>1, HeadGood
<1>3. key \in FormKeys
  BY DEF SavedKeys
<1>4. CASE key = Head(todo[p]).key
  BY <1>1, <1>2, <1>4, GoodComesBack DEF Wrote
<1>5. CASE key # Head(todo[p]).key
  <2>1. Effect(key)' = Effect(key)
    BY <1>3, <1>5 DEF Wrote
  <2>2. Held(p, key) \/ Effect(key) = Form(p)[key].data
    BY <1>1 DEF SavingOf
  <2>3. CASE Effect(key) = Form(p)[key].data
    BY <2>1, <2>3 DEF Effect, ReadsBack
  <2>4. CASE Held(p, key)
    BY <1>2, <1>5, <2>4 DEF Held
  <2> QED
    BY <2>2, <2>3, <2>4
<1> QED
  BY <1>4, <1>5

\* The words of a run and what its user may enter stay as they are.
LEMMA RunWords ==
  ASSUME RunShape, NEW p \in Runs, RunStep(p)
  PROVE  /\ RunShape'
         /\ \A q \in Runs : q # p => run'[q] = run[q]
         /\ run'[p].argv = run[p].argv /\ run'[p].user = run[p].user
<1>1. CASE UNCHANGED run
  BY <1>1 DEF RunShape
<1>2. ASSUME NEW c, GoTo(p, c) PROVE run'[p].user = run[p].user
  BY <1>2 DEF GoTo, RunShape, RunFields
<1>3. ASSUME NEW c, End(p, c) PROVE run'[p].user = run[p].user
  BY <1>3 DEF End, RunShape, RunFields
<1>4. Elevate(p) => run'[p].user = run[p].user
  BY <1>3 DEF Elevate, RunShape, RunFields
<1>5. \A c : Return(p, c) => (Elevate(p) \/ End(p, c))
  BY DEF Return
<1> QED
  BY <1>1, <1>2, <1>3, <1>4, <1>5, GoToRun, EndRun, ElevateRun DEF RunStep

LEMMA WordsKept ==
  ASSUME RunShape, NEW p \in Runs, RunStep(p), WordsOf(p)
  PROVE  WordsOf(p)'
BY RunWords DEF WordsOf

LEMMA NoDialogSensible == Sensible(NoDialog)
BY DEF Sensible, NoDialog, Dialog

\* A run that asks for nothing, and edits nothing.
LEMMA SettledSave ==
  ASSUME NEW p, WordsOf(p)', Sensible(dialog[p])', run'[p].pc \notin Asking \cup {"rollback"},
         run'[p].pc = "dialog" => dialog'[p].mode # "edit"
  PROVE  SaveOf(p)'
BY DEF SaveOf, AskedOf, LoadedOf, SavingOf, CreateOf, CfgOf, DelayOf, Asking

LEMMA CloseSave ==
  ASSUME SaveInv, NEW p \in Runs, NEW st, Close(p, st)
  PROVE  SaveOf(p)'
<1>1. RunShape /\ DOMAIN dialog = Runs /\ WordsOf(p)
  BY DEF SaveInv, SaveOf, EditInv, InstallInv, DialogShape
<1>2. RunStep(p)
  BY DEF Close, RunStep
<1>3. WordsOf(p)'
  BY <1>1, <1>2, WordsKept
<1>4. dialog'[p] = NoDialog
  BY <1>1 DEF Close
<1>5. run'[p].pc \in {"window", "launch", "ended"}
  BY <1>1, GoToRun, ReturnRun DEF Close
<1> QED
  BY <1>3, <1>4, <1>5, NoDialogSensible, SettledSave DEF Asking

LEMMA ReturnSave ==
  ASSUME SaveInv, NEW p \in Runs, NEW c, Return(p, c) \/ End(p, c) \/ Elevate(p),
         RunStep(p), UNCHANGED dialog
  PROVE  SaveOf(p)'
<1>1. RunShape /\ WordsOf(p) /\ Sensible(dialog[p])
  BY DEF SaveInv, SaveOf, EditInv, InstallInv
<1>2. WordsOf(p)'
  BY <1>1, WordsKept
<1>3. run'[p].pc \in {"launch", "ended"}
  BY <1>1, ElevateRun, EndRun, ReturnRun
<1> QED
  BY <1>1, <1>2, <1>3, SettledSave DEF Asking

LEMMA AdvanceSave ==
  ASSUME SaveInv, NEW p \in Runs, run[p].pc \in {"calls", "change", "delay"},
         Wrote(p), Advance(p, store'), disturbed'[p] = disturbed[p]
  PROVE  SaveOf(p)'
<1>0. /\ RunShape /\ DOMAIN todo = Runs /\ SaveOf(p) /\ run[p].pc \in Asking
      /\ RunStep(p) /\ AskedOf(p) /\ WordsOf(p)
  BY AdvanceRuns DEF SaveInv, SaveOf, EditInv, InstallInv, Asking
<1>1. CASE Len(todo[p]) > 1
  <2>1. GoTo(p, "calls") /\ UNCHANGED dialog /\ todo'[p] = Tail(todo[p])
    BY <1>0, <1>1 DEF Advance
  <2>2. run'[p].pc = "calls" /\ WordsOf(p)'
    BY <1>0, <2>1, GoToRun, WordsKept
  <2>3. PICK S : todo[p] \in Seq(S) /\ \A request \in S : Good(p, request)
    BY <1>0 DEF AskedOf
  <2>a. /\ dialog[p].mode \in {"none", "edit", "install"} /\ Sensible(dialog[p])
        /\ dialog[p].mode = "none" => Len(todo[p]) = 1
        /\ dialog[p].mode # "none" => ActionChosen(p)
    BY <1>0 DEF SaveOf, AskedOf
  <2>b. Len(todo[p]) # 1
    <3>1. \A n \in Nat : n > 1 => n # 1
      OBVIOUS
    <3>2. Len(todo[p]) \in Nat
      BY <2>3, LenProperties
    <3> QED
      BY <1>1, <3>1, <3>2
  <2>4. dialog[p].mode \in {"edit", "install"} /\ ActionChosen(p) /\ Sensible(dialog[p])
    BY <2>a, <2>b, Zenon
  <2>5. /\ Form(p)' = Form(p) /\ SavedKeys(p)' = SavedKeys(p) /\ Answered(p)' = Answered(p)
        /\ ActionChosen(p)' /\ \A request \in S : Good(p, request)'
    BY <2>1, <2>3, <2>4, SameDialog, FormKept, GoodKept
  <2>6. todo'[p] \in Seq(S) /\ todo'[p] # <<>>
    BY <1>1, <2>1, <2>3, LongTail
  <2>7. AskedOf(p)'
    BY <2>1, <2>2, <2>4, <2>5, <2>6 DEF AskedOf
  <2>8. Head(todo[p]).key \in dialog[p].attempted
    BY <1>0, <2>4, HeadGood, GoodComesBack
  <2>9. LoadedOf(p)'
    <3>1. \A key \in Answered(p) : key \in FormKeys
      BY DEF Answered
    <3> QED
      BY <1>0, <2>1, <2>2, <2>5, <2>8, <3>1 DEF Wrote, SaveOf, LoadedOf
  <2>10. SavingOf(p)'
    <3>1. ASSUME NEW key \in SavedKeys(p) \ disturbed[p]
          PROVE  (\E i \in DOMAIN todo'[p] : todo'[p][i].key = key) \/ Effect(key)' = Form(p)[key].data
      <4>1. \/ ReadsBack(key, Form(p)[key].data)
            \/ \E i \in DOMAIN todo[p] \ {1} : todo[p][i].key = key
        BY <1>0, <2>4, <3>1, WroteSaved
      <4>2. ASSUME NEW i \in DOMAIN todo[p] \ {1} PROVE i - 1 \in DOMAIN todo'[p] /\ todo'[p][i - 1] = todo[p][i]
        BY <1>1, <2>1, <2>3, <4>2
      <4> QED
        BY <4>1, <4>2 DEF ReadsBack, Effect
    <3> QED
      BY <2>5, <3>1 DEF SavingOf, Held
  <2> QED
    BY <2>1, <2>2, <2>4, <2>7, <2>9, <2>10 DEF SaveOf, CreateOf, CfgOf, DelayOf
<1>2. CASE Return(p, 0) /\ UNCHANGED dialog
  BY <1>0, <1>2, ReturnSave
<1>3. CASE Close(p, store')
  BY <1>3, CloseSave
<1> QED
  BY <1>1, <1>2, <1>3 DEF Advance

-----------------------------------------------------------------------------
(* A dialog that opens, and what a user does in it.                        *)

\* What is loaded for a setting is what `get` shows of it.
LEMMA LoadedReads ==
  ASSUME NEW key \in FormKeys, Managed(store.registry) \/ ~InParameters(key[1]),
         CompatibleKind(key[1], LoadForm(store)[key])
  PROVE  Effect(key) = LoadForm(store)[key].data
<1> DEFINE name == key[1]
           v == ReadSetting(store.registry, store.scm, key)
           loaded == IF name \in RequiresSub THEN Found(v) ELSE v.kind = KindOf(name)
           form == LoadForm(store)
<1>1. form[key] = IF loaded THEN v ELSE DefaultFor(store.scm, name)
  BY DEF LoadForm
<1>2. Single(key)
  BY FormKeysSingle
<1>3. /\ CompatibleKind(name, v) => Effect(key) = v.data
      /\ ~CompatibleKind(name, v) => Effect(key) = DefaultValue(store.scm, name).data
  BY <1>2 DEF Effect, Effective, Single
<1>4. CASE loaded
  <2>1. CompatibleKind(name, v)
    BY <1>1, <1>4
  <2> QED
    BY <1>1, <1>3, <1>4, <2>1
<1>5. CASE ~loaded
  <2>1. form[key] = DefaultFor(store.scm, name)
    BY <1>1, <1>5
  <2>2. CASE name = "AppEvents"
    <3>1. ~CompatibleKind(name, v)
      BY <1>5, <2>2, KindsFound DEF CompatibleKind, Found, RequiresSub
    <3>2. DefaultValue(store.scm, name).data = NoText
      BY <2>2, DefaultsNamed DEF DefaultTexts
    <3> QED
      BY <1>3, <2>1, <2>2, <3>1, <3>2, DefaultsOfSubparameters
  <2>3. CASE name \in {"Start", "Type"}
    <3>1. ~InRegistry(key)
      BY <2>3 DEF InRegistry, InParameters, InSCM
    <3>2. v \in {Value(name, StartName(store.scm.start, store.scm.delayed)),
                 Value(name, TypeName(store.scm.type))}
      BY <2>3, <3>1 DEF ReadSetting, Dependencies
    <3>3. v.kind = KindOf(name)
      BY <3>2 DEF Value
    <3> QED
      BY <1>5, <2>3, <3>3 DEF RequiresSub
  <2>4. CASE name \notin {"AppEvents", "Start", "Type"}
    <3>1. DefaultFor(store.scm, name) = DefaultValue(store.scm, name)
      BY <2>4 DEF DefaultFor
    <3>2. ~CompatibleKind(name, v)
      BY <1>5, <2>4, KindsFound DEF CompatibleKind, Found, RequiresSub
    <3> QED
      BY <1>3, <2>1, <3>1, <3>2
  <2> QED
    BY <2>2, <2>3, <2>4
<1> QED
  BY <1>4, <1>5

LEMMA LoadedLists == ASSUME StoreTyped PROVE ListsLoaded(LoadForm(store))
<1> SUFFICES ASSUME NEW name \in {"AppEnvironment", "AppEnvironmentExtra", "DependOnService"}
             PROVE  IsList(LoadForm(store)[Key(name)].data)
  BY DEF ListsLoaded
<1> DEFINE key == Key(name)
           v == ReadSetting(store.registry, store.scm, key)
<1>0. key[1] = name /\ name \in Lists /\ name \notin RequiresSub \cup {"AppEvents", "Start", "Type"}
  BY KeyName DEF Lists, RequiresSub
<1>1. key \in FormKeys
  <2>1. name \in ToSet(All)
    BY DEF All, ToSet
  <2> QED
    BY <1>0, <2>1 DEF FormKeys
<1>2. LoadForm(store)[key] = IF ~Managed(store.registry) /\ InParameters(name) THEN NewForm(Service)[key]
                             ELSE IF v.kind = KindOf(name) THEN v
                             ELSE DefaultFor(store.scm, name)
  BY <1>0, <1>1 DEF LoadForm
<1>3. NewForm(Service)[key] = Value(name, <<>>)
  BY <1>0, <1>1, NewlyDefault
<1>4. DefaultFor(store.scm, name).data = <<>>
  <2>1. DefaultFor(store.scm, name) = DefaultValue(store.scm, name)
    BY <1>0 DEF DefaultFor
  <2> QED
    BY <1>0, <2>1, DefaultsNamed
<1>5. IsList(Value(name, <<>>).data) /\ IsList(<<>>)
  BY EmptyIsList DEF Value
<1>6. ASSUME v.kind = KindOf(name) PROVE IsList(v.data)
  <2>1. v.kind = "multi"
    BY <1>0, <1>6, ListKinds
  <2>2. CASE name = "DependOnService"
    <3>1. ~InRegistry(key) /\ name \in Dependencies
      BY <1>0, <2>2 DEF InRegistry, InParameters, InSCM, Dependencies
    <3>2. v = IF store.scm[name] = <<>> THEN Absent ELSE Value(name, store.scm[name])
      BY <1>0, <3>1 DEF ReadSetting
    <3>3. v.data = store.scm.DependOnService
      BY <2>1, <2>2, <3>2 DEF Absent, Value
    <3> QED
      BY <3>3 DEF StoreTyped
  <2>3. CASE name # "DependOnService"
    <3>1. InRegistry(key) /\ name \notin Dependencies
      BY <1>0, <2>3 DEF InRegistry, InParameters, InSCM, Dependencies
    <3>2. v = Stored(store.registry, key)
      BY <1>0, <3>1 DEF ReadSetting
    <3> QED
      BY <2>1, <3>2 DEF StoreTyped
  <2> QED
    BY <2>2, <2>3
<1> HIDE DEF v, key
<1> QED
  BY <1>2, <1>3, <1>4, <1>5, <1>6 DEF key

LEMMA NewKinds == ASSUME NEW name PROVE KindsLoaded(NewForm(name)) /\ ListsLoaded(NewForm(name))
<1>1. ASSUME NEW key \in FormKeys, key[1] \notin RequiresSub PROVE NewForm(name)[key].kind = KindOf(key[1])
  <2>1. \E scm : NewForm(name)[key] = DefaultFor(scm, key[1])
    BY DEF NewForm
  <2> QED
    BY <1>1, <2>1, DefaultKinds DEF RequiresSub
<1>2. ASSUME NEW n \in {"AppEnvironment", "AppEnvironmentExtra", "DependOnService"}
      PROVE  IsList(NewForm(name)[Key(n)].data)
  <2>1. n \in Lists /\ n \in ToSet(All) \ RequiresSub
    BY DEF Lists, All, ToSet, RequiresSub
  <2>2. Key(n) \in FormKeys /\ Key(n)[1] = n
    BY <2>1, KeyName DEF FormKeys
  <2>3. NewForm(name)[Key(n)] = Value(n, <<>>)
    BY <2>1, <2>2, NewlyDefault
  <2> QED
    BY <2>3, EmptyIsList DEF Value
<1> QED
  BY <1>1, <1>2 DEF KindsLoaded, ListsLoaded

LEMMA OpenSave ==
  ASSUME SaveInv, NEW p \in Runs, UNCHANGED store, NEW d, Open(p, d),
         \/ \E m \in {"install", "remove"} : \E n : d = Dialog(m, n, NewForm(n), TRUE)
         \/ d = Dialog("edit", Service, LoadForm(store), Managed(store.registry))
  PROVE  SaveOf(p)'
<1>0. RunShape /\ DOMAIN dialog = Runs /\ DOMAIN disturbed = Runs /\ WordsOf(p) /\ StoreTyped
  BY DEF SaveInv, SaveOf, EditInv, InstallInv, DialogShape
<1>1. dialog'[p] = d /\ disturbed'[p] = {} /\ run'[p].pc = "dialog"
  BY <1>0, GoToRun DEF Open
<1>2. WordsOf(p)'
  <2>1. RunStep(p)
    BY DEF Open, RunStep
  <2> QED
    BY <1>0, <2>1, WordsKept
<1>3. ASSUME NEW m \in {"install", "remove"}, NEW n, d = Dialog(m, n, NewForm(n), TRUE)
      PROVE  SaveOf(p)'
  <2>1. Sensible(d) /\ d.mode # "edit"
    BY <1>3, NewKinds DEF Sensible, Dialog
  <2> QED
    BY <1>1, <1>2, <2>1, SettledSave DEF Asking
<1>4. CASE d = Dialog("edit", Service, LoadForm(store), Managed(store.registry))
  <2>1. /\ d.mode = "edit" /\ d.original = LoadForm(store) /\ d.managed = Managed(store.registry)
        /\ d.typed = <<>> /\ d.attempted = {}
    BY <1>4 DEF Dialog
  <2>2. Sensible(d)
    <3>1. DOMAIN d.typed = {}
      BY <2>1
    <3> QED
      BY <1>0, <2>1, <3>1, LoadedKinds, LoadedLists DEF Sensible
  <2>3. LoadedOf(p)'
    <3>1. ASSUME NEW key \in Answered(p)', CompatibleKind(key[1], LoadForm(store)[key])
          PROVE  Effect(key)' = LoadForm(store)[key].data
      <4>1. key \in FormKeys /\ (Managed(store.registry) \/ ~InParameters(key[1]))
        BY <1>1, <2>1, <3>1 DEF Answered
      <4> QED
        BY <3>1, <4>1, LoadedReads DEF Effect
    <3> QED
      BY <1>1, <2>1, <3>1 DEF LoadedOf
  <2> QED
    BY <1>1, <1>2, <2>1, <2>2, <2>3 DEF SaveOf, AskedOf, SavingOf, CreateOf, CfgOf, DelayOf, Asking
<1> QED
  BY <1>3, <1>4

LEMMA SensibleKept == ASSUME NEW p, SameForm(p), Sensible(dialog[p]) PROVE Sensible(dialog[p])'
BY DEF SameForm, Sensible

\* A dialog that stays open and has loaded what it had.
LEMMA StaysOpen ==
  ASSUME SaveInv, NEW p \in Runs, run[p].pc = "dialog", UNCHANGED <<store, run, disturbed>>,
         dialog'[p].mode = dialog[p].mode, dialog'[p].original = dialog[p].original,
         dialog'[p].managed = dialog[p].managed, dialog'[p].attempted = dialog[p].attempted,
         Sensible(dialog[p])'
  PROVE  SaveOf(p)'
<1>1. WordsOf(p)' /\ Answered(p)' = Answered(p)
  BY DEF SaveInv, SaveOf, WordsOf, Answered
<1>2. LoadedOf(p)'
  BY <1>1 DEF SaveInv, SaveOf, LoadedOf, Effect
<1> QED
  BY <1>1, <1>2 DEF SaveOf, AskedOf, SavingOf, CreateOf, CfgOf, DelayOf, Asking

LEMMA TypeSave ==
  ASSUME SaveInv, NEW p \in Runs, Type(p)
  PROVE  SaveOf(p)'
<1>0. /\ DOMAIN dialog = Runs /\ DOMAIN dialog[p] = DialogFields /\ Sensible(dialog[p])
      /\ WordsOf(p) /\ run[p].pc = "dialog" /\ UNCHANGED <<store, run, disturbed>>
  BY DEF SaveInv, SaveOf, EditInv, EditOf, InstallInv, DialogShape, Type
<1>1. PICK gesture \in run[p].user :
        dialog' = [dialog EXCEPT ![p].typed = Over([c \in {gesture[1]} |-> gesture[2]], @)]
  BY DEF Type
<1> DEFINE one == [c \in {gesture[1]} |-> gesture[2]]
<1>2. DOMAIN one = {gesture[1]} /\ one[gesture[1]] = gesture[2]
  OBVIOUS
<1> HIDE DEF one
<1>3. /\ dialog'[p].mode = dialog[p].mode /\ dialog'[p].original = dialog[p].original
      /\ dialog'[p].managed = dialog[p].managed /\ dialog'[p].attempted = dialog[p].attempted
      /\ dialog'[p].typed = Over(one, dialog[p].typed)
  BY <1>0, <1>1 DEF DialogFields, one
<1>4. FitsControl(gesture[1], gesture[2])
  BY <1>0 DEF WordsOf
<1>5. \A control \in DOMAIN dialog'[p].typed : FitsControl(control, dialog'[p].typed[control])
  <2>1. ASSUME NEW control \in DOMAIN Over(one, dialog[p].typed)
        PROVE  FitsControl(control, Over(one, dialog[p].typed)[control])
    <3>1. control \in DOMAIN one \cup DOMAIN dialog[p].typed
      BY DEF Over
    <3>2. Over(one, dialog[p].typed)[control]
            = IF control \in DOMAIN one THEN one[control] ELSE dialog[p].typed[control]
      BY DEF Over
    <3> QED
      BY <1>0, <1>2, <1>4, <3>1, <3>2 DEF Sensible
  <2> QED
    BY <1>3, <2>1
<1>6. Sensible(dialog[p])'
  BY <1>0, <1>3, <1>5 DEF Sensible
<1> QED
  BY <1>0, <1>3, <1>6, StaysOpen

LEMMA SwitchSave ==
  ASSUME SaveInv, NEW p \in Runs, SwitchHook(p)
  PROVE  SaveOf(p)'
<1>0. /\ DOMAIN dialog = Runs /\ DOMAIN dialog[p] = DialogFields /\ Sensible(dialog[p])
      /\ run[p].pc = "dialog" /\ UNCHANGED <<store, run, disturbed>>
  BY DEF SaveInv, SaveOf, EditInv, EditOf, InstallInv, DialogShape, SwitchHook
<1>1. \E x, y : dialog' = [dialog EXCEPT ![p].hook = x, ![p].visited = y]
  BY DEF SwitchHook
<1>2. /\ dialog'[p].mode = dialog[p].mode /\ dialog'[p].original = dialog[p].original
      /\ dialog'[p].managed = dialog[p].managed /\ dialog'[p].attempted = dialog[p].attempted
      /\ dialog'[p].typed = dialog[p].typed
  BY <1>0, <1>1 DEF DialogFields
<1>3. Sensible(dialog[p])'
  BY <1>0, <1>2 DEF Sensible
<1> QED
  BY <1>0, <1>2, <1>3, StaysOpen

LEMMA NotedForm ==
  ASSUME SaveInv, NEW p \in Runs, NEW x, NEW y, NEW z,
         dialog' \in {[dialog EXCEPT ![p].failed = x],
                      [dialog EXCEPT ![p].failed = x, ![p].left = y]}
  PROVE  SameForm(p) /\ dialog'[p].attempted = dialog[p].attempted
<1>1. DOMAIN dialog = Runs /\ DOMAIN dialog[p] = DialogFields
  BY DEF SaveInv, EditInv, EditOf, InstallInv, DialogShape
<1> QED
  BY <1>1 DEF SameForm, DialogFields

LEMMA FailSave ==
  ASSUME SaveInv, NEW p \in Runs, NEW c, run[p].pc \in {"calls", "change", "delay"}, Fail(p, c),
         UNCHANGED store
  PROVE  SaveOf(p)'
<1>0. /\ RunShape /\ SaveOf(p) /\ RunStep(p) /\ DOMAIN disturbed = Runs
      /\ WordsOf(p) /\ Sensible(dialog[p])
  BY FailRuns DEF SaveInv, SaveOf, EditInv, InstallInv
<1>1. CASE Return(p, c) /\ UNCHANGED dialog
  BY <1>0, <1>1, ReturnSave
<1>2. WordsOf(p)'
  BY <1>0, WordsKept
<1>3. CASE dialog[p].mode = "install" /\ GoTo(p, "rollback") /\ UNCHANGED dialog
  <2>1. run'[p].pc = "rollback"
    BY <1>0, <1>3, GoToRun
  <2> QED
    BY <1>0, <1>2, <1>3, <2>1 DEF SaveOf, AskedOf, LoadedOf, SavingOf, CreateOf, CfgOf, DelayOf, Asking
<1>4. CASE /\ dialog[p].mode = "edit" /\ GoTo(p, "dialog")
           /\ dialog' = [dialog EXCEPT ![p].failed = TRUE]
           /\ disturbed' = [disturbed EXCEPT ![p] = @ \cup dialog[p].attempted]
  <2>1. run'[p].pc = "dialog" /\ disturbed'[p] = disturbed[p] \cup dialog[p].attempted
    BY <1>0, <1>4, GoToRun
  <2>2. SameForm(p) /\ dialog'[p].attempted = dialog[p].attempted
    BY <1>4, NotedForm
  <2>3. Answered(p)' = Answered(p) /\ Sensible(dialog[p])'
    BY <1>0, <2>2, FormKept, SensibleKept
  <2>4. LoadedOf(p)'
    BY <1>0, <1>4, <2>1, <2>2, <2>3 DEF SaveOf, LoadedOf, SameForm, Effect
  <2> QED
    BY <1>2, <2>1, <2>3, <2>4 DEF SaveOf, AskedOf, SavingOf, CreateOf, CfgOf, DelayOf, Asking
<1> QED
  BY <1>1, <1>3, <1>4 DEF Fail

LEMMA RollbackSave ==
  ASSUME SaveInv, NEW p \in Runs, Rollback(p)
  PROVE  SaveOf(p)'
<1>0. RunShape /\ WordsOf(p) /\ Sensible(dialog[p]) /\ run[p].pc = "rollback" /\ dialog[p].mode = "install"
  BY DEF SaveInv, SaveOf, EditInv, InstallInv, AskedOf, Rollback
<1>1. GoTo(p, "dialog") /\ \E y : dialog' = [dialog EXCEPT ![p].failed = TRUE, ![p].left = y]
  BY DEF Rollback
<1>2. SameForm(p)
  BY <1>1, NotedForm
<1>3. Sensible(dialog[p])' /\ dialog'[p].mode = "install"
  BY <1>0, <1>2, SensibleKept DEF SameForm
<1>4. run'[p].pc = "dialog" /\ WordsOf(p)'
  <2>1. RunStep(p)
    BY <1>1 DEF RunStep
  <2> QED
    BY <1>0, <1>1, <2>1, GoToRun, WordsKept
<1> QED
  BY <1>3, <1>4, SettledSave DEF Asking

LEMMA RemovalSave ==
  ASSUME SaveInv, NEW p \in Runs, AcceptRemoval(p)
  PROVE  SaveOf(p)'
<1>0. WordsOf(p) /\ Sensible(dialog[p]) /\ run[p].pc = "dialog" /\ dialog[p].mode = "remove"
  BY DEF SaveInv, SaveOf, AcceptRemoval
<1>1. Close(p, Removed) \/ (UNCHANGED run /\ dialog' = [dialog EXCEPT ![p].failed = TRUE])
  BY DEF AcceptRemoval
<1>2. CASE UNCHANGED run /\ dialog' = [dialog EXCEPT ![p].failed = TRUE]
  <2>1. SameForm(p)
    BY <1>2, NotedForm
  <2>2. Sensible(dialog[p])' /\ dialog'[p].mode = "remove"
    BY <1>0, <2>1, SensibleKept DEF SameForm
  <2> QED
    BY <1>0, <1>2, <2>2, SettledSave DEF Asking, WordsOf
<1> QED
  BY <1>1, <1>2, CloseSave

\* A save that begins.
LEMMA RequestsGood ==
  ASSUME NEW p, Sensible(dialog[p]), dialog[p].mode \in {"edit", "install"}, ActionChosen(p),
         NEW key, ~Skipped(p, key)
  PROVE  RequestFor(p, key).key = key /\ Sound(RequestFor(p, key))
<1> DEFINE password == key[1] = "ObjectName" /\ Contents(p)["Password"] # NoText
<1>1. key \in FormKeys
  BY DEF Skipped
<1>2. Writable(key, Form(p)[key])
  BY <1>1, FormWritable
<1>3. InRegistry(key) \/ key = Key(key[1])
  BY <1>1, KeyOfScm
<1>4. RequestFor(p, key) = WriteValue(key, Form(p)[key], password)
  BY DEF RequestFor
<1> HIDE DEF password
<1>5. LET r == WriteValue(key, Form(p)[key], password) IN r.key = key /\ Sound(r)
  BY <1>2, <1>3, SaveComesBack
<1> QED
  BY <1>4, <1>5

LEMMA AcceptSave ==
  ASSUME SaveInv, NEW p \in Runs, Accept(p)
  PROVE  SaveOf(p)'
<1> DEFINE changes == Changes(p)
           keys == {changes[i].key : i \in DOMAIN changes}
<1>0. /\ RunShape /\ SaveOf(p) /\ DOMAIN dialog = Runs /\ DOMAIN dialog[p] = DialogFields
      /\ DOMAIN todo = Runs /\ Sensible(dialog[p]) /\ WordsOf(p) /\ LoadedOf(p)
  BY DEF SaveInv, SaveOf, EditInv, EditOf, InstallInv, DialogShape
<1>1. /\ run[p].pc = "dialog" /\ dialog[p].mode \in {"edit", "install"} /\ Valid(p)
      /\ UNCHANGED <<store, disturbed>>
  BY DEF Accept
<1>2. ActionChosen(p)
  BY <1>1 DEF Valid, Validate, ActionChosen
<1>3. CASE Close(p, store)
  BY <1>3, CloseSave
<1>4. CASE /\ dialog[p].mode # "edit" \/ changes # <<>>
           /\ todo' = [todo EXCEPT ![p] = changes]
           /\ dialog' = [dialog EXCEPT ![p].attempted = keys]
           /\ GoTo(p, IF dialog[p].mode = "install" THEN "create" ELSE "calls")
  <2> HIDE DEF changes, keys
  <2>1. /\ SameForm(p) /\ dialog'[p].attempted = keys /\ todo'[p] = changes
        /\ run'[p].pc = IF dialog[p].mode = "install" THEN "create" ELSE "calls"
    BY <1>0, <1>4, GoToRun DEF SameForm, DialogFields
  <2>2. WordsOf(p)'
    <3>1. RunStep(p)
      BY <1>4 DEF RunStep
    <3> QED
      BY <1>0, <3>1, WordsKept
  <2>3. /\ Form(p)' = Form(p) /\ SavedKeys(p)' = SavedKeys(p) /\ Answered(p)' = Answered(p)
        /\ ActionChosen(p)' /\ Sensible(dialog[p])' /\ dialog'[p].mode = dialog[p].mode
        /\ \A key : (Skipped(p, key)' <=> Skipped(p, key)) /\ RequestFor(p, key)' = RequestFor(p, key)
    BY <1>0, <1>2, <2>1, FormKept, SensibleKept DEF SameForm
  <2>4. changes # <<>> /\ \E S : changes \in Seq(S) /\ \A request \in S : Good(p, request)'
    <3>1. PICK S : /\ changes \in Seq(S)
                   /\ \A request \in S : \E key : ~Skipped(p, key) /\ request = RequestFor(p, key)
      BY ChangesAre DEF changes
    <3> DEFINE R == {changes[i] : i \in DOMAIN changes}
    <3>2. changes \in Seq(R) /\ R \subseteq S
      BY <3>1
    <3>3. ASSUME NEW request \in R PROVE Good(p, request)'
      <4>1. PICK key : ~Skipped(p, key) /\ request = RequestFor(p, key)
        BY <3>1, <3>2
      <4>2. request.key = key /\ Sound(request)
        BY <1>0, <1>1, <1>2, <4>1, RequestsGood
      <4>3. request.key \in keys
        BY <3>3 DEF keys
      <4> QED
        BY <2>1, <2>3, <4>1, <4>2, <4>3 DEF Good
    <3>4. changes # <<>>
      BY <1>4, ChangesAre DEF changes
    <3> QED
      BY <3>2, <3>3, <3>4
  <2>5. AskedOf(p)'
    BY <1>1, <2>1, <2>3, <2>4 DEF AskedOf
  <2>6. LoadedOf(p)'
    <3>1. SUFFICES ASSUME dialog[p].mode = "edit", NEW key \in Answered(p) \ disturbed[p],
                          CompatibleKind(key[1], dialog[p].original[key])
                   PROVE  Effect(key)' = dialog[p].original[key].data
      BY <1>1, <2>1, <2>3 DEF LoadedOf, SameForm
    <3>2. key \notin dialog[p].attempted
      BY <1>0, <1>1, <3>1 DEF LoadedOf
    <3> QED
      BY <1>0, <1>1, <3>1, <3>2 DEF LoadedOf, Effect
  <2>7. ASSUME NEW key \in FormKeys, ~Skipped(p, key) PROVE Held(p, key)'
    <3>1. PICK i \in DOMAIN changes : changes[i] = RequestFor(p, key)
      BY <2>7, ChangesCover DEF changes
    <3>2. RequestFor(p, key).key = key
      BY KeyWritten DEF RequestFor
    <3> QED
      BY <2>1, <3>1, <3>2 DEF Held
  <2>8. SavingOf(p)'
    <3>1. SUFFICES ASSUME dialog[p].mode = "edit", NEW key \in SavedKeys(p) \ disturbed[p], Skipped(p, key)
                   PROVE  Effect(key)' = Form(p)[key].data
      <4>1. \A key \in SavedKeys(p) : key \in FormKeys
        BY DEF SavedKeys
      <4> QED
        BY <1>1, <2>1, <2>3, <2>7, <4>1 DEF SavingOf
    <3>2. /\ key \in Answered(p) /\ ValuesEqual(Form(p)[key], dialog[p].original[key])
          /\ CompatibleKind(key[1], Form(p)[key])
      BY <3>1 DEF SavedKeys, Answered, Skipped
    <3>3. CompatibleKind(key[1], dialog[p].original[key])
      BY <3>2 DEF ValuesEqual, CompatibleKind
    <3>4. key \notin dialog[p].attempted
      BY <1>0, <1>1, <3>1 DEF LoadedOf
    <3>5. Effect(key) = dialog[p].original[key].data
      BY <1>0, <1>1, <3>1, <3>2, <3>3, <3>4 DEF LoadedOf
    <3> QED
      BY <1>1, <3>2, <3>5 DEF ValuesEqual, Effect
  <2>9. CreateOf(p)'
    <3>1. ASSUME dialog[p].mode = "install", NEW key \in SavedKeys(p), Skipped(p, key)
          PROVE  key[1] \in {"Application", "AppDirectory", "AppParameters"}
      BY <3>1 DEF SavedKeys, Skipped
    <3>2. \A key \in SavedKeys(p) : key \in FormKeys
      BY DEF SavedKeys
    <3> QED
      BY <1>1, <2>1, <2>3, <2>7, <3>1, <3>2 DEF CreateOf
  <2> QED
    BY <2>1, <2>2, <2>3, <2>5, <2>6, <2>8, <2>9 DEF SaveOf, CfgOf, DelayOf
<1> QED
  BY <1>3, <1>4 DEF Accept

\* What InstallService has written is read.
LEMMA InstalledReads ==
  ASSUME NEW a, NEW b, NEW c, NEW d, NEW registry, NEW scm,
         NEW name \in {"Application", "AppDirectory", "AppParameters"}
  PROVE  Effective(Over(InstalledStore(a, b, c, d).registry, registry), scm, Key(name)).data
           = [Application |-> b, AppDirectory |-> c, AppParameters |-> d, AppExit |-> "Restart"][name]
<1> DEFINE data == [Application |-> b, AppDirectory |-> c, AppParameters |-> d, AppExit |-> "Restart"]
           new == [key \in {Location(n, NoText) : n \in DOMAIN data} |-> Value(key[1], data[key[1]])]
<1>1. InstalledStore(a, b, c, d).registry = new
  BY DEF InstalledStore
<1>2. Location(name, NoText) = Key(name) /\ Key(name)[1] = name /\ name \in DOMAIN data
  BY KeyName DEF Location, Key
<1>3. Key(name) \in DOMAIN new /\ new[Key(name)] = Value(name, data[name])
  BY <1>2
<1> HIDE DEF new, data
<1>4. Stored(Over(new, registry), Key(name)) = Value(name, data[name])
  BY <1>3, StoredOver
<1>5. InRegistry(Key(name)) /\ Single(Key(name))
  BY <1>2 DEF InRegistry, InParameters, InSCM, Single
<1>6. CompatibleKind(name, Value(name, data[name])) /\ Value(name, data[name]).data = data[name]
  BY DEF CompatibleKind, Value
<1>7. Effective(Over(new, registry), scm, Key(name)).data = data[name]
  BY <1>2, <1>4, <1>5, <1>6, EffectiveStored
<1> QED
  BY <1>1, <1>7 DEF data

LEMMA CreateSave ==
  ASSUME SaveInv, NEW p \in Runs, Create(p)
  PROVE  SaveOf(p)'
<1>0. /\ RunShape /\ SaveOf(p) /\ DOMAIN dialog = Runs /\ DOMAIN dialog[p] = DialogFields
      /\ WordsOf(p) /\ Sensible(dialog[p]) /\ CreateOf(p) /\ AskedOf(p) /\ StoreTyped
  BY DEF SaveInv, SaveOf, EditInv, EditOf, InstallInv, DialogShape
<1>1. /\ run[p].pc = "create" /\ dialog[p].mode = "install"
      /\ \A key \in SavedKeys(p) :
           Held(p, key) \/ key[1] \in {"Application", "AppDirectory", "AppParameters"}
  BY <1>0 DEF Create, CreateOf
<1>2. CASE GoTo(p, "dialog") /\ dialog' = [dialog EXCEPT ![p].failed = TRUE]
  <2>1. SameForm(p) /\ RunStep(p) /\ run'[p].pc = "dialog"
    BY <1>0, <1>2, NotedForm, GoToRun DEF RunStep
  <2>2. Sensible(dialog[p])' /\ dialog'[p].mode = "install" /\ WordsOf(p)'
    BY <1>0, <1>1, <2>1, SensibleKept, WordsKept DEF SameForm
  <2> QED
    BY <2>1, <2>2, SettledSave DEF Asking
<1>3. CASE Install(p, InstallSpec(Form(p))) /\ GoTo(p, "calls") /\ UNCHANGED <<dialog, todo>>
  <2>1. RunStep(p) /\ run'[p].pc = "calls"
    BY <1>0, <1>3, GoToRun DEF RunStep
  <2>2. /\ WordsOf(p)' /\ Sensible(dialog[p])' /\ SameForm(p)
    BY <1>0, <1>3, <2>1, WordsKept, SameDialog, SensibleKept
  <2>3. /\ Form(p)' = Form(p) /\ SavedKeys(p)' = SavedKeys(p) /\ (ActionChosen(p)' <=> ActionChosen(p))
    BY <2>2, FormKept
  <2>4. AskedOf(p)'
    <3>1. PICK S : todo[p] \in Seq(S) /\ \A request \in S : Good(p, request)
      BY <1>0, <1>1 DEF AskedOf, Asking
    <3>2. \A request \in S : Good(p, request)'
      BY <1>3, <2>2, <3>1, GoodKept
    <3> QED
      BY <1>0, <1>1, <1>3, <2>1, <2>3, <3>1, <3>2 DEF AskedOf, Asking
  <2>5. disturbed'[p] = disturbed[p]
    BY <1>3, DisturbTells DEF Install
  <2>6. SavingOf(p)'
    <3> DEFINE Of(name) == Form(p)[Key(name)].data
               b == Of("Application")
               c == IF Of("AppDirectory") # NoText THEN Of("AppDirectory")
                    ELSE IF DirectoryOf[b] = NoText THEN "." ELSE DirectoryOf[b]
               d == Of("AppParameters")
    <3>1. PICK a : InstallSpec(Form(p)) = InstalledStore(a, b, c, d)
      BY DEF InstallSpec
    <3> HIDE DEF b, c, d
    <3>2. store'.registry = Over(InstalledStore(a, b, c, d).registry, store.registry)
      BY <1>0, <1>3, <3>1, InstallMoves
    <3>3. ASSUME NEW key \in SavedKeys(p), key[1] \in {"Application", "AppDirectory", "AppParameters"}
          PROVE  Effect(key)' = Form(p)[key].data
      <4>1. key = Key(key[1])
        <5>1. key \in FormKeys /\ key[1] \notin {"AppExit", "AppEvents"}
          BY <3>3 DEF SavedKeys
        <5> QED
          BY <5>1, KeysOfForms, KeyName DEF RequiresSub
      <4>2. key = Key("AppDirectory") => Form(p)[key].data # NoText
        BY <1>1, <3>3 DEF SavedKeys
      <4>3. Effect(key)' = [Application |-> b, AppDirectory |-> c, AppParameters |-> d,
                            AppExit |-> "Restart"][key[1]]
        BY <3>2, <3>3, <4>1, InstalledReads DEF Effect
      <4>4. CASE key[1] = "Application"
        BY <4>1, <4>3, <4>4 DEF b
      <4>5. CASE key[1] = "AppParameters"
        BY <4>1, <4>3, <4>5 DEF d
      <4>6. CASE key[1] = "AppDirectory"
        <5>1. c = Form(p)[key].data
          BY <4>1, <4>2, <4>6 DEF c
        <5> QED
          BY <4>3, <4>6, <5>1
      <4> QED
        BY <3>3, <4>4, <4>5, <4>6
    <3> QED
      BY <1>1, <1>3, <2>3, <3>3 DEF SavingOf, Held
  <2> QED
    BY <1>1, <1>3, <2>1, <2>2, <2>4, <2>6 DEF SaveOf, LoadedOf, CreateOf, CfgOf, DelayOf
<1> QED
  BY <1>2, <1>3 DEF Create

\* What a command asks for.
LEMMA CommandsSound ==
  ASSUME NEW st, NEW args \in Seq(STRING), NEW requests, requests # <<>>,
         \/ requests = SetCommand(st, args).requests
         \/ requests = ResetCommand(st, args).requests
  PROVE  \E request : requests = <<request>> /\ Sound(request)
<1>1. \A code : Refuse(code).requests = <<>>
  BY DEF Refuse
<1>2. \A request : Ask(request).requests = <<request>>
  BY DEF Ask
<1>3. InRegistry(KeyOf(args)) \/ KeyOf(args) = Key(KeyOf(args)[1])
  <2>1. CASE args[2] \in RequiresSub
    BY <2>1 DEF KeyOf, Location, RequiresSub, InRegistry, InParameters, InSCM
  <2>2. CASE args[2] \notin RequiresSub
    BY <2>2, KeyName DEF KeyOf, Location, RequiresSub, Key
  <2> QED
    BY <2>1, <2>2
<1>4. Sound(Delete(KeyOf(args)))
  BY <1>3 DEF Sound, Delete, Write, Found, Absent
<1>5. ASSUME NEW texts, IsList(texts) PROVE Sound(PlanSet(KeyOf(args), texts))
  <2> DEFINE key == KeyOf(args)
             name == key[1]
  <2> HIDE DEF key
  <2>1. \/ PlanSet(key, texts) = Delete(key)
        \/ \E data, password : /\ PlanSet(key, texts) = Write(key, Value(name, data), password)
                               /\ name \in Lists => data = texts
    <3>1. CASE name \in DOMAIN Numbers
      <4>1. name \notin Lists
        BY <3>1 DEF Numbers, Lists
      <4> QED
        BY <3>1, <4>1 DEF PlanSet, Numbers
    <3>2. CASE name \in Lists
      <4>1. PlanSet(key, texts) = Write(key, Value(name, texts), FALSE)
        BY <3>2 DEF PlanSet, Numbers, Lists
      <4> QED
        BY <4>1
    <3>3. CASE name \notin DOMAIN Numbers \cup Lists
      BY <3>3 DEF PlanSet
    <3> QED
      BY <3>1, <3>2, <3>3
  <2>2. CASE PlanSet(key, texts) = Delete(key)
    BY <1>4, <2>2 DEF key
  <2>3. ASSUME NEW data, NEW password, PlanSet(key, texts) = Write(key, Value(name, data), password),
               name \in Lists => data = texts
        PROVE  Sound(PlanSet(key, texts))
    <3>1. ValueFor(name, Value(name, data))
      BY <1>5, <2>3 DEF ValueFor
    <3>2. InRegistry(key) \/ key = Key(name)
      BY <1>3 DEF key
    <3> QED
      BY <2>3, <3>1, <3>2 DEF Sound, Write
  <2> QED
    BY <2>1, <2>2, <2>3 DEF key
<1>6. CASE requests = SetCommand(st, args).requests
  <2>1. \A n \in {3, 4} : IsList(SubSeq(args, n, Len(args)))
    <3>1. \A n \in {3, 4} : SubSeq(args, n, Len(args)) \in Seq(STRING)
      OBVIOUS
    <3> QED
      BY <3>1 DEF IsList
  <2>2. \/ \E code : SetCommand(st, args) = Refuse(code)
        \/ \E n \in {3, 4} : SetCommand(st, args) = Ask(PlanSet(KeyOf(args), SubSeq(args, n, Len(args))))
    BY DEF SetCommand
  <2> QED
    BY <1>1, <1>2, <1>5, <1>6, <2>1, <2>2
<1>7. CASE requests = ResetCommand(st, args).requests
  <2>1. \/ \E code : ResetCommand(st, args) = Refuse(code)
        \/ ResetCommand(st, args) = Ask(Delete(KeyOf(args)))
    BY DEF ResetCommand
  <2> QED
    BY <1>1, <1>2, <1>4, <1>7, <2>1
<1> QED
  BY <1>6, <1>7

LEMMA SetOrResetSave ==
  ASSUME SaveInv, NEW p \in Runs, SetOrReset(p)
  PROVE  SaveOf(p)'
<1>0. /\ RunShape /\ DOMAIN todo = Runs /\ WordsOf(p) /\ Sensible(dialog[p]) /\ dialog[p].mode = "none"
      /\ RunStep(p) /\ UNCHANGED dialog
  <2>1. run[p].pc = "launch" /\ UNCHANGED dialog
    BY DEF SetOrReset, Proceeds, Manages
  <2>2. RunStep(p)
    BY DEF SetOrReset, RunStep
  <2> QED
    BY <2>1, <2>2 DEF SaveInv, SaveOf, EditInv, InstallInv, NoDialogYet
<1>1. WordsOf(p)'
  BY <1>0, WordsKept
<1>2. \/ \E c : Return(p, c)
      \/ \E st, requests : /\ requests # <<>>
                           /\ \/ requests = SetCommand(st, Arguments(run[p].argv)).requests
                              \/ requests = ResetCommand(st, Arguments(run[p].argv)).requests
                           /\ todo' = [todo EXCEPT ![p] = requests] /\ GoTo(p, "calls")
  BY DEF SetOrReset
<1>3. CASE \E c : Return(p, c)
  BY <1>0, <1>3, ReturnSave
<1>4. ASSUME NEW st, NEW requests, requests # <<>>,
             \/ requests = SetCommand(st, Arguments(run[p].argv)).requests
             \/ requests = ResetCommand(st, Arguments(run[p].argv)).requests,
             todo' = [todo EXCEPT ![p] = requests], GoTo(p, "calls")
      PROVE  SaveOf(p)'
  <2>1. Arguments(run[p].argv) \in Seq(STRING)
    BY <1>0 DEF WordsOf, Arguments
  <2>2. PICK request : requests = <<request>> /\ Sound(request)
    BY <1>4, <2>1, CommandsSound
  <2>3. todo'[p] = <<request>> /\ run'[p].pc = "calls" /\ dialog'[p] = dialog[p]
    BY <1>0, <1>4, <2>2, GoToRun
  <2> DEFINE S == {request}
  <2>4. <<request>> \in Seq(S) /\ <<request>> # <<>> /\ Len(<<request>>) = 1
    OBVIOUS
  <2>5. \A r \in S : Good(p, r)'
    BY <1>0, <2>2, <2>3 DEF Good
  <2> HIDE DEF S
  <2>6. AskedOf(p)'
    BY <1>0, <2>3, <2>4, <2>5 DEF AskedOf
  <2> QED
    BY <1>0, <1>1, <2>3, <2>6 DEF SaveOf, LoadedOf, SavingOf, CreateOf, CfgOf, DelayOf, Sensible
<1> QED
  BY <1>2, <1>3, <1>4

\* A run that goes on with the same request.
LEMMA GoesOn ==
  ASSUME SaveInv, NEW p \in Runs, run[p].pc \in {"calls", "change", "delay"},
         NEW c \in {"change", "delay"}, GoTo(p, c),
         UNCHANGED <<dialog, todo>>, disturbed'[p] = disturbed[p],
         \A key \in FormKeys : key # Head(todo[p]).key => Effect(key)' = Effect(key),
         CfgOf(p)', DelayOf(p)'
  PROVE  SaveOf(p)'
<1>0. /\ RunShape /\ SaveOf(p) /\ AskedOf(p) /\ WordsOf(p) /\ Sensible(dialog[p])
      /\ run[p].pc \in Asking /\ RunStep(p)
  BY DEF SaveInv, SaveOf, EditInv, InstallInv, Asking, RunStep
<1>1. run'[p].pc = c /\ WordsOf(p)' /\ dialog'[p] = dialog[p] /\ todo'[p] = todo[p]
  BY <1>0, GoToRun, WordsKept
<1>2. SameForm(p) /\ Sensible(dialog[p])'
  BY <1>0, <1>1, SameDialog, SensibleKept
<1>3. /\ Form(p)' = Form(p) /\ SavedKeys(p)' = SavedKeys(p) /\ Answered(p)' = Answered(p)
      /\ (ActionChosen(p)' <=> ActionChosen(p))
  BY <1>2, FormKept
<1>4. AskedOf(p)'
  <2>1. PICK S : todo[p] \in Seq(S) /\ \A request \in S : Good(p, request)
    BY <1>0 DEF AskedOf
  <2>2. \A request \in S : Good(p, request)'
    BY <1>1, <1>2, <2>1, GoodKept
  <2>3. /\ dialog'[p].mode \in {"none", "edit", "install"}
        /\ dialog'[p].mode = "none" => Len(todo'[p]) = 1
        /\ dialog'[p].mode # "none" => ActionChosen(p)'
        /\ todo'[p] # <<>>
    BY <1>0, <1>1, <1>3 DEF AskedOf
  <2> QED
    BY <1>1, <2>1, <2>2, <2>3 DEF AskedOf
<1>5. Head(todo[p]) = todo[p][1] /\ 1 \in DOMAIN todo[p]
  BY <1>0 DEF AskedOf
<1>6. LoadedOf(p)'
  <2>1. dialog[p].mode = "edit" => Head(todo[p]).key \in dialog[p].attempted
    BY <1>0, HeadGood DEF Good
  <2>2. \A key \in Answered(p) : key \in FormKeys
    BY DEF Answered
  <2> QED
    BY <1>0, <1>1, <1>3, <2>1, <2>2 DEF SaveOf, LoadedOf
<1>7. SavingOf(p)'
  <2>1. \A key \in SavedKeys(p) : key \in FormKeys
    BY DEF SavedKeys
  <2> QED
    BY <1>0, <1>1, <1>3, <1>5, <2>1 DEF SaveOf, SavingOf, Held
<1> QED
  BY <1>1, <1>2, <1>4, <1>6, <1>7 DEF SaveOf, CreateOf

LEMMA RegistrySave ==
  ASSUME SaveInv, NEW p \in Runs, ChangeRegistry(p)
  PROVE  SaveOf(p)'
<1>0. SaveOf(p) /\ AskedOf(p) /\ StoreTyped /\ run[p].pc = "calls" /\ InRegistry(Head(todo[p]).key)
  BY DEF SaveInv, SaveOf, ChangeRegistry
<1>1. CASE Fail(p, 6) /\ UNCHANGED store
  BY <1>0, <1>1, FailSave
<1>2. CASE /\ store' = [store EXCEPT !.registry =
                          WithValue(@, Head(todo[p]).key, Head(todo[p]).value)]
           /\ disturbed' = Disturb(p, {Head(todo[p]).key}) /\ Advance(p, store')
  <2>1. Sound(Head(todo[p]))
    BY <1>0, HeadGood DEF Asking
  <2>2. Wrote(p)
    BY <1>0, <1>2, <2>1, RegistryWrote
  <2>3. disturbed'[p] = disturbed[p]
    BY <1>2, DisturbTells
  <2> QED
    BY <1>0, <1>2, <2>2, <2>3, AdvanceSave
<1> QED
  BY <1>1, <1>2 DEF ChangeRegistry

LEMMA ReadSave ==
  ASSUME SaveInv, NEW p \in Runs, ReadConfiguration(p)
  PROVE  SaveOf(p)'
<1>0. /\ SaveOf(p) /\ StoreTyped /\ run[p].pc = "calls" /\ UNCHANGED store
      /\ ~InRegistry(Head(todo[p]).key) /\ RunShape /\ DOMAIN cfg = Runs
  BY DEF SaveInv, SaveOf, EditInv, InstallInv, ReadConfiguration
<1>1. CASE \E c : Fail(p, c)
  BY <1>0, <1>1, FailSave
<1>2. CASE /\ Found(Wanted(Head(todo[p]))) /\ cfg' = [cfg EXCEPT ![p] = store.scm]
           /\ GoTo(p, "change") /\ UNCHANGED <<dialog, todo, disturbed>>
  <2>1. run'[p].pc = "change" /\ cfg'[p] = store.scm
    BY <1>0, <1>2, GoToRun
  <2>2. CfgOf(p)'
    BY <1>0, <1>2, <2>1 DEF CfgOf, StoreTyped, Wanted
  <2>3. DelayOf(p)'
    BY <2>1 DEF DelayOf
  <2>4. \A key : Effect(key)' = Effect(key)
    BY <1>0 DEF Effect
  <2> QED
    BY <1>0, <1>2, <2>2, <2>3, <2>4, GoesOn
<1> QED
  BY <1>1, <1>2 DEF ReadConfiguration

LEMMA ConfigurationSave ==
  ASSUME SaveInv, NEW p \in Runs, ChangeConfiguration(p)
  PROVE  SaveOf(p)'
<1> DEFINE request == Head(todo[p])
           name == request.key[1]
           data == Wanted(request).data
<1>0. /\ SaveOf(p) /\ AskedOf(p) /\ CfgOf(p) /\ StoreTyped /\ run[p].pc = "change" /\ RunShape
  BY DEF SaveInv, SaveOf, EditInv, InstallInv, ChangeConfiguration
<1>1. /\ Sound(request) /\ ~InRegistry(request.key) /\ Found(Wanted(request))
      /\ IsList(cfg[p].DependOnService)
  BY <1>0, HeadGood DEF CfgOf, Asking
<1>2. CASE Fail(p, 6) /\ UNCHANGED store
  BY <1>0, <1>2, FailSave
<1>3. CASE /\ ~Refused(cfg[p], name, data, request.password)
           /\ store' = [store EXCEPT !.scm = Changed(@, cfg[p], name, data)]
           /\ disturbed' = Disturb(p, Touched(request.key))
           /\ name # "Start" /\ Advance(p, store')
  <2>1. Wrote(p)
    <3> DEFINE r == Head(todo[p])
    <3> HIDE DEF r
    <3>1. /\ r = Head(todo[p]) /\ Sound(r) /\ r.key[1] # "Start"
          /\ ~Refused(cfg[p], r.key[1], Wanted(r).data, r.password)
          /\ store' = [store EXCEPT !.scm = Changed(@, cfg[p], r.key[1], Wanted(r).data)]
      BY <1>1, <1>3 DEF r
    <3> QED
      BY <1>0, <3>1, ConfigurationWrote
  <2>2. disturbed'[p] = disturbed[p]
    BY <1>3, DisturbTells
  <2> QED
    BY <1>0, <1>3, <2>1, <2>2, AdvanceSave
<1>4. CASE /\ ~Refused(cfg[p], name, data, request.password)
           /\ store' = [store EXCEPT !.scm = Changed(@, cfg[p], name, data)]
           /\ disturbed' = Disturb(p, Touched(request.key))
           /\ name = "Start" /\ GoTo(p, "delay") /\ UNCHANGED <<dialog, todo>>
  <2>1. request.key = Key("Start")
    BY <1>1, <1>4 DEF Sound
  <2>2. \A key \in FormKeys : key # request.key => Effect(key)' = Effect(key)
    <3>1. Moves(Touched(request.key))
      BY <1>0, <1>1, <1>4, ConfigurationMoves
    <3>2. Touched(request.key) = {request.key}
      BY <1>4 DEF Touched, Dependencies
    <3> QED
      BY <3>1, <3>2 DEF Moves
  <2>3. Wanted(request) = request.value /\ Found(request.value)
    <3>1. ~Found(ResetOf("Start"))
      BY ResetsAreDefaults DEF Dependencies
    <3> QED
      BY <1>1, <1>4, <3>1 DEF Wanted
  <2>4. store'.scm.start \in ParseStart(request.value.data)
    <3>1. store'.scm = Changed(store.scm, cfg[p], "Start", data)
      BY <1>0, <1>4 DEF StoreTyped, StoreParts
    <3>2. Changed(store.scm, cfg[p], "Start", data).start \in ParseStart(data)
      BY <1>0, <1>4, StartChanges DEF StoreTyped
    <3> QED
      BY <2>3, <3>1, <3>2
  <2>5. run'[p].pc = "delay" /\ disturbed'[p] = disturbed[p]
    BY <1>0, <1>4, GoToRun, DisturbTells
  <2>6. CfgOf(p)'
    BY <2>5 DEF CfgOf
  <2>7. DelayOf(p)'
    BY <1>4, <2>1, <2>3, <2>4 DEF DelayOf
  <2> QED
    BY <1>0, <1>4, <2>2, <2>5, <2>6, <2>7, GoesOn
<1> QED
  BY <1>2, <1>3, <1>4 DEF ChangeConfiguration

LEMMA DelaySave ==
  ASSUME SaveInv, NEW p \in Runs, ChangeDelay(p)
  PROVE  SaveOf(p)'
<1>0. SaveOf(p) /\ AskedOf(p) /\ DelayOf(p) /\ StoreTyped /\ run[p].pc = "delay"
  BY DEF SaveInv, SaveOf, ChangeDelay
<1>1. CASE Fail(p, 6) /\ UNCHANGED store
  BY <1>0, <1>1, FailSave
<1>2. CASE /\ store' = [store EXCEPT !.scm = WithDelay(@, "Start", Head(todo[p]).value.data)]
           /\ disturbed' = Disturb(p, {Head(todo[p]).key}) /\ Advance(p, store')
  <2>1. Sound(Head(todo[p]))
    BY <1>0, HeadGood DEF Asking
  <2>2. Wrote(p)
    BY <1>0, <1>2, <2>1, DelayWrote
  <2>3. disturbed'[p] = disturbed[p]
    BY <1>2, DisturbTells
  <2> QED
    BY <1>0, <1>2, <2>2, <2>3, AdvanceSave
<1> QED
  BY <1>1, <1>2 DEF ChangeDelay

-----------------------------------------------------------------------------
(* A step: what it means to the run that takes it, and to the others.      *)

LEMMA OwnSave ==
  ASSUME SaveInv, NEW p \in Runs, Step(p)
  PROVE  SaveOf(p)'
<1>0. RunShape /\ RunStep(p) /\ WordsOf(p) /\ Sensible(dialog[p]) /\ WordsOf(p)'
  <2>1. RunShape /\ RunStep(p) /\ WordsOf(p) /\ Sensible(dialog[p])
    BY StepRuns DEF SaveInv, SaveOf, EditInv, InstallInv
  <2> QED
    BY <2>1, WordsKept
<1>1. CASE NoCommand(p) \/ ReadCommand(p) \/ CloseWindow(p) \/ ElevateFirst(p) \/ InstallOrRemove(p)
  <2>1. UNCHANGED dialog /\ ((\E c : End(p, c) \/ Return(p, c)) \/ Elevate(p))
    BY <1>1 DEF NoCommand, ReadCommand, CloseWindow, ElevateFirst, InstallOrRemove
  <2> QED
    BY <1>0, <2>1, ReturnSave
<1>2. CASE OpenWindow(p)
  <2>1. /\ UNCHANGED store
        /\ \/ GoTo(p, "window") /\ UNCHANGED dialog
           \/ \E m \in {"install", "remove"} : \E n : Open(p, Dialog(m, n, NewForm(n), TRUE))
           \/ Open(p, Dialog("edit", Service, LoadForm(store), Managed(store.registry)))
           \/ (\E c : Return(p, c)) /\ UNCHANGED dialog
    BY <1>2 DEF OpenWindow
  <2>2. CASE GoTo(p, "window") /\ UNCHANGED dialog
    <3>1. run'[p].pc = "window" /\ Sensible(dialog[p])'
      BY <1>0, <2>2, GoToRun
    <3> QED
      BY <1>0, <3>1, SettledSave DEF Asking
  <2>3. CASE \E m \in {"install", "remove"} : \E n : Open(p, Dialog(m, n, NewForm(n), TRUE))
    BY <2>1, <2>3, OpenSave
  <2>4. CASE Open(p, Dialog("edit", Service, LoadForm(store), Managed(store.registry)))
    BY <2>1, <2>4, OpenSave
  <2>5. CASE (\E c : Return(p, c)) /\ UNCHANGED dialog
    BY <1>0, <2>5, ReturnSave
  <2> QED
    BY <2>1, <2>2, <2>3, <2>4, <2>5
<1>3. CASE SetOrReset(p)
  BY <1>3, SetOrResetSave
<1>4. CASE ChangeRegistry(p) \/ ReadConfiguration(p) \/ ChangeConfiguration(p) \/ ChangeDelay(p)
  BY <1>4, RegistrySave, ReadSave, ConfigurationSave, DelaySave
<1>5. CASE Create(p) \/ Rollback(p)
  BY <1>5, CreateSave, RollbackSave
<1>6. CASE Type(p) \/ SwitchHook(p) \/ Accept(p) \/ AcceptRemoval(p)
  BY <1>6, TypeSave, SwitchSave, AcceptSave, RemovalSave
<1>7. CASE Cancel(p)
  BY <1>7, CloseSave DEF Cancel
<1>8. CASE Select(p) \/ Refresh(p) \/ WindowRemove(p)
  <2>1. run[p].pc = "window" /\ UNCHANGED <<run, dialog>>
    BY <1>8 DEF Select, Refresh, WindowRemove
  <2> QED
    BY <1>0, <2>1, SettledSave DEF Asking
<1>9. CASE WindowInstall(p) \/ WindowEdit(p)
  <2>1. /\ UNCHANGED store
        /\ \/ Open(p, Dialog("install", NoText, NewForm(NoText), TRUE))
           \/ Open(p, Dialog("edit", Service, LoadForm(store), Managed(store.registry)))
    BY <1>9 DEF WindowInstall, WindowEdit
  <2>2. \A m, n : m \in {"install", "remove"} /\ Open(p, Dialog(m, n, NewForm(n), TRUE)) => SaveOf(p)'
    BY <2>1, OpenSave
  <2>3. Open(p, Dialog("edit", Service, LoadForm(store), Managed(store.registry))) => SaveOf(p)'
    BY <2>1, OpenSave
  <2> QED
    BY <2>1, <2>2, <2>3
<1> QED
  BY <1>1, <1>2, <1>3, <1>4, <1>5, <1>6, <1>7, <1>8, <1>9 DEF Step, Call

LEMMA StepDialogs ==
  ASSUME NEW p \in Runs, DOMAIN dialog = Runs, Step(p)
  PROVE  \A q \in Runs : q # p => dialog'[q] = dialog[q]
<1>1. CASE NoCommand(p) \/ ElevateFirst(p) \/ OpenWindow(p) \/ ReadCommand(p) \/ SetOrReset(p)
           \/ InstallOrRemove(p)
  BY <1>1 DEF NoCommand, ElevateFirst, OpenWindow, Open, ReadCommand, SetOrReset, InstallOrRemove
<1>2. CASE ChangeRegistry(p) \/ ReadConfiguration(p) \/ ChangeConfiguration(p) \/ ChangeDelay(p)
  <2>1. Advance(p, store') \/ (\E c : Fail(p, c)) \/ UNCHANGED dialog
    BY <1>2 DEF ChangeRegistry, ReadConfiguration, ChangeConfiguration, ChangeDelay
  <2> QED
    BY <2>1 DEF Advance, Fail, Close
<1>3. CASE Create(p) \/ Rollback(p) \/ Accept(p) \/ AcceptRemoval(p) \/ Cancel(p)
  BY <1>3 DEF Create, Rollback, Accept, AcceptRemoval, Cancel, Close
<1>4. CASE Type(p) \/ SwitchHook(p) \/ Select(p) \/ Refresh(p) \/ WindowInstall(p)
           \/ WindowEdit(p) \/ WindowRemove(p) \/ CloseWindow(p)
  BY <1>4 DEF Type, SwitchHook, Select, Refresh, WindowInstall, WindowEdit, WindowRemove, CloseWindow, Open
<1> QED
  BY <1>1, <1>2, <1>3, <1>4 DEF Step, Call

LEMMA StepConfigurations ==
  ASSUME NEW p \in Runs, DOMAIN cfg = Runs, Step(p)
  PROVE  DOMAIN cfg' = Runs /\ \A q \in Runs : q # p => cfg'[q] = cfg[q]
<1>1. UNCHANGED cfg \/ \E x : cfg' = [cfg EXCEPT ![p] = x]
  <2>1. CASE NoCommand(p) \/ ElevateFirst(p) \/ OpenWindow(p) \/ ReadCommand(p) \/ SetOrReset(p)
             \/ InstallOrRemove(p)
    BY <2>1 DEF NoCommand, ElevateFirst, OpenWindow, ReadCommand, SetOrReset, InstallOrRemove
  <2>2. CASE ChangeRegistry(p) \/ ReadConfiguration(p) \/ ChangeConfiguration(p) \/ ChangeDelay(p)
    BY <2>2 DEF ChangeRegistry, ReadConfiguration, ChangeConfiguration, ChangeDelay
  <2>3. CASE Create(p) \/ Rollback(p) \/ Accept(p) \/ AcceptRemoval(p) \/ Cancel(p)
    BY <2>3 DEF Create, Rollback, Accept, AcceptRemoval, Cancel
  <2>4. CASE Type(p) \/ SwitchHook(p) \/ Select(p) \/ Refresh(p) \/ WindowInstall(p)
             \/ WindowEdit(p) \/ WindowRemove(p) \/ CloseWindow(p)
    BY <2>4 DEF Type, SwitchHook, Select, Refresh, WindowInstall, WindowEdit, WindowRemove, CloseWindow
  <2> QED
    BY <2>1, <2>2, <2>3, <2>4 DEF Step, Call
<1> QED
  BY <1>1

\* What a step moves it tells every run that is not to be disturbed.
TellsAll(p) == StoreTyped' /\ \E K : Moves(K) /\ Tells(p, K)

LEMMA QuietTells ==
  ASSUME StoreTyped, NEW p \in Runs, DOMAIN disturbed = Runs, UNCHANGED store,
         UNCHANGED disturbed \/ \E x : disturbed' = [disturbed EXCEPT ![p] = x]
  PROVE  TellsAll(p)
<1>1. Moves({}) /\ StoreTyped'
  BY NothingMoves
<1>2. Tells(p, {})
  BY DEF Tells
<1> QED
  BY <1>1, <1>2 DEF TellsAll

LEMMA UninstallTells == ASSUME StoreTyped, NEW p \in Runs, Uninstall(p) PROVE TellsAll(p)
<1>1. Tells(p, FormKeys)
  BY DisturbTells DEF Uninstall
<1> QED
  BY <1>1, AllMoves, UninstallMoves DEF TellsAll

LEMMA InstallTells ==
  ASSUME StoreTyped, NEW p \in Runs, NEW a, NEW b, NEW c, NEW d, Install(p, InstalledStore(a, b, c, d))
  PROVE  TellsAll(p)
<1>1. Tells(p, FormKeys)
  BY DisturbTells DEF Install
<1> QED
  BY <1>1, AllMoves, InstallMoves DEF TellsAll

LEMMA StepTells ==
  ASSUME SaveInv, NEW p \in Runs, Step(p)
  PROVE  TellsAll(p)
<1>0. StoreTyped /\ DOMAIN disturbed = Runs /\ SaveOf(p) /\ AskedOf(p)
  BY DEF SaveInv, SaveOf
<1> DEFINE Still == UNCHANGED disturbed \/ \E x : disturbed' = [disturbed EXCEPT ![p] = x]
<1>1. CASE NoCommand(p) \/ ElevateFirst(p) \/ ReadCommand(p) \/ SetOrReset(p) \/ OpenWindow(p)
  <2>1. UNCHANGED store /\ Still
    BY <1>1 DEF NoCommand, ElevateFirst, ReadCommand, SetOrReset, OpenWindow, Open
  <2> QED
    BY <1>0, <2>1, QuietTells
<1>2. CASE InstallOrRemove(p)
  <2>1. \/ UNCHANGED <<store, disturbed>> \/ Uninstall(p)
        \/ \E a, b, c, d : Install(p, InstalledStore(a, b, c, d))
    BY <1>2 DEF InstallOrRemove, InstallCommand
  <2> QED
    BY <1>0, <2>1, QuietTells, UninstallTells, InstallTells
<1>3. \A c : Fail(p, c) => Still
  BY DEF Fail
<1>4. CASE ChangeRegistry(p)
  <2>1. CASE UNCHANGED store /\ Fail(p, 6)
    BY <1>0, <1>3, <2>1, QuietTells
  <2>2. CASE /\ store' = [store EXCEPT !.registry =
                            WithValue(@, Head(todo[p]).key, Head(todo[p]).value)]
             /\ disturbed' = Disturb(p, {Head(todo[p]).key})
    <3>1. PICK r : r = Head(todo[p])
      OBVIOUS
    <3>2. Sound(r) /\ InRegistry(r.key)
      BY <1>0, <1>4, <3>1, HeadGood DEF ChangeRegistry, Asking
    <3>3. Moves({r.key}) /\ StoreTyped'
      BY <1>0, <2>2, <3>1, <3>2, RegistryMoves
    <3>4. Tells(p, {r.key})
      BY <2>2, <3>1, DisturbTells
    <3> QED
      BY <3>3, <3>4 DEF TellsAll
  <2> QED
    BY <1>4, <2>1, <2>2 DEF ChangeRegistry
<1>5. CASE ReadConfiguration(p)
  <2>1. UNCHANGED store /\ Still
    BY <1>3, <1>5 DEF ReadConfiguration
  <2> QED
    BY <1>0, <2>1, QuietTells
<1>6. CASE ChangeConfiguration(p)
  <2>1. CASE UNCHANGED store /\ Fail(p, 6)
    BY <1>0, <1>3, <2>1, QuietTells
  <2>2. CASE /\ store' = [store EXCEPT !.scm = Changed(@, cfg[p], Head(todo[p]).key[1],
                                                          Wanted(Head(todo[p])).data)]
             /\ disturbed' = Disturb(p, Touched(Head(todo[p]).key))
    <3>1. PICK r : r = Head(todo[p])
      OBVIOUS
    <3>2. /\ Sound(r) /\ ~InRegistry(r.key) /\ Found(Wanted(r))
          /\ IsList(cfg[p].DependOnService)
      BY <1>0, <1>6, <3>1, HeadGood DEF ChangeConfiguration, SaveOf, CfgOf, Asking
    <3>3. Moves(Touched(r.key)) /\ StoreTyped'
      BY <1>0, <2>2, <3>1, <3>2, ConfigurationMoves
    <3>4. Tells(p, Touched(r.key))
      BY <2>2, <3>1, DisturbTells
    <3> QED
      BY <3>3, <3>4 DEF TellsAll
  <2> QED
    BY <1>6, <2>1, <2>2 DEF ChangeConfiguration
<1>7. CASE ChangeDelay(p)
  <2>1. CASE UNCHANGED store /\ Fail(p, 6)
    BY <1>0, <1>3, <2>1, QuietTells
  <2>2. CASE /\ store' = [store EXCEPT !.scm = WithDelay(@, "Start", Head(todo[p]).value.data)]
             /\ disturbed' = Disturb(p, {Head(todo[p]).key})
    <3>1. Head(todo[p]).key = Key("Start")
      BY <1>0, <1>7 DEF ChangeDelay, SaveOf, DelayOf
    <3>2. Moves({Key("Start")}) /\ StoreTyped'
      BY <1>0, <2>2, DelayMoves
    <3>3. Tells(p, {Key("Start")})
      BY <2>2, <3>1, DisturbTells
    <3> QED
      BY <3>2, <3>3 DEF TellsAll
  <2> QED
    BY <1>7, <2>1, <2>2 DEF ChangeDelay
<1>8. CASE Create(p)
  <2>1. UNCHANGED <<store, disturbed>> \/ \E a, b, c, d : Install(p, InstalledStore(a, b, c, d))
    BY <1>8 DEF Create, InstallSpec
  <2> QED
    BY <1>0, <2>1, QuietTells, InstallTells
<1>9. CASE Rollback(p) \/ AcceptRemoval(p) \/ WindowRemove(p)
  <2>1. UNCHANGED <<store, disturbed>> \/ Uninstall(p)
    BY <1>9 DEF Rollback, AcceptRemoval, WindowRemove
  <2> QED
    BY <1>0, <2>1, QuietTells, UninstallTells
<1>10. CASE Type(p) \/ SwitchHook(p) \/ Accept(p) \/ Cancel(p) \/ Select(p) \/ Refresh(p) \/ CloseWindow(p)
  <2>1. UNCHANGED <<store, disturbed>>
    BY <1>10 DEF Type, SwitchHook, Accept, Cancel, Select, Refresh, CloseWindow
  <2> QED
    BY <1>0, <2>1, QuietTells
<1>11. CASE WindowInstall(p) \/ WindowEdit(p)
  <2>1. UNCHANGED store /\ Still
    BY <1>11 DEF WindowInstall, WindowEdit, Open
  <2> QED
    BY <1>0, <2>1, QuietTells
<1> QED
  BY <1>1, <1>2, <1>4, <1>5, <1>6, <1>7, <1>8, <1>9, <1>10, <1>11 DEF Step, Call

LEMMA StepSave ==
  ASSUME SaveInv, NEW p \in Runs, Step(p)
  PROVE  SaveInv'
<1>0. /\ EditInv /\ RunShape /\ DOMAIN dialog = Runs /\ DOMAIN todo = Runs
      /\ DOMAIN cfg = Runs /\ DOMAIN disturbed = Runs
  BY DEF SaveInv, EditInv, InstallInv, DialogShape
<1>1. EditInv'
  BY <1>0, StepEdit
<1>2. TellsAll(p)
  BY StepTells
<1>3. PICK K : Moves(K) /\ Tells(p, K)
  BY <1>2 DEF TellsAll
<1>4. StoreTyped' /\ DOMAIN disturbed' = Runs
  BY <1>2, <1>3 DEF TellsAll, Tells
<1>5. DOMAIN cfg' = Runs
  BY <1>0, StepConfigurations
<1>6. ASSUME NEW q \in Runs PROVE SaveOf(q)'
  <2>1. CASE q = p
    BY <2>1, OwnSave
  <2>2. CASE q # p
    <3>1. run'[q] = run[q]
      BY <1>0, <2>2, RunWords, StepRuns
    <3>2. dialog'[q] = dialog[q] /\ todo'[q] = todo[q] /\ cfg'[q] = cfg[q]
      BY <1>0, <2>2, StepDialogs, StepTodo, StepConfigurations
    <3>3. Unclosed(q) => Undisturbed(q)
      BY <1>3, <2>2, ToldUndisturbed
    <3>4. SaveOf(q)
      BY DEF SaveInv
    <3> QED
      BY <3>1, <3>2, <3>3, <3>4, OthersSave
  <2> QED
    BY <2>1, <2>2
<1> QED
  BY <1>1, <1>4, <1>5, <1>6 DEF SaveInv

LEMMA SaveStep == SaveInv /\ [Next]_vars => SaveInv'
<1> SUFFICES ASSUME SaveInv, [Next]_vars PROVE SaveInv'
  OBVIOUS
<1>1. CASE Next
  BY <1>1, StepSave DEF Next
<1>2. CASE UNCHANGED vars
  <2>1. EditInv'
    BY EditStep DEF SaveInv
  <2>2. UNCHANGED <<store, run, dialog, todo, cfg, disturbed>>
    BY <1>2 DEF vars
  <2>3. StoreTyped' /\ DOMAIN cfg' = Runs /\ DOMAIN disturbed' = Runs
    BY <2>2 DEF SaveInv, StoreTyped
  <2>4. ASSUME NEW q \in Runs PROVE SaveOf(q)'
    <3>1. SaveOf(q) /\ Undisturbed(q)
      BY <2>2 DEF SaveInv, Undisturbed, Effect
    <3> QED
      BY <2>2, <3>1, OthersSave
  <2> QED
    BY <2>1, <2>3, <2>4 DEF SaveInv
<1> QED
  BY <1>1, <1>2

LEMMA InitSave == Init => SaveInv
<1> SUFFICES ASSUME Init PROVE SaveInv
  OBVIOUS
<1>1. EditInv
  BY InitEdit
<1>2. PICK scenario \in Scenarios :
        /\ store = scenario.store
        /\ run = [p \in Runs |->
                    [pc |-> "launch", argv |-> scenario.argv[p], admin |-> scenario.admin,
                     user |-> scenario.user, elevations |-> 0, result |-> 0]]
  BY DEF Init
<1>3. dialog = [p \in Runs |-> NoDialog] /\ DOMAIN cfg = Runs /\ DOMAIN disturbed = Runs
  BY DEF Init
<1>4. StoreTyped
  <2>1. DOMAIN store = StoreParts /\ DOMAIN store.scm = ScmFields
    BY <1>2, ScenariosAssumption DEF StoreParts
  <2>2. IsList(store.scm.DependOnService)
    BY <1>2, ScenariosAssumption DEF IsList
  <2>3. ASSUME NEW key, Stored(store.registry, key).kind = "multi"
        PROVE  IsList(Stored(store.registry, key).data)
    <3>1. CASE key \in DOMAIN store.registry
      <4>1. Stored(store.registry, key) = store.registry[key]
        BY <3>1 DEF Stored
      <4>2. store.registry[key].kind = "multi" => store.registry[key].data \in Seq(STRING)
        BY <1>2, <3>1, ScenariosAssumption
      <4> QED
        BY <2>3, <4>1, <4>2 DEF IsList
    <3>2. CASE key \notin DOMAIN store.registry
      BY <2>3, <3>2 DEF Stored, Absent
    <3> QED
      BY <3>1, <3>2
  <2> QED
    BY <2>1, <2>2, <2>3 DEF StoreTyped
<1>5. ASSUME NEW p \in Runs PROVE SaveOf(p)
  <2>1. run[p].pc = "launch" /\ run[p].argv = scenario.argv[p] /\ run[p].user = scenario.user
    BY <1>2
  <2>2. WordsOf(p)
    BY <2>1, ScenariosAssumption DEF WordsOf
  <2>3. Sensible(dialog[p])
    BY <1>3, NoDialogSensible
  <2> QED
    BY <2>1, <2>2, <2>3 DEF SaveOf, AskedOf, LoadedOf, SavingOf, CreateOf, CfgOf, DelayOf, Asking
<1> QED
  BY <1>1, <1>3, <1>4, <1>5 DEF SaveInv

-----------------------------------------------------------------------------
(* The end of a save or a command that reports success.                    *)

LEMMA NotFailed ==
  ASSUME RunShape, NEW p \in Runs, Saved(p), NEW c \in {3, 6}, Fail(p, c)
  PROVE  FALSE
<1>1. \A code : code # 0 /\ End(p, code) => run'[p].result # 0
  BY DEF End, RunShape, RunFields
<1>2. CASE Return(p, c)
  <2>1. End(p, c) \/ Elevate(p)
    BY <1>2 DEF Return
  <2>2. ~End(p, c)
    BY <1>1 DEF Saved
  <2>3. ~Elevate(p)
    <3>1. ~End(p, 100)
      BY <1>1 DEF Saved
    <3>2. run' # [run EXCEPT ![p].pc = "launch", ![p].admin = TRUE, ![p].elevations = @ + 1]
      BY DEF Saved, RunShape, RunFields
    <3> QED
      BY <3>1, <3>2 DEF Elevate
  <2> QED
    BY <2>1, <2>2, <2>3
<1>3. CASE GoTo(p, "rollback") \/ GoTo(p, "dialog")
  BY <1>3, GoToRun DEF Saved
<1> QED
  BY <1>2, <1>3 DEF Fail

LEMMA LastOfSave ==
  ASSUME RunShape, NEW p \in Runs, Saved(p), Advance(p, store')
  PROVE  ~(Len(todo[p]) > 1)
<1>1. GoTo(p, "calls") => run'[p].pc = "calls"
  BY GoToRun
<1> QED
  BY <1>1 DEF Advance, Saved

LEMMA SavedByStep ==
  ASSUME SaveInv, NEW p \in Runs, Saved(p), Step(p)
  PROVE  Wrote(p) /\ ~(Len(todo[p]) > 1)
<1>0. /\ RunShape /\ SaveOf(p) /\ AskedOf(p) /\ CfgOf(p) /\ DelayOf(p) /\ StoreTyped
      /\ run[p].pc \in {"calls", "change", "delay"}
  BY DEF SaveInv, SaveOf, EditInv, InstallInv, Saved
<1>1. ChangeRegistry(p) \/ ReadConfiguration(p) \/ ChangeConfiguration(p) \/ ChangeDelay(p)
  <2>1. run[p].pc \notin {"launch", "dialog", "window", "create", "rollback"} /\ run' # run
    BY DEF Saved
  <2> QED
    BY <2>1 DEF Step, Call, NoCommand, ElevateFirst, Manages, OpenWindow, Proceeds, ReadCommand,
       SetOrReset, InstallOrRemove, Create, Rollback, Type, SwitchHook, Accept, AcceptRemoval,
       Cancel, Select, Refresh, WindowInstall, WindowEdit, WindowRemove, CloseWindow
<1>2. \A c \in {3, 6} : ~Fail(p, c)
  BY <1>0, NotFailed
<1>3. Advance(p, store') => ~(Len(todo[p]) > 1)
  BY <1>0, LastOfSave
<1>4. \A c : GoTo(p, c) => c \in {"ended", "window"}
  BY <1>0, GoToRun DEF Saved
<1>5. PICK r : r = Head(todo[p])
  OBVIOUS
<1>6. Sound(r)
  BY <1>0, <1>5, HeadGood DEF Asking
<1>7. CASE ChangeRegistry(p)
  <2>1. /\ InRegistry(r.key) /\ Advance(p, store')
        /\ store' = [store EXCEPT !.registry = WithValue(@, r.key, r.value)]
    BY <1>2, <1>5, <1>7 DEF ChangeRegistry
  <2> QED
    BY <1>0, <1>3, <1>5, <1>6, <2>1, RegistryWrote
<1>8. ~ReadConfiguration(p)
  BY <1>2, <1>4 DEF ReadConfiguration
<1>9. CASE ChangeConfiguration(p)
  <2>1. /\ ~Refused(cfg[p], r.key[1], Wanted(r).data, r.password)
        /\ store' = [store EXCEPT !.scm = Changed(@, cfg[p], r.key[1], Wanted(r).data)]
        /\ r.key[1] # "Start" /\ Advance(p, store')
    BY <1>2, <1>4, <1>5, <1>9 DEF ChangeConfiguration
  <2>2. run[p].pc = "change"
    BY <1>9 DEF ChangeConfiguration
  <2> QED
    BY <1>0, <1>3, <1>5, <1>6, <2>1, <2>2, ConfigurationWrote
<1>10. CASE ChangeDelay(p)
  <2>1. /\ run[p].pc = "delay" /\ Advance(p, store')
        /\ store' = [store EXCEPT !.scm = WithDelay(@, "Start", Head(todo[p]).value.data)]
    BY <1>2, <1>10 DEF ChangeDelay
  <2>2. Sound(Head(todo[p]))
    BY <1>5, <1>6
  <2> QED
    BY <1>0, <1>3, <2>1, <2>2, DelayWrote
<1> QED
  BY <1>1, <1>7, <1>8, <1>9, <1>10

\* The settings of a run's save, or the one of its command, as the store has them.
AsWritten(p) ==
  IF dialog[p].mode # "none"
  THEN \A key \in SavedKeys(p) \ disturbed[p] : ReadsBack(key, Form(p)[key].data)
  ELSE \/ Head(todo[p]).key \in disturbed[p]
       \/ Head(todo[p]).key[1] = "AppExit" /\ ~Found(Head(todo[p]).value)
       \/ ReadsBack(Head(todo[p]).key, Comeback(store.scm, Head(todo[p])))

LEMMA SavedAsWritten ==
  ASSUME SaveInv, [Next]_vars, NEW p \in Runs, Saved(p)
  PROVE  AsWritten(p)
<1>0. RunShape /\ SaveOf(p) /\ AskedOf(p) /\ run[p].pc \in {"calls", "change", "delay"}
  BY DEF SaveInv, SaveOf, EditInv, InstallInv, Saved
<1>1. Step(p)
  <2>1. run'[p] # run[p]
    BY DEF Saved
  <2>2. PICK q \in Runs : Step(q)
    BY <2>1 DEF Next, vars
  <2>3. q # p => run'[p] = run[p]
    BY <1>0, <2>2, RunWords, StepRuns
  <2> QED
    BY <2>1, <2>2, <2>3
<1>2. Wrote(p) /\ ~(Len(todo[p]) > 1)
  BY <1>1, SavedByStep
<1>3. CASE dialog[p].mode # "none"
  <2>1. ASSUME NEW key \in SavedKeys(p) \ disturbed[p] PROVE ReadsBack(key, Form(p)[key].data)
    <3>1. \/ ReadsBack(key, Form(p)[key].data)
          \/ \E i \in DOMAIN todo[p] \ {1} : todo[p][i].key = key
      BY <1>0, <1>2, <1>3, WroteSaved
    <3>2. PICK S : todo[p] \in Seq(S)
      BY <1>0 DEF AskedOf, Asking
    <3>3. DOMAIN todo[p] \subseteq {1}
      <4>1. Len(todo[p]) \in Nat /\ DOMAIN todo[p] = 1 .. Len(todo[p])
        BY <3>2, LenProperties
      <4>2. \A n \in Nat : ~(n > 1) => 1 .. n \subseteq {1}
        OBVIOUS
      <4> QED
        BY <1>2, <4>1, <4>2
    <3> QED
      BY <3>1, <3>3
  <2> QED
    BY <1>3, <2>1 DEF AsWritten
<1>4. CASE dialog[p].mode = "none"
  <2>1. PICK r : r = Head(todo[p])
    OBVIOUS
  <2>2. \/ r.key \in disturbed[p]
        \/ ~Single(r.key) /\ ~Found(r.value)
        \/ ReadsBack(r.key, Comeback(store.scm, r))
    BY <1>2, <2>1 DEF Wrote
  <2>3. ~Single(r.key) => r.key[1] = "AppExit"
    BY DEF Single
  <2> QED
    BY <1>4, <2>1, <2>2, <2>3 DEF AsWritten
<1> QED
  BY <1>3, <1>4

\* However many runs there are, whatever they and other tools have stored and
\* wherever a call fails: when a dialog's save or a command ends and reports
\* success, every setting it answers for reads as it was shown or asked for,
\* unless another run, or an earlier attempt that failed, has changed it since.
THEOREM SavesReadBack == Spec => SaveReadsBack
<1>1. SaveInv /\ [Next]_vars =>
        [\A p \in Runs : Saved(p) =>
           IF dialog[p].mode # "none"
           THEN LET form == Form(p) IN
                \A key \in SavedKeys(p) \ disturbed[p] : ReadsBack(key, form[key].data)
           ELSE LET request == Head(todo[p]) IN
                \/ request.key \in disturbed[p]
                \/ request.key[1] = "AppExit" /\ ~Found(request.value)
                \/ ReadsBack(request.key,
                     IF Found(request.value) THEN AsStored(request.key, request.value).data
                     ELSE DefaultValue(store.scm, request.key[1]).data)]_vars
  BY SavedAsWritten DEF AsWritten, Comeback
<1> QED
  BY <1>1, InitSave, SaveStep, PTL DEF Spec, SaveReadsBack

=============================================================================
