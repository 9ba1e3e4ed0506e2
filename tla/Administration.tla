---------------------------- MODULE Administration ----------------------------
(***************************************************************************)
(* Several runs of the program that administer one service at once: the    *)
(* commands that change a setting, the dialogs that install, edit or       *)
(* remove the service, and the management window that opens them           *)
(* (internal/app, internal/gui, internal/platform).                        *)
(*                                                                         *)
(* A change of a registry value is one step.  A change in the service      *)
(* control manager reads the configuration, then changes it, and a start   *)
(* type takes one more call.  Any call may fail, and what a run is not     *)
(* allowed to change is denied.                                            *)
(***************************************************************************)
EXTENDS ServiceForm, Launch

CONSTANTS Runs,          \* the runs of the program
          Scenarios,     \* the stores, command lines and users to begin with
          MaxTyped,      \* controls a user changes in one dialog
          MaxDialogs,    \* dialogs a user opens from one management window
          MaxFaults      \* calls that fail for no reason of their own

ASSUME BoundsAssumption == MaxTyped \in Nat /\ MaxDialogs \in Nat /\ MaxFaults \in Nat

Nobody == "nobody"

ASSUME RunsAssumption == Nobody \notin Runs

ScmFields == {"Name", "DisplayName", "Description", "ImagePath", "ObjectName", "start",
              "delayed", "type"} \cup Dependencies

\* A box of choices holds one of them, and the boxes of lines hold lines.
FitsControl(control, contents) ==
    /\ control = "AppPriority" => contents \in ToSet(Priorities)
    /\ control = "Lines" => contents \in Seq(STRING)
    /\ control = "Dependencies" => contents.services \in Seq(STRING)

ASSUME ScenariosAssumption ==
    \A scenario \in Scenarios :
        /\ DOMAIN scenario.store = {"registry", "scm", "installed"}
        /\ DOMAIN scenario.store.scm = ScmFields
        /\ scenario.store.scm.DependOnService \in Seq(STRING)
        /\ \A key \in DOMAIN scenario.store.registry :
             LET v == scenario.store.registry[key]
             IN v.kind = "multi" => v.data \in Seq(STRING)
        /\ \A p \in Runs : scenario.argv[p] \in Seq(STRING)
        /\ \A gesture \in scenario.user : FitsControl(gesture[1], gesture[2])

VARIABLES
    store,      \* [registry, scm, installed]
    creator,    \* the run that created the service that is installed, if it has
                \* opened no dialog since
    run,        \* per run: [pc, argv, admin, user, elevations, result]; the user
                \* is what may be put in a control, as pairs <<control, contents>>
    window,     \* per run: the management window
    dialog,     \* per run: the dialog that is open
    todo,       \* per run: the changes it has still to make
    cfg,        \* per run: the configuration its change has read
    disturbed,  \* per run: the keys that changed under its dialog or command
    faults      \* calls that may still fail

vars == <<store, creator, run, window, dialog, todo, cfg, disturbed, faults>>

NoWindow == [open |-> FALSE, all |-> FALSE, listed |-> FALSE, selected |-> FALSE, dialogs |-> 0]

Dialog(mode, name, original, managed) ==
    [mode |-> mode, name |-> name, original |-> original, managed |-> managed,
     typed |-> <<>>, hook |-> HookNames[1], visited |-> {},
     attempted |-> {}, failed |-> FALSE, left |-> FALSE]

NoDialog == Dialog("none", NoText, <<>>, FALSE)

Init ==
    \E scenario \in Scenarios :
        /\ store = scenario.store
        /\ run = [p \in Runs |->
                    [pc |-> "launch", argv |-> scenario.argv[p], admin |-> scenario.admin,
                     user |-> scenario.user, elevations |-> 0, result |-> 0]]
        /\ creator = Nobody
        /\ window = [p \in Runs |-> NoWindow]
        /\ dialog = [p \in Runs |-> NoDialog]
        /\ todo = [p \in Runs |-> <<>>]
        /\ cfg = [p \in Runs |-> <<>>]
        /\ disturbed = [p \in Runs |-> {}]
        /\ faults = MaxFaults

-----------------------------------------------------------------------------
(* The ends of a run.                                                      *)

Calling == {"calls", "change", "delay", "create", "rollback"}

GoTo(p, pc) == run' = [run EXCEPT ![p].pc = pc]

End(p, code) == run' = [run EXCEPT ![p].pc = "ended", ![p].result = code]

\* The run starts again as an administrator's, with the same words, unless the
\* user declines.
Elevate(p) ==
    \/ run' = [run EXCEPT ![p].pc = "launch", ![p].admin = TRUE, ![p].elevations = @ + 1]
    \/ End(p, 100)

Return(p, code) ==
    IF ShouldElevate(run[p].argv, code, run[p].admin) THEN Elevate(p) ELSE End(p, code)

\* What a window lists after it has asked again.
Refreshed(w, st) ==
    LET listed == st.installed /\ (w.all \/ Managed(st.registry))
    IN [w EXCEPT !.listed = listed, !.selected = @ /\ listed]

\* A dialog goes back to the window that owns it, or ends the run.
Close(p, st) ==
    /\ dialog' = [dialog EXCEPT ![p] = NoDialog]
    /\ IF window[p].open
       THEN GoTo(p, "window") /\ window' = [window EXCEPT ![p] = Refreshed(@, st)]
       ELSE Return(p, 0) /\ UNCHANGED window

Open(p, d) ==
    /\ dialog' = [dialog EXCEPT ![p] = d]
    /\ disturbed' = [disturbed EXCEPT ![p] = {}]
    /\ creator' = IF creator = p THEN Nobody ELSE creator
    /\ GoTo(p, "dialog")

-----------------------------------------------------------------------------
(* The beginning of a run.                                                 *)

Manages(p) ==
    /\ run[p].pc = "launch"
    /\ ResolveMode(run[p].argv, TRUE, "failed") = "manager"

\* A run without a console may be the control manager's.
NoCommand(p) ==
    /\ run[p].pc = "launch"
    /\ \E console \in BOOLEAN, service \in {"served", "not a service", "failed"} :
         LET mode == ResolveMode(run[p].argv, console, service)
         IN mode # "manager" /\ End(p, CodeOf(mode))
    /\ UNCHANGED <<store, creator, window, dialog, todo, cfg, disturbed, faults>>

ElevateFirst(p) ==
    /\ Manages(p)
    /\ ~TooShort(run[p].argv)
    /\ NeedsElevation(run[p].argv, run[p].admin)
    /\ Elevate(p)
    /\ UNCHANGED <<store, creator, window, dialog, todo, cfg, disturbed, faults>>

Proceeds(p) ==
    /\ Manages(p)
    /\ ~TooShort(run[p].argv)
    /\ ~NeedsElevation(run[p].argv, run[p].admin)

\* A service that may not be opened looks like one that is not there.
Seen(p) ==
    {store} \cup (IF run[p].admin THEN {} ELSE {[store EXCEPT !.installed = FALSE]})

OpenWindow(p) ==
    /\ Proceeds(p)
    /\ OpensWindow(run[p].argv)
    /\ LET name == CommandOf(run[p].argv)
           service == IF Arguments(run[p].argv) = <<>> THEN NoText ELSE Arguments(run[p].argv)[1]
       IN \/ /\ name = "gui"
             /\ window' = [window EXCEPT ![p] = Refreshed([@ EXCEPT !.open = TRUE], store)]
             /\ GoTo(p, "window")
             /\ UNCHANGED <<dialog, disturbed, creator>>
          \/ /\ name \in {"install", "remove"}
             /\ Open(p, Dialog(name, service, NewForm(service), TRUE))
             /\ UNCHANGED window
          \/ /\ name = "edit"
             /\ \E seen \in Seen(p) :
                  IF service # NoText /\ seen.installed
                  THEN Open(p, Dialog("edit", Service, LoadForm(store), Managed(store.registry)))
                  ELSE /\ Return(p, IF service = NoText THEN 1 ELSE 3)
                       /\ UNCHANGED <<dialog, disturbed, creator>>
             /\ UNCHANGED window
    /\ UNCHANGED <<store, todo, cfg, faults>>

\* A command that only reads, or has nothing to do with settings.
ReadCommand(p) ==
    /\ Manages(p)
    /\ \/ TooShort(run[p].argv) /\ End(p, 1)
       \/ /\ Proceeds(p) /\ ~OpensWindow(run[p].argv)
          /\ LET name == CommandOf(run[p].argv) args == Arguments(run[p].argv)
             IN \/ name = "get" /\ \E seen \in Seen(p) : Return(p, GetCommand(seen, args))
                \/ name = "dump" /\ \E seen \in Seen(p) :
                     Return(p, IF Len(args) > 2 THEN 1 ELSE IF seen.installed THEN 0 ELSE 3)
                \/ name = "list" /\ Return(p, IF args \in {<<>>, <<"all">>} THEN 0 ELSE 1)
                \/ /\ name \notin {"get", "set", "reset", "unset", "dump", "list", "install", "remove"}
                   /\ \E code \in {0, 1, 3} : Return(p, code)
    /\ UNCHANGED <<store, creator, window, dialog, todo, cfg, disturbed, faults>>

SetOrReset(p) ==
    /\ Proceeds(p)
    /\ CommandOf(run[p].argv) \in {"set", "reset", "unset"}
    /\ \E seen \in Seen(p) :
         LET args == Arguments(run[p].argv)
             outcome == IF CommandOf(run[p].argv) = "set" THEN SetCommand(seen, args)
                        ELSE ResetCommand(seen, args)
         IN IF outcome.requests = <<>>
            THEN Return(p, outcome.code) /\ UNCHANGED <<todo, disturbed>>
            ELSE /\ todo' = [todo EXCEPT ![p] = outcome.requests]
                 /\ disturbed' = [disturbed EXCEPT ![p] = {}]
                 /\ GoTo(p, "calls")
    /\ UNCHANGED <<store, creator, window, dialog, cfg, faults>>

-----------------------------------------------------------------------------
(* What is in a dialog, the form it stands for and the changes to save it. *)

Contents(p) ==
    LET typed == dialog[p].typed
        shown == Shown(dialog[p].original, dialog[p].managed)
    IN [control \in DOMAIN shown \cup {"Name"} |->
          IF control \in DOMAIN typed THEN typed[control]
          ELSE IF control = "Name" THEN dialog[p].name ELSE shown[control]]

Form(p) ==
    Collected(dialog[p].original, Contents(p), dialog[p].managed,
              dialog[p].visited \cup {dialog[p].hook})

Changes(p) ==
    Persist(Form(p), dialog[p].original, dialog[p].mode = "edit", dialog[p].managed,
            Contents(p)["Password"] # NoText)

-----------------------------------------------------------------------------
(* The calls that change the store.                                        *)

\* Whether a call that could succeed does.
Outcome(ok) == ok \/ faults > 0

CountFault(could, ok) == faults' = IF could /\ ~ok THEN faults - 1 ELSE faults

\* The settings that share a list change together.
Touched(key) ==
    IF key[1] \in Dependencies THEN {Key(name) : name \in Dependencies} ELSE {key}

Disturb(p, keys) ==
    [q \in Runs |-> IF q = p \/ run[q].pc \in {"launch", "window", "ended"} THEN disturbed[q]
                    ELSE disturbed[q] \cup keys]

\* The next change, or the end of a save that went well.
Advance(p, st) ==
    /\ todo' = [todo EXCEPT ![p] = Tail(@)]
    /\ IF Len(todo[p]) > 1 THEN GoTo(p, "calls") /\ UNCHANGED <<window, dialog>>
       ELSE IF dialog[p].mode = "none" THEN Return(p, 0) /\ UNCHANGED <<window, dialog>>
       ELSE Close(p, st)

\* A new service is rolled back; an editor stays open, with what it has
\* written left as it is.
Fail(p, code) ==
    /\ todo' = [todo EXCEPT ![p] = <<>>]
    /\ \/ dialog[p].mode = "none" /\ Return(p, code) /\ UNCHANGED <<dialog, disturbed>>
       \/ dialog[p].mode = "install" /\ GoTo(p, "rollback") /\ UNCHANGED <<dialog, disturbed>>
       \/ /\ dialog[p].mode = "edit"
          /\ GoTo(p, "dialog")
          /\ dialog' = [dialog EXCEPT ![p].failed = TRUE]
          /\ disturbed' = [disturbed EXCEPT ![p] = @ \cup dialog[p].attempted]
    /\ UNCHANGED window

\* The value to change to, with what a deletion stands for in the control manager.
Wanted(request) ==
    IF Found(request.value) THEN request.value ELSE ResetOf(request.key[1])

ChangeRegistry(p) ==
    /\ run[p].pc = "calls"
    /\ LET request == Head(todo[p]) IN
       /\ InRegistry(request.key)
       /\ \E ok \in BOOLEAN :
            /\ Outcome(ok) \/ ~run[p].admin
            /\ ok => run[p].admin
            /\ CountFault(run[p].admin, ok)
            /\ IF ok
               THEN /\ store' = [store EXCEPT !.registry = WithValue(@, request.key, request.value)]
                    /\ disturbed' = Disturb(p, {request.key})
                    /\ Advance(p, store')
               ELSE /\ Fail(p, 6)
                    /\ UNCHANGED store
    /\ UNCHANGED <<creator, cfg>>

\* The configuration is read for the fields that a change leaves as they are.
ReadConfiguration(p) ==
    /\ run[p].pc = "calls"
    /\ ~InRegistry(Head(todo[p]).key)
    /\ LET request == Head(todo[p])
           possible == Found(Wanted(request)) /\ request.key[1] # "Name"
       IN IF possible /\ store.installed
          THEN /\ cfg' = [cfg EXCEPT ![p] = store.scm]
               /\ GoTo(p, "change")
               /\ UNCHANGED <<window, dialog, todo, disturbed>>
          ELSE /\ Fail(p, IF possible THEN 3 ELSE 6)
               /\ UNCHANGED cfg
    /\ UNCHANGED <<store, creator, faults>>

ChangeConfiguration(p) ==
    /\ run[p].pc = "change"
    /\ LET request == Head(todo[p])
           name == request.key[1]
           data == Wanted(request).data
           could == /\ store.installed /\ run[p].admin
                    /\ ~Refused(cfg[p], name, data, request.password)
       IN \E ok \in BOOLEAN :
            /\ Outcome(ok) \/ ~could
            /\ ok => could
            /\ CountFault(could, ok)
            /\ IF ok
               THEN /\ store' = [store EXCEPT !.scm = Changed(@, cfg[p], name, data)]
                    /\ disturbed' = Disturb(p, Touched(request.key))
                    /\ IF name = "Start" THEN GoTo(p, "delay") /\ UNCHANGED <<window, dialog, todo>>
                       ELSE Advance(p, store')
               ELSE /\ Fail(p, 6)
                    /\ UNCHANGED store
    /\ cfg' = [cfg EXCEPT ![p] = <<>>]
    /\ UNCHANGED creator

ChangeDelay(p) ==
    /\ run[p].pc = "delay"
    /\ \E ok \in BOOLEAN :
         /\ Outcome(ok) \/ ~store.installed
         /\ ok => store.installed
         /\ CountFault(store.installed, ok)
         /\ IF ok
            THEN /\ store' = [store EXCEPT !.scm = WithDelay(@, "Start", Head(todo[p]).value.data)]
                 /\ disturbed' = Disturb(p, {Head(todo[p]).key})
                 /\ Advance(p, store')
            ELSE /\ Fail(p, 6)
                 /\ UNCHANGED store
    /\ UNCHANGED <<creator, cfg>>

\* What is left under a service's key by a change made after its removal comes
\* back with a new service of that name.
Install(p, st) ==
    /\ store' = [st EXCEPT !.registry = Over(@, store.registry)]
    /\ creator' = p
    /\ disturbed' = Disturb(p, FormKeys)

\* RemoveService, which deletes the service's key with all its values.
Removed == [store EXCEPT !.installed = FALSE, !.registry = <<>>]

Uninstall(p) ==
    /\ store' = Removed
    /\ creator' = Nobody
    /\ disturbed' = Disturb(p, FormKeys)

InstallOrRemove(p) ==
    /\ Proceeds(p)
    /\ ~OpensWindow(run[p].argv)
    /\ LET args == Arguments(run[p].argv) IN
       \/ /\ CommandOf(run[p].argv) = "install"
          /\ \E ok \in BOOLEAN :
               /\ Outcome(ok) \/ store.installed
               /\ ok => ~store.installed
               /\ CountFault(~store.installed, ok)
               /\ IF ok THEN Install(p, InstallCommand(args)) /\ Return(p, 0)
                  ELSE Return(p, 5) /\ UNCHANGED <<store, creator, disturbed>>
       \/ /\ CommandOf(run[p].argv) = "remove"
          /\ \E ok \in BOOLEAN :
               LET confirmed == Len(args) = 2 /\ args[2] = "confirm"
                   could == confirmed /\ store.installed
               IN /\ Outcome(ok) \/ ~could
                  /\ ok => could
                  /\ CountFault(could, ok)
                  /\ IF ok THEN Uninstall(p) /\ Return(p, 0)
                     ELSE /\ Return(p, IF ~confirmed THEN 100 ELSE IF could THEN 4 ELSE 3)
                          /\ UNCHANGED <<store, creator, disturbed>>
    /\ UNCHANGED <<window, dialog, todo, cfg>>

-----------------------------------------------------------------------------
(* The dialogs.                                                            *)

ControlManagerControls == {"Name", "DisplayName", "Description", "Start", "ObjectName",
    "Password", "Confirm", "Interactive", "Dependencies"}

\* The pages for our own parameters are disabled for a service that is not ours.
Type(p) ==
    /\ run[p].pc = "dialog"
    /\ \E gesture \in run[p].user :
         LET control == gesture[1] IN
         /\ dialog[p].mode = "remove" => control = "Name"
         /\ dialog[p].mode = "edit" => control # "Name"
         /\ dialog[p].managed \/ control \in ControlManagerControls
         /\ control \in ToSet(HookNames) => control = dialog[p].hook
         /\ Contents(p)[control] # gesture[2]
         /\ Cardinality(DOMAIN dialog[p].typed \cup {control}) <= MaxTyped
         /\ dialog' = [dialog EXCEPT ![p].typed = Over([c \in {control} |-> gesture[2]], @)]
    /\ UNCHANGED <<store, creator, run, window, todo, cfg, disturbed, faults>>

SwitchHook(p) ==
    /\ run[p].pc = "dialog"
    /\ dialog[p].mode # "remove" /\ dialog[p].managed
    /\ \E hook \in ToSet(HookNames) \ {dialog[p].hook} :
         dialog' = [dialog EXCEPT ![p].hook = hook, ![p].visited = @ \cup {dialog[p].hook}]
    /\ UNCHANGED <<store, creator, run, window, todo, cfg, disturbed, faults>>

Valid(p) ==
    /\ Readable(Contents(p), dialog[p].managed)
    /\ Validate(Form(p), dialog[p].original, dialog[p].mode = "edit", dialog[p].managed,
                Contents(p)["Name"], Contents(p))

\* An invalid form shows what is wrong with it and stays.  What is to be written
\* is settled here: the form does not change while it is saved.
Accept(p) ==
    /\ run[p].pc = "dialog"
    /\ dialog[p].mode \in {"install", "edit"}
    /\ Valid(p)
    /\ LET changes == Changes(p) IN
       IF dialog[p].mode = "edit" /\ changes = <<>> THEN Close(p, store) /\ UNCHANGED todo
       ELSE /\ todo' = [todo EXCEPT ![p] = changes]
            /\ dialog' = [dialog EXCEPT ![p].attempted = {changes[i].key : i \in DOMAIN changes}]
            /\ GoTo(p, IF dialog[p].mode = "install" THEN "create" ELSE "calls")
            /\ UNCHANGED window
    /\ UNCHANGED <<store, creator, cfg, disturbed, faults>>

Create(p) ==
    /\ run[p].pc = "create"
    /\ \E ok \in BOOLEAN :
         /\ Outcome(ok) \/ store.installed
         /\ ok => ~store.installed
         /\ CountFault(~store.installed, ok)
         /\ IF ok
            THEN Install(p, InstallSpec(Form(p))) /\ GoTo(p, "calls") /\ UNCHANGED <<dialog, todo>>
            ELSE /\ dialog' = [dialog EXCEPT ![p].failed = TRUE]
                 /\ todo' = [todo EXCEPT ![p] = <<>>]
                 /\ GoTo(p, "dialog") /\ UNCHANGED <<store, creator, disturbed>>
    /\ UNCHANGED <<window, cfg>>

\* A mutant: the dialog goes on without a roll back.
RollbackForgotten(p) ==
    /\ run[p].pc = "rollback"
    /\ dialog' = [dialog EXCEPT ![p].failed = TRUE]
    /\ GoTo(p, "dialog")
    /\ UNCHANGED <<store, creator, window, todo, cfg, disturbed, faults>>

\* A mutant: it is tried until it works.
RollbackUntilGone(p) ==
    /\ run[p].pc = "rollback"
    /\ IF store.installed THEN Uninstall(p) /\ GoTo(p, "dialog")
       ELSE UNCHANGED <<store, creator, disturbed, run>>
    /\ UNCHANGED <<window, dialog, todo, cfg, faults>>

\* By name, and without a look at whether it worked.
Rollback(p) ==
    /\ run[p].pc = "rollback"
    /\ \E ok \in BOOLEAN :
         /\ Outcome(ok) \/ ~store.installed
         /\ ok => store.installed
         /\ CountFault(store.installed, ok)
         /\ IF ok THEN Uninstall(p) ELSE UNCHANGED <<store, creator, disturbed>>
         /\ dialog' = [dialog EXCEPT ![p].failed = TRUE,
                                     ![p].left = @ \/ (store.installed /\ ~ok)]
    /\ GoTo(p, "dialog")
    /\ UNCHANGED <<window, todo, cfg>>

\* Removal, once the user has confirmed it.
AcceptRemoval(p) ==
    /\ run[p].pc = "dialog"
    /\ dialog[p].mode = "remove"
    /\ Contents(p)["Name"] \notin BadNames
    /\ \E ok \in BOOLEAN :
         /\ Outcome(ok) \/ ~store.installed
         /\ ok => store.installed
         /\ CountFault(store.installed, ok)
         /\ IF ok THEN Uninstall(p) /\ Close(p, Removed)
            ELSE /\ dialog' = [dialog EXCEPT ![p].failed = TRUE]
                 /\ UNCHANGED <<store, creator, disturbed, run, window>>
    /\ UNCHANGED <<todo, cfg>>

Cancel(p) ==
    /\ run[p].pc = "dialog"
    /\ Close(p, store)
    /\ UNCHANGED <<store, creator, todo, cfg, disturbed, faults>>

-----------------------------------------------------------------------------
(* The management window.                                                  *)

Select(p) ==
    /\ run[p].pc = "window"
    /\ window[p].listed /\ ~window[p].selected
    /\ window' = [window EXCEPT ![p].selected = TRUE]
    /\ UNCHANGED <<store, creator, run, dialog, todo, cfg, disturbed, faults>>

Refresh(p) ==
    /\ run[p].pc = "window"
    /\ \E all \in BOOLEAN :
         window' = [window EXCEPT ![p] = Refreshed([@ EXCEPT !.all = all], store)]
    /\ UNCHANGED <<store, creator, run, dialog, todo, cfg, disturbed, faults>>

CountDialog(p) ==
    /\ window[p].dialogs < MaxDialogs
    /\ window' = [window EXCEPT ![p].dialogs = @ + 1]

WindowInstall(p) ==
    /\ run[p].pc = "window"
    /\ Open(p, Dialog("install", NoText, NewForm(NoText), TRUE))
    /\ CountDialog(p)
    /\ UNCHANGED <<store, todo, cfg, faults>>

\* A service that is gone keeps its row until the next refresh.
WindowEdit(p) ==
    /\ run[p].pc = "window"
    /\ window[p].selected /\ store.installed
    /\ Open(p, Dialog("edit", Service, LoadForm(store), Managed(store.registry)))
    /\ CountDialog(p)
    /\ UNCHANGED <<store, todo, cfg, faults>>

WindowRemove(p) ==
    /\ run[p].pc = "window"
    /\ window[p].selected /\ store.installed
    /\ \E ok \in BOOLEAN :
         /\ Outcome(ok) /\ CountFault(TRUE, ok)
         /\ IF ok
            THEN Uninstall(p) /\ window' = [window EXCEPT ![p] = Refreshed(@, Removed)]
            ELSE UNCHANGED <<store, creator, disturbed, window>>
    /\ UNCHANGED <<run, dialog, todo, cfg>>

CloseWindow(p) ==
    /\ run[p].pc = "window"
    /\ window' = [window EXCEPT ![p] = NoWindow]
    /\ Return(p, 0)
    /\ UNCHANGED <<store, creator, dialog, todo, cfg, disturbed, faults>>

Call(p) ==
    \/ ChangeRegistry(p) \/ ReadConfiguration(p) \/ ChangeConfiguration(p)
    \/ ChangeDelay(p) \/ Create(p) \/ Rollback(p)

Step(p) ==
    \/ NoCommand(p) \/ ElevateFirst(p) \/ OpenWindow(p) \/ ReadCommand(p)
    \/ SetOrReset(p) \/ InstallOrRemove(p) \/ Call(p)
    \/ Type(p) \/ SwitchHook(p) \/ Accept(p) \/ AcceptRemoval(p) \/ Cancel(p)
    \/ Select(p) \/ Refresh(p) \/ WindowInstall(p) \/ WindowEdit(p)
    \/ WindowRemove(p) \/ CloseWindow(p)

Next == \E p \in Runs : Step(p)

\* The system lets a run that is making a call go on with it.
Fairness == \A p \in Runs : WF_vars(Call(p))

Spec == Init /\ [][Next]_vars /\ Fairness

-----------------------------------------------------------------------------
(* Properties.                                                             *)

\* `get` shows the action for every code whatever its kind, the supervisor takes
\* only a text (app/command.go readEffective, supervisor/config.go
\* resolveExitAction): they part for a code that has no text of its own when the
\* action for every code is of a kind that none of ansm's commands writes.
ShownOtherwise(registry, code) ==
    /\ code # "Default"
    /\ Stored(registry, <<"AppExit", code>>).kind # "sz"
    /\ Stored(registry, <<"AppExit", "Default">>).kind \notin {"none", "sz"}

\* What the supervisor reads when it starts the program is what `get` shows,
\* defaults included (supervisor/config.go, app/command.go): whichever run
\* wrote a value last, and whatever other tools have put there, but for the
\* exit actions over which the two part.
RuntimeAgreesWithGet ==
    LET Get(key) == Effective(store.registry, store.scm, key).data
        config == LoadConfig(store.registry)
    IN /\ \A name \in DOMAIN Numbers : config.number[name] = Get(Key(name))
       /\ config.priority = ParsePriority(Get(Key("AppPriority")))
       /\ \A name \in Expanded \ {"ImagePath"} :
            ReadString(store.registry, config.environment, name)
              = ExpandPercent(config.environment, Get(Key(name)))
       /\ \A code \in ExitCodes \cup {"Default"} :
            \/ ShownOtherwise(store.registry, code)
            \/ ResolveExitAction(store.registry, code) = ParseAction(Get(<<"AppExit", code>>))

\* The controls through which a user changes what is stored under a key.
ControlsOf(key) ==
    CASE key[1] = "AppEvents" -> {key[2]}
      [] key[1] = "Type" -> {"Interactive"}
      [] key[1] = "AppStopMethodSkip" -> {"Skip"}
      [] key[1] \in {"AppStdoutCreationDisposition", "AppStderrCreationDisposition"} -> {"Truncate"}
      [] key[1] \in {"AppRotateBytes", "AppRotateBytesHigh"} -> {"Bytes"}
      [] key[1] \in {"AppEnvironment", "AppEnvironmentExtra"} -> {"Lines", "Replace"}
      [] key[1] \in {"DependOnService", "DependOnGroup"} -> {"Dependencies"}
      [] OTHER -> {key[1]}

Untouched(p, key) == ControlsOf(key) \cap DOMAIN dialog[p].typed = {}

\* Whether the controls can hold what was loaded under a key.
Showable(form, key) ==
    LET name == key[1] data == form[key].data IN
    CASE name \in Ticks \cup {"AppNoConsole"} -> data \in {0, 1}
      [] name = "AppStopMethodSkip" -> data \in 0..15
      [] name = "AppPriority" -> data \in ToSet(Priorities)
      [] name = "AppExit" -> data \in Actions
      [] name = "Start" -> data \in ToSet(StartChoices)
      [] name = "Type" -> data \in {"SERVICE_WIN32_OWN_PROCESS", "SERVICE_INTERACTIVE_PROCESS"}
      [] name \in {"AppStdoutCreationDisposition", "AppStderrCreationDisposition"} ->
           /\ data \in {2, 4}
           /\ form[Key("AppStdoutCreationDisposition")].data
                = form[Key("AppStderrCreationDisposition")].data
      [] name = "AppEnvironmentExtra" ->
           SplitLines(data) = data /\ <<>> \in {data, form[Key("AppEnvironment")].data}
      [] name \in {"AppEnvironment", "DependOnService"} -> SplitLines(data) = data
      [] name = "DependOnGroup" -> TrimAll(data) = data
      [] name \in Trimmed -> Trim(data) = data
      [] OTHER -> TRUE

\* The text or number that a request of a save comes to.
Asked(p, request) ==
    IF Found(request.value) THEN request.value.data
    ELSE DefaultFor(store.scm, request.key[1]).data

Editing(p) == dialog[p].mode = "edit" /\ run[p].pc \in Calling

\* An edit changes no setting whose control the user left alone, but for those
\* whose value the control cannot show; the hook on display may be written
\* again, with the command it had, and so may an exit action of another kind
\* (gui/gui_windows.go populate and collect, gui/model.go persist).
RewritesOnlyTheUnshowable ==
    \A p \in Runs : Editing(p) =>
        \A i \in DOMAIN todo[p] :
            LET key == todo[p][i].key IN
            Untouched(p, key) =>
                \/ ~Showable(dialog[p].original, key)
                \/ /\ key[1] \in RequiresSub
                   /\ Asked(p, todo[p][i]) = dialog[p].original[key].data

\* "Edit writes changed values only" (docs/T9-gui.md): what an edit writes to
\* a setting whose control the user left alone is what was there.
EditWritesChangedValuesOnly ==
    \A p \in Runs : Editing(p) =>
        \A i \in DOMAIN todo[p] :
            LET key == todo[p][i].key IN
            Untouched(p, key) => Asked(p, todo[p][i]) = dialog[p].original[key].data

\* The settings that a save answers for.  A hook that another tool has stored as
\* no text is shown as it is, and only in the dialog.
SavedKeys(p) ==
    {key \in FormKeys :
       /\ key[1] \notin {"Name", "ImagePath"}
       /\ dialog[p].managed \/ ~InParameters(key[1])
       /\ CompatibleKind(key[1], Form(p)[key])
       /\ key = Key("AppDirectory") =>
            dialog[p].mode = "edit" \/ Form(p)[key].data # NoText}

Saved(p) ==
    /\ run[p].pc \in {"calls", "change", "delay"}
    /\ run'[p].pc \in {"ended", "window"}
    /\ run'[p].result = 0

ReadsBack(key, data) == Effective(store'.registry, store'.scm, key).data = data

\* A save or a command that reports success has left every setting as it was
\* shown or asked for, but for those that another run, or an earlier attempt
\* that failed, changed in between (gui/model.go Save, app/command.go set,
\* platform WriteSetting).  A code's own exit action that is the default is
\* deleted, and the action for every code then holds.
SaveReadsBack ==
    [][\A p \in Runs : Saved(p) =>
         IF dialog[p].mode # "none"
         THEN LET form == Form(p) IN
              \A key \in SavedKeys(p) \ disturbed[p] : ReadsBack(key, form[key].data)
         ELSE LET request == Head(todo[p]) IN
              \/ request.key \in disturbed[p]
              \/ request.key[1] = "AppExit" /\ ~Found(request.value)
              \/ ReadsBack(request.key,
                   IF Found(request.value) THEN AsStored(request.key, request.value).data
                   ELSE DefaultValue(store.scm, request.key[1]).data)]_vars

\* A dialog that could not save a new service has left none behind, unless the
\* removal failed too (gui/model.go Save; docs/T9-gui.md: "rolls it back when
\* any later setting write fails").
FailedInstallLeavesNothing ==
    \A p \in Runs :
        (dialog[p].mode = "install" /\ run[p].pc = "dialog" /\ ~dialog[p].left)
            => ~(store.installed /\ creator = p)

Replayed ==
    FoldLeft(LAMBDA st, key :
               LET outcome == SetCommand(st, DumpLine(store, key))
               IN IF outcome.requests = <<>> THEN st ELSE Perform(st, outcome.requests[1]),
             InstallCommand(<<Service, Effective(store.registry, store.scm, Key("Application")).data>>),
             DumpCommand(store))

\* A stored list without a line.
EmptyList == [found |-> TRUE, entries |-> <<>>]

\* A code's own action comes to the default: `dump` leaves it out as a default, or
\* has a line that `set` refuses.
OwnDefault(registry, code) ==
    LET own == Stored(registry, <<"AppExit", code>>)
    IN own.kind = "sz" /\ ParseAction(own.data) = "Restart"


\* A run asks for administrator rights at most once, and a command that is
\* tried again because it was denied hands on no more than its name and the
\* service's (cli/commands.go ShouldElevate, app/command.go RunCommand).
ElevatesAtMostOnce ==
    \A p \in Runs :
        /\ run[p].elevations <= 1
        /\ run[p].elevations = 1 =>
             /\ run[p].admin
             /\ Commands[CommandOf(run[p].argv)].elevation = "denied" => Len(run[p].argv) = 3

\* A save, a command or a roll back comes to an end (gui/model.go Save).
CallsEnd == \A p \in Runs : run[p].pc \in Calling ~> run[p].pc \notin Calling

=============================================================================
