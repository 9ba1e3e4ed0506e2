----------------------------- MODULE ServiceForm -----------------------------
(***************************************************************************)
(* The dialog that installs or edits a service (internal/gui): how a form  *)
(* is made or loaded (model.go), what its controls show of it and what is  *)
(* collected from them (gui_windows.go), and the changes a save asks for.  *)
(*                                                                         *)
(* A form is a function from keys to values; the dialog's contents are a   *)
(* function from controls to what they hold.  A control has the name of    *)
(* the setting it shows, or that of its hook; the Parts show a part of a   *)
(* setting, or several of them.  The list of dependencies is two lists, of *)
(* services and of groups: how their lines are mixed changes nothing.      *)
(***************************************************************************)
EXTENDS SettingCommands

CONSTANTS TrimOf,        \* what is left of a text with blanks around it
          BadNames       \* names no service can have

Text(data) == [kind |-> "sz", data |-> data]

SubparameterKeys ==
    << <<"AppExit", "Default">> >> \o [i \in DOMAIN HookNames |-> <<"AppEvents", HookNames[i]>>]

FormKeys == {Key(name) : name \in ToSet(All) \ RequiresSub} \cup ToSet(SubparameterKeys)

-----------------------------------------------------------------------------
(* Forms.                                                                  *)

DefaultFor(scm, name) ==
    CASE name = "AppEvents" -> [kind |-> "expand", data |-> NoText]
      [] name = "Start" -> Value(name, IF scm.start \in StartNumbers
                                       THEN StartName(scm.start, scm.delayed) ELSE NoText)
      [] name = "Type" -> Value(name, TypeName(IF Interactive(scm.type) THEN 256 ELSE 16))
      [] OTHER -> DefaultValue(scm, name)

NewForm(name) ==
    LET scm == [Name |-> name, DisplayName |-> name, ImagePath |-> NoText,
                start |-> 2, delayed |-> FALSE, type |-> 16]
    IN [key \in FormKeys |-> DefaultFor(scm, key[1])]

LoadForm(store) ==
    LET managed == Managed(store.registry)
        Loaded(key) ==
            LET v == ReadSetting(store.registry, store.scm, key)
            IN IF key[1] \in RequiresSub THEN Found(v) ELSE v.kind = KindOf(key[1])
    IN [key \in FormKeys |->
          IF ~managed /\ InParameters(key[1]) THEN NewForm(Service)[key]
          ELSE IF Loaded(key) THEN ReadSetting(store.registry, store.scm, key)
          ELSE DefaultFor(store.scm, key[1])]

-----------------------------------------------------------------------------
(* The controls.                                                           *)

PlainTexts == {"Application", "AppDirectory", "AppParameters", "DisplayName",
  "Description", "AppStdin", "AppStdout", "AppStderr"}

Trimmed == {"ObjectName", "AppAffinity"}

PlainNumbers == {"AppStopMethodConsole", "AppStopMethodWindow", "AppStopMethodThreads",
  "AppThrottle", "AppRestartDelay", "AppRotateSeconds"}

Ticks == {"AppKillProcessTree", "AppTimestampLog", "AppRotateFiles", "AppRotateOnline",
  "AppRedirectHook"}

StartChoices == <<"SERVICE_AUTO_START", "SERVICE_DELAYED_AUTO_START",
  "SERVICE_DEMAND_START", "SERVICE_DISABLED">>

ActionChoices == <<"Restart", "Ignore", "Exit", "Suicide">>

\* A list offers no text of its own: what it does not have shows as the first.
Choice(choices, text) == IF text \in ToSet(choices) THEN text ELSE choices[1]

\* The controls with the name of a setting of which they show the text or number.
Direct == PlainTexts \cup Trimmed \cup PlainNumbers

Parts == {"Interactive", "Skip", "Truncate", "Bytes", "Dependencies", "Replace", "Lines"}

Controls ==
    Direct \cup Ticks \cup {"AppNoConsole", "Start", "AppPriority", "AppExit", "Name",
                           "Password", "Confirm"} \cup Parts

\* A hook's control is its name.
ASSUME HooksAssumption ==
    HookNames \in Seq(STRING) /\ ToSet(HookNames) \cap Controls = {}

\* What a control is filled with; the others are those of the hooks.
Display(control, form, managed) ==
    LET Of(name) == form[Key(name)].data IN
    CASE control = "Application" -> Of(IF managed THEN "Application" ELSE "ImagePath")
      [] control \in Direct \ {"Application"} -> Of(control)
      [] control \in Ticks -> Of(control) # 0
      [] control = "AppNoConsole" -> Of("AppNoConsole") = 0
      [] control = "Start" -> Choice(StartChoices, Of("Start"))
      [] control = "AppPriority" -> Choice(Priorities, Of("AppPriority"))
      [] control = "AppExit" -> Choice(ActionChoices, form[<<"AppExit", "Default">>].data)
      [] control = "Interactive" -> Of("Type") \in {TypeName(256), TypeName(288)}
      [] control = "Skip" -> Of("AppStopMethodSkip") % 16
      [] control = "Truncate" ->
           2 \in {Of("AppStdoutCreationDisposition"), Of("AppStderrCreationDisposition")}
      [] control = "Bytes" -> <<Of("AppRotateBytes"), Of("AppRotateBytesHigh")>>
      [] control = "Dependencies" ->
           [services |-> Of("DependOnService"), groups |-> Of("DependOnGroup")]
      [] control = "Replace" -> Of("AppEnvironment") # <<>>
      [] control = "Lines" -> IF Of("AppEnvironment") # <<>> THEN Of("AppEnvironment")
                             ELSE Of("AppEnvironmentExtra")
      [] control \in {"Password", "Confirm"} -> NoText
      [] OTHER -> form[<<"AppEvents", control>>].data

Shown(form, managed) ==
    [control \in (Controls \ {"Name"}) \cup ToSet(HookNames) |-> Display(control, form, managed)]

Trim(text) == IF text \in DOMAIN TrimOf THEN TrimOf[text] ELSE text

TrimAll(lines) == [i \in DOMAIN lines |-> Trim(lines[i])]

SplitLines(lines) == Picked(TrimAll(lines), {i \in DOMAIN lines : Trim(lines[i]) # NoText})

\* A flag's tick, as the number that stands for it.
Flag(on) == IF on THEN 1 ELSE 0

\* A mutant: what is to be added replaces as well.
ReplacementAlways(replace, lines) == lines

Replacement(replace, lines) == IF replace THEN lines ELSE <<>>

\* The data that is collected for a setting.  A line is a service or, with a
\* mark before it that may be all of it, a group.
Entered(name, shown) ==
    CASE name \in (Direct \ Trimmed) \cup {"Start", "AppPriority"} -> shown[name]
      [] name \in Trimmed -> Trim(shown[name])
      [] name \in Ticks -> Flag(shown[name])
      [] name = "AppNoConsole" -> Flag(~shown["AppNoConsole"])
      [] name = "AppStopMethodSkip" -> shown["Skip"]
      [] name \in {"AppStdoutCreationDisposition", "AppStderrCreationDisposition"} ->
           IF shown["Truncate"] THEN 2 ELSE 4
      [] name = "AppRotateBytes" -> shown["Bytes"][1]
      [] name = "AppRotateBytesHigh" -> shown["Bytes"][2]
      [] name = "AppEnvironment" -> Replacement(shown["Replace"], SplitLines(shown["Lines"]))
      [] name = "AppEnvironmentExtra" ->
           IF shown["Replace"] THEN <<>> ELSE SplitLines(shown["Lines"])
      [] name = "Type" -> TypeName(IF shown["Interactive"] THEN 256 ELSE 16)
      [] name = "DependOnService" -> SplitLines(shown["Dependencies"].services)
      [] name = "DependOnGroup" -> TrimAll(shown["Dependencies"].groups)

Collects ==
    Direct \cup Ticks \cup
    {"Start", "AppPriority", "AppNoConsole", "AppStopMethodSkip", "AppStdoutCreationDisposition",
     "AppStderrCreationDisposition", "AppRotateBytes", "AppRotateBytesHigh", "AppEnvironment",
     "AppEnvironmentExtra", "Type", "DependOnService", "DependOnGroup"}

\* What is collected for a key; "visited" are the hooks whose command was taken
\* from its control.
Collect(key, form, shown, managed, visited) ==
    CASE key[1] \in Collects /\ (managed \/ ~InParameters(key[1])) ->
           Value(key[1], Entered(key[1], shown))
      [] key[1] = "AppExit" /\ managed -> Text(shown["AppExit"])
      [] key[1] = "AppEvents" /\ managed /\ key[2] \in visited -> Text(shown[key[2]])
      [] OTHER -> form[key]

Collected(form, shown, managed, visited) ==
    [key \in FormKeys |-> Collect(key, form, shown, managed, visited)]

-----------------------------------------------------------------------------
(* Saving.                                                                 *)

\* A number that is not one in 32 bits is -1 in its control.
Readable(shown, managed) ==
    managed => /\ \A name \in PlainNumbers : shown[name] # -1
               /\ -1 \notin ToSet(shown["Bytes"])

Validate(form, original, edit, managed, name, shown) ==
    LET Of(setting) == form[Key(setting)].data
        account == Of("ObjectName")
        unchanged == edit /\ account = original[Key("ObjectName")].data
    IN /\ name \notin BadNames
       /\ managed => /\ Of("Application") # NoText
                     /\ Of("AppAffinity") \in Masks \cup {NoText}
                     /\ form[<<"AppExit", "Default">>].data \in Actions
       /\ \/ account \in Special \cup {NoText}
          \/ unchanged /\ shown["Password"] = NoText /\ shown["Confirm"] = NoText
          \/ shown["Password"] # NoText /\ shown["Password"] = shown["Confirm"]
       /\ \A setting \in {"AppEnvironment", "AppEnvironmentExtra"} :
            ToSet(SplitLines(Of(setting))) \subseteq DOMAIN EntryOf

\* The default directory of a new service is the application's.
InstallSpec(form) ==
    LET Of(name) == form[Key(name)].data
    IN InstalledStore(IF Of("DisplayName") = NoText THEN Service ELSE Of("DisplayName"),
                      Of("Application"),
                      IF Of("AppDirectory") # NoText THEN Of("AppDirectory")
                      ELSE IF DirectoryOf[Of("Application")] = NoText THEN "."
                      ELSE DirectoryOf[Of("Application")],
                      Of("AppParameters"))

\* Empty texts and defaults are deleted where deleting means the default.
WriteValue(key, v, password) ==
    LET name == key[1]
        reset == IF name \in DOMAIN Numbers THEN PlanWriteNumber(name, v.data) = "reset"
                 ELSE IF name \in Lists THEN v.data = <<>>
                 ELSE v.data = NoText \/ PlanWriteString(name, v.data) = "reset"
        resettable == \/ InParameters(name)
                      \/ name \in {"Environment", "Description", "DependOnService", "DependOnGroup"}
    IN IF reset /\ resettable THEN Delete(key) ELSE Write(key, v, password)

\* An edit writes what differs from what was loaded, an installation all that
\* InstallService has not written.
Persist(form, original, edit, managed, password) ==
    LET all == [i \in DOMAIN All |-> Key(All[i])] \o SubparameterKeys
        Skips(key) ==
            \/ key \notin FormKeys \/ key[1] \in {"Name", "ImagePath"}
            \/ ~managed /\ InParameters(key[1])
            \/ edit /\ ValuesEqual(form[key], original[key])
            \/ ~edit /\ key[1] \in {"Application", "AppDirectory", "AppParameters"}
        keys == Picked(all, DOMAIN all \ {i \in DOMAIN all : Skips(all[i])})
    IN [i \in DOMAIN keys |->
          WriteValue(keys[i], form[keys[i]], keys[i][1] = "ObjectName" /\ password)]

=============================================================================
