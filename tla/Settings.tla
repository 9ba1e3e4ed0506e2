------------------------------- MODULE Settings -------------------------------
(***************************************************************************)
(* What ansm stores of a service and how: the catalog of settings with its *)
(* default-value rules (internal/settings), the registry values under the *)
(* service's Parameters key and the configuration the service control      *)
(* manager keeps (internal/platform).                                      *)
(*                                                                         *)
(* A text stands for itself up to letter case, which every comparison of   *)
(* the code ignores; a list is a sequence of texts.  A key is a setting    *)
(* and its subparameter.                                                   *)
(***************************************************************************)
EXTENDS Integers, FiniteSets, SequencesExt, FiniteSetsExt, TLC

CONSTANTS HookNames,     \* the hooks, in the order of hooks.All
          Special,       \* accounts that have no password
          ExitCodes      \* exit codes, as texts, that may have an action of their own

\* The empty text, and the subparameter of a setting that has none.
NoText == ""

Key(name) == <<name, NoText>>

\* The elements of a sequence at the places in I, in order.
Picked(s, I) ==
    [k \in 1..Cardinality(I) |-> s[CHOOSE i \in I : Cardinality({j \in I : j <= i}) = k]]

-----------------------------------------------------------------------------
(* The catalog.                                                            *)

\* The order in which an editor writes, a dump lists and Lookup searches.
All == <<"Application", "AppParameters", "AppDirectory", "AppExit", "AppEvents",
  "AppAffinity", "AppEnvironment", "AppEnvironmentExtra", "AppNoConsole",
  "AppPriority", "AppRestartDelay", "AppStdin", "AppStdinShareMode",
  "AppStdinCreationDisposition", "AppStdinFlagsAndAttributes", "AppStdout",
  "AppStdoutShareMode", "AppStdoutCreationDisposition",
  "AppStdoutFlagsAndAttributes", "AppStdoutCopyAndTruncate", "AppStderr",
  "AppStderrShareMode", "AppStderrCreationDisposition",
  "AppStderrFlagsAndAttributes", "AppStderrCopyAndTruncate",
  "AppStopMethodSkip", "AppStopMethodConsole", "AppStopMethodWindow",
  "AppStopMethodThreads", "AppKillProcessTree", "AppThrottle",
  "AppRedirectHook", "AppRotateFiles", "AppRotateOnline", "AppRotateSeconds",
  "AppRotateBytes", "AppRotateBytesHigh", "AppRotateDelay", "AppTimestampLog",
  "DependOnGroup", "DependOnService", "Description", "DisplayName",
  "Environment", "ImagePath", "ObjectName", "Name", "Start", "Type">>

Numbers == [AppNoConsole |-> 0, AppRestartDelay |-> 0, AppStdinShareMode |-> 2,
  AppStdinCreationDisposition |-> 3, AppStdinFlagsAndAttributes |-> 128,
  AppStdoutShareMode |-> 3, AppStdoutCreationDisposition |-> 4,
  AppStdoutFlagsAndAttributes |-> 128, AppStdoutCopyAndTruncate |-> 0,
  AppStderrShareMode |-> 3, AppStderrCreationDisposition |-> 4,
  AppStderrFlagsAndAttributes |-> 128, AppStderrCopyAndTruncate |-> 0,
  AppStopMethodSkip |-> 0, AppStopMethodConsole |-> 1500,
  AppStopMethodWindow |-> 1500, AppStopMethodThreads |-> 1500,
  AppKillProcessTree |-> 1, AppThrottle |-> 1500, AppRedirectHook |-> 0,
  AppRotateFiles |-> 0, AppRotateOnline |-> 0, AppRotateSeconds |-> 0,
  AppRotateBytes |-> 0, AppRotateBytesHigh |-> 0, AppRotateDelay |-> 0,
  AppTimestampLog |-> 0]

DefaultTexts == [Application |-> NoText, AppParameters |-> NoText, AppDirectory |-> NoText,
  AppExit |-> "Restart", AppEvents |-> NoText, AppPriority |-> "NORMAL_PRIORITY_CLASS",
  Description |-> NoText, ObjectName |-> "LocalSystem"]

Lists == {"AppEnvironment", "AppEnvironmentExtra", "DependOnGroup",
          "DependOnService", "Environment"}

Expanded == {"Application", "AppParameters", "AppDirectory", "AppStdin",
             "AppStdout", "AppStderr", "ImagePath"}

InSCM == {"DependOnGroup", "DependOnService", "Description", "DisplayName",
          "Environment", "ImagePath", "ObjectName", "Name", "Start", "Type"}

RequiresSub == {"AppExit", "AppEvents"}

KindOf(name) == CASE name \in DOMAIN Numbers -> "dword"
                  [] name \in Lists -> "multi"
                  [] name \in Expanded -> "expand"
                  [] OTHER -> "sz"

Value(name, data) == [kind |-> KindOf(name), data |-> data]

Absent == [kind |-> "none", data |-> NoText]

Found(v) == v.kind # "none"

ValuesEqual(a, b) == a.kind = b.kind /\ a.data = b.data

\* A value equal to the default is not stored.
PlanWriteString(name, text) ==
    IF name \in DOMAIN DefaultTexts /\ DefaultTexts[name] # NoText /\ text = DefaultTexts[name]
    THEN "reset" ELSE "set"

PlanWriteNumber(name, number) == IF number = Numbers[name] THEN "reset" ELSE "set"

-----------------------------------------------------------------------------
(* Registry values.                                                        *)

\* The subparameter under which the value of AppExit for every code is kept.
Location(name, sub) ==
    IF name = "AppExit" /\ sub \in {NoText, "*"} THEN <<name, "Default">> ELSE <<name, sub>>

InParameters(name) == name \notin InSCM

InRegistry(key) == InParameters(key[1]) \/ key[1] = "Environment"

\* A list is stored with a terminator after each text and one at its end: when
\* it is read, an empty text ends it.
EncodeThenDecode(strings) ==
    LET empty == {i \in DOMAIN strings : strings[i] = NoText}
    IN IF empty = {} THEN strings ELSE SubSeq(strings, 1, Min(empty) - 1)

\* A group has a mark before its name in the list: none is empty there.
AsStored(key, v) ==
    CASE key[1] = "AppEvents" -> [v EXCEPT !.kind = "expand"]
      [] v.kind = "multi" /\ key[1] # "DependOnGroup" -> [v EXCEPT !.data = EncodeThenDecode(@)]
      [] OTHER -> v

\* All of f, and what g has besides.
Over(f, g) == [x \in DOMAIN f \cup DOMAIN g |-> IF x \in DOMAIN f THEN f[x] ELSE g[x]]

WithValue(registry, key, v) ==
    IF Found(v) THEN Over([k \in {key} |-> AsStored(key, v)], registry)
    ELSE [k \in DOMAIN registry \ {key} |-> registry[k]]

-----------------------------------------------------------------------------
(* The configuration in the service control manager.                       *)

TypeNumbers == {1, 2, 16, 32, 256, 288}

TypeName(number) ==
    CASE number = 1 -> "SERVICE_KERNEL_DRIVER"
      [] number = 2 -> "SERVICE_FILE_SYSTEM_DRIVER"
      [] number = 16 -> "SERVICE_WIN32_OWN_PROCESS"
      [] number = 32 -> "SERVICE_WIN32_SHARE_PROCESS"
      [] number = 256 -> "SERVICE_INTERACTIVE_PROCESS"
      [] number = 288 -> "SERVICE_WIN32_SHARE_PROCESS|SERVICE_INTERACTIVE_PROCESS"
      [] OTHER -> "?"

ParseType(text) == {number \in TypeNumbers : TypeName(number) = text}

Interactive(number) == (number \div 256) % 2 = 1

\* The numbers of the start types that have a name.
StartNumbers == {2, 3, 4}

\* The others are shown in digits.
StartText(number) ==
    CASE number = 2 -> "SERVICE_AUTO_START"
      [] number = 3 -> "SERVICE_DEMAND_START"
      [] number = 4 -> "SERVICE_DISABLED"
      [] OTHER -> "digits"

StartName(number, delayed) ==
    IF number = 2 /\ delayed THEN "SERVICE_DELAYED_AUTO_START" ELSE StartText(number)

ParseStart(text) ==
    IF text = "SERVICE_DELAYED_AUTO_START" THEN {2}
    ELSE {number \in StartNumbers : StartText(number) = text}

\* The manager keeps one list of dependencies, in which a group has a mark that
\* no service's name begins with: it is two lists here, since how their entries
\* are mixed changes nothing.
Dependencies == {"DependOnService", "DependOnGroup"}

\* The new entries, with those of the other list as they were read before.
MergedDependencies(scm, cfg, name, names) ==
    [scm EXCEPT
       !.DependOnService = IF name = "DependOnService" THEN names ELSE cfg.DependOnService,
       !.DependOnGroup = IF name = "DependOnGroup" THEN names ELSE cfg.DependOnGroup]

\* A registry is a function on the keys it has a value for.
Stored(registry, key) == IF key \in DOMAIN registry THEN registry[key] ELSE Absent

\* A service is ours when its parameters name an application.
Managed(registry) == Found(Stored(registry, Key("Application")))

ReadSetting(registry, scm, key) ==
    LET name == key[1] IN
    CASE InRegistry(key) -> Stored(registry, key)
      [] name = "Start" -> Value(name, StartName(scm.start, scm.delayed))
      [] name = "Type" -> Value(name, TypeName(scm.type))
      [] name \in Dependencies ->
           IF scm[name] = <<>> THEN Absent ELSE Value(name, scm[name])
      [] OTHER -> Value(name, scm[name])

-----------------------------------------------------------------------------
(* Changes.  A request is a key with the value to write, or Absent to      *)
(* delete what is stored.                                                  *)

\* What a deletion writes to the service control manager, if it is possible.
ResetOf(name) ==
    CASE name \in {"Description", "ObjectName"} -> Value(name, DefaultTexts[name])
      [] name \in Dependencies -> Value(name, <<>>)
      [] OTHER -> Absent

\* WriteSetting refuses what the configuration read before does not allow.
Refused(cfg, name, data, password) ==
    CASE name = "Name" -> TRUE
      [] name = "ObjectName" -> \/ Interactive(cfg.type) /\ data # "LocalSystem"
                                \/ data \notin Special /\ ~password
      [] name = "Start" -> ParseStart(data) = {}
      [] name = "Type" -> \/ ParseType(data) = {}
                          \/ /\ Interactive(CHOOSE t \in ParseType(data) : TRUE)
                             /\ cfg.ObjectName # "LocalSystem"
      [] OTHER -> FALSE

\* ChangeServiceConfig with the fields that WriteSetting fills from cfg, the
\* configuration it has read, and the new value.
Changed(scm, cfg, name, data) ==
    CASE name = "Start" -> [scm EXCEPT !.start = CHOOSE s \in ParseStart(data) : TRUE]
      [] name = "Type" -> [scm EXCEPT !.type = CHOOSE t \in ParseType(data) : TRUE]
      [] name \in Dependencies ->
           MergedDependencies(scm, cfg, name, AsStored(Key(name), Value(name, data)).data)
      [] OTHER -> [scm EXCEPT ![name] = data]

\* A mutant: a delay is set and never taken back.
WithDelayKept(scm, name, data) ==
    IF data = "SERVICE_DELAYED_AUTO_START" THEN [scm EXCEPT !.delayed = TRUE] ELSE scm

\* The second call that a change of the start type makes.
WithDelay(scm, name, data) ==
    IF name = "Start" THEN [scm EXCEPT !.delayed = (data = "SERVICE_DELAYED_AUTO_START")] ELSE scm

=============================================================================
