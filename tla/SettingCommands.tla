---------------------------- MODULE SettingCommands ----------------------------
(***************************************************************************)
(* The commands that read and change settings (internal/app/command.go):   *)
(* get, set, reset, dump and install, as functions of what is stored.      *)
(*                                                                         *)
(* A store is [registry, scm, installed].  A command's arguments are texts,*)
(* the service's name first; a text of several words is one text here.  A  *)
(* command is refused with an exit code or asks the manager for one change.*)
(***************************************************************************)
EXTENDS StartConfig

CONSTANTS NumberOf,      \* the number a text stands for, on the texts that are numbers
          Service,       \* the service's name
          Executable     \* the path of ansm itself

Write(key, value, password) == [key |-> key, value |-> value, password |-> password]

Delete(key) == Write(key, Absent, FALSE)

Refuse(code) == [code |-> code, requests |-> <<>>]

Ask(request) == [code |-> 0, requests |-> <<request>>]

KeyOf(args) == Location(args[2], IF args[2] \in RequiresSub THEN args[3] ELSE NoText)

ValidHook(key) == key[1] # "AppEvents" \/ key[2] \in ToSet(HookNames)

-----------------------------------------------------------------------------
(* get.                                                                    *)

DefaultValue(scm, name) ==
    CASE name \in DOMAIN Numbers -> Value(name, Numbers[name])
      [] name \in DOMAIN DefaultTexts -> Value(name, DefaultTexts[name])
      [] name \in Lists -> Value(name, <<>>)
      [] name \in {"Name", "DisplayName", "ImagePath"} -> Value(name, scm[name])
      [] name = "Start" -> Value(name, StartText(scm.start))
      [] name = "Type" -> Value(name, TypeName(scm.type))
      [] OTHER -> Value(name, NoText)

CompatibleKind(name, v) ==
    v.kind = KindOf(name) \/ (name = "AppEvents" /\ v.kind = "expand")

Effective(registry, scm, key) ==
    LET v == ReadSetting(registry, scm, key)
        forAll == Stored(registry, <<"AppExit", "Default">>)
    IN IF CompatibleKind(key[1], v) THEN v
       ELSE IF key[1] = "AppExit" /\ key[2] # "Default" /\ Found(forAll) THEN forAll
       ELSE DefaultValue(scm, key[1])

\* The code that settingRequest refuses a command with, -1 if it does not.
SettingRequest(store, args) ==
    IF \/ Len(args) < 2
       \/ args[2] \notin ToSet(All)
       \/ (args[2] \in RequiresSub /\ Len(args) < 3) THEN 1
    ELSE IF ~store.installed THEN 3
    ELSE IF ~Managed(store.registry) /\ InParameters(args[2]) THEN 1
    ELSE -1

GetCommand(store, args) ==
    IF Len(args) > 3 THEN 1
    ELSE IF SettingRequest(store, args) >= 0 THEN SettingRequest(store, args)
    ELSE IF ~ValidHook(KeyOf(args)) THEN 5 ELSE 0

-----------------------------------------------------------------------------
(* set and reset.                                                          *)

ValidValue(key, texts) ==
    CASE key[1] \in DOMAIN Numbers -> texts[1] \in DOMAIN NumberOf
      [] key[1] = "AppExit" -> texts[1] \in Actions
      [] key[1] = "AppEvents" -> ValidHook(key)
      [] key[1] = "AppAffinity" -> texts[1] \in Masks \cup {NoText}
      [] key[1] = "AppPriority" -> texts[1] \in ToSet(Priorities)
      [] OTHER -> TRUE

PlanSet(key, texts) ==
    LET name == key[1] IN
    CASE name \in DOMAIN Numbers ->
           IF PlanWriteNumber(name, NumberOf[texts[1]]) = "reset" THEN Delete(key)
           ELSE Write(key, Value(name, NumberOf[texts[1]]), FALSE)
      [] name \in Lists -> Write(key, Value(name, texts), FALSE)
      [] OTHER ->
           IF PlanWriteString(name, texts[1]) = "reset" THEN Delete(key)
           ELSE Write(key, Value(name, texts[1]), name = "ObjectName" /\ Len(texts) > 1)

SetCommand(store, args) ==
    LET code == SettingRequest(store, args)
        texts == SubSeq(args, IF args[2] \in RequiresSub THEN 4 ELSE 3, Len(args))
    IN IF code >= 0 THEN Refuse(code)
       ELSE IF texts = <<>> THEN Refuse(1)
       ELSE IF ~ValidValue(KeyOf(args), texts) THEN Refuse(6)
       ELSE Ask(PlanSet(KeyOf(args), texts))

\* A default to write back equals itself: it always comes to a deletion.
ResetCommand(store, args) ==
    LET code == SettingRequest(store, args)
    IN IF Len(args) > 3 THEN Refuse(1)
       ELSE IF code >= 0 THEN Refuse(code)
       ELSE IF ~ValidHook(KeyOf(args)) THEN Refuse(6)
       ELSE Ask(Delete(KeyOf(args)))

\* What a change asked for by itself leaves, with nothing else going on.
Perform(store, request) ==
    LET name == request.key[1]
        v == IF Found(request.value) THEN request.value ELSE ResetOf(name)
    IN IF InRegistry(request.key)
       THEN [store EXCEPT !.registry = WithValue(@, request.key, request.value)]
       ELSE IF ~Found(v) \/ Refused(store.scm, name, v.data, request.password) THEN store
       ELSE [store EXCEPT !.scm = WithDelay(Changed(@, @, name, v.data), name, v.data)]

-----------------------------------------------------------------------------
(* install and dump.                                                       *)

\* What InstallService leaves; ServiceControl has its steps.
InstalledStore(display, application, directory, parameters) ==
    [installed |-> TRUE,
     registry |-> LET data == [Application |-> application, AppDirectory |-> directory,
                               AppParameters |-> parameters, AppExit |-> "Restart"]
                  IN [key \in {Location(name, NoText) : name \in DOMAIN data} |->
                        Value(key[1], data[key[1]])],
     scm |-> [Name |-> Service, DisplayName |-> display, Description |-> NoText,
              ImagePath |-> Executable, ObjectName |-> "LocalSystem",
              start |-> 2, delayed |-> FALSE, type |-> 16,
              DependOnService |-> <<>>, DependOnGroup |-> <<>>]]

InstallCommand(args) ==
    InstalledStore(args[1], args[2], DirectoryOf[args[2]],
                   IF Len(args) > 2 THEN args[3] ELSE NoText)

IsDefault(scm, name, v) == v.data = (IF name \in Lists THEN <<>> ELSE DefaultValue(scm, name).data)


\* Exit codes are listed with the one for every code first.
Subparameters(registry, name) ==
    LET subs == {key[2] : key \in {k \in DOMAIN registry : k[1] = name}}
    IN IF name = "AppExit"
       THEN (IF "Default" \in subs THEN <<"Default">> ELSE <<>>) \o SetToSeq(subs \ {"Default"})
       ELSE SelectSeq(HookNames, LAMBDA hook : hook \in subs)

\* The lines `set` of a dump, as keys.
DumpCommand(store) ==
    LET KeysOf(name) ==
            IF name \in {"Application", "ImagePath", "Name"} THEN <<>>
            ELSE IF ~Managed(store.registry) /\ InParameters(name) THEN <<>>
            ELSE IF name \notin RequiresSub THEN <<Key(name)>>
            ELSE LET subs == Subparameters(store.registry, name)
                 IN [i \in DOMAIN subs |-> <<name, subs[i]>>]
    IN SelectSeq(FlattenSeq([i \in DOMAIN All |-> KeysOf(All[i])]),
           LAMBDA key : ~IsDefault(store.scm, key[1], Effective(store.registry, store.scm, key)))

\* A number is shown as the text that stands for it.
DumpLine(store, key) ==
    LET data == Effective(store.registry, store.scm, key).data
    IN <<Service, key[1]>>
         \o (IF key[1] \in RequiresSub THEN <<key[2]>> ELSE <<>>)
         \o (CASE key[1] \in DOMAIN Numbers ->
                    <<CHOOSE text \in DOMAIN NumberOf : NumberOf[text] = data>>
               [] key[1] \in Lists -> data
               [] OTHER -> <<data>>)
         \o (IF key[1] = "ObjectName" /\ data # "LocalSystem" THEN <<"****">> ELSE <<>>)

=============================================================================
